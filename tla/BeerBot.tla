------------------------------ MODULE BeerBot ------------------------------
(***************************************************************************)
(* The whole sketch: setup() and loop() of beerbot.ino with the display,   *)
(* the internet channel, the text message channel and the SD card, which   *)
(* share one thread, the display's globals, the LEDs and the last id.      *)
(*                                                                         *)
(* The order of a pass is GLCDTask, BeerBotTask, SM5100RxTask and          *)
(* SM5100StateMachine.  A task that waits keeps all the others waiting,    *)
(* while the modem, the network and the people outside go on.              *)
(***************************************************************************)
EXTENDS Cosm, Sms, FiniteSets

CONSTANT MaxEvents   \* bound on the kinds of events of one behaviour

ASSUME BeerBotAssumption == MaxEvents \in Nat

\* Each of these happens at most once in a behaviour.
Events == {"feed update", "text message", "network lost", "power cut"}

VARIABLE events   \* history: those that have happened

vars == <<pc, glcdVars, storeVars, leds, clientVars, cosmVars, smsVars, events>>

-----------------------------------------------------------------------------
Init ==
  /\ pc = "GLCDTask"
  /\ GlcdInit
  /\ StoreInit
  /\ CosmInit
  /\ SmsInit
  /\ events = {}

\* The tasks of one pass, and what each leaves alone.
Display == /\ GLCDTask
           /\ UNCHANGED <<storeVars, leds, clientVars, cosmVars, smsVars>>

Internet == /\ BeerBotTask
            /\ UNCHANGED smsVars

Card == /\ writeToAuthSD
        /\ UNCHANGED <<leds, clientVars, cosmVars, smsVars>>

Phone == /\ SM5100RxTask \/ SM5100StateMachine
         /\ UNCHANGED <<clientVars, cosmVars>>

loop == (Display \/ Internet \/ Card \/ Phone) /\ UNCHANGED events

-----------------------------------------------------------------------------
Once(event) ==
  /\ event \notin events
  /\ Cardinality(events) < MaxEvents
  /\ events' = events \cup {event}

programVars == <<pc, glcdVars, storeVars, leds, cosm>>

\* Events of the network during the other tasks are the same to the program as
\* events before BeerBotTask begins: nothing else looks at the shield.
NetworkEvent == /\ pc \in {"BeerBotTask", "WiFiWait", "WaitConnack", "LoopRead",
                           "publish", "BeerBotStatus"}
                /\ UNCHANGED smsVars

NoNetwork == WiFiNotJoined /\ UNCHANGED <<smsVars, events>>

Arrival == /\ NetworkEvent
           /\ Arrive
           /\ UNCHANGED <<programVars, wifi, feed, passes, events>>

Silence == /\ NetworkEvent
           /\ wire = <<>> /\ inbox = <<>>
           /\ KeepaliveRunsOut
           /\ UNCHANGED <<programVars, wifi, feed, passes, events>>

NetworkLost == /\ NetworkEvent
               /\ Once("network lost")
               /\ WiFiLost

Update == /\ NetworkEvent
          /\ Once("feed update")
          /\ \E code \in Codes : Publish(code)

\* Likewise for the modem: what comes in during the other tasks is there when
\* SM5100RxTask begins.  Lines that arrive in pieces are left to SmsSpec.
ModemEvent == /\ pc \in {"SM5100RxTask", "SM5100StateMachine"}
              /\ UNCHANGED <<clientVars, cosmVars>>

Arrives == /\ ModemEvent
           /\ line # <<>>
           /\ Len(rx) + Len(line) <= RxCap
           /\ rx' = rx \o line
           /\ line' = <<>>
           /\ UNCHANGED <<pc, glcdVars, storeVars, leds, sms, modem, events>>

Start == ModemEvent /\ ModemStarts /\ UNCHANGED events

TextMessage == /\ ModemEvent
               /\ Once("text message")
               /\ modem.textMode
               /\ \E code \in Codes : ModemSends(Text(code))

TimePasses == /\ TimeoutRunsOut
              /\ UNCHANGED <<clientVars, cosmVars, events>>

PowerCut == /\ Once("power cut")
            /\ pc' = "GLCDTask"
            /\ GlcdPowerOn /\ StorePowerOn /\ CosmPowerOn /\ SmsPowerOn

Next == \/ loop \/ NoNetwork
        \/ Arrival \/ Silence \/ NetworkLost \/ Update
        \/ Arrives \/ Start \/ TextMessage \/ TimePasses
        \/ PowerCut

Spec == Init /\ [][Next]_vars

\* loop() goes on, and so does time; network, server, wire and modem do what they
\* have begun.
FairSpec == /\ Spec
            /\ WF_vars(loop) /\ WF_vars(TimePasses)
            /\ SF_vars(Arrival) /\ SF_vars(Silence)
            /\ SF_vars(Arrives) /\ SF_vars(Start)

-----------------------------------------------------------------------------
TypeOK ==
  /\ GlcdTypeOK /\ StoreTypeOK /\ CosmTypeOK /\ SmsTypeOK
  /\ events \subseteq Events

\* DisplayTellsBoth: when the display is about to be drawn, its COSM and GSM
\* lines say what the two channels believe, although either channel writes the
\* same globals between two drawings (wifi.ino:154-226, sms.ino:246-289).
DisplayTellsBoth ==
  (pc = "GLCDTask" /\ ~disp.ShowSpashScreen) =>
     /\ disp.status["COSM"] = "OK" <=> cosm.CosmState = "CosmSubscribed"
     /\ sms.SM5100State = "SM5100WForSms" => disp.status["GSM"] = "OK"

\* CardNeverStale: outside writeToAuthSD the file, if it has contents, holds the id
\* in RAM, whichever channel wrote last, whatever write to the card failed, and
\* whatever the power cut came between (wifi.ino:306-310, 402-414, sms.ino:324-328).
CardNeverStale ==
  (sdReady /\ pc \notin StoreSteps) =>
     compareArrays(LastApprovalId, authFile.data)

\* ServesPromise: whatever both channels do to DispState, beers and approvals
\* pair up as VendPromise says (glcd.ino:90-149).
Promise == INSTANCE VendPromise
             WITH granted <- approvals, served <- vends,
                  owed <- (disp.DispState = "DispVending")
ServesPromise == Promise!Spec

\* BothChannelsComeUp: with a network in reach and the power on, both channels
\* come up, after the last loss of the network again, and stay up together, provided
\* that the set-up commands meet a modem that is ready (SmsSpec shows that they need
\* not) and no status lines run into one another to an error (beerbot.ino:69-81).
ModemInStep ==
  /\ sms.SM5100State = "SM5100WForSms" => modem.todo = <<>>
  /\ sms.SM5100State # "SM5100Error"
BothChannelsComeUp ==
  []("power cut" \notin events /\ ModemInStep) =>
  <>[](/\ cosm.CosmState = "CosmSubscribed" /\ session = "subscribed"
       /\ sms.SM5100State = "SM5100WForSms" /\ modem.textMode)
=============================================================================
