------------------------------ MODULE CosmSpec ------------------------------
(***************************************************************************)
(* The internet channel with the display and the store, without the text   *)
(* message channel, on a network that fails now and then: the WiFi or the  *)
(* connection is lost, the server closes, refuses or cannot be reached, an *)
(* answer comes after the keepalive, the shield misreports its status.     *)
(***************************************************************************)
EXTENDS Cosm

CONSTANTS MaxPublished,  \* bound on the values published in one behaviour
          MaxFailures    \* bound on the failures of one behaviour

ASSUME CosmSpecAssumption == MaxPublished \in Nat /\ MaxFailures \in Nat

VARIABLES published,  \* values published so far
          failures,   \* failures so far
          current     \* history: SUBSCRIBE was written on this connection

specVars == <<published, failures, current>>
vars == <<pc, glcdVars, storeVars, leds, clientVars, cosmVars, specVars>>

-----------------------------------------------------------------------------
Init ==
  /\ pc = "GLCDTask"
  /\ GlcdInit
  /\ StoreInit
  /\ CosmInit
  /\ published = 0
  /\ failures = 0
  /\ current = FALSE

\* The history of the connection that a step of BeerBotTask leaves behind.
Connection ==
  current' = ((current \/ (cosm.CosmState = "CosmConnected"
                             /\ cosm'.CosmState = "CosmSubscribed"))
               /\ sock' # "none" /\ pc' # "WaitConnack")

Program == /\ BeerBotTask
           /\ Connection
           /\ UNCHANGED <<published, failures>>

Failure(A) == /\ failures < MaxFailures
              /\ failures' = failures + 1
              /\ A
              /\ UNCHANGED published

ProgramFails == Failure(BeerBotTaskFailing /\ Connection)

\* SM5100RxTask and SM5100StateMachine are left out.
SmsTasks ==
  /\ pc = "SM5100RxTask"
  /\ pc' = "GLCDTask"
  /\ UNCHANGED <<glcdVars, storeVars, leds, clientVars, cosmVars>>

Others == /\ \/ GLCDTask /\ UNCHANGED storeVars
             \/ writeToAuthSD
             \/ SmsTasks
          /\ UNCHANGED <<leds, clientVars, cosmVars, specVars>>

Step == Program \/ Others

outside == <<pc, glcdVars, storeVars, leds, cosmVars>>

Arrival == Arrive /\ UNCHANGED <<outside, specVars>>

\* An answer that is on its way comes in time, unless that is the failure.
Quiet == wire = <<>> /\ inbox = <<>>
Silence == Quiet /\ KeepaliveRunsOut /\ UNCHANGED <<outside, specVars>>
LateAnswer == Failure(~Quiet /\ KeepaliveRunsOut /\ UNCHANGED <<outside, current>>)

Update ==
  /\ published < MaxPublished
  /\ published' = published + 1
  /\ \E code \in Codes : Publish(code)
  /\ UNCHANGED <<failures, current>>

NetworkFails ==
  Failure(/\ \/ WiFiLost
             \/ (ConnectionLost \/ ServerCloses) /\ UNCHANGED outside
          /\ UNCHANGED current)

GivenUp == ServerTimesOut /\ UNCHANGED specVars

Next == \/ Step \/ ProgramFails
        \/ Arrival \/ Silence \/ LateAnswer \/ Update \/ NetworkFails \/ GivenUp

Spec == Init /\ [][Next]_vars

\* loop() goes on, the network delivers, and time passes.
FairSpec == /\ Spec
            /\ WF_vars(Step)
            /\ WF_vars(Arrival)
            /\ WF_vars(Silence)
            /\ WF_vars(GivenUp)

-----------------------------------------------------------------------------
\* SubscribedHere: the bot believes to be subscribed only on a connection on
\* which it has subscribed, not on a later one (wifi.ino:154-203, 220-226).
SubscribedHere ==
  (cosm.CosmState = "CosmSubscribed" /\ sock \in {"open", "closeWait"}) => current

\* PassMeansApproved: "2,PASS" is never written without an approval, nor twice
\* for one, however often a value is delivered (wifi.ino:300, 311, 316).
PassMeansApproved == passes <= approvals

\* DisplayTellsCosm: whenever the display is about to be drawn, COSM:OK and the
\* state of the subscription agree, and a subscribed bot has the LEDs of line 4
\* of the truth table (WifiShield_and_Cosm_Notes:25-29).
DisplayTellsCosm ==
  (pc = "GLCDTask" /\ ~disp.ShowSpashScreen) =>
     /\ disp.status["COSM"] = "OK" <=> cosm.CosmState = "CosmSubscribed"
     /\ cosm.CosmState = "CosmSubscribed" =>
          leds.WiFi /\ Blink(leds) = "Blinking"

\* SubscribedInTheEnd: when the network stops failing the bot connects and
\* subscribes again ("Connect to cosm, subscribe to feed",
\* WifiShield_and_Cosm_Notes:20-22), from wherever the failures left it.
SubscribedInTheEnd ==
  <>[](cosm.CosmState = "CosmSubscribed" /\ session = "subscribed")

\* Refused: connect() returns false, because the client looks connected.
Refused == cosm.CosmState = "CosmDisconnected" /\ connected

\* RecoversUnlessRefused: there is one way only never to be subscribed again: a
\* connection that joining the WiFi again has left open, which connect() refuses
\* to replace (wifi.ino:154-165, PubSubClient.cpp:42).
RecoversUnlessRefused == <>[]Refused \/ SubscribedInTheEnd

\* FeedValueArrives: the last value of the feed reaches the bot in the end,
\* unless it is refused for ever: a value lost with a connection comes again
\* after the next subscription (wifi.ino:167-193, 288-317).
FeedValueArrives ==
  \/ <>[]Refused
  \/ \A code \in Codes :
       feed = code ~> (feed # code \/ compareArrays(LastApprovalId, code))
=============================================================================
