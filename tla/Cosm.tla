-------------------------------- MODULE Cosm --------------------------------
(***************************************************************************)
(* The internet channel: BeerBotTask of wifi.ino, one state of two small   *)
(* machines per pass (WiFiState, CosmState), the callback it gives to the  *)
(* MQTT client, and the WiFi shield.                                       *)
(*                                                                         *)
(* A pass through the task is split where the program waits for the world: *)
(* for a network (WiFiWait), for the answer to CONNECT (WaitConnack), and  *)
(* before the packet that loop() reads; the callback's writing of the SD   *)
(* card comes in between (AuthStore).                                      *)
(***************************************************************************)
EXTENDS AuthStore, Leds, PubSubClient

CONSTANT SocketSurvives   \* may joining a network leave the sockets of the WiFi
                          \* shield as they are?

VARIABLES cosm,    \* the globals of wifi.ino: WiFiState and CosmState
          wifi,    \* external: the shield is joined to a network
          feed,    \* external: the last value of the feed, kept by the server
          passes   \* history: replies "2,PASS" written

cosmVars == <<cosm, wifi, feed, passes>>

-----------------------------------------------------------------------------
CosmType == [WiFiState : {"WiFiDisconnected", "WiFiConnected"},
             CosmState : {"CosmDisconnected", "CosmConnected", "CosmSubscribed"}]

beerBotInit == [WiFiState |-> "WiFiDisconnected", CosmState |-> "CosmDisconnected"]

Off(l) == [setBlinkRate(l, 0) EXCEPT !.WiFi = TRUE, !.Internet = FALSE]
On(l)  == [setBlinkRate(l, 0) EXCEPT !.WiFi = TRUE, !.Internet = TRUE]

NoCosm(d) == updateDispStatus(updateDispStatus(d, "NET", "NOK"), "COSM", "NOK")

dispOnly == <<lcd, vendside, approvals, vends>>   \* what a change of disp leaves

-----------------------------------------------------------------------------
(* case WiFiDisconnected                                                   *)

WiFiStart ==
  /\ pc = "BeerBotTask"
  /\ cosm.WiFiState = "WiFiDisconnected"
  /\ leds' = Off(leds)
  /\ disp' = NoCosm(updateDispStatus(disp, "WiFi", "NOK"))
  /\ pc' = "WiFiWait"
  /\ UNCHANGED <<dispOnly, storeVars, clientVars, cosmVars>>

\* WiFiConnectToNetwork until it succeeds: the configured network must be in
\* sight, with an encryption the switch knows, and let the shield join.
WiFiConnectToNetwork ==
  /\ pc = "WiFiWait"
  /\ wifi' = TRUE
  /\ \/ SocketSurvives /\ UNCHANGED clientVars
     \/ /\ sock' = IF sock = "none" THEN "none" ELSE "closed"
        /\ wire' = <<>> /\ inbox' = <<>> /\ session' = "none"
        /\ UNCHANGED client
  /\ leds' = On(leds)
  /\ disp' = NoCosm(updateDispStatus(disp, "WiFi", "OK"))
  /\ cosm' = [WiFiState |-> "WiFiConnected", CosmState |-> "CosmDisconnected"]
  /\ pc' = "BeerBotStatus"
  /\ UNCHANGED <<dispOnly, storeVars, feed, passes>>

\* It fails, and the program tries again ten seconds later, as long as it takes.
WiFiNotJoined ==
  /\ pc = "WiFiWait"
  /\ UNCHANGED <<pc, glcdVars, storeVars, leds, clientVars, cosmVars>>

-----------------------------------------------------------------------------
(* case WiFiConnected                                                      *)

In(state) == /\ pc = "BeerBotTask"
             /\ cosm.WiFiState = "WiFiConnected"
             /\ cosm.CosmState = state

\* connect() returns false at once on a client that is still connected.
AlreadyConnected ==
  /\ In("CosmDisconnected")
  /\ connected
  /\ leds' = On(leds)
  /\ pc' = "BeerBotStatus"
  /\ UNCHANGED <<glcdVars, storeVars, clientVars, cosmVars>>

\* The name is not resolved or the socket not opened.
ConnectFails ==
  /\ In("CosmDisconnected")
  /\ ~connected
  /\ stop
  /\ leds' = On(leds)
  /\ pc' = "BeerBotStatus"
  /\ UNCHANGED <<glcdVars, storeVars, client, cosmVars>>

ConnectOpens(answer) ==
  /\ In("CosmDisconnected")
  /\ wifi
  /\ connectOpens(answer)
  /\ leds' = On(leds)
  /\ pc' = "WaitConnack"
  /\ UNCHANGED <<glcdVars, storeVars, cosmVars>>

\* Mutant: the server is expected to remember the subscription.
ConnectAcceptedSubscribed ==
  /\ pc = "WaitConnack"
  /\ connectAccepted
  /\ cosm' = [cosm EXCEPT !.CosmState = "CosmSubscribed"]
  /\ disp' = updateDispStatus(updateDispStatus(disp, "NET", "OK"), "COSM", "OK")
  /\ pc' = "BeerBotStatus"
  /\ UNCHANGED <<dispOnly, storeVars, leds, wifi, feed, passes>>

ConnectAccepted ==
  /\ pc = "WaitConnack"
  /\ connectAccepted
  /\ cosm' = [cosm EXCEPT !.CosmState = "CosmConnected"]
  /\ disp' = updateDispStatus(updateDispStatus(disp, "NET", "OK"), "COSM", "NOK")
  /\ pc' = "BeerBotStatus"
  /\ UNCHANGED <<dispOnly, storeVars, leds, wifi, feed, passes>>

ConnectGivesUp ==
  /\ pc = "WaitConnack"
  /\ connectGivesUp
  /\ pc' = "BeerBotStatus"
  /\ UNCHANGED <<glcdVars, storeVars, leds, cosmVars>>

Subscribe ==
  /\ In("CosmConnected")
  /\ subscribe(feed)
  /\ cosm' = [cosm EXCEPT !.CosmState = "CosmSubscribed"]
  /\ disp' = updateDispStatus(disp, "COSM", "OK")
  /\ leds' = [setBlinkRate(leds, 3) EXCEPT !.WiFi = TRUE, !.Internet = FALSE]
  /\ pc' = "BeerBotStatus"
  /\ UNCHANGED <<dispOnly, storeVars, wifi, feed, passes>>

SubscribeFails ==
  /\ In("CosmConnected")
  /\ subscribeFails
  /\ pc' = "BeerBotStatus"
  /\ UNCHANGED <<glcdVars, storeVars, leds, cosmVars>>

\* The server gets the packet, but the WiFi shield does not say so within 2.5
\* seconds: to the program it is a failure, and it subscribes again.
SubscribeUnconfirmed ==
  /\ In("CosmConnected")
  /\ subscribe(feed)
  /\ pc' = "BeerBotStatus"
  /\ UNCHANGED <<glcdVars, storeVars, leds, cosmVars>>

-----------------------------------------------------------------------------
(* case CosmSubscribed: client.loop()                                      *)

\* Mutant: the error screen is shown with the old status line.
LoopDisconnectedQuietly ==
  /\ In("CosmSubscribed")
  /\ loopDisconnected
  /\ cosm' = [cosm EXCEPT !.CosmState = "CosmDisconnected"]
  /\ disp' = GLCDNotifyError(disp)
  /\ pc' = "BeerBotStatus"
  /\ UNCHANGED <<dispOnly, storeVars, leds, wifi, feed, passes>>

LoopDisconnected ==
  /\ In("CosmSubscribed")
  /\ loopDisconnected
  /\ cosm' = [cosm EXCEPT !.CosmState = "CosmDisconnected"]
  /\ disp' = GLCDNotifyError(updateDispStatus(disp, "COSM", "NOK"))
  /\ pc' = "BeerBotStatus"
  /\ UNCHANGED <<dispOnly, storeVars, leds, wifi, feed, passes>>

LoopKeepalive ==
  /\ In("CosmSubscribed")
  /\ \/ loopPing
     \/ connected /\ ~KeepaliveOver /\ UNCHANGED clientVars
  /\ pc' = "LoopRead"
  /\ UNCHANGED <<glcdVars, storeVars, leds, cosmVars>>

LoopNothing ==
  /\ pc = "LoopRead"
  /\ inbox = <<>>
  /\ pc' = "BeerBotStatus"
  /\ UNCHANGED <<glcdVars, storeVars, leds, clientVars, cosmVars>>

LoopAnswer ==
  /\ pc = "LoopRead"
  /\ loopRead("SUBACK") \/ loopRead("PINGRESP")
  /\ pc' = "BeerBotStatus"
  /\ UNCHANGED <<glcdVars, storeVars, leds, cosmVars>>

LoopCallback ==
  /\ pc = "LoopRead"
  /\ loopRead("PUBLISH")
  /\ callback(Head(inbox).code)
  /\ UNCHANGED <<leds, cosmVars>>

\* The last statement of the callback; loop() then returns true.
Reply ==
  /\ pc = "publish"
  /\ publish
  /\ passes' = IF connected /\ wr.reply = "PASS" THEN passes + 1 ELSE passes
  /\ pc' = "BeerBotStatus"
  /\ UNCHANGED <<glcdVars, storeVars, leds, cosm, wifi, feed>>

-----------------------------------------------------------------------------
\* Mutant: the shield is not asked.
UpdateStatusClientOnly(joined) ==
  /\ pc = "BeerBotStatus"
  /\ LET lost == cosm.CosmState # "CosmDisconnected" /\ ~connected
     IN  /\ cosm' = [WiFiState |-> cosm.WiFiState,
                     CosmState |-> IF lost THEN "CosmDisconnected"
                                   ELSE cosm.CosmState]
         /\ \/ ~lost /\ UNCHANGED <<disp, clientVars>>
            \/ /\ lost
               /\ stop
               /\ disp' = updateDispStatus(GLCDNotifyError(disp), "COSM", "NOK")
               /\ UNCHANGED client
  /\ pc' = "SM5100RxTask"
  /\ UNCHANGED <<dispOnly, storeVars, leds, wifi, feed, passes>>

\* The end of BeerBotTask: the shield is asked (joined is its answer), then the
\* client, if it is supposed to be connected.
UpdateStatus(joined) ==
  /\ pc = "BeerBotStatus"
  /\ LET lost == cosm.CosmState # "CosmDisconnected" /\ ~connected
     IN  /\ cosm' = [WiFiState |-> IF joined THEN cosm.WiFiState
                                   ELSE "WiFiDisconnected",
                     CosmState |-> IF lost THEN "CosmDisconnected"
                                   ELSE cosm.CosmState]
         /\ \/ ~lost /\ UNCHANGED <<disp, clientVars>>
            \/ /\ lost
               /\ stop
               /\ disp' = updateDispStatus(GLCDNotifyError(disp), "COSM", "NOK")
               /\ UNCHANGED client
  /\ pc' = "SM5100RxTask"
  /\ UNCHANGED <<dispOnly, storeVars, leds, wifi, feed, passes>>

\* The steps the program takes when nothing outside fails it.
BeerBotTask ==
  \/ WiFiStart \/ WiFiConnectToNetwork
  \/ AlreadyConnected \/ (~wifi /\ ConnectFails)
  \/ ConnectOpens("CONNACK") \/ ConnectAccepted
  \/ pc = "WaitConnack" /\ inbox = <<>> /\ wire = <<>> /\ ConnectGivesUp
  \/ pc = "WaitConnack" /\ inbox # <<>> /\ ConnectGivesUp
  \/ Subscribe \/ (~connected /\ SubscribeFails)
  \/ LoopDisconnected \/ LoopKeepalive \/ LoopNothing \/ LoopAnswer
  \/ LoopCallback \/ Reply
  \/ UpdateStatus(wifi)

\* The steps it takes when something does: no network lets it join, the server
\* cannot be reached, refuses the connection or answers too late, a packet is
\* not written or not confirmed, the shield reports an error instead of its status.
BeerBotTaskFailing ==
  \/ WiFiNotJoined
  \/ (wifi /\ ConnectFails) \/ ConnectOpens("REFUSED")
  \/ pc = "WaitConnack" /\ wire # <<>> /\ ConnectGivesUp
  \/ (connected /\ SubscribeFails) \/ SubscribeUnconfirmed
  \/ wifi /\ UpdateStatus(FALSE)

-----------------------------------------------------------------------------
(* The world outside.                                                      *)

outsideVars == <<pc, glcdVars, storeVars, leds, cosm, passes>>

WiFiLost ==
  /\ wifi
  /\ wifi' = FALSE
  /\ ConnectionLost
  /\ UNCHANGED <<outsideVars, feed>>

\* Someone publishes a new value on the feed.
Publish(code) ==
  /\ feed' = code
  /\ PassOn(code)
  /\ UNCHANGED <<outsideVars, wifi>>

\* The server gives up a client that has not written for too long.
ServerTimesOut ==
  /\ cosm.CosmState = "CosmDisconnected"
  /\ pc # "WaitConnack"
  /\ ServerCloses
  /\ UNCHANGED <<outsideVars, wifi, feed>>

CosmPowerOn ==
  /\ cosm' = beerBotInit
  /\ leds' = LedsOff
  /\ wifi' = FALSE
  /\ ClientPowerOn
  /\ UNCHANGED <<feed, passes>>

CosmInit ==
  /\ cosm = beerBotInit
  /\ leds = LedsOff
  /\ wifi = FALSE
  /\ ClientStart
  /\ feed \in Codes
  /\ passes = 0

CosmTypeOK ==
  /\ cosm \in CosmType
  /\ leds \in LedsType
  /\ client \in [pingOutstanding : BOOLEAN, inIdle : BOOLEAN, outIdle : BOOLEAN]
  /\ sock \in SocketStates
  /\ session \in Sessions
  /\ wifi \in BOOLEAN
  /\ feed \in Codes
  /\ passes \in Nat
=============================================================================
