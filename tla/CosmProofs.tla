----------------------------- MODULE CosmProofs -----------------------------
(***************************************************************************)
(* Theorems about the internet channel on a network that fails: for every  *)
(* set of feed values, any number of failures and published values, and an *)
(* SD card of which every operation may fail.                              *)
(***************************************************************************)
EXTENDS CosmSpec, ChannelLemmas

\* Every "2,PASS" that is still to be written has an approval of its own.
RepliesOwed ==
  /\ approvals \in Nat /\ passes \in Nat
  /\ passes <= approvals
  /\ (pc \in StoreSteps \cup {"publish"} /\ wr.reply = "PASS") => passes < approvals

IInv == CosmInv /\ LedsShown /\ RepliesOwed /\ SubscribedHere

-----------------------------------------------------------------------------
(* Approvals and replies.                                                  *)

\* What the callback grants it also promises to answer, and nothing else does.
LEMMA CallbackOwes ==
  ASSUME RepliesOwed, passes' = passes, NEW code, callback(code)
  PROVE  RepliesOwed'
<1>1. CASE FeedApproved(code)
  <2>1. approvals' = approvals + 1
    BY <1>1 DEF FeedApproved, Approve
  <2> QED
    BY <2>1 DEF RepliesOwed
<1>2. CASE FeedIgnored(code) \/ FeedRefused(code)
  <2>1. wr'.reply = "FAIL" /\ approvals' = approvals
    BY <1>2 DEF FeedIgnored, FeedRefused, Store, glcdVars
  <2> QED
    BY <2>1 DEF RepliesOwed
<1> QED
  BY <1>1, <1>2 DEF callback

LEMMA TaskOwes ==
  ASSUME CosmInv, RepliesOwed, TaskSteps
  PROVE  RepliesOwed'
<1>1. CASE LoopCallback
  BY <1>1, CallbackOwes DEF LoopCallback, cosmVars
<1>2. CASE Reply
  <2>1. /\ pc = "publish" /\ pc' = "BeerBotStatus" /\ approvals' = approvals
        /\ passes' = IF connected /\ wr.reply = "PASS" THEN passes + 1 ELSE passes
    BY <1>2 DEF Reply, glcdVars
  <2> QED
    BY <2>1 DEF RepliesOwed, StoreSteps
<1>3. CASE WiFiStart \/ WiFiConnectToNetwork \/ WiFiNotJoined \/ AlreadyConnected
           \/ ConnectFails \/ (\E a \in {"CONNACK", "REFUSED"} : ConnectOpens(a))
           \/ ConnectAccepted \/ ConnectGivesUp \/ Subscribe \/ SubscribeUnconfirmed
           \/ SubscribeFails \/ LoopDisconnected \/ LoopKeepalive \/ LoopNothing
           \/ LoopAnswer \/ (\E joined \in BOOLEAN : UpdateStatus(joined))
  <2>1. /\ pc' \notin StoreSteps \cup {"publish"}
        /\ UNCHANGED <<approvals, passes>>
    BY <1>3, TaskPlaces DEF WiFiStart, WiFiConnectToNetwork, WiFiNotJoined,
       AlreadyConnected, ConnectFails, ConnectOpens, ConnectAccepted, ConnectGivesUp,
       Subscribe, SubscribeUnconfirmed, SubscribeFails, LoopDisconnected, LoopKeepalive,
       LoopNothing, LoopAnswer, UpdateStatus, In, StoreSteps, glcdVars, dispOnly, cosmVars
  <2> QED
    BY <2>1 DEF RepliesOwed
<1>4. wifi \in BOOLEAN
  BY DEF CosmInv, ChannelTypes
<1> QED
  BY <1>1, <1>2, <1>3, <1>4 DEF TaskSteps, BeerBotTask, BeerBotTaskFailing

-----------------------------------------------------------------------------
(* The induction, group of steps by group of steps.                        *)

LEMMA TaskInductive ==
  ASSUME IInv, TaskSteps, Connection
  PROVE  IInv'
<1>1. CosmInv' /\ LedsShown' /\ RepliesOwed'
  BY TaskInv, TaskLeds, TaskOwes DEF IInv
<1>2. SubscribedHere'
  <2> SUFFICES ASSUME cosm'.CosmState = "CosmSubscribed", sock' \in {"open", "closeWait"}
               PROVE  current'
    BY DEF SubscribedHere
  <2>1. pc' # "WaitConnack"
    BY <1>1 DEF CosmInv, CosmShown
  <2>2. cosm.CosmState \in {"CosmConnected", "CosmSubscribed"} /\ sock' = sock
    BY TaskConnects DEF IInv
  <2>3. current \/ cosm.CosmState = "CosmConnected"
    BY <2>2 DEF IInv, SubscribedHere
  <2> QED
    BY <2>1, <2>2, <2>3 DEF Connection
<1> QED
  BY <1>1, <1>2 DEF IInv

LEMMA OthersInductive ==
  ASSUME IInv, Others
  PROVE  IInv'
<1>1. UNCHANGED <<leds, clientVars, cosmVars, current>>
  BY DEF Others, specVars
<1>2. CASE GLCDTask /\ UNCHANGED storeVars
  <2>1. /\ CosmInv' /\ pc = "GLCDTask" /\ pc' \in {"GLCDTask", "BeerBotTask"}
        /\ approvals' = approvals
    BY <1>1, <1>2, DrawingKeeps, DrawingSteps DEF IInv, CosmInv, ChannelTypes
  <2> QED
    BY <1>1, <1>2, <2>1 DEF IInv, LedsShown, RepliesOwed, SubscribedHere, StoreSteps,
                            cosmVars, clientVars, storeVars
<1>3. CASE writeToAuthSD
  <2>1. /\ CosmInv' /\ Storing /\ wr' = wr /\ pc' \in StoreSteps \cup Returns
        /\ approvals' = approvals
    BY <1>1, <1>3, WritingKeeps, WritingPlaces DEF IInv, CosmInv, ChannelTypes, glcdVars
  <2> QED
    BY <1>1, <2>1 DEF IInv, LedsShown, RepliesOwed, SubscribedHere, StoreSteps, Storing,
                      Returns, cosmVars, clientVars
<1>4. CASE SmsTasks
  BY <1>1, <1>4 DEF SmsTasks, IInv, CosmInv, ChannelTypes, CosmShown, LedsShown,
     RepliesOwed, SubscribedHere, StoreSteps, cosmVars, clientVars, glcdVars, storeVars
<1> QED
  BY <1>2, <1>3, <1>4 DEF Others

\* A connection is closed or lost, never opened, by the world outside.
LEMMA OutsideInductive ==
  ASSUME IInv, Arrival \/ Silence \/ LateAnswer \/ Update \/ NetworkFails \/ GivenUp
  PROVE  IInv'
<1>1. /\ UNCHANGED <<pc, glcdVars, storeVars, leds, cosm, passes, current>>
      /\ sock' \in {"open", "closeWait"} => sock \in {"open", "closeWait"}
      /\ \/ Arrive \/ ServerCloses \/ ConnectionLost \/ KeepaliveRunsOut
         \/ \E code \in Codes : PassOn(code)
  BY DEF Arrival, Silence, LateAnswer, Update, NetworkFails, GivenUp, Failure, WiFiLost,
         Publish, ServerTimesOut, outside, outsideVars, specVars, cosmVars, Arrive,
         KeepaliveRunsOut, PassOn, ConnectionLost, ServerCloses
<1>2. feed' \in Codes /\ wifi' \in BOOLEAN
  BY DEF IInv, CosmInv, ChannelTypes, Arrival, Silence, LateAnswer, Update, NetworkFails,
         GivenUp, Failure, WiFiLost, Publish, ServerTimesOut, outside, outsideVars, cosmVars
<1>3. CosmInv'
  BY <1>1, <1>2, OutsideKeeps DEF IInv
<1> QED
  BY <1>1, <1>3 DEF IInv, LedsShown, RepliesOwed, SubscribedHere, glcdVars, storeVars

LEMMA IInvAlways == Spec => []IInv
<1>1. Init => IInv
  <2> SUFFICES ASSUME Init PROVE IInv
    OBVIOUS
  <2>1. CosmInv
    BY CosmStarts DEF Init
  <2>2. RepliesOwed
    BY DEF Init, GlcdInit, CosmInit, RepliesOwed, StoreSteps
  <2>3. LedsShown /\ SubscribedHere
    BY DEF Init, CosmInit, LedsShown, LedsOff, LedsType, beerBotInit, SubscribedHere
  <2> QED
    BY <2>1, <2>2, <2>3 DEF IInv
<1>2. IInv /\ [Next]_vars => IInv'
  <2> SUFFICES ASSUME IInv, [Next]_vars PROVE IInv'
    OBVIOUS
  <2>1. CASE Program \/ ProgramFails
    BY <2>1, TaskInductive DEF Program, ProgramFails, Failure, TaskSteps
  <2>2. CASE Others
    BY <2>2, OthersInductive
  <2>3. CASE Arrival \/ Silence \/ LateAnswer \/ Update \/ NetworkFails \/ GivenUp
    BY <2>3, OutsideInductive
  <2>4. CASE UNCHANGED vars
    BY <2>4 DEF vars, IInv, CosmInv, ChannelTypes, CosmShown, LedsShown, RepliesOwed,
       SubscribedHere, glcdVars, storeVars, clientVars, cosmVars, specVars
  <2> QED
    BY <2>1, <2>2, <2>3, <2>4 DEF Next, Step
<1> QED
  BY <1>1, <1>2, PTL DEF Spec

-----------------------------------------------------------------------------
(* The theorems.                                                           *)

\* SubscribedHereAlways: the bot believes to be subscribed only on a connection
\* on which it wrote SUBSCRIBE, whatever fails and whenever (wifi.ino:154-226):
\* a socket is opened in CosmDisconnected only.
THEOREM SubscribedHereAlways == Spec => []SubscribedHere
<1>1. IInv => SubscribedHere
  BY DEF IInv
<1> QED
  BY <1>1, IInvAlways, PTL

\* PassMeansApprovedAlways: never more replies "2,PASS" than approvals, however
\* often the server sends a value and whatever fails (wifi.ino:300, 311, 316).
THEOREM PassMeansApprovedAlways == Spec => []PassMeansApproved
<1>1. IInv => PassMeansApproved
  BY DEF IInv, RepliesOwed, PassMeansApproved
<1> QED
  BY <1>1, IInvAlways, PTL

\* DisplayTellsCosmAlways: when the display is drawn its COSM line and the LEDs
\* tell the state of the subscription, through every failure
\* (wifi.ino:128-226; the error paths of BeerBotTask write both).
THEOREM DisplayTellsCosmAlways == Spec => []DisplayTellsCosm
<1>1. IInv => DisplayTellsCosm
  BY DEF IInv, CosmInv, CosmShown, LedsShown, DisplayTellsCosm, Blink
<1> QED
  BY <1>1, IInvAlways, PTL
=============================================================================
