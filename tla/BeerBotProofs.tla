--------------------------- MODULE BeerBotProofs ---------------------------
(***************************************************************************)
(* Theorems about the whole sketch: the two channels, the display and the  *)
(* card share their globals, and what each keeps on its own they keep      *)
(* together, for all codes and values, any sizes of the buffers and        *)
(* whatever the network, the modem and the power supply do.                *)
(***************************************************************************)
EXTENDS BeerBot, ChannelLemmas

IInv == CosmInv /\ SmsTypeOK /\ GsmShown

-----------------------------------------------------------------------------
(* The steps, by who takes them.                                           *)

\* A step of the network, of the server or of those who publish.
NetworkStep ==
  /\ \/ Arrive \/ ConnectionLost \/ KeepaliveRunsOut
     \/ \E code \in Codes : PassOn(code)
  /\ UNCHANGED <<pc, glcdVars, storeVars, cosm, smsVars>>
  /\ feed' \in Codes /\ wifi' \in BOOLEAN

\* A step of the modem, of the wire behind it, or of the clock.
ModemStep ==
  /\ Arrives \/ Start \/ TextMessage \/ TimeoutRunsOut
  /\ UNCHANGED <<pc, glcdVars, storeVars, clientVars, cosmVars>>

LEMMA NextSteps ==
  ASSUME IInv, Next
  PROVE  \/ Display \/ Card \/ Phone
         \/ TaskSteps /\ UNCHANGED smsVars
         \/ NetworkStep \/ ModemStep
         \/ PowerCut
<1>1. CASE loop \/ NoNetwork
  BY <1>1 DEF loop, NoNetwork, Internet, TaskSteps, BeerBotTaskFailing
<1>2. CASE Arrival \/ Silence \/ NetworkLost
  BY <1>2 DEF Arrival, Silence, NetworkLost, WiFiLost, NetworkEvent, NetworkStep,
     programVars, outsideVars, IInv, CosmInv, ChannelTypes
<1>3. CASE Update
  BY <1>3 DEF Update, Publish, NetworkEvent, NetworkStep, outsideVars, IInv, CosmInv,
     ChannelTypes
<1>4. CASE Arrives \/ Start \/ TextMessage \/ TimePasses
  BY <1>4 DEF Arrives, Start, TextMessage, TimePasses, TimeoutRunsOut, ModemEvent,
     ModemStarts, ModemSends, ModemStep
<1> QED
  BY <1>1, <1>2, <1>3, <1>4 DEF Next

\* The modem, the wire and the clock keep the types of the channel, and its state.
LEMMA ModemStepTypes ==
  ASSUME SmsTypeOK, ModemStep
  PROVE  SmsTypeOK' /\ sms'.SM5100State = sms.SM5100State
<1>1. CASE Arrives
  <2>1. rx \o line \in Seq(Tokens) /\ Len(rx \o line) = Len(rx) + Len(line)
    BY ConcatProperties DEF SmsTypeOK
  <2> QED
    BY <1>1, <2>1, EmptySeq DEF Arrives, SmsTypeOK
<1>2. CASE Start
  BY <1>2, ModemTypes DEF Start, ModemStarts
<1>3. CASE TextMessage
  <2>1. \E l \in Seq(Tokens) : ModemSends(l)
    BY <1>3, LineTypes, CodesAreTokens DEF TextMessage
  <2> QED
    BY <2>1, ModemTypes DEF ModemSends
<1> QED
  BY <1>1, <1>2, <1>3, ClockTypes DEF ModemStep

-----------------------------------------------------------------------------
(* Each task keeps what the invariants say of itself and of the others.    *)

LEMMA DisplayKeeps ==
  ASSUME IInv, Display
  PROVE  IInv'
<1>1. CosmInv'
  BY DrawingKeeps DEF IInv, Display
<1>2. /\ ~disp'.ShowSpashScreen
      /\ disp.ShowSpashScreen \/ disp'.status = disp.status
  BY DrawingSteps DEF IInv, CosmInv, ChannelTypes, Display
<1> QED
  BY <1>1, <1>2 DEF Display, IInv, GsmShown, SmsTypeOK, smsVars

LEMMA InternetKeeps ==
  ASSUME IInv, TaskSteps, UNCHANGED smsVars
  PROVE  IInv'
<1>1. CosmInv' /\ TaskDisplay
  BY TaskInv, TaskShows DEF IInv
<1> QED
  BY <1>1 DEF TaskDisplay, IInv, GsmShown, SmsTypeOK, smsVars

LEMMA CardKeeps ==
  ASSUME IInv, Card
  PROVE  IInv'
<1>1. CosmInv'
  BY WritingKeeps DEF IInv, Card
<1>2. UNCHANGED glcdVars /\ pc # "GLCDTask"
  BY WritingPlaces DEF Card, Storing, StoreSteps
<1> QED
  BY <1>1, <1>2 DEF Card, IInv, GsmShown, SmsTypeOK, smsVars, glcdVars

\* The text message channel approves, and resets the display after an error, but
\* leaves the COSM line to the other channel.
LEMMA PhoneKeeps ==
  ASSUME IInv, Phone
  PROVE  IInv'
<1>1. PhoneTask /\ UNCHANGED <<clientVars, cosmVars>>
  BY DEF Phone, PhoneTask
<1>2. SmsTypeOK' /\ PhoneDisplay /\ wr'.ret \in Returns
  BY <1>1, PhoneTypes, PhoneShows, PhoneReturns DEF IInv, CosmInv, ChannelTypes, SmsTypeOK
<1>3. ChannelTypes'
  BY <1>1, <1>2 DEF IInv, CosmInv, ChannelTypes, PhoneDisplay, clientVars, cosmVars
<1>4. pc \in PhoneSteps /\ pc' \in PhoneSteps \cup {"GLCDTask", "sdRemove"}
  BY <1>1, PhonePlaces
<1>5. CosmShown'
  BY <1>1, <1>2, <1>4 DEF IInv, CosmInv, CosmShown, PhoneDisplay, PhoneSteps, cosmVars
<1> QED
  BY <1>2, <1>3, <1>5 DEF IInv, CosmInv, GsmShown, PhoneDisplay

LEMMA WorldKeeps ==
  ASSUME IInv, NetworkStep \/ ModemStep \/ PowerCut
  PROVE  IInv'
<1>1. CASE NetworkStep
  <2>1. CosmInv'
    BY <1>1, OutsideKeeps DEF NetworkStep, IInv
  <2> QED
    BY <1>1, <2>1 DEF NetworkStep, IInv, GsmShown, SmsTypeOK, smsVars, glcdVars
<1>2. CASE ModemStep
  BY <1>2, ModemStepTypes DEF ModemStep, IInv, CosmInv, ChannelTypes, CosmShown, GsmShown,
     glcdVars, storeVars, clientVars, cosmVars
<1>3. CASE PowerCut
  <2>1. CosmInv' /\ SmsTypeOK' /\ sms'.SM5100State = "SM5100Init"
    BY <1>3, PowerOnKeeps, SmsPowerOnTypes DEF PowerCut, IInv
  <2>2. pc' = "GLCDTask"
    BY <1>3 DEF PowerCut
  <2> QED
    BY <2>1, <2>2 DEF IInv, GsmShown
<1> QED
  BY <1>1, <1>2, <1>3

LEMMA IInvAlways == Spec => []IInv
<1>1. Init => IInv
  <2> SUFFICES ASSUME Init PROVE IInv
    OBVIOUS
  <2>1. CosmInv /\ SmsTypeOK /\ sms.SM5100State = "SM5100Init" /\ pc = "GLCDTask"
    BY CosmStarts, SmsStarts DEF Init
  <2> QED
    BY <2>1 DEF IInv, GsmShown
<1>2. IInv /\ [Next]_vars => IInv'
  <2> SUFFICES ASSUME IInv, [Next]_vars PROVE IInv'
    OBVIOUS
  <2>1. CASE UNCHANGED vars
    BY <2>1 DEF vars, IInv, CosmInv, ChannelTypes, CosmShown, GsmShown, SmsTypeOK,
       glcdVars, storeVars, clientVars, cosmVars, smsVars
  <2> QED
    BY <2>1, NextSteps, DisplayKeeps, InternetKeeps, CardKeeps, PhoneKeeps, WorldKeeps
<1> QED
  BY <1>1, <1>2, PTL DEF Spec

-----------------------------------------------------------------------------
(* The theorems.                                                           *)

\* DisplayTellsBothAlways: the COSM and GSM lines are right whenever the display
\* is drawn, although either channel writes DispState and the status lines
\* between two drawings (wifi.ino:154-226, sms.ino:246-289).
THEOREM DisplayTellsBothAlways == Spec => []DisplayTellsBoth
<1>1. IInv => DisplayTellsBoth
  BY DEF IInv, CosmInv, CosmShown, GsmShown, DisplayTellsBoth
<1> QED
  BY <1>1, IInvAlways, PTL

\* CardNeverStaleAlways: outside writeToAuthSD the card holds the code that the RAM
\* holds, whichever of the channels stored it last, also when SD.begin, SD.open or
\* write() fails, and wherever the power was cut (wifi.ino:308-310, 402-414,
\* sms.ino:326-328).
THEOREM CardNeverStaleAlways ==
  ASSUME CardAssumption PROVE Spec => []CardNeverStale
<1>1. Init => CardKept
  BY CardStart DEF Init, CardKept, StoreSteps
<1>2. IInv /\ CardKept /\ [Next]_vars => CardKept'
  <2> SUFFICES ASSUME IInv, CardKept, [Next]_vars PROVE CardKept'
    OBVIOUS
  <2>1. CASE Display
    <3>1. /\ ~Storing /\ pc' \notin StoreSteps /\ UNCHANGED storeVars
      BY <2>1, DrawingSteps DEF Display, IInv, CosmInv, ChannelTypes, Storing, StoreSteps
    <3> QED
      BY <3>1, CardLeftAlone DEF CardKept
  <2>2. CASE Card
    <3>1. wr.ret \notin StoreSteps
      BY DEF IInv, CosmInv, ChannelTypes, Returns, StoreSteps
    <3> QED
      BY <2>2, <3>1, WritingSteps DEF Card, CardKept
  <2>3. CASE Phone
    BY <2>3, PhoneCard DEF Phone, PhoneTask, IInv, SmsTypeOK, CardKept
  <2>4. CASE TaskSteps
    BY <2>4, TaskCard DEF IInv, CardKept
  <2>5. CASE NetworkStep \/ ModemStep \/ UNCHANGED vars
    <3>1. UNCHANGED <<pc, storeVars>>
      BY <2>5 DEF NetworkStep, ModemStep, vars
    <3> QED
      BY <3>1 DEF CardKept, StoreShape, CardInv, Storing, StoreSteps, storeVars,
                  compareArrays
  <2>6. CASE PowerCut
    BY <2>6, CardPowerOn DEF PowerCut, CardKept, StoreSteps
  <2> QED
    BY <2>1, <2>2, <2>3, <2>4, <2>5, <2>6, NextSteps
<1>3. CardKept => CardNeverStale
  BY DEF CardKept, CardInv, Storing, CardNeverStale
<1> QED
  BY <1>1, <1>2, <1>3, IInvAlways, PTL DEF Spec

\* A step that approves, one that serves, and one that does neither.
LEMMA PromiseSteps ==
  ASSUME \/ /\ approvals' = approvals + 1 /\ vends' = vends
            /\ disp'.DispState = "DispVending"
         \/ /\ approvals' = approvals /\ vends' = vends + 1
            /\ disp.DispState = "DispVending" /\ disp'.DispState # "DispVending"
         \/ /\ approvals' = approvals /\ vends' = vends
            /\ disp'.DispState = "DispVending" => disp.DispState = "DispVending"
  PROVE  [Promise!Next]_(Promise!vars)
  BY DEF Promise!Next, Promise!Approve, Promise!Serve, Promise!Forfeit, Promise!vars

\* ImplementsPromise: the sketch implements VendPromise: every step approves,
\* serves, forfeits or stutters, so that both channels together never get more
\* beers out of the machine than they approve (glcd.ino:90-149).
THEOREM ImplementsPromise == Spec => ServesPromise
<1>1. Init => Promise!Init
  BY DispStart DEF Init, GlcdInit, Promise!Init
<1>2. IInv /\ [Next]_vars => [Promise!Next]_(Promise!vars)
  <2> SUFFICES ASSUME IInv, [Next]_vars PROVE [Promise!Next]_(Promise!vars)
    OBVIOUS
  <2>0. disp \in DispType
    BY DEF IInv, CosmInv, ChannelTypes
  <2>1. CASE Display
    <3>1. CASE ShowSplash \/ Redraw \/ NothingToDraw
      <4>1. /\ UNCHANGED <<approvals, vends>>
            /\ disp'.DispState = "DispVending" => disp.DispState = "DispVending"
        BY <2>0, <3>1 DEF ShowSplash, Redraw, NothingToDraw, spashScreen, Drawn, DispType,
           glcdVars
      <4> QED
        BY <4>1, PromiseSteps
    <3>2. CASE vendBeer
      <4>1. /\ approvals' = approvals /\ vends' = vends + 1
            /\ disp.DispState = "DispVending" /\ disp'.DispState = "DispReady"
        BY <2>0, <3>2 DEF vendBeer, Drawn, DispType
      <4> QED
        BY <4>1, PromiseSteps
    <3> QED
      BY <2>1, <3>1, <3>2 DEF Display, GLCDTask
  <2>2. CASE Phone
    <3>1. PhoneDisplay
      BY <2>2, PhoneShows DEF Phone, PhoneTask, IInv, CosmInv, ChannelTypes, SmsTypeOK
    <3> QED
      BY <3>1, PromiseSteps DEF PhoneDisplay
  <2>3. CASE TaskSteps
    <3>1. TaskDisplay
      BY <2>3, TaskShows DEF IInv
    <3> QED
      BY <3>1, PromiseSteps DEF TaskDisplay
  <2>4. CASE Card \/ NetworkStep \/ ModemStep \/ UNCHANGED vars
    <3>1. UNCHANGED glcdVars
      BY <2>4, WritingPlaces DEF Card, NetworkStep, ModemStep, vars
    <3> QED
      BY <3>1, PromiseSteps DEF glcdVars
  <2>5. CASE PowerCut
    <3>1. /\ UNCHANGED <<approvals, vends>> /\ disp'.DispState # "DispVending"
      BY <2>5, DispStart DEF PowerCut, GlcdPowerOn
    <3> QED
      BY <3>1, PromiseSteps
  <2> QED
    BY <2>1, <2>2, <2>3, <2>4, <2>5, NextSteps
<1> QED
  BY <1>1, <1>2, IInvAlways, PTL DEF Spec, Promise!Spec, ServesPromise
=============================================================================
