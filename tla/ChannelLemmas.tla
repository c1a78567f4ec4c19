--------------------------- MODULE ChannelLemmas ---------------------------
(***************************************************************************)
(* What the calls of the display and of the approval store, the steps of   *)
(* the internet channel and those of the text message channel keep,        *)
(* whatever surrounds them.  The specification of either channel and that  *)
(* of the whole sketch use it: the proofs about one channel see of the     *)
(* other one names only.                                                   *)
(*                                                                         *)
(* The lemmas ask little of a code: a sequence, whatever its elements.     *)
(* What the parser of text messages makes of a garbled line is not known   *)
(* to be more.                                                             *)
(***************************************************************************)
EXTENDS Cosm, Sms, SequenceTheorems, TLAPS

\* Of the card the proofs assume that removing an existing file and reading one
\* do not fail.
CardAssumption == SdFaults \cap {"remove", "load"} = {}

IsCode(c) == c \in Seq({c[i] : i \in DOMAIN c})

LEMMA SeqIsCode ==
  ASSUME NEW S, NEW c \in Seq(S)
  PROVE  IsCode(c)
<1>1. /\ Len(c) \in Nat /\ DOMAIN c = 1..Len(c)
      /\ c = [i \in 1..Len(c) |-> c[i]]
  BY LenProperties
<1>2. c \in [1..Len(c) -> {c[i] : i \in DOMAIN c}]
  BY <1>1
<1> QED
  BY <1>1, <1>2, SeqDef DEF IsCode

LEMMA EmptyIsCode == IsCode(<<>>)
  BY DEF IsCode

LEMMA CodesAreCodes == \A c \in Codes : c \in Seq(Chars) /\ IsCode(c)
  BY StoreAssumption, SeqIsCode

-----------------------------------------------------------------------------
(* Copying and comparing.                                                  *)

\* What was copied compares as the same: memcpy and compareArrays agree.
LEMMA CopiedCompares ==
  ASSUME NEW id, NEW code, IsCode(code)
  PROVE  compareArrays(memcpy(id, code), code)
<1> SUFFICES ASSUME NEW i \in DOMAIN code, i \in DOMAIN memcpy(id, code)
             PROVE  code[i] = memcpy(id, code)[i]
  BY DEF compareArrays
<1>1. i \in 1..IdLen
  BY DEF memcpy
<1>2. i <= Len(code)
  BY LenProperties DEF IsCode
<1> QED
  BY <1>1, <1>2 DEF memcpy

LEMMA NothingCompares ==
  ASSUME NEW id
  PROVE  compareArrays(id, <<>>)
  BY DEF compareArrays

-----------------------------------------------------------------------------
(* The display's globals, from the calls and the steps of GLCDTask.        *)

\* What a call does to the fields that the invariants are about.
LEMMA StatusCall ==
  ASSUME NEW d \in DispType, NEW l \in StatusLines, NEW t \in StatusTexts
  PROVE  LET e == updateDispStatus(d, l, t) IN
         /\ e \in DispType
         /\ e.status[l] = t
         /\ \A k \in StatusLines \ {l} : e.status[k] = d.status[k]
         /\ e.ShowSpashScreen = d.ShowSpashScreen
         /\ e.DispState = "DispVending" => d.DispState = "DispVending"
  BY DEF DispType, DispStates, updateDispStatus

LEMMA OtherCalls ==
  ASSUME NEW d \in DispType
  PROVE  /\ GLCDVendBeer(d) \in DispType
         /\ GLCDVendBeer(d).status = d.status
         /\ GLCDVendBeer(d).ShowSpashScreen = d.ShowSpashScreen
         /\ GLCDVendBeer(d).DispState = "DispVending"
         /\ GLCDNotifyError(d) \in DispType
         /\ GLCDNotifyError(d).status = d.status
         /\ GLCDNotifyError(d).ShowSpashScreen = d.ShowSpashScreen
         /\ GLCDNotifyError(d).DispState # "DispVending"
  BY DEF DispType, DispStates, GLCDVendBeer, GLCDNotifyError

\* GLCDTask changes the status lines only when it shows the splash screen.
LEMMA DrawingSteps ==
  ASSUME disp \in DispType, GLCDTask
  PROVE  /\ disp' \in DispType
         /\ pc = "GLCDTask" /\ pc' \in {"GLCDTask", "BeerBotTask"}
         /\ ~disp'.ShowSpashScreen
         /\ \/ /\ disp.ShowSpashScreen /\ pc' = "GLCDTask"
               /\ \A l \in StatusLines : disp'.status[l] = "NOK"
            \/ ~disp.ShowSpashScreen /\ disp'.status = disp.status
         /\ approvals' = approvals
<1>1. CASE ShowSplash
  BY <1>1 DEF ShowSplash, spashScreen, DispType, DispStates, StatusTexts
<1>2. CASE Redraw
  BY <1>2 DEF Redraw, Drawn, DispType
<1>3. CASE vendBeer
  BY <1>3 DEF vendBeer, Drawn, DispType, DispStates
<1>4. CASE NothingToDraw
  BY <1>4 DEF NothingToDraw, glcdVars
<1> QED
  BY <1>1, <1>2, <1>3, <1>4 DEF GLCDTask

LEMMA DispStart ==
  /\ GLCDInit \in DispType /\ GLCDInit.ShowSpashScreen
  /\ GLCDInit.DispState # "DispVending"
  BY DEF GLCDInit, DispType, DispStates, StatusTexts

-----------------------------------------------------------------------------
(* The card and the RAM while a code is recorded.                          *)

Storing == pc \in StoreSteps

\* The shape of what a channel stores and of the file.
StoreShape ==
  /\ IsCode(wr.data)
  /\ IsCode(authFile.data)
  /\ authFile = [exists |-> authFile.exists, data |-> authFile.data]

\* What the card holds at each step of writeToAuthSD, and between stores.
CardInv ==
  /\ (~Storing /\ sdReady) => compareArrays(LastApprovalId, authFile.data)
  /\ (pc = "sdOpen" /\ sdReady) => authFile.data = <<>>
  /\ pc = "sdClose" => sdReady /\ authFile.data = <<>>
  /\ (pc = "remember" /\ sdReady) => authFile.data \in {<<>>, wr.data}

CardKept == StoreShape /\ CardInv

\* The steps of writeToAuthSD come one after the other, to where the caller goes on.
LEMMA WritingPlaces ==
  ASSUME writeToAuthSD
  PROVE  /\ Storing /\ pc' \in StoreSteps \cup {wr.ret} /\ wr' = wr
         /\ UNCHANGED glcdVars
  BY DEF writeToAuthSD, sdRemove, sdOpen, sdClose, remember, Storing, StoreSteps

LEMMA WritingSteps ==
  ASSUME CardAssumption, StoreShape, CardInv, writeToAuthSD, wr.ret \notin StoreSteps
  PROVE  StoreShape' /\ CardInv'
<1> USE DEF StoreShape, CardInv, Storing, StoreSteps
<1>1. CASE sdRemove
  <2>1. authFile' \in {NoFile, authFile} /\ (sdReady => authFile' = NoFile)
    BY <1>1 DEF sdRemove, CardAssumption
  <2>2. IsCode(NoFile.data) /\ NoFile.data = <<>>
    BY EmptyIsCode DEF NoFile
  <2> QED
    BY <1>1, <2>1, <2>2 DEF sdRemove, NoFile
<1>2. CASE sdOpen
  <2>1. authFile'.data = authFile.data
        /\ authFile' = [exists |-> authFile'.exists, data |-> authFile'.data]
    BY <1>2 DEF sdOpen
  <2> QED
    BY <1>2, <2>1 DEF sdOpen
<1>3. CASE sdClose
  <2>1. <<>> \o wr.data = wr.data
    BY ConcatEmptySeq DEF IsCode
  <2>2. authFile.data = <<>>
    BY <1>3 DEF sdClose
  <2>3. authFile'.data \in {<<>>, wr.data}
        /\ authFile' = [exists |-> authFile'.exists, data |-> authFile'.data]
    BY <1>3, <2>1, <2>2 DEF sdClose
  <2> QED
    BY <1>3, <2>3, EmptyIsCode DEF sdClose
<1>4. CASE remember
  <2>1. compareArrays(LastApprovalId', wr.data)
    BY <1>4, CopiedCompares DEF remember
  <2>2. sdReady => compareArrays(LastApprovalId', authFile.data)
    BY <1>4, <2>1, NothingCompares DEF remember
  <2>3. pc = "remember" /\ pc' = wr.ret /\ UNCHANGED <<sdReady, authFile, wr, glcdVars>>
    BY <1>4 DEF remember
  <2> QED
    BY <2>2, <2>3 DEF compareArrays
<1> QED
  BY <1>1, <1>2, <1>3, <1>4 DEF writeToAuthSD

\* A store begins, or what is known already is not stored.
LEMMA ChannelSteps ==
  ASSUME StoreShape, CardInv, ~Storing, NEW code, IsCode(code), NEW ret,
         ret \notin StoreSteps,
         callback(code) \/ ParseAuthCode(code, ret)
  PROVE  StoreShape' /\ CardInv'
<1>1. CASE pc' = "sdRemove"
  <2>1. wr'.data = code /\ authFile' = authFile
    BY <1>1 DEF callback, FeedApproved, FeedIgnored, FeedRefused, ParseAuthCode,
                SmsApproved, SmsRefused, Store, storeVars, StoreSteps
  <2> QED
    BY <1>1, <2>1 DEF StoreShape, CardInv, Storing, StoreSteps
<1>2. CASE pc' # "sdRemove"
  <2>1. /\ pc' \notin StoreSteps /\ UNCHANGED <<LastApprovalId, sdReady, authFile>>
        /\ wr'.data \in {code, wr.data}
    BY <1>2 DEF callback, FeedApproved, FeedIgnored, FeedRefused, ParseAuthCode,
                SmsApproved, SmsRefused, Store, storeVars, StoreSteps
  <2> QED
    BY <2>1 DEF StoreShape, CardInv, Storing, StoreSteps, compareArrays
<1> QED
  BY <1>1, <1>2

LEMMA CardPowerOn ==
  ASSUME CardAssumption, StoreShape, StorePowerOn, pc' \notin StoreSteps
  PROVE  StoreShape' /\ CardInv'
<1>1. /\ authFile' = authFile /\ wr' = NoStore
      /\ sdReady' => LastApprovalId' = memcpy(ClearedId, authFile.data)
  BY DEF StorePowerOn, loadConfigFromSD, CardAssumption
<1>2. sdReady' => compareArrays(LastApprovalId', authFile'.data)
  BY <1>1, CopiedCompares DEF StoreShape
<1> QED
  BY <1>1, <1>2, EmptyIsCode DEF StoreShape, CardInv, Storing, StoreSteps, NoStore

LEMMA CardStart ==
  ASSUME StoreInit, pc \notin StoreSteps
  PROVE  StoreShape /\ CardInv
  BY EmptyIsCode, NothingCompares
     DEF StoreInit, StoreShape, CardInv, Storing, StoreSteps, NoStore, NoFile

\* Every other step.
LEMMA CardLeftAlone ==
  ASSUME StoreShape, CardInv, ~Storing, pc' \notin StoreSteps, UNCHANGED storeVars
  PROVE  StoreShape' /\ CardInv'
  BY DEF StoreShape, CardInv, Storing, StoreSteps, storeVars, compareArrays

-----------------------------------------------------------------------------
(* The internet channel.                                                   *)

\* The packets the server sends.
Packets == [type : {"CONNACK", "REFUSED", "SUBACK", "PINGRESP"}]
             \cup [type : {"PUBLISH"}, code : Codes]

NetSteps == {"BeerBotTask", "WiFiWait", "WaitConnack", "LoopRead", "publish",
             "BeerBotStatus"}

ChannelTypes ==
  /\ disp \in DispType
  /\ cosm \in CosmType
  /\ feed \in Codes /\ wifi \in BOOLEAN
  /\ inbox \in Seq(Packets)
  /\ wire \in Seq(Packets)
  /\ wr.ret \in Returns

\* The COSM line tells the state of the subscription, but for the time in which
\* a lost WiFi is joined again; before the splash screen there is neither.
CosmShown ==
  /\ pc = "WaitConnack" => cosm.CosmState = "CosmDisconnected"
  /\ disp.ShowSpashScreen =>
       pc = "GLCDTask" /\ cosm.CosmState = "CosmDisconnected"
  /\ (pc # "WiFiWait" /\ ~disp.ShowSpashScreen) =>
       (disp.status["COSM"] = "OK" <=> cosm.CosmState = "CosmSubscribed")

CosmInv == ChannelTypes /\ CosmShown

-----------------------------------------------------------------------------
(* Packets on the wire and in the socket.                                  *)

LEMMA PacketTypes ==
  /\ \A t \in {"CONNACK", "REFUSED", "SUBACK", "PINGRESP"} : Packet(t) \in Packets
  /\ \A c \in Codes : Feed(c) \in Packets
  BY DEF Packet, Feed, Packets

LEMMA AnswerTypes ==
  ASSUME wire \in Seq(Packets), NEW packets \in Seq(Packets), Answer(packets)
  PROVE  wire' \in Seq(Packets)
  BY ConcatProperties DEF Answer

LEMMA StopTypes ==
  ASSUME stop
  PROVE  inbox' \in Seq(Packets) /\ wire' \in Seq(Packets)
  BY DEF stop

LEMMA ReadTypes ==
  ASSUME inbox \in Seq(Packets), NEW t, loopRead(t)
  PROVE  /\ inbox' \in Seq(Packets) /\ wire' = wire
         /\ Head(inbox) \in Packets
         /\ t = "PUBLISH" => Head(inbox).code \in Codes
<1>1. Head(inbox) \in Packets /\ Tail(inbox) \in Seq(Packets)
  BY HeadTailProperties DEF loopRead
<1>2. t = "PUBLISH" => Head(inbox).code \in Codes
  BY <1>1 DEF loopRead, Packets
<1> QED
  BY <1>1, <1>2 DEF loopRead

\* What the network and the server do to the packets.
LEMMA NetworkTypes ==
  ASSUME inbox \in Seq(Packets), wire \in Seq(Packets),
         \/ Arrive \/ ServerCloses \/ ConnectionLost \/ KeepaliveRunsOut
         \/ ClientPowerOn \/ \E code \in Codes : PassOn(code)
  PROVE  inbox' \in Seq(Packets) /\ wire' \in Seq(Packets)
<1>1. CASE Arrive
  <2>1. Head(wire) \in Packets /\ Tail(wire) \in Seq(Packets)
    BY <1>1, HeadTailProperties DEF Arrive
  <2>2. Append(inbox, Head(wire)) \in Seq(Packets)
    BY <2>1, AppendProperties
  <2> QED
    BY <1>1, <2>1, <2>2 DEF Arrive
<1>2. CASE \E code \in Codes : PassOn(code)
  <2>1. PICK code \in Codes : PassOn(code)
    BY <1>2
  <2>2. Append(wire, Feed(code)) \in Seq(Packets)
    BY PacketTypes, AppendProperties
  <2> QED
    BY <2>1, <2>2 DEF PassOn
<1>3. CASE ServerCloses \/ ConnectionLost \/ ClientPowerOn
  <2>1. inbox' \in {inbox, <<>>} /\ wire' = <<>>
    BY <1>3 DEF ServerCloses, ConnectionLost, ClientPowerOn, stop
  <2> QED
    BY <2>1, EmptySeq
<1>4. CASE KeepaliveRunsOut
  <2>1. inbox' = inbox /\ wire' = wire
    BY <1>4 DEF KeepaliveRunsOut
  <2> QED
    BY <2>1
<1> QED
  BY <1>1, <1>2, <1>3, <1>4

-----------------------------------------------------------------------------
(* The steps of BeerBotTask, those that fail included.                     *)

TaskSteps == BeerBotTask \/ BeerBotTaskFailing

\* No step of the task comes in the middle of a store, or before the splash.
LEMMA TaskPlaces ==
  ASSUME CosmInv, TaskSteps
  PROVE  pc \in NetSteps /\ ~Storing /\ ~disp.ShowSpashScreen
<1>1. pc \in NetSteps
  BY DEF TaskSteps, BeerBotTask, BeerBotTaskFailing, NetSteps, WiFiStart,
         WiFiConnectToNetwork, WiFiNotJoined, In, AlreadyConnected, ConnectFails,
         ConnectOpens, ConnectAccepted, ConnectGivesUp, Subscribe, SubscribeFails,
         SubscribeUnconfirmed, LoopDisconnected, LoopKeepalive, LoopNothing,
         LoopAnswer, LoopCallback, Reply, UpdateStatus
<1> QED
  BY <1>1 DEF NetSteps, Storing, StoreSteps, CosmInv, CosmShown

LEMMA TaskTypes ==
  ASSUME CosmInv, TaskSteps
  PROVE  ChannelTypes'
<1> USE DEF CosmInv, ChannelTypes
<1>1. CASE WiFiStart \/ WiFiNotJoined
  <2>1. NoCosm(updateDispStatus(disp, "WiFi", "NOK")) \in DispType
    BY StatusCall DEF NoCosm, StatusLines, StatusTexts
  <2> QED
    BY <1>1, <2>1 DEF WiFiStart, WiFiNotJoined, storeVars, clientVars, cosmVars, glcdVars
<1>2. CASE WiFiConnectToNetwork
  <2>1. NoCosm(updateDispStatus(disp, "WiFi", "OK")) \in DispType
    BY StatusCall DEF NoCosm, StatusLines, StatusTexts
  <2>2. \/ inbox' = inbox /\ wire' = wire
        \/ inbox' = <<>> /\ wire' = <<>>
    BY <1>2, Zenon DEF WiFiConnectToNetwork, clientVars
  <2>3. inbox' \in Seq(Packets) /\ wire' \in Seq(Packets)
    BY <2>2, EmptySeq
  <2>4. wr'.ret \in Returns /\ feed' \in Codes /\ wifi' \in BOOLEAN /\ cosm' \in CosmType
    BY <1>2 DEF WiFiConnectToNetwork, storeVars, CosmType
  <2>5. disp' = NoCosm(updateDispStatus(disp, "WiFi", "OK"))
    BY <1>2 DEF WiFiConnectToNetwork
  <2> QED
    BY <2>1, <2>3, <2>4, <2>5
<1>3. CASE AlreadyConnected \/ ConnectFails \/ ConnectGivesUp \/ LoopNothing
  BY <1>3, StopTypes DEF AlreadyConnected, ConnectFails, ConnectGivesUp, LoopNothing,
                connectGivesUp, glcdVars, storeVars, clientVars, cosmVars
<1>4. ASSUME NEW answer \in {"CONNACK", "REFUSED"}, ConnectOpens(answer)
      PROVE  ChannelTypes'
  <2>1. <<Packet(answer)>> \in Seq(Packets)
    BY PacketTypes
  <2> QED
    BY <1>4, <2>1 DEF ConnectOpens, connectOpens, glcdVars, storeVars, cosmVars
<1>5. CASE ConnectAccepted
  <2>1. /\ updateDispStatus(updateDispStatus(disp, "NET", "OK"), "COSM", "NOK") \in DispType
        /\ Tail(inbox) \in Seq(Packets)
    BY <1>5, StatusCall, HeadTailProperties
       DEF StatusLines, StatusTexts, ConnectAccepted, connectAccepted
  <2> QED
    BY <1>5, <2>1 DEF ConnectAccepted, connectAccepted, storeVars, CosmType
<1>6. CASE Subscribe \/ SubscribeUnconfirmed
  <2>1. updateDispStatus(disp, "COSM", "OK") \in DispType
    BY StatusCall DEF StatusLines, StatusTexts
  <2>2. <<Packet("SUBACK"), Feed(feed)>> \in Seq(Packets)
    BY PacketTypes
  <2>3. wire' \in Seq(Packets) /\ inbox' = inbox
    BY <1>6, <2>2, AnswerTypes DEF Subscribe, SubscribeUnconfirmed, subscribe
  <2> QED
    BY <1>6, <2>1, <2>3
       DEF Subscribe, SubscribeUnconfirmed, glcdVars, storeVars, cosmVars, CosmType
<1>7. CASE SubscribeFails
  BY <1>7, StopTypes DEF SubscribeFails, subscribeFails, glcdVars, storeVars, clientVars,
                    cosmVars
<1>8. CASE LoopDisconnected
  <2>1. GLCDNotifyError(updateDispStatus(disp, "COSM", "NOK")) \in DispType
    BY StatusCall, OtherCalls DEF StatusLines, StatusTexts
  <2> QED
    BY <1>8, <2>1, StopTypes
       DEF LoopDisconnected, loopDisconnected, storeVars, CosmType
<1>9. CASE LoopKeepalive
  <2>1. <<Packet("PINGRESP")>> \in Seq(Packets)
    BY PacketTypes
  <2>2. wire' \in Seq(Packets) /\ inbox' = inbox
    BY <1>9, <2>1, AnswerTypes DEF LoopKeepalive, loopPing, clientVars
  <2> QED
    BY <1>9, <2>2 DEF LoopKeepalive, glcdVars, storeVars, cosmVars
<1>10. CASE LoopAnswer
  <2>1. PICK t : loopRead(t)
    BY <1>10 DEF LoopAnswer
  <2> QED
    BY <1>10, <2>1, ReadTypes DEF LoopAnswer, glcdVars, storeVars, cosmVars
<1>11. CASE LoopCallback
  <2>1. inbox' \in Seq(Packets) /\ wire' = wire /\ Head(inbox).code \in Codes
    BY <1>11, ReadTypes DEF LoopCallback
  <2>2. disp' \in DispType /\ wr'.ret \in Returns
    BY <1>11, OtherCalls
       DEF LoopCallback, callback, FeedApproved, FeedIgnored, FeedRefused, Approve,
           Store, Returns, glcdVars
  <2> QED
    BY <1>11, <2>1, <2>2 DEF LoopCallback, cosmVars
<1>12. CASE Reply
  <2>1. inbox' \in Seq(Packets) /\ wire' \in Seq(Packets)
    BY <1>12, StopTypes DEF Reply, publish
  <2> QED
    BY <1>12, <2>1 DEF Reply, glcdVars, storeVars
<1>13. ASSUME NEW joined \in BOOLEAN, UpdateStatus(joined)
       PROVE  ChannelTypes'
  <2>1. updateDispStatus(GLCDNotifyError(disp), "COSM", "NOK") \in DispType
    BY StatusCall, OtherCalls DEF StatusLines, StatusTexts
  <2>2. disp' \in DispType /\ inbox' \in Seq(Packets) /\ wire' \in Seq(Packets)
    BY <1>13, <2>1, StopTypes DEF UpdateStatus, clientVars
  <2>3. cosm' \in CosmType
    BY <1>13 DEF UpdateStatus, CosmType
  <2> QED
    BY <1>13, <2>2, <2>3 DEF UpdateStatus, storeVars
<1> QED
  BY <1>1, <1>2, <1>3, <1>4, <1>5, <1>6, <1>7, <1>8, <1>9, <1>10, <1>11, <1>12, <1>13
     DEF TaskSteps, BeerBotTask, BeerBotTaskFailing

-----------------------------------------------------------------------------
(* What the steps of the task do to the display, the LEDs and the socket.  *)

\* What NoCosm does to the fields that the invariants are about.
LEMMA NoCosmCall ==
  ASSUME NEW d \in DispType, NEW t \in StatusTexts
  PROVE  LET e == NoCosm(updateDispStatus(d, "WiFi", t)) IN
         /\ e \in DispType
         /\ e.status["COSM"] = "NOK" /\ e.status["GSM"] = d.status["GSM"]
         /\ e.ShowSpashScreen = d.ShowSpashScreen
         /\ e.DispState = "DispVending" => d.DispState = "DispVending"
<1> DEFINE e1 == updateDispStatus(d, "WiFi", t)
           e2 == updateDispStatus(e1, "NET", "NOK")
           e3 == updateDispStatus(e2, "COSM", "NOK")
<1>1. /\ e1 \in DispType /\ e1.status["GSM"] = d.status["GSM"]
      /\ e1.ShowSpashScreen = d.ShowSpashScreen
      /\ e1.DispState = "DispVending" => d.DispState = "DispVending"
  BY StatusCall DEF StatusLines
<1>2. /\ e2 \in DispType /\ e2.status["GSM"] = e1.status["GSM"]
      /\ e2.ShowSpashScreen = e1.ShowSpashScreen
      /\ e2.DispState = "DispVending" => e1.DispState = "DispVending"
  <2> HIDE DEF e1
  <2> QED
    BY <1>1, StatusCall DEF StatusLines, StatusTexts
<1>3. /\ e3 \in DispType
      /\ e3.status["COSM"] = "NOK" /\ e3.status["GSM"] = e2.status["GSM"]
      /\ e3.ShowSpashScreen = e2.ShowSpashScreen
      /\ e3.DispState = "DispVending" => e2.DispState = "DispVending"
  <2> HIDE DEF e2
  <2> QED
    BY <1>2, StatusCall DEF StatusLines, StatusTexts
<1>4. NoCosm(updateDispStatus(d, "WiFi", t)) = e3
  BY DEF NoCosm
<1> HIDE DEF e1, e2, e3
<1> QED
  BY <1>1, <1>2, <1>3, <1>4

\* Two calls in a row, of which the second writes the COSM line.
LEMMA TwoCalls ==
  ASSUME NEW d \in DispType, NEW e \in DispType, NEW t \in {"NOK", "OK"},
         e.status["GSM"] = d.status["GSM"],
         e.ShowSpashScreen = d.ShowSpashScreen,
         e.DispState = "DispVending" => d.DispState = "DispVending"
  PROVE  LET f == updateDispStatus(e, "COSM", t) IN
         /\ f \in DispType
         /\ f.status["COSM"] = t /\ f.status["GSM"] = d.status["GSM"]
         /\ f.ShowSpashScreen = d.ShowSpashScreen
         /\ f.DispState = "DispVending" => d.DispState = "DispVending"
  BY StatusCall DEF StatusLines, StatusTexts

\* The display after a step of the task: its COSM line, and the lines and the
\* screen that belong to others.
TaskDisplay ==
  /\ ~disp'.ShowSpashScreen
  /\ disp'.status["GSM"] = disp.status["GSM"]
  /\ pc' # "WiFiWait" =>
       (disp'.status["COSM"] = "OK" <=> cosm'.CosmState = "CosmSubscribed")
  /\ vends' = vends
  /\ \/ approvals' = approvals + 1 /\ disp'.DispState = "DispVending"
     \/ /\ approvals' = approvals
        /\ disp'.DispState = "DispVending" => disp.DispState = "DispVending"

LEMMA TaskShows ==
  ASSUME CosmInv, TaskSteps
  PROVE  TaskDisplay
<1>0. /\ ~disp.ShowSpashScreen /\ disp \in DispType /\ cosm \in CosmType
      /\ pc # "WiFiWait" =>
           (disp.status["COSM"] = "OK" <=> cosm.CosmState = "CosmSubscribed")
  BY TaskPlaces DEF CosmInv, CosmShown, ChannelTypes
<1>1. CASE UNCHANGED <<glcdVars, cosm>> /\ (pc = "WiFiWait" => pc' = "WiFiWait")
  BY <1>0, <1>1 DEF TaskDisplay, glcdVars
<1>2. CASE WiFiStart
  <2>1. disp' = NoCosm(updateDispStatus(disp, "WiFi", "NOK"))
        /\ pc' = "WiFiWait" /\ UNCHANGED <<approvals, vends>>
    BY <1>2 DEF WiFiStart, dispOnly
  <2> QED
    BY <1>0, <2>1, NoCosmCall DEF TaskDisplay, StatusTexts
<1>3. CASE WiFiConnectToNetwork
  <2>1. disp' = NoCosm(updateDispStatus(disp, "WiFi", "OK"))
        /\ cosm'.CosmState = "CosmDisconnected" /\ UNCHANGED <<approvals, vends>>
    BY <1>3 DEF WiFiConnectToNetwork, dispOnly
  <2> QED
    BY <1>0, <2>1, NoCosmCall DEF TaskDisplay, StatusTexts
<1>4. CASE ConnectAccepted
  <2> DEFINE e == updateDispStatus(disp, "NET", "OK")
  <2>1. /\ disp' = updateDispStatus(e, "COSM", "NOK") /\ UNCHANGED <<approvals, vends>>
        /\ cosm'.CosmState # "CosmSubscribed"
    BY <1>0, <1>4 DEF ConnectAccepted, dispOnly, CosmType
  <2>2. /\ e \in DispType /\ e.status["GSM"] = disp.status["GSM"]
        /\ e.ShowSpashScreen = disp.ShowSpashScreen
        /\ e.DispState = "DispVending" => disp.DispState = "DispVending"
    BY <1>0, StatusCall DEF StatusLines, StatusTexts
  <2> HIDE DEF e
  <2> QED
    BY <1>0, <2>1, <2>2, TwoCalls DEF TaskDisplay
<1>5. CASE Subscribe
  <2>1. /\ disp' = updateDispStatus(disp, "COSM", "OK") /\ UNCHANGED <<approvals, vends>>
        /\ cosm'.CosmState = "CosmSubscribed"
    BY <1>0, <1>5 DEF Subscribe, dispOnly, CosmType
  <2> QED
    BY <1>0, <2>1, TwoCalls DEF TaskDisplay
<1>6. CASE LoopDisconnected
  <2> DEFINE e == updateDispStatus(disp, "COSM", "NOK")
  <2>1. /\ disp' = GLCDNotifyError(e) /\ UNCHANGED <<approvals, vends>>
        /\ cosm'.CosmState = "CosmDisconnected"
    BY <1>0, <1>6 DEF LoopDisconnected, dispOnly, CosmType
  <2>2. /\ e \in DispType /\ e.status["GSM"] = disp.status["GSM"]
        /\ e.status["COSM"] = "NOK" /\ e.ShowSpashScreen = disp.ShowSpashScreen
    BY <1>0, TwoCalls
  <2> HIDE DEF e
  <2> QED
    BY <1>0, <2>1, <2>2, OtherCalls DEF TaskDisplay
<1>7. CASE LoopCallback
  <2>1. /\ UNCHANGED <<cosm, vends>> /\ pc = "LoopRead"
        /\ \/ UNCHANGED <<disp, approvals>>
           \/ disp' = GLCDVendBeer(disp) /\ approvals' = approvals + 1
    BY <1>7 DEF LoopCallback, callback, FeedApproved, FeedIgnored, FeedRefused,
                Approve, cosmVars, glcdVars
  <2> QED
    BY <1>0, <2>1, OtherCalls DEF TaskDisplay
<1>8. ASSUME NEW joined \in BOOLEAN, UpdateStatus(joined)
      PROVE  TaskDisplay
  <2> DEFINE e == GLCDNotifyError(disp)
  <2>1. /\ pc # "WiFiWait" /\ UNCHANGED <<approvals, vends>>
        /\ \/ disp' = disp /\ cosm'.CosmState = cosm.CosmState
           \/ disp' = updateDispStatus(e, "COSM", "NOK")
              /\ cosm'.CosmState = "CosmDisconnected"
    BY <1>8 DEF UpdateStatus, dispOnly
  <2>2. /\ e \in DispType /\ e.status = disp.status
        /\ e.ShowSpashScreen = disp.ShowSpashScreen
        /\ e.DispState # "DispVending"
    BY <1>0, OtherCalls
  <2> HIDE DEF e
  <2>3. CASE disp' = disp /\ cosm'.CosmState = cosm.CosmState
    BY <1>0, <2>1, <2>3 DEF TaskDisplay
  <2>4. CASE disp' = updateDispStatus(e, "COSM", "NOK")
              /\ cosm'.CosmState = "CosmDisconnected"
    BY <1>0, <2>1, <2>2, <2>4, TwoCalls DEF TaskDisplay
  <2> QED
    BY <2>1, <2>3, <2>4
<1>9. CASE WiFiNotJoined \/ AlreadyConnected \/ ConnectFails \/ SubscribeUnconfirmed
             \/ SubscribeFails \/ ConnectGivesUp \/ LoopKeepalive \/ LoopNothing
             \/ LoopAnswer \/ Reply \/ \E a \in {"CONNACK", "REFUSED"} : ConnectOpens(a)
  <2>1. UNCHANGED <<glcdVars, cosm>> /\ (pc = "WiFiWait" => pc' = "WiFiWait")
    BY <1>9 DEF WiFiNotJoined, AlreadyConnected, ConnectFails, SubscribeUnconfirmed,
       SubscribeFails, ConnectGivesUp, LoopKeepalive, LoopNothing, LoopAnswer, Reply,
       ConnectOpens, In, cosmVars
  <2> QED
    BY <1>1, <2>1
<1>10. wifi \in BOOLEAN
  BY DEF CosmInv, ChannelTypes
<1> QED
  BY <1>2, <1>3, <1>4, <1>5, <1>6, <1>7, <1>8, <1>9, <1>10
     DEF TaskSteps, BeerBotTask, BeerBotTaskFailing

\* A socket is opened in CosmDisconnected only, and a subscription comes from
\* one that was there or from CosmConnected, on the same socket.
LEMMA TaskConnects ==
  ASSUME CosmInv, TaskSteps
  PROVE  /\ pc' = "WaitConnack" => cosm'.CosmState = "CosmDisconnected"
         /\ cosm'.CosmState = "CosmSubscribed" =>
              /\ cosm.CosmState \in {"CosmConnected", "CosmSubscribed"}
              /\ sock' \in {sock, "none"}
<1>0. cosm \in CosmType
  BY DEF CosmInv, ChannelTypes
<1>1. CASE WiFiStart \/ WiFiConnectToNetwork \/ WiFiNotJoined \/ AlreadyConnected
             \/ ConnectFails \/ \E a \in {"CONNACK", "REFUSED"} : ConnectOpens(a)
  BY <1>0, <1>1 DEF WiFiStart, WiFiConnectToNetwork, WiFiNotJoined, AlreadyConnected,
     ConnectFails, ConnectOpens, In, cosmVars, clientVars, CosmType
<1>2. CASE ConnectAccepted \/ ConnectGivesUp
  <2>1. cosm.CosmState = "CosmDisconnected"
    BY <1>2 DEF ConnectAccepted, ConnectGivesUp, CosmInv, CosmShown
  <2> QED
    BY <1>0, <1>2, <2>1 DEF ConnectAccepted, ConnectGivesUp, cosmVars, CosmType
<1>3. CASE Subscribe \/ SubscribeUnconfirmed \/ SubscribeFails
  BY <1>0, <1>3 DEF Subscribe, SubscribeUnconfirmed, SubscribeFails, subscribe, stop,
     In, cosmVars, clientVars, CosmType
<1>4. CASE LoopDisconnected \/ LoopKeepalive \/ LoopNothing \/ LoopAnswer
  BY <1>0, <1>4 DEF LoopDisconnected, LoopKeepalive, LoopNothing, LoopAnswer, loopPing,
     loopRead, In, cosmVars, clientVars, CosmType
<1>5. CASE LoopCallback
  BY <1>0, <1>5 DEF LoopCallback, callback, FeedApproved, FeedIgnored, FeedRefused,
     Store, loopRead, cosmVars, CosmType
<1>6. CASE Reply
  BY <1>0, <1>6 DEF Reply, publish, stop, CosmType
<1>7. ASSUME NEW joined \in BOOLEAN, UpdateStatus(joined)
      PROVE  /\ pc' # "WaitConnack"
             /\ cosm'.CosmState \in {cosm.CosmState, "CosmDisconnected"}
             /\ sock' \in {sock, "none"}
  BY <1>0, <1>7 DEF UpdateStatus, stop, clientVars, CosmType
<1>8. CASE \E joined \in BOOLEAN : UpdateStatus(joined)
  BY <1>0, <1>7, <1>8 DEF CosmType
<1>10. wifi \in BOOLEAN
  BY DEF CosmInv, ChannelTypes
<1> QED
  BY <1>1, <1>2, <1>3, <1>4, <1>5, <1>6, <1>8, <1>10
     DEF TaskSteps, BeerBotTask, BeerBotTaskFailing

\* The blue LED is on and the green one blinks while the bot is subscribed.
LedsShown ==
  /\ leds \in LedsType
  /\ (pc # "WiFiWait" /\ cosm.CosmState = "CosmSubscribed") =>
       leds.WiFi /\ leds.blinking

LEMMA TaskLeds ==
  ASSUME CosmInv, LedsShown, TaskSteps
  PROVE  LedsShown'
<1>0. cosm \in CosmType /\ leds \in LedsType
  BY DEF CosmInv, ChannelTypes, LedsShown
<1>1. CASE WiFiStart
  BY <1>0, <1>1 DEF WiFiStart, Off, setBlinkRate, LedsType, LedsShown
<1>2. CASE WiFiConnectToNetwork
  BY <1>0, <1>2 DEF WiFiConnectToNetwork, On, setBlinkRate, LedsType, LedsShown
<1>3. CASE AlreadyConnected \/ ConnectFails \/ \E a \in {"CONNACK", "REFUSED"} : ConnectOpens(a)
  BY <1>0, <1>3 DEF AlreadyConnected, ConnectFails, ConnectOpens, In, On, setBlinkRate,
     LedsType, LedsShown, cosmVars
<1>4. CASE Subscribe
  BY <1>0, <1>4 DEF Subscribe, setBlinkRate, LedsType, LedsShown, CosmType
<1>5. CASE ConnectAccepted \/ ConnectGivesUp \/ LoopDisconnected
  <2>1. cosm'.CosmState # "CosmSubscribed" /\ leds' = leds
    BY <1>0, <1>5 DEF ConnectAccepted, ConnectGivesUp, LoopDisconnected, CosmType, cosmVars,
                      CosmInv, CosmShown
  <2> QED
    BY <1>0, <2>1 DEF LedsShown
<1>6. CASE WiFiNotJoined \/ SubscribeUnconfirmed \/ SubscribeFails \/ LoopKeepalive
             \/ LoopNothing \/ LoopAnswer \/ LoopCallback \/ Reply
  <2>1. UNCHANGED <<cosm, leds>> /\ (pc = "WiFiWait" => pc' = "WiFiWait")
    BY <1>6 DEF WiFiNotJoined, SubscribeUnconfirmed, SubscribeFails, LoopKeepalive,
       LoopNothing, LoopAnswer, LoopCallback, Reply, In, cosmVars
  <2> QED
    BY <2>1 DEF LedsShown
<1>7. ASSUME NEW joined \in BOOLEAN, UpdateStatus(joined)
      PROVE  LedsShown'
  <2>1. /\ pc # "WiFiWait" /\ leds' = leds
        /\ cosm'.CosmState \in {cosm.CosmState, "CosmDisconnected"}
    BY <1>0, <1>7 DEF UpdateStatus, CosmType
  <2> QED
    BY <2>1 DEF LedsShown
<1>10. wifi \in BOOLEAN
  BY DEF CosmInv, ChannelTypes
<1> QED
  BY <1>1, <1>2, <1>3, <1>4, <1>5, <1>6, <1>7, <1>10
     DEF TaskSteps, BeerBotTask, BeerBotTaskFailing

\* Only the callback begins a store; the other steps leave the card alone.
LEMMA TaskCard ==
  ASSUME CosmInv, StoreShape, CardInv, TaskSteps
  PROVE  StoreShape' /\ CardInv'
<1>0. ~Storing
  BY TaskPlaces
<1>1. CASE LoopCallback
  <2>1. IsCode(Head(inbox).code) /\ callback(Head(inbox).code)
    BY <1>1, ReadTypes, CodesAreCodes DEF LoopCallback, CosmInv, ChannelTypes
  <2> QED
    BY <1>0, <2>1, ChannelSteps, "publish" \notin StoreSteps DEF StoreSteps
<1>2. CASE ~LoopCallback
  <2>1. wifi \in BOOLEAN
    BY DEF CosmInv, ChannelTypes
  <2>2. \/ WiFiStart \/ WiFiConnectToNetwork \/ WiFiNotJoined \/ AlreadyConnected
        \/ ConnectFails \/ \E a \in {"CONNACK", "REFUSED"} : ConnectOpens(a)
        \/ ConnectAccepted \/ ConnectGivesUp \/ Subscribe \/ SubscribeUnconfirmed
        \/ SubscribeFails \/ LoopDisconnected \/ LoopKeepalive \/ LoopNothing
        \/ LoopAnswer \/ Reply \/ \E joined \in BOOLEAN : UpdateStatus(joined)
    BY <1>2, <2>1 DEF TaskSteps, BeerBotTask, BeerBotTaskFailing
  <2>3. pc' \notin StoreSteps /\ UNCHANGED storeVars
    BY <2>2, TaskPlaces DEF WiFiStart, WiFiConnectToNetwork, WiFiNotJoined,
       AlreadyConnected, ConnectFails, ConnectOpens, ConnectAccepted, ConnectGivesUp,
       Subscribe, SubscribeUnconfirmed, SubscribeFails, LoopDisconnected, LoopKeepalive,
       LoopNothing, LoopAnswer, Reply, UpdateStatus, In, StoreSteps
  <2> QED
    BY <1>0, <2>3, CardLeftAlone
<1> QED
  BY <1>1, <1>2

LEMMA TaskInv ==
  ASSUME CosmInv, TaskSteps
  PROVE  CosmInv'
  BY TaskTypes, TaskShows, TaskConnects DEF CosmInv, CosmShown, TaskDisplay

-----------------------------------------------------------------------------
(* The steps of the other tasks, the world outside, and the power-on.      *)

\* Drawing the splash screen sets the status lines as an unconnected bot has them.
LEMMA DrawingKeeps ==
  ASSUME CosmInv, GLCDTask, UNCHANGED <<storeVars, clientVars, cosmVars>>
  PROVE  CosmInv'
<1>1. /\ disp' \in DispType /\ pc' \in {"GLCDTask", "BeerBotTask"}
      /\ ~disp'.ShowSpashScreen /\ pc = "GLCDTask"
      /\ disp.ShowSpashScreen => disp'.status["COSM"] = "NOK"
      /\ ~disp.ShowSpashScreen => disp'.status = disp.status
  BY DrawingSteps DEF CosmInv, ChannelTypes, StatusLines
<1>2. ChannelTypes'
  BY <1>1 DEF CosmInv, ChannelTypes, storeVars, clientVars, cosmVars
<1>3. CosmShown'
  BY <1>1 DEF CosmInv, CosmShown, cosmVars
<1> QED
  BY <1>2, <1>3 DEF CosmInv

LEMMA WritingKeeps ==
  ASSUME CosmInv, writeToAuthSD, UNCHANGED <<clientVars, cosmVars>>
  PROVE  CosmInv'
<1>1. wr.ret \in Returns /\ wr.ret \notin StoreSteps
  BY DEF CosmInv, ChannelTypes, Returns, StoreSteps
<1>2. /\ Storing /\ wr' = wr
      /\ pc' \in StoreSteps \cup Returns /\ UNCHANGED glcdVars
  BY <1>1, WritingPlaces
<1>3. ChannelTypes'
  BY <1>2 DEF CosmInv, ChannelTypes, clientVars, cosmVars, glcdVars
<1>4. CosmShown'
  BY <1>2 DEF CosmInv, CosmShown, Storing, StoreSteps, Returns, glcdVars, cosmVars
<1> QED
  BY <1>3, <1>4 DEF CosmInv

\* The network, the server and those who publish touch the packets only.
LEMMA OutsideKeeps ==
  ASSUME CosmInv,
         \/ Arrive \/ ServerCloses \/ ConnectionLost \/ KeepaliveRunsOut
         \/ \E code \in Codes : PassOn(code),
         UNCHANGED <<pc, glcdVars, storeVars, cosm>>,
         feed' \in Codes, wifi' \in BOOLEAN
  PROVE  CosmInv'
<1>1. inbox' \in Seq(Packets) /\ wire' \in Seq(Packets)
  BY NetworkTypes DEF CosmInv, ChannelTypes
<1> QED
  BY <1>1 DEF CosmInv, ChannelTypes, CosmShown, storeVars, glcdVars

LEMMA PowerOnKeeps ==
  ASSUME CosmInv, GlcdPowerOn, StorePowerOn, CosmPowerOn, pc' = "GLCDTask"
  PROVE  CosmInv'
<1>1. inbox' \in Seq(Packets) /\ wire' \in Seq(Packets)
  BY NetworkTypes DEF CosmInv, ChannelTypes, CosmPowerOn
<1>2. disp' \in DispType
  BY DispStart DEF GlcdPowerOn
<1>3. cosm' = beerBotInit /\ wifi' = FALSE /\ feed' = feed /\ wr' = NoStore
  BY DEF CosmPowerOn, StorePowerOn
<1>4. ChannelTypes' /\ CosmShown'
  BY <1>1, <1>2, <1>3, DispStart
     DEF CosmInv, ChannelTypes, CosmShown, beerBotInit, CosmType, NoStore, Returns, GlcdPowerOn
<1> QED
  BY <1>4 DEF CosmInv

LEMMA CosmStarts ==
  ASSUME pc = "GLCDTask", GlcdInit, StoreInit, CosmInit
  PROVE  CosmInv
<1>1. ChannelTypes /\ CosmShown
  BY DispStart, EmptySeq
     DEF ChannelTypes, CosmShown, GlcdInit, StoreInit, CosmInit, ClientStart,
         beerBotInit, CosmType, NoStore, Returns
<1> QED
  BY <1>1 DEF CosmInv

-----------------------------------------------------------------------------
(* The text message channel.                                               *)

PhoneSteps == {"SM5100RxTask", "SM5100StateMachine", "SM5100Status"}

-----------------------------------------------------------------------------
(* The lines of the modem and the globals of sms.ino.                      *)

LEMMA DigitsAreTokens == Digits \subseteq Tokens /\ Seq(Digits) \subseteq Seq(Tokens)
<1>1. Digits \subseteq Tokens
  BY DEF Tokens
<1> QED
  BY <1>1

\* What the modem writes are tokens.
LEMMA LineTypes ==
  /\ \A n \in Seq(Digits) : SIND(n) \in Seq(Tokens)
  /\ \A c \in Seq(Tokens) : CMT(c) \in Seq(Tokens) /\ Text(c) \in Seq(Tokens)
<1>1. /\ <<"+", "SIND:">> \in Seq(Tokens) /\ <<"EOL">> \in Seq(Tokens)
      /\ <<"+", "CMT", "EOL">> \in Seq(Tokens) /\ <<"#", "AC:">> \in Seq(Tokens)
      /\ <<"&">> \in Seq(Tokens)
  BY DEF Tokens
<1>2. \A c \in Seq(Tokens) : CMT(c) \in Seq(Tokens)
  BY <1>1, ConcatProperties DEF CMT
<1>3. \A c \in Seq(Tokens) : Text(c) \in Seq(Tokens)
  BY <1>1, <1>2, ConcatProperties DEF Text
<1>4. ASSUME NEW n \in Seq(Digits) PROVE SIND(n) \in Seq(Tokens)
  <2>1. n \in Seq(Tokens)
    BY DigitsAreTokens
  <2> QED
    BY <1>1, <2>1, ConcatProperties DEF SIND
<1> QED
  BY <1>2, <1>3, <1>4

LEMMA CodesAreTokens == \A c \in Codes : c \in Seq(Tokens)
<1>1. Seq(Chars) \subseteq Seq(Tokens)
  BY SmsAssumption
<1> QED
  BY <1>1, StoreAssumption

\* Logging a token keeps SMBuffer a buffer, also when it is full.
LEMMA LoggingTypes ==
  ASSUME NEW s \in SmsType, NEW c \in Tokens
  PROVE  Logged(s, c) \in SmsType /\ ReadByte(s, c) \in SmsType
<1>1. Log(s, c) \in SmsType
  <2> DEFINE b == [i \in 1..BufLen |->
                    IF i = s.BufferTail + 1 THEN c ELSE s.SMBuffer[i]]
  <2>1. b \in [1..BufLen -> Tokens \cup {NUL}]
    BY DEF SmsType
  <2>2. Log(s, c) = [s EXCEPT !.SMBuffer = b, !.BufferTail = s.BufferTail + 1]
    BY DEF Log, SmsType
  <2>3. s.BufferTail + 1 \in Nat
    BY DEF SmsType
  <2> HIDE DEF b
  <2> QED
    BY <2>1, <2>2, <2>3, Zenon DEF SmsType
<1>2. Ended(s) \in SmsType
  BY DEF Ended, SmsType
<1>3. Logged(s, c) \in SmsType
  BY <1>1, <1>2 DEF Logged
<1> HIDE DEF Logged
<1> QED
  BY <1>3 DEF ReadByte, SmsType

LEMMA StatusTypes ==
  ASSUME NEW s \in SmsType, NEW stat
  PROVE  Consumed(AfterStatus(NumberCleared(s), stat)) \in SmsType
<1>1. NumberCleared(s) \in SmsType
  BY SmsAssumption DEF NumberCleared, SmsType
<1>2. \A t \in SmsType : AfterStatus(t, stat) \in SmsType
  BY DEF AfterStatus, SmsType, SM5100States
<1>3. \A t \in SmsType : Consumed(t) \in SmsType
  BY DEF Consumed, SmsType
<1> QED
  BY <1>1, <1>2, <1>3

\* What a byte does, before, at the end of and inside a command.
LEMMA ReadByteFields ==
  ASSUME NEW s \in SmsType, NEW c \in Tokens
  PROVE  LET t == ReadByte(s, c) IN
         /\ t.SM5100State = s.SM5100State /\ t.BootUp = s.BootUp
         /\ ~s.CmdStart =>
              /\ t.CmdComplete = s.CmdComplete /\ t.BufferTail = s.BufferTail
              /\ t.SMBuffer = s.SMBuffer /\ (t.CmdStart <=> c = StartMark(s))
         /\ s.CmdStart /\ c = EndMark(s) =>
              /\ t.CmdComplete /\ ~t.CmdStart
              /\ t.BufferTail = s.BufferTail /\ t.SMBuffer = s.SMBuffer
         /\ s.CmdStart /\ c # EndMark(s) =>
              /\ t.CmdComplete = s.CmdComplete /\ t.CmdStart
              /\ t.BufferTail = s.BufferTail + 1
              /\ \A i \in 1..BufLen :
                   t.SMBuffer[i] = IF i = s.BufferTail + 1 THEN c ELSE s.SMBuffer[i]
<1> DEFINE u == Logged(s, c)
           t == ReadByte(s, c)
<1>1. /\ t.SM5100State = u.SM5100State /\ t.BootUp = u.BootUp
      /\ t.CmdComplete = u.CmdComplete /\ t.BufferTail = u.BufferTail
      /\ t.SMBuffer = u.SMBuffer /\ (t.CmdStart <=> u.CmdStart \/ c = StartMark(s))
  <2>1. u \in SmsType
    BY LoggingTypes
  <2> HIDE DEF u
  <2>2. t = [u EXCEPT !.CmdStart = @ \/ c = StartMark(s)]
    BY DEF ReadByte, u
  <2> HIDE DEF t
  <2> QED
    BY <2>1, <2>2 DEF SmsType
<1>2. CASE ~s.CmdStart
  <2>1. u = s
    BY <1>2 DEF Logged
  <2> HIDE DEF u, t
  <2> QED
    BY <1>1, <1>2, <2>1 DEF t
<1>3. CASE s.CmdStart /\ c = EndMark(s)
  <2>1. u = [s EXCEPT !.CmdComplete = TRUE, !.CmdStart = FALSE]
    BY <1>3 DEF Logged, Ended
  <2>2. c # StartMark(s)
    BY <1>3 DEF StartMark, EndMark
  <2> HIDE DEF u, t
  <2>3. /\ u.SM5100State = s.SM5100State /\ u.BootUp = s.BootUp
        /\ u.CmdComplete /\ ~u.CmdStart
        /\ u.BufferTail = s.BufferTail /\ u.SMBuffer = s.SMBuffer
    BY <2>1 DEF SmsType
  <2> QED
    BY <1>1, <1>3, <2>2, <2>3 DEF t
<1>4. CASE s.CmdStart /\ c # EndMark(s)
  <2> DEFINE b == [i \in 1..BufLen |->
                    IF i = s.BufferTail + 1 THEN c ELSE s.SMBuffer[i]]
  <2>1. u = [s EXCEPT !.SMBuffer = b, !.BufferTail = s.BufferTail + 1]
    BY <1>4 DEF Logged, Log, SmsType
  <2>2. \A i \in 1..BufLen : b[i] = IF i = s.BufferTail + 1 THEN c ELSE s.SMBuffer[i]
    OBVIOUS
  <2> HIDE DEF u, t, b
  <2>3. /\ u.SM5100State = s.SM5100State /\ u.BootUp = s.BootUp
        /\ u.CmdComplete = s.CmdComplete /\ u.CmdStart = s.CmdStart
        /\ u.BufferTail = s.BufferTail + 1 /\ u.SMBuffer = b
    BY <2>1 DEF SmsType
  <2> QED
    BY <1>1, <1>4, <2>2, <2>3 DEF t
<1> QED
  BY <1>2, <1>3, <1>4

-----------------------------------------------------------------------------
(* The steps of SM5100RxTask and SM5100StateMachine.                       *)

PhoneTask == SM5100RxTask \/ SM5100StateMachine

LEMMA PhonePlaces ==
  ASSUME PhoneTask
  PROVE  /\ pc \in PhoneSteps /\ ~Storing
         /\ pc' \in PhoneSteps \cup {"GLCDTask", "sdRemove"}
  BY DEF PhoneTask, SM5100RxTask, SM5100StateMachine, BootUpReset, NothingInState, Switch,
         SM500InitializeSMS, SM5100ParseSms, UnknownMessage, ErrorRestart,
         SM5100ParseStatus, NoStatus, ParseAuthCode, SmsApproved, SmsRefused, Store,
         PhoneSteps, Storing, StoreSteps

LEMMA RebootTypes ==
  ASSUME SM5100Reset
  PROVE  /\ rx' \in Seq(Tokens) /\ Len(rx') <= RxCap /\ line' \in Seq(Tokens)
         /\ modem' \in [todo : Seq(Seq(Digits)), textMode : BOOLEAN]
  BY EmptySeq, SmsAssumption DEF SM5100Reset, Rebooting

LEMMA PhoneTypes ==
  ASSUME SmsTypeOK, PhoneTask
  PROVE  SmsTypeOK'
<1> USE DEF SmsTypeOK
<1>1. CASE SM5100RxTask
  <2>1. CASE rx # <<>>
    <3>1. /\ Head(rx) \in Tokens /\ Tail(rx) \in Seq(Tokens)
          /\ Len(Tail(rx)) = Len(rx) - 1 /\ Len(rx) \in Nat
      BY <2>1, HeadTailProperties, LenProperties
    <3>2. ReadByte(sms, Head(rx)) \in SmsType
      BY <3>1, LoggingTypes
    <3>3. Len(Tail(rx)) <= RxCap
      BY <3>1, SmsAssumption
    <3> QED
      BY <1>1, <2>1, <3>1, <3>2, <3>3 DEF SM5100RxTask
  <2> QED
    BY <1>1, <2>1 DEF SM5100RxTask
<1>2. CASE BootUpReset
  <2>1. sms' \in SmsType
    BY <1>2 DEF BootUpReset, SmsType
  <2> QED
    BY <1>2, <2>1, RebootTypes DEF BootUpReset
<1>3. CASE NothingInState \/ NoStatus
  BY <1>3 DEF NothingInState, NoStatus, smsVars
<1>4. CASE SM500InitializeSMS
  <2>1. ASSUME NEW header \in {"text", sms.SMBuffer[1]}
        PROVE  [sms EXCEPT !.SM5100State = "SM5100WForSms", !.SMBuffer[1] = header,
                           !.SMBuffer[2] = NUL, !.SMBuffer[3] = NUL] \in SmsType
    <3>1. /\ "text" \in Tokens /\ sms.SMBuffer \in [1..BufLen -> Tokens \cup {NUL}]
          /\ 1 \in 1..BufLen
      BY SmsAssumption DEF SmsType, Tokens
    <3>2. header \in Tokens \cup {NUL}
      BY <3>1
    <3> QED
      BY <3>2 DEF SmsType, SM5100States
  <2>2. modem' \in [todo : Seq(Seq(Digits)), textMode : BOOLEAN]
    <3>1. modem' = [modem EXCEPT !.textMode = @ \/ modem.todo = <<>>]
      BY <1>4 DEF SM500InitializeSMS
    <3> QED
      BY <3>1
  <2>3. rx' = <<>> /\ line' = line
    BY <1>4 DEF SM500InitializeSMS
  <2>4. sms' \in SmsType
    BY <1>4, <2>1 DEF SM500InitializeSMS
  <2> QED
    BY <2>2, <2>3, <2>4, EmptySeq, SmsAssumption
<1>5. CASE SM5100ParseSms \/ UnknownMessage
  <2>1. /\ Consumed(sms) \in SmsType
        /\ [Consumed(sms) EXCEPT !.SM5100State = "SM5100Error"] \in SmsType
    BY DEF Consumed, SmsType, SM5100States
  <2> QED
    BY <1>5, <2>1 DEF SM5100ParseSms, UnknownMessage
<1>6. CASE ErrorRestart
  <2>1. sms' \in SmsType
    BY <1>6 DEF ErrorRestart, SmsType, SM5100States
  <2> QED
    BY <1>6, <2>1, RebootTypes DEF ErrorRestart
<1>7. CASE SM5100ParseStatus
  BY <1>7, StatusTypes DEF SM5100ParseStatus
<1> QED
  BY <1>1, <1>2, <1>3, <1>4, <1>5, <1>6, <1>7 DEF PhoneTask, SM5100StateMachine

-----------------------------------------------------------------------------
(* What they do to the display and to the card.                            *)

\* A bot that waits for messages has said so; before the splash screen, which
\* resets the status lines, it has not got that far.
GsmShown ==
  /\ disp.ShowSpashScreen => pc = "GLCDTask" /\ sms.SM5100State = "SM5100Init"
  /\ sms.SM5100State = "SM5100WForSms" => disp.status["GSM"] = "OK"

\* The display after a step of the channel.
PhoneDisplay ==
  /\ disp' \in DispType /\ ~disp'.ShowSpashScreen
  /\ disp'.status["COSM"] = disp.status["COSM"]
  /\ sms'.SM5100State = "SM5100WForSms" => disp'.status["GSM"] = "OK"
  /\ vends' = vends
  /\ \/ approvals' = approvals + 1 /\ disp'.DispState = "DispVending"
     \/ /\ approvals' = approvals
        /\ disp'.DispState = "DispVending" => disp.DispState = "DispVending"

LEMMA PhoneShows ==
  ASSUME disp \in DispType, sms \in SmsType, GsmShown, PhoneTask
  PROVE  PhoneDisplay
<1>0. ~disp.ShowSpashScreen
  BY PhonePlaces DEF GsmShown, PhoneSteps
<1>1. CASE SM5100RxTask \/ BootUpReset \/ NothingInState \/ UnknownMessage
             \/ SM5100ParseStatus \/ NoStatus
  <2>1. UNCHANGED glcdVars
    BY <1>1 DEF SM5100RxTask, BootUpReset, NothingInState, UnknownMessage,
                SM5100ParseStatus, NoStatus
  <2>2. sms'.SM5100State = "SM5100WForSms" => sms.SM5100State = "SM5100WForSms"
    <3>1. CASE SM5100RxTask
      <4>1. \A c : ReadByte(sms, c).SM5100State = sms.SM5100State
        BY DEF ReadByte, Logged, Log, Ended, SmsType
      <4> QED
        BY <3>1, <4>1 DEF SM5100RxTask
    <3>2. CASE SM5100ParseStatus
      <4>1. \A stat : Consumed(AfterStatus(NumberCleared(sms), stat)).SM5100State
                        \in {sms.SM5100State, "SM5100Error", "SM5100Ready"}
        BY DEF Consumed, AfterStatus, NumberCleared, SmsType
      <4> QED
        BY <3>2, <4>1 DEF SM5100ParseStatus
    <3>3. CASE BootUpReset \/ NothingInState \/ UnknownMessage \/ NoStatus
      BY <3>3 DEF BootUpReset, NothingInState, UnknownMessage, NoStatus, Consumed,
                  SmsType, smsVars
    <3> QED
      BY <1>1, <3>1, <3>2, <3>3
  <2> QED
    BY <1>0, <2>1, <2>2 DEF PhoneDisplay, GsmShown, glcdVars
<1>2. CASE SM500InitializeSMS
  <2>1. disp' = updateDispStatus(disp, "GSM", "OK") /\ UNCHANGED <<approvals, vends>>
    BY <1>2 DEF SM500InitializeSMS
  <2> QED
    BY <1>0, <2>1, StatusCall DEF PhoneDisplay, StatusLines, StatusTexts
<1>3. CASE SM5100ParseSms
  <2>1. /\ sms.SM5100State = "SM5100WForSms" /\ vends' = vends
        /\ \/ UNCHANGED <<disp, approvals>>
           \/ disp' = GLCDVendBeer(disp) /\ approvals' = approvals + 1
    BY <1>3 DEF SM5100ParseSms, Switch, ParseAuthCode, SmsApproved, SmsRefused, Approve,
                glcdVars
  <2> QED
    BY <1>0, <2>1, OtherCalls DEF PhoneDisplay, GsmShown
<1>4. CASE ErrorRestart
  <2> DEFINE e == GLCDNotifyError(disp)
  <2>1. /\ disp' = updateDispStatus(e, "GSM", "NOK") /\ UNCHANGED <<approvals, vends>>
        /\ sms'.SM5100State # "SM5100WForSms"
    BY <1>4 DEF ErrorRestart, SmsType
  <2>2. /\ e \in DispType /\ e.status = disp.status
        /\ e.ShowSpashScreen = disp.ShowSpashScreen
        /\ e.DispState # "DispVending"
    BY OtherCalls
  <2> HIDE DEF e
  <2> QED
    BY <1>0, <2>1, <2>2, StatusCall DEF PhoneDisplay, StatusLines, StatusTexts
<1> QED
  BY <1>1, <1>2, <1>3, <1>4 DEF PhoneTask, SM5100StateMachine

\* A code that is stored is stored for the rest of this call.
LEMMA PhoneReturns ==
  ASSUME wr.ret \in Returns, PhoneTask
  PROVE  wr'.ret \in Returns
<1>1. CASE SM5100ParseSms
  BY <1>1 DEF SM5100ParseSms, ParseAuthCode, SmsApproved, SmsRefused, Store,
              storeVars, Returns
<1>2. CASE ~SM5100ParseSms
  BY <1>2 DEF PhoneTask, SM5100RxTask, SM5100StateMachine, BootUpReset,
     NothingInState, SM500InitializeSMS, UnknownMessage, ErrorRestart,
     SM5100ParseStatus, NoStatus, storeVars
<1> QED
  BY <1>1, <1>2

\* Whatever the parser takes for a code is a sequence, and that is enough for
\* the card and the RAM to agree on it.
LEMMA PhoneCard ==
  ASSUME sms \in SmsType, StoreShape, CardInv, PhoneTask
  PROVE  StoreShape' /\ CardInv'
<1>0. ~Storing
  BY PhonePlaces
<1>1. CASE SM5100ParseSms
  <2> DEFINE S == {sms.SMBuffer[i] : i \in 2..sms.BufferTail}
  <2>1. AuthCode \in Seq(S)
    <3>1. sms.BufferTail \in Int /\ 2 \in Int
      BY DEF SmsType
    <3>2. \A i \in 2..sms.BufferTail : sms.SMBuffer[i] \in S
      OBVIOUS
    <3> HIDE DEF S
    <3> QED
      BY <3>1, <3>2, SubSeqProperties DEF AuthCode
  <2>2. IsCode(AuthCode)
    BY <2>1, SeqIsCode
  <2>3. ParseAuthCode(AuthCode, "SM5100Status") /\ "SM5100Status" \notin StoreSteps
    BY <1>1 DEF SM5100ParseSms, StoreSteps
  <2> QED
    BY <1>0, <2>2, <2>3, ChannelSteps
<1>2. CASE ~SM5100ParseSms
  <2>1. pc' \notin StoreSteps /\ UNCHANGED storeVars
    BY <1>2 DEF PhoneTask, SM5100RxTask, SM5100StateMachine, BootUpReset, NothingInState,
       SM500InitializeSMS, UnknownMessage, ErrorRestart, Switch,
       SM5100ParseStatus, NoStatus, StoreSteps
  <2> QED
    BY <1>0, <2>1, CardLeftAlone DEF storeVars
<1> QED
  BY <1>1, <1>2

-----------------------------------------------------------------------------
(* The world outside, and the power-on.                                    *)

LEMMA SMSInitType ==
  /\ SMSInit \in SmsType /\ SMSInit.SM5100State = "SM5100Init"
  /\ Rebooting \in [todo : Seq(Seq(Digits)), textMode : BOOLEAN]
  /\ UpAlready \in [todo : Seq(Seq(Digits)), textMode : BOOLEAN]
<1>1. <<>> \in Seq(Seq(Digits))
  BY EmptySeq
<1> QED
  BY <1>1, SmsAssumption DEF SMSInit, SmsType, SM5100States, Rebooting, UpAlready

LEMMA SmsStarts ==
  ASSUME SmsInit
  PROVE  SmsTypeOK /\ sms.SM5100State = "SM5100Init"
  BY SMSInitType, EmptySeq, SmsAssumption DEF SmsInit, SmsTypeOK

LEMMA SmsPowerOnTypes ==
  ASSUME SmsTypeOK, SmsPowerOn
  PROVE  SmsTypeOK' /\ sms'.SM5100State = "SM5100Init"
  BY SMSInitType, EmptySeq, SmsAssumption DEF SmsPowerOn, SmsTypeOK

\* Time passes in SM5100Error without another trace.
LEMMA ClockTypes ==
  ASSUME SmsTypeOK, TimeoutRunsOut
  PROVE  SmsTypeOK' /\ sms'.SM5100State = sms.SM5100State
  BY DEF TimeoutRunsOut, SmsTypeOK, SmsType

\* The modem announces a number, or sends a line of tokens.
LEMMA ModemTypes ==
  ASSUME SmsTypeOK, ModemStarts \/ \E l \in Seq(Tokens) : ModemSends(l)
  PROVE  SmsTypeOK'
<1>1. CASE ModemStarts
  <2>1. /\ Head(modem.todo) \in Seq(Digits) /\ Tail(modem.todo) \in Seq(Seq(Digits))
    BY <1>1, HeadTailProperties DEF ModemStarts, SmsTypeOK
  <2>2. [modem EXCEPT !.todo = Tail(@)] \in [todo : Seq(Seq(Digits)), textMode : BOOLEAN]
    BY <2>1 DEF SmsTypeOK
  <2> QED
    BY <1>1, <2>1, <2>2, LineTypes DEF ModemStarts, SmsTypeOK
<1>2. CASE \E l \in Seq(Tokens) : ModemSends(l)
  BY <1>2 DEF ModemSends, SmsTypeOK
<1> QED
  BY <1>1, <1>2

-----------------------------------------------------------------------------
(* What the lines look like.                                               *)

\* The elements of a line that is put together of three parts.
LEMMA Joined ==
  ASSUME NEW a \in Seq(Tokens), NEW m \in Seq(Tokens), NEW b \in Seq(Tokens)
  PROVE  /\ Len(a) \in Nat /\ Len(m) \in Nat /\ Len(b) \in Nat
         /\ a \o m \o b \in Seq(Tokens)
         /\ Len(a \o m \o b) = Len(a) + Len(m) + Len(b)
         /\ \A i \in 1..Len(a) : (a \o m \o b)[i] = a[i]
         /\ \A i \in 1..Len(m) : (a \o m \o b)[Len(a) + i] = m[i]
         /\ \A i \in 1..Len(b) : (a \o m \o b)[Len(a) + Len(m) + i] = b[i]
<1>1. Len(a) \in Nat /\ Len(m) \in Nat /\ Len(b) \in Nat
  OBVIOUS
<1>2. /\ a \o m \in Seq(Tokens) /\ Len(a \o m) = Len(a) + Len(m)
      /\ \A i \in 1..Len(a) + Len(m) :
           (a \o m)[i] = IF i <= Len(a) THEN a[i] ELSE m[i - Len(a)]
  BY ConcatProperties
<1>3. /\ (a \o m) \o b \in Seq(Tokens)
      /\ Len((a \o m) \o b) = Len(a \o m) + Len(b)
      /\ \A i \in 1..Len(a \o m) + Len(b) :
           ((a \o m) \o b)[i] = IF i <= Len(a \o m) THEN (a \o m)[i] ELSE b[i - Len(a \o m)]
  BY <1>2, ConcatProperties
<1> DEFINE f == a \o m
           g == f \o b
<1> HIDE DEF f, g
<1>4. /\ \A i \in 1..Len(a) + Len(m) : f[i] = IF i <= Len(a) THEN a[i] ELSE m[i - Len(a)]
      /\ \A i \in 1..Len(a) + Len(m) + Len(b) :
           g[i] = IF i <= Len(a) + Len(m) THEN f[i] ELSE b[i - (Len(a) + Len(m))]
  BY <1>2, <1>3 DEF f, g
<1>5. /\ \A i \in 1..Len(a) : g[i] = a[i]
      /\ \A i \in 1..Len(m) : g[Len(a) + i] = m[i]
      /\ \A i \in 1..Len(b) : g[Len(a) + Len(m) + i] = b[i]
  <2> DEFINE x == Len(a)
             y == Len(m)
             z == Len(b)
  <2> HIDE DEF x, y, z
  <2>1. x \in Nat /\ y \in Nat /\ z \in Nat
    BY <1>1 DEF x, y, z
  <2>2. /\ \A i \in 1..x + y : f[i] = IF i <= x THEN a[i] ELSE m[i - x]
        /\ \A i \in 1..x + y + z : g[i] = IF i <= x + y THEN f[i] ELSE b[i - (x + y)]
    BY <1>4 DEF x, y, z
  <2>3. \A i \in 1..x : g[i] = a[i]
    BY <2>1, <2>2
  <2>4. ASSUME NEW i \in 1..y PROVE g[x + i] = m[i]
    <3>1. x + i \in 1..x + y + z /\ x + i \in 1..x + y /\ ~(x + i <= x) /\ (x + i) - x = i
      BY <2>1
    <3>2. g[x + i] = f[x + i] /\ f[x + i] = m[(x + i) - x]
      BY <2>1, <2>2, <3>1
    <3> QED
      BY <3>1, <3>2
  <2>5. ASSUME NEW i \in 1..z PROVE g[x + y + i] = b[i]
    <3>1. /\ x + y + i \in 1..x + y + z /\ ~(x + y + i <= x + y)
          /\ (x + y + i) - (x + y) = i
      BY <2>1
    <3>2. g[x + y + i] = b[(x + y + i) - (x + y)]
      BY <2>1, <2>2, <3>1
    <3> QED
      BY <3>1, <3>2
  <2> QED
    BY <2>3, <2>4, <2>5 DEF x, y, z
<1> QED
  BY <1>1, <1>2, <1>3, <1>5 DEF f, g

LEMMA SindShape ==
  ASSUME NEW n \in Seq(Digits)
  PROVE  /\ Len(n) \in Nat /\ Len(SIND(n)) = Len(n) + 3
         /\ SIND(n)[1] = "+" /\ SIND(n)[2] = "SIND:"
         /\ \A i \in 1..Len(n) : SIND(n)[2 + i] = n[i]
         /\ SIND(n)[3 + Len(n)] = "EOL"
<1> DEFINE a == <<"+", "SIND:">>
           b == <<"EOL">>
<1>1. n \in Seq(Tokens) /\ a \in Seq(Tokens) /\ b \in Seq(Tokens)
  BY DigitsAreTokens DEF Tokens
<1>2. Len(a) = 2 /\ a[1] = "+" /\ a[2] = "SIND:" /\ Len(b) = 1 /\ b[1] = "EOL"
  OBVIOUS
<1>3. SIND(n) = a \o n \o b
  BY DEF SIND
<1> HIDE DEF a, b
<1>4. /\ Len(n) \in Nat /\ Len(SIND(n)) = Len(a) + Len(n) + Len(b)
      /\ \A i \in 1..Len(a) : SIND(n)[i] = a[i]
      /\ \A i \in 1..Len(n) : SIND(n)[Len(a) + i] = n[i]
      /\ \A i \in 1..Len(b) : SIND(n)[Len(a) + Len(n) + i] = b[i]
  BY <1>1, <1>3, Joined
<1> QED
  BY <1>2, <1>4

LEMMA CmtShape ==
  ASSUME NEW body \in Seq(Tokens)
  PROVE  /\ Len(body) \in Nat /\ Len(CMT(body)) = Len(body) + 4
         /\ CMT(body)[1] = "+" /\ CMT(body)[2] = "CMT" /\ CMT(body)[3] = "EOL"
         /\ \A i \in 1..Len(body) : CMT(body)[3 + i] = body[i]
         /\ CMT(body)[4 + Len(body)] = "EOL"
<1> DEFINE a == <<"+", "CMT", "EOL">>
           b == <<"EOL">>
<1>1. a \in Seq(Tokens) /\ b \in Seq(Tokens)
  BY DEF Tokens
<1>2. /\ Len(a) = 3 /\ a[1] = "+" /\ a[2] = "CMT" /\ a[3] = "EOL"
      /\ Len(b) = 1 /\ b[1] = "EOL"
  OBVIOUS
<1>3. CMT(body) = a \o body \o b
  BY DEF CMT
<1> HIDE DEF a, b
<1>4. /\ Len(body) \in Nat /\ Len(CMT(body)) = Len(a) + Len(body) + Len(b)
      /\ \A i \in 1..Len(a) : CMT(body)[i] = a[i]
      /\ \A i \in 1..Len(body) : CMT(body)[Len(a) + i] = body[i]
      /\ \A i \in 1..Len(b) : CMT(body)[Len(a) + Len(body) + i] = b[i]
  BY <1>1, <1>3, Joined
<1> QED
  BY <1>2, <1>4

LEMMA TextShape ==
  ASSUME NEW c \in Seq(Tokens)
  PROVE  /\ Len(c) \in Nat /\ Len(Text(c)) = Len(c) + 7
         /\ Text(c)[1] = "+" /\ Text(c)[2] = "CMT" /\ Text(c)[3] = "EOL"
         /\ Text(c)[4] = "#" /\ Text(c)[5] = "AC:"
         /\ \A i \in 1..Len(c) : Text(c)[5 + i] = c[i]
         /\ Text(c)[6 + Len(c)] = "&" /\ Text(c)[7 + Len(c)] = "EOL"
<1> DEFINE a == <<"#", "AC:">>
           b == <<"&">>
           body == a \o c \o b
<1>1. a \in Seq(Tokens) /\ b \in Seq(Tokens)
  BY DEF Tokens
<1>2. Len(a) = 2 /\ a[1] = "#" /\ a[2] = "AC:" /\ Len(b) = 1 /\ b[1] = "&"
  OBVIOUS
<1>3. Text(c) = CMT(body)
  BY DEF Text
<1> HIDE DEF a, b
<1>4. /\ Len(c) \in Nat /\ body \in Seq(Tokens) /\ Len(body) = Len(a) + Len(c) + Len(b)
      /\ \A i \in 1..Len(a) : body[i] = a[i]
      /\ \A i \in 1..Len(c) : body[Len(a) + i] = c[i]
      /\ \A i \in 1..Len(b) : body[Len(a) + Len(c) + i] = b[i]
  BY <1>1, Joined
<1> HIDE DEF body
<1>5. /\ Len(body) = 3 + Len(c) /\ body[1] = "#" /\ body[2] = "AC:"
      /\ body[3 + Len(c)] = "&"
      /\ \A i \in 1..Len(c) : body[2 + i] = c[i]
  BY <1>2, <1>4
<1>6. /\ Len(Text(c)) = 7 + Len(c)
      /\ Text(c)[1] = "+" /\ Text(c)[2] = "CMT" /\ Text(c)[3] = "EOL"
      /\ \A i \in 1..Len(body) : Text(c)[3 + i] = body[i]
      /\ Text(c)[7 + Len(c)] = "EOL"
  BY <1>3, <1>4, <1>5, CmtShape
<1>7. /\ Text(c)[4] = body[1] /\ Text(c)[5] = body[2]
      /\ Text(c)[6 + Len(c)] = body[3 + Len(c)]
  BY <1>4, <1>5, <1>6
<1>8. \A i \in 1..Len(c) : Text(c)[5 + i] = body[2 + i]
  BY <1>4, <1>5, <1>6
<1> QED
  BY <1>4, <1>5, <1>6, <1>7, <1>8

LEMMA DigitsAreNoMarks ==
  Digits \cap {"+", "#", "&", "EOL", "SIND:", "AC:", "CMT", "text"} = {}
<1>1. Digits \subseteq {"0", "1", "2", "3", "4", "5", "6", "7", "8", "9"}
  BY DEF Digits, DigitNames
<1> QED
  BY <1>1
=============================================================================
