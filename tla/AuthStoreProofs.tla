--------------------------- MODULE AuthStoreProofs ---------------------------
(***************************************************************************)
(* Theorems about approving and remembering codes, for every set of codes, *)
(* every length of the id and any number of approvals and power cuts.      *)
(*                                                                         *)
(* What they assume of the SD card is stated in CardAssumption: any of its *)
(* operations may fail but the removal of an existing file and the reading *)
(* of one.                                                                 *)
(***************************************************************************)
EXTENDS AuthStoreSpec, SequenceTheorems, TLAPS

CardAssumption == SdFaults \cap {"remove", "load"} = {}

-----------------------------------------------------------------------------
(* The helpers on ids and codes.                                           *)

\* memcpy into the id yields an id (memcpy never grows LastApprovalId).
LEMMA MemcpyType ==
  ASSUME NEW id \in Ids, NEW code \in Seq(Chars)
  PROVE  memcpy(id, code) \in Ids
<1> SUFFICES ASSUME NEW i \in 1..IdLen
             PROVE  (IF i <= Len(code) THEN code[i] ELSE id[i]) \in Chars \cup {NUL}
  BY DEF memcpy, Ids
<1>1. id[i] \in Chars \cup {NUL}
  BY DEF Ids
<1>2. CASE i <= Len(code)
  <2>1. i \in 1..Len(code)
    BY <1>2, StoreAssumption
  <2> QED
    BY <1>2, <2>1
<1>3. CASE ~(i <= Len(code))
  BY <1>1, <1>3
<1> QED
  BY <1>2, <1>3

\* What was copied compares as the same: copying and comparing agree.
LEMMA MemcpyCompares ==
  ASSUME NEW id \in Ids, NEW code \in Seq(Chars)
  PROVE  compareArrays(memcpy(id, code), code)
<1> SUFFICES ASSUME NEW i \in DOMAIN code, i \in DOMAIN memcpy(id, code)
             PROVE  code[i] = memcpy(id, code)[i]
  BY DEF compareArrays
<1>1. i \in 1..IdLen
  BY DEF memcpy
<1>2. i <= Len(code)
  OBVIOUS
<1> QED
  BY <1>1, <1>2 DEF memcpy

\* The empty code compares as the same with everything.
LEMMA EmptyCompares ==
  ASSUME NEW id
  PROVE  compareArrays(id, <<>>)
  BY DEF compareArrays

LEMMA ClearedType == ClearedId \in Ids
  BY DEF ClearedId, Ids

LEMMA EmptyType == <<>> \in Seq(Chars)
  OBVIOUS

\* The record of a store in progress, as every caller builds it.
Stores == [data : Seq(Chars), reply : Replies, ret : Returns]

LEMMA StoreType ==
  ASSUME NEW code \in Seq(Chars), NEW reply \in Replies,
         NEW ret \in {"publish", "GLCDTask"}
  PROVE  /\ [data |-> code, reply |-> reply, ret |-> ret] \in Stores
         /\ [data |-> code, reply |-> reply, ret |-> ret].ret
              \in {"publish", "GLCDTask"}
<1> QED
  BY DEF Stores, Returns

LEMMA CodesType == \A c \in Codes : c \in Seq(Chars)
  BY StoreAssumption

-----------------------------------------------------------------------------
(* The types of the display, from the steps it takes and the calls it gets.*)

DispOK == GlcdTypeOK

LEMMA DispSteps ==
  ASSUME DispOK, GLCDTask \/ Approve \/ GlcdPowerOn \/ UNCHANGED glcdVars
  PROVE  DispOK'
<1> USE DEF DispOK, GlcdTypeOK
<1>1. CASE GLCDTask
  <2>1. /\ spashScreen(disp) \in DispType
        /\ Drawn(disp) \in DispType
        /\ [Drawn(disp) EXCEPT !.DispState = "DispReady"] \in DispType
        /\ DispScreenUpdate(disp) \in [screen : Screens,
                                       text : [StatusLines -> StatusTexts]]
    BY DEF DispType, DispStates, Screens, StatusTexts, spashScreen, Drawn,
           DispScreenUpdate, BlankLcd
  <2>2. [BlankLcd EXCEPT !.screen = "splash"]
          \in [screen : Screens, text : [StatusLines -> StatusTexts]]
    BY DEF BlankLcd, Screens, StatusTexts
  <2> QED
    BY <1>1, <2>1, <2>2
       DEF GLCDTask, ShowSplash, Redraw, vendBeer, NothingToDraw, glcdVars
<1>2. CASE Approve
  <2>1. GLCDVendBeer(disp) \in DispType
    BY DEF GLCDVendBeer, DispType, DispStates
  <2> QED
    BY <1>2, <2>1, SMT DEF Approve
<1>3. CASE GlcdPowerOn
  BY <1>3 DEF GlcdPowerOn, GLCDInit, BlankLcd, DispType, DispStates, Screens,
              StatusTexts
<1>4. CASE UNCHANGED glcdVars
  BY <1>4 DEF glcdVars
<1> QED
  BY <1>1, <1>2, <1>3, <1>4

-----------------------------------------------------------------------------
(* Type correctness.                                                       *)

LEMMA FeedTypes ==
  ASSUME TypeOK, FeedMessage
  PROVE  TypeOK'
<1> USE DEF TypeOK, StoreTypeOK, Tasks, StoreSteps, Replies
<1>1. feed \in Seq(Chars)
  BY CodesType
<1>2. last' \in {<<>>} \cup {<<c>> : c \in Codes} /\ torn' \in BOOLEAN
  BY DEF FeedMessage, Recorded
<1>3. GlcdTypeOK'
  BY DispSteps DEF DispOK, FeedMessage, callback, FeedApproved, FeedIgnored,
                   FeedRefused
<1>4. /\ pc' \in Tasks
      /\ wr' \in Stores
      /\ wr'.ret \in {"publish", "GLCDTask"}
  <2>1. /\ pc' \in {"sdRemove", "publish"}
        /\ \E reply \in Replies :
             wr' = [data |-> feed, reply |-> reply, ret |-> "publish"]
    BY DEF FeedMessage, callback, FeedApproved, FeedIgnored, FeedRefused, Store
  <2>2. PICK reply \in Replies :
           wr' = [data |-> feed, reply |-> reply, ret |-> "publish"]
    BY <2>1
  <2> QED
    BY <1>1, <2>1, <2>2, StoreType
<1>5. /\ UNCHANGED <<LastApprovalId, sdReady, authFile, feed, feedOld, cuts>>
      /\ IgnoreFeed' \in BOOLEAN
  BY DEF FeedMessage, callback, FeedApproved, FeedIgnored, FeedRefused
<1> QED
  BY <1>2, <1>3, <1>4, <1>5 DEF Stores

LEMMA TextTypes ==
  ASSUME TypeOK, NEW code \in TextCodes, TextMessage(code)
  PROVE  TypeOK'
<1> USE DEF TypeOK, StoreTypeOK, Tasks, StoreSteps, Replies
<1>1. code \in Codes /\ code \in Seq(Chars)
  BY CodesType, SpecAssumption
<1>2. last' \in {<<>>} \cup {<<c>> : c \in Codes} /\ torn' \in BOOLEAN
  BY <1>1 DEF TextMessage, Recorded
<1>3. GlcdTypeOK'
  BY DispSteps DEF DispOK, TextMessage, ParseAuthCode, SmsApproved, SmsRefused
<1>4. /\ pc' \in Tasks
      /\ wr' \in Stores
      /\ wr'.ret \in {"publish", "GLCDTask"}
  <2>1. CASE SmsApproved(code, "GLCDTask")
    <3>1. /\ pc' = "sdRemove"
          /\ wr' = [data |-> code, reply |-> "none", ret |-> "GLCDTask"]
      BY <2>1 DEF SmsApproved, Store
    <3> QED
      BY <1>1, <3>1, StoreType
  <2>2. CASE SmsRefused(code, "GLCDTask")
    BY <2>2 DEF SmsRefused, storeVars, Stores
  <2> QED
    BY <2>1, <2>2 DEF TextMessage, ParseAuthCode
<1>5. UNCHANGED <<LastApprovalId, IgnoreFeed, sdReady, authFile, feed, feedOld, cuts>>
  BY DEF TextMessage, ParseAuthCode, SmsApproved, SmsRefused, storeVars
<1> QED
  BY <1>2, <1>3, <1>4, <1>5 DEF Stores

LEMMA WriteTypes ==
  ASSUME TypeOK, writeToAuthSD, UNCHANGED specVars
  PROVE  TypeOK'
<1> USE DEF TypeOK, StoreTypeOK, Tasks, StoreSteps, specVars
<1>1. GlcdTypeOK'
  BY DispSteps DEF DispOK, writeToAuthSD, sdRemove, sdOpen, sdClose, remember
<1>2. CASE sdRemove
  <2>1. NoFile \in FileStates
    BY EmptyType DEF NoFile, FileStates
  <2>2. authFile' \in FileStates
    BY <1>2, <2>1 DEF sdRemove
  <2> QED
    BY <1>1, <1>2, <2>2 DEF sdRemove
<1>3. CASE sdOpen
  BY <1>1, <1>3 DEF sdOpen, FileStates
<1>4. CASE sdClose
  <2>1. authFile.data \o wr.data \in Seq(Chars)
    BY DEF FileStates
  <2>2. [authFile EXCEPT !.data = @ \o wr.data] \in FileStates
    BY <2>1 DEF FileStates
  <2>3. authFile' \in FileStates
    BY <1>4, <2>2 DEF sdClose
  <2> QED
    BY <1>1, <1>4, <2>3 DEF sdClose
<1>5. CASE remember
  <2>1. memcpy(LastApprovalId, wr.data) \in Ids
    BY MemcpyType
  <2> QED
    BY <1>1, <1>5, <2>1 DEF remember
<1> QED
  BY <1>2, <1>3, <1>4, <1>5 DEF writeToAuthSD

LEMMA CutTypes ==
  ASSUME TypeOK, PowerCut
  PROVE  TypeOK'
<1> USE DEF TypeOK, StoreTypeOK, Tasks
<1>1. GlcdTypeOK'
  BY DispSteps DEF DispOK, PowerCut
<1>2. memcpy(ClearedId, authFile.data) \in Ids /\ ClearedId \in Ids
  BY MemcpyType, ClearedType DEF FileStates
<1>3. LastApprovalId' \in Ids /\ sdReady' \in BOOLEAN /\ IgnoreFeed' \in BOOLEAN
  BY <1>2 DEF PowerCut, StorePowerOn, loadConfigFromSD, CardMayBe, FileStates
<1>4. NoStore \in Stores /\ NoStore.ret = "GLCDTask"
  BY EmptyType, StoreType DEF NoStore, Replies
<1>5. wr' = NoStore /\ authFile' = authFile
  BY DEF PowerCut, StorePowerOn
<1>6. torn' \in BOOLEAN
  BY DEF PowerCut
<1> QED
  BY <1>1, <1>3, <1>4, <1>5, <1>6 DEF PowerCut, Stores

\* StoreTyped: the store's variables stay within their types (type correctness
\* of LastApprovalId, IgnoreFeed, auth.txt and the store in progress).
THEOREM StoreTyped == Spec => []TypeOK
<1>1. Init => TypeOK
  <2> SUFFICES ASSUME Init PROVE TypeOK
    OBVIOUS
  <2>1. GlcdTypeOK
    BY DEF Init, GlcdInit, GlcdTypeOK, GLCDInit, BlankLcd, DispType, DispStates,
           Screens, StatusTexts
  <2>2. StoreTypeOK
    <3>1. NoFile \in FileStates /\ NoStore \in Stores
      BY EmptyType, StoreType DEF NoFile, FileStates, NoStore, Replies
    <3> QED
      BY <3>1, ClearedType
         DEF Init, StoreInit, StoreTypeOK, Stores, CardMayBe
  <2> QED
    BY <2>1, <2>2 DEF Init, TypeOK, Tasks, StoreInit, NoStore
<1>2. TypeOK /\ [Next]_vars => TypeOK'
  <2> SUFFICES ASSUME TypeOK, [Next]_vars PROVE TypeOK'
    OBVIOUS
  <2>1. CASE GLCDTask /\ UNCHANGED <<storeVars, specVars>>
    <3>1. GlcdTypeOK'
      BY <2>1, DispSteps DEF DispOK, TypeOK
    <3>2. pc' \in Tasks
      BY <2>1 DEF GLCDTask, ShowSplash, Redraw, vendBeer, NothingToDraw, Tasks
    <3> QED
      BY <2>1, <3>1, <3>2 DEF TypeOK, StoreTypeOK, storeVars, specVars
  <2>2. CASE FeedMessage
    BY <2>2, FeedTypes
  <2>3. CASE writeToAuthSD /\ UNCHANGED specVars
    BY <2>3, WriteTypes
  <2>4. CASE \E code \in TextCodes : TextMessage(code)
    BY <2>4, TextTypes
  <2>5. CASE NoFeedMessage \/ publish \/ NoTextMessage \/ Publish \/ UNCHANGED vars
    <3>1. GlcdTypeOK'
      BY <2>5, DispSteps DEF DispOK, TypeOK, NoFeedMessage, publish,
                             NoTextMessage, Publish, vars
    <3> QED
      BY <2>5, <3>1 DEF TypeOK, StoreTypeOK, storeVars, specVars, Tasks, vars,
                        NoFeedMessage, publish, NoTextMessage, Publish
  <2>6. CASE PowerCut
    BY <2>6, CutTypes
  <2> QED
    BY <2>1, <2>2, <2>3, <2>4, <2>5, <2>6 DEF Next, Step
<1> QED
  BY <1>1, <1>2, PTL DEF Spec

-----------------------------------------------------------------------------
(* What keeps card, RAM and history together while a code is recorded.     *)

Storing == pc \in StoreSteps

\* What the card holds at each step of writeToAuthSD, and between stores.
CardInv ==
  /\ (~Storing /\ sdReady) => compareArrays(LastApprovalId, authFile.data)
  /\ (pc = "sdOpen" /\ sdReady) => authFile.data = <<>>
  /\ pc = "sdClose" => sdReady /\ authFile.data = <<>>
  /\ (pc = "remember" /\ sdReady) => authFile.data \in {<<>>, wr.data}

\* What the history says of the card, the RAM and the virgin flag.
HistoryInv ==
  /\ Storing => last = <<wr.data>>
  /\ (~Storing /\ ~torn /\ last # <<>>) => compareArrays(LastApprovalId, last[1])
  /\ last = <<>> => ~authFile.exists
  /\ (last = <<>> /\ ~torn) => IgnoreFeed

IInv == TypeOK /\ CardInv /\ HistoryInv /\ PassAfterStore

\* Steps outside the store leave the invariant alone.
LEMMA QuietSteps ==
  ASSUME IInv, TypeOK', UNCHANGED <<storeVars, last, torn>>, ~Storing,
         pc' \notin StoreSteps, pc' = "publish" => pc = "publish"
  PROVE  IInv'
  BY DEF IInv, CardInv, HistoryInv, PassAfterStore, Storing, storeVars,
         compareArrays, StoreSteps

LEMMA FeedInv ==
  ASSUME IInv, TypeOK', FeedMessage
  PROVE  IInv'
<1> USE DEF IInv, CardInv, HistoryInv, PassAfterStore, Storing, StoreSteps
<1>1. CASE FeedApproved(feed) \/ FeedIgnored(feed)
  <2>1. pc' = "sdRemove" /\ wr'.data = feed /\ last' = <<feed>>
    BY <1>1 DEF FeedMessage, FeedApproved, FeedIgnored, Store, Recorded
  <2> QED
    BY <2>1
<1>2. CASE FeedRefused(feed)
  <2>1. /\ pc = "BeerBotTask" /\ pc' = "publish" /\ wr'.reply = "FAIL"
        /\ UNCHANGED <<LastApprovalId, IgnoreFeed, sdReady, authFile, last, torn>>
    BY <1>2 DEF FeedMessage, FeedRefused, Recorded, TypeOK
  <2> QED
    BY <2>1 DEF compareArrays
<1> QED
  BY <1>1, <1>2 DEF FeedMessage, callback

LEMMA TextInv ==
  ASSUME IInv, TypeOK', NEW code \in TextCodes, TextMessage(code)
  PROVE  IInv'
<1>1. CASE SmsApproved(code, "GLCDTask")
  <2>1. pc' = "sdRemove" /\ wr'.data = code /\ last' = <<code>>
    BY <1>1 DEF TextMessage, SmsApproved, Store, Recorded
  <2> QED
    BY <2>1 DEF IInv, CardInv, HistoryInv, PassAfterStore, Storing, StoreSteps
<1>2. CASE SmsRefused(code, "GLCDTask")
  <2>1. /\ pc = "SmsTask" /\ pc' = "GLCDTask"
        /\ UNCHANGED <<storeVars, last, torn>>
    BY <1>2 DEF TextMessage, SmsRefused, Recorded, IInv, TypeOK
  <2> QED
    BY <2>1, QuietSteps DEF Storing, StoreSteps
<1> QED
  BY <1>1, <1>2 DEF TextMessage, ParseAuthCode

LEMMA WriteInv ==
  ASSUME CardAssumption, IInv, TypeOK', writeToAuthSD, UNCHANGED specVars
  PROVE  IInv'
<1> USE DEF IInv, CardInv, HistoryInv, PassAfterStore, Storing, StoreSteps, specVars
<1>1. wr.data \in Seq(Chars) /\ LastApprovalId \in Ids /\ wr.ret \in {"publish", "GLCDTask"}
  BY DEF TypeOK, StoreTypeOK
<1>2. CASE sdRemove
  <2>1. sdReady => authFile'.data = <<>>
    BY <1>2 DEF sdRemove, NoFile, CardAssumption
  <2> QED
    BY <1>2, <2>1 DEF sdRemove
<1>3. CASE sdOpen
  <2>1. authFile'.data = authFile.data
    BY <1>3 DEF sdOpen, TypeOK, StoreTypeOK, FileStates
  <2> QED
    BY <1>3, <2>1 DEF sdOpen
<1>4. CASE sdClose
  <2>1. <<>> \o wr.data = wr.data
    BY <1>1, ConcatEmptySeq
  <2>2. authFile.data = <<>> /\ authFile \in FileStates
    BY <1>4 DEF sdClose, TypeOK, StoreTypeOK
  <2>3. authFile'.data \in {<<>>, wr.data}
    BY <1>4, <2>1, <2>2 DEF sdClose, FileStates
  <2> QED
    BY <1>4, <2>3 DEF sdClose
<1>5. CASE remember
  <2>1. compareArrays(LastApprovalId', wr.data)
    BY <1>1, <1>5, MemcpyCompares DEF remember
  <2>2. sdReady => compareArrays(LastApprovalId', authFile.data)
    BY <1>5, <2>1, EmptyCompares DEF remember
  <2>3. last # <<>> => last[1] = wr.data
    BY <1>5 DEF remember
  <2>4. /\ pc = "remember" /\ pc' \in {"publish", "GLCDTask"}
        /\ UNCHANGED <<IgnoreFeed, sdReady, authFile, wr, last, torn>>
    BY <1>1, <1>5 DEF remember
  <2>5. CardInv'
    BY <2>2, <2>4 DEF compareArrays
  <2>6. HistoryInv'
    BY <2>1, <2>3, <2>4 DEF compareArrays
  <2>7. PassAfterStore'
    BY <2>1, <2>4 DEF compareArrays
  <2> QED
    BY <2>5, <2>6, <2>7
<1> QED
  BY <1>2, <1>3, <1>4, <1>5 DEF writeToAuthSD

LEMMA CutInv ==
  ASSUME CardAssumption, IInv, TypeOK', PowerCut
  PROVE  IInv'
<1> USE DEF IInv, HistoryInv
<1>1. /\ authFile' = authFile /\ last' = last /\ pc' = "GLCDTask"
      /\ torn' = (torn \/ ~sdReady' \/ ~LastOnCard)
      /\ IgnoreFeed' = (sdReady' /\ ~authFile.exists)
      /\ sdReady' => LastApprovalId' = memcpy(ClearedId, authFile.data)
  BY DEF PowerCut, StorePowerOn, loadConfigFromSD, CardAssumption
<1>2. sdReady' => compareArrays(LastApprovalId', authFile'.data)
  <2>1. authFile.data \in Seq(Chars)
    BY DEF TypeOK, StoreTypeOK, FileStates
  <2> QED
    BY <1>1, <2>1, ClearedType, MemcpyCompares
<1>3. CardInv'
  BY <1>1, <1>2 DEF CardInv, Storing, StoreSteps
<1>4. (~torn' /\ last # <<>>) => compareArrays(LastApprovalId', last[1])
  <2>1. (~torn' /\ last # <<>>) => sdReady' /\ LastOnCard
    BY <1>1
  <2>2. (LastOnCard /\ last # <<>>) => authFile'.data = last[1]
    BY <1>1 DEF LastOnCard
  <2> QED
    BY <1>2, <2>1, <2>2
<1>5. HistoryInv'
  BY <1>1, <1>4 DEF Storing, StoreSteps
<1> QED
  BY <1>1, <1>3, <1>5 DEF PassAfterStore

LEMMA IInvInductive ==
  ASSUME CardAssumption, IInv, TypeOK', [Next]_vars
  PROVE  IInv'
<1>1. CASE GLCDTask /\ UNCHANGED <<storeVars, specVars>>
  <2>1. pc = "GLCDTask" /\ pc' \in {"GLCDTask", "BeerBotTask"}
    BY <1>1 DEF GLCDTask, ShowSplash, Redraw, vendBeer, NothingToDraw
  <2> QED
    BY <1>1, <2>1, QuietSteps DEF Storing, StoreSteps, specVars
<1>2. CASE FeedMessage
  BY <1>2, FeedInv
<1>3. CASE NoFeedMessage \/ publish \/ NoTextMessage
  BY <1>3, QuietSteps
     DEF NoFeedMessage, publish, NoTextMessage, Storing, StoreSteps, specVars
<1>4. CASE writeToAuthSD /\ UNCHANGED specVars
  BY <1>4, WriteInv
<1>5. CASE \E code \in TextCodes : TextMessage(code)
  BY <1>5, TextInv
<1>6. CASE Publish \/ UNCHANGED vars
  BY <1>6 DEF Publish, vars, storeVars, specVars, IInv, CardInv, HistoryInv,
              PassAfterStore, Storing, compareArrays
<1>7. CASE PowerCut
  BY <1>7, CutInv
<1> QED
  BY <1>1, <1>2, <1>3, <1>4, <1>5, <1>6, <1>7 DEF Next, Step

LEMMA IInvAlways == ASSUME CardAssumption PROVE Spec => []IInv
<1>1. Init /\ TypeOK => IInv
  <2> SUFFICES ASSUME Init, TypeOK PROVE IInv
    OBVIOUS
  <2>1. /\ pc = "GLCDTask" /\ authFile = NoFile /\ last = <<>> /\ torn = ~sdReady
        /\ IgnoreFeed = sdReady
    BY DEF Init, StoreInit
  <2>2. compareArrays(LastApprovalId, authFile.data) /\ ~authFile.exists
    BY <2>1, EmptyCompares DEF NoFile
  <2> QED
    BY <2>1, <2>2 DEF IInv, CardInv, HistoryInv, PassAfterStore, Storing,
                      StoreSteps, TypeOK, StoreTypeOK
<1>2. IInv /\ TypeOK' /\ [Next]_vars => IInv'
  BY IInvInductive
<1> QED
  BY <1>1, <1>2, StoreTyped, PTL DEF Spec

-----------------------------------------------------------------------------
(* The theorems.                                                           *)

\* CardNeverStaleAlways: outside writeToAuthSD the file on the card agrees with
\* the id in RAM or is empty, through every power cut, and whatever fails among
\* SD.begin, SD.open and write (wifi.ino:306-310, sms.ino:324-328).
THEOREM CardNeverStaleAlways ==
  ASSUME CardAssumption PROVE Spec => []CardNeverStale
<1>1. IInv => CardNeverStale
  BY DEF IInv, CardInv, Storing, CardNeverStale
<1> QED
  BY <1>1, IInvAlways, PTL

\* PassAfterStoreAlways: "2,PASS" goes out when the code is in RAM, and the card
\* holds nothing older (wifi.ino:305-311).
THEOREM PassAfterStoreAlways ==
  ASSUME CardAssumption PROVE Spec => []PassAfterStore
<1>1. IInv => PassAfterStore
  BY DEF IInv
<1> QED
  BY <1>1, IInvAlways, PTL

\* Who approves a code: a channel that finds it different from the id in RAM,
\* the feed only when the virgin flag is cleared.
LEMMA ApprovingSteps ==
  ASSUME TypeOK, [Next]_vars, approvals' > approvals
  PROVE  \/ /\ FeedMessage /\ pc = "BeerBotTask" /\ ~IgnoreFeed
            /\ ~compareArrays(LastApprovalId, feed) /\ last' = <<feed>>
         \/ \E code \in TextCodes :
              /\ pc = "SmsTask"
              /\ ~compareArrays(LastApprovalId, code) /\ last' = <<code>>
<1> USE DEF TypeOK, GlcdTypeOK
<1>1. CASE GLCDTask /\ UNCHANGED <<storeVars, specVars>>
  BY <1>1 DEF GLCDTask, ShowSplash, Redraw, vendBeer, NothingToDraw, glcdVars
<1>2. CASE FeedMessage
  <2>1. FeedApproved(feed)
    BY <1>2 DEF FeedMessage, callback, FeedIgnored, FeedRefused, glcdVars
  <2> QED
    BY <1>2, <2>1 DEF FeedMessage, FeedApproved, Store, Recorded
<1>3. CASE NoFeedMessage \/ publish \/ NoTextMessage \/ Publish \/ UNCHANGED vars
  BY <1>3 DEF NoFeedMessage, publish, NoTextMessage, Publish, vars, glcdVars
<1>4. CASE writeToAuthSD /\ UNCHANGED specVars
  <2>1. UNCHANGED glcdVars
    BY <1>4, Zenon DEF writeToAuthSD, sdRemove, sdOpen, sdClose, remember
  <2> QED
    BY <2>1 DEF glcdVars
<1>5. CASE \E code \in TextCodes : TextMessage(code)
  <2>1. PICK code \in TextCodes : TextMessage(code)
    BY <1>5
  <2>2. SmsApproved(code, "GLCDTask")
    BY <2>1 DEF TextMessage, ParseAuthCode, SmsRefused, glcdVars
  <2> QED
    BY <2>1, <2>2 DEF TextMessage, SmsApproved, Store, Recorded
<1>6. CASE PowerCut
  <2>1. UNCHANGED approvals
    BY <1>6 DEF PowerCut, GlcdPowerOn
  <2> QED
    BY <2>1
<1> QED
  BY <1>1, <1>2, <1>3, <1>4, <1>5, <1>6 DEF Next, Step

\* NoReplayAlways: a code is not approved again while it is the last recorded,
\* unless its recording was lost (wifi.ino:288, sms.ino:318, wifi.ino:393-411).
THEOREM NoReplayAlways == ASSUME CardAssumption PROVE Spec => NoReplay
<1>1. IInv /\ [Next]_vars => [approvals' > approvals => torn \/ last # last']_vars
  <2> SUFFICES ASSUME IInv, [Next]_vars, approvals' > approvals,
                      ~torn, last = last'
               PROVE  FALSE
    OBVIOUS
  <2>1. PICK code : /\ pc \notin StoreSteps
                    /\ ~compareArrays(LastApprovalId, code) /\ last = <<code>>
    BY ApprovingSteps DEF IInv, StoreSteps
  <2>2. last # <<>> /\ last[1] = code
    BY <2>1
  <2> QED
    BY <2>1, <2>2 DEF IInv, HistoryInv, Storing
<1> QED
  BY <1>1, IInvAlways, PTL DEF Spec, NoReplay

\* OldValueIgnoredAlways: a feed value older than the bot vends only after its
\* recording was lost or another code replaced it (wifi.ino:282-301, 393-401).
THEOREM OldValueIgnoredAlways ==
  ASSUME CardAssumption PROVE Spec => OldValueIgnored
<1>1. IInv /\ [Next]_vars
        => [OldValueVends => torn \/ last \notin {<<>>, <<feed>>}]_vars
  <2> SUFFICES ASSUME IInv, [Next]_vars, OldValueVends, ~torn,
                      last \in {<<>>, <<feed>>}
               PROVE  FALSE
    OBVIOUS
  <2>1. /\ pc = "BeerBotTask" /\ ~IgnoreFeed
        /\ ~compareArrays(LastApprovalId, feed)
    BY ApprovingSteps DEF IInv, OldValueVends
  <2>2. CASE last = <<>>
    BY <2>1, <2>2 DEF IInv, HistoryInv
  <2>3. CASE last = <<feed>>
    <3>1. last # <<>> /\ last[1] = feed
      BY <2>3
    <3> QED
      BY <2>1, <3>1 DEF IInv, HistoryInv, Storing, StoreSteps
  <2> QED
    BY <2>2, <2>3
<1> QED
  BY <1>1, IInvAlways, PTL DEF Spec, OldValueIgnored
=============================================================================
