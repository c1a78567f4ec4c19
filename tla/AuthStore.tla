----------------------------- MODULE AuthStore -----------------------------
(***************************************************************************)
(* Approving a code and remembering it: the part the two channels share.   *)
(*                                                                         *)
(* The last approval id lives twice, in RAM (LastApprovalId) and in the    *)
(* file auth.txt on the SD card, from which loadConfigFromSD restores it   *)
(* at power-on.  A channel that meets a new code requests the beer first   *)
(* (GLCDVendBeer), then rewrites the file (writeToAuthSD), then the RAM.   *)
(* The rewriting is split where a power cut leaves different files behind: *)
(* the file is removed, created empty, and gets its size when it is closed.*)
(* None of the results of the SD calls is looked at.                       *)
(*                                                                         *)
(* A code is a sequence of characters.  CR and LF, which the loader skips, *)
(* and codes longer than LastApprovalId do not occur.                      *)
(***************************************************************************)
EXTENDS Glcd, Sequences

CONSTANTS Codes,     \* the codes that can arrive on a channel
          Chars,     \* their characters
          NUL,       \* the byte RAM is cleared to
          IdLen,     \* C_APPROVAL_ID_LEN
          SdFaults   \* which of SdOperations may fail

SdOperations == {"begin", "load", "remove", "open", "write"}

ASSUME StoreAssumption ==
  /\ SdFaults \subseteq SdOperations
  /\ IdLen \in Nat \ {0}
  /\ NUL \notin Chars
  /\ \A c \in Codes : c \in Seq(Chars) /\ Len(c) <= IdLen

VARIABLES LastApprovalId,  \* the id in RAM
          IgnoreFeed,      \* "virgin": the next new feed value is only recorded
          sdReady,         \* SD.begin succeeded at this power-on
          authFile,        \* auth.txt: does it exist, and its contents
          wr               \* the store in progress: its code, the reply to be
                           \* published after it, and the caller to return to

storeVars == <<LastApprovalId, IgnoreFeed, sdReady, authFile, wr>>

-----------------------------------------------------------------------------
Ids     == [1..IdLen -> Chars \cup {NUL}]
FileStates == [exists : BOOLEAN, data : Seq(Chars)]
Replies == {"PASS", "FAIL", "none"}
\* Where the program goes on: in the callback, in SM5100StateMachine, or in the
\* next pass.
Returns == {"publish", "SM5100Status", "GLCDTask"}
StoreSteps == {"sdRemove", "sdOpen", "sdClose", "remember"}

ClearedId == [i \in 1..IdLen |-> NUL]
NoFile    == [exists |-> FALSE, data |-> <<>>]

\* Mutant: the whole id is compared, with what an older code left in it.
compareArraysWhole(id, code) ==
  id = [i \in DOMAIN id |-> IF i <= Len(code) THEN code[i] ELSE NUL]

\* Only as many characters as the new code has are compared.  (What lies in
\* memory behind the id, which a longer code would reach, is not modelled.)
compareArrays(id, code) ==
  \A i \in DOMAIN code \cap DOMAIN id : code[i] = id[i]

\* Mutant: the id takes the length of the code.
memcpyLength(id, code) == code

\* The characters of an older, longer id stay behind the new one.
memcpy(id, code) == [i \in 1..IdLen |-> IF i <= Len(code) THEN code[i] ELSE id[i]]

-----------------------------------------------------------------------------
(* What a channel does with a code; `ret' is where the program goes after. *)

Store(code, reply, ret) ==
  /\ wr' = [data |-> code, reply |-> reply, ret |-> ret]
  /\ pc' = "sdRemove"

Approve ==
  /\ disp' = GLCDVendBeer(disp)
  /\ approvals' = approvals + 1
  /\ UNCHANGED <<lcd, vendside, vends>>

\* Mutant: the code is acknowledged before it is stored.
FeedApprovedFirst(code) ==
  /\ ~compareArrays(LastApprovalId, code)
  /\ ~IgnoreFeed
  /\ Approve
  /\ wr' = [data |-> code, reply |-> "PASS", ret |-> "publish"]
  /\ pc' = "publish"
  /\ UNCHANGED <<LastApprovalId, IgnoreFeed, sdReady, authFile>>

FeedApproved(code) ==
  /\ ~compareArrays(LastApprovalId, code)
  /\ ~IgnoreFeed
  /\ Approve
  /\ Store(code, "PASS", "publish")
  /\ UNCHANGED <<LastApprovalId, IgnoreFeed, sdReady, authFile>>

\* Mutant: the ignored value is not recorded.
FeedIgnoredForgotten(code) ==
  /\ ~compareArrays(LastApprovalId, code)
  /\ IgnoreFeed
  /\ IgnoreFeed' = FALSE
  /\ wr' = [data |-> code, reply |-> "FAIL", ret |-> "publish"]
  /\ pc' = "publish"
  /\ UNCHANGED <<glcdVars, LastApprovalId, sdReady, authFile>>

FeedIgnored(code) ==
  /\ ~compareArrays(LastApprovalId, code)
  /\ IgnoreFeed
  /\ IgnoreFeed' = FALSE
  /\ Store(code, "FAIL", "publish")
  /\ UNCHANGED <<glcdVars, LastApprovalId, sdReady, authFile>>

\* Mutant: a code that is known already is answered like a new one.
FeedRefusedPolitely(code) ==
  /\ compareArrays(LastApprovalId, code)
  /\ wr' = [data |-> code, reply |-> "PASS", ret |-> "publish"]
  /\ pc' = "publish"
  /\ UNCHANGED <<glcdVars, LastApprovalId, IgnoreFeed, sdReady, authFile>>

FeedRefused(code) ==
  /\ compareArrays(LastApprovalId, code)
  /\ wr' = [data |-> code, reply |-> "FAIL", ret |-> "publish"]
  /\ pc' = "publish"
  /\ UNCHANGED <<glcdVars, LastApprovalId, IgnoreFeed, sdReady, authFile>>

\* The MQTT callback, up to its last statement, the publishing of wr.reply.
callback(code) == FeedApproved(code) \/ FeedIgnored(code) \/ FeedRefused(code)

\* The same for a text message; the virgin flag plays no part in it.
SmsApproved(code, ret) ==
  /\ ~compareArrays(LastApprovalId, code)
  /\ Approve
  /\ Store(code, "none", ret)
  /\ UNCHANGED <<LastApprovalId, IgnoreFeed, sdReady, authFile>>

SmsRefused(code, ret) ==
  /\ compareArrays(LastApprovalId, code)
  /\ pc' = ret
  /\ UNCHANGED <<glcdVars, storeVars>>

ParseAuthCode(code, ret) == SmsApproved(code, ret) \/ SmsRefused(code, ret)

-----------------------------------------------------------------------------
(* writeToAuthSD, and the memcpy that follows it in both callers.          *)

\* Mutant: the old file is not removed, so that the code is appended to it.
sdRemoveSkipped ==
  /\ pc = "sdRemove"
  /\ pc' = "sdOpen"
  /\ UNCHANGED <<glcdVars, storeVars>>

sdRemove ==
  /\ pc = "sdRemove"
  /\ \/ sdReady /\ authFile' = NoFile
     \/ (~sdReady \/ "remove" \in SdFaults) /\ UNCHANGED authFile
  /\ pc' = "sdOpen"
  /\ UNCHANGED <<glcdVars, LastApprovalId, IgnoreFeed, sdReady, wr>>

\* SD.open creates the file, empty, on the card.  Without a handle write() and
\* close() do nothing.
sdOpen ==
  /\ pc = "sdOpen"
  /\ \/ /\ sdReady
        /\ authFile' = [authFile EXCEPT !.exists = TRUE]
        /\ pc' = "sdClose"
     \/ /\ ~sdReady \/ "open" \in SdFaults
        /\ pc' = "remember"
        /\ UNCHANGED authFile
  /\ UNCHANGED <<glcdVars, LastApprovalId, IgnoreFeed, sdReady, wr>>

\* write() appends in the cached block; close() puts the block and the new size
\* of the file on the card.
sdClose ==
  /\ pc = "sdClose"
  /\ \/ authFile' = [authFile EXCEPT !.data = @ \o wr.data]
     \/ "write" \in SdFaults /\ UNCHANGED authFile
  /\ pc' = "remember"
  /\ UNCHANGED <<glcdVars, LastApprovalId, IgnoreFeed, sdReady, wr>>

\* Mutant: the copy in RAM is not updated.
rememberNothing ==
  /\ pc = "remember"
  /\ pc' = wr.ret
  /\ UNCHANGED <<glcdVars, storeVars>>

remember ==
  /\ pc = "remember"
  /\ LastApprovalId' = memcpy(LastApprovalId, wr.data)
  /\ pc' = wr.ret
  /\ UNCHANGED <<glcdVars, IgnoreFeed, sdReady, authFile, wr>>

writeToAuthSD == sdRemove \/ sdOpen \/ sdClose \/ remember

-----------------------------------------------------------------------------
\* The results SD.begin may have.
CardMayBe == {b \in BOOLEAN : b \/ "begin" \in SdFaults}

\* loadConfigFromSD, from a RAM that the C start-up code has cleared: with no
\* card nothing is set; with a card the file decides IgnoreFeed and the id.
loadConfigFromSD ==
  /\ sdReady' \in CardMayBe
  /\ IgnoreFeed' = (sdReady' /\ ~authFile.exists)
  /\ \/ sdReady' /\ LastApprovalId' = memcpy(ClearedId, authFile.data)
     \/ (~sdReady' \/ "load" \in SdFaults) /\ LastApprovalId' = ClearedId

NoStore == [data |-> <<>>, reply |-> "none", ret |-> "GLCDTask"]

StorePowerOn == loadConfigFromSD /\ wr' = NoStore /\ UNCHANGED authFile

\* The machine as built: no file on the card, the first power-on done.
StoreInit ==
  /\ authFile = NoFile
  /\ LastApprovalId = ClearedId
  /\ sdReady \in CardMayBe
  /\ IgnoreFeed = sdReady
  /\ wr = NoStore

StoreTypeOK ==
  /\ LastApprovalId \in Ids
  /\ IgnoreFeed \in BOOLEAN
  /\ sdReady \in BOOLEAN
  /\ authFile \in FileStates
  /\ wr \in [data : Seq(Chars), reply : Replies, ret : Returns]
=============================================================================
