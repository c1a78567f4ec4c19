--------------------------- MODULE AuthStoreSpec ---------------------------
(***************************************************************************)
(* Approving and remembering codes, on its own: in every pass of loop()    *)
(* the feed may deliver its value (a new one, or the last one again, as    *)
(* after every reconnection) and then a text message may bring a code;     *)
(* the power may be cut between any two steps.                             *)
(***************************************************************************)
EXTENDS AuthStore

CONSTANTS TextCodes,     \* the codes that may come by text message
          MaxApprovals,  \* bound on the approvals of one behaviour
          MaxCuts        \* bound on the power cuts of one behaviour

ASSUME SpecAssumption ==
  TextCodes \subseteq Codes /\ MaxApprovals \in Nat /\ MaxCuts \in Nat

VARIABLES feed,   \* the last value of the feed, kept by the server
          feedOld,\* history: that value is older than the bot
          last,   \* history: <<the code recorded last>>, empty at first
          torn,   \* history: a power cut came before that code was on the card,
                  \* or the card was missing at a power-on since
          cuts    \* power cuts so far

specVars == <<feed, feedOld, last, torn, cuts>>
vars == <<pc, glcdVars, storeVars, specVars>>

-----------------------------------------------------------------------------
Init ==
  /\ pc = "GLCDTask"
  /\ GlcdInit
  /\ StoreInit
  /\ feed \in Codes
  /\ feedOld = TRUE
  /\ last = <<>>
  /\ torn = ~sdReady
  /\ cuts = 0

\* The history of a code that a channel has just handled.
Recorded(code) ==
  /\ last' = IF pc' = "sdRemove" THEN <<code>> ELSE last
  /\ torn' = (torn /\ pc' # "sdRemove")

\* Someone publishes a new value on the feed.
Publish ==
  /\ feed' \in Codes
  /\ feedOld' = FALSE
  /\ UNCHANGED <<pc, glcdVars, storeVars, last, torn, cuts>>

FeedMessage ==
  /\ pc = "BeerBotTask"
  /\ approvals < MaxApprovals
  /\ callback(feed)
  /\ Recorded(feed)
  /\ UNCHANGED <<feed, feedOld, cuts>>

publish ==
  /\ pc = "publish"
  /\ pc' = "SmsTask"
  /\ UNCHANGED <<glcdVars, storeVars, specVars>>

NoFeedMessage ==
  /\ pc = "BeerBotTask"
  /\ pc' = "SmsTask"
  /\ UNCHANGED <<glcdVars, storeVars, specVars>>

TextMessage(code) ==
  /\ pc = "SmsTask"
  /\ approvals < MaxApprovals
  /\ ParseAuthCode(code, "GLCDTask")
  /\ Recorded(code)
  /\ UNCHANGED <<feed, feedOld, cuts>>

NoTextMessage ==
  /\ pc = "SmsTask"
  /\ pc' = "GLCDTask"
  /\ UNCHANGED <<glcdVars, storeVars, specVars>>

LastOnCard == last = <<>> \/ authFile = [exists |-> TRUE, data |-> last[1]]

PowerCut ==
  /\ cuts < MaxCuts
  /\ cuts' = cuts + 1
  /\ pc' = "GLCDTask"
  /\ GlcdPowerOn
  /\ StorePowerOn
  /\ torn' = (torn \/ ~sdReady' \/ ~LastOnCard)
  /\ UNCHANGED <<feed, feedOld, last>>

Step == \/ GLCDTask /\ UNCHANGED <<storeVars, specVars>>
        \/ FeedMessage
        \/ NoFeedMessage
        \/ writeToAuthSD /\ UNCHANGED specVars
        \/ publish
        \/ \E code \in TextCodes : TextMessage(code)
        \/ NoTextMessage

Next == Step \/ Publish \/ PowerCut

Spec == Init /\ [][Next]_vars

-----------------------------------------------------------------------------
Tasks == {"GLCDTask", "BeerBotTask", "publish", "SmsTask"} \cup StoreSteps

TypeOK ==
  /\ pc \in Tasks
  /\ GlcdTypeOK
  /\ StoreTypeOK
  /\ wr.ret \in {"publish", "GLCDTask"}
  /\ feed \in Codes
  /\ feedOld \in BOOLEAN
  /\ last \in {<<>>} \cup {<<c>> : c \in Codes}
  /\ torn \in BOOLEAN
  /\ cuts \in Nat

\* CardNeverStale: outside writeToAuthSD the file, if it has contents, holds the
\* id in RAM, so that a power cut never brings an older id back (wifi.ino:306-310
\* and sms.ino:324-328 write card and RAM together), also when SD.begin, SD.open or
\* write() fails.  Removing and loading an existing file are taken not to fail.
CardNeverStale ==
  (sdReady /\ pc \notin StoreSteps) =>
     compareArrays(LastApprovalId, authFile.data)

\* NoReplay: a code is not approved again while it is the last one recorded,
\* even across power cuts and failing SD calls, unless one of them lost the
\* recording (wifi.ino:288, sms.ino:318, and what loadConfigFromSD restores).
NoReplay ==
  [][approvals' > approvals => torn \/ last # last']_vars

\* PassAfterStore: when "2,PASS" goes out the code is in RAM, and the card, if
\* it took anything, holds nothing else: a power cut right after the reply does
\* not bring the older id back (wifi.ino:305-311).
PassAfterStore ==
  (pc = "publish" /\ wr.reply = "PASS") =>
     /\ compareArrays(LastApprovalId, wr.data)
     /\ sdReady => authFile.data \in {<<>>, wr.data}

OldValueVends == approvals' > approvals /\ pc = "BeerBotTask" /\ feedOld

\* SetupNeverVends: "Whenever you connect to COSM, it will send you the last
\* value of the feed. This should not trigger a vend when the bot is set up for
\* the first time." (wifi.ino:282-283)
SetupNeverVends == [][~OldValueVends]_vars

\* OldValueIgnored: what the code does achieve of it: a value older than the
\* bot vends only after its recording was lost or another code replaced it.
OldValueIgnored == [][OldValueVends => torn \/ last \notin {<<>>, <<feed>>}]_vars
=============================================================================
