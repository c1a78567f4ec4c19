------------------------------ MODULE SmsSpec ------------------------------
(***************************************************************************)
(* The text message channel with the display and the store, without the    *)
(* internet channel: BeerBotTask only takes time.  How much time decides   *)
(* how the lines of the modem meet the passes of loop(), and is the        *)
(* difference between the two environments: Spaced, each line is handled   *)
(* before the next one starts; otherwise (BeerBotTask waits for the WiFi,  *)
(* a beer is vended) any amount piles up in the receive buffer.            *)
(***************************************************************************)
EXTENDS Sms

CONSTANTS Spaced,      \* does the modem leave room between its lines?
          Notices,     \* the status numbers it may send of its own accord
          Unknown,     \* may a text between # and & lack the header AC: ?
          MaxLines,    \* bound on the notices and texts of one behaviour
          MaxCuts      \* bound on the power cuts of one behaviour

ASSUME SmsSpecAssumption ==
  /\ Spaced \in BOOLEAN /\ Unknown \in BOOLEAN
  /\ Notices \subseteq Seq(Digits)
  /\ MaxLines \in Nat /\ MaxCuts \in Nat

VARIABLES texted,   \* history: the codes texted so far, in order
          clipped,  \* history: since the power came on, the rest of a line that
                    \* was being logged has been thrown away
          lines,    \* notices and texts so far
          cuts      \* power cuts so far

specVars == <<texted, clipped, lines, cuts>>
vars == <<pc, glcdVars, storeVars, leds, smsVars, specVars>>

-----------------------------------------------------------------------------
Init ==
  /\ pc = "GLCDTask"
  /\ GlcdInit
  /\ StoreInit
  /\ leds = LedsOff
  /\ SmsInit
  /\ texted = <<>>
  /\ clipped = FALSE
  /\ lines = 0
  /\ cuts = 0

\* A line may start only when the bot has dealt with the one before.  What else
\* the bot is about to do does not hold the modem back: a line may also come just
\* before SM5100StateMachine resets the modem, and is cut off then.
LineMayStart ==
  Spaced => /\ pc = "GLCDTask" /\ ~sms.CmdComplete
            /\ rx = <<>>
            /\ sms.SM5100State # "SM5100Ready"

Start == LineMayStart /\ ModemStarts /\ UNCHANGED specVars

Notice(n) ==
  /\ LineMayStart
  /\ lines < MaxLines
  /\ ModemSends(SIND(n))
  /\ lines' = lines + 1
  /\ UNCHANGED <<texted, clipped, cuts>>

TextMessage(code) ==
  /\ LineMayStart
  /\ lines < MaxLines
  /\ modem.textMode
  /\ ModemSends(Text(code))
  /\ lines' = lines + 1
  /\ texted' = Append(texted, code)
  /\ UNCHANGED <<clipped, cuts>>

UnknownText ==
  /\ LineMayStart
  /\ lines < MaxLines
  /\ Unknown
  /\ modem.textMode
  /\ ModemSends(CMT(<<"#", "text", "&">>))
  /\ lines' = lines + 1
  /\ UNCHANGED <<texted, clipped, cuts>>

\* BeerBotTask.
InternetTask ==
  /\ pc = "BeerBotTask"
  /\ pc' = "SM5100RxTask"
  /\ UNCHANGED <<glcdVars, storeVars, leds, smsVars>>

PowerCut ==
  /\ cuts < MaxCuts
  /\ cuts' = cuts + 1
  /\ pc' = "GLCDTask"
  /\ GlcdPowerOn /\ StorePowerOn /\ SmsPowerOn
  /\ leds' = LedsOff
  /\ clipped' = FALSE
  /\ UNCHANGED <<texted, lines>>

\* The call of SM5100StateMachine that follows empties the receive buffer, in
\* SM5100Reset or in SM500InitializeSMS, but leaves CmdStart as it is.
ThrowsAway ==
  /\ pc = "SM5100StateMachine"
  /\ \/ sms.BootUp
     \/ sms.SM5100State = "SM5100Ready"
     \/ sms.SM5100State = "SM5100Error" /\ sms.timeout

Step == /\ \/ GLCDTask /\ UNCHANGED <<storeVars, leds, smsVars>>
           \/ InternetTask
           \/ SM5100RxTask
           \/ SM5100StateMachine
           \/ writeToAuthSD /\ UNCHANGED <<leds, smsVars>>
        /\ clipped' = (clipped \/ (ThrowsAway /\ sms.CmdStart))
        /\ UNCHANGED <<texted, lines, cuts>>

\* What arrives during the other tasks is the same to them as what arrives
\* before SM5100RxTask: nothing else reads or empties the receive buffer.
Arrives == /\ pc \in {"SM5100RxTask", "SM5100StateMachine"}
           /\ Uart
           /\ UNCHANGED specVars

TimePasses == TimeoutRunsOut /\ UNCHANGED specVars

Next == \/ Step
        \/ Arrives
        \/ TimePasses
        \/ Start
        \/ \E n \in Notices : Notice(n)
        \/ \E code \in Codes : TextMessage(code)
        \/ UnknownText
        \/ PowerCut

Spec == Init /\ [][Next]_vars

\* loop() goes on, time passes, the wire delivers, a modem that was reset comes up.
FairSpec == /\ Spec
            /\ WF_vars(Step)
            /\ WF_vars(TimePasses)
            /\ SF_vars(Arrives)
            /\ SF_vars(Start)

-----------------------------------------------------------------------------
Texted == {texted[i] : i \in DOMAIN texted}

\* CardNeverStale: the card agrees with the RAM whatever the parser takes for a
\* code, with power cuts at any point of it (sms.ino:305-342).
CardNeverStale ==
  (sdReady /\ pc \notin StoreSteps) =>
     compareArrays(LastApprovalId, authFile.data)

\* GsmOkWhileWaiting: while the bot waits for text messages the display has
\* GSM:OK, whatever restarts led there (sms.ino:246-258, 288-289).
GsmOkWhileWaiting ==
  sms.SM5100State = "SM5100WForSms" => disp.status["GSM"] = "OK"

\* ApprovedWasTexted: a code that is recorded is one somebody texted, whole and
\* alone ("Once the end character is received, it stops logging and notifies
\* the application", sms.ino:90-91).
ApprovedWasTexted == pc \in StoreSteps => wr.data \in Texted

\* OneMessageAtATime: SMBuffer never holds more than one message, so that its
\* hundred bytes are enough, unless the rest of a line that was being logged has
\* been thrown away: BufferTail is not compared with SM_BUFFER_LEN at sms.ino:114
\* and 128, only reset at 241 and 263 when the end mark comes, and after a reset
\* of the modem (223-231, 246-251) whatever comes before that is logged as well.
OneMessageAtATime == ~clipped => sms.BufferTail <= BufLen

\* SetUpWhenReady: the bot that waits for messages has sent its set-up commands to
\* a modem that had announced all it has to, registration with the network among
\* it ("Wait for a network connection before you start sending commands",
\* Sms_Shield_Notes:29).
SetUpWhenReady == sms.SM5100State = "SM5100WForSms" => modem.todo = <<>>

\* ChannelComesUp: provided that the set-up commands always meet a modem that is
\* ready, and that no line of it is cut in two, the bot sooner or later waits for
\* messages for good and the modem passes them on; whole lines may have reached
\* the bot before it reset the modem (sms.ino:223-294).
ChannelComesUp ==
  [](SetUpWhenReady /\ ~clipped)
    => <>[](sms.SM5100State = "SM5100WForSms" /\ modem.textMode)

\* TextsAreRecorded: the code of a text that the modem passes on to a waiting bot
\* becomes the id in RAM, or is a prefix of it, unless the power is cut first, or
\* the rest of an earlier line is still in SMBuffer (sms.ino:305-342).
TextsAreRecorded ==
  \A c \in Codes :
    (line = Text(c) /\ sms.SM5100State = "SM5100WForSms" /\ ~clipped)
      ~> (compareArrays(LastApprovalId, c) \/ sms.BootUp)
=============================================================================
