-------------------------------- MODULE Sms --------------------------------
(***************************************************************************)
(* The text message channel (sms.ino) and the SM5100B modem behind it.     *)
(*                                                                         *)
(* The modem writes lines to the UART: +SIND:n about its own status and,   *)
(* in text mode, +CMT.. followed by #AC:code& for a text message.          *)
(* SM5100RxTask copies what has arrived so far into SMBuffer, between a    *)
(* start and an end mark that depend on SM5100State; SM5100StateMachine    *)
(* then looks at SMBuffer once per pass, if a command is complete.         *)
(*                                                                         *)
(* The characters on the line are tokens: the headers SIND:, AC: and CMT   *)
(* count as one, CR LF as one, and blanks, which are skipped, as none.     *)
(* Slot 1 of SMBuffer is the header and slots 2 and 3 the two places where *)
(* a status number is looked for.  A token logged earlier stays in its     *)
(* slot until it is overwritten or cleared, as the bytes of SMBuffer do.   *)
(***************************************************************************)
EXTENDS AuthStore, Leds

CONSTANTS BufLen,   \* slots of SMBuffer (SM_BUFFER_LEN)
          Announced,\* the status numbers the modem sends while it starts
          RxCap     \* capacity of the UART's receive buffer

VARIABLES sms,    \* the globals of sms.ino
          rx,     \* the receive buffer of Serial1
          line,   \* what the modem has written and the wire still carries
          modem   \* external: the status lines it still has to send before it
                  \* is ready, and whether it passes text messages on

smsVars == <<sms, rx, line, modem>>

-----------------------------------------------------------------------------
DigitNames == <<"0", "1", "2", "3", "4", "5", "6", "7", "8", "9">>
Digits == {DigitNames[i] : i \in 1..10}
DigitValue == [d \in Digits |-> CHOOSE v \in 0..9 : DigitNames[v + 1] = d]
Tokens == Digits \cup {"+", "#", "&", "EOL", "SIND:", "AC:", "CMT", "text"}

SM5100States == {"SM5100Init", "SM5100Ready", "SM5100WForSms", "SM5100Error"}

\* A code comes over the line, in its tokens.
ASSUME SmsAssumption ==
  /\ BufLen \in Nat /\ BufLen > 3 /\ RxCap \in Nat \ {0}
  /\ Announced \in Seq(Seq(Digits))
  /\ Chars \subseteq Tokens /\ NUL \notin Tokens

SmsType == [SM5100State : SM5100States, BootUp : BOOLEAN, CmdStart : BOOLEAN,
            CmdComplete : BOOLEAN, BufferTail : Nat,
            SMBuffer : [1..BufLen -> Tokens \cup {NUL}],
            timeout : BOOLEAN]   \* C_ERROR_TIMEOUT since errorTimeStamp is over

SMSInit == [SM5100State |-> "SM5100Init", BootUp |-> TRUE, CmdStart |-> FALSE,
            CmdComplete |-> FALSE, BufferTail |-> 0,
            SMBuffer |-> [i \in 1..BufLen |-> NUL], timeout |-> FALSE]

-----------------------------------------------------------------------------
(* SM5100RxTask.                                                           *)

\* Mutant: the start mark of text messages is not looked for.
StartMarkOfStatus(s) == "+"

StartMark(s) == IF s.SM5100State = "SM5100WForSms" THEN "#" ELSE "+"
EndMark(s)   == IF s.SM5100State = "SM5100WForSms" THEN "&" ELSE "EOL"

\* SMBuffer[BufferTail++] = c; what a full buffer overwrites is not modelled.
Log(s, c) == [s EXCEPT !.SMBuffer = [i \in DOMAIN @ |->
                                       IF i = s.BufferTail + 1 THEN c ELSE @[i]],
                       !.BufferTail = @ + 1]

Ended(s) == [s EXCEPT !.CmdComplete = TRUE, !.CmdStart = FALSE]

Logged(s, c) == IF ~s.CmdStart THEN s
                ELSE IF c = EndMark(s) THEN Ended(s) ELSE Log(s, c)

ReadByte(s, c) == [Logged(s, c) EXCEPT !.CmdStart = @ \/ c = StartMark(s)]

\* The task goes on as long as there is something to read.
SM5100RxTask ==
  /\ pc = "SM5100RxTask"
  /\ IF rx # <<>>
     THEN /\ sms' = ReadByte(sms, Head(rx))
          /\ rx' = Tail(rx)
          /\ UNCHANGED pc
     ELSE /\ pc' = "SM5100StateMachine"
          /\ UNCHANGED <<sms, rx>>
  /\ UNCHANGED <<glcdVars, storeVars, leds, line, modem>>

-----------------------------------------------------------------------------
(* SM5100StateMachine.                                                     *)

\* After a reset the modem announces its way to readiness.
Rebooting == [todo |-> Announced, textMode |-> FALSE]
UpAlready == [todo |-> <<>>, textMode |-> FALSE]

\* Empty the receive buffer, restart the modem: its unfinished line is cut off.
SM5100Reset == rx' = <<>> /\ line' = <<>> /\ modem' = Rebooting

\* SMSInit left BootUp set; the switch below follows in the same call.
BootUpReset ==
  /\ pc = "SM5100StateMachine"
  /\ sms.BootUp
  /\ SM5100Reset
  /\ sms' = [sms EXCEPT !.BootUp = FALSE]
  /\ UNCHANGED <<pc, glcdVars, storeVars, leds>>

Switch(state) ==
  /\ pc = "SM5100StateMachine"
  /\ ~sms.BootUp
  /\ sms.SM5100State = state

\* Nothing to do in Init, in WForSms without a command, in Error for 90 s.
NothingInState ==
  /\ pc = "SM5100StateMachine"
  /\ ~sms.BootUp
  /\ \/ sms.SM5100State = "SM5100Init"
     \/ sms.SM5100State = "SM5100WForSms" /\ ~sms.CmdComplete
     \/ sms.SM5100State = "SM5100Error" /\ ~sms.timeout
  /\ pc' = "SM5100Status"
  /\ UNCHANGED <<glcdVars, storeVars, leds, smsVars>>

\* Mutant: the display is not told that the channel is up.
InitializeSMSQuietly ==
  /\ Switch("SM5100Ready")
  /\ rx' = <<>>
  /\ modem' = [modem EXCEPT !.textMode = @ \/ modem.todo = <<>>]
  /\ sms' = [sms EXCEPT !.SM5100State = "SM5100WForSms"]
  /\ pc' = "SM5100Status"
  /\ UNCHANGED <<glcdVars, storeVars, leds, line>>

\* The set-up commands work only on a modem that is ready; no answer is looked
\* at, though readBytesUntil leaves it in SMBuffer, if one comes in time.
\* CmdStart, CmdComplete and BufferTail stay as they are.
SM500InitializeSMS ==
  /\ Switch("SM5100Ready")
  /\ rx' = <<>>
  /\ modem' = [modem EXCEPT !.textMode = @ \/ modem.todo = <<>>]
  /\ \E header \in {"text", sms.SMBuffer[1]} :
       sms' = [sms EXCEPT !.SM5100State = "SM5100WForSms",
                          !.SMBuffer[1] = header,
                          !.SMBuffer[2] = NUL,
                          !.SMBuffer[3] = NUL]
  /\ disp' = updateDispStatus(disp, "GSM", "OK")
  /\ pc' = "SM5100Status"
  /\ UNCHANGED <<lcd, vendside, approvals, vends, storeVars, leds, line>>

\* Mutant: the buffer is not rewound.
ConsumedInPlace(s) == [s EXCEPT !.CmdComplete = FALSE]

Consumed(s) == [s EXCEPT !.BufferTail = 0, !.CmdComplete = FALSE]

\* Mutant: the end mark is taken for a part of what was logged.
AuthCodeShort == SubSeq(sms.SMBuffer, 2, sms.BufferTail - 1)

\* SM5100ParseSms: whatever was logged after the header is the code.
AuthCode == SubSeq(sms.SMBuffer, 2, sms.BufferTail)

SM5100ParseSms ==
  /\ Switch("SM5100WForSms")
  /\ sms.CmdComplete
  /\ sms.SMBuffer[1] = "AC:"
  /\ ParseAuthCode(AuthCode, "SM5100Status")
  /\ sms' = Consumed(sms)
  /\ UNCHANGED <<leds, rx, line, modem>>

\* The time stamp of the error is not set on this path.
UnknownMessage ==
  /\ Switch("SM5100WForSms")
  /\ sms.CmdComplete
  /\ sms.SMBuffer[1] # "AC:"
  /\ sms' = [Consumed(sms) EXCEPT !.SM5100State = "SM5100Error"]
  /\ leds' = setBlinkRate(leds, 3)
  /\ pc' = "SM5100Status"
  /\ UNCHANGED <<glcdVars, storeVars, rx, line, modem>>

\* Sm5100stat, which chooses between the two texts, is never assigned.
ErrorRestart ==
  /\ Switch("SM5100Error")
  /\ sms.timeout
  /\ SM5100Reset
  /\ sms' = [sms EXCEPT !.SM5100State = "SM5100Ready", !.timeout = FALSE]
  /\ disp' = updateDispStatus(GLCDNotifyError(disp), "GSM", "NOK")
  /\ pc' = "SM5100Status"
  /\ UNCHANGED <<lcd, vendside, approvals, vends, storeVars, leds>>

-----------------------------------------------------------------------------
(* SM5100ParseStatus, the end of SM5100StateMachine.                       *)

ErrorStats == {0, 7, 8}     \* SM_SIM_REMOVED, SM_NETWORK_EMERGENCY and _LOST
SM_SMS_READY == 4

\* The second digit may be one that an earlier command left in its slot.
TwoDigits(s) == s.SMBuffer[2] \in Digits /\ s.SMBuffer[3] \in Digits

\* The values stat may have: it is not initialized, so that it can be anything
\* (an error, SM_SMS_READY or a number without effect) unless a number is found.
Stats(s) ==
  IF s.SMBuffer[1] # "SIND:" \/ s.SMBuffer[2] \notin Digits
  THEN {0, 1, SM_SMS_READY}
  ELSE {IF TwoDigits(s)
        THEN 10 * DigitValue[s.SMBuffer[2]] + DigitValue[s.SMBuffer[3]]
        ELSE DigitValue[s.SMBuffer[2]]}

\* Mutant: the digits stay in their slots.
NumberLeft(s) == s

NumberCleared(s) ==
  IF s.SMBuffer[1] # "SIND:" \/ s.SMBuffer[2] \notin Digits THEN s
  ELSE [s EXCEPT !.SMBuffer[2] = NUL,
                 !.SMBuffer[3] = IF TwoDigits(s) THEN NUL ELSE @]

AfterStatus(s, stat) ==
  IF stat \in ErrorStats
  THEN [s EXCEPT !.SM5100State = "SM5100Error", !.timeout = FALSE]
  ELSE IF stat = SM_SMS_READY THEN [s EXCEPT !.SM5100State = "SM5100Ready"] ELSE s

SM5100ParseStatus ==
  /\ pc = "SM5100Status"
  /\ sms.CmdComplete
  /\ \E stat \in Stats(sms) : sms' = Consumed(AfterStatus(NumberCleared(sms), stat))
  /\ pc' = "GLCDTask"
  /\ UNCHANGED <<glcdVars, storeVars, leds, rx, line, modem>>

NoStatus ==
  /\ pc = "SM5100Status"
  /\ ~sms.CmdComplete
  /\ pc' = "GLCDTask"
  /\ UNCHANGED <<glcdVars, storeVars, leds, smsVars>>

SM5100StateMachine ==
  \/ BootUpReset \/ NothingInState \/ SM500InitializeSMS \/ SM5100ParseSms
  \/ UnknownMessage \/ ErrorRestart \/ SM5100ParseStatus \/ NoStatus

-----------------------------------------------------------------------------
(* The world outside the program: time, the wire and the modem.            *)

\* C_ERROR_TIMEOUT runs out.  Only SM5100Error looks at the time, so that it does
\* not matter here how much of it had passed before.
TimeoutRunsOut ==
  /\ sms.SM5100State = "SM5100Error"
  /\ ~sms.timeout
  /\ sms' = [sms EXCEPT !.timeout = TRUE]
  /\ UNCHANGED <<pc, glcdVars, storeVars, leds, rx, line, modem>>

\* A full receive buffer loses what arrives.
Uart ==
  /\ line # <<>>
  /\ rx' = IF Len(rx) < RxCap THEN Append(rx, Head(line)) ELSE rx
  /\ line' = Tail(line)
  /\ UNCHANGED <<pc, glcdVars, storeVars, leds, sms, modem>>

SIND(n) == <<"+", "SIND:">> \o n \o <<"EOL">>
CMT(body) == <<"+", "CMT", "EOL">> \o body \o <<"EOL">>
Text(code) == CMT(<<"#", "AC:">> \o code \o <<"&">>)

\* While it starts the modem announces its status, number by number.
ModemStarts ==
  /\ modem.todo # <<>>
  /\ line = <<>>
  /\ line' = SIND(Head(modem.todo))
  /\ modem' = [modem EXCEPT !.todo = Tail(@)]
  /\ UNCHANGED <<pc, glcdVars, storeVars, leds, sms, rx>>

\* A line the modem sends of its own accord, or for a text message.
ModemSends(l) ==
  /\ line = <<>>
  /\ line' = l
  /\ UNCHANGED <<pc, glcdVars, storeVars, leds, sms, rx, modem>>

\* A power cycle restarts bot and modem; when only the bot is reset, the modem
\* stays up.
SmsPowerOn ==
  /\ sms' = SMSInit
  /\ rx' = <<>>
  /\ line' = <<>>
  /\ modem' \in {modem, Rebooting}

SmsInit ==
  /\ sms = SMSInit
  /\ rx = <<>>
  /\ line = <<>>
  /\ modem \in {Rebooting, UpAlready}

SmsTypeOK ==
  /\ sms \in SmsType
  /\ rx \in Seq(Tokens) /\ Len(rx) <= RxCap
  /\ line \in Seq(Tokens)
  /\ modem \in [todo : Seq(Seq(Digits)), textMode : BOOLEAN]
=============================================================================
