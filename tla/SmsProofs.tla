----------------------------- MODULE SmsProofs -----------------------------
(***************************************************************************)
(* Theorems about the text message channel: for every set of codes, every  *)
(* size of SMBuffer and of the receive buffer, any number of lines, errors *)
(* of the network and power cuts.                                          *)
(***************************************************************************)
EXTENDS SmsSpec, ChannelLemmas

-----------------------------------------------------------------------------
(* The types, and the GSM line of the display.                             *)

IInv ==
  /\ SmsTypeOK
  /\ disp \in DispType
  /\ wr.ret \in Returns
  /\ GsmShown

\* A step of loop() that is not one of the channel's own.
OtherTask ==
  /\ \/ GLCDTask /\ UNCHANGED <<storeVars, leds>>
     \/ InternetTask
     \/ writeToAuthSD /\ UNCHANGED leds
  /\ UNCHANGED smsVars

LEMMA OtherTaskInductive ==
  ASSUME IInv, OtherTask
  PROVE  IInv'
<1>1. CASE GLCDTask /\ UNCHANGED storeVars
  <2>1. /\ disp' \in DispType /\ ~disp'.ShowSpashScreen /\ wr' = wr
        /\ disp.ShowSpashScreen \/ disp'.status = disp.status
    BY <1>1, DrawingSteps DEF IInv, storeVars
  <2> QED
    BY <2>1 DEF OtherTask, IInv, GsmShown, SmsTypeOK, smsVars
<1>2. CASE InternetTask
  BY <1>2 DEF InternetTask, IInv, GsmShown, SmsTypeOK, smsVars, storeVars, glcdVars
<1>3. CASE writeToAuthSD
  <2>1. wr' = wr /\ UNCHANGED glcdVars /\ pc # "GLCDTask"
    BY <1>3, WritingPlaces DEF Storing, StoreSteps
  <2> QED
    BY <2>1 DEF OtherTask, IInv, GsmShown, SmsTypeOK, smsVars, glcdVars
<1> QED
  BY <1>1, <1>2, <1>3 DEF OtherTask

\* What the modem, the wire and the clock do.
World ==
  \/ Arrives
  \/ TimeoutRunsOut
  \/ ModemStarts
  \/ \E l \in Seq(Tokens) : ModemSends(l)

LEMMA WorldInductive ==
  ASSUME IInv, World
  PROVE  IInv'
<1>1. UNCHANGED <<pc, glcdVars, storeVars>> /\ sms'.SM5100State = sms.SM5100State
  BY DEF World, Arrives, Uart, TimeoutRunsOut, ModemStarts, ModemSends, IInv, SmsTypeOK,
         SmsType
<1>2. SmsTypeOK'
  <2>1. CASE Arrives
    <3>1. /\ Head(line) \in Tokens /\ Tail(line) \in Seq(Tokens)
      BY <2>1, HeadTailProperties DEF Arrives, Uart, IInv, SmsTypeOK
    <3>2. rx' \in Seq(Tokens) /\ Len(rx') <= RxCap
      <4>1. /\ Append(rx, Head(line)) \in Seq(Tokens)
            /\ Len(Append(rx, Head(line))) = Len(rx) + 1 /\ Len(rx) \in Nat
        BY <3>1, AppendProperties DEF IInv, SmsTypeOK
      <4> QED
        BY <2>1, <4>1, SmsAssumption DEF Arrives, Uart, IInv, SmsTypeOK
    <3> QED
      BY <2>1, <3>1, <3>2 DEF Arrives, Uart, IInv, SmsTypeOK
  <2>2. CASE TimeoutRunsOut
    BY <2>2 DEF TimeoutRunsOut, IInv, SmsTypeOK, SmsType
  <2>3. CASE ModemStarts \/ \E l \in Seq(Tokens) : ModemSends(l)
    BY <2>3, ModemTypes DEF IInv
  <2> QED
    BY <2>1, <2>2, <2>3 DEF World
<1> QED
  BY <1>1, <1>2 DEF IInv, GsmShown, glcdVars, storeVars

\* The disjuncts of Next, in these terms.
LEMMA NextSteps ==
  ASSUME Next
  PROVE  \/ PhoneTask
         \/ OtherTask
         \/ World
         \/ PowerCut
<1>1. CASE Step \/ Arrives \/ TimePasses \/ Start \/ PowerCut
  BY <1>1 DEF Step, TimePasses, Start, PhoneTask, OtherTask, World, InternetTask
<1>2. CASE \E n \in Notices : Notice(n)
  BY <1>2, LineTypes, SmsSpecAssumption DEF Notice, World
<1>3. CASE \E code \in Codes : TextMessage(code)
  BY <1>3, LineTypes, CodesAreTokens DEF TextMessage, World
<1>4. CASE UnknownText
  <2>1. <<"#", "text", "&">> \in Seq(Tokens)
    BY DEF Tokens
  <2> QED
    BY <1>4, <2>1, LineTypes DEF UnknownText, World
<1> QED
  BY <1>1, <1>2, <1>3, <1>4 DEF Next

LEMMA IInvAlways == Spec => []IInv
<1>1. Init => IInv
  <2> SUFFICES ASSUME Init PROVE IInv
    OBVIOUS
  <2>1. disp = GLCDInit /\ wr.ret = "GLCDTask" /\ pc = "GLCDTask" /\ SmsInit
    BY DEF Init, GlcdInit, StoreInit, NoStore
  <2> QED
    BY <2>1, DispStart, SmsStarts DEF IInv, GsmShown, Returns
<1>2. IInv /\ [Next]_vars => IInv'
  <2> SUFFICES ASSUME IInv, [Next]_vars PROVE IInv'
    OBVIOUS
  <2>1. CASE PhoneTask
    <3>1. SmsTypeOK' /\ PhoneDisplay
      BY <2>1, PhoneTypes, PhoneShows DEF IInv, SmsTypeOK
    <3>2. wr'.ret \in Returns
      BY <2>1, PhoneReturns DEF IInv
    <3> QED
      BY <3>1, <3>2 DEF IInv, GsmShown, PhoneDisplay
  <2>2. CASE OtherTask
    BY <2>2, OtherTaskInductive
  <2>3. CASE World
    BY <2>3, WorldInductive
  <2>4. CASE PowerCut
    <3>1. /\ disp' = GLCDInit /\ pc' = "GLCDTask" /\ wr'.ret = "GLCDTask"
      BY <2>4 DEF PowerCut, GlcdPowerOn, StorePowerOn, NoStore
    <3> QED
      BY <2>4, <3>1, DispStart, SmsPowerOnTypes DEF PowerCut, IInv, GsmShown, Returns
  <2>5. CASE UNCHANGED vars
    BY <2>5 DEF vars, IInv, GsmShown, SmsTypeOK, smsVars, glcdVars, storeVars
  <2> QED
    BY <2>1, <2>2, <2>3, <2>4, <2>5, NextSteps
<1> QED
  BY <1>1, <1>2, PTL DEF Spec

\* SmsTyped: the variables of the channel stay within their types: the receive
\* buffer keeps to its capacity, and SMBuffer holds tokens or NUL in its slots
\* whatever is logged behind its end (sms.ino:104-135).
THEOREM SmsTyped == Spec => []SmsTypeOK
<1>1. IInv => SmsTypeOK
  BY DEF IInv
<1> QED
  BY <1>1, IInvAlways, PTL

\* GsmOkWhileWaitingAlways: GSM:OK is on while the bot waits for text messages,
\* through errors of the network, restarts of the modem and power cuts
\* (sms.ino:246-258, 274-289).
THEOREM GsmOkWhileWaitingAlways == Spec => []GsmOkWhileWaiting
<1>1. IInv => GsmOkWhileWaiting
  BY DEF IInv, GsmShown, GsmOkWhileWaiting
<1> QED
  BY <1>1, IInvAlways, PTL

-----------------------------------------------------------------------------
(* The card.                                                               *)

\* CardNeverStaleAlways: the card agrees with the RAM outside writeToAuthSD,
\* whatever the parser takes for a code: lines that ran into one another, the
\* rest of a line cut off, more than SMBuffer holds (sms.ino:305-342).
THEOREM CardNeverStaleAlways ==
  ASSUME CardAssumption PROVE Spec => []CardNeverStale
<1>1. Init => CardKept
  BY CardStart DEF Init, CardKept, StoreSteps
<1>2. IInv /\ CardKept /\ [Next]_vars => CardKept'
  <2> SUFFICES ASSUME IInv, CardKept, [Next]_vars PROVE CardKept'
    OBVIOUS
  <2>1. CASE PhoneTask
    BY <2>1, PhoneCard DEF IInv, SmsTypeOK, CardKept
  <2>2. CASE writeToAuthSD
    <3>1. wr.ret \notin StoreSteps
      BY DEF IInv, Returns, StoreSteps
    <3> QED
      BY <2>2, <3>1, WritingSteps DEF CardKept
  <2>3. CASE OtherTask /\ ~writeToAuthSD
    <3>1. pc \notin StoreSteps /\ pc' \notin StoreSteps /\ UNCHANGED storeVars
      BY <2>3, DrawingSteps DEF OtherTask, InternetTask, StoreSteps, IInv
    <3> QED
      BY <3>1, CardLeftAlone DEF CardKept, Storing
  <2>4. CASE World \/ UNCHANGED vars
    <3>1. UNCHANGED <<pc, storeVars>>
      BY <2>4 DEF World, Arrives, Uart, TimeoutRunsOut, ModemStarts, ModemSends, vars
    <3> QED
      BY <3>1 DEF CardKept, StoreShape, CardInv, Storing, StoreSteps, storeVars,
                  compareArrays
  <2>5. CASE PowerCut
    BY <2>5, CardPowerOn DEF PowerCut, CardKept, StoreSteps
  <2> QED
    BY <2>1, <2>2, <2>3, <2>4, <2>5, NextSteps
<1>3. CardKept => CardNeverStale
  BY DEF CardKept, CardInv, Storing, CardNeverStale
<1> QED
  BY <1>1, <1>2, <1>3, IInvAlways, PTL DEF Spec

-----------------------------------------------------------------------------
(* What the lines look like.                                               *)

\* The status numbers that may be on the line.
Numbers == {Announced[i] : i \in DOMAIN Announced} \cup Notices

\* A text whose code has none of the marks, and the numbers, fit in the two buffers;
\* and no line starts before the one before it is dealt with.
TextAssumption ==
  /\ Spaced
  /\ \A c \in Codes : /\ c \in Seq(Tokens \ {"+", "#", "&"})
                      /\ Len(c) < BufLen /\ Len(c) + 7 <= RxCap
  /\ \A n \in Numbers : Len(n) < BufLen /\ Len(n) + 3 <= RxCap
  /\ RxCap >= 8

UnknownLine == CMT(<<"#", "text", "&">>)

Lines(codes) ==
  {SIND(n) : n \in Numbers} \cup {UnknownLine} \cup {Text(c) : c \in codes}


\* The marks of a line: what ends or starts a command, or may be taken for the
\* header of a text, is nowhere but at its place.
Marked(l, codes) ==
  /\ l \in Seq(Tokens) /\ Len(l) \in 3..RxCap
  /\ l[1] = "+" /\ l[2] # "AC:"
  /\ \A i \in 1..Len(l) : /\ l[i] = "+" => i = 1
                          /\ l[i] = "#" => i = 4
                          /\ l[i] = "&" => i > 5
  /\ (Len(l) >= 5 /\ l[5] = "AC:") => \E c \in codes : l = Text(c)

LEMMA SindMarked ==
  ASSUME TextAssumption, NEW n \in Numbers, NEW codes
  PROVE  Marked(SIND(n), codes)
<1> DEFINE l == SIND(n)
<1>1. n \in Seq(Digits) /\ Len(n) + 3 <= RxCap
  <2>1. \A i \in DOMAIN Announced : Announced[i] \in Seq(Digits)
    BY SmsAssumption
  <2> QED
    BY <2>1, SmsSpecAssumption DEF Numbers, TextAssumption
<1>2. \A i \in 1..Len(n) : n[i] \in Digits
  BY <1>1
<1>3. /\ Len(n) \in Nat /\ Len(l) = Len(n) + 3
      /\ l[1] = "+" /\ l[2] = "SIND:"
      /\ \A i \in 1..Len(n) : l[2 + i] = n[i]
      /\ l[3 + Len(n)] = "EOL"
  BY <1>1, SindShape
<1>4. l \in Seq(Tokens)
  BY <1>1, LineTypes
<1> HIDE DEF l
<1>5. ASSUME NEW i \in 3..Len(l) PROVE l[i] \in Digits \cup {"EOL"}
  <2>1. CASE i = 3 + Len(n)
    BY <1>3, <2>1
  <2>2. CASE i # 3 + Len(n)
    <3>1. i - 2 \in 1..Len(n) /\ 2 + (i - 2) = i
      BY <1>3, <2>2
    <3>2. l[2 + (i - 2)] = n[i - 2] /\ n[i - 2] \in Digits
      BY <1>2, <1>3, <3>1
    <3> QED
      BY <3>1, <3>2
  <2> QED
    BY <2>1, <2>2
<1>6. ASSUME NEW i \in 3..Len(l) PROVE l[i] \notin {"+", "#", "&", "AC:"}
  BY <1>5, DigitsAreNoMarks
<1>7. ASSUME NEW i \in 1..Len(l), l[i] \in {"+", "#", "&"} PROVE i = 1 /\ l[i] = "+"
  <2>1. i = 1 \/ i = 2 \/ i \in 3..Len(l)
    BY <1>3
  <2> QED
    BY <1>3, <1>6, <1>7, <2>1
<1>8. Len(l) >= 5 => l[5] # "AC:"
  BY <1>3, <1>6
<1>9. Len(l) \in 3..RxCap
  BY <1>1, <1>3, SmsAssumption
<1>10. Marked(l, codes)
  BY <1>3, <1>4, <1>7, <1>8, <1>9 DEF Marked
<1> QED
  BY <1>10 DEF l

LEMMA UnknownMarked ==
  ASSUME TextAssumption, NEW codes
  PROVE  Marked(UnknownLine, codes)
<1> DEFINE l == UnknownLine
           b == <<"#", "text", "&">>
<1>1. b \in Seq(Tokens)
  BY DEF Tokens
<1>2. Len(b) = 3 /\ b[1] = "#" /\ b[2] = "text" /\ b[3] = "&"
  OBVIOUS
<1>3. l = CMT(b) /\ l \in Seq(Tokens)
  BY <1>1, LineTypes DEF UnknownLine
<1> HIDE DEF l, b
<1>4. /\ Len(CMT(b)) = Len(b) + 4
      /\ CMT(b)[1] = "+" /\ CMT(b)[2] = "CMT" /\ CMT(b)[3] = "EOL"
      /\ \A i \in 1..Len(b) : CMT(b)[3 + i] = b[i]
      /\ CMT(b)[4 + Len(b)] = "EOL"
  BY <1>1, CmtShape
<1>5. /\ Len(l) = 7
      /\ l[1] = "+" /\ l[2] = "CMT" /\ l[3] = "EOL"
      /\ l[4] = "#" /\ l[5] = "text" /\ l[6] = "&" /\ l[7] = "EOL"
  BY <1>2, <1>3, <1>4
<1>6. \A i \in 1..7 : i = 1 \/ i = 2 \/ i = 3 \/ i = 4 \/ i = 5 \/ i = 6 \/ i = 7
  OBVIOUS
<1>7. \A i \in 1..7 : /\ l[i] = "+" => i = 1
                      /\ l[i] = "#" => i = 4
                      /\ l[i] = "&" => i > 5
  BY <1>5, <1>6
<1>8. Len(l) \in 3..RxCap
  BY <1>5, SmsAssumption DEF TextAssumption
<1>9. Marked(l, codes)
  BY <1>3, <1>5, <1>7, <1>8 DEF Marked
<1> QED
  BY <1>9 DEF l

LEMMA TextMarked ==
  ASSUME TextAssumption, NEW codes, NEW c \in codes, c \in Codes
  PROVE  Marked(Text(c), codes)
<1> DEFINE l == Text(c)
<1>1. c \in Seq(Tokens \ {"+", "#", "&"}) /\ Len(c) + 7 <= RxCap /\ c \in Seq(Tokens)
  BY CodesAreTokens DEF TextAssumption
<1>2. \A i \in 1..Len(c) : c[i] \notin {"+", "#", "&"}
  BY <1>1
<1>3. /\ Len(c) \in Nat /\ Len(l) = Len(c) + 7
      /\ l[1] = "+" /\ l[2] = "CMT" /\ l[3] = "EOL" /\ l[4] = "#" /\ l[5] = "AC:"
      /\ \A i \in 1..Len(c) : l[5 + i] = c[i]
      /\ l[6 + Len(c)] = "&" /\ l[7 + Len(c)] = "EOL"
  BY <1>1, TextShape
<1>4. l \in Seq(Tokens)
  BY <1>1, LineTypes
<1>5. \E d \in codes : l = Text(d)
  OBVIOUS
<1> HIDE DEF l
<1>6. ASSUME NEW i \in 1..Len(l)
      PROVE  /\ l[i] = "+" => i = 1
             /\ l[i] = "#" => i = 4
             /\ l[i] = "&" => i > 5
  <2>1. CASE i <= 5
    <3>1. i = 1 \/ i = 2 \/ i = 3 \/ i = 4 \/ i = 5
      BY <2>1
    <3> QED
      BY <1>3, <3>1
  <2>2. CASE i > 5 /\ i <= 5 + Len(c)
    <3>1. i - 5 \in 1..Len(c) /\ 5 + (i - 5) = i
      BY <1>3, <2>2
    <3>2. l[5 + (i - 5)] = c[i - 5] /\ c[i - 5] \notin {"+", "#", "&"}
      BY <1>2, <1>3, <3>1
    <3> QED
      BY <3>1, <3>2
  <2>3. CASE i > 5 + Len(c)
    <3>1. (i = 6 + Len(c) \/ i = 7 + Len(c)) /\ i > 5
      BY <1>3, <2>3
    <3> QED
      BY <1>3, <3>1
  <2> QED
    BY <1>3, <2>1, <2>2, <2>3
<1>7. Len(l) \in 3..RxCap
  BY <1>1, <1>3, SmsAssumption
<1>8. Marked(l, codes)
  BY <1>3, <1>4, <1>5, <1>6, <1>7 DEF Marked
<1> QED
  BY <1>8 DEF l

LEMMA LinesMarked ==
  ASSUME TextAssumption, NEW codes \in SUBSET Codes, NEW l \in Lines(codes)
  PROVE  Marked(l, codes)
  BY SindMarked, UnknownMarked, TextMarked DEF Lines

-----------------------------------------------------------------------------
(* How far the line is read, and what has become of it.                    *)

Waiting == sms.SM5100State = "SM5100WForSms"
Ready   == sms.SM5100State = "SM5100Ready"

\* All that is still to be read is what follows the first k elements of l.
Unread(l, k) ==
  /\ Len(rx) + Len(line) = Len(l) - k
  /\ \A i \in 1..Len(rx) : rx[i] = l[k + i]
  /\ \A i \in 1..Len(line) : line[i] = l[k + Len(rx) + i]

\* SMBuffer holds what follows the start mark of a text.
InText(l, k) ==
  \E c \in Texted :
    /\ l = Text(c) /\ k <= 5 + Len(c)
    /\ sms.BufferTail = k - 4
    /\ \A i \in 1..sms.BufferTail : sms.SMBuffer[i] = l[4 + i]

\* A command in SMBuffer is a status line or one text from its first token to
\* its last.  The state changes between two lines, but for an error that is
\* over (SM5100Ready), when what is left of a line is thrown away, as it is when
\* the modem is reset at the start.
Reading(l, k) ==
  /\ sms.BootUp => /\ sms.SM5100State = "SM5100Init"
                   /\ pc \notin StoreSteps \cup {"SM5100Status"}
  /\ ~sms.CmdStart /\ ~sms.CmdComplete => sms.BufferTail = 0
  /\ sms.CmdComplete =>
       /\ ~sms.CmdStart /\ k >= 1 /\ (Waiting => k >= 4)
       /\ pc \in PhoneSteps /\ (Ready => pc = "SM5100Status")
       /\ (Waiting /\ sms.SMBuffer[1] = "AC:") => AuthCode \in Texted
  /\ Ready => k >= 1 /\ (sms.CmdStart => k = Len(l))
  /\ sms.CmdStart /\ sms.BufferTail = 0 =>
       k = 1 \/ Ready \/ k \in {0, Len(l)} \/ (Waiting /\ k = 4)
  /\ sms.CmdStart /\ sms.BufferTail > 0 /\ sms.SMBuffer[1] = "AC:" =>
       Waiting /\ InText(l, k)

\* Where the mark is that starts a command.
From == IF Waiting THEN 4 ELSE 1

\* As long as nothing was thrown away, SMBuffer holds what follows the start mark,
\* and the end mark is still to come, or it holds no more than it has room for.
Counted(l, k) ==
  /\ sms.CmdStart => /\ k >= From /\ sms.BufferTail = k - From
                     /\ l[From] = StartMark(sms)
                     /\ \A i \in (From + 1)..k : l[i] # EndMark(sms)
  /\ sms.CmdComplete => sms.BufferTail <= BufLen

LineRead(l, k) == Unread(l, k) /\ Reading(l, k) /\ (~clipped => Counted(l, k))

LineInv ==
  /\ texted \in Seq(Codes)
  /\ modem.todo \in Seq(Numbers)
  /\ pc \in StoreSteps => wr.data \in Texted
  /\ \E l \in Lines(Texted) : \E k \in 0..Len(l) : LineRead(l, k)

\* One more element of the line is read, ...
LEMMA UnreadGoesOn ==
  ASSUME SmsTypeOK, NEW l \in Seq(Tokens), NEW k \in 0..Len(l), Unread(l, k),
         SM5100RxTask, rx # <<>>
  PROVE  /\ Len(rx) \in Nat /\ Len(line) \in Nat /\ Len(l) \in Nat
         /\ rx[1] = l[k + 1] /\ Head(rx) = rx[1] /\ Head(rx) \in Tokens
         /\ k + 1 \in 1..Len(l) /\ k \in Nat
         /\ Unread(l, k + 1)'
<1>1. /\ Len(rx) \in Nat /\ Len(rx) > 0 /\ Len(line) \in Nat /\ Len(l) \in Nat
      /\ rx[1] = l[k + 1] /\ Head(rx) = rx[1] /\ Head(rx) \in Tokens
      /\ Len(Tail(rx)) = Len(rx) - 1
      /\ \A i \in 1..Len(Tail(rx)) : Tail(rx)[i] = rx[i + 1]
  <2>1. Len(rx) > 0 /\ rx[1] = l[k + 1]
    BY DEF SmsTypeOK, SM5100RxTask, Unread
  <2> QED
    BY <2>1, HeadTailProperties DEF SmsTypeOK, SM5100RxTask
<1>2. k + 1 \in 1..Len(l) /\ k \in Nat
  BY <1>1 DEF Unread
<1>3. rx' = Tail(rx) /\ line' = line
  BY DEF SM5100RxTask
<1>4. Len(rx') + Len(line') = Len(l) - (k + 1)
  BY <1>1, <1>2, <1>3 DEF Unread
<1>5. \A i \in 1..Len(rx') : rx'[i] = l[(k + 1) + i]
  BY <1>1, <1>2, <1>3 DEF Unread
<1>6. \A i \in 1..Len(line') : line'[i] = l[(k + 1) + Len(rx') + i]
  <2>1. (k + 1) + Len(rx') = k + Len(rx)
    BY <1>1, <1>2, <1>3
  <2> QED
    BY <1>1, <1>2, <1>3, <2>1 DEF Unread
<1>7. Unread(l, k + 1)'
  BY <1>4, <1>5, <1>6 DEF Unread
<1> QED
  BY <1>1, <1>2, <1>7

\* ... or comes over the wire.
LEMMA UnreadArrives ==
  ASSUME SmsTypeOK, NEW l \in Seq(Tokens), NEW k \in 0..Len(l), Unread(l, k),
         Uart, Len(rx) < RxCap
  PROVE  Unread(l, k)'
<1>1. line # <<>> /\ rx' = Append(rx, Head(line)) /\ line' = Tail(line)
  BY DEF Uart
<1>2. /\ Len(rx) \in Nat /\ Len(line) \in Nat /\ Len(line) > 0 /\ k \in Nat
      /\ Len(l) \in Nat
      /\ Head(line) = line[1] /\ Head(line) \in Tokens
      /\ Len(line') = Len(line) - 1
      /\ \A i \in 1..Len(line') : line'[i] = line[i + 1]
  BY <1>1, HeadTailProperties DEF SmsTypeOK
<1>3. /\ Len(rx') = Len(rx) + 1
      /\ \A i \in 1..Len(rx) : rx'[i] = rx[i]
      /\ rx'[Len(rx) + 1] = line[1]
  BY <1>1, <1>2, AppendProperties DEF SmsTypeOK
<1>4. Len(rx') + Len(line') = Len(l) - k
  <2>1. Len(rx) + Len(line) = Len(l) - k
    BY DEF Unread
  <2>2. /\ Len(rx') = Len(rx) + 1 /\ Len(line') = Len(line) - 1
        /\ Len(rx) \in Nat /\ Len(line) \in Nat
    BY <1>2, <1>3
  <2>3. Len(rx') + Len(line') = Len(rx) + Len(line)
    BY <2>2
  <2> QED
    BY <2>1, <2>3
<1>5. ASSUME NEW i \in 1..Len(rx') PROVE rx'[i] = l[k + i]
  <2>1. CASE i = Len(rx) + 1
    <3>1. line[1] = l[k + Len(rx) + 1] /\ k + Len(rx) + 1 = k + i
      BY <1>2, <2>1 DEF Unread
    <3> QED
      BY <1>3, <2>1, <3>1
  <2>2. CASE i # Len(rx) + 1
    <3>1. i \in 1..Len(rx)
      BY <1>2, <1>3, <2>2
    <3> QED
      BY <1>3, <3>1 DEF Unread
  <2> QED
    BY <2>1, <2>2
<1>6. ASSUME NEW i \in 1..Len(line') PROVE line'[i] = l[k + Len(rx') + i]
  <2>1. i + 1 \in 1..Len(line) /\ k + Len(rx) + (i + 1) = k + Len(rx') + i
    BY <1>2, <1>3
  <2>2. line[i + 1] = l[k + Len(rx) + (i + 1)]
    BY <2>1 DEF Unread
  <2> QED
    BY <1>2, <2>1, <2>2
<1> QED
  BY <1>4, <1>5, <1>6 DEF Unread

LEMMA ReadingGoesOn ==
  ASSUME TextAssumption, SmsTypeOK, Texted \subseteq Codes, texted' = texted,
         NEW l, Marked(l, Texted), NEW k \in 0..Len(l), Unread(l, k), Reading(l, k),
         SM5100RxTask, rx # <<>>
  PROVE  k + 1 \in 0..Len(l) /\ Unread(l, k + 1)' /\ Reading(l, k + 1)'
<1> DEFINE c == l[k + 1]
           t == sms'
           tail == sms.BufferTail
<1>1. /\ Len(rx) \in Nat /\ Len(line) \in Nat /\ Len(l) \in Nat
      /\ rx[1] = c /\ Head(rx) = rx[1] /\ Head(rx) \in Tokens
      /\ k + 1 \in 1..Len(l) /\ k \in Nat
      /\ Unread(l, k + 1)'
  BY UnreadGoesOn DEF Marked
<1>2. k + 1 \in 1..Len(l) /\ k \in Nat
  BY <1>1
<1>3. Unread(l, k + 1)'
  BY <1>1
<1>4. t = ReadByte(sms, c) /\ c \in Tokens /\ sms \in SmsType /\ pc' = pc /\ pc = "SM5100RxTask"
  BY <1>1 DEF SM5100RxTask, SmsTypeOK
<1>5. /\ t.SM5100State = sms.SM5100State /\ t.BootUp = sms.BootUp
      /\ ~sms.CmdStart =>
           /\ t.CmdComplete = sms.CmdComplete /\ t.BufferTail = sms.BufferTail
           /\ t.SMBuffer = sms.SMBuffer /\ (t.CmdStart <=> c = StartMark(sms))
      /\ sms.CmdStart /\ c = EndMark(sms) =>
           /\ t.CmdComplete /\ ~t.CmdStart
           /\ t.BufferTail = sms.BufferTail /\ t.SMBuffer = sms.SMBuffer
      /\ sms.CmdStart /\ c # EndMark(sms) =>
           /\ t.CmdComplete = sms.CmdComplete /\ t.CmdStart
           /\ t.BufferTail = sms.BufferTail + 1
           /\ \A i \in 1..BufLen :
                t.SMBuffer[i] = IF i = sms.BufferTail + 1 THEN c ELSE sms.SMBuffer[i]
  <2> HIDE DEF c, t
  <2> QED
    BY <1>4, ReadByteFields
<1>6. /\ (c = "+" => k = 0) /\ (c = "#" => k = 3) /\ (c = "&" => k >= 5)
      /\ (c = "AC:" => k # 0 /\ k # 1)
  BY <1>2 DEF Marked
<1>7. StartMark(sms) = (IF Waiting THEN "#" ELSE "+") /\ EndMark(sms) = (IF Waiting THEN "&" ELSE "EOL")
  BY DEF StartMark, EndMark, Waiting
<1>8. /\ Waiting' <=> Waiting
      /\ Ready' <=> Ready
      /\ Ready => ~sms.CmdComplete /\ ~sms.CmdStart /\ k >= 1 /\ ~Waiting
      /\ sms.CmdComplete => ~sms.CmdStart /\ k >= 1 /\ (Waiting => k >= 4)
      /\ Texted' = Texted
      /\ tail \in Nat
  BY <1>2, <1>4, <1>5 DEF Waiting, Ready, Reading, Texted, SmsType
<1> HIDE DEF c, t, tail
<1>9. CASE ~sms.CmdStart
  <2>1. sms.CmdComplete => ~t.CmdStart
    <3>1. t.CmdStart <=> c = StartMark(sms)
      BY <1>5, <1>9
    <3> QED
      BY <1>2, <1>6, <1>7, <1>8, <3>1
  <2>2. t.CmdComplete = sms.CmdComplete /\ t.BufferTail = tail /\ t.SMBuffer = sms.SMBuffer
    BY <1>5, <1>9 DEF tail
  <2>3. AuthCode' = AuthCode
    BY <2>2 DEF AuthCode, t, tail
  <2>4. ~sms.CmdComplete => tail = 0
    BY <1>9 DEF Reading, tail
  <2>5. t.CmdComplete =>
          /\ ~t.CmdStart /\ k + 1 >= 1 /\ (Waiting => k + 1 >= 4)
          /\ pc' \in PhoneSteps /\ ~Ready
          /\ (Waiting /\ t.SMBuffer[1] = "AC:") => AuthCode' \in Texted
    BY <1>2, <1>4, <1>8, <2>1, <2>2, <2>3 DEF Reading
  <2>6. Ready => k + 1 >= 1 /\ ~t.CmdStart
    BY <1>2, <1>5, <1>6, <1>7, <1>8, <1>9
  <2>7. t.CmdStart => t.BufferTail = 0 /\ (k + 1 = 1 \/ (Waiting /\ k + 1 = 4))
    BY <1>2, <1>5, <1>6, <1>7, <1>9, <2>1, <2>2, <2>4
  <2>8. t.CmdStart /\ t.BufferTail = 0 =>
          k + 1 = 1 \/ Ready \/ k + 1 \in {0, Len(l)} \/ (Waiting /\ k + 1 = 4)
    BY <2>7
  <2>9. ~(t.CmdStart /\ t.BufferTail > 0)
    BY <2>7
  <2> QED
    BY <1>2, <1>3, <1>4, <1>5, <1>8, <2>2, <2>4, <2>5, <2>6, <2>8, <2>9 DEF Reading, t
<1>10. CASE sms.CmdStart /\ c = EndMark(sms)
  <2>1. ~Ready /\ t.CmdComplete /\ ~t.CmdStart /\ t.BufferTail = tail /\ t.SMBuffer = sms.SMBuffer
    BY <1>5, <1>8, <1>10 DEF tail
  <2>2. AuthCode' = AuthCode
    BY <2>1 DEF AuthCode, t, tail
  <2>3. Waiting => k >= 5
    BY <1>6, <1>7, <1>10
  <2>4. ASSUME Waiting, sms.SMBuffer[1] = "AC:" PROVE AuthCode \in Texted
    <3>1. tail > 0
      BY <1>2, <1>8, <1>10, <2>1, <2>3, <2>4 DEF Reading, tail
    <3>2. InText(l, k)
      BY <1>10, <2>4, <3>1 DEF Reading, tail
    <3>3. PICK a \in Texted : /\ l = Text(a) /\ k <= 5 + Len(a) /\ tail = k - 4
                              /\ \A i \in 1..tail : sms.SMBuffer[i] = l[4 + i]
      BY <3>2 DEF InText, tail
    <3>4. a \in Codes /\ a \in Seq(Tokens) /\ a \in Seq(Tokens \ {"+", "#", "&"})
      BY <3>3, CodesAreTokens DEF TextAssumption
    <3>5. /\ Len(a) \in Nat
          /\ \A i \in 1..Len(a) : l[5 + i] = a[i] /\ a[i] # "&"
      BY <3>3, <3>4, TextShape
    <3>6. k = 5 + Len(a)
      <4>1. SUFFICES ASSUME k < 5 + Len(a) PROVE FALSE
        BY <1>2, <3>3, <3>5
      <4>2. k - 4 \in 1..Len(a) /\ 5 + (k - 4) = k + 1
        BY <1>2, <2>3, <2>4, <3>5, <4>1
      <4>3. l[k + 1] # "&"
        BY <3>5, <4>2
      <4> QED
        BY <1>7, <1>10, <2>4, <4>3 DEF c
    <3>7. AuthCode = SubSeq(sms.SMBuffer, 2, 1 + Len(a))
      BY <1>2, <3>3, <3>5, <3>6 DEF AuthCode, tail
    <3>8. ASSUME NEW i \in 1..Len(a) PROVE sms.SMBuffer[2 + i - 1] = a[i]
      <4>1. 2 + i - 1 \in 1..tail /\ 4 + (2 + i - 1) = 5 + i
        BY <3>3, <3>5, <3>6
      <4> QED
        BY <3>3, <3>5, <4>1
    <3>9. \A i \in 2..(1 + Len(a)) : sms.SMBuffer[i] \in Tokens
      <4>1. SUFFICES ASSUME NEW i \in 2..(1 + Len(a)) PROVE sms.SMBuffer[i] \in Tokens
        OBVIOUS
      <4>2. i - 1 \in 1..Len(a) /\ 2 + (i - 1) - 1 = i
        BY <3>5
      <4>3. sms.SMBuffer[2 + (i - 1) - 1] = a[i - 1] /\ a[i - 1] \in Tokens
        BY <3>4, <3>8, <4>2
      <4> QED
        BY <4>2, <4>3
    <3>10. /\ AuthCode \in Seq(Tokens)
           /\ Len(AuthCode) = Len(a)
           /\ \A i \in 1..Len(a) : AuthCode[i] = sms.SMBuffer[2 + i - 1]
      <4> DEFINE n == 1 + Len(a)
                 b == sms.SMBuffer
      <4>1. n \in Int /\ 2 \in Int /\ (IF 2 <= n THEN n - 2 + 1 ELSE 0) = Len(a) /\ n - 2 + 1 = Len(a)
        BY <3>5
      <4>2. \A i \in 2..n : b[i] \in Tokens
        BY <3>9
      <4> HIDE DEF n, b
      <4>3. /\ SubSeq(b, 2, n) \in Seq(Tokens)
            /\ Len(SubSeq(b, 2, n)) = IF 2 <= n THEN n - 2 + 1 ELSE 0
            /\ \A i \in 1..n - 2 + 1 : SubSeq(b, 2, n)[i] = b[2 + i - 1]
        BY <4>1, <4>2, SubSeqProperties
      <4>4. AuthCode = SubSeq(b, 2, n)
        BY <3>7 DEF n, b
      <4> QED
        BY <4>1, <4>3, <4>4 DEF b
    <3>11. AuthCode = a
      BY <3>4, <3>8, <3>10, SeqEqual
    <3> QED
      BY <3>3, <3>11
  <2> QED
    BY <1>2, <1>3, <1>4, <1>5, <1>8, <2>1, <2>2, <2>3, <2>4 DEF Reading, t, PhoneSteps
<1>11. CASE sms.CmdStart /\ c # EndMark(sms)
  <2>1. /\ ~Ready /\ ~sms.CmdComplete /\ ~t.CmdComplete /\ t.CmdStart
        /\ t.BufferTail = tail + 1
        /\ \A i \in 1..BufLen : t.SMBuffer[i] = IF i = tail + 1 THEN c ELSE sms.SMBuffer[i]
    BY <1>5, <1>8, <1>11 DEF tail, Reading
  <2>2. ASSUME t.SMBuffer[1] = "AC:" PROVE Waiting /\ InText(l, k + 1)'
    <3>1. 1 \in 1..BufLen
      BY SmsAssumption
    <3>2. CASE tail = 0
      <4>1. c = "AC:"
        BY <2>1, <2>2, <3>1, <3>2
      <4>2. k = 4 /\ Waiting
        BY <1>2, <1>6, <1>8, <1>11, <2>1, <3>2, <4>1 DEF Reading, tail
      <4>3. PICK a \in Texted : l = Text(a)
        BY <1>2, <4>1, <4>2 DEF Marked, c
      <4>4. a \in Codes /\ a \in Seq(Tokens)
        BY <4>3, CodesAreTokens
      <4>5. Len(a) \in Nat
        BY <4>4
      <4>6. \A i \in 1..1 : i = 1
        OBVIOUS
      <4>7. t.BufferTail = 1 /\ t.SMBuffer[1] = l[4 + 1]
        BY <2>1, <2>2, <3>2, <4>1, <4>2 DEF c
      <4> QED
        BY <1>8, <4>2, <4>3, <4>5, <4>6, <4>7 DEF InText, t
    <3>3. CASE tail # 0
      <4>1. sms.SMBuffer[1] = "AC:" /\ tail > 0
        BY <1>8, <2>1, <2>2, <3>1, <3>3
      <4>2. Waiting /\ InText(l, k)
        BY <1>11, <4>1 DEF Reading, tail
      <4>3. PICK a \in Texted : /\ l = Text(a) /\ k <= 5 + Len(a) /\ tail = k - 4
                                /\ \A i \in 1..tail : sms.SMBuffer[i] = l[4 + i]
        BY <4>2 DEF InText, tail
      <4>4. a \in Codes /\ a \in Seq(Tokens) /\ Len(a) < BufLen
        BY <4>3, CodesAreTokens DEF TextAssumption
      <4>5. Len(a) \in Nat /\ l[6 + Len(a)] = "&"
        BY <4>3, <4>4, TextShape
      <4>6. k + 1 <= 5 + Len(a)
        <5>1. k + 1 # 6 + Len(a)
          BY <1>7, <1>11, <4>2, <4>5 DEF c
        <5> QED
          BY <1>2, <4>3, <4>5, <5>1
      <4>7. tail + 1 \in 1..BufLen /\ tail + 1 = (k + 1) - 4 /\ 4 + (tail + 1) = k + 1
        BY <1>2, <1>8, <4>3, <4>4, <4>5, <4>6, SmsAssumption
      <4>8. ASSUME NEW i \in 1..(tail + 1) PROVE t.SMBuffer[i] = l[4 + i]
        <5>1. i \in 1..BufLen /\ (i = tail + 1 \/ i \in 1..tail)
          BY <1>8, <4>7, SmsAssumption
        <5> QED
          BY <1>8, <2>1, <4>3, <4>7, <5>1 DEF c
      <4> QED
        BY <1>8, <2>1, <4>2, <4>3, <4>6, <4>7, <4>8 DEF InText, t
    <3> QED
      BY <3>2, <3>3
  <2>3. t.BufferTail # 0
    BY <1>8, <2>1
  <2> QED
    BY <1>2, <1>3, <1>4, <1>5, <1>8, <2>1, <2>2, <2>3 DEF Reading, t
<1> QED
  BY <1>9, <1>10, <1>11

\* What a line brings between its marks fits in SMBuffer.
Fits(l) ==
  /\ \E e \in 2..Len(l) : l[e] = "EOL" /\ e - 2 <= BufLen
  /\ (Len(l) >= 4 /\ l[4] = "#") => \E e \in 5..Len(l) : l[e] = "&" /\ e - 5 <= BufLen

LEMMA LinesFit ==
  ASSUME TextAssumption, NEW codes \in SUBSET Codes, NEW l \in Lines(codes)
  PROVE  Fits(l)
<1>0. BufLen \in Nat /\ BufLen > 3
  BY SmsAssumption
<1>1. ASSUME NEW n \in Numbers, l = SIND(n) PROVE Fits(l)
  <2>1. n \in Seq(Digits) /\ Len(n) < BufLen
    <3>1. \A i \in DOMAIN Announced : Announced[i] \in Seq(Digits)
      BY SmsAssumption
    <3> QED
      BY <3>1, SmsSpecAssumption DEF Numbers, TextAssumption
  <2>2. /\ Len(n) \in Nat /\ Len(l) = Len(n) + 3 /\ l[3 + Len(n)] = "EOL"
        /\ \A i \in 1..Len(n) : l[2 + i] = n[i] /\ n[i] \in Digits
    BY <1>1, <2>1, SindShape
  <2>3. ~(Len(l) >= 4 /\ l[4] = "#")
    <3>1. SUFFICES ASSUME Len(l) >= 4, l[4] = "#" PROVE FALSE
      OBVIOUS
    <3>2. CASE Len(n) = 1
      BY <2>2, <3>1, <3>2
    <3>3. CASE Len(n) >= 2
      <4>1. 2 \in 1..Len(n) /\ 2 + 2 = 4
        BY <2>2, <3>3
      <4> QED
        BY <2>2, <3>1, <4>1, DigitsAreNoMarks
    <3> QED
      BY <2>2, <3>1, <3>2, <3>3
  <2>4. 3 + Len(n) \in 2..Len(l) /\ (3 + Len(n)) - 2 <= BufLen
    BY <1>0, <2>1, <2>2
  <2> QED
    BY <2>2, <2>3, <2>4 DEF Fits
<1>2. CASE l = UnknownLine
  <2> DEFINE b == <<"#", "text", "&">>
  <2>1. b \in Seq(Tokens) /\ Len(b) = 3 /\ b[1] = "#" /\ b[3] = "&"
    BY DEF Tokens
  <2>2. l = CMT(b)
    BY <1>2 DEF UnknownLine
  <2> HIDE DEF b
  <2>3. Len(l) = 7 /\ l[3] = "EOL" /\ l[6] = "&"
    <3>1. /\ Len(l) = Len(b) + 4 /\ l[3] = "EOL"
          /\ \A i \in 1..Len(b) : l[3 + i] = b[i]
      BY <2>1, <2>2, CmtShape
    <3>2. 3 \in 1..Len(b) /\ 3 + 3 = 6
      BY <2>1
    <3> QED
      BY <2>1, <3>1, <3>2
  <2>4. 3 \in 2..Len(l) /\ 3 - 2 <= BufLen /\ 6 \in 5..Len(l) /\ 6 - 5 <= BufLen
    BY <1>0, <2>3
  <2> QED
    BY <2>3, <2>4 DEF Fits
<1>3. ASSUME NEW c \in codes, l = Text(c) PROVE Fits(l)
  <2>1. c \in Seq(Tokens) /\ Len(c) < BufLen
    BY CodesAreTokens DEF TextAssumption
  <2>2. Len(c) \in Nat /\ Len(l) = Len(c) + 7 /\ l[3] = "EOL" /\ l[6 + Len(c)] = "&"
    BY <1>3, <2>1, TextShape
  <2>3. /\ 3 \in 2..Len(l) /\ 3 - 2 <= BufLen
        /\ 6 + Len(c) \in 5..Len(l) /\ (6 + Len(c)) - 5 <= BufLen
    BY <1>0, <2>1, <2>2
  <2> QED
    BY <2>2, <2>3 DEF Fits
<1> QED
  BY <1>1, <1>2, <1>3 DEF Lines

\* The end mark of what is being logged is still to come.
LEMMA EndComes ==
  ASSUME NEW l, Marked(l, Texted), Fits(l), NEW k \in 0..Len(l), Counted(l, k),
         sms.CmdStart
  PROVE  \E e \in (k + 1)..Len(l) : l[e] = EndMark(sms) /\ e - (From + 1) <= BufLen
<1>1. Len(l) \in Nat /\ Len(l) >= 3 /\ k \in Nat
  BY DEF Marked
<1>2. k >= From /\ l[From] = StartMark(sms) /\ \A i \in (From + 1)..k : l[i] # EndMark(sms)
  BY DEF Counted
<1>3. PICK e \in (From + 1)..Len(l) : l[e] = EndMark(sms) /\ e - (From + 1) <= BufLen
  <2>1. CASE Waiting
    <3>1. From = 4 /\ EndMark(sms) = "&" /\ StartMark(sms) = "#"
      BY <2>1 DEF From, Waiting, EndMark, StartMark
    <3>2. Len(l) >= 4 /\ l[4] = "#"
      BY <1>1, <1>2, <3>1
    <3> QED
      BY <3>1, <3>2 DEF Fits
  <2>2. CASE ~Waiting
    <3>1. From = 1 /\ EndMark(sms) = "EOL"
      BY <2>2 DEF From, Waiting, EndMark
    <3> QED
      BY <3>1 DEF Fits
  <2> QED
    BY <2>1, <2>2
<1>4. From \in {1, 4}
  BY DEF From
<1>5. e > k
  <2>1. SUFFICES ASSUME e <= k PROVE FALSE
    BY <1>1, <1>3, <1>4
  <2>2. e \in (From + 1)..k
    BY <1>1, <1>3, <1>4, <2>1
  <2> QED
    BY <1>2, <1>3, <2>2
<1> QED
  BY <1>1, <1>3, <1>4, <1>5

\* So that when all of the line is read, nothing is being logged.
LEMMA NothingOpen ==
  ASSUME NEW l, Marked(l, Texted), Fits(l), Counted(l, Len(l)), Len(l) \in Nat
  PROVE  ~sms.CmdStart
<1> SUFFICES ASSUME sms.CmdStart PROVE FALSE
  OBVIOUS
<1>1. Len(l) \in 0..Len(l)
  OBVIOUS
<1>2. PICK e \in (Len(l) + 1)..Len(l) : l[e] = EndMark(sms)
  BY <1>1, EndComes
<1> QED
  BY <1>2

LEMMA CountGoesOn ==
  ASSUME TextAssumption, SmsTypeOK, NEW l, Marked(l, Texted), Fits(l),
         NEW k \in 0..Len(l), Unread(l, k), Reading(l, k), Counted(l, k),
         SM5100RxTask, rx # <<>>
  PROVE  Counted(l, k + 1)'
<1> DEFINE c == l[k + 1]
           t == sms'
<1>1. /\ Len(l) \in Nat /\ rx[1] = c /\ Head(rx) = rx[1] /\ Head(rx) \in Tokens
      /\ k + 1 \in 1..Len(l) /\ k \in Nat
  BY UnreadGoesOn DEF Marked
<1>2. t = ReadByte(sms, c) /\ c \in Tokens /\ sms \in SmsType
  BY <1>1 DEF SM5100RxTask, SmsTypeOK
<1>3. /\ t.SM5100State = sms.SM5100State
      /\ ~sms.CmdStart =>
           /\ t.CmdComplete = sms.CmdComplete /\ t.BufferTail = sms.BufferTail
           /\ t.CmdStart <=> c = StartMark(sms)
      /\ sms.CmdStart /\ c = EndMark(sms) =>
           t.CmdComplete /\ ~t.CmdStart /\ t.BufferTail = sms.BufferTail
      /\ sms.CmdStart /\ c # EndMark(sms) =>
           t.CmdComplete = sms.CmdComplete /\ t.BufferTail = sms.BufferTail + 1
  <2> HIDE DEF c, t
  <2> QED
    BY <1>2, ReadByteFields
<1>4. /\ From' = From /\ StartMark(t) = StartMark(sms) /\ EndMark(t) = EndMark(sms)
      /\ From \in {1, 4} /\ sms.BufferTail \in Nat
  BY <1>2, <1>3 DEF From, Waiting, StartMark, EndMark, SmsType
<1>5. (c = "+" => k = 0) /\ (c = "#" => k = 3)
  BY <1>1 DEF Marked
<1> HIDE DEF c, t
<1>6. CASE ~sms.CmdStart
  <2>1. ASSUME t.CmdStart
        PROVE  k + 1 = From /\ t.BufferTail = 0
    <3>1. c = StartMark(sms)
      BY <1>3, <1>6, <2>1
    <3>2. k + 1 = From
      BY <1>5, <3>1 DEF StartMark, From, Waiting
    <3>3. ~sms.CmdComplete
      BY <1>1, <3>2 DEF Reading, From
    <3> QED
      BY <1>3, <1>6, <3>2, <3>3 DEF Reading
  <2>2. t.CmdComplete => t.BufferTail <= BufLen
    BY <1>3, <1>6 DEF Counted
  <2>3. t.CmdStart => l[From] = StartMark(sms)
    BY <1>3, <1>6, <2>1 DEF c
  <2> QED
    BY <1>1, <1>4, <2>1, <2>2, <2>3 DEF Counted, t
<1>7. CASE sms.CmdStart /\ c = EndMark(sms)
  <2>1. PICK e \in (k + 1)..Len(l) : e - (From + 1) <= BufLen
    BY <1>7, EndComes
  <2>2. sms.BufferTail = k - From
    BY <1>7 DEF Counted
  <2>3. BufLen \in Nat /\ sms.BufferTail <= BufLen
    BY <1>1, <1>4, <2>1, <2>2, SmsAssumption
  <2> QED
    BY <1>3, <1>7, <2>3 DEF Counted, t
<1>8. CASE sms.CmdStart /\ c # EndMark(sms)
  <2>1. /\ k >= From /\ sms.BufferTail = k - From /\ l[From] = StartMark(sms)
        /\ \A i \in (From + 1)..k : l[i] # EndMark(sms)
    BY <1>8 DEF Counted
  <2>2. \A i \in (From + 1)..(k + 1) : l[i] # EndMark(sms)
    <3>1. SUFFICES ASSUME NEW i \in (From + 1)..(k + 1) PROVE l[i] # EndMark(sms)
      OBVIOUS
    <3>2. i = k + 1 \/ i \in (From + 1)..k
      BY <1>1, <1>4
    <3> QED
      BY <1>8, <2>1, <3>2 DEF c
  <2>3. k + 1 >= From /\ t.BufferTail = (k + 1) - From
    BY <1>1, <1>3, <1>4, <1>8, <2>1
  <2>4. ~t.CmdComplete
    BY <1>3, <1>8 DEF Reading
  <2> QED
    BY <1>4, <2>1, <2>2, <2>3, <2>4 DEF Counted, t
<1> QED
  BY <1>6, <1>7, <1>8

\* Nothing is left of a line.
LEMMA LineOver ==
  ASSUME NEW l \in Seq(Tokens), rx = <<>>, line = <<>>
  PROVE  Unread(l, Len(l))
  BY DEF Unread

LEMMA LineIsShort ==
  ASSUME TextAssumption, SmsTypeOK, LineInv
  PROVE  /\ Texted \subseteq Codes
         /\ \A l \in Lines(Texted) : Marked(l, Texted)
         /\ line # <<>> => Len(rx) < RxCap
<1>1. Texted \subseteq Codes
  BY DEF LineInv, Texted
<1>2. \A l \in Lines(Texted) : Marked(l, Texted)
  BY <1>1, LinesMarked
<1>3. line # <<>> => Len(rx) < RxCap
  <2>1. PICK l \in Lines(Texted) : \E k \in 0..Len(l) : Unread(l, k)
    BY DEF LineInv, LineRead
  <2>2. PICK k \in 0..Len(l) : Len(rx) + Len(line) = Len(l) - k
    BY <2>1 DEF Unread
  <2>3. Len(l) \in 3..RxCap /\ Len(rx) \in Nat /\ Len(line) \in Nat
    BY <1>2, <2>1 DEF Marked, SmsTypeOK
  <2>4. line # <<>> => Len(line) > 0
    BY DEF SmsTypeOK
  <2> QED
    BY <2>2, <2>3, <2>4, SmsAssumption
<1> QED
  BY <1>1, <1>2, <1>3

\* The other steps of the channel: where they leave the line, and the state.
LEMMA PhoneReads ==
  ASSUME TextAssumption, SmsTypeOK, LineInv, PhoneTask, UNCHANGED texted,
         clipped' = (clipped \/ (ThrowsAway /\ sms.CmdStart))
  PROVE  \E l \in Lines(Texted) : \E k \in 0..Len(l) : LineRead(l, k)'
<1>1. PICK l \in Lines(Texted) : \E k \in 0..Len(l) : LineRead(l, k)
  BY DEF LineInv
<1>2. PICK k \in 0..Len(l) : Unread(l, k) /\ Reading(l, k) /\ (~clipped => Counted(l, k))
  BY <1>1 DEF LineRead
<1>3. Marked(l, Texted) /\ Texted \subseteq Codes
  BY LineIsShort
<1>4. Len(l) \in Nat /\ Len(l) >= 3 /\ l \in Seq(Tokens) /\ k \in Nat
  BY <1>3 DEF Marked
<1>5. Texted' = Texted /\ sms \in SmsType
  BY DEF Texted, SmsTypeOK
<1>6. SUFFICES \E j \in 0..Len(l) : LineRead(l, j)'
  OBVIOUS
<1> USE DEF Waiting, Ready
<1>7. CASE SM5100RxTask /\ rx # <<>>
  <2>1. k + 1 \in 0..Len(l) /\ Unread(l, k + 1)' /\ Reading(l, k + 1)'
    BY <1>2, <1>3, <1>7, ReadingGoesOn
  <2>2. ~clipped' => ~clipped
    OBVIOUS
  <2>3. ~clipped => Counted(l, k + 1)'
    BY <1>1, <1>2, <1>3, <1>7, CountGoesOn, LinesFit
  <2> QED
    BY <2>1, <2>2, <2>3 DEF LineRead
<1>8. CASE (SM5100RxTask /\ rx = <<>>) \/ NothingInState \/ NoStatus
  <2>1. UNCHANGED <<sms, rx, line>>
    BY <1>8 DEF SM5100RxTask, NothingInState, NoStatus, smsVars
  <2>2. Unread(l, k)'
    BY <1>2, <2>1 DEF Unread
  <2>3. /\ pc # "SM5100Status" => pc' \in PhoneSteps
        /\ pc # "SM5100Status" /\ Ready /\ sms.CmdComplete => pc' = "SM5100Status"
        /\ pc = "SM5100Status" => ~sms.CmdComplete
    BY <1>2, <1>8 DEF SM5100RxTask, NothingInState, NoStatus, PhoneSteps, Reading
  <2>4. Reading(l, k)'
    <3>1. sms.BootUp => pc' = "SM5100StateMachine"
      BY <1>2, <1>8 DEF SM5100RxTask, NothingInState, NoStatus, Reading
    <3> QED
      BY <1>2, <1>5, <2>1, <2>3, <3>1 DEF Reading, InText, AuthCode, StoreSteps
  <2>5. ~clipped' => Counted(l, k)'
    BY <1>2, <2>1 DEF Counted, From, StartMark, EndMark
  <2> QED
    BY <2>2, <2>4, <2>5 DEF LineRead
<1>9. CASE BootUpReset \/ ErrorRestart
  <2>1. rx' = <<>> /\ line' = <<>>
    BY <1>9 DEF BootUpReset, ErrorRestart, SM5100Reset
  <2>2. Unread(l, Len(l))'
    BY <1>4, <2>1 DEF Unread
  <2>3. /\ sms'.CmdStart = sms.CmdStart /\ sms'.CmdComplete = sms.CmdComplete
        /\ sms'.BufferTail = sms.BufferTail /\ sms'.SMBuffer = sms.SMBuffer
        /\ ~sms'.BootUp /\ pc = "SM5100StateMachine"
        /\ \/ sms.BootUp /\ sms'.SM5100State = sms.SM5100State /\ pc' = pc
           \/ /\ sms.SM5100State = "SM5100Error" /\ sms'.SM5100State = "SM5100Ready"
              /\ pc' = "SM5100Status"
    BY <1>5, <1>9 DEF BootUpReset, ErrorRestart, Switch, SmsType
  <2>4. ~Waiting /\ ~Waiting' /\ ~Ready /\ (Ready' => pc' = "SM5100Status")
    BY <1>2, <2>3 DEF Reading
  <2>5. /\ sms.CmdStart /\ sms.BufferTail > 0 => sms.SMBuffer[1] # "AC:"
        /\ sms.CmdComplete => ~sms.CmdStart
        /\ ~sms.CmdStart /\ ~sms.CmdComplete => sms.BufferTail = 0
    BY <1>2, <2>4 DEF Reading
  <2>6. Reading(l, Len(l))'
    BY <1>4, <2>3, <2>4, <2>5 DEF Reading, PhoneSteps, StoreSteps
  <2>7. ThrowsAway
    BY <1>9 DEF BootUpReset, ErrorRestart, Switch, ThrowsAway
  <2>8. ~clipped' => Counted(l, Len(l))'
    BY <1>2, <2>3, <2>7 DEF Counted
  <2> QED
    BY <1>4, <2>2, <2>6, <2>8 DEF LineRead
<1>10. CASE SM500InitializeSMS
  <2>1. /\ rx' = <<>> /\ line' = line /\ ~sms.BootUp /\ Ready
        /\ pc = "SM5100StateMachine" /\ Waiting' /\ ~Ready'
        /\ sms'.CmdStart = sms.CmdStart /\ sms'.CmdComplete = sms.CmdComplete
        /\ sms'.BufferTail = sms.BufferTail /\ sms'.BootUp = sms.BootUp
        /\ sms'.SMBuffer[1] \in {"text", sms.SMBuffer[1]}
    <3>1. PICK header \in {"text", sms.SMBuffer[1]} :
             sms' = [sms EXCEPT !.SM5100State = "SM5100WForSms", !.SMBuffer[1] = header,
                                !.SMBuffer[2] = NUL, !.SMBuffer[3] = NUL]
      BY <1>10 DEF SM500InitializeSMS
    <3> QED
      BY <1>5, <1>10, <3>1, SmsAssumption DEF SM500InitializeSMS, Switch, SmsType
  <2>2. Len(rx) \in Nat /\ Len(line) \in Nat
    BY DEF SmsTypeOK
  <2>3. PICK j \in 0..Len(l) : j = k + Len(rx)
    BY <1>2, <1>4, <2>2 DEF Unread
  <2>4. Unread(l, j)'
    BY <1>2, <1>4, <2>1, <2>2, <2>3 DEF Unread
  <2>5. ~sms'.CmdComplete /\ (sms'.CmdStart => j = Len(l))
    <3>1. ~sms.CmdComplete /\ (sms.CmdStart => k = Len(l))
      BY <1>2, <2>1 DEF Reading
    <3>2. k = Len(l) => j = Len(l)
      BY <1>4, <2>2, <2>3
    <3> QED
      BY <2>1, <3>1, <3>2
  <2>6. ~sms'.CmdStart => sms'.BufferTail = 0
    BY <1>2, <2>1, <2>5 DEF Reading
  <2>7. sms'.CmdStart /\ sms'.BufferTail > 0 => sms'.SMBuffer[1] # "AC:"
    BY <1>2, <2>1 DEF Reading
  <2>8. Reading(l, j)'
    BY <2>1, <2>5, <2>6, <2>7 DEF Reading
  <2>9. ThrowsAway
    BY <2>1 DEF ThrowsAway
  <2>10. ~clipped' => Counted(l, j)'
    BY <2>1, <2>5, <2>9 DEF Counted
  <2> QED
    BY <2>3, <2>4, <2>8, <2>10 DEF LineRead
<1>11. CASE SM5100ParseSms \/ UnknownMessage \/ SM5100ParseStatus
  <2>1. rx' = rx /\ line' = line /\ sms.CmdComplete
    BY <1>11 DEF SM5100ParseSms, UnknownMessage, SM5100ParseStatus
  <2>2. Unread(l, k)'
    BY <1>2, <2>1 DEF Unread
  <2>3. /\ sms'.CmdStart = sms.CmdStart /\ ~sms'.CmdComplete /\ sms'.BufferTail = 0
        /\ sms'.BootUp = sms.BootUp
    <3>1. CASE SM5100ParseSms \/ UnknownMessage
      BY <1>5, <3>1 DEF SM5100ParseSms, UnknownMessage, Consumed, SmsType
    <3>2. CASE SM5100ParseStatus
      <4>1. PICK stat : sms' = Consumed(AfterStatus(NumberCleared(sms), stat))
        BY <3>2 DEF SM5100ParseStatus
      <4> QED
        BY <1>5, <4>1 DEF Consumed, AfterStatus, NumberCleared, SmsType
    <3> QED
      BY <1>11, <3>1, <3>2
  <2>4. ~sms.CmdStart /\ k >= 1 /\ ~sms.BootUp
    BY <1>2, <1>11, <2>1
       DEF Reading, SM5100ParseSms, UnknownMessage, SM5100ParseStatus, Switch
  <2>5. Reading(l, k)'
    BY <2>3, <2>4 DEF Reading
  <2>6. Counted(l, k)'
    BY <2>3, <2>4 DEF Counted
  <2> QED
    BY <2>2, <2>5, <2>6 DEF LineRead
<1> QED
  BY <1>7, <1>8, <1>9, <1>10, <1>11 DEF PhoneTask, SM5100StateMachine

LEMMA AnnouncedNumbers == Announced \in Seq(Numbers) /\ <<>> \in Seq(Numbers)
<1>1. Announced \in Seq({Announced[i] : i \in DOMAIN Announced})
  BY SmsAssumption, SeqIsCode DEF IsCode
<1> QED
  BY <1>1, EmptySeq DEF Numbers

LEMMA PhoneLine ==
  ASSUME TextAssumption, SmsTypeOK, LineInv, PhoneTask, UNCHANGED texted,
         clipped' = (clipped \/ (ThrowsAway /\ sms.CmdStart))
  PROVE  LineInv'
<1>1. Texted' = Texted /\ texted' \in Seq(Codes)
  BY DEF Texted, LineInv
<1>2. modem'.todo \in Seq(Numbers)
  <2>1. CASE BootUpReset \/ ErrorRestart
    BY <2>1, AnnouncedNumbers DEF BootUpReset, ErrorRestart, SM5100Reset, Rebooting
  <2>2. CASE SM500InitializeSMS
    BY <2>2 DEF SM500InitializeSMS, LineInv, SmsTypeOK
  <2>3. CASE ~(BootUpReset \/ ErrorRestart \/ SM500InitializeSMS)
    <3>1. modem' = modem
      BY <2>3 DEF PhoneTask, SM5100RxTask, SM5100StateMachine, NothingInState,
         SM5100ParseSms, UnknownMessage, SM5100ParseStatus, NoStatus, smsVars
    <3> QED
      BY <3>1 DEF LineInv
  <2> QED
    BY <2>1, <2>2, <2>3
<1>3. pc' \in StoreSteps => wr'.data \in Texted'
  <2>1. CASE SM5100ParseSms
    <3>1. AuthCode \in Texted
      BY <2>1 DEF SM5100ParseSms, Switch, LineInv, LineRead, Reading, Waiting
    <3>2. wr'.data = AuthCode \/ pc' = "SM5100Status"
      BY <2>1 DEF SM5100ParseSms, ParseAuthCode, SmsApproved, SmsRefused, Store
    <3> QED
      BY <1>1, <3>1, <3>2 DEF StoreSteps
  <2>2. CASE ~SM5100ParseSms
    <3>1. pc' \notin StoreSteps
      BY <2>2 DEF PhoneTask, SM5100RxTask, SM5100StateMachine, BootUpReset,
         NothingInState, SM500InitializeSMS, UnknownMessage, ErrorRestart, Switch,
         SM5100ParseStatus, NoStatus, StoreSteps
    <3> QED
      BY <3>1
  <2> QED
    BY <2>1, <2>2
<1> QED
  BY <1>1, <1>2, <1>3, PhoneReads DEF LineInv

\* The other tasks run when no command waits, and touch none of this.
LEMMA OtherTaskLine ==
  ASSUME IInv, LineInv, OtherTask, UNCHANGED texted, ~clipped' => ~clipped
  PROVE  LineInv'
<1>1. UNCHANGED <<sms, rx, line, modem>> /\ Texted' = Texted
  BY DEF OtherTask, smsVars, Texted
<1>2. /\ pc \notin PhoneSteps /\ (pc' \in StoreSteps => pc \in StoreSteps /\ wr' = wr)
      /\ pc' = "SM5100Status" => pc \in StoreSteps
  <2>1. CASE GLCDTask
    BY <2>1, DrawingSteps DEF IInv, PhoneSteps, StoreSteps
  <2>2. CASE InternetTask
    BY <2>2 DEF InternetTask, PhoneSteps, StoreSteps
  <2>3. CASE writeToAuthSD
    BY <2>3, WritingPlaces DEF Storing, PhoneSteps, StoreSteps
  <2> QED
    BY <2>1, <2>2, <2>3 DEF OtherTask
<1>3. PICK l \in Lines(Texted) : \E k \in 0..Len(l) : LineRead(l, k)
  BY DEF LineInv
<1>4. PICK k \in 0..Len(l) : Unread(l, k) /\ Reading(l, k) /\ (~clipped => Counted(l, k))
  BY <1>3 DEF LineRead
<1>5. Unread(l, k)'
  BY <1>1, <1>4 DEF Unread
<1>6. Reading(l, k)'
  <2>1. ~sms.CmdComplete
    BY <1>2, <1>4 DEF Reading
  <2> QED
    BY <1>1, <1>2, <1>4, <2>1 DEF Reading, Waiting, Ready, InText
<1>7. ~clipped' => Counted(l, k)'
  BY <1>1, <1>4 DEF Counted, From, Waiting, StartMark, EndMark
<1> QED
  BY <1>1, <1>2, <1>5, <1>6, <1>7 DEF LineInv, LineRead

\* A new line comes when the one before is read, and whatever was logged of
\* that one is not the beginning of a text.
LEMMA LineStarts ==
  ASSUME TextAssumption, SmsTypeOK, LineInv, LineMayStart, line = <<>>,
         UNCHANGED <<pc, sms, rx, clipped>>, line' \in Lines(Texted'),
         line' \in Seq(Tokens)
  PROVE  \E l \in Lines(Texted') : \E k \in 0..Len(l) : LineRead(l, k)'
<1>1. PICK l \in Lines(Texted) : \E k \in 0..Len(l) : LineRead(l, k)
  BY DEF LineInv
<1>2. PICK k \in 0..Len(l) : Unread(l, k) /\ Reading(l, k) /\ (~clipped => Counted(l, k))
  BY <1>1 DEF LineRead
<1>3. Marked(l, Texted) /\ Texted \subseteq Codes
  BY LineIsShort
<1>4. /\ pc = "GLCDTask" /\ ~sms.CmdComplete /\ rx = <<>> /\ ~Ready
  BY DEF LineMayStart, TextAssumption, Ready
<1>5. k = Len(l) /\ Len(l) \in Nat /\ Len(l) >= 3
  BY <1>2, <1>3, <1>4 DEF Unread, Marked
<1>6. ~(sms.CmdStart /\ sms.BufferTail > 0 /\ sms.SMBuffer[1] = "AC:")
  <2> SUFFICES ASSUME InText(l, k) PROVE FALSE
    BY <1>2 DEF Reading
  <2>1. PICK c \in Texted : l = Text(c) /\ k <= 5 + Len(c)
    BY DEF InText
  <2>2. c \in Seq(Tokens)
    BY <1>3, <2>1, CodesAreTokens
  <2> QED
    BY <1>5, <2>1, <2>2, TextShape
<1>7. /\ ~sms.CmdStart => sms.BufferTail = 0
      /\ sms.BootUp => sms.SM5100State = "SM5100Init"
  BY <1>2, <1>4 DEF Reading
<1>8. ~clipped => ~sms.CmdStart
  BY <1>1, <1>2, <1>3, <1>4, <1>5, LinesFit, NothingOpen
<1>9. Len(line') \in Nat /\ Len(rx') = 0
  BY <1>4
<1>10. PICK m \in Lines(Texted') : line' = m
  OBVIOUS
<1>11. Unread(m, 0)'
  BY <1>9, <1>10 DEF Unread
<1>12. Reading(m, 0)'
  BY <1>4, <1>6, <1>7 DEF Reading, Waiting, Ready, StoreSteps
<1>13. ~clipped' => Counted(m, 0)'
  BY <1>4, <1>8 DEF Counted
<1>14. 0 \in 0..Len(m) /\ LineRead(m, 0)'
  BY <1>9, <1>10, <1>11, <1>12, <1>13 DEF LineRead
<1> QED
  BY <1>14

LEMMA WorldLine ==
  ASSUME TextAssumption, IInv, IInv', LineInv,
         \/ Arrives \/ TimePasses \/ Start \/ UnknownText
         \/ (\E n \in Notices : Notice(n)) \/ \E code \in Codes : TextMessage(code)
  PROVE  LineInv'
<1>1. UNCHANGED <<pc, storeVars>> /\ SmsTypeOK /\ SmsTypeOK'
  BY DEF Arrives, Uart, TimePasses, TimeoutRunsOut, Start, ModemStarts, UnknownText,
         Notice, TextMessage, ModemSends, IInv
<1>2. wr' = wr
  BY <1>1 DEF storeVars
<1>3. CASE Arrives
  <2>1. /\ line # <<>> /\ rx' = Append(rx, Head(line)) /\ line' = Tail(line)
        /\ UNCHANGED <<pc, sms, modem, texted, clipped>>
    BY <1>1, <1>3, LineIsShort DEF Arrives, Uart, specVars
  <2>2. Texted' = Texted
    BY <2>1 DEF Texted
  <2>3. PICK l \in Lines(Texted) : \E k \in 0..Len(l) : LineRead(l, k)
    BY DEF LineInv
  <2>4. PICK k \in 0..Len(l) : Unread(l, k) /\ Reading(l, k) /\ (~clipped => Counted(l, k))
    BY <2>3 DEF LineRead
  <2>5. Unread(l, k)'
    <3>1. l \in Seq(Tokens) /\ Len(rx) < RxCap /\ Uart
      BY <1>1, <1>3, <2>1, LineIsShort DEF Arrives, Marked
    <3> QED
      BY <1>1, <2>4, <3>1, UnreadArrives
  <2>6. Reading(l, k)'
    BY <2>1, <2>2, <2>4 DEF Reading, Waiting, Ready, InText, AuthCode
  <2>7. ~clipped' => Counted(l, k)'
    BY <2>1, <2>4 DEF Counted, From, Waiting, StartMark, EndMark
  <2> QED
    BY <1>2, <2>1, <2>2, <2>5, <2>6, <2>7 DEF LineInv, LineRead
<1>4. CASE TimePasses
  <2>1. /\ UNCHANGED <<pc, rx, line, modem, texted, clipped>>
        /\ sms' = [sms EXCEPT !.timeout = TRUE]
    BY <1>4 DEF TimePasses, TimeoutRunsOut, specVars
  <2>2. /\ sms'.SM5100State = sms.SM5100State /\ sms'.BootUp = sms.BootUp
        /\ sms'.CmdStart = sms.CmdStart /\ sms'.CmdComplete = sms.CmdComplete
        /\ sms'.BufferTail = sms.BufferTail /\ sms'.SMBuffer = sms.SMBuffer
    BY <1>1, <2>1 DEF SmsTypeOK, SmsType
  <2>3. PICK l \in Lines(Texted) : \E k \in 0..Len(l) : LineRead(l, k)
    BY DEF LineInv
  <2>4. PICK k \in 0..Len(l) : Unread(l, k) /\ Reading(l, k) /\ (~clipped => Counted(l, k))
    BY <2>3 DEF LineRead
  <2>5. Unread(l, k)' /\ Texted' = Texted
    BY <2>1, <2>4 DEF Unread, Texted
  <2>6. Reading(l, k)'
    BY <2>1, <2>2, <2>4, <2>5 DEF Reading, Waiting, Ready, InText, AuthCode
  <2>7. ~clipped' => Counted(l, k)'
    BY <2>1, <2>2, <2>4 DEF Counted, From, Waiting, StartMark, EndMark
  <2> QED
    BY <1>2, <2>1, <2>5, <2>6, <2>7 DEF LineInv, LineRead
<1>5. ASSUME LineMayStart, line = <<>>, UNCHANGED <<pc, sms, rx, clipped>>,
             texted' \in Seq(Codes), Texted \subseteq Texted',
             line' \in Lines(Texted'), modem'.todo \in Seq(Numbers)
      PROVE  LineInv'
  <2>1. \E l \in Lines(Texted') : \E k \in 0..Len(l) : LineRead(l, k)'
    BY <1>1, <1>5, LineStarts DEF SmsTypeOK
  <2> QED
    BY <1>2, <1>5, <2>1 DEF LineInv
<1>6. CASE Start
  <2>1. Head(modem.todo) \in Numbers /\ Tail(modem.todo) \in Seq(Numbers)
    BY <1>6, HeadTailProperties DEF Start, ModemStarts, LineInv
  <2>2. modem'.todo = Tail(modem.todo)
    BY <1>1, <1>6 DEF Start, ModemStarts, SmsTypeOK
  <2> QED
    BY <1>5, <1>6, <2>1, <2>2
       DEF Start, ModemStarts, specVars, LineInv, Lines, Texted
<1>7. CASE UnknownText \/ \E n \in Notices : Notice(n)
  BY <1>5, <1>7
     DEF UnknownText, Notice, ModemSends, LineInv, Lines, Numbers, UnknownLine, Texted
<1>8. ASSUME NEW code \in Codes, TextMessage(code)
      PROVE  LineInv'
  <2>1. /\ texted' \in Seq(Codes) /\ Len(texted') = Len(texted) + 1
        /\ \A i \in 1..Len(texted) : texted'[i] = texted[i]
        /\ texted'[Len(texted) + 1] = code
        /\ Len(texted) \in Nat
    BY <1>8, AppendProperties DEF TextMessage, LineInv
  <2>2. /\ DOMAIN texted = 1..Len(texted) /\ DOMAIN texted' = 1..(Len(texted) + 1)
    BY <2>1 DEF LineInv
  <2>3. Texted \subseteq Texted' /\ code \in Texted'
    BY <2>1, <2>2 DEF Texted
  <2> QED
    BY <1>5, <1>8, <2>1, <2>3 DEF TextMessage, ModemSends, Lines, LineInv
<1> QED
  BY <1>3, <1>4, <1>6, <1>7, <1>8

LEMMA StartAgainLine ==
  ASSUME TextAssumption, SmsTypeOK, LineInv, PowerCut
  PROVE  LineInv'
<1>1. /\ pc' = "GLCDTask" /\ rx' = <<>> /\ line' = <<>> /\ sms' = SMSInit
      /\ texted' = texted /\ modem' \in {modem, Rebooting}
  BY DEF PowerCut, SmsPowerOn
<1>2. Texted' = Texted /\ modem'.todo \in Seq(Numbers)
  BY <1>1, AnnouncedNumbers DEF Texted, LineInv, Rebooting
<1>3. PICK l \in Lines(Texted) : l \in Seq(Tokens) /\ Len(l) \in Nat
  BY LineIsShort DEF LineInv, Marked
<1>4. Unread(l, Len(l))'
  BY <1>1, <1>3 DEF Unread
<1>5. Reading(l, Len(l))' /\ Counted(l, Len(l))'
  BY <1>1 DEF SMSInit, Reading, Counted, Waiting, Ready, StoreSteps
<1> QED
  BY <1>1, <1>2, <1>3, <1>4, <1>5 DEF LineInv, LineRead, StoreSteps

LEMMA LineInvAlways ==
  ASSUME TextAssumption PROVE Spec => []LineInv
<1>1. Init => LineInv
  <2> SUFFICES ASSUME Init PROVE LineInv
    OBVIOUS
  <2>1. /\ sms = SMSInit /\ rx = <<>> /\ line = <<>> /\ pc = "GLCDTask"
        /\ texted = <<>> /\ modem \in {Rebooting, UpAlready}
    BY DEF Init, SmsInit
  <2>2. texted \in Seq(Codes) /\ modem.todo \in Seq(Numbers)
    <3>1. <<>> \in Seq(Codes)
      OBVIOUS
    <3>2. Rebooting.todo = Announced /\ UpAlready.todo = <<>>
      BY DEF Rebooting, UpAlready
    <3> QED
      BY <2>1, <3>1, <3>2, AnnouncedNumbers
  <2>3. UnknownLine \in Lines(Texted) /\ UnknownLine \in Seq(Tokens)
        /\ Len(UnknownLine) \in Nat
    BY UnknownMarked DEF Lines, Marked
  <2>4. Unread(UnknownLine, Len(UnknownLine))
    BY <2>1, <2>3, LineOver
  <2>5. Reading(UnknownLine, Len(UnknownLine)) /\ Counted(UnknownLine, Len(UnknownLine))
    BY <2>1 DEF SMSInit, Reading, Counted, Waiting, Ready, StoreSteps
  <2> QED
    BY <2>1, <2>2, <2>3, <2>4, <2>5 DEF LineInv, LineRead, StoreSteps
<1>2. IInv /\ IInv' /\ LineInv /\ [Next]_vars => LineInv'
  <2> SUFFICES ASSUME IInv, IInv', LineInv, [Next]_vars PROVE LineInv'
    OBVIOUS
  <2>0. SmsTypeOK
    BY DEF IInv
  <2>1. CASE Step
    <3>1. PhoneTask \/ OtherTask
      BY <2>1 DEF Step, PhoneTask, OtherTask, InternetTask
    <3>2. UNCHANGED texted /\ clipped' = (clipped \/ (ThrowsAway /\ sms.CmdStart))
      BY <2>1 DEF Step
    <3> QED
      BY <2>0, <3>1, <3>2, PhoneLine, OtherTaskLine
  <2>2. CASE \/ Arrives \/ TimePasses \/ Start \/ UnknownText
             \/ (\E n \in Notices : Notice(n))
             \/ \E code \in Codes : TextMessage(code)
    BY <2>2, WorldLine
  <2>3. CASE PowerCut
    BY <2>0, <2>3, StartAgainLine
  <2>4. CASE UNCHANGED vars
    <3>1. UNCHANGED <<pc, sms, rx, line, modem, wr, texted, clipped>> /\ Texted' = Texted
      BY <2>4 DEF vars, smsVars, storeVars, specVars, Texted
    <3>2. PICK l \in Lines(Texted) : \E k \in 0..Len(l) : LineRead(l, k)
      BY DEF LineInv
    <3>3. PICK k \in 0..Len(l) : Unread(l, k) /\ Reading(l, k) /\ (~clipped => Counted(l, k))
      BY <3>2 DEF LineRead
    <3>4. Unread(l, k)' /\ Reading(l, k)'
      BY <3>1, <3>3 DEF Unread, Reading, InText, Waiting, Ready, AuthCode
    <3>5. ~clipped' => Counted(l, k)'
      BY <3>1, <3>3 DEF Counted, From, Waiting, StartMark, EndMark
    <3> QED
      BY <3>1, <3>4, <3>5 DEF LineInv, LineRead
  <2> QED
    BY <2>1, <2>2, <2>3, <2>4 DEF Next
<1> QED
  BY <1>1, <1>2, IInvAlways, PTL DEF Spec

\* ApprovedWasTextedAlways: a code that is recorded is one that somebody texted,
\* whole and alone, through restarts of the modem, errors of the network, texts
\* that are none and power cuts between any two of its tokens (sms.ino:90-135):
\* of a line that is cut off nothing is taken for a text.  The lines must leave
\* room for one another, and a code must keep clear of the marks and fit.
THEOREM ApprovedWasTextedAlways ==
  ASSUME TextAssumption PROVE Spec => []ApprovedWasTexted
<1>1. LineInv => ApprovedWasTexted
  BY DEF LineInv, ApprovedWasTexted
<1> QED
  BY <1>1, LineInvAlways, PTL

\* OneMessageAtATimeAlways: what is logged between a start and an end mark fits in
\* SMBuffer, also while the modem starts, through errors, texts that are none and
\* power cuts, until the rest of a line that was being logged is thrown away
\* (sms.ino:104-135, 223-251).  The lines must leave room for one another.
THEOREM OneMessageAtATimeAlways ==
  ASSUME TextAssumption PROVE Spec => []OneMessageAtATime
<1>1. IInv /\ LineInv => OneMessageAtATime
  <2> SUFFICES ASSUME SmsTypeOK, LineInv, ~clipped PROVE sms.BufferTail <= BufLen
    BY DEF IInv, OneMessageAtATime
  <2>1. PICK l \in Lines(Texted) : \E k \in 0..Len(l) : LineRead(l, k)
    BY DEF LineInv
  <2>2. PICK k \in 0..Len(l) : Reading(l, k) /\ Counted(l, k)
    BY <2>1 DEF LineRead
  <2>3. Marked(l, Texted) /\ Fits(l)
    BY <2>1, LineIsShort, LinesFit
  <2>4. BufLen \in Nat /\ From \in {1, 4} /\ k \in Nat /\ Len(l) \in Nat
    BY <2>3, SmsAssumption DEF From, Marked
  <2>5. CASE sms.CmdStart
    <3>1. PICK e \in (k + 1)..Len(l) : e - (From + 1) <= BufLen
      BY <2>2, <2>3, <2>5, EndComes
    <3>2. sms.BufferTail = k - From
      BY <2>2, <2>5 DEF Counted
    <3> QED
      BY <2>4, <3>1, <3>2
  <2>6. CASE sms.CmdComplete
    BY <2>2, <2>6 DEF Counted
  <2>7. CASE ~sms.CmdStart /\ ~sms.CmdComplete
    BY <2>2, <2>4, <2>7 DEF Reading
  <2> QED
    BY <2>5, <2>6, <2>7
<1> QED
  BY <1>1, IInvAlways, LineInvAlways, PTL
=============================================================================
