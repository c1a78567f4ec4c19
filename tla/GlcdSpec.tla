------------------------------ MODULE GlcdSpec ------------------------------
(***************************************************************************)
(* The display task on its own: after every GLCDTask the other tasks of    *)
(* the pass make any of the calls found in wifi.ino and sms.ino, in any    *)
(* order and number.  What holds here holds whatever the channels do.      *)
(***************************************************************************)
EXTENDS Glcd

CONSTANT MaxApprovals  \* bound on the approvals of one behaviour

ASSUME MaxApprovalsAssumption == MaxApprovals \in Nat

vars == <<pc, glcdVars>>

-----------------------------------------------------------------------------
\* updateDispStatus is called with these pairs (STATUS_GSM,3 included).
StatusCalls == {c \in StatusLines \X (StatusTexts \ {"unset"}) :
                  c[2] = "NO_SIM" => c[1] = "GSM"}

Init == pc = "GLCDTask" /\ GlcdInit

Approve ==
  /\ pc = "BeerBotTask"
  /\ approvals < MaxApprovals
  /\ disp' = GLCDVendBeer(disp)
  /\ approvals' = approvals + 1
  /\ UNCHANGED <<pc, lcd, vendside, vends>>

NotifyError ==
  /\ pc = "BeerBotTask"
  /\ disp' = GLCDNotifyError(disp)
  /\ UNCHANGED <<pc, lcd, vendside, approvals, vends>>

UpdateStatus ==
  /\ pc = "BeerBotTask"
  /\ \E c \in StatusCalls : disp' = updateDispStatus(disp, c[1], c[2])
  /\ UNCHANGED <<pc, lcd, vendside, approvals, vends>>

EndOfPass ==
  /\ pc = "BeerBotTask"
  /\ pc' = "GLCDTask"
  /\ UNCHANGED glcdVars

PowerCut ==
  /\ pc' = "GLCDTask"
  /\ GlcdPowerOn

Next == GLCDTask \/ Approve \/ NotifyError \/ UpdateStatus \/ EndOfPass
          \/ PowerCut

Spec == Init /\ [][Next]_vars

\* loop() never stops calling its tasks, so each pass begins and ends.
FairSpec == Spec /\ WF_vars(GLCDTask) /\ WF_vars(EndOfPass)

-----------------------------------------------------------------------------
TypeOK == pc \in {"GLCDTask", "BeerBotTask"} /\ GlcdTypeOK

\* NoFreeBeer: however the tasks overwrite DispState (glcd.ino:90), the motors
\* have turned at most once per approval (GLCDVendBeer, glcd.ino:136).
NoFreeBeer == vends <= approvals

\* Why NoFreeBeer holds: a pending DispVending is an approval not yet served.
PendingIsApproved == disp.DispState = "DispVending" => vends < approvals

\* LcdAgrees: when GLCDTask would find nothing to draw, the glass shows the
\* current screen with the current status lines (the flag updateDispStat and
\* DispStatePrev, glcd.ino:159-170, never hide a change).
LcdAgrees ==
  (~disp.ShowSpashScreen /\ ~NeedsRedraw(disp)) => lcd = DispScreenUpdate(disp)

\* StatusReachesGlass: again and again the glass shows all four status lines as
\* they are, unless the vending screen is up, which has none: so a line that
\* keeps its text is shown sooner or later (glcd.ino:159, 228-234).
StatusReachesGlass ==
  []<>(lcd.screen = "DispVending" \/ \A l \in StatusLines : lcd.text[l] = disp.status[l])

\* ServesPromise: the display task implements VendPromise, with DispVending as
\* the approval that is owed a beer.
Promise == INSTANCE VendPromise
             WITH granted <- approvals, served <- vends,
                  owed <- (disp.DispState = "DispVending")
ServesPromise == Promise!Spec
=============================================================================
