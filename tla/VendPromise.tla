---------------------------- MODULE VendPromise ----------------------------
(***************************************************************************)
(* What the dispenser promises to the owner of the vending machine: a beer *)
(* leaves the machine only against an approval, and one approval never     *)
(* pays for two beers.  An approval may be forfeited (the request is kept  *)
(* in a single variable of the program, which other events overwrite and a *)
(* power cut clears), so the promise is "at most one", not "exactly one".  *)
(***************************************************************************)
EXTENDS Naturals

VARIABLES granted,  \* approvals given so far
          owed,     \* an approval is waiting for its beer
          served    \* beers dispensed so far

vars == <<granted, owed, served>>

Init == granted = 0 /\ owed = FALSE /\ served = 0

\* A second approval while one is waiting is merged into it.
Approve == /\ granted' = granted + 1
           /\ owed' = TRUE
           /\ UNCHANGED served

Serve == /\ owed
         /\ owed' = FALSE
         /\ served' = served + 1
         /\ UNCHANGED granted

Forfeit == /\ owed
           /\ owed' = FALSE
           /\ UNCHANGED <<granted, served>>

Next == Approve \/ Serve \/ Forfeit

Spec == Init /\ [][Next]_vars
=============================================================================
