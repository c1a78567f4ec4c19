------------------------------- MODULE Files -------------------------------
(***************************************************************************)
(* What the SD library promises about the files of a card at any moment    *)
(* the power may be cut: they change one at a time, a file grows by a      *)
(* whole write, from its creation or the last closing to the next, and a   *)
(* file is shortened or gone at once.                                      *)
(***************************************************************************)
EXTENDS Sequences, Naturals

CONSTANTS FileNames, FileUnits

VARIABLE contents    \* of each file: does it exist, and its data

Contents == [exists : BOOLEAN, data : Seq(FileUnits)]
Absent   == [exists |-> FALSE, data |-> <<>>]

Init == contents \in [FileNames -> Contents]

Becomes(n, exists, data) ==
  contents' = [contents EXCEPT ![n] = [exists |-> exists, data |-> data]]

Create(n) == ~contents[n].exists /\ Becomes(n, TRUE, <<>>)

Grow(n) ==
  /\ contents[n].exists
  /\ contents'[n].exists
  /\ Len(contents'[n].data) > Len(contents[n].data)
  /\ SubSeq(contents'[n].data, 1, Len(contents[n].data)) = contents[n].data
  /\ contents' = [contents EXCEPT ![n] = contents'[n]]

Shorten(n) ==
  /\ contents[n].exists
  /\ \E k \in 0..Len(contents[n].data) : Becomes(n, TRUE, SubSeq(contents[n].data, 1, k))

Remove(n) == contents[n].exists /\ contents' = [contents EXCEPT ![n] = Absent]

Next == \E n \in FileNames : Create(n) \/ Grow(n) \/ Shorten(n) \/ Remove(n)

Spec == Init /\ [][Next]_contents
=============================================================================
