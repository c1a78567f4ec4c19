------------------------------- MODULE MCSd -------------------------------
(* Two files that compete for the clusters of a tiny card. *)
EXTENDS SdSpec
MCData == "A" :> {<<"a", "c">>} @@ "B" :> {<<"b", "b", "b">>}
MCCutData == "A" :> {<<"a">>}
=============================================================================
