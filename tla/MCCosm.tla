------------------------------- MODULE MCCosm -------------------------------
(* Two codes, one of them an extension of the other.                        *)
EXTENDS CosmSpec

MCChars == {"1", "2"}
MCCodes == {<<"1">>, <<"1", "2">>}
=============================================================================
