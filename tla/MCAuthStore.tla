---------------------------- MODULE MCAuthStore ----------------------------
(* Small codes for TLC: a one-character code, an extension of it, another    *)
(* code of that length, and the empty payload.                               *)
EXTENDS AuthStoreSpec

MCChars == {"1", "2"}
MCCodes == {<<>>, <<"1">>, <<"1", "2">>, <<"2", "2">>}
MCText  == {<<"1">>, <<"2", "2">>}
=============================================================================
