------------------------------ MODULE MCBeerBot ------------------------------
(* Two unrelated codes, and a modem that announces only that it is ready.   *)
EXTENDS BeerBot

MCCodes == {<<"1">>, <<"2">>}
MCReady == <<<<"4">>>>
=============================================================================
