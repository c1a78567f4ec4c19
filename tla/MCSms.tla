------------------------------- MODULE MCSms -------------------------------
(* A code with an extension of it, or with an unrelated one, in the modem's *)
(* tokens; and what the modem announces while it starts: registered with the *)
(* network and ready, or only that.                                         *)
EXTENDS SmsSpec

MCCodes == {<<"1">>, <<"1", "2">>}
MCTwoCodes == {<<"1">>, <<"2">>}

MCAnnounced == <<<<"1", "1">>, <<"4">>>>
MCReady == <<<<"4">>>>
MCLost == {<<"8">>}
=============================================================================
