------------------------------- MODULE MCMqtt -------------------------------
(* A value that fits, one that leaves no room in the buffer, and one that    *)
(* does not fit and whose length takes two bytes.                            *)
EXTENDS MqttSpec

MCConnectTail == <<20>>
MCFeedTopic == <<7>>
MCResponseTopic == <<9>>
MCReply == <<21>>

Filled(n) == [i \in 1 .. n |-> 1]
MCValues == {<<5, 3>>, Filled(6), Filled(18)}
MCLongValues == {[i \in 1 .. 8 |-> Header("PINGRESP", 0)]}
=============================================================================
