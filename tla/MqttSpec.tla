------------------------------ MODULE MqttSpec ------------------------------
(***************************************************************************)
(* The library between BeerBotTask, which connects, subscribes and then    *)
(* calls loop() (wifi.ino:150-226), the callback, and a server whose bytes *)
(* arrive one after another.                                               *)
(***************************************************************************)
EXTENDS Mqtt

CONSTANTS Values,        \* what is published on the feed, as bytes
          MaxPublished,  \* bound on the values published in one behaviour
          MaxFailures    \* bound on the failures, and pings by the server

ASSUME MqttSpecAssumption ==
  /\ Values \subseteq Seq(Byte) /\ Values # {}
  /\ \A v \in Values : 2 + Len(FeedTopic) + Len(v) < Base * Base
  /\ MaxPublished \in Nat /\ MaxFailures \in Nat

VARIABLES CosmState,       \* as in wifi.ino
          LastApprovalId,  \* the payload that callback copied last
          due,             \* history: payloads of packets read, of which callback
                           \* has not been told or not replied to
          feed,            \* external: the last value of the feed
          published, failures

botVars == <<CosmState, LastApprovalId, due>>
worldVars == <<feed, published, failures>>
vars == <<mqttVars, botVars, worldVars>>

-----------------------------------------------------------------------------
Init ==
  /\ MqttInit
  /\ CosmState = "CosmDisconnected"
  /\ LastApprovalId = <<>> /\ due = <<>>
  /\ feed \in Values
  /\ published = 0 /\ failures = 0

Failure == failures < MaxFailures /\ failures' = failures + 1
NoFailure == UNCHANGED failures
Quietly == UNCHANGED <<feed, published>>

Fits(p) == Len(Bytes(p)) <= MQTT_MAX_PACKET_SIZE

-----------------------------------------------------------------------------
(* BeerBotTask                                                             *)

Connect ==
  /\ CosmState = "CosmDisconnected"
  /\ \/ connectOpens(CONNACK) /\ NoFailure
     \/ connectOpens(REFUSED) /\ Failure
     \/ connectFails /\ Failure
  /\ UNCHANGED botVars /\ Quietly

Answered ==
  /\ \/ connectReads /\ UNCHANGED CosmState /\ NoFailure
     \/ connectAccepted /\ CosmState' = "CosmConnected" /\ NoFailure
     \/ connectGivesUp /\ UNCHANGED CosmState /\ NoFailure
     \/ /\ connectTimesOut /\ UNCHANGED CosmState
        /\ IF air = <<>> THEN NoFailure ELSE Failure
  /\ UNCHANGED <<LastApprovalId, due>> /\ Quietly

\* The packet may not get through, and may get through unacknowledged: the
\* WiFi shield is asked for 2.5 seconds whether the data were sent.
Subscribe ==
  /\ CosmState = "CosmConnected"
  /\ \/ /\ subscribe(session # "lost", feed)
        /\ CosmState' = "CosmSubscribed"
        /\ NoFailure
     \/ /\ \E delivered \in BOOLEAN : subscribe(delivered, feed)
        /\ UNCHANGED CosmState
        /\ Failure
  /\ UNCHANGED <<LastApprovalId, due>> /\ Quietly

Loop ==
  /\ CosmState = "CosmSubscribed" \/ read.by = "loop"
  /\ \/ loopPing /\ UNCHANGED botVars
     \/ loopLooks /\ UNCHANGED botVars
     \/ /\ loopDisconnected
        /\ CosmState' = "CosmDisconnected"
        /\ UNCHANGED <<LastApprovalId, due>>
  /\ Quietly /\ NoFailure

ReadByte ==
  /\ readHeader \/ readDigit \/ readBody
  /\ UNCHANGED botVars /\ Quietly /\ NoFailure

\* due is what the packet just read, which is the oldest one, asks for.
Dispatch ==
  /\ loopSkips \/ loopPongs \/ loopAnswersPing \/ loopCalls
  /\ due' = IF Head(pending).type = "PUBLISH" /\ Fits(Head(pending))
            THEN <<Payload(Head(pending))>> ELSE <<>>
  /\ UNCHANGED <<CosmState, LastApprovalId>> /\ Quietly /\ NoFailure

\* Mutant: the reply is written first.
CallbackRepliesFirst ==
  /\ read.at = "callback"
  /\ LastApprovalId' =
       LET b == Put(writeString(ResponseTopic, buffer, 5),
                    7 + Len(ResponseTopic), Reply)
       IN  [i \in 1 .. read.length |-> b[read.payload + i - 1]]
  /\ read' = [read EXCEPT !.at = "publish"]
  /\ UNCHANGED <<buffer, rx, reads, CosmState, due>> /\ Quietly /\ NoFailure

\* The payload, wherever callback uses it, is in the buffer; then the reply is
\* put together in the same buffer.
Callback ==
  /\ read.at = "callback"
  /\ LastApprovalId' = Slice(read.payload, read.length)
  /\ read' = [read EXCEPT !.at = "publish"]
  /\ UNCHANGED <<buffer, rx, reads, CosmState, due>> /\ Quietly /\ NoFailure

Replies ==
  /\ publish
  /\ due' = <<>>
  /\ UNCHANGED <<CosmState, LastApprovalId>> /\ Quietly /\ NoFailure

\* The end of BeerBotTask.
UpdateStatus ==
  /\ CosmState # "CosmDisconnected"
  /\ connectedNot
  /\ CosmState' = "CosmDisconnected"
  /\ UNCHANGED <<LastApprovalId, due>> /\ Quietly /\ NoFailure

Program == \/ Connect \/ Answered \/ Subscribe \/ Loop \/ ReadByte
           \/ Dispatch \/ Callback \/ Replies \/ UpdateStatus

-----------------------------------------------------------------------------
(* The network and the server.                                             *)

libraryVars == <<buffer, nextMsgId, read, client, wrote>>

\* One more byte of the first packet.
Arrive ==
  /\ air # <<>>
  /\ sock = "open"
  /\ rx' = Append(rx, Head(Head(air)))
  /\ air' = IF Len(Head(air)) = 1 THEN Tail(air)
            ELSE <<Tail(Head(air))>> \o Tail(air)
  /\ begun' = IF begun + Len(air) = Len(pending) THEN begun + 1 ELSE begun
  /\ UNCHANGED <<libraryVars, sock, session, pending, botVars, worldVars>>

PassOn ==
  /\ published < MaxPublished
  /\ published' = published + 1
  /\ \E value \in Values :
       /\ feed' = value
       /\ IF sock = "open" /\ session = "subscribed" THEN Sent(<<Feed(value, 0)>>)
          ELSE NothingSent
  /\ UNCHANGED <<libraryVars, sock, rx, session, botVars, failures>>

\* A server that looks whether the bot is there.
ServerPings ==
  /\ sock = "open" /\ session = "subscribed"
  /\ Failure
  /\ Sent(<<Packet("PINGREQ", <<>>)>>)
  /\ UNCHANGED <<libraryVars, sock, rx, session, botVars, feed, published>>

\* What has not been sent, or is on its way, is lost.
Cut == /\ air' = <<>>
       /\ pending' = SubSeq(pending, 1, begun)
       /\ UNCHANGED begun

\* The server closes, or crashes.
ServerCloses ==
  /\ sock = "open" /\ session \in {"connected", "subscribed"}
  /\ Failure
  /\ sock' = "closeWait" /\ session' = "none"
  /\ Cut
  /\ UNCHANGED <<libraryVars, rx, botVars, feed, published>>

ConnectionLost ==
  /\ sock = "open" /\ session # "lost"
  /\ Failure
  /\ session' = "lost"
  /\ Cut
  /\ UNCHANGED <<libraryVars, sock, rx, botVars, feed, published>>

\* Looked at between two calls only: before that is as good as during a call.
KeepaliveRunsOut ==
  /\ AtRest
  /\ sock # "none"
  /\ \/ client' = [client EXCEPT !.inIdle = TRUE]
     \/ client' = [client EXCEPT !.outIdle = TRUE]
  /\ client' # client
  /\ UNCHANGED <<buffer, nextMsgId, read, wrote, sock, rx, air, session, pending, begun,
                 botVars, worldVars>>

\* The power supply is taken away, and comes back.
PowerCut ==
  /\ buffer' = [i \in DOMAIN buffer |-> 0] /\ nextMsgId' = 0
  /\ read' = Idle
  /\ client' = [pingOutstanding |-> FALSE, inIdle |-> FALSE, outIdle |-> FALSE]
  /\ stop /\ wrote' = <<>>
  /\ CosmState' = "CosmDisconnected"
  /\ LastApprovalId' = <<>> /\ due' = <<>>
  /\ UNCHANGED worldVars

World == \/ Arrive \/ PassOn \/ ServerPings \/ ServerCloses \/ ConnectionLost
         \/ KeepaliveRunsOut \/ PowerCut

Next == Program \/ World

Spec == Init /\ [][Next]_vars

\* loop() goes on, and the network delivers.
FairSpec == Spec /\ WF_vars(Program) /\ WF_vars(Arrive)

-----------------------------------------------------------------------------
\* InStep: between two calls the bytes that are unread or on their way are whole
\* packets, those that have not been dealt with: whatever its length, a packet is
\* read to its end and not further, fits it or not, and nothing is stored behind
\* the end of the buffer (PubSubClient.cpp:122-146).  Of a connection that has
\* been cut, a part is left.
InStep ==
  /\ read.at = "body" => read.len <= MQTT_MAX_PACKET_SIZE
  /\ read.at \in {"rest", "wait", "available", "callback", "publish"} =>
       LET unread == rx \o Concat(air)
           packets == Concat(Segments(pending))
       IN  IF session \in {"connected", "subscribed"} THEN unread = packets
           ELSE IsPrefix(unread, packets)

\* HandsOn: callback is called for every value of the feed that fits into the
\* buffer, retained or not, and for nothing else, and what it stores is that
\* value, although its reply is put together where the value lies
\* (PubSubClient.cpp:166-180, 199-217, wifi.ino:297-311).
HandsOn ==
  /\ read.at = "callback" => due # <<>>
  /\ read.at = "publish" => due = <<LastApprovalId>>
  /\ read.by # "callback" => due = <<>>

\* WrittenWell: what is written is a packet, with the length it says, and a
\* SUBSCRIBE has an identifier other than zero, although subscribe() puts it in
\* the wrong place (PubSubClient.cpp:266-309).
WrittenWell ==
  wrote # <<>> =>
    \/ wrote \in {<<Header(type, 0), 0>> : type \in {"PINGREQ", "PINGRESP"}}
    \/ wrote = Bytes(Packet("CONNECT", <<0, 6>> \o ConnectTail))
    \/ wrote = Bytes(Packet("PUBLISH", String(ResponseTopic) \o Reply))
    \/ \E id \in (Byte \X Byte) \ {<<0, 0>>} :
         wrote = Bytes([type |-> "SUBSCRIBE", flag |-> 1,
                        body |-> id \o String(FeedTopic) \o <<0>>])

\* ReadEnds: a packet that has begun to arrive is read, unless the connection is
\* cut: only then readByte() waits for ever, and everything with it
\* (PubSubClient.cpp:117-146).
Reading == read.at \in {"header", "digit", "body"}
ReadEnds == Reading ~> (~Reading \/ session \in {"none", "lost"})

-----------------------------------------------------------------------------
(* The same in packets: a packet is in the inbox from its first byte on.   *)

Told(p) == IF p.type # "PUBLISH" THEN [type |-> p.type]
           ELSE [type |-> "PUBLISH", code |-> Payload(p)]
Connack(p) == IF p = REFUSED THEN [type |-> "REFUSED"] ELSE Told(p)
AsPackets(packets) == [i \in DOMAIN packets |-> Connack(packets[i])]
Inbox == AsPackets(SubSeq(pending, 1, begun))
Wire == AsPackets(SubSeq(pending, begun + 1, Len(pending)))

Whole == INSTANCE PubSubClient WITH client <- client, sock <- sock,
           session <- session, inbox <- Inbox, wire <- Wire

\* A packet too long for the buffer, or one of a type that nobody waits for.
Passed == /\ Inbox # <<>>
          /\ Inbox' = Tail(Inbox)
          /\ UNCHANGED <<client, sock, session, Wire>>

Pinged == /\ Wire' = Append(Wire, [type |-> "PINGREQ"])
          /\ UNCHANGED <<client, sock, session, Inbox>>

packetVars == <<client, sock, session, Inbox, Wire>>

WholeStep ==
  \/ \E answer \in {"CONNACK", "REFUSED"} : Whole!connectOpens(answer)
  \/ Whole!connectAccepted \/ Whole!connectGivesUp
  \/ Whole!subscribe(feed) \/ Whole!publish
  \/ Whole!loopDisconnected \/ Whole!loopPing
  \/ \E type \in {"SUBACK", "PINGREQ", "PINGRESP", "PUBLISH"} : Whole!loopRead(type)
  \/ Passed
  \/ Whole!Arrive \/ (\E value \in Values : Whole!PassOn(value))
  \/ Whole!ServerCloses \/ Whole!ConnectionLost
  \/ Whole!KeepaliveRunsOut \/ Whole!ClientPowerOn
  \/ Pinged

\* WholePackets: seen from BeerBotTask, packets come whole: each step of the
\* library is one of the steps of PubSubClient.tla, which the specifications of
\* the internet channel are built from, or no step.
WholePackets == Whole!ClientStart /\ [][WholeStep]_packetVars

\* TooLongIsIgnored: a packet longer than the buffer "will ... be ignored"
\* (PubSubClient.cpp:141).
TooLongIsIgnored ==
  [][(Dispatch /\ ~Fits(Head(pending))) =>
       UNCHANGED <<client.pingOutstanding, wrote>> /\ read' = Idle]_vars
=============================================================================
