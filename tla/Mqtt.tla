-------------------------------- MODULE Mqtt --------------------------------
(***************************************************************************)
(* PubSubClient.cpp byte by byte, over the socket of the WiFi shield.      *)
(*                                                                         *)
(* There is one buffer.  Packets are read into it, a byte at a time and as *)
(* they arrive, and packets to be written are put together in it, also by  *)
(* the callback, whose payload still lies in it.                           *)
(*                                                                         *)
(* A byte holds two digits to the base Base (128 in the code, so that a    *)
(* length needs a second byte from Base on); a header byte is a packet     *)
(* type and one flag.  PubSubClient.tla is the same library in packets.    *)
(***************************************************************************)
EXTENDS Integers, SequencesExt

CONSTANTS
  Base,                  \* 128 in the code
  MQTT_MAX_PACKET_SIZE,  \* length of buffer
  ConnectTail,           \* what CONNECT says after its first two bytes
  FeedTopic, ResponseTopic,
  Reply                  \* what callback publishes

ASSUME MqttAssumption ==
  /\ Base \in Nat /\ Base >= 16
  /\ MQTT_MAX_PACKET_SIZE \in 11 .. Base + 2
  /\ \A s \in {ConnectTail, FeedTopic, ResponseTopic, Reply} :
       s \in Seq(0 .. 2 * Base - 1)
  /\ 7 + Len(ConnectTail) <= MQTT_MAX_PACKET_SIZE
  /\ 10 + Len(FeedTopic) <= MQTT_MAX_PACKET_SIZE
  /\ 7 + Len(ResponseTopic) + Len(Reply) <= MQTT_MAX_PACKET_SIZE

VARIABLES
  buffer,       \* the buffer of the library
  nextMsgId,    \* and its counter of SUBSCRIBE packets
  read,         \* the call in progress, and readPacket's local variables
  client,       \* pingOutstanding, and the two times as in PubSubClient.tla
  sock,         \* the socket as ServerDrv::getClientState reports it
  rx,           \* bytes that available() sees
  air,          \* external: what is left on its way to the bot, of each packet
  session,      \* external: what the server knows of this connection
  pending,      \* history: packets sent to the bot and not yet dealt with
  begun,        \* history: how many of them have begun to arrive
  wrote         \* history: the last packet written

mqttVars == <<buffer, nextMsgId, read, client, sock, rx, air, session, pending, begun, wrote>>

Byte == 0 .. 2 * Base - 1

-----------------------------------------------------------------------------
(* Packets as the protocol has them.                                       *)

Code == [CONNECT |-> 1, CONNACK |-> 2, PUBLISH |-> 3, SUBSCRIBE |-> 8,
         SUBACK |-> 9, PINGREQ |-> 12, PINGRESP |-> 13]

Header(type, flag) == 2 * Code[type] + flag
TypeOf(header) == header \div 2

String(s) == <<Len(s) \div (2 * Base), Len(s) % (2 * Base)>> \o s

\* Seven bits (one digit) per byte, the lowest first; a flag on all but the last.
LengthField(n) == IF n < Base THEN <<n>> ELSE <<(n % Base) + Base, n \div Base>>

Packet(type, body) == [type |-> type, flag |-> 0, body |-> body]

CONNACK == Packet("CONNACK", <<0, 0>>)
REFUSED == Packet("CONNACK", <<0, 5>>)
SUBACK == Packet("SUBACK", <<0, 6, 0>>)
Feed(value, retained) == [type |-> "PUBLISH", flag |-> retained,
                          body |-> String(FeedTopic) \o value]

Payload(p) == SubSeq(p.body, 3 + Len(FeedTopic), Len(p.body))

Bytes(p) == <<Header(p.type, p.flag)>> \o LengthField(Len(p.body)) \o p.body

Concat(seqs) ==
  LET upTo[i \in 0 .. Len(seqs)] == IF i = 0 THEN <<>> ELSE upTo[i - 1] \o seqs[i]
  IN  upTo[Len(seqs)]

Segments(packets) == [i \in DOMAIN packets |-> Bytes(packets[i])]

-----------------------------------------------------------------------------
(* The buffer.                                                             *)

\* The bytes of s from position at on.
Put(b, at, s) == [i \in DOMAIN b |-> IF i - at + 1 \in DOMAIN s THEN s[i - at + 1]
                                     ELSE b[i]]

Slice(at, n) == [i \in 1 .. n |-> buffer[at + i - 1]]

writeString(s, b, pos) == Put(b, pos, String(s))

\* The packet's body is in b from position 5 on; its header goes in before it.
Headed(b, header, length) ==
  LET field == LengthField(length % (2 * Base))
  IN  Put(b, 4 - Len(field), <<header>> \o field)

Start(length) == 4 - Len(LengthField(length % (2 * Base)))

\* write(): sent is what is given to _client->write.
write(b, header, length) ==
  /\ buffer' = Headed(b, header, length)
  /\ wrote' = [i \in 1 .. 5 + length - Start(length) |->
                 buffer'[Start(length) + i - 1]]

writeTwo(header) ==
  /\ buffer' = Put(buffer, 0, <<header, 0>>)
  /\ wrote' = <<header, 0>>

-----------------------------------------------------------------------------
(* The socket and the server.                                              *)

Idle == [by |-> "none", at |-> "rest"]

AtRest == read.at = "rest"

\* WiFiClient::connected().
connected == sock = "open" \/ (sock = "closeWait" /\ rx # <<>>)

stop ==
  /\ sock' = "none"
  /\ rx' = <<>>
  /\ air' = <<>>
  /\ session' = "none"
  /\ pending' = <<>> /\ begun' = 0

Reached == sock = "open" /\ session # "lost"

Sent(packets) ==
  /\ air' = air \o Segments(packets)
  /\ pending' = pending \o packets
  /\ UNCHANGED begun

NothingSent == UNCHANGED <<air, pending, begun>>

-----------------------------------------------------------------------------
(* connect()                                                               *)

\* Mutant: room is left as for a message identifier.
connectOpensRoomy(answer) ==
  /\ AtRest /\ ~connected
  /\ nextMsgId' = 1
  /\ write(Put(buffer, 7, <<0, 6>> \o ConnectTail), Header("CONNECT", 0),
           2 + Len(ConnectTail))
  /\ sock' = "open" /\ rx' = <<>>
  /\ session' = "connected"
  /\ air' = <<Bytes(answer)>> /\ pending' = <<answer>> /\ begun' = 0
  /\ client' = [client EXCEPT !.inIdle = FALSE, !.outIdle = FALSE]
  /\ read' = [by |-> "connect", at |-> "wait"]

\* The socket is opened and CONNECT written, the server answers.
connectOpens(answer) ==
  /\ AtRest /\ ~connected
  /\ nextMsgId' = 1
  /\ write(Put(buffer, 5, <<0, 6>> \o ConnectTail), Header("CONNECT", 0),
           2 + Len(ConnectTail))
  /\ sock' = "open" /\ rx' = <<>>
  /\ session' = "connected"
  /\ air' = <<Bytes(answer)>> /\ pending' = <<answer>> /\ begun' = 0
  /\ client' = [client EXCEPT !.inIdle = FALSE, !.outIdle = FALSE]
  /\ read' = [by |-> "connect", at |-> "wait"]

\* The socket cannot be opened.
connectFails ==
  /\ AtRest /\ ~connected
  /\ stop
  /\ UNCHANGED <<buffer, nextMsgId, read, client, wrote>>

\* Nothing has come within MQTT_KEEPALIVE.
connectTimesOut ==
  /\ read.at = "wait" /\ rx = <<>>
  /\ stop
  /\ read' = Idle
  /\ UNCHANGED <<buffer, nextMsgId, client, wrote>>

-----------------------------------------------------------------------------
(* readPacket(), one readByte() per step, which waits for a byte.          *)

reads == <<nextMsgId, client, sock, air, session, pending, begun, wrote>>

readPacket(caller) ==
  [by |-> caller, at |-> "header", len |-> 0, length |-> 0, multiplier |-> 1, i |-> 0]

\* connect() finds the answer available.
connectReads ==
  /\ read.at = "wait" /\ rx # <<>>
  /\ read' = readPacket("connect")
  /\ UNCHANGED <<buffer, rx, reads>>

readHeader ==
  /\ read.at = "header" /\ rx # <<>>
  /\ rx' = Tail(rx)
  /\ buffer' = Put(buffer, read.len, <<Head(rx)>>)
  /\ read' = [read EXCEPT !.at = "digit", !.len = @ + 1]
  /\ UNCHANGED reads

\* Where the for loop goes after i bytes of length.
Body(i, length) == IF i < length THEN "body" ELSE "done"

\* multiplier is a uint8_t, that is one byte.
readDigit ==
  /\ read.at = "digit" /\ rx # <<>>
  /\ rx' = Tail(rx)
  /\ buffer' = Put(buffer, read.len, <<Head(rx)>>)
  /\ LET length == read.length + (Head(rx) % Base) * read.multiplier
     IN  read' = [read EXCEPT
           !.at = IF Head(rx) >= Base THEN "digit" ELSE Body(0, length),
           !.len = @ + 1, !.length = length,
           !.multiplier = (@ * Base) % (2 * Base)]
  /\ UNCHANGED reads

\* Mutant: the loop ends when i is greater than length.
readBodyLong ==
  /\ read.at = "body" /\ rx # <<>>
  /\ rx' = Tail(rx)
  /\ IF read.len < MQTT_MAX_PACKET_SIZE
     THEN /\ buffer' = Put(buffer, read.len, <<Head(rx)>>)
          /\ read' = [read EXCEPT !.len = @ + 1, !.i = @ + 1,
                                  !.at = Body(read.i, read.length)]
     ELSE /\ buffer' = buffer
          /\ read' = [read EXCEPT !.len = 0, !.i = @ + 1,
                                  !.at = Body(read.i, read.length)]
  /\ UNCHANGED reads

\* Mutant: there is room for one byte more.
readBodyFull ==
  /\ read.at = "body" /\ rx # <<>>
  /\ rx' = Tail(rx)
  /\ IF read.len <= MQTT_MAX_PACKET_SIZE
     THEN /\ buffer' = Put(buffer, read.len, <<Head(rx)>>)
          /\ read' = [read EXCEPT !.len = @ + 1, !.i = @ + 1,
                                  !.at = Body(read.i + 1, read.length)]
     ELSE /\ buffer' = buffer
          /\ read' = [read EXCEPT !.len = 0, !.i = @ + 1,
                                  !.at = Body(read.i + 1, read.length)]
  /\ UNCHANGED reads

\* When the buffer is full a byte is dropped and len starts again at zero.
readBody ==
  /\ read.at = "body" /\ rx # <<>>
  /\ rx' = Tail(rx)
  /\ IF read.len < MQTT_MAX_PACKET_SIZE
     THEN /\ buffer' = Put(buffer, read.len, <<Head(rx)>>)
          /\ read' = [read EXCEPT !.len = @ + 1, !.i = @ + 1,
                                  !.at = Body(read.i + 1, read.length)]
     ELSE /\ buffer' = buffer
          /\ read' = [read EXCEPT !.len = 0, !.i = @ + 1,
                                  !.at = Body(read.i + 1, read.length)]
  /\ UNCHANGED reads

-----------------------------------------------------------------------------
(* What is done with the packet: connect() and loop().                     *)

Done(caller) == read.at = "done" /\ read.by = caller

dealtWith == pending' = Tail(pending) /\ begun' = begun - 1

connectAccepted ==
  /\ Done("connect")
  /\ read.len = 4 /\ buffer[3] = 0
  /\ client' = [client EXCEPT !.inIdle = FALSE, !.pingOutstanding = FALSE]
  /\ read' = Idle
  /\ dealtWith
  /\ UNCHANGED <<buffer, nextMsgId, sock, rx, air, session, wrote>>

connectGivesUp ==
  /\ Done("connect")
  /\ ~(read.len = 4 /\ buffer[3] = 0)
  /\ stop
  /\ read' = Idle
  /\ UNCHANGED <<buffer, nextMsgId, client, wrote>>

loopTypes == {"PUBLISH", "PINGREQ", "PINGRESP"}

\* len = 0, or a type that loop() has no use for.
loopSkips ==
  /\ Done("loop")
  /\ read.len > 0 => \A type \in loopTypes : TypeOf(buffer[0]) # Code[type]
  /\ client' = IF read.len > 0 THEN [client EXCEPT !.inIdle = FALSE] ELSE client
  /\ read' = Idle
  /\ dealtWith
  /\ UNCHANGED <<buffer, nextMsgId, sock, rx, air, session, wrote>>

loopPongs ==
  /\ Done("loop")
  /\ read.len > 0 /\ TypeOf(buffer[0]) = Code["PINGRESP"]
  /\ client' = [client EXCEPT !.inIdle = FALSE, !.pingOutstanding = FALSE]
  /\ read' = Idle
  /\ dealtWith
  /\ UNCHANGED <<buffer, nextMsgId, sock, rx, air, session, wrote>>

\* Mutant: a ping of the server is taken for an answer to the bot's.
loopAnswersPingAndPong ==
  /\ Done("loop")
  /\ read.len > 0 /\ TypeOf(buffer[0]) = Code["PINGREQ"]
  /\ writeTwo(Header("PINGRESP", 0))
  /\ client' = [client EXCEPT !.inIdle = FALSE, !.pingOutstanding = FALSE]
  /\ read' = Idle
  /\ dealtWith
  /\ UNCHANGED <<nextMsgId, sock, rx, air, session>>

\* The server takes the answer to its ping.
loopAnswersPing ==
  /\ Done("loop")
  /\ read.len > 0 /\ TypeOf(buffer[0]) = Code["PINGREQ"]
  /\ writeTwo(Header("PINGRESP", 0))
  /\ client' = [client EXCEPT !.inIdle = FALSE]
  /\ read' = Idle
  /\ dealtWith
  /\ UNCHANGED <<nextMsgId, sock, rx, air, session>>

\* tl, and where callback finds its payload.
TopicLength == buffer[2] * 2 * Base + buffer[3]

loopCalls ==
  /\ Done("loop")
  /\ read.len > 0 /\ TypeOf(buffer[0]) = Code["PUBLISH"]
  /\ client' = [client EXCEPT !.inIdle = FALSE]
  /\ read' = [by |-> "callback", at |-> "callback", payload |-> 4 + TopicLength,
              length |-> read.len - 4 - TopicLength]
  /\ dealtWith
  /\ UNCHANGED <<buffer, nextMsgId, sock, rx, air, session, wrote>>

-----------------------------------------------------------------------------
(* The other calls.                                                        *)

KeepaliveOver == client.inIdle \/ client.outIdle

loopDisconnected ==
  /\ AtRest
  /\ ~connected \/ (KeepaliveOver /\ client.pingOutstanding)
  /\ stop
  /\ UNCHANGED <<buffer, nextMsgId, read, client, wrote>>

loopPing ==
  /\ AtRest /\ connected
  /\ KeepaliveOver /\ ~client.pingOutstanding
  /\ writeTwo(Header("PINGREQ", 0))
  /\ IF Reached THEN Sent(<<Packet("PINGRESP", <<>>)>>) ELSE NothingSent
  /\ client' = [pingOutstanding |-> TRUE, inIdle |-> FALSE, outIdle |-> FALSE]
  /\ read' = [by |-> "loop", at |-> "available"]
  /\ UNCHANGED <<nextMsgId, sock, rx, session>>

\* The keepalive is not over, or the ping is written: is there anything to read?
loopLooks ==
  /\ \/ AtRest /\ connected /\ ~KeepaliveOver
     \/ read.at = "available"
  /\ read' = IF rx # <<>> THEN readPacket("loop") ELSE Idle
  /\ UNCHANGED <<buffer, rx, reads>>

\* The identifier goes to the beginning of the buffer, not into the packet,
\* which has whatever is in its place.  delivered: the server gets the packet,
\* and sends the value of the feed.
subscribe(delivered, value) ==
  /\ AtRest /\ connected
  /\ nextMsgId' = IF nextMsgId + 1 = 4 * Base * Base THEN 1 ELSE nextMsgId + 1
  /\ LET id == <<nextMsgId' \div (2 * Base), nextMsgId' % (2 * Base)>>
         topic == writeString(FeedTopic, Put(buffer, 0, id), 7)
     IN  write(Put(topic, 9 + Len(FeedTopic), <<0>>), Header("SUBSCRIBE", 1),
               5 + Len(FeedTopic))
  /\ \/ /\ delivered /\ Reached
        /\ session' = "subscribed"
        /\ Sent(<<SUBACK, Feed(value, 1)>>)
     \/ ~delivered /\ UNCHANGED session /\ NothingSent
  /\ client' = [client EXCEPT !.outIdle = FALSE]
  /\ UNCHANGED <<read, sock, rx>>

\* publish() by the callback; loop() then returns true.
publish ==
  /\ read.at = "publish"
  /\ read' = Idle
  /\ IF connected
     THEN /\ write(Put(writeString(ResponseTopic, buffer, 5),
                       7 + Len(ResponseTopic), Reply),
                   Header("PUBLISH", 0), 2 + Len(ResponseTopic) + Len(Reply))
          /\ client' = [client EXCEPT !.outIdle = FALSE]
          /\ UNCHANGED <<nextMsgId, sock, rx, air, session, pending, begun>>
     ELSE stop /\ UNCHANGED <<buffer, nextMsgId, client, wrote>>

\* connected() where the caller is told that it is not.
connectedNot ==
  /\ AtRest /\ ~connected
  /\ stop
  /\ UNCHANGED <<buffer, nextMsgId, read, client, wrote>>

MqttInit ==
  /\ buffer = [i \in 0 .. MQTT_MAX_PACKET_SIZE - 1 |-> 0]
  /\ nextMsgId = 0
  /\ read = Idle
  /\ client = [pingOutstanding |-> FALSE, inIdle |-> FALSE, outIdle |-> FALSE]
  /\ sock = "none" /\ rx = <<>> /\ air = <<>> /\ session = "none"
  /\ pending = <<>> /\ begun = 0
  /\ wrote = <<>>
=============================================================================
