---------------------------- MODULE PubSubClient ----------------------------
(***************************************************************************)
(* The MQTT client library as the bot uses it, the socket of the WiFi      *)
(* shield under it, and the server at the other end.                       *)
(*                                                                         *)
(* Packets are whole: readPacket, which waits for the rest of a packet,    *)
(* finds it.  The server takes a packet in the moment it is written; what  *)
(* it sends back is on the wire until it arrives in the socket's buffer.   *)
(* Time appears in two flags, "more than MQTT_KEEPALIVE since the last     *)
(* activity", one per direction.                                           *)
(***************************************************************************)
EXTENDS Naturals, Sequences

VARIABLES client,   \* the globals of the library: pingOutstanding and the flags
          sock,     \* the socket as ServerDrv::getClientState reports it
          inbox,    \* packets that available() sees
          wire,     \* external: packets on their way to the bot
          session   \* external: what the server knows of this connection

clientVars == <<client, sock, inbox, wire, session>>

-----------------------------------------------------------------------------
\* "none" is _sock = 255, "closeWait" a connection the server has closed.
SocketStates == {"none", "open", "closeWait", "closed"}

\* "lost" is a connection on which nothing gets through any more.
Sessions == {"none", "connected", "subscribed", "lost"}

Packet(type) == [type |-> type]
Feed(code) == [type |-> "PUBLISH", code |-> code]

ClientInit == [pingOutstanding |-> FALSE, inIdle |-> FALSE, outIdle |-> FALSE]

\* A socket the server has closed counts as connected while data is unread.
connected == sock = "open" \/ (sock = "closeWait" /\ inbox # <<>>)

\* _client->stop(), also made by every call of connected() that returns false.
stop ==
  /\ sock' = "none"
  /\ inbox' = <<>>
  /\ wire' = <<>>
  /\ session' = "none"

\* The answer to a packet written now, if the server gets it.
Reached == sock = "open" /\ session # "lost"
Answer(packets) == wire' = IF Reached THEN wire \o packets ELSE wire

-----------------------------------------------------------------------------
(* connect(): the socket is opened, CONNECT written, the answer waited for.*)

\* answer is "CONNACK", or "REFUSED" for any other packet or return code.
connectOpens(answer) ==
  /\ ~connected
  /\ sock' = "open"
  /\ inbox' = <<>>
  /\ wire' = <<Packet(answer)>>
  /\ session' = "connected"
  /\ client' = [client EXCEPT !.inIdle = FALSE, !.outIdle = FALSE]

connectAccepted ==
  /\ inbox # <<>>
  /\ Head(inbox).type = "CONNACK"
  /\ inbox' = Tail(inbox)
  /\ client' = [client EXCEPT !.inIdle = FALSE, !.pingOutstanding = FALSE]
  /\ UNCHANGED <<sock, wire, session>>

\* Another answer, or none within MQTT_KEEPALIVE.
connectGivesUp ==
  /\ inbox # <<>> => Head(inbox).type # "CONNACK"
  /\ stop
  /\ UNCHANGED client

-----------------------------------------------------------------------------
\* subscribe(), when the packet can be written.  The server answers and sends
\* the last value of the feed.
subscribe(feed) ==
  /\ connected
  /\ Answer(<<Packet("SUBACK"), Feed(feed)>>)
  /\ session' = IF Reached THEN "subscribed" ELSE session
  /\ client' = [client EXCEPT !.outIdle = FALSE]
  /\ UNCHANGED <<sock, inbox>>

\* Not connected any more, or the packet could not be written; the time of the
\* last write is set all the same.
subscribeFails ==
  IF connected
  THEN /\ client' = [client EXCEPT !.outIdle = FALSE]
       /\ UNCHANGED <<sock, inbox, wire, session>>
  ELSE stop /\ UNCHANGED client

\* publish() on the response feed, which the bot has not subscribed to.
publish ==
  IF connected
  THEN /\ client' = [client EXCEPT !.outIdle = FALSE]
       /\ UNCHANGED <<sock, inbox, wire, session>>
  ELSE stop /\ UNCHANGED client

-----------------------------------------------------------------------------
(* loop(): the keepalive is looked at before the data that has arrived.    *)

\* Mutant: the times of the last packets are not looked at.
KeepaliveOverNever == FALSE

KeepaliveOver == client.inIdle \/ client.outIdle

loopDisconnected ==
  /\ ~connected \/ (KeepaliveOver /\ client.pingOutstanding)
  /\ stop
  /\ UNCHANGED client

loopPing ==
  /\ connected
  /\ KeepaliveOver
  /\ ~client.pingOutstanding
  /\ Answer(<<Packet("PINGRESP")>>)
  /\ client' = [pingOutstanding |-> TRUE, inIdle |-> FALSE, outIdle |-> FALSE]
  /\ UNCHANGED <<sock, inbox, session>>

\* One packet is read per call; only the feed's values reach the callback.
loopRead(type) ==
  /\ inbox # <<>>
  /\ Head(inbox).type = type
  /\ inbox' = Tail(inbox)
  /\ client' = [client EXCEPT !.inIdle = FALSE,
                              !.pingOutstanding = @ /\ type # "PINGRESP"]
  /\ UNCHANGED <<sock, wire, session>>

-----------------------------------------------------------------------------
(* The network and the server.                                             *)

Arrive ==
  /\ wire # <<>>
  /\ sock = "open"
  /\ inbox' = Append(inbox, Head(wire))
  /\ wire' = Tail(wire)
  /\ UNCHANGED <<client, sock, session>>

\* Someone publishes a value; the server passes it on to its subscribers.
PassOn(code) ==
  /\ wire' = IF sock = "open" /\ session = "subscribed"
             THEN Append(wire, Feed(code)) ELSE wire
  /\ UNCHANGED <<client, sock, inbox, session>>

\* The server closes the connection.
ServerCloses ==
  /\ sock = "open"
  /\ session \in {"connected", "subscribed"}
  /\ sock' = "closeWait"
  /\ wire' = <<>>
  /\ session' = "none"
  /\ UNCHANGED <<client, inbox>>

\* The connection is lost without either side being told.
ConnectionLost ==
  /\ wire' = <<>>
  /\ session' = IF sock = "open" THEN "lost" ELSE session
  /\ UNCHANGED <<client, sock, inbox>>

\* On a connection only: connect() starts the counting again.
KeepaliveRunsOut ==
  /\ sock # "none"
  /\ \/ client' = [client EXCEPT !.inIdle = TRUE]
     \/ client' = [client EXCEPT !.outIdle = TRUE]
  /\ client' # client
  /\ UNCHANGED <<sock, inbox, wire, session>>

ClientStart ==
  /\ client = ClientInit
  /\ sock = "none"
  /\ inbox = <<>>
  /\ wire = <<>>
  /\ session = "none"

ClientPowerOn == client' = ClientInit /\ stop
=============================================================================
