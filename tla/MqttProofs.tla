----------------------------- MODULE MqttProofs -----------------------------
(***************************************************************************)
(* Theorems about the MQTT client in bytes: for every size of the buffer,  *)
(* every set of published values and any number of them, and any number of *)
(* failures.                                                               *)
(***************************************************************************)
EXTENDS MqttLemmas

-----------------------------------------------------------------------------
(* The bytes between the server and the program.                           *)

Alive == session \in {"connected", "subscribed"}

OnTheWay(rest, coming) == IF rest = <<>> THEN Segments(coming) ELSE <<rest>> \o Segments(coming)

\* The packet that is being read (open), of which left is to be read, those that
\* have begun to arrive behind it, those to come; rest is what is to come of the
\* last of those that have begun to arrive.
Stream(open, left, behind, coming, rest) ==
  /\ open \in Seq(Sendable) /\ left \in Seq(Byte)
  /\ behind \in Seq(Sendable) /\ coming \in Seq(Sendable) /\ rest \in Seq(Byte)
  /\ rx \in Seq(Byte)
  /\ pending = open \o behind \o coming
  /\ begun = Len(open) + Len(behind)
  /\ rx \o rest = left \o BytesOf(behind)
  /\ behind # <<>> => Len(rest) < Len(Bytes(behind[Len(behind)]))
  /\ IF Alive THEN air = OnTheWay(rest, coming) ELSE air = <<>> /\ coming = <<>>

LEMMA StreamSame ==
  ASSUME NEW open, NEW left, NEW behind, NEW coming, NEW rest,
         Stream(open, left, behind, coming, rest),
         UNCHANGED <<rx, air, pending, begun>>, Alive' = Alive
  PROVE  Stream(open, left, behind, coming, rest)'
  BY DEF Stream

LEMMA StreamSends ==
  ASSUME NEW open, NEW left, NEW behind, NEW coming, NEW rest,
         Stream(open, left, behind, coming, rest),
         NEW packets \in Seq(Sendable), Alive, Alive', Sent(packets), rx' = rx
  PROVE  Stream(open, left, behind, coming \o packets, rest)'
<1>1. /\ open \in Seq(Sendable) /\ behind \in Seq(Sendable) /\ coming \in Seq(Sendable)
      /\ rest \in Seq(Byte) /\ air = OnTheWay(rest, coming) /\ pending = open \o behind \o coming
  BY DEF Stream
<1>2. coming \o packets \in Seq(Sendable)
  BY <1>1, ConcatProperties
<1>3. pending' = open \o behind \o (coming \o packets)
  <2>1. open \o behind \in Seq(Sendable)
    BY <1>1, ConcatProperties
  <2>2. pending' = ((open \o behind) \o coming) \o packets
    BY <1>1 DEF Sent
  <2> QED
    BY <1>1, <2>1, <2>2, ConcatAssociative
<1>4. air' = OnTheWay(rest, coming \o packets)
  <2>1. air' = air \o Segments(packets)
    BY DEF Sent
  <2>2. Segments(coming \o packets) = Segments(coming) \o Segments(packets)
    BY <1>1, SegmentsBoth
  <2>3. Segments(coming) \in Seq(Seq(Byte)) /\ Segments(packets) \in Seq(Seq(Byte))
    BY <1>1, SegmentsFacts
  <2>4. CASE rest = <<>>
    BY <1>1, <2>1, <2>2, <2>4 DEF OnTheWay
  <2>5. CASE rest # <<>>
    <3>1. <<rest>> \in Seq(Seq(Byte))
      BY <1>1
    <3>2. (<<rest>> \o Segments(coming)) \o Segments(packets)
            = <<rest>> \o (Segments(coming) \o Segments(packets))
      BY <2>3, <3>1, ConcatAssociative
    <3> QED
      BY <1>1, <2>1, <2>2, <2>5, <3>2 DEF OnTheWay
  <2> QED
    BY <2>4, <2>5
<1> QED
  BY <1>2, <1>3, <1>4 DEF Stream, Sent

LEMMA StreamPackets ==
  ASSUME NEW open, NEW left, NEW behind, NEW coming, NEW rest,
         Stream(open, left, behind, coming, rest)
  PROVE  /\ SubSeq(pending, 1, begun) = open \o behind
         /\ SubSeq(pending, begun + 1, Len(pending)) = coming
         /\ open \o behind \in Seq(Sendable) /\ Len(open \o behind) = begun
         /\ begun \in Nat /\ Len(pending) = begun + Len(coming)
         /\ pending \in Seq(Sendable)
<1>1. /\ open \in Seq(Sendable) /\ behind \in Seq(Sendable) /\ coming \in Seq(Sendable)
      /\ pending = open \o behind \o coming /\ begun = Len(open) + Len(behind)
  BY DEF Stream
<1>2. PICK b \in Seq(Sendable), m \in Nat, n \in Nat :
        b = open \o behind /\ m = Len(b) /\ n = Len(coming) /\ begun = m
  <2>1. open \o behind \in Seq(Sendable) /\ Len(open \o behind) = Len(open) + Len(behind)
    BY <1>1, ConcatProperties
  <2> QED
    BY <1>1, <2>1, LenProperties
<1>3. PICK u \in Seq(Sendable) : u = b \o coming /\ Len(u) = m + n /\ pending = u
  BY <1>1, <1>2, ConcatProperties
<1>4. \A i \in 1 .. m + n : u[i] = IF i <= m THEN b[i] ELSE coming[i - m]
  BY <1>2, <1>3, ConcatProperties
<1>5. SubSeq(u, 1, m) = b
  BY <1>2, <1>3, <1>4
<1>6. SubSeq(u, m + 1, m + n) = coming
  <2>1. /\ SubSeq(u, m + 1, m + n) \in Seq(Sendable) /\ Len(SubSeq(u, m + 1, m + n)) = n
        /\ \A i \in 1 .. n : SubSeq(u, m + 1, m + n)[i] = u[m + i]
    BY <1>2, <1>3
  <2>2. ASSUME NEW i \in 1 .. n PROVE u[m + i] = coming[i]
    <3>1. m + i \in 1 .. m + n /\ ~(m + i <= m) /\ (m + i) - m = i
      OBVIOUS
    <3> QED
      BY <1>4, <3>1
  <2> QED
    <3>1. PICK v \in Seq(Sendable) : v = SubSeq(u, m + 1, m + n)
      BY <2>1
    <3>2. Len(v) = n /\ \A i \in 1 .. n : v[i] = coming[i]
      BY <2>1, <2>2, <3>1
    <3> QED
      BY <1>1, <1>2, <3>1, <3>2, SeqEqual
<1> QED
  BY <1>1, <1>2, <1>3, <1>5, <1>6

LEMMA StreamArrives ==
  ASSUME NEW open, NEW left, NEW behind, NEW coming, NEW rest,
         Stream(open, left, behind, coming, rest), Arrive
  PROVE  \/ /\ begun' = begun
            /\ \E r : Stream(open, left, behind, coming, r)'
         \/ /\ begun' = begun + 1
            /\ \E c \in Sendable, later \in Seq(Sendable) : \E r :
                 /\ coming = <<c>> \o later
                 /\ Stream(open, left, behind \o <<c>>, later, r)'
<1>1. /\ open \in Seq(Sendable) /\ behind \in Seq(Sendable) /\ coming \in Seq(Sendable)
      /\ rest \in Seq(Byte) /\ rx \in Seq(Byte) /\ left \in Seq(Byte)
      /\ pending = open \o behind \o coming /\ begun = Len(open) + Len(behind)
      /\ rx \o rest = left \o BytesOf(behind)
  BY DEF Stream
<1>2. /\ Alive /\ air = OnTheWay(rest, coming) /\ air # <<>>
      /\ rx' = Append(rx, Head(Head(air)))
      /\ air' = IF Len(Head(air)) = 1 THEN Tail(air) ELSE <<Tail(Head(air))>> \o Tail(air)
      /\ begun' = IF begun + Len(air) = Len(pending) THEN begun + 1 ELSE begun
      /\ pending' = pending /\ Alive' = Alive
  BY DEF Stream, Arrive, Alive
<1>3. begun \in Nat /\ Len(pending) = begun + Len(coming) /\ Len(coming) \in Nat
  BY <1>1, StreamPackets
<1>4. Segments(coming) \in Seq(Seq(Byte)) /\ Len(Segments(coming)) = Len(coming)
  BY <1>1, SegmentsFacts
\* One more byte of x, which is under way.
<1>5. ASSUME NEW x \in Seq(Byte), x # <<>>, NEW later \in Seq(Sendable),
             air = <<x>> \o Segments(later)
      PROVE  /\ rx' \in Seq(Byte) /\ Tail(x) \in Seq(Byte) /\ Len(Tail(x)) < Len(x)
             /\ rx' \o Tail(x) = rx \o x /\ air' = OnTheWay(Tail(x), later)
             /\ Len(air) = 1 + Len(later)
  <2>1. PICK s \in Seq(Seq(Byte)) : s = Segments(later) /\ Len(s) = Len(later) /\ air = <<x>> \o s
    BY <1>5, SegmentsFacts
  <2>2. Head(air) = x /\ Tail(air) = s /\ Len(air) = 1 + Len(s)
    BY <2>1
  <2>3. PICK h \in Byte, t \in Seq(Byte) :
          /\ x = <<h>> \o t /\ h = Head(x) /\ t = Tail(x)
          /\ <<h>> \in Seq(Byte) /\ Len(x) = 1 + Len(t) /\ Len(t) \in Nat
    BY <1>5, FirstOf
  <2>4. Len(x) = 1 <=> t = <<>>
    <3>1. PICK n \in Nat : n = Len(t) /\ Len(x) = 1 + n
      BY <2>3
    <3>2. n = 0 <=> t = <<>>
      BY <3>1
    <3> QED
      BY <3>1, <3>2
  <2>5. rx' = rx \o <<h>> /\ rx' \in Seq(Byte)
    <3>1. rx' = Append(rx, h)
      BY <1>2, <2>2, <2>3
    <3> QED
      BY <1>1, <3>1
  <2>6. (rx \o <<h>>) \o t = rx \o (<<h>> \o t)
    BY <1>1, <2>3, RegroupedBytes, Zenon
  <2>7. air' = OnTheWay(t, later)
    BY <1>2, <2>1, <2>2, <2>3, <2>4 DEF OnTheWay
  <2>8. Len(t) < Len(x)
    BY <2>3
  <2>9. Len(air) = 1 + Len(later)
    BY <2>1, <2>2
  <2>10. rx' \o t = rx \o x
    BY <2>3, <2>5, <2>6
  <2> QED
    BY <2>3, <2>5, <2>7, <2>8, <2>9, <2>10
<1>6. CASE rest # <<>>
  <2>1. air = <<rest>> \o Segments(coming)
    BY <1>2, <1>6 DEF OnTheWay
  <2>2. /\ rx' \in Seq(Byte) /\ Tail(rest) \in Seq(Byte) /\ Len(Tail(rest)) < Len(rest)
        /\ rx' \o Tail(rest) = rx \o rest /\ air' = OnTheWay(Tail(rest), coming)
        /\ Len(air) = 1 + Len(coming)
    BY <1>1, <1>5, <1>6, <2>1
  <2>3. begun' = begun
    BY <1>2, <1>3, <2>2
  <2>4. behind # <<>> => Len(Tail(rest)) < Len(Bytes(behind[Len(behind)]))
    <3>1. behind # <<>> => Len(rest) < Len(Bytes(behind[Len(behind)]))
      BY DEF Stream
    <3>2. behind # <<>> => Len(Bytes(behind[Len(behind)])) \in Nat
      BY <1>1, BytesOfLast, SendableBytes
    <3>3. Len(Tail(rest)) \in Nat /\ Len(rest) \in Nat
      BY <1>1, <2>2
    <3> QED
      BY <2>2, <3>1, <3>2, <3>3
  <2>5. Stream(open, left, behind, coming, Tail(rest))'
    BY <1>1, <1>2, <2>2, <2>3, <2>4 DEF Stream
  <2> QED
    BY <2>3, <2>5
<1>7. CASE rest = <<>>
  <2>1. air = Segments(coming) /\ coming # <<>>
    BY <1>2, <1>7, BytesOfNone DEF OnTheWay
  <2>2. PICK c \in Sendable, later \in Seq(Sendable) :
          coming = <<c>> \o later /\ <<c>> \in Seq(Sendable) /\ Len(coming) = 1 + Len(later)
    BY <1>1, <2>1, FirstPacket, Zenon
  <2>3. air = <<Bytes(c)>> \o Segments(later)
    BY <2>1, <2>2, SegmentsBoth, SegmentsOne
  <2>4. Bytes(c) \in Seq(Byte) /\ Bytes(c) # <<>> /\ Len(Bytes(c)) \in Nat
    BY SendableBytes
  <2>5. /\ rx' \in Seq(Byte) /\ Tail(Bytes(c)) \in Seq(Byte)
        /\ Len(Tail(Bytes(c))) < Len(Bytes(c))
        /\ rx' \o Tail(Bytes(c)) = rx \o Bytes(c) /\ air' = OnTheWay(Tail(Bytes(c)), later)
        /\ Len(air) = 1 + Len(later)
    BY <1>5, <2>3, <2>4
  <2>6. begun' = begun + 1
    BY <1>2, <1>3, <2>2, <2>5
  <2>7. /\ behind \o <<c>> \in Seq(Sendable) /\ Len(behind \o <<c>>) = Len(behind) + 1
        /\ (behind \o <<c>>)[Len(behind \o <<c>>)] = c
    BY <1>1
  <2>8. pending' = open \o (behind \o <<c>>) \o later
    <3>1. open \o behind \in Seq(Sendable)
      BY <1>1, ConcatProperties
    <3>2. (open \o behind) \o (<<c>> \o later) = ((open \o behind) \o <<c>>) \o later
      BY <2>2, <3>1, RegroupedPackets, Zenon
    <3>3. (open \o behind) \o <<c>> = open \o (behind \o <<c>>)
      BY <1>1, <2>2, RegroupedPackets, Zenon
    <3> QED
      BY <1>1, <1>2, <2>2, <3>2, <3>3
  <2>9. rx' \o Tail(Bytes(c)) = left \o BytesOf(behind \o <<c>>)
    <3>1. rx = left \o BytesOf(behind)
      BY <1>1, <1>7, ConcatEmptySeq
    <3>2. BytesOf(behind) \in Seq(Byte)
      BY <1>1, BytesOfType
    <3>3. (left \o BytesOf(behind)) \o Bytes(c) = left \o (BytesOf(behind) \o Bytes(c))
      BY <1>1, <2>4, <3>2, RegroupedBytes, Zenon
    <3>4. BytesOf(behind \o <<c>>) = BytesOf(behind) \o Bytes(c)
      BY <1>1, <2>2, BytesOfBoth, BytesOfOne
    <3> QED
      BY <2>5, <3>1, <3>3, <3>4
  <2>10. begun' = Len(open) + Len(behind \o <<c>>)
    BY <1>1, <2>6, <2>7
  <2>11. Stream(open, left, behind \o <<c>>, later, Tail(Bytes(c)))'
    BY <1>1, <1>2, <2>5, <2>7, <2>8, <2>9, <2>10 DEF Stream
  <2> QED
    BY <2>2, <2>6, <2>11
<1> QED
  BY <1>6, <1>7

LEMMA StreamCut ==
  ASSUME NEW open, NEW left, NEW behind, NEW coming, NEW rest,
         Stream(open, left, behind, coming, rest), Cut, rx' = rx, ~Alive'
  PROVE  Stream(open, left, behind, <<>>, rest)'
<1>1. SubSeq(pending, 1, begun) = open \o behind /\ open \o behind \in Seq(Sendable)
  BY StreamPackets
<1>2. pending' = open \o behind \o <<>>
  BY <1>1, ConcatEmptySeq DEF Cut
<1>3. <<>> \in Seq(Sendable)
  OBVIOUS
<1> QED
  BY <1>2, <1>3 DEF Stream, Cut

LEMMA StreamStops ==
  ASSUME stop
  PROVE  Stream(<<>>, <<>>, <<>>, <<>>, <<>>)'
<1>1. <<>> \in Seq(Sendable) /\ <<>> \in Seq(Byte) /\ Len(<<>>) = 0 /\ <<>> \o <<>> = <<>>
  OBVIOUS
<1>2. ~Alive'
  BY DEF stop, Alive
<1> QED
  BY <1>1, <1>2, BytesOfNone DEF Stream, stop

LEMMA StreamOpens ==
  ASSUME NEW answer \in Sendable, rx' = <<>>, air' = <<Bytes(answer)>>, pending' = <<answer>>,
         begun' = 0, Alive'
  PROVE  Stream(<<>>, <<>>, <<>>, <<answer>>, <<>>)'
<1>1. <<>> \in Seq(Sendable) /\ <<>> \in Seq(Byte) /\ Len(<<>>) = 0 /\ <<>> \o <<>> = <<>>
  OBVIOUS
<1>2. <<answer>> \in Seq(Sendable) /\ <<>> \o <<>> \o <<answer>> = <<answer>>
  OBVIOUS
<1>3. air' = OnTheWay(<<>>, <<answer>>)
  BY SegmentsOne DEF OnTheWay
<1> QED
  BY <1>1, <1>2, <1>3, BytesOfNone DEF Stream

\* When no packet is being read there is something to read when one has begun to
\* arrive.
LEMMA StreamBetween ==
  ASSUME NEW behind, NEW coming, NEW rest,
         Stream(<<>>, <<>>, behind, coming, rest)
  PROVE  rx # <<>> <=> behind # <<>>
<1>1. /\ behind \in Seq(Sendable) /\ rest \in Seq(Byte) /\ rx \in Seq(Byte)
      /\ rx \o rest = <<>> \o BytesOf(behind)
      /\ behind # <<>> => Len(rest) < Len(Bytes(behind[Len(behind)]))
  BY DEF Stream
<1>2. BytesOf(behind) \in Seq(Byte)
  BY <1>1, BytesOfType
<1>3. rx \o rest = BytesOf(behind)
  BY <1>1, <1>2
<1>4. CASE behind = <<>>
  <2>1. rx \o rest = <<>>
    BY <1>3, <1>4, BytesOfNone
  <2>2. rx = <<>>
    BY <1>1, <2>1
  <2> QED
    BY <1>4, <2>2
<1>5. CASE behind # <<>>
  <2>1. /\ Len(Bytes(behind[Len(behind)])) <= Len(BytesOf(behind))
        /\ Len(Bytes(behind[Len(behind)])) \in Nat
    BY <1>1, <1>5, BytesOfLast, SendableBytes
  <2>2. SUFFICES ASSUME rx = <<>> PROVE FALSE
    BY <1>5
  <2>3. rest = BytesOf(behind)
    BY <1>1, <1>3, <2>2
  <2>4. Len(rest) \in Nat /\ Len(BytesOf(behind)) \in Nat
    BY <1>1, <1>2
  <2> QED
    BY <1>1, <1>5, <2>1, <2>3, <2>4
<1> QED
  BY <1>4, <1>5

LEMMA StreamBegins ==
  ASSUME NEW behind, NEW coming, NEW rest,
         Stream(<<>>, <<>>, behind, coming, rest), behind # <<>>
  PROVE  \E p \in Sendable, later \in Seq(Sendable) :
           behind = <<p>> \o later /\ Stream(<<p>>, Left(p, 0), later, coming, rest)
<1>1. /\ behind \in Seq(Sendable) /\ coming \in Seq(Sendable) /\ rest \in Seq(Byte)
      /\ rx \in Seq(Byte)
      /\ pending = <<>> \o behind \o coming /\ begun = Len(<<>>) + Len(behind)
      /\ rx \o rest = <<>> \o BytesOf(behind)
      /\ Len(rest) < Len(Bytes(behind[Len(behind)]))
  BY DEF Stream
<1>2. PICK p \in Sendable, later \in Seq(Sendable) :
        behind = <<p>> \o later /\ <<p>> \in Seq(Sendable) /\ Len(behind) = 1 + Len(later)
  BY <1>1, FirstPacket, Zenon
<1>3. Left(p, 0) = Bytes(p) /\ Bytes(p) \in Seq(Byte)
  BY LeftFacts, SendableBytes
<1>4. BytesOf(behind) = Bytes(p) \o BytesOf(later) /\ BytesOf(behind) \in Seq(Byte)
  BY <1>1, <1>2, BytesOfBoth, BytesOfOne, BytesOfType
<1>5. rx \o rest = Left(p, 0) \o BytesOf(later)
  BY <1>1, <1>3, <1>4, ConcatEmptySeq
<1>6. pending = <<p>> \o later \o coming
  BY <1>1, <1>2, ConcatEmptySeq
<1>7. begun = Len(<<p>>) + Len(later)
  BY <1>1, <1>2
<1>8. later # <<>> => behind[Len(behind)] = later[Len(later)]
  BY <1>1, <1>2
<1>9. IF Alive THEN air = OnTheWay(rest, coming) ELSE air = <<>> /\ coming = <<>>
  BY DEF Stream
<1>10. Stream(<<p>>, Left(p, 0), later, coming, rest)
  BY <1>1, <1>2, <1>3, <1>5, <1>6, <1>7, <1>8, <1>9 DEF Stream
<1> QED
  BY <1>2, <1>10

LEMMA StreamReads ==
  ASSUME NEW p \in Sendable, NEW k \in 0 .. Len(Bytes(p)) - 1,
         NEW behind, NEW coming, NEW rest,
         Stream(<<p>>, Left(p, k), behind, coming, rest),
         rx # <<>>, rx' = Tail(rx), UNCHANGED <<air, session, pending, begun>>
  PROVE  /\ Head(rx) = Bytes(p)[k + 1] /\ Head(rx) \in Byte
         /\ Stream(<<p>>, Left(p, k + 1), behind, coming, rest)'
<1>1. PICK x \in Byte, l \in Seq(Byte) :
        x = Bytes(p)[k + 1] /\ l = Left(p, k + 1) /\ Left(p, k) = <<x>> \o l
  BY LeftFacts
<1>2. /\ behind \in Seq(Sendable) /\ rest \in Seq(Byte) /\ rx \in Seq(Byte)
      /\ rx \o rest = Left(p, k) \o BytesOf(behind)
  BY DEF Stream
<1>3. BytesOf(behind) \in Seq(Byte) /\ l \o BytesOf(behind) \in Seq(Byte)
  BY <1>2, BytesOfType, ConcatProperties
<1>4. rx \o rest = <<x>> \o (l \o BytesOf(behind))
  <2>1. <<x>> \in Seq(Byte)
    OBVIOUS
  <2>2. (<<x>> \o l) \o BytesOf(behind) = <<x>> \o (l \o BytesOf(behind))
    BY <1>3, <2>1, RegroupedBytes, Zenon
  <2> QED
    BY <1>1, <1>2, <2>2
<1>5. Head(rx) = x /\ Tail(rx) \in Seq(Byte) /\ Tail(rx) \o rest = l \o BytesOf(behind)
  <2>1. PICK y \in Seq(Byte) : y = l \o BytesOf(behind) /\ rx \o rest = <<x>> \o y
    BY <1>3, <1>4
  <2>2. Begins(rx, rest, x, y)
    BY <2>1 DEF Begins
  <2>3. Without(rx, rest, x, y)
    BY <1>2, <2>2, FirstByte
  <2> QED
    BY <2>1, <2>3 DEF Without
<1>6. Stream(<<p>>, l, behind, coming, rest)'
  BY <1>5 DEF Stream, Alive
<1> QED
  BY <1>1, <1>5, <1>6

LEMMA StreamEnds ==
  ASSUME NEW p \in Sendable, NEW behind, NEW coming, NEW rest,
         Stream(<<p>>, <<>>, behind, coming, rest),
         dealtWith, UNCHANGED <<rx, air, session>>
  PROVE  Stream(<<>>, <<>>, behind, coming, rest)'
<1>1. /\ behind \in Seq(Sendable) /\ coming \in Seq(Sendable)
      /\ pending = <<p>> \o behind \o coming /\ begun = Len(<<p>>) + Len(behind)
  BY DEF Stream
<1>2. PICK b \in Seq(Sendable) : b = behind \o coming
  BY <1>1, ConcatProperties
<1>3. pending = <<p>> \o b
  <2>1. <<p>> \in Seq(Sendable)
    OBVIOUS
  <2> QED
    BY <1>1, <1>2, <2>1, ConcatAssociative
<1>4. Tail(pending) = b
  BY <1>2, <1>3
<1>5. pending' = <<>> \o behind \o coming
  BY <1>1, <1>2, <1>4, ConcatEmptySeq DEF dealtWith
<1>6. begun' = Len(<<>>) + Len(behind)
  BY <1>1 DEF dealtWith
<1>7. <<>> \in Seq(Sendable)
  OBVIOUS
<1> QED
  BY <1>5, <1>6, <1>7 DEF Stream, Alive

-----------------------------------------------------------------------------
(* How far the packet is read.                                             *)

InPacket == read.at \in {"header", "digit", "body", "done"}

PacketReads == [by : {"connect", "loop"}, at : {"header", "digit", "body", "done"},
                len : 0 .. MQTT_MAX_PACKET_SIZE, length : Nat, multiplier : Nat, i : Nat]

CallbackReads == [by : {"callback"}, at : {"callback", "publish"}, payload : Int, length : Int]

ReadTypeOK ==
  \/ read \in {Idle, [by |-> "connect", at |-> "wait"], [by |-> "loop", at |-> "available"]}
  \/ read \in PacketReads
  \/ read \in CallbackReads

LEMMA ReadTypes ==
  ASSUME ReadTypeOK
  PROVE  /\ InPacket <=> read \in PacketReads
         /\ read.at \in {"callback", "publish"} <=> read \in CallbackReads
         /\ AtRest <=> read = Idle
         /\ read.by = "callback" <=> read \in CallbackReads
         /\ read.at = "wait" <=> read = [by |-> "connect", at |-> "wait"]
         /\ read.at = "available" <=> read = [by |-> "loop", at |-> "available"]
  BY DEF ReadTypeOK, InPacket, PacketReads, CallbackReads, Idle, AtRest

Buffers == [0 .. MQTT_MAX_PACKET_SIZE - 1 -> Byte]

LEMMA PutFacts ==
  ASSUME NEW b \in Buffers, NEW at \in Nat, NEW s \in Seq(Byte)
  PROVE  /\ Put(b, at, s) \in Buffers
         /\ \A j \in 0 .. MQTT_MAX_PACKET_SIZE - 1 :
              Put(b, at, s)[j] = IF at <= j /\ j < at + Len(s) THEN s[j - at + 1] ELSE b[j]
<1>1. PICK m \in Nat : m = MQTT_MAX_PACKET_SIZE
  BY MultiplesFacts
<1>2. DOMAIN b = 0 .. m - 1 /\ \A j \in 0 .. m - 1 : b[j] \in Byte
  BY <1>1 DEF Buffers
<1>3. PICK n \in Nat : n = Len(s) /\ DOMAIN s = 1 .. n /\ \A i \in 1 .. n : s[i] \in Byte
  BY LenProperties
<1>4. ASSUME NEW j \in 0 .. m - 1
      PROVE  /\ Put(b, at, s)[j] = IF at <= j /\ j < at + n THEN s[j - at + 1] ELSE b[j]
             /\ Put(b, at, s)[j] \in Byte
  <2>1. Put(b, at, s)[j] = IF j - at + 1 \in 1 .. n THEN s[j - at + 1] ELSE b[j]
    BY <1>2, <1>3 DEF Put
  <2>2. j - at + 1 \in 1 .. n <=> at <= j /\ j < at + n
    OBVIOUS
  <2> QED
    BY <1>2, <1>3, <2>1, <2>2
<1>5. /\ DOMAIN Put(b, at, s) = 0 .. m - 1
      /\ Put(b, at, s) = [j \in DOMAIN Put(b, at, s) |-> Put(b, at, s)[j]]
  BY <1>2 DEF Put
<1>6. Put(b, at, s) \in [0 .. m - 1 -> Byte]
  BY <1>4, <1>5
<1> QED
  BY <1>1, <1>3, <1>4, <1>6 DEF Buffers

\* One byte of it.
LEMMA PutOne ==
  ASSUME NEW b \in Buffers, NEW at \in 0 .. MQTT_MAX_PACKET_SIZE - 1, NEW x \in Byte
  PROVE  /\ Put(b, at, <<x>>) \in Buffers
         /\ Put(b, at, <<x>>)[at] = x
         /\ \A j \in 0 .. MQTT_MAX_PACKET_SIZE - 1 : j # at => Put(b, at, <<x>>)[j] = b[j]
<1>1. PICK m \in Nat : m = MQTT_MAX_PACKET_SIZE
  BY MultiplesFacts
<1>2. PICK s \in Seq(Byte) : s = <<x>> /\ Len(s) = 1 /\ s[1] = x
  <2>1. <<x>> \in Seq(Byte) /\ Len(<<x>>) = 1 /\ <<x>>[1] = x
    OBVIOUS
  <2> QED
    BY <2>1
<1>3. at \in 0 .. m - 1 /\ at \in Nat
  BY <1>1
<1>4. /\ Put(b, at, s) \in Buffers
      /\ \A j \in 0 .. m - 1 :
           Put(b, at, s)[j] = IF at <= j /\ j < at + 1 THEN s[j - at + 1] ELSE b[j]
  <2>1. /\ Put(b, at, s) \in Buffers
        /\ \A j \in 0 .. MQTT_MAX_PACKET_SIZE - 1 :
             Put(b, at, s)[j] = IF at <= j /\ j < at + Len(s) THEN s[j - at + 1] ELSE b[j]
    BY <1>3, PutFacts
  <2> QED
    BY <1>1, <1>2, <2>1
<1>5. at - at + 1 = 1 /\ at <= at /\ at < at + 1
  BY <1>3
<1>6. \A j \in 0 .. m - 1 : j # at => ~(at <= j /\ j < at + 1)
  BY <1>3
<1> QED
  BY <1>1, <1>2, <1>3, <1>4, <1>5, <1>6

\* The bytes of p that have been read.
Place(p) == IF read.at \in {"header", "digit"} THEN read.len ELSE Ahead(p) + read.i

AtHeader ==
  read.at = "header" /\ read.len = 0 /\ read.length = 0 /\ read.multiplier = 1 /\ read.i = 0

AtFirstDigit ==
  read.at = "digit" /\ read.len = 1 /\ read.length = 0 /\ read.multiplier = 1 /\ read.i = 0

AtSecondDigit(n) ==
  /\ read.at = "digit" /\ read.len = 2 /\ read.i = 0
  /\ n >= Base /\ read.length = n % Base /\ read.multiplier = Base

InBody(n) ==
  /\ read.at \in {"body", "done"}
  /\ read.length = n /\ read.i \in 0 .. n
  /\ read.at = "body" <=> read.i < n

Progress(p) ==
  AtHeader \/ AtFirstDigit \/ AtSecondDigit(Len(p.body)) \/ InBody(Len(p.body))

\* What the buffer holds of p: its bytes from off on.
Holds(p, off) == \A j \in 0 .. read.len - 1 : buffer[j] = Bytes(p)[off + j + 1]

Stored(p) == \E off \in Multiples : Place(p) = off + read.len /\ Holds(p, off)

LEMMA PlaceFacts ==
  ASSUME NEW p \in Sendable, Progress(p), ReadTypeOK
  PROVE  /\ read.at # "done" => Place(p) \in 0 .. Len(Bytes(p)) - 1
         /\ read.at = "done" => Place(p) = Len(Bytes(p))
<1>1. Sized(p)
  BY SendableFacts
<1>2. PICK n \in Nat, a \in {2, 3}, l \in Nat :
        /\ n = Len(p.body) /\ a = Ahead(p) /\ l = Len(Bytes(p)) /\ l = a + n
        /\ (n >= Base => a = 3)
  <2>1. PICK n \in Nat : n = Len(p.body)
    BY <1>1 DEF Sized
  <2>2. Len(Bytes(p)) = Ahead(p) + n /\ (n < Base => Ahead(p) = 2) /\ (n >= Base => Ahead(p) = 3)
    BY <1>1, <2>1, BytesFacts
  <2>3. n < Base \/ n >= Base
    BY BaseFacts
  <2> QED
    BY <2>1, <2>2, <2>3
<1>3. CASE AtHeader
  BY <1>2, <1>3 DEF AtHeader, Place
<1>4. CASE AtFirstDigit
  BY <1>2, <1>4 DEF AtFirstDigit, Place
<1>5. CASE AtSecondDigit(n)
  BY <1>2, <1>5, BaseFacts DEF AtSecondDigit, Place
<1>6. CASE InBody(n)
  BY <1>2, <1>6 DEF InBody, Place
<1> QED
  BY <1>2, <1>3, <1>4, <1>5, <1>6 DEF Progress

\* A byte is stored behind those that were.
LEMMA StoresByte ==
  ASSUME NEW p \in Sendable, NEW off \in Multiples, Holds(p, off),
         read \in PacketReads, read' \in PacketReads, buffer \in Buffers,
         NEW x \in Byte, read.len < MQTT_MAX_PACKET_SIZE,
         x = Bytes(p)[off + read.len + 1],
         buffer' = Put(buffer, read.len, <<x>>), read'.len = read.len + 1
  PROVE  Holds(p, off)' /\ buffer' \in Buffers
<1>1. PICK m \in Nat, n \in Nat : m = MQTT_MAX_PACKET_SIZE /\ n = read.len /\ n \in 0 .. m - 1
  BY MultiplesFacts DEF PacketReads
<1>2. /\ buffer' \in Buffers /\ buffer'[n] = x
      /\ \A j \in 0 .. m - 1 : j # n => buffer'[j] = buffer[j]
  <2>1. read.len \in 0 .. MQTT_MAX_PACKET_SIZE - 1
    BY <1>1
  <2>2. PICK c \in Buffers : c = Put(buffer, read.len, <<x>>) /\ c[read.len] = x
          /\ \A j \in 0 .. MQTT_MAX_PACKET_SIZE - 1 : j # read.len => c[j] = buffer[j]
    BY <2>1, PutOne
  <2> QED
    BY <1>1, <2>2
<1>3. ASSUME NEW j \in 0 .. (n + 1) - 1 PROVE buffer'[j] = Bytes(p)[off + j + 1]
  <2>1. CASE j = n
    BY <1>1, <1>2, <2>1
  <2>2. CASE j # n
    <3>1. j \in 0 .. n - 1 /\ j \in 0 .. m - 1
      BY <1>1, <2>2
    <3> QED
      BY <1>1, <1>2, <2>2, <3>1 DEF Holds
  <2> QED
    BY <2>1, <2>2
<1> QED
  BY <1>1, <1>2, <1>3 DEF Holds

\* What a step that reads a byte of p starts from, and what it leads to.
BeforeByte(p) ==
  /\ Progress(p) /\ Stored(p)
  /\ read \in PacketReads /\ buffer \in Buffers
  /\ Head(rx) = Bytes(p)[Place(p) + 1] /\ Head(rx) \in Byte

AfterByte(p) ==
  /\ read' \in PacketReads /\ buffer' \in Buffers
  /\ Progress(p)' /\ Stored(p)' /\ Place(p)' = Place(p) + 1
  /\ read'.by = read.by

Updated(s, r, at, len, length, multiplier, i) ==
  s = [r EXCEPT !.at = at, !.len = len, !.length = length, !.multiplier = multiplier, !.i = i]

LEMMA PacketReadsUpdated ==
  ASSUME NEW r \in PacketReads,
         NEW at \in {"header", "digit", "body", "done"}, NEW len \in 0 .. MQTT_MAX_PACKET_SIZE,
         NEW length \in Nat, NEW multiplier \in Nat, NEW i \in Nat,
         NEW s, Updated(s, r, at, len, length, multiplier, i)
  PROVE  /\ s \in PacketReads /\ s.by = r.by /\ s.at = at /\ s.len = len
         /\ s.length = length /\ s.multiplier = multiplier /\ s.i = i
  BY DEF PacketReads, Updated

LEMMA Room ==
  /\ MQTT_MAX_PACKET_SIZE \in Nat /\ MQTT_MAX_PACKET_SIZE >= 11
  /\ 1 \in 0 .. MQTT_MAX_PACKET_SIZE /\ 2 \in 0 .. MQTT_MAX_PACKET_SIZE
  /\ 3 \in 0 .. MQTT_MAX_PACKET_SIZE /\ 0 \in 0 .. MQTT_MAX_PACKET_SIZE
<1>1. PICK m \in Nat : m = MQTT_MAX_PACKET_SIZE /\ m >= 11
  BY MultiplesFacts
<1> QED
  BY <1>1

\* The bytes before the body, which are not more than three.
LEMMA StoredAtStart ==
  ASSUME NEW p \in Sendable, BeforeByte(p), Place(p) = read.len, read.len \in {0, 1, 2},
         buffer' = Put(buffer, read.len, <<Head(rx)>>),
         read' \in PacketReads, read'.len = read.len + 1
  PROVE  Holds(p, 0)' /\ buffer' \in Buffers
<1>1. PICK off \in Multiples : Place(p) = off + read.len /\ Holds(p, off)
  BY DEF BeforeByte, Stored
<1>2. off \in Nat /\ read.len \in Nat /\ 0 \in Multiples
  BY MultiplesFacts
<1>3. off = 0
  BY <1>1, <1>2
<1>4. read.len < MQTT_MAX_PACKET_SIZE
  BY MultiplesFacts
<1>5. 0 + read.len + 1 = read.len + 1
  BY <1>2
<1>6. PICK x \in Byte : x = Head(rx) /\ x = Bytes(p)[0 + read.len + 1]
  BY <1>5 DEF BeforeByte
<1> QED
  BY <1>1, <1>2, <1>3, <1>4, <1>6, StoresByte DEF BeforeByte

LEMMA ReadsHeader ==
  ASSUME NEW p \in Sendable, BeforeByte(p), readHeader
  PROVE  AfterByte(p)
<1>1. AtHeader
  BY DEF BeforeByte, Progress, readHeader, AtHeader, AtFirstDigit, AtSecondDigit, InBody
<1>2. Updated(read', read, "digit", 1, 0, 1, 0)
  <2>1. read' = [read EXCEPT !.at = "digit", !.len = 1]
    BY <1>1 DEF readHeader, AtHeader
  <2>2. read.length = 0 /\ read.multiplier = 1 /\ read.i = 0 /\ read \in PacketReads
    BY <1>1 DEF AtHeader, BeforeByte
  <2> QED
    BY <2>1, <2>2 DEF PacketReads, Updated
<1>3. /\ read' \in PacketReads /\ AtFirstDigit' /\ read'.len = 1 /\ read'.by = read.by
      /\ read'.at = "digit"
  BY <1>2, Room, PacketReadsUpdated DEF BeforeByte, AtFirstDigit
<1>4. Place(p) = read.len /\ read.len = 0 /\ Place(p)' = read'.len
  BY <1>1, <1>3 DEF Place, AtHeader
<1>5. Holds(p, 0)' /\ buffer' \in Buffers
  BY <1>3, <1>4, StoredAtStart DEF readHeader
<1>6. Stored(p)'
  BY <1>3, <1>4, <1>5, MultiplesFacts DEF Stored
<1> QED
  BY <1>3, <1>4, <1>5, <1>6 DEF AfterByte, Progress

LEMMA ReadsFirstDigit ==
  ASSUME NEW p \in Sendable, BeforeByte(p), readDigit, AtFirstDigit
  PROVE  AfterByte(p)
<1>1. Sized(p)
  BY SendableFacts
<1>2. PICK n \in Nat : n = Len(p.body) /\ n < Base * Base
  BY <1>1 DEF Sized
<1>3. Place(p) = 1 /\ read.len = 1 /\ Place(p) = read.len
  BY DEF Place, AtFirstDigit
<1>4. PICK x \in Byte : x = Head(rx) /\ x = Bytes(p)[2]
  BY <1>3 DEF BeforeByte
<1>5. 0 + (x % Base) * 1 = x % Base /\ x % Base \in Nat
  BY BaseFacts DEF Byte
<1>6. PICK at \in {"digit", "body", "done"} :
        at = IF x >= Base THEN "digit" ELSE Body(0, x % Base)
  BY DEF Body
<1>7. /\ read' \in PacketReads /\ read'.len = 2 /\ read'.by = read.by
      /\ read'.at = at /\ read'.length = x % Base /\ read'.multiplier = Base /\ read'.i = 0
  <2>1. PICK l \in Nat : l = x % Base /\ 0 + (x % Base) * 1 = l
    BY <1>5
  <2>2. Updated(read', read, at, 2, l, Base, 0)
    <3>1. read.length + (Head(rx) % Base) * read.multiplier = l
      BY <1>4, <2>1 DEF AtFirstDigit
    <3>2. (read.multiplier * Base) % (2 * Base) = Base /\ read.len + 1 = 2 /\ read.i = 0
      BY BaseFacts DEF AtFirstDigit
    <3>3. read' = [read EXCEPT !.at = at, !.len = 2, !.length = l, !.multiplier = Base]
      BY <1>4, <1>6, <2>1, <3>1, <3>2 DEF readDigit, BeforeByte, PacketReads
    <3> QED
      BY <3>2, <3>3 DEF BeforeByte, PacketReads, Updated
  <2> QED
    BY <2>1, <2>2, Room, BaseFacts, PacketReadsUpdated DEF BeforeByte
<1>8. Holds(p, 0)' /\ buffer' \in Buffers
  BY <1>3, <1>7, StoredAtStart DEF readDigit
<1>9. Progress(p)' /\ Place(p)' = 2
  <2>1. CASE n < Base
    <3>1. x = n /\ Ahead(p) = 2
      BY <1>1, <1>2, <1>4, <2>1, BytesFacts
    <3>2. x % Base = n /\ ~(x >= Base)
      BY <2>1, <3>1, LengthOne, BaseFacts
    <3>3. /\ read'.at = Body(0, n) /\ read'.length = n /\ read'.i = 0
      BY <1>6, <1>7, <3>2
    <3>4. InBody(n)'
      BY <3>3 DEF InBody, Body
    <3>5. Place(p)' = 2
      BY <3>1, <3>3 DEF Place, Body
    <3> QED
      BY <1>2, <3>4, <3>5 DEF Progress
  <2>2. CASE n >= Base
    <3>1. x = (n % Base) + Base
      BY <1>1, <1>2, <1>4, <2>2, BytesFacts
    <3>2. x % Base = n % Base /\ x >= Base
      BY <1>2, <2>2, <3>1, LengthTwo
    <3>3. /\ read'.at = "digit" /\ read'.length = n % Base /\ read'.i = 0
          /\ read'.multiplier = Base
      BY <1>6, <1>7, <3>2
    <3>4. AtSecondDigit(n)'
      BY <1>7, <2>2, <3>3 DEF AtSecondDigit
    <3>5. Place(p)' = 2
      BY <1>7, <3>3 DEF Place
    <3> QED
      BY <1>2, <3>4, <3>5 DEF Progress
  <2> QED
    BY <2>1, <2>2, BaseFacts
<1>10. Stored(p)'
  BY <1>7, <1>8, <1>9, MultiplesFacts DEF Stored
<1> QED
  BY <1>3, <1>7, <1>8, <1>9, <1>10 DEF AfterByte

LEMMA ReadsSecondDigit ==
  ASSUME NEW p \in Sendable, BeforeByte(p), readDigit, AtSecondDigit(Len(p.body))
  PROVE  AfterByte(p)
<1>1. Sized(p)
  BY SendableFacts
<1>2. PICK n \in Nat : n = Len(p.body) /\ n < Base * Base /\ n >= Base
  BY <1>1 DEF Sized, AtSecondDigit
<1>3. Place(p) = 2 /\ read.len = 2 /\ Place(p) = read.len
  BY DEF Place, AtSecondDigit
<1>4. Ahead(p) = 3 /\ Bytes(p)[3] = n \div Base
  BY <1>1, <1>2, BytesFacts
<1>5. PICK x \in Byte : x = Head(rx) /\ x = n \div Base
  BY <1>3, <1>4 DEF BeforeByte
<1>6. x < Base /\ x % Base = x /\ (n % Base) + x * Base = n
  BY <1>2, <1>5, LengthTwo
<1>7. ~(x >= Base)
  BY <1>6, BaseFacts DEF Byte
<1>8. PICK m \in Nat : m = (Base * Base) % (2 * Base)
  <2>1. PICK c \in Nat, d \in Nat : c = Base * Base /\ d = 2 * Base /\ d > 0
    BY BaseFacts
  <2>2. c % d \in 0 .. d - 1
    BY <2>1
  <2> QED
    BY <2>1, <2>2
<1>9. PICK at \in {"body", "done"} : at = Body(0, n)
  BY DEF Body
<1>14. Updated(read', read, at, 3, n, m, 0)
  <2>1. read.length + (Head(rx) % Base) * read.multiplier = n
    BY <1>2, <1>5, <1>6 DEF AtSecondDigit
  <2>2. (read.multiplier * Base) % (2 * Base) = m /\ read.len + 1 = 3 /\ read.i = 0
    BY <1>8 DEF AtSecondDigit
  <2>3. read' = [read EXCEPT !.at = at, !.len = 3, !.length = n, !.multiplier = m]
    BY <1>5, <1>7, <1>9, <2>1, <2>2 DEF readDigit, BeforeByte, PacketReads
  <2> QED
    BY <2>2, <2>3 DEF BeforeByte, PacketReads, Updated
<1>10. /\ read' \in PacketReads /\ read'.len = 3 /\ read'.by = read.by
       /\ read'.at = Body(0, n) /\ read'.length = n /\ read'.i = 0
  BY <1>9, <1>14, Room, PacketReadsUpdated DEF BeforeByte
<1>11. Holds(p, 0)' /\ buffer' \in Buffers
  BY <1>3, <1>10, StoredAtStart DEF readDigit
<1>12. InBody(n)' /\ Place(p)' = 3
  BY <1>4, <1>10 DEF InBody, Body, Place
<1>13. Stored(p)'
  BY <1>10, <1>11, <1>12, MultiplesFacts DEF Stored
<1> QED
  BY <1>2, <1>3, <1>10, <1>11, <1>12, <1>13 DEF AfterByte, Progress

LEMMA ReadsBody ==
  ASSUME NEW p \in Sendable, BeforeByte(p), readBody
  PROVE  AfterByte(p)
<1>1. Sized(p)
  BY SendableFacts
<1>2. PICK n \in Nat, a \in Nat : n = Len(p.body) /\ a = Ahead(p) /\ Ahead(p)' = a
  BY <1>1, BytesFacts, BaseFacts DEF Sized, Ahead
<1>3. InBody(n) /\ read.i \in 0 .. n /\ read.i < n /\ read.length = n /\ Place(p) = a + read.i
  BY <1>2 DEF BeforeByte, Progress, readBody, AtHeader, AtFirstDigit, AtSecondDigit, InBody, Place
<1>4. PICK off \in Multiples : Place(p) = off + read.len /\ Holds(p, off)
  BY DEF BeforeByte, Stored
<1>5. PICK m \in Nat, o \in Nat, l \in Nat, i \in 0 .. n :
        /\ l <= m /\ m = MQTT_MAX_PACKET_SIZE /\ o = off /\ l = read.len /\ i = read.i /\ i < n
        /\ o + l = a + i
  <2>1. read.len \in 0 .. MQTT_MAX_PACKET_SIZE
    BY DEF BeforeByte, PacketReads
  <2> QED
    <3>1. off \in Nat /\ read.len \in Nat /\ read.len <= MQTT_MAX_PACKET_SIZE
      BY <2>1, MultiplesFacts
    <3> QED
      BY <1>3, <1>4, <3>1, Room
<1>6. CASE read.len < MQTT_MAX_PACKET_SIZE
  <2>8. PICK at \in {"body", "done"}, mult \in Nat : at = Body(i + 1, n) /\ mult = read.multiplier
    BY DEF Body, BeforeByte, PacketReads
  <2>9. l + 1 \in 0 .. MQTT_MAX_PACKET_SIZE
    BY <1>5, <1>6
  <2>10. read' = [read EXCEPT !.at = at, !.len = l + 1, !.i = i + 1]
    BY <1>3, <1>5, <1>6, <2>8 DEF readBody
  <2>1. Updated(read', read, at, l + 1, n, mult, i + 1)
    BY <1>3, <2>8, <2>10 DEF BeforeByte, PacketReads, Updated
  <2>2. /\ read' \in PacketReads /\ read'.len = l + 1 /\ read'.by = read.by
        /\ read'.at = Body(i + 1, n) /\ read'.length = n /\ read'.i = i + 1
    BY <2>1, <2>8, <2>9, PacketReadsUpdated DEF BeforeByte
  <2>3. InBody(n)' /\ Place(p)' = a + (i + 1)
    BY <1>2, <1>5, <2>2 DEF InBody, Body, Place
  <2>4. PICK x \in Byte : x = Head(rx) /\ x = Bytes(p)[off + read.len + 1]
    BY <1>4 DEF BeforeByte
  <2>5. buffer' = Put(buffer, read.len, <<x>>)
    BY <1>6, <2>4 DEF readBody
  <2>6. Holds(p, off)' /\ buffer' \in Buffers
    BY <1>4, <1>5, <1>6, <2>2, <2>4, <2>5, StoresByte DEF BeforeByte
  <2>7. Place(p)' = off + read'.len /\ Place(p)' = Place(p) + 1
    BY <1>3, <1>5, <2>2, <2>3
  <2> QED
    BY <1>2, <2>2, <2>3, <2>6, <2>7 DEF AfterByte, Progress, Stored
<1>7. CASE ~(read.len < MQTT_MAX_PACKET_SIZE)
  <2>8. PICK at \in {"body", "done"}, mult \in Nat : at = Body(i + 1, n) /\ mult = read.multiplier
    BY DEF Body, BeforeByte, PacketReads
  <2>9. read' = [read EXCEPT !.at = at, !.len = 0, !.i = i + 1] /\ buffer' = buffer
    BY <1>3, <1>5, <1>7, <2>8 DEF readBody
  <2>1. Updated(read', read, at, 0, n, mult, i + 1)
    BY <1>3, <2>8, <2>9 DEF BeforeByte, PacketReads, Updated
  <2>2. /\ read' \in PacketReads /\ read'.len = 0 /\ read'.by = read.by
        /\ read'.at = Body(i + 1, n) /\ read'.length = n /\ read'.i = i + 1
    BY <2>1, <2>8, Room, PacketReadsUpdated DEF BeforeByte
  <2>3. InBody(n)' /\ Place(p)' = a + (i + 1)
    BY <1>2, <1>5, <2>2 DEF InBody, Body, Place
  <2>4. PICK next \in Multiples : next = o + m + 1
    BY <1>5, MultiplesFacts
  <2>5. l = m
    BY <1>5, <1>7
  <2>6. Place(p)' = next + read'.len /\ Place(p)' = Place(p) + 1
    BY <1>3, <1>5, <2>2, <2>3, <2>4, <2>5
  <2>7. Holds(p, next)'
    BY <2>2 DEF Holds
  <2> QED
    BY <1>2, <2>2, <2>3, <2>4, <2>6, <2>7, <2>9 DEF AfterByte, Progress, Stored, BeforeByte
<1> QED
  BY <1>6, <1>7

LEMMA ReadsByte ==
  ASSUME NEW p \in Sendable, BeforeByte(p), readHeader \/ readDigit \/ readBody
  PROVE  AfterByte(p)
<1>1. readDigit => AtFirstDigit \/ AtSecondDigit(Len(p.body))
  BY DEF BeforeByte, Progress, readDigit, AtHeader, InBody
<1> QED
  BY <1>1, ReadsHeader, ReadsFirstDigit, ReadsSecondDigit, ReadsBody

-----------------------------------------------------------------------------
(* The inductive invariant.                                                *)

\* A packet is being read, as far as the program says, or none is.
StreamInv ==
  IF InPacket
  THEN \E p \in Sendable, k \in Nat : \E behind, coming, rest :
         /\ k = Place(p) /\ Progress(p) /\ Stored(p)
         /\ Stream(<<p>>, Left(p, k), behind, coming, rest)
  ELSE \E behind, coming, rest : Stream(<<>>, <<>>, behind, coming, rest)

TypeInv ==
  /\ ReadTypeOK /\ buffer \in Buffers
  /\ nextMsgId \in Nat /\ nextMsgId < 4 * Base * Base
  /\ sock \in {"none", "open", "closeWait"}
  /\ session \in {"none", "connected", "subscribed", "lost"}
  /\ sock = "open" <=> session # "none"
  /\ feed \in Values

\* The answer to CONNECT comes first, and is all that comes before SUBSCRIBE.
OrderInv ==
  /\ \A i \in 1 .. Len(pending) : pending[i] \in Answers => read.by = "connect" /\ i = 1
  /\ read.by = "connect" =>
       /\ pending # <<>> => Head(pending) \in Answers
       /\ session # "subscribed"

\* What CONNECT put behind its length is there until SUBSCRIBE is put together.
WriteInv ==
  /\ WrittenWell
  /\ CosmState = "CosmConnected" => AtRest
  /\ CosmState = "CosmConnected" \/ read.by = "connect" => buffer[5] = 0 /\ buffer[6] = 6

IInv == TypeInv /\ StreamInv /\ OrderInv /\ WriteInv

-----------------------------------------------------------------------------
(* StreamInv, by what a step does to the bytes.                            *)

LEMMA KeepsStream ==
  ASSUME StreamInv, UNCHANGED <<read, buffer>>,
         \A open, left, behind, coming, rest :
           Stream(open, left, behind, coming, rest) =>
             \E b, c, r : Stream(open, left, b, c, r)'
  PROVE  StreamInv'
<1>1. CASE InPacket
  <2>0. PICK p \in Sendable, k \in Nat : \E behind, coming, rest :
          /\ k = Place(p) /\ Progress(p) /\ Stored(p)
          /\ Stream(<<p>>, Left(p, k), behind, coming, rest)
    BY <1>1 DEF StreamInv
  <2>1. PICK behind, coming, rest :
          /\ k = Place(p) /\ Progress(p) /\ Stored(p)
          /\ Stream(<<p>>, Left(p, k), behind, coming, rest)
    BY <2>0
  <2>2. PICK b, c, r : Stream(<<p>>, Left(p, k), b, c, r)'
    BY <2>1
  <2>3. k = Place(p)' /\ Progress(p)' /\ Stored(p)' /\ InPacket'
    BY <1>1, <2>1 DEF Place, Progress, AtHeader, AtFirstDigit, AtSecondDigit, InBody, Stored, Holds,
                      InPacket
  <2> QED
    BY <2>2, <2>3 DEF StreamInv
<1>2. CASE ~InPacket
  <2>1. PICK behind, coming, rest : Stream(<<>>, <<>>, behind, coming, rest)
    BY <1>2 DEF StreamInv
  <2>2. PICK b, c, r : Stream(<<>>, <<>>, b, c, r)'
    BY <2>1
  <2>3. ~InPacket'
    BY <1>2 DEF InPacket
  <2> QED
    BY <2>2, <2>3 DEF StreamInv
<1> QED
  BY <1>1, <1>2

LEMMA StopsInv ==
  ASSUME stop, ~InPacket'
  PROVE  StreamInv'
  BY StreamStops DEF StreamInv

LEMMA SameInv ==
  ASSUME StreamInv, ~InPacket, ~InPacket', UNCHANGED <<rx, air, pending, begun>>, Alive' = Alive
  PROVE  StreamInv'
<1>1. PICK behind, coming, rest : Stream(<<>>, <<>>, behind, coming, rest)
  BY DEF StreamInv
<1>2. Stream(<<>>, <<>>, behind, coming, rest)'
  BY <1>1, StreamSame
<1> QED
  BY <1>2 DEF StreamInv

LEMMA SendsInv ==
  ASSUME StreamInv, ~InPacket, ~InPacket', NEW packets \in Seq(Sendable),
         Alive, Alive', Sent(packets), rx' = rx
  PROVE  StreamInv'
<1>1. PICK behind, coming, rest : Stream(<<>>, <<>>, behind, coming, rest)
  BY DEF StreamInv
<1>2. Stream(<<>>, <<>>, behind, coming \o packets, rest)'
  BY <1>1, StreamSends
<1> QED
  BY <1>2 DEF StreamInv

LEMMA BeginsInv ==
  ASSUME StreamInv, ~InPacket, rx # <<>>, NEW caller, read' = readPacket(caller),
         UNCHANGED <<buffer, rx, air, pending, begun, session>>
  PROVE  StreamInv'
<1>1. PICK behind, coming, rest : Stream(<<>>, <<>>, behind, coming, rest)
  BY DEF StreamInv
<1>2. behind # <<>>
  BY <1>1, StreamBetween
<1>3. PICK p \in Sendable, later \in Seq(Sendable) : Stream(<<p>>, Left(p, 0), later, coming, rest)
  BY <1>1, <1>2, StreamBegins
<1>4. Stream(<<p>>, Left(p, 0), later, coming, rest)'
  <2>1. Alive' = Alive
    BY DEF Alive
  <2> QED
    BY <1>3, <2>1, StreamSame
<1>5. AtHeader' /\ read'.len = 0 /\ InPacket'
  BY DEF readPacket, AtHeader, InPacket
<1>6. 0 = Place(p)' /\ Progress(p)'
  BY <1>5 DEF Place, Progress, AtHeader
<1>7. Stored(p)'
  <2>1. Holds(p, 0)'
    BY <1>5 DEF Holds
  <2>2. Place(p)' = 0 + read'.len
    BY <1>5, <1>6
  <2> QED
    BY <2>1, <2>2, MultiplesFacts DEF Stored
<1> QED
  BY <1>4, <1>5, <1>6, <1>7 DEF StreamInv

LEMMA ReadsInv ==
  ASSUME StreamInv, TypeInv, readHeader \/ readDigit \/ readBody
  PROVE  /\ StreamInv' /\ read' \in PacketReads /\ buffer' \in Buffers
         /\ read'.by = read.by /\ InPacket
<1>1. InPacket /\ rx # <<>> /\ rx' = Tail(rx) /\ UNCHANGED reads /\ read.at # "done"
  BY DEF readHeader, readDigit, readBody, InPacket
<1>2. ReadTypeOK /\ read \in PacketReads /\ buffer \in Buffers
  BY <1>1, ReadTypes DEF TypeInv
<1>0. PICK p \in Sendable, k \in Nat : \E behind, coming, rest :
        /\ k = Place(p) /\ Progress(p) /\ Stored(p)
        /\ Stream(<<p>>, Left(p, k), behind, coming, rest)
  BY <1>1 DEF StreamInv
<1>3. PICK behind, coming, rest :
        /\ k = Place(p) /\ Progress(p) /\ Stored(p)
        /\ Stream(<<p>>, Left(p, k), behind, coming, rest)
  BY <1>0
<1>4. k \in 0 .. Len(Bytes(p)) - 1
  BY <1>1, <1>2, <1>3, PlaceFacts
<1>5. /\ Head(rx) = Bytes(p)[k + 1] /\ Head(rx) \in Byte
      /\ Stream(<<p>>, Left(p, k + 1), behind, coming, rest)'
  BY <1>1, <1>3, <1>4, StreamReads DEF reads
<1>6. BeforeByte(p)
  BY <1>2, <1>3, <1>5 DEF BeforeByte
<1>7. AfterByte(p)
  BY <1>6, ReadsByte
<1>8. InPacket'
  BY <1>7 DEF AfterByte, PacketReads, InPacket
<1>9. k + 1 = Place(p)' /\ k + 1 \in Nat
  BY <1>3, <1>7 DEF AfterByte
<1>10. StreamInv'
  BY <1>5, <1>7, <1>8, <1>9 DEF AfterByte, StreamInv
<1> QED
  BY <1>1, <1>7, <1>10 DEF AfterByte

LEMMA DealsInv ==
  ASSUME StreamInv, TypeInv, read.at = "done", ~InPacket',
         dealtWith, UNCHANGED <<rx, air, session>>
  PROVE  StreamInv'
<1>0. PICK p \in Sendable, k \in Nat : \E behind, coming, rest :
        /\ k = Place(p) /\ Progress(p)
        /\ Stream(<<p>>, Left(p, k), behind, coming, rest)
  BY DEF StreamInv, InPacket
<1>1. PICK behind, coming, rest :
        /\ k = Place(p) /\ Progress(p)
        /\ Stream(<<p>>, Left(p, k), behind, coming, rest)
  BY <1>0
<1>2. k = Len(Bytes(p))
  BY <1>1, PlaceFacts DEF TypeInv
<1>3. Stream(<<p>>, <<>>, behind, coming, rest)
  BY <1>1, <1>2, LeftFacts
<1>4. Stream(<<>>, <<>>, behind, coming, rest)'
  BY <1>3, StreamEnds
<1> QED
  BY <1>4 DEF StreamInv

\* Of the packet that is being read, what is needed where it is dealt with.
LEMMA OpenPacket ==
  ASSUME StreamInv, InPacket
  PROVE  \E p \in Sendable : /\ Progress(p) /\ Stored(p) /\ Head(pending) = p /\ pending # <<>>
                             /\ pending \in Seq(Sendable)
<1>0. PICK p \in Sendable, k \in Nat : \E behind, coming, rest :
        /\ k = Place(p) /\ Progress(p) /\ Stored(p)
        /\ Stream(<<p>>, Left(p, k), behind, coming, rest)
  BY DEF StreamInv
<1>1. PICK behind, coming, rest :
        /\ k = Place(p) /\ Progress(p) /\ Stored(p)
        /\ Stream(<<p>>, Left(p, k), behind, coming, rest)
  BY <1>0
<1>2. PICK b \in Seq(Sendable), c \in Seq(Sendable) : pending = <<p>> \o b \o c
  BY <1>1 DEF Stream
<1>3. pending # <<>> /\ Head(pending) = p /\ pending \in Seq(Sendable)
  BY <1>2
<1> QED
  BY <1>1, <1>3

LEMMA StreamTypes ==
  ASSUME StreamInv
  PROVE  rx \in Seq(Byte) /\ pending \in Seq(Sendable)
<1>1. PICK open, left, behind, coming, rest : Stream(open, left, behind, coming, rest)
  BY DEF StreamInv
<1> QED
  BY <1>1, StreamPackets DEF Stream

-----------------------------------------------------------------------------
(* What is written.                                                        *)

\* body lies in b from position 5 on.
Lies(b, body) == \A i \in 1 .. Len(body) : b[4 + i] = body[i]

LEMMA Written ==
  ASSUME NEW b \in Buffers, NEW header \in Byte, NEW body \in Seq(Byte), NEW length \in Nat,
         length = Len(body), 5 + length <= MQTT_MAX_PACKET_SIZE, Lies(b, body),
         write(b, header, length)
  PROVE  /\ buffer' \in Buffers
         /\ wrote' = <<header>> \o LengthField(Len(body)) \o body
         /\ \A j \in 5 .. MQTT_MAX_PACKET_SIZE - 1 : buffer'[j] = b[j]
<1>1. PICK m \in Nat : m = MQTT_MAX_PACKET_SIZE /\ m >= 11 /\ m <= Base + 2
  BY MultiplesFacts
<1>2. length < Base /\ 5 + length <= m
  BY <1>1, BaseFacts
<1>3. length % (2 * Base) = length /\ LengthField(length) = <<length>> /\ length \in Byte
  BY <1>2, LengthOne
<1>4. PICK s \in Seq(Byte) :
        s = <<header>> \o <<length>> /\ Len(s) = 2 /\ s[1] = header /\ s[2] = length
  <2>1. LET s == <<header>> \o <<length>> IN
          s \in Seq(Byte) /\ Len(s) = 2 /\ s[1] = header /\ s[2] = length
    BY <1>3
  <2> QED
    BY <2>1
<1>5. buffer' = Put(b, 3, s) /\ Start(length) = 3
  <2>1. Len(<<length>>) = 1 /\ 4 - 1 = 3
    OBVIOUS
  <2>2. Start(length) = 3
    BY <1>3, <2>1 DEF Start
  <2>3. Headed(b, header, length) = Put(b, 3, s)
    BY <1>3, <1>4, <2>1 DEF Headed
  <2> QED
    BY <2>2, <2>3 DEF write
<1>6. /\ buffer' \in Buffers
      /\ \A j \in 0 .. m - 1 :
           buffer'[j] = IF 3 <= j /\ j < 3 + 2 THEN s[j - 3 + 1] ELSE b[j]
  <2>1. /\ Put(b, 3, s) \in Buffers
        /\ \A j \in 0 .. MQTT_MAX_PACKET_SIZE - 1 :
             Put(b, 3, s)[j] = IF 3 <= j /\ j < 3 + Len(s) THEN s[j - 3 + 1] ELSE b[j]
    BY PutFacts
  <2> QED
    BY <1>1, <1>4, <1>5, <2>1
<1>7. /\ buffer'[3] = header /\ buffer'[4] = length
      /\ \A j \in 5 .. m - 1 : buffer'[j] = b[j]
  BY <1>1, <1>4, <1>6
<1>8. wrote' = [i \in 1 .. 2 + length |-> buffer'[3 + i - 1]]
  <2>1. 5 + length - Start(length) = 2 + length
    BY <1>5
  <2> QED
    BY <1>5, <2>1 DEF write
<1>9. PICK w \in Seq(Byte) : /\ w = <<header>> \o <<length>> \o body /\ Len(w) = 2 + length
                             /\ w[1] = header /\ w[2] = length
                             /\ \A i \in 1 .. length : w[2 + i] = body[i]
  <2>1. LET w == <<header>> \o <<length>> \o body IN
          /\ w \in Seq(Byte) /\ Len(w) = 2 + length /\ w[1] = header /\ w[2] = length
          /\ \A i \in 1 .. length : w[2 + i] = body[i]
    BY <1>3
  <2> QED
    BY <2>1
<1>10. ASSUME NEW i \in 1 .. 2 + length PROVE buffer'[3 + i - 1] = w[i]
  <2>1. CASE i = 1
    BY <1>7, <1>9, <2>1
  <2>2. CASE i = 2
    BY <1>7, <1>9, <2>2
  <2>3. CASE i > 2
    <3>1. PICK j \in 1 .. length : j = i - 2 /\ i = 2 + j
      BY <2>3
    <3>2. 3 + i - 1 = 4 + j /\ 4 + j \in 5 .. m - 1
      BY <1>2, <3>1
    <3>3. b[4 + j] = body[j]
      BY DEF Lies
    <3> QED
      BY <1>7, <1>9, <3>1, <3>2, <3>3
  <2> QED
    BY <2>1, <2>2, <2>3
<1>11. w = [i \in 1 .. 2 + length |-> w[i]]
  BY <1>9
<1>12. wrote' = w
  BY <1>8, <1>10, <1>11
<1> QED
  BY <1>1, <1>3, <1>6, <1>7, <1>9, <1>12

\* Two sequences put into the buffer, one behind the other.
LEMMA PutBoth ==
  ASSUME NEW b \in Buffers, NEW at \in Nat, NEW s \in Seq(Byte), NEW t \in Seq(Byte),
         at + Len(s) + Len(t) <= MQTT_MAX_PACKET_SIZE,
         NEW c, c = Put(Put(b, at, s), at + Len(s), t)
  PROVE  /\ c \in Buffers
         /\ \A i \in 1 .. Len(s) : c[at + i - 1] = s[i]
         /\ \A i \in 1 .. Len(t) : c[at + Len(s) + i - 1] = t[i]
         /\ \A j \in 0 .. MQTT_MAX_PACKET_SIZE - 1 : j < at => c[j] = b[j]
<1>1. PICK m \in Nat : m = MQTT_MAX_PACKET_SIZE
  BY MultiplesFacts
<1>2. PICK k \in Nat, n \in Nat : k = Len(s) /\ n = Len(t) /\ at + k + n <= m
  BY <1>1, LenProperties
<1>3. PICK a \in Buffers :
        /\ a = Put(b, at, s)
        /\ \A j \in 0 .. m - 1 : a[j] = IF at <= j /\ j < at + k THEN s[j - at + 1] ELSE b[j]
  BY <1>1, <1>2, PutFacts
<1>4. /\ c \in Buffers
      /\ \A j \in 0 .. m - 1 :
           c[j] = IF at + k <= j /\ j < at + k + n THEN t[j - (at + k) + 1] ELSE a[j]
  <2>1. at + k \in Nat
    BY <1>2
  <2>2. /\ Put(a, at + k, t) \in Buffers
        /\ \A j \in 0 .. MQTT_MAX_PACKET_SIZE - 1 :
             Put(a, at + k, t)[j]
               = IF at + k <= j /\ j < (at + k) + Len(t) THEN t[j - (at + k) + 1] ELSE a[j]
    BY <2>1, PutFacts
  <2> QED
    BY <1>1, <1>2, <1>3, <2>2
<1>5. ASSUME NEW i \in 1 .. k PROVE c[at + i - 1] = s[i]
  <2>1. /\ at + i - 1 \in 0 .. m - 1 /\ ~(at + k <= at + i - 1)
        /\ at <= at + i - 1 /\ at + i - 1 < at + k /\ (at + i - 1) - at + 1 = i
    BY <1>2
  <2> QED
    BY <1>3, <1>4, <2>1
<1>6. ASSUME NEW i \in 1 .. n PROVE c[at + k + i - 1] = t[i]
  <2>1. /\ at + k + i - 1 \in 0 .. m - 1 /\ at + k <= at + k + i - 1
        /\ at + k + i - 1 < at + k + n /\ (at + k + i - 1) - (at + k) + 1 = i
    BY <1>2
  <2> QED
    BY <1>4, <2>1
<1>7. ASSUME NEW j \in 0 .. m - 1, j < at PROVE c[j] = b[j]
  <2>1. ~(at + k <= j) /\ ~(at <= j)
    BY <1>2, <1>7
  <2> QED
    BY <1>3, <1>4, <2>1
<1> QED
  BY <1>1, <1>2, <1>4, <1>5, <1>6, <1>7

LEMMA Headed1 ==
  /\ Header("CONNECT", 0) \in Byte /\ Header("PUBLISH", 0) \in Byte
  /\ Header("SUBSCRIBE", 1) \in Byte /\ Header("PINGREQ", 0) \in Byte
  /\ Header("PINGRESP", 0) \in Byte /\ 0 \in Byte /\ 6 \in Byte
  BY BaseFacts DEF Header, Code, Byte

LEMMA WritesConnect ==
  ASSUME buffer \in Buffers,
         write(Put(buffer, 5, <<0, 6>> \o ConnectTail), Header("CONNECT", 0), 2 + Len(ConnectTail))
  PROVE  /\ buffer' \in Buffers /\ buffer'[5] = 0 /\ buffer'[6] = 6
         /\ wrote' = Bytes(Packet("CONNECT", <<0, 6>> \o ConnectTail))
<1>2. ConnectTail \in Seq(Byte) /\ 7 + Len(ConnectTail) <= MQTT_MAX_PACKET_SIZE
  BY MqttAssumption DEF Byte
<1>1. PICK m \in Nat, n \in Nat :
        m = MQTT_MAX_PACKET_SIZE /\ n = Len(ConnectTail) /\ 7 + n <= m /\ m >= 11
  <2>1. Len(ConnectTail) \in Nat
    BY <1>2, LenProperties
  <2> QED
    BY <1>2, <2>1, MultiplesFacts
<1>3. PICK body \in Seq(Byte) : /\ body = <<0, 6>> \o ConnectTail /\ Len(body) = 2 + n
                                /\ body[1] = 0 /\ body[2] = 6
  <2>1. LET body == <<0, 6>> \o ConnectTail IN
          body \in Seq(Byte) /\ Len(body) = 2 + n /\ body[1] = 0 /\ body[2] = 6
    BY <1>1, <1>2, Headed1
  <2> QED
    BY <2>1
<1>4. PICK b \in Buffers :
        /\ b = Put(buffer, 5, body)
        /\ \A j \in 0 .. m - 1 :
             b[j] = IF 5 <= j /\ j < 5 + (2 + n) THEN body[j - 5 + 1] ELSE buffer[j]
  <2>1. /\ Put(buffer, 5, body) \in Buffers
        /\ \A j \in 0 .. MQTT_MAX_PACKET_SIZE - 1 :
             Put(buffer, 5, body)[j]
               = IF 5 <= j /\ j < 5 + Len(body) THEN body[j - 5 + 1] ELSE buffer[j]
    BY PutFacts
  <2> QED
    BY <1>1, <1>3, <2>1
<1>5. Lies(b, body)
  <2>1. ASSUME NEW i \in 1 .. 2 + n PROVE b[4 + i] = body[i]
    <3>1. 4 + i \in 0 .. m - 1 /\ 5 <= 4 + i /\ 4 + i < 5 + (2 + n) /\ (4 + i) - 5 + 1 = i
      BY <1>1
    <3> QED
      BY <1>4, <3>1
  <2> QED
    BY <1>3, <2>1 DEF Lies
<1>6. PICK h \in Byte : h = Header("CONNECT", 0)
  BY Headed1
<1>7. write(b, h, 2 + n) /\ 2 + n \in Nat /\ 5 + (2 + n) <= MQTT_MAX_PACKET_SIZE
  BY <1>1, <1>3, <1>4, <1>6
<1>8. /\ buffer' \in Buffers
      /\ wrote' = <<h>> \o LengthField(Len(body)) \o body
      /\ \A j \in 5 .. MQTT_MAX_PACKET_SIZE - 1 : buffer'[j] = b[j]
  BY <1>3, <1>5, <1>7, Written
<1>9. buffer'[5] = b[5] /\ buffer'[6] = b[6] /\ b[5] = 0 /\ b[6] = 6
  BY <1>1, <1>3, <1>4, <1>8
<1>10. Bytes(Packet("CONNECT", body)) = <<h>> \o LengthField(Len(body)) \o body
  BY <1>6 DEF Bytes, Packet
<1> QED
  BY <1>3, <1>8, <1>9, <1>10

LEMMA WritesPublish ==
  ASSUME buffer \in Buffers,
         write(Put(writeString(ResponseTopic, buffer, 5), 7 + Len(ResponseTopic), Reply),
               Header("PUBLISH", 0), 2 + Len(ResponseTopic) + Len(Reply))
  PROVE  /\ buffer' \in Buffers
         /\ wrote' = Bytes(Packet("PUBLISH", String(ResponseTopic) \o Reply))
<1>2. /\ ResponseTopic \in Seq(Byte) /\ Reply \in Seq(Byte)
      /\ 7 + Len(ResponseTopic) + Len(Reply) <= MQTT_MAX_PACKET_SIZE
  BY MqttAssumption DEF Byte
<1>1. PICK m \in Nat, k \in Nat, n \in Nat :
        /\ m = MQTT_MAX_PACKET_SIZE /\ k = Len(ResponseTopic) /\ n = Len(Reply)
        /\ 7 + k + n <= m /\ m <= Base + 2
  <2>1. Len(ResponseTopic) \in Nat /\ Len(Reply) \in Nat
    BY <1>2, LenProperties
  <2> QED
    BY <1>2, <2>1, MultiplesFacts
<1>3. PICK t \in Seq(Byte) : t = String(ResponseTopic) /\ Len(t) = 2 + k
  <2>1. Len(ResponseTopic) < 2 * Base
    BY <1>1, BaseFacts
  <2> QED
    BY <1>1, <1>2, <2>1, Topics
<1>4. PICK body \in Seq(Byte) :
        /\ body = t \o Reply /\ Len(body) = 2 + k + n
        /\ \A i \in 1 .. 2 + k + n : body[i] = IF i <= 2 + k THEN t[i] ELSE Reply[i - (2 + k)]
  <2>1. PICK u : u = t \o Reply
    OBVIOUS
  <2>2. /\ u \in Seq(Byte) /\ Len(u) = Len(t) + Len(Reply)
        /\ \A i \in 1 .. Len(t) + Len(Reply) : u[i] = IF i <= Len(t) THEN t[i] ELSE Reply[i - Len(t)]
    BY <1>2, <2>1, ConcatProperties
  <2>3. /\ Len(u) = (2 + k) + n
        /\ \A i \in 1 .. (2 + k) + n : u[i] = IF i <= 2 + k THEN t[i] ELSE Reply[i - (2 + k)]
    BY <1>1, <1>3, <2>2, Zenon
  <2> QED
    BY <1>3, <2>1, <2>2, <2>3, Zenon
<1>5. PICK b \in Buffers :
        /\ b = Put(Put(buffer, 5, t), 5 + (2 + k), Reply)
        /\ \A i \in 1 .. 2 + k : b[5 + i - 1] = t[i]
        /\ \A i \in 1 .. n : b[5 + (2 + k) + i - 1] = Reply[i]
  <2>1. 5 \in Nat /\ 5 + Len(t) + Len(Reply) <= MQTT_MAX_PACKET_SIZE
    BY <1>1, <1>3
  <2>2. PICK c : c = Put(Put(buffer, 5, t), 5 + Len(t), Reply)
    OBVIOUS
  <2>3. /\ c \in Buffers
        /\ \A i \in 1 .. Len(t) : c[5 + i - 1] = t[i]
        /\ \A i \in 1 .. Len(Reply) : c[5 + Len(t) + i - 1] = Reply[i]
    BY <1>2, <2>1, <2>2, PutBoth
  <2> QED
    BY <1>1, <1>3, <2>2, <2>3
<1>6. Lies(b, body)
  <2>1. ASSUME NEW i \in 1 .. 2 + k + n PROVE b[4 + i] = body[i]
    <3>1. CASE i <= 2 + k
      <4>1. i \in 1 .. 2 + k /\ 5 + i - 1 = 4 + i
        BY <3>1
      <4> QED
        BY <1>4, <1>5, <3>1, <4>1
    <3>2. CASE ~(i <= 2 + k)
      <4>1. PICK j \in 1 .. n : j = i - (2 + k) /\ 5 + (2 + k) + j - 1 = 4 + i
        BY <3>2
      <4> QED
        BY <1>4, <1>5, <3>2, <4>1
    <3> QED
      BY <3>1, <3>2
  <2> QED
    BY <1>4, <2>1 DEF Lies
<1>7. PICK h \in Byte : h = Header("PUBLISH", 0)
  BY Headed1
<1>8. /\ write(b, h, 2 + k + n) /\ 2 + k + n \in Nat
      /\ 5 + (2 + k + n) <= MQTT_MAX_PACKET_SIZE
  <2>1. 5 + (2 + k) = 7 + k /\ 5 + (2 + k + n) <= m
    BY <1>1
  <2> QED
    BY <1>1, <1>3, <1>5, <1>7, <2>1 DEF writeString
<1>9. buffer' \in Buffers /\ wrote' = <<h>> \o LengthField(Len(body)) \o body
  BY <1>4, <1>6, <1>8, Written
<1>10. Bytes(Packet("PUBLISH", body)) = <<h>> \o LengthField(Len(body)) \o body
  BY <1>7 DEF Bytes, Packet
<1> QED
  BY <1>3, <1>4, <1>9, <1>10

LEMMA TwoDigits ==
  ASSUME NEW w \in Nat, w > 0, NEW n \in Nat, n < w * w
  PROVE  n \div w \in 0 .. w - 1 /\ n % w \in 0 .. w - 1
  OBVIOUS

LiesAt(c, at, s) == \A i \in 1 .. Len(s) : c[at + i - 1] = s[i]

SameBelow(c, b, at) == \A j \in 0 .. MQTT_MAX_PACKET_SIZE - 1 : j < at => c[j] = b[j]

LEMMA PutTwo ==
  ASSUME NEW b \in Buffers, NEW at \in Nat, NEW s \in Seq(Byte), NEW t \in Seq(Byte),
         NEW end \in Nat, end = at + Len(s), end + Len(t) <= MQTT_MAX_PACKET_SIZE
  PROVE  LET c == Put(Put(b, at, s), end, t)
         IN  c \in Buffers /\ LiesAt(c, at, s) /\ LiesAt(c, end, t) /\ SameBelow(c, b, at)
<1>1. PICK c : c = Put(Put(b, at, s), at + Len(s), t)
  OBVIOUS
<1>2. at + Len(s) + Len(t) <= MQTT_MAX_PACKET_SIZE
  OBVIOUS
<1>3. /\ c \in Buffers
      /\ \A i \in 1 .. Len(s) : c[at + i - 1] = s[i]
      /\ \A i \in 1 .. Len(t) : c[at + Len(s) + i - 1] = t[i]
      /\ \A j \in 0 .. MQTT_MAX_PACKET_SIZE - 1 : j < at => c[j] = b[j]
  BY <1>1, <1>2, PutBoth
<1> QED
  BY <1>1, <1>3 DEF LiesAt, SameBelow

\* The topic and the byte behind it, behind the place of the identifier.
TopicPut(b, a, k, t, z) ==
  /\ b = Put(Put(a, 7, t), 7 + (2 + k), z)
  /\ b[5] = 0 /\ b[6] = 6 /\ b[9 + k] = 0
  /\ \A i \in 1 .. 2 + k : b[7 + i - 1] = t[i]

LEMMA PutTopic ==
  ASSUME NEW a \in Buffers, a[5] = 0, a[6] = 6, NEW k \in Nat, 9 + k < MQTT_MAX_PACKET_SIZE,
         NEW t \in Seq(Byte), Len(t) = 2 + k, NEW z \in Seq(Byte), Len(z) = 1, z[1] = 0
  PROVE  \E b \in Buffers : TopicPut(b, a, k, t, z)
<1>1. PICK m \in Nat : m = MQTT_MAX_PACKET_SIZE /\ m >= 11
  BY MultiplesFacts
<1>2. PICK o \in Nat, e \in Nat : o = 7 /\ e = 7 + (2 + k)
  OBVIOUS
<1>3. e = o + Len(t) /\ e + Len(z) <= MQTT_MAX_PACKET_SIZE
  BY <1>1, <1>2
<1>4. PICK c : c = Put(Put(a, o, t), e, z)
  OBVIOUS
<1>5. c \in Buffers /\ LiesAt(c, o, t) /\ LiesAt(c, e, z) /\ SameBelow(c, a, o)
  BY <1>3, <1>4, PutTwo, Zenon
<1>6. c[5] = a[5] /\ c[6] = a[6]
  BY <1>1, <1>2, <1>5 DEF SameBelow
<1>7. c[9 + k] = 0
  <2>1. 1 \in 1 .. Len(z) /\ e + 1 - 1 = 9 + k
    BY <1>2
  <2> QED
    BY <1>5, <2>1 DEF LiesAt
<1>8. \A i \in 1 .. 2 + k : c[7 + i - 1] = t[i]
  BY <1>2, <1>5 DEF LiesAt
<1> QED
  BY <1>2, <1>4, <1>5, <1>6, <1>7, <1>8 DEF TopicPut

\* The identifier goes to the beginning; what CONNECT left is where it should be.
LEMMA WritesSubscribe ==
  ASSUME buffer \in Buffers, buffer[5] = 0, buffer[6] = 6,
         NEW next \in Nat, next < 4 * Base * Base,
         write(Put(writeString(FeedTopic,
                               Put(buffer, 0, <<next \div (2 * Base), next % (2 * Base)>>), 7),
                   9 + Len(FeedTopic), << 0 >>),
               Header("SUBSCRIBE", 1), 5 + Len(FeedTopic))
  PROVE  /\ buffer' \in Buffers /\ buffer'[5] = 0 /\ buffer'[6] = 6
         /\ wrote' = Bytes([type |-> "SUBSCRIBE", flag |-> 1,
                            body |-> <<0, 6>> \o String(FeedTopic) \o <<0>>])
<1>1. PICK m \in Nat, k \in Nat :
        m = MQTT_MAX_PACKET_SIZE /\ k = Len(FeedTopic) /\ 10 + k <= m /\ m <= Base + 2 /\ m >= 11
  BY FeedTopicFacts, MultiplesFacts
<1>2. PICK id \in Seq(Byte) : id = <<next \div (2 * Base), next % (2 * Base)>> /\ Len(id) = 2
  <2>1. PICK w \in Nat : w = 2 * Base /\ w > 0 /\ next < w * w
    BY BaseFacts
  <2>2. next \div w \in 0 .. w - 1 /\ next % w \in 0 .. w - 1
    BY <2>1, TwoDigits
  <2>3. next \div (2 * Base) \in Byte /\ next % (2 * Base) \in Byte
    BY <2>1, <2>2 DEF Byte
  <2>4. LET id == <<next \div (2 * Base), next % (2 * Base)>> IN id \in Seq(Byte) /\ Len(id) = 2
    BY <2>3
  <2> QED
    BY <2>4
<1>3. PICK t \in Seq(Byte) : t = String(FeedTopic) /\ Len(t) = 2 + k
  BY <1>1, FeedTopicFacts, Topics
<1>4. PICK z \in Seq(Byte) : z = <<0>> /\ Len(z) = 1 /\ z[1] = 0
  <2>1. <<0>> \in Seq(Byte) /\ Len(<<0>>) = 1 /\ <<0>>[1] = 0
    BY Headed1
  <2> QED
    BY <2>1
<1>5. PICK body \in Seq(Byte) :
        /\ body = <<0, 6>> \o t \o z /\ Len(body) = 5 + k
        /\ body[1] = 0 /\ body[2] = 6 /\ body[5 + k] = 0
        /\ \A i \in 1 .. 2 + k : body[2 + i] = t[i]
  <2>1. PICK f \in Seq(Byte) : f = <<0, 6>> /\ Len(f) = 2 /\ f[1] = 0 /\ f[2] = 6
    <3>1. <<0, 6>> \in Seq(Byte) /\ Len(<<0, 6>>) = 2 /\ <<0, 6>>[1] = 0 /\ <<0, 6>>[2] = 6
      BY Headed1
    <3> QED
      BY <3>1
  <2>2. PICK g \in Seq(Byte) :
          /\ g = f \o t /\ Len(g) = 4 + k
          /\ \A i \in 1 .. 4 + k : g[i] = IF i <= 2 THEN f[i] ELSE t[i - 2]
    <3>1. PICK u : u = f \o t
      OBVIOUS
    <3>2. /\ u \in Seq(Byte) /\ Len(u) = Len(f) + Len(t)
          /\ \A i \in 1 .. Len(f) + Len(t) : u[i] = IF i <= Len(f) THEN f[i] ELSE t[i - Len(f)]
      BY <3>1, ConcatProperties
    <3>3. /\ Len(u) = 2 + (2 + k)
          /\ \A i \in 1 .. 2 + (2 + k) : u[i] = IF i <= 2 THEN f[i] ELSE t[i - 2]
      BY <1>3, <2>1, <3>2, Zenon
    <3>4. 2 + (2 + k) = 4 + k
      OBVIOUS
    <3> QED
      BY <3>1, <3>2, <3>3, <3>4
  <2>3. PICK u \in Seq(Byte) :
          /\ u = g \o z /\ Len(u) = 5 + k
          /\ \A i \in 1 .. 5 + k : u[i] = IF i <= 4 + k THEN g[i] ELSE z[i - (4 + k)]
    <3>1. PICK u : u = g \o z
      OBVIOUS
    <3>2. /\ u \in Seq(Byte) /\ Len(u) = Len(g) + Len(z)
          /\ \A i \in 1 .. Len(g) + Len(z) : u[i] = IF i <= Len(g) THEN g[i] ELSE z[i - Len(g)]
      BY <3>1, ConcatProperties
    <3>3. /\ Len(u) = (4 + k) + 1
          /\ \A i \in 1 .. (4 + k) + 1 : u[i] = IF i <= 4 + k THEN g[i] ELSE z[i - (4 + k)]
      BY <1>4, <2>2, <3>2, Zenon
    <3>4. (4 + k) + 1 = 5 + k
      OBVIOUS
    <3> QED
      BY <3>1, <3>2, <3>3, <3>4
  <2>4. u[1] = 0 /\ u[2] = 6 /\ u[5 + k] = 0
    <3>1. (5 + k) - (4 + k) = 1
      OBVIOUS
    <3> QED
      BY <1>4, <2>1, <2>2, <2>3, <3>1
  <2>5. ASSUME NEW i \in 1 .. 2 + k PROVE u[2 + i] = t[i]
    <3>1. 2 + i \in 1 .. 4 + k /\ 2 + i \in 1 .. 5 + k /\ ~(2 + i <= 2) /\ 2 + i - 2 = i
      OBVIOUS
    <3> QED
      BY <2>2, <2>3, <3>1
  <2> QED
    BY <2>1, <2>2, <2>3, <2>4, <2>5
<1>6. PICK a \in Buffers : /\ a = Put(buffer, 0, id) /\ a[5] = 0 /\ a[6] = 6
  <2>1. PICK o \in Nat : o = 0
    OBVIOUS
  <2>2. /\ Put(buffer, o, id) \in Buffers
        /\ \A j \in 0 .. MQTT_MAX_PACKET_SIZE - 1 :
             Put(buffer, o, id)[j] = IF o <= j /\ j < o + Len(id) THEN id[j - o + 1] ELSE buffer[j]
    BY PutFacts
  <2>3. Put(buffer, o, id)[5] = buffer[5] /\ Put(buffer, o, id)[6] = buffer[6]
    <3>1. 5 \in 0 .. MQTT_MAX_PACKET_SIZE - 1 /\ 6 \in 0 .. MQTT_MAX_PACKET_SIZE - 1
      BY <1>1
    <3>2. ~(5 < o + Len(id)) /\ ~(6 < o + Len(id))
      BY <1>2, <2>1
    <3> QED
      BY <2>2, <3>1, <3>2, Zenon
  <2> QED
    BY <2>1, <2>2, <2>3
<1>7. PICK b \in Buffers :
        /\ b = Put(Put(a, 7, t), 7 + (2 + k), z)
        /\ b[5] = 0 /\ b[6] = 6 /\ b[9 + k] = 0
        /\ \A i \in 1 .. 2 + k : b[7 + i - 1] = t[i]
  <2>1. /\ a[5] = 0 /\ a[6] = 6 /\ 9 + k < MQTT_MAX_PACKET_SIZE
        /\ Len(t) = 2 + k /\ Len(z) = 1 /\ z[1] = 0
    BY <1>1, <1>3, <1>4, <1>6
  <2>2. PICK b \in Buffers : TopicPut(b, a, k, t, z)
    BY <2>1, PutTopic
  <2> QED
    BY <2>2 DEF TopicPut
<1>8. Lies(b, body)
  <2>1. ASSUME NEW i \in 1 .. 5 + k PROVE b[4 + i] = body[i]
    <3>1. CASE i = 1 \/ i = 2
      BY <1>5, <1>7, <3>1
    <3>2. CASE i = 5 + k
      <4>1. 4 + i = 9 + k
        BY <3>2
      <4> QED
        BY <1>5, <1>7, <3>2, <4>1
    <3>3. CASE i > 2 /\ i < 5 + k
      <4>1. PICK j \in 1 .. 2 + k : i = 2 + j /\ 7 + j - 1 = 4 + i
        <5>1. i - 2 \in 1 .. 2 + k /\ i = 2 + (i - 2) /\ 7 + (i - 2) - 1 = 4 + i
          BY <3>3
        <5> QED
          BY <5>1
      <4> QED
        BY <1>5, <1>7, <4>1
    <3> QED
      BY <3>1, <3>2, <3>3
  <2> QED
    BY <1>5, <2>1 DEF Lies
<1>9. PICK h \in Byte : h = Header("SUBSCRIBE", 1)
  BY Headed1
<1>10. write(b, h, 5 + k) /\ 5 + k \in Nat /\ 5 + (5 + k) <= MQTT_MAX_PACKET_SIZE
  <2>1. 7 + (2 + k) = 9 + k /\ 5 + (5 + k) <= m
    BY <1>1
  <2> QED
    BY <1>1, <1>2, <1>3, <1>4, <1>6, <1>7, <1>9, <2>1 DEF writeString
<1>11. /\ buffer' \in Buffers
       /\ wrote' = <<h>> \o LengthField(Len(body)) \o body
       /\ \A j \in 5 .. MQTT_MAX_PACKET_SIZE - 1 : buffer'[j] = b[j]
  BY <1>5, <1>8, <1>10, Written
<1>12. buffer'[5] = 0 /\ buffer'[6] = 6
  BY <1>1, <1>7, <1>11
<1>13. Bytes([type |-> "SUBSCRIBE", flag |-> 1, body |-> body])
         = <<h>> \o LengthField(Len(body)) \o body
  BY <1>9 DEF Bytes
<1> QED
  BY <1>3, <1>4, <1>5, <1>11, <1>12, <1>13

LEMMA WritesTwo ==
  ASSUME buffer \in Buffers, NEW type \in {"PINGREQ", "PINGRESP"}, writeTwo(Header(type, 0))
  PROVE  /\ buffer' \in Buffers /\ wrote' = <<Header(type, 0), 0>>
<1>1. PICK s \in Seq(Byte) : s = <<Header(type, 0), 0>>
  <2>1. <<Header(type, 0), 0>> \in Seq(Byte)
    BY Headed1
  <2> QED
    BY <2>1
<1>2. Put(buffer, 0, s) \in Buffers
  BY PutFacts
<1> QED
  BY <1>1, <1>2 DEF writeTwo

-----------------------------------------------------------------------------
(* The order of the packets.                                               *)

LEMMA OrderSent ==
  ASSUME OrderInv, pending \in Seq(Sendable), NEW packets \in Seq(Sendable \ Answers),
         pending' = pending \o packets, read.by # "connect", read'.by # "connect"
  PROVE  OrderInv'
<1>1. PICK m \in Nat, n \in Nat : m = Len(pending) /\ n = Len(packets)
  BY LenProperties
<1>2. /\ Len(pending') = m + n
      /\ \A i \in 1 .. m + n : pending'[i] = IF i <= m THEN pending[i] ELSE packets[i - m]
  BY <1>1
<1>3. \A i \in 1 .. m : pending[i] \notin Answers
  BY <1>1 DEF OrderInv
<1>4. ASSUME NEW i \in 1 .. m + n PROVE pending'[i] \notin Answers
  <2>1. CASE i <= m
    BY <1>2, <1>3, <2>1
  <2>2. CASE ~(i <= m)
    <3>1. i - m \in 1 .. n
      BY <2>2
    <3> QED
      BY <1>1, <1>2, <2>2, <3>1
  <2> QED
    BY <2>1, <2>2
<1> QED
  BY <1>2, <1>4 DEF OrderInv

LEMMA OrderDeals ==
  ASSUME OrderInv, pending \in Seq(Sendable), pending # <<>>, pending' = Tail(pending),
         read'.by # "connect"
  PROVE  OrderInv'
<1>1. PICK m \in Nat : Len(pending) = 1 + m
  BY FirstPacket
<1>2. Len(pending') = m /\ \A i \in 1 .. m : pending'[i] = pending[i + 1]
  BY <1>1
<1>3. ASSUME NEW i \in 1 .. m PROVE pending'[i] \notin Answers
  <2>1. i + 1 \in 1 .. Len(pending) /\ i + 1 # 1
    BY <1>1
  <2> QED
    BY <1>2, <2>1 DEF OrderInv
<1> QED
  BY <1>2, <1>3 DEF OrderInv

LEMMA OrderCut ==
  ASSUME OrderInv, pending \in Seq(Sendable), begun \in Nat, begun <= Len(pending), Cut,
         UNCHANGED read, session' # "subscribed"
  PROVE  OrderInv'
<1>1. PICK n \in Nat : n = begun /\ n <= Len(pending)
  OBVIOUS
<1>2. Len(pending') = n /\ \A i \in 1 .. n : pending'[i] = pending[i]
  BY <1>1 DEF Cut
<1>3. ASSUME NEW i \in 1 .. n, pending'[i] \in Answers PROVE read.by = "connect" /\ i = 1
  BY <1>1, <1>2, <1>3 DEF OrderInv
<1>4. ASSUME read.by = "connect", pending' # <<>> PROVE Head(pending') \in Answers
  <2>1. pending' \in Seq(Sendable) /\ n # 0
    BY <1>1, <1>2, <1>4 DEF Cut
  <2>2. Head(pending') = pending[1] /\ pending # <<>> /\ Head(pending) = pending[1]
    BY <1>1, <1>2, <2>1
  <2> QED
    BY <1>4, <2>2 DEF OrderInv
<1> QED
  BY <1>2, <1>3, <1>4 DEF OrderInv

LEMMA OrderStops ==
  ASSUME stop
  PROVE  OrderInv'
<1>1. Len(<<>>) = 0 /\ 1 .. 0 = {}
  OBVIOUS
<1> QED
  BY <1>1 DEF stop, OrderInv

LEMMA OrderSame ==
  ASSUME OrderInv, UNCHANGED <<pending, session>>, read'.by = "connect" <=> read.by = "connect"
  PROVE  OrderInv'
  BY DEF OrderInv

\* Every packet but the answer to CONNECT.
LEMMA OthersFacts ==
  /\ <<Packet("PINGREQ", <<>>)>> \in Seq(Sendable \ Answers)
  /\ <<Packet("PINGRESP", <<>>)>> \in Seq(Sendable \ Answers)
  /\ \A v \in Values : /\ <<Feed(v, 0)>> \in Seq(Sendable \ Answers)
                       /\ <<SUBACK, Feed(v, 1)>> \in Seq(Sendable \ Answers)
<1>1. /\ Packet("PINGREQ", <<>>) \in Sendable \ Answers
      /\ Packet("PINGRESP", <<>>) \in Sendable \ Answers
      /\ SUBACK \in Sendable \ Answers
  BY DEF Sendable, Pings, Answers, CONNACK, REFUSED, SUBACK, Packet
<1>2. ASSUME NEW v \in Values, NEW r \in {0, 1} PROVE Feed(v, r) \in Sendable \ Answers
  <2>1. Feed(v, r) \in Sendable
    BY DEF Sendable
  <2>2. Feed(v, r).type = "PUBLISH"
    BY DEF Feed
  <2> QED
    BY <2>1, <2>2, SendableFacts
<1> QED
  BY <1>1, <1>2

LEMMA OthersSendable == Seq(Sendable \ Answers) \subseteq Seq(Sendable)
  OBVIOUS

LEMMA AnswersSendable == CONNACK \in Answers /\ REFUSED \in Answers /\ Answers \subseteq Sendable
  BY DEF Answers, Sendable

-----------------------------------------------------------------------------
(* The steps of the program.                                               *)

LEMMA ReadValues ==
  /\ Idle.by = "none" /\ Idle.at = "rest"
  /\ \A caller : readPacket(caller).by = caller /\ readPacket(caller).at = "header"
  /\ ~(readPacket("connect") \in CallbackReads)
  BY DEF Idle, readPacket, CallbackReads

LEMMA IdleFacts ==
  ASSUME read' = Idle
  PROVE  ReadTypeOK' /\ ~InPacket' /\ AtRest' /\ read'.by = "none"
  BY DEF ReadTypeOK, Idle, InPacket, AtRest

LEMMA FirstBytes ==
  ASSUME TypeInv, WriteInv
  PROVE  /\ AtRest => read = Idle /\ read.by = "none" /\ ~InPacket
         /\ CosmState = "CosmConnected" => AtRest /\ buffer[5] = 0 /\ buffer[6] = 6
  BY ReadTypes, IdleFacts DEF TypeInv, WriteInv, Idle, InPacket, AtRest

\* The connection is closed by the program.
LEMMA StopKeeps ==
  ASSUME IInv, stop, read' = Idle, UNCHANGED <<buffer, nextMsgId, wrote, feed>>,
         CosmState' \in {CosmState, "CosmDisconnected"}
  PROVE  IInv'
<1>1. ReadTypeOK' /\ ~InPacket' /\ AtRest' /\ read'.by = "none"
  BY IdleFacts
<1>2. TypeInv'
  BY <1>1 DEF IInv, TypeInv, stop
<1>3. StreamInv'
  BY <1>1, StopsInv
<1>4. OrderInv'
  BY OrderStops
<1>5. WriteInv'
  BY <1>1 DEF IInv, WriteInv, WrittenWell
<1> QED
  BY <1>2, <1>3, <1>4, <1>5 DEF IInv

LEMMA PowerCutKeeps ==
  ASSUME IInv, PowerCut
  PROVE  IInv'
<1>1. /\ read' = Idle /\ nextMsgId' = 0 /\ stop /\ wrote' = <<>> /\ feed' = feed
      /\ CosmState' = "CosmDisconnected"
  BY DEF PowerCut, worldVars
<1>2. ReadTypeOK' /\ ~InPacket' /\ AtRest' /\ read'.by = "none"
  BY <1>1, IdleFacts
<1>3. buffer' \in Buffers
  <2>1. DOMAIN buffer = 0 .. MQTT_MAX_PACKET_SIZE - 1
    BY DEF IInv, TypeInv, Buffers
  <2>2. buffer' = [i \in 0 .. MQTT_MAX_PACKET_SIZE - 1 |-> 0]
    BY <2>1 DEF PowerCut
  <2> QED
    BY <2>2, Headed1 DEF Buffers
<1>4. TypeInv'
  BY <1>1, <1>2, <1>3, BaseFacts DEF IInv, TypeInv, stop
<1>5. StreamInv' /\ OrderInv'
  BY <1>1, <1>2, StopsInv, OrderStops
<1>6. WriteInv'
  BY <1>1, <1>2 DEF WriteInv, WrittenWell
<1> QED
  BY <1>4, <1>5, <1>6 DEF IInv

LEMMA OpensKeeps ==
  ASSUME IInv, CosmState = "CosmDisconnected", NEW answer \in Answers, connectOpens(answer),
         UNCHANGED <<botVars, feed>>
  PROVE  IInv'
<1>1. /\ nextMsgId' = 1 /\ sock' = "open" /\ session' = "connected" /\ rx' = <<>>
      /\ air' = <<Bytes(answer)>> /\ pending' = <<answer>> /\ begun' = 0
      /\ read' = [by |-> "connect", at |-> "wait"]
      /\ write(Put(buffer, 5, <<0, 6>> \o ConnectTail), Header("CONNECT", 0),
               2 + Len(ConnectTail))
  BY DEF connectOpens
<1>2. buffer \in Buffers /\ feed' \in Values /\ CosmState' = "CosmDisconnected"
  BY DEF IInv, TypeInv, botVars
<1>3. /\ buffer' \in Buffers /\ buffer'[5] = 0 /\ buffer'[6] = 6
      /\ wrote' = Bytes(Packet("CONNECT", <<0, 6>> \o ConnectTail))
  BY <1>1, <1>2, WritesConnect
<1>4. ReadTypeOK' /\ ~InPacket' /\ read'.by = "connect"
  BY <1>1 DEF ReadTypeOK, InPacket
<1>5. TypeInv'
  <2>1. 1 \in Nat /\ 1 < 4 * Base * Base
    <3>1. Base * Base >= Base
      BY BaseFacts
    <3> QED
      BY <3>1, BaseFacts
  <2> QED
    BY <1>1, <1>2, <1>3, <1>4, <2>1 DEF TypeInv
<1>6. StreamInv'
  <2>1. answer \in Sendable /\ Alive'
    BY <1>1, AnswersSendable DEF Alive
  <2>2. Stream(<<>>, <<>>, <<>>, <<answer>>, <<>>)'
    BY <1>1, <2>1, StreamOpens
  <2> QED
    BY <1>4, <2>2 DEF StreamInv
<1>7. OrderInv'
  <2>1. Len(pending') = 1 /\ pending'[1] = answer /\ Head(pending') = answer
    BY <1>1
  <2> QED
    BY <1>1, <1>4, <2>1 DEF OrderInv
<1>8. WriteInv'
  BY <1>2, <1>3 DEF WriteInv, WrittenWell
<1> QED
  BY <1>5, <1>6, <1>7, <1>8 DEF IInv

LEMMA BeginsKeeps ==
  ASSUME IInv, NEW caller \in {"connect", "loop"}, rx # <<>>, ~InPacket,
         caller = "connect" <=> read.by = "connect", read' = readPacket(caller),
         CosmState # "CosmConnected", UNCHANGED <<buffer, rx, reads, CosmState, feed>>
  PROVE  IInv'
<1>1. read'.by = caller /\ read'.at = "header"
  BY ReadValues
<1>2. ReadTypeOK'
  <2>1. read' \in PacketReads
    BY MultiplesFacts DEF readPacket, PacketReads
  <2> QED
    BY <2>1 DEF ReadTypeOK
<1>3. TypeInv'
  BY <1>2 DEF IInv, TypeInv, reads
<1>4. StreamInv'
  <2>1. UNCHANGED <<buffer, rx, air, pending, begun, session>>
    BY DEF reads
  <2> QED
    BY <2>1, BeginsInv DEF IInv
<1>5. OrderInv'
  BY <1>1, OrderSame DEF IInv, reads
<1>6. WriteInv'
  BY <1>1 DEF IInv, WriteInv, WrittenWell, reads
<1> QED
  BY <1>3, <1>4, <1>5, <1>6 DEF IInv

\* While the answer to CONNECT is read the first bytes of the buffer are written.
LEMMA AnswerPlace ==
  ASSUME IInv, InPacket, read.by = "connect", read.at # "done"
  PROVE  read.len \in 0 .. 4
<1>1. PICK p \in Sendable : Progress(p) /\ Stored(p) /\ Head(pending) = p /\ pending # <<>>
  BY OpenPacket DEF IInv
<1>2. p \in Answers
  BY <1>1 DEF IInv, OrderInv
<1>3. Len(p.body) = 2 /\ Sized(p)
  BY <1>2, SendableFacts
<1>4. Ahead(p) = 2
  <2>1. Len(p.body) < Base
    BY <1>3, BaseFacts
  <2> QED
    BY <1>3, <2>1, BytesFacts
<1>5. read \in PacketReads
  BY ReadTypes DEF IInv, TypeInv
<1>6. Place(p) <= 4
  BY <1>1, <1>3, <1>4, <1>5, BaseFacts
     DEF Progress, AtHeader, AtFirstDigit, AtSecondDigit, InBody, Place, PacketReads, InPacket
<1>7. PICK off \in Multiples : Place(p) = off + read.len
  BY <1>1 DEF Stored
<1>8. off \in Nat
  BY MultiplesFacts
<1>9. read.len \in Nat
  BY <1>5, MultiplesFacts DEF PacketReads
<1> QED
  BY <1>6, <1>7, <1>8, <1>9

LEMMA ReadByteKeeps ==
  ASSUME IInv, ReadByte
  PROVE  IInv'
<1>1. /\ readHeader \/ readDigit \/ readBody
      /\ UNCHANGED <<reads, feed, CosmState>>
      /\ rx # <<>> /\ read.at # "done"
      /\ buffer' # buffer => buffer' = Put(buffer, read.len, <<Head(rx)>>)
  <2>1. UNCHANGED <<feed, CosmState>>
    BY DEF ReadByte, botVars, Quietly
  <2> QED
    BY <2>1 DEF ReadByte, readHeader, readDigit, readBody
<1>2. /\ StreamInv' /\ read' \in PacketReads /\ buffer' \in Buffers
      /\ read'.by = read.by /\ InPacket
  BY <1>1, ReadsInv DEF IInv
<1>3. TypeInv'
  BY <1>1, <1>2 DEF IInv, TypeInv, ReadTypeOK, reads
<1>4. OrderInv'
  BY <1>1, <1>2, OrderSame DEF IInv, reads
<1>5. WriteInv'
  <2>1. WrittenWell'
    BY <1>1 DEF IInv, WriteInv, WrittenWell, reads
  <2>2. CosmState' # "CosmConnected"
    BY <1>1, <1>2, FirstBytes DEF IInv
  <2>3. ASSUME read.by = "connect" PROVE buffer'[5] = buffer[5] /\ buffer'[6] = buffer[6]
    <3>1. CASE buffer' = buffer
      BY <3>1
    <3>2. CASE buffer' # buffer
      <4>1. read.len \in 0 .. 4
        BY <1>1, <1>2, <2>3, AnswerPlace
      <4>2. /\ read.len \in 0 .. MQTT_MAX_PACKET_SIZE - 1
            /\ 5 \in 0 .. MQTT_MAX_PACKET_SIZE - 1 /\ 6 \in 0 .. MQTT_MAX_PACKET_SIZE - 1
            /\ 5 # read.len /\ 6 # read.len
        BY <4>1, MultiplesFacts
      <4>3. Head(rx) \in Byte /\ buffer \in Buffers
        BY <1>1, StreamTypes DEF IInv, TypeInv
      <4>4. \A j \in 0 .. MQTT_MAX_PACKET_SIZE - 1 :
              j # read.len => Put(buffer, read.len, <<Head(rx)>>)[j] = buffer[j]
        BY <4>2, <4>3, PutOne
      <4> QED
        BY <1>1, <3>2, <4>2, <4>4
    <3> QED
      BY <3>1, <3>2
  <2> QED
    BY <1>2, <2>1, <2>2, <2>3 DEF IInv, WriteInv
<1> QED
  BY <1>2, <1>3, <1>4, <1>5 DEF IInv

LEMMA DealsKeeps ==
  ASSUME IInv, read.at = "done", dealtWith, UNCHANGED <<rx, air, session, sock, nextMsgId, feed>>,
         CosmState' = CosmState \/ read.by = "connect",
         \/ read' = Idle
         \/ read' \in CallbackReads,
         WrittenWell', buffer' \in Buffers,
         CosmState' = "CosmConnected" =>
           read.by = "connect" /\ buffer' = buffer /\ read' = Idle
  PROVE  IInv'
<1>1. ReadTypeOK' /\ ~InPacket' /\ read'.by # "connect" /\ (read' = Idle => AtRest')
  BY DEF ReadTypeOK, CallbackReads, Idle, InPacket, AtRest
<1>2. InPacket
  BY DEF InPacket
<1>3. TypeInv'
  BY <1>1 DEF IInv, TypeInv
<1>4. StreamInv'
  BY <1>1, DealsInv DEF IInv
<1>5. OrderInv'
  <2>1. pending \in Seq(Sendable) /\ pending # <<>>
    BY <1>2, OpenPacket DEF IInv
  <2>2. pending' = Tail(pending)
    BY DEF dealtWith
  <2> QED
    BY <1>1, <2>1, <2>2, OrderDeals DEF IInv
<1>6. WriteInv'
  BY <1>1 DEF IInv, WriteInv
<1> QED
  BY <1>3, <1>4, <1>5, <1>6 DEF IInv

LEMMA AnsweredKeeps ==
  ASSUME IInv, Answered
  PROVE  IInv'
<1>1. UNCHANGED feed
  BY DEF Answered, Quietly
<1>2. CASE connectReads /\ UNCHANGED CosmState
  <2>1. /\ read.at = "wait" /\ rx # <<>> /\ read' = readPacket("connect")
        /\ UNCHANGED <<buffer, rx, reads>>
    BY <1>2 DEF connectReads
  <2>2. read = [by |-> "connect", at |-> "wait"]
    BY <2>1, ReadTypes DEF IInv, TypeInv
  <2>3. read.by = "connect" /\ ~InPacket
    BY <2>2 DEF InPacket
  <2>4. CosmState # "CosmConnected"
    BY <2>3, FirstBytes DEF IInv
  <2> QED
    BY <1>1, <1>2, <2>1, <2>3, <2>4, BeginsKeeps
<1>3. CASE connectAccepted
  <2>1. /\ read.at = "done" /\ read.by = "connect" /\ read' = Idle /\ dealtWith
        /\ UNCHANGED <<buffer, nextMsgId, sock, rx, air, session, wrote>>
    BY <1>3 DEF connectAccepted, Done
  <2>2. WrittenWell' /\ buffer' \in Buffers
    BY <2>1 DEF IInv, TypeInv, WriteInv, WrittenWell
  <2> QED
    BY <1>1, <2>1, <2>2, DealsKeeps
<1>4. CASE (connectGivesUp \/ connectTimesOut) /\ UNCHANGED CosmState
  <2>1. stop /\ read' = Idle /\ UNCHANGED <<buffer, nextMsgId, wrote>>
    BY <1>4 DEF connectGivesUp, connectTimesOut
  <2> QED
    BY <1>1, <1>4, <2>1, StopKeeps
<1> QED
  BY <1>2, <1>3, <1>4 DEF Answered

LEMMA DispatchKeeps ==
  ASSUME IInv, Dispatch
  PROVE  IInv'
<1>1. UNCHANGED <<feed, CosmState>>
  BY DEF Dispatch, Quietly
<1>2. PICK step \in 1 .. 4 : /\ step = 1 => loopSkips
                             /\ step = 2 => loopPongs
                             /\ step = 3 => loopAnswersPing
                             /\ step = 4 => loopCalls
  BY DEF Dispatch
<1>3. /\ read.at = "done" /\ read.by = "loop" /\ dealtWith
      /\ UNCHANGED <<nextMsgId, sock, rx, air, session>>
  BY <1>2 DEF loopSkips, loopPongs, loopAnswersPing, loopCalls, Done
<1>4. buffer \in Buffers /\ read \in PacketReads /\ WrittenWell
  <2>1. InPacket
    BY <1>3 DEF InPacket
  <2> QED
    BY <2>1, ReadTypes DEF IInv, TypeInv, WriteInv
<1>5. read' = Idle \/ read' \in CallbackReads
  <2>1. CASE step = 4
    <3>1. buffer[2] \in Int /\ buffer[3] \in Int
      <4>1. 2 \in 0 .. MQTT_MAX_PACKET_SIZE - 1 /\ 3 \in 0 .. MQTT_MAX_PACKET_SIZE - 1
        BY MultiplesFacts
      <4> QED
        BY <1>4, <4>1, BaseFacts DEF Buffers, Byte
    <3>2. PICK l \in Int, x \in Int, y \in Int :
            /\ l = read.len /\ x = 4 + TopicLength /\ y = read.len - 4 - TopicLength
      <4>1. read.len \in Int
        BY <1>4, MultiplesFacts DEF PacketReads
      <4>2. TopicLength \in Int
        BY <3>1, BaseFacts DEF TopicLength
      <4> QED
        BY <4>1, <4>2
    <3>3. read' = [by |-> "callback", at |-> "callback", payload |-> x, length |-> y]
      BY <1>2, <2>1, <3>2 DEF loopCalls
    <3> QED
      BY <3>3 DEF CallbackReads
  <2>2. CASE step # 4
    BY <1>2, <2>2 DEF loopSkips, loopPongs, loopAnswersPing
  <2> QED
    BY <2>1, <2>2
<1>6. WrittenWell' /\ buffer' \in Buffers
  <2>1. CASE step = 3
    <3>1. writeTwo(Header("PINGRESP", 0))
      BY <1>2, <2>1 DEF loopAnswersPing
    <3>2. buffer' \in Buffers /\ wrote' = <<Header("PINGRESP", 0), 0>>
      BY <1>4, <3>1, WritesTwo
    <3> QED
      BY <3>2 DEF WrittenWell
  <2>2. CASE step # 3
    <3>1. UNCHANGED <<buffer, wrote>>
      BY <1>2, <2>2 DEF loopSkips, loopPongs, loopCalls
    <3> QED
      BY <1>4, <3>1 DEF WrittenWell
  <2> QED
    BY <2>1, <2>2
<1>7. CosmState' # "CosmConnected"
  BY <1>1, <1>3, FirstBytes DEF IInv, AtRest
<1> QED
  BY <1>1, <1>3, <1>5, <1>6, <1>7, DealsKeeps

LEMMA LoopKeeps ==
  ASSUME IInv, Loop
  PROVE  IInv'
<1>1. UNCHANGED feed /\ (CosmState = "CosmSubscribed" \/ read.by = "loop")
  BY DEF Loop, Quietly
<1>2. CASE loopDisconnected /\ CosmState' = "CosmDisconnected"
  <2>1. AtRest /\ stop /\ UNCHANGED <<buffer, nextMsgId, read, wrote>>
    BY <1>2 DEF loopDisconnected
  <2>2. read' = Idle
    BY <2>1, FirstBytes DEF IInv
  <2> QED
    BY <1>1, <1>2, <2>1, <2>2, StopKeeps
<1>3. CASE loopPing /\ UNCHANGED botVars
  <2>1. /\ AtRest /\ writeTwo(Header("PINGREQ", 0))
        /\ IF Reached THEN Sent(<<Packet("PINGRESP", <<>>)>>) ELSE NothingSent
        /\ read' = [by |-> "loop", at |-> "available"]
        /\ UNCHANGED <<nextMsgId, sock, rx, session, CosmState>>
    BY <1>3 DEF loopPing, botVars
  <2>2. read = Idle /\ read.by = "none" /\ ~InPacket /\ buffer \in Buffers
    BY <2>1, FirstBytes DEF IInv, TypeInv
  <2>3. ReadTypeOK' /\ ~InPacket' /\ read'.by = "loop"
    BY <2>1 DEF ReadTypeOK, InPacket
  <2>4. buffer' \in Buffers /\ wrote' = <<Header("PINGREQ", 0), 0>>
    BY <2>1, <2>2, WritesTwo
  <2>5. TypeInv'
    BY <1>1, <2>1, <2>3, <2>4 DEF IInv, TypeInv
  <2>6. StreamInv' /\ OrderInv'
    <3>1. CASE Reached
      <4>1. Alive /\ Alive'
        BY <2>1, <3>1 DEF IInv, TypeInv, Reached, Alive
      <4>2. PICK packets \in Seq(Sendable \ Answers) : packets = <<Packet("PINGRESP", <<>>)>>
        BY OthersFacts
      <4>3. packets \in Seq(Sendable) /\ Sent(packets)
        BY <2>1, <3>1, <4>2, OthersSendable
      <4>4. StreamInv'
        BY <2>1, <2>2, <2>3, <4>1, <4>3, SendsInv DEF IInv
      <4>5. OrderInv'
        BY <2>2, <2>3, <4>3, StreamTypes, OrderSent DEF IInv, Sent
      <4> QED
        BY <4>4, <4>5
    <3>2. CASE ~Reached
      <4>1. UNCHANGED <<rx, air, pending, begun, session>> /\ Alive' = Alive
        BY <2>1, <3>2 DEF NothingSent, Alive
      <4>2. StreamInv'
        BY <2>2, <2>3, <4>1, SameInv DEF IInv
      <4>3. OrderInv'
        BY <2>2, <2>3, <4>1, OrderSame DEF IInv
      <4> QED
        BY <4>2, <4>3
    <3> QED
      BY <3>1, <3>2
  <2>7. WriteInv'
    BY <1>1, <2>1, <2>2, <2>3, <2>4 DEF WriteInv, WrittenWell
  <2> QED
    BY <2>5, <2>6, <2>7 DEF IInv
<1>4. CASE loopLooks /\ UNCHANGED botVars
  <2>1. /\ AtRest \/ read.at = "available"
        /\ read' = IF rx # <<>> THEN readPacket("loop") ELSE Idle
        /\ UNCHANGED <<buffer, rx, reads, CosmState>>
    BY <1>4 DEF loopLooks, botVars
  <2>2. ~InPacket /\ read.by # "connect" /\ CosmState # "CosmConnected"
    <3>1. CASE AtRest
      BY <1>1, <3>1, FirstBytes DEF IInv
    <3>2. CASE read.at = "available"
      <4>1. read = [by |-> "loop", at |-> "available"]
        BY <3>2, ReadTypes DEF IInv, TypeInv
      <4> QED
        BY <4>1, FirstBytes DEF IInv, InPacket, AtRest
    <3> QED
      BY <2>1, <3>1, <3>2
  <2>3. CASE rx # <<>>
    BY <1>1, <2>1, <2>2, <2>3, BeginsKeeps
  <2>4. CASE rx = <<>>
    <3>1. read' = Idle /\ ReadTypeOK' /\ ~InPacket' /\ AtRest' /\ read'.by = "none"
      BY <2>1, <2>4, IdleFacts
    <3>2. /\ UNCHANGED <<rx, air, pending, begun, session, sock, nextMsgId, buffer, wrote>>
          /\ Alive' = Alive
      BY <2>1 DEF reads, Alive
    <3>3. StreamInv' /\ OrderInv'
      BY <2>2, <3>1, <3>2, SameInv, OrderSame DEF IInv
    <3>4. TypeInv'
      BY <1>1, <3>1, <3>2 DEF IInv, TypeInv
    <3>5. WriteInv'
      BY <2>1, <2>2, <3>1, <3>2 DEF IInv, WriteInv, WrittenWell
    <3> QED
      BY <3>3, <3>4, <3>5 DEF IInv
  <2> QED
    BY <2>3, <2>4
<1> QED
  BY <1>2, <1>3, <1>4 DEF Loop

LEMMA ConnectKeeps ==
  ASSUME IInv, Connect
  PROVE  IInv'
<1>1. CosmState = "CosmDisconnected" /\ UNCHANGED <<botVars, feed>>
  BY DEF Connect, Quietly
<1>2. CASE connectOpens(CONNACK) \/ connectOpens(REFUSED)
  <2>1. PICK answer \in Answers : connectOpens(answer)
    BY <1>2, AnswersSendable
  <2> QED
    BY <1>1, <2>1, OpensKeeps
<1>3. CASE connectFails
  <2>1. AtRest /\ stop /\ UNCHANGED <<buffer, nextMsgId, read, wrote>>
    BY <1>3 DEF connectFails
  <2>2. read' = Idle /\ CosmState' = CosmState
    BY <1>1, <2>1, FirstBytes DEF IInv, botVars
  <2> QED
    BY <1>1, <2>1, <2>2, StopKeeps
<1> QED
  BY <1>2, <1>3 DEF Connect

LEMMA SubscribeKeeps ==
  ASSUME IInv, Subscribe
  PROVE  IInv'
<1>1. /\ CosmState = "CosmConnected" /\ CosmState' \in {"CosmConnected", "CosmSubscribed"}
      /\ UNCHANGED feed
      /\ \E delivered \in BOOLEAN : subscribe(delivered, feed)
  BY DEF Subscribe, Quietly
<1>2. PICK delivered \in BOOLEAN : subscribe(delivered, feed)
  BY <1>1
<1>3. /\ AtRest /\ UNCHANGED <<read, sock, rx>>
      /\ nextMsgId' = IF nextMsgId + 1 = 4 * Base * Base THEN 1 ELSE nextMsgId + 1
      /\ write(Put(writeString(FeedTopic,
                               Put(buffer, 0, <<nextMsgId' \div (2 * Base), nextMsgId' % (2 * Base)>>),
                               7),
                   9 + Len(FeedTopic), <<0>>),
               Header("SUBSCRIBE", 1), 5 + Len(FeedTopic))
      /\ \/ delivered /\ Reached /\ session' = "subscribed" /\ Sent(<<SUBACK, Feed(feed, 1)>>)
         \/ UNCHANGED session /\ NothingSent
  BY <1>2 DEF subscribe
<1>4. /\ read = Idle /\ read.by = "none" /\ ~InPacket /\ buffer \in Buffers
      /\ buffer[5] = 0 /\ buffer[6] = 6 /\ feed \in Values
  BY <1>1, <1>3, FirstBytes DEF IInv, TypeInv
<1>5. PICK next \in Nat : next = nextMsgId' /\ next < 4 * Base * Base
  <2>1. PICK l \in Nat : l = 4 * Base * Base /\ l > 1
    <3>1. Base * Base \in Nat /\ Base * Base >= Base
      BY BaseFacts
    <3> QED
      BY <3>1, BaseFacts
  <2> QED
    BY <1>3, <2>1 DEF IInv, TypeInv
<1>6. /\ buffer' \in Buffers /\ buffer'[5] = 0 /\ buffer'[6] = 6
      /\ wrote' = Bytes([type |-> "SUBSCRIBE", flag |-> 1,
                         body |-> <<0, 6>> \o String(FeedTopic) \o <<0>>])
  BY <1>3, <1>4, <1>5, WritesSubscribe
<1>7. ReadTypeOK' /\ ~InPacket' /\ AtRest' /\ read'.by = "none"
  BY <1>3, <1>4, IdleFacts
<1>8. TypeInv'
  BY <1>1, <1>3, <1>5, <1>6, <1>7 DEF IInv, TypeInv, Reached
<1>9. StreamInv' /\ OrderInv'
  <2>1. CASE Reached /\ session' = "subscribed" /\ Sent(<<SUBACK, Feed(feed, 1)>>)
    <3>1. Alive /\ Alive'
      BY <2>1 DEF IInv, TypeInv, Reached, Alive
    <3>2. PICK packets \in Seq(Sendable \ Answers) : packets = <<SUBACK, Feed(feed, 1)>>
      BY <1>4, OthersFacts
    <3>3. packets \in Seq(Sendable) /\ Sent(packets)
      BY <2>1, <3>2, OthersSendable
    <3>4. StreamInv'
      BY <1>3, <1>4, <1>7, <3>1, <3>3, SendsInv DEF IInv
    <3>5. OrderInv'
      BY <1>4, <1>7, <3>3, StreamTypes, OrderSent DEF IInv, Sent
    <3> QED
      BY <3>4, <3>5
  <2>2. CASE UNCHANGED session /\ NothingSent
    <3>1. UNCHANGED <<rx, air, pending, begun, session>> /\ Alive' = Alive
      BY <1>3, <2>2 DEF NothingSent, Alive
    <3>2. StreamInv'
      BY <1>4, <1>7, <3>1, SameInv DEF IInv
    <3>3. OrderInv'
      BY <1>4, <1>7, <3>1, OrderSame DEF IInv
    <3> QED
      BY <3>2, <3>3
  <2> QED
    BY <1>3, <2>1, <2>2
<1>10. WriteInv'
  <2>1. WrittenWell'
    <3>1. <<0, 6>> \in (Byte \X Byte) \ {<<0, 0>>}
      BY Headed1
    <3> QED
      BY <1>6, <3>1 DEF WrittenWell
  <2> QED
    BY <1>6, <1>7, <2>1 DEF WriteInv
<1> QED
  BY <1>8, <1>9, <1>10 DEF IInv

\* What changes neither the bytes nor the packets, nor what is written.
LEMMA RestKeeps ==
  ASSUME IInv, ~InPacket, ~InPacket', ReadTypeOK', read.by # "connect", read'.by # "connect",
         UNCHANGED <<rx, air, pending, begun, session, sock, nextMsgId, feed>>,
         buffer' \in Buffers, WrittenWell', CosmState' # "CosmConnected"
  PROVE  IInv'
<1>1. TypeInv'
  BY DEF IInv, TypeInv
<1>2. Alive' = Alive
  BY DEF Alive
<1>3. StreamInv'
  BY <1>2, SameInv DEF IInv
<1>4. OrderInv'
  BY OrderSame DEF IInv
<1>5. WriteInv'
  BY DEF WriteInv
<1> QED
  BY <1>1, <1>3, <1>4, <1>5 DEF IInv

LEMMA CallbackKeeps ==
  ASSUME IInv, Callback
  PROVE  IInv'
<1>1. /\ read.at = "callback" /\ read' = [read EXCEPT !.at = "publish"]
      /\ UNCHANGED <<buffer, rx, reads, CosmState, feed>>
  BY DEF Callback, Quietly
<1>2. read \in CallbackReads /\ read.by = "callback" /\ ~InPacket
  BY <1>1, ReadTypes DEF IInv, TypeInv, InPacket
<1>3. read' \in CallbackReads
  BY <1>1, <1>2 DEF CallbackReads
<1>4. ReadTypeOK' /\ ~InPacket' /\ read'.by = "callback"
  BY <1>3 DEF ReadTypeOK, CallbackReads, InPacket
<1>5. WrittenWell' /\ buffer' \in Buffers
  BY <1>1 DEF IInv, TypeInv, WriteInv, WrittenWell, reads
<1>6. CosmState' # "CosmConnected"
  BY <1>1, FirstBytes DEF IInv, AtRest
<1> QED
  BY <1>1, <1>2, <1>4, <1>5, <1>6, RestKeeps DEF reads

LEMMA RepliesKeeps ==
  ASSUME IInv, Replies
  PROVE  IInv'
<1>1. read.at = "publish" /\ read' = Idle /\ UNCHANGED <<feed, CosmState>> /\ publish
  BY DEF Replies, publish, Quietly
<1>2. read.by = "callback" /\ ~InPacket /\ buffer \in Buffers
  BY <1>1, ReadTypes DEF IInv, TypeInv, InPacket, CallbackReads
<1>3. CASE connected
  <2>1. /\ write(Put(writeString(ResponseTopic, buffer, 5), 7 + Len(ResponseTopic), Reply),
                 Header("PUBLISH", 0), 2 + Len(ResponseTopic) + Len(Reply))
        /\ UNCHANGED <<nextMsgId, sock, rx, air, session, pending, begun>>
    BY <1>1, <1>3 DEF publish
  <2>2. /\ buffer' \in Buffers
        /\ wrote' = Bytes(Packet("PUBLISH", String(ResponseTopic) \o Reply))
    BY <1>2, <2>1, WritesPublish
  <2>3. WrittenWell'
    BY <2>2 DEF WrittenWell
  <2>4. ReadTypeOK' /\ ~InPacket' /\ AtRest' /\ read'.by = "none"
    BY <1>1, IdleFacts
  <2>5. CosmState' # "CosmConnected"
    BY <1>1, FirstBytes DEF IInv, AtRest
  <2> QED
    BY <1>1, <1>2, <2>1, <2>2, <2>3, <2>4, <2>5, RestKeeps
<1>4. CASE ~connected
  <2>1. stop /\ UNCHANGED <<buffer, nextMsgId, wrote>>
    BY <1>1, <1>4 DEF publish
  <2> QED
    BY <1>1, <2>1, StopKeeps
<1> QED
  BY <1>3, <1>4

LEMMA UpdateStatusKeeps ==
  ASSUME IInv, UpdateStatus
  PROVE  IInv'
<1>1. /\ AtRest /\ stop /\ UNCHANGED <<buffer, nextMsgId, read, wrote, feed>>
      /\ CosmState' = "CosmDisconnected"
  BY DEF UpdateStatus, connectedNot, Quietly
<1>2. read' = Idle
  BY <1>1, FirstBytes DEF IInv
<1> QED
  BY <1>1, <1>2, StopKeeps

-----------------------------------------------------------------------------
(* The steps of the network and the server.                                *)

\* They leave the library alone, and the connection answers to no CONNECT twice.
LEMMA WorldKeeps ==
  ASSUME IInv, UNCHANGED <<buffer, nextMsgId, read, wrote, CosmState>>,
         StreamInv', OrderInv', feed' \in Values,
         sock' \in {"none", "open", "closeWait"},
         session' \in {"none", "connected", "subscribed", "lost"},
         sock' = "open" <=> session' # "none"
  PROVE  IInv'
<1>1. TypeInv'
  BY DEF IInv, TypeInv, ReadTypeOK
<1>2. WriteInv'
  BY DEF IInv, WriteInv, WrittenWell, AtRest
<1> QED
  BY <1>1, <1>2 DEF IInv

LEMMA BegunFacts ==
  ASSUME StreamInv
  PROVE  begun \in Nat /\ begun <= Len(pending) /\ pending \in Seq(Sendable)
<1>1. PICK open, left, behind, coming, rest : Stream(open, left, behind, coming, rest)
  BY DEF StreamInv
<1>2. /\ begun \in Nat /\ Len(pending) = begun + Len(coming) /\ pending \in Seq(Sendable)
      /\ coming \in Seq(Sendable)
  BY <1>1, StreamPackets DEF Stream
<1>3. Len(coming) \in Nat
  BY <1>2, LenProperties
<1> QED
  BY <1>2, <1>3

LEMMA ArriveKeeps ==
  ASSUME IInv, Arrive
  PROVE  IInv'
<1>1. UNCHANGED <<buffer, nextMsgId, read, wrote, CosmState, feed, sock, session, pending>>
  BY DEF Arrive, libraryVars, botVars, worldVars
<1>2. StreamInv'
  <2>1. ASSUME NEW open, NEW left, NEW behind, NEW coming, NEW rest,
               Stream(open, left, behind, coming, rest)
        PROVE  \E b, c, r : Stream(open, left, b, c, r)'
    BY <2>1, StreamArrives
  <2> QED
    BY <1>1, <2>1, KeepsStream DEF IInv
<1>3. OrderInv'
  BY <1>1, OrderSame DEF IInv
<1> QED
  BY <1>1, <1>2, <1>3, WorldKeeps DEF IInv, TypeInv

\* Packets sent by the server to a subscriber.
LEMMA SentKeeps ==
  ASSUME IInv, session = "subscribed", sock = "open", NEW packets \in Seq(Sendable \ Answers),
         Sent(packets), UNCHANGED <<buffer, nextMsgId, read, wrote, CosmState, rx, session, sock>>,
         feed' \in Values
  PROVE  IInv'
<1>1. packets \in Seq(Sendable) /\ Alive /\ Alive'
  BY OthersSendable DEF Alive
<1>2. StreamInv'
  <2>1. ASSUME NEW open, NEW left, NEW behind, NEW coming, NEW rest,
               Stream(open, left, behind, coming, rest)
        PROVE  \E b, c, r : Stream(open, left, b, c, r)'
    BY <1>1, <2>1, StreamSends
  <2> QED
    BY <2>1, KeepsStream DEF IInv
<1>3. OrderInv'
  <2>1. read.by # "connect" /\ read'.by # "connect"
    BY DEF IInv, OrderInv
  <2> QED
    BY <2>1, StreamTypes, OrderSent DEF IInv, Sent
<1> QED
  BY <1>2, <1>3, WorldKeeps DEF IInv, TypeInv

\* Nothing happens to the bytes.
LEMMA StillKeeps ==
  ASSUME IInv, UNCHANGED <<buffer, nextMsgId, read, wrote, CosmState>>,
         UNCHANGED <<rx, air, pending, begun, session, sock>>, feed' \in Values
  PROVE  IInv'
<1>1. Alive' = Alive
  BY DEF Alive
<1>2. StreamInv'
  <2>1. ASSUME NEW open, NEW left, NEW behind, NEW coming, NEW rest,
               Stream(open, left, behind, coming, rest)
        PROVE  \E b, c, r : Stream(open, left, b, c, r)'
    BY <1>1, <2>1, StreamSame
  <2> QED
    BY <2>1, KeepsStream DEF IInv
<1>3. OrderInv'
  BY OrderSame DEF IInv
<1> QED
  BY <1>2, <1>3, WorldKeeps DEF IInv, TypeInv

LEMMA CutKeeps ==
  ASSUME IInv, Cut, sock' \in {"open", "closeWait"}, session' \in {"none", "lost"},
         sock' = "open" <=> session' # "none",
         UNCHANGED <<buffer, nextMsgId, read, wrote, CosmState, rx, feed>>
  PROVE  IInv'
<1>1. ~Alive' /\ session' # "subscribed"
  BY DEF Alive
<1>2. StreamInv'
  <2>1. ASSUME NEW open, NEW left, NEW behind, NEW coming, NEW rest,
               Stream(open, left, behind, coming, rest)
        PROVE  \E b, c, r : Stream(open, left, b, c, r)'
    BY <1>1, <2>1, StreamCut
  <2> QED
    BY <2>1, KeepsStream DEF IInv
<1>3. OrderInv'
  BY <1>1, BegunFacts, OrderCut DEF IInv
<1>4. feed' \in Values
  BY DEF IInv, TypeInv
<1> QED
  BY <1>2, <1>3, <1>4, WorldKeeps

LEMMA WorldStepKeeps ==
  ASSUME IInv, World
  PROVE  IInv'
<1>1. CASE PassOn
  <2>1. PICK value \in Values :
          /\ feed' = value
          /\ IF sock = "open" /\ session = "subscribed" THEN Sent(<<Feed(value, 0)>>)
             ELSE NothingSent
    BY <1>1 DEF PassOn
  <2>2. /\ UNCHANGED <<buffer, nextMsgId, read, wrote, CosmState, rx, session, sock>>
        /\ feed' \in Values
    BY <1>1, <2>1 DEF PassOn, libraryVars, botVars
  <2>3. CASE sock = "open" /\ session = "subscribed"
    <3>1. PICK packets \in Seq(Sendable \ Answers) : packets = <<Feed(value, 0)>>
      BY OthersFacts
    <3> QED
      BY <2>1, <2>2, <2>3, <3>1, SentKeeps
  <2>4. CASE ~(sock = "open" /\ session = "subscribed")
    BY <2>1, <2>2, <2>4, StillKeeps DEF NothingSent
  <2> QED
    BY <2>3, <2>4
<1>2. CASE ServerPings
  <2>1. PICK packets \in Seq(Sendable \ Answers) : packets = <<Packet("PINGREQ", <<>>)>>
    BY OthersFacts
  <2>2. /\ UNCHANGED <<buffer, nextMsgId, read, wrote, CosmState, rx, session, sock>>
        /\ feed' \in Values /\ session = "subscribed" /\ sock = "open" /\ Sent(packets)
    BY <1>2, <2>1 DEF ServerPings, libraryVars, botVars, IInv, TypeInv
  <2> QED
    BY <2>2, SentKeeps
<1>3. CASE ServerCloses \/ ConnectionLost
  <2>1. /\ Cut /\ sock' \in {"open", "closeWait"} /\ session' \in {"none", "lost"}
        /\ sock' = "open" <=> session' # "none"
        /\ UNCHANGED <<buffer, nextMsgId, read, wrote, CosmState, rx, feed>>
    BY <1>3 DEF ServerCloses, ConnectionLost, libraryVars, botVars
  <2> QED
    BY <2>1, CutKeeps
<1>4. CASE KeepaliveRunsOut
  <2>1. /\ UNCHANGED <<buffer, nextMsgId, read, wrote, CosmState>>
        /\ UNCHANGED <<rx, air, pending, begun, session, sock>> /\ feed' \in Values
    BY <1>4 DEF KeepaliveRunsOut, botVars, worldVars, IInv, TypeInv
  <2> QED
    BY <2>1, StillKeeps
<1> QED
  BY <1>1, <1>2, <1>3, <1>4, ArriveKeeps, PowerCutKeeps DEF World

-----------------------------------------------------------------------------
(* What holds always.                                                      *)

LEMMA InitIInv == Init => IInv
<1> SUFFICES ASSUME Init PROVE IInv
  OBVIOUS
<1>1. /\ read = Idle /\ rx = <<>> /\ air = <<>> /\ pending = <<>> /\ begun = 0
      /\ buffer = [i \in 0 .. MQTT_MAX_PACKET_SIZE - 1 |-> 0] /\ wrote = <<>>
      /\ session = "none" /\ sock = "none" /\ nextMsgId = 0 /\ feed \in Values
      /\ CosmState = "CosmDisconnected"
  BY DEF Init, MqttInit
<1>2. ReadTypeOK /\ ~InPacket /\ read.by = "none"
  BY <1>1 DEF ReadTypeOK, Idle, InPacket
<1>3. buffer \in Buffers
  BY <1>1, Headed1 DEF Buffers
<1>4. 0 < 4 * Base * Base
  <2>1. Base * Base \in Nat /\ Base * Base >= Base
    BY BaseFacts
  <2> QED
    BY <2>1, BaseFacts
<1>5. TypeInv
  BY <1>1, <1>2, <1>3, <1>4 DEF TypeInv
<1>6. Stream(<<>>, <<>>, <<>>, <<>>, <<>>)
  <2>1. <<>> \in Seq(Sendable) /\ <<>> \in Seq(Byte) /\ Len(<<>>) = 0 /\ <<>> \o <<>> = <<>>
    OBVIOUS
  <2> QED
    BY <1>1, <2>1, BytesOfNone DEF Stream, Alive
<1>7. StreamInv
  BY <1>2, <1>6 DEF StreamInv
<1>8. OrderInv
  <2>1. Len(<<>>) = 0 /\ 1 .. 0 = {}
    OBVIOUS
  <2> QED
    BY <1>1, <1>2, <2>1 DEF OrderInv
<1>9. WriteInv
  BY <1>1, <1>2 DEF WriteInv, WrittenWell
<1> QED
  BY <1>5, <1>7, <1>8, <1>9 DEF IInv

LEMMA StepIInv == IInv /\ [Next]_vars => IInv'
<1> SUFFICES ASSUME IInv, [Next]_vars PROVE IInv'
  OBVIOUS
<1>1. CASE Program
  BY <1>1, ConnectKeeps, AnsweredKeeps, SubscribeKeeps, LoopKeeps, ReadByteKeeps, DispatchKeeps,
     CallbackKeeps, RepliesKeeps, UpdateStatusKeeps DEF Program
<1>2. CASE World
  BY <1>2, WorldStepKeeps
<1>3. CASE UNCHANGED vars
  <2>1. /\ UNCHANGED <<buffer, nextMsgId, read, wrote, CosmState>>
        /\ UNCHANGED <<rx, air, pending, begun, session, sock>> /\ feed' \in Values
    BY <1>3 DEF vars, mqttVars, botVars, worldVars, IInv, TypeInv
  <2> QED
    BY <2>1, StillKeeps
<1> QED
  BY <1>1, <1>2, <1>3 DEF Next

\* The invariant: the bytes that are unread or on their way are those of the
\* packets sent, and of the packet that is being read the buffer holds what has
\* been read of it (PubSubClient.cpp:122-146).
THEOREM IInvAlways == Spec => []IInv
<1> QED
  BY InitIInv, StepIInv, PTL DEF Spec

\* WrittenWell: what the library writes is a packet, with the length it says, and
\* a SUBSCRIBE has an identifier other than zero: what CONNECT has left in the
\* buffer (PubSubClient.cpp:266-309).
THEOREM WrittenWellAlways == Spec => []WrittenWell
<1>1. IInv => WrittenWell
  BY DEF IInv, WriteInv
<1> QED
  BY <1>1, IInvAlways, PTL

LEMMA PrefixFacts ==
  ASSUME NEW S, NEW a \in Seq(S), NEW b \in Seq(S)
  PROVE  IsPrefix(a, a \o b)
<1>1. PICK m \in Nat, n \in Nat : m = Len(a) /\ n = Len(b)
  BY LenProperties
<1>2. PICK u : u = a \o b
  OBVIOUS
<1>3. /\ u \in Seq(S) /\ Len(u) = m + n
      /\ \A i \in 1 .. m : u[i] = a[i]
  BY <1>1, <1>2
<1>4. SubSeq(u, 1, m) = SubSeq(a, 1, m)
  <2>1. /\ SubSeq(u, 1, m) \in Seq(S) /\ Len(SubSeq(u, 1, m)) = m
        /\ \A i \in 1 .. m : SubSeq(u, 1, m)[i] = u[i]
    BY <1>3
  <2>2. /\ SubSeq(a, 1, m) \in Seq(S) /\ Len(SubSeq(a, 1, m)) = m
        /\ \A i \in 1 .. m : SubSeq(a, 1, m)[i] = a[i]
    BY <1>1
  <2> QED
    BY <1>3, <2>1, <2>2, SeqEqual
<1> QED
  BY <1>1, <1>2, <1>3, <1>4 DEF IsPrefix

\* Between two calls the stream is in step.
LEMMA BetweenBytes ==
  ASSUME NEW behind, NEW coming, NEW rest, Stream(<<>>, <<>>, behind, coming, rest)
  PROVE  IF Alive THEN rx \o Concat(air) = Concat(Segments(pending))
         ELSE IsPrefix(rx \o Concat(air), Concat(Segments(pending)))
<1>1. /\ behind \in Seq(Sendable) /\ coming \in Seq(Sendable) /\ rest \in Seq(Byte)
      /\ rx \in Seq(Byte)
      /\ pending = <<>> \o behind \o coming /\ rx \o rest = <<>> \o BytesOf(behind)
      /\ IF Alive THEN air = OnTheWay(rest, coming) ELSE air = <<>> /\ coming = <<>>
  BY DEF Stream
<1>2. pending = behind \o coming
  BY <1>1
<1>3. PICK b \in Seq(Byte), c \in Seq(Byte) : b = BytesOf(behind) /\ c = BytesOf(coming)
  BY <1>1, BytesOfType
<1>4. rx \o rest = b
  BY <1>1, <1>3
<1>5. Concat(Segments(pending)) = b \o c
  <2>1. BytesOf(behind \o coming) = BytesOf(behind) \o BytesOf(coming)
    BY <1>1, BytesOfBoth
  <2> QED
    BY <1>2, <1>3, <2>1 DEF BytesOf
<1>6. CASE Alive /\ rest = <<>>
  <2>1. Concat(air) = c
    BY <1>1, <1>3, <1>6 DEF OnTheWay, BytesOf
  <2>2. rx = b
    BY <1>1, <1>4, <1>6
  <2> QED
    BY <1>5, <1>6, <2>1, <2>2
<1>7. CASE Alive /\ rest # <<>>
  <2>1. air = <<rest>> \o Segments(coming)
    BY <1>1, <1>7 DEF OnTheWay
  <2>2. <<rest>> \in Seq(Seq(Byte)) /\ Segments(coming) \in Seq(Seq(Byte))
    BY <1>1, SegmentsFacts
  <2>3. Concat(air) = Concat(<<rest>>) \o Concat(Segments(coming))
    BY <2>1, <2>2, ConcatBoth
  <2>4. Concat(air) = rest \o c
    BY <1>1, <1>3, <2>3, ConcatOne DEF BytesOf
  <2>5. rx \o (rest \o c) = b \o c
    BY <1>1, <1>4, RegroupedBytes, Zenon
  <2> QED
    BY <1>5, <1>7, <2>4, <2>5
<1>8. CASE ~Alive
  <2>1. air = <<>> /\ c = <<>>
    BY <1>1, <1>3, <1>8, BytesOfNone
  <2>2. rx \o Concat(air) = rx
    BY <1>1, <2>1, ConcatEmpty
  <2>3. b \o c = rx \o rest
    BY <1>4, <2>1
  <2>4. IsPrefix(rx, rx \o rest)
    BY <1>1, PrefixFacts
  <2> QED
    BY <1>5, <1>8, <2>2, <2>3, <2>4
<1> QED
  BY <1>6, <1>7, <1>8

\* InStep: between two calls the bytes that are unread or on their way are whole
\* packets, those that have not been dealt with (a part of them when the
\* connection has been cut): whatever its length, a packet is read to its end and
\* not further, and nothing is stored behind the end of the buffer
\* (PubSubClient.cpp:122-146).
THEOREM InStepAlways == Spec => []InStep
<1>1. ASSUME IInv PROVE InStep
  <2>1. ASSUME read.at = "body" PROVE read.len <= MQTT_MAX_PACKET_SIZE
    <3>1. read \in PacketReads
      BY <1>1, <2>1, ReadTypes DEF IInv, TypeInv, InPacket
    <3> QED
      BY <3>1, MultiplesFacts DEF PacketReads
  <2>2. ASSUME read.at \in {"rest", "wait", "available", "callback", "publish"}
        PROVE  IF Alive THEN rx \o Concat(air) = Concat(Segments(pending))
               ELSE IsPrefix(rx \o Concat(air), Concat(Segments(pending)))
    <3>1. ~InPacket
      BY <2>2 DEF InPacket
    <3>2. PICK behind, coming, rest : Stream(<<>>, <<>>, behind, coming, rest)
      BY <1>1, <3>1 DEF IInv, StreamInv
    <3> QED
      BY <3>2, BetweenBytes
  <2> QED
    BY <2>1, <2>2 DEF InStep, Alive
<1> QED
  BY <1>1, IInvAlways, PTL

-----------------------------------------------------------------------------
(* What is done with a packet that has been read.                          *)

\* A packet longer than the buffer is written over its own beginning, as often as
\* the buffer is full: from what is left of it in the buffer it must not look like
\* another packet.
NoneTakenForAnother ==
  \A v \in Values, r \in {0, 1}, off \in Multiples \ {0} :
    LET b == Bytes(Feed(v, r))
    IN  off < Len(b) /\ Len(b) <= off + MQTT_MAX_PACKET_SIZE =>
          \A type \in loopTypes : TypeOf(b[off + 1]) # Code[type]

\* Values that fit into the buffer leave no remainder.
LEMMA FittingValues ==
  ASSUME \A v \in Values, r \in {0, 1} : Fits(Feed(v, r))
  PROVE  NoneTakenForAnother
<1> SUFFICES ASSUME NEW v \in Values, NEW r \in {0, 1}, NEW off \in Multiples \ {0},
                    off < Len(Bytes(Feed(v, r)))
             PROVE  FALSE
  BY DEF NoneTakenForAnother
<1>1. PICK o \in Nat, m \in Nat : o = off /\ m = MQTT_MAX_PACKET_SIZE /\ o > m
  BY MultiplesFacts
<1>2. Len(Bytes(Feed(v, r))) \in Nat /\ Len(Bytes(Feed(v, r))) <= m
  <2>1. PICK p \in Sendable : p = Feed(v, r)
    BY DEF Sendable
  <2> QED
    BY <1>1, <2>1, SendableBytes DEF Fits
<1> QED
  BY <1>1, <1>2

\* The packet that has been read, and what the buffer holds of it.
ReadOut(p, off, len) ==
  /\ p \in Sendable /\ off \in Multiples /\ len \in 0 .. MQTT_MAX_PACKET_SIZE
  /\ pending \in Seq(Sendable) /\ pending # <<>> /\ Head(pending) = p
  /\ read.len = len /\ Len(Bytes(p)) = off + len
  /\ \A j \in 0 .. len - 1 : buffer[j] = Bytes(p)[off + j + 1]

LEMMA HasReadOut ==
  ASSUME IInv, read.at = "done"
  PROVE  \E p, off, len : ReadOut(p, off, len)
<1>1. InPacket /\ read \in PacketReads
  <2>1. InPacket
    BY DEF InPacket
  <2> QED
    BY <2>1, ReadTypes DEF IInv, TypeInv
<1>2. PICK p \in Sendable : /\ Progress(p) /\ Stored(p) /\ Head(pending) = p /\ pending # <<>>
                            /\ pending \in Seq(Sendable)
  BY <1>1, OpenPacket DEF IInv
<1>3. Place(p) = Len(Bytes(p))
  BY <1>2, PlaceFacts DEF IInv, TypeInv
<1>4. PICK off \in Multiples : Place(p) = off + read.len /\ Holds(p, off)
  BY <1>2 DEF Stored
<1>5. PICK len \in 0 .. MQTT_MAX_PACKET_SIZE : len = read.len
  BY <1>1 DEF PacketReads
<1>6. ReadOut(p, off, len)
  BY <1>2, <1>3, <1>4, <1>5 DEF ReadOut, Holds
<1> QED
  BY <1>6

LEMMA ReadOutNumbers ==
  ASSUME NEW p, NEW off, NEW len, ReadOut(p, off, len)
  PROVE  \E m, l, o \in Nat :
           /\ m = MQTT_MAX_PACKET_SIZE /\ l = len /\ l <= m /\ o = off
           /\ o = 0 \/ o > m
           /\ m <= Base + 2
<1>1. PICK m \in Nat : m = MQTT_MAX_PACKET_SIZE /\ m <= Base + 2
  BY MultiplesFacts
<1>2. len \in 0 .. m /\ off \in Multiples
  BY <1>1 DEF ReadOut
<1>3. len \in Nat /\ len <= m
  BY <1>2
<1>4. off \in Nat /\ (off = 0 \/ off > m)
  BY <1>1, <1>2, MultiplesFacts
<1> QED
  BY <1>1, <1>3, <1>4

\* A packet that fits lies in the buffer from its beginning.
LEMMA FitsFacts ==
  ASSUME NEW p, NEW off, NEW len, ReadOut(p, off, len)
  PROVE  /\ Fits(p) <=> off = 0
         /\ off = 0 => /\ len = Len(Bytes(p)) /\ len >= 2
                       /\ \A j \in 0 .. len - 1 : buffer[j] = Bytes(p)[j + 1]
                       /\ TypeOf(buffer[0]) = Code[p.type]
<1>1. PICK m \in Nat, l \in Nat, o \in Nat :
        /\ m = MQTT_MAX_PACKET_SIZE /\ l = len /\ l <= m /\ o = off
        /\ o = 0 \/ o > m
  BY ReadOutNumbers
<1>2. /\ p \in Sendable /\ Len(Bytes(p)) = o + l
      /\ \A j \in 0 .. l - 1 : buffer[j] = Bytes(p)[o + j + 1]
  BY <1>1 DEF ReadOut
<1>3. Fits(p) <=> o = 0
  BY <1>1, <1>2 DEF Fits
<1>4. ASSUME o = 0
      PROVE  /\ l = Len(Bytes(p)) /\ l >= 2
             /\ \A j \in 0 .. l - 1 : buffer[j] = Bytes(p)[j + 1]
             /\ TypeOf(buffer[0]) = Code[p.type]
  <2>1. l = Len(Bytes(p)) /\ l >= 2
    BY <1>2, <1>4, SendableBytes
  <2>2. \A j \in 0 .. l - 1 : buffer[j] = Bytes(p)[j + 1]
    BY <1>2, <1>4
  <2>3. 0 \in 0 .. l - 1 /\ 0 + 1 = 1
    BY <2>1
  <2>4. Bytes(p)[1] = Header(p.type, p.flag) /\ Sized(p)
    BY <1>2, SendableFacts, BytesFacts
  <2>5. buffer[0] = Header(p.type, p.flag)
    BY <2>2, <2>3, <2>4
  <2> QED
    BY <2>1, <2>2, <2>4, <2>5, Headers DEF Sized
<1> QED
  BY <1>1, <1>3, <1>4

LEMMA Codes ==
  ASSUME NEW s \in {"CONNACK", "SUBACK", "PINGREQ", "PINGRESP", "PUBLISH"},
         NEW t \in {"CONNACK", "SUBACK", "PINGREQ", "PINGRESP", "PUBLISH"}, Code[s] = Code[t]
  PROVE  s = t
  BY DEF Code

\* Only packets that take a length in two bytes do not fit: values of the feed.
LEMMA OnlyValuesAreLong ==
  ASSUME NEW p \in Sendable, ~Fits(p)
  PROVE  p.type = "PUBLISH"
<1>1. SUFFICES ASSUME p.type # "PUBLISH" PROVE FALSE
  OBVIOUS
<1>2. PICK n \in Nat : n = Len(p.body) /\ n <= 3 /\ Sized(p)
  <2>1. Sized(p) /\ Len(p.body) <= 3
    BY <1>1, SendableFacts
  <2> QED
    BY <2>1, LenProperties DEF Sized
<1>3. n < Base
  BY <1>2, BaseFacts
<1>4. Len(Bytes(p)) = 2 + n
  BY <1>2, <1>3, BytesFacts
<1> QED
  BY <1>2, <1>4, MultiplesFacts DEF Fits

\* What loop() takes the packet for is what it is.
LEMMA TakenForItself ==
  ASSUME NoneTakenForAnother, NEW p, NEW off, NEW len, ReadOut(p, off, len),
         NEW type \in loopTypes, len > 0, TypeOf(buffer[0]) = Code[type]
  PROVE  Fits(p) /\ p.type = type
<1>1. CASE off = 0
  <2>1. Fits(p) /\ Code[p.type] = Code[type]
    BY <1>1, FitsFacts
  <2>2. p.type \in {"CONNACK", "SUBACK", "PINGREQ", "PINGRESP", "PUBLISH"}
    BY SendableFacts DEF ReadOut, Sized
  <2> QED
    BY <2>1, <2>2, Codes DEF loopTypes
<1>2. CASE off # 0
  <2>1. p \in Sendable /\ ~Fits(p) /\ off \in Multiples \ {0}
    <3>1. p \in Sendable /\ off \in Multiples
      BY DEF ReadOut
    <3>2. ~Fits(p)
      BY <1>2, FitsFacts
    <3> QED
      BY <1>2, <3>1, <3>2
  <2>2. p.type = "PUBLISH"
    BY <2>1, OnlyValuesAreLong
  <2>3. PICK v \in Values, r \in {0, 1} : p = Feed(v, r)
    BY <2>1, <2>2, SendableFacts
  <2>4. PICK m \in Nat, l \in Nat, o \in Nat :
          m = MQTT_MAX_PACKET_SIZE /\ l = len /\ l <= m /\ o = off /\ l > 0
    BY ReadOutNumbers
  <2>5. Len(Bytes(p)) = o + l /\ buffer[0] = Bytes(p)[o + 1]
    <3>1. 0 \in 0 .. l - 1 /\ o + 0 + 1 = o + 1
      BY <2>4
    <3> QED
      BY <2>4, <3>1 DEF ReadOut
  <2>6. off < Len(Bytes(Feed(v, r))) /\ Len(Bytes(Feed(v, r))) <= off + MQTT_MAX_PACKET_SIZE
    BY <2>3, <2>4, <2>5
  <2>7. TypeOf(Bytes(Feed(v, r))[off + 1]) # Code[type]
    BY <2>1, <2>6 DEF NoneTakenForAnother
  <2> QED
    BY <2>3, <2>4, <2>5, <2>7
<1> QED
  BY <1>1, <1>2

\* A value that fits, and where callback finds it.
LEMMA CalledWith ==
  ASSUME NEW p, NEW off, NEW len, ReadOut(p, off, len), Fits(p), p.type = "PUBLISH",
         buffer \in Buffers
  PROVE  \E v \in Values :
           /\ Payload(p) = v /\ len - 4 - TopicLength = Len(v)
           /\ \A i \in 1 .. Len(v) : buffer[4 + TopicLength + i - 1] = v[i]
<1>1. p \in Sendable /\ off = 0
  BY FitsFacts DEF ReadOut
<1>2. PICK v \in Values, r \in {0, 1} : p = Feed(v, r)
  BY <1>1, SendableFacts
<1>3. PICK k \in Nat, n \in Nat, b \in Seq(Byte) :
        /\ k = Len(FeedTopic) /\ n = Len(v) /\ b = p.body
        /\ Sized(p) /\ Payload(p) = v /\ Len(b) = 2 + k + n
        /\ b[1] = 0 /\ b[2] = k /\ \A i \in 1 .. n : b[2 + k + i] = v[i]
  <2>1. /\ Sized(p) /\ v \in Seq(Byte) /\ Len(p.body) = 2 + Len(FeedTopic) + Len(v)
        /\ p.body[1] = 0 /\ p.body[2] = Len(FeedTopic) /\ Payload(p) = v
        /\ \A i \in 1 .. Len(v) : p.body[2 + Len(FeedTopic) + i] = v[i]
    BY <1>2, FeedFacts
  <2>2. Len(FeedTopic) \in Nat /\ Len(v) \in Nat /\ p.body \in Seq(Byte)
    BY <2>1, FeedTopicFacts, LenProperties DEF Sized
  <2> QED
    BY <2>1, <2>2
<1>4. PICK l \in Nat, a \in Seq(Byte) :
        /\ l = len /\ a = Bytes(p) /\ l = Len(a) /\ l <= MQTT_MAX_PACKET_SIZE
        /\ \A j \in 0 .. l - 1 : buffer[j] = a[j + 1]
  <2>1. Bytes(p) \in Seq(Byte)
    BY <1>1, SendableBytes
  <2>2. PICK l \in Nat : l = len /\ l <= MQTT_MAX_PACKET_SIZE
    BY ReadOutNumbers
  <2>3. l = Len(Bytes(p)) /\ \A j \in 0 .. l - 1 : buffer[j] = Bytes(p)[j + 1]
    BY <1>1, <2>2, FitsFacts
  <2> QED
    BY <2>1, <2>2, <2>3
<1>5. /\ l = 4 + k + n
      /\ \A i \in 1 .. 2 + k + n : a[2 + i] = b[i]
  <2>1. /\ Len(a) = Ahead(p) + (2 + k + n)
        /\ 2 + k + n < Base => Ahead(p) = 2
        /\ 2 + k + n >= Base => Ahead(p) = 3
        /\ \A i \in 1 .. 2 + k + n : a[Ahead(p) + i] = b[i]
    BY <1>3, <1>4, BytesFacts
  <2>2. 2 + k + n < Base
    <3>1. PICK e \in Nat, m \in Nat : e = Base /\ m = MQTT_MAX_PACKET_SIZE /\ m <= e + 2
      BY BaseFacts, MultiplesFacts
    <3>2. PICK c \in Nat : c = 2 + k + n
      OBVIOUS
    <3>3. ASSUME c >= e PROVE FALSE
      <4>1. Len(a) = 3 + c
        BY <2>1, <3>1, <3>2, <3>3
      <4> QED
        BY <1>4, <3>1, <3>3, <4>1
    <3> QED
      BY <3>1, <3>2, <3>3
  <2>3. Ahead(p) = 2
    BY <2>1, <2>2
  <2>4. l = 4 + k + n
    BY <1>4, <2>1, <2>3
  <2> QED
    BY <2>1, <2>3, <2>4
<1>6. TopicLength = k
  <2>1. buffer[2] = 0 /\ buffer[3] = k
    <3>1. a[2 + 1] = 0 /\ a[2 + 2] = k
      BY <1>3, <1>5
    <3> QED
      BY <1>4, <1>5, <3>1
  <2> QED
    BY <2>1, BaseFacts DEF TopicLength
<1>7. ASSUME NEW i \in 1 .. n PROVE buffer[4 + k + i - 1] = v[i]
  <2>1. /\ 4 + k + i - 1 \in 0 .. l - 1 /\ 4 + k + i - 1 + 1 = 2 + (2 + k + i)
        /\ 2 + k + i \in 1 .. 2 + k + n
    BY <1>5
  <2> QED
    BY <1>3, <1>4, <1>5, <2>1
<1> QED
  BY <1>3, <1>4, <1>5, <1>6, <1>7

-----------------------------------------------------------------------------
(* What callback is told.                                                  *)

ToldInv ==
  /\ read.at = "callback" =>
       \E v \in Values : /\ due = <<v>> /\ read.length = Len(v)
                         /\ \A i \in 1 .. Len(v) : buffer[read.payload + i - 1] = v[i]
  /\ read.at = "publish" => due = <<LastApprovalId>>
  /\ read.by # "callback" => due = <<>>

\* A step after which no packet is with callback, nor was.
LEMMA ToldNot ==
  ASSUME IInv, IInv', ToldInv, read'.by # "callback",
         due' = <<>> \/ (due' = due /\ read.by # "callback")
  PROVE  ToldInv'
<1>1. read'.at # "callback" /\ read'.at # "publish"
  BY ReadTypes DEF IInv, TypeInv, ReadTypeOK, CallbackReads, PacketReads, Idle
<1> QED
  BY <1>1 DEF ToldInv

LEMMA ToldSame ==
  ASSUME ToldInv, UNCHANGED <<read, buffer, due, LastApprovalId>>
  PROVE  ToldInv'
  BY DEF ToldInv

LEMMA DispatchTells ==
  ASSUME NoneTakenForAnother, IInv, IInv', Dispatch
  PROVE  ToldInv'
<1>1. read.at = "done" /\ read.by = "loop" /\ buffer \in Buffers
  BY DEF Dispatch, loopSkips, loopPongs, loopAnswersPing, loopCalls, Done, IInv, TypeInv
<1>2. PICK p, off, len : ReadOut(p, off, len)
  BY <1>1, HasReadOut
<1>3. /\ Head(pending) = p /\ read.len = len
      /\ due' = IF p.type = "PUBLISH" /\ Fits(p) THEN <<Payload(p)>> ELSE <<>>
  BY <1>2 DEF ReadOut, Dispatch
<1>4. CASE loopCalls
  <2>1. Fits(p) /\ p.type = "PUBLISH"
    <3>1. len > 0 /\ TypeOf(buffer[0]) = Code["PUBLISH"] /\ "PUBLISH" \in loopTypes
      BY <1>3, <1>4 DEF loopCalls, loopTypes
    <3> QED
      BY <1>2, <3>1, TakenForItself
  <2>2. PICK v \in Values :
          /\ Payload(p) = v /\ len - 4 - TopicLength = Len(v)
          /\ \A i \in 1 .. Len(v) : buffer[4 + TopicLength + i - 1] = v[i]
    BY <1>1, <1>2, <2>1, CalledWith
  <2>3. /\ due' = <<v>> /\ buffer' = buffer
        /\ read' = [by |-> "callback", at |-> "callback", payload |-> 4 + TopicLength,
                    length |-> Len(v)]
    BY <1>3, <1>4, <2>1, <2>2 DEF loopCalls
  <2>4. PICK at : at = 4 + TopicLength
    OBVIOUS
  <2>5. read'.payload = at /\ \A i \in 1 .. Len(v) : buffer'[at + i - 1] = v[i]
    BY <2>2, <2>3, <2>4
  <2> QED
    BY <2>3, <2>5 DEF ToldInv
<1>5. CASE ~loopCalls
  <2>1. read' = Idle /\ (loopSkips \/ loopPongs \/ loopAnswersPing)
    BY <1>5 DEF Dispatch, loopSkips, loopPongs, loopAnswersPing
  <2>2. ASSUME Fits(p), p.type = "PUBLISH" PROVE FALSE
    <3>1. len > 0 /\ TypeOf(buffer[0]) = Code["PUBLISH"]
      BY <1>2, <2>2, FitsFacts, ReadOutNumbers
    <3>2. Code["PUBLISH"] # Code["PINGREQ"] /\ Code["PUBLISH"] # Code["PINGRESP"]
      BY DEF Code
    <3> QED
      BY <1>3, <2>1, <3>1, <3>2 DEF loopSkips, loopPongs, loopAnswersPing, loopTypes
  <2>3. due' = <<>>
    BY <1>3, <2>2
  <2>4. read'.by # "callback" /\ read'.at # "callback" /\ read'.at # "publish"
    BY <2>1 DEF Idle
  <2> QED
    BY <2>3, <2>4 DEF ToldInv
<1> QED
  BY <1>4, <1>5

LEMMA CallbackTells ==
  ASSUME IInv, IInv', ToldInv, Callback
  PROVE  ToldInv'
<1>1. /\ read.at = "callback" /\ read' = [read EXCEPT !.at = "publish"] /\ due' = due
      /\ LastApprovalId' = Slice(read.payload, read.length)
  BY DEF Callback
<1>2. read \in CallbackReads
  BY <1>1, ReadTypes DEF IInv, TypeInv
<1>3. PICK v \in Values : /\ due = <<v>> /\ read.length = Len(v)
                          /\ \A i \in 1 .. Len(v) : buffer[read.payload + i - 1] = v[i]
  BY <1>1 DEF ToldInv
<1>4. v \in Seq(Byte)
  BY MqttSpecAssumption
<1>5. LastApprovalId' = [i \in 1 .. Len(v) |-> v[i]]
  BY <1>1, <1>3 DEF Slice
<1>6. LastApprovalId' = v
  BY <1>4, <1>5
<1>7. read'.at = "publish" /\ read'.by = "callback"
  BY <1>1, <1>2 DEF CallbackReads
<1> QED
  BY <1>1, <1>3, <1>6, <1>7 DEF ToldInv

LEMMA StepTold == NoneTakenForAnother /\ ToldInv /\ IInv /\ IInv' /\ [Next]_vars => ToldInv'
<1> SUFFICES ASSUME NoneTakenForAnother, IInv, IInv', ToldInv, [Next]_vars PROVE ToldInv'
  OBVIOUS
<1>1. CASE Connect \/ Answered \/ Subscribe \/ Loop \/ ReadByte \/ UpdateStatus
  <2>1. due' = due
    BY <1>1 DEF Connect, Answered, Subscribe, Loop, ReadByte, UpdateStatus, botVars
  <2>2. CASE read.by = "callback"
    <3>1. read \in CallbackReads /\ ~AtRest /\ ~InPacket /\ read.at # "wait"
          /\ read.at # "available"
      BY <2>2, ReadTypes DEF IInv, TypeInv, CallbackReads, AtRest, InPacket
    <3> QED
      BY <1>1, <2>2, <3>1
         DEF Connect, connectOpens, connectFails, Answered, connectReads, connectAccepted,
             connectGivesUp, connectTimesOut, Subscribe, subscribe, Loop, loopPing, loopLooks,
             loopDisconnected, ReadByte, readHeader, readDigit, readBody, UpdateStatus,
             connectedNot, Done, InPacket, AtRest
  <2>3. CASE read.by # "callback"
    <3>1. read'.by # "callback"
      <4>1. CASE ReadByte
        <5>1. readHeader \/ readDigit \/ readBody
          BY <4>1 DEF ReadByte
        <5> QED
          BY <2>3, <5>1, ReadsInv DEF IInv
      <4>2. CASE Connect \/ Answered \/ Subscribe \/ Loop \/ UpdateStatus
        BY <2>3, <4>2, ReadValues
           DEF Connect, connectOpens, connectFails, Answered, connectReads, connectAccepted,
               connectGivesUp, connectTimesOut, Subscribe, subscribe, Loop, loopPing, loopLooks,
               loopDisconnected, UpdateStatus, connectedNot
      <4> QED
        BY <1>1, <4>1, <4>2
    <3> QED
      BY <2>1, <2>3, <3>1, ToldNot
  <2> QED
    BY <2>2, <2>3
<1>2. CASE Replies \/ PowerCut
  <2>1. read' = Idle /\ due' = <<>>
    BY <1>2 DEF Replies, publish, PowerCut
  <2> QED
    BY <2>1, IdleFacts, ToldNot
<1>3. CASE Arrive \/ PassOn \/ ServerPings \/ ServerCloses \/ ConnectionLost \/ KeepaliveRunsOut
           \/ UNCHANGED vars
  <2>1. UNCHANGED <<read, buffer, due, LastApprovalId>>
    BY <1>3 DEF Arrive, PassOn, ServerPings, ServerCloses, ConnectionLost, KeepaliveRunsOut, vars,
                mqttVars, botVars, libraryVars
  <2> QED
    BY <2>1, ToldSame
<1> QED
  BY <1>1, <1>2, <1>3, DispatchTells, CallbackTells DEF Next, Program, World

\* HandsOn: callback is called for every value of the feed that fits into the
\* buffer and for nothing else, and what it stores is that value, although its
\* reply is put together where the value lies (PubSubClient.cpp:166-180,
\* wifi.ino:297-311): for all values of which no remainder is taken for another
\* packet.
THEOREM HandsOnAlways ==
  ASSUME NoneTakenForAnother PROVE Spec => []HandsOn
<1>1. Init => ToldInv
  BY DEF Init, MqttInit, Idle, ToldInv
<1>2. ToldInv /\ IInv /\ IInv' /\ [Next]_vars => ToldInv'
  BY StepTold
<1>3. ToldInv => HandsOn
  <2>1. \A v \in Values : <<v>> # <<>>
    OBVIOUS
  <2> QED
    BY <2>1 DEF ToldInv, HandsOn
<1> QED
  BY <1>1, <1>2, <1>3, IInvAlways, PTL DEF Spec

-----------------------------------------------------------------------------
(* The same in packets: what PubSubClient.tla sees.                        *)

Messages == {Connack(p) : p \in Sendable}

LEMMA PacketsFacts ==
  ASSUME NEW s \in Seq(Sendable)
  PROVE  /\ AsPackets(s) \in Seq(Messages) /\ Len(AsPackets(s)) = Len(s)
         /\ \A i \in 1 .. Len(s) : AsPackets(s)[i] = Connack(s[i])
<1>1. Len(s) \in Nat /\ DOMAIN s = 1 .. Len(s) /\ \A i \in 1 .. Len(s) : s[i] \in Sendable
  OBVIOUS
<1>2. AsPackets(s) = [i \in 1 .. Len(s) |-> Connack(s[i])]
  BY <1>1 DEF AsPackets
<1>3. \A i \in 1 .. Len(s) : Connack(s[i]) \in Messages
  BY <1>1 DEF Messages
<1> QED
  BY <1>1, <1>2, <1>3

LEMMA PacketsBoth ==
  ASSUME NEW s \in Seq(Sendable), NEW t \in Seq(Sendable)
  PROVE  AsPackets(s \o t) = AsPackets(s) \o AsPackets(t)
<1>1. PICK m \in Nat, n \in Nat : m = Len(s) /\ n = Len(t)
  BY LenProperties
<1>2. PICK u \in Seq(Sendable) :
        /\ u = s \o t /\ Len(u) = m + n
        /\ \A i \in 1 .. m + n : u[i] = IF i <= m THEN s[i] ELSE t[i - m]
  <2>1. LET u == s \o t IN
          /\ u \in Seq(Sendable) /\ Len(u) = m + n
          /\ \A i \in 1 .. m + n : u[i] = IF i <= m THEN s[i] ELSE t[i - m]
    BY <1>1
  <2> QED
    BY <2>1
<1>3. /\ \E a \in Seq(Messages) :
           a = AsPackets(s) /\ Len(a) = m /\ \A i \in 1 .. m : a[i] = Connack(s[i])
      /\ \E b \in Seq(Messages) :
           b = AsPackets(t) /\ Len(b) = n /\ \A i \in 1 .. n : b[i] = Connack(t[i])
      /\ \E c \in Seq(Messages) :
           c = AsPackets(u) /\ Len(c) = m + n /\ \A i \in 1 .. m + n : c[i] = Connack(u[i])
  <2>1. \E a \in Seq(Messages) :
          a = AsPackets(s) /\ Len(a) = m /\ \A i \in 1 .. m : a[i] = Connack(s[i])
    BY <1>1, PacketsFacts
  <2>2. \E b \in Seq(Messages) :
          b = AsPackets(t) /\ Len(b) = n /\ \A i \in 1 .. n : b[i] = Connack(t[i])
    BY <1>1, PacketsFacts
  <2>3. \E c \in Seq(Messages) :
          c = AsPackets(u) /\ Len(c) = m + n /\ \A i \in 1 .. m + n : c[i] = Connack(u[i])
    <3>1. PICK l \in Nat : l = m + n
      OBVIOUS
    <3>2. \E c \in Seq(Messages) :
            c = AsPackets(u) /\ Len(c) = l /\ \A i \in 1 .. l : c[i] = Connack(u[i])
      BY <1>2, <3>1, PacketsFacts
    <3> QED
      BY <3>1, <3>2
  <2> QED
    BY <2>1, <2>2, <2>3
<1>7. PICK a \in Seq(Messages) :
        a = AsPackets(s) /\ Len(a) = m /\ \A i \in 1 .. m : a[i] = Connack(s[i])
  BY <1>3
<1>8. PICK b \in Seq(Messages) :
        b = AsPackets(t) /\ Len(b) = n /\ \A i \in 1 .. n : b[i] = Connack(t[i])
  BY <1>3
<1>9. PICK c \in Seq(Messages) :
        c = AsPackets(u) /\ Len(c) = m + n /\ \A i \in 1 .. m + n : c[i] = Connack(u[i])
  BY <1>3
<1>4. PICK d \in Seq(Messages) :
        /\ d = a \o b /\ Len(d) = m + n
        /\ \A i \in 1 .. m + n : d[i] = IF i <= m THEN a[i] ELSE b[i - m]
  <2>1. PICK d : d = a \o b
    OBVIOUS
  <2>2. /\ d \in Seq(Messages) /\ Len(d) = Len(a) + Len(b)
        /\ \A i \in 1 .. Len(a) + Len(b) : d[i] = IF i <= Len(a) THEN a[i] ELSE b[i - Len(a)]
    BY <2>1, ConcatProperties
  <2>3. /\ Len(d) = m + n
        /\ \A i \in 1 .. m + n : d[i] = IF i <= m THEN a[i] ELSE b[i - m]
    BY <1>7, <1>8, <2>2, Zenon
  <2> QED
    BY <2>1, <2>2, <2>3
<1>5. ASSUME NEW i \in 1 .. m + n PROVE c[i] = d[i]
  <2>1. CASE i <= m
    <3>1. i \in 1 .. m
      BY <2>1
    <3>2. c[i] = Connack(u[i]) /\ d[i] = a[i]
      BY <1>4, <1>9, <2>1
    <3>3. a[i] = Connack(s[i]) /\ u[i] = s[i]
      BY <1>2, <1>7, <3>1
    <3> QED
      BY <3>2, <3>3
  <2>2. CASE ~(i <= m)
    <3>1. i - m \in 1 .. n
      BY <2>2
    <3>2. c[i] = Connack(u[i]) /\ d[i] = b[i - m]
      BY <1>4, <1>9, <2>2
    <3>3. b[i - m] = Connack(t[i - m]) /\ u[i] = t[i - m]
      BY <1>2, <1>8, <2>2, <3>1
    <3> QED
      BY <3>2, <3>3
  <2> QED
    BY <2>1, <2>2
<1>6. c = d
  BY <1>4, <1>5, <1>9, SeqEqual
<1> QED
  BY <1>2, <1>4, <1>6, <1>7, <1>8, <1>9

LEMMA PacketsFew ==
  /\ AsPackets(<<>>) = <<>>
  /\ \A p \in Sendable : AsPackets(<<p>>) = <<Connack(p)>>
  /\ \A p, q \in Sendable : AsPackets(<<p, q>>) = <<Connack(p), Connack(q)>>
  BY DEF AsPackets

LEMMA Names ==
  /\ Connack(CONNACK) = [type |-> "CONNACK"] /\ Connack(REFUSED) = [type |-> "REFUSED"]
  /\ Connack(SUBACK) = [type |-> "SUBACK"]
  /\ \A t \in {"PINGREQ", "PINGRESP"} : Connack(Packet(t, <<>>)) = [type |-> t]
  /\ \A v \in Values, r \in {0, 1} : Connack(Feed(v, r)) = [type |-> "PUBLISH", code |-> v]
  /\ \A p \in Sendable : p # REFUSED => Connack(p).type = p.type
<1>1. CONNACK # REFUSED /\ CONNACK.type = "CONNACK" /\ REFUSED.type = "CONNACK"
  <2>1. <<0, 0>> # <<0, 5>>
    OBVIOUS
  <2> QED
    BY <2>1 DEF CONNACK, REFUSED, Packet
<1>2. SUBACK.type = "SUBACK" /\ \A t : Packet(t, <<>>).type = t
  BY DEF SUBACK, Packet
<1>3. ASSUME NEW v \in Values, NEW r \in {0, 1}
      PROVE  Connack(Feed(v, r)) = [type |-> "PUBLISH", code |-> v]
  <2>1. Feed(v, r).type = "PUBLISH" /\ Payload(Feed(v, r)) = v
    BY FeedFacts
  <2> QED
    BY <1>1, <2>1 DEF Connack, Told
<1>4. \A p \in Sendable : p # REFUSED => Connack(p).type = p.type
  BY DEF Connack, Told
<1> QED
  BY <1>1, <1>2, <1>3, <1>4 DEF Connack, Told

\* Inbox and Wire, from the packets that have begun to arrive and those to come.
LEMMA InboxIs ==
  ASSUME NEW open, NEW left, NEW behind, NEW coming, NEW rest,
         Stream(open, left, behind, coming, rest)
  PROVE  Inbox = AsPackets(open \o behind) /\ Wire = AsPackets(coming)
  BY StreamPackets DEF Inbox, Wire

\* The first conjunct of two is what inbox and wire are made of.
Halves(p, n) == p \in Seq(Sendable) /\ n \in Nat /\ n <= Len(p)

LEMMA HalvesFacts ==
  ASSUME NEW p, NEW n, Halves(p, n)
  PROVE  /\ SubSeq(p, 1, n) \in Seq(Sendable) /\ SubSeq(p, n + 1, Len(p)) \in Seq(Sendable)
         /\ p = SubSeq(p, 1, n) \o SubSeq(p, n + 1, Len(p))
         /\ Len(SubSeq(p, 1, n)) = n
<1>1. PICK m \in Nat : m = Len(p) /\ n <= m /\ p \in Seq(Sendable) /\ n \in Nat
  BY LenProperties DEF Halves
<1>2. PICK a \in Seq(Sendable) :
        /\ a = SubSeq(p, 1, n) /\ Len(a) = n /\ \A i \in 1 .. n : a[i] = p[i]
  <2>1. LET a == SubSeq(p, 1, n) IN
          a \in Seq(Sendable) /\ Len(a) = n /\ \A i \in 1 .. n : a[i] = p[i]
    BY <1>1
  <2> QED
    BY <2>1
<1>3. PICK b \in Seq(Sendable) :
        /\ b = SubSeq(p, n + 1, m) /\ Len(b) = m - n /\ \A i \in 1 .. m - n : b[i] = p[n + i]
  <2>1. LET b == SubSeq(p, n + 1, m) IN
          b \in Seq(Sendable) /\ Len(b) = m - n /\ \A i \in 1 .. m - n : b[i] = p[n + i]
    BY <1>1
  <2> QED
    BY <2>1
<1>4. PICK c \in Seq(Sendable) :
        /\ c = a \o b /\ Len(c) = m
        /\ \A i \in 1 .. m : c[i] = IF i <= n THEN a[i] ELSE b[i - n]
  <2>1. PICK l \in Nat : l = m - n /\ m = n + l /\ Len(b) = l
    BY <1>1, <1>3
  <2>2. LET c == a \o b IN
          /\ c \in Seq(Sendable) /\ Len(c) = n + l
          /\ \A i \in 1 .. n + l : c[i] = IF i <= n THEN a[i] ELSE b[i - n]
    BY <1>1, <1>2, <2>1
  <2> QED
    BY <2>1, <2>2
<1>5. ASSUME NEW i \in 1 .. m PROVE c[i] = p[i]
  <2>1. CASE i <= n
    BY <1>1, <1>2, <1>4, <2>1
  <2>2. CASE ~(i <= n)
    <3>1. i - n \in 1 .. m - n /\ n + (i - n) = i
      BY <1>1, <2>2
    <3> QED
      BY <1>3, <1>4, <2>2, <3>1
  <2> QED
    BY <2>1, <2>2
<1>6. c = p
  BY <1>1, <1>4, <1>5, SeqEqual
<1> QED
  BY <1>1, <1>2, <1>3, <1>4, <1>6

LEMMA JoinedPackets == \A x, y \in Seq(Sendable) : x \o y \in Seq(Sendable)
  OBVIOUS

LEMMA SplitAt ==
  ASSUME NEW x \in Seq(Sendable), NEW y \in Seq(Sendable), NEW p, p = x \o y, NEW n, n = Len(x)
  PROVE  SubSeq(p, 1, n) = x /\ SubSeq(p, n + 1, Len(p)) = y
<1>1. PICK m \in Nat, l \in Nat : m = n /\ m = Len(x) /\ l = Len(y)
  BY LenProperties
<1>2. PICK u \in Seq(Sendable) :
        /\ u = p /\ Len(u) = m + l
        /\ \A i \in 1 .. m + l : u[i] = IF i <= m THEN x[i] ELSE y[i - m]
  <2>1. LET u == x \o y IN
          /\ u \in Seq(Sendable) /\ Len(u) = m + l
          /\ \A i \in 1 .. m + l : u[i] = IF i <= m THEN x[i] ELSE y[i - m]
    BY <1>1
  <2> QED
    BY <2>1
<1>3. SubSeq(u, 1, m) = x
  <2>1. /\ SubSeq(u, 1, m) \in Seq(Sendable) /\ Len(SubSeq(u, 1, m)) = m
        /\ \A i \in 1 .. m : SubSeq(u, 1, m)[i] = u[i]
    BY <1>1, <1>2
  <2>2. \A i \in 1 .. m : u[i] = x[i]
    BY <1>1, <1>2
  <2> QED
    BY <1>1, <2>1, <2>2, SeqEqual
<1>4. SubSeq(u, m + 1, m + l) = y
  <2>1. /\ SubSeq(u, m + 1, m + l) \in Seq(Sendable) /\ Len(SubSeq(u, m + 1, m + l)) = l
        /\ \A i \in 1 .. l : SubSeq(u, m + 1, m + l)[i] = u[m + i]
    BY <1>1, <1>2
  <2>2. ASSUME NEW i \in 1 .. l PROVE u[m + i] = y[i]
    <3>1. m + i \in 1 .. m + l /\ ~(m + i <= m) /\ m + i - m = i
      BY <1>1
    <3> QED
      BY <1>2, <3>1
  <2> QED
    BY <1>1, <2>1, <2>2, SeqEqual
<1> QED
  BY <1>1, <1>2, <1>3, <1>4

\* The packets that have begun to arrive, and those to come.
Parts(x, y) ==
  /\ x \in Seq(Sendable) /\ y \in Seq(Sendable)
  /\ pending = x \o y /\ begun = Len(x)
  /\ Inbox = AsPackets(x) /\ Wire = AsPackets(y)

LEMMA HasParts ==
  ASSUME StreamInv
  PROVE  \E x, y : Parts(x, y)
<1>1. PICK x, y : x = SubSeq(pending, 1, begun) /\ y = SubSeq(pending, begun + 1, Len(pending))
  OBVIOUS
<1>2. Halves(pending, begun)
  BY BegunFacts DEF Halves
<1>3. /\ x \in Seq(Sendable) /\ y \in Seq(Sendable)
      /\ pending = x \o y /\ begun = Len(x)
  BY <1>1, <1>2, HalvesFacts
<1>4. Parts(x, y)
  BY <1>1, <1>3 DEF Parts, Inbox, Wire
<1> QED
  BY <1>4

LEMMA PartsThen ==
  ASSUME NEW x \in Seq(Sendable), NEW y \in Seq(Sendable), pending' = x \o y, begun' = Len(x)
  PROVE  Inbox' = AsPackets(x) /\ Wire' = AsPackets(y)
<1>1. PICK p, n : p = pending' /\ n = begun'
  OBVIOUS
<1>2. SubSeq(p, 1, n) = x /\ SubSeq(p, n + 1, Len(p)) = y
  BY <1>1, SplitAt
<1>3. Inbox' = AsPackets(SubSeq(p, 1, n)) /\ Wire' = AsPackets(SubSeq(p, n + 1, Len(p)))
  BY <1>1 DEF Inbox, Wire
<1> QED
  BY <1>2, <1>3

\* When no packet is being read there is one in the inbox when there is a byte to
\* be read.
LEMMA InboxBytes ==
  ASSUME StreamInv, ~InPacket
  PROVE  rx # <<>> <=> Inbox # <<>>
<1>1. PICK behind, coming, rest : Stream(<<>>, <<>>, behind, coming, rest)
  BY DEF StreamInv
<1>2. behind \in Seq(Sendable) /\ Inbox = AsPackets(<<>> \o behind)
  BY <1>1, InboxIs DEF Stream
<1>3. Inbox = AsPackets(behind)
  BY <1>2
<1>4. behind # <<>> <=> AsPackets(behind) # <<>>
  <2>1. Len(behind) \in Nat /\ (behind = <<>> <=> Len(behind) = 0)
    BY <1>2
  <2>2. AsPackets(behind) \in Seq(Messages) /\ Len(AsPackets(behind)) = Len(behind)
    BY <1>2, PacketsFacts
  <2>3. AsPackets(behind) = <<>> <=> Len(AsPackets(behind)) = 0
    BY <2>2
  <2> QED
    BY <2>1, <2>2, <2>3
<1> QED
  BY <1>1, <1>3, <1>4, StreamBetween

LEMMA ConnectedWhole ==
  ASSUME StreamInv, ~InPacket
  PROVE  connected <=> Whole!connected
  BY InboxBytes DEF connected, Whole!connected

LEMMA StopsWhole ==
  ASSUME stop
  PROVE  Whole!stop
<1>1. <<>> \in Seq(Sendable) /\ <<>> \o <<>> = <<>> /\ Len(<<>>) = 0
  OBVIOUS
<1>2. Inbox' = AsPackets(<<>>) /\ Wire' = AsPackets(<<>>)
  BY <1>1, PartsThen DEF stop
<1> QED
  BY <1>2, PacketsFew DEF stop, Whole!stop

LEMMA SendsWhole ==
  ASSUME StreamInv, NEW packets \in Seq(Sendable), Sent(packets)
  PROVE  Inbox' = Inbox /\ Wire' = Wire \o AsPackets(packets)
<1>1. PICK x, y : Parts(x, y)
  BY HasParts
<1>2. /\ x \in Seq(Sendable) /\ y \in Seq(Sendable) /\ pending = x \o y /\ begun = Len(x)
      /\ Inbox = AsPackets(x) /\ Wire = AsPackets(y)
  BY <1>1 DEF Parts
<1>3. PICK z \in Seq(Sendable) : z = y \o packets
  BY <1>2, JoinedPackets, Zenon
<1>4. pending' = x \o z
  BY <1>2, <1>3, RegroupedPackets, Zenon DEF Sent
<1>5. begun' = Len(x)
  BY <1>2 DEF Sent
<1>6. Inbox' = AsPackets(x) /\ Wire' = AsPackets(z)
  BY <1>2, <1>4, <1>5, PartsThen
<1>7. AsPackets(z) = AsPackets(y) \o AsPackets(packets)
  BY <1>2, <1>3, PacketsBoth
<1> QED
  BY <1>2, <1>6, <1>7

LEMMA SentOne ==
  ASSUME StreamInv, NEW p \in Sendable, Sent(<<p>>)
  PROVE  Inbox' = Inbox /\ Wire' = Append(Wire, Connack(p))
<1>1. PICK packets \in Seq(Sendable) : packets = <<p>> /\ AsPackets(packets) = <<Connack(p)>>
  <2>1. <<p>> \in Seq(Sendable) /\ AsPackets(<<p>>) = <<Connack(p)>>
    BY PacketsFew
  <2> QED
    BY <2>1
<1>2. Inbox' = Inbox /\ Wire' = Wire \o <<Connack(p)>>
  BY <1>1, SendsWhole
<1>3. Wire \in Seq(Messages) /\ Connack(p) \in Messages
  <2>1. PICK x, y : Parts(x, y)
    BY HasParts
  <2>2. y \in Seq(Sendable) /\ Wire = AsPackets(y)
    BY <2>1 DEF Parts
  <2> QED
    BY <2>2, PacketsFacts DEF Messages
<1> QED
  BY <1>2, <1>3, AppendProperties

LEMMA SameWhole ==
  ASSUME UNCHANGED <<pending, begun>>
  PROVE  Inbox' = Inbox /\ Wire' = Wire
  BY DEF Inbox, Wire

LEMMA CutWhole ==
  ASSUME StreamInv, Cut
  PROVE  Inbox' = Inbox /\ Wire' = <<>>
<1>1. PICK x, y : Parts(x, y)
  BY HasParts
<1>2. x \in Seq(Sendable) /\ y \in Seq(Sendable) /\ pending = x \o y /\ begun = Len(x)
      /\ Inbox = AsPackets(x)
  BY <1>1 DEF Parts
<1>3. pending' = x /\ begun' = Len(x)
  BY <1>2, SplitAt DEF Cut
<1>4. x = x \o <<>> /\ <<>> \in Seq(Sendable)
  BY <1>2
<1>5. Inbox' = AsPackets(x) /\ Wire' = AsPackets(<<>>)
  BY <1>2, <1>3, <1>4, PartsThen
<1> QED
  BY <1>2, <1>5, PacketsFew

\* The packet that is being read is the first one of the inbox.
LEMMA HeadWhole ==
  ASSUME StreamInv, InPacket
  PROVE  Head(pending) \in Sendable /\ Inbox # <<>> /\ Head(Inbox) = Connack(Head(pending))
<1>0. PICK q \in Sendable, k \in Nat : \E behind, coming, rest :
        Stream(<<q>>, Left(q, k), behind, coming, rest)
  BY DEF StreamInv
<1>1. PICK behind, coming, rest :
        Stream(<<q>>, Left(q, k), behind, coming, rest)
  BY <1>0
<1>2. /\ behind \in Seq(Sendable) /\ coming \in Seq(Sendable)
      /\ pending = <<q>> \o behind \o coming
  BY <1>1 DEF Stream
<1>3. Head(pending) = q
  BY <1>2
<1>4. <<q>> \in Seq(Sendable) /\ Inbox = AsPackets(<<q>> \o behind)
  BY <1>1, InboxIs
<1>5. Inbox = <<Connack(q)>> \o AsPackets(behind) /\ AsPackets(behind) \in Seq(Messages)
      /\ Connack(q) \in Messages
  BY <1>2, <1>4, PacketsBoth, PacketsFew, PacketsFacts DEF Messages
<1>6. Inbox # <<>> /\ Head(Inbox) = Connack(q)
  BY <1>5
<1> QED
  BY <1>3, <1>6

\* A packet is dealt with: the first one of the inbox.
LEMMA DealsWhole ==
  ASSUME StreamInv, InPacket, dealtWith, NEW p, Head(pending) = p
  PROVE  /\ p \in Sendable /\ Inbox # <<>> /\ Head(Inbox) = Connack(p)
         /\ Inbox' = Tail(Inbox) /\ Wire' = Wire
<1>1. PICK x, y : Parts(x, y)
  BY HasParts
<1>2. x \in Seq(Sendable) /\ y \in Seq(Sendable) /\ pending = x \o y /\ begun = Len(x)
      /\ Inbox = AsPackets(x) /\ Wire = AsPackets(y)
  BY <1>1 DEF Parts
<1>3. x # <<>>
  <2>0. PICK q \in Sendable, k \in Nat : \E behind, coming, rest :
          Stream(<<q>>, Left(q, k), behind, coming, rest)
    BY DEF StreamInv
  <2>1. PICK behind, coming, rest :
          Stream(<<q>>, Left(q, k), behind, coming, rest)
    BY <2>0
  <2>2. begun = Len(<<q>>) + Len(behind) /\ behind \in Seq(Sendable)
    BY <2>1 DEF Stream
  <2>3. begun # 0
    BY <2>2
  <2> QED
    BY <1>2, <2>3
<1>4. PICK h \in Sendable, t \in Seq(Sendable) :
        x = <<h>> \o t /\ <<h>> \in Seq(Sendable) /\ Len(x) = 1 + Len(t) /\ Len(t) \in Nat
  BY <1>2, <1>3, FirstPacket
<1>5. PICK u \in Seq(Sendable) : u = t \o y
  BY <1>2, JoinedPackets, Zenon
<1>6. pending = <<h>> \o u
  BY <1>2, <1>4, <1>5, RegroupedPackets, Zenon
<1>7. Head(pending) = h /\ Tail(pending) = u
  BY <1>6
<1>8. pending' = t \o y /\ begun' = Len(t)
  BY <1>2, <1>4, <1>5, <1>7 DEF dealtWith
<1>9. Inbox' = AsPackets(t) /\ Wire' = AsPackets(y)
  BY <1>2, <1>8, PartsThen
<1>10. Inbox = <<Connack(h)>> \o AsPackets(t) /\ AsPackets(t) \in Seq(Messages)
       /\ Connack(h) \in Messages
  BY <1>2, <1>4, PacketsBoth, PacketsFew, PacketsFacts DEF Messages
<1>11. Inbox # <<>> /\ Head(Inbox) = Connack(h) /\ Tail(Inbox) = AsPackets(t)
  BY <1>10
<1> QED
  BY <1>2, <1>7, <1>9, <1>11

-----------------------------------------------------------------------------
(* Each step is one of PubSubClient.tla's, or none.                        *)

Clients == [pingOutstanding : BOOLEAN, inIdle : BOOLEAN, outIdle : BOOLEAN]

LEMMA ClientFacts ==
  ASSUME client \in Clients
  PROVE  /\ [client EXCEPT !.inIdle = FALSE] \in Clients
         /\ [client EXCEPT !.outIdle = FALSE] \in Clients
         /\ [client EXCEPT !.inIdle = TRUE] \in Clients
         /\ [client EXCEPT !.outIdle = TRUE] \in Clients
         /\ [client EXCEPT !.inIdle = FALSE, !.outIdle = FALSE] \in Clients
         /\ [client EXCEPT !.inIdle = FALSE, !.pingOutstanding = FALSE] \in Clients
         /\ [pingOutstanding |-> FALSE, inIdle |-> FALSE, outIdle |-> FALSE] \in Clients
         /\ [pingOutstanding |-> TRUE, inIdle |-> FALSE, outIdle |-> FALSE] \in Clients
  BY DEF Clients

LEMMA StepClient == client \in Clients /\ [Next]_vars => client' \in Clients
<1> SUFFICES ASSUME client \in Clients, [Next]_vars PROVE client' \in Clients
  OBVIOUS
<1>2. CASE Connect
  BY <1>2, ClientFacts DEF Connect, connectOpens, connectFails
<1>3. CASE Answered
  BY <1>3, ClientFacts
     DEF Answered, connectReads, reads, connectAccepted, connectGivesUp, connectTimesOut
<1>4. CASE Subscribe
  BY <1>4, ClientFacts DEF Subscribe, subscribe
<1>5. CASE Loop
  BY <1>5, ClientFacts DEF Loop, loopPing, loopLooks, reads, loopDisconnected
<1>6. CASE ReadByte
  BY <1>6 DEF ReadByte, readHeader, readDigit, readBody, reads
<1>7. CASE Dispatch
  BY <1>7, ClientFacts DEF Dispatch, loopSkips, loopPongs, loopAnswersPing, loopCalls
<1>8. CASE Callback
  BY <1>8 DEF Callback, reads
<1>9. CASE Replies
  BY <1>9, ClientFacts DEF Replies, publish
<1>10. CASE UpdateStatus
  BY <1>10 DEF UpdateStatus, connectedNot
<1>11. CASE Arrive \/ PassOn \/ ServerPings \/ ServerCloses \/ ConnectionLost
  BY <1>11 DEF Arrive, PassOn, ServerPings, ServerCloses, ConnectionLost, libraryVars
<1>12. CASE KeepaliveRunsOut
  BY <1>12, ClientFacts DEF KeepaliveRunsOut
<1>13. CASE PowerCut
  BY <1>13, ClientFacts DEF PowerCut
<1>14. CASE UNCHANGED vars
  BY <1>14 DEF vars, mqttVars
<1> QED
  BY <1>2, <1>3, <1>4, <1>5, <1>6, <1>7, <1>8, <1>9, <1>10, <1>11, <1>12, <1>13, <1>14
     DEF Next, Program, World

LEMMA Unanswered ==
  ASSUME client \in Clients, NEW type, type # "PINGRESP"
  PROVE  [client EXCEPT !.inIdle = FALSE, !.pingOutstanding = @ /\ type # "PINGRESP"]
           = [client EXCEPT !.inIdle = FALSE]
  BY DEF Clients

LEMMA AnsweredPing ==
  [client EXCEPT !.inIdle = FALSE, !.pingOutstanding = @ /\ "PINGRESP" # "PINGRESP"]
    = [client EXCEPT !.inIdle = FALSE, !.pingOutstanding = FALSE]
  OBVIOUS

LEMMA ConnectWhole ==
  ASSUME IInv, Connect
  PROVE  WholeStep
<1>1. CASE connectFails
  <2>1. AtRest /\ ~connected /\ stop /\ UNCHANGED client
    BY <1>1 DEF connectFails
  <2>2. ~Whole!connected /\ Whole!stop
    BY <2>1, FirstBytes, ConnectedWhole, StopsWhole DEF IInv
  <2>3. Whole!loopDisconnected
    BY <2>1, <2>2 DEF Whole!loopDisconnected
  <2> QED
    BY <2>3 DEF WholeStep
<1>2. ASSUME NEW answer \in Answers, NEW name \in {"CONNACK", "REFUSED"},
             Connack(answer) = [type |-> name], connectOpens(answer)
      PROVE  WholeStep
  <2>1. /\ AtRest /\ ~connected /\ sock' = "open" /\ session' = "connected"
        /\ pending' = <<answer>> /\ begun' = 0
        /\ client' = [client EXCEPT !.inIdle = FALSE, !.outIdle = FALSE]
    BY <1>2 DEF connectOpens
  <2>2. ~Whole!connected
    BY <2>1, FirstBytes, ConnectedWhole DEF IInv
  <2>3. Inbox' = <<>> /\ Wire' = <<[type |-> name]>>
    <3>1. PICK y \in Seq(Sendable) : y = <<answer>> /\ AsPackets(y) = <<[type |-> name]>>
      <4>1. <<answer>> \in Seq(Sendable) /\ answer \in Sendable
        BY AnswersSendable
      <4>2. AsPackets(<<answer>>) = <<[type |-> name]>>
        BY <1>2, <4>1, PacketsFew
      <4> QED
        BY <4>1, <4>2
    <3>2. <<>> \in Seq(Sendable) /\ pending' = <<>> \o y /\ begun' = Len(<<>>)
      BY <2>1, <3>1
    <3> QED
      BY <3>1, <3>2, PartsThen, PacketsFew
  <2>4. Whole!connectOpens(name)
    BY <2>1, <2>2, <2>3 DEF Whole!connectOpens, Whole!Packet
  <2> QED
    BY <2>4 DEF WholeStep
<1>3. CASE connectOpens(CONNACK)
  BY <1>2, <1>3, AnswersSendable, Names
<1>4. CASE connectOpens(REFUSED)
  BY <1>2, <1>4, AnswersSendable, Names
<1> QED
  BY <1>1, <1>3, <1>4 DEF Connect

LEMMA AnsweredWhole ==
  ASSUME IInv, Answered
  PROVE  WholeStep \/ UNCHANGED packetVars
<1>1. CASE connectReads
  BY <1>1, SameWhole DEF connectReads, reads, packetVars
<1>2. CASE connectTimesOut
  <2>1. read.at = "wait" /\ rx = <<>> /\ stop /\ UNCHANGED client
    BY <1>2 DEF connectTimesOut
  <2>2. ~InPacket
    BY <2>1 DEF InPacket
  <2>3. Inbox = <<>> /\ Whole!stop
    BY <2>1, <2>2, InboxBytes, StopsWhole DEF IInv
  <2>4. Whole!connectGivesUp
    BY <2>1, <2>3 DEF Whole!connectGivesUp
  <2> QED
    BY <2>4 DEF WholeStep
<1>3. ASSUME Done("connect")
      PROVE  \E p \in Answers : Head(pending) = p /\ (read.len = 4 /\ buffer[3] = 0 <=> p = CONNACK)
  <2>1. read.at = "done" /\ read.by = "connect"
    BY <1>3 DEF Done
  <2>2. PICK p, off, len : ReadOut(p, off, len)
    BY <2>1, HasReadOut
  <2>3. p \in Answers /\ p \in Sendable /\ Head(pending) = p /\ read.len = len
    BY <2>1, <2>2 DEF ReadOut, IInv, OrderInv
  <2>4. /\ Sized(p) /\ Len(p.body) = 2 /\ (p.body[2] = 0 <=> p = CONNACK)
        /\ p.type = "CONNACK"
    BY <2>3, SendableFacts
  <2>5. off = 0
    <3>1. Fits(p)
      BY <2>3, <2>4, OnlyValuesAreLong
    <3> QED
      BY <2>2, <3>1, FitsFacts
  <2>6. PICK b \in Seq(Byte) : b = p.body /\ Len(b) = 2 /\ (b[2] = 0 <=> p = CONNACK)
    BY <2>4 DEF Sized
  <2>7. Len(Bytes(p)) = 4 /\ Bytes(p)[4] = b[2]
    <3>1. 2 < Base /\ 2 \in 1 .. 2
      BY BaseFacts
    <3>2. Ahead(p) = 2 /\ Len(Bytes(p)) = Ahead(p) + 2 /\ \A i \in 1 .. 2 : Bytes(p)[Ahead(p) + i] = b[i]
      BY <2>4, <2>6, <3>1, BytesFacts
    <3>3. Bytes(p)[2 + 2] = b[2]
      BY <3>1, <3>2
    <3> QED
      BY <3>2, <3>3
  <2>8. len = 4 /\ buffer[3] = b[2]
    <3>1. len = 4 /\ \A j \in 0 .. len - 1 : buffer[j] = Bytes(p)[j + 1]
      BY <2>2, <2>5, <2>7, FitsFacts
    <3>2. 3 \in 0 .. len - 1 /\ 3 + 1 = 4
      BY <3>1
    <3>3. buffer[3] = Bytes(p)[3 + 1]
      BY <3>1, <3>2
    <3> QED
      BY <2>7, <3>1, <3>2, <3>3
  <2> QED
    BY <2>3, <2>6, <2>8
<1>4. CASE connectAccepted
  <2>1. /\ Done("connect") /\ read.len = 4 /\ buffer[3] = 0 /\ dealtWith
        /\ client' = [client EXCEPT !.inIdle = FALSE, !.pingOutstanding = FALSE]
        /\ UNCHANGED <<sock, session>>
    BY <1>4 DEF connectAccepted
  <2>2. Head(pending) = CONNACK /\ InPacket
    BY <1>3, <2>1 DEF Done, InPacket
  <2>3. Inbox # <<>> /\ Head(Inbox) = [type |-> "CONNACK"] /\ Inbox' = Tail(Inbox) /\ Wire' = Wire
    BY <2>1, <2>2, DealsWhole, Names DEF IInv
  <2>4. Whole!connectAccepted
    BY <2>1, <2>3 DEF Whole!connectAccepted
  <2> QED
    BY <2>4 DEF WholeStep
<1>5. CASE connectGivesUp
  <2>1. Done("connect") /\ ~(read.len = 4 /\ buffer[3] = 0) /\ stop /\ UNCHANGED client
    BY <1>5 DEF connectGivesUp
  <2>2. Head(pending) = REFUSED /\ InPacket
    BY <1>3, <2>1 DEF Answers, Done, InPacket
  <2>3. Inbox # <<>> => Head(Inbox).type # "CONNACK"
    <3>1. Head(Inbox) = Connack(REFUSED)
      BY <2>2, HeadWhole DEF IInv
    <3>2. Head(Inbox).type = "REFUSED"
      BY <3>1, Names
    <3> QED
      BY <3>2
  <2>4. Whole!connectGivesUp
    BY <2>1, <2>3, StopsWhole DEF Whole!connectGivesUp
  <2> QED
    BY <2>4 DEF WholeStep
<1> QED
  BY <1>1, <1>2, <1>4, <1>5 DEF Answered

LEMMA SubscribeWhole ==
  ASSUME IInv, Subscribe
  PROVE  WholeStep
<1>1. PICK delivered \in BOOLEAN : subscribe(delivered, feed)
  BY DEF Subscribe
<1>2. /\ AtRest /\ connected /\ UNCHANGED sock
      /\ client' = [client EXCEPT !.outIdle = FALSE]
      /\ \/ Reached /\ session' = "subscribed" /\ Sent(<<SUBACK, Feed(feed, 1)>>)
         \/ UNCHANGED session /\ NothingSent
  BY <1>1 DEF subscribe
<1>3. Whole!connected /\ feed \in Values
  BY <1>2, FirstBytes, ConnectedWhole DEF IInv, TypeInv
<1>4. CASE Reached /\ session' = "subscribed" /\ Sent(<<SUBACK, Feed(feed, 1)>>)
  <2>1. /\ <<SUBACK, Feed(feed, 1)>> \in Seq(Sendable)
        /\ SUBACK \in Sendable /\ Feed(feed, 1) \in Sendable
    BY <1>3 DEF Sendable
  <2>2. /\ AsPackets(<<SUBACK, Feed(feed, 1)>>)
             = <<[type |-> "SUBACK"], [type |-> "PUBLISH", code |-> feed]>>
    BY <1>3, <2>1, PacketsFew, Names
  <2>3. /\ Inbox' = Inbox
        /\ Wire' = Wire \o <<[type |-> "SUBACK"], [type |-> "PUBLISH", code |-> feed]>>
    BY <1>4, <2>1, <2>2, SendsWhole DEF IInv
  <2>4. Whole!subscribe(feed)
    BY <1>2, <1>3, <1>4, <2>3
       DEF Whole!subscribe, Whole!Answer, Whole!Reached, Reached, Whole!Packet, Whole!Feed
  <2> QED
    BY <2>4 DEF WholeStep
<1>5. CASE UNCHANGED session /\ NothingSent
  <2>1. Inbox' = Inbox /\ Wire' = Wire
    BY <1>5, SameWhole DEF NothingSent
  <2>2. Whole!publish
    BY <1>2, <1>3, <1>5, <2>1 DEF Whole!publish
  <2> QED
    BY <2>2 DEF WholeStep
<1> QED
  BY <1>2, <1>4, <1>5

LEMMA LoopWhole ==
  ASSUME IInv, Loop
  PROVE  WholeStep \/ UNCHANGED packetVars
<1>1. CASE loopLooks
  BY <1>1, SameWhole DEF loopLooks, reads, packetVars
<1>2. CASE loopDisconnected
  <2>1. /\ AtRest /\ stop /\ UNCHANGED client
        /\ ~connected \/ (KeepaliveOver /\ client.pingOutstanding)
    BY <1>2 DEF loopDisconnected
  <2>2. Whole!stop /\ (connected <=> Whole!connected)
    BY <2>1, FirstBytes, ConnectedWhole, StopsWhole DEF IInv
  <2>3. Whole!loopDisconnected
    BY <2>1, <2>2 DEF Whole!loopDisconnected, KeepaliveOver, Whole!KeepaliveOver
  <2> QED
    BY <2>3 DEF WholeStep
<1>3. CASE loopPing
  <2>1. /\ AtRest /\ connected /\ KeepaliveOver /\ ~client.pingOutstanding
        /\ IF Reached THEN Sent(<<Packet("PINGRESP", <<>>)>>) ELSE NothingSent
        /\ client' = [pingOutstanding |-> TRUE, inIdle |-> FALSE, outIdle |-> FALSE]
        /\ UNCHANGED <<sock, session>>
    BY <1>3 DEF loopPing
  <2>2. Whole!connected
    BY <2>1, FirstBytes, ConnectedWhole DEF IInv
  <2>3. /\ Inbox' = Inbox
        /\ Wire' = IF Reached THEN Wire \o <<[type |-> "PINGRESP"]>> ELSE Wire
    <3>1. CASE Reached
      <4>1. Packet("PINGRESP", <<>>) \in Sendable /\ <<Packet("PINGRESP", <<>>)>> \in Seq(Sendable)
        BY DEF Sendable, Pings
      <4>2. AsPackets(<<Packet("PINGRESP", <<>>)>>) = <<[type |-> "PINGRESP"]>>
        BY <4>1, PacketsFew, Names
      <4> QED
        BY <2>1, <3>1, <4>1, <4>2, SendsWhole DEF IInv
    <3>2. CASE ~Reached
      BY <2>1, <3>2, SameWhole DEF NothingSent
    <3> QED
      BY <3>1, <3>2
  <2>4. Whole!loopPing
    BY <2>1, <2>2, <2>3 DEF Whole!loopPing, Whole!KeepaliveOver, KeepaliveOver, Whole!Answer,
                            Whole!Reached, Reached, Whole!Packet
  <2> QED
    BY <2>4 DEF WholeStep
<1> QED
  BY <1>1, <1>2, <1>3 DEF Loop

LEMMA DispatchWhole ==
  ASSUME NoneTakenForAnother, IInv, client \in Clients, Dispatch
  PROVE  WholeStep
<1>1. /\ read.at = "done" /\ read.by = "loop" /\ dealtWith /\ UNCHANGED <<sock, session>>
      /\ loopSkips \/ loopPongs \/ loopAnswersPing \/ loopCalls
  BY DEF Dispatch, loopSkips, loopPongs, loopAnswersPing, loopCalls, Done
<1>2. PICK p, off, len : ReadOut(p, off, len)
  BY <1>1, HasReadOut
<1>3. p \in Sendable /\ Head(pending) = p /\ read.len = len /\ p \notin Answers
  BY <1>1, <1>2 DEF ReadOut, IInv, OrderInv
<1>4. /\ Inbox # <<>> /\ Head(Inbox) = Connack(p) /\ Inbox' = Tail(Inbox) /\ Wire' = Wire
      /\ Connack(p).type = p.type /\ p.type \in {"SUBACK", "PINGREQ", "PINGRESP", "PUBLISH"}
  <2>1. InPacket
    BY <1>1 DEF InPacket
  <2>2. p # REFUSED /\ p.type # "CONNACK"
    BY <1>3, SendableFacts DEF Answers
  <2>3. Sized(p)
    BY <1>3, SendableFacts
  <2> QED
    BY <1>1, <1>3, <2>1, <2>2, <2>3, DealsWhole, Names DEF IInv, Sized
\* loop() sees the packet's type.
<1>5. ASSUME NEW type \in loopTypes, len > 0, TypeOf(buffer[0]) = Code[type],
             client' = [client EXCEPT !.inIdle = FALSE, !.pingOutstanding = @ /\ type # "PINGRESP"]
      PROVE  WholeStep
  <2>1. p.type = type
    BY <1>2, <1>5, TakenForItself
  <2>2. Whole!loopRead(type)
    BY <1>1, <1>4, <1>5, <2>1 DEF Whole!loopRead
  <2> QED
    BY <1>4, <2>1, <2>2 DEF WholeStep
<1>6. CASE loopPongs
  BY <1>3, <1>5, <1>6, AnsweredPing DEF loopPongs, loopTypes
<1>7. CASE loopAnswersPing
  <2>1. "PINGREQ" \in loopTypes /\ "PINGREQ" # "PINGRESP"
    BY DEF loopTypes
  <2> QED
    BY <1>3, <1>5, <1>7, <2>1, Unanswered DEF loopAnswersPing
<1>8. CASE loopCalls
  <2>1. "PUBLISH" \in loopTypes /\ "PUBLISH" # "PINGRESP"
    BY DEF loopTypes
  <2> QED
    BY <1>3, <1>5, <1>8, <2>1, Unanswered DEF loopCalls
<1>9. CASE loopSkips
  <2>1. /\ len > 0 => \A type \in loopTypes : TypeOf(buffer[0]) # Code[type]
        /\ client' = IF len > 0 THEN [client EXCEPT !.inIdle = FALSE] ELSE client
    BY <1>3, <1>9 DEF loopSkips
  <2>2. CASE ~(len > 0)
    <3>1. Passed
      BY <1>1, <1>4, <2>1, <2>2 DEF Passed
    <3> QED
      BY <3>1 DEF WholeStep
  <2>3. CASE len > 0
    <3>1. p.type \in {"SUBACK", "PUBLISH"}
      <4>1. CASE Fits(p)
        <5>1. TypeOf(buffer[0]) = Code[p.type]
          BY <1>2, <4>1, FitsFacts
        <5>2. p.type \notin loopTypes
          BY <2>1, <2>3, <5>1
        <5> QED
          BY <1>4, <5>2 DEF loopTypes
      <4>2. CASE ~Fits(p)
        BY <1>3, <4>2, OnlyValuesAreLong
      <4> QED
        BY <4>1, <4>2
    <3>2. client' = [client EXCEPT !.inIdle = FALSE,
                                   !.pingOutstanding = @ /\ p.type # "PINGRESP"]
      <4>1. p.type # "PINGRESP"
        BY <3>1
      <4> QED
        BY <2>1, <2>3, <4>1, Unanswered
    <3>3. Whole!loopRead(p.type)
      BY <1>1, <1>4, <3>2 DEF Whole!loopRead
    <3> QED
      BY <1>4, <3>3 DEF WholeStep
  <2> QED
    BY <2>2, <2>3
<1> QED
  BY <1>1, <1>6, <1>7, <1>8, <1>9

LEMMA RepliesWhole ==
  ASSUME IInv, Replies
  PROVE  WholeStep
<1>1. read.at = "publish" /\ publish
  BY DEF Replies, publish
<1>2. ~InPacket
  BY <1>1 DEF InPacket
<1>3. connected <=> Whole!connected
  BY <1>2, ConnectedWhole DEF IInv
<1>4. Whole!publish
  <2>1. CASE connected
    <3>1. /\ client' = [client EXCEPT !.outIdle = FALSE]
          /\ UNCHANGED <<sock, session, pending, begun>>
      BY <1>1, <2>1 DEF publish
    <3> QED
      BY <1>3, <2>1, <3>1, SameWhole DEF Whole!publish
  <2>2. CASE ~connected
    <3>1. stop /\ UNCHANGED client
      BY <1>1, <2>2 DEF publish
    <3> QED
      BY <1>3, <2>2, <3>1, StopsWhole DEF Whole!publish
  <2> QED
    BY <2>1, <2>2
<1> QED
  BY <1>4 DEF WholeStep

LEMMA UpdateStatusWhole ==
  ASSUME IInv, UpdateStatus
  PROVE  WholeStep
<1>1. AtRest /\ ~connected /\ stop /\ UNCHANGED client
  BY DEF UpdateStatus, connectedNot
<1>2. ~Whole!connected /\ Whole!stop
  BY <1>1, FirstBytes, ConnectedWhole, StopsWhole DEF IInv
<1>3. Whole!loopDisconnected
  BY <1>1, <1>2 DEF Whole!loopDisconnected
<1> QED
  BY <1>3 DEF WholeStep

\* A byte arrives: the first one of a packet, or another one.
HasFirst(coming) == \E c \in Sendable, later \in Seq(Sendable) : coming = <<c>> \o later

LEMMA FirstArrives ==
  ASSUME NEW open, NEW left, NEW behind, NEW coming, NEW rest,
         Stream(open, left, behind, coming, rest), Arrive
  PROVE  begun' = begun \/ (begun' = begun + 1 /\ HasFirst(coming))
<1>1. \/ /\ begun' = begun
         /\ \E r : Stream(open, left, behind, coming, r)'
      \/ /\ begun' = begun + 1
         /\ \E c \in Sendable, later \in Seq(Sendable) : \E r :
              /\ coming = <<c>> \o later
              /\ Stream(open, left, behind \o <<c>>, later, r)'
  BY StreamArrives
<1> QED
  BY <1>1 DEF HasFirst

LEMMA ArriveStep ==
  ASSUME IInv, Arrive, NEW open, NEW left, NEW behind, NEW coming, NEW rest,
         Stream(open, left, behind, coming, rest)
  PROVE  WholeStep \/ UNCHANGED packetVars
<1>1. UNCHANGED <<client, sock, session, pending>> /\ sock = "open"
  BY DEF Arrive, libraryVars
<1>2. Stream(open, left, behind, coming, rest)
  OBVIOUS
<1>3. /\ open \in Seq(Sendable) /\ behind \in Seq(Sendable)
      /\ pending = open \o behind \o coming /\ begun = Len(open \o behind)
      /\ Inbox = AsPackets(open \o behind) /\ Wire = AsPackets(coming)
  <2>1. /\ open \in Seq(Sendable) /\ behind \in Seq(Sendable)
        /\ pending = open \o behind \o coming
    BY <1>2 DEF Stream
  <2>2. Len(open \o behind) = begun
    BY <1>2, StreamPackets, Zenon
  <2>3. Inbox = AsPackets(open \o behind) /\ Wire = AsPackets(coming)
    BY <1>2, InboxIs, Zenon
  <2> QED
    BY <2>1, <2>2, <2>3
<1>4. CASE begun' = begun
  BY <1>1, <1>4, SameWhole DEF packetVars
<1>5. ASSUME NEW c \in Sendable, NEW later \in Seq(Sendable), coming = <<c>> \o later,
             begun' = begun + 1
      PROVE  WholeStep
  <2>1. PICK x \in Seq(Sendable) : x = open \o behind
    BY <1>3, JoinedPackets, Zenon
  <2>2. PICK one \in Seq(Sendable) : one = <<c>> /\ Len(one) = 1
    <3>1. <<c>> \in Seq(Sendable) /\ Len(<<c>>) = 1
      OBVIOUS
    <3> QED
      BY <3>1
  <2>3. PICK y \in Seq(Sendable) : y = x \o one
    BY JoinedPackets, Zenon
  <2>4. pending' = y \o later
    <3>1. pending = x \o (one \o later)
      BY <1>3, <1>5, <2>1, <2>2
    <3> QED
      BY <1>1, <2>3, <3>1, RegroupedPackets, Zenon
  <2>5. begun' = Len(y)
    <3>1. Len(y) = Len(x) + Len(one)
      BY <2>3, ConcatProperties
    <3> QED
      BY <1>3, <1>5, <2>1, <2>2, <3>1
  <2>6. Inbox' = AsPackets(y) /\ Wire' = AsPackets(later)
    BY <2>4, <2>5, PartsThen
  <2>7. /\ AsPackets(y) = AsPackets(x) \o <<Connack(c)>>
        /\ Wire = <<Connack(c)>> \o AsPackets(later)
    <3>1. AsPackets(one) = <<Connack(c)>>
      BY <2>2, PacketsFew
    <3> QED
      BY <1>3, <1>5, <2>2, <2>3, <3>1, PacketsBoth
  <2>8. /\ AsPackets(x) \in Seq(Messages) /\ AsPackets(later) \in Seq(Messages)
        /\ Connack(c) \in Messages /\ Inbox = AsPackets(x)
    BY <1>3, <2>1, PacketsFacts DEF Messages
  <2>9. Wire # <<>> /\ Head(Wire) = Connack(c) /\ Tail(Wire) = AsPackets(later)
    BY <2>7, <2>8
  <2>10. Append(AsPackets(x), Connack(c)) = AsPackets(x) \o <<Connack(c)>>
    BY <2>8, AppendProperties
  <2>11. Inbox' = Append(Inbox, Head(Wire)) /\ Wire' = Tail(Wire)
    BY <2>6, <2>7, <2>8, <2>9, <2>10
  <2>12. Whole!Arrive
    BY <1>1, <2>9, <2>11 DEF Whole!Arrive
  <2> QED
    BY <2>12 DEF WholeStep
<1> QED
  <2>1. begun' = begun \/ (begun' = begun + 1 /\ HasFirst(coming))
    BY FirstArrives
  <2>2. CASE begun' = begun + 1 /\ HasFirst(coming)
    <3>1. PICK c \in Sendable, later \in Seq(Sendable) : coming = <<c>> \o later
      BY <2>2 DEF HasFirst
    <3> QED
      BY <1>5, <2>2, <3>1
  <2> QED
    BY <1>4, <2>1, <2>2

LEMMA ArriveWhole ==
  ASSUME IInv, Arrive
  PROVE  WholeStep \/ UNCHANGED packetVars
<1>1. PICK open, left, behind, coming, rest : Stream(open, left, behind, coming, rest)
  BY DEF IInv, StreamInv
<1> QED
  BY <1>1, ArriveStep

LEMMA WorldWhole ==
  ASSUME IInv, World
  PROVE  WholeStep \/ UNCHANGED packetVars
<1>1. CASE PassOn
  <2>1. PICK value \in Values :
          /\ IF sock = "open" /\ session = "subscribed" THEN Sent(<<Feed(value, 0)>>)
             ELSE NothingSent
    BY <1>1 DEF PassOn
  <2>2. UNCHANGED <<client, sock, session>>
    BY <1>1 DEF PassOn, libraryVars
  <2>3. PICK p \in Sendable : p = Feed(value, 0) /\ Connack(p) = [type |-> "PUBLISH", code |-> value]
    BY Names DEF Sendable
  <2>4. Whole!PassOn(value)
    <3>1. CASE sock = "open" /\ session = "subscribed"
      <4>1. Inbox' = Inbox /\ Wire' = Append(Wire, Connack(p))
        BY <2>1, <2>3, <3>1, SentOne DEF IInv
      <4> QED
        BY <2>2, <2>3, <3>1, <4>1 DEF Whole!PassOn, Whole!Feed
    <3>2. CASE ~(sock = "open" /\ session = "subscribed")
      BY <2>1, <2>2, <3>2, SameWhole DEF NothingSent, Whole!PassOn
    <3> QED
      BY <3>1, <3>2
  <2> QED
    BY <2>4 DEF WholeStep
<1>2. CASE ServerPings
  <2>1. Sent(<<Packet("PINGREQ", <<>>)>>) /\ UNCHANGED <<client, sock, session>>
    BY <1>2 DEF ServerPings, libraryVars
  <2>2. PICK p \in Sendable : p = Packet("PINGREQ", <<>>) /\ Connack(p) = [type |-> "PINGREQ"]
    BY Names DEF Sendable, Pings
  <2>3. Inbox' = Inbox /\ Wire' = Append(Wire, Connack(p))
    BY <2>1, <2>2, SentOne DEF IInv
  <2>4. Pinged
    BY <2>1, <2>2, <2>3 DEF Pinged
  <2> QED
    BY <2>4 DEF WholeStep
<1>3. CASE ServerCloses
  <2>1. /\ sock = "open" /\ session \in {"connected", "subscribed"}
        /\ sock' = "closeWait" /\ session' = "none" /\ Cut /\ UNCHANGED client
    BY <1>3 DEF ServerCloses, libraryVars
  <2>2. Inbox' = Inbox /\ Wire' = <<>>
    BY <2>1, CutWhole DEF IInv
  <2>3. Whole!ServerCloses
    BY <2>1, <2>2 DEF Whole!ServerCloses
  <2> QED
    BY <2>3 DEF WholeStep
<1>4. CASE ConnectionLost
  <2>1. sock = "open" /\ session' = "lost" /\ Cut /\ UNCHANGED <<client, sock>>
    BY <1>4 DEF ConnectionLost, libraryVars
  <2>2. Inbox' = Inbox /\ Wire' = <<>>
    BY <2>1, CutWhole DEF IInv
  <2>3. Whole!ConnectionLost
    BY <2>1, <2>2 DEF Whole!ConnectionLost
  <2> QED
    BY <2>3 DEF WholeStep
<1>5. CASE KeepaliveRunsOut
  <2>1. /\ UNCHANGED <<sock, session, pending, begun>> /\ sock # "none" /\ client' # client
        /\ \/ client' = [client EXCEPT !.inIdle = TRUE]
           \/ client' = [client EXCEPT !.outIdle = TRUE]
    BY <1>5 DEF KeepaliveRunsOut
  <2>2. Whole!KeepaliveRunsOut
    BY <2>1, SameWhole DEF Whole!KeepaliveRunsOut
  <2> QED
    BY <2>2 DEF WholeStep
<1>6. CASE PowerCut
  <2>1. client' = [pingOutstanding |-> FALSE, inIdle |-> FALSE, outIdle |-> FALSE] /\ stop
    BY <1>6 DEF PowerCut
  <2>2. Whole!ClientPowerOn
    BY <2>1, StopsWhole DEF Whole!ClientPowerOn, Whole!ClientInit
  <2> QED
    BY <2>2 DEF WholeStep
<1> QED
  BY <1>1, <1>2, <1>3, <1>4, <1>5, <1>6, ArriveWhole DEF World

LEMMA StepWhole ==
  NoneTakenForAnother /\ IInv /\ client \in Clients /\ [Next]_vars => [WholeStep]_packetVars
<1> SUFFICES ASSUME NoneTakenForAnother, IInv, client \in Clients, [Next]_vars
             PROVE  WholeStep \/ UNCHANGED packetVars
  OBVIOUS
<1>1. CASE ReadByte \/ Callback \/ UNCHANGED vars
  <2>1. UNCHANGED <<client, sock, session, pending, begun>>
    BY <1>1 DEF ReadByte, readHeader, readDigit, readBody, Callback, reads, vars, mqttVars
  <2> QED
    BY <2>1, SameWhole DEF packetVars
<1>2. CASE World
  BY <1>2, WorldWhole
<1> QED
  BY <1>1, <1>2, ConnectWhole, AnsweredWhole, SubscribeWhole, LoopWhole, DispatchWhole,
     RepliesWhole, UpdateStatusWhole DEF Next, Program

ClientOK == client \in Clients

LEMMA InitWhole ==
  ASSUME Init
  PROVE  Whole!ClientStart /\ ClientOK
<1>1. /\ client = [pingOutstanding |-> FALSE, inIdle |-> FALSE, outIdle |-> FALSE]
      /\ sock = "none" /\ session = "none" /\ pending = <<>> /\ begun = 0
  BY DEF Init, MqttInit
<1>2. Inbox = <<>> /\ Wire = <<>>
  <2>1. <<>> \in Seq(Sendable) /\ <<>> \o <<>> = <<>> /\ Len(<<>>) = 0
    OBVIOUS
  <2>2. SubSeq(pending, 1, begun) = <<>> /\ SubSeq(pending, begun + 1, Len(pending)) = <<>>
    BY <1>1, <2>1, SplitAt
  <2> QED
    BY <2>2, PacketsFew DEF Inbox, Wire
<1> QED
  BY <1>1, <1>2, ClientFacts DEF Whole!ClientStart, Whole!ClientInit, ClientOK, Clients

LEMMA ClientAlways == Spec => []ClientOK
<1>1. Init => ClientOK
  BY InitWhole
<1>2. ClientOK /\ [Next]_vars => ClientOK'
  BY StepClient DEF ClientOK
<1> QED
  BY <1>1, <1>2, PTL DEF Spec

\* WholePackets: seen from BeerBotTask packets come whole: each step of the
\* library in bytes is a step of PubSubClient.tla, which the specifications of the
\* internet channel are built from, or none: for all values of which no remainder
\* is taken for another packet (PubSubClient.cpp:60-217, 266-309).
THEOREM WholePacketsAlways ==
  ASSUME NoneTakenForAnother PROVE Spec => WholePackets
<1>1. Init => Whole!ClientStart
  BY InitWhole
<1>2. IInv /\ ClientOK /\ [Next]_vars => [WholeStep]_packetVars
  BY StepWhole DEF ClientOK
<1> QED
  BY <1>1, <1>2, ClientAlways, IInvAlways, PTL DEF Spec, WholePackets
=============================================================================
