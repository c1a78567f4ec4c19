----------------------------- MODULE MqttLemmas -----------------------------
(***************************************************************************)
(* Lemmas about packets put together, for any number of packets: what      *)
(* bytes they consist of, and what is left when some have been read.       *)
(***************************************************************************)
EXTENDS MqttSpec, SequenceTheorems, WellFoundedInduction, TLAPS

-----------------------------------------------------------------------------
(* Induction: a set of numbers that is not empty has a least one.          *)

LEMMA Induction ==
  ASSUME NEW G, 0 \in G, \A n \in Nat : n \in G => n + 1 \in G
  PROVE  \A n \in Nat : n \in G
<1> DEFINE R == {ss \in Nat \X Nat : ss[1] < ss[2]}
           Bad == {n \in Nat : n \notin G}
<1>1. SUFFICES ASSUME Bad # {} PROVE FALSE
  OBVIOUS
<1>2. IsWellFoundedOn(R, Nat)
  BY NatLessThanWellFounded DEF OpToRel
<1>3. PICK n \in Bad : \A m \in Bad : ~(<<m, n>> \in R)
  <2>1. Bad \subseteq Nat
    OBVIOUS
  <2> HIDE DEF Bad, R
  <2> QED
    BY <1>1, <1>2, <2>1, WFMin
<1>4. n \in Nat /\ n # 0 /\ n - 1 \in Nat /\ (n - 1) + 1 = n
  OBVIOUS
<1>5. n - 1 \in Bad
  BY <1>4
<1>6. <<n - 1, n>> \in Nat \X Nat /\ n - 1 < n
  BY <1>4
<1> QED
  BY <1>3, <1>5, <1>6

-----------------------------------------------------------------------------
(* Bytes of several packets put together.                                  *)

UpTo(n, s, f) == f = [i \in 0 .. n |-> IF i = 0 THEN <<>> ELSE f[i - 1] \o s[i]]

Extends(f, s, i) == f[i] = f[i - 1] \o s[i]

LEMMA UpToValues ==
  ASSUME NEW n \in Nat, NEW s, NEW f, UpTo(n, s, f)
  PROVE  f[0] = <<>> /\ \A i \in 1 .. n : Extends(f, s, i)
<1>1. f[0] = <<>>
  BY DEF UpTo
<1>2. ASSUME NEW i \in 1 .. n PROVE f[i] = f[i - 1] \o s[i]
  BY DEF UpTo
<1> QED
  BY <1>1, <1>2 DEF Extends

LEMMA UpToFrom ==
  ASSUME NEW n \in Nat, NEW s, NEW f, f[0] = <<>>, DOMAIN f = 0 .. n,
         f = [i \in DOMAIN f |-> f[i]],
         \A i \in 1 .. n : Extends(f, s, i)
  PROVE  UpTo(n, s, f)
<1>1. ASSUME NEW i \in 0 .. n
      PROVE  f[i] = IF i = 0 THEN <<>> ELSE f[i - 1] \o s[i]
  <2>1. CASE i = 0
    BY <2>1
  <2>2. CASE i # 0
    <3>1. i \in 1 .. n
      BY <2>2
    <3>2. Extends(f, s, i)
      BY <3>1
    <3> QED
      BY <2>2, <3>2 DEF Extends
  <2> QED
    BY <2>1, <2>2
<1> QED
  BY <1>1 DEF UpTo

LEMMA UpToExists ==
  ASSUME NEW s
  PROVE  \A n \in Nat : \E f : UpTo(n, s, f)
<1> DEFINE G == {n \in Nat : \E f : UpTo(n, s, f)}
<1>1. 0 \in G
  <2> DEFINE f == [i \in 0 .. 0 |-> <<>>]
  <2>1. f[0] = <<>> /\ DOMAIN f = 0 .. 0 /\ f = [i \in DOMAIN f |-> f[i]]
    OBVIOUS
  <2> HIDE DEF f
  <2>2. UpTo(0, s, f)
    BY <2>1, UpToFrom
  <2> QED
    BY <2>2
<1>2. ASSUME NEW n \in Nat, n \in G PROVE n + 1 \in G
  <2>1. PICK f : UpTo(n, s, f)
    BY <1>2
  <2>2. f[0] = <<>> /\ \A i \in 1 .. n : Extends(f, s, i)
    BY <2>1, UpToValues
  <2> DEFINE g == [i \in 0 .. n + 1 |-> IF i = n + 1 THEN f[n] \o s[n + 1] ELSE f[i]]
  <2>3. g[0] = <<>> /\ DOMAIN g = 0 .. n + 1 /\ g = [i \in DOMAIN g |-> g[i]]
    BY <2>2
  <2>4. ASSUME NEW i \in 1 .. n + 1 PROVE Extends(g, s, i)
    <3>1. CASE i = n + 1
      <4>1. g[i] = f[n] \o s[i] /\ i - 1 = n /\ g[n] = f[n]
        BY <3>1
      <4> HIDE DEF g
      <4> QED
        BY <4>1 DEF Extends
    <3>2. CASE i # n + 1
      <4>1. i \in 1 .. n /\ i - 1 \in 0 .. n + 1 /\ i - 1 # n + 1 /\ i \in 0 .. n + 1
        BY <3>2
      <4>2. Extends(f, s, i)
        BY <2>2, <4>1
      <4> QED
        BY <3>2, <4>1, <4>2 DEF Extends
    <3> QED
      BY <3>1, <3>2
  <2> HIDE DEF g
  <2>5. UpTo(n + 1, s, g)
    BY <2>3, <2>4, UpToFrom
  <2> QED
    BY <2>5
<1> HIDE DEF G
<1>3. \A n \in Nat : n \in G
  BY <1>1, <1>2, Induction
<1> QED
  BY <1>3 DEF G

\* Two such functions agree as long as their sequences do.
LEMMA UpToAgree ==
  ASSUME NEW m \in Nat, NEW n \in Nat, m <= n,
         NEW s, NEW t, \A i \in 1 .. m : s[i] = t[i],
         NEW f, NEW g, UpTo(m, s, f), UpTo(n, t, g)
  PROVE  f[m] = g[m]
<1> DEFINE G == {k \in Nat : k <= m => f[k] = g[k]}
<1>1. /\ f[0] = <<>> /\ \A i \in 1 .. m : Extends(f, s, i)
      /\ g[0] = <<>> /\ \A i \in 1 .. n : Extends(g, t, i)
  BY UpToValues
<1>2. 0 \in G
  BY <1>1
<1>3. ASSUME NEW k \in Nat, k \in G, k + 1 <= m
      PROVE  f[k + 1] = g[k + 1]
  <2>1. k + 1 \in 1 .. m /\ k + 1 \in 1 .. n /\ (k + 1) - 1 = k /\ f[k] = g[k]
    BY <1>3
  <2>2. Extends(f, s, k + 1) /\ Extends(g, t, k + 1) /\ s[k + 1] = t[k + 1]
    BY <1>1, <2>1
  <2> QED
    BY <2>1, <2>2 DEF Extends
<1>4. \A k \in Nat : k \in G => k + 1 \in G
  BY <1>3
<1> HIDE DEF G
<1>5. m \in G
  BY <1>2, <1>4, Induction
<1> QED
  BY <1>5 DEF G

LEMMA ConcatIs ==
  ASSUME NEW s, Len(s) \in Nat
  PROVE  \E f : UpTo(Len(s), s, f) /\ Concat(s) = f[Len(s)]
<1> DEFINE g == CHOOSE f : UpTo(Len(s), s, f)
<1>1. \E f : UpTo(Len(s), s, f)
  BY UpToExists
<1>2. UpTo(Len(s), s, g)
  BY <1>1
<1>3. Concat(s) = g[Len(s)]
  BY DEF Concat, UpTo
<1> HIDE DEF g
<1> QED
  BY <1>2, <1>3

LEMMA ConcatEmpty == Concat(<<>>) = <<>>
<1>1. Len(<<>>) = 0
  OBVIOUS
<1>2. PICK f : UpTo(0, <<>>, f) /\ Concat(<<>>) = f[0]
  BY <1>1, ConcatIs
<1> QED
  BY <1>2, UpToValues

LEMMA ConcatType ==
  ASSUME NEW S, NEW s \in Seq(Seq(S))
  PROVE  Concat(s) \in Seq(S)
<1> DEFINE n == Len(s)
<1>1. n \in Nat /\ \A i \in 1 .. n : s[i] \in Seq(S)
  BY LenProperties, ElementOfSeq
<1>2. PICK f : UpTo(n, s, f) /\ Concat(s) = f[n]
  BY <1>1, ConcatIs
<1> HIDE DEF n
<1>3. f[0] = <<>> /\ \A i \in 1 .. n : Extends(f, s, i)
  BY <1>1, <1>2, UpToValues
<1> DEFINE G == {k \in Nat : k <= n => f[k] \in Seq(S)}
<1>4. 0 \in G
  BY <1>3, EmptySeq
<1>5. ASSUME NEW k \in Nat, k \in G, k + 1 <= n
      PROVE  f[k + 1] \in Seq(S)
  <2>1. k + 1 \in 1 .. n /\ (k + 1) - 1 = k /\ f[k] \in Seq(S)
    BY <1>1, <1>5
  <2>2. Extends(f, s, k + 1) /\ s[k + 1] \in Seq(S)
    BY <1>1, <1>3, <2>1
  <2>3. f[k + 1] = f[k] \o s[k + 1]
    BY <2>1, <2>2 DEF Extends
  <2> QED
    BY <2>1, <2>2, <2>3, ConcatProperties
<1>6. \A k \in Nat : k \in G => k + 1 \in G
  BY <1>5
<1> HIDE DEF G
<1>7. n \in G
  BY <1>1, <1>4, <1>6, Induction
<1> QED
  BY <1>1, <1>2, <1>7 DEF G

LEMMA ConcatOne ==
  ASSUME NEW S, NEW x \in Seq(S)
  PROVE  Concat(<<x>>) = x
<1>1. Len(<<x>>) = 1 /\ <<x>>[1] = x
  OBVIOUS
<1>2. PICK f : UpTo(1, <<x>>, f) /\ Concat(<<x>>) = f[1]
  BY <1>1, ConcatIs
<1>3. f[0] = <<>> /\ Extends(f, <<x>>, 1)
  BY <1>2, UpToValues
<1>4. f[1] = <<>> \o x
  BY <1>1, <1>3 DEF Extends
<1> QED
  BY <1>2, <1>4, ConcatEmptySeq

\* Behind its first m elements, u is the n sequences of t.
Follows(n, t, m, u, S) == \A i \in 1 .. n : t[i] \in Seq(S) /\ u[m + i] = t[i]

Joined(h, l, m, g, n) == h[l] = h[m] \o g[n]

LEMMA UpToBoth ==
  ASSUME NEW S, NEW m \in Nat, NEW n \in Nat, NEW l, l = m + n, NEW t, NEW u,
         Follows(n, t, m, u, S), NEW g, NEW h, UpTo(n, t, g), UpTo(l, u, h), h[m] \in Seq(S)
  PROVE  Joined(h, l, m, g, n)
<1>1. /\ g[0] = <<>> /\ \A i \in 1 .. n : Extends(g, t, i)
      /\ \A i \in 1 .. m + n : Extends(h, u, i)
  <2>1. l \in Nat
    OBVIOUS
  <2> QED
    BY <2>1, UpToValues
<1> DEFINE Both(k) == h[m + k] = h[m] \o g[k]
           G == {k \in Nat : k <= n => g[k] \in Seq(S) /\ Both(k)}
<1>2. 0 \in G
  <2>1. <<>> \in Seq(S) /\ h[m] = h[m] \o <<>> /\ m + 0 = m
    BY EmptySeq, ConcatEmptySeq
  <2> QED
    BY <1>1, <2>1
<1>3. ASSUME NEW k \in Nat, k + 1 <= n, g[k] \in Seq(S), Both(k)
      PROVE  g[k + 1] \in Seq(S) /\ Both(k + 1)
  <2>1. /\ k + 1 \in 1 .. n /\ (k + 1) - 1 = k
        /\ m + (k + 1) \in 1 .. m + n /\ (m + (k + 1)) - 1 = m + k
    BY <1>3
  <2>2. t[k + 1] \in Seq(S) /\ u[m + (k + 1)] = t[k + 1]
    BY <2>1 DEF Follows
  <2>3. g[k + 1] = g[k] \o t[k + 1]
    <3>1. Extends(g, t, k + 1)
      BY <1>1, <2>1
    <3> QED
      BY <2>1, <3>1 DEF Extends
  <2>4. h[m + (k + 1)] = h[m + k] \o t[k + 1]
    <3>1. Extends(h, u, m + (k + 1))
      BY <1>1, <2>1
    <3>2. h[m + (k + 1)] = h[(m + (k + 1)) - 1] \o u[m + (k + 1)]
      BY <3>1 DEF Extends
    <3> QED
      BY <2>1, <2>2, <3>2
  <2>5. g[k + 1] \in Seq(S)
    BY <1>3, <2>2, <2>3, ConcatProperties
  <2>6. \A x, y, z \in Seq(S) : (x \o y) \o z = x \o (y \o z)
    BY ConcatAssociative
  <2>7. (h[m] \o g[k]) \o t[k + 1] = h[m] \o (g[k] \o t[k + 1])
    BY <1>3, <2>2, <2>6, Zenon
  <2> QED
    BY <1>3, <2>3, <2>4, <2>5, <2>7
<1> HIDE DEF Both
<1>4. \A k \in Nat : k \in G => k + 1 \in G
  BY <1>3
<1>5. n \in G
  <2> HIDE DEF G
  <2> QED
    BY <1>2, <1>4, Induction
<1>6. Both(n)
  BY <1>5
<1> QED
  BY <1>6 DEF Both, Joined

LEMMA ConcatBoth ==
  ASSUME NEW S
  PROVE  \A s, t \in Seq(Seq(S)) : Concat(s \o t) = Concat(s) \o Concat(t)
<1>0. SUFFICES ASSUME NEW s, NEW t, s \in Seq(Seq(S)), t \in Seq(Seq(S))
               PROVE  Concat(s \o t) = Concat(s) \o Concat(t)
  OBVIOUS
<1>1. PICK m \in Nat, n \in Nat, l \in Nat : m = Len(s) /\ n = Len(t) /\ l = m + n
  BY <1>0, LenProperties
<1>2. PICK u : u = s \o t
  OBVIOUS
<1>3. u \in Seq(Seq(S)) /\ Len(u) = l
  BY <1>0, <1>1, <1>2, ConcatProperties
<1>4. \A i \in 1 .. m : s[i] = u[i]
  BY <1>0, <1>1, <1>2, ConcatProperties
<1>5. ASSUME NEW i \in 1 .. n PROVE t[i] \in Seq(S) /\ u[m + i] = t[i]
  <2>1. m + i \in 1 .. m + n /\ ~(m + i <= m) /\ (m + i) - m = i
    OBVIOUS
  <2> QED
    BY <1>0, <1>1, <1>2, <2>1, ConcatProperties, ElementOfSeq
<1>6. PICK f : UpTo(m, s, f) /\ Concat(s) = f[m]
  BY <1>1, ConcatIs
<1>7. PICK g : UpTo(n, t, g) /\ Concat(t) = g[n]
  BY <1>1, ConcatIs
<1>8. PICK h : UpTo(l, u, h) /\ Concat(u) = h[l]
  <2>1. Len(u) \in Nat
    BY <1>3
  <2>2. \E h : UpTo(Len(u), u, h) /\ Concat(u) = h[Len(u)]
    BY <2>1, ConcatIs
  <2> QED
    BY <1>3, <2>2
<1>9. f[m] = h[m]
  <2>1. m <= l
    BY <1>1
  <2> QED
    BY <1>4, <1>6, <1>8, <2>1, UpToAgree
<1>10. h[m] \in Seq(S)
  BY <1>0, <1>6, <1>9, ConcatType
<1>11. Joined(h, l, m, g, n)
  <2>1. Follows(n, t, m, u, S)
    BY <1>5 DEF Follows
  <2>2. l = m + n /\ UpTo(n, t, g) /\ UpTo(l, u, h) /\ h[m] \in Seq(S)
    BY <1>1, <1>7, <1>8, <1>10
  <2> QED
    BY <2>1, <2>2, UpToBoth
<1> QED
  BY <1>2, <1>6, <1>7, <1>8, <1>9, <1>11 DEF Joined

-----------------------------------------------------------------------------
(* Sequences.                                                              *)

LEMMA FirstOf ==
  ASSUME NEW S, NEW s \in Seq(S), s # <<>>
  PROVE  \E h \in S, t \in Seq(S) :
           /\ s = <<h>> \o t /\ h = Head(s) /\ t = Tail(s)
           /\ <<h>> \in Seq(S) /\ Len(s) = 1 + Len(t) /\ Len(t) \in Nat
<1>1. Head(s) \in S /\ Tail(s) \in Seq(S) /\ Len(Tail(s)) \in Nat /\ Len(s) = 1 + Len(Tail(s))
  BY HeadTailProperties, LenProperties, EmptySeq
<1>2. s = <<Head(s)>> \o Tail(s) /\ <<Head(s)>> \in Seq(S)
  OBVIOUS
<1> QED
  BY <1>1, <1>2

LEMMA Regrouped ==
  ASSUME NEW S
  PROVE  \A x, y, z \in Seq(S) : (x \o y) \o z = x \o (y \o z)
  BY ConcatAssociative

-----------------------------------------------------------------------------
(* Numbers in digits to the base Base.                                     *)

LEMMA BaseFacts ==
  Base \in Nat /\ Base >= 16 /\ 2 * Base \in Nat /\ (1 * Base) % (2 * Base) = Base
<1>1. Base \in Nat /\ Base >= 16
  BY MqttAssumption
<1> QED
  BY <1>1

LEMMA LengthOne ==
  ASSUME NEW n \in Nat, n < Base
  PROVE  LengthField(n) = <<n>> /\ n \in Byte /\ n % Base = n /\ n % (2 * Base) = n
  BY BaseFacts DEF LengthField, Byte

LEMMA LengthTwo ==
  ASSUME NEW n \in Nat, n >= Base, n < Base * Base
  PROVE  /\ LengthField(n) = <<(n % Base) + Base, n \div Base>>
         /\ (n % Base) + Base \in Byte /\ (n % Base) + Base >= Base
         /\ ((n % Base) + Base) % Base = n % Base /\ n % Base \in Nat
         /\ n \div Base \in Byte /\ n \div Base < Base
         /\ (n \div Base) % Base = n \div Base
         /\ (n % Base) + (n \div Base) * Base = n
<1> DEFINE r == n % Base
           q == n \div Base
<1>1. r \in 0 .. Base - 1 /\ q \in Nat
  BY BaseFacts
<1>2. q < Base
  BY BaseFacts
<1>3. r + q * Base = n
  BY BaseFacts
<1>4. LengthField(n) = <<r + Base, q>>
  BY BaseFacts DEF LengthField
<1> HIDE DEF r, q
<1>5. r + Base \in Byte /\ r + Base >= Base /\ (r + Base) % Base = r /\ q \in Byte /\ q % Base = q
  BY <1>1, <1>2, BaseFacts DEF Byte
<1> QED
  BY <1>1, <1>2, <1>3, <1>4, <1>5 DEF r, q

-----------------------------------------------------------------------------
(* What the server can send.                                               *)

Answers == {CONNACK, REFUSED}

Pings == {Packet("PINGREQ", <<>>), Packet("PINGRESP", <<>>)}

Sendable == Answers \cup {SUBACK} \cup Pings \cup {Feed(v, r) : v \in Values, r \in {0, 1}}

Sized(p) == /\ p.type \in {"CONNACK", "SUBACK", "PINGREQ", "PINGRESP", "PUBLISH"}
            /\ p.flag \in {0, 1}
            /\ p.body \in Seq(Byte) /\ Len(p.body) < Base * Base

LEMMA Topics ==
  ASSUME NEW s \in Seq(Byte), Len(s) < 2 * Base
  PROVE  /\ String(s) = <<0, Len(s)>> \o s
         /\ String(s) \in Seq(Byte) /\ Len(String(s)) = 2 + Len(s)
         /\ String(s)[1] = 0 /\ String(s)[2] = Len(s)
         /\ \A i \in 1 .. Len(s) : String(s)[2 + i] = s[i]
<1>1. PICK n \in Nat : n = Len(s)
  OBVIOUS
<1>2. n \div (2 * Base) = 0 /\ n % (2 * Base) = n /\ n \in Byte /\ 0 \in Byte
  BY <1>1, BaseFacts DEF Byte
<1>3. String(s) = <<0, n>> \o s
  BY <1>1, <1>2 DEF String
<1>4. <<0, n>> \in Seq(Byte)
  BY <1>2
<1> QED
  BY <1>1, <1>3, <1>4

LEMMA FeedTopicFacts ==
  /\ FeedTopic \in Seq(Byte) /\ 10 + Len(FeedTopic) <= MQTT_MAX_PACKET_SIZE
  /\ Len(FeedTopic) \in Nat /\ Len(FeedTopic) < 2 * Base
  BY MqttAssumption DEF Byte

LEMMA FeedFacts ==
  ASSUME NEW v \in Values, NEW r \in {0, 1}
  PROVE  LET p == Feed(v, r) IN
         /\ Sized(p) /\ p.type = "PUBLISH"
         /\ v \in Seq(Byte) /\ Len(p.body) = 2 + Len(FeedTopic) + Len(v)
         /\ p.body[1] = 0 /\ p.body[2] = Len(FeedTopic)
         /\ \A i \in 1 .. Len(v) : p.body[2 + Len(FeedTopic) + i] = v[i]
         /\ Payload(p) = v
<1> DEFINE t == String(FeedTopic)
           p == Feed(v, r)
<1>1. v \in Seq(Byte) /\ 2 + Len(FeedTopic) + Len(v) < Base * Base
  BY MqttSpecAssumption
<1>2. PICK m \in Nat : m = Len(FeedTopic)
  BY FeedTopicFacts
<1>3. t \in Seq(Byte) /\ Len(t) = 2 + m /\ t[1] = 0 /\ t[2] = m
  BY <1>2, FeedTopicFacts, Topics
<1>4. p.type = "PUBLISH" /\ p.flag = r /\ p.body = t \o v
  BY DEF Feed
<1> HIDE DEF t, p
<1>5. p.body \in Seq(Byte) /\ Len(p.body) = 2 + m + Len(v)
  BY <1>1, <1>3, <1>4
<1>6. p.body[1] = 0 /\ p.body[2] = m /\ \A i \in 1 .. Len(v) : p.body[2 + m + i] = v[i]
  BY <1>1, <1>3, <1>4
<1>7. SubSeq(p.body, 3 + m, Len(p.body)) = v
  BY <1>1, <1>5, <1>6
<1> QED
  BY <1>1, <1>2, <1>4, <1>5, <1>6, <1>7 DEF Sized, Payload, p

LEMMA SendableFacts ==
  ASSUME NEW p \in Sendable
  PROVE  /\ Sized(p)
         /\ p.type = "PUBLISH" => \E v \in Values, r \in {0, 1} : p = Feed(v, r)
         /\ p.type = "CONNACK" <=> p \in Answers
         /\ p.type # "PUBLISH" => Len(p.body) <= 3
         /\ p \in Answers => Len(p.body) = 2 /\ p.body[1] = 0
                             /\ (p.body[2] = 0 <=> p = CONNACK) /\ p.body[2] \in Byte
<1>1. CASE p \in Answers
  <2>1. PICK x \in {0, 5} : p = Packet("CONNACK", <<0, x>>)
    BY <1>1 DEF Answers, CONNACK, REFUSED
  <2>3. p.type = "CONNACK" /\ p.flag = 0 /\ p.body = <<0, x>>
    BY <2>1 DEF Packet
  <2>4. <<0, x>> \in Seq(Byte) /\ Len(<<0, x>>) = 2 /\ x \in Byte
    BY BaseFacts DEF Byte
  <2>5. 2 < Base * Base
    BY BaseFacts
  <2>6. Sized(p)
    BY <2>3, <2>4, <2>5 DEF Sized
  <2>7. p.body[2] = 0 <=> p = CONNACK
    BY <2>1, <2>3 DEF CONNACK, Packet
  <2> QED
    BY <1>1, <2>3, <2>4, <2>6, <2>7
<1>2. CASE p = SUBACK
  <2>1. <<0, 6, 0>> \in Seq(Byte)
    BY BaseFacts DEF Byte
  <2> QED
    BY <1>2, <2>1, BaseFacts DEF Answers, SUBACK, CONNACK, REFUSED, Packet, Sized
<1>3. CASE p \in Pings
  <2>1. PICK t \in {"PINGREQ", "PINGRESP"} : p = Packet(t, <<>>)
    BY <1>3 DEF Pings
  <2>2. p.type = t /\ p.flag = 0 /\ p.body = <<>>
    BY <2>1 DEF Packet
  <2>3. <<>> \in Seq(Byte) /\ Len(<<>>) = 0 /\ 0 < Base * Base
    BY BaseFacts
  <2>4. p \notin Answers
    BY <2>2 DEF Answers, CONNACK, REFUSED, Packet
  <2> QED
    BY <2>2, <2>3, <2>4 DEF Sized
<1>4. CASE p \in {Feed(v, r) : v \in Values, r \in {0, 1}}
  <2>1. PICK v \in Values, r \in {0, 1} : p = Feed(v, r)
    BY <1>4
  <2>2. Sized(p) /\ p.type = "PUBLISH"
    BY <2>1, FeedFacts
  <2>3. p \notin Answers
    BY <2>2 DEF Answers, CONNACK, REFUSED, Packet
  <2> QED
    BY <2>1, <2>2, <2>3
<1> QED
  BY <1>1, <1>2, <1>3, <1>4 DEF Sendable

LEMMA Headers ==
  ASSUME NEW type \in {"CONNACK", "SUBACK", "PINGREQ", "PINGRESP", "PUBLISH"}, NEW flag \in {0, 1}
  PROVE  Header(type, flag) \in Byte /\ TypeOf(Header(type, flag)) = Code[type]
  BY BaseFacts DEF Header, Code, TypeOf, Byte

\* The bytes of a packet: its header, the length of the body, the body.
Ahead(p) == 1 + Len(LengthField(Len(p.body)))

LEMMA BytesFacts ==
  ASSUME NEW p, Sized(p)
  PROVE  LET b == Bytes(p)
             n == Len(p.body)
         IN /\ b \in Seq(Byte) /\ Len(b) = Ahead(p) + n /\ n \in Nat
            /\ b[1] = Header(p.type, p.flag)
            /\ n < Base => Ahead(p) = 2 /\ b[2] = n
            /\ n >= Base => Ahead(p) = 3 /\ b[2] = (n % Base) + Base /\ b[3] = n \div Base
            /\ \A i \in 1 .. n : b[Ahead(p) + i] = p.body[i]
<1> DEFINE h == Header(p.type, p.flag)
           f == LengthField(Len(p.body))
<1>1. PICK n \in Nat, body \in Seq(Byte) : n = Len(p.body) /\ body = p.body /\ n = Len(body)
  BY DEF Sized
<1>2. h \in Byte
  BY Headers DEF Sized
<1>3. f \in Seq(Byte) /\ \/ n < Base /\ f = <<n>>
                         \/ n >= Base /\ f = <<(n % Base) + Base, n \div Base>>
  <2>1. CASE n < Base
    <3>1. LengthField(n) = <<n>> /\ n \in Byte
      BY <2>1, LengthOne
    <3> QED
      BY <1>1, <2>1, <3>1
  <2>2. CASE n >= Base
    <3> DEFINE u == (n % Base) + Base
               v == n \div Base
    <3>1. n < Base * Base
      BY <1>1 DEF Sized
    <3>2. LengthField(n) = <<u, v>> /\ u \in Byte /\ v \in Byte
      BY <2>2, <3>1, LengthTwo
    <3>3. f = LengthField(n)
      BY <1>1
    <3> HIDE DEF f, u, v
    <3>4. f = <<u, v>> /\ f \in Seq(Byte)
      BY <3>2, <3>3
    <3> QED
      BY <2>2, <3>4 DEF u, v
  <2> QED
    BY <2>1, <2>2, BaseFacts
<1>4. Bytes(p) = <<h>> \o f \o body /\ Ahead(p) = 1 + Len(f)
  BY <1>1 DEF Bytes, Ahead
<1> HIDE DEF h, f
<1>5. <<h>> \o f \o body \in Seq(Byte) /\ Len(<<h>> \o f \o body) = 1 + Len(f) + n
  BY <1>1, <1>2, <1>3
<1>6. CASE n < Base
  <2>1. f = <<n>>
    BY <1>3, <1>6, BaseFacts
  <2>2. Len(f) = 1
    BY <2>1
  <2> DEFINE b == <<h>> \o f \o body
  <2>3. b[1] = h /\ b[2] = n /\ \A i \in 1 .. n : b[2 + i] = body[i]
    BY <1>1, <1>2, <2>1
  <2>4. b \in Seq(Byte) /\ Len(b) = 2 + n /\ b = Bytes(p) /\ Ahead(p) = 2
    BY <1>4, <1>5, <2>2
  <2>5. ~(n >= Base)
    BY <1>6, BaseFacts
  <2> HIDE DEF b
  <2> QED
    BY <1>1, <2>3, <2>4, <2>5 DEF h
<1>7. CASE n >= Base
  <2>1. PICK x \in Byte, y \in Byte : x = (n % Base) + Base /\ y = n \div Base
    BY <1>1, <1>7, LengthTwo DEF Sized
  <2>2. f = <<x, y>>
    BY <1>3, <1>7, <2>1, BaseFacts
  <2>3. Len(f) = 2
    BY <2>2
  <2> DEFINE b == <<h>> \o f \o body
  <2>4. b[1] = h /\ b[2] = x /\ b[3] = y /\ \A i \in 1 .. n : b[3 + i] = body[i]
    BY <1>1, <1>2, <2>2
  <2>5. b \in Seq(Byte) /\ Len(b) = 3 + n /\ b = Bytes(p) /\ Ahead(p) = 3
    BY <1>4, <1>5, <2>3
  <2>6. ~(n < Base)
    BY <1>7, BaseFacts
  <2> HIDE DEF b
  <2> QED
    BY <1>1, <2>1, <2>4, <2>5, <2>6 DEF h
<1>8. n < Base \/ n >= Base
  BY BaseFacts
<1> QED
  BY <1>6, <1>7, <1>8

-----------------------------------------------------------------------------
(* Several packets, and what is left of one.                               *)

BytesOf(packets) == Concat(Segments(packets))

LEMMA SendableBytes ==
  ASSUME NEW p \in Sendable
  PROVE  Bytes(p) \in Seq(Byte) /\ Len(Bytes(p)) \in Nat /\ Len(Bytes(p)) >= 2
<1>1. Sized(p)
  BY SendableFacts
<1>2. PICK n \in Nat : n = Len(p.body)
  BY <1>1 DEF Sized
<1>3. Len(Bytes(p)) = Ahead(p) + n /\ (n < Base => Ahead(p) = 2) /\ (n >= Base => Ahead(p) = 3)
  BY <1>1, <1>2, BytesFacts
<1>4. n < Base \/ n >= Base
  BY BaseFacts
<1> QED
  BY <1>1, <1>3, <1>4, BytesFacts

LEMMA SegmentsFacts ==
  ASSUME NEW s \in Seq(Sendable)
  PROVE  /\ Segments(s) \in Seq(Seq(Byte)) /\ Len(Segments(s)) = Len(s)
         /\ \A i \in 1 .. Len(s) : Segments(s)[i] = Bytes(s[i])
<1>1. Len(s) \in Nat /\ DOMAIN s = 1 .. Len(s) /\ \A i \in 1 .. Len(s) : s[i] \in Sendable
  OBVIOUS
<1>2. Segments(s) = [i \in 1 .. Len(s) |-> Bytes(s[i])]
  BY <1>1 DEF Segments
<1>3. \A i \in 1 .. Len(s) : Bytes(s[i]) \in Seq(Byte)
  BY <1>1, SendableBytes
<1> QED
  BY <1>1, <1>2, <1>3

LEMMA SegmentsBoth ==
  ASSUME NEW s \in Seq(Sendable), NEW t \in Seq(Sendable)
  PROVE  Segments(s \o t) = Segments(s) \o Segments(t)
<1> DEFINE u == s \o t
           a == Segments(s)
           b == Segments(t)
           c == Segments(u)
<1>1. PICK m \in Nat, n \in Nat : m = Len(s) /\ n = Len(t)
  BY LenProperties
<1>2. /\ u \in Seq(Sendable) /\ Len(u) = m + n
      /\ \A i \in 1 .. m + n : u[i] = IF i <= m THEN s[i] ELSE t[i - m]
  BY <1>1, ConcatProperties
<1> HIDE DEF u
<1>3. /\ a \in Seq(Seq(Byte)) /\ Len(a) = m /\ \A i \in 1 .. m : a[i] = Bytes(s[i])
      /\ b \in Seq(Seq(Byte)) /\ Len(b) = n /\ \A i \in 1 .. n : b[i] = Bytes(t[i])
      /\ c \in Seq(Seq(Byte)) /\ Len(c) = m + n /\ \A i \in 1 .. m + n : c[i] = Bytes(u[i])
  BY <1>1, <1>2, SegmentsFacts
<1> HIDE DEF a, b, c
<1>4. /\ a \o b \in Seq(Seq(Byte)) /\ Len(a \o b) = m + n
      /\ \A i \in 1 .. m + n : (a \o b)[i] = IF i <= m THEN a[i] ELSE b[i - m]
  BY <1>3, ConcatProperties
<1>5. ASSUME NEW i \in 1 .. m + n PROVE c[i] = (a \o b)[i]
  <2>1. CASE i <= m
    <3>1. i \in 1 .. m
      BY <2>1
    <3> QED
      BY <1>2, <1>3, <1>4, <2>1, <3>1
  <2>2. CASE ~(i <= m)
    <3>1. i - m \in 1 .. n
      BY <2>2
    <3> QED
      BY <1>2, <1>3, <1>4, <2>2, <3>1
  <2> QED
    BY <2>1, <2>2
<1>6. c = a \o b
  BY <1>3, <1>4, <1>5, SeqEqual
<1> QED
  BY <1>6 DEF a, b, c, u

LEMMA SegmentsOne ==
  ASSUME NEW p \in Sendable
  PROVE  Segments(<<p>>) = <<Bytes(p)>>
  BY DEF Segments

LEMMA BytesOfType ==
  ASSUME NEW s \in Seq(Sendable)
  PROVE  BytesOf(s) \in Seq(Byte)
<1>1. Segments(s) \in Seq(Seq(Byte))
  BY SegmentsFacts
<1> QED
  BY <1>1, ConcatType DEF BytesOf

LEMMA BytesOfNone == BytesOf(<<>>) = <<>> /\ Segments(<<>>) = <<>>
<1>1. Segments(<<>>) = <<>>
  BY DEF Segments
<1> QED
  BY <1>1, ConcatEmpty DEF BytesOf

LEMMA BytesOfOne ==
  ASSUME NEW p \in Sendable
  PROVE  BytesOf(<<p>>) = Bytes(p)
  BY SegmentsOne, SendableBytes, ConcatOne DEF BytesOf

LEMMA BytesOfBoth ==
  ASSUME NEW s \in Seq(Sendable), NEW t \in Seq(Sendable)
  PROVE  BytesOf(s \o t) = BytesOf(s) \o BytesOf(t)
<1>1. Segments(s) \in Seq(Seq(Byte)) /\ Segments(t) \in Seq(Seq(Byte))
  BY SegmentsFacts
<1>2. Concat(Segments(s) \o Segments(t)) = Concat(Segments(s)) \o Concat(Segments(t))
  BY <1>1, ConcatBoth
<1> QED
  BY <1>2, SegmentsBoth DEF BytesOf

\* The last packet is a part of them.
LEMMA BytesOfLast ==
  ASSUME NEW s \in Seq(Sendable), s # <<>>
  PROVE  /\ s[Len(s)] \in Sendable
         /\ Len(Bytes(s[Len(s)])) <= Len(BytesOf(s))
<1>1. PICK t \in Seq(Sendable), p \in Sendable : s = Append(t, p)
  BY SequenceEmptyOrAppend
<1>2. s = t \o <<p>> /\ <<p>> \in Seq(Sendable) /\ s[Len(s)] = p
  BY <1>1
<1>3. BytesOf(s) = BytesOf(t) \o Bytes(p)
  BY <1>2, BytesOfBoth, BytesOfOne
<1>4. BytesOf(t) \in Seq(Byte) /\ Bytes(p) \in Seq(Byte)
  BY BytesOfType, SendableBytes
<1>5. Len(BytesOf(t)) \in Nat /\ Len(Bytes(p)) \in Nat
      /\ Len(BytesOf(s)) = Len(BytesOf(t)) + Len(Bytes(p))
  BY <1>3, <1>4, ConcatProperties, LenProperties
<1> QED
  BY <1>2, <1>5

\* What is left of a packet of which k bytes have been read.
Left(p, k) == SubSeq(Bytes(p), k + 1, Len(Bytes(p)))

LEMMA LeftFacts ==
  ASSUME NEW p \in Sendable
  PROVE  /\ Left(p, 0) = Bytes(p)
         /\ Left(p, Len(Bytes(p))) = <<>>
         /\ \A k \in 0 .. Len(Bytes(p)) - 1 :
              /\ Left(p, k) = <<Bytes(p)[k + 1]>> \o Left(p, k + 1)
              /\ Bytes(p)[k + 1] \in Byte /\ Left(p, k + 1) \in Seq(Byte)
<1>1. PICK b \in Seq(Byte), n \in Nat : b = Bytes(p) /\ n = Len(b)
  BY SendableBytes
<1>2. \A k : Left(p, k) = SubSeq(b, k + 1, n)
  BY <1>1 DEF Left
<1>3. SubSeq(b, 1, n) = b
  BY <1>1, SubSeqFull
<1>4. SubSeq(b, n + 1, n) = <<>>
  BY <1>1
<1>5. ASSUME NEW k \in 0 .. n - 1
      PROVE  /\ SubSeq(b, k + 1, n) = <<b[k + 1]>> \o SubSeq(b, k + 2, n)
             /\ b[k + 1] \in Byte /\ SubSeq(b, k + 2, n) \in Seq(Byte)
  <2>1. k + 1 \in 1 .. Len(b) /\ n \in (k + 1) .. Len(b) /\ (k + 1) + 1 = k + 2
    BY <1>1
  <2>2. SubSeq(b, k + 1, n) = <<b[k + 1]>> \o SubSeq(b, (k + 1) + 1, n)
    BY <2>1, SubSeqRecursiveFirst
  <2>3. \A i \in k + 2 .. n : b[i] \in Byte
    BY <1>1
  <2>4. SubSeq(b, k + 2, n) \in Seq(Byte)
    BY <2>3, SubSeqProperties
  <2> QED
    BY <2>1, <2>2, <2>4, ElementOfSeq
<1>6. ASSUME NEW k \in 0 .. n - 1
      PROVE  /\ Left(p, k) = <<b[k + 1]>> \o Left(p, k + 1)
             /\ b[k + 1] \in Byte /\ Left(p, k + 1) \in Seq(Byte)
  <2>1. (k + 1) + 1 = k + 2
    OBVIOUS
  <2> QED
    BY <1>2, <1>5, <2>1
<1>7. Left(p, 0) = b /\ Left(p, n) = <<>>
  <2>1. 0 + 1 = 1
    OBVIOUS
  <2> QED
    BY <1>2, <1>3, <1>4, <2>1
<1> QED
  BY <1>1, <1>6, <1>7

\* The first byte of two parts of what begins with x.
Begins(a, r, x, y) == a # <<>> /\ a \o r = <<x>> \o y

Without(a, r, x, y) == Head(a) = x /\ Tail(a) \in Seq(Byte) /\ Tail(a) \o r = y

LEMMA FirstByte ==
  ASSUME NEW a \in Seq(Byte), NEW r \in Seq(Byte), NEW x \in Byte, NEW y \in Seq(Byte),
         Begins(a, r, x, y)
  PROVE  Without(a, r, x, y)
<1>0. a # <<>> /\ a \o r = <<x>> \o y
  BY DEF Begins
<1>1. a = <<Head(a)>> \o Tail(a) /\ Head(a) \in Byte /\ Tail(a) \in Seq(Byte)
  BY <1>0
<1>2. a \o r = <<Head(a)>> \o (Tail(a) \o r)
  <2>1. <<Head(a)>> \in Seq(Byte)
    BY <1>1
  <2> QED
    BY <1>1, <2>1, ConcatAssociative
<1>3. Tail(a) \o r \in Seq(Byte)
  BY <1>1, ConcatProperties
<1>4. PICK u \in Byte, w \in Seq(Byte) : u = Head(a) /\ w = Tail(a) \o r
  BY <1>1, <1>3
<1>5. <<u>> \o w = <<x>> \o y
  BY <1>0, <1>2, <1>4
<1>6. (<<u>> \o w)[1] = u /\ (<<x>> \o y)[1] = x
  OBVIOUS
<1>7. u = x
  BY <1>5, <1>6
<1>8. <<x>> \in Seq(Byte)
  OBVIOUS
<1>9. w = y
  BY <1>5, <1>7, <1>8, ConcatSimplifications
<1> QED
  BY <1>1, <1>4, <1>7, <1>9 DEF Without

-----------------------------------------------------------------------------
(* Where len starts again: a byte more than the buffer has.                *)

Multiples == {k * (MQTT_MAX_PACKET_SIZE + 1) : k \in Nat}

LEMMA MultiplesFacts ==
  /\ MQTT_MAX_PACKET_SIZE \in Nat /\ MQTT_MAX_PACKET_SIZE >= 11
  /\ MQTT_MAX_PACKET_SIZE <= Base + 2
  /\ 0 \in Multiples
  /\ \A m \in Multiples : /\ m \in Nat
                          /\ m = 0 \/ m > MQTT_MAX_PACKET_SIZE
                          /\ m + MQTT_MAX_PACKET_SIZE + 1 \in Multiples
<1>1. PICK l \in Nat : l = MQTT_MAX_PACKET_SIZE /\ l >= 11 /\ l <= Base + 2
  BY MqttAssumption
<1>2. 0 \in Multiples
  <2>1. 0 * (l + 1) = 0
    OBVIOUS
  <2> QED
    BY <1>1, <2>1 DEF Multiples
<1>3. ASSUME NEW m \in Multiples
      PROVE  m \in Nat /\ (m = 0 \/ m > l) /\ m + l + 1 \in Multiples
  <2>1. PICK k \in Nat : m = k * (l + 1)
    BY <1>1 DEF Multiples
  <2>2. m \in Nat /\ m + l + 1 = (k + 1) * (l + 1) /\ k + 1 \in Nat
    BY <2>1
  <2>3. k = 0 \/ m > l
    <3>1. k # 0 => k * (l + 1) >= l + 1
      OBVIOUS
    <3> QED
      BY <2>1, <3>1
  <2> QED
    BY <1>1, <2>1, <2>2, <2>3 DEF Multiples
<1> QED
  BY <1>1, <1>2, <1>3

-----------------------------------------------------------------------------
(* Sequences of bytes, and of packets.                                     *)

LEMMA RegroupedBytes == \A x, y, z \in Seq(Byte) : (x \o y) \o z = x \o (y \o z)
  BY Regrouped

LEMMA RegroupedPackets == \A x, y, z \in Seq(Sendable) : (x \o y) \o z = x \o (y \o z)
  BY Regrouped

LEMMA FirstPacket ==
  ASSUME NEW s \in Seq(Sendable), s # <<>>
  PROVE  \E p \in Sendable, t \in Seq(Sendable) :
           /\ s = <<p>> \o t /\ p = Head(s) /\ t = Tail(s)
           /\ <<p>> \in Seq(Sendable) /\ Len(s) = 1 + Len(t) /\ Len(t) \in Nat
  BY FirstOf
=============================================================================
