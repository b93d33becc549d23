---------------------------- MODULE SourceProofs ----------------------------
(***************************************************************************)
(* Theorems about two of the readers, for every instance: KafkaSource, for *)
(* any partitions and messages, and SqliteSource, for any table.           *)
(***************************************************************************)
EXTENDS KafkaSource, SqliteSource, FiniteSetTheorems, TLAPS

-----------------------------------------------------------------------------
(* KafkaSource.                                                            *)

\* The messages of the partitions up to the offsets n.
UpTo(n) == UNION {{<<p, 1, o>> : o \in 1 .. n[p]} : p \in Partitions}

Offsets == [Partitions -> Nat]
Message(p, o) == DataEntry(<<p, 1, o>>, 1)

\* Channel c holds, of each partition, the messages after t and up to e, in order.
InFlight(c, t, e) ==
    /\ c \in Seq({Message(p, o) : p \in Partitions, o \in Nat})
    /\ \A i \in 1 .. Len(c), p \in Partitions, o \in Nat : c[i] = Message(p, o) => t[p] < o /\ o <= e[p]
    /\ \A p \in Partitions, o \in Nat : t[p] < o /\ o <= e[p] => \E i \in 1 .. Len(c) : c[i] = Message(p, o)
    /\ \A i, j \in 1 .. Len(c), p \in Partitions, o, q \in Nat :
          i < j /\ c[i] = Message(p, o) /\ c[j] = Message(p, q) => o < q

\* The last conjunct alone.
LEMMA InFlightOrder ==
    ASSUME NEW c, NEW t, NEW e, InFlight(c, t, e)
    PROVE  \A x, y \in 1 .. Len(c), z \in Partitions, f, g \in Nat :
              x < y /\ c[x] = Message(z, f) /\ c[y] = Message(z, g) => f < g
BY DEF InFlight

\* The consumer is where the messages that were sent end, or has yet to be moved there:
\* then nothing of the partition is in flight.
Consumed(t, e) ==
    \A p \in Partitions :
        /\ t[p] <= e[p] /\ e[p] <= topic[p] /\ position[p] >= 1
        /\ IF SeenMessage(p) THEN e[p] = t[p] /\ t[p] = positionsForSeek[p]
                             ELSE e[p] = position[p] - 1

\* The messages up to v are visible, and those up to t were taken.
KafkaCuts(v, t, e) ==
    /\ \A p \in Partitions : v[p] <= t[p]
    /\ visible = Once(UpTo(v)) /\ taken = Once(UpTo(t) \ UpTo(v))
    /\ InFlight(channel, t, e) /\ Consumed(t, e)

KafkaInv ==
    /\ topic \in Offsets /\ position \in Offsets /\ positionsForSeek \in Offsets
    /\ \E v, t, e \in Offsets : KafkaCuts(v, t, e)

\* Collections without a common record are put together.
LEMMA OnceUnion ==
    ASSUME NEW A, NEW B, A \cap B = {}
    PROVE  Concat(Once(A), Once(B)) = Once(A \cup B)
<1>1. DOMAIN Once(A) = A /\ DOMAIN Once(B) = B
  BY DEF Once
<1>2. \A x \in A \cup B : Weight(Once(A), x) + Weight(Once(B), x) = 1
  BY <1>1 DEF Weight, Once
<1> DEFINE w(x) == Weight(Once(A), x) + Weight(Once(B), x)
<1>3. Concat(Once(A), Once(B)) = [x \in {y \in A \cup B : w(y) # 0} |-> w(x)]
  BY <1>1 DEF Concat, Consolidated
<1>4. \A x \in A \cup B : w(x) = 1
  BY <1>2
<1> HIDE DEF w
<1>5. {y \in A \cup B : w(y) # 0} = A \cup B
  BY <1>4
<1> QED  BY <1>3, <1>4, <1>5 DEF Once

\* Which messages those up to the offsets n are.
LEMMA UpToFacts ==
    ASSUME NEW n \in Offsets
    PROVE  /\ \A r \in UpTo(n) : \E p \in Partitions, o \in Nat : o \in 1 .. n[p] /\ r = <<p, 1, o>>
           /\ \A p \in Partitions : \A o \in 1 .. n[p] : <<p, 1, o>> \in UpTo(n)
           /\ \A p \in Partitions : \A o \in Nat : <<p, 1, o>> \in UpTo(n) => o \in 1 .. n[p]
<1>1. \A r \in UpTo(n) : \E p \in Partitions, o \in Nat : o \in 1 .. n[p] /\ r = <<p, 1, o>>
  BY DEF UpTo
<1>2. \A p \in Partitions : \A o \in 1 .. n[p] : <<p, 1, o>> \in UpTo(n)
  BY DEF UpTo
<1>3. ASSUME NEW p \in Partitions, NEW o \in Nat, <<p, 1, o>> \in UpTo(n)
      PROVE  o \in 1 .. n[p]
  <2>1. PICK q \in Partitions, k \in Nat : k \in 1 .. n[q] /\ <<p, 1, o>> = <<q, 1, k>>
    BY <1>1, <1>3
  <2> QED  BY <2>1
<1> QED  BY <1>1, <1>2, <1>3

\* More offsets, more messages.
LEMMA UpToGrows ==
    ASSUME NEW n \in Offsets, NEW m \in Offsets, \A p \in Partitions : n[p] <= m[p]
    PROVE  UpTo(n) \subseteq UpTo(m)
<1> SUFFICES ASSUME NEW r \in UpTo(n)
             PROVE  r \in UpTo(m)
  OBVIOUS
<1>1. PICK p \in Partitions, o \in Nat : o \in 1 .. n[p] /\ r = <<p, 1, o>>
  BY UpToFacts
<1>2. n[p] \in Nat /\ m[p] \in Nat /\ n[p] <= m[p]
  BY DEF Offsets
<1>3. o \in 1 .. m[p]
  BY <1>1, <1>2
<1> QED  BY <1>1, <1>3, UpToFacts

\* The next message of a partition.
LEMMA UpToNext ==
    ASSUME NEW n \in Offsets, NEW p \in Partitions, NEW m \in Offsets,
           m[p] = n[p] + 1, \A q \in Partitions : q # p => m[q] = n[q]
    PROVE  /\ UpTo(m) = UpTo(n) \cup {<<p, 1, n[p] + 1>>}
           /\ <<p, 1, n[p] + 1>> \notin UpTo(n)
<1>1. m \in Offsets /\ n[p] \in Nat /\ m[p] = n[p] + 1 /\ \A q \in Partitions : q # p => m[q] = n[q]
  BY DEF Offsets
<1>2. <<p, 1, n[p] + 1>> \notin UpTo(n)
  <2>1. n[p] + 1 \in Nat /\ n[p] + 1 \notin 1 .. n[p]
    BY <1>1
  <2> QED  BY <2>1, UpToFacts
<1>3. \A q \in Partitions : n[q] \in Nat /\ m[q] \in Nat /\ n[q] <= m[q]
  <2>1. \A q \in Partitions : n[q] \in Nat /\ m[q] \in Nat
    BY <1>1 DEF Offsets
  <2> QED  BY <1>1, <2>1
<1>4. UpTo(n) \subseteq UpTo(m)
  BY <1>1, <1>3, UpToGrows
<1>5. <<p, 1, n[p] + 1>> \in UpTo(m)
  <2>1. n[p] + 1 \in 1 .. m[p]
    BY <1>1
  <2> QED  BY <1>1, <2>1, UpToFacts
<1>6. ASSUME NEW r \in UpTo(m)
      PROVE  r \in UpTo(n) \cup {<<p, 1, n[p] + 1>>}
  <2>1. PICK q \in Partitions, o \in Nat : o \in 1 .. m[q] /\ r = <<q, 1, o>>
    BY <1>1, UpToFacts
  <2>2. CASE o \in 1 .. n[q]
    BY <2>1, <2>2, UpToFacts
  <2>3. CASE o \notin 1 .. n[q]
    <3>1. q = p
      BY <1>1, <2>1, <2>3
    <3>2. o = n[p] + 1
      BY <1>1, <2>1, <2>3, <3>1
    <3> QED  BY <2>1, <3>1, <3>2
  <2> QED  BY <2>2, <2>3
<1> QED  BY <1>1, <1>2, <1>4, <1>5, <1>6

\* The offsets that are restored are those of the messages that are visible.
LEMMA StoredOffsets ==
    ASSUME NEW v \in Offsets, visible = Once(UpTo(v)), NEW p \in Partitions
    PROVE  StoredOffset(p) = v[p]
<1> DEFINE S == {0} \cup {r[3] : r \in {x \in DOMAIN visible : x[1] = p}}
<1>1. DOMAIN visible = UpTo(v) /\ v[p] \in Nat
  BY DEF Once, Offsets
<1>2. v[p] \in S
  <2>1. CASE v[p] = 0
    BY <2>1
  <2>2. CASE v[p] # 0
    <3>1. <<p, 1, v[p]>> \in UpTo(v)
      BY <1>1, <2>2, UpToFacts
    <3> QED  BY <1>1, <3>1
  <2> QED  BY <2>1, <2>2
<1>3. \A y \in S : y \in Nat /\ y <= v[p]
  <2> SUFFICES ASSUME NEW r \in UpTo(v), r[1] = p
               PROVE  r[3] \in Nat /\ r[3] <= v[p]
    BY <1>1
  <2>1. PICK q \in Partitions, o \in Nat : o \in 1 .. v[q] /\ r = <<q, 1, o>>
    BY UpToFacts
  <2> QED  BY <1>1, <2>1
<1>4. StoredOffset(p) = Max(S)
  BY DEF StoredOffset
<1> HIDE DEF S
<1>5. Max(S) = v[p]
  BY <1>1, <1>2, <1>3 DEF Max
<1> QED  BY <1>4, <1>5

\* An entry of the channel tells its partition and its offset.
LEMMA MessageFacts ==
    ASSUME NEW p, NEW o
    PROVE  /\ Message(p, o)[1] = "Data" /\ Message(p, o)[2] = <<p, 1, o>> /\ Message(p, o)[3] = 1
           /\ \A q, k : Message(p, o) = Message(q, k) => p = q /\ o = k
BY DEF Message, DataEntry

\* Sending the next message of a partition.
LEMMA InFlightSend ==
    ASSUME NEW c, NEW t \in Offsets, NEW e \in Offsets, InFlight(c, t, e),
           NEW p \in Partitions, t[p] <= e[p], NEW m, m = [e EXCEPT ![p] = e[p] + 1],
           NEW d, d = Append(c, Message(p, e[p] + 1))
    PROVE  InFlight(d, t, m)
<1> DEFINE M == {Message(q, o) : q \in Partitions, o \in Nat}
<1>1. /\ m \in Offsets /\ e[p] \in Nat /\ t[p] \in Nat
      /\ m[p] = e[p] + 1 /\ \A q \in Partitions : q # p => m[q] = e[q]
  BY DEF Offsets
<1>2. \A q \in Partitions : t[q] \in Nat /\ e[q] \in Nat /\ m[q] \in Nat /\ e[q] <= m[q]
  <2>1. \A q \in Partitions : t[q] \in Nat /\ e[q] \in Nat /\ m[q] \in Nat
    BY <1>1 DEF Offsets
  <2> QED  BY <1>1, <2>1
<1>3. c \in Seq(M) /\ Message(p, e[p] + 1) \in M
  BY <1>1 DEF InFlight
<1>4. /\ d \in Seq(M) /\ Len(c) \in Nat /\ Len(d) = Len(c) + 1
      /\ \A i \in 1 .. Len(c) : d[i] = c[i]
      /\ d[Len(c) + 1] = Message(p, e[p] + 1)
  <2> HIDE DEF M
  <2> QED  BY <1>3
<1>5. \A q \in Partitions, o \in Nat : d[Len(c) + 1] = Message(q, o) => q = p /\ o = e[p] + 1
  BY <1>4 DEF Message, DataEntry
<1>6. ASSUME NEW i \in 1 .. Len(d), NEW q \in Partitions, NEW o \in Nat, d[i] = Message(q, o)
      PROVE  t[q] < o /\ o <= m[q]
  <2>1. CASE i \in 1 .. Len(c)
    <3>1. \A j \in 1 .. Len(c), r \in Partitions, n \in Nat : c[j] = Message(r, n) => t[r] < n /\ n <= e[r]
      BY DEF InFlight
    <3>2. c[i] = Message(q, o)
      BY <1>4, <1>6, <2>1
    <3>3. t[q] < o /\ o <= e[q]
      BY <2>1, <3>1, <3>2
    <3> QED  BY <1>2, <3>3
  <2>2. CASE i = Len(c) + 1
    <3>1. q = p /\ o = e[p] + 1
      BY <1>5, <1>6, <2>2, Zenon
    <3> QED  BY <1>1, <3>1
  <2> QED  BY <1>4, <2>1, <2>2
<1>7. ASSUME NEW q \in Partitions, NEW o \in Nat, t[q] < o, o <= m[q]
      PROVE  \E i \in 1 .. Len(d) : d[i] = Message(q, o)
  <2>1. CASE o <= e[q]
    <3>1. PICK i \in 1 .. Len(c) : c[i] = Message(q, o)
      BY <1>7, <2>1 DEF InFlight
    <3>2. i \in 1 .. Len(d) /\ d[i] = c[i]
      BY <1>4
    <3> QED  BY <3>1, <3>2
  <2>2. CASE ~ (o <= e[q])
    <3>1. q = p
      BY <1>1, <1>7, <2>2
    <3>2. o = e[p] + 1
      BY <1>1, <1>7, <2>2, <3>1
    <3>3. Len(c) + 1 \in 1 .. Len(d)
      BY <1>4
    <3> QED  BY <1>4, <3>1, <3>2, <3>3, Zenon
  <2> QED  BY <2>1, <2>2
<1>8. ASSUME NEW i \in 1 .. Len(d), NEW j \in 1 .. Len(d), NEW q \in Partitions, NEW o \in Nat, NEW k \in Nat,
             i < j, d[i] = Message(q, o), d[j] = Message(q, k)
      PROVE  o < k
  <2>1. i \in 1 .. Len(c)
    BY <1>4, <1>8
  <2>2. CASE j \in 1 .. Len(c)
    <3>1. c[i] = Message(q, o) /\ c[j] = Message(q, k)
      BY <1>4, <1>8, <2>1, <2>2
    <3> QED  BY <1>8, <2>1, <2>2, <3>1 DEF InFlight
  <2>3. CASE j = Len(c) + 1
    <3>1. q = p /\ k = e[p] + 1
      BY <1>5, <1>8, <2>3, Zenon
    <3>2. c[i] = Message(q, o)
      BY <1>4, <1>8, <2>1
    <3>3. o <= e[p]
      BY <2>1, <3>1, <3>2 DEF InFlight
    <3> QED  BY <1>1, <3>1, <3>3
  <2> QED  BY <1>4, <2>2, <2>3
<1> QED  BY <1>4, <1>6, <1>7, <1>8 DEF InFlight

\* Handling the first entry: it is the next message of its partition.
LEMMA InFlightHandle ==
    ASSUME NEW c, NEW t \in Offsets, NEW e \in Offsets, InFlight(c, t, e), c # << >>
    PROVE  \E p \in Partitions :
              /\ Head(c) = Message(p, t[p] + 1) /\ t[p] + 1 <= e[p]
              /\ InFlight(Tail(c), [t EXCEPT ![p] = t[p] + 1], e)
<1> DEFINE M == {Message(q, o) : q \in Partitions, o \in Nat}
           d == Tail(c)
<1>1. c \in Seq(M)
  BY DEF InFlight
<1>2. /\ Len(c) \in Nat /\ Len(c) >= 1 /\ Head(c) = c[1] /\ c[1] \in M
      /\ d \in Seq(M) /\ Len(d) = Len(c) - 1 /\ \A i \in 1 .. Len(d) : d[i] = c[i + 1]
  <2> HIDE DEF M
  <2> QED  BY <1>1
<1>3. PICK p \in Partitions, o \in Nat : c[1] = Message(p, o)
  BY <1>2
<1> DEFINE m == [t EXCEPT ![p] = t[p] + 1]
<1>4. /\ m \in Offsets /\ t[p] \in Nat /\ e[p] \in Nat
      /\ m[p] = t[p] + 1 /\ \A q \in Partitions : q # p => m[q] = t[q]
  BY DEF Offsets
<1>5. t[p] < o /\ o <= e[p] /\ 1 \in 1 .. Len(c)
  BY <1>2, <1>3 DEF InFlight
<1>6. o = t[p] + 1
  <2> SUFFICES ASSUME o # t[p] + 1
               PROVE  FALSE
    OBVIOUS
  <2>1. t[p] + 1 \in Nat /\ t[p] < t[p] + 1 /\ t[p] + 1 <= e[p] /\ ~ (o < t[p] + 1)
    BY <1>4, <1>5
  <2>2. PICK i \in 1 .. Len(c) : c[i] = Message(p, t[p] + 1)
    BY <2>1 DEF InFlight
  <2>3. i # 1
    BY <1>3, <2>2 DEF Message, DataEntry
  <2>4. 1 < i
    BY <1>2, <2>3
  <2> QED  BY <1>3, <1>5, <2>1, <2>2, <2>4 DEF InFlight
<1>7. \A q \in Partitions : t[q] \in Nat /\ e[q] \in Nat /\ m[q] \in Nat /\ t[q] <= m[q]
  <2>1. \A q \in Partitions : t[q] \in Nat /\ e[q] \in Nat /\ m[q] \in Nat
    BY <1>4 DEF Offsets
  <2> QED  BY <1>4, <2>1
<1> HIDE DEF m
<1>8. \A i \in 1 .. Len(d) : i + 1 \in 1 .. Len(c) /\ 1 < i + 1 /\ d[i] = c[i + 1]
  BY <1>2
<1> HIDE DEF d
<1>9. ASSUME NEW i \in 1 .. Len(d), NEW q \in Partitions, NEW k \in Nat, d[i] = Message(q, k)
      PROVE  m[q] < k /\ k <= e[q]
  <2>1. t[q] < k /\ k <= e[q]
    BY <1>8, <1>9 DEF InFlight
  <2>2. CASE q = p
    <3>1. i + 1 \in 1 .. Len(c) /\ 1 < i + 1 /\ c[i + 1] = Message(p, k)
      BY <1>8, <1>9, <2>2
    <3>2. o < k
      BY <1>3, <1>5, <3>1 DEF InFlight
    <3> QED  BY <1>4, <1>6, <2>1, <2>2, <3>2
  <2>3. CASE q # p
    BY <1>4, <2>1, <2>3
  <2> QED  BY <2>2, <2>3
<1>10. ASSUME NEW q \in Partitions, NEW k \in Nat, m[q] < k, k <= e[q]
       PROVE  \E i \in 1 .. Len(d) : d[i] = Message(q, k)
  <2>1. t[q] < k
    BY <1>7, <1>10
  <2>2. PICK i \in 1 .. Len(c) : c[i] = Message(q, k)
    <3>1. \A x \in Partitions, y \in Nat : t[x] < y /\ y <= e[x] => \E i \in 1 .. Len(c) : c[i] = Message(x, y)
      BY DEF InFlight
    <3> QED  BY <1>10, <2>1, <3>1, Zenon
  <2>3. i # 1
    <3> SUFFICES ASSUME i = 1
                 PROVE  FALSE
      OBVIOUS
    <3>1. q = p /\ k = o
      BY <1>3, <2>2 DEF Message, DataEntry
    <3> QED  BY <1>4, <1>6, <1>10, <3>1
  <2>4. i - 1 \in 1 .. Len(d) /\ (i - 1) + 1 = i
    BY <1>2, <2>3 DEF d
  <2> QED  BY <1>8, <2>2, <2>4, Zenon
<1>11. ASSUME NEW i \in 1 .. Len(d), NEW j \in 1 .. Len(d), NEW q \in Partitions, NEW k \in Nat, NEW l \in Nat,
              i < j, d[i] = Message(q, k), d[j] = Message(q, l)
       PROVE  k < l
  <2>1. i + 1 < j + 1
    BY <1>2, <1>11 DEF d
  <2>2. \A x, y \in 1 .. Len(c), z \in Partitions, f, g \in Nat :
           x < y /\ c[x] = Message(z, f) /\ c[y] = Message(z, g) => f < g
    BY InFlightOrder, Zenon
  <2>3. /\ i + 1 \in 1 .. Len(c) /\ j + 1 \in 1 .. Len(c)
        /\ c[i + 1] = Message(q, k) /\ c[j + 1] = Message(q, l)
    BY <1>8, <1>11, Zenon
  <2> QED  BY <2>1, <2>2, <2>3, Zenon
<1>12. InFlight(d, m, e)
  <2>1. d \in Seq(M)
    BY <1>2 DEF d
  <2> QED  BY <2>1, <1>9, <1>10, <1>11 DEF InFlight
<1>13. Head(c) = Message(p, t[p] + 1) /\ t[p] + 1 <= e[p]
  BY <1>2, <1>3, <1>5, <1>6
<1> QED  BY <1>12, <1>13 DEF d, m

\* A start with nothing taken.
LEMMA KafkaInitInv == KafkaInit => KafkaInv
<1> SUFFICES ASSUME KafkaInit
             PROVE  KafkaInv
  OBVIOUS
<1> DEFINE z == [p \in Partitions |-> 0]
<1>1. z \in Offsets /\ \A p \in Partitions : z[p] = 0
  BY DEF Offsets
<1>2. topic \in Offsets /\ position \in Offsets /\ positionsForSeek \in Offsets
  BY DEF KafkaInit, Offsets
<1>3. UpTo(z) = {} /\ UpTo(z) \ UpTo(z) = {}
  <2>1. \A r \in UpTo(z) : FALSE
    BY <1>1, UpToFacts
  <2> QED  BY <2>1
<1> HIDE DEF z
<1>4. visible = Once(UpTo(z)) /\ taken = Once(UpTo(z) \ UpTo(z))
  BY <1>3 DEF KafkaInit, ConnectorInit, NoRows
<1>5. InFlight(channel, z, z)
  <2>1. channel = << >> /\ Len(channel) = 0 /\ channel \in Seq({Message(p, o) : p \in Partitions, o \in Nat})
    BY DEF KafkaInit, ConnectorInit
  <2> QED  BY <1>1, <2>1 DEF InFlight
<1>6. Consumed(z, z)
  BY <1>1 DEF Consumed, KafkaInit, SeenMessage
<1>7. KafkaCuts(z, z, z)
  BY <1>1, <1>4, <1>5, <1>6 DEF KafkaCuts
<1> QED  BY <1>1, <1>2, <1>7 DEF KafkaInv

\* The consumer reads: a message that was seen before is passed over, another one is sent.
LEMMA ReadKafkaInv ==
    ASSUME KafkaInv, ReadKafka
    PROVE  KafkaInv'
<1>1. PICK p \in Partitions : position[p] <= topic[p] /\ (SkipMessage(p) \/ ReturnMessage(p))
  BY DEF ReadKafka
<1>2. PICK v, t, e \in Offsets : KafkaCuts(v, t, e)
  BY DEF KafkaInv
<1>3. topic' = topic /\ visible' = visible /\ taken' = taken
  BY DEF ReadKafka, pollVars
<1>4. /\ topic \in Offsets /\ position \in Offsets /\ positionsForSeek \in Offsets
      /\ \A q \in Partitions : /\ v[q] \in Nat /\ t[q] \in Nat /\ e[q] \in Nat
                               /\ topic[q] \in Nat /\ position[q] \in Nat /\ positionsForSeek[q] \in Nat
  BY DEF KafkaInv, Offsets
<1>5. CASE SkipMessage(p)
  <2>1. channel' = channel /\ positionsForSeek' = positionsForSeek /\ SeenMessage(p)
    BY <1>5 DEF SkipMessage, sendVars
  <2>2. PICK n \in {position[p] + 1, positionsForSeek[p] + 1} : position' = [position EXCEPT ![p] = n]
    BY <1>5, Zenon DEF SkipMessage
  <2>3. n \in Nat /\ n >= 1 /\ n <= positionsForSeek[p] + 1
    BY <1>4, <2>1, <2>2 DEF SeenMessage
  <2>4. position' \in Offsets /\ position'[p] = n /\ \A q \in Partitions : q # p => position'[q] = position[q]
    BY <1>4, <2>2, <2>3 DEF Offsets
  <2>5. Consumed(t, e)'
    <3> SUFFICES ASSUME NEW q \in Partitions
                 PROVE  /\ t[q] <= e[q] /\ e[q] <= topic'[q] /\ position'[q] >= 1
                        /\ IF positionsForSeek'[q] >= position'[q]
                             THEN e[q] = t[q] /\ t[q] = positionsForSeek'[q]
                             ELSE e[q] = position'[q] - 1
      BY DEF Consumed, SeenMessage
    <3>1. /\ t[q] <= e[q] /\ e[q] <= topic[q] /\ position[q] >= 1
          /\ IF positionsForSeek[q] >= position[q] THEN e[q] = t[q] /\ t[q] = positionsForSeek[q]
                                                   ELSE e[q] = position[q] - 1
      BY <1>2 DEF KafkaCuts, Consumed, SeenMessage
    <3>2. CASE q # p
      BY <1>3, <2>1, <2>4, <3>1, <3>2
    <3>3. CASE q = p
      <4>1. e[p] = t[p] /\ t[p] = positionsForSeek[p]
        BY <2>1, <3>1, <3>3, Zenon DEF SeenMessage
      <4> QED  BY <1>3, <1>4, <2>1, <2>3, <2>4, <3>1, <3>3, <4>1
    <3> QED  BY <3>2, <3>3
  <2>6. KafkaCuts(v, t, e)'
    BY <1>2, <1>3, <2>1, <2>5 DEF KafkaCuts
  <2> QED  BY <1>3, <1>4, <2>1, <2>4, <2>6 DEF KafkaInv
<1>6. CASE ReturnMessage(p)
  <2>1. /\ ~ (positionsForSeek[p] >= position[p])
        /\ channel' = Append(channel, Message(p, position[p]))
        /\ position' = [position EXCEPT ![p] = position[p] + 1]
        /\ positionsForSeek' = [positionsForSeek EXCEPT ![p] = 0]
    BY <1>6, Zenon DEF ReturnMessage, Send, Message, SeenMessage
  <2>2. \A q \in Partitions :
          /\ t[q] <= e[q] /\ e[q] <= topic[q] /\ position[q] >= 1
          /\ IF positionsForSeek[q] >= position[q] THEN e[q] = t[q] /\ t[q] = positionsForSeek[q]
                                                   ELSE e[q] = position[q] - 1
    BY <1>2 DEF KafkaCuts, Consumed, SeenMessage
  <2>3. position[p] = e[p] + 1
    BY <1>4, <2>1, <2>2
  <2>0. PICK m : m = [e EXCEPT ![p] = e[p] + 1]
    BY Zenon
  <2>4. m \in Offsets /\ m[p] = e[p] + 1 /\ \A q \in Partitions : q # p => m[q] = e[q]
    BY <1>4, <2>0 DEF Offsets
  <2>5. InFlight(channel', t, m)
    BY <1>2, <2>0, <2>1, <2>2, <2>3, InFlightSend, Zenon DEF KafkaCuts
  <2>6. /\ position' \in Offsets /\ positionsForSeek' \in Offsets
        /\ position'[p] = position[p] + 1 /\ positionsForSeek'[p] = 0
        /\ \A q \in Partitions : q # p => position'[q] = position[q] /\ positionsForSeek'[q] = positionsForSeek[q]
    BY <1>4, <2>1 DEF Offsets
  <2>7. Consumed(t, m)'
    <3> SUFFICES ASSUME NEW q \in Partitions
                 PROVE  /\ t[q] <= m[q] /\ m[q] <= topic'[q] /\ position'[q] >= 1
                        /\ IF positionsForSeek'[q] >= position'[q]
                             THEN m[q] = t[q] /\ t[q] = positionsForSeek'[q]
                             ELSE m[q] = position'[q] - 1
      BY DEF Consumed, SeenMessage
    <3>1. CASE q # p
      BY <1>3, <2>2, <2>4, <2>6, <3>1
    <3>2. CASE q = p
      BY <1>1, <1>3, <1>4, <2>2, <2>3, <2>4, <2>6, <3>2
    <3> QED  BY <3>1, <3>2
  <2>8. KafkaCuts(v, t, m)'
    BY <1>2, <1>3, <2>5, <2>7 DEF KafkaCuts
  <2> QED  BY <1>3, <1>4, <2>4, <2>6, <2>8 DEF KafkaInv
<1> QED  BY <1>1, <1>5, <1>6

\* The poller takes the next message of a partition in, or closes a time.
LEMMA PollKafkaInv ==
    ASSUME KafkaInv, PollKafka
    PROVE  KafkaInv'
<1>1. PICK v, t, e \in Offsets : KafkaCuts(v, t, e)
  BY DEF KafkaInv
<1>2. topic' = topic /\ position' = position /\ positionsForSeek' = positionsForSeek
  BY DEF PollKafka, kafkaVars
<1>3. \A q \in Partitions : v[q] \in Nat /\ t[q] \in Nat /\ e[q] \in Nat
  BY DEF Offsets
<1>4. \A q \in Partitions : v[q] <= t[q]
  BY <1>1 DEF KafkaCuts
<1>5. UpTo(v) \subseteq UpTo(t)
  BY <1>4, UpToGrows
<1>6. CASE HandleEntry
  <2>1. channel # << >> /\ channel' = Tail(channel)
    BY <1>6 DEF HandleEntry
  <2>2. PICK p \in Partitions :
           /\ Head(channel) = Message(p, t[p] + 1) /\ t[p] + 1 <= e[p]
           /\ InFlight(Tail(channel), [t EXCEPT ![p] = t[p] + 1], e)
    BY <1>1, <2>1, InFlightHandle, Zenon DEF KafkaCuts
  <2>0. PICK m : m = [t EXCEPT ![p] = t[p] + 1]
    BY Zenon
  <2> DEFINE r == <<p, 1, t[p] + 1>>
  <2>a. m \in Offsets /\ m[p] = t[p] + 1 /\ \A q \in Partitions : q # p => m[q] = t[q]
    BY <1>3, <2>0 DEF Offsets
  <2>3. UpTo(m) = UpTo(t) \cup {r} /\ r \notin UpTo(t)
    BY <2>a, UpToNext
  <2>4. InFlight(channel', m, e)
    BY <2>0, <2>1, <2>2
  <2>5. Head(channel)[1] = "Data" /\ Head(channel)[2] = r /\ Head(channel)[3] = 1
    BY <2>2, MessageFacts
  <2>6. TakeRow(r, 1)
    BY <1>6, <2>5 DEF HandleEntry
  <2>7. visible' = visible /\ taken' = Concat(taken, Once({r}))
    BY <2>6 DEF TakeRow, Once
  <2> HIDE DEF r
  <2>8. (UpTo(t) \ UpTo(v)) \cap {r} = {} /\ (UpTo(t) \ UpTo(v)) \cup {r} = UpTo(m) \ UpTo(v)
    BY <1>5, <2>3
  <2>9. taken' = Once(UpTo(m) \ UpTo(v))
    <3>1. taken = Once(UpTo(t) \ UpTo(v))
      BY <1>1 DEF KafkaCuts
    <3>2. Concat(Once(UpTo(t) \ UpTo(v)), Once({r})) = Once((UpTo(t) \ UpTo(v)) \cup {r})
      BY <2>8, OnceUnion
    <3> QED  BY <2>7, <2>8, <3>1, <3>2
  <2>10. \A q \in Partitions : v[q] <= m[q] /\ m[q] <= e[q]
    <3>1. \A q \in Partitions : t[q] <= e[q]
      BY <1>1 DEF KafkaCuts, Consumed
    <3> QED  BY <1>3, <1>4, <2>2, <2>a, <3>1
  <2>11. Consumed(m, e)'
    <3> SUFFICES ASSUME NEW q \in Partitions
                 PROVE  /\ m[q] <= e[q] /\ e[q] <= topic[q] /\ position[q] >= 1
                        /\ IF positionsForSeek[q] >= position[q]
                             THEN e[q] = m[q] /\ m[q] = positionsForSeek[q]
                             ELSE e[q] = position[q] - 1
      BY <1>2 DEF Consumed, SeenMessage
    <3>1. /\ t[q] <= e[q] /\ e[q] <= topic[q] /\ position[q] >= 1
          /\ IF positionsForSeek[q] >= position[q] THEN e[q] = t[q] /\ t[q] = positionsForSeek[q]
                                                   ELSE e[q] = position[q] - 1
      BY <1>1 DEF KafkaCuts, Consumed, SeenMessage
    <3>2. CASE q # p
      BY <2>a, <3>1, <3>2
    <3>3. CASE q = p
      <4>1. ~ (e[q] = t[q])
        BY <1>3, <2>2, <3>3
      <4> QED  BY <2>10, <3>1, <4>1
    <3> QED  BY <3>2, <3>3
  <2>12. KafkaCuts(v, m, e)'
    BY <1>1, <2>4, <2>7, <2>9, <2>10, <2>11 DEF KafkaCuts
  <2> QED  BY <1>2, <2>a, <2>12 DEF KafkaInv
<1>7. CASE AutocommitTimer
  <2>1. channel' = channel /\ visible' = Concat(visible, taken) /\ taken' = Once({})
    BY <1>7 DEF AutocommitTimer, sendVars, CloseTime, NoRows
  <2>2. UpTo(v) \cap (UpTo(t) \ UpTo(v)) = {} /\ UpTo(v) \cup (UpTo(t) \ UpTo(v)) = UpTo(t) /\ UpTo(t) \ UpTo(t) = {}
    BY <1>5
  <2>3. visible' = Once(UpTo(t)) /\ taken' = Once(UpTo(t) \ UpTo(t))
    <3>1. visible = Once(UpTo(v)) /\ taken = Once(UpTo(t) \ UpTo(v))
      BY <1>1 DEF KafkaCuts
    <3>2. Concat(Once(UpTo(v)), Once(UpTo(t) \ UpTo(v))) = Once(UpTo(v) \cup (UpTo(t) \ UpTo(v)))
      BY <2>2, OnceUnion
    <3> QED  BY <2>1, <2>2, <3>1, <3>2
  <2>4. Consumed(t, e)'
    BY <1>1, <1>2 DEF KafkaCuts, Consumed, SeenMessage
  <2>5. \A q \in Partitions : t[q] <= t[q]
    BY <1>3
  <2>6. KafkaCuts(t, t, e)'
    BY <1>1, <2>1, <2>3, <2>4, <2>5 DEF KafkaCuts
  <2> QED  BY <1>2, <2>6 DEF KafkaInv
<1> QED  BY <1>6, <1>7 DEF PollKafka, ConnectorNext

\* A restart goes back to the messages that are visible, and forgets the others.
LEMMA RestartKafkaInv ==
    ASSUME GroupCommits = FALSE, KafkaInv, RestartKafka
    PROVE  KafkaInv'
<1>1. PICK v, t, e \in Offsets : KafkaCuts(v, t, e)
  BY DEF KafkaInv
<1>2. /\ topic' = topic /\ visible' = visible /\ taken' = Once({}) /\ channel' = << >>
      /\ position' = [q \in Partitions |-> 1] /\ positionsForSeek' = [q \in Partitions |-> StoredOffset(q)]
  BY DEF RestartKafka, ConnectorRestart, NoRows
<1>3. visible = Once(UpTo(v))
  BY <1>1 DEF KafkaCuts
<1>4. \A q \in Partitions : StoredOffset(q) = v[q]
  BY <1>3, StoredOffsets
<1>5. /\ \A q \in Partitions : position'[q] = 1 /\ positionsForSeek'[q] = v[q]
      /\ position' \in Offsets /\ positionsForSeek' \in Offsets /\ topic' \in Offsets
  BY <1>2, <1>4 DEF Offsets, KafkaInv
<1>6. \A q \in Partitions : v[q] \in Nat /\ v[q] <= topic[q]
  <2>1. \A q \in Partitions : v[q] \in Nat /\ t[q] \in Nat /\ e[q] \in Nat /\ topic[q] \in Nat
    BY DEF Offsets, KafkaInv
  <2>2. \A q \in Partitions : v[q] <= t[q] /\ t[q] <= e[q] /\ e[q] <= topic[q]
    BY <1>1 DEF KafkaCuts, Consumed
  <2> QED  BY <2>1, <2>2
<1>7. taken' = Once(UpTo(v) \ UpTo(v))
  <2>1. UpTo(v) \ UpTo(v) = {}
    OBVIOUS
  <2> QED  BY <1>2, <2>1
<1>8. InFlight(channel', v, v)
  <2>1. channel' = << >> /\ Len(channel') = 0 /\ channel' \in Seq({Message(p, o) : p \in Partitions, o \in Nat})
    BY <1>2
  <2>2. \A q \in Partitions, o \in Nat : ~ (v[q] < o /\ o <= v[q])
    BY <1>6
  <2> QED  BY <2>1, <2>2 DEF InFlight
<1>9. Consumed(v, v)'
  <2>1. Consumed(v, v)' =
          \A q \in Partitions :
             /\ v[q] <= v[q] /\ v[q] <= topic'[q] /\ position'[q] >= 1
             /\ IF positionsForSeek'[q] >= position'[q] THEN v[q] = v[q] /\ v[q] = positionsForSeek'[q]
                                                        ELSE v[q] = position'[q] - 1
    BY DEF Consumed, SeenMessage
  <2>2. \A q \in Partitions :
             /\ v[q] <= v[q] /\ v[q] <= topic'[q] /\ position'[q] >= 1
             /\ IF positionsForSeek'[q] >= position'[q] THEN v[q] = v[q] /\ v[q] = positionsForSeek'[q]
                                                        ELSE v[q] = position'[q] - 1
    BY <1>2, <1>5, <1>6
  <2> QED  BY <2>1, <2>2
<1>10. KafkaCuts(v, v, v)'
  BY <1>2, <1>3, <1>6, <1>7, <1>8, <1>9 DEF KafkaCuts
<1> QED  BY <1>5, <1>10 DEF KafkaInv

\* Every step keeps the invariant.
LEMMA KafkaStepInv ==
    ASSUME GroupCommits = FALSE, KafkaInv, [KafkaNext]_<<reader, kafkaVars, connectorVars>>
    PROVE  KafkaInv'
<1>1. CASE Produce
  <2>1. PICK p \in Partitions : topic' = [topic EXCEPT ![p] = topic[p] + 1]
    BY <1>1, Zenon DEF Produce
  <2>2. /\ position' = position /\ positionsForSeek' = positionsForSeek
        /\ channel' = channel /\ visible' = visible /\ taken' = taken
    BY <1>1 DEF Produce, connectorVars, sendVars, pollVars
  <2>3. PICK v, t, e \in Offsets : KafkaCuts(v, t, e)
    BY DEF KafkaInv
  <2>4. /\ topic' \in Offsets
        /\ \A q \in Partitions : topic[q] \in Nat /\ topic'[q] \in Nat /\ topic[q] <= topic'[q] /\ e[q] \in Nat
    BY <2>1 DEF Offsets, KafkaInv
  <2>5. \A q \in Partitions : e[q] <= topic'[q]
    <3>1. \A q \in Partitions : e[q] <= topic[q]
      BY <2>3, Zenon DEF KafkaCuts, Consumed
    <3> QED  BY <2>4, <3>1
  <2>6. Consumed(t, e)'
    BY <2>2, <2>3, <2>5 DEF KafkaCuts, Consumed, SeenMessage
  <2>7. KafkaCuts(v, t, e)'
    BY <2>2, <2>3, <2>6 DEF KafkaCuts
  <2> QED  BY <2>2, <2>4, <2>7 DEF KafkaInv
<1>2. CASE PollError \/ UNCHANGED <<reader, kafkaVars, connectorVars>>
  <2>1. /\ topic' = topic /\ position' = position /\ positionsForSeek' = positionsForSeek
        /\ channel' = channel /\ visible' = visible /\ taken' = taken
    BY <1>2 DEF PollError, FailRead, kafkaVars, connectorVars, sendVars, pollVars
  <2>2. PICK v, t, e \in Offsets : KafkaCuts(v, t, e)
    BY Zenon DEF KafkaInv
  <2>3. KafkaCuts(v, t, e)'
    BY <2>1, <2>2 DEF KafkaCuts, Consumed, SeenMessage
  <2> QED  BY <2>1, <2>3 DEF KafkaInv
<1> QED  BY <1>1, <1>2, ReadKafkaInv, PollKafkaInv, RestartKafkaInv, Zenon DEF KafkaNext

\* Every message is taken in exactly once, in the order of its partition, over restarts,
\* consumers that cannot be moved and messages delivered again: for any partitions,
\* messages, errors and restarts, when the consumer starts at the first message.
THEOREM KafkaExactAlways ==
    ASSUME GroupCommits = FALSE
    PROVE  KafkaSpec => []KafkaExact
<1>1. KafkaInit => KafkaInv
  BY KafkaInitInv
<1>2. KafkaInv /\ [KafkaNext]_<<reader, kafkaVars, connectorVars>> => KafkaInv'
  BY KafkaStepInv, Zenon
<1>3. KafkaInv => KafkaExact
  <2> SUFFICES ASSUME KafkaInv
               PROVE  KafkaExact
    OBVIOUS
  <2>1. PICK v, t, e \in Offsets : KafkaCuts(v, t, e)
    BY DEF KafkaInv
  <2>2. \A q \in Partitions : /\ v[q] \in Nat /\ t[q] \in Nat /\ e[q] \in Nat
                              /\ topic[q] \in Nat /\ position[q] \in Nat /\ positionsForSeek[q] \in Nat
    BY DEF Offsets, KafkaInv
  <2>3. visible = Once(UpTo(v)) /\ taken = Once(UpTo(t) \ UpTo(v)) /\ UpTo(v) \subseteq UpTo(t)
    BY <2>1, UpToGrows DEF KafkaCuts
  <2>4. UpTo(v) \cap (UpTo(t) \ UpTo(v)) = {} /\ UpTo(v) \cup (UpTo(t) \ UpTo(v)) = UpTo(t)
    BY <2>3
  <2>5. Concat(visible, taken) = Once(UpTo(t))
    BY <2>3, <2>4, OnceUnion
  <2>6. DOMAIN Concat(visible, taken) = UpTo(t)
    BY <2>5 DEF Once
  <2>7. ASSUME NEW r \in UpTo(t)
        PROVE  /\ Weight(visible, r) + Weight(taken, r) = 1
               /\ r[3] > 1 => <<r[1], 1, r[3] - 1>> \in UpTo(t)
    <3>1. Weight(visible, r) + Weight(taken, r) = 1
      BY <2>3 DEF Weight, Once
    <3>2. PICK p \in Partitions, o \in Nat : o \in 1 .. t[p] /\ r = <<p, 1, o>>
      BY UpToFacts
    <3>3. ASSUME o > 1
          PROVE  <<p, 1, o - 1>> \in UpTo(t)
      <4>1. o - 1 \in 1 .. t[p]
        BY <2>2, <3>2, <3>3
      <4> QED  BY <4>1, UpToFacts
    <3> QED  BY <3>1, <3>2, <3>3
  <2>8. ASSUME channel = << >>, \A p \in Partitions : position[p] > topic[p]
        PROVE  UpTo(t) = UNION {{<<p, 1, o>> : o \in 1 .. topic[p]} : p \in Partitions}
    <3>1. \A q \in Partitions, o \in Nat : ~ (t[q] < o /\ o <= e[q])
      <4>1. Len(channel) = 0
        BY <2>8
      <4> QED  BY <2>1, <4>1 DEF KafkaCuts, InFlight
    <3>2. ASSUME NEW q \in Partitions
          PROVE  t[q] = topic[q]
      <4>1. /\ t[q] <= e[q] /\ e[q] <= topic[q]
            /\ IF positionsForSeek[q] >= position[q] THEN e[q] = t[q] /\ t[q] = positionsForSeek[q]
                                                     ELSE e[q] = position[q] - 1
        BY <2>1 DEF KafkaCuts, Consumed, SeenMessage
      <4>2. ~ (t[q] < e[q])
        BY <2>2, <3>1
      <4> QED  BY <2>2, <2>8, <4>1, <4>2
    <3> QED  BY <3>2 DEF UpTo
  <2> QED  BY <2>6, <2>7, <2>8 DEF KafkaExact
<1> QED  BY <1>1, <1>2, <1>3, PTL DEF KafkaSpec

------------------------------------------------------------------

-----------------------------------------------------------------------------
(* SqliteSource.                                                           *)

\* The rows a table can have, and collections of them.
TableRows == RowIds \X RowValues \X {1}
RowBag(c) == DOMAIN c \subseteq TableRows /\ c \in [DOMAIN c -> Int \ {0}]

\* Where an entry of the reader leads: x and y are the rows that are there and
\* whether commits are blocked.
Applies(x, e, y) ==
    \/ e[1] = "Data" /\ e[3] = 1 /\ e[2] \notin x[1] /\ y = <<x[1] \cup {e[2]}, x[2]>>
    \/ e[1] = "Data" /\ e[3] = -1 /\ e[2] \in x[1] /\ y = <<x[1] \ {e[2]}, x[2]>>
    \/ e = NewSource /\ y = <<x[1], TRUE>>
    \/ e = FinishedSource(TRUE) /\ y = <<x[1], FALSE>>

\* X follows the entries of s; wherever a commit is allowed there is a table of D.
Stages == (SUBSET TableRows) \X BOOLEAN
Whole(x, D) == x[2] \/ x[1] \in D
Follows(X, s, D) ==
    /\ X \in [0 .. Len(s) -> Stages]
    /\ \A i \in 1 .. Len(s) : Applies(X[i - 1], s[i], X[i])
    /\ \A i \in 0 .. Len(s) : Whole(X[i], D)

\* The two collections hold the rows W in all.
Holds(a, b, W) ==
    /\ RowBag(a) /\ RowBag(b)
    /\ \A r \in TableRows : Weight(a, r) + Weight(b, r) = IF r \in W THEN 1 ELSE 0

\* What was taken in, what is in the channel and what is queued lead to stored_state.
SqliteTrace(X, Y) ==
    /\ Follows(X, channel, dbStates) /\ Follows(Y, queuedUpdates, dbStates)
    /\ X[Len(channel)] = Y[0] /\ Y[Len(queuedUpdates)][1] = storedState
    /\ X[0][2] = ~commitAllowed /\ Holds(visible, taken, X[0][1])

SqliteEntries == RowUpdates(TableRows, TableRows) \cup {NewSource, FinishedSource(TRUE)}

SqliteTables ==
    /\ channel \in Seq(SqliteEntries) /\ queuedUpdates \in Seq(SqliteEntries)
    /\ commitAllowed \in BOOLEAN
    /\ dbStates \subseteq SUBSET TableRows /\ dbTable \in dbStates /\ storedState \subseteq TableRows
    /\ loading # 0 => queuedUpdates = << >>
    /\ \E t \in dbStates : visible = Once(t)

SqliteInv == SqliteTables /\ \E X, Y : SqliteTrace(X, Y)

\* The first entry is taken off.
LEMMA FollowsTail ==
    ASSUME NEW E, NEW s \in Seq(E), s # << >>, NEW D, NEW X, Follows(X, s, D)
    PROVE  \E Z : /\ Follows(Z, Tail(s), D) /\ Z[0] = X[1] /\ Z[Len(Tail(s))] = X[Len(s)]
                  /\ Applies(X[0], Head(s), X[1]) /\ X[0] \in Stages /\ X[1] \in Stages
                  /\ Whole(X[1], D)
<1> DEFINE n == Len(s)  d == Tail(s)  Z == [i \in 0 .. n - 1 |-> X[i + 1]]
<1>1. /\ n \in Nat /\ n >= 1 /\ Head(s) = s[1] /\ Len(d) = n - 1 /\ \A i \in 1 .. n - 1 : d[i] = s[i + 1]
  OBVIOUS
<1> HIDE DEF d
<1>2. /\ X \in [0 .. n -> Stages]
      /\ \A i \in 1 .. n : Applies(X[i - 1], s[i], X[i])
      /\ \A i \in 0 .. n : Whole(X[i], D)
  BY DEF Follows
<1>3. \A i \in 0 .. n - 1 : i + 1 \in 0 .. n /\ Z[i] = X[i + 1]
  BY <1>1
<1>4. Z \in [0 .. n - 1 -> Stages]
  BY <1>2, <1>3
<1>5. \A i \in 1 .. n - 1 : Applies(Z[i - 1], d[i], Z[i])
  <2> SUFFICES ASSUME NEW i \in 1 .. n - 1
               PROVE  Applies(Z[i - 1], d[i], Z[i])
    BY Zenon
  <2>1. i - 1 \in 0 .. n - 1 /\ i \in 0 .. n - 1 /\ i + 1 \in 1 .. n /\ (i + 1) - 1 = i /\ (i - 1) + 1 = i
    BY <1>1
  <2>2. Z[i - 1] = X[i] /\ Z[i] = X[i + 1] /\ d[i] = s[i + 1]
    BY <1>1, <1>3, <2>1
  <2>3. Applies(X[(i + 1) - 1], s[i + 1], X[i + 1])
    BY <1>2, <2>1
  <2> QED  BY <2>1, <2>2, <2>3
<1>6. \A i \in 0 .. n - 1 : Whole(Z[i], D)
  BY <1>2, <1>3
<1>7. Follows(Z, d, D)
  BY <1>1, <1>4, <1>5, <1>6, Zenon DEF Follows
<1>8. Z[0] = X[1] /\ Z[n - 1] = X[n]
  <2>1. 0 \in 0 .. n - 1 /\ n - 1 \in 0 .. n - 1 /\ (n - 1) + 1 = n
    BY <1>1
  <2> QED  BY <1>3, <2>1
<1>9. Applies(X[0], s[1], X[1]) /\ X[0] \in Stages /\ X[1] \in Stages /\ Whole(X[1], D)
  <2>1. 1 \in 1 .. n /\ 0 \in 0 .. n /\ 1 \in 0 .. n /\ 1 - 1 = 0
    BY <1>1
  <2> QED  BY <1>2, <2>1
<1> HIDE DEF n, Z
<1>10. Len(d) = n - 1 /\ Head(s) = s[1]
  BY <1>1 DEF n
<1> QED  BY <1>7, <1>8, <1>9, <1>10 DEF d, n

\* An entry is added.
LEMMA FollowsAppend ==
    ASSUME NEW E, NEW s \in Seq(E), NEW D, NEW X, Follows(X, s, D), NEW e, NEW y \in Stages,
           Applies(X[Len(s)], e, y), Whole(y, D)
    PROVE  \E Z : Follows(Z, Append(s, e), D) /\ Z[0] = X[0] /\ Z[Len(s) + 1] = y
<1> DEFINE n == Len(s)  d == Append(s, e)  Z == [i \in 0 .. n + 1 |-> IF i = n + 1 THEN y ELSE X[i]]
<1>1. n \in Nat /\ Len(d) = n + 1 /\ d[n + 1] = e /\ \A i \in 1 .. n : d[i] = s[i]
  OBVIOUS
<1> HIDE DEF d
<1>2. /\ X \in [0 .. n -> Stages]
      /\ \A i \in 1 .. n : Applies(X[i - 1], s[i], X[i])
      /\ \A i \in 0 .. n : Whole(X[i], D)
  BY DEF Follows
<1>3. (\A i \in 0 .. n : Z[i] = X[i]) /\ Z[n + 1] = y
  BY <1>1
<1>4. \A i \in 0 .. n + 1 : i \in 0 .. n \/ i = n + 1
  BY <1>1
<1>5. Z \in [0 .. n + 1 -> Stages]
  BY <1>2, <1>4
<1>6. \A i \in 1 .. n + 1 : Applies(Z[i - 1], d[i], Z[i])
  <2> SUFFICES ASSUME NEW i \in 1 .. n + 1
               PROVE  Applies(Z[i - 1], d[i], Z[i])
    BY Zenon
  <2>1. CASE i = n + 1
    <3>1. Z[i - 1] = X[n] /\ Z[i] = y /\ d[i] = e
      <4>1. i - 1 = n /\ n \in 0 .. n
        BY <1>1, <2>1
      <4> QED  BY <1>1, <1>3, <2>1, <4>1, Zenon
    <3> QED  BY <3>1
  <2>2. CASE i # n + 1
    <3>1. i \in 1 .. n /\ i - 1 \in 0 .. n /\ i \in 0 .. n
      BY <1>1, <2>2
    <3> QED  BY <1>1, <1>2, <1>3, <3>1
  <2> QED  BY <2>1, <2>2
<1>7. \A i \in 0 .. n + 1 : Whole(Z[i], D)
  BY <1>2, <1>3, <1>4, Zenon
<1>8. Follows(Z, d, D)
  BY <1>1, <1>5, <1>6, <1>7, Zenon DEF Follows
<1>9. Z[0] = X[0]
  BY <1>1, <1>3
<1> QED  BY <1>3, <1>8, <1>9 DEF d

\* The weights of two collections add up.
LEMMA ConcatBag ==
    ASSUME NEW a, NEW b, RowBag(a), RowBag(b)
    PROVE  /\ RowBag(Concat(a, b))
           /\ \A r \in TableRows : Weight(Concat(a, b), r) = Weight(a, r) + Weight(b, r)
<1> DEFINE w(x) == Weight(a, x) + Weight(b, x)
           K == {x \in DOMAIN a \cup DOMAIN b : w(x) # 0}
<1>1. Concat(a, b) = [x \in K |-> w(x)]
  BY DEF Concat, Consolidated
<1>2. \A x : w(x) \in Int /\ Weight(a, x) \in Int /\ Weight(b, x) \in Int
  BY DEF RowBag, Weight
<1>3. \A x : x \notin K => w(x) = 0
  BY DEF Weight
<1>4. \A x \in K : w(x) # 0
  OBVIOUS
<1>5. K \subseteq TableRows
  BY DEF RowBag
<1> HIDE DEF w, K
<1>6. RowBag(Concat(a, b))
  BY <1>1, <1>2, <1>4, <1>5 DEF RowBag
<1>7. \A r \in TableRows : Weight(Concat(a, b), r) = w(r)
  BY <1>1, <1>3 DEF Weight
<1> QED  BY <1>6, <1>7 DEF w

\* A time that is closed shows the rows that were there in all.
LEMMA HoldsOnce ==
    ASSUME NEW a, NEW b, NEW W \in SUBSET TableRows, Holds(a, b, W)
    PROVE  /\ Concat(a, b) = Once(W)
           /\ Holds(Once(W), NoRows, W)
<1> DEFINE w(x) == Weight(a, x) + Weight(b, x)
           K == {x \in DOMAIN a \cup DOMAIN b : w(x) # 0}
<1>1. Concat(a, b) = [x \in K |-> w(x)]
  BY DEF Concat, Consolidated
<1>2. \A r \in TableRows : w(r) = IF r \in W THEN 1 ELSE 0
  BY DEF Holds
<1>3. K \subseteq TableRows
  BY DEF Holds, RowBag
<1>4. \A r \in TableRows : r \notin DOMAIN a \cup DOMAIN b => w(r) = 0
  BY DEF Weight
<1> HIDE DEF w
<1>5. K = W
  BY <1>2, <1>3, <1>4
<1>6. Concat(a, b) = Once(W)
  BY <1>1, <1>2, <1>5 DEF Once
<1>7. RowBag(Once(W)) /\ RowBag(NoRows)
  BY DEF RowBag, Once, NoRows
<1>8. \A r \in TableRows : Weight(Once(W), r) + Weight(NoRows, r) = IF r \in W THEN 1 ELSE 0
  BY DEF Weight, Once, NoRows
<1> QED  BY <1>6, <1>7, <1>8 DEF Holds

\* A row is taken in.
LEMMA HoldsTaken ==
    ASSUME NEW a, NEW b, NEW W \in SUBSET TableRows, Holds(a, b, W), NEW r \in TableRows, NEW d \in {-1, 1}
    PROVE  /\ d = 1 /\ r \notin W => Holds(a, Concat(b, [x \in {r} |-> d]), W \cup {r})
           /\ d = -1 /\ r \in W => Holds(a, Concat(b, [x \in {r} |-> d]), W \ {r})
<1> DEFINE c == [x \in {r} |-> d]
<1>1. RowBag(c) /\ \A x \in TableRows : Weight(c, x) = IF x = r THEN d ELSE 0
  BY DEF RowBag, Weight
<1>2. RowBag(a) /\ RowBag(b) /\ \A x \in TableRows : Weight(a, x) + Weight(b, x) = IF x \in W THEN 1 ELSE 0
  BY DEF Holds
<1> HIDE DEF c
<1>3. RowBag(Concat(b, c)) /\ \A x \in TableRows : Weight(Concat(b, c), x) = Weight(b, x) + Weight(c, x)
  BY <1>1, <1>2, ConcatBag
<1>4. \A x \in TableRows : Weight(a, x) \in Int /\ Weight(b, x) \in Int
  BY <1>2 DEF RowBag, Weight
<1>5. \A x \in TableRows : Weight(a, x) + Weight(Concat(b, c), x)
                           = (IF x \in W THEN 1 ELSE 0) + (IF x = r THEN d ELSE 0)
  BY <1>1, <1>2, <1>3, <1>4
<1>6. ASSUME d = 1, r \notin W
      PROVE  Holds(a, Concat(b, c), W \cup {r})
  BY <1>2, <1>3, <1>5, <1>6 DEF Holds
<1>7. ASSUME d = -1, r \in W
      PROVE  Holds(a, Concat(b, c), W \ {r})
  BY <1>2, <1>3, <1>5, <1>7 DEF Holds
<1> QED  BY <1>6, <1>7 DEF c

\* What an entry is, and that its kinds differ.
LEMMA SqliteEntryFacts ==
    ASSUME NEW e \in SqliteEntries
    PROVE  /\ e[1] = "Data" => e[2] \in TableRows /\ e[3] \in {-1, 1}
           /\ e[1] = "NewSource" => e = NewSource
           /\ e[1] = "FinishedSource" => e = FinishedSource(TRUE)
           /\ e[1] # "Finished"
<1>1. CASE \E r \in TableRows : e = DataEntry(r, -1) \/ e = DataEntry(r, 1)
  <2>1. PICK r \in TableRows : e = DataEntry(r, -1) \/ e = DataEntry(r, 1)
    BY <1>1
  <2>2. e[1] = "Data" /\ e[2] = r /\ e[3] \in {-1, 1}
    BY <2>1 DEF DataEntry
  <2>3. "Data" # "NewSource" /\ "Data" # "FinishedSource" /\ "Data" # "Finished"
    OBVIOUS
  <2> QED  BY <2>2, <2>3, Zenon
<1>2. CASE e = NewSource
  BY <1>2 DEF NewSource
<1>3. CASE e = FinishedSource(TRUE)
  BY <1>3 DEF FinishedSource
<1>4. (\E r \in TableRows : e = DataEntry(r, -1) \/ e = DataEntry(r, 1)) \/ e = NewSource \/ e = FinishedSource(TRUE)
  BY Zenon DEF SqliteEntries, RowUpdates
<1> QED  BY <1>1, <1>2, <1>3, <1>4, Zenon

\* What an entry of each kind does.
LEMMA AppliesFacts ==
    ASSUME NEW x \in Stages, NEW y \in Stages, NEW e \in SqliteEntries, Applies(x, e, y)
    PROVE  /\ e[1] = "Data" /\ e[3] = 1 => e[2] \notin x[1] /\ y = <<x[1] \cup {e[2]}, x[2]>>
           /\ e[1] = "Data" /\ e[3] = -1 => e[2] \in x[1] /\ y = <<x[1] \ {e[2]}, x[2]>>
           /\ e = NewSource => y = <<x[1], TRUE>>
           /\ e = FinishedSource(TRUE) => y = <<x[1], FALSE>>
<1>1. NewSource[1] = "NewSource" /\ FinishedSource(TRUE)[1] = "FinishedSource"
  BY DEF NewSource, FinishedSource
<1>2. "Data" # "NewSource" /\ "Data" # "FinishedSource" /\ "NewSource" # "FinishedSource" /\ 1 # -1
  OBVIOUS
<1> QED  BY <1>1, <1>2, Zenon DEF Applies

\* The database is empty and nothing was read.
LEMMA SqliteInitInv == SqliteInit => SqliteInv
<1> SUFFICES ASSUME SqliteInit
             PROVE  SqliteInv
  OBVIOUS
<1>1. /\ channel = << >> /\ queuedUpdates = << >> /\ commitAllowed = TRUE /\ loading = 0
      /\ taken = NoRows /\ visible = NoRows /\ dbTable = {} /\ dbStates = {{}} /\ storedState = {}
  BY DEF SqliteInit, ConnectorInit
<1>2. SqliteTables
  BY <1>1 DEF SqliteTables, NoRows
<1> DEFINE X == [i \in {0} |-> <<{}, FALSE>>]
<1>3. Len(<< >>) = 0 /\ 0 .. 0 = {0} /\ 1 .. 0 = {}
  OBVIOUS
<1>4. <<{}, FALSE>> \in Stages
  BY Zenon DEF Stages
<1>5. Follows(X, << >>, {{}})
  BY <1>3, <1>4 DEF Follows, Whole
<1>6. Holds(NoRows, NoRows, {})
  <2>1. RowBag(NoRows) /\ \A r : Weight(NoRows, r) = 0
    BY DEF RowBag, NoRows, Once, Weight
  <2> QED  BY <2>1 DEF Holds
<1>7. X[0] = <<{}, FALSE>> /\ X[0][1] = {} /\ X[0][2] = FALSE
  BY Zenon
<1> HIDE DEF X
<1>8. SqliteTrace(X, X)
  BY <1>1, <1>3, <1>5, <1>6, <1>7, Zenon DEF SqliteTrace
<1> QED  BY <1>2, <1>8 DEF SqliteInv

\* A transaction adds a table to those that were there.
LEMMA TransactionInv ==
    ASSUME SqliteInv, Transaction
    PROVE  SqliteInv'
<1>1. /\ storedState' = storedState /\ queuedUpdates' = queuedUpdates /\ loading' = loading
      /\ channel' = channel /\ commitAllowed' = commitAllowed /\ taken' = taken /\ visible' = visible
  BY DEF Transaction, connectorVars, sendVars, pollVars
<1>2. dbTable' \in SUBSET TableRows /\ dbStates' = dbStates \cup {dbTable'}
  BY DEF Transaction, TableRows
<1>3. SqliteTables'
  BY <1>1, <1>2 DEF SqliteInv, SqliteTables
<1>4. PICK X, Y : SqliteTrace(X, Y)
  BY Zenon DEF SqliteInv
<1>5. SqliteTrace(X, Y)'
  <2>1. ASSUME NEW Z, NEW s, Follows(Z, s, dbStates)
        PROVE  Follows(Z, s, dbStates')
    BY <1>2, <2>1 DEF Follows, Whole
  <2> QED  BY <1>1, <1>4, <2>1 DEF SqliteTrace
<1> QED  BY <1>3, <1>5 DEF SqliteInv

\* A queued update is passed on.
LEMMA TakeQueuedInv ==
    ASSUME SqliteInv, TakeQueued
    PROVE  SqliteInv'
<1>1. /\ dbTable' = dbTable /\ dbStates' = dbStates /\ storedState' = storedState /\ loading' = loading
      /\ commitAllowed' = commitAllowed /\ taken' = taken /\ visible' = visible /\ loading = 0
      /\ queuedUpdates # << >> /\ queuedUpdates' = Tail(queuedUpdates)
      /\ channel' = Append(channel, Head(queuedUpdates))
  BY DEF TakeQueued, Send, pollVars
<1>2. SqliteTables
  BY DEF SqliteInv
<1>3. channel \in Seq(SqliteEntries) /\ queuedUpdates \in Seq(SqliteEntries)
  BY <1>2 DEF SqliteTables
<1>4. SqliteTables'
  <2>1. channel' \in Seq(SqliteEntries) /\ queuedUpdates' \in Seq(SqliteEntries)
    BY <1>1, <1>3
  <2> QED  BY <1>1, <1>2, <2>1 DEF SqliteTables
<1>5. PICK X, Y : SqliteTrace(X, Y)
  BY DEF SqliteInv
<1>6. /\ Follows(X, channel, dbStates) /\ Follows(Y, queuedUpdates, dbStates)
      /\ X[Len(channel)] = Y[0] /\ Y[Len(queuedUpdates)][1] = storedState
      /\ X[0][2] = ~commitAllowed /\ Holds(visible, taken, X[0][1])
  BY <1>5, Zenon DEF SqliteTrace
<1>7. PICK Z : /\ Follows(Z, Tail(queuedUpdates), dbStates) /\ Z[0] = Y[1]
               /\ Z[Len(Tail(queuedUpdates))] = Y[Len(queuedUpdates)]
               /\ Applies(Y[0], Head(queuedUpdates), Y[1]) /\ Y[0] \in Stages /\ Y[1] \in Stages
               /\ Whole(Y[1], dbStates)
  BY <1>1, <1>3, <1>6, FollowsTail, Zenon
<1>8. PICK U : /\ Follows(U, Append(channel, Head(queuedUpdates)), dbStates) /\ U[0] = X[0]
               /\ U[Len(channel) + 1] = Y[1]
  BY <1>3, <1>6, <1>7, FollowsAppend
<1>9. Len(channel') = Len(channel) + 1
  BY <1>1, <1>3
<1>10. SqliteTrace(U, Z)'
  BY <1>1, <1>6, <1>7, <1>8, <1>9 DEF SqliteTrace
<1> QED  BY <1>4, <1>10 DEF SqliteInv

\* The poller takes an entry or commits.
LEMMA PollSqliteInv ==
    ASSUME SqliteInv, PollSqlite
    PROVE  SqliteInv'
<1>1. /\ dbTable' = dbTable /\ dbStates' = dbStates /\ storedState' = storedState /\ loading' = loading
      /\ queuedUpdates' = queuedUpdates
  BY Zenon DEF PollSqlite, sqliteVars
<1>2. SqliteTables
  BY DEF SqliteInv
<1>3. PICK X, Y : SqliteTrace(X, Y)
  BY DEF SqliteInv
<1>4. /\ Follows(X, channel, dbStates) /\ Follows(Y, queuedUpdates, dbStates)
      /\ X[Len(channel)] = Y[0] /\ Y[Len(queuedUpdates)][1] = storedState
      /\ X[0][2] = ~commitAllowed /\ Holds(visible, taken, X[0][1])
  BY <1>3 DEF SqliteTrace
<1>5. channel \in Seq(SqliteEntries) /\ commitAllowed \in BOOLEAN /\ dbStates \subseteq SUBSET TableRows
  BY <1>2 DEF SqliteTables
<1>6. CASE AutocommitTimer
  <2>1. /\ commitAllowed /\ visible' = Concat(visible, taken) /\ taken' = NoRows
        /\ channel' = channel /\ commitAllowed' = commitAllowed
    BY <1>6, Zenon DEF AutocommitTimer, CloseTime, sendVars
  <2>2. X[0] \in Stages /\ Whole(X[0], dbStates)
    <3>1. 0 \in 0 .. Len(channel)
      BY <1>5
    <3> QED  BY <1>4, <3>1 DEF Follows
  <2>3. X[0][1] \in dbStates /\ X[0][1] \in SUBSET TableRows
    BY <1>4, <1>5, <2>1, <2>2, Zenon DEF Whole
  <2>4. visible' = Once(X[0][1]) /\ Holds(visible', taken', X[0][1])
    BY <1>4, <2>1, <2>3, HoldsOnce
  <2>5. SqliteTables'
    BY <1>1, <1>2, <2>1, <2>3, <2>4, Zenon DEF SqliteTables
  <2>6. SqliteTrace(X, Y)'
    BY <1>1, <1>4, <2>1, <2>4 DEF SqliteTrace
  <2> QED  BY <2>5, <2>6 DEF SqliteInv
<1>7. CASE HandleEntry
  <2>c. PICK e : e = Head(channel)
    OBVIOUS
  <2>1. channel # << >> /\ channel' = Tail(channel)
    BY <1>7, Zenon DEF HandleEntry
  <2>2. PICK Z : /\ Follows(Z, Tail(channel), dbStates) /\ Z[0] = X[1]
                 /\ Z[Len(Tail(channel))] = X[Len(channel)]
                 /\ Applies(X[0], e, X[1]) /\ X[0] \in Stages /\ X[1] \in Stages
                 /\ Whole(X[1], dbStates)
    BY <1>4, <1>5, <2>1, <2>c, FollowsTail
  <2>3. e \in SqliteEntries /\ channel' \in Seq(SqliteEntries)
    BY <1>5, <2>1, <2>c
  <2>d. PICK W, b, V, c : X[0] = <<W, b>> /\ X[1] = <<V, c>> /\ W \subseteq TableRows /\ V \subseteq TableRows
                          /\ b \in BOOLEAN /\ c \in BOOLEAN
    BY <2>2 DEF Stages
  <2>4. /\ b = ~commitAllowed /\ Holds(visible, taken, W) /\ (c \/ V \in dbStates)
        /\ e[1] = "Data" /\ e[3] = 1 => e[2] \notin W /\ V = W \cup {e[2]} /\ c = b
        /\ e[1] = "Data" /\ e[3] = -1 => e[2] \in W /\ V = W \ {e[2]} /\ c = b
        /\ e[1] = "NewSource" => V = W /\ c = TRUE
        /\ e[1] = "FinishedSource" => V = W /\ c = FALSE
    <3>1. /\ e[1] = "Data" /\ e[3] = 1 => e[2] \notin W /\ <<V, c>> = <<W \cup {e[2]}, b>>
          /\ e[1] = "Data" /\ e[3] = -1 => e[2] \in W /\ <<V, c>> = <<W \ {e[2]}, b>>
          /\ e[1] = "NewSource" => <<V, c>> = <<W, TRUE>>
          /\ e[1] = "FinishedSource" => <<V, c>> = <<W, FALSE>>
      <4>1. Applies(<<W, b>>, e, <<V, c>>) /\ <<W, b>> \in Stages /\ <<V, c>> \in Stages
        BY <2>2, <2>d
      <4>2. <<W, b>>[1] = W /\ <<W, b>>[2] = b
        OBVIOUS
      <4>3. /\ e[1] = "Data" /\ e[3] = 1 => e[2] \notin <<W, b>>[1] /\ <<V, c>> = <<<<W, b>>[1] \cup {e[2]}, <<W, b>>[2]>>
            /\ e[1] = "Data" /\ e[3] = -1 => e[2] \in <<W, b>>[1] /\ <<V, c>> = <<<<W, b>>[1] \ {e[2]}, <<W, b>>[2]>>
            /\ e = NewSource => <<V, c>> = <<<<W, b>>[1], TRUE>>
            /\ e = FinishedSource(TRUE) => <<V, c>> = <<<<W, b>>[1], FALSE>>
        BY <2>3, <4>1, AppliesFacts, Zenon
      <4> QED  BY <2>3, <4>2, <4>3, SqliteEntryFacts, Zenon
    <3>2. b = ~commitAllowed /\ Holds(visible, taken, W) /\ (c \/ V \in dbStates)
      BY <1>4, <2>2, <2>d DEF Whole
    <3> QED  BY <3>1, <3>2, Zenon
  <2>5. /\ \/ e[1] = "Data" /\ TakeRow(e[2], e[3]) /\ commitAllowed' = commitAllowed
           \/ e[1] = "NewSource" /\ commitAllowed' = FALSE /\ taken' = taken /\ visible' = visible
           \/ e[1] = "FinishedSource" /\ CloseTime /\ commitAllowed' = TRUE
    <3>1. e[1] = "FinishedSource" => e[2] = TRUE
      <4>1. FinishedSource(TRUE)[2] = TRUE
        BY DEF FinishedSource
      <4> QED  BY <2>3, <4>1, SqliteEntryFacts, Zenon
    <3>2. e[1] # "Finished"
      BY <2>3, SqliteEntryFacts, Zenon
    <3> QED  BY <1>7, <2>c, <3>1, <3>2 DEF HandleEntry, BlockCommits, KeepTime
  <2>6. c = ~commitAllowed' /\ commitAllowed' \in BOOLEAN
    <3>1. CASE e[1] = "Data"
      <4>1. commitAllowed' = commitAllowed /\ c = b
        BY <2>3, <2>4, <2>5, <3>1, SqliteEntryFacts, Zenon
      <4> QED  BY <1>5, <2>4, <4>1
    <3>2. CASE e[1] = "NewSource"
      BY <2>4, <2>5, <3>2, Zenon
    <3>3. CASE e[1] = "FinishedSource"
      BY <2>4, <2>5, <3>3, Zenon
    <3> QED  BY <2>5, <3>1, <3>2, <3>3, Zenon
  <2>7. Holds(visible', taken', V) /\ \E t \in dbStates : visible' = Once(t)
    <3>1. CASE e[1] = "Data"
      <4>1. taken' = Concat(taken, [x \in {e[2]} |-> e[3]]) /\ visible' = visible
        BY <2>5, <3>1 DEF TakeRow
      <4>2. e[2] \in TableRows /\ e[3] \in {-1, 1}
        BY <2>3, <3>1, SqliteEntryFacts, Zenon
      <4>3. Holds(visible', taken', V)
        <5>1. /\ e[3] = 1 /\ e[2] \notin W => Holds(visible, Concat(taken, [x \in {e[2]} |-> e[3]]), W \cup {e[2]})
              /\ e[3] = -1 /\ e[2] \in W => Holds(visible, Concat(taken, [x \in {e[2]} |-> e[3]]), W \ {e[2]})
          BY <2>4, <2>d, <4>2, HoldsTaken, Zenon
        <5>2. CASE e[3] = 1
          BY <2>4, <3>1, <4>1, <5>1, <5>2, Zenon
        <5>3. CASE e[3] = -1
          BY <2>4, <3>1, <4>1, <5>1, <5>3, Zenon
        <5> QED  BY <4>2, <5>2, <5>3
      <4> QED  BY <1>2, <4>1, <4>3 DEF SqliteTables
    <3>2. CASE e[1] = "NewSource"
      BY <1>2, <2>4, <2>5, <3>2 DEF SqliteTables
    <3>3. CASE e[1] = "FinishedSource"
      <4>1. visible' = Concat(visible, taken) /\ taken' = NoRows /\ V = W /\ V \in dbStates
        BY <2>4, <2>5, <3>3, Zenon DEF CloseTime
      <4>2. visible' = Once(V) /\ Holds(visible', taken', V)
        BY <2>4, <2>d, <4>1, HoldsOnce, Zenon
      <4> QED  BY <4>1, <4>2
    <3> QED  BY <2>5, <3>1, <3>2, <3>3
  <2>8. SqliteTables'
    BY <1>1, <1>2, <2>3, <2>6, <2>7 DEF SqliteTables
  <2>9. X[1][1] = V /\ X[1][2] = c
    BY <2>d
  <2>10. SqliteTrace(Z, Y)'
    BY <1>1, <1>4, <2>1, <2>2, <2>6, <2>7, <2>9, Zenon DEF SqliteTrace
  <2> QED  BY <2>8, <2>10 DEF SqliteInv
<1> QED  BY <1>6, <1>7 DEF PollSqlite, ConnectorNext

\* Finitely many rows are finitely many updates.
LEMMA UpdatesFinite ==
    ASSUME NEW S, IsFiniteSet(S)
    PROVE  IsFiniteSet({DataEntry(r, -1) : r \in S}) /\ IsFiniteSet({DataEntry(r, 1) : r \in S})
<1>1. ASSUME NEW d
      PROVE  IsFiniteSet({DataEntry(r, d) : r \in S})
  <2> DEFINE f == [r \in S |-> DataEntry(r, d)]  T == {DataEntry(r, d) : r \in S}
  <2>1. f \in [S -> T] /\ \A t \in T : \E r \in S : f[r] = t
    OBVIOUS
  <2> HIDE DEF f
  <2>2. f \in Surjection(S, T)
    BY <2>1 DEF Surjection
  <2> QED  BY <2>2, FS_Surjection
<1> QED  BY <1>1

\* A load finds finitely many changes.
LEMMA ChangesFinite ==
    ASSUME storedState \in SUBSET TableRows, dbTable \in SUBSET TableRows
    PROVE  Cardinality(TableChanges) \in Nat
<1>1. IsFiniteSet(RowIds \X RowValues)
  BY SqliteAssumption, FS_Product
<1> DEFINE f == [p \in RowIds \X RowValues |-> <<p[1], p[2], 1>>]
<1>2. f \in [RowIds \X RowValues -> TableRows]
  BY DEF TableRows
<1>3. ASSUME NEW r \in TableRows
      PROVE  \E p \in RowIds \X RowValues : f[p] = r
  <2>1. <<r[1], r[2]>> \in RowIds \X RowValues /\ f[<<r[1], r[2]>>] = r
    BY DEF TableRows
  <2> QED  BY <2>1
<1> HIDE DEF f
<1>4. f \in Surjection(RowIds \X RowValues, TableRows)
  BY <1>2, <1>3, Zenon DEF Surjection
<1>5. IsFiniteSet(TableRows)
  BY <1>1, <1>4, FS_Surjection, Zenon
<1>6. IsFiniteSet(storedState \ dbTable) /\ IsFiniteSet(dbTable \ storedState)
  BY <1>5, FS_Subset
<1>7. IsFiniteSet({DataEntry(r, -1) : r \in storedState \ dbTable})
  BY <1>6, UpdatesFinite, Zenon
<1>8. IsFiniteSet({DataEntry(r, 1) : r \in dbTable \ storedState})
  BY <1>6, UpdatesFinite, Zenon
<1>9. IsFiniteSet(TableChanges)
  BY <1>7, <1>8, FS_Union, Zenon DEF TableChanges, RowUpdates
<1> QED  BY <1>9, FS_CardinalityType

\* A function on 1 .. n is a sequence.
LEMMA SeqOf ==
    ASSUME NEW n \in Nat, NEW C, NEW q \in [1 .. n -> C]
    PROVE  q \in Seq(C) /\ Len(q) = n
OBVIOUS

\* q lists the elements of C.
Enumerates(q, n, C) ==
    /\ q \in [1 .. n -> C]
    /\ \A i, j \in 1 .. n : q[i] = q[j] => i = j
    /\ \A e \in C : \E i \in 1 .. n : q[i] = e

\* X goes from the table S to T while commits are blocked.
Leads(X, n, S, T) == X[0] = <<S, TRUE>> /\ X[n] = <<T, TRUE>>

\* The changes that take one table to another, one by one and in any order.
LEMMA ChangesFollow ==
    ASSUME NEW S \in SUBSET TableRows, NEW T \in SUBSET TableRows, NEW n \in Nat, NEW D,
           NEW q, Enumerates(q, n, RowUpdates(S \ T, T \ S))
    PROVE  \E X : Follows(X, q, D) /\ Leads(X, n, S, T)
<1> DEFINE K(i) == {q[j] : j \in 1 .. i}
           At(i) == {r \in S : DataEntry(r, -1) \notin K(i)} \cup {r \in T : DataEntry(r, 1) \in K(i)}
           X == [i \in 0 .. n |-> <<At(i), TRUE>>]
<1>c. PICK C : C = RowUpdates(S \ T, T \ S)
  OBVIOUS
<1>q. /\ q \in [1 .. n -> C]
      /\ \A i, j \in 1 .. n : q[i] = q[j] => i = j
      /\ \A e \in C : \E i \in 1 .. n : q[i] = e
  BY <1>c, Zenon DEF Enumerates
<1>1. q \in Seq(C) /\ Len(q) = n
  BY <1>q, SeqOf, Zenon
<1>2. \A r, s : /\ DataEntry(r, -1) # DataEntry(s, 1)
                /\ DataEntry(r, -1) = DataEntry(s, -1) => r = s
                /\ DataEntry(r, 1) = DataEntry(s, 1) => r = s
  BY DEF DataEntry
<1>3. \A e \in C : (\E r \in S \ T : e = DataEntry(r, -1)) \/ (\E r \in T \ S : e = DataEntry(r, 1))
  BY <1>c, Zenon DEF RowUpdates
<1>4. /\ \A r \in S \ T : DataEntry(r, -1) \in C
      /\ \A r \in T \ S : DataEntry(r, 1) \in C
  BY <1>c, Zenon DEF RowUpdates
<1>5. \A i \in 0 .. n : At(i) \in SUBSET TableRows
  OBVIOUS
<1>6. X \in [0 .. n -> Stages] /\ \A i \in 0 .. n : X[i] = <<At(i), TRUE>>
  <2> HIDE DEF At
  <2> QED  BY <1>5, Zenon DEF Stages
<1>7. At(0) = S
  <2>1. 1 .. 0 = {}
    OBVIOUS
  <2> QED  BY <2>1
<1>8. At(n) = T
  <2>1. \A e \in C : e \in K(n)
    BY <1>q
  <2>2. \A e \in K(n) : e \in C
    <3> SUFFICES ASSUME NEW e \in K(n)
                 PROVE  e \in C
      OBVIOUS
    <3>1. PICK j \in 1 .. n : e = q[j]
      OBVIOUS
    <3> QED  BY <1>q, <3>1
  <2> HIDE DEF K
  <2>3. \A r \in S : DataEntry(r, -1) \in K(n) => r \notin T
    <3> SUFFICES ASSUME NEW r \in S, DataEntry(r, -1) \in K(n), r \in T
                 PROVE  FALSE
      OBVIOUS
    <3>1. DataEntry(r, -1) \in C
      BY <2>2
    <3>2. (\E s \in S \ T : DataEntry(r, -1) = DataEntry(s, -1)) \/ (\E s \in T \ S : DataEntry(r, -1) = DataEntry(s, 1))
      BY <1>3, <3>1
    <3> QED  BY <1>2, <3>2
  <2>4. \A r \in S \ T : DataEntry(r, -1) \in K(n)
    BY <1>4, <2>1
  <2>5. \A r \in T \ S : DataEntry(r, 1) \in K(n)
    BY <1>4, <2>1
  <2> QED  BY <2>3, <2>4, <2>5
<1>9. \A i \in 1 .. n : Applies(X[i - 1], q[i], X[i])
  <2> SUFFICES ASSUME NEW i \in 1 .. n
               PROVE  Applies(X[i - 1], q[i], X[i])
    BY Zenon
  <2>a. i - 1 \in 0 .. n /\ i \in 0 .. n
    OBVIOUS
  <2> HIDE DEF X
  <2>1. X[i - 1] = <<At(i - 1), TRUE>> /\ X[i] = <<At(i), TRUE>>
    BY <1>6, <2>a, Zenon
  <2>2. 1 .. i = (1 .. i - 1) \cup {i} /\ \A j \in 1 .. i - 1 : j \in 1 .. n /\ j # i
    OBVIOUS
  <2>3. K(i) = K(i - 1) \cup {q[i]}
    BY <2>2
  <2>4. q[i] \notin K(i - 1)
    BY <1>q, <2>2
  <2>5. q[i] \in C
    BY <1>q, Zenon
  <2> HIDE DEF K
  <2>6. CASE \E r \in S \ T : q[i] = DataEntry(r, -1)
    <3>1. PICK r \in S \ T : q[i] = DataEntry(r, -1)
      BY <2>6
    <3>2. r \in At(i - 1)
      BY <2>4, <3>1, Zenon
    <3>3. At(i) = At(i - 1) \ {r}
      <4>1. \A s \in T : DataEntry(s, 1) \in K(i) <=> DataEntry(s, 1) \in K(i - 1)
        BY <1>2, <2>3, <3>1, Zenon
      <4>2. \A s \in S : DataEntry(s, -1) \notin K(i) <=> DataEntry(s, -1) \notin K(i - 1) /\ s # r
        BY <1>2, <2>3, <3>1
      <4>3. r \notin T
        OBVIOUS
      <4> QED  BY <4>1, <4>2, <4>3, Zenon
    <3>4. q[i][1] = "Data" /\ q[i][3] = -1 /\ q[i][2] = r
      BY <3>1 DEF DataEntry
    <3>5. <<At(i - 1), TRUE>>[1] = At(i - 1) /\ <<At(i - 1), TRUE>>[2] = TRUE
      BY Zenon
    <3> HIDE DEF At
    <3>6. Applies(<<At(i - 1), TRUE>>, q[i], <<At(i), TRUE>>)
      BY <3>2, <3>3, <3>4, <3>5, Zenon DEF Applies
    <3> QED  BY <2>1, <3>6
  <2>7. CASE \E r \in T \ S : q[i] = DataEntry(r, 1)
    <3>1. PICK r \in T \ S : q[i] = DataEntry(r, 1)
      BY <2>7
    <3>2. r \notin At(i - 1)
      BY <2>4, <3>1, Zenon
    <3>3. At(i) = At(i - 1) \cup {r}
      <4>1. \A s \in S : DataEntry(s, -1) \in K(i) <=> DataEntry(s, -1) \in K(i - 1)
        BY <1>2, <2>3, <3>1, Zenon
      <4>2. \A s \in T : DataEntry(s, 1) \in K(i) <=> DataEntry(s, 1) \in K(i - 1) \/ s = r
        BY <1>2, <2>3, <3>1, Zenon
      <4> QED  BY <4>1, <4>2
    <3>4. q[i][1] = "Data" /\ q[i][3] = 1 /\ q[i][2] = r
      BY <3>1 DEF DataEntry
    <3>5. <<At(i - 1), TRUE>>[1] = At(i - 1) /\ <<At(i - 1), TRUE>>[2] = TRUE
      BY Zenon
    <3> HIDE DEF At
    <3>6. Applies(<<At(i - 1), TRUE>>, q[i], <<At(i), TRUE>>)
      BY <3>2, <3>3, <3>4, <3>5, Zenon DEF Applies
    <3> QED  BY <2>1, <3>6
  <2> QED  BY <1>3, <2>5, <2>6, <2>7
<1> HIDE DEF At, X
<1>10. \A i \in 0 .. n : Whole(X[i], D)
  <2> SUFFICES ASSUME NEW i \in 0 .. n
               PROVE  X[i][2]
    BY DEF Whole
  <2>1. X[i] = <<At(i), TRUE>>
    BY <1>6, Zenon
  <2> QED  BY <2>1
<1>11. Follows(X, q, D)
  BY <1>1, <1>6, <1>9, <1>10 DEF Follows
<1>12. X[0] = <<S, TRUE>> /\ X[n] = <<T, TRUE>>
  <2>1. 0 \in 0 .. n /\ n \in 0 .. n
    OBVIOUS
  <2> QED  BY <1>6, <1>7, <1>8, <2>1, Zenon
<1> QED  BY <1>11, <1>12, Zenon DEF Leads

\* The table is loaded and compared with what was stored.
LEMMA LoadChangesInv ==
    ASSUME SqliteInv, LoadChanges
    PROVE  SqliteInv'
<1>1. /\ dbTable' = dbTable /\ dbStates' = dbStates /\ storedState' = dbTable /\ loading' = 0
      /\ commitAllowed' = commitAllowed /\ taken' = taken /\ visible' = visible /\ loading # 0
      /\ channel' = Append(channel, NewSource)
  BY DEF LoadChanges, Send, pollVars
<1>2. PICK q \in LoadTable : queuedUpdates' = WithEnd(q)
  BY DEF LoadChanges
<1>3. SqliteTables
  BY DEF SqliteInv
<1>4. /\ channel \in Seq(SqliteEntries) /\ queuedUpdates = << >> /\ storedState \in SUBSET TableRows
      /\ dbTable \in SUBSET TableRows /\ dbTable \in dbStates
  BY <1>1, <1>3 DEF SqliteTables
<1>5. PICK X, Y : SqliteTrace(X, Y)
  BY Zenon DEF SqliteInv
<1>6. /\ Follows(X, channel, dbStates) /\ Follows(Y, << >>, dbStates)
      /\ X[Len(channel)] = Y[0] /\ Y[0][1] = storedState
      /\ X[0][2] = ~commitAllowed /\ Holds(visible, taken, X[0][1])
  <2>1. Len(<< >>) = 0
    OBVIOUS
  <2> QED  BY <1>4, <1>5, <2>1 DEF SqliteTrace
<1>c. PICK n, S, T, C : n = Cardinality(TableChanges) /\ S = storedState /\ T = dbTable /\ C = TableChanges
  OBVIOUS
<1>7. n \in Nat
  BY <1>4, <1>c, ChangesFinite
<1>8. C = RowUpdates(S \ T, T \ S) /\ Enumerates(q, n, C)
  <2>1. q \in Bijection(1 .. n, C) /\ C = RowUpdates(S \ T, T \ S)
    BY <1>2, <1>c DEF LoadTable, TableChanges
  <2> QED  BY <2>1, Zenon DEF Enumerates, Bijection, Injection, Surjection, IsInjective
<1>9. PICK Z : Follows(Z, q, dbStates) /\ Z[0] = <<S, TRUE>> /\ Z[n] = <<T, TRUE>>
  <2>1. S \in SUBSET TableRows /\ T \in SUBSET TableRows
    BY <1>4, <1>c
  <2>2. Enumerates(q, n, RowUpdates(S \ T, T \ S))
    BY <1>8
  <2>3. \E Z : Follows(Z, q, dbStates) /\ Leads(Z, n, S, T)
    BY <1>7, <2>1, <2>2, ChangesFollow, Zenon
  <2> QED  BY <2>3, Zenon DEF Leads
<1>10. q \in Seq(SqliteEntries) /\ Len(q) = n
  <2>1. C \subseteq SqliteEntries
    <3>1. S \subseteq TableRows /\ T \subseteq TableRows
      BY <1>4, <1>c
    <3>2. RowUpdates(S \ T, T \ S) \subseteq RowUpdates(TableRows, TableRows)
      <4>1. ASSUME NEW e \in RowUpdates(S \ T, T \ S)
            PROVE  \E r \in TableRows : e = DataEntry(r, -1) \/ e = DataEntry(r, 1)
        BY <3>1 DEF RowUpdates
      <4> QED  BY <4>1 DEF RowUpdates
    <3> QED  BY <1>8, <3>2, Zenon DEF SqliteEntries
  <2>2. q \in [1 .. n -> SqliteEntries]
    BY <1>8, <2>1, Zenon DEF Enumerates
  <2> QED  BY <1>7, <2>2, SeqOf
<1>11. <<S, TRUE>> \in Stages /\ <<T, TRUE>> \in Stages /\ <<T, FALSE>> \in Stages
  BY <1>4, <1>c, Zenon DEF Stages
<1>12. PICK U : Follows(U, Append(channel, NewSource), dbStates) /\ U[0] = X[0] /\ U[Len(channel) + 1] = <<S, TRUE>>
  <2>1. PICK y : y = <<S, TRUE>>
    BY Zenon
  <2>2. Applies(X[Len(channel)], NewSource, y) /\ y[2] /\ y \in Stages
    BY <1>6, <1>11, <1>c, <2>1 DEF Applies
  <2>3. Whole(y, dbStates)
    BY <2>2, Zenon DEF Whole
  <2>4. \E U : Follows(U, Append(channel, NewSource), dbStates) /\ U[0] = X[0] /\ U[Len(channel) + 1] = y
    BY <1>4, <1>6, <2>2, <2>3, FollowsAppend
  <2> QED  BY <2>1, <2>4, Zenon
<1>13. /\ Len(channel') = Len(channel) + 1 /\ channel' \in Seq(SqliteEntries)
  <2>1. NewSource \in SqliteEntries
    BY DEF SqliteEntries
  <2> QED  BY <1>1, <1>4, <2>1
<1>14. \E V : /\ Follows(V, queuedUpdates', dbStates) /\ V[0] = <<S, TRUE>>
              /\ V[Len(queuedUpdates')][1] = T /\ queuedUpdates' \in Seq(SqliteEntries)
  <2>1. CASE q = << >>
    <3>1. queuedUpdates' = q /\ n = 0
      BY <1>2, <1>10, <2>1 DEF WithEnd
    <3>2. Z[n][1] = T
      BY <1>9
    <3> QED  BY <1>9, <1>10, <3>1, <3>2, Zenon
  <2>2. CASE q # << >>
    <3>e. PICK e, y : e = FinishedSource(TRUE) /\ y = <<T, FALSE>>
      BY Zenon
    <3>1. queuedUpdates' = Append(q, e)
      BY <1>2, <2>2, <3>e, Zenon DEF WithEnd
    <3>2. Applies(Z[Len(q)], e, y)
      <4>1. Z[Len(q)] = <<T, TRUE>> /\ <<T, TRUE>>[1] = T
        BY <1>9, <1>10, Zenon
      <4> QED  BY <3>e, <4>1, Zenon DEF Applies
    <3>3. y \in Stages /\ y[1] = T /\ T \in dbStates
      BY <1>4, <1>11, <1>c, <3>e, Zenon
    <3>4. PICK V : Follows(V, Append(q, e), dbStates) /\ V[0] = Z[0] /\ V[Len(q) + 1] = y
      <4>1. Whole(y, dbStates)
        BY <3>3 DEF Whole
      <4>2. q \in Seq(SqliteEntries) /\ Follows(Z, q, dbStates) /\ y \in Stages
        BY <1>9, <1>10, <3>3
      <4> QED  BY <3>2, <4>1, <4>2, FollowsAppend
    <3>5. e \in SqliteEntries
      BY <3>e, Zenon DEF SqliteEntries
    <3>6. Len(queuedUpdates') = Len(q) + 1 /\ queuedUpdates' \in Seq(SqliteEntries)
      BY <1>10, <3>1, <3>5
    <3> QED  BY <1>9, <3>1, <3>3, <3>4, <3>6, Zenon
  <2> QED  BY <2>1, <2>2, Zenon
<1>15. PICK V : /\ Follows(V, queuedUpdates', dbStates) /\ V[0] = <<S, TRUE>>
                /\ V[Len(queuedUpdates')][1] = T /\ queuedUpdates' \in Seq(SqliteEntries)
  BY <1>14, Zenon
<1>16. SqliteTables'
  BY <1>1, <1>3, <1>4, <1>13, <1>15 DEF SqliteTables
<1>17. SqliteTrace(U, V)'
  BY <1>1, <1>6, <1>12, <1>13, <1>15, <1>c, Zenon DEF SqliteTrace
<1> QED  BY <1>16, <1>17 DEF SqliteInv

\* Every step keeps the invariant.
LEMMA SqliteStepInv ==
    ASSUME SqliteInv, [SqliteNext]_<<reader, sqliteVars, connectorVars>>
    PROVE  SqliteInv'
<1>1. CASE Transaction
  BY <1>1, TransactionInv
<1>2. CASE TakeQueued
  BY <1>2, TakeQueuedInv
<1>3. CASE LoadChanges
  BY <1>3, LoadChangesInv
<1>4. CASE PollSqlite
  BY <1>4, PollSqliteInv
<1>5. CASE CheckVersion \/ UNCHANGED <<reader, sqliteVars, connectorVars>>
  <2>1. /\ dbTable' = dbTable /\ dbStates' = dbStates /\ storedState' = storedState
        /\ queuedUpdates' = queuedUpdates /\ channel' = channel /\ commitAllowed' = commitAllowed
        /\ taken' = taken /\ visible' = visible /\ (loading' = loading \/ queuedUpdates = << >>)
    BY <1>5 DEF CheckVersion, sqliteVars, connectorVars, sendVars, pollVars
  <2>2. SqliteTables'
    BY <2>1, Zenon DEF SqliteInv, SqliteTables
  <2>3. ASSUME NEW X, NEW Y, SqliteTrace(X, Y)
        PROVE  SqliteTrace(X, Y)'
    BY <2>1, <2>3 DEF SqliteTrace
  <2> QED  BY <2>2, <2>3, Zenon DEF SqliteInv
<1> QED  BY <1>1, <1>2, <1>3, <1>4, <1>5 DEF SqliteNext, ReadSqlite

\* However transactions fall between the reader's looks at data_version, its loads
\* and the commits of the session: what a closed time shows is the table as some
\* transaction left it, whatever the rows and the order in which a load meets them.
THEOREM SqliteStatesAlways == SqliteSpec => []SqliteStates
<1>1. SqliteInit => SqliteInv
  BY SqliteInitInv
<1>2. SqliteInv /\ [SqliteNext]_<<reader, sqliteVars, connectorVars>> => SqliteInv'
  BY SqliteStepInv
<1>3. SqliteInv => SqliteStates
  BY DEF SqliteInv, SqliteTables, SqliteStates
<1> QED  BY <1>1, <1>2, <1>3, PTL DEF SqliteSpec

=============================================================================
