--------------------------- MODULE OperatorProofs ---------------------------
(***************************************************************************)
(* Theorems about operators of the engine, for every instance: ConsistentMap, *)
(* GradualBroadcast and Deduplicate, for any rows in any order.            *)
(***************************************************************************)
EXTENDS ConsistentMap, GradualBroadcast, Deduplicate, FiniteSetTheorems, WellFoundedInduction, TLAPS

-----------------------------------------------------------------------------
(* ConsistentMap.                                                          *)

\* A table or a collection of answers has no key twice.
OneEach(S) == \A r, q \in S : r[1] = q[1] => r = q
MapTables == {S \in SUBSET (MapKeys \X MapValues) : OneEach(S)}

\* T holds the tables between the batches that wait: the answers kept are those for
\* the rows of the first.
MapTrace(T) ==
    /\ T \in [0 .. Len(mapBatches) -> MapTables] /\ T[Len(mapBatches)] = mapTable
    /\ \A i \in 1 .. Len(mapBatches) : mapBatches[i] = Delta(T[i - 1], T[i])
    /\ KeysOf(cache) = KeysOf(T[0])

MapInv ==
    /\ ~mapError /\ mapped = cache /\ OneEach(cache)
    /\ mapBatches \in Seq({Delta(S, R) : S \in MapTables, R \in MapTables})
    /\ \E T : MapTrace(T)

\* What a batch deletes and inserts.
LEMMA DeltaKeys ==
    ASSUME NEW S \in MapTables, NEW R \in MapTables
    PROVE  /\ KeysOf(Deletions(Delta(S, R))) = KeysOf(S \ R)
           /\ KeysOf(Delta(S, R) \ Deletions(Delta(S, R))) = KeysOf(R \ S)
<1>c. PICK D, N : D = {<<r[1], r[2], -1>> : r \in S \ R} /\ N = {<<r[1], r[2], 1>> : r \in R \ S}
  BY Zenon
<1>1. Delta(S, R) = D \cup N
  BY <1>c DEF Delta
<1>2. \A u \in D : u[3] = -1 /\ \E r \in S \ R : u[1] = r[1]
  BY <1>c
<1>3. \A u \in N : u[3] = 1 /\ \E r \in R \ S : u[1] = r[1]
  BY <1>c
<1>4. (\A r \in S \ R : \E u \in D : u[1] = r[1]) /\ (\A r \in R \ S : \E u \in N : u[1] = r[1])
  <2>1. ASSUME NEW r \in S \ R
        PROVE  <<r[1], r[2], -1>> \in D /\ <<r[1], r[2], -1>>[1] = r[1]
    BY <1>c
  <2>2. ASSUME NEW r \in R \ S
        PROVE  <<r[1], r[2], 1>> \in N /\ <<r[1], r[2], 1>>[1] = r[1]
    BY <1>c
  <2> QED  BY <2>1, <2>2, Zenon
<1>5. Deletions(Delta(S, R)) = D /\ Delta(S, R) \ D = N
  BY <1>1, <1>2, <1>3 DEF Deletions
<1>6. KeysOf(D) = KeysOf(S \ R)
  BY <1>2, <1>4 DEF KeysOf
<1>7. KeysOf(N) = KeysOf(R \ S)
  BY <1>3, <1>4 DEF KeysOf
<1> QED  BY <1>5, <1>6, <1>7

\* A row that is replaced is deleted before it is inserted.
LEMMA KeysAfter ==
    ASSUME NEW S \in MapTables, NEW R \in MapTables
    PROVE  /\ KeysOf(S \ R) \subseteq KeysOf(S)
           /\ KeysOf(R \ S) \cap (KeysOf(S) \ KeysOf(S \ R)) = {}
           /\ (KeysOf(S) \ KeysOf(S \ R)) \cup KeysOf(R \ S) = KeysOf(R)
<1>1. OneEach(S) /\ OneEach(R)
  BY DEF MapTables
<1>2. \A A, k : k \in KeysOf(A) <=> \E r \in A : r[1] = k
  BY DEF KeysOf
<1>3. ASSUME NEW k \in KeysOf(R \ S), k \in KeysOf(S)
      PROVE  k \in KeysOf(S \ R)
  <2>1. PICK r \in R \ S, q \in S : r[1] = k /\ q[1] = k
    BY <1>2, <1>3
  <2>2. q \notin R
    BY <1>1, <2>1 DEF OneEach
  <2> QED  BY <1>2, <2>1, <2>2
<1>4. ASSUME NEW k \in KeysOf(S), k \notin KeysOf(S \ R)
      PROVE  k \in KeysOf(R)
  BY <1>2, <1>4
<1>5. ASSUME NEW k \in KeysOf(R), k \notin KeysOf(R \ S)
      PROVE  k \in KeysOf(S) /\ k \notin KeysOf(S \ R)
  <2>1. PICK r \in R : r[1] = k /\ r \in S
    BY <1>2, <1>5
  <2>2. ASSUME NEW q \in S \ R, q[1] = k
        PROVE  FALSE
    BY <1>1, <2>1, <2>2 DEF OneEach
  <2> QED  BY <1>2, <2>1, <2>2
<1>6. KeysOf(S \ R) \subseteq KeysOf(S) /\ KeysOf(R \ S) \subseteq KeysOf(R)
  BY <1>2
<1> QED  BY <1>3, <1>4, <1>5, <1>6

\* What handling a batch leaves, when the answers kept are those for the rows of S.
Handles(c, S, R, answers, done) ==
    /\ OneEach(c) /\ KeysOf(c) = KeysOf(S)
    /\ done = HandleBatch([cache |-> c, rows |-> c, bad |-> FALSE], Delta(S, R), answers)

Leaves(R, done) ==
    /\ done.bad = FALSE /\ done.rows = done.cache /\ OneEach(done.cache)
    /\ KeysOf(done.cache) = KeysOf(R)

LEMMA HandleBatchFacts ==
    ASSUME NEW c, NEW S \in MapTables, NEW R \in MapTables, NEW answers, NEW done,
           Handles(c, S, R, answers, done)
    PROVE  Leaves(R, done)
<1>c. PICK b, D, I : b = Delta(S, R) /\ D = KeysOf(S \ R) /\ I = KeysOf(R \ S)
  OBVIOUS
<1>0. OneEach(c) /\ KeysOf(c) = KeysOf(S)
  BY Zenon DEF Handles
<1>a. PICK a : a = [cache |-> c, rows |-> c, bad |-> FALSE] /\ done = HandleBatch(a, b, answers)
  BY <1>c, Zenon DEF Handles
<1>b. a.cache = c /\ a.rows = c /\ a.bad = FALSE
  BY <1>a
<1>1. KeysOf(Deletions(b)) = D /\ KeysOf(b \ Deletions(b)) = I
  BY <1>c, DeltaKeys, Zenon
<1>2. /\ D \subseteq KeysOf(c) /\ I \cap (KeysOf(c) \ D) = {} /\ (KeysOf(c) \ D) \cup I = KeysOf(R)
  BY <1>0, <1>c, KeysAfter, Zenon
<1>d. PICK left, new : left = {x \in c : x[1] \notin D} /\ new = {<<k, answers[k]>> : k \in I}
  BY Zenon
<1>3. c \ {x \in c : x[1] \in D} = left
  BY <1>d
<1>4. KeysOf(left) = KeysOf(c) \ D /\ KeysOf(new) = I
  <2>1. KeysOf(left) = KeysOf(c) \ D
    BY <1>d DEF KeysOf
  <2>2. \A x \in new : x[1] \in I
    BY <1>d
  <2>3. ASSUME NEW k \in I
        PROVE  <<k, answers[k]>> \in new /\ <<k, answers[k]>>[1] = k
    BY <1>d
  <2>4. KeysOf(new) = I
    BY <2>2, <2>3, Zenon DEF KeysOf
  <2> QED  BY <2>1, <2>4
<1>5. {x \in left : x[1] \notin I} = left
  <2>1. \A x \in left : x[1] \in KeysOf(left)
    BY DEF KeysOf
  <2> QED  BY <1>2, <1>4, <2>1
<1>e. PICK s : s = [cache |-> left, rows |-> left, bad |-> FALSE]
  BY Zenon
<1>6. TakeKept(a, b) = s
  <2>1. (FALSE \/ ~(D \subseteq KeysOf(c))) = FALSE
    BY <1>2
  <2> QED  BY <1>1, <1>3, <1>b, <1>e, <2>1, Zenon DEF TakeKept
<1>7. CallLogic(s, b, answers) = [cache |-> left \cup new, rows |-> left \cup new, bad |-> FALSE]
  <2>1. (FALSE \/ I \cap KeysOf(left) # {}) = FALSE
    BY <1>2, <1>4
  <2>2. s.cache = left /\ s.rows = left /\ s.bad = FALSE
    BY <1>e
  <2> QED  BY <1>1, <1>5, <1>d, <2>1, <2>2, Zenon DEF CallLogic
<1>8. OneEach(left \cup new)
  <2>1. \A x \in left : x[1] \in KeysOf(left) /\ x \in c
    BY <1>d DEF KeysOf
  <2>2. \A x \in new : x[1] \in I /\ x = <<x[1], answers[x[1]]>>
    BY <1>d
  <2>3. \A x \in left, y \in new : x[1] # y[1]
    BY <1>2, <1>4, <2>1, <2>2
  <2> QED  BY <1>0, <2>1, <2>2, <2>3 DEF OneEach
<1>9. KeysOf(left \cup new) = KeysOf(R)
  <2>1. KeysOf(left \cup new) = KeysOf(left) \cup KeysOf(new)
    BY DEF KeysOf
  <2> QED  BY <1>2, <1>4, <2>1, Zenon
<1>10. done = [cache |-> left \cup new, rows |-> left \cup new, bad |-> FALSE]
  BY <1>6, <1>7, <1>a, Zenon DEF HandleBatch
<1>11. done.cache = left \cup new /\ done.rows = left \cup new /\ done.bad = FALSE
  BY <1>10
<1> QED  BY <1>8, <1>9, <1>11, Zenon DEF Leaves

\* A batch is handled.
LEMMA MapBatchInv ==
    ASSUME MapInv, MapBatch
    PROVE  MapInv'
<1> DEFINE E == {Delta(S, R) : S \in MapTables, R \in MapTables}
<1>1. mapBatches # << >> /\ mapBatches' = Tail(mapBatches) /\ mapTable' = mapTable
  BY DEF MapBatch
<1>2. PICK T : MapTrace(T)
  BY DEF MapInv
<1>c. PICK n, b, c : n = Len(mapBatches) /\ b = Head(mapBatches) /\ c = cache
  BY Zenon
<1>3. mapBatches \in Seq(E) /\ OneEach(c) /\ mapped = c /\ ~mapError
  BY <1>c DEF MapInv
<1> HIDE DEF E
<1>4. n \in Nat /\ n >= 1 /\ b = mapBatches[1]
  BY <1>1, <1>3, <1>c
<1>5. /\ T \in [0 .. n -> MapTables] /\ T[n] = mapTable
      /\ \A i \in 1 .. n : mapBatches[i] = Delta(T[i - 1], T[i])
      /\ KeysOf(c) = KeysOf(T[0])
  BY <1>2, <1>c DEF MapTrace
<1>6. T[0] \in MapTables /\ T[1] \in MapTables /\ b = Delta(T[0], T[1])
  <2>1. 0 \in 0 .. n /\ 1 \in 0 .. n /\ 1 \in 1 .. n /\ 1 - 1 = 0
    BY <1>4
  <2> QED  BY <1>4, <1>5, <2>1
<1>7. PICK answers, done :
           /\ done = HandleBatch([cache |-> c, rows |-> c, bad |-> FALSE], b, answers)
           /\ cache' = done.cache /\ mapped' = done.rows /\ mapError' = done.bad
  BY <1>3, <1>c DEF MapBatch
<1>8. /\ mapError' = FALSE /\ mapped' = cache' /\ OneEach(cache') /\ KeysOf(cache') = KeysOf(T[1])
  <2>1. /\ done.bad = FALSE /\ done.rows = done.cache /\ OneEach(done.cache)
        /\ KeysOf(done.cache) = KeysOf(T[1])
    <3>1. KeysOf(c) = KeysOf(T[0]) /\ OneEach(c)
      BY <1>3, <1>5, Zenon
    <3>2. PICK S \in MapTables, R \in MapTables : S = T[0] /\ R = T[1] /\ b = Delta(S, R)
      BY <1>6, Zenon
    <3>3. KeysOf(c) = KeysOf(S)
      BY <3>1, <3>2, Zenon
    <3>4. Handles(c, S, R, answers, done)
      BY <1>7, <3>1, <3>2, <3>3, Zenon DEF Handles
    <3>5. Leaves(R, done)
      <4>1. S \in MapTables /\ R \in MapTables
        BY <3>2, Zenon
      <4> QED  BY <3>4, <4>1, HandleBatchFacts, Zenon
    <3> QED  BY <3>2, <3>5, Zenon DEF Leaves
  <2> QED  BY <1>7, <2>1, Zenon
<1>9. /\ mapBatches' \in Seq(E) /\ Len(mapBatches') = n - 1
      /\ \A i \in 1 .. n - 1 : mapBatches'[i] = mapBatches[i + 1]
  BY <1>1, <1>3, <1>4, <1>c
<1> DEFINE Z == [i \in 0 .. n - 1 |-> T[i + 1]]
<1>10. \A i \in 0 .. n - 1 : i + 1 \in 0 .. n /\ Z[i] = T[i + 1]
  BY <1>4
<1>11. Z \in [0 .. n - 1 -> MapTables]
  BY <1>5, <1>10
<1>12. \A i \in 1 .. n - 1 : mapBatches'[i] = Delta(Z[i - 1], Z[i])
  <2> SUFFICES ASSUME NEW i \in 1 .. n - 1
               PROVE  mapBatches'[i] = Delta(Z[i - 1], Z[i])
    BY Zenon
  <2>1. i - 1 \in 0 .. n - 1 /\ i \in 0 .. n - 1 /\ i + 1 \in 1 .. n /\ (i + 1) - 1 = i /\ (i - 1) + 1 = i
    BY <1>4
  <2>2. mapBatches[i + 1] = Delta(T[(i + 1) - 1], T[i + 1])
    BY <1>5, <2>1
  <2> QED  BY <1>9, <1>10, <2>1, <2>2
<1>13. Z[0] = T[1] /\ Z[n - 1] = T[n]
  <2>1. 0 \in 0 .. n - 1 /\ n - 1 \in 0 .. n - 1 /\ (n - 1) + 1 = n
    BY <1>4
  <2> QED  BY <1>10, <2>1
<1> HIDE DEF Z
<1>14. MapTrace(Z)'
  BY <1>1, <1>5, <1>8, <1>9, <1>11, <1>12, <1>13 DEF MapTrace
<1> QED  BY <1>8, <1>9, <1>14 DEF MapInv, E

\* The table changes, and the batch waits.
LEMMA ChangeMapTableInv ==
    ASSUME MapInv, ChangeMapTable
    PROVE  MapInv'
<1> DEFINE E == {Delta(S, R) : S \in MapTables, R \in MapTables}
<1>1. cache' = cache /\ mapped' = mapped /\ mapError' = mapError
  BY DEF ChangeMapTable
<1>2. PICK new \in [MapKeys -> MapValues \cup {0}] :
         /\ mapTable' = {<<k, new[k]>> : k \in {x \in MapKeys : new[x] # 0}}
         /\ mapBatches' = Append(mapBatches, Delta(mapTable, mapTable'))
  BY DEF ChangeMapTable
<1>3. mapTable' \in MapTables
  <2>1. \A r \in mapTable' : \E k \in MapKeys : r = <<k, new[k]>> /\ new[k] \in MapValues
    BY <1>2
  <2>2. mapTable' \subseteq MapKeys \X MapValues
    BY <2>1
  <2>3. OneEach(mapTable')
    BY <2>1 DEF OneEach
  <2> QED  BY <2>2, <2>3 DEF MapTables
<1>4. PICK T : MapTrace(T)
  BY DEF MapInv
<1>c. PICK n, t : n = Len(mapBatches) /\ t = mapTable'
  BY Zenon
<1>5. mapBatches \in Seq(E) /\ n \in Nat
  BY <1>c DEF MapInv
<1> HIDE DEF E
<1>6. /\ T \in [0 .. n -> MapTables] /\ T[n] = mapTable
      /\ \A i \in 1 .. n : mapBatches[i] = Delta(T[i - 1], T[i])
      /\ KeysOf(cache) = KeysOf(T[0])
  BY <1>4, <1>c DEF MapTrace
<1>7. mapTable \in MapTables
  BY <1>5, <1>6
<1>8. Delta(mapTable, t) \in E
  BY <1>3, <1>7, <1>c DEF E
<1>9. /\ mapBatches' \in Seq(E) /\ Len(mapBatches') = n + 1 /\ mapBatches'[n + 1] = Delta(mapTable, t)
      /\ \A i \in 1 .. n : mapBatches'[i] = mapBatches[i]
  BY <1>2, <1>5, <1>8, <1>c
<1> DEFINE Z == [i \in 0 .. n + 1 |-> IF i = n + 1 THEN t ELSE T[i]]
<1>10. (\A i \in 0 .. n : Z[i] = T[i]) /\ Z[n + 1] = t
  BY <1>5
<1>11. \A i \in 0 .. n + 1 : i \in 0 .. n \/ i = n + 1
  BY <1>5
<1>12. Z \in [0 .. n + 1 -> MapTables]
  BY <1>3, <1>6, <1>11, <1>c
<1> HIDE DEF Z
<1>13. \A i \in 1 .. n + 1 : mapBatches'[i] = Delta(Z[i - 1], Z[i])
  <2> SUFFICES ASSUME NEW i \in 1 .. n + 1
               PROVE  mapBatches'[i] = Delta(Z[i - 1], Z[i])
    OBVIOUS
  <2>1. CASE i = n + 1
    <3>1. i - 1 = n /\ n \in 0 .. n
      BY <1>5, <2>1
    <3>2. Z[i - 1] = mapTable /\ Z[i] = t
      BY <1>6, <1>10, <2>1, <3>1
    <3> QED  BY <1>9, <2>1, <3>2
  <2>2. CASE i # n + 1
    <3>1. i \in 1 .. n /\ i - 1 \in 0 .. n /\ i \in 0 .. n
      BY <1>5, <2>2
    <3> QED  BY <1>6, <1>9, <1>10, <3>1
  <2> QED  BY <2>1, <2>2
<1>14. Z[0] = T[0]
  BY <1>5, <1>10
<1>15. MapTrace(Z)'
  BY <1>1, <1>6, <1>9, <1>10, <1>12, <1>13, <1>14, <1>c DEF MapTrace
<1> QED  BY <1>1, <1>9, <1>15 DEF MapInv, E

\* However often the function is called and whatever it answers, for every table
\* and every number of batches that wait: a deletion finds the answer that was given
\* for its row, and the output has one row for each row that was handled.
THEOREM DeletionsConsistentAlways == MapSpec => []DeletionsConsistent
<1>1. MapInit => MapInv
  <2> SUFFICES ASSUME MapInit
               PROVE  MapInv
    OBVIOUS
  <2>1. mapTable = {} /\ mapBatches = << >> /\ cache = {} /\ mapped = {} /\ mapError = FALSE
    BY DEF MapInit
  <2>2. {} \in MapTables
    BY DEF MapTables, OneEach
  <2> DEFINE T == [i \in {0} |-> {}]
  <2>3. Len(mapBatches) = 0 /\ 0 .. 0 = {0} /\ 1 .. 0 = {} /\ T[0] = {} /\ T \in [{0} -> MapTables]
    BY <2>1, <2>2
  <2> HIDE DEF T
  <2>4. MapTrace(T)
    BY <2>1, <2>3 DEF MapTrace
  <2> QED  BY <2>1, <2>4 DEF MapInv, OneEach
<1>2. MapInv /\ [MapNext]_mapVars => MapInv'
  <2> SUFFICES ASSUME MapInv, [MapNext]_mapVars
               PROVE  MapInv'
    OBVIOUS
  <2>1. CASE ChangeMapTable
    BY <2>1, ChangeMapTableInv
  <2>2. CASE MapBatch
    BY <2>2, MapBatchInv
  <2>3. CASE UNCHANGED mapVars
    <3>1. /\ mapTable' = mapTable /\ mapBatches' = mapBatches /\ cache' = cache /\ mapped' = mapped
          /\ mapError' = mapError
      BY <2>3 DEF mapVars
    <3> QED  BY <3>1 DEF MapInv, MapTrace
  <2> QED  BY <2>1, <2>2, <2>3 DEF MapNext
<1>3. MapInv => DeletionsConsistent
  <2> SUFFICES ASSUME MapInv
               PROVE  mapBatches = << >> => KeysOf(mapped) = KeysOf(mapTable)
    BY DEF MapInv, OneEach, DeletionsConsistent
  <2>1. PICK T : MapTrace(T)
    BY DEF MapInv
  <2> QED  BY <2>1 DEF MapInv, MapTrace
<1> QED  BY <1>1, <1>2, <1>3, PTL DEF MapSpec

-----------------------------------------------------------------------------
(* GradualBroadcast.                                                       *)

\* What a triplet of the stream is.
IsTriplet(t) == t \in Int \X Int \X Int /\ t[1] <= t[3]

\* What the output holds when every key of K has its bound in t.
ShowsOne(K, t) ==
    [p \in BroadcastKeys \X ShownValues |-> IF p[1] \in K /\ p[2] = Bound(t, p[1]) THEN 1 ELSE 0]

\* The triplets of the stream are triplets.
LEMMA GivenTriplet == \A t \in Triplets : IsTriplet(t)
  BY BroadcastAssumption DEF IsTriplet

\* A threshold is a number.
LEMMA ThresholdInt ==
  ASSUME NEW t, IsTriplet(t)
  PROVE  GetThreshold(t) \in Int
<1>1. t[1] \in Int /\ t[2] \in Int /\ t[3] \in Int /\ t[1] <= t[3]  BY DEF IsTriplet
<1>2. CASE t[1] = t[3]  BY <1>2 DEF GetThreshold
<1>3. CASE t[1] # t[3]
  <2>1. t[3] - t[1] \in Int /\ t[3] - t[1] > 0  BY <1>1, <1>3
  <2>2. (t[2] - t[1]) * KeyRange \in Int  BY <1>1, BroadcastAssumption
  <2>3. \A x \in Int, d \in Int : d > 0 => x \div d \in Int  OBVIOUS
  <2> QED  BY <2>1, <2>2, <2>3, <1>3 DEF GetThreshold
<1> QED  BY <1>2, <1>3

\* Moving the value to a bound stays in the bucket.
LEMMA ToBounds ==
  ASSUME NEW t, IsTriplet(t)
  PROVE  /\ IsTriplet(ToLowerBound(t)) /\ SameBucket(t, ToLowerBound(t))
         /\ IsTriplet(ToUpperBound(t)) /\ SameBucket(t, ToUpperBound(t))
  BY DEF IsTriplet, ToLowerBound, ToUpperBound, SameBucket, Lower, Upper

\* With the value at the lower bound every key gets it.
LEMMA AllLower ==
  ASSUME NEW t, IsTriplet(t), NEW k \in BroadcastKeys
  PROVE  Bound(ToLowerBound(t), k) = Lower(t)
<1>1. t[1] \in Int /\ t[3] \in Int /\ t[1] <= t[3]  BY DEF IsTriplet
<1>k. k \in Int /\ k >= 0  BY BroadcastAssumption DEF BroadcastKeys
<1>2. GetThreshold(ToLowerBound(t)) = 0
  <2>1. CASE t[1] = t[3]  BY <2>1 DEF GetThreshold, ToLowerBound
  <2>2. CASE t[1] # t[3]
    <3>1. (t[1] - t[1]) * KeyRange = 0  BY <1>1, BroadcastAssumption
    <3>2. t[3] - t[1] \in Int /\ t[3] - t[1] > 0  BY <1>1, <2>2
    <3>3. \A d \in Int : d > 0 => 0 \div d = 0  OBVIOUS
    <3> QED  BY <3>1, <3>2, <3>3, <2>2 DEF GetThreshold, ToLowerBound
  <2> QED  BY <2>1, <2>2
<1>3. ToLowerBound(t)[1] = t[1] /\ ToLowerBound(t)[3] = t[3]  BY DEF ToLowerBound
<1> QED  BY <1>k, <1>2, <1>3 DEF Bound, Lower, Upper

\* With the value at the upper bound every key gets it.
LEMMA AllUpper ==
  ASSUME NEW t, IsTriplet(t), NEW k \in BroadcastKeys
  PROVE  Bound(ToUpperBound(t), k) = Upper(t)
<1>1. t[1] \in Int /\ t[3] \in Int /\ t[1] <= t[3]  BY DEF IsTriplet
<1>k. k \in Int /\ k < KeyRange /\ KeyRange \in Int  BY BroadcastAssumption DEF BroadcastKeys
<1>3. ToUpperBound(t)[1] = t[1] /\ ToUpperBound(t)[3] = t[3]  BY DEF ToUpperBound
<1>4. CASE t[1] = t[3]  BY <1>3, <1>4 DEF Bound, Lower, Upper
<1>5. CASE t[1] # t[3]
  <2>1. t[3] - t[1] \in Int /\ t[3] - t[1] > 0  BY <1>1, <1>5
  <2>2. \A d \in Int, n \in Int : d > 0 => (d * n) \div d = n  OBVIOUS
  <2>3. GetThreshold(ToUpperBound(t)) = KeyRange  BY <2>1, <2>2, <1>k, <1>5 DEF GetThreshold, ToUpperBound
  <2> QED  BY <2>3, <1>k, <1>3 DEF Bound, Lower, Upper
<1> QED  BY <1>4, <1>5

\* Correcting every row brings the output from one triplet to another.
LEMMA ReplaceAll ==
  ASSUME NEW a, IsTriplet(a), NEW b, IsTriplet(b)
  PROVE  ReplaceInFragment(ShowsOne(rows, a), a, b, 0, KeyRange) = ShowsOne(rows, b)
<1> DEFINE D == BroadcastKeys \X ShownValues
           S == ShowsOne(rows, a)
           S1 == ApplyToFragment(S, InTrace(-1), a, 0, KeyRange)
           S2 == ApplyToFragment(S1, InTrace(1), b, 0, KeyRange)
<1>1. DOMAIN S = D /\ DOMAIN S1 = D /\ DOMAIN S2 = D /\ S1 = [p \in D |-> S1[p]] /\ S2 = [p \in D |-> S2[p]]
  BY DEF ShowsOne, ApplyToFragment
<1>2. ASSUME NEW p \in D
      PROVE  S2[p] = IF p[1] \in rows /\ p[2] = Bound(b, p[1]) THEN 1 ELSE 0
  <2>1. p[1] \in BroadcastKeys /\ p[1] >= 0 /\ p[1] < KeyRange  BY BroadcastAssumption DEF BroadcastKeys
  <2>2. S[p] = IF p[1] \in rows /\ p[2] = Bound(a, p[1]) THEN 1 ELSE 0  BY DEF ShowsOne
  <2>3. InTrace(-1)[p[1]] = (IF p[1] \in rows THEN -1 ELSE 0) /\ InTrace(1)[p[1]] = (IF p[1] \in rows THEN 1 ELSE 0)
    BY <2>1, Zenon DEF InTrace
  <2>4. S1[p] = IF p[2] = Bound(a, p[1]) THEN S[p] + InTrace(-1)[p[1]] ELSE S[p]
    BY <1>1, <2>1, Zenon DEF ApplyToFragment
  <2>5. S2[p] = IF p[2] = Bound(b, p[1]) THEN S1[p] + InTrace(1)[p[1]] ELSE S1[p]
    BY <1>1, <2>1, Zenon DEF ApplyToFragment
  <2>6. S1[p] = 0  BY <2>2, <2>3, <2>4
  <2> QED  BY <2>3, <2>5, <2>6
<1>3. S2 = ShowsOne(rows, b)  BY <1>1, <1>2, Zenon DEF ShowsOne
<1> QED  BY <1>3, Zenon DEF ReplaceInFragment

\* In one bucket only the rows between the thresholds change.
LEMMA ReplaceBucket ==
  ASSUME NEW a, IsTriplet(a), NEW b, IsTriplet(b), SameBucket(a, b)
  PROVE  ReplaceBetween(ShowsOne(rows, a), a, b) = ShowsOne(rows, b)
<1> DEFINE D == BroadcastKeys \X ShownValues
           S == ShowsOne(rows, a)
           F == Smaller(GetThreshold(a), GetThreshold(b))
           T == Larger(GetThreshold(a), GetThreshold(b))
           S1 == ApplyToFragment(S, InTrace(-1), a, F, T)
           S2 == ApplyToFragment(S1, InTrace(1), b, F, T)
<1>1. DOMAIN S = D /\ DOMAIN S1 = D /\ DOMAIN S2 = D /\ S1 = [p \in D |-> S1[p]] /\ S2 = [p \in D |-> S2[p]]
  BY Zenon DEF ShowsOne, ApplyToFragment
<1>2. ASSUME NEW p \in D
      PROVE  S2[p] = IF p[1] \in rows /\ p[2] = Bound(b, p[1]) THEN 1 ELSE 0
  <2>1. p[1] \in BroadcastKeys /\ p[1] \in Int  BY BroadcastAssumption DEF BroadcastKeys
  <2>2. S[p] = IF p[1] \in rows /\ p[2] = Bound(a, p[1]) THEN 1 ELSE 0  BY DEF ShowsOne
  <2>3. InTrace(-1)[p[1]] = (IF p[1] \in rows THEN -1 ELSE 0) /\ InTrace(1)[p[1]] = (IF p[1] \in rows THEN 1 ELSE 0)
    BY <2>1 DEF InTrace
  <2>4. S1[p] = IF p[1] >= F /\ p[1] < T /\ p[2] = Bound(a, p[1]) THEN S[p] + InTrace(-1)[p[1]] ELSE S[p]
    BY <1>1, Zenon DEF ApplyToFragment
  <2>5. S2[p] = IF p[1] >= F /\ p[1] < T /\ p[2] = Bound(b, p[1]) THEN S1[p] + InTrace(1)[p[1]] ELSE S1[p]
    BY <1>1, Zenon DEF ApplyToFragment
  <2>6. CASE p[1] >= F /\ p[1] < T
    <3>1. PICK s, s1, s2, w : s = S[p] /\ s1 = S1[p] /\ s2 = S2[p] /\ w = InTrace(-1)[p[1]]  BY Zenon
    <3>2. s1 = IF p[2] = Bound(a, p[1]) THEN s + w ELSE s  BY <2>4, <2>6, <3>1, Zenon
    <3>3. s1 = 0  BY <2>2, <2>3, <3>1, <3>2
    <3>4. s2 = IF p[2] = Bound(b, p[1]) THEN s1 + InTrace(1)[p[1]] ELSE s1  BY <2>5, <2>6, <3>1, Zenon
    <3>5. s2 = IF p[2] = Bound(b, p[1]) THEN InTrace(1)[p[1]] ELSE 0
      <4>1. InTrace(1)[p[1]] \in Int  BY <2>3
      <4> QED  BY <3>3, <3>4, <4>1
    <3> QED  BY <2>3, <3>1, <3>5, Zenon
  <2>7. CASE ~ (p[1] >= F /\ p[1] < T)
    <3>1. GetThreshold(a) \in Int /\ GetThreshold(b) \in Int  BY ThresholdInt
    <3>2. (p[1] < GetThreshold(a)) <=> (p[1] < GetThreshold(b))  BY <2>1, <2>7, <3>1 DEF Smaller, Larger
    <3>3. Bound(a, p[1]) = Bound(b, p[1])  BY <3>2, Zenon DEF Bound, SameBucket
    <3>4. S2[p] = S[p]  BY <2>4, <2>5, <2>7
    <3> QED  BY <2>2, <3>3, <3>4
  <2> QED  BY <2>6, <2>7
<1>3. S2 = ShowsOne(rows, b)  BY <1>1, <1>2, Zenon DEF ShowsOne
<1> QED  BY <1>3, Zenon DEF ReplaceInFragment, ReplaceBetween

\* Two triplets that give every key the same bound show the same.
LEMMA SameShown ==
  ASSUME NEW a, NEW b, \A k \in BroadcastKeys : Bound(a, k) = Bound(b, k)
  PROVE  ShowsOne(rows, a) = ShowsOne(rows, b)
  BY DEF ShowsOne

\* ChangeTriplet brings the output from one triplet to another, whatever
\* their buckets: the first correction moves the rows to the bound the
\* buckets share, and the second goes on from the new bucket's side of it.
LEMMA ChangeExact ==
  ASSUME NEW a, IsTriplet(a), NEW b, IsTriplet(b)
  PROVE  ChangeTriplet(ShowsOne(rows, a), a, b) = ShowsOne(rows, b)
<1>1. CASE SameBucket(a, b)  BY <1>1, ReplaceBucket DEF ChangeTriplet
<1>2. CASE ~ SameBucket(a, b) /\ ~ Adjacent(a, b)  BY <1>2, ReplaceAll DEF ChangeTriplet
<1>3. CASE ~ SameBucket(a, b) /\ Lower(a) = Upper(b)
  <2>1. PICK f, g : f = ToLowerBound(a) /\ g = ToUpperBound(b)  OBVIOUS
  <2>2. IsTriplet(f) /\ SameBucket(a, f) /\ IsTriplet(g) /\ SameBucket(b, g)  BY <2>1, ToBounds
  <2>3. SameBucket(g, b)  BY <2>2 DEF SameBucket
  <2>4. ReplaceBetween(ShowsOne(rows, a), a, f) = ShowsOne(rows, f)  BY <2>2, ReplaceBucket
  <2>5. ShowsOne(rows, f) = ShowsOne(rows, g)
    <3>1. \A k \in BroadcastKeys : Bound(f, k) = Bound(g, k)  BY <2>1, <1>3, AllLower, AllUpper
    <3> QED  BY <3>1, SameShown
  <2>6. ReplaceBetween(ShowsOne(rows, g), g, b) = ShowsOne(rows, b)  BY <2>2, <2>3, ReplaceBucket
  <2>7. ChangeTriplet(ShowsOne(rows, a), a, b) = ReplaceBetween(ReplaceBetween(ShowsOne(rows, a), a, f), g, b)
    BY <1>3, <2>1 DEF ChangeTriplet, Adjacent
  <2> QED  BY <2>4, <2>5, <2>6, <2>7
<1>4. CASE ~ SameBucket(a, b) /\ Lower(a) # Upper(b) /\ Lower(b) = Upper(a)
  <2>1. PICK f, g : f = ToUpperBound(a) /\ g = ToLowerBound(b)  OBVIOUS
  <2>2. IsTriplet(f) /\ SameBucket(a, f) /\ IsTriplet(g) /\ SameBucket(b, g)  BY <2>1, ToBounds
  <2>3. SameBucket(g, b)  BY <2>2 DEF SameBucket
  <2>4. ReplaceBetween(ShowsOne(rows, a), a, f) = ShowsOne(rows, f)  BY <2>2, ReplaceBucket
  <2>5. ShowsOne(rows, f) = ShowsOne(rows, g)
    <3>1. \A k \in BroadcastKeys : Bound(f, k) = Bound(g, k)  BY <2>1, <1>4, AllLower, AllUpper
    <3> QED  BY <3>1, SameShown
  <2>6. ReplaceBetween(ShowsOne(rows, g), g, b) = ShowsOne(rows, b)  BY <2>2, <2>3, ReplaceBucket
  <2>7. ChangeTriplet(ShowsOne(rows, a), a, b) = ReplaceBetween(ReplaceBetween(ShowsOne(rows, a), a, f), g, b)
    BY <1>4, <2>1 DEF ChangeTriplet, Adjacent
  <2> QED  BY <2>4, <2>5, <2>6, <2>7
<1> QED  BY <1>1, <1>2, <1>3, <1>4 DEF Adjacent

\* What the output holds for the keys K under the triplet of T, if any.
Shows(K, T) ==
    [p \in BroadcastKeys \X ShownValues |-> IF p[1] \in K /\ \E t \in T : p[2] = Bound(t, p[1]) THEN 1 ELSE 0]

\* M[i] is the row of the triplet's table after the first i waiting messages.
Leading(M, msgs) ==
    /\ M \in [0 .. Len(msgs) -> TableTriplets]
    /\ \A i \in 1 .. Len(msgs) : M[i] # M[i - 1] /\ msgs[i] = Message(M[i - 1], M[i])

\* The row before the waiting messages is the triplet in force, unless it is deleted.
TripletInv ==
    \E M : Leading(M, messages) /\ M[Len(messages)] = tableTriplet /\ (M[0] # {} => triplet = M[0])

GbInv ==
    /\ rows \subseteq BroadcastKeys /\ takenRows \subseteq BroadcastKeys
    /\ triplet \in TableTriplets
    /\ messages \in Seq(SUBSET (Triplets \X {-1, 1}))
    /\ shown = Shows(takenRows, triplet)
    /\ TripletInv

\* One triplet in force.
LEMMA ShowsOneOf == \A K, t : Shows(K, {t}) = ShowsOne(K, t)
  BY DEF Shows, ShowsOne

\* The triplet in force is the one that is there.
LEMMA ChooseOne == \A t : (CHOOSE x \in {t} : TRUE) = t
  OBVIOUS

\* The batches bring the output from the rows taken before to all rows.
LEMMA BatchesExact ==
  ASSUME GbInv
  PROVE  TakeBatches = Shows(rows, triplet)
<1>1. CASE triplet = {}
  <2>1. \A K : Shows(K, {}) = [p \in BroadcastKeys \X ShownValues |-> 0]  BY DEF Shows
  <2>2. shown = Shows(takenRows, {})  BY <1>1 DEF GbInv
  <2>3. TakeBatches = shown  BY <1>1 DEF TakeBatches
  <2> QED  BY <1>1, <2>1, <2>2, <2>3
<1>2. CASE triplet # {}
  <2>1. PICK t \in Triplets : triplet = {t}  BY <1>2 DEF GbInv, TableTriplets
  <2>2. (CHOOSE x \in triplet : TRUE) = t  BY <2>1, ChooseOne
  <2> DEFINE D == BroadcastKeys \X ShownValues
             W == [k \in BroadcastKeys |->
                    (IF k \in rows THEN 1 ELSE 0) - (IF k \in takenRows THEN 1 ELSE 0)]
             S == ApplyToFragment(shown, W, t, 0, KeyRange)
  <2>3. TakeBatches = S  BY <1>2, <2>2, Zenon DEF TakeBatches
  <2>4. shown = ShowsOne(takenRows, t)  BY <2>1, ShowsOneOf DEF GbInv
  <2>5. DOMAIN shown = D /\ S = [p \in D |-> S[p]]  BY <2>4 DEF ShowsOne, ApplyToFragment
  <2>6. ASSUME NEW p \in D
        PROVE  S[p] = IF p[1] \in rows /\ p[2] = Bound(t, p[1]) THEN 1 ELSE 0
    <3>1. p[1] \in BroadcastKeys /\ p[1] >= 0 /\ p[1] < KeyRange  BY BroadcastAssumption DEF BroadcastKeys
    <3>2. shown[p] = IF p[1] \in takenRows /\ p[2] = Bound(t, p[1]) THEN 1 ELSE 0  BY <2>4, Zenon DEF ShowsOne
    <3>3. S[p] = IF p[2] = Bound(t, p[1]) THEN shown[p] + W[p[1]] ELSE shown[p]
      BY <2>5, <3>1 DEF ApplyToFragment
    <3>4. W[p[1]] = (IF p[1] \in rows THEN 1 ELSE 0) - (IF p[1] \in takenRows THEN 1 ELSE 0)  BY <3>1
    <3> QED  BY <3>2, <3>3, <3>4
  <2>7. S = ShowsOne(rows, t)  BY <2>5, <2>6 DEF ShowsOne
  <2> QED  BY <2>1, <2>3, <2>7, ShowsOneOf
<1> QED  BY <1>1, <1>2

\* Then a message brings it to the new triplet.
LEMMA MessageExact ==
  ASSUME GbInv, NEW new \in Triplets
  PROVE  TakeMessage(TakeBatches, new) = Shows(rows, {new})
<1>1. TakeBatches = Shows(rows, triplet)  BY BatchesExact
<1>2. IsTriplet(new)  BY GivenTriplet
<1>3. CASE triplet = {}
  <2> DEFINE D == BroadcastKeys \X ShownValues
             Z == [p \in D |-> 0]
             S == ApplyToFragment(Z, InTrace(1), new, 0, KeyRange)
  <2>1. TakeBatches = Z  BY <1>1, <1>3 DEF Shows
  <2>2. TakeMessage(TakeBatches, new) = S  BY <1>3, <2>1 DEF TakeMessage
  <2>3. S = [p \in D |-> S[p]]  BY DEF ApplyToFragment
  <2>4. ASSUME NEW p \in D
        PROVE  S[p] = IF p[1] \in rows /\ p[2] = Bound(new, p[1]) THEN 1 ELSE 0
    <3>1. p[1] \in BroadcastKeys /\ p[1] >= 0 /\ p[1] < KeyRange  BY BroadcastAssumption DEF BroadcastKeys
    <3>2. S[p] = IF p[2] = Bound(new, p[1]) THEN 0 + InTrace(1)[p[1]] ELSE 0
      BY <3>1 DEF ApplyToFragment
    <3> QED  BY <3>1, <3>2 DEF InTrace
  <2>5. S = ShowsOne(rows, new)  BY <2>3, <2>4 DEF ShowsOne
  <2> QED  BY <2>2, <2>5, ShowsOneOf
<1>4. CASE triplet # {}
  <2>1. PICK t \in Triplets : triplet = {t}  BY <1>4 DEF GbInv, TableTriplets
  <2>2. (CHOOSE x \in triplet : TRUE) = t  BY <2>1, ChooseOne
  <2>3. IsTriplet(t)  BY GivenTriplet
  <2>4. TakeBatches = ShowsOne(rows, t)  BY <1>1, <2>1, ShowsOneOf
  <2>5. TakeMessage(TakeBatches, new) = ChangeTriplet(ShowsOne(rows, t), t, new)
    BY <1>4, <2>2, <2>4, Zenon DEF TakeMessage
  <2> QED  BY <2>3, <2>5, <1>2, ChangeExact, ShowsOneOf
<1> QED  BY <1>3, <1>4

\* The triplet taken from a message is the row it leaves in the table, or the
\* one in force when it leaves none.
LEMMA NewTripletOf ==
  ASSUME NEW old \in TableTriplets, NEW new \in TableTriplets, old # new,
         NEW cur, old # {} => cur = old
  PROVE  /\ new # {} /\ cur \in TableTriplets => GetNewTriplet(cur, Message(old, new)) = new
         /\ new = {} => GetNewTriplet(cur, Message(old, new)) = old
<1> DEFINE received == {u[1] : u \in Message(old, new)}
<1>1. received = old \cup new
  <2>1. \A u \in Message(old, new) : u[1] \in old \cup new  BY DEF Message
  <2>2. \A t \in old : <<t, -1>> \in Message(old, new) /\ <<t, -1>>[1] = t  BY DEF Message
  <2>3. \A t \in new : <<t, 1>> \in Message(old, new) /\ <<t, 1>>[1] = t  BY DEF Message
  <2> QED  BY <2>1, <2>2, <2>3, Zenon
<1>2. GetNewTriplet(cur, Message(old, new)) =
        IF received \subseteq cur THEN received ELSE received \ cur
  BY DEF GetNewTriplet
<1>3. ASSUME new = {}  PROVE GetNewTriplet(cur, Message(old, new)) = old  BY <1>1, <1>2, <1>3
<1>4. ASSUME new # {}, cur \in TableTriplets  PROVE GetNewTriplet(cur, Message(old, new)) = new
  <2>1. PICK n \in Triplets : new = {n}  BY <1>4 DEF TableTriplets
  <2>2. CASE old = {}
    <3>1. received = {n}  BY <1>1, <2>1, <2>2
    <3>2. ({n} \subseteq cur) \/ ({n} \ cur = {n})  OBVIOUS
    <3> QED  BY <1>2, <2>1, <3>1, <3>2, Zenon
  <2>3. CASE old # {}
    <3>1. PICK o \in Triplets : old = {o}  BY <2>3 DEF TableTriplets
    <3>2. received = {o, n} /\ cur = {o} /\ o # n  BY <1>1, <2>1, <2>3, <3>1, Zenon
    <3>3. ~ ({o, n} \subseteq {o}) /\ {o, n} \ {o} = {n}  BY <3>2
    <3> QED  BY <1>2, <2>1, <3>2, <3>3, Zenon
  <2> QED  BY <2>2, <2>3
<1> QED  BY <1>3, <1>4

\* The operator starts with nothing shown.
LEMMA GbInitInv == BroadcastInit => GbInv
<1> SUFFICES ASSUME BroadcastInit PROVE GbInv  OBVIOUS
<1>1. shown = Shows(takenRows, triplet)  BY DEF BroadcastInit, Shows
<1>2. TripletInv
  <2> DEFINE M == [i \in 0 .. 0 |-> {}]
  <2>1. messages = <<>> /\ Len(messages) = 0 /\ tableTriplet = {}  BY DEF BroadcastInit
  <2>2. Leading(M, messages)  BY <2>1 DEF Leading, TableTriplets
  <2>3. M[0] = {}  OBVIOUS
  <2> QED  BY <2>1, <2>2, <2>3 DEF TripletInv
<1>3. messages \in Seq(SUBSET (Triplets \X {-1, 1})) /\ triplet \in TableTriplets
  BY DEF BroadcastInit, TableTriplets
<1> QED  BY <1>1, <1>2, <1>3 DEF GbInv, BroadcastInit

\* A message puts its triplet in force for all rows.
LEMMA BroadcastTripletInv ==
  ASSUME GbInv, BroadcastTriplet
  PROVE  GbInv'
<1>1. PICK M : Leading(M, messages) /\ M[Len(messages)] = tableTriplet /\ (M[0] # {} => triplet = M[0])
  BY DEF GbInv, TripletInv
<1>2. messages # <<>> /\ messages' = Tail(messages) /\ takenRows' = rows /\ rows' = rows /\ tableTriplet' = tableTriplet
  BY DEF BroadcastTriplet
<1>3. PICK new \in GetNewTriplet(triplet, Head(messages)) :
        triplet' = {new} /\ shown' = TakeMessage(TakeBatches, new)
  BY DEF BroadcastTriplet
<1>4. messages \in Seq(SUBSET (Triplets \X {-1, 1})) /\ triplet \in TableTriplets  BY DEF GbInv
<1>5. /\ Len(messages) \in Nat /\ Len(messages) >= 1 /\ Head(messages) = messages[1]
      /\ Len(Tail(messages)) = Len(messages) - 1
      /\ \A i \in 1 .. Len(Tail(messages)) : Tail(messages)[i] = messages[i + 1]
      /\ Tail(messages) \in Seq(SUBSET (Triplets \X {-1, 1}))
  BY <1>2, <1>4
<1>6. M[0] \in TableTriplets /\ M[1] \in TableTriplets /\ M[1] # M[0] /\ Head(messages) = Message(M[0], M[1])
  BY <1>1, <1>5 DEF Leading
<1>7. /\ M[1] # {} => GetNewTriplet(triplet, Head(messages)) = M[1]
      /\ M[1] = {} => GetNewTriplet(triplet, Head(messages)) = M[0]
  BY <1>1, <1>4, <1>6, NewTripletOf
<1>8. new \in Triplets /\ (M[1] # {} => {new} = M[1])
  <2>1. PICK G \in {M[0], M[1]} : new \in G /\ (M[1] # {} => G = M[1])  BY <1>3, <1>7, Zenon
  <2>2. PICK t \in Triplets : G = {t}  BY <1>6, <2>1 DEF TableTriplets
  <2> QED  BY <2>1, <2>2
<1>9. shown' = Shows(takenRows, triplet)'
  <2>1. shown' = Shows(rows, {new})  BY <1>3, <1>8, MessageExact
  <2>2. Shows(takenRows, triplet)' = Shows(takenRows', triplet')  BY Zenon DEF Shows, Bound, GetThreshold, Upper, Lower
  <2> QED  BY <1>2, <1>3, <2>1, <2>2
<1>10. TripletInv'
  <2>1. PICK N : N = [i \in 0 .. Len(messages) - 1 |-> M[i + 1]]  BY Zenon
  <2>2. N \in [0 .. Len(Tail(messages)) -> TableTriplets]  BY <2>1, <1>1, <1>5 DEF Leading
  <2>3. \A i \in 1 .. Len(Tail(messages)) : N[i] # N[i - 1] /\ Tail(messages)[i] = Message(N[i - 1], N[i])
    <3> SUFFICES ASSUME NEW i \in 1 .. Len(Tail(messages))
                 PROVE  N[i] # N[i - 1] /\ Tail(messages)[i] = Message(N[i - 1], N[i])
      OBVIOUS
    <3>1. i + 1 \in 1 .. Len(messages) /\ i + 1 - 1 = i /\ i - 1 + 1 = i  BY <1>5
    <3>2. N[i] = M[i + 1] /\ N[i - 1] = M[i]  BY <2>1, <1>5, <3>1
    <3>3. M[i + 1] # M[i] /\ messages[i + 1] = Message(M[i], M[i + 1])  BY <1>1, <3>1 DEF Leading
    <3> QED  BY <1>5, <3>2, <3>3
  <2>4. Leading(N, Tail(messages))  BY <2>2, <2>3 DEF Leading
  <2>5. N[Len(Tail(messages))] = tableTriplet /\ N[0] = M[1]  BY <2>1, <1>1, <1>5
  <2>6. N[0] # {} => {new} = N[0]  BY <2>5, <1>8
  <2> QED  BY <1>2, <1>3, <2>4, <2>5, <2>6 DEF TripletInv
<1>11. triplet' \in TableTriplets  BY <1>3, <1>8 DEF TableTriplets
<1> QED  BY <1>2, <1>5, <1>9, <1>10, <1>11 DEF GbInv

\* Batches give their rows the bounds of the triplet in force.
LEMMA BroadcastRowsInv ==
  ASSUME GbInv, BroadcastRows
  PROVE  GbInv'
<1>1. shown' = TakeBatches /\ takenRows' = rows /\ UNCHANGED <<rows, tableTriplet, messages, triplet>>
  BY DEF BroadcastRows
<1>2. shown' = Shows(takenRows, triplet)'
  <2>1. shown' = Shows(rows, triplet)  BY <1>1, BatchesExact
  <2>2. Shows(takenRows, triplet)' = Shows(takenRows', triplet')  BY DEF Shows, Bound, GetThreshold, Upper, Lower
  <2> QED  BY <1>1, <2>1, <2>2
<1>3. TripletInv'  BY <1>1 DEF GbInv, TripletInv
<1> QED  BY <1>1, <1>2, <1>3 DEF GbInv

\* Rows that come and go are not shown until their batch is taken.
LEMMA ChangeRowsInv ==
  ASSUME GbInv, ChangeRows
  PROVE  GbInv'
<1>1. rows' \subseteq BroadcastKeys /\ UNCHANGED <<takenRows, tableTriplet, messages, triplet, shown>>
  BY DEF ChangeRows
<1>2. shown' = Shows(takenRows, triplet)'
  <2>1. Shows(takenRows, triplet)' = Shows(takenRows', triplet')  BY DEF Shows, Bound, GetThreshold, Upper, Lower
  <2> QED  BY <1>1, <2>1 DEF GbInv
<1>3. TripletInv'  BY <1>1 DEF GbInv, TripletInv
<1> QED  BY <1>1, <1>2, <1>3 DEF GbInv

\* A change of the triplet's row is a message that follows the others.
LEMMA ChangeTripletRowInv ==
  ASSUME GbInv, ChangeTripletRow
  PROVE  GbInv'
<1>1. UNCHANGED <<rows, takenRows, triplet, shown>>  BY DEF ChangeTripletRow
<1>2. PICK new \in TableTriplets \ {tableTriplet} :
        messages' = Append(messages, Message(tableTriplet, new)) /\ tableTriplet' = new
  BY DEF ChangeTripletRow
<1>3. PICK M : Leading(M, messages) /\ M[Len(messages)] = tableTriplet /\ (M[0] # {} => triplet = M[0])
  BY DEF GbInv, TripletInv
<1>4. PICK msg : msg = Message(tableTriplet, new)  OBVIOUS
<1>5. messages \in Seq(SUBSET (Triplets \X {-1, 1})) /\ Len(messages) \in Nat  BY DEF GbInv
<1>6. tableTriplet \in TableTriplets  BY <1>3, <1>5 DEF Leading
<1>7. msg \in SUBSET (Triplets \X {-1, 1})
  <2>1. tableTriplet \subseteq Triplets /\ new \subseteq Triplets  BY <1>2, <1>6 DEF TableTriplets
  <2>2. \A t \in Triplets : <<t, -1>> \in Triplets \X {-1, 1} /\ <<t, 1>> \in Triplets \X {-1, 1}  OBVIOUS
  <2> QED  BY <1>4, <2>1, <2>2 DEF Message
<1>8. PICK A : A = Append(messages, msg)  BY Zenon
<1>9. /\ A \in Seq(SUBSET (Triplets \X {-1, 1})) /\ Len(A) = Len(messages) + 1
      /\ A[Len(messages) + 1] = msg /\ \A i \in 1 .. Len(messages) : A[i] = messages[i]
  BY <1>5, <1>7, <1>8
<1>10. TripletInv'
  <2>1. PICK N : N = [i \in 0 .. Len(messages) + 1 |-> IF i = Len(messages) + 1 THEN new ELSE M[i]]  BY Zenon
  <2>2. N \in [0 .. Len(A) -> TableTriplets]  BY <2>1, <1>2, <1>3, <1>5, <1>9 DEF Leading
  <2>3. \A i \in 0 .. Len(messages) : N[i] = M[i]  BY <2>1, <1>5
  <2>4. N[Len(messages) + 1] = new  BY <2>1, <1>5
  <2>5. \A i \in 1 .. Len(A) : N[i] # N[i - 1] /\ A[i] = Message(N[i - 1], N[i])
    <3> SUFFICES ASSUME NEW i \in 1 .. Len(A)  PROVE N[i] # N[i - 1] /\ A[i] = Message(N[i - 1], N[i])
      OBVIOUS
    <3>1. CASE i = Len(messages) + 1
      <4>1. N[i - 1] = tableTriplet  BY <3>1, <2>3, <1>3, <1>5
      <4> QED  BY <3>1, <4>1, <2>4, <1>2, <1>4, <1>9
    <3>2. CASE i # Len(messages) + 1
      <4>1. i \in 1 .. Len(messages) /\ i \in 0 .. Len(messages) /\ i - 1 \in 0 .. Len(messages)  BY <3>2, <1>5, <1>9
      <4>2. N[i] = M[i] /\ N[i - 1] = M[i - 1] /\ A[i] = messages[i]  BY <4>1, <2>3, <1>9
      <4>3. M[i] # M[i - 1] /\ messages[i] = Message(M[i - 1], M[i])  BY <4>1, <1>3 DEF Leading
      <4> QED  BY <4>2, <4>3
    <3> QED  BY <3>1, <3>2
  <2>6. Leading(N, A)  BY <2>2, <2>5 DEF Leading
  <2>7. N[0] = M[0]  BY <2>3, <1>5
  <2>8. messages' = A /\ tableTriplet' = new /\ triplet' = triplet  BY <1>1, <1>2, <1>4, <1>8
  <2> QED  BY <2>4, <2>6, <2>7, <2>8, <1>3, <1>9 DEF TripletInv
<1>11. shown' = Shows(takenRows, triplet)'
  <2>1. Shows(takenRows, triplet)' = Shows(takenRows', triplet')  BY DEF Shows, Bound, GetThreshold, Upper, Lower
  <2> QED  BY <1>1, <2>1 DEF GbInv
<1>12. messages' \in Seq(SUBSET (Triplets \X {-1, 1}))  BY <1>2, <1>4, <1>8, <1>9
<1> QED  BY <1>1, <1>10, <1>11, <1>12 DEF GbInv

\* What has been taken is all there is once nothing waits.
LEMMA GbInvExact == GbInv => BroadcastExact
<1> SUFFICES ASSUME GbInv, rows = takenRows, messages = <<>>
             PROVE  /\ tableTriplet # {} => triplet = tableTriplet
                    /\ \A p \in BroadcastKeys \X ShownValues :
                        shown[p] = IF p[1] \in rows /\ \E t \in triplet : p[2] = Bound(t, p[1]) THEN 1 ELSE 0
  BY DEF BroadcastExact
<1>1. tableTriplet # {} => triplet = tableTriplet  BY DEF GbInv, TripletInv
<1>2. shown = Shows(rows, triplet)  BY DEF GbInv
<1> QED  BY <1>1, <1>2 DEF Shows

\* Correcting only the rows between two thresholds, in one bucket, over to an
\* adjacent one or all of them, leaves every row with exactly one bound, the
\* one of the triplet that was received last (gradual_broadcast_core), for
\* every key range, every set of triplets and every table.
THEOREM BroadcastExactAlways == BroadcastSpec => []BroadcastExact
<1>1. GbInv /\ [BroadcastNext]_gbVars => GbInv'
  <2> SUFFICES ASSUME GbInv, [BroadcastNext]_gbVars PROVE GbInv'  OBVIOUS
  <2>1. CASE BroadcastRows  BY <2>1, BroadcastRowsInv
  <2>2. CASE BroadcastTriplet  BY <2>2, BroadcastTripletInv
  <2>3. CASE ChangeRows  BY <2>3, ChangeRowsInv
  <2>4. CASE ChangeTripletRow  BY <2>4, ChangeTripletRowInv
  <2>5. CASE UNCHANGED gbVars
    <3>1. UNCHANGED <<rows, takenRows, tableTriplet, messages, triplet, shown>>  BY <2>5 DEF gbVars
    <3>2. Shows(takenRows, triplet)' = Shows(takenRows, triplet)  BY <3>1 DEF Shows, Bound, GetThreshold, Upper, Lower
    <3>3. TripletInv'  BY <3>1 DEF GbInv, TripletInv
    <3> QED  BY <3>1, <3>2, <3>3 DEF GbInv
  <2> QED  BY <2>1, <2>2, <2>3, <2>4, <2>5, Zenon DEF BroadcastNext
<1> QED  BY <1>1, GbInitInv, GbInvExact, PTL DEF BroadcastSpec

-----------------------------------------------------------------------------
(* Deduplicate.                                                            *)

\* A non-empty set of naturals has a least element.
LEMMA NatMin ==
    ASSUME NEW S \in SUBSET Nat, S # {}
    PROVE  \E m \in S : \A x \in S : m <= x
<1>1. PICK m \in S : \A x \in S : ~ (<<x, m>> \in OpToRel(<, Nat))
  BY NatLessThanWellFounded, WFMin, Zenon
<1>2. \A x \in S : ~ (x < m)
  BY <1>1, Zenon DEF OpToRel
<1> QED  BY <1>2

\* There is a function that satisfies the recursion of States.
LEMMA StatesExist ==
    ASSUME NEW h, NEW L \in Nat
    PROVE  \E f : f = [n \in 0 .. L |-> IF n = 0 THEN <<>> ELSE Combine(f[n - 1], h[n])]
<1> DEFINE S == {k \in Nat : ~ \E f : f = [n \in 0 .. k |-> IF n = 0 THEN <<>> ELSE Combine(f[n - 1], h[n])]}
<1>1. SUFFICES ASSUME S # {} PROVE FALSE  BY Zenon
<1>2. PICK k \in S : \A j \in S : k <= j  BY <1>1, NatMin, Zenon
<1>3. k # 0
  <2> SUFFICES ASSUME k = 0
               PROVE  \E f : f = [n \in 0 .. k |-> IF n = 0 THEN <<>> ELSE Combine(f[n - 1], h[n])]
    BY <1>2
  <2> DEFINE c == [n \in 0 .. 0 |-> <<>>]
  <2>1. c = [n \in 0 .. 0 |-> IF n = 0 THEN <<>> ELSE Combine(c[n - 1], h[n])]  OBVIOUS
  <2> QED  BY <2>1, Zenon
<1>4. PICK c : c = [n \in 0 .. k - 1 |-> IF n = 0 THEN <<>> ELSE Combine(c[n - 1], h[n])]
  <2>1. k - 1 \in Nat /\ ~ (k <= k - 1)  BY <1>3
  <2>2. k - 1 \notin S  BY <2>1, <1>2, Zenon
  <2> QED  BY <2>1, <2>2
<1> DEFINE d == [n \in 0 .. k |-> IF n = k THEN Combine(c[k - 1], h[k]) ELSE c[n]]
<1>5. ASSUME NEW n \in 0 .. k
      PROVE  d[n] = IF n = 0 THEN <<>> ELSE Combine(d[n - 1], h[n])
  <2>1. CASE n = k
    <3>1. k - 1 \in 0 .. k /\ k - 1 # k  BY <1>3
    <3>2. d[k - 1] = c[k - 1]  BY <3>1
    <3> QED  BY <2>1, <3>2, <1>3
  <2>2. CASE n # k
    <3>1. n \in 0 .. k - 1 /\ d[n] = c[n]  BY <2>2
    <3>2. c[n] = IF n = 0 THEN <<>> ELSE Combine(c[n - 1], h[n])  BY <3>1, <1>4
    <3>3. n # 0 => n - 1 \in 0 .. k /\ n - 1 # k /\ d[n - 1] = c[n - 1]  BY <3>1
    <3> QED  BY <3>1, <3>2, <3>3
  <2> QED  BY <2>1, <2>2
<1>6. d = [n \in 0 .. k |-> IF n = 0 THEN <<>> ELSE Combine(d[n - 1], h[n])]
  <2> HIDE DEF d
  <2>1. d = [n \in 0 .. k |-> d[n]]  BY DEF d
  <2> QED  BY <1>5, <2>1, Zenon
<1>7. k \notin S
  <2> HIDE DEF d
  <2> QED  BY <1>6
<1> QED  BY <1>2, <1>7

\* The state after a time is the one before, combined with its row.
LEMMA StatesDef ==
    ASSUME NEW h, Len(h) \in Nat
    PROVE  /\ States(h)[0] = <<>>
           /\ \A n \in 1 .. Len(h) : States(h)[n] = Combine(States(h)[n - 1], h[n])
<1>1. States(h) = [n \in 0 .. Len(h) |-> IF n = 0 THEN <<>> ELSE Combine(States(h)[n - 1], h[n])]
  BY StatesExist, Zenon DEF States
<1> QED  BY <1>1

\* What the combining function makes of rows: nothing, or a positive sum.
DedupStates == {<<>>} \cup {<<v>> : v \in Nat \ {0}}

\* A state that is there is never lost.
LEMMA CombineState ==
    ASSUME NEW s \in DedupStates, NEW v \in DedupValues
    PROVE  Combine(s, v) \in DedupStates /\ (s # <<>> => Combine(s, v) # <<>>)
<1>1. v \in Nat  BY DedupAssumption
<1>2. CASE v = 0  BY <1>2 DEF Combine
<1>3. CASE v # 0 /\ s = <<>>  BY <1>1, <1>3 DEF Combine, DedupStates
<1>4. CASE v # 0 /\ s # <<>>
  <2>1. PICK u \in Nat \ {0} : s = <<u>>  BY <1>4 DEF DedupStates
  <2>2. Combine(s, v) = <<u + v>> /\ u + v \in Nat \ {0}  BY <1>1, <1>4, <2>1 DEF Combine
  <2>3. <<u + v>> # <<>>  OBVIOUS
  <2> QED  BY <2>2, <2>3 DEF DedupStates
<1> QED  BY <1>2, <1>3, <1>4

\* What the combining function makes of all rows so far is a state.
LEMMA StatesType ==
    ASSUME NEW h \in Seq(DedupValues)
    PROVE  \A n \in 0 .. Len(h) : States(h)[n] \in DedupStates
<1> DEFINE S == {n \in 0 .. Len(h) : States(h)[n] \notin DedupStates}
<1>0. Len(h) \in Nat  OBVIOUS
<1>1. SUFFICES ASSUME S # {} PROVE FALSE  OBVIOUS
<1>2. PICK k \in S : \A j \in S : k <= j
  <2>1. S \in SUBSET Nat  BY <1>0
  <2> HIDE DEF S
  <2> QED  BY <2>1, <1>1, NatMin
<1>3. k # 0
  <2>1. States(h)[0] = <<>>  BY <1>0, StatesDef
  <2> QED  BY <1>2, <2>1 DEF DedupStates
<1>4. k \in 1 .. Len(h) /\ k - 1 \in 0 .. Len(h) /\ ~ (k <= k - 1)  BY <1>0, <1>2, <1>3
<1>5. States(h)[k - 1] \in DedupStates
  <2>1. k - 1 \notin S  BY <1>2, <1>4
  <2> QED  BY <1>4, <2>1
<1>6. States(h)[k] = Combine(States(h)[k - 1], h[k])  BY <1>0, <1>4, StatesDef
<1>7. h[k] \in DedupValues  BY <1>4
<1> QED  BY <1>2, <1>5, <1>6, <1>7, CombineState

\* Later rows do not change what earlier ones made.
LEMMA StatesAppend ==
    ASSUME NEW h \in Seq(DedupValues), NEW v \in DedupValues
    PROVE  \A n \in 0 .. Len(h) : States(Append(h, v))[n] = States(h)[n]
<1>a. PICK g : g = Append(h, v)  BY Zenon
<1>0. Len(h) \in Nat /\ Len(g) = Len(h) + 1 /\ \A i \in 1 .. Len(h) : g[i] = h[i]  BY <1>a
<1> DEFINE S == {n \in 0 .. Len(h) : States(g)[n] # States(h)[n]}
<1>1. SUFFICES ASSUME S # {} PROVE FALSE  BY <1>a
<1>2. PICK k \in S : \A j \in S : k <= j
  <2>1. S \in SUBSET Nat  BY <1>0
  <2> HIDE DEF S
  <2> QED  BY <2>1, <1>1, NatMin
<1>3. k # 0
  <2>1. States(h)[0] = <<>> /\ States(g)[0] = <<>>  BY <1>0, StatesDef
  <2> QED  BY <1>2, <2>1
<1>4. k \in 1 .. Len(h) /\ k \in 1 .. Len(g) /\ k - 1 \in 0 .. Len(h) /\ ~ (k <= k - 1)  BY <1>0, <1>2, <1>3
<1>5. States(g)[k - 1] = States(h)[k - 1]
  <2>1. k - 1 \notin S  BY <1>2, <1>4
  <2> QED  BY <1>4, <2>1
<1>6. States(h)[k] = Combine(States(h)[k - 1], h[k])  BY <1>0, <1>4, StatesDef
<1>7. States(g)[k] = Combine(States(g)[k - 1], g[k])
  <2>1. Len(g) \in Nat  BY <1>0
  <2> QED  BY <2>1, <1>4, StatesDef
<1> QED  BY <1>0, <1>2, <1>4, <1>5, <1>6, <1>7

\* The events of the operator's snapshot.
DedupEvents == {"Insert", "Delete", "AdvanceTime"} \X Nat

\* The net of the events of a log is the state s.
NetsTo(log, s) == \A v \in Nat : NetWeight(log, v) = IF s = <<v>> THEN 1 ELSE 0

\* There are finitely many places of an event in a log.
LEMMA PlacesFinite ==
    ASSUME NEW log \in Seq(DedupEvents), NEW x
    PROVE  IsFiniteSet(Places(log, x)) /\ Cardinality(Places(log, x)) \in Nat
<1>1. Len(log) \in Nat /\ DOMAIN log = 1 .. Len(log)  OBVIOUS
<1>2. IsFiniteSet(1 .. Len(log))  BY <1>1, FS_Interval
<1>3. Places(log, x) \subseteq 1 .. Len(log)  BY <1>1 DEF Places
<1>4. IsFiniteSet(Places(log, x))  BY <1>2, <1>3, FS_Subset
<1> QED  BY <1>4, FS_CardinalityType

\* An event is counted where it is the one that is sought.
LEMMA CountAppend ==
    ASSUME NEW log \in Seq(DedupEvents), NEW e \in DedupEvents, NEW x
    PROVE  Cardinality(Places(Append(log, e), x)) = Cardinality(Places(log, x)) + IF e = x THEN 1 ELSE 0
<1>1. PICK g : g = Append(log, e)  BY Zenon
<1>2. /\ Len(log) \in Nat /\ DOMAIN log = 1 .. Len(log) /\ DOMAIN g = 1 .. Len(log) + 1
      /\ g[Len(log) + 1] = e /\ \A i \in 1 .. Len(log) : g[i] = log[i]
  BY <1>1
<1>3. IsFiniteSet(Places(log, x)) /\ Cardinality(Places(log, x)) \in Nat  BY PlacesFinite
<1>4. CASE e = x
  <2>1. Places(g, x) = Places(log, x) \cup {Len(log) + 1}  BY <1>2, <1>4 DEF Places
  <2>2. Len(log) + 1 \notin Places(log, x)  BY <1>2 DEF Places
  <2>3. Cardinality(Places(log, x) \cup {Len(log) + 1}) = Cardinality(Places(log, x)) + 1
    BY <1>3, <2>2, FS_AddElement, Zenon
  <2> QED  BY <1>1, <1>4, <2>1, <2>3, Zenon
<1>5. CASE e # x
  <2>1. Places(g, x) = Places(log, x)  BY <1>2, <1>5 DEF Places
  <2> QED  BY <1>1, <1>3, <1>5, <2>1
<1> QED  BY <1>4, <1>5

\* The net weight of a value is a number.
LEMMA NetInt ==
    ASSUME NEW log \in Seq(DedupEvents), NEW v
    PROVE  NetWeight(log, v) \in Int
<1>1. \A x : Cardinality(Places(log, x)) \in Nat  BY PlacesFinite
<1>2. Cardinality(Places(log, <<"Insert", v>>)) \in Nat /\ Cardinality(Places(log, <<"Delete", v>>)) \in Nat
  BY <1>1, Zenon
<1> QED  BY <1>2 DEF NetWeight

\* An event changes the net by itself.
LEMMA NetAppend ==
    ASSUME NEW log \in Seq(DedupEvents), NEW e \in DedupEvents, NEW v
    PROVE  NetWeight(Append(log, e), v) =
             NetWeight(log, v) + (IF e = <<"Insert", v>> THEN 1 ELSE 0) - (IF e = <<"Delete", v>> THEN 1 ELSE 0)
<1>1. PICK a, b, g : a = <<"Insert", v>> /\ b = <<"Delete", v>> /\ g = Append(log, e)  BY Zenon
<1>2. Cardinality(Places(g, a)) = Cardinality(Places(log, a)) + IF e = a THEN 1 ELSE 0  BY <1>1, CountAppend
<1>3. Cardinality(Places(g, b)) = Cardinality(Places(log, b)) + IF e = b THEN 1 ELSE 0  BY <1>1, CountAppend
<1>4. Cardinality(Places(log, a)) \in Nat /\ Cardinality(Places(log, b)) \in Nat  BY PlacesFinite
<1>5. NetWeight(log, v) = Cardinality(Places(log, a)) - Cardinality(Places(log, b))  BY <1>1, Zenon DEF NetWeight
<1>6. NetWeight(g, v) = Cardinality(Places(g, a)) - Cardinality(Places(g, b))  BY <1>1, Zenon DEF NetWeight
<1>7. NetWeight(g, v) = NetWeight(log, v) + (IF e = a THEN 1 ELSE 0) - (IF e = b THEN 1 ELSE 0)
  BY <1>2, <1>3, <1>4, <1>5, <1>6
<1> QED  BY <1>1, <1>7

\* No events, no state.
LEMMA NetEmpty == NetsTo(<<>>, <<>>)
<1>1. \A x : Places(<<>>, x) = {}  BY DEF Places
<1>2. Cardinality({}) = 0  BY FS_EmptySet
<1>3. \A x : Cardinality(Places(<<>>, x)) = 0  BY <1>1, <1>2, Zenon
<1>5. ASSUME NEW v PROVE NetWeight(<<>>, v) = 0
  <2>1. PICK a, b : a = <<"Insert", v>> /\ b = <<"Delete", v>>  BY Zenon
  <2>2. NetWeight(<<>>, v) = Cardinality(Places(<<>>, a)) - Cardinality(Places(<<>>, b))
    BY <2>1, Zenon DEF NetWeight
  <2> QED  BY <1>3, <2>2
<1>4. \A v : <<>> # <<v>>  OBVIOUS
<1> QED  BY <1>4, <1>5 DEF NetsTo

\* A time mark changes nothing of the net.
LEMMA NetAdvance ==
    ASSUME NEW log \in Seq(DedupEvents), NEW t \in Nat, NEW s, NetsTo(log, s)
    PROVE  NetsTo(Append(log, <<"AdvanceTime", t>>), s)
<1>1. PICK e : e = <<"AdvanceTime", t>>  BY Zenon
<1>2. e \in DedupEvents /\ \A v : e # <<"Insert", v>> /\ e # <<"Delete", v>>  BY <1>1 DEF DedupEvents
<1>3. \A v : NetWeight(log, v) \in Int  BY NetInt
<1>4. ASSUME NEW v PROVE NetWeight(Append(log, e), v) = NetWeight(log, v)
  <2>1. NetWeight(Append(log, e), v) =
          NetWeight(log, v) + (IF e = <<"Insert", v>> THEN 1 ELSE 0) - (IF e = <<"Delete", v>> THEN 1 ELSE 0)
    BY <1>2, NetAppend
  <2>2. NetWeight(Append(log, e), v) = NetWeight(log, v) + 0 - 0  BY <1>2, <2>1, Zenon
  <2> QED  BY <1>3, <2>2
<1> QED  BY <1>1, <1>4 DEF NetsTo

\* An insertion adds one to the weight of its value and a deletion takes one.
LEMMA NetRow ==
    ASSUME NEW log \in Seq(DedupEvents), NEW v \in Nat, NEW w \in Nat
    PROVE  /\ NetWeight(Append(log, <<"Insert", v>>), w) = NetWeight(log, w) + IF v = w THEN 1 ELSE 0
           /\ NetWeight(Append(log, <<"Delete", v>>), w) = NetWeight(log, w) - IF v = w THEN 1 ELSE 0
<1>1. PICK a, b : a = <<"Insert", v>> /\ b = <<"Delete", v>>  BY Zenon
<1>2. /\ a \in DedupEvents /\ a # <<"Delete", w>> /\ (a = <<"Insert", w>> <=> v = w)
      /\ b \in DedupEvents /\ b # <<"Insert", w>> /\ (b = <<"Delete", w>> <=> v = w)
  BY <1>1 DEF DedupEvents
<1>3. NetWeight(log, w) \in Int  BY NetInt
<1>4. NetWeight(Append(log, a), w) =
        NetWeight(log, w) + (IF a = <<"Insert", w>> THEN 1 ELSE 0) - (IF a = <<"Delete", w>> THEN 1 ELSE 0)
  BY <1>2, NetAppend
<1>5. NetWeight(Append(log, b), w) =
        NetWeight(log, w) + (IF b = <<"Insert", w>> THEN 1 ELSE 0) - (IF b = <<"Delete", w>> THEN 1 ELSE 0)
  BY <1>2, NetAppend
<1>6. NetWeight(Append(log, a), w) = NetWeight(log, w) + IF v = w THEN 1 ELSE 0  BY <1>2, <1>3, <1>4
<1>7. NetWeight(Append(log, b), w) = NetWeight(log, w) - IF v = w THEN 1 ELSE 0  BY <1>2, <1>3, <1>5
<1> QED  BY <1>1, <1>6, <1>7

\* What a change of the state adds to the snapshot brings its net along.
LEMMA NetChanges ==
    ASSUME NEW log \in Seq(DedupEvents), NEW s \in DedupStates, NEW n \in DedupStates,
           s # <<>> => n # <<>>, NetsTo(log, s)
    PROVE  \E c \in Seq({"Insert", "Delete"} \X Nat) :
              c = Changes(s, n) /\ log \o c \in Seq(DedupEvents) /\ NetsTo(log \o c, n)
<1>1. CASE s = n
  <2>1. Changes(s, n) = <<>>  BY <1>1 DEF Changes
  <2>2. log \o <<>> = log /\ <<>> \in Seq({"Insert", "Delete"} \X Nat)  OBVIOUS
  <2> QED  BY <1>1, <2>1, <2>2, Zenon
<1>2. CASE s # n
  <2>1. PICK v \in Nat \ {0} : n = <<v>>  BY <1>2 DEF DedupStates
  <2>2. PICK i : i = <<"Insert", v>>  BY Zenon
  <2>3. i \in {"Insert", "Delete"} \X Nat /\ i \in DedupEvents /\ <<i>> \in Seq({"Insert", "Delete"} \X Nat)
    BY <2>1, <2>2 DEF DedupEvents
  <2>4. CASE s = <<>>
    <3>1. Changes(s, n) = <<i>>  BY <1>2, <2>1, <2>2, <2>4 DEF Changes
    <3>2. log \o <<i>> = Append(log, i) /\ Append(log, i) \in Seq(DedupEvents)  BY <2>3
    <3>3. \A w \in Nat : NetWeight(log, w) = 0  BY <2>4 DEF NetsTo
    <3>4. ASSUME NEW w \in Nat PROVE NetWeight(Append(log, i), w) = IF n = <<w>> THEN 1 ELSE 0
      <4>1. NetWeight(Append(log, <<"Insert", v>>), w) = NetWeight(log, w) + IF v = w THEN 1 ELSE 0
        BY <2>1, NetRow, Zenon
      <4>2. n = <<w>> <=> v = w  BY <2>1
      <4> QED  BY <2>2, <3>3, <4>1, <4>2
    <3> QED  BY <2>3, <3>1, <3>2, <3>4, Zenon DEF NetsTo
  <2>5. CASE s # <<>>
    <3>1. PICK u \in Nat \ {0} : s = <<u>>  BY <2>5 DEF DedupStates
    <3>2. u # v  BY <1>2, <2>1, <3>1
    <3>3. PICK d : d = <<"Delete", u>>  BY Zenon
    <3>4. d \in {"Insert", "Delete"} \X Nat /\ d \in DedupEvents /\ <<d>> \in Seq({"Insert", "Delete"} \X Nat)
      BY <2>3, <3>1, <3>3 DEF DedupEvents
    <3>5. Changes(s, n) = <<d>> \o <<i>>
      <4>1. [j \in DOMAIN s |-> <<"Delete", s[j]>>] = <<d>>  BY <3>1, <3>3
      <4>2. [j \in DOMAIN n |-> <<"Insert", n[j]>>] = <<i>>  BY <2>1, <2>2
      <4> QED  BY <1>2, <4>1, <4>2, Zenon DEF Changes
    <3>6. Append(log, d) \in Seq(DedupEvents) /\ Append(Append(log, d), i) \in Seq(DedupEvents)
      BY <2>3, <3>4
    <3>10. <<d>> \o <<i>> \in Seq({"Insert", "Delete"} \X Nat)  BY <2>3, <3>4
    <3>11. log \o (<<d>> \o <<i>>) = Append(Append(log, d), i)
      <4>1. <<d>> \in Seq(DedupEvents) /\ <<i>> \in Seq(DedupEvents)  BY <2>3, <3>4
      <4>2. log \o (<<d>> \o <<i>>) = (log \o <<d>>) \o <<i>>  BY <4>1
      <4>3. log \o <<d>> = Append(log, d)  BY <3>4
      <4>4. PICK g : g = Append(log, d)  BY Zenon
      <4>5. g \o <<i>> = Append(g, i)  BY <2>3, <3>6, <4>4
      <4> QED  BY <4>2, <4>3, <4>4, <4>5
    <3>7. \A w \in Nat : NetWeight(log, w) = IF u = w THEN 1 ELSE 0  BY <3>1 DEF NetsTo
    <3>8. ASSUME NEW w \in Nat PROVE NetWeight(Append(log, d), w) = 0
      <4>1. NetWeight(Append(log, <<"Delete", u>>), w) = NetWeight(log, w) - IF u = w THEN 1 ELSE 0
        BY <3>1, NetRow, Zenon
      <4> QED  BY <3>3, <3>7, <4>1
    <3>9. ASSUME NEW w \in Nat PROVE NetWeight(Append(Append(log, d), i), w) = IF v = w THEN 1 ELSE 0
      <4>1. PICK g : g = Append(log, d)  BY Zenon
      <4>2. NetWeight(Append(g, <<"Insert", v>>), w) = NetWeight(g, w) + IF v = w THEN 1 ELSE 0
        BY <2>1, <3>6, <4>1, NetRow, Zenon
      <4> QED  BY <2>2, <3>8, <4>1, <4>2
    <3>12. NetsTo(log \o (<<d>> \o <<i>>), n)
      <4>1. \A w \in Nat : n = <<w>> <=> v = w  BY <2>1
      <4> QED  BY <3>9, <3>11, <4>1, Zenon DEF NetsTo
    <3> QED  BY <3>5, <3>6, <3>10, <3>11, <3>12, Zenon
  <2> QED  BY <2>4, <2>5
<1> QED  BY <1>1, <1>2

\* The first i events of a log.
Prefix(log, i) == [j \in 1 .. i |-> log[j]]

IsMark(e) == e[1] = "AdvanceTime"

\* The net of a log that ends with the mark of time t is the state after some
\* times in turn, t the last of them.
Kept(log, t, times, past, h) ==
    /\ times \in Seq(1 .. Len(h)) /\ InTurn(past, times) /\ LastOf(times) = t
    /\ NetsTo(log, StateAfter(h, times))

\* No more than a batch lies between a mark and one before it.
Near(log, i) ==
    \/ log[i][2] <= TimesPerBatch
    \/ \E j \in 1 .. i - 1 : IsMark(log[j]) /\ log[i][2] <= log[j][2] + TimesPerBatch

Marked(log, at, past, h) ==
    \A i \in 1 .. Len(log) : IsMark(log[i]) => Kept(Prefix(log, i), log[i][2], at[i], past, h) /\ Near(log, i)

Reaches(log, t) == t = 0 \/ \E i \in 1 .. Len(log) : IsMark(log[i]) /\ log[i][2] >= t

DedupInv ==
    /\ history \in Seq(DedupValues) /\ snapshot \in Seq(DedupEvents) /\ counted \in Seq(1 .. Len(history))
    /\ DOMAIN countedAt = 1 .. Len(snapshot)
    /\ handled \in Nat /\ recorded \in Nat /\ committed \in Nat
    /\ committed <= recorded /\ recorded <= handled /\ handled <= recorded + TimesPerBatch
    /\ handled <= Len(history)
    /\ StateMatchesInput
    /\ recorded < handled => LastOf(counted) = handled
    /\ NetsTo(snapshot, state)
    /\ Reaches(snapshot, recorded)
    /\ Marked(snapshot, countedAt, resumed, history)

\* Sequences with the same elements are the same.
LEMMA SameSeq ==
    ASSUME NEW S, NEW s \in Seq(S), NEW t \in Seq(S), Len(s) = Len(t), \A i \in 1 .. Len(s) : s[i] = t[i]
    PROVE  s = t
  OBVIOUS

\* A sequence over a set is one over a larger set.
LEMMA SeqWider ==
    ASSUME NEW S, NEW T, S \subseteq T, NEW s \in Seq(S)
    PROVE  s \in Seq(T)
  OBVIOUS

\* The rows of some times are rows.
LEMMA CountedRowsType ==
    ASSUME NEW h \in Seq(DedupValues), NEW times \in Seq(1 .. Len(h))
    PROVE  CountedRows(h, times) \in Seq(DedupValues) /\ Len(CountedRows(h, times)) = Len(times)
<1>1. Len(times) \in Nat /\ DOMAIN times = 1 .. Len(times)  OBVIOUS
<1>2. \A i \in 1 .. Len(times) : h[times[i]] \in DedupValues  OBVIOUS
<1>3. CountedRows(h, times) = [i \in 1 .. Len(times) |-> h[times[i]]]  BY <1>1, Zenon DEF CountedRows
<1>4. [i \in 1 .. Len(times) |-> h[times[i]]] \in Seq(DedupValues)  BY <1>1, <1>2
<1>5. Len([i \in 1 .. Len(times) |-> h[times[i]]]) = Len(times)  BY <1>1
<1> QED  BY <1>3, <1>4, <1>5, Zenon

\* What the combining function makes of them is a state.
LEMMA StateAfterType ==
    ASSUME NEW h \in Seq(DedupValues), NEW times \in Seq(1 .. Len(h))
    PROVE  StateAfter(h, times) \in DedupStates
<1>1. PICK r : r = CountedRows(h, times)  BY Zenon
<1>2. r \in Seq(DedupValues) /\ Len(r) = Len(times)  BY <1>1, CountedRowsType, Zenon
<1>3. Len(r) \in 0 .. Len(r)  BY <1>2
<1>4. States(r)[Len(r)] \in DedupStates  BY <1>2, <1>3, StatesType, Zenon
<1> QED  BY <1>1, <1>2, <1>4, Zenon DEF StateAfter

\* No times, no state.
LEMMA StateAfterNone ==
    ASSUME NEW h
    PROVE  StateAfter(h, <<>>) = <<>>
<1>1. CountedRows(h, <<>>) = <<>>  BY DEF CountedRows
<1>2. Len(<<>>) = 0  OBVIOUS
<1>3. States(<<>>)[0] = <<>>  BY <1>2, StatesDef
<1> QED  BY <1>1, <1>2, <1>3, Zenon DEF StateAfter

\* One more time combines the state with its row.
LEMMA StateAfterNext ==
    ASSUME NEW h \in Seq(DedupValues), NEW times \in Seq(1 .. Len(h)), NEW t \in 1 .. Len(h)
    PROVE  /\ Append(times, t) \in Seq(1 .. Len(h))
           /\ StateAfter(h, Append(times, t)) = Combine(StateAfter(h, times), h[t])
<1>1. PICK g, r, v, q : g = Append(times, t) /\ r = CountedRows(h, times) /\ v = h[t] /\ q = CountedRows(h, g)  BY Zenon
<1>2. /\ g \in Seq(1 .. Len(h)) /\ Len(times) \in Nat /\ Len(g) = Len(times) + 1 /\ g[Len(times) + 1] = t
      /\ \A i \in 1 .. Len(times) : g[i] = times[i]
  BY <1>1
<1>3. r \in Seq(DedupValues) /\ Len(r) = Len(times) /\ v \in DedupValues  BY <1>1, CountedRowsType
<1>4. \A i \in 1 .. Len(times) : r[i] = h[times[i]]  BY <1>1 DEF CountedRows
<1>5. q = [i \in 1 .. Len(times) + 1 |-> h[g[i]]]
  <2>1. DOMAIN g = 1 .. Len(times) + 1  BY <1>2
  <2> QED  BY <1>1, <2>1, Zenon DEF CountedRows
<1>6. q = Append(r, v)
  <2>1. PICK a : a = Append(r, v)  BY Zenon
  <2>2. /\ a \in Seq(DedupValues) /\ Len(a) = Len(times) + 1 /\ a[Len(times) + 1] = v
        /\ \A i \in 1 .. Len(times) : a[i] = r[i]
    BY <1>2, <1>3, <2>1
  <2>3. q \in Seq(DedupValues) /\ Len(q) = Len(times) + 1  BY <1>1, <1>2, CountedRowsType, Zenon
  <2>4. ASSUME NEW i \in 1 .. Len(times) + 1 PROVE q[i] = a[i]
    <3>1. q[i] = h[g[i]]  BY <1>5, Zenon
    <3>2. CASE i = Len(times) + 1  BY <1>1, <1>2, <2>2, <3>1, <3>2, Zenon
    <3>3. CASE i # Len(times) + 1
      <4>1. i \in 1 .. Len(times)  BY <1>2, <3>3
      <4> QED  BY <1>2, <1>4, <2>2, <3>1, <4>1, Zenon
    <3> QED  BY <3>2, <3>3, Zenon
  <2> QED  BY <2>1, <2>2, <2>3, <2>4, SameSeq, Zenon
<1>7. q \in Seq(DedupValues) /\ Len(q) = Len(times) + 1 /\ q[Len(times) + 1] = v  BY <1>3, <1>6
<1>8. States(q)[Len(times)] = States(r)[Len(times)]
  <2>1. Len(times) \in 0 .. Len(r)  BY <1>2, <1>3
  <2> QED  BY <1>3, <1>6, <2>1, StatesAppend, Zenon
<1>9. States(q)[Len(times) + 1] = Combine(States(q)[Len(times)], v)
  <2>1. PICK m, l : m = Len(times) + 1 /\ l = Len(times)  BY Zenon
  <2>2. Len(q) \in Nat /\ m \in 1 .. Len(q) /\ m - 1 = l  BY <1>2, <1>7, <2>1
  <2>3. \A n \in 1 .. Len(q) : States(q)[n] = Combine(States(q)[n - 1], q[n])  BY <2>2, StatesDef, Zenon
  <2>4. States(q)[m] = Combine(States(q)[l], q[m])  BY <2>2, <2>3, Zenon
  <2> QED  BY <1>7, <2>1, <2>4, Zenon
<1>10. StateAfter(h, g) = States(q)[Len(times) + 1]  BY <1>1, <1>2, Zenon DEF StateAfter
<1>11. StateAfter(h, times) = States(r)[Len(times)]  BY <1>1, Zenon DEF StateAfter
<1> QED  BY <1>1, <1>2, <1>8, <1>9, <1>10, <1>11, Zenon

\* A row that comes later is no row of the times so far.
LEMMA StateAfterInput ==
    ASSUME NEW h \in Seq(DedupValues), NEW v \in DedupValues, NEW times \in Seq(1 .. Len(h))
    PROVE  times \in Seq(1 .. Len(Append(h, v))) /\ StateAfter(Append(h, v), times) = StateAfter(h, times)
<1>1. PICK g : g = Append(h, v)  BY Zenon
<1>2. Len(h) \in Nat /\ Len(g) = Len(h) + 1 /\ \A i \in 1 .. Len(h) : g[i] = h[i]  BY <1>1
<1>3. DOMAIN times = 1 .. Len(times) /\ \A i \in 1 .. Len(times) : times[i] \in 1 .. Len(h)  OBVIOUS
<1>4. times \in Seq(1 .. Len(g))
  <2>1. 1 .. Len(h) \subseteq 1 .. Len(g)  BY <1>2
  <2> QED  BY <2>1, SeqWider, Zenon
<1>5. CountedRows(g, times) = CountedRows(h, times)
  <2>1. \A i \in DOMAIN times : g[times[i]] = h[times[i]]  BY <1>2, <1>3, Zenon
  <2> QED  BY <2>1, Zenon DEF CountedRows
<1> QED  BY <1>1, <1>4, <1>5, Zenon DEF StateAfter

\* Times that are in turn stay so when a restart comes back to one more.
LEMMA InTurnMore ==
    ASSUME NEW past, NEW more, past \subseteq more, NEW times, InTurn(past, times)
    PROVE  InTurn(more, times)
  BY Zenon DEF InTurn, Continues

\* The time after the one that the state has reached is in turn.
LEMMA InTurnNext ==
    ASSUME NEW past, NEW L \in Nat, NEW times \in Seq(1 .. L), NEW u \in Nat, InTurn(past, times),
           Continues(past, LastOf(times), u)
    PROVE  InTurn(past, Append(times, u + 1)) /\ LastOf(Append(times, u + 1)) = u + 1
<1>1. PICK g, w : g = Append(times, w) /\ w = u + 1  BY Zenon
<1>2. /\ Len(times) \in Nat /\ Len(g) = Len(times) + 1 /\ DOMAIN g = 1 .. Len(times) + 1 /\ g[Len(times) + 1] = w
      /\ \A i \in 1 .. Len(times) : g[i] = times[i]
      /\ DOMAIN times = 1 .. Len(times)
  BY <1>1
<1>3. ASSUME NEW i \in 1 .. Len(times) + 1
      PROVE  Continues(past, IF i = 1 THEN 0 ELSE g[i - 1], g[i] - 1)
  <2>1. CASE i = Len(times) + 1
    <3>1. g[i] - 1 = u  BY <1>1, <1>2, <2>1
    <3>2. (IF i = 1 THEN 0 ELSE g[i - 1]) = LastOf(times)
      <4>1. CASE times = <<>>
        <5>1. i = 1  BY <2>1, <4>1
        <5> QED  BY <4>1, <5>1, Zenon DEF LastOf
      <4>2. CASE times # <<>>
        <5>1. Len(times) # 0  BY <4>2
        <5>2. i # 1 /\ i - 1 = Len(times) /\ Len(times) \in 1 .. Len(times)  BY <1>2, <2>1, <5>1
        <5>3. g[i - 1] = times[Len(times)]  BY <1>2, <5>2, Zenon
        <5> QED  BY <4>2, <5>2, <5>3, Zenon DEF LastOf
      <4> QED  BY <4>1, <4>2, Zenon
    <3> QED  BY <3>1, <3>2, Zenon
  <2>2. CASE i # Len(times) + 1
    <3>1. i \in 1 .. Len(times) /\ (i # 1 => i - 1 \in 1 .. Len(times))  BY <1>2, <2>2
    <3>2. Continues(past, IF i = 1 THEN 0 ELSE times[i - 1], times[i] - 1)  BY <1>2, <3>1, Zenon DEF InTurn
    <3>3. CASE i = 1
      <4>1. g[i] = times[i]  BY <1>2, <3>1, Zenon
      <4> QED  BY <3>2, <3>3, <4>1, Zenon
    <3>4. CASE i # 1
      <4>1. g[i] = times[i] /\ g[i - 1] = times[i - 1]  BY <1>2, <3>1, <3>4, Zenon
      <4> QED  BY <3>2, <3>4, <4>1, Zenon
    <3> QED  BY <3>3, <3>4, Zenon
  <2> QED  BY <2>1, <2>2, Zenon
<1>4. InTurn(past, g)  BY <1>2, <1>3, Zenon DEF InTurn
<1>5. LastOf(g) = w
  <2>1. g # <<>>  BY <1>2
  <2> QED  BY <1>2, <2>1, Zenon DEF LastOf
<1> QED  BY <1>1, <1>4, <1>5, Zenon

\* What SubSeq cuts off a log is a prefix of it.
LEMMA PrefixIs ==
    ASSUME NEW log \in Seq(DedupEvents), NEW k \in 1 .. Len(log)
    PROVE  /\ SubSeq(log, 1, k) = Prefix(log, k)
           /\ Prefix(log, k) \in Seq(DedupEvents) /\ Len(Prefix(log, k)) = k
           /\ \A i \in 1 .. k : Prefix(log, k)[i] = log[i] /\ Prefix(Prefix(log, k), i) = Prefix(log, i)
<1>1. k \in Nat /\ Len(log) \in Nat /\ \A i \in 1 .. k : log[i] \in DedupEvents  OBVIOUS
<1>2. SubSeq(log, 1, k) = [j \in 1 .. k |-> log[j]]  BY <1>1
<1>3. Prefix(log, k) \in Seq(DedupEvents)  BY <1>1 DEF Prefix
<1>4. Len(Prefix(log, k)) = k  BY <1>1 DEF Prefix
<1>5. \A i \in 1 .. k : Prefix(log, k)[i] = log[i]  BY DEF Prefix
<1>6. \A i \in 1 .. k : Prefix(Prefix(log, k), i) = Prefix(log, i)  BY <1>1, <1>5 DEF Prefix
<1> QED  BY <1>2, <1>3, <1>4, <1>5, <1>6 DEF Prefix

\* A longer log has the same prefixes.
LEMMA PrefixOfLonger ==
    ASSUME NEW log, NEW g, NEW i, \A j \in 1 .. i : g[j] = log[j]
    PROVE  Prefix(g, i) = Prefix(log, i)
  BY Zenon DEF Prefix

\* A log that agrees with another one, and has no mark beyond it, has its marks.
LEMMA MarkedSame ==
    ASSUME NEW log \in Seq(DedupEvents), NEW g \in Seq(DedupEvents), NEW at, NEW to, NEW past, NEW h,
           Marked(log, at, past, h),
           \A i \in 1 .. Len(g) : i <= Len(log) => g[i] = log[i],
           \A i \in 1 .. Len(g) : IsMark(g[i]) => i <= Len(log) /\ to[i] = at[i]
    PROVE  Marked(g, to, past, h)
<1>0. Len(log) \in Nat /\ Len(g) \in Nat  OBVIOUS
<1> SUFFICES ASSUME NEW i \in 1 .. Len(g), IsMark(g[i])
             PROVE  Kept(Prefix(g, i), g[i][2], to[i], past, h) /\ Near(g, i)
  BY Zenon DEF Marked
<1>1. i <= Len(log) /\ to[i] = at[i]  BY Zenon
<1>2. i \in 1 .. Len(log) /\ 1 .. i \subseteq 1 .. Len(g) /\ \A j \in 1 .. i : j <= Len(log)  BY <1>0, <1>1
<1>3. \A j \in 1 .. i : g[j] = log[j]  BY <1>2, Zenon
<1>4. g[i] = log[i] /\ 1 .. i - 1 \subseteq 1 .. i  BY <1>2, <1>3
<1>5. Prefix(g, i) = Prefix(log, i)  BY <1>3, PrefixOfLonger, Zenon
<1>6. Kept(Prefix(log, i), log[i][2], at[i], past, h) /\ Near(log, i)  BY <1>2, <1>4, Zenon DEF Marked
<1>7. Near(g, i)  BY <1>3, <1>4, <1>6, Zenon DEF Near
<1> QED  BY <1>1, <1>4, <1>5, <1>6, <1>7, Zenon

\* What a log reaches it reaches with more events.
LEMMA ReachesLonger ==
    ASSUME NEW log \in Seq(DedupEvents), NEW g \in Seq(DedupEvents), NEW t, Reaches(log, t), Len(log) <= Len(g),
           \A i \in 1 .. Len(log) : g[i] = log[i]
    PROVE  Reaches(g, t)
<1>1. Len(log) \in Nat /\ Len(g) \in Nat  OBVIOUS
<1>2. 1 .. Len(log) \subseteq 1 .. Len(g)  BY <1>1
<1> QED  BY <1>2, Zenon DEF Reaches

\* Where the net is the state after the times counted, a mark can be set.
LEMMA MarkedNext ==
    ASSUME NEW log \in Seq(DedupEvents), NEW g, NEW at, NEW to, NEW past, NEW h, Marked(log, at, past, h),
           NEW r \in Nat, Reaches(log, r), NEW t \in Nat, t <= r + TimesPerBatch, NEW times,
           g = Append(log, <<"AdvanceTime", t>>), Kept(g, t, times, past, h),
           \A i \in 1 .. Len(log) : to[i] = at[i], to[Len(log) + 1] = times
    PROVE  Marked(g, to, past, h) /\ Reaches(g, t)
<1>1. PICK e : e = <<"AdvanceTime", t>>  BY Zenon
<1>2. e \in DedupEvents /\ IsMark(e) /\ e[2] = t  BY <1>1 DEF DedupEvents, IsMark
<1>3. g = Append(log, e)  BY <1>1, Zenon
<1>4. /\ Len(log) \in Nat /\ g \in Seq(DedupEvents) /\ Len(g) = Len(log) + 1 /\ g[Len(log) + 1] = e
      /\ \A i \in 1 .. Len(log) : g[i] = log[i]
  BY <1>2, <1>3
<1>5. Prefix(g, Len(log) + 1) = g
  <2>1. Len(log) + 1 \in 1 .. Len(g) /\ Len(log) + 1 = Len(g)  BY <1>4
  <2>2. Prefix(g, Len(g)) = SubSeq(g, 1, Len(g))  BY <1>4, <2>1, PrefixIs, Zenon
  <2>3. SubSeq(g, 1, Len(g)) = g  BY <1>4
  <2> QED  BY <2>1, <2>2, <2>3, Zenon
<1>6. Near(g, Len(log) + 1)
  <2>1. CASE r = 0
    <3>1. t <= TimesPerBatch  BY <2>1, DedupAssumption
    <3> QED  BY <1>2, <1>4, <3>1, Zenon DEF Near
  <2>2. CASE r # 0
    <3>1. PICK j \in 1 .. Len(log) : IsMark(log[j]) /\ log[j][2] >= r  BY <2>2, Zenon DEF Reaches
    <3>2. log[j][2] \in Nat  BY DEF DedupEvents
    <3>3. t <= log[j][2] + TimesPerBatch  BY <3>1, <3>2, DedupAssumption
    <3>4. PICK m : m = Len(log) + 1  BY Zenon
    <3>5. j \in 1 .. m - 1  BY <1>4, <3>4
    <3>6. g[j] = log[j] /\ g[m] = e  BY <1>4, <3>4, Zenon
    <3>7. IsMark(g[j]) /\ g[m][2] <= g[j][2] + TimesPerBatch  BY <1>2, <3>1, <3>3, <3>6, Zenon
    <3>8. Near(g, m)  BY <3>5, <3>7, Zenon DEF Near
    <3> QED  BY <3>4, <3>8, Zenon
  <2> QED  BY <2>1, <2>2
<1>7. ASSUME NEW i \in 1 .. Len(g), IsMark(g[i])
      PROVE  Kept(Prefix(g, i), g[i][2], to[i], past, h) /\ Near(g, i)
  <2>1. CASE i = Len(log) + 1  BY <1>2, <1>4, <1>5, <1>6, <2>1, Zenon
  <2>2. CASE i # Len(log) + 1
    <3>1. i \in 1 .. Len(log) /\ 1 .. i \subseteq 1 .. Len(log) /\ 1 .. i - 1 \subseteq 1 .. Len(log)  BY <1>4, <2>2
    <3>2. g[i] = log[i] /\ to[i] = at[i]  BY <1>4, <3>1, Zenon
    <3>3. \A j \in 1 .. i : g[j] = log[j]  BY <1>4, <3>1, Zenon
    <3>4. Prefix(g, i) = Prefix(log, i)  BY <3>3, PrefixOfLonger, Zenon
    <3>5. Kept(Prefix(log, i), log[i][2], at[i], past, h) /\ Near(log, i)  BY <1>7, <3>1, <3>2, Zenon DEF Marked
    <3>6. Near(g, i)  BY <1>4, <3>1, <3>2, <3>5, Zenon DEF Near
    <3> QED  BY <3>2, <3>4, <3>5, <3>6, Zenon
  <2> QED  BY <2>1, <2>2, Zenon
<1>8. Reaches(g, t)
  <2>1. Len(log) + 1 \in 1 .. Len(g) /\ t >= t  BY <1>4
  <2> QED  BY <1>2, <1>4, <2>1, Zenon DEF Reaches
<1> QED  BY <1>7, <1>8, Zenon DEF Marked

\* What a restart reads back ends at a mark within a batch of the committed time.
LEMMA RestoredMark ==
    ASSUME NEW log \in Seq(DedupEvents), NEW at, NEW past, NEW h, Marked(log, at, past, h),
           NEW t \in Nat \ {0}, Reaches(log, t)
    PROVE  \E k \in 1 .. Len(log) :
              /\ Restored(log, t) = Prefix(log, k) /\ IsMark(log[k])
              /\ log[k][2] \in t .. t + TimesPerBatch - 1
<1>0. Len(log) \in Nat /\ DOMAIN log = 1 .. Len(log)  OBVIOUS
<1>1. PICK ends : ends = {i \in DOMAIN log : log[i][1] = "AdvanceTime" /\ log[i][2] >= t}  BY Zenon
<1>2. ends # {} /\ ends \in SUBSET Nat
  <2>1. PICK i \in 1 .. Len(log) : IsMark(log[i]) /\ log[i][2] >= t  BY Zenon DEF Reaches
  <2>2. i \in ends  BY <1>0, <1>1, <2>1, Zenon DEF IsMark
  <2>3. \A j \in ends : j \in 1 .. Len(log)  BY <1>0, <1>1, Zenon
  <2> QED  BY <1>0, <2>2, <2>3
<1>3. PICK k : k = CHOOSE i \in ends : \A j \in ends : i <= j  BY Zenon
<1>4. k \in ends /\ \A j \in ends : k <= j  BY <1>2, <1>3, NatMin, Zenon
<1>5. k \in 1 .. Len(log) /\ IsMark(log[k]) /\ log[k][2] >= t  BY <1>0, <1>1, <1>4, Zenon DEF IsMark
<1>6. Restored(log, t) = SubSeq(log, 1, k)
  <2>1. t # 0  OBVIOUS
  <2> QED  BY <1>1, <1>2, <1>3, <2>1, Zenon DEF Restored
<1>7. SubSeq(log, 1, k) = Prefix(log, k)  BY <1>5, PrefixIs, Zenon
<1>8. log[k][2] \in Nat  BY <1>5 DEF DedupEvents
<1>9. log[k][2] < t + TimesPerBatch
  <2>1. Near(log, k)  BY <1>5, Zenon DEF Marked
  <2>2. CASE log[k][2] <= TimesPerBatch  BY <1>8, <2>2, DedupAssumption
  <2>3. CASE \E j \in 1 .. k - 1 : IsMark(log[j]) /\ log[k][2] <= log[j][2] + TimesPerBatch
    <3>1. PICK j \in 1 .. k - 1 : IsMark(log[j]) /\ log[k][2] <= log[j][2] + TimesPerBatch  BY <2>3, Zenon
    <3>2. j \in 1 .. Len(log) /\ ~ (k <= j)  BY <1>0, <1>5
    <3>3. log[j][2] \in Nat  BY <3>2 DEF DedupEvents
    <3>4. ~ (log[j][2] >= t)  BY <1>0, <1>1, <1>4, <3>1, <3>2, Zenon DEF IsMark
    <3> QED  BY <1>8, <3>1, <3>3, <3>4, DedupAssumption
  <2> QED  BY <2>1, <2>2, <2>3, Zenon DEF Near
<1>10. log[k][2] \in t .. t + TimesPerBatch - 1  BY <1>5, <1>8, <1>9, DedupAssumption
<1> QED  BY <1>5, <1>6, <1>7, <1>10, Zenon

\* The one row of the net is the state, and it is combined to itself.
LEMMA RestoredState ==
    ASSUME NEW log \in Seq(DedupEvents), NEW s \in DedupStates, NetsTo(log, s), NEW n,
           \/ PersistedRows(log) = {} /\ n = <<>>
           \/ \E v \in PersistedRows(log) : n = Combine(<<>>, v)
    PROVE  n = s
<1>0. DOMAIN log = 1 .. Len(log) /\ \A i \in DOMAIN log : log[i] \in DedupEvents  OBVIOUS
<1>1. ASSUME NEW v \in PersistedRows(log) PROVE v \in Nat /\ s = <<v>>
  <2>1. v \in {log[i][2] : i \in DOMAIN log} /\ NetWeight(log, v) > 0  BY Zenon DEF PersistedRows
  <2>2. v \in Nat  BY <1>0, <2>1 DEF DedupEvents
  <2>3. NetWeight(log, v) = IF s = <<v>> THEN 1 ELSE 0  BY <2>2 DEF NetsTo
  <2> QED  BY <2>1, <2>2, <2>3
<1>2. CASE s = <<>>
  <2>1. \A v : <<>> # <<v>>  OBVIOUS
  <2>2. PersistedRows(log) = {}  BY <1>1, <1>2, <2>1
  <2> QED  BY <1>2, <2>2
<1>3. CASE s # <<>>
  <2>1. PICK u \in Nat \ {0} : s = <<u>>  BY <1>3 DEF DedupStates
  <2>2. NetWeight(log, u) = 1  BY <2>1, Zenon DEF NetsTo
  <2>3. \E i \in DOMAIN log : log[i] = <<"Insert", u>>
    <3> SUFFICES ASSUME \A i \in DOMAIN log : log[i] # <<"Insert", u>> PROVE FALSE  OBVIOUS
    <3>1. PICK a, b : a = <<"Insert", u>> /\ b = <<"Delete", u>>  BY Zenon
    <3>2. Places(log, a) = {}  BY <3>1, Zenon DEF Places
    <3>3. Cardinality(Places(log, a)) = 0  BY <3>2, FS_EmptySet, Zenon
    <3>4. Cardinality(Places(log, b)) \in Nat  BY PlacesFinite
    <3>5. NetWeight(log, u) = Cardinality(Places(log, a)) - Cardinality(Places(log, b))  BY <3>1, Zenon DEF NetWeight
    <3> QED  BY <2>2, <3>3, <3>4, <3>5
  <2>4. u \in PersistedRows(log)
    <3>1. PICK i \in DOMAIN log : log[i] = <<"Insert", u>>  BY <2>3
    <3>2. log[i][2] = u  BY <3>1
    <3> QED  BY <2>2, <3>2 DEF PersistedRows
  <2>5. PICK v \in PersistedRows(log) : n = Combine(<<>>, v)  BY <2>4
  <2>6. v = u
    <3>1. <<u>> = <<v>>  BY <1>1, <2>1, <2>5
    <3> QED  BY <3>1
  <2> QED  BY <2>1, <2>5, <2>6 DEF Combine
<1> QED  BY <1>2, <1>3

\* The operator starts with no state and an empty snapshot.
LEMMA DedupInitInv == DedupInit => DedupInv
<1> SUFFICES ASSUME DedupInit PROVE DedupInv  OBVIOUS
<1>1. /\ history = <<>> /\ handled = 0 /\ state = <<>> /\ snapshot = <<>> /\ recorded = 0 /\ committed = 0
      /\ counted = <<>> /\ countedAt = <<>>
  BY DEF DedupInit
<1>2. Len(<<>>) = 0 /\ <<>> \in Seq(DedupValues) /\ <<>> \in Seq(DedupEvents) /\ DOMAIN <<>> = 1 .. 0  OBVIOUS
<1>3. <<>> \in Seq(1 .. 0) /\ 1 .. 0 = {}  OBVIOUS
<1>4. Marked(<<>>, <<>>, resumed, <<>>)  BY <1>2, <1>3, Zenon DEF Marked
<1>5. StateMatchesInput
  <2>1. InTurn(resumed, <<>>)  BY <1>2, <1>3, Zenon DEF InTurn
  <2>2. Continues(resumed, LastOf(<<>>), 0)  BY Zenon DEF Continues, LastOf
  <2> QED  BY <1>1, <2>1, <2>2, StateAfterNone, Zenon DEF StateMatchesInput
<1>6. 0 \in Nat /\ 0 <= 0 /\ 0 <= 0 + TimesPerBatch /\ ~ (0 < 0)  BY DedupAssumption
<1>7. Reaches(<<>>, 0)  BY DEF Reaches
<1> QED  BY <1>1, <1>2, <1>3, <1>4, <1>5, <1>6, <1>7, NetEmpty, Zenon DEF DedupInv

\* A row that comes changes nothing of the times before it.
LEMMA DedupInputInv ==
    ASSUME DedupInv, DedupInput
    PROVE  DedupInv'
<1>1. UNCHANGED <<handled, state, snapshot, recorded, committed, counted, countedAt, resumed>>
  BY DEF DedupInput, dedupGhosts
<1>2. PICK v \in DedupValues : history' = Append(history, v)  BY DEF DedupInput
<1>3. PICK g : g = Append(history, v)  BY Zenon
<1>4. history \in Seq(DedupValues) /\ Len(history) \in Nat  BY DEF DedupInv
<1>5. g \in Seq(DedupValues) /\ Len(g) = Len(history) + 1  BY <1>3, <1>4
<1>6. \A times \in Seq(1 .. Len(history)) :
         times \in Seq(1 .. Len(g)) /\ StateAfter(g, times) = StateAfter(history, times)
  BY <1>3, <1>4, StateAfterInput, Zenon
<1>7. counted \in Seq(1 .. Len(history)) /\ Marked(snapshot, countedAt, resumed, history) /\ StateMatchesInput
  BY Zenon DEF DedupInv
<1>8. Marked(snapshot, countedAt, resumed, g)  BY <1>6, <1>7, Zenon DEF Marked, Kept
<1>9. history' = g  BY <1>2, <1>3, Zenon
<1>10. StateMatchesInput'
  <2>1. state = StateAfter(g, counted)  BY <1>6, <1>7, Zenon DEF StateMatchesInput
  <2> QED  BY <1>1, <1>7, <1>9, <2>1, Zenon DEF StateMatchesInput
<1>11. handled \in Nat /\ handled <= Len(history)  BY Zenon DEF DedupInv
<1>12. handled <= Len(g)  BY <1>4, <1>5, <1>11
<1> QED  BY <1>1, <1>5, <1>6, <1>7, <1>8, <1>9, <1>10, <1>12, Zenon DEF DedupInv

\* The history of the events so far stays, and later ones get the new one.
LEMMA CountEventsStep ==
    ASSUME NEW log \in Seq(DedupEvents), snapshot' = log, CountEvents
    PROVE  /\ DOMAIN countedAt' = 1 .. Len(log)
           /\ \A i \in 1 .. Len(log) : countedAt'[i] = IF i \in DOMAIN countedAt THEN countedAt[i] ELSE counted'
<1>1. DOMAIN log = 1 .. Len(log)  OBVIOUS
<1>2. countedAt' = [i \in 1 .. Len(log) |-> IF i \in DOMAIN countedAt THEN countedAt[i] ELSE counted']
  BY <1>1, Zenon DEF CountEvents
<1> QED  BY <1>2, Zenon

\* The state and the net of the snapshot go on together.
LEMMA ReduceBatchInv ==
    ASSUME DedupInv, ReduceBatch
    PROVE  DedupInv'
<1>1. /\ UNCHANGED <<history, recorded, committed, resumed>> /\ handled' = handled + 1
      /\ counted' = Append(counted, handled + 1)
  BY Zenon DEF ReduceBatch
<1>2. handled < recorded + TimesPerBatch /\ handled < Len(history)  BY Zenon DEF ReduceBatch
<1>3. /\ history \in Seq(DedupValues) /\ handled \in Nat /\ recorded \in Nat /\ committed \in Nat
      /\ committed <= recorded /\ recorded <= handled /\ snapshot \in Seq(DedupEvents)
      /\ counted \in Seq(1 .. Len(history)) /\ DOMAIN countedAt = 1 .. Len(snapshot)
      /\ NetsTo(snapshot, state) /\ Marked(snapshot, countedAt, resumed, history) /\ Reaches(snapshot, recorded)
  BY Zenon DEF DedupInv
<1>4. /\ state = StateAfter(history, counted) /\ InTurn(resumed, counted)
      /\ Continues(resumed, LastOf(counted), handled)
  BY Zenon DEF DedupInv, StateMatchesInput
<1>5. PICK n : n = Combine(state, history[handled + 1])  BY Zenon
<1>6. state' = n /\ snapshot' = snapshot \o Changes(state, n)  BY <1>5, Zenon DEF ReduceBatch
<1>7. Len(history) \in Nat /\ handled + 1 \in 1 .. Len(history)  BY <1>2, <1>3
<1>8. counted' \in Seq(1 .. Len(history)) /\ n = StateAfter(history, counted')
  BY <1>1, <1>3, <1>4, <1>5, <1>7, StateAfterNext, Zenon
<1>9. InTurn(resumed, counted') /\ LastOf(counted') = handled + 1  BY <1>1, <1>3, <1>4, <1>7, InTurnNext, Zenon
<1>10. StateMatchesInput'
  <2>1. Continues(resumed, LastOf(counted'), handled + 1)  BY <1>9, Zenon DEF Continues
  <2> QED  BY <1>1, <1>6, <1>8, <1>9, <2>1, Zenon DEF StateMatchesInput
<1>11. state \in DedupStates /\ history[handled + 1] \in DedupValues
  <2>1. history[handled + 1] \in DedupValues  BY <1>3, <1>7
  <2> QED  BY <1>3, <1>4, <2>1, StateAfterType, Zenon
<1>12. n \in DedupStates /\ (state # <<>> => n # <<>>)  BY <1>5, <1>11, CombineState, Zenon
<1>13. PICK c \in Seq({"Insert", "Delete"} \X Nat) :
         c = Changes(state, n) /\ snapshot \o c \in Seq(DedupEvents) /\ NetsTo(snapshot \o c, n)
  BY <1>3, <1>11, <1>12, NetChanges, Zenon
<1>14. PICK g : g = snapshot \o c  BY Zenon
<1>15. /\ g \in Seq(DedupEvents) /\ Len(g) = Len(snapshot) + Len(c) /\ Len(snapshot) \in Nat /\ Len(c) \in Nat
       /\ \A i \in 1 .. Len(snapshot) : g[i] = snapshot[i]
       /\ \A i \in 1 .. Len(g) : i > Len(snapshot) => g[i] = c[i - Len(snapshot)]
  BY <1>3, <1>13, <1>14
<1>16. snapshot' = g /\ NetsTo(g, n)  BY <1>6, <1>13, <1>14, Zenon
<1>17. \A i \in 1 .. Len(g) : i > Len(snapshot) => ~ IsMark(g[i])
  <2>1. \A j \in 1 .. Len(c) : c[j] \in {"Insert", "Delete"} \X Nat  BY <1>13
  <2>2. \A x \in {"Insert", "Delete"} \X Nat : ~ IsMark(x)  BY DEF IsMark
  <2>3. \A i \in 1 .. Len(g) : i > Len(snapshot) => i - Len(snapshot) \in 1 .. Len(c)  BY <1>15
  <2> QED  BY <1>15, <2>1, <2>2, <2>3, Zenon
<1>18. /\ DOMAIN countedAt' = 1 .. Len(g)
       /\ \A i \in 1 .. Len(g) : i \in 1 .. Len(snapshot) => countedAt'[i] = countedAt[i]
  <2>1. CountEvents  BY Zenon DEF ReduceBatch
  <2> QED  BY <1>3, <1>15, <1>16, <2>1, CountEventsStep, Zenon
<1>19. Marked(g, countedAt', resumed, history) /\ Reaches(g, recorded)
  <2>1. \A i \in 1 .. Len(g) : ~ (i > Len(snapshot)) => i <= Len(snapshot) /\ i \in 1 .. Len(snapshot)  BY <1>15
  <2>2. \A i \in 1 .. Len(g) : i <= Len(snapshot) => i \in 1 .. Len(snapshot)  BY <1>15
  <2>3. \A i \in 1 .. Len(g) : IsMark(g[i]) => i <= Len(snapshot) /\ countedAt'[i] = countedAt[i]
    BY <1>17, <1>18, <2>1, Zenon
  <2>4. \A i \in 1 .. Len(g) : i <= Len(snapshot) => g[i] = snapshot[i]  BY <1>15, <2>2, Zenon
  <2>5. Marked(g, countedAt', resumed, history)  BY <1>3, <1>15, <2>3, <2>4, MarkedSame, Zenon
  <2>6. Len(snapshot) <= Len(g)  BY <1>15
  <2> QED  BY <1>3, <1>15, <2>5, <2>6, ReachesLonger, Zenon
<1>20. handled + 1 \in Nat /\ recorded <= handled + 1 /\ handled + 1 <= recorded + TimesPerBatch /\ handled + 1 <= Len(history)
  BY <1>2, <1>3, <1>7, DedupAssumption
<1> QED  BY <1>1, <1>3, <1>6, <1>8, <1>9, <1>10, <1>15, <1>16, <1>18, <1>19, <1>20, Zenon DEF DedupInv

\* The frontier marks the state of the last time handled.
LEMMA RecordFrontierInv ==
    ASSUME DedupInv, RecordFrontier
    PROVE  DedupInv'
<1>1. /\ UNCHANGED <<history, handled, state, committed, counted, resumed>> /\ recorded' = handled
      /\ recorded < handled /\ snapshot' = Append(snapshot, <<"AdvanceTime", handled>>) /\ CountEvents
  BY Zenon DEF RecordFrontier
<1>2. /\ handled \in Nat /\ recorded \in Nat /\ committed \in Nat /\ committed <= recorded
      /\ handled <= recorded + TimesPerBatch /\ snapshot \in Seq(DedupEvents)
      /\ counted \in Seq(1 .. Len(history)) /\ DOMAIN countedAt = 1 .. Len(snapshot)
      /\ NetsTo(snapshot, state) /\ Marked(snapshot, countedAt, resumed, history) /\ Reaches(snapshot, recorded)
      /\ LastOf(counted) = handled /\ StateMatchesInput
  BY <1>1, Zenon DEF DedupInv
<1>3. PICK g : g = Append(snapshot, <<"AdvanceTime", handled>>)  BY Zenon
<1>4. /\ g \in Seq(DedupEvents) /\ Len(snapshot) \in Nat /\ Len(g) = Len(snapshot) + 1
  <2>1. <<"AdvanceTime", handled>> \in DedupEvents  BY <1>2 DEF DedupEvents
  <2> QED  BY <1>2, <1>3, <2>1
<1>5. NetsTo(g, state)  BY <1>2, <1>3, NetAdvance, Zenon
<1>6. Kept(g, handled, counted, resumed, history)  BY <1>2, <1>5, Zenon DEF Kept, StateMatchesInput
<1>7. snapshot' = g  BY <1>1, <1>3, Zenon
<1>8. /\ DOMAIN countedAt' = 1 .. Len(g)
      /\ \A i \in 1 .. Len(g) : countedAt'[i] = IF i \in 1 .. Len(snapshot) THEN countedAt[i] ELSE counted
  BY <1>1, <1>2, <1>4, <1>7, CountEventsStep, Zenon
<1>9. (\A i \in 1 .. Len(snapshot) : countedAt'[i] = countedAt[i]) /\ countedAt'[Len(snapshot) + 1] = counted
  <2>1. /\ Len(snapshot) + 1 \in 1 .. Len(g) /\ Len(snapshot) + 1 \notin 1 .. Len(snapshot)
        /\ 1 .. Len(snapshot) \subseteq 1 .. Len(g)
    BY <1>4
  <2> QED  BY <1>8, <2>1, Zenon
<1>10. Marked(g, countedAt', resumed, history) /\ Reaches(g, handled)
  BY <1>2, <1>3, <1>6, <1>9, MarkedNext, Zenon
<1>11. StateMatchesInput'  BY <1>1, <1>2, Zenon DEF StateMatchesInput
<1>12. committed <= handled /\ handled <= handled /\ handled <= handled + TimesPerBatch
  BY <1>1, <1>2, DedupAssumption
<1> QED  BY <1>1, <1>2, <1>4, <1>5, <1>7, <1>8, <1>10, <1>11, <1>12, Zenon DEF DedupInv

\* A commit never goes beyond the marks.
LEMMA DedupCommitInv ==
    ASSUME DedupInv, DedupCommit
    PROVE  DedupInv'
<1>1. UNCHANGED <<history, handled, state, snapshot, recorded, counted, countedAt, resumed>>
  BY DEF DedupCommit, dedupGhosts
<1>2. PICK t \in committed + 1 .. recorded : committed' = t  BY DEF DedupCommit
<1>3. committed \in Nat /\ recorded \in Nat  BY DEF DedupInv
<1>4. t \in Nat /\ t <= recorded  BY <1>2, <1>3
<1>5. StateMatchesInput'  BY <1>1, Zenon DEF DedupInv, StateMatchesInput
<1> QED  BY <1>1, <1>2, <1>4, <1>5, Zenon DEF DedupInv

\* A restart finds the state at a mark within a batch of the committed time, or
\* none where nothing was committed.
LEMMA DedupRestored ==
    ASSUME DedupInv, DedupRestart
    PROVE  \E g \in Seq(DedupEvents), times \in Seq(1 .. Len(history)) :
              /\ snapshot' = g /\ counted' = times /\ InTurn(resumed, times)
              /\ NetsTo(g, StateAfter(history, times))
              /\ LastOf(times) = committed \/ LastOf(times) \in committed .. committed + TimesPerBatch - 1
              /\ Marked(g, countedAt', resumed, history) /\ Reaches(g, committed)
              /\ DOMAIN countedAt' = 1 .. Len(g)
<1>1. /\ snapshot' = Restored(snapshot, committed) /\ CountEvents
      /\ counted' = IF snapshot' = <<>> THEN <<>> ELSE countedAt[Len(snapshot')]
  BY Zenon DEF DedupRestart
<1>2. /\ snapshot \in Seq(DedupEvents) /\ DOMAIN countedAt = 1 .. Len(snapshot) /\ committed \in Nat
      /\ recorded \in Nat /\ committed <= recorded /\ Reaches(snapshot, recorded)
      /\ Marked(snapshot, countedAt, resumed, history)
  BY Zenon DEF DedupInv
<1>3. CASE committed = 0
  <2>1. snapshot' = <<>> /\ counted' = <<>>  BY <1>1, <1>3, Zenon DEF Restored
  <2>2. <<>> \in Seq(DedupEvents) /\ <<>> \in Seq(1 .. Len(history)) /\ DOMAIN <<>> = {} /\ 1 .. Len(<<>>) = {}  OBVIOUS
  <2>3. DOMAIN countedAt' = 1 .. Len(<<>>)  BY <1>1, <2>1, <2>2, CountEventsStep, Zenon
  <2>4. InTurn(resumed, <<>>) /\ LastOf(<<>>) = 0  BY <2>2, Zenon DEF InTurn, LastOf
  <2>5. Marked(<<>>, countedAt', resumed, history) /\ Reaches(<<>>, 0)  BY <2>2, Zenon DEF Marked, Reaches
  <2>6. NetsTo(<<>>, StateAfter(history, <<>>))  BY NetEmpty, StateAfterNone, Zenon
  <2> QED  BY <1>3, <2>1, <2>2, <2>3, <2>4, <2>5, <2>6, Zenon
<1>4. CASE committed # 0
  <2>1. committed \in Nat \ {0}  BY <1>2, <1>4
  <2>2. Reaches(snapshot, committed)
    <3>1. recorded # 0  BY <1>2, <1>4
    <3>2. PICK i \in 1 .. Len(snapshot) : IsMark(snapshot[i]) /\ snapshot[i][2] >= recorded
      BY <1>2, <3>1, Zenon DEF Reaches
    <3>3. snapshot[i][2] \in Nat  BY <1>2 DEF DedupEvents
    <3>4. snapshot[i][2] >= committed  BY <1>2, <3>2, <3>3
    <3> QED  BY <3>2, <3>4, Zenon DEF Reaches
  <2>3. PICK k \in 1 .. Len(snapshot) :
           /\ Restored(snapshot, committed) = Prefix(snapshot, k) /\ IsMark(snapshot[k])
           /\ snapshot[k][2] \in committed .. committed + TimesPerBatch - 1
    BY <1>2, <2>1, <2>2, RestoredMark, Zenon
  <2>4. PICK g : g = Prefix(snapshot, k)  BY Zenon
  <2>5. g \in Seq(DedupEvents) /\ Len(g) = k /\ \A i \in 1 .. k : g[i] = snapshot[i]
    BY <1>2, <2>4, PrefixIs, Zenon
  <2>6. Len(snapshot) \in Nat /\ k # 0 /\ k \in 1 .. k /\ \A i \in 1 .. k : i <= Len(snapshot) /\ i \in 1 .. Len(snapshot)
    BY <1>2
  <2>7. snapshot' = g /\ counted' = countedAt[k]
    <3>1. g # <<>>  BY <2>5, <2>6
    <3> QED  BY <1>1, <2>3, <2>4, <2>5, <3>1, Zenon
  <2>8. Kept(g, snapshot[k][2], countedAt[k], resumed, history)  BY <1>2, <2>3, <2>4, Zenon DEF Marked
  <2>9. DOMAIN countedAt' = 1 .. Len(g) /\ \A i \in 1 .. Len(g) : countedAt'[i] = countedAt[i]
    BY <1>1, <1>2, <2>5, <2>6, <2>7, CountEventsStep, Zenon
  <2>10. Marked(g, countedAt', resumed, history)  BY <1>2, <2>5, <2>6, <2>9, MarkedSame, Zenon
  <2>11. Reaches(g, committed)
    <3>1. snapshot[k][2] >= committed  BY <1>2, <2>3, DedupAssumption
    <3> QED  BY <2>3, <2>5, <2>6, <3>1, Zenon DEF Reaches
  <2> QED  BY <2>3, <2>5, <2>7, <2>8, <2>9, <2>10, <2>11, Zenon DEF Kept
<1> QED  BY <1>3, <1>4, Zenon

\* The state that is read back goes on after the committed time.
LEMMA DedupRestartInv ==
    ASSUME DedupInv, DedupRestart
    PROVE  DedupInv'
<1>1. /\ UNCHANGED <<history, committed>> /\ handled' = committed /\ recorded' = committed
      /\ resumed' = resumed \cup {committed}
  BY Zenon DEF DedupRestart
<1>2. history \in Seq(DedupValues) /\ committed \in Nat /\ recorded \in Nat /\ committed <= recorded
      /\ handled \in Nat /\ recorded <= handled /\ handled <= Len(history)
  BY Zenon DEF DedupInv
<1>3. PICK g \in Seq(DedupEvents), times \in Seq(1 .. Len(history)) :
              /\ snapshot' = g /\ counted' = times /\ InTurn(resumed, times)
              /\ NetsTo(g, StateAfter(history, times))
              /\ LastOf(times) = committed \/ LastOf(times) \in committed .. committed + TimesPerBatch - 1
              /\ Marked(g, countedAt', resumed, history) /\ Reaches(g, committed)
              /\ DOMAIN countedAt' = 1 .. Len(g)
  BY DedupRestored, Zenon
<1>4. \/ PersistedRows(g) = {} /\ state' = <<>>
      \/ \E v \in PersistedRows(g) : state' = Combine(<<>>, v)
  BY <1>3, Zenon DEF DedupRestart
<1>5. state' = StateAfter(history, times)
  <2>1. StateAfter(history, times) \in DedupStates  BY <1>2, StateAfterType, Zenon
  <2> QED  BY <1>3, <1>4, <2>1, RestoredState, Zenon
<1>6. resumed \subseteq resumed' /\ committed \in resumed'  BY <1>1, Zenon
<1>7. InTurn(resumed', times)  BY <1>3, <1>6, InTurnMore, Zenon
<1>8. Continues(resumed', LastOf(times), committed)  BY <1>3, <1>6, Zenon DEF Continues
<1>9. StateMatchesInput'  BY <1>1, <1>3, <1>5, <1>7, <1>8, Zenon DEF StateMatchesInput
<1>10. Marked(g, countedAt', resumed', history)
  <2>1. \A log, t, u : Kept(log, t, u, resumed, history) => Kept(log, t, u, resumed', history)
    BY <1>6, InTurnMore, Zenon DEF Kept
  <2> QED  BY <1>3, <2>1, Zenon DEF Marked
<1>11. committed <= committed /\ committed <= committed + TimesPerBatch /\ ~ (committed < committed)
       /\ committed <= Len(history)
  <2>1. Len(history) \in Nat  BY <1>2
  <2> QED  BY <1>2, <2>1, DedupAssumption
<1> QED  BY <1>1, <1>2, <1>3, <1>5, <1>9, <1>10, <1>11, Zenon DEF DedupInv

\* Every step of the operator keeps the invariant.
LEMMA DedupInvAlways == DedupSpec => []DedupInv
<1>1. DedupInv /\ [DedupNext]_dedupVars => DedupInv'
  <2> SUFFICES ASSUME DedupInv, [DedupNext]_dedupVars PROVE DedupInv'  OBVIOUS
  <2>1. CASE DedupInput  BY <2>1, DedupInputInv, Zenon
  <2>2. CASE ReduceBatch  BY <2>2, ReduceBatchInv, Zenon
  <2>3. CASE RecordFrontier  BY <2>3, RecordFrontierInv, Zenon
  <2>4. CASE DedupCommit  BY <2>4, DedupCommitInv, Zenon
  <2>5. CASE DedupRestart  BY <2>5, DedupRestartInv, Zenon
  <2>6. CASE UNCHANGED dedupVars  BY <2>6, Zenon DEF dedupVars, dedupGhosts, DedupInv, StateMatchesInput
  <2> QED  BY <2>1, <2>2, <2>3, <2>4, <2>5, <2>6, Zenon DEF DedupNext
<1> QED  BY <1>1, DedupInitInv, PTL DEF DedupSpec

\* Over any number of crashes the state of a deduplication is what the combining
\* function makes of the rows of all times handled so far, in their order: what
\* read_persisted_state gives back fits the time to which the input is rewound.
\* No row is left out, and a time is counted again only as far as the batch of
\* the committed time goes beyond it, for batches of any number of times.
THEOREM StateMatchesInputAlways == DedupSpec => []StateMatchesInput
<1>1. DedupInv => StateMatchesInput  BY Zenon DEF DedupInv
<1> QED  BY <1>1, DedupInvAlways, PTL

\* Times in turn, no two of them in one batch, are all times from the first on.
LEMMA InTurnExact ==
    ASSUME TimesPerBatch = 1, NEW past, NEW L \in Nat, NEW times \in Seq(1 .. L), InTurn(past, times)
    PROVE  \A i \in 1 .. Len(times) : times[i] = i
<1>0. Len(times) \in Nat /\ DOMAIN times = 1 .. Len(times) /\ \A i \in 1 .. Len(times) : times[i] \in Nat  OBVIOUS
<1> DEFINE S == {i \in 1 .. Len(times) : times[i] # i}
<1>1. SUFFICES ASSUME S # {} PROVE FALSE  OBVIOUS
<1>2. PICK k \in S : \A j \in S : k <= j
  <2>1. S \in SUBSET Nat  BY <1>0
  <2> HIDE DEF S
  <2> QED  BY <2>1, <1>1, NatMin, Zenon
<1>3. k \in 1 .. Len(times) /\ times[k] # k  BY <1>2
<1>4. Continues(past, IF k = 1 THEN 0 ELSE times[k - 1], times[k] - 1)  BY <1>0, <1>3, Zenon DEF InTurn
<1>5. \A t \in Int, u \in Int : Continues(past, t, u) => t = u
  <2> SUFFICES ASSUME NEW t \in Int, NEW u \in Int, t \in u .. u + 1 - 1 PROVE t = u  BY Zenon DEF Continues
  <2> QED  OBVIOUS
<1>6. CASE k = 1
  <2>1. Continues(past, 0, times[k] - 1) /\ 0 \in Int /\ times[k] - 1 \in Int  BY <1>0, <1>3, <1>4, <1>6
  <2>2. 0 = times[k] - 1  BY <1>5, <2>1, Zenon
  <2> QED  BY <1>0, <1>3, <1>6, <2>2
<1>7. CASE k # 1
  <2>1. k - 1 \in 1 .. Len(times) /\ ~ (k <= k - 1)  BY <1>0, <1>3, <1>7
  <2>2. k - 1 \notin S  BY <1>2, <2>1, Zenon
  <2>3. times[k - 1] = k - 1  BY <2>1, <2>2
  <2>4. Continues(past, k - 1, times[k] - 1)  BY <1>4, <1>7, <2>3, Zenon
  <2>5. k - 1 \in Int /\ times[k] - 1 \in Int  BY <1>0, <1>3
  <2>6. k - 1 = times[k] - 1  BY <1>5, <2>4, <2>5, Zenon
  <2> QED  BY <1>0, <1>3, <2>6
<1> QED  BY <1>6, <1>7

\* When no batch of the arrangement spans two times, the state of a deduplication
\* stands for each time handled so far exactly once, over any number of crashes.
THEOREM EachTimeOnceAlways ==
    ASSUME TimesPerBatch = 1
    PROVE  DedupSpec => [](StateMatchesInput /\ counted = [i \in 1 .. handled |-> i])
<1>1. DedupInv => StateMatchesInput /\ counted = [i \in 1 .. handled |-> i]
  <2> SUFFICES ASSUME DedupInv PROVE counted = [i \in 1 .. handled |-> i]  BY Zenon DEF DedupInv
  <2>1. /\ history \in Seq(DedupValues) /\ counted \in Seq(1 .. Len(history)) /\ handled \in Nat
        /\ InTurn(resumed, counted) /\ Continues(resumed, LastOf(counted), handled)
    BY Zenon DEF DedupInv, StateMatchesInput
  <2>2. Len(history) \in Nat /\ Len(counted) \in Nat  BY <2>1
  <2>3. \A i \in 1 .. Len(counted) : counted[i] = i  BY <2>1, <2>2, InTurnExact, Zenon
  <2>4. LastOf(counted) = Len(counted)
    <3>1. CASE counted = <<>>
      <4>1. Len(counted) = 0  BY <3>1
      <4> QED  BY <3>1, <4>1, Zenon DEF LastOf
    <3>2. CASE counted # <<>>
      <4>1. Len(counted) \in 1 .. Len(counted)  BY <2>1, <3>2
      <4> QED  BY <2>3, <3>2, <4>1, Zenon DEF LastOf
    <3> QED  BY <3>1, <3>2, Zenon
  <2>5. Len(counted) = handled
    <3>1. Len(counted) = handled \/ Len(counted) \in handled .. handled + 1 - 1  BY <2>1, <2>4, Zenon DEF Continues
    <3> QED  BY <2>1, <2>2, <3>1
  <2>6. counted = [i \in 1 .. handled |-> counted[i]]  BY <2>1, <2>5
  <2> QED  BY <2>3, <2>5, <2>6, Zenon
<1> QED  BY <1>1, DedupInvAlways, PTL

=============================================================================
