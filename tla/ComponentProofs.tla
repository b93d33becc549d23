-------------------------- MODULE ComponentProofs ---------------------------
(***************************************************************************)
(* Theorems about components that stand alone, for every instance:         *)
(* S3Source, for any bucket, failures and restarts; Export, for any keys,  *)
(* importers and times; Runtime, for any number of worker threads.         *)
(***************************************************************************)
EXTENDS S3Source, Export, Runtime, TLAPS

-----------------------------------------------------------------------------
(* S3Source.                                                               *)

\* All rows of the objects that are there.
LastRow == IF s3Full THEN 1 ELSE ObjectRows
AllRows == UNION {{<<k, objects[k], i>> : i \in 1 .. LastRow} : k \in Listed}

\* The order in which rows are read: older objects first.
Precedes(r, q) == r[2] < q[2] \/ (r[2] = q[2] /\ r[3] < q[3])
AllBefore(A, B) == \A r \in A, q \in B : Precedes(r, q)

\* The rows in a channel, and that they are in order.
IsData(e) == e[1] = "Data"
RowsIn(c) == {c[i][2] : i \in {j \in 1 .. Len(c) : IsData(c[j])}}
Ascending(c) ==
    \A i, j \in 1 .. Len(c) : i < j /\ IsData(c[i]) /\ IsData(c[j]) => Precedes(c[i][2], c[j][2])

RowsLeft(s) == IF s = NoStream THEN {} ELSE {s[i] : i \in 1 .. Len(s)}

\* Modification times tell objects apart, and older ones are processed first.
ObjectsInv ==
    /\ puts \in Nat /\ objects \in [ObjectKeys -> Nat]
    /\ \A k \in ObjectKeys : objects[k] <= puts
    /\ \A j, k \in Listed : objects[j] = objects[k] => j = k
    /\ processed \subseteq Listed
    /\ \A k \in processed, j \in Listed : objects[j] < objects[k] => j \in processed

\* V is visible, T taken, C in the channel and R still in the stream: together a
\* first part of all rows, and all rows of what was processed as long as no
\* download broke off.
FirstPart(V, T, C, R) ==
    LET got == V \cup T \cup C \cup R
    IN /\ got \subseteq AllRows
       /\ \A r \in got : r[1] \in processed
       /\ \A r \in got, q \in AllRows : Precedes(q, r) => q \in got
       /\ ~loaderFailed /\ ~reported => \A r \in AllRows : r[1] \in processed => r \in got

InOrder4(V, T, C, R) ==
    /\ AllBefore(V, T) /\ AllBefore(V, C) /\ AllBefore(V, R)
    /\ AllBefore(T, C) /\ AllBefore(T, R) /\ AllBefore(C, R)

\* f is the offset of the last row of S.
LastOf(f, S) == IF S = {} THEN f = NoOffset ELSE f \in S /\ \A r \in S : r = f \/ Precedes(r, f)

Markers == {NewSource, FinishedSource(TRUE), <<"Finished">>}
S3Entries == {DataEntry(r, 1) : r \in AllRows} \cup Markers

ChannelInv == channel \in Seq(S3Entries) /\ Ascending(channel)
StreamInv ==
    stream # NoStream =>
        /\ stream \in Seq(AllRows)
        /\ \A i, j \in 1 .. Len(stream) : i < j => Precedes(stream[i], stream[j])
        /\ s3Full => Len(stream) <= 1

S3Cuts(V, T) ==
    /\ visible = Once(V) /\ taken = Once(T)
    /\ FirstPart(V, T, RowsIn(channel), RowsLeft(stream))
    /\ InOrder4(V, T, RowsIn(channel), RowsLeft(stream))
    /\ LastOf(savedFrontier, V) /\ LastOf(frontier, V \cup T)

\* A download of a whole object broke off: this is reported before anything else is
\* read, and such a reader is not started again.
Broken == s3Full /\ (loaderFailed \/ reported)

S3TypeOK ==
    /\ s3Full \in BOOLEAN /\ loaderFailed \in BOOLEAN /\ reported \in BOOLEAN /\ deferred \in BOOLEAN
    /\ readErrors \in Nat

S3Inv ==
    /\ S3TypeOK /\ ObjectsInv
    /\ Broken \/ (ChannelInv /\ StreamInv /\ \E V, T : S3Cuts(V, T))

\* Collections without a common record are put together.
LEMMA OnceUnion ==
    ASSUME NEW A, NEW B, A \cap B = {}
    PROVE  Concat(Once(A), Once(B)) = Once(A \cup B)
<1>1. DOMAIN Once(A) = A /\ DOMAIN Once(B) = B
  BY DEF Once
<1>2. \A x \in A \cup B : Weight(Once(A), x) + Weight(Once(B), x) = 1
  BY <1>1 DEF Weight, Once
<1> DEFINE w(x) == Weight(Once(A), x) + Weight(Once(B), x)
<1>3. Concat(Once(A), Once(B)) = [x \in {y \in A \cup B : w(y) # 0} |-> w(x)]
  BY <1>1 DEF Concat, Consolidated
<1>4. \A x \in A \cup B : w(x) = 1
  BY <1>2
<1> HIDE DEF w
<1>5. {y \in A \cup B : w(y) # 0} = A \cup B
  BY <1>4
<1> QED  BY <1>3, <1>4, <1>5 DEF Once

\* What a row of an object looks like.
LEMMA AllRowsFacts ==
    ASSUME ObjectsInv
    PROVE  /\ \A r \in AllRows : /\ r[1] \in Listed /\ r[2] = objects[r[1]] /\ r[3] \in 1 .. LastRow
                                 /\ r = <<r[1], r[2], r[3]>> /\ r[2] \in Nat /\ r[2] # 0
           /\ \A k \in Listed, i \in 1 .. LastRow : <<k, objects[k], i>> \in AllRows
<1>1. \A k \in Listed : k \in ObjectKeys /\ objects[k] \in Nat /\ objects[k] # 0
  BY DEF Listed, ObjectsInv
<1>2. \A r \in AllRows : \E k \in Listed : \E i \in 1 .. LastRow : r = <<k, objects[k], i>>
  BY DEF AllRows
<1>3. \A k \in Listed, i \in 1 .. LastRow : <<k, objects[k], i>> \in AllRows
  BY DEF AllRows
<1> QED  BY <1>1, <1>2, <1>3

\* Rows are ordered: no row precedes itself or one that precedes it, and of two
\* different rows one precedes the other.
LEMMA PrecedesOrder ==
    ASSUME ObjectsInv, NEW r \in AllRows, NEW q \in AllRows
    PROVE  /\ ~ (Precedes(r, q) /\ Precedes(q, r))
           /\ ~ Precedes(r, r)
           /\ r = q \/ Precedes(r, q) \/ Precedes(q, r)
           /\ \A p \in AllRows : Precedes(r, q) /\ Precedes(q, p) => Precedes(r, p)
<1>0. LastRow \in Nat
  BY S3Assumption DEF LastRow
<1>1. \A x \in AllRows : x[2] \in Nat /\ x[3] \in Nat /\ x[1] \in Listed /\ x[2] = objects[x[1]]
                         /\ x = <<x[1], x[2], x[3]>>
  BY <1>0, AllRowsFacts
<1>2. \A j, k \in Listed : objects[j] = objects[k] => j = k
  BY DEF ObjectsInv
<1>3. ASSUME ~ Precedes(r, q), ~ Precedes(q, r)
      PROVE  r = q
  <2>1. r[2] = q[2] /\ r[3] = q[3]
    BY <1>1, <1>3 DEF Precedes
  <2>2. r[1] = q[1]
    BY <1>1, <1>2, <2>1
  <2> QED  BY <1>1, <2>1, <2>2
<1>4. ~ (Precedes(r, q) /\ Precedes(q, r)) /\ ~ Precedes(r, r)
  BY <1>1 DEF Precedes
<1>5. \A p \in AllRows : Precedes(r, q) /\ Precedes(q, p) => Precedes(r, p)
  BY <1>1 DEF Precedes
<1> QED  BY <1>3, <1>4, <1>5

\* Handling the first entry of a channel.
LEMMA ChannelTail ==
    ASSUME NEW E, NEW c \in Seq(E), c # << >>, Ascending(c)
    PROVE  /\ Tail(c) \in Seq(E) /\ Head(c) \in E /\ Ascending(Tail(c))
           /\ IsData(Head(c)) => /\ RowsIn(c) = RowsIn(Tail(c)) \cup {Head(c)[2]}
                                 /\ \A q \in RowsIn(Tail(c)) : Precedes(Head(c)[2], q)
           /\ ~ IsData(Head(c)) => RowsIn(c) = RowsIn(Tail(c))
<1> DEFINE d == Tail(c)
<1>1. /\ Len(c) \in Nat /\ Len(c) >= 1 /\ Head(c) = c[1] /\ c[1] \in E
      /\ d \in Seq(E) /\ Len(d) = Len(c) - 1 /\ \A i \in 1 .. Len(d) : d[i] = c[i + 1]
  OBVIOUS
<1>2. \A i \in 1 .. Len(d) : i + 1 \in 1 .. Len(c) /\ 1 < i + 1
  BY <1>1
<1>3. \A i \in 1 .. Len(c) : i = 1 \/ (i - 1 \in 1 .. Len(d) /\ c[i] = d[i - 1])
  BY <1>1
<1>4. 1 \in 1 .. Len(c)
  BY <1>1
<1> HIDE DEF d
<1>5. Ascending(d)
  <2> SUFFICES ASSUME NEW i \in 1 .. Len(d), NEW j \in 1 .. Len(d), i < j, IsData(d[i]), IsData(d[j])
               PROVE  Precedes(d[i][2], d[j][2])
    BY DEF Ascending
  <2>1. i + 1 < j + 1 /\ d[i] = c[i + 1] /\ d[j] = c[j + 1]
    BY <1>1
  <2> QED  BY <1>2, <2>1 DEF Ascending
<1>6. RowsIn(d) \subseteq RowsIn(c)
  BY <1>1, <1>2 DEF RowsIn
<1>7. ASSUME NEW q \in RowsIn(c)
      PROVE  q \in RowsIn(d) \/ (IsData(c[1]) /\ q = c[1][2])
  <2>1. PICK i \in 1 .. Len(c) : IsData(c[i]) /\ q = c[i][2]
    BY DEF RowsIn
  <2> QED  BY <1>3, <2>1, Zenon DEF RowsIn
<1>8. ASSUME IsData(c[1])
      PROVE  c[1][2] \in RowsIn(c) /\ \A q \in RowsIn(d) : Precedes(c[1][2], q)
  <2>1. c[1][2] \in RowsIn(c)
    BY <1>4, <1>8 DEF RowsIn
  <2>2. ASSUME NEW q \in RowsIn(d)
        PROVE  Precedes(c[1][2], q)
    <3>1. PICK i \in 1 .. Len(d) : IsData(d[i]) /\ q = d[i][2]
      BY DEF RowsIn
    <3>2. IsData(c[i + 1]) /\ q = c[i + 1][2] /\ i + 1 \in 1 .. Len(c) /\ 1 < i + 1
      BY <1>1, <1>2, <3>1
    <3> QED  BY <1>4, <1>8, <3>2 DEF Ascending
  <2> QED  BY <2>1, <2>2
<1> QED  BY <1>1, <1>5, <1>6, <1>7, <1>8, Zenon DEF d

\* Sending an entry, a row only after all that are in the channel.
LEMMA ChannelAppend ==
    ASSUME NEW E, NEW c \in Seq(E), Ascending(c), NEW e \in E,
           IsData(e) => \A q \in RowsIn(c) : Precedes(q, e[2])
    PROVE  /\ Append(c, e) \in Seq(E) /\ Ascending(Append(c, e))
           /\ RowsIn(Append(c, e)) = RowsIn(c) \cup (IF IsData(e) THEN {e[2]} ELSE {})
<1> DEFINE d == Append(c, e)
<1>1. /\ Len(c) \in Nat /\ d \in Seq(E) /\ Len(d) = Len(c) + 1 /\ d[Len(c) + 1] = e
      /\ \A i \in 1 .. Len(c) : d[i] = c[i]
  OBVIOUS
<1>2. \A i \in 1 .. Len(d) : i \in 1 .. Len(c) \/ i = Len(c) + 1
  BY <1>1
<1>3. \A i \in 1 .. Len(c) : i \in 1 .. Len(d)
  BY <1>1
<1>4. Len(c) + 1 \in 1 .. Len(d)
  BY <1>1
<1> HIDE DEF d
<1>5. Ascending(d)
  <2> SUFFICES ASSUME NEW i \in 1 .. Len(d), NEW j \in 1 .. Len(d), i < j, IsData(d[i]), IsData(d[j])
               PROVE  Precedes(d[i][2], d[j][2])
    BY DEF Ascending
  <2>1. i \in 1 .. Len(c) /\ d[i] = c[i]
    BY <1>1
  <2>2. CASE j \in 1 .. Len(c)
    BY <1>1, <2>1, <2>2 DEF Ascending
  <2>3. CASE j = Len(c) + 1
    <3>1. c[i][2] \in RowsIn(c)
      BY <2>1 DEF RowsIn
    <3> QED  BY <1>1, <2>1, <2>3, <3>1
  <2> QED  BY <1>2, <2>2, <2>3
<1>6. RowsIn(c) \subseteq RowsIn(d)
  BY <1>1, <1>3 DEF RowsIn
<1>7. IsData(e) => e[2] \in RowsIn(d)
  BY <1>1, <1>4 DEF RowsIn
<1>8. ASSUME NEW q \in RowsIn(d)
      PROVE  q \in RowsIn(c) \/ (IsData(e) /\ q = e[2])
  <2>1. PICK i \in 1 .. Len(d) : IsData(d[i]) /\ q = d[i][2]
    BY DEF RowsIn
  <2> QED  BY <1>1, <1>2, <2>1 DEF RowsIn
<1> QED  BY <1>1, <1>5, <1>6, <1>7, <1>8 DEF d

\* The reader starts with nothing.
LEMMA S3InitInv == S3Init => S3Inv
<1> SUFFICES ASSUME S3Init
             PROVE  S3Inv
  OBVIOUS
<1>1. PICK k \in ObjectKeys : objects = [j \in ObjectKeys |-> IF j = k THEN 1 ELSE 0]
  BY DEF S3Init
<1>2. ObjectsInv
  BY <1>1 DEF S3Init, ObjectsInv, Listed
<1>3. S3TypeOK
  BY Zenon DEF S3Init, ConnectorInit, S3TypeOK
<1>4. /\ channel = << >> /\ Len(channel) = 0 /\ channel \in Seq(S3Entries) /\ stream = NoStream
      /\ visible = Once({}) /\ taken = Once({}) /\ frontier = NoOffset /\ savedFrontier = NoOffset /\ processed = {}
  BY DEF S3Init, ConnectorInit, NoRows
<1>5. ChannelInv /\ StreamInv
  BY <1>4 DEF ChannelInv, StreamInv, Ascending
<1>6. RowsIn(channel) = {} /\ RowsLeft(stream) = {}
  BY <1>4 DEF RowsIn, RowsLeft
<1>7. S3Cuts({}, {})
  BY <1>4, <1>6 DEF S3Cuts, FirstPart, InOrder4, AllBefore, LastOf
<1> QED  BY <1>2, <1>3, <1>5, <1>7 DEF S3Inv

\* A new object is younger than all others.
LEMMA PutObjectInv ==
    ASSUME S3Inv, PutObject, S3SecondLength = 1
    PROVE  S3Inv'
<1>1. PICK k \in ObjectKeys \ Listed : objects' = [objects EXCEPT ![k] = 1 + puts \div S3SecondLength]
  BY Zenon DEF PutObject
<1>2. /\ puts' = puts + 1 /\ s3Full' = s3Full /\ processed' = processed /\ stream' = stream
      /\ loaderFailed' = loaderFailed /\ deferred' = deferred
      /\ channel' = channel /\ readErrors' = readErrors /\ reported' = reported
      /\ visible' = visible /\ taken' = taken /\ frontier' = frontier /\ savedFrontier' = savedFrontier
  BY DEF PutObject, s3ReadVars, connectorVars, sendVars, pollVars
<1>3. /\ puts \in Nat /\ objects \in [ObjectKeys -> Nat] /\ \A j \in ObjectKeys : objects[j] <= puts
      /\ processed \subseteq Listed
  BY DEF S3Inv, ObjectsInv
<1>4. /\ objects' \in [ObjectKeys -> Nat] /\ objects'[k] = puts + 1
      /\ \A j \in ObjectKeys : j # k => objects'[j] = objects[j]
  BY <1>1, <1>3
<1>5. Listed' = Listed \cup {k} /\ k \notin Listed /\ Listed \subseteq ObjectKeys /\ \A j \in Listed : objects'[j] = objects[j]
  BY <1>1, <1>3, <1>4 DEF Listed
<1>6. ObjectsInv'
  <2>1. \A j \in ObjectKeys : objects'[j] <= puts'
    BY <1>2, <1>3, <1>4
  <2>2. \A i, j \in Listed' : objects'[i] = objects'[j] => i = j
    <3>1. \A i, j \in Listed : objects[i] = objects[j] => i = j
      BY DEF S3Inv, ObjectsInv
    <3>2. \A j \in Listed : objects'[j] # puts + 1
      BY <1>3, <1>5
    <3> QED  BY <1>4, <1>5, <3>1, <3>2
  <2>3. \A i \in processed', j \in Listed' : objects'[j] < objects'[i] => j \in processed'
    <3>1. \A i \in processed, j \in Listed : objects[j] < objects[i] => j \in processed
      BY DEF S3Inv, ObjectsInv
    <3>2. \A i \in processed : objects'[i] = objects[i] /\ ~ (puts + 1 < objects[i])
      BY <1>3, <1>5
    <3> QED  BY <1>2, <1>4, <1>5, <3>1, <3>2
  <2>4. processed' \subseteq Listed'
    BY <1>2, <1>3, <1>5
  <2> QED  BY <1>2, <1>3, <1>4, <2>1, <2>2, <2>3, <2>4 DEF ObjectsInv
<1>7. S3TypeOK'
  BY <1>2 DEF S3Inv, S3TypeOK
<1>8. LastRow' = LastRow /\ NoStream' = NoStream
  BY <1>2 DEF LastRow, NoStream, NoOffset
<1>9. AllRows \subseteq AllRows' /\ \A r \in AllRows' : r \in AllRows \/ (r[1] = k /\ r[2] = puts + 1)
  <2>1. \A r \in AllRows : r \in AllRows'
    BY <1>5, <1>8 DEF AllRows
  <2>2. \A r \in AllRows' : \E j \in Listed' : \E i \in 1 .. LastRow : r = <<j, objects'[j], i>>
    BY <1>8 DEF AllRows
  <2>3. \A r \in AllRows' : r \in AllRows \/ (r[1] = k /\ r[2] = puts + 1)
    BY <1>4, <1>5, <2>2 DEF AllRows
  <2> QED  BY <2>1, <2>3
<1>10. CASE Broken
  BY <1>2, <1>6, <1>7, <1>10 DEF S3Inv, Broken
<1>11. CASE ~Broken
  <2>1. PICK V, T : S3Cuts(V, T)
    BY <1>11 DEF S3Inv
  <2>2. ChannelInv /\ StreamInv
    BY <1>11 DEF S3Inv
  <2>3. S3Entries \subseteq S3Entries'
    BY <1>9, Zenon DEF S3Entries, Markers, NewSource, FinishedSource, DataEntry
  <2>4. ChannelInv'
    <3>1. channel \in Seq(S3Entries')
      BY <2>2, <2>3 DEF ChannelInv
    <3>2. Ascending(channel)
      BY <2>2 DEF ChannelInv
    <3> QED  BY <1>2, <3>1, <3>2 DEF ChannelInv
  <2>5. StreamInv'
    <3>1. stream # NoStream => stream \in Seq(AllRows')
      BY <1>9, <2>2 DEF StreamInv
    <3> QED  BY <1>2, <1>8, <2>2, <3>1 DEF StreamInv
  <2> DEFINE C == RowsIn(channel)
             R == RowsLeft(stream)
             got == V \cup T \cup C \cup R
  <2>6. RowsIn(channel') = C /\ RowsLeft(stream)' = R
    BY <1>2, <1>8 DEF RowsLeft
  <2>7. FirstPart(V, T, C, R)
    BY <2>1 DEF S3Cuts
  <2> HIDE DEF C, R
  <2>8. /\ got \subseteq AllRows /\ \A r \in got : r[1] \in processed
        /\ \A r \in got, q \in AllRows : Precedes(q, r) => q \in got
        /\ ~loaderFailed /\ ~reported => \A r \in AllRows : r[1] \in processed => r \in got
    BY <2>7, Zenon DEF FirstPart
  <2>9. \A r \in got : r[2] \in Nat /\ r[2] <= puts
    <3>1. \A r \in got : r[2] = objects[r[1]] /\ r[1] \in Listed
      BY <2>8, AllRowsFacts DEF S3Inv
    <3> QED  BY <1>3, <1>5, <3>1
  <2> HIDE DEF got
  <2>10. \A r \in got, q \in AllRows' : Precedes(q, r) => q \in got
    <3> SUFFICES ASSUME NEW r \in got, NEW q \in AllRows', Precedes(q, r), q \notin AllRows
                 PROVE  FALSE
      BY <2>8
    <3>1. q[2] = puts + 1
      BY <1>9
    <3> QED  BY <1>3, <2>9, <3>1 DEF Precedes
  <2>11. \A r \in AllRows' : r[1] \in processed => r \in AllRows
    BY <1>3, <1>5, <1>9
  <2>12. FirstPart(V, T, C, R)'
    <3>1. /\ got \subseteq AllRows' /\ \A r \in got : r[1] \in processed'
          /\ ~loaderFailed' /\ ~reported' => \A r \in AllRows' : r[1] \in processed' => r \in got
      BY <1>2, <1>9, <2>8, <2>11
    <3> QED  BY <2>6, <2>10, <3>1 DEF FirstPart, got, C, R
  <2>13. S3Cuts(V, T)'
    <3>1. InOrder4(V, T, C, R) /\ LastOf(savedFrontier, V) /\ LastOf(frontier, V \cup T)
      BY <2>1 DEF S3Cuts, C, R
    <3>2. visible = Once(V) /\ taken = Once(T)
      BY <2>1 DEF S3Cuts
    <3> QED  BY <1>2, <2>6, <2>12, <3>1, <3>2 DEF S3Cuts, C, R
  <2> QED  BY <1>6, <1>7, <2>4, <2>5, <2>13 DEF S3Inv
<1> QED  BY <1>10, <1>11

\* Steps that leave the objects alone.
LEMMA SameObjects ==
    ASSUME ObjectsInv, objects' = objects, puts' = puts, s3Full' = s3Full
    PROVE  /\ processed' = processed => ObjectsInv'
           /\ Listed' = Listed /\ LastRow' = LastRow /\ AllRows' = AllRows
           /\ S3Entries' = S3Entries /\ NoStream' = NoStream
<1>1. Listed' = Listed /\ LastRow' = LastRow /\ NoStream' = NoStream
  BY DEF Listed, LastRow, NoStream, NoOffset
<1>2. AllRows' = AllRows
  BY <1>1 DEF AllRows
<1>3. S3Entries' = S3Entries
  BY <1>2 DEF S3Entries, Markers, NewSource, FinishedSource, DataEntry
<1>4. processed' = processed => ObjectsInv'
  BY <1>1 DEF ObjectsInv
<1> QED  BY <1>1, <1>2, <1>3, <1>4

\* The entries of the channel are told apart.
LEMMA EntryFacts ==
    ASSUME NEW e \in S3Entries
    PROVE  /\ IsData(e) => e[2] \in AllRows /\ e[3] = 1
           /\ e \in Markers => ~IsData(e)
<1>1. \A m \in Markers : ~IsData(m)
  <2>1. NewSource[1] = "NewSource" /\ FinishedSource(TRUE)[1] = "FinishedSource" /\ <<"Finished">>[1] = "Finished"
    BY DEF NewSource, FinishedSource
  <2> QED  BY <2>1, Zenon DEF Markers, IsData
<1>2. \A r \in AllRows : DataEntry(r, 1)[2] = r /\ DataEntry(r, 1)[3] = 1
  BY DEF DataEntry
<1>3. e \in Markers \/ \E r \in AllRows : e = DataEntry(r, 1)
  BY DEF S3Entries
<1> QED  BY <1>1, <1>2, <1>3

\* The poller takes a row in or closes a time: rows only pass from the channel to the
\* taken ones, and from these to the visible ones.
LEMMA PollS3Inv ==
    ASSUME S3Inv, PollS3
    PROVE  S3Inv'
<1>1. /\ objects' = objects /\ puts' = puts /\ s3Full' = s3Full /\ processed' = processed
      /\ stream' = stream /\ loaderFailed' = loaderFailed /\ deferred' = deferred
  BY DEF PollS3, s3Vars, s3ReadVars
<1>2. readErrors' = readErrors /\ reported' = reported
  BY DEF PollS3, ConnectorNext, HandleEntry, AutocommitTimer, sendVars
<1>3. S3TypeOK' /\ ObjectsInv
  BY <1>1, <1>2 DEF S3Inv, S3TypeOK
<1>4. ObjectsInv' /\ AllRows' = AllRows /\ S3Entries' = S3Entries /\ NoStream' = NoStream
  BY <1>1, <1>3, SameObjects
<1>5. CASE Broken
  BY <1>1, <1>2, <1>3, <1>4, <1>5 DEF S3Inv, Broken
<1>6. CASE ~Broken
  <2>1. PICK V, T : S3Cuts(V, T)
    BY <1>6 DEF S3Inv
  <2>2. ChannelInv /\ StreamInv
    BY <1>6 DEF S3Inv
  <2>3. StreamInv'
    BY <1>1, <1>4, <2>2 DEF StreamInv
  <2>c. PICK C, R : C = RowsIn(channel) /\ R = RowsLeft(stream)
    OBVIOUS
  <2>4. RowsLeft(stream)' = R
    BY <1>1, <1>4, <2>c DEF RowsLeft
  <2>5. /\ visible = Once(V) /\ taken = Once(T) /\ FirstPart(V, T, C, R) /\ InOrder4(V, T, C, R)
        /\ LastOf(savedFrontier, V) /\ LastOf(frontier, V \cup T)
    BY <2>1, <2>c DEF S3Cuts
  <2>6. \A A, B, D : A \cup B \cup D = V \cup T \cup C => (FirstPart(A, B, D, R))'
    <3> SUFFICES ASSUME NEW A, NEW B, NEW D, A \cup B \cup D = V \cup T \cup C
                 PROVE  FirstPart(A, B, D, R)'
      OBVIOUS
    <3>1. A \cup B \cup D \cup R = V \cup T \cup C \cup R
      OBVIOUS
    <3> QED  BY <1>1, <1>2, <1>4, <2>5, <3>1 DEF FirstPart
  <2>7. V \subseteq AllRows /\ T \subseteq AllRows /\ C \subseteq AllRows
    BY <2>5 DEF FirstPart
  <2>8. V \cap T = {}
    BY <1>3, <2>5, <2>7, PrecedesOrder DEF InOrder4, AllBefore
  <2>9. CASE CloseTime
    <3>1. /\ visible' = Concat(visible, taken) /\ taken' = Once({})
          /\ savedFrontier' = frontier /\ frontier' = frontier
      BY <2>9 DEF CloseTime, NoRows
    <3>2. visible' = Once(V \cup T)
      BY <2>5, <2>8, <3>1, OnceUnion
    <3>3. ASSUME channel' \in Seq(S3Entries), Ascending(channel'), RowsIn(channel') = C
          PROVE  ChannelInv' /\ S3Cuts(V \cup T, {})'
      <4>1. ChannelInv'
        BY <1>4, <3>3 DEF ChannelInv
      <4>2. FirstPart(V \cup T, {}, C, R)'
        BY <2>6
      <4>3. InOrder4(V \cup T, {}, C, R)
        BY <2>5 DEF InOrder4, AllBefore
      <4>4. LastOf(frontier, V \cup T) /\ LastOf(frontier, (V \cup T) \cup {})
        BY <2>5
      <4> QED  BY <2>4, <3>1, <3>2, <3>3, <4>1, <4>2, <4>3, <4>4 DEF S3Cuts
    <3>4. channel' \in Seq(S3Entries) /\ Ascending(channel') /\ RowsIn(channel') = C
      <4>1. CASE HandleEntry
        <5>1. channel # << >> /\ channel' = Tail(channel)
          BY <4>1 DEF HandleEntry
        <5>2. ~ IsData(Head(channel))
          <6> SUFFICES ASSUME Head(channel)[1] = "Data"
                       PROVE  FALSE
            BY DEF IsData
          <6>1. TakeRow(Head(channel)[2], Head(channel)[3])
            BY <4>1 DEF HandleEntry
          <6>2. Head(channel)[3] = 1 /\ Head(channel)[2] \in AllRows
            <7>1. Head(channel) \in S3Entries
              BY <2>2, <5>1, ChannelTail DEF ChannelInv
            <7> QED  BY <7>1, EntryFacts DEF IsData
          <6>3. taken' = Concat(taken, Once({Head(channel)[2]}))
            BY <6>1, <6>2, Zenon DEF TakeRow, Once
          <6>4. Head(channel)[2] \in C /\ T \cap {Head(channel)[2]} = {}
            <7>1. Head(channel)[2] \in C
              BY <2>2, <5>1, <2>c, ChannelTail DEF ChannelInv, IsData
            <7> QED  BY <1>3, <2>5, <2>7, <7>1, PrecedesOrder DEF InOrder4, AllBefore
          <6>5. taken' = Once(T \cup {Head(channel)[2]})
            BY <2>5, <6>3, <6>4, OnceUnion
          <6> QED  BY <3>1, <6>5 DEF Once
        <5> QED  BY <2>2, <5>1, <5>2, <2>c, ChannelTail DEF ChannelInv
      <4>2. CASE AutocommitTimer
        BY <2>2, <2>c, <4>2 DEF AutocommitTimer, sendVars, ChannelInv
      <4> QED  BY <4>1, <4>2 DEF PollS3, ConnectorNext
    <3> QED  BY <1>3, <1>4, <2>3, <3>3, <3>4 DEF S3Inv
  <2>10. CASE ~CloseTime
    <3>0. HandleEntry
      BY <2>10 DEF PollS3, ConnectorNext, AutocommitTimer
    <3>1. channel # << >> /\ channel' = Tail(channel)
      BY <3>0, Zenon DEF HandleEntry
    <3>2. /\ channel' \in Seq(S3Entries) /\ Head(channel) \in S3Entries /\ Ascending(channel')
          /\ IsData(Head(channel)) => /\ C = RowsIn(channel') \cup {Head(channel)[2]}
                                      /\ \A q \in RowsIn(channel') : Precedes(Head(channel)[2], q)
          /\ ~ IsData(Head(channel)) => C = RowsIn(channel')
      BY <2>2, <3>1, <2>c, ChannelTail DEF ChannelInv
    <3>3. ChannelInv'
      BY <1>4, <3>2 DEF ChannelInv
    <3>4. CASE Head(channel)[1] = "Data"
      <4>d. PICK r, D : r = Head(channel)[2] /\ D = RowsIn(channel')
        OBVIOUS
      <4>1. r \in AllRows /\ Head(channel)[3] = 1
        BY <3>2, <3>4, <4>d, EntryFacts, Zenon DEF IsData
      <4>2. TakeRow(r, 1)
        BY <3>0, <3>4, <4>1, <4>d DEF HandleEntry
      <4>3. visible' = visible /\ savedFrontier' = savedFrontier /\ frontier' = r /\ taken' = Concat(taken, Once({r}))
        BY <4>2, Zenon DEF TakeRow, Once
      <4>4. C = D \cup {r} /\ \A q \in D : Precedes(r, q)
        BY <3>2, <3>4, <4>d DEF IsData
      <4>5. T \cap {r} = {}
        BY <1>3, <2>5, <2>7, <4>4, PrecedesOrder DEF InOrder4, AllBefore
      <4>6. taken' = Once(T \cup {r})
        BY <2>5, <4>3, <4>5, OnceUnion
      <4>7. FirstPart(V, T \cup {r}, D, R)'
        <5>1. V \cup (T \cup {r}) \cup D = V \cup T \cup C
          BY <4>4
        <5> QED  BY <2>6, <5>1
      <4>8. InOrder4(V, T \cup {r}, D, R)
        BY <2>5, <4>4 DEF InOrder4, AllBefore
      <4>9. LastOf(r, V \cup (T \cup {r}))
        <5>1. \A x \in V \cup T : Precedes(x, r)
          BY <2>5, <4>4, Zenon DEF InOrder4, AllBefore
        <5> QED  BY <5>1 DEF LastOf
      <4>10. S3Cuts(V, T \cup {r})'
        BY <2>4, <2>5, <4>3, <4>6, <4>7, <4>8, <4>9, <4>d DEF S3Cuts
      <4> QED  BY <1>3, <1>4, <2>3, <3>3, <4>10 DEF S3Inv
    <3>5. CASE Head(channel)[1] # "Data"
      <4>1. visible' = visible /\ taken' = taken /\ frontier' = frontier /\ savedFrontier' = savedFrontier
        BY <2>10, <3>0, <3>5 DEF HandleEntry, KeepTime
      <4>2. RowsIn(channel') = C
        BY <3>2, <3>5 DEF IsData
      <4>3. FirstPart(V, T, C, R)'
        BY <2>6
      <4>4. S3Cuts(V, T)'
        BY <2>4, <2>5, <4>1, <4>2, <4>3 DEF S3Cuts
      <4> QED  BY <1>3, <1>4, <2>3, <3>3, <4>4 DEF S3Inv
    <3> QED  BY <3>4, <3>5
  <2> QED  BY <2>9, <2>10
<1> QED  BY <1>5, <1>6

\* A download breaks off: the rows that were still to come are cut short.
LEMMA LoaderFailsInv ==
    ASSUME S3Inv, LoaderFails
    PROVE  S3Inv'
<1>1. /\ objects' = objects /\ puts' = puts /\ s3Full' = s3Full /\ processed' = processed
      /\ deferred' = deferred /\ loaderFailed' = TRUE /\ stream # NoStream
      /\ channel' = channel /\ readErrors' = readErrors /\ reported' = reported
      /\ visible' = visible /\ taken' = taken /\ frontier' = frontier /\ savedFrontier' = savedFrontier
  BY DEF LoaderFails, connectorVars, sendVars, pollVars
<1>2. S3TypeOK' /\ ObjectsInv /\ s3Full \in BOOLEAN
  BY <1>1 DEF S3Inv, S3TypeOK
<1>3. ObjectsInv' /\ AllRows' = AllRows /\ S3Entries' = S3Entries /\ NoStream' = NoStream
  BY <1>1, <1>2, SameObjects
<1>4. CASE s3Full
  BY <1>1, <1>2, <1>3, <1>4 DEF S3Inv, Broken
<1>5. CASE ~s3Full
  <2>1. PICK V, T : S3Cuts(V, T)
    BY <1>5 DEF S3Inv, Broken
  <2>2. ChannelInv /\ StreamInv
    BY <1>5 DEF S3Inv, Broken
  <2>3. PICK n \in 0 .. Len(stream) : stream' = SubSeq(stream, 1, n)
    BY <1>5 DEF LoaderFails
  <2>4. /\ stream \in Seq(AllRows) /\ \A i, j \in 1 .. Len(stream) : i < j => Precedes(stream[i], stream[j])
    BY <1>1, <2>2 DEF StreamInv
  <2>5. /\ Len(stream) \in Nat /\ n \in Nat /\ n <= Len(stream)
        /\ stream' \in Seq(AllRows) /\ Len(stream') = n /\ \A i \in 1 .. n : stream'[i] = stream[i]
    BY <2>3, <2>4
  <2>6. StreamInv' /\ ChannelInv'
    <3>1. \A i, j \in 1 .. n : i < j => Precedes(stream'[i], stream'[j])
      BY <2>4, <2>5
    <3> QED  BY <1>1, <1>3, <1>5, <2>2, <2>5, <3>1, Zenon DEF StreamInv, ChannelInv
  <2>c. PICK C, R, S : C = RowsIn(channel) /\ R = RowsLeft(stream) /\ S = RowsLeft(stream)'
    OBVIOUS
  <2>7. S \subseteq R /\ \A r \in S, q \in R \ S : Precedes(r, q)
    <3>1. R = {stream[i] : i \in 1 .. Len(stream)}
      BY <1>1, <2>c DEF RowsLeft
    <3>2. S \subseteq {stream[i] : i \in 1 .. n}
      BY <2>5, <2>c DEF RowsLeft
    <3>3. S = {} \/ S = {stream[i] : i \in 1 .. n}
      BY <2>5, <2>c DEF RowsLeft
    <3>4. CASE S = {}
      BY <3>4
    <3>5. CASE S = {stream[i] : i \in 1 .. n}
      <4>1. S \subseteq R
        BY <2>5, <3>1, <3>5
      <4>2. ASSUME NEW r \in S, NEW q \in R \ S
            PROVE  Precedes(r, q)
        <5>1. PICK i \in 1 .. n : r = stream[i]
          BY <3>5
        <5>2. PICK j \in 1 .. Len(stream) : q = stream[j]
          BY <3>1
        <5>3. j \notin 1 .. n
          BY <3>5, <5>2
        <5>4. i < j /\ i \in 1 .. Len(stream)
          BY <2>5, <5>3
        <5> QED  BY <2>4, <5>1, <5>2, <5>4
      <4> QED  BY <4>1, <4>2
    <3> QED  BY <3>3, <3>4, <3>5, Zenon
  <2>8. /\ visible = Once(V) /\ taken = Once(T) /\ FirstPart(V, T, C, R) /\ InOrder4(V, T, C, R)
        /\ LastOf(savedFrontier, V) /\ LastOf(frontier, V \cup T)
    BY <2>1, <2>c DEF S3Cuts
  <2>9. InOrder4(V, T, C, S)
    BY <2>7, <2>8, Zenon DEF InOrder4, AllBefore
  <2>10. FirstPart(V, T, C, S)'
    <3>1. /\ V \cup T \cup C \cup R \subseteq AllRows
          /\ \A r \in V \cup T \cup C \cup R : r[1] \in processed
          /\ \A r \in V \cup T \cup C \cup R, q \in AllRows : Precedes(q, r) => q \in V \cup T \cup C \cup R
      BY <2>8, Zenon DEF FirstPart
    <3>2. \A r \in V \cup T \cup C \cup S, q \in R \ S : Precedes(r, q)
      BY <2>7, <2>8 DEF InOrder4, AllBefore
    <3>3. ASSUME NEW r \in V \cup T \cup C \cup S, NEW q \in AllRows, Precedes(q, r)
          PROVE  q \in V \cup T \cup C \cup S
      <4>1. q \in V \cup T \cup C \cup R /\ r \in AllRows
        BY <2>7, <3>1, <3>3
      <4>2. q \notin R \ S
        BY <1>2, <3>2, <3>3, <4>1, PrecedesOrder, Zenon
      <4> QED  BY <4>1, <4>2
    <3> QED  BY <1>1, <1>3, <2>7, <3>1, <3>3 DEF FirstPart
  <2>11. S3Cuts(V, T)'
    BY <1>1, <2>8, <2>9, <2>10, <2>c DEF S3Cuts
  <2> QED  BY <1>2, <1>3, <2>6, <2>11 DEF S3Inv
<1> QED  BY <1>2, <1>4, <1>5

\* A marker is sent, the rows stay where they are.
LEMMA MarkerSent ==
    ASSUME ObjectsInv, ChannelInv, NEW m \in Markers, channel' = Append(channel, m),
           S3Entries' = S3Entries
    PROVE  ChannelInv' /\ RowsIn(channel') = RowsIn(channel)
<1>1. m \in S3Entries /\ ~IsData(m)
  BY EntryFacts DEF S3Entries
<1>a. channel \in Seq(S3Entries) /\ Ascending(channel)
  BY DEF ChannelInv
<1>b. /\ Append(channel, m) \in Seq(S3Entries) /\ Ascending(Append(channel, m))
      /\ RowsIn(Append(channel, m)) = RowsIn(channel) \cup (IF IsData(m) THEN {m[2]} ELSE {})
  BY <1>1, <1>a, ChannelAppend, Zenon
<1>2. channel' \in Seq(S3Entries) /\ Ascending(channel') /\ RowsIn(channel') = RowsIn(channel)
  BY <1>1, <1>b
<1> QED  BY <1>2 DEF ChannelInv

\* The reader passes a row on.
LEMMA NextRowInv ==
    ASSUME S3Inv, ReadS3, NextRow
    PROVE  S3Inv'
<1>1. /\ objects' = objects /\ puts' = puts /\ s3Full' = s3Full /\ processed' = processed
      /\ loaderFailed' = loaderFailed /\ readErrors' = 0 /\ reported' = reported
      /\ visible' = visible /\ taken' = taken /\ frontier' = frontier /\ savedFrontier' = savedFrontier
  BY DEF ReadS3, NextRow, Send, pollVars
<1>2. /\ stream # << >> /\ stream # NoStream /\ channel' = Append(channel, DataEntry(Head(stream), 1))
      /\ stream' = (IF s3Full THEN NoStream ELSE Tail(stream)) /\ deferred' = s3Full
  BY DEF NextRow, Send
<1>3. S3TypeOK' /\ ObjectsInv /\ s3Full \in BOOLEAN
  BY <1>1, <1>2 DEF S3Inv, S3TypeOK
<1>4. ObjectsInv' /\ AllRows' = AllRows /\ S3Entries' = S3Entries /\ NoStream' = NoStream
  BY <1>1, <1>3, SameObjects
<1>5. CASE Broken
  BY <1>1, <1>3, <1>4, <1>5 DEF S3Inv, Broken
<1>6. CASE ~Broken
  <2>1. PICK V, T : S3Cuts(V, T)
    BY <1>6 DEF S3Inv
  <2>2. ChannelInv /\ StreamInv
    BY <1>6 DEF S3Inv
  <2>3. /\ stream \in Seq(AllRows) /\ \A i, j \in 1 .. Len(stream) : i < j => Precedes(stream[i], stream[j])
        /\ s3Full => Len(stream) <= 1
    BY <1>2, <2>2 DEF StreamInv
  <2>c. PICK C, R, S, r : /\ C = RowsIn(channel) /\ R = RowsLeft(stream) /\ S = RowsLeft(stream)'
                          /\ r = Head(stream)
    OBVIOUS
  <2>4. /\ Len(stream) \in Nat /\ Len(stream) >= 1 /\ r = stream[1] /\ r \in AllRows
        /\ Tail(stream) \in Seq(AllRows) /\ Len(Tail(stream)) = Len(stream) - 1
        /\ \A i \in 1 .. Len(Tail(stream)) : Tail(stream)[i] = stream[i + 1]
    BY <1>2, <2>3, <2>c
  <2>5. StreamInv'
    <3>1. CASE s3Full
      BY <1>2, <1>4, <3>1, Zenon DEF StreamInv
    <3>2. CASE ~s3Full
      <4>1. stream' = Tail(stream)
        BY <1>2, <3>2, Zenon
      <4>2. \A i, j \in 1 .. Len(stream') : i < j => Precedes(stream'[i], stream'[j])
        <5> SUFFICES ASSUME NEW i \in 1 .. Len(stream'), NEW j \in 1 .. Len(stream'), i < j
                     PROVE  Precedes(stream'[i], stream'[j])
          OBVIOUS
        <5>1. i + 1 \in 1 .. Len(stream) /\ j + 1 \in 1 .. Len(stream) /\ i + 1 < j + 1
          BY <2>4, <4>1
        <5> QED  BY <2>3, <2>4, <4>1, <5>1
      <4> QED  BY <1>1, <1>4, <2>4, <3>2, <4>1, <4>2 DEF StreamInv
    <3> QED  BY <1>3, <3>1, <3>2
  <2>6. R = S \cup {r} /\ \A q \in S : Precedes(r, q)
    <3>1. R = {stream[i] : i \in 1 .. Len(stream)}
      BY <1>2, <2>c DEF RowsLeft
    <3>2. 1 \in 1 .. Len(stream)
      BY <2>4
    <3>3. CASE s3Full
      <4>1. S = {} /\ Len(stream) = 1
        BY <1>2, <1>4, <2>3, <2>4, <2>c, <3>3 DEF RowsLeft
      <4> QED  BY <2>4, <3>1, <4>1
    <3>4. CASE ~s3Full
      <4>1. stream' # NoStream
        <5> SUFFICES ASSUME stream' = NoStream
                     PROVE  FALSE
          OBVIOUS
        <5>1. NoOffset \in AllRows
          <6>1. stream' \in Seq(AllRows) /\ stream' = <<NoOffset>>
            BY <1>2, <2>4, <3>4 DEF NoStream
          <6>2. Len(stream') = 1 /\ stream'[1] = NoOffset
            BY <6>1
          <6> QED  BY <6>1, <6>2
        <5>2. NoOffset[2] # 0
          BY <1>3, <5>1, AllRowsFacts, Zenon
        <5> QED  BY <5>2 DEF NoOffset
      <4>2. S = {stream'[i] : i \in 1 .. Len(stream')}
        BY <1>4, <2>c, <4>1, Zenon DEF RowsLeft
      <4>3. stream' = Tail(stream)
        BY <1>2, <3>4
      <4>4. \A i \in 1 .. Len(stream) : i = 1 \/ (i - 1 \in 1 .. Len(stream') /\ stream[i] = stream'[i - 1])
        BY <2>4, <4>3
      <4>5. \A i \in 1 .. Len(stream') : i + 1 \in 1 .. Len(stream) /\ 1 < i + 1 /\ stream'[i] = stream[i + 1]
        BY <2>4, <4>3
      <4>6. S \subseteq R /\ \A q \in S : Precedes(r, q)
        BY <2>3, <2>4, <3>1, <3>2, <4>2, <4>5, Zenon
      <4>7. \A q \in R : q = r \/ q \in S
        BY <2>4, <3>1, <4>2, <4>4
      <4>8. r \in R
        BY <2>4, <3>1, <3>2
      <4> QED  BY <4>6, <4>7, <4>8
    <3> QED  BY <1>3, <3>3, <3>4
  <2>7. /\ visible = Once(V) /\ taken = Once(T) /\ FirstPart(V, T, C, R) /\ InOrder4(V, T, C, R)
        /\ LastOf(savedFrontier, V) /\ LastOf(frontier, V \cup T)
    BY <2>1, <2>c, Zenon DEF S3Cuts
  <2>8. DataEntry(r, 1) \in S3Entries /\ IsData(DataEntry(r, 1)) /\ DataEntry(r, 1)[2] = r
    BY <2>4 DEF S3Entries, DataEntry, IsData
  <2>9. ChannelInv' /\ RowsIn(channel') = C \cup {r}
    <3>1. \A q \in C : Precedes(q, r)
      BY <2>6, <2>7, Zenon DEF InOrder4, AllBefore
    <3>2. /\ channel' \in Seq(S3Entries) /\ Ascending(channel') /\ RowsIn(channel') = C \cup {r}
      BY <1>2, <2>2, <2>8, <2>c, <3>1, ChannelAppend DEF ChannelInv
    <3> QED  BY <1>4, <3>2 DEF ChannelInv
  <2>10. InOrder4(V, T, C \cup {r}, S)
    BY <2>6, <2>7, Zenon DEF InOrder4, AllBefore
  <2>11. FirstPart(V, T, C \cup {r}, S)'
    <3>1. V \cup T \cup (C \cup {r}) \cup S = V \cup T \cup C \cup R
      BY <2>6, Zenon
    <3> QED  BY <1>1, <1>4, <2>7, <3>1 DEF FirstPart
  <2>12. S3Cuts(V, T)'
    BY <1>1, <2>7, <2>9, <2>10, <2>11, <2>c DEF S3Cuts
  <2> QED  BY <1>3, <1>4, <2>5, <2>9, <2>12 DEF S3Inv
<1> QED  BY <1>5, <1>6

\* The next object is the oldest that is new: all its rows come after all that were got.
LEMMA NewObjectInv ==
    ASSUME S3Inv, ReadS3, StreamNext, ~loaderFailed, Listed \ processed # {}
    PROVE  S3Inv'
<1>1. /\ objects' = objects /\ puts' = puts /\ s3Full' = s3Full /\ deferred' = deferred
      /\ loaderFailed' = FALSE /\ ~reported
      /\ visible' = visible /\ taken' = taken /\ frontier' = frontier /\ savedFrontier' = savedFrontier
  BY DEF ReadS3, StreamNext, CanRead, pollVars
<1>2. PICK k \in Listed \ processed :
         /\ \A j \in (Listed \ processed) \ {k} : Older(k, j)
         /\ stream' = RowsOf(k) /\ processed' = processed \cup {k}
  BY DEF StreamNext, JoinFails
<1>3. /\ stream \in {<< >>, NoStream} /\ channel' = Append(channel, NewSource) /\ readErrors' = 0
      /\ reported' = reported
  BY DEF StreamNext, JoinFails, Send
<1>4. S3TypeOK' /\ ObjectsInv /\ ~Broken
  BY <1>1, <1>3, Zenon DEF S3Inv, S3TypeOK, Broken
<1>5. AllRows' = AllRows /\ S3Entries' = S3Entries /\ NoStream' = NoStream /\ Listed' = Listed
  BY <1>1, <1>4, SameObjects, Zenon
<1>6. /\ objects \in [ObjectKeys -> Nat] /\ Listed \subseteq ObjectKeys /\ processed \subseteq Listed
      /\ \A i, j \in Listed : objects[i] = objects[j] => i = j
      /\ \A i \in processed, j \in Listed : objects[j] < objects[i] => j \in processed
  BY <1>4 DEF ObjectsInv, Listed
<1>7. \A j \in Listed : objects[j] \in Nat
  BY <1>6
<1>8. \A j \in processed : objects[j] < objects[k]
  <2> SUFFICES ASSUME NEW j \in processed, ~ (objects[j] < objects[k])
               PROVE  FALSE
    OBVIOUS
  <2>1. objects[k] < objects[j] \/ objects[j] = objects[k]
    BY <1>6, <1>7
  <2> QED  BY <1>2, <1>6, <2>1
<1>9. \A j \in Listed : objects[j] < objects[k] => j \in processed
  <2> SUFFICES ASSUME NEW j \in Listed, objects[j] < objects[k], j \notin processed
               PROVE  FALSE
    BY Zenon
  <2>1. j # k
    BY <1>2, <1>7
  <2>2. objects[k] < objects[j] \/ objects[k] = objects[j]
    BY <1>2, <2>1, Zenon DEF Older
  <2> QED  BY <1>2, <1>7, <2>2
<1>10. ObjectsInv'
  <2>1. processed' \subseteq Listed'
    BY <1>2, <1>5, <1>6, Zenon
  <2>2. \A i \in processed', j \in Listed' : objects'[j] < objects'[i] => j \in processed'
    BY <1>1, <1>2, <1>5, <1>6, <1>9
  <2> QED  BY <1>1, <1>4, <1>5, <2>1, <2>2 DEF ObjectsInv
<1>11. PICK V, T : S3Cuts(V, T)
  BY <1>4 DEF S3Inv
<1>12. ChannelInv /\ StreamInv
  BY <1>4 DEF S3Inv
<1>c. PICK C, S : C = RowsIn(channel) /\ S = {<<k, objects[k], i>> : i \in 1 .. LastRow}
  BY Zenon
<1>13. RowsLeft(stream) = {}
  BY <1>3 DEF RowsLeft
<1>14. /\ visible = Once(V) /\ taken = Once(T) /\ FirstPart(V, T, C, {}) /\ InOrder4(V, T, C, {})
       /\ LastOf(savedFrontier, V) /\ LastOf(frontier, V \cup T)
  BY <1>11, <1>13, <1>c, Zenon DEF S3Cuts
<1>15. ChannelInv' /\ RowsIn(channel') = C
  BY <1>3, <1>4, <1>5, <1>12, <1>c, MarkerSent DEF Markers
<1>0. LastRow \in Nat /\ (s3Full => LastRow = 1)
  BY S3Assumption, Zenon DEF LastRow
<1>16. S \subseteq AllRows /\ \A r \in S : r[1] = k /\ r[2] = objects[k] /\ r[3] \in 1 .. LastRow /\ r = <<k, objects[k], r[3]>>
  BY <1>2, <1>4, <1>c, AllRowsFacts
<1>17. /\ stream' \in Seq(AllRows) /\ Len(stream') = LastRow
       /\ \A i \in 1 .. LastRow : stream'[i] = <<k, objects[k], i>>
  <2>1. stream' = [i \in 1 .. LastRow |-> <<k, objects[k], i>>]
    BY <1>2 DEF RowsOf, LastRow
  <2>2. \A i \in 1 .. LastRow : <<k, objects[k], i>> \in AllRows
    BY <1>2, <1>4, AllRowsFacts
  <2> QED  BY <1>0, <2>1, <2>2
<1>18. stream' # NoStream
  <2> SUFFICES ASSUME stream' = NoStream
               PROVE  FALSE
    OBVIOUS
  <2>1. LastRow = 1 /\ stream'[1] = NoOffset
    BY <1>17 DEF NoStream
  <2>2. objects[k] = 0
    BY <1>17, <2>1 DEF NoOffset
  <2> QED  BY <1>2, <2>2 DEF Listed
<1>19. StreamInv'
  <2>1. \A i, j \in 1 .. LastRow : i < j => Precedes(stream'[i], stream'[j])
    <3> SUFFICES ASSUME NEW i \in 1 .. LastRow, NEW j \in 1 .. LastRow, i < j
                 PROVE  Precedes(<<k, objects[k], i>>, <<k, objects[k], j>>)
      BY <1>17, Zenon
    <3> QED  BY DEF Precedes
  <2> QED  BY <1>0, <1>1, <1>5, <1>17, <2>1 DEF StreamInv
<1>20. RowsLeft(stream)' = S
  <2>1. RowsLeft(stream)' = {stream'[i] : i \in 1 .. Len(stream')}
    BY <1>5, <1>18, Zenon DEF RowsLeft
  <2> QED  BY <1>17, <1>c, <2>1, Zenon
<1>21. /\ V \cup T \cup C \subseteq AllRows /\ \A r \in V \cup T \cup C : r[1] \in processed
       /\ \A r \in V \cup T \cup C, q \in AllRows : Precedes(q, r) => q \in V \cup T \cup C
       /\ \A r \in AllRows : r[1] \in processed => r \in V \cup T \cup C
  <2>1. V \cup T \cup C \cup {} = V \cup T \cup C
    OBVIOUS
  <2> QED  BY <1>1, <1>14, <2>1 DEF FirstPart
<1>22. \A r \in V \cup T \cup C, q \in S : Precedes(r, q)
  <2> SUFFICES ASSUME NEW r \in V \cup T \cup C, NEW q \in S
               PROVE  Precedes(r, q)
    OBVIOUS
  <2>1. r[2] = objects[r[1]] /\ r[1] \in processed
    BY <1>4, <1>21, AllRowsFacts, Zenon
  <2> QED  BY <1>8, <1>16, <2>1 DEF Precedes
<1>23. InOrder4(V, T, C, S)
  BY <1>14, <1>22, Zenon DEF InOrder4, AllBefore
<1>24. \A r \in S, q \in AllRows : Precedes(q, r) => q \in V \cup T \cup C \cup S
  <2> SUFFICES ASSUME NEW r \in S, NEW q \in AllRows, Precedes(q, r)
               PROVE  q \in V \cup T \cup C \cup S
    OBVIOUS
  <2>1. q[1] \in Listed /\ q[2] = objects[q[1]] /\ q[3] \in 1 .. LastRow /\ q = <<q[1], q[2], q[3]>>
    BY <1>4, AllRowsFacts, Zenon
  <2>2. objects[q[1]] < objects[k] \/ objects[q[1]] = objects[k]
    BY <1>16, <2>1, Zenon DEF Precedes
  <2>3. CASE objects[q[1]] < objects[k]
    BY <1>9, <1>21, <2>1, <2>3
  <2>4. CASE objects[q[1]] = objects[k]
    <3>1. q[1] = k
      BY <1>2, <1>6, <2>1, <2>4, Zenon
    <3> QED  BY <1>c, <2>1, <3>1, Zenon
  <2> QED  BY <2>2, <2>3, <2>4
<1>25. \A r \in AllRows : r[1] \in processed \cup {k} => r \in V \cup T \cup C \cup S
  <2> SUFFICES ASSUME NEW r \in AllRows, r[1] = k
               PROVE  r \in S
    BY <1>21
  <2> QED  BY <1>4, <1>c, AllRowsFacts
<1>26. FirstPart(V, T, C, S)'
  <2>1. \A r \in V \cup T \cup C \cup S : r[1] \in processed'
    BY <1>2, <1>16, <1>21, Zenon
  <2>2. V \cup T \cup C \cup S \subseteq AllRows'
    BY <1>5, <1>16, <1>21
  <2>3. \A r \in V \cup T \cup C \cup S, q \in AllRows' : Precedes(q, r) => q \in V \cup T \cup C \cup S
    BY <1>5, <1>21, <1>24, Zenon
  <2>4. \A r \in AllRows' : r[1] \in processed' => r \in V \cup T \cup C \cup S
    BY <1>2, <1>5, <1>25, Zenon
  <2> QED  BY <2>1, <2>2, <2>3, <2>4, Zenon DEF FirstPart
<1>27. S3Cuts(V, T)'
  BY <1>1, <1>14, <1>15, <1>20, <1>23, <1>26 DEF S3Cuts
<1> QED  BY <1>4, <1>10, <1>15, <1>19, <1>27, Zenon DEF S3Inv

\* Steps of the reader that move no row.
LEMMA MarkerInv ==
    ASSUME S3Inv, ReadS3, stream' = stream, processed' = processed, reported \in BOOLEAN,
           \/ /\ loaderFailed' = loaderFailed /\ reported' = reported /\ readErrors' = 0 /\ deferred' \in BOOLEAN
              /\ \E m \in Markers : channel' = Append(channel, m)
           \/ /\ loaderFailed' = FALSE /\ reported' = TRUE /\ readErrors' \in Nat /\ deferred' \in BOOLEAN
              /\ channel' = channel
    PROVE  S3Inv'
<1>1. /\ objects' = objects /\ puts' = puts /\ s3Full' = s3Full /\ ~reported
      /\ visible' = visible /\ taken' = taken /\ frontier' = frontier /\ savedFrontier' = savedFrontier
  BY DEF ReadS3, CanRead, pollVars
<1>2. S3TypeOK' /\ ObjectsInv
  <2>1. S3TypeOK /\ ObjectsInv
    BY DEF S3Inv
  <2>2. readErrors' \in Nat
    BY <2>1 DEF S3TypeOK
  <2> QED  BY <1>1, <2>1, <2>2, Zenon DEF S3TypeOK
<1>3. ObjectsInv' /\ AllRows' = AllRows /\ S3Entries' = S3Entries /\ NoStream' = NoStream
  BY <1>1, <1>2, SameObjects, Zenon
<1>4. CASE Broken
  BY <1>1, <1>2, <1>3, <1>4, Zenon DEF S3Inv, Broken
<1>5. CASE ~Broken
  <2>1. PICK V, T : S3Cuts(V, T)
    BY <1>5 DEF S3Inv
  <2>2. ChannelInv /\ StreamInv
    BY <1>5 DEF S3Inv
  <2>c. PICK C, R : C = RowsIn(channel) /\ R = RowsLeft(stream)
    BY Zenon
  <2>3. /\ visible = Once(V) /\ taken = Once(T) /\ FirstPart(V, T, C, R) /\ InOrder4(V, T, C, R)
        /\ LastOf(savedFrontier, V) /\ LastOf(frontier, V \cup T)
    BY <2>1, <2>c DEF S3Cuts
  <2>4. ChannelInv' /\ RowsIn(channel') = C
    <3>1. CASE channel' = channel
      BY <1>3, <2>2, <2>c, <3>1 DEF ChannelInv
    <3>2. CASE \E m \in Markers : channel' = Append(channel, m)
      BY <1>2, <1>3, <2>2, <2>c, <3>2, MarkerSent, Zenon
    <3> QED  BY <3>1, <3>2
  <2>5. StreamInv' /\ RowsLeft(stream)' = R
    BY <1>1, <1>3, <2>2, <2>c, Zenon DEF StreamInv, RowsLeft
  <2>6. FirstPart(V, T, C, R)'
    BY <1>1, <1>3, <2>3, Zenon DEF FirstPart
  <2>7. S3Cuts(V, T)'
    BY <1>1, <2>3, <2>4, <2>5, <2>6 DEF S3Cuts
  <2> QED  BY <1>2, <1>3, <2>4, <2>5, <2>7 DEF S3Inv
<1> QED  BY <1>4, <1>5

\* What a call of read does.
LEMMA ReadS3Inv ==
    ASSUME S3Inv, ReadS3
    PROVE  S3Inv'
<1>1. reported \in BOOLEAN /\ loaderFailed \in BOOLEAN /\ deferred \in BOOLEAN /\ readErrors \in Nat
  BY DEF S3Inv, S3TypeOK
<1>2. CASE NextRow
  BY <1>2, NextRowInv
<1>3. CASE SendDeferred
  BY <1>1, <1>3, MarkerInv, Zenon DEF SendDeferred, Send, Markers
<1>4. CASE StreamNext
  <2>1. CASE loaderFailed
    <3>1. /\ FailRead(0) /\ processed' = processed /\ stream' = stream /\ loaderFailed' = FALSE /\ deferred' = deferred
      BY <1>4, <2>1 DEF StreamNext, JoinFails
    <3>2. readErrors' \in Nat /\ reported' = TRUE /\ channel' = channel
      <4>1. readErrors + 1 \in Nat /\ readErrors + 1 > 0
        BY <1>1
      <4> QED  BY <3>1, <4>1, Zenon DEF FailRead
    <3> QED  BY <1>1, <3>1, <3>2, MarkerInv, Zenon
  <2>2. CASE ~loaderFailed /\ Listed \ processed # {}
    BY <1>4, <2>2, NewObjectInv
  <2>3. CASE ~loaderFailed /\ Listed \ processed = {}
    <3>1. /\ Send(<<"Finished">>) /\ processed' = processed /\ stream' = stream
          /\ loaderFailed' = FALSE /\ deferred' = deferred
      BY <1>4, <2>3 DEF StreamNext, JoinFails
    <3>2. readErrors' = 0 /\ reported' = reported /\ channel' = Append(channel, <<"Finished">>)
      BY <3>1 DEF Send
    <3>3. <<"Finished">> \in Markers /\ loaderFailed' = loaderFailed
      BY <1>1, <2>3, <3>1, Zenon DEF Markers
    <3> QED  BY <1>1, <3>1, <3>2, <3>3, MarkerInv, Zenon
  <2> QED  BY <2>1, <2>2, <2>3
<1> QED  BY <1>2, <1>3, <1>4 DEF ReadS3

\* A reader by lines that starts again goes on after the last row that is visible.
LEMMA RestartS3Inv ==
    ASSUME S3Inv, RestartS3, WholeRestarts = FALSE
    PROVE  S3Inv'
<1>1. /\ objects' = objects /\ puts' = puts /\ s3Full' = s3Full /\ ~s3Full /\ deferred' = FALSE
      /\ loaderFailed' = FALSE
  BY Zenon DEF RestartS3
<1>2. /\ channel' = << >> /\ readErrors' = 0 /\ reported' = FALSE /\ taken' = Once({})
      /\ frontier' = savedFrontier /\ visible' = visible /\ savedFrontier' = savedFrontier
  BY DEF RestartS3, ConnectorRestart, NoRows
<1>3. S3TypeOK' /\ ObjectsInv /\ ~Broken
  BY <1>1, <1>2, Zenon DEF S3Inv, S3TypeOK, Broken
<1>4. AllRows' = AllRows /\ S3Entries' = S3Entries /\ NoStream' = NoStream /\ Listed' = Listed
  BY <1>1, <1>3, SameObjects, Zenon
<1>5. ChannelInv' /\ RowsIn(channel') = {}
  BY <1>2 DEF ChannelInv, Ascending, RowsIn
<1>6. PICK V, T : S3Cuts(V, T)
  BY <1>3 DEF S3Inv
<1>c. PICK C, R : C = RowsIn(channel) /\ R = RowsLeft(stream)
  OBVIOUS
<1>7. /\ visible = Once(V) /\ FirstPart(V, T, C, R) /\ InOrder4(V, T, C, R) /\ LastOf(savedFrontier, V)
  BY <1>6, <1>c DEF S3Cuts
<1>8. /\ V \subseteq AllRows /\ T \subseteq AllRows /\ C \subseteq AllRows /\ R \subseteq AllRows
      /\ \A r \in V, q \in AllRows : Precedes(q, r) => q \in V \cup T \cup C \cup R
  <2>1. /\ V \cup T \cup C \cup R \subseteq AllRows
        /\ \A r \in V \cup T \cup C \cup R, q \in AllRows : Precedes(q, r) => q \in V \cup T \cup C \cup R
    BY <1>7, Zenon DEF FirstPart
  <2> QED  BY <2>1
<1>9. \A r \in V, q \in AllRows : Precedes(q, r) => q \in V
  <2> SUFFICES ASSUME NEW r \in V, NEW q \in AllRows, Precedes(q, r), q \in T \cup C \cup R
               PROVE  FALSE
    BY <1>8
  <2>1. Precedes(r, q)
    BY <1>7 DEF InOrder4, AllBefore
  <2> QED  BY <1>3, <1>8, <2>1, PrecedesOrder
<1>10. \A r \in AllRows : /\ r[1] \in Listed /\ r[2] = objects[r[1]] /\ r[3] \in 1 .. LastRow
                          /\ r = <<r[1], r[2], r[3]>> /\ r[2] \in Nat /\ r[2] # 0
  BY <1>3, AllRowsFacts, Zenon
<1>11. ASSUME ObjectsInv', StreamInv', NEW S, RowsLeft(stream') = S,
              S \subseteq AllRows, \A r \in V \cup S : r[1] \in processed',
              \A r \in S, q \in AllRows : Precedes(q, r) => q \in V \cup S,
              \A r \in AllRows : r[1] \in processed' => r \in V \cup S,
              \A r \in V, q \in S : Precedes(r, q)
       PROVE  S3Inv'
  <2>1. V \cup {} \cup {} \cup S = V \cup S /\ V \cup {} = V
    BY Zenon
  <2>2. FirstPart(V, {}, {}, S)'
    <3>1. V \cup S \subseteq AllRows' /\ \A r \in V \cup S, q \in AllRows' : Precedes(q, r) => q \in V \cup S
      BY <1>4, <1>8, <1>9, <1>11, Zenon
    <3>2. \A r \in AllRows' : r[1] \in processed' => r \in V \cup S
      BY <1>4, <1>11, Zenon
    <3> QED  BY <1>11, <2>1, <3>1, <3>2 DEF FirstPart
  <2>3. InOrder4(V, {}, {}, S)
    BY <1>11, Zenon DEF InOrder4, AllBefore
  <2>4. RowsLeft(stream)' = S
    BY <1>4, <1>11, Zenon DEF RowsLeft
  <2>5. S3Cuts(V, {})'
    BY <1>2, <1>5, <1>7, <2>1, <2>2, <2>3, <2>4, Zenon DEF S3Cuts
  <2> QED  BY <1>3, <1>5, <1>11, <2>5 DEF S3Inv
<1>12. CASE savedFrontier = NoOffset
  <2>1. processed' = {} /\ stream' = NoStream
    BY <1>12 DEF RestartS3
  <2>2. V = {}
    <3> SUFFICES ASSUME V # {}
                 PROVE  FALSE
      OBVIOUS
    <3>1. NoOffset \in AllRows
      BY <1>7, <1>8, <1>12, Zenon DEF LastOf
    <3> QED  BY <1>10, <3>1 DEF NoOffset
  <2>3. RowsLeft(stream') = {} /\ StreamInv'
    BY <1>4, <2>1, Zenon DEF RowsLeft, StreamInv
  <2>4. ObjectsInv'
    BY <1>1, <1>3, <1>4, <2>1, Zenon DEF ObjectsInv
  <2> QED  BY <1>11, <2>1, <2>2, <2>3, <2>4, Zenon
<1>13. CASE savedFrontier # NoOffset
  <2>1. V # {} /\ savedFrontier \in V /\ \A r \in V : r = savedFrontier \/ Precedes(r, savedFrontier)
    BY <1>7, <1>13 DEF LastOf
  <2>c. PICK f, k, n, o : f = savedFrontier /\ k = savedFrontier[1] /\ n = savedFrontier[3] /\ o = objects[k]
    OBVIOUS
  <2>2. /\ f \in V /\ f \in AllRows /\ k \in Listed /\ n \in 1 .. LastRow /\ f = <<k, o, n>> /\ o \in Nat /\ o # 0
    BY <1>8, <1>10, <2>1, <2>c, Zenon
  <2>3. processed' = SeekTo(k) /\ stream' = SubSeq(RowsOf(k), n + 1, ObjectRows)
    BY <1>1, <1>13, <2>c DEF RestartS3
  <2>4. LastRow = ObjectRows /\ LastRow \in Nat
    BY <1>1, S3Assumption, Zenon DEF LastRow
  <2>5. RowsOf(k) = [i \in 1 .. LastRow |-> <<k, o, i>>]
    BY <2>c, Zenon DEF RowsOf, LastRow
  <2>6. /\ objects \in [ObjectKeys -> Nat] /\ Listed \subseteq ObjectKeys
        /\ \A i, j \in Listed : objects[i] = objects[j] => i = j
    BY <1>3, Zenon DEF ObjectsInv, Listed
  <2>7. \A j \in Listed : j \in processed' <=> objects[j] < o \/ j = k
    BY <2>2, <2>3, <2>6, <2>c DEF SeekTo, Older
  <2>8. processed' \subseteq Listed
    BY <2>2, <2>3, Zenon DEF SeekTo
  <2>9. ObjectsInv'
    <3>1. \A i \in processed', j \in Listed : objects[j] < objects[i] => j \in processed'
      <4> SUFFICES ASSUME NEW i \in processed', NEW j \in Listed, objects[j] < objects[i]
                   PROVE  objects[j] < o
        BY <2>7, Zenon
      <4>1. objects[i] \in Nat /\ objects[j] \in Nat /\ (objects[i] < o \/ objects[i] = o)
        BY <2>6, <2>7, <2>8, <2>c
      <4> QED  BY <2>2, <4>1
    <3> QED  BY <1>1, <1>3, <1>4, <2>8, <3>1, Zenon DEF ObjectsInv
  <2>d. PICK S : S = {<<k, o, i>> : i \in (n + 1) .. LastRow}
    BY Zenon
  <2>10. \A i \in 1 .. LastRow : <<k, o, i>> \in AllRows
    BY <1>3, <2>2, <2>c, AllRowsFacts
  <2>11. /\ Len(stream') = LastRow - n /\ stream' \in Seq(AllRows)
         /\ \A i \in 1 .. Len(stream') : stream'[i] = <<k, o, i + n>>
    <3>1. RowsOf(k) \in Seq(AllRows) /\ Len(RowsOf(k)) = LastRow
      BY <2>4, <2>5, <2>10
    <3>2. /\ Len(stream') = LastRow - n
          /\ \A i \in 1 .. LastRow - n : stream'[i] = RowsOf(k)[i + n] /\ i + n \in 1 .. LastRow
      BY <2>2, <2>3, <2>4, <3>1
    <3>3. stream' \in Seq(AllRows)
      BY <2>2, <2>3, <2>4, <3>1
    <3> QED  BY <2>5, <3>2, <3>3, Zenon
  <2>12. stream' # NoStream
    <3> SUFFICES ASSUME stream' = NoStream
                 PROVE  FALSE
      OBVIOUS
    <3>1. Len(stream') = 1 /\ stream'[1] = NoOffset
      BY DEF NoStream
    <3>a. 1 \in 1 .. Len(stream')
      BY <3>1
    <3>2. NoOffset = <<k, o, 1 + n>>
      BY <2>11, <3>1, <3>a, Zenon
    <3> QED  BY <2>2, <3>2 DEF NoOffset
  <2>13. StreamInv'
    <3>1. \A i, j \in 1 .. Len(stream') : i < j => Precedes(stream'[i], stream'[j])
      <4> SUFFICES ASSUME NEW i \in 1 .. Len(stream'), NEW j \in 1 .. Len(stream'), i < j
                   PROVE  Precedes(<<k, o, i + n>>, <<k, o, j + n>>)
        BY <2>11, Zenon
      <4>1. i + n < j + n
        BY <2>2, <2>4, <2>11
      <4> QED  BY <4>1 DEF Precedes
    <3> QED  BY <1>1, <1>4, <2>11, <3>1, Zenon DEF StreamInv
  <2>14. RowsLeft(stream') = S
    <3>1. RowsLeft(stream') = {stream'[i] : i \in 1 .. Len(stream')}
      BY <2>12, Zenon DEF RowsLeft
    <3>2. \A i \in 1 .. Len(stream') : i + n \in (n + 1) .. LastRow
      BY <2>2, <2>4, <2>11
    <3>3. \A i \in (n + 1) .. LastRow : i - n \in 1 .. Len(stream') /\ (i - n) + n = i
      BY <2>2, <2>4, <2>11
    <3>4. \A r \in S : \E i \in 1 .. Len(stream') : r = stream'[i]
      BY <2>11, <2>d, <3>3, Zenon
    <3>5. \A i \in 1 .. Len(stream') : stream'[i] \in S
      <4> SUFFICES ASSUME NEW i \in 1 .. Len(stream')
                   PROVE  <<k, o, i + n>> \in S
        BY <2>11, Zenon
      <4> QED  BY <2>d, <3>2
    <3> QED  BY <3>1, <3>4, <3>5
  <2>15. S \subseteq AllRows /\ \A r \in S : r[1] = k /\ r[2] = o /\ r[3] \in (n + 1) .. LastRow
    <3>1. \A i \in (n + 1) .. LastRow : i \in 1 .. LastRow
      BY <2>2, <2>4
    <3> QED  BY <2>10, <2>d, <3>1
  <2>16. \A r \in AllRows : r[1] = k => r \in V \cup S
    <3> SUFFICES ASSUME NEW r \in AllRows, r[1] = k, r \notin S
                 PROVE  r \in V
      OBVIOUS
    <3>1. r = <<k, o, r[3]>> /\ r[3] \in 1 .. LastRow /\ r[2] = o
      BY <1>10, <2>c
    <3>2. r[3] \notin (n + 1) .. LastRow
      BY <2>d, <3>1, Zenon
    <3>3. r[3] = n \/ r[3] < n
      BY <2>2, <2>4, <3>1, <3>2
    <3>4. CASE r[3] = n
      BY <2>2, <3>1, <3>4, Zenon
    <3>5. CASE r[3] < n
      BY <1>9, <2>2, <3>1, <3>5, Zenon DEF Precedes
    <3> QED  BY <3>3, <3>4, <3>5
  <2>17. \A r \in AllRows : objects[r[1]] < o => r \in V
    BY <1>9, <1>10, <2>2 DEF Precedes
  <2>18. \A r \in AllRows : r[1] \in processed' => r \in V \cup S
    BY <1>10, <2>7, <2>16, <2>17
  <2>19. \A r \in V \cup S : r[1] \in processed'
    <3>1. ASSUME NEW r \in V
          PROVE  r[1] \in processed'
      <4>1. r[1] \in Listed /\ r[2] = objects[r[1]]
        BY <1>8, <1>10
      <4>2. CASE r = f
        BY <2>2, <2>7, <4>2
      <4>3. CASE Precedes(r, f)
        <5>1. objects[r[1]] < o \/ objects[r[1]] = o
          BY <2>2, <4>1, <4>3, Zenon DEF Precedes
        <5> QED  BY <2>2, <2>6, <2>7, <2>c, <4>1, <5>1, Zenon
      <4> QED  BY <2>1, <2>c, <4>2, <4>3, Zenon
    <3> QED  BY <2>2, <2>7, <2>15, <3>1, Zenon
  <2>20. \A r \in S, q \in AllRows : Precedes(q, r) => q \in V \cup S
    <3> SUFFICES ASSUME NEW r \in S, NEW q \in AllRows, Precedes(q, r)
                 PROVE  q \in V \cup S
      OBVIOUS
    <3>1. q[1] \in Listed /\ (objects[q[1]] < o \/ objects[q[1]] = o)
      BY <1>10, <2>15 DEF Precedes
    <3>2. q[1] = k \/ objects[q[1]] < o
      BY <2>2, <2>6, <2>c, <3>1, Zenon
    <3> QED  BY <2>16, <2>17, <3>2
  <2>21. \A r \in V, q \in S : Precedes(r, q)
    <3> SUFFICES ASSUME NEW r \in V, NEW q \in S
                 PROVE  Precedes(r, q)
      OBVIOUS
    <3>1. Precedes(f, q)
      <4>1. n < q[3] /\ q[2] = o
        BY <2>2, <2>4, <2>15
      <4> QED  BY <2>2, <4>1 DEF Precedes
    <3> QED  BY <1>3, <1>8, <2>1, <2>2, <2>15, <2>c, <3>1, PrecedesOrder
  <2> QED  BY <1>11, <2>9, <2>13, <2>14, <2>15, <2>18, <2>19, <2>20, <2>21, Zenon
<1> QED  BY <1>12, <1>13

\* Every step keeps the invariant.
LEMMA S3StepInv ==
    ASSUME S3SecondLength = 1, WholeRestarts = FALSE, S3Inv, [S3Next]_<<reader, s3Vars, connectorVars>>
    PROVE  S3Inv'
<1>1. CASE PutObject
  BY <1>1, PutObjectInv
<1>2. CASE LoaderFails
  BY <1>2, LoaderFailsInv
<1>3. CASE ReadS3
  BY <1>3, ReadS3Inv
<1>4. CASE PollS3
  BY <1>4, PollS3Inv
<1>5. CASE RestartS3
  BY <1>5, RestartS3Inv, Zenon
<1>6. CASE UNCHANGED <<reader, s3Vars, connectorVars>>
  <2>1. /\ objects' = objects /\ puts' = puts /\ s3Full' = s3Full /\ processed' = processed
        /\ stream' = stream /\ loaderFailed' = loaderFailed /\ deferred' = deferred
        /\ channel' = channel /\ readErrors' = readErrors /\ reported' = reported
        /\ taken' = taken /\ visible' = visible /\ frontier' = frontier /\ savedFrontier' = savedFrontier
    BY <1>6, Zenon DEF s3Vars, s3ReadVars, connectorVars, sendVars, pollVars
  <2>2. S3TypeOK' /\ ObjectsInv
    BY <2>1, Zenon DEF S3Inv, S3TypeOK
  <2>3. ObjectsInv' /\ AllRows' = AllRows /\ S3Entries' = S3Entries /\ NoStream' = NoStream
    BY <2>1, <2>2, SameObjects
  <2>4. Broken' = Broken /\ (ChannelInv => ChannelInv') /\ (StreamInv => StreamInv')
    BY <2>1, <2>3, Zenon DEF Broken, ChannelInv, StreamInv
  <2>5. RowsIn(channel)' = RowsIn(channel) /\ RowsLeft(stream)' = RowsLeft(stream)
    BY <2>1, <2>3, Zenon DEF RowsIn, RowsLeft
  <2>6. ASSUME NEW V, NEW T, S3Cuts(V, T)
        PROVE  S3Cuts(V, T)'
    <3>1. FirstPart(V, T, RowsIn(channel), RowsLeft(stream))'
      BY <2>1, <2>3, <2>5, <2>6 DEF S3Cuts, FirstPart
    <3> QED  BY <2>1, <2>5, <2>6, <3>1, Zenon DEF S3Cuts
  <2> QED  BY <2>2, <2>3, <2>4, <2>6, Zenon DEF S3Inv
<1> QED  BY <1>1, <1>2, <1>3, <1>4, <1>5, <1>6 DEF S3Next

\* Where nothing is left to read, the invariant gives the property.
LEMMA S3InvExact ==
    ASSUME S3Inv
    PROVE  S3Exact
<1> SUFFICES ASSUME channel = << >>, ~reported, stream \in {<< >>, NoStream}, ~loaderFailed,
                    Listed \subseteq processed
             PROVE  Concat(visible, taken) = Once(UNION {{RowsOf(k)[i] : i \in DOMAIN RowsOf(k)} : k \in Listed})
  BY Zenon DEF S3Exact
<1>1. ObjectsInv
  BY DEF S3Inv
<1>2. PICK V, T : S3Cuts(V, T)
  BY Zenon DEF S3Inv, Broken
<1>3. RowsIn(channel) = {} /\ RowsLeft(stream) = {}
  BY DEF RowsIn, RowsLeft
<1>4. /\ visible = Once(V) /\ taken = Once(T) /\ FirstPart(V, T, {}, {}) /\ InOrder4(V, T, {}, {})
  BY <1>2, <1>3 DEF S3Cuts
<1>5. V \cup T \cup {} \cup {} = V \cup T
  BY Zenon
<1>6. V \cup T = AllRows
  BY <1>1, <1>4, <1>5, AllRowsFacts DEF FirstPart
<1>7. V \cap T = {}
  BY <1>1, <1>4, <1>6, PrecedesOrder, Zenon DEF InOrder4, AllBefore
<1>8. UNION {{RowsOf(k)[i] : i \in DOMAIN RowsOf(k)} : k \in Listed} = AllRows
  <2>1. \A k \in Listed : {RowsOf(k)[i] : i \in DOMAIN RowsOf(k)} = {<<k, objects[k], i>> : i \in 1 .. LastRow}
    BY Zenon DEF RowsOf, LastRow
  <2> QED  BY <2>1 DEF AllRows
<1> QED  BY <1>4, <1>6, <1>7, <1>8, OnceUnion, Zenon

\* Objects written once and at different seconds: however they appear while the
\* reader runs, whatever downloads break off and whenever a reader by lines is
\* started again, every row of every object is taken in exactly once.
THEOREM S3ExactAlways ==
    ASSUME S3SecondLength = 1, WholeRestarts = FALSE
    PROVE  S3Spec => []S3Exact
<1>1. S3Init => S3Inv
  BY S3InitInv
<1>2. S3Inv /\ [S3Next]_<<reader, s3Vars, connectorVars>> => S3Inv'
  BY S3StepInv, Zenon
<1>3. S3Inv => S3Exact
  BY S3InvExact, Zenon
<1> QED  BY <1>1, <1>2, <1>3, PTL DEF S3Spec

-----------------------------------------------------------------------------
(* Export.                                                                 *)

UpdateTime == 1 .. ExportTimes
Frontiers == 1 .. ExportDone

ExportTypeOK ==
    /\ tableHistory \in [1 .. ExportTimes -> SUBSET ExportKeys]
    /\ exData \in Seq(ExportUpdates)
    /\ exFrontier \in Frontiers /\ exFailed \in BOOLEAN
    /\ exporter \in {"run", "notify", "gone"}
    /\ importer \in [Importers -> {"new", "poll", "frontier", "data", "apply", "park", "done",
                                   "ImportedTableFailed", "assertion"}]
    /\ offset \in [Importers -> Nat] /\ seenLength \in [Importers -> Nat]
    /\ seenFrontier \in [Importers -> Frontiers] /\ sessionTime \in [Importers -> Frontiers]

\* The frontier is at or before all that is still to come, a failed export stays
\* before its end, and nobody has seen more than there is.
ExporterOK ==
    /\ \A u \in Pending : exFrontier <= u[2]
    /\ exFailed => exFrontier # ExportDone /\ exporter # "run"

\* What an importer took covers its session's time, and, because it reads the
\* frontier first, what it is about to take covers the frontier it has seen.
ImporterOK(i) ==
    /\ sessionTime[i] <= exFrontier /\ seenFrontier[i] <= exFrontier
    /\ offset[i] <= Len(exData) /\ seenLength[i] <= Len(exData)
    /\ \A n \in 1 .. Len(exData) : exData[n][2] < sessionTime[i] => n <= offset[i]
    /\ importer[i] = "apply" =>
        \A n \in 1 .. Len(exData) : exData[n][2] < seenFrontier[i] => n <= seenLength[i]
    /\ importer[i] # "assertion"
    /\ importer[i] = "done" => sessionTime[i] = ExportDone

ExportInv == ExportTypeOK /\ ExporterOK /\ \A i \in Importers : ImporterOK(i)

-----------------------------------------------------------------------------
\* The updates of a table carry one of its times.
LEMMA UpdateTimes == \A u \in ExportUpdates : u[2] \in UpdateTime
  BY ExportAssumption DEF ExportUpdates, UpdateTime

\* The updates of a table depend on its history alone.
LEMMA UpdatesKept == tableHistory' = tableHistory => ExportUpdates' = ExportUpdates
  BY DEF ExportUpdates, RowsAt

\* Frontiers and times are numbers.
LEMMA FrontierNumbers == ExportDone \in Nat /\ Frontiers \subseteq Nat /\ UpdateTime \subseteq Nat
  BY ExportAssumption DEF ExportDone, Frontiers, UpdateTime

\* Every time is before the last frontier.
LEMMA TimesBeforeDone == \A t \in UpdateTime : t < ExportDone
  BY ExportAssumption DEF ExportDone, UpdateTime

\* What a push leaves to come was to come before, and what it pushes was too.
LEMMA PendingAfterPush ==
    ASSUME ExportTypeOK, NEW u \in Pending, exData' = Append(exData, u), tableHistory' = tableHistory
    PROVE  ExportUpdates' = ExportUpdates /\ Pending' \subseteq Pending
<1>1. ExportUpdates' = ExportUpdates
  BY UpdatesKept, Zenon
<1>2. \A n \in DOMAIN exData : n \in DOMAIN exData' /\ exData'[n] = exData[n]
  BY DEF ExportTypeOK
<1>3. Range(exData) \subseteq Range(exData')
  BY <1>2 DEF Range
<1> QED  BY <1>1, <1>3, Zenon DEF Pending

-----------------------------------------------------------------------------
\* The initial states.
LEMMA ExportInitInv == ExportInit => ExportInv
<1> SUFFICES ASSUME ExportInit PROVE ExportInv
  OBVIOUS
<1>1. ExportDone \in Nat /\ ExportDone >= 2
  BY ExportAssumption DEF ExportDone
<1>2. ExportTypeOK
  <2>1. <<>> \in Seq(ExportUpdates)
    OBVIOUS
  <2>2. exData \in Seq(ExportUpdates)
    BY <2>1, Zenon DEF ExportInit
  <2>3. exFailed \in BOOLEAN
    BY Zenon DEF ExportInit
  <2>4. 0 \in Nat /\ 1 \in Frontiers
    BY <1>1 DEF Frontiers
  <2>5. /\ importer \in [Importers -> {"new"}]
        /\ offset \in [Importers -> Nat] /\ seenLength \in [Importers -> Nat]
        /\ seenFrontier \in [Importers -> Frontiers] /\ sessionTime \in [Importers -> Frontiers]
    BY <2>4 DEF ExportInit
  <2> QED  BY <2>2, <2>3, <2>4, <2>5 DEF ExportInit, ExportTypeOK
<1>3. ExporterOK
  BY <1>1, UpdateTimes DEF ExportInit, ExporterOK, Pending, UpdateTime
<1>4. ASSUME NEW i \in Importers PROVE ImporterOK(i)
  BY <1>1 DEF ExportInit, ImporterOK
<1> QED  BY <1>2, <1>3, <1>4 DEF ExportInv

\* inspect_batch of export_table preserves the invariant: what it pushes is not
\* before the frontier, hence not before anything an importer has seen.
LEMMA PushInv == ExportInv /\ PushData => ExportInv'
<1> SUFFICES ASSUME ExportInv, PushData PROVE ExportInv'
  OBVIOUS
<1> USE DEF ExportInv, PushData, importVars
<1>1. PICK u \in Pending : exData' = Append(exData, u)
  OBVIOUS
<1>2. ExportUpdates' = ExportUpdates /\ Pending' \subseteq Pending
  BY <1>1, PendingAfterPush
<1>3. u \in ExportUpdates /\ exFrontier <= u[2] /\ u[2] \in UpdateTime
  BY <1>1, UpdateTimes, Zenon DEF Pending, ExporterOK
<1>4. ExportTypeOK'
  BY <1>1, <1>2, <1>3 DEF ExportTypeOK, Frontiers, ExportDone
<1>5. ExporterOK'
  BY <1>2, Zenon DEF ExporterOK
<1>6. ASSUME NEW i \in Importers PROVE ImporterOK(i)'
  <2>1. Len(exData') = Len(exData) + 1 /\ exData'[Len(exData) + 1] = u
        /\ \A n \in 1 .. Len(exData) : exData'[n] = exData[n]
    <3>1. exData \in Seq(ExportUpdates)
      BY Zenon DEF ExportTypeOK
    <3>2. exData' = Append(exData, u) /\ u \in ExportUpdates
      BY <1>1, <1>3, Zenon
    <3>3. PICK d \in Seq(ExportUpdates) : d = exData
      BY <3>1, Zenon
    <3>4. Len(Append(d, u)) = Len(d) + 1 /\ Append(d, u)[Len(d) + 1] = u
          /\ \A n \in 1 .. Len(d) : Append(d, u)[n] = d[n]
      BY <3>2
    <3> QED  BY <3>2, <3>3, <3>4, Zenon
  <2>2. ImporterOK(i)
    OBVIOUS
  <2>3. PICK m \in Nat, p \in Nat, q \in Nat : m = Len(exData) /\ p = offset[i] /\ q = seenLength[i]
    <3>1. Len(exData) \in Nat
      BY DEF ExportTypeOK
    <3> QED  BY <3>1, Zenon DEF ExportTypeOK
  <2>4. PICK e \in Nat, t \in Nat, a \in Nat, b \in Nat :
           e = exFrontier /\ t = u[2] /\ a = sessionTime[i] /\ b = seenFrontier[i]
    BY <1>3, FrontierNumbers, Zenon DEF ExportTypeOK
  <2>5. p <= m /\ q <= m /\ a <= e /\ b <= e /\ e <= t
    BY <1>3, <2>2, <2>3, <2>4, Zenon DEF ImporterOK
  <2>6. ~ (t < a) /\ ~ (t < b) /\ p <= m + 1 /\ q <= m + 1
    BY <2>3, <2>4, <2>5
  <2>7. \A n \in 1 .. m + 1 : n \in 1 .. m \/ n = m + 1
    BY <2>3
  <2>8. sessionTime'[i] <= exFrontier' /\ seenFrontier'[i] <= exFrontier'
        /\ offset'[i] <= Len(exData') /\ seenLength'[i] <= Len(exData')
    BY <2>1, <2>2, <2>3, <2>6, Zenon DEF ImporterOK
  <2>9. \A n \in 1 .. Len(exData') : exData'[n][2] < sessionTime'[i] => n <= offset'[i]
    BY <2>1, <2>2, <2>3, <2>4, <2>6, <2>7, Zenon DEF ImporterOK
  <2>10. importer'[i] = "apply" =>
           \A n \in 1 .. Len(exData') : exData'[n][2] < seenFrontier'[i] => n <= seenLength'[i]
    BY <2>1, <2>2, <2>3, <2>4, <2>6, <2>7, Zenon DEF ImporterOK
  <2> QED  BY <2>2, <2>8, <2>9, <2>10, Zenon DEF ImporterOK
<1> QED  BY <1>4, <1>5, <1>6

\* inspect_core, notify and mark_finished preserve the invariant.
LEMMA ExporterStepInv == ExportInv /\ (AdvanceExport \/ Notify \/ MarkFinished) => ExportInv'
<1> SUFFICES ASSUME ExportInv, AdvanceExport \/ Notify \/ MarkFinished PROVE ExportInv'
  OBVIOUS
<1> USE DEF ExportInv, importVars, exportedVars
<1>0. ExportDone \in Nat
  BY ExportAssumption DEF ExportDone
<1>1. tableHistory' = tableHistory /\ exData' = exData /\ importer' = importer
      /\ UNCHANGED importVars
  BY Zenon DEF AdvanceExport, Notify, MarkFinished
<1>2. ExportUpdates' = ExportUpdates /\ Pending' = Pending
  BY <1>1, UpdatesKept, Zenon DEF Pending
<1>3. exFrontier' \in Frontiers /\ exFrontier <= exFrontier' /\ exFailed' \in BOOLEAN
      /\ exporter' \in {"run", "notify", "gone"}
  <2>1. exFailed' \in BOOLEAN
    BY Zenon DEF AdvanceExport, Notify, MarkFinished, ExportTypeOK
  <2>2. exFrontier' \in Frontiers /\ exFrontier <= exFrontier'
    BY <1>0 DEF AdvanceExport, Notify, MarkFinished, ExportTypeOK, Frontiers
  <2>3. exporter' \in {"run", "notify", "gone"}
    BY DEF AdvanceExport, Notify, MarkFinished, AfterFailing
  <2> QED  BY <2>1, <2>2, <2>3
<1>4. ExportTypeOK'
  BY <1>1, <1>2, <1>3, Zenon DEF ExportTypeOK, Frontiers
<1>5. ExporterOK'
  <2>1. \A u \in Pending : exFrontier' <= u[2]
    BY <1>2, Zenon DEF AdvanceExport, Notify, MarkFinished, ExporterOK
  <2>2. ASSUME exFailed' PROVE exFrontier' # ExportDone /\ exporter' # "run"
    BY <2>2, Zenon DEF AdvanceExport, Notify, MarkFinished, ExporterOK, AfterFailing
  <2> QED  BY <1>2, <2>1, <2>2, Zenon DEF ExporterOK
<1>6. ASSUME NEW i \in Importers PROVE ImporterOK(i)'
  <2>1. ImporterOK(i)
    OBVIOUS
  <2> QED  BY <1>0, <1>1, <1>3, <2>1 DEF ImporterOK, ExportTypeOK, Frontiers
<1> QED  BY <1>4, <1>5, <1>6

\* The steps of import_table preserve the invariant: the data is read after the
\* frontier, so that it covers the frontier that the session advances to.
LEMMA ImporterStepInv ==
    ASSUME NEW i \in Importers, ExportInv, ImportTable(i) \/ Poll(i) \/ Wake(i)
    PROVE  ExportInv'
<1> USE DEF ExportInv, importVars, exportedVars
<1>0. ExportDone \in Nat
  BY ExportAssumption DEF ExportDone
<1>1. tableHistory' = tableHistory /\ exData' = exData /\ exFrontier' = exFrontier
      /\ exFailed' = exFailed /\ exporter' = exporter
  BY Zenon DEF ImportTable, Poll, CheckFailed, ReadFrontier, DataFromOffset, Apply, Wake
<1>2. ExportUpdates' = ExportUpdates /\ Pending' = Pending
  BY <1>1, UpdatesKept, Zenon DEF Pending
<1>3. ExporterOK'
  BY <1>1, <1>2 DEF ExporterOK
<1>4. Len(exData) \in Nat
  BY DEF ExportTypeOK
<1>5. ExportTypeOK'
  <2> USE DEF ExportTypeOK, Goto, AfterStep
  <2>1. CASE ImportTable(i)
    BY <1>1, <1>2, <2>1, Zenon DEF ImportTable
  <2>2. CASE CheckFailed(i)
    BY <1>1, <1>2, <2>2, Zenon DEF CheckFailed
  <2>3. CASE ReadFrontier(i)
    BY <1>1, <1>2, <2>3, Zenon DEF ReadFrontier
  <2>4. CASE DataFromOffset(i)
    BY <1>1, <1>2, <1>4, <2>4, Zenon DEF DataFromOffset
  <2>5. CASE Apply(i)
    BY <1>1, <1>2, <2>5, Zenon DEF Apply
  <2>6. CASE Wake(i)
    BY <1>1, <1>2, <2>6, Zenon DEF Wake
  <2> QED  BY <2>1, <2>2, <2>3, <2>4, <2>5, <2>6, Zenon DEF Poll
<1>6. \A j \in Importers \ {i} : ImporterOK(j)'
  <2> SUFFICES ASSUME NEW j \in Importers \ {i} PROVE ImporterOK(j)'
    OBVIOUS
  <2>1. importer'[j] = importer[j] /\ offset'[j] = offset[j] /\ seenLength'[j] = seenLength[j]
        /\ seenFrontier'[j] = seenFrontier[j] /\ sessionTime'[j] = sessionTime[j]
    <3> USE DEF ExportTypeOK, Goto
    <3>1. CASE ImportTable(i) \/ CheckFailed(i) \/ Wake(i)
      BY <3>1, Zenon DEF ImportTable, CheckFailed, Wake
    <3>2. CASE ReadFrontier(i) \/ DataFromOffset(i)
      BY <3>2, Zenon DEF ReadFrontier, DataFromOffset
    <3>3. CASE Apply(i)
      BY <3>3, Zenon DEF Apply
    <3> QED  BY <3>1, <3>2, <3>3, Zenon DEF Poll
  <2> QED  BY <1>1, <2>1, Zenon DEF ImporterOK
<1>7. ImporterOK(i)'
  <2> USE <1>0, <1>1, <1>4 DEF ExportTypeOK, Goto, AfterStep, Frontiers
  <2>0. ImporterOK(i)
    OBVIOUS
  <2>1. CASE ImportTable(i) \/ CheckFailed(i) \/ Wake(i)
    BY <2>0, <2>1 DEF ImportTable, CheckFailed, Wake, ImporterOK
  <2>2. CASE ReadFrontier(i)
    BY <2>0, <2>2 DEF ReadFrontier, ImporterOK
  <2>3. CASE DataFromOffset(i)
    BY <2>0, <2>3 DEF DataFromOffset, ImporterOK
  <2>4. CASE Apply(i)
    <3>1. ~ \E n \in offset[i] + 1 .. seenLength[i] : exData[n][2] < sessionTime[i]
      <4> SUFFICES ASSUME NEW n \in offset[i] + 1 .. seenLength[i], exData[n][2] < sessionTime[i] PROVE FALSE
        BY Zenon
      <4>1. offset[i] \in Nat /\ seenLength[i] \in Nat
        BY Zenon
      <4>2. PICK m \in Nat, p \in Nat, q \in Nat : m = Len(exData) /\ p = offset[i] /\ q = seenLength[i]
        BY <4>1, Zenon
      <4>3. n \in p + 1 .. q /\ q <= m
        BY <2>0, <4>2, Zenon DEF ImporterOK
      <4>4. n \in 1 .. m /\ n <= q /\ ~ (n <= p)
        BY <4>2, <4>3
      <4> QED  BY <2>0, <4>2, <4>4, Zenon DEF ImporterOK
    <3>2. offset'[i] = seenLength[i] /\ sessionTime'[i] = seenFrontier[i] /\ seenLength'[i] = seenLength[i]
          /\ seenFrontier'[i] = seenFrontier[i]
          /\ importer'[i] = IF seenFrontier[i] = ExportDone THEN "done" ELSE "park"
      BY <2>4, <3>1, Zenon DEF Apply
    <3> QED  BY <2>0, <2>4, <3>2, Zenon DEF Apply, ImporterOK
  <2> QED  BY <2>1, <2>2, <2>3, <2>4, Zenon DEF Poll
<1> QED  BY <1>3, <1>5, <1>6, <1>7

\* Every step preserves the invariant.
LEMMA ExportStepInv == ExportInv /\ [ExportNext]_exVars => ExportInv'
<1> SUFFICES ASSUME ExportInv, [ExportNext]_exVars PROVE ExportInv'
  OBVIOUS
<1>1. CASE PushData
  BY <1>1, PushInv
<1>2. CASE AdvanceExport \/ Notify \/ MarkFinished
  BY <1>2, ExporterStepInv
<1>3. CASE \E i \in Importers : ImportTable(i) \/ Poll(i) \/ Wake(i)
  BY <1>3, ImporterStepInv
<1>4. CASE UNCHANGED exVars
  <2> USE <1>4 DEF exVars, exportedVars, importVars, ExportInv
  <2>1. ExportUpdates' = ExportUpdates /\ Pending' = Pending
    BY UpdatesKept, Zenon DEF Pending
  <2>2. ExportTypeOK' /\ ExporterOK'
    BY <2>1, Zenon DEF ExportTypeOK, ExporterOK
  <2>3. ASSUME NEW i \in Importers PROVE ImporterOK(i)'
    BY Zenon DEF ImporterOK
  <2> QED  BY <2>2, <2>3, Zenon
<1> QED  BY <1>1, <1>2, <1>3, <1>4 DEF ExportNext

\* The invariant gives what an importer relies on.
LEMMA ExportInvImportsExact == ExportInv => ImportsExact
<1> SUFFICES ASSUME ExportInv, NEW i \in Importers
             PROVE  /\ importer[i] # "assertion"
                    /\ \A n \in DOMAIN exData : exData[n][2] < sessionTime[i] => n <= offset[i]
                    /\ \A u \in Pending : sessionTime[i] <= u[2]
                    /\ importer[i] = "done" => ~exFailed /\ Pending = {} /\ offset[i] = Len(exData)
  BY DEF ImportsExact
<1> USE DEF ExportInv
<1>0. ExportDone \in Nat /\ DOMAIN exData = 1 .. Len(exData) /\ Len(exData) \in Nat
  BY ExportAssumption DEF ExportDone, ExportTypeOK
<1>1. ImporterOK(i) /\ importer[i] # "assertion"
  BY Zenon DEF ImporterOK
<1>2. \A u \in Pending : u[2] \in UpdateTime /\ exFrontier <= u[2]
  BY UpdateTimes, Zenon DEF Pending, ExporterOK
<1>3. \A u \in Pending : sessionTime[i] <= u[2]
  BY <1>0, <1>1, <1>2, ExportAssumption DEF ImporterOK, ExportTypeOK, Frontiers, UpdateTime
<1>4. ASSUME importer[i] = "done" PROVE ~exFailed /\ Pending = {} /\ offset[i] = Len(exData)
  <2>1. sessionTime[i] = ExportDone /\ exFrontier = ExportDone
    BY <1>0, <1>1, <1>4 DEF ImporterOK, ExportTypeOK, Frontiers
  <2>2. Pending = {}
    BY <1>2, <2>1, ExportAssumption DEF UpdateTime, ExportDone
  <2>3. \A n \in 1 .. Len(exData) : exData[n][2] < ExportDone
    <3>1. exData \in Seq(ExportUpdates)
      BY Zenon DEF ExportTypeOK
    <3>2. \A n \in 1 .. Len(exData) : exData[n] \in ExportUpdates
      BY <3>1
    <3> QED  BY <3>2, UpdateTimes, TimesBeforeDone, Zenon
  <2>4. offset[i] = Len(exData)
    <3>1. offset[i] \in Nat /\ offset[i] <= Len(exData)
      BY <1>1 DEF ImporterOK, ExportTypeOK
    <3>2. Len(exData) \in 1 .. Len(exData) => Len(exData) <= offset[i]
      BY <1>1, <2>1, <2>3, Zenon DEF ImporterOK
    <3> QED  BY <1>0, <3>1, <3>2
  <2> QED  BY <2>1, <2>2, <2>4, Zenon DEF ExporterOK
<1> QED  BY <1>0, <1>1, <1>3, <1>4, Zenon DEF ImporterOK

-----------------------------------------------------------------------------
\* For every table and every number of importers, import_table never advances its
\* session past an update it has not taken, never meets an update that is too late
\* for its session, and ends normally only with the whole table of an export that
\* did not fail, although failed, frontier and data are read one after the other
\* while the exporting thread goes on.
THEOREM ImportsExactAlways == ExportSpec => []ImportsExact
<1>1. ExportInit => ExportInv
  BY ExportInitInv
<1>2. ExportInv /\ [ExportNext]_exVars => ExportInv'
  BY ExportStepInv
<1>3. ExportInv => ImportsExact
  BY ExportInvImportsExact, Zenon
<1> QED  BY <1>1, <1>2, <1>3, PTL DEF ExportSpec

-----------------------------------------------------------------------------
(* Runtime.                                                                *)

Stopping == {"fail", "unpark", "join", "Err"}

\* A report is in the channel until the main thread acts on it; a worker that is past
\* the loop has nothing left to flush; Ok comes when no thread is left to report.
RuntimeInv ==
    /\ worker \in [RuntimeWorkers -> {"turn", "park", "join", "done", "panicked"}]
    /\ connectorThread \in [RuntimeWorkers -> {"read", "unpark", "leave", "dropped", "ended"}]
    /\ finishedSent \in [RuntimeWorkers -> BOOLEAN]
    /\ unflushed \in [RuntimeWorkers -> Nat]
    /\ everReported => errorChannel = 1 \/ mainThread \in Stopping
    /\ \A w \in RuntimeWorkers : worker[w] \in {"join", "done"} => unflushed[w] = 0
    /\ \A w \in RuntimeWorkers : worker[w] = "done" => finishedSent[w]
    /\ mainThread = "Ok" =>
        /\ errorChannel = 0
        /\ \A w \in RuntimeWorkers : worker[w] = "done" /\ connectorThread[w] = "ended"

-----------------------------------------------------------------------------
\* The steps of a connector thread: none is left when the result is Ok.
LEMMA ReaderStepInv ==
    ASSUME RuntimeInv, NEW w \in RuntimeWorkers, ReaderStep(w)
    PROVE  RuntimeInv'
<1> USE DEF RuntimeInv, reportVars, mainVars, Report
<1>1. mainThread # "Ok" /\ mainThread' = mainThread /\ worker' = worker /\ unflushed' = unflushed
  BY Zenon DEF ReaderStep, SendEntry, ReportReader, UnparkWorker, SendFinished, PanicReader, DropSender, EndReader
<1>2. connectorThread' \in [RuntimeWorkers -> {"read", "unpark", "leave", "dropped", "ended"}]
  BY Zenon DEF ReaderStep, SendEntry, ReportReader, UnparkWorker, SendFinished, PanicReader, DropSender, EndReader
<1>3. finishedSent' \in [RuntimeWorkers -> BOOLEAN] /\ \A v \in RuntimeWorkers : finishedSent[v] => finishedSent'[v]
  BY Zenon DEF ReaderStep, SendEntry, ReportReader, UnparkWorker, SendFinished, PanicReader, DropSender, EndReader
<1>4. everReported' => errorChannel' = 1 \/ mainThread' \in Stopping
  BY Zenon DEF ReaderStep, SendEntry, ReportReader, UnparkWorker, SendFinished, PanicReader, DropSender, EndReader
<1> QED  BY <1>1, <1>2, <1>3, <1>4

\* The steps of a worker thread.
LEMMA WorkerStepInv ==
    ASSUME RuntimeInv, NEW w \in RuntimeWorkers, WorkerStep(w)
    PROVE  RuntimeInv'
<1> USE DEF RuntimeInv, reportVars, mainVars, readerVars, Report, Panicked
<1>1. mainThread # "Ok" /\ mainThread' = mainThread /\ connectorThread' = connectorThread
      /\ finishedSent' = finishedSent
  BY Zenon DEF WorkerStep, GiveUp, WakeUp, JoinConnector, Turn
<1>2. everReported' => errorChannel' = 1 \/ mainThread' \in Stopping
  BY Zenon DEF WorkerStep, GiveUp, WakeUp, JoinConnector, Turn
<1>3. CASE GiveUp(w)
  BY <1>1, <1>2, <1>3, Zenon DEF GiveUp
<1>5. CASE WakeUp(w)
  <2>1. \/ worker' = [worker EXCEPT ![w] = "join"] /\ unflushed' = [unflushed EXCEPT ![w] = 0]
        \/ worker' = [worker EXCEPT ![w] = "turn"] /\ unflushed' = unflushed
    BY <1>5, Zenon DEF WakeUp, FinalFlush
  <2> QED  BY <1>1, <1>2, <2>1
<1>6. CASE JoinConnector(w)
  <2>1. /\ worker[w] = "join" /\ unflushed' = unflushed
        /\ \/ finishedSent[w] /\ worker' = [worker EXCEPT ![w] = "done"]
           \/ worker' = [worker EXCEPT ![w] = "panicked"]
    BY <1>6, Zenon DEF JoinConnector
  <2> QED  BY <1>1, <1>2, <2>1, Zenon
<1>4. ASSUME NEW bad \in BOOLEAN, NEW due \in BOOLEAN, Turn(w, bad, due) PROVE RuntimeInv'
  <2>1. worker' = [worker EXCEPT ![w] = "panicked"] \/ worker' = [worker EXCEPT ![w] = "park"]
    BY <1>4, Zenon DEF Turn
  <2>2. unflushed' \in [RuntimeWorkers -> Nat]
        /\ \A v \in RuntimeWorkers : v # w => unflushed'[v] = unflushed[v]
    BY <1>4 DEF Turn, FlushLog
  <2> QED  BY <1>1, <1>2, <2>1, <2>2, Zenon
<1> QED  BY <1>3, <1>4, <1>5, <1>6, Zenon DEF WorkerStep

\* The steps of the main thread.
LEMMA MainStepInv ==
    ASSUME RuntimeInv, MainStep \/ Interrupt
    PROVE  RuntimeInv'
<1> USE DEF RuntimeInv, reportVars, readerVars, Stopping
<1>1. UNCHANGED <<worker, connectorThread, finishedSent, unflushed>>
  BY DEF MainStep, TakeError, StopWorkers, ReturnError, ReturnResults, Interrupt
<1>2. everReported' => errorChannel' = 1 \/ mainThread' \in Stopping
  BY Zenon DEF MainStep, TakeError, StopWorkers, ReturnError, ReturnResults, Interrupt
<1>3. mainThread' = "Ok" =>
        errorChannel' = 0 /\ \A w \in RuntimeWorkers : worker[w] = "done" /\ connectorThread[w] = "ended"
  BY Zenon DEF MainStep, TakeError, StopWorkers, ReturnError, ReturnResults, Interrupt
<1> QED  BY <1>1, <1>2, <1>3, Zenon

-----------------------------------------------------------------------------
\* For any number of workers, a run whose result is Ok is clean: reports are never lost
\* in the channel of one place, although only the first one is kept, nor between its
\* emptying and the end of the threads.
THEOREM OkIsCleanAlways == RuntimeSpec => []OkIsClean
<1>1. RuntimeInit => RuntimeInv
  BY DEF RuntimeInit, RuntimeInv
<1>2. RuntimeInv /\ [RuntimeNext]_runtimeVars => RuntimeInv'
  <2> SUFFICES ASSUME RuntimeInv, [RuntimeNext]_runtimeVars PROVE RuntimeInv'
    OBVIOUS
  <2>1. CASE UNCHANGED runtimeVars
    BY <2>1 DEF runtimeVars, readerVars, reportVars, mainVars, RuntimeInv
  <2>2. ASSUME NEW w \in RuntimeWorkers, ReaderStep(w) \/ WorkerStep(w) PROVE RuntimeInv'
    BY <2>2, ReaderStepInv, WorkerStepInv
  <2>3. CASE MainStep \/ Interrupt
    BY <2>3, MainStepInv, Zenon
  <2> QED  BY <2>1, <2>2, <2>3, Zenon DEF RuntimeNext
<1>3. RuntimeInv => OkIsClean
  BY DEF RuntimeInv, OkIsClean, Stopping
<1> QED  BY <1>1, <1>2, <1>3, PTL DEF RuntimeSpec

=============================================================================
