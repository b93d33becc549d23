-------------------------- MODULE PersistenceProofs --------------------------
(***************************************************************************)
(* Theorems about Persistence, for every set of workers and sinks, every   *)
(* number of rows and every bound.                                         *)
(***************************************************************************)
EXTENDS Persistence, WellFoundedInduction, TLAPS

-----------------------------------------------------------------------------
(* Least and greatest elements.                                            *)

\* A non-empty set of naturals has a least element.
LEMMA NatMin ==
    ASSUME NEW S \in SUBSET Nat, S # {}
    PROVE  \E m \in S : \A x \in S : m <= x
<1>1. PICK m \in S : \A x \in S : ~ (<<x, m>> \in OpToRel(<, Nat))
  BY NatLessThanWellFounded, WFMin, Zenon
<1>2. \A x \in S : ~ (x < m)
  BY <1>1, Zenon DEF OpToRel
<1> QED  BY <1>2

\* A non-empty set of naturals with a bound has a greatest element.
LEMMA NatMax ==
    ASSUME NEW b \in Nat, NEW S \in SUBSET (0 .. b), S # {}
    PROVE  \E m \in S : \A x \in S : x <= m
<1> DEFINE R == {b - x : x \in S}
<1>0. \A x \in S : b - x \in Nat
  OBVIOUS
<1>1. R \in SUBSET Nat /\ R # {}
  BY <1>0, Zenon
<1>2. PICK r \in R : \A y \in R : r <= y
  BY <1>1, NatMin, Zenon
<1>3. PICK m \in S : r = b - m
  BY <1>2
<1>4. \A x \in S : b - m <= b - x
  BY <1>2, <1>3, Zenon
<1> QED  BY <1>4

-----------------------------------------------------------------------------
(* What the operators of Persistence return.                               *)

Offsets == [Worker -> 0 .. NumRows]

\* Done and the times below it are naturals.
LEMMA TimeFacts ==
    /\ Done \in Nat /\ Done \in Time /\ 0 \in Time /\ Time \subseteq Nat
    /\ \A t \in 0 .. MaxTime : t \in Time /\ t + 1 \in 1 .. Done /\ t < Done
    /\ Nothing \notin Time
BY ConstantsAssumption DEF Done, Time, Nothing

LEMMA DoneFact == Done # 0
BY ConstantsAssumption DEF Done

\* Facts about numbers that the provers are given where a goal is large.
LEMMA NumberFacts ==
    /\ 1 .. 0 = {}
    /\ \A a \in Nat : a <= a /\ (a + 1) - 1 = a
    /\ \A a, b \in Nat : a <= b => a \in a .. b
    /\ \A a, b, c \in Nat : a <= b /\ b <= c => a <= c
OBVIOUS

\* The types of single variables.
LEMMA LogType ==
    TypeOK => /\ log \in [Worker -> Seq(Event)] /\ synced \in [Worker -> Nat] /\ restored \in [Worker -> Nat]
              /\ \A w \in Worker : synced[w] <= Len(log[w])
BY Zenon DEF TypeOK

LEMMA PhaseType == TypeOK => phase \in [Worker -> {"down", "opened", "rewound", "seeked", "run", "ended"}]
BY Zenon DEF TypeOK

LEMMA ThresholdType == TypeOK => threshold \in [Worker -> Time]
BY Zenon DEF TypeOK

LEMMA OffsetsType == TypeOK => offsets \in [Worker -> [Worker -> 0 .. NumRows]]
BY Zenon DEF TypeOK

LEMMA FedType == TypeOK => fed \in [Worker -> SUBSET [at : Nat, row : 1 .. NumRows, time : 0 .. MaxTime]]
BY Zenon DEF TypeOK

LEMMA NowType == TypeOK => now \in [Worker -> 0 .. MaxTime] /\ clock \in 1 .. MaxTime
BY Zenon DEF TypeOK

LEMMA WroteType == TypeOK => wrote \in [Worker -> [Sink -> Time]]
BY Zenon DEF TypeOK

LEMMA SinkTimeType == TypeOK => sinkTime \in [Worker -> [Sink -> Time]] /\ last \in [Worker -> Time]
BY Zenon DEF TypeOK

LEMMA CommitType ==
    TypeOK => meta \in [Worker -> Time \union {Nothing}] /\ pending \in [Worker -> Time \union {Nothing}]
BY Zenon DEF TypeOK

\* There is a worker, and a sink.
LEMMA NonEmpty == Worker # {} /\ Sink # {} /\ Delayed \subseteq Sink /\ Reader \subseteq Worker
BY ConstantsAssumption

\* Events have one of two shapes.
LEMMA EventFacts ==
    ASSUME NEW e \in Event
    PROVE  /\ e.kind = "row" \/ e.kind = "adv"
           /\ e.kind = "row" => e.row \in 1 .. NumRows
           /\ e.kind = "adv" => e.time \in 1 .. Done /\ e.frontier \in Offsets
BY DEF Event, Offsets

\* What the connector logs are events.
LEMMA AdvEventType ==
    ASSUME NEW t \in 1 .. Done, NEW f \in Offsets
    PROVE  AdvEvent(t, f) \in Event
BY DEF AdvEvent, Event, Offsets

\* A logged row is an event.
LEMMA RowEventType ==
    ASSUME NEW k \in 1 .. NumRows
    PROVE  RowEvent(k) \in Event
BY DEF RowEvent, Event

\* SnapshotReader::read stops within the log, at the first AdvanceTime that
\* reaches the threshold if there is one.
LEMMA ReadLengthFacts ==
    ASSUME NEW l \in Seq(Event), NEW T \in Time
    PROVE  /\ ReadLength(l, T) \in 0 .. Len(l)
           /\ Closing(l, T) = {} => ReadLength(l, T) = Len(l)
           /\ Closing(l, T) # {} => /\ ReadLength(l, T) \in Closing(l, T)
                                    /\ \A j \in Closing(l, T) : ReadLength(l, T) <= j
<1>1. Closing(l, T) \in SUBSET (1 .. Len(l)) /\ Closing(l, T) \in SUBSET Nat
  BY DEF Closing
<1>2. CASE Closing(l, T) = {}
  BY <1>2 DEF ReadLength
<1>3. CASE Closing(l, T) # {}
  <2>1. \E i \in Closing(l, T) : \A j \in Closing(l, T) : i <= j
    BY <1>1, <1>3, NatMin
  <2>2. /\ ReadLength(l, T) \in Closing(l, T)
        /\ \A j \in Closing(l, T) : ReadLength(l, T) <= j
    BY <2>1, <1>3, Zenon DEF ReadLength
  <2> QED  BY <2>2, <1>1, <1>3
<1> QED  BY <1>2, <1>3

\* Truncation keeps a prefix.
LEMMA TruncatedFacts ==
    ASSUME NEW l \in Seq(Event), NEW T \in Time
    PROVE  /\ Truncated(l, T) \in Seq(Event)
           /\ Len(Truncated(l, T)) <= Len(l)
           /\ \A i \in 1 .. Len(Truncated(l, T)) : Truncated(l, T)[i] = l[i]
<1>1. CASE T = 0
  BY <1>1 DEF Truncated
<1>2. CASE T # 0
  <2>1. ReadLength(l, T) \in 0 .. Len(l)
    BY ReadLengthFacts
  <2>2. Truncated(l, T) = SubSeq(l, 1, ReadLength(l, T))
    BY <1>2, Zenon DEF Truncated
  <2> QED  BY <2>1, <2>2
<1> QED  BY <1>1, <1>2

\* The reconstructed frontier of one log is a frontier.
LEMMA LastFrontierType ==
    ASSUME NEW l \in Seq(Event), NEW T \in Time
    PROVE  LastFrontier(l, T) \in Offsets
<1> DEFINE advs == {i \in 1 .. ReadLength(l, T) : l[i].kind = "adv"}
<1>1. CASE advs = {}
  <2>1. LastFrontier(l, T) = NoOffsets
    BY <1>1 DEF LastFrontier
  <2> QED  BY <2>1, ConstantsAssumption DEF NoOffsets, Offsets
<1>2. CASE advs # {}
  <2>1. ReadLength(l, T) \in 0 .. Len(l)
    BY ReadLengthFacts
  <2>2. advs \in SUBSET (0 .. Len(l)) /\ Len(l) \in Nat
    BY <2>1
  <2>3. \E i \in advs : \A j \in advs : j <= i
    BY <2>2, <1>2, NatMax, Zenon
  <2>4. PICK i \in advs : LastFrontier(l, T) = l[i].frontier
    BY <2>3, <1>2, Zenon DEF LastFrontier
  <2>5. l[i] \in Event /\ l[i].kind = "adv"
    BY <2>1, <2>4
  <2> QED  BY <2>4, <2>5, EventFacts
<1> QED  BY <1>1, <1>2

\* merge_two_frontiers takes the furthest offset of each partition.
LEMMA MergedFrontierFacts ==
    ASSUME NEW fs \in SUBSET Offsets, fs # {}
    PROVE  /\ MergedFrontier(fs) \in Offsets
           /\ \A w \in Worker : /\ \E f \in fs : MergedFrontier(fs)[w] = f[w]
                                /\ \A f \in fs : f[w] <= MergedFrontier(fs)[w]
<1>1. SUFFICES ASSUME NEW w \in Worker
               PROVE  /\ MergedFrontier(fs)[w] \in {f[w] : f \in fs}
                      /\ \A f \in fs : f[w] <= MergedFrontier(fs)[w]
                      /\ \A f \in fs : f[w] \in 0 .. NumRows
  BY Zenon DEF MergedFrontier, Offsets
<1> DEFINE S == {f[w] : f \in fs}
<1>2. \A f \in fs : f[w] \in 0 .. NumRows
  BY DEF Offsets
<1>3. S \in SUBSET (0 .. NumRows) /\ S # {}
  BY <1>2, Zenon
<1>4. \E o \in S : \A x \in S : x <= o
  BY <1>3, NatMax, ConstantsAssumption, Zenon
<1>5. \E o \in S : \A f \in fs : f[w] <= o
  BY <1>4, Zenon
<1>6. MergedFrontier(fs)[w] = CHOOSE o \in S : \A f \in fs : f[w] <= o
  BY DEF MergedFrontier
<1> QED  BY <1>2, <1>5, <1>6, Zenon

\* The threshold is the least time among the stored blocks, At(0) without any.
LEMMA MinThresholdFacts ==
    ASSUME NEW m \in [Worker -> Time \union {Nothing}]
    PROVE  /\ MinThreshold(m) \in Time
           /\ (\A w \in Worker : m[w] = Nothing) => MinThreshold(m) = 0
           /\ (\E w \in Worker : m[w] # Nothing) => \E w \in Worker : MinThreshold(m) = m[w]
           /\ \A w \in Worker : m[w] # Nothing => MinThreshold(m) <= m[w]
<1> DEFINE known == {w \in Worker : m[w] # Nothing}
<1>1. CASE known = {}
  BY <1>1, TimeFacts DEF MinThreshold
<1>2. CASE known # {}
  <2> DEFINE S == {m[w] : w \in known}
  <2>1. \A w \in known : m[w] \in Time
    OBVIOUS
  <2>2. S \in SUBSET Time /\ S # {}
    BY <2>1, <1>2, Zenon
  <2>3. \E t \in S : \A x \in S : t <= x
    BY <2>2, NatMin, TimeFacts, Zenon
  <2>4. \E t \in S : \A w \in known : t <= m[w]
    BY <2>3, Zenon
  <2>5. MinThreshold(m) = CHOOSE t \in S : \A w \in known : t <= m[w]
    BY <1>2 DEF MinThreshold
  <2>6. MinThreshold(m) \in S /\ \A w \in known : MinThreshold(m) <= m[w]
    BY <2>4, <2>5, Zenon
  <2>7. PICK u \in known : MinThreshold(m) = m[u]
    BY <2>6, Zenon
  <2> QED  BY <2>1, <2>6, <2>7, <1>2
<1> QED  BY <1>1, <1>2

\* The time a worker has finalized is the least over its sinks.
LEMMA FinalizedFacts ==
    ASSUME NEW st \in [Sink -> Time]
    PROVE  /\ Finalized(st) \in Time
           /\ \E s \in Sink : Finalized(st) = st[s]
           /\ \A s \in Sink : Finalized(st) <= st[s]
<1> DEFINE S == {st[s] : s \in Sink}
<1>1. \A s \in Sink : st[s] \in Time
  OBVIOUS
<1>2. S \in SUBSET Time /\ S # {}
  BY <1>1, NonEmpty, Zenon
<1>3. \E t \in S : \A x \in S : t <= x
  BY <1>2, NatMin, TimeFacts, Zenon
<1>4. \E t \in S : \A s \in Sink : t <= st[s]
  BY <1>3, Zenon
<1>5. Finalized(st) \in S /\ \A s \in Sink : Finalized(st) <= st[s]
  BY <1>4, Zenon DEF Finalized
<1> QED  BY <1>1, <1>5, Zenon

\* The frontier of the dataflow is the least time of an input session.
LEMMA FrontierFacts ==
    ASSUME TypeOK
    PROVE  /\ \A w \in Worker : SessionTime(w) \in Time
           /\ Frontier \in Time
           /\ \E w \in Worker : Frontier = SessionTime(w)
           /\ \A w \in Worker : Frontier <= SessionTime(w)
<1> DEFINE S == {SessionTime(w) : w \in Worker}
<1>1. \A w \in Worker : SessionTime(w) \in Time
  BY TimeFacts DEF SessionTime, TypeOK
<1>2. S \in SUBSET Time /\ S # {}
  BY <1>1, NonEmpty, Zenon
<1>3. \E t \in S : \A x \in S : t <= x
  BY <1>2, NatMin, TimeFacts, Zenon
<1>4. \E t \in S : \A w \in Worker : t <= SessionTime(w)
  BY <1>3, Zenon
<1>5. Frontier \in S /\ \A w \in Worker : Frontier <= SessionTime(w)
  BY <1>4, Zenon DEF Frontier
<1> QED  BY <1>1, <1>5, Zenon

\* A sink writes rows of the source only.
LEMMA BatchType ==
    ASSUME NEW w \in Worker, NEW s \in Sink, NEW lo, NEW hi
    PROVE  Batch(w, s, lo, hi) \subseteq {s} \X Row
<1> DEFINE R == {r \in Row :
        /\ Dest[<<s, r>>] = w
        /\ \E e \in fed[r[1]] : e.row = r[2] /\ e.time # 0 /\ e.time \in lo .. hi - 1}
<1>1. Batch(w, s, lo, hi) = {<<s, r>> : r \in R} /\ R \subseteq Row
  BY DEF Batch
<1> HIDE DEF R
<1> QED  BY <1>1

-----------------------------------------------------------------------------
(* Type correctness.                                                       *)

\* The types hold when the program is first started.
LEMMA TypeInit == Init => TypeOK
<1> SUFFICES ASSUME Init PROVE TypeOK
  OBVIOUS
<1> USE DEF Init
<1>1. << >> \in Seq(Event) /\ Len(<< >>) = 0
  OBVIOUS
<1>2. /\ log \in [Worker -> Seq(Event)]
      /\ synced \in [Worker -> Nat]
      /\ \A w \in Worker : synced[w] <= Len(log[w])
  BY <1>1
<1>3. /\ NoOffsets \in [Worker -> 0 .. NumRows]
      /\ available \in [Worker -> 0 .. NumRows]
      /\ clock \in 1 .. MaxTime /\ runs \in 1 .. MaxRuns
      /\ now \in [Worker -> 0 .. MaxTime]
  BY ConstantsAssumption DEF NoOffsets
<1>4. offsets \in [Worker -> [Worker -> 0 .. NumRows]]
  BY <1>3
<1>5. /\ wrote \in [Worker -> [Sink -> Time]]
      /\ sinkTime \in [Worker -> [Sink -> Time]]
      /\ last \in [Worker -> Time] /\ threshold \in [Worker -> Time]
  BY TimeFacts DEF InitialTimestamps
<1> QED  BY <1>2, <1>3, <1>4, <1>5, Zenon DEF TypeOK

\* Every step of the program and every restart keeps the types.
LEMMA TypeNext == TypeOK /\ [Next]_vars => TypeOK'
<1> SUFFICES ASSUME TypeOK, [Next]_vars
             PROVE  TypeOK'
  OBVIOUS
<1>0. \A u \in Worker : /\ log[u] \in Seq(Event) /\ Len(log[u]) \in Nat
                         /\ synced[u] \in Nat /\ synced[u] <= Len(log[u])
  BY DEF TypeOK
<1>1. ASSUME NEW w \in Worker, Open(w)
      PROVE  TypeOK'
  <2>1. MinThreshold(meta) \in Time
    BY MinThresholdFacts DEF TypeOK
  <2> QED  BY <1>1, <2>1, Zenon DEF Open, TypeOK, durable, output, history
<1>2. ASSUME NEW w \in Worker, RewindFromSnapshot(w)
      PROVE  TypeOK'
  <2> DEFINE l == Truncated(log[w], threshold[w])
  <2>1. l \in Seq(Event)
    BY TruncatedFacts DEF TypeOK
  <2> HIDE DEF l
  <2>2. log' = [log EXCEPT ![w] = l] /\ log'[w] = l
    BY <1>2 DEF RewindFromSnapshot, TypeOK, l
  <2>3. {[at |-> i, row |-> l[i].row, time |-> 0] :
            i \in {j \in DOMAIN l : l[j].kind = "row"}}
          \in SUBSET [at : Nat, row : 1 .. NumRows, time : 0 .. MaxTime]
    <3>1. \A i \in DOMAIN l : i \in Nat /\ l[i] \in Event
      BY <2>1
    <3>2. \A i \in DOMAIN l : l[i].kind = "row" => l[i].row \in 1 .. NumRows
      BY <3>1, EventFacts
    <3> QED  BY <3>1, <3>2, ConstantsAssumption
  <2>4. fed' \in [Worker -> SUBSET [at : Nat, row : 1 .. NumRows, time : 0 .. MaxTime]]
    BY <1>2, <2>2, <2>3 DEF RewindFromSnapshot, TypeOK
  <2>5. /\ log' \in [Worker -> Seq(Event)]
        /\ synced' \in [Worker -> Nat]
        /\ restored' \in [Worker -> Nat]
        /\ \A u \in Worker : synced'[u] <= Len(log'[u])
    BY <1>2, <2>1, <2>2 DEF RewindFromSnapshot, TypeOK
  <2> QED  BY <1>2, <2>4, <2>5, Zenon DEF RewindFromSnapshot, TypeOK, output, history
<1>3. ASSUME NEW w \in Worker, ReconstructFrontier(w)
      PROVE  TypeOK'
  <2>1. PICK seen :
           /\ seen \in [Worker -> UNION {synced[u] .. Len(log[u]) : u \in Worker}]
           /\ \A u \in Worker : seen[u] \in synced[u] .. Len(log[u])
           /\ synced' = seen
           /\ offsets' = [offsets EXCEPT ![w] =
                MergedFrontier({LastFrontier(SubSeq(log[u], 1, seen[u]), threshold[w]) :
                                  u \in Worker})]
    BY <1>3, Zenon DEF ReconstructFrontier
  <2> DEFINE fs == {LastFrontier(SubSeq(log[u], 1, seen[u]), threshold[w]) : u \in Worker}
  <2>2. \A u \in Worker : seen[u] \in 0 .. Len(log[u])
    <3>1. \A u \in Worker : seen[u] \in synced[u] .. Len(log[u])
      BY <2>1
    <3> QED  BY <3>1, <1>0
  <2>3. \A u \in Worker : SubSeq(log[u], 1, seen[u]) \in Seq(Event)
    BY <2>2, <1>0
  <2>4. \A u \in Worker : LastFrontier(SubSeq(log[u], 1, seen[u]), threshold[w]) \in Offsets
    BY <2>3, LastFrontierType, Zenon DEF TypeOK
  <2>5. fs \in SUBSET Offsets /\ fs # {}
    BY <2>4, NonEmpty, Zenon
  <2> HIDE DEF fs
  <2>6. MergedFrontier(fs) \in [Worker -> 0 .. NumRows]
    BY <2>5, MergedFrontierFacts DEF Offsets
  <2>7. offsets' \in [Worker -> [Worker -> 0 .. NumRows]]
    BY <2>1, <2>6, Zenon DEF TypeOK, fs
  <2>8. synced' \in [Worker -> Nat] /\ \A u \in Worker : synced'[u] <= Len(log[u])
    BY <2>1, <2>2, <1>0
  <2> QED  BY <1>3, <2>7, <2>8, Zenon DEF ReconstructFrontier, TypeOK, output, history
<1>4. ASSUME NEW w \in Worker, NEW t \in 1 .. MaxTime, AdvanceTimeTo(w, t)
      PROVE  /\ log' \in [Worker -> Seq(Event)]
             /\ \A u \in Worker : synced[u] <= Len(log'[u])
             /\ clock' \in 1 .. MaxTime
             /\ now' \in [Worker -> 0 .. MaxTime]
  <2>1. AdvEvent(t, offsets[w]) \in Event
    BY AdvEventType, ConstantsAssumption DEF TypeOK, Offsets, Done
  <2>2. /\ Append(log[w], AdvEvent(t, offsets[w])) \in Seq(Event)
        /\ Len(Append(log[w], AdvEvent(t, offsets[w]))) = Len(log[w]) + 1
    BY <2>1, <1>0
  <2>3. log' = [log EXCEPT ![w] = Append(log[w], AdvEvent(t, offsets[w]))]
    BY <1>4 DEF AdvanceTimeTo
  <2>4. /\ log' \in [Worker -> Seq(Event)]
        /\ \A u \in Worker : synced[u] <= Len(log'[u])
    BY <2>2, <2>3, <1>0 DEF TypeOK
  <2> QED  BY <2>4, <1>4 DEF AdvanceTimeTo, TypeOK
<1>5. ASSUME NEW w \in Worker, FinishRewind(w)
      PROVE  TypeOK'
  <2>1. PICK t \in 1 .. MaxTime : AdvanceTimeTo(w, t)
    BY <1>5 DEF FinishRewind
  <2> QED  BY <1>4, <1>5, <2>1, Zenon DEF FinishRewind, TypeOK, output, history
<1>6. ASSUME NEW w \in Worker, Autocommit(w)
      PROVE  TypeOK'
  <2>1. PICK t \in 1 .. MaxTime : AdvanceTimeTo(w, t)
    BY <1>6 DEF Autocommit
  <2> QED  BY <1>4, <1>6, <2>1, Zenon DEF Autocommit, TypeOK, output, history
<1>7. ASSUME NEW w \in Worker, ReadRow(w)
      PROVE  TypeOK'
  <2> DEFINE k == offsets[w][w] + 1
             e == [at |-> Len(log[w]) + 1, row |-> k, time |-> now[w]]
  <2>1. k \in 1 .. NumRows
    BY <1>7, ConstantsAssumption DEF ReadRow, TypeOK
  <2>2. e \in [at : Nat, row : 1 .. NumRows, time : 0 .. MaxTime]
    BY <2>1, <1>0 DEF TypeOK
  <2>3. /\ Append(log[w], RowEvent(k)) \in Seq(Event)
        /\ Len(Append(log[w], RowEvent(k))) = Len(log[w]) + 1
    BY <2>1, <1>0, RowEventType
  <2>4. /\ log' = [log EXCEPT ![w] = Append(log[w], RowEvent(k))]
        /\ fed' = [fed EXCEPT ![w] = fed[w] \union {e}]
        /\ offsets' = [offsets EXCEPT ![w][w] = k]
        /\ available' = [available EXCEPT ![w] = IF k > available[w] THEN k ELSE available[w]]
    BY <1>7 DEF ReadRow
  <2> HIDE DEF k, e
  <2>5. /\ log' \in [Worker -> Seq(Event)]
        /\ \A u \in Worker : synced[u] <= Len(log'[u])
    BY <2>3, <2>4, <1>0 DEF TypeOK
  <2>6. fed' \in [Worker -> SUBSET [at : Nat, row : 1 .. NumRows, time : 0 .. MaxTime]]
    BY <2>2, <2>4, Zenon DEF TypeOK
  <2>7. /\ offsets' \in [Worker -> [Worker -> 0 .. NumRows]]
        /\ available' \in [Worker -> 0 .. NumRows]
    BY <2>1, <2>4 DEF TypeOK
  <2> QED  BY <1>7, <2>5, <2>6, <2>7, Zenon DEF ReadRow, TypeOK, output, history
<1>8. ASSUME NEW w \in Worker, FinishSource(w)
      PROVE  TypeOK'
  <2>1. AdvEvent(now[w] + 1, offsets[w]) \in Event
    BY AdvEventType, TimeFacts DEF TypeOK, Offsets
  <2>2. /\ Append(log[w], AdvEvent(now[w] + 1, offsets[w])) \in Seq(Event)
        /\ Len(Append(log[w], AdvEvent(now[w] + 1, offsets[w]))) = Len(log[w]) + 1
    BY <2>1, <1>0
  <2>3. log' = [log EXCEPT ![w] = Append(log[w], AdvEvent(now[w] + 1, offsets[w]))]
          \/ log' = log
    BY <1>8 DEF FinishSource
  <2>4. /\ log' \in [Worker -> Seq(Event)]
        /\ \A u \in Worker : synced[u] <= Len(log'[u])
    <3>1. CASE log' = log
      BY <3>1 DEF TypeOK
    <3>2. CASE log' = [log EXCEPT ![w] = Append(log[w], AdvEvent(now[w] + 1, offsets[w]))]
      BY <3>2, <2>2, <1>0 DEF TypeOK
    <3> QED  BY <2>3, <3>1, <3>2
  <2> QED  BY <1>8, <2>4, Zenon DEF FinishSource, TypeOK, output, history
<1>9. ASSUME NEW rows, rows \subseteq Sink \X Row, Deliver(rows)
      PROVE  delivered' \subseteq Sink \X Row /\ twice' \subseteq Sink \X Row
  BY <1>9 DEF Deliver, TypeOK
<1>10. ASSUME NEW w \in Worker, NEW s \in Sink, OutputBatches(w, s)
       PROVE  TypeOK'
  <2> DEFINE rows == Batch(w, s, wrote[w][s], Frontier)
  <2>1. rows \subseteq {s} \X Row
    BY BatchType
  <2> HIDE DEF rows
  <2>2. rows \subseteq Sink \X Row
    BY <2>1
  <2>3. Frontier \in Time
    BY FrontierFacts
  <2>4. /\ delivered' \subseteq Sink \X Row /\ twice' \subseteq Sink \X Row
        /\ buffered' \subseteq Delayed \X Row
    <3>1. CASE s \in Delayed
      BY <3>1, <2>1, <1>10 DEF OutputBatches, TypeOK, rows
    <3>2. CASE s \notin Delayed
      BY <3>2, <2>2, <1>9, <1>10, Zenon DEF OutputBatches, TypeOK, rows
    <3> QED  BY <3>1, <3>2
  <2>5. wrote' \in [Worker -> [Sink -> Time]]
    BY <2>3, <1>10 DEF OutputBatches, TypeOK
  <2> QED  BY <1>10, <2>4, <2>5, Zenon DEF OutputBatches, TypeOK, input
<1>11. ASSUME NEW s \in Delayed, FlushSink(s)
       PROVE  TypeOK'
  <2> DEFINE rows == {r \in buffered : r[1] = s}
  <2>1. rows \subseteq Sink \X Row /\ buffered \ rows \subseteq Delayed \X Row
    BY NonEmpty DEF TypeOK
  <2>2. Deliver(rows) /\ buffered' = buffered \ rows
    BY <1>11 DEF FlushSink
  <2> HIDE DEF rows
  <2>3. delivered' \subseteq Sink \X Row /\ twice' \subseteq Sink \X Row
    BY <2>1, <2>2, <1>9, Zenon
  <2> QED  BY <1>11, <2>1, <2>2, <2>3 DEF FlushSink, TypeOK, input
<1>12. ASSUME NEW w \in Worker, NEW s \in Sink, CommitSink(w, s)
       PROVE  TypeOK'
  <2>1. Frontier \in Time
    BY FrontierFacts
  <2>2. /\ sinkTime' \in [Worker -> [Sink -> Time]]
        /\ wrote' \in [Worker -> [Sink -> Time]]
    BY <2>1, <1>12 DEF CommitSink, TypeOK
  <2> DEFINE t == Finalized(sinkTime'[w])
  <2>3. t \in Time
    BY <2>2, FinalizedFacts
  <2> HIDE DEF t
  <2> DEFINE Typed == /\ disturbed' \in BOOLEAN
                      /\ synced' \in [Worker -> Nat]
                      /\ \A u \in Worker : synced'[u] <= Len(log[u])
                      /\ pending' \in [Worker -> Time \union {Nothing}]
  <2>4. Typed
    <3>1. CASE UNCHANGED <<synced, pending, disturbed>>
      BY <3>1 DEF TypeOK
    <3>2. ASSUME NEW outcome \in FlushOutcomes,
                 disturbed' = (disturbed \/ outcome # "ok"),
                 synced' = [synced EXCEPT ![w] = SyncedByFlush(w, outcome)],
                 pending' = [pending EXCEPT ![w] =
                               IF outcome = "cancelled" THEN Nothing ELSE t]
          PROVE  Typed
      <4>1. SyncedByFlush(w, outcome) \in Nat /\ SyncedByFlush(w, outcome) <= Len(log[w])
        BY <1>0 DEF SyncedByFlush
      <4>2. synced' \in [Worker -> Nat] /\ \A u \in Worker : synced'[u] <= Len(log[u])
        BY <3>2, <4>1, <1>0 DEF TypeOK
      <4>3. pending' \in [Worker -> Time \union {Nothing}]
        BY <3>2, <2>3 DEF TypeOK
      <4>4. disturbed' \in BOOLEAN
        BY <3>2
      <4> QED  BY <4>2, <4>3, <4>4
    <3>3. CASE pending' = [pending EXCEPT ![w] = last[w]] /\ UNCHANGED <<synced, disturbed>>
      BY <3>3 DEF TypeOK
    <3> QED  BY <1>12, <3>1, <3>2, <3>3, Zenon DEF CommitSink, t
  <2> QED  BY <1>12, <2>2, <2>4, Zenon DEF CommitSink, TypeOK, input
<1>13. ASSUME NEW w \in Worker, SaveMetadata(w)
       PROVE  TypeOK'
  <2>1. PICK outcome \in SaveOutcomes :
           /\ meta' = [meta EXCEPT ![w] = IF outcome = "ok" THEN pending[w] ELSE @]
           /\ disturbed' = (disturbed \/ outcome # "ok")
    BY <1>13, Zenon DEF SaveMetadata
  <2>2. disturbed' \in BOOLEAN
    BY <2>1
  <2>3. /\ meta' \in [Worker -> Time \union {Nothing}]
        /\ last' \in [Worker -> Time]
        /\ pending' \in [Worker -> Time \union {Nothing}]
    BY <2>1, <1>13 DEF SaveMetadata, TypeOK
  <2> QED  BY <1>13, <2>2, <2>3, Zenon DEF SaveMetadata, TypeOK, input
<1>14. ASSUME FreshProcess
       PROVE  /\ clock' \in 1 .. MaxTime /\ runs' \in 1 .. MaxRuns
              /\ phase' = [w \in Worker |-> "down"]
              /\ threshold' \in [Worker -> Time]
              /\ restored' \in [Worker -> Nat]
              /\ offsets' \in [Worker -> [Worker -> 0 .. NumRows]]
              /\ now' \in [Worker -> 0 .. MaxTime]
              /\ fed' = [w \in Worker |-> {}]
              /\ wrote' \in [Worker -> [Sink -> Time]]
              /\ buffered' = {}
              /\ sinkTime' \in [Worker -> [Sink -> Time]]
              /\ last' \in [Worker -> Time]
              /\ pending' = [w \in Worker |-> Nothing]
  BY <1>14, ConstantsAssumption, TimeFacts
     DEF FreshProcess, InitialTimestamps, NoOffsets, TypeOK
<1>15. CASE Crash
  <2>1. FreshProcess /\ disturbed' = TRUE /\ UNCHANGED <<meta, delivered, available, twice>>
    BY <1>15 DEF Crash
  <2>2. PICK kept :
           /\ kept \in [Worker -> UNION {synced[w] .. Len(log[w]) : w \in Worker}]
           /\ \A w \in Worker : kept[w] \in synced[w] .. Len(log[w])
           /\ synced' = kept
           /\ log' = [w \in Worker |-> SubSeq(log[w], 1, kept[w])]
    BY <1>15, Zenon DEF Crash
  <2>3. \A w \in Worker : kept[w] \in 0 .. Len(log[w])
    <3>1. \A w \in Worker : kept[w] \in synced[w] .. Len(log[w])
      BY <2>2
    <3> QED  BY <3>1, <1>0
  <2>4. \A w \in Worker : /\ SubSeq(log[w], 1, kept[w]) \in Seq(Event)
                           /\ Len(SubSeq(log[w], 1, kept[w])) = kept[w]
    BY <2>3, <1>0
  <2>5. /\ log' \in [Worker -> Seq(Event)] /\ synced' \in [Worker -> Nat]
        /\ \A w \in Worker : synced'[w] <= Len(log'[w])
    BY <2>2, <2>3, <2>4
  <2> QED  BY <1>14, <2>1, <2>5 DEF TypeOK
<1>16. CASE Exit
  <2>1. /\ FreshProcess /\ synced' = [w \in Worker |-> Len(log[w])]
        /\ UNCHANGED <<log, meta, delivered, available, twice, disturbed>>
    BY <1>16 DEF Exit
  <2>2. synced' \in [Worker -> Nat] /\ \A w \in Worker : synced'[w] <= Len(log[w])
    BY <2>1, <1>0
  <2> QED  BY <1>14, <2>1, <2>2 DEF TypeOK
<1>17. CASE UNCHANGED vars
  BY <1>17 DEF vars, durable, input, output, history, TypeOK
<1> QED
  BY <1>1, <1>2, <1>3, <1>5, <1>6, <1>7, <1>8, <1>10, <1>11, <1>12, <1>13, <1>15, <1>16,
     <1>17
     DEF Next, WorkerStep, Terminated

\* The variables always have their types, in every run of the program.
THEOREM TypeCorrect == Spec => []TypeOK
BY TypeInit, TypeNext, PTL DEF Spec

-----------------------------------------------------------------------------
(* The order of the times within a run: what is committed is finalized by  *)
(* every sink of the worker, and no session is behind what is finalized.   *)

InputStep(w) ==
    \/ Open(w) \/ RewindFromSnapshot(w) \/ ReconstructFrontier(w) \/ FinishRewind(w)
    \/ ReadRow(w) \/ Autocommit(w) \/ FinishSource(w)

OrderInv ==
    /\ \A w \in Worker : now[w] <= clock
    /\ \A w, u \in Worker, s \in Sink : sinkTime[w][s] <= SessionTime(u)
    /\ \A w \in Worker, s \in Sink : last[w] <= sinkTime[w][s]
    /\ \A w \in Worker : pending[w] # Nothing =>
          last[w] < pending[w] /\ \A s \in Sink : pending[w] <= sinkTime[w][s]

\* The steps of an input connector move its session forward and leave the output
\* side alone; those of the sink threads leave the input side alone.
LEMMA StepKinds ==
    ASSUME TypeOK, [Next]_vars
    PROVE  \/ \E w \in Worker : InputStep(w) /\ UNCHANGED <<meta, output, history>>
           \/ \E w \in Worker, s \in Sink : OutputBatches(w, s)
           \/ \E w \in Worker, s \in Sink : CommitSink(w, s)
           \/ \E w \in Worker : SaveMetadata(w)
           \/ \E s \in Delayed : FlushSink(s)
           \/ FreshProcess /\ meta' = meta
           \/ UNCHANGED vars
<1> USE DEF durable
<1>1. ASSUME NEW w \in Worker, InputStep(w)
      PROVE  UNCHANGED <<meta, output, history>>
  <2>1. CASE Open(w)  BY <2>1 DEF Open
  <2>2. CASE RewindFromSnapshot(w)  BY <2>2 DEF RewindFromSnapshot
  <2>3. CASE ReconstructFrontier(w)  BY <2>3 DEF ReconstructFrontier
  <2>4. CASE FinishRewind(w)  BY <2>4 DEF FinishRewind
  <2>5. CASE ReadRow(w)  BY <2>5 DEF ReadRow
  <2>6. CASE Autocommit(w)  BY <2>6 DEF Autocommit
  <2>7. CASE FinishSource(w)  BY <2>7 DEF FinishSource
  <2> QED  BY <1>1, <2>1, <2>2, <2>3, <2>4, <2>5, <2>6, <2>7 DEF InputStep
<1>2. CASE Crash  BY <1>2 DEF Crash
<1>3. CASE Exit  BY <1>3 DEF Exit
<1>4. CASE Terminated  BY <1>4 DEF Terminated
<1> QED  BY <1>1, <1>2, <1>3, <1>4 DEF Next, WorkerStep, InputStep

\* The time of an input session is a time.
LEMMA SessionType ==
    /\ TypeOK  => \A w \in Worker : SessionTime(w) \in Time
    /\ TypeOK' => \A w \in Worker : SessionTime(w)' \in Time
BY TimeFacts DEF SessionTime, TypeOK

\* No step of a running program moves the time of an input session back.
LEMMA SessionAdvances ==
    ASSUME TypeOK, OrderInv, NEW w \in Worker, InputStep(w)
    PROVE  /\ clock <= clock' /\ \A u \in Worker : now'[u] <= clock'
           /\ \A u \in Worker : SessionTime(u) <= SessionTime(u)'
           /\ \A u \in Worker : SessionTime(u)' = SessionTime(u) \/ clock <= SessionTime(u)'
<1> USE TimeFacts
<1>1. \A u \in Worker : phase[u] \in {"down", "opened", "rewound", "seeked", "run", "ended"}
                       /\ now[u] \in 0 .. MaxTime /\ now[u] <= clock
  BY DEF TypeOK, OrderInv
<1> DEFINE Advances == /\ clock <= clock' /\ \A u \in Worker : now'[u] <= clock'
                       /\ \A u \in Worker : SessionTime(u) <= SessionTime(u)'
                       /\ \A u \in Worker : \/ SessionTime(u)' = SessionTime(u)
                                             \/ clock <= SessionTime(u)'
<1>2. clock \in Nat /\ clock <= Done
  BY DEF TypeOK
<1>3. ASSUME NEW t \in 1 .. MaxTime, AdvanceTimeTo(w, t), phase[w] \in {"seeked", "run"},
             phase' = [phase EXCEPT ![w] = "run"]
      PROVE  Advances
  <2>1. /\ clock <= clock' /\ clock' = t /\ now' = [now EXCEPT ![w] = t]
    BY <1>2, <1>3 DEF AdvanceTimeTo
  <2>2. \A u \in Worker : now'[u] <= clock'
    BY <1>1, <1>2, <2>1 DEF TypeOK
  <2>3. ASSUME NEW u \in Worker
        PROVE  /\ SessionTime(u) <= SessionTime(u)'
               /\ SessionTime(u)' = SessionTime(u) \/ clock <= SessionTime(u)'
    <3>1. CASE u = w
      BY <3>1, <1>1, <1>2, <1>3, <2>1 DEF SessionTime, TypeOK
    <3>2. CASE u # w
      <4>1. phase'[u] = phase[u] /\ now'[u] = now[u]
        BY <3>2, <1>3, <2>1 DEF TypeOK
      <4> QED  BY <4>1, FrontierFacts DEF SessionTime
    <3> QED  BY <3>1, <3>2
  <2> QED  BY <2>1, <2>2, <2>3
<1>4. ASSUME UNCHANGED <<clock, now>>, NEW p,
             \/ phase[w] = p
             \/ phase[w] \in {"down", "opened", "rewound"} /\ p \notin {"run", "ended"}
             \/ p = "ended",
             phase' = [phase EXCEPT ![w] = p]
      PROVE  Advances
  <2>1. ASSUME NEW u \in Worker
        PROVE  /\ SessionTime(u) <= SessionTime(u)'
               /\ SessionTime(u)' = SessionTime(u) \/ clock <= SessionTime(u)'
    <3>1. CASE u = w
      BY <3>1, <1>1, <1>2, <1>4 DEF SessionTime, TypeOK
    <3>2. CASE u # w
      <4>1. phase'[u] = phase[u] /\ now'[u] = now[u]
        BY <3>2, <1>4 DEF TypeOK
      <4> QED  BY <4>1, FrontierFacts DEF SessionTime
    <3> QED  BY <3>1, <3>2
  <2> QED  BY <1>1, <1>2, <1>4, <2>1
<1>5. CASE Open(w)  BY <1>4, <1>5, Zenon DEF Open, durable
<1>6. CASE RewindFromSnapshot(w)  BY <1>4, <1>6, Zenon DEF RewindFromSnapshot
<1>7. CASE ReconstructFrontier(w)  BY <1>4, <1>7, Zenon DEF ReconstructFrontier
<1>8. CASE FinishRewind(w)  BY <1>3, <1>8 DEF FinishRewind
<1>9. CASE ReadRow(w)
  <2>1. UNCHANGED <<clock, now, phase>>
    BY <1>9 DEF ReadRow
  <2>2. \A u \in Worker : SessionTime(u)' = SessionTime(u)
    BY <2>1 DEF SessionTime
  <2>3. \A u \in Worker : SessionTime(u) <= SessionTime(u)'
    <3> TAKE u \in Worker
    <3>1. SessionTime(u) \in Nat
      BY SessionType, TimeFacts, Zenon
    <3>2. SessionTime(u)' = SessionTime(u)
      BY <2>2
    <3> HIDE TimeFacts
    <3> QED  BY <3>1, <3>2
  <2> QED  BY <1>1, <1>2, <2>1, <2>2, <2>3
<1>10. CASE Autocommit(w)
  <2>1. phase' = [phase EXCEPT ![w] = "run"] /\ phase[w] = "run"
    BY <1>10 DEF Autocommit, TypeOK
  <2> QED  BY <1>3, <1>10, <2>1, Zenon DEF Autocommit
<1>11. CASE FinishSource(w)  BY <1>4, <1>11, Zenon DEF FinishSource
<1> QED  BY <1>5, <1>6, <1>7, <1>8, <1>9, <1>10, <1>11 DEF InputStep

\* The order of times holds at first.
LEMMA OrderInit == Init => OrderInv
BY ConstantsAssumption, TimeFacts DEF Init, OrderInv, SessionTime, InitialTimestamps, Nothing

\* Every step keeps the order of times between sessions, sinks and commits.
LEMMA OrderNext == TypeOK /\ TypeOK' /\ OrderInv /\ [Next]_vars => OrderInv'
<1> SUFFICES ASSUME TypeOK, TypeOK', OrderInv, [Next]_vars
             PROVE  OrderInv'
  OBVIOUS
<1>0. /\ sinkTime \in [Worker -> [Sink -> Time]] /\ last \in [Worker -> Time]
      /\ pending \in [Worker -> Time \union {Nothing}]
      /\ \A w \in Worker, s \in Sink : sinkTime[w][s] \in Nat /\ sinkTime'[w][s] \in Nat
      /\ \A w \in Worker : last[w] \in Nat
  <2>1. sinkTime' \in [Worker -> [Sink -> Time]]
    BY Zenon DEF TypeOK
  <2> QED  BY <2>1, SinkTimeType, CommitType, TimeFacts, Zenon
<1>1. ASSUME NEW w \in Worker, InputStep(w), UNCHANGED output
      PROVE  OrderInv'
  <2>1. \A u \in Worker : now'[u] <= clock' /\ SessionTime(u) <= SessionTime(u)'
    BY <1>1, SessionAdvances
  <2>2. \A u \in Worker : SessionTime(u) \in Nat /\ SessionTime(u)' \in Nat
    BY SessionType, TimeFacts, Zenon
  <2>3. UNCHANGED <<sinkTime, last, pending>>
    BY <1>1 DEF output
  <2>4. \A v, u \in Worker, r \in Sink : sinkTime[v][r] <= SessionTime(u)'
    BY <1>0, <2>1, <2>2 DEF OrderInv
  <2> QED  BY <2>1, <2>3, <2>4 DEF OrderInv
<1>2. ASSUME UNCHANGED <<input, clock, sinkTime, last, pending>>
      PROVE  OrderInv'
  BY <1>2 DEF OrderInv, input, SessionTime
<1>3. ASSUME NEW w \in Worker, NEW s \in Sink, CommitSink(w, s)
      PROVE  OrderInv'
  <2>1. /\ UNCHANGED <<input, clock, last>> /\ pending[w] = Nothing
        /\ sinkTime' = [sinkTime EXCEPT ![w][s] = Frontier]
        /\ Frontier > sinkTime[w][s]
    BY <1>3 DEF CommitSink
  <2>2. Frontier \in Time /\ \A u \in Worker : Frontier <= SessionTime(u)
    BY FrontierFacts
  <2>3. \A u \in Worker : SessionTime(u)' = SessionTime(u) /\ now'[u] <= clock'
    BY <2>1 DEF SessionTime, input, OrderInv
  <2>4. \A v, u \in Worker, r \in Sink : sinkTime'[v][r] <= SessionTime(u)
    BY <1>0, <2>1, <2>2 DEF OrderInv
  <2>5. \A v \in Worker, r \in Sink : /\ sinkTime[v][r] <= sinkTime'[v][r]
                                      /\ last'[v] <= sinkTime'[v][r]
    <3>1. \A v \in Worker, r \in Sink : sinkTime[v][r] <= sinkTime'[v][r]
      BY <1>0, <2>1, <2>2, TimeFacts
    <3> QED  BY <3>1, <1>0, <2>1 DEF OrderInv
  <2> DEFINE t == Finalized(sinkTime'[w])
  <2>6. sinkTime'[w] \in [Sink -> Time]
    BY DEF TypeOK
  <2>7. t \in Time /\ (\A r \in Sink : t <= sinkTime'[w][r]) /\ \E r \in Sink : t = sinkTime'[w][r]
    BY <2>6, FinalizedFacts
  <2> HIDE DEF t
  <2>8. ~ (t < last[w])
    BY <2>1, <2>5, <2>7, <1>0, TimeFacts
  <2>9. \/ pending' = pending
        \/ t > last[w] /\ \E x \in {t, Nothing} : pending' = [pending EXCEPT ![w] = x]
    BY <1>3, <2>8, Zenon DEF CommitSink, t
  <2>10. \A v \in Worker : pending'[v] # Nothing =>
            last'[v] < pending'[v] /\ \A r \in Sink : pending'[v] <= sinkTime'[v][r]
    <3> SUFFICES ASSUME NEW v \in Worker, pending'[v] # Nothing
                 PROVE  last'[v] < pending'[v] /\ \A r \in Sink : pending'[v] <= sinkTime'[v][r]
      OBVIOUS
    <3>1. CASE pending'[v] = pending[v]
      <4>1. \A r \in Sink : pending[v] <= sinkTime[v][r] /\ sinkTime[v][r] <= sinkTime'[v][r]
        BY <3>1, <2>5 DEF OrderInv
      <4>2. pending[v] \in Nat
        BY <3>1, <1>0, TimeFacts, Zenon
      <4> QED  BY <3>1, <4>1, <4>2, <1>0, <2>1, Zenon DEF OrderInv
    <3>2. CASE v = w /\ pending'[v] = t /\ t > last[w]
      BY <3>2, <2>1, <2>7, <1>0, Zenon
    <3> QED  BY <3>1, <3>2, <2>9, <1>0
  <2> QED  BY <2>3, <2>4, <2>5, <2>10 DEF OrderInv
<1>4. ASSUME NEW w \in Worker, SaveMetadata(w)
      PROVE  OrderInv'
  <2>1. /\ UNCHANGED <<input, clock, sinkTime>> /\ pending[w] # Nothing
        /\ last' = [last EXCEPT ![w] = pending[w]]
        /\ pending' = [pending EXCEPT ![w] = Nothing]
    BY <1>4 DEF SaveMetadata
  <2>2. \A u \in Worker : SessionTime(u)' = SessionTime(u) /\ now'[u] <= clock'
    BY <2>1 DEF SessionTime, input, OrderInv
  <2> QED  BY <1>0, <2>1, <2>2 DEF OrderInv
<1>5. ASSUME FreshProcess
      PROVE  OrderInv'
  <2>1. clock' \in Nat
    BY DEF TypeOK
  <2> QED  BY <1>5, <2>1 DEF FreshProcess, OrderInv, SessionTime, InitialTimestamps, Nothing
<1>6. ASSUME NEW w \in Worker, NEW s \in Sink, OutputBatches(w, s)
      PROVE  OrderInv'
  BY <1>2, <1>6 DEF OutputBatches
<1>7. ASSUME NEW s \in Delayed, FlushSink(s)
      PROVE  OrderInv'
  BY <1>2, <1>7 DEF FlushSink
<1>8. CASE UNCHANGED vars
  BY <1>2, <1>8 DEF vars, durable, output
<1> QED  BY StepKinds, <1>1, <1>3, <1>4, <1>5, <1>6, <1>7, <1>8

\* That order puts the finalized time of a worker at or above its last commit.
LEMMA OrderFinalized == TypeOK /\ OrderInv => FinalizedNeverBehind
<1> SUFFICES ASSUME TypeOK, OrderInv, NEW w \in Worker
             PROVE  Finalized(sinkTime[w]) >= last[w]
  BY DEF FinalizedNeverBehind
<1>1. sinkTime[w] \in [Sink -> Time]
  BY DEF TypeOK
<1>2. \E s \in Sink : Finalized(sinkTime[w]) = sinkTime[w][s]
  BY <1>1, FinalizedFacts
<1> QED  BY <1>1, <1>2, TimeFacts DEF OrderInv, TypeOK

\* The commit order: in accept_finalized_timestamp the branch that reports "Time
\* isn't in the increasing order" is never taken.
THEOREM CommitsInOrder == Spec => []FinalizedNeverBehind
<1> QED  BY OrderFinalized, TypeInit, TypeNext, OrderInit, OrderNext, PTL DEF Spec

-----------------------------------------------------------------------------
(* Agreement on the recovery time.                                         *)

Up(w) == phase[w] \in {"run", "ended"}

StartupInv ==
    /\ ThresholdsAgree
    /\ (\E w \in Worker : ~ Up(w)) =>
          \A w \in Worker : phase[w] # "down" => threshold[w] = MinThreshold(meta)

\* A commit is in progress only when every worker is past its rewind, and no
\* running session is behind it.
LEMMA CommitNeedsAll ==
    ASSUME TypeOK, OrderInv, NEW w \in Worker, pending[w] # Nothing, NEW u \in Worker
    PROVE  Up(u) /\ (phase[u] = "run" => pending[w] <= now[u])
<1>1. PICK s \in Sink : TRUE
  BY NonEmpty, Zenon
<1>2. pending[w] \in Nat /\ last[w] \in Nat /\ sinkTime[w][s] \in Nat /\ SessionTime(u) \in Nat
  <2>1. SessionTime(u) \in Time /\ pending[w] \in Time /\ last[w] \in Time /\ sinkTime[w][s] \in Time
    BY SessionType, SinkTimeType, CommitType, Zenon
  <2> QED  BY <2>1, TimeFacts, Zenon
<1>3. /\ last[w] < pending[w] /\ pending[w] <= sinkTime[w][s]
      /\ sinkTime[w][s] <= SessionTime(u)
  BY DEF OrderInv
<1>4. 0 < SessionTime(u) /\ pending[w] <= SessionTime(u)
  BY <1>2, <1>3
<1> QED  BY <1>4 DEF SessionTime, Up

\* While some worker is still starting, the thresholds read so far stay the minimum
\* of the metadata in storage.
LEMMA StartupNext ==
    TypeOK /\ OrderInv /\ StartupInv /\ [Next]_vars => StartupInv'
<1> SUFFICES ASSUME TypeOK, OrderInv, StartupInv, [Next]_vars
             PROVE  StartupInv'
  OBVIOUS
<1>0. phase \in [Worker -> {"down", "opened", "rewound", "seeked", "run", "ended"}]
        /\ threshold \in [Worker -> Time]
  BY DEF TypeOK
<1>1. ASSUME NEW w \in Worker, Open(w)
      PROVE  StartupInv'
  <2>1. /\ ~ Up(w) /\ phase' = [phase EXCEPT ![w] = "opened"] /\ meta' = meta
        /\ threshold' = [threshold EXCEPT ![w] = MinThreshold(meta)]
    BY <1>1 DEF Open, Up, durable
  <2>2. \A u \in Worker : phase[u] # "down" => threshold[u] = MinThreshold(meta)
    BY <2>1 DEF StartupInv
  <2>3. \A u \in Worker : phase'[u] # "down" => threshold'[u] = MinThreshold(meta)
    BY <1>0, <2>1, <2>2
  <2>4. MinThreshold(meta)' = MinThreshold(meta)
    BY <2>1 DEF MinThreshold
  <2> QED  BY <2>3, <2>4 DEF StartupInv, ThresholdsAgree
<1>2. ASSUME UNCHANGED <<threshold, meta>>,
             \A u \in Worker : phase'[u] # "down" => phase[u] # "down",
             \A u \in Worker : ~ Up(u)' => ~ Up(u)
      PROVE  StartupInv'
  <2>1. MinThreshold(meta)' = MinThreshold(meta)
    BY <1>2 DEF MinThreshold
  <2> QED  BY <1>2, <2>1 DEF StartupInv, ThresholdsAgree
<1>3. ASSUME NEW w \in Worker, InputStep(w), ~ Open(w), meta' = meta
      PROVE  StartupInv'
  <2>1. /\ threshold' = threshold
        /\ \/ phase' = phase
           \/ phase[w] # "down" /\ ~ Up(w) /\ \E p : phase' = [phase EXCEPT ![w] = p]
           \/ phase[w] # "down" /\ phase' = [phase EXCEPT ![w] = "ended"]
    <3>1. CASE RewindFromSnapshot(w)  BY <3>1, Zenon DEF RewindFromSnapshot, Up
    <3>2. CASE ReconstructFrontier(w)  BY <3>2, Zenon DEF ReconstructFrontier, Up
    <3>3. CASE FinishRewind(w)  BY <3>3, Zenon DEF FinishRewind, Up
    <3>4. CASE ReadRow(w)  BY <3>4 DEF ReadRow
    <3>5. CASE Autocommit(w)  BY <3>5, Zenon DEF Autocommit
    <3>6. CASE FinishSource(w)  BY <3>6 DEF FinishSource
    <3> QED  BY <1>3, <3>1, <3>2, <3>3, <3>4, <3>5, <3>6 DEF InputStep
  <2> QED  BY <1>0, <1>2, <1>3, <2>1 DEF Up
<1>4. ASSUME UNCHANGED <<input, meta>>
      PROVE  StartupInv'
  BY <1>2, <1>4, Zenon DEF input, Up
<1>5. ASSUME NEW w \in Worker, SaveMetadata(w)
      PROVE  StartupInv'
  <2>1. pending[w] # Nothing /\ UNCHANGED input
    BY <1>5 DEF SaveMetadata
  <2>2. \A u \in Worker : Up(u)
    BY <2>1, CommitNeedsAll, Zenon
  <2> QED  BY <2>1, <2>2 DEF StartupInv, ThresholdsAgree, Up, input
<1>6. ASSUME FreshProcess
      PROVE  StartupInv'
  BY <1>6 DEF FreshProcess, StartupInv, ThresholdsAgree
<1>7. ASSUME NEW w \in Worker, NEW s \in Sink, OutputBatches(w, s)
      PROVE  StartupInv'
  BY <1>4, <1>7 DEF OutputBatches
<1>8. ASSUME NEW w \in Worker, NEW s \in Sink, CommitSink(w, s)
      PROVE  StartupInv'
  BY <1>4, <1>8 DEF CommitSink
<1>9. ASSUME NEW s \in Delayed, FlushSink(s)
      PROVE  StartupInv'
  BY <1>4, <1>9 DEF FlushSink
<1>10. CASE UNCHANGED vars
  BY <1>4, <1>10 DEF vars, durable
<1> QED  BY StepKinds, <1>1, <1>3, <1>5, <1>6, <1>7, <1>8, <1>9, <1>10

\* All workers of a run recover to the same time: create_snapshot_readers takes the
\* minimum at different moments, but no metadata block changes between them.
THEOREM RecoveryTimeAgreed == Spec => []ThresholdsAgree
<1>1. Init => StartupInv
  BY DEF Init, StartupInv, ThresholdsAgree
<1>2. StartupInv => ThresholdsAgree
  BY DEF StartupInv
<1> QED
  BY <1>1, <1>2, TypeInit, TypeNext, OrderInit, OrderNext, StartupNext, PTL DEF Spec

-----------------------------------------------------------------------------
(* The log is saved before the metadata.                                   *)

SavedInv ==
    /\ \A w \in Worker : \A e \in fed[w] : e.at <= Len(log[w])
    /\ CommittedIsSaved

\* Every step keeps the fed rows and the saved part of the log in step.
LEMMA SavedNext ==
    ASSUME "io_error" \notin FlushOutcomes
    PROVE  TypeOK /\ TypeOK' /\ OrderInv /\ SavedInv /\ [Next]_vars => SavedInv'
<1> SUFFICES ASSUME TypeOK, TypeOK', OrderInv, SavedInv, [Next]_vars
             PROVE  SavedInv'
  BY Zenon
<1>0. /\ log \in [Worker -> Seq(Event)] /\ log' \in [Worker -> Seq(Event)]
      /\ fed \in [Worker -> SUBSET [at : Nat, row : 1 .. NumRows, time : 0 .. MaxTime]]
      /\ synced \in [Worker -> Nat]
      /\ pending \in [Worker -> Time \union {Nothing}]
      /\ \A w \in Worker : Len(log[w]) \in Nat /\ Len(log'[w]) \in Nat
  BY DEF TypeOK
<1>1. ASSUME NEW w \in Worker, ~ Up(w), pending' = pending
      PROVE  CommittedIsSaved'
  BY <1>1, CommitNeedsAll DEF CommittedIsSaved
<1>2. ASSUME UNCHANGED <<fed, pending, synced>>,
             \A w \in Worker : Len(log[w]) <= Len(log'[w])
      PROVE  SavedInv'
  BY <1>0, <1>2 DEF SavedInv, CommittedIsSaved
<1>3. ASSUME NEW w \in Worker, NEW e, log' = [log EXCEPT ![w] = Append(@, e)]
      PROVE  \A u \in Worker : Len(log[u]) <= Len(log'[u])
  BY <1>0, <1>3
<1>4. ASSUME NEW w \in Worker, InputStep(w), UNCHANGED output
      PROVE  SavedInv'
  <2>0. pending' = pending
    BY <1>4 DEF output
  <2>1. CASE Open(w)
    BY <1>0, <1>2, <2>0, <2>1 DEF Open, durable
  <2>2. CASE RewindFromSnapshot(w)
    <3>1. CommittedIsSaved'
      BY <1>1, <2>0, <2>2, Zenon DEF RewindFromSnapshot, Up
    <3>2. fed' = [fed EXCEPT ![w] =
                     {[at |-> i, row |-> log'[w][i].row, time |-> 0] :
                         i \in {j \in DOMAIN log'[w] : log'[w][j].kind = "row"}}]
          /\ \A u \in Worker \ {w} : log'[u] = log[u]
      BY <2>2, <1>0, Zenon DEF RewindFromSnapshot
    <3>3. \A e \in fed'[w] : e.at \in DOMAIN log'[w]
      BY <3>2, <1>0
    <3>4. \A u \in Worker : \A e \in fed'[u] : e.at <= Len(log'[u])
      BY <3>2, <3>3, <1>0 DEF SavedInv
    <3> QED  BY <3>1, <3>4, Zenon DEF SavedInv
  <2>3. CASE ReconstructFrontier(w)
    <3>1. CommittedIsSaved'
      BY <1>1, <2>0, <2>3, Zenon DEF ReconstructFrontier, Up
    <3> QED  BY <3>1, <2>3 DEF ReconstructFrontier, SavedInv
  <2>4. CASE FinishRewind(w)
    BY <1>2, <1>3, <2>0, <2>4, Zenon DEF FinishRewind, AdvanceTimeTo
  <2>5. CASE Autocommit(w)
    BY <1>2, <1>3, <2>0, <2>5, Zenon DEF Autocommit, AdvanceTimeTo
  <2>6. CASE FinishSource(w)
    BY <1>0, <1>2, <1>3, <2>0, <2>6 DEF FinishSource
  <2>7. CASE ReadRow(w)
    <3> DEFINE e == [at |-> Len(log[w]) + 1, row |-> offsets[w][w] + 1, time |-> now[w]]
    <3>1. /\ phase[w] = "run" /\ synced' = synced
          /\ fed' = [fed EXCEPT ![w] = @ \union {e}]
          /\ log' = [log EXCEPT ![w] = Append(@, RowEvent(offsets[w][w] + 1))]
      BY <2>7, Zenon DEF ReadRow
    <3>2. Len(log'[w]) = Len(log[w]) + 1 /\ \A u \in Worker : Len(log[u]) <= Len(log'[u])
      BY <3>1, <1>0
    <3>3. pending[w] # Nothing => ~ (now[w] < pending[w])
      <4>1. pending[w] # Nothing => pending[w] <= now[w] /\ pending[w] \in Nat
        BY <3>1, <1>0, CommitNeedsAll, TimeFacts, Zenon
      <4>2. now[w] \in Nat
        BY DEF TypeOK
      <4> QED  BY <4>1, <4>2
    <3>4. \A u \in Worker : \A d \in fed'[u] : d.at <= Len(log'[u])
      <4> SUFFICES ASSUME NEW u \in Worker, NEW d, d \in fed'[u]
                   PROVE  d.at <= Len(log'[u])
        BY Zenon
      <4>1. d \in fed[u] \/ (u = w /\ d = e)
        BY <3>1, <1>0, Zenon
      <4>2. CASE d \in fed[u]
        <5>1. d.at \in Nat /\ Len(log[u]) \in Nat /\ Len(log'[u]) \in Nat
          BY <4>2, <1>0
        <5>2. d.at <= Len(log[u]) /\ Len(log[u]) <= Len(log'[u])
          BY <4>2, <3>2, Zenon DEF SavedInv
        <5> QED  BY <5>1, <5>2
      <4>3. CASE u = w /\ d = e
        <5>1. d.at = Len(log[w]) + 1 /\ Len(log[w]) \in Nat
          BY <4>3, <1>0, Zenon
        <5> QED  BY <5>1, <4>3, <3>2
      <4> QED  BY <4>1, <4>2, <4>3, Zenon
    <3>5. CommittedIsSaved'
      BY <3>1, <3>3, <2>0, <1>0 DEF SavedInv, CommittedIsSaved
    <3> QED  BY <3>4, <3>5 DEF SavedInv
  <2> QED  BY <1>4, <2>1, <2>2, <2>3, <2>4, <2>5, <2>6, <2>7 DEF InputStep
<1>5. ASSUME NEW w \in Worker, NEW s \in Sink, CommitSink(w, s)
      PROVE  SavedInv'
  <2>1. UNCHANGED <<log, fed>>
    BY <1>5 DEF CommitSink, input
  <2> DEFINE t == Finalized(sinkTime'[w])
  <2>2. ~ (t < last[w])
    <3>1. \A r \in Sink : last'[w] <= sinkTime'[w][r]
      BY OrderNext DEF OrderInv
    <3>2. sinkTime'[w] \in [Sink -> Time] /\ last' = last /\ last[w] \in Time
      BY <1>5, Zenon DEF CommitSink, TypeOK
    <3>3. t \in Time /\ \E r \in Sink : t = sinkTime'[w][r]
      BY <3>2, FinalizedFacts, Zenon
    <3> HIDE DEF t
    <3>4. last[w] <= t
      BY <3>1, <3>2, <3>3
    <3>5. last[w] \in Nat /\ t \in Nat
      BY <3>2, <3>3, TimeFacts, Zenon
    <3> QED  BY <3>4, <3>5
  <2>3. \/ UNCHANGED <<synced, pending>>
        \/ \E outcome \in FlushOutcomes :
              /\ synced' = [synced EXCEPT ![w] = SyncedByFlush(w, outcome)]
              /\ pending' = [pending EXCEPT ![w] =
                               IF outcome = "cancelled" THEN Nothing ELSE t]
    BY <1>5, <2>2, Zenon DEF CommitSink
  <2> HIDE DEF t
  <2>4. CASE UNCHANGED <<synced, pending>>
    BY <2>1, <2>4 DEF SavedInv, CommittedIsSaved
  <2>5. ASSUME NEW outcome \in FlushOutcomes,
               synced' = [synced EXCEPT ![w] = SyncedByFlush(w, outcome)],
               pending' = [pending EXCEPT ![w] =
                             IF outcome = "cancelled" THEN Nothing ELSE t]
        PROVE  SavedInv'
    <3>1. CASE outcome = "cancelled"
      BY <3>1, <2>1, <2>5, <1>0, Zenon DEF SavedInv, CommittedIsSaved, SyncedByFlush
    <3>2. CASE outcome = "ok"
      BY <3>2, <2>1, <2>5, <1>0, Zenon DEF SavedInv, CommittedIsSaved, SyncedByFlush
    <3> QED  BY <3>1, <3>2, ConstantsAssumption
  <2> QED  BY <2>3, <2>4, <2>5, Zenon
<1>6. ASSUME NEW w \in Worker, SaveMetadata(w)
      PROVE  SavedInv'
  BY <1>0, <1>6, Zenon DEF SaveMetadata, input, SavedInv, CommittedIsSaved
<1>7. ASSUME FreshProcess
      PROVE  SavedInv'
  BY <1>7 DEF FreshProcess, SavedInv, CommittedIsSaved
<1>8. ASSUME NEW w \in Worker, NEW s \in Sink, OutputBatches(w, s)
      PROVE  SavedInv'
  BY <1>8, Zenon DEF OutputBatches, input, SavedInv, CommittedIsSaved
<1>9. ASSUME NEW s \in Delayed, FlushSink(s)
      PROVE  SavedInv'
  BY <1>9 DEF FlushSink, input, SavedInv, CommittedIsSaved
<1>10. CASE UNCHANGED vars
  BY <1>10, Zenon DEF vars, durable, input, output, SavedInv, CommittedIsSaved
<1> QED  BY StepKinds, <1>4, <1>5, <1>6, <1>7, <1>8, <1>9, <1>10

\* A prepared commit is on disk before its metadata: if no flush answers with an
\* error (which prepare() would take for a success), every row below the time about
\* to be stored has left the writer's buffer.
THEOREM LogSavedBeforeMetadata ==
    ASSUME "io_error" \notin FlushOutcomes
    PROVE  Spec => []CommittedIsSaved
<1>1. Init => SavedInv
  BY DEF Init, SavedInv, CommittedIsSaved
<1>2. SavedInv => CommittedIsSaved
  BY DEF SavedInv
<1> QED
  BY <1>1, <1>2, TypeInit, TypeNext, OrderInit, OrderNext, SavedNext, PTL DEF Spec

-----------------------------------------------------------------------------
(* Stored times advance.  A block is either of this run, and then not above *)
(* last, or of an earlier run, and then below whatever this run finalizes. *)

Stored(t) == t \notin {Nothing, Done}

OfEarlierRun(w) ==
    /\ \A u \in Worker : SessionTime(u) = 0 \/ meta[w] <= SessionTime(u)
    /\ \A s \in Sink : sinkTime[w][s] = 0 \/ meta[w] <= sinkTime[w][s]

StoredInv ==
    /\ \A w \in Worker, s \in Sink : Stored(sinkTime[w][s]) => sinkTime[w][s] <= clock
    /\ \A w \in Worker : Stored(pending[w]) => pending[w] <= clock
    /\ \A w \in Worker : Stored(meta[w]) =>
          /\ meta[w] <= clock
          /\ pending[w] # Nothing => meta[w] <= pending[w]
          /\ meta[w] <= last[w] \/ OfEarlierRun(w)

\* Every step keeps the stored times below what the present run may store.
LEMMA StoredNext ==
    TypeOK /\ TypeOK' /\ OrderInv /\ OrderInv' /\ StoredInv /\ [Next]_vars => StoredInv'
<1> SUFFICES ASSUME TypeOK, TypeOK', OrderInv, OrderInv', StoredInv, [Next]_vars
             PROVE  StoredInv'
  BY Zenon
<1>0. /\ meta \in [Worker -> Time \union {Nothing}] /\ last \in [Worker -> Time]
      /\ pending \in [Worker -> Time \union {Nothing}]
      /\ sinkTime \in [Worker -> [Sink -> Time]]
      /\ clock \in Nat /\ clock' \in Nat
  BY DEF TypeOK
<1>a. \A u \in Worker : SessionTime(u) \in Nat /\ SessionTime(u)' \in Nat
  BY TimeFacts, SessionType, Zenon
<1>b. /\ \A w \in Worker : Stored(meta[w]) => meta[w] \in Nat
      /\ \A w \in Worker : Stored(pending[w]) => pending[w] \in Nat
      /\ \A w \in Worker, s \in Sink : sinkTime[w][s] \in Nat
      /\ \A w \in Worker : last[w] \in Nat
  BY <1>0, TimeFacts, Zenon DEF Stored
<1>c. ASSUME NEW x \in Nat, x <= clock, clock <= clock'
      PROVE  x <= clock'
  BY <1>0, <1>c, NumberFacts, Zenon
<1>1. ASSUME NEW w \in Worker, InputStep(w), UNCHANGED <<meta, output>>
      PROVE  StoredInv'
  <2>1. /\ clock <= clock'
        /\ \A u \in Worker : SessionTime(u)' = SessionTime(u) \/ clock <= SessionTime(u)'
    BY <1>1, SessionAdvances
  <2>2. UNCHANGED <<meta, sinkTime, last, pending>>
    BY <1>1 DEF output
  <2>3. ASSUME NEW v \in Worker, Stored(meta[v]), OfEarlierRun(v)
        PROVE  OfEarlierRun(v)'
    <3>1. meta[v] \in Nat /\ meta[v] <= clock
      BY <1>b, <2>3, Zenon DEF StoredInv
    <3> QED  BY <3>1, <1>0, <1>a, <2>1, <2>2, <2>3 DEF OfEarlierRun
  <2>4. \A v \in Worker : Stored(meta[v]) => meta[v] <= clock'
    BY <1>b, <1>c, <2>1 DEF StoredInv
  <2>5. \A v \in Worker : Stored(pending[v]) => pending[v] <= clock'
    BY <1>b, <1>c, <2>1, Zenon DEF StoredInv
  <2>6. \A v \in Worker, s \in Sink : Stored(sinkTime[v][s]) => sinkTime[v][s] <= clock'
    BY <1>b, <1>c, <2>1 DEF StoredInv
  <2> QED  BY <2>2, <2>3, <2>4, <2>5, <2>6 DEF StoredInv, Stored
<1>2. ASSUME UNCHANGED <<input, clock, meta, sinkTime, last, pending>>
      PROVE  StoredInv'
  BY <1>2, Zenon DEF StoredInv, OfEarlierRun, Stored, SessionTime, input
<1>3. ASSUME NEW w \in Worker, NEW s \in Sink, CommitSink(w, s)
      PROVE  StoredInv'
  <2>1. /\ UNCHANGED <<input, clock, meta, last>> /\ pending[w] = Nothing
        /\ sinkTime' = [sinkTime EXCEPT ![w][s] = Frontier]
    BY <1>3 DEF CommitSink
  <2>2. \A u \in Worker : SessionTime(u)' = SessionTime(u)
    BY <2>1 DEF SessionTime, input
  <2>3. PICK f \in Worker : Frontier = SessionTime(f)
    BY FrontierFacts
  <2>4. Stored(Frontier) => Frontier <= clock
    BY <2>3, <1>0 DEF SessionTime, Stored, OrderInv
  <2>5. \A v \in Worker, r \in Sink : Stored(sinkTime'[v][r]) => sinkTime'[v][r] <= clock
    BY <1>0, <2>1, <2>4, Zenon DEF StoredInv
  <2>6. \A v \in Worker : OfEarlierRun(v) => OfEarlierRun(v)'
    BY <1>0, <2>1, <2>2, <2>3 DEF OfEarlierRun
  <2> DEFINE t == Finalized(sinkTime'[w])
  <2>7. PICK r \in Sink : t = sinkTime'[w][r]
    BY FinalizedFacts, Zenon DEF TypeOK
  <2>8. \/ pending' = pending
        \/ t > last[w] /\ \E x \in {t, Nothing} : pending' = [pending EXCEPT ![w] = x]
        \/ pending' = [pending EXCEPT ![w] = last[w]]
    BY <1>3, Zenon DEF CommitSink
  <2> HIDE DEF t
  <2>9. pending'[w] \in {Nothing, t} /\ \A v \in Worker : v # w => pending'[v] = pending[v]
    <3>1. pending'[w] # Nothing => last[w] < pending'[w]
      BY <2>1 DEF OrderInv
    <3>2. last[w] \in Nat /\ last[w] # Nothing
      BY <1>0, TimeFacts, Zenon
    <3>3. ~ (pending' = [pending EXCEPT ![w] = last[w]])
      BY <1>0, <3>1, <3>2
    <3> QED  BY <1>0, <2>1, <2>8, <3>3, Zenon
  <2>10. \A v \in Worker : Stored(pending'[v]) => pending'[v] <= clock
    BY <2>5, <2>7, <2>9, Zenon DEF StoredInv, Stored
  <2>11. \A v \in Worker : Stored(meta[v]) /\ pending'[v] # Nothing => meta[v] <= pending'[v]
    <3> SUFFICES ASSUME Stored(meta[w]), pending'[w] # Nothing
                 PROVE  meta[w] <= pending'[w]
      BY <2>9 DEF StoredInv
    <3>1. pending'[w] = t /\ last[w] < t
      BY <2>1, <2>9, Zenon DEF OrderInv
    <3>2. t \in Nat /\ meta[w] \in Nat /\ last[w] \in Nat
      <4>1. t \in Time
        BY <2>7 DEF TypeOK
      <4> QED  BY <4>1, <1>b, TimeFacts, Zenon
    <3>3. CASE meta[w] <= last[w]
      BY <3>1, <3>2, <3>3
    <3>4. CASE OfEarlierRun(w)
      <4>1. sinkTime'[w][r] = 0 \/ meta[w] <= sinkTime'[w][r]
        BY <3>4, <2>1, <2>6, Zenon DEF OfEarlierRun
      <4> QED  BY <4>1, <3>1, <3>2, <2>7
    <3> QED  BY <3>3, <3>4, Zenon DEF StoredInv
  <2> QED  BY <2>1, <2>5, <2>6, <2>10, <2>11, Zenon DEF StoredInv, Stored
<1>4. ASSUME NEW w \in Worker, SaveMetadata(w)
      PROVE  StoredInv'
  <2>1. /\ UNCHANGED <<input, clock, sinkTime>> /\ pending[w] # Nothing
        /\ last' = [last EXCEPT ![w] = pending[w]]
        /\ pending' = [pending EXCEPT ![w] = Nothing]
    BY <1>4 DEF SaveMetadata
  <2>2. meta' = meta \/ meta' = [meta EXCEPT ![w] = pending[w]]
    BY <1>0, <1>4, Zenon DEF SaveMetadata
  <2>3. \A u \in Worker : SessionTime(u)' = SessionTime(u)
    BY <2>1 DEF SessionTime, input
  <2>4. ASSUME NEW v \in Worker, Stored(meta'[v])
        PROVE  /\ meta'[v] <= clock' /\ (pending'[v] # Nothing => meta'[v] <= pending'[v])
               /\ meta'[v] <= last'[v] \/ OfEarlierRun(v)'
    <3>1. CASE v = w
      <4>1. last'[v] = pending[v] /\ pending'[v] = Nothing /\ pending[v] \in Nat
        BY <3>1, <1>0, <2>1, TimeFacts, Zenon
      <4>2. CASE meta'[v] = pending[v]
        BY <4>1, <4>2, <2>1, <2>4 DEF StoredInv
      <4>3. CASE meta'[v] = meta[v]
        BY <4>1, <4>3, <3>1, <2>1, <2>4, Zenon DEF StoredInv
      <4> QED  BY <4>2, <4>3, <3>1, <1>0, <2>2
    <3>2. CASE v # w
      <4>1. meta'[v] = meta[v] /\ last'[v] = last[v] /\ pending'[v] = pending[v]
        BY <3>2, <1>0, <2>1, <2>2, Zenon
      <4>2. OfEarlierRun(v) => OfEarlierRun(v)'
        BY <4>1, <2>1, <2>3 DEF OfEarlierRun
      <4> QED  BY <4>1, <4>2, <2>1, <2>4 DEF StoredInv
    <3> QED  BY <3>1, <3>2, Zenon
  <2>5. \A v \in Worker : Stored(pending'[v]) => pending'[v] <= clock'
    BY <1>0, <2>1, Zenon DEF StoredInv, Stored
  <2> QED  BY <2>1, <2>4, <2>5 DEF StoredInv, Stored
<1>5. ASSUME FreshProcess, meta' = meta
      PROVE  StoredInv'
  <2>1. \A w \in Worker : Stored(meta[w]) => meta[w] <= clock'
    BY <1>b, <1>c, <1>5, <1>0 DEF StoredInv, FreshProcess
  <2>2. /\ \A w \in Worker : pending'[w] = Nothing /\ SessionTime(w)' = 0
        /\ \A w \in Worker, s \in Sink : sinkTime'[w][s] = 0
    BY <1>5 DEF FreshProcess, SessionTime
  <2> QED  BY <1>0, <1>5, <2>1, <2>2 DEF StoredInv, OfEarlierRun, Stored
<1>6. ASSUME NEW w \in Worker, NEW s \in Sink, OutputBatches(w, s)
      PROVE  StoredInv'
  BY <1>2, <1>6 DEF OutputBatches
<1>7. ASSUME NEW s \in Delayed, FlushSink(s)
      PROVE  StoredInv'
  BY <1>2, <1>7 DEF FlushSink
<1>8. CASE UNCHANGED vars
  BY <1>2, <1>8 DEF vars, durable, output
<1> QED  BY StepKinds, <1>1, <1>3, <1>4, <1>5, <1>6, <1>7, <1>8

\* A stored time is only ever replaced by a later one, across crashes, failed saves
\* and restarts (unless the run before had finished).
THEOREM StoredTimesAdvance == Spec => StoredTimeAdvances
<1>1. Init => StoredInv
  BY ConstantsAssumption DEF Init, StoredInv, Stored, Nothing
<1>2. TypeOK /\ OrderInv /\ StoredInv /\ [Next]_vars
        => [\A w \in Worker : meta[w] = Done \/ meta[w] <= meta'[w]]_vars
  <2> SUFFICES ASSUME TypeOK, OrderInv, StoredInv, [Next]_vars, NEW w \in Worker,
                      meta[w] # Done
               PROVE  meta[w] <= meta'[w]
    BY Zenon
  <2>a. meta \in [Worker -> Time \union {Nothing}]
    BY DEF TypeOK
  <2>b. meta[w] \in Nat \/ meta[w] = -1
    BY <2>a, TimeFacts, Zenon DEF Nothing
  <2>0. meta \in [Worker -> Time \union {Nothing}] /\ meta[w] \in Int
    BY <2>a, <2>b
  <2>1. CASE meta' = meta
    BY <2>0, <2>1
  <2>2. ASSUME NEW v \in Worker, SaveMetadata(v)
        PROVE  meta[w] <= meta'[w]
    <3>1. /\ pending[v] # Nothing
          /\ meta' = meta \/ meta' = [meta EXCEPT ![v] = pending[v]]
      BY <2>0, <2>2, Zenon DEF SaveMetadata
    <3>2. pending[v] \in Nat
      BY <3>1, TimeFacts, Zenon DEF TypeOK
    <3>3. CASE v = w /\ meta'[w] = pending[w]
      <4>1. CASE meta[w] = Nothing
        BY <4>1, <3>2, <3>3 DEF Nothing
      <4>2. CASE meta[w] # Nothing
        BY <4>2, <3>1, <3>3 DEF StoredInv, Stored
      <4> QED  BY <4>1, <4>2, Zenon
    <3>4. CASE meta'[w] = meta[w]
      BY <3>4, <2>0
    <3> QED  BY <3>1, <3>3, <3>4, <2>0
  <2> QED
    BY StepKinds, <2>1, <2>2, Zenon DEF vars, durable, OutputBatches, CommitSink, FlushSink
<1> QED
  BY <1>1, <1>2, TypeInit, TypeNext, OrderInit, OrderNext, StoredNext, PTL
     DEF Spec, StoredTimeAdvances

-----------------------------------------------------------------------------
(* The snapshot logs across restarts: the inductive invariant of recovery, *)
(* what the steps do to the logs, and the first of its parts, which is     *)
(* about the shape of the logs.  Outside the moments that Windows names,   *)
(* and when no flush answers with an error that prepare() ignores.         *)

Hypotheses == Windows = {} /\ "io_error" \notin FlushOutcomes

Rewound(w) == phase[w] \in {"rewound", "seeked", "run", "ended"}
Seeked(w)  == phase[w] \in {"seeked", "run", "ended"}

IsRow(e) == e.kind = "row"
IsAdv(e) == e.kind = "adv"

\* The rows among the first n events of a log.
RowsIn(l, n) == {l[i].row : i \in {j \in 1 .. n : IsRow(l[j])}}

\* How much of a log the present run has replayed, or will replay.
Kept(w) == IF Rewound(w) THEN restored[w] ELSE Len(Truncated(log[w], MinThreshold(meta)))

\* How much of it another worker may go through in frontier_for.
Readable(w) == IF Rewound(w) THEN Len(log[w]) ELSE ReadLength(log[w], MinThreshold(meta))

\* The events before this position are of earlier runs and not the last of them.
Past(w) == IF Rewound(w) THEN restored[w] ELSE Len(log[w])

-----------------------------------------------------------------------------
(* The shape of the logs.                                                  *)

\* Rows are numbered without gaps or repetitions, and each AdvanceTime holds the
\* number of rows before it as the offset of the log's own partition.
Ordered(l, w) ==
    \A i \in 1 .. Len(l) :
        /\ IsRow(l[i]) => RowsIn(l, i - 1) = 1 .. l[i].row - 1
        /\ IsAdv(l[i]) => RowsIn(l, i - 1) = 1 .. l[i].frontier[w]

\* The log of a process starts with an AdvanceTime; that of a worker without a
\* reader holds nothing else.  What was replayed ends with one.
Framed(w) ==
    /\ log[w] # << >> => IsAdv(log[w][1])
    /\ w \notin Reader => \A i \in DOMAIN log[w] : IsAdv(log[w][i])
    /\ Rewound(w) => /\ restored[w] \in 0 .. synced[w]
                     /\ restored[w] > 0 => IsAdv(log[w][restored[w]])
    /\ ~ Rewound(w) => LET n == Len(Truncated(log[w], MinThreshold(meta)))
                       IN  n > 0 => IsAdv(log[w][n])
    /\ Rewound(w) /\ ~ Up(w) => restored[w] = Len(log[w])
    /\ Up(w) => restored[w] < Len(log[w]) /\ IsAdv(log[w][restored[w] + 1])
    /\ ~ Up(w) => synced[w] = Len(log[w])
    /\ phase[w] = "run" => \E i \in restored[w] + 1 .. Len(log[w]) :
                              IsAdv(log[w][i]) /\ log[w][i].time = now[w]
    /\ phase[w] = "ended" => IsAdv(log[w][Len(log[w])])

ShapeInv == \A w \in Worker : Ordered(log[w], w) /\ Framed(w)

-----------------------------------------------------------------------------
(* The times in the logs.                                                  *)

\* What earlier runs logged is, but for the last event, below every time of this
\* run: of its sessions, sinks and commits.
PastTime(t) ==
    /\ t < clock
    /\ \A u \in Worker : SessionTime(u) = 0 \/ t < SessionTime(u)
    /\ \A u \in Worker, s \in Sink : sinkTime[u][s] = 0 \/ t < sinkTime[u][s]
    /\ \A u \in Worker : pending[u] = Nothing \/ t < pending[u]

\* Where the reading for a threshold stopped, and that no threshold which is stored
\* later stops it earlier.
Stops(w) ==
    Rewound(w) =>
        /\ \A i \in 1 .. restored[w] - 1 : IsAdv(log[w][i]) =>
              \A u \in Worker : meta[u] = Nothing \/ log[w][i].time < meta[u]
        /\ \A i \in 1 .. restored[w] - 1 : IsAdv(log[w][i]) => log[w][i].time < threshold[w]
        /\ (\A u \in Worker : meta[u] = Nothing) => restored[w] = 0
        /\ threshold[w] = 0 => restored[w] = 0
        /\ Up(w) => threshold[w] = Done \/ threshold[w] <= log[w][restored[w] + 1].time

\* No event is later than the clock, but for the AdvanceTime of a source that has
\* just ended.
TimesOf(w) ==
    /\ \A i \in 1 .. Past(w) - 1 : IsAdv(log[w][i]) => PastTime(log[w][i].time)
    /\ \A i \in DOMAIN log[w] : IsAdv(log[w][i]) =>
          log[w][i].time <= IF Up(w) /\ (i < Len(log[w]) \/ phase[w] = "run")
                            THEN clock ELSE IF Up(w) THEN clock + 1 ELSE clock

TimesInv == \A w \in Worker : TimesOf(w) /\ Stops(w)

-----------------------------------------------------------------------------
(* What a commit covers is on disk.                                        *)

Covers(w, t) ==
    \/ \E p \in 1 .. synced[w] : IsAdv(log[w][p]) /\ log[w][p].time >= t
    \/ phase[w] = "ended" /\ synced[w] = Len(log[w])

\* The block of an earlier run is below the times of this one.
OldBlock(u) ==
    \A w \in Worker : Rewound(w) =>
        \A j \in restored[w] + 1 .. Len(log[w]) : IsAdv(log[w][j]) => meta[u] <= log[w][j].time

CoverInv ==
    \A w \in Worker :
        /\ meta[w] # 0
        /\ pending[w] # Nothing => Covers(w, pending[w])
        /\ \/ meta[w] = Nothing
           \/ meta[w] = Done /\ last[w] # Done
           \/ Covers(w, meta[w]) /\ \A s \in Sink : meta[w] <= sinkTime[w][s]
           \/ OldBlock(w)

-----------------------------------------------------------------------------
(* Offsets.                                                                *)

\* What a log, or a worker's frontier, says of the partition of another worker is
\* no more than that worker has replayed or will replay.
CrossInv ==
    \A u, w \in Worker : u # w =>
        /\ \A i \in 1 .. Readable(u) : IsAdv(log[u][i]) =>
              1 .. log[u][i].frontier[w] \subseteq RowsIn(log[w], Kept(w))
        /\ Seeked(u) => 1 .. offsets[u][w] \subseteq RowsIn(log[w], Kept(w))

\* The rows in the session and the offset of the own partition are those of the log.
FedInv ==
    \A w \in Worker :
        /\ Rewound(w) => /\ {e.row : e \in fed[w]} = RowsIn(log[w], Len(log[w]))
                         /\ \A d, e \in fed[w] : d.row = e.row => d = e
        /\ Seeked(w) => RowsIn(log[w], Len(log[w])) = 1 .. offsets[w][w]

RecoveryInv == ShapeInv /\ TimesInv /\ CoverInv /\ CrossInv /\ FedInv

-----------------------------------------------------------------------------
(* Logs and their prefixes.                                                *)

\* The rows of a log's first events: they depend on these events alone, grow with
\* the number of events, and an AdvanceTime adds none.
LEMMA RowsInFacts ==
    ASSUME NEW l \in Seq(Event)
    PROVE  /\ RowsIn(l, 0) = {}
           /\ \A m, n \in Nat : m <= n => RowsIn(l, m) \subseteq RowsIn(l, n)
           /\ \A n \in Nat : IsRow(l[n + 1]) => RowsIn(l, n + 1) = RowsIn(l, n) \union {l[n + 1].row}
           /\ \A n \in Nat : IsAdv(l[n + 1]) => RowsIn(l, n + 1) = RowsIn(l, n)
<1>1. RowsIn(l, 0) = {}
  BY DEF RowsIn
<1>2. ASSUME NEW m \in Nat, NEW n \in Nat, m <= n
      PROVE  RowsIn(l, m) \subseteq RowsIn(l, n)
  BY <1>2 DEF RowsIn
<1>3. ASSUME NEW n \in Nat, IsRow(l[n + 1])
      PROVE  RowsIn(l, n + 1) = RowsIn(l, n) \union {l[n + 1].row}
  <2>1. {j \in 1 .. n + 1 : IsRow(l[j])} = {j \in 1 .. n : IsRow(l[j])} \union {n + 1}
    BY <1>3
  <2> QED  BY <2>1 DEF RowsIn
<1>4. ASSUME NEW n \in Nat, IsAdv(l[n + 1])
      PROVE  RowsIn(l, n + 1) = RowsIn(l, n)
  <2>1. {j \in 1 .. n + 1 : IsRow(l[j])} = {j \in 1 .. n : IsRow(l[j])}
    BY <1>4 DEF IsRow, IsAdv
  <2> QED  BY <2>1 DEF RowsIn
<1> QED  BY <1>1, <1>2, <1>3, <1>4

\* Logs that agree on their first events have the same rows among them.
LEMMA RowsInAgree ==
    ASSUME NEW l, NEW m, NEW n \in Nat, \A i \in 1 .. n : l[i] = m[i]
    PROVE  RowsIn(l, n) = RowsIn(m, n)
<1>1. {j \in 1 .. n : IsRow(l[j])} = {j \in 1 .. n : IsRow(m[j])}
  OBVIOUS
<1> QED  BY <1>1 DEF RowsIn

\* A prefix of an ordered log is ordered.
LEMMA OrderedPrefix ==
    ASSUME NEW l \in Seq(Event), NEW m \in Seq(Event), NEW w, Ordered(l, w),
           Len(m) <= Len(l), \A i \in 1 .. Len(m) : m[i] = l[i]
    PROVE  Ordered(m, w)
<1> SUFFICES ASSUME NEW i \in 1 .. Len(m)
             PROVE  /\ IsRow(m[i]) => RowsIn(m, i - 1) = 1 .. m[i].row - 1
                    /\ IsAdv(m[i]) => RowsIn(m, i - 1) = 1 .. m[i].frontier[w]
  BY DEF Ordered
<1>1. i \in 1 .. Len(l) /\ m[i] = l[i] /\ i - 1 \in Nat
  OBVIOUS
<1>2. \A j \in 1 .. i - 1 : m[j] = l[j]
  OBVIOUS
<1>3. RowsIn(m, i - 1) = RowsIn(l, i - 1)
  BY <1>1, <1>2, RowsInAgree
<1> QED  BY <1>1, <1>3, Zenon DEF Ordered

\* A log that is not empty has a first entry.
LEMMA FirstEntry ==
    ASSUME NEW l \in Seq(Event), l # << >>
    PROVE  1 \in 1 .. Len(l)
OBVIOUS

\* What appending to a log does.
LEMMA AppendFacts ==
    ASSUME NEW l \in Seq(Event), NEW e \in Event
    PROVE  /\ Append(l, e) \in Seq(Event) /\ Append(l, e) # << >>
           /\ Len(Append(l, e)) = Len(l) + 1 /\ DOMAIN Append(l, e) = 1 .. Len(l) + 1
           /\ Append(l, e)[Len(l) + 1] = e
           /\ \A i \in 1 .. Len(l) : Append(l, e)[i] = l[i]
OBVIOUS

\* An ordered log stays so when the next row, or an AdvanceTime with the number of
\* rows, is appended.
LEMMA OrderedAppend ==
    ASSUME NEW l \in Seq(Event), NEW e \in Event, NEW w, Ordered(l, w),
           IsRow(e) => RowsIn(l, Len(l)) = 1 .. e.row - 1,
           IsAdv(e) => RowsIn(l, Len(l)) = 1 .. e.frontier[w]
    PROVE  Ordered(Append(l, e), w)
<1> DEFINE m == Append(l, e)
<1>1. Len(l) \in Nat /\ Len(m) = Len(l) + 1 /\ m[Len(l) + 1] = e /\ \A i \in 1 .. Len(l) : m[i] = l[i]
  OBVIOUS
<1> HIDE DEF m
<1> SUFFICES ASSUME NEW i \in 1 .. Len(m)
             PROVE  /\ IsRow(m[i]) => RowsIn(m, i - 1) = 1 .. m[i].row - 1
                    /\ IsAdv(m[i]) => RowsIn(m, i - 1) = 1 .. m[i].frontier[w]
  BY Zenon DEF Ordered, m
<1>2. i - 1 \in Nat /\ i - 1 <= Len(l) /\ \A j \in 1 .. i - 1 : m[j] = l[j]
  BY <1>1
<1>3. RowsIn(m, i - 1) = RowsIn(l, i - 1)
  BY <1>2, RowsInAgree, Zenon
<1>4. CASE i \in 1 .. Len(l)
  BY <1>1, <1>3, <1>4, Zenon DEF Ordered
<1>5. CASE i = Len(l) + 1
  BY <1>1, <1>3, <1>5
<1> QED  BY <1>1, <1>4, <1>5

\* Reading a prefix of a log for a threshold stops no later than reading the log, at
\* an AdvanceTime or at the end of the prefix, and not before a position below which
\* nothing reaches the threshold.
LEMMA PrefixRead ==
    ASSUME NEW l \in Seq(Event), NEW m \in Seq(Event), NEW T \in Time,
           Len(m) <= Len(l), \A i \in 1 .. Len(m) : m[i] = l[i]
    PROVE  /\ ReadLength(m, T) <= ReadLength(l, T)
           /\ ReadLength(m, T) = Len(m) \/ (ReadLength(m, T) > 0 /\ IsAdv(m[ReadLength(m, T)]))
           /\ \A k \in 0 .. Len(m) :
                 (\A i \in 1 .. k - 1 : IsAdv(l[i]) => l[i].time < T) => k <= ReadLength(m, T)
<1> USE DEF IsAdv
<1>1. /\ ReadLength(m, T) \in 0 .. Len(m) /\ ReadLength(l, T) \in 0 .. Len(l)
      /\ Closing(m, T) = {} => ReadLength(m, T) = Len(m)
      /\ Closing(l, T) = {} => ReadLength(l, T) = Len(l)
      /\ Closing(m, T) # {} => /\ ReadLength(m, T) \in Closing(m, T)
                               /\ \A j \in Closing(m, T) : ReadLength(m, T) <= j
      /\ Closing(l, T) # {} => ReadLength(l, T) \in Closing(l, T)
  BY ReadLengthFacts
<1>2. Closing(m, T) = Closing(l, T) \intersect 1 .. Len(m)
  BY DEF Closing
<1>3. ReadLength(m, T) <= ReadLength(l, T)
  <2>1. CASE Closing(l, T) = {}
    BY <2>1, <1>1
  <2>2. CASE Closing(l, T) # {} /\ ReadLength(l, T) <= Len(m)
    <3>1. ReadLength(l, T) \in Closing(m, T)
      BY <2>2, <1>1, <1>2 DEF Closing
    <3> QED  BY <3>1, <1>1, Zenon
  <2>3. CASE ReadLength(l, T) > Len(m)
    BY <2>3, <1>1
  <2> QED  BY <2>1, <2>2, <2>3, <1>1
<1>4. ReadLength(m, T) = Len(m) \/ (ReadLength(m, T) > 0 /\ IsAdv(m[ReadLength(m, T)]))
  BY <1>1 DEF Closing
<1>5. ASSUME NEW k \in 0 .. Len(m), \A i \in 1 .. k - 1 : IsAdv(l[i]) => l[i].time < T
      PROVE  k <= ReadLength(m, T)
  <2>1. CASE Closing(m, T) = {}
    BY <2>1, <1>1
  <2>2. CASE Closing(m, T) # {}
    <3> DEFINE r == ReadLength(m, T)
    <3>1. r \in 1 .. Len(m) /\ m[r].kind = "adv" /\ m[r].time >= T /\ m[r] = l[r]
      BY <2>2, <1>1 DEF Closing
    <3>2. l[r] \in Event /\ T \in Nat
      BY <3>1, <1>1, TimeFacts
    <3>3. l[r].time \in Nat
      BY <3>1, <3>2, EventFacts, TimeFacts
    <3> HIDE DEF r
    <3>4. ~ (r <= k - 1)
      BY <3>1, <3>2, <3>3, <1>5
    <3> QED  BY <3>1, <3>4 DEF r
  <2> QED  BY <2>1, <2>2, Zenon
<1> QED  BY <1>3, <1>4, <1>5, Zenon

\* Truncation for At(0) leaves nothing, and otherwise what reading goes through.
LEMMA TruncatedLength ==
    ASSUME NEW l \in Seq(Event), NEW T \in Time
    PROVE  /\ T = 0 => Len(Truncated(l, T)) = 0
           /\ T # 0 => Len(Truncated(l, T)) = ReadLength(l, T)
<1>1. ReadLength(l, T) \in 0 .. Len(l)
  BY ReadLengthFacts
<1> QED  BY <1>1 DEF Truncated

\* The process dies or ends with the first n events of the log of w on disk.  The
\* next run replays at least what this one has replayed, up to an AdvanceTime, and
\* reads no further than this one might have.
LEMMA RestartFacts ==
    ASSUME TypeOK, ShapeInv, TimesInv, CoverInv, NEW w \in Worker, NEW n \in Nat,
           n \in synced[w] .. Len(log[w]),
           (~ CommitWindow /\ ~ StaleDone) \/ (phase[w] = "ended" /\ n = Len(log[w])),
           NEW m, m = SubSeq(log[w], 1, n),
           NEW T, T = MinThreshold(meta),
           NEW r, r = Len(Truncated(m, T))
    PROVE  /\ r \in Nat /\ Kept(w) <= r /\ r <= n
           /\ r > 0 => IsAdv(m[r])
           /\ ReadLength(m, T) <= Readable(w)
<1> DEFINE l == log[w]
<1>0. /\ l \in Seq(Event) /\ Len(l) \in Nat /\ synced[w] \in Nat /\ synced[w] <= Len(l)
      /\ meta \in [Worker -> Time \union {Nothing}]
  BY DEF TypeOK
<1>1. /\ T \in Time /\ T \in Nat
      /\ (\A u \in Worker : meta[u] = Nothing) => T = 0
      /\ (\E u \in Worker : meta[u] # Nothing) => \E u \in Worker : meta[u] # Nothing /\ T = meta[u]
      /\ \A u \in Worker : meta[u] # Nothing => T <= meta[u]
  <2>1. /\ T \in Time
        /\ (\A u \in Worker : meta[u] = Nothing) => T = 0
        /\ (\E u \in Worker : meta[u] # Nothing) => \E u \in Worker : T = meta[u]
        /\ \A u \in Worker : meta[u] # Nothing => T <= meta[u]
    BY <1>0, MinThresholdFacts, Zenon
  <2> QED  BY <2>1, TimeFacts, Zenon
<1>2. m \in Seq(Event) /\ Len(m) = n /\ \A i \in 1 .. n : m[i] = l[i]
  BY <1>0
<1>3. T = 0 => \A u \in Worker : meta[u] = Nothing
  BY <1>1 DEF CoverInv
<1>4. /\ ReadLength(m, T) <= ReadLength(l, T)
      /\ ReadLength(m, T) = n \/ (ReadLength(m, T) > 0 /\ IsAdv(m[ReadLength(m, T)]))
      /\ \A k \in 0 .. n : (\A i \in 1 .. k - 1 : IsAdv(l[i]) => l[i].time < T)
                              => k <= ReadLength(m, T)
  <2>1. Len(m) <= Len(l) /\ \A i \in 1 .. Len(m) : m[i] = l[i]
    BY <1>0, <1>2
  <2> HIDE DEF l
  <2>2. /\ ReadLength(m, T) <= ReadLength(l, T)
        /\ ReadLength(m, T) = Len(m) \/ (ReadLength(m, T) > 0 /\ IsAdv(m[ReadLength(m, T)]))
        /\ \A k \in 0 .. Len(m) : (\A i \in 1 .. k - 1 : IsAdv(l[i]) => l[i].time < T)
                                     => k <= ReadLength(m, T)
    BY <2>1, <1>0, <1>1, <1>2, PrefixRead, Zenon
  <2> QED  BY <2>2, <1>2, Zenon
<1>5. /\ ReadLength(m, T) \in 0 .. n /\ ReadLength(l, T) \in 0 .. Len(l)
      /\ Closing(m, T) # {} => ReadLength(m, T) \in Closing(m, T)
  BY <1>0, <1>1, <1>2, ReadLengthFacts, Zenon
<1>6. (T = 0 => r = 0) /\ (T # 0 => r = ReadLength(m, T))
  BY <1>1, <1>2, TruncatedLength, Zenon
<1>7. Rewound(w) => restored[w] \in 0 .. n
  <2>1. restored[w] \in Nat
    BY Zenon DEF TypeOK
  <2> QED  BY <2>1, <1>0 DEF ShapeInv, Framed
<1>8. ~ Up(w) => n = Len(l) /\ m = l
  <2>1. ~ Up(w) => synced[w] = Len(l)
    BY Zenon DEF ShapeInv, Framed
  <2> QED  BY <2>1, <1>0
<1>9. ~ Rewound(w) => ~ Up(w)
  BY Zenon DEF Rewound, Up
<1>10. Kept(w) <= r
  <2>1. CASE ~ Rewound(w)
    <3>1. Kept(w) = r
      BY <2>1, <1>8, <1>9, Zenon DEF Kept
    <3> QED  BY <3>1, <1>5, <1>6
  <2>2. CASE Rewound(w) /\ T = 0
    <3>1. restored[w] = 0
      BY <2>2, <1>3, Zenon DEF TimesInv, Stops
    <3> QED  BY <2>2, <3>1, <1>6 DEF Kept
  <2>3. CASE Rewound(w) /\ T # 0
    <3>1. PICK u \in Worker : meta[u] # Nothing /\ T = meta[u]
      BY <2>3, <1>1
    <3>2. \A i \in 1 .. restored[w] - 1 : IsAdv(l[i]) => l[i].time < T
      BY <2>3, <3>1, Zenon DEF TimesInv, Stops
    <3> QED  BY <2>3, <3>2, <1>4, <1>6, <1>7, Zenon DEF Kept
  <2> QED  BY <2>1, <2>2, <2>3, Zenon
<1>11. ReadLength(m, T) <= Readable(w)
  <2>1. CASE Rewound(w)
    BY <2>1, <1>0, <1>5 DEF Readable
  <2>2. CASE ~ Rewound(w)
    <3>1. Readable(w) = ReadLength(m, T)
      BY <2>2, <1>8, <1>9, Zenon DEF Readable
    <3> QED  BY <3>1, <1>5
  <2> QED  BY <2>1, <2>2, Zenon
<1>12. ASSUME r > 0
       PROVE  IsAdv(m[r])
  <2>1. T # 0 /\ r = ReadLength(m, T)
    BY <1>6, <1>12
  <2>2. CASE Closing(m, T) # {}
    BY <2>1, <2>2, <1>5 DEF Closing, IsAdv
  <2>3. CASE r # n
    BY <2>1, <2>3, <1>4, Zenon
  <2>4. CASE Closing(m, T) = {} /\ r = n /\ ~ Up(w)
    <3>1. r = Len(l) /\ m = l
      BY <2>4, <1>8, Zenon
    <3>2. CASE Rewound(w)
      <4>1. restored[w] = Len(l) /\ (restored[w] > 0 => IsAdv(l[restored[w]]))
        BY <3>2, <2>4, Zenon DEF ShapeInv, Framed
      <4> QED  BY <4>1, <3>1, <1>12
    <3>3. CASE ~ Rewound(w)
      <4>1. r = Len(Truncated(log[w], MinThreshold(meta)))
        BY <3>1, Zenon
      <4>2. r > 0 => IsAdv(log[w][r])
        BY <4>1, <3>3, Zenon DEF ShapeInv, Framed
      <4> QED  BY <4>2, <3>1, <1>12
    <3> QED  BY <3>2, <3>3, Zenon
  <2>5. CASE Closing(m, T) = {} /\ r = n /\ phase[w] = "ended" /\ n = Len(l)
    <3>1. IsAdv(l[Len(l)])
      BY <2>5 DEF ShapeInv, Framed
    <3> QED  BY <3>1, <2>5, <1>2, <1>12
  <2>6. CASE Closing(m, T) = {} /\ r = n /\ Up(w) /\ ~ (phase[w] = "ended" /\ n = Len(l))
    <3>1. meta[w] # Nothing /\ ~ (meta[w] = Done /\ last[w] # Done)
      <4>1. \E u \in Worker : meta[u] # Nothing
        BY <2>1, <1>1
      <4> QED  BY <4>1, <2>6, Zenon DEF CommitWindow, StaleDone
    <3>2. T <= meta[w] /\ meta[w] \in Nat
      BY <3>1, <1>0, <1>1, TimeFacts, Zenon
    <3>3. ASSUME NEW p \in 1 .. n, IsAdv(l[p]), meta[w] <= l[p].time
          PROVE  FALSE
      <4>1. l[p] \in Event /\ m[p] = l[p]
        BY <1>0, <1>2
      <4>2. l[p].time \in Nat
        BY <4>1, <3>3, EventFacts, TimeFacts DEF IsAdv
      <4>3. p \in Closing(m, T)
        BY <4>1, <4>2, <3>2, <3>3, <1>1, <1>2 DEF Closing, IsAdv
      <4> QED  BY <4>3, <2>6, Zenon
    <3>4. CASE Covers(w, meta[w])
      <4>1. CASE phase[w] = "ended" /\ synced[w] = Len(l)
        BY <4>1, <2>6, <1>0
      <4>2. CASE \E p \in 1 .. synced[w] : IsAdv(l[p]) /\ l[p].time >= meta[w]
        <5>1. PICK p \in 1 .. synced[w] : IsAdv(l[p]) /\ l[p].time >= meta[w]
          BY <4>2, Zenon
        <5>2. p \in 1 .. n
          BY <1>0
        <5>3. l[p] \in Event
          BY <5>2, <1>0
        <5>4. l[p].time \in Nat
          BY <5>1, <5>3, EventFacts, TimeFacts DEF IsAdv
        <5> QED  BY <5>1, <5>2, <5>4, <3>2, <3>3, Zenon
      <4> QED  BY <3>4, <4>1, <4>2, Zenon DEF Covers
    <3>5. CASE OldBlock(w)
      <4>1. Rewound(w) /\ restored[w] \in 0 .. n
        BY <2>6, <1>7, Zenon DEF Up, Rewound
      <4>2. restored[w] < Len(l) /\ IsAdv(l[restored[w] + 1])
        BY <2>6, Zenon DEF ShapeInv, Framed
      <4>3. meta[w] <= l[restored[w] + 1].time
        <5>1. restored[w] + 1 \in restored[w] + 1 .. Len(l)
          <6>1. PICK a \in Nat, b \in Nat : a = restored[w] /\ b = Len(l)
            BY <1>0, LogType, Zenon
          <6>2. a < b
            BY <6>1, <4>2, Zenon
          <6>3. a + 1 \in a + 1 .. b
            BY <6>1, <6>2
          <6> QED  BY <6>1, <6>3, Zenon
        <5> QED  BY <3>5, <4>1, <4>2, <5>1, Zenon DEF OldBlock
      <4>4. CASE restored[w] < n
        <5>1. restored[w] + 1 \in 1 .. n
          BY <4>1, <4>4
        <5> QED  BY <4>2, <4>3, <5>1, <3>3, Zenon
      <4>5. CASE restored[w] = n
        <5>1. IsAdv(l[restored[w]])
          BY <4>1, <4>5, <2>6, <1>12, Zenon DEF ShapeInv, Framed
        <5>2. r = n /\ r \in 1 .. n
          BY <2>6, <1>0, <1>12
        <5>3. m[r] = l[r]
          BY <5>2, <1>2, Zenon
        <5> QED  BY <5>1, <5>2, <5>3, <4>5, Zenon
      <4>6. restored[w] < n \/ restored[w] = n
        BY <4>1
      <4> QED  BY <4>4, <4>5, <4>6, Zenon
    <3> QED  BY <3>1, <3>4, <3>5, Zenon DEF CoverInv
  <2> QED  BY <2>1, <2>2, <2>3, <2>4, <2>5, <2>6, Zenon
<1> QED  BY <1>5, <1>6, <1>10, <1>11, <1>12

-----------------------------------------------------------------------------
(* What the steps do to the logs.                                          *)

\* What has been proved of every reachable state.
Base == TypeOK /\ OrderInv /\ StartupInv /\ StoredInv

\* advance_time of a connector that has been seeked: the event goes to its log, with
\* a time that is not below the clock.
LEMMA AdvanceEffect ==
    ASSUME TypeOK, NEW w \in Worker, FinishRewind(w) \/ Autocommit(w)
    PROVE  \E t \in 1 .. MaxTime :
              /\ clock <= t /\ clock' = t /\ now' = [now EXCEPT ![w] = t]
              /\ AdvEvent(t, offsets[w]) \in Event
              /\ log' = [log EXCEPT ![w] = Append(log[w], AdvEvent(t, offsets[w]))]
              /\ phase[w] \in {"seeked", "run"} /\ phase' = [phase EXCEPT ![w] = "run"]
              /\ UNCHANGED <<synced, meta, delivered, available, threshold, restored, offsets,
                             fed, output, history>>
<1>1. PICK t \in 1 .. MaxTime : AdvanceTimeTo(w, t)
  BY Zenon DEF FinishRewind, Autocommit
<1>2. clock <= t /\ clock' = t
  BY <1>1 DEF AdvanceTimeTo, TypeOK
<1>3. AdvEvent(t, offsets[w]) \in Event
  BY AdvEventType, ConstantsAssumption DEF TypeOK, Offsets, Done
<1>4. phase[w] \in {"seeked", "run"} /\ phase' = [phase EXCEPT ![w] = "run"]
  BY DEF FinishRewind, Autocommit, TypeOK
<1>5. UNCHANGED <<synced, meta, delivered, available, threshold, restored, offsets,
                  fed, output, history>>
  BY Zenon DEF FinishRewind, Autocommit
<1> QED  BY <1>1, <1>2, <1>3, <1>4, <1>5, Zenon DEF AdvanceTimeTo

\* The process is gone; of each log the first kept[w] events remain.
LEMMA RestartEffect ==
    ASSUME TypeOK, Hypotheses, Crash \/ Exit
    PROVE  \E kept \in [Worker -> Nat] :
              /\ \A w \in Worker : kept[w] \in synced[w] .. Len(log[w])
              /\ \/ ~ CommitWindow /\ ~ StaleDone
                 \/ \A w \in Worker : phase[w] = "ended" /\ kept[w] = Len(log[w])
              /\ log' = [w \in Worker |-> SubSeq(log[w], 1, kept[w])] /\ synced' = kept
              /\ FreshProcess /\ UNCHANGED <<meta, delivered, available, twice>>
              /\ phase' = [w \in Worker |-> "down"]
<1>0. \A w \in Worker : log[w] \in Seq(Event) /\ synced[w] \in Nat /\ synced[w] <= Len(log[w])
  BY DEF TypeOK
<1>1. CASE Crash
  <2>1. PICK kept :
           /\ kept \in [Worker -> UNION {synced[w] .. Len(log[w]) : w \in Worker}]
           /\ \A w \in Worker : kept[w] \in synced[w] .. Len(log[w])
           /\ synced' = kept
           /\ log' = [w \in Worker |-> SubSeq(log[w], 1, kept[w])]
    BY <1>1, Zenon DEF Crash
  <2>2. \A w \in Worker : kept[w] \in Nat
    <3>1. \A w \in Worker : kept[w] \in synced[w] .. Len(log[w])
      BY <2>1
    <3>2. \A x \in Nat : \A y : \A z \in x .. y : z \in Nat
      OBVIOUS
    <3> QED  BY <3>1, <3>2, <1>0, Zenon
  <2>3. kept \in [Worker -> Nat]
    BY <2>1, <2>2, Zenon
  <2>4. ~ CommitWindow /\ ~ StaleDone
    BY <1>1, Zenon DEF Crash, Hypotheses
  <2>5. FreshProcess /\ UNCHANGED <<meta, delivered, available, twice>>
    BY <1>1 DEF Crash
  <2> QED  BY <2>1, <2>3, <2>4, <2>5, Zenon DEF FreshProcess
<1>2. CASE Exit
  <2> DEFINE kept == [w \in Worker |-> Len(log[w])]
  <2>1. \A w \in Worker : kept[w] = Len(log[w]) /\ SubSeq(log[w], 1, kept[w]) = log[w]
    BY <1>0
  <2>2. kept \in [Worker -> Nat] /\ \A w \in Worker : kept[w] \in synced[w] .. Len(log[w])
    BY <1>0
  <2>3. log' = log /\ log = [w \in Worker |-> log[w]] /\ synced' = kept
    BY <1>2 DEF Exit, TypeOK
  <2>4. log' = [w \in Worker |-> SubSeq(log[w], 1, kept[w])]
    BY <2>1, <2>3, Zenon
  <2>5. \A w \in Worker : phase[w] = "ended"
    BY <1>2 DEF Exit, Finished
  <2>6. FreshProcess /\ UNCHANGED <<meta, delivered, available, twice>>
    BY <1>2 DEF Exit
  <2> HIDE DEF kept
  <2> QED  BY <2>1, <2>2, <2>3, <2>4, <2>5, <2>6, Zenon DEF FreshProcess
<1> QED  BY <1>1, <1>2, Zenon

\* The kinds of steps, as the recovery proof tells them apart.
LEMMA RecoverySteps ==
    ASSUME [Next]_vars
    PROVE  \/ \E w \in Worker : \/ Open(w) \/ RewindFromSnapshot(w) \/ ReconstructFrontier(w)
                                \/ FinishRewind(w) \/ Autocommit(w)
                                \/ ReadRow(w) \/ FinishSource(w) \/ SaveMetadata(w)
           \/ \E w \in Worker, s \in Sink : OutputBatches(w, s) \/ CommitSink(w, s)
           \/ \E s \in Delayed : FlushSink(s)
           \/ Crash \/ Exit
           \/ UNCHANGED vars
BY Zenon DEF Next, WorkerStep, Terminated

\* A row is read: it goes to the log and to the session, and is counted.
LEMMA ReadEffect ==
    ASSUME TypeOK, NEW w \in Worker, ReadRow(w), NEW k, k = offsets[w][w] + 1
    PROVE  /\ phase[w] = "run" /\ w \in Reader /\ k \in 1 .. NumRows
           /\ RowEvent(k) \in Event
           /\ log' = [log EXCEPT ![w] = Append(log[w], RowEvent(k))]
           /\ fed' = [fed EXCEPT ![w] = fed[w] \union
                         {[at |-> Len(log[w]) + 1, row |-> k, time |-> now[w]]}]
           /\ offsets' = [offsets EXCEPT ![w] = [offsets[w] EXCEPT ![w] = k]]
           /\ UNCHANGED <<synced, meta, delivered, clock, phase, threshold, restored, now,
                          output, history>>
<1>1. k \in 1 .. NumRows
  <2>1. PICK a \in 0 .. NumRows : a = offsets[w][w]
    BY OffsetsType, Zenon
  <2>2. k = a + 1 /\ k <= NumRows /\ NumRows \in Nat
    BY <2>1, ConstantsAssumption, Zenon DEF ReadRow
  <2> QED  BY <2>1, <2>2
<1>2. RowEvent(k) \in Event
  BY <1>1, RowEventType
<1> QED  BY <1>1, <1>2, Zenon DEF ReadRow

\* The source ends.
LEMMA FinishEffect ==
    ASSUME TypeOK, NEW w \in Worker, FinishSource(w), NEW e, e = AdvEvent(now[w] + 1, offsets[w])
    PROVE  /\ phase[w] = "run" /\ phase' = [phase EXCEPT ![w] = "ended"] /\ e \in Event
           /\ w \in Reader => log' = [log EXCEPT ![w] = Append(log[w], e)]
           /\ w \notin Reader => log' = log
           /\ w \in Reader => available[w] <= offsets[w][w]
           /\ UNCHANGED <<synced, meta, delivered, clock, available, threshold, restored,
                          offsets, now, fed, output, history>>
<1>1. e \in Event
  BY AdvEventType, TimeFacts, Zenon DEF TypeOK, Offsets
<1>2. w \in Reader => available[w] <= offsets[w][w]
  BY DEF FinishSource, TypeOK
<1> QED  BY <1>1, <1>2, Zenon DEF FinishSource

\* A step leaves the connector of u alone, but for events that leave the buffer, the
\* opening of the storage and the reconstruction of the frontier.
Still(u) ==
    /\ log'[u] = log[u] /\ restored'[u] = restored[u] /\ now'[u] = now[u] /\ fed'[u] = fed[u]
    /\ synced'[u] \in synced[u] .. Len(log[u])
    /\ \/ phase'[u] = phase[u] /\ threshold'[u] = threshold[u] /\ offsets'[u] = offsets[u]
       \/ phase[u] = "down" /\ phase'[u] = "opened"
       \/ /\ phase[u] = "rewound" /\ phase'[u] = "seeked" /\ threshold'[u] = threshold[u]
          /\ ReconstructFrontier(u)

\* The connector of w appends e to its log.
Logs(w, e) ==
    /\ e \in Event /\ log' = [log EXCEPT ![w] = Append(log[w], e)]
    /\ phase[w] \in {"seeked", "run"} /\ phase'[w] \in {"run", "ended"}
    /\ UNCHANGED <<synced, restored, threshold, meta, output>>
    /\ \/ /\ IsRow(e) /\ ReadRow(w) /\ phase[w] = "run" /\ w \in Reader
          /\ e.row = offsets[w][w] + 1 /\ UNCHANGED <<phase, now, clock>>
       \/ /\ IsAdv(e) /\ e.frontier = offsets[w] /\ UNCHANGED <<offsets, fed>>
          /\ \/ /\ phase'[w] = "run" /\ now' = [now EXCEPT ![w] = e.time]
                /\ clock <= e.time /\ clock' = e.time
             \/ /\ phase[w] = "run" /\ phase'[w] = "ended" /\ e.time = now[w] + 1
                /\ UNCHANGED <<now, clock>>

\* What a step that leaves u alone keeps.
LEMMA StillFacts ==
    ASSUME TypeOK, NEW u \in Worker, Still(u)
    PROVE  /\ Rewound(u)' <=> Rewound(u)
           /\ Up(u)' <=> Up(u)
           /\ phase'[u] = "run" <=> phase[u] = "run"
           /\ phase'[u] = "ended" <=> phase[u] = "ended"
           /\ Rewound(u) => threshold'[u] = threshold[u]
           /\ SessionTime(u)' = SessionTime(u)
           /\ Seeked(u)' => Rewound(u) /\ (ReconstructFrontier(u) \/ (Seeked(u) /\ offsets'[u] = offsets[u]))
BY Zenon DEF Still, Rewound, Seeked, Up, SessionTime

\* A step concerns the connector of one worker, at most.
LEMMA StepEffects ==
    ASSUME TypeOK, [Next]_vars
    PROVE  \/ /\ \A u \in Worker : Still(u)
              /\ UNCHANGED <<meta, clock>>
              /\ \/ UNCHANGED <<sinkTime, last, pending>>
                 \/ \E w \in Worker, s \in Sink : CommitSink(w, s)
           \/ \E w \in Worker : /\ SaveMetadata(w) /\ \A u \in Worker : Still(u)
                                /\ UNCHANGED <<clock, offsets>>
           \/ \E w \in Worker : /\ RewindFromSnapshot(w)
                                /\ \A u \in Worker : u # w => Still(u)
           \/ \E w \in Worker, e \in Event : /\ Logs(w, e)
                                             /\ \A u \in Worker : u # w => Still(u)
           \/ \E w \in Worker : /\ FinishSource(w) /\ w \notin Reader /\ log' = log
                                /\ \A u \in Worker : u # w => Still(u)
           \/ Crash \/ Exit
<1>0. /\ \A u \in Worker : synced[u] \in Nat /\ Len(log[u]) \in Nat /\ synced[u] <= Len(log[u])
      /\ log \in [Worker -> Seq(Event)] /\ synced \in [Worker -> Nat]
      /\ restored \in [Worker -> Nat] /\ now \in [Worker -> 0 .. MaxTime]
      /\ DOMAIN phase = Worker /\ DOMAIN threshold = Worker
      /\ DOMAIN fed = Worker /\ DOMAIN offsets = Worker
  <2>1. \A l \in Seq(Event) : Len(l) \in Nat
    OBVIOUS
  <2> QED  BY <2>1, LogType, PhaseType, OffsetsType, FedType, NowType, ThresholdType, Zenon
<1>1. ASSUME NEW w \in Worker, Open(w)
      PROVE  (\A u \in Worker : Still(u)) /\ UNCHANGED <<meta, clock, sinkTime, last, pending>>
  <2>1. /\ UNCHANGED <<log, synced, meta, clock, restored, now, fed, offsets, sinkTime, last, pending>>
        /\ phase[w] = "down" /\ phase' = [phase EXCEPT ![w] = "opened"]
        /\ \A u \in Worker : u # w => threshold'[u] = threshold[u]
    BY <1>0, <1>1, Zenon DEF Open, durable, output
  <2> QED  BY <2>1, <1>0 DEF Still
<1>2. ASSUME NEW w \in Worker, ReconstructFrontier(w)
      PROVE  (\A u \in Worker : Still(u)) /\ UNCHANGED <<meta, clock, sinkTime, last, pending>>
  <2>1. /\ \A u \in Worker : synced'[u] \in synced[u] .. Len(log[u])
        /\ UNCHANGED <<log, meta, clock, threshold, restored, now, fed, sinkTime, last, pending>>
        /\ phase[w] = "rewound" /\ phase' = [phase EXCEPT ![w] = "seeked"]
        /\ \A u \in Worker : u # w => offsets'[u] = offsets[u]
    BY <1>0, <1>2, Zenon DEF ReconstructFrontier, output
  <2> QED  BY <2>1, <1>0, <1>2, Zenon DEF Still
<1>3. ASSUME UNCHANGED <<log, synced, input>>
      PROVE  \A u \in Worker : Still(u)
  <2>1. UNCHANGED <<log, synced, phase, threshold, restored, now, fed, offsets>>
    BY <1>3, Zenon DEF input
  <2> QED  BY <2>1, <1>0 DEF Still
<1>4. ASSUME NEW w \in Worker, NEW s \in Sink, CommitSink(w, s)
      PROVE  (\A u \in Worker : Still(u)) /\ UNCHANGED <<meta, clock>>
  <2>1. UNCHANGED <<log, input, meta, clock>>
    BY <1>4, Zenon DEF CommitSink
  <2>2. synced' = synced \/ \E o \in FlushOutcomes :
                              synced' = [synced EXCEPT ![w] = SyncedByFlush(w, o)]
    BY <1>4 DEF CommitSink
  <2>3. \A u \in Worker : synced'[u] = synced[u] \/ synced'[u] = Len(log[u])
    BY <2>2, <1>0, Zenon DEF SyncedByFlush
  <2>4. \A u \in Worker : synced'[u] \in synced[u] .. Len(log[u])
    BY <2>3, <1>0
  <2> QED  BY <2>1, <2>4, Zenon DEF Still, input
<1>5. ASSUME NEW w \in Worker, NEW s \in Sink, OutputBatches(w, s)
      PROVE  (\A u \in Worker : Still(u)) /\ UNCHANGED <<meta, clock, sinkTime, last, pending>>
  BY <1>3, <1>5, Zenon DEF OutputBatches
<1>6. ASSUME NEW s \in Delayed, FlushSink(s)
      PROVE  (\A u \in Worker : Still(u)) /\ UNCHANGED <<meta, clock, sinkTime, last, pending>>
  BY <1>3, <1>6, Zenon DEF FlushSink
<1>7. CASE UNCHANGED vars
  BY <1>3, <1>7 DEF vars, durable, output
<1>8. ASSUME NEW w \in Worker, SaveMetadata(w)
      PROVE  (\A u \in Worker : Still(u)) /\ UNCHANGED <<clock, offsets>>
  BY <1>3, <1>8, Zenon DEF SaveMetadata, input
<1>9. ASSUME NEW w \in Worker, RewindFromSnapshot(w)
      PROVE  \A u \in Worker : u # w => Still(u)
  <2>1. \A u \in Worker : u # w =>
           /\ log'[u] = log[u] /\ synced'[u] = synced[u] /\ restored'[u] = restored[u]
           /\ phase'[u] = phase[u] /\ threshold'[u] = threshold[u] /\ now'[u] = now[u]
           /\ fed'[u] = fed[u] /\ offsets'[u] = offsets[u]
    BY <1>0, <1>9, Zenon DEF RewindFromSnapshot
  <2>2. \A u \in Worker : synced[u] \in synced[u] .. Len(log[u])
    BY <1>0, NumberFacts, Zenon
  <2> QED  BY <2>1, <2>2, Zenon DEF Still
<1>10. ASSUME NEW w \in Worker, FinishRewind(w) \/ Autocommit(w)
       PROVE  \E e \in Event : Logs(w, e) /\ \A u \in Worker : u # w => Still(u)
  <2>1. PICK t \in 1 .. MaxTime :
              /\ clock <= t /\ clock' = t /\ now' = [now EXCEPT ![w] = t]
              /\ AdvEvent(t, offsets[w]) \in Event
              /\ log' = [log EXCEPT ![w] = Append(log[w], AdvEvent(t, offsets[w]))]
              /\ phase[w] \in {"seeked", "run"} /\ phase' = [phase EXCEPT ![w] = "run"]
              /\ UNCHANGED <<synced, meta, delivered, available, threshold, restored, offsets,
                             fed, output, history>>
    BY <1>10, AdvanceEffect, Zenon
  <2> DEFINE e == AdvEvent(t, offsets[w])
  <2>2. IsAdv(e) /\ e.time = t /\ e.frontier = offsets[w] /\ e \in Event
    BY <2>1 DEF AdvEvent, IsAdv
  <2> HIDE DEF e
  <2>3. log' = [log EXCEPT ![w] = Append(log[w], e)]
    BY <2>1, Zenon DEF e
  <2>4. phase'[w] = "run"
    BY <2>1, <1>0
  <2>5. Logs(w, e)
    BY <2>1, <2>2, <2>3, <2>4, Zenon DEF Logs
  <2>6. \A u \in Worker : u # w => Still(u)
    BY <2>1, <2>3, <1>0 DEF Still
  <2> QED  BY <2>2, <2>5, <2>6, Zenon
<1>11. ASSUME NEW w \in Worker, ReadRow(w)
       PROVE  \E e \in Event : Logs(w, e) /\ \A u \in Worker : u # w => Still(u)
  <2>0. PICK k : k = offsets[w][w] + 1
    BY Zenon
  <2>1. /\ phase[w] = "run" /\ w \in Reader /\ k \in 1 .. NumRows
        /\ RowEvent(k) \in Event
        /\ log' = [log EXCEPT ![w] = Append(log[w], RowEvent(k))]
        /\ fed' = [fed EXCEPT ![w] = fed[w] \union
                      {[at |-> Len(log[w]) + 1, row |-> k, time |-> now[w]]}]
        /\ offsets' = [offsets EXCEPT ![w] = [offsets[w] EXCEPT ![w] = k]]
        /\ UNCHANGED <<synced, meta, delivered, clock, phase, threshold, restored, now,
                       output, history>>
    BY <1>11, <2>0, ReadEffect, Zenon
  <2> DEFINE e == RowEvent(k)
  <2>2. IsRow(e) /\ e.row = k /\ e \in Event
    BY <2>1, Zenon DEF RowEvent, IsRow
  <2> HIDE DEF e
  <2>3. log' = [log EXCEPT ![w] = Append(log[w], e)]
    BY <2>1 DEF e
  <2>4. Logs(w, e)
    BY <1>11, <2>0, <2>1, <2>2, <2>3, Zenon DEF Logs
  <2>5. \A u \in Worker : u # w => Still(u)
    BY <2>1, <2>3, <1>0 DEF Still
  <2> QED  BY <2>2, <2>4, <2>5
<1>12. ASSUME NEW w \in Worker, FinishSource(w)
       PROVE  /\ \A u \in Worker : u # w => Still(u)
              /\ w \notin Reader => log' = log
              /\ w \in Reader => \E e \in Event : Logs(w, e)
  <2>0. PICK e : e = AdvEvent(now[w] + 1, offsets[w])
    BY Zenon
  <2>1. /\ phase[w] = "run" /\ phase' = [phase EXCEPT ![w] = "ended"] /\ e \in Event
        /\ w \in Reader => log' = [log EXCEPT ![w] = Append(log[w], e)]
        /\ w \notin Reader => log' = log
        /\ UNCHANGED <<synced, meta, delivered, clock, available, threshold, restored,
                       offsets, now, fed, output, history>>
    BY <1>12, <2>0, FinishEffect, Zenon
  <2>2. IsAdv(e) /\ e.time = now[w] + 1 /\ e.frontier = offsets[w]
    BY <2>0 DEF AdvEvent, IsAdv
  <2>3. w \in Reader => Logs(w, e)
    BY <2>1, <2>2, <1>0, Zenon DEF Logs
  <2>4. \A u \in Worker : u # w => Still(u)
    BY <2>1, <1>0 DEF Still
  <2> QED  BY <2>1, <2>3, <2>4
<1> QED
  BY RecoverySteps, <1>1, <1>2, <1>4, <1>5, <1>6, <1>7, <1>8, <1>9, <1>10, <1>11, <1>12, Zenon
=============================================================================
