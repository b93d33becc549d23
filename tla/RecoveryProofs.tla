--------------------------- MODULE RecoveryProofs ---------------------------
(***************************************************************************)
(* Recovery is exact: what a restarted program replays from its logs and   *)
(* what it reads again from the source make up the input.  The last parts  *)
(* of the inductive invariant, which are about the offsets, and the proof. *)
(***************************************************************************)
EXTENDS RecoveryTimes

-----------------------------------------------------------------------------
(* No worker skips what another one has not replayed.                      *)

\* How much of a log is replayed, or read by others, is some length of it.
LEMMA KeptType ==
    ASSUME TypeOK, ShapeInv, NEW w \in Worker
    PROVE  /\ Kept(w) \in 0 .. Len(log[w]) /\ Readable(w) \in 0 .. Len(log[w])
           /\ MinThreshold(meta) \in Time /\ log[w] \in Seq(Event) /\ Len(log[w]) \in Nat
<1>1. /\ log[w] \in Seq(Event) /\ Len(log[w]) \in Nat /\ restored[w] \in Nat
      /\ synced[w] \in Nat /\ synced[w] <= Len(log[w])
      /\ meta \in [Worker -> Time \union {Nothing}]
  BY DEF TypeOK
<1>2. MinThreshold(meta) \in Time
  BY <1>1, MinThresholdFacts
<1>3. Rewound(w) => restored[w] \in 0 .. Len(log[w])
  <2>1. Rewound(w) => restored[w] \in 0 .. synced[w]
    BY DEF ShapeInv, Framed
  <2> QED  BY <2>1, <1>1
<1>4. ReadLength(log[w], MinThreshold(meta)) \in 0 .. Len(log[w])
  BY <1>1, <1>2, ReadLengthFacts
<1>5. Len(Truncated(log[w], MinThreshold(meta))) \in 0 .. Len(log[w])
  <2>1. /\ Truncated(log[w], MinThreshold(meta)) \in Seq(Event)
        /\ Len(Truncated(log[w], MinThreshold(meta))) <= Len(log[w])
    BY <1>1, <1>2, TruncatedFacts
  <2> QED  BY <2>1, <1>1
<1> QED  BY <1>1, <1>2, <1>3, <1>4, <1>5 DEF Kept, Readable

\* The log of a worker that a step leaves alone is replayed and read as before.
LEMMA StillKept ==
    ASSUME TypeOK, NEW w \in Worker, Still(w), meta' = meta \/ Rewound(w)
    PROVE  Kept(w)' = Kept(w) /\ Readable(w)' = Readable(w) /\ log'[w] = log[w]
<1>1. /\ log'[w] = log[w] /\ restored'[w] = restored[w]
      /\ Rewound(w)' <=> Rewound(w)
  BY StillFacts DEF Still
<1>2. CASE meta' = meta
  <2>1. MinThreshold(meta)' = MinThreshold(meta)
    BY <1>2 DEF MinThreshold
  <2> QED  BY <1>1, <2>1 DEF Kept, Readable
<1>3. CASE Rewound(w)
  BY <1>1, <1>3 DEF Kept, Readable
<1> QED  BY <1>2, <1>3

\* What the rewind replays is what was foreseen.
LEMMA RewindKept ==
    ASSUME Base, ShapeInv, NEW w \in Worker, RewindFromSnapshot(w)
    PROVE  /\ threshold[w] = MinThreshold(meta)
           /\ log'[w] = Truncated(log[w], threshold[w]) /\ log'[w] \in Seq(Event)
           /\ Len(log'[w]) = Kept(w) /\ Kept(w)' = Kept(w) /\ Readable(w)' = Kept(w)
           /\ Kept(w) <= Readable(w)
           /\ \A i \in 1 .. Kept(w) : log'[w][i] = log[w][i]
<1>0. TypeOK /\ StartupInv
  BY DEF Base
<1>1. PICK T : T = threshold[w]
  OBVIOUS
<1>2. /\ phase[w] = "opened" /\ phase'[w] = "rewound"
      /\ log'[w] = Truncated(log[w], T) /\ restored'[w] = Len(log'[w])
  BY <1>0, <1>1, Zenon DEF RewindFromSnapshot, TypeOK
<1>3. T = MinThreshold(meta) /\ T \in Time /\ log[w] \in Seq(Event)
  BY <1>0, <1>1, <1>2, Zenon DEF StartupInv, Up, TypeOK
<1>4. Kept(w) = Len(log'[w]) /\ Kept(w)' = Len(log'[w]) /\ Readable(w)' = Len(log'[w])
      /\ Readable(w) = ReadLength(log[w], T)
  BY <1>2, <1>3 DEF Kept, Readable, Rewound
<1>5. /\ Truncated(log[w], T) \in Seq(Event)
      /\ \A i \in 1 .. Len(Truncated(log[w], T)) : Truncated(log[w], T)[i] = log[w][i]
  BY <1>3, TruncatedFacts
<1>6. Len(Truncated(log[w], T)) <= ReadLength(log[w], T)
  <2>1. /\ T = 0 => Len(Truncated(log[w], T)) = 0
        /\ T # 0 => Len(Truncated(log[w], T)) = ReadLength(log[w], T)
    BY <1>3, TruncatedLength
  <2>2. ReadLength(log[w], T) \in 0 .. Len(log[w]) /\ Len(log[w]) \in Nat
    BY <1>3, ReadLengthFacts
  <2> QED  BY <2>1, <2>2
<1> QED  BY <1>1, <1>2, <1>3, <1>4, <1>5, <1>6, Zenon

\* What a connector appends comes after what was replayed.
LEMMA LogsKept ==
    ASSUME TypeOK, ShapeInv, NEW w \in Worker, NEW e \in Event, Logs(w, e)
    PROVE  /\ Kept(w)' = Kept(w) /\ Kept(w) = restored[w]
           /\ Readable(w)' = Len(log[w]) + 1 /\ Readable(w) = Len(log[w])
           /\ log'[w] \in Seq(Event) /\ Len(log'[w]) = Len(log[w]) + 1
           /\ log'[w][Len(log[w]) + 1] = e
           /\ \A i \in 1 .. Len(log[w]) : log'[w][i] = log[w][i]
<1>1. /\ log[w] \in Seq(Event) /\ log'[w] = Append(log[w], e) /\ restored'[w] = restored[w]
      /\ phase[w] \in {"seeked", "run"} /\ phase'[w] \in {"run", "ended"}
  BY LogType, PhaseType DEF Logs
<1>2. Rewound(w) /\ Rewound(w)'
  BY <1>1 DEF Rewound
<1>3. /\ log'[w] \in Seq(Event) /\ Len(log'[w]) = Len(log[w]) + 1
      /\ log'[w][Len(log[w]) + 1] = e
      /\ \A i \in 1 .. Len(log[w]) : log'[w][i] = log[w][i]
  BY <1>1
<1>4. Kept(w)' = Kept(w) /\ Kept(w) = restored[w]
  BY <1>1, <1>2 DEF Kept
<1>5. Readable(w)' = Len(log'[w]) /\ Readable(w) = Len(log[w])
  BY <1>2 DEF Readable
<1> QED  BY <1>3, <1>4, <1>5

\* The rows that a run replays, or will replay, are never taken back.
LEMMA KeptRows ==
    ASSUME Base, Hypotheses, RecoveryInv, [Next]_vars, NEW w \in Worker
    PROVE  RowsIn(log[w], Kept(w)) \subseteq RowsIn(log[w], Kept(w))'
<1>0. /\ TypeOK /\ OrderInv /\ ShapeInv /\ TimesInv /\ CoverInv
  BY DEF Base, RecoveryInv
<1>a. /\ Kept(w) \in 0 .. Len(log[w]) /\ log[w] \in Seq(Event) /\ Len(log[w]) \in Nat
  BY <1>0, KeptType
<1>1. ASSUME Kept(w)' = Kept(w), \A i \in 1 .. Kept(w) : log'[w][i] = log[w][i]
      PROVE  RowsIn(log[w], Kept(w)) \subseteq RowsIn(log[w], Kept(w))'
  <2>0. PICK l, m : l = log[w] /\ m = log'[w]
    OBVIOUS
  <2>1. PICK n \in Nat : l = log[w] /\ m = log'[w] /\ n = Kept(w)
    BY <1>a, <2>0
  <2>2. RowsIn(l, n) = RowsIn(m, n)
    BY <1>1, <2>1, RowsInAgree
  <2> QED  BY <1>1, <2>1, <2>2
<1>2. CASE Still(w) /\ (meta' = meta \/ Rewound(w))
  BY <1>0, <1>1, <1>2, StillKept
<1>3. ASSUME NEW v \in Worker, SaveMetadata(v), \A u \in Worker : Still(u)
      PROVE  RowsIn(log[w], Kept(w)) \subseteq RowsIn(log[w], Kept(w))'
  <2>1. Up(w)
    BY <1>0, <1>3, CommitNeedsAll DEF SaveMetadata
  <2> QED  BY <1>2, <1>3, <2>1 DEF Up, Rewound
<1>4. CASE RewindFromSnapshot(w)
  BY <1>0, <1>1, <1>4, RewindKept, Zenon
<1>5. ASSUME NEW e \in Event, Logs(w, e)
      PROVE  RowsIn(log[w], Kept(w)) \subseteq RowsIn(log[w], Kept(w))'
  BY <1>0, <1>1, <1>5, <1>a, LogsKept
<1>6. CASE FinishSource(w) /\ log' = log
  <2>1. phase[w] = "run" /\ phase'[w] = "ended" /\ restored' = restored
    BY <1>0, <1>6, Zenon DEF FinishSource, TypeOK
  <2> QED  BY <1>1, <1>6, <2>1, Zenon DEF Kept, Rewound
<1>7. CASE Crash \/ Exit
  <2>1. PICK kept \in [Worker -> Nat] :
           /\ \A u \in Worker : kept[u] \in synced[u] .. Len(log[u])
           /\ \/ ~ CommitWindow /\ ~ StaleDone
              \/ \A u \in Worker : phase[u] = "ended" /\ kept[u] = Len(log[u])
           /\ log' = [u \in Worker |-> SubSeq(log[u], 1, kept[u])]
           /\ meta' = meta /\ phase' = [u \in Worker |-> "down"]
    BY <1>0, <1>7, RestartEffect, Zenon
  <2>2. PICK n \in Nat : n = kept[w] /\ n \in synced[w] .. Len(log[w])
    BY <2>1, Zenon
  <2>3. PICK m : m = SubSeq(log[w], 1, n) /\ log'[w] = m
    BY <2>1, <2>2, Zenon
  <2>4. PICK T : T = MinThreshold(meta)
    OBVIOUS
  <2>5. PICK r : r = Len(Truncated(m, T))
    BY Zenon
  <2>6. r \in Nat /\ Kept(w) <= r /\ r <= n
    BY <1>0, <2>1, <2>2, <2>3, <2>4, <2>5, RestartFacts, Zenon
  <2>7. Kept(w)' = r
    BY <2>1, <2>3, <2>4, <2>5 DEF Kept, Rewound, MinThreshold
  <2>8. PICK k \in Nat : k = Kept(w)
    BY <1>a
  <2>9. PICK l : l = log[w]
    OBVIOUS
  <2>10. synced[w] \in Nat
    BY <1>0, Zenon DEF TypeOK
  <2>11. \A i \in 1 .. r : l[i] = m[i]
    BY <1>a, <2>2, <2>3, <2>6, <2>9, <2>10
  <2>12. RowsIn(l, r) = RowsIn(m, r)
    BY <2>6, <2>11, RowsInAgree
  <2>13. RowsIn(l, k) \subseteq RowsIn(l, r)
    BY <1>a, <2>6, <2>8, <2>9, RowsInFacts, Zenon
  <2> QED  BY <2>3, <2>7, <2>8, <2>9, <2>12, <2>13, Zenon
<1> QED
  <2>1. ASSUME NEW v \in Worker, v # w, \/ \E e \in Event : Logs(v, e)
                                        \/ RewindFromSnapshot(v)
                                        \/ FinishSource(v)
        PROVE  meta' = meta
    BY <2>1 DEF Logs, RewindFromSnapshot, FinishSource
  <2> QED  BY <1>0, StepEffects, <1>2, <1>3, <1>4, <1>5, <1>6, <1>7, <2>1, Zenon

\* The frontier of one log is that of the last AdvanceTime which the reader reaches.
LEMMA LastFrontierFacts ==
    ASSUME NEW l \in Seq(Event), NEW T \in Time
    PROVE  \/ /\ LastFrontier(l, T) = NoOffsets
              /\ \A j \in 1 .. ReadLength(l, T) : ~ IsAdv(l[j])
           \/ \E i \in 1 .. ReadLength(l, T) :
                 /\ IsAdv(l[i]) /\ LastFrontier(l, T) = l[i].frontier
                 /\ \A j \in 1 .. ReadLength(l, T) : IsAdv(l[j]) => j <= i
<1> DEFINE advs == {i \in 1 .. ReadLength(l, T) : l[i].kind = "adv"}
<1>1. CASE advs = {}
  <2>1. LastFrontier(l, T) = NoOffsets
    BY <1>1 DEF LastFrontier
  <2> QED  BY <2>1, <1>1 DEF IsAdv
<1>2. CASE advs # {}
  <2>1. ReadLength(l, T) \in 0 .. Len(l)
    BY ReadLengthFacts
  <2>2. advs \in SUBSET (0 .. Len(l)) /\ Len(l) \in Nat
    BY <2>1
  <2>3. \E i \in advs : \A j \in advs : j <= i
    BY <2>2, <1>2, NatMax, Zenon
  <2>4. PICK i \in advs : LastFrontier(l, T) = l[i].frontier /\ \A j \in advs : j <= i
    BY <2>3, <1>2, Zenon DEF LastFrontier
  <2> QED  BY <2>4 DEF IsAdv
<1> QED  BY <1>1, <1>2

\* The frontier that a worker reconstructs from all logs claims no row of any
\* partition that the worker which reads it has not replayed, or will not replay.
LEMMA LastFrontierBound ==
    ASSUME Base, Hypotheses, RecoveryInv, NEW u \in Worker, phase[u] = "rewound",
           NEW T, T = threshold[u], NEW v \in Worker, NEW w \in Worker,
           NEW n \in Nat, n \in synced[v] .. Len(log[v]),
           T = Done /\ Up(v) => n <= restored[v] + 1
    PROVE  /\ LastFrontier(SubSeq(log[v], 1, n), T) \in Offsets
           /\ 1 .. LastFrontier(SubSeq(log[v], 1, n), T)[w] \subseteq RowsIn(log[w], Kept(w))
<1>0. /\ TypeOK /\ StartupInv /\ ShapeInv /\ TimesInv /\ CrossInv
      /\ Framed(v) /\ Stops(v) /\ Ordered(log[v], v)
  BY DEF Base, RecoveryInv, ShapeInv, TimesInv
<1>1. T \in Time /\ T \in Nat /\ T = MinThreshold(meta)
  BY <1>0, TimeFacts, Zenon DEF TypeOK, StartupInv, Up
<1>2. Rewound(v) => threshold[v] = T
  BY <1>0 DEF StartupInv, ThresholdsAgree, Rewound
<1>a. /\ Kept(v) \in 0 .. Len(log[v]) /\ Readable(v) \in 0 .. Len(log[v])
      /\ log[v] \in Seq(Event) /\ Len(log[v]) \in Nat /\ restored[v] \in Nat
      /\ synced[v] \in Nat
  BY <1>0, KeptType, Zenon DEF TypeOK
<1>3. PICK l : l = log[v]
  OBVIOUS
<1>4. PICK m : m = SubSeq(l, 1, n)
  BY Zenon
<1>5. /\ m \in Seq(Event) /\ Len(m) = n /\ l \in Seq(Event) /\ n <= Len(l)
      /\ \A i \in 1 .. n : m[i] = l[i]
  BY <1>3, <1>4, <1>a
<1>6. LastFrontier(m, T) \in Offsets
  BY <1>1, <1>5, LastFrontierType
<1>7. ReadLength(m, T) \in 0 .. n
  BY <1>1, <1>5, ReadLengthFacts
<1>b. PICK r \in Nat, k \in Nat, N \in Nat, q \in Nat :
         r = restored[v] /\ k = Kept(v) /\ N = Len(l) /\ q = ReadLength(m, T) /\ q <= n /\ n <= N
  <2>1. restored[v] \in Nat /\ Kept(v) \in Nat /\ Len(l) \in Nat /\ n <= Len(l)
    BY <1>3, <1>5, <1>a
  <2>2. ReadLength(m, T) \in Nat /\ ReadLength(m, T) <= n
    BY <1>7
  <2> QED  BY <2>1, <2>2, Zenon
<1>8. CASE LastFrontier(m, T) = NoOffsets
  BY <1>3, <1>4, <1>6, <1>8 DEF NoOffsets
<1>9. ASSUME NEW i \in 1 .. ReadLength(m, T), IsAdv(m[i]), LastFrontier(m, T) = m[i].frontier
      PROVE  1 .. LastFrontier(m, T)[w] \subseteq RowsIn(log[w], Kept(w))
  <2>0. i \in Nat /\ 1 <= i /\ i <= q /\ i <= n /\ i <= N /\ i \in 1 .. n
    BY <1>b
  <2>1. i \in 1 .. n /\ m[i] = l[i] /\ IsAdv(l[i])
    BY <1>5, <1>9, <2>0, Zenon
  <2>2. ReadLength(m, T) <= ReadLength(l, T) /\ ReadLength(l, T) \in 0 .. Len(l)
    <3>1. Len(m) <= Len(l) /\ \A j \in 1 .. Len(m) : m[j] = l[j]
      BY <1>5
    <3>2. ReadLength(m, T) <= ReadLength(l, T)
      BY <1>1, <1>5, <3>1, PrefixRead, Zenon
    <3> QED  BY <3>2, <1>1, <1>5, ReadLengthFacts, Zenon
  <2>3. CASE v # w
    <3>1. i \in 1 .. Readable(v)
      <4>1. CASE Rewound(v)
        <5>1. Readable(v) = N
          BY <4>1, <1>3, <1>b, Zenon DEF Readable
        <5> QED  BY <5>1, <2>0
      <4>2. CASE ~ Rewound(v)
        <5>1. Readable(v) = ReadLength(l, T)
          BY <4>2, <1>1, <1>3, Zenon DEF Readable
        <5> QED  BY <5>1, <2>2, <1>7
      <4> QED  BY <4>1, <4>2
    <3>2. 1 .. log[v][i].frontier[w] \subseteq RowsIn(log[w], Kept(w))
      BY <1>0, <2>1, <2>3, <3>1, <1>3, Zenon DEF CrossInv
    <3> QED  BY <3>2, <2>1, <1>3, <1>9, Zenon
  <2>4. CASE v = w
    <3>1. 1 .. l[i].frontier[w] = RowsIn(l, i - 1) /\ i - 1 \in Nat
      BY <1>0, <1>3, <1>5, <2>1, <2>4 DEF Ordered
    <3>2. ASSUME i - 1 <= Kept(v)
          PROVE  1 .. LastFrontier(m, T)[w] \subseteq RowsIn(log[w], Kept(w))
      <4>1. k \in Nat /\ k = Kept(v)
        BY <1>b, Zenon
      <4>2. RowsIn(l, i - 1) \subseteq RowsIn(l, k)
        BY <3>1, <3>2, <4>1, <1>5, RowsInFacts, Zenon
      <4> QED  BY <3>1, <4>1, <4>2, <2>1, <2>4, <1>3, <1>9, Zenon
    <3>3. CASE ~ Rewound(v)
      <4>1. Kept(v) = Len(Truncated(l, T))
        BY <3>3, <1>1, <1>3, Zenon DEF Kept
      <4>2. /\ T = 0 => Len(Truncated(l, T)) = 0
            /\ T # 0 => Len(Truncated(l, T)) = ReadLength(l, T)
        BY <1>1, <1>5, TruncatedLength, Zenon
      <4>3. CASE T # 0
        BY <4>1, <4>2, <4>3, <3>2, <2>1, <2>2, <1>7, <1>9
      <4>4. CASE T = 0
        <5>1. n > 0 /\ 1 \in 1 .. n /\ IsAdv(m[1])
          <6>1. n > 0 /\ l # << >> /\ 1 \in 1 .. n
            BY <2>1, <1>5
          <6> QED  BY <6>1, <1>0, <1>3, <1>5, Zenon DEF Framed
        <5>2. m[1].time \in Nat /\ m[1].time >= T
          <6>1. 1 \in 1 .. Len(m)
            BY <5>1, <1>5, Zenon
          <6>2. m[1].time \in Nat
            BY <5>1, <6>1, <1>5, LogTimes, Zenon
          <6> QED  BY <6>2, <4>4
        <5>3. 1 \in Closing(m, T)
          BY <5>1, <5>2, <1>5 DEF Closing, IsAdv
        <5>4. ReadLength(m, T) <= 1
          BY <5>3, <1>1, <1>5, ReadLengthFacts, Zenon
        <5>5. i - 1 <= Kept(v)
          <6>1. q <= 1
            BY <5>4, <1>b
          <6>2. i - 1 <= k
            BY <6>1, <2>0, <1>b
          <6> QED  BY <6>2, <1>b
        <5> QED  BY <5>5, <3>2, Zenon
      <4> QED  BY <4>3, <4>4, <2>1, <1>9, Zenon
    <3>4. CASE Rewound(v) /\ ~ Up(v)
      <4>1. Kept(v) = Len(l)
        BY <1>0, <1>3, <3>4, Zenon DEF Kept, Framed
      <4>2. i - 1 <= Kept(v)
        BY <4>1, <2>0, <1>b
      <4> QED  BY <4>2, <3>2
    <3>5. CASE Up(v)
      <4>1. Rewound(v) /\ Kept(v) = restored[v] /\ restored[v] < Len(l) /\ IsAdv(l[restored[v] + 1])
        BY <1>0, <1>3, <3>5 DEF Kept, Framed, Up, Rewound
      <4>2. i <= restored[v] + 1
        <5>1. CASE n <= restored[v] + 1
          BY <5>1, <2>0, <1>b
        <5>2. CASE T # Done /\ restored[v] + 1 <= n
          <6>1. T <= l[restored[v] + 1].time
            BY <5>2, <3>5, <4>1, <1>0, <1>2, <1>3, Zenon DEF Stops
          <6>2. restored[v] + 1 \in 1 .. Len(m) /\ m[restored[v] + 1] = l[restored[v] + 1]
            BY <5>2, <1>5, <1>a
          <6>3. l[restored[v] + 1].time \in Nat
            BY <6>2, <4>1, <1>5, LogTimes, Zenon
          <6>4. restored[v] + 1 \in Closing(m, T)
            <7>1. PICK j : j = restored[v] + 1
              BY Zenon
            <7>2. j \in DOMAIN m /\ m[j].kind = "adv" /\ m[j].time >= T
              BY <6>1, <6>2, <6>3, <4>1, <1>1, <1>5, <7>1 DEF IsAdv
            <7> QED  BY <7>1, <7>2, Zenon DEF Closing
          <6>5. ReadLength(m, T) <= restored[v] + 1
            BY <6>4, <1>1, <1>5, ReadLengthFacts, Zenon
          <6> QED  BY <6>5, <2>0, <1>b
        <5>3. T = Done => n <= restored[v] + 1
          BY <3>5, Zenon
        <5>4. n <= r + 1 \/ r + 1 <= n
          BY <1>b
        <5> QED  BY <5>1, <5>2, <5>3, <5>4, <1>b, Zenon
      <4>3. i - 1 <= Kept(v)
        BY <4>1, <4>2, <2>0, <1>b
      <4> QED  BY <4>3, <3>2
    <3> QED  BY <3>3, <3>4, <3>5, Zenon
  <2> QED  BY <2>3, <2>4
<1>10. \/ LastFrontier(m, T) = NoOffsets
       \/ \E i \in 1 .. ReadLength(m, T) : IsAdv(m[i]) /\ LastFrontier(m, T) = m[i].frontier
  BY <1>1, <1>5, LastFrontierFacts, Zenon
<1> QED  BY <1>3, <1>4, <1>6, <1>8, <1>9, <1>10, Zenon

\* The frontier that a worker reconstructs claims, of every partition, rows that
\* are replayed.
LEMMA ReconstructBound ==
    ASSUME Base, Hypotheses, RecoveryInv, NEW u \in Worker, ReconstructFrontier(u),
           NEW w \in Worker
    PROVE  /\ offsets'[u] \in Offsets
           /\ 1 .. offsets'[u][w] \subseteq RowsIn(log[w], Kept(w))
           /\ \E n \in Nat : /\ n \in synced[w] .. Len(log[w])
                             /\ LastFrontier(SubSeq(log[w], 1, n), threshold[u]) \in Offsets
                             /\ LastFrontier(SubSeq(log[w], 1, n), threshold[u])[w] <= offsets'[u][w]
<1>0. TypeOK
  BY DEF Base
<1>1. PICK T : T = threshold[u]
  OBVIOUS
<1>a. PICK seen : /\ \A v \in Worker : seen[v] \in synced[v] .. Len(log[v])
                  /\ SeesRunningWorker(u, seen) => "startup" \in Windows
                  /\ offsets' = [offsets EXCEPT ![u] =
                       MergedFrontier({LastFrontier(SubSeq(log[v], 1, seen[v]), threshold[u]) :
                                         v \in Worker})]
  BY Zenon DEF ReconstructFrontier
<1>2. /\ \A v \in Worker : seen[v] \in synced[v] .. Len(log[v])
      /\ ~ SeesRunningWorker(u, seen)
      /\ offsets' = [offsets EXCEPT ![u] =
           MergedFrontier({LastFrontier(SubSeq(log[v], 1, seen[v]), T) : v \in Worker})]
  BY <1>1, <1>a DEF Hypotheses
<1>3. \A v \in Worker : seen[v] \in Nat
  <2>1. \A v \in Worker : synced[v] \in Nat /\ Len(log[v]) \in Nat
    BY <1>0 DEF TypeOK
  <2>2. \A v \in Worker : seen[v] \in synced[v] .. Len(log[v])
    BY <1>2
  <2> QED  BY <2>1, <2>2
<1>4. ASSUME NEW v \in Worker
      PROVE  /\ LastFrontier(SubSeq(log[v], 1, seen[v]), T) \in Offsets
             /\ 1 .. LastFrontier(SubSeq(log[v], 1, seen[v]), T)[w] \subseteq RowsIn(log[w], Kept(w))
  <2>1. PICK n \in Nat : n = seen[v] /\ n \in synced[v] .. Len(log[v])
    BY <1>2, <1>3, Zenon
  <2>2. T = Done /\ Up(v) => n <= restored[v] + 1
    <3>1. restored[v] \in Nat
      BY <1>0, Zenon DEF TypeOK
    <3> QED  BY <1>1, <1>2, <2>1, <3>1 DEF SeesRunningWorker, Up
  <2>3. phase[u] = "rewound"
    BY DEF ReconstructFrontier
  <2> QED  BY <1>1, <2>1, <2>2, <2>3, LastFrontierBound, Zenon
<1>5. PICK fs : fs = {LastFrontier(SubSeq(log[v], 1, seen[v]), T) : v \in Worker}
  BY Zenon
<1>6. fs \in SUBSET Offsets /\ fs # {}
  BY <1>4, <1>5, NonEmpty, Zenon
<1>7. offsets'[u] = MergedFrontier(fs)
  BY <1>0, <1>2, <1>5, Zenon DEF TypeOK
<1>8. /\ MergedFrontier(fs) \in Offsets
      /\ \E f \in fs : MergedFrontier(fs)[w] = f[w]
      /\ \A f \in fs : f[w] <= MergedFrontier(fs)[w]
  BY <1>6, MergedFrontierFacts, Zenon
<1>9. 1 .. offsets'[u][w] \subseteq RowsIn(log[w], Kept(w))
  <2>1. PICK v \in Worker :
           MergedFrontier(fs)[w] = LastFrontier(SubSeq(log[v], 1, seen[v]), T)[w]
    BY <1>5, <1>8, Zenon
  <2> QED  BY <1>4, <1>7, <2>1
<1>10. \E n \in Nat : /\ n \in synced[w] .. Len(log[w])
                      /\ LastFrontier(SubSeq(log[w], 1, n), T) \in Offsets
                      /\ LastFrontier(SubSeq(log[w], 1, n), T)[w] <= offsets'[u][w]
  <2>1. PICK n \in Nat : n = seen[w] /\ n \in synced[w] .. Len(log[w])
    BY <1>2, <1>3
  <2>2. LastFrontier(SubSeq(log[w], 1, n), T) \in fs
    BY <1>5, <2>1
  <2> QED  BY <1>4, <1>7, <1>8, <2>1, <2>2, Zenon
<1> QED  BY <1>1, <1>7, <1>8, <1>9, <1>10, Zenon

\* Every step keeps the workers from skipping rows.
LEMMA CrossNext ==
    ASSUME Base, Hypotheses, RecoveryInv, [Next]_vars
    PROVE  CrossInv'
<1>0. /\ TypeOK /\ OrderInv /\ ShapeInv /\ TimesInv /\ CoverInv /\ CrossInv
  BY Zenon DEF Base, RecoveryInv
<1> SUFFICES ASSUME NEW u \in Worker, NEW w \in Worker, u # w
             PROVE  /\ (\A i \in 1 .. Readable(u) : IsAdv(log[u][i]) =>
                          1 .. log[u][i].frontier[w] \subseteq RowsIn(log[w], Kept(w)))'
                    /\ Seeked(u)' => 1 .. offsets'[u][w] \subseteq RowsIn(log[w], Kept(w))'
  BY DEF CrossInv
<1>1. PICK R, S : /\ R = RowsIn(log[w], Kept(w)) /\ S = RowsIn(log[w], Kept(w))'
                  /\ R \subseteq S
  BY KeptRows, Zenon
<1>2. /\ \A i \in 1 .. Readable(u) : IsAdv(log[u][i]) => 1 .. log[u][i].frontier[w] \subseteq R
      /\ Seeked(u) => 1 .. offsets[u][w] \subseteq R
  BY <1>0, <1>1 DEF CrossInv
<1>a. /\ Readable(u) \in 0 .. Len(log[u]) /\ log[u] \in Seq(Event) /\ Len(log[u]) \in Nat
      /\ Kept(u) \in 0 .. Len(log[u])
  BY <1>0, KeptType, Zenon
<1> DEFINE Reads == \A i \in 1 .. Readable(u)' : IsAdv(log'[u][i]) =>
                       1 .. log'[u][i].frontier[w] \subseteq S
           Seeks == Seeked(u)' => 1 .. offsets'[u][w] \subseteq S
<1> SUFFICES Reads /\ Seeks
  BY <1>1, Zenon
<1>3. ASSUME Readable(u)' \in Int, Readable(u)' <= Readable(u),
             \A i \in 1 .. Readable(u)' : log'[u][i] = log[u][i]
      PROVE  Reads
  <2>1. \A i \in 1 .. Readable(u)' : i \in 1 .. Readable(u)
    BY <1>3, <1>a
  <2> QED  BY <1>1, <1>2, <1>3, <2>1, Zenon
<1>4. CASE Still(u) /\ (meta' = meta \/ Rewound(u))
  <2>1. Readable(u)' = Readable(u) /\ log'[u] = log[u]
    BY <1>0, <1>4, StillKept, Zenon
  <2>2. Reads
    BY <2>1, <1>3, <1>a
  <2>3. CASE ReconstructFrontier(u)
    BY <2>2, <2>3, <1>1, ReconstructBound, Zenon
  <2>4. CASE Seeked(u)' => Seeked(u) /\ offsets'[u] = offsets[u]
    BY <2>2, <2>4, <1>1, <1>2, Zenon
  <2> QED  BY <2>3, <2>4, <1>0, <1>4, StillFacts, Zenon
<1>5. ASSUME NEW v \in Worker, SaveMetadata(v), \A x \in Worker : Still(x)
      PROVE  Reads /\ Seeks
  <2>1. Up(u)
    BY <1>0, <1>5, CommitNeedsAll, Zenon DEF SaveMetadata
  <2> QED  BY <1>4, <1>5, <2>1, Zenon DEF Up, Rewound
<1>6. CASE RewindFromSnapshot(u)
  <2>1. /\ Readable(u)' = Kept(u) /\ Kept(u) <= Readable(u)
        /\ \A i \in 1 .. Kept(u) : log'[u][i] = log[u][i]
    BY <1>0, <1>6, RewindKept, Zenon
  <2>2. ~ Seeked(u)'
    BY <1>0, <1>6, Zenon DEF RewindFromSnapshot, Seeked, TypeOK
  <2> QED  BY <1>3, <1>a, <2>1, <2>2
<1>7. ASSUME NEW e \in Event, Logs(u, e)
      PROVE  Reads /\ Seeks
  <2>1. /\ Readable(u)' = Len(log[u]) + 1 /\ Readable(u) = Len(log[u])
        /\ log'[u][Len(log[u]) + 1] = e
        /\ \A i \in 1 .. Len(log[u]) : log'[u][i] = log[u][i]
    BY <1>0, <1>7, LogsKept, Zenon
  <2>2. Seeked(u) /\ (IsAdv(e) => e.frontier = offsets[u])
    BY <1>7, Zenon DEF Logs, Seeked, IsAdv, IsRow
  <2>3. offsets'[u][w] = offsets[u][w]
    BY <1>0, <1>7, OffsetsType DEF Logs, ReadRow
  <2>4. Seeks
    BY <1>1, <1>2, <2>2, <2>3, Zenon
  <2>5. ASSUME NEW i \in 1 .. Readable(u)', IsAdv(log'[u][i])
        PROVE  1 .. log'[u][i].frontier[w] \subseteq S
    <3>1. CASE i = Len(log[u]) + 1
      BY <3>1, <2>1, <2>2, <2>5, <1>1, <1>2, Zenon
    <3>2. CASE i \in 1 .. Len(log[u])
      BY <3>2, <2>1, <2>5, <1>1, <1>2, Zenon
    <3>3. i \in 1 .. Len(log[u]) + 1 /\ Len(log[u]) \in Nat
      BY <2>1, <1>a
    <3>4. i = Len(log[u]) + 1 \/ i \in 1 .. Len(log[u])
      BY <3>3
    <3> QED  BY <3>1, <3>2, <3>4, Zenon
  <2> QED  BY <2>4, <2>5, Zenon
<1>8. CASE FinishSource(u) /\ log' = log
  <2>1. phase[u] = "run" /\ phase'[u] = "ended" /\ offsets' = offsets
    BY <1>0, <1>8, Zenon DEF FinishSource, TypeOK
  <2>2. Readable(u)' = Readable(u) /\ Seeked(u)
    BY <1>8, <2>1, Zenon DEF Readable, Rewound, Seeked
  <2> QED  BY <1>1, <1>2, <1>3, <1>8, <1>a, <2>1, <2>2, Zenon
<1>9. CASE Crash \/ Exit
  <2>1. PICK kept \in [Worker -> Nat] :
           /\ \A v \in Worker : kept[v] \in synced[v] .. Len(log[v])
           /\ \/ ~ CommitWindow /\ ~ StaleDone
              \/ \A v \in Worker : phase[v] = "ended" /\ kept[v] = Len(log[v])
           /\ log' = [v \in Worker |-> SubSeq(log[v], 1, kept[v])]
           /\ meta' = meta /\ phase' = [v \in Worker |-> "down"]
    BY <1>0, <1>9, RestartEffect, Zenon
  <2>2. PICK n \in Nat : n = kept[u] /\ n \in synced[u] .. Len(log[u])
    BY <2>1, Zenon
  <2>3. PICK m : m = SubSeq(log[u], 1, n) /\ log'[u] = m
    BY <2>1, <2>2, Zenon
  <2>4. PICK T : T = MinThreshold(meta)
    OBVIOUS
  <2>5. ReadLength(m, T) <= Readable(u)
    BY <1>0, <2>1, <2>2, <2>3, <2>4, RestartFacts, Zenon
  <2>6. Readable(u)' = ReadLength(m, T) /\ ~ Seeked(u)'
    BY <2>1, <2>3, <2>4 DEF Readable, Rewound, Seeked, MinThreshold
  <2>7. synced[u] \in Nat
    BY <1>0, Zenon DEF TypeOK
  <2>8. m \in Seq(Event) /\ Len(m) = n /\ \A i \in 1 .. n : m[i] = log[u][i]
    BY <2>2, <2>3, <2>7, <1>a
  <2>9. ReadLength(m, T) \in 0 .. n
    <3>1. T \in Time
      BY <1>0, <2>4, KeptType, Zenon
    <3> QED  BY <3>1, <2>8, ReadLengthFacts
  <2>10. Reads
    <3>1. \A r \in 0 .. n : r \in Int /\ \A i \in 1 .. r : i \in 1 .. n
      BY <2>2
    <3> QED  BY <1>3, <2>3, <2>5, <2>6, <2>8, <2>9, <3>1, Zenon
  <2> QED  BY <2>6, <2>10
<1> QED
  <2>1. ASSUME NEW v \in Worker, v # u, \/ \E e \in Event : Logs(v, e)
                                        \/ RewindFromSnapshot(v)
                                        \/ FinishSource(v)
        PROVE  meta' = meta
    BY <2>1 DEF Logs, RewindFromSnapshot, FinishSource
  <2> HIDE DEF Reads, Seeks
  <2> QED  BY <1>0, StepEffects, <1>4, <1>5, <1>6, <1>7, <1>8, <1>9, <2>1, Zenon

-----------------------------------------------------------------------------
(* The session holds the rows of the log.                                  *)

\* A log in which rows are numbered holds no row twice.
LEMMA RowsDistinct ==
    ASSUME NEW l \in Seq(Event), NEW w, Ordered(l, w), NEW i \in 1 .. Len(l), NEW j \in 1 .. Len(l),
           IsRow(l[i]), IsRow(l[j]), l[i].row = l[j].row
    PROVE  i = j
<1>1. ASSUME NEW a \in 1 .. Len(l), NEW b \in 1 .. Len(l), a < b, IsRow(l[a]), IsRow(l[b])
      PROVE  l[a].row # l[b].row
  <2>1. RowsIn(l, b - 1) = 1 .. l[b].row - 1
    BY <1>1, Zenon DEF Ordered
  <2>2. a \in 1 .. b - 1
    BY <1>1
  <2>3. l[a].row \in RowsIn(l, b - 1)
    BY <1>1, <2>2 DEF RowsIn
  <2>4. l[b] \in Event
    BY <1>1
  <2>5. l[b].row \in Nat
    BY <2>4, <1>1, EventFacts DEF IsRow
  <2> QED  BY <2>1, <2>3, <2>5
<1> QED  BY <1>1

\* The rewind feeds the rows of the log.
LEMMA FedRewind ==
    ASSUME Base, ShapeInv, NEW w \in Worker, RewindFromSnapshot(w), TypeOK', ShapeInv'
    PROVE  /\ {e.row : e \in fed'[w]} = RowsIn(log'[w], Len(log'[w]))
           /\ \A d, e \in fed'[w] : d.row = e.row => d = e
<1>0. TypeOK
  BY DEF Base
<1>1. PICK m : m = log'[w]
  OBVIOUS
<1>2. m \in Seq(Event) /\ Ordered(m, w) /\ DOMAIN m = 1 .. Len(m)
  <2>1. log' \in [Worker -> Seq(Event)]
    BY Zenon DEF TypeOK
  <2>2. m \in Seq(Event) /\ Ordered(m, w)
    BY <1>1, <2>1, Zenon DEF ShapeInv
  <2> QED  BY <2>2
<1>3. fed'[w] = {[at |-> i, row |-> m[i].row, time |-> 0] : i \in {j \in DOMAIN m : m[j].kind = "row"}}
  <2>1. fed' = [fed EXCEPT ![w] = {[at |-> i, row |-> log'[w][i].row, time |-> 0] :
                                      i \in {j \in DOMAIN log'[w] : log'[w][j].kind = "row"}}]
    BY Zenon DEF RewindFromSnapshot
  <2>2. DOMAIN fed = Worker
    BY <1>0, Zenon DEF TypeOK
  <2> QED  BY <2>1, <2>2, <1>1
<1>4. \A e \in fed'[w] : \E i \in 1 .. Len(m) :
         IsRow(m[i]) /\ e = [at |-> i, row |-> m[i].row, time |-> 0]
  BY <1>2, <1>3, Zenon DEF IsRow
<1>5. \A i \in 1 .. Len(m) : IsRow(m[i]) => [at |-> i, row |-> m[i].row, time |-> 0] \in fed'[w]
  BY <1>2, <1>3, Zenon DEF IsRow
<1>6. {e.row : e \in fed'[w]} \subseteq RowsIn(m, Len(m))
  BY <1>4 DEF RowsIn
<1>7. RowsIn(m, Len(m)) \subseteq {e.row : e \in fed'[w]}
  <2> SUFFICES ASSUME NEW i \in 1 .. Len(m), IsRow(m[i])
               PROVE  m[i].row \in {e.row : e \in fed'[w]}
    BY DEF RowsIn
  <2>1. [at |-> i, row |-> m[i].row, time |-> 0].row = m[i].row
    OBVIOUS
  <2> QED  BY <2>1, <1>5, Zenon
<1>8. ASSUME NEW d \in fed'[w], NEW e \in fed'[w], d.row = e.row
      PROVE  d = e
  <2>1. PICK i \in 1 .. Len(m) : IsRow(m[i]) /\ d = [at |-> i, row |-> m[i].row, time |-> 0]
    BY <1>4, Zenon
  <2>2. PICK j \in 1 .. Len(m) : IsRow(m[j]) /\ e = [at |-> j, row |-> m[j].row, time |-> 0]
    BY <1>4
  <2>3. m[i].row = m[j].row
    BY <1>8, <2>1, <2>2, Zenon
  <2>4. i = j
    BY <1>2, <2>1, <2>2, <2>3, RowsDistinct, Zenon
  <2> QED  BY <2>1, <2>2, <2>4, Zenon
<1> QED  BY <1>1, <1>6, <1>7, <1>8

\* The reconstructed offset of the own partition is the number of rows replayed.
LEMMA FedReconstruct ==
    ASSUME Base, Hypotheses, RecoveryInv, NEW w \in Worker, ReconstructFrontier(w)
    PROVE  RowsIn(log[w], Len(log[w])) = 1 .. offsets'[w][w]
<1>0. /\ TypeOK /\ ShapeInv /\ TimesInv /\ phase[w] = "rewound" /\ Framed(w) /\ Stops(w)
      /\ Ordered(log[w], w)
  BY Zenon DEF Base, RecoveryInv, ShapeInv, TimesInv, ReconstructFrontier
<1>1. Rewound(w) /\ ~ Up(w) /\ restored[w] = Len(log[w]) /\ synced[w] = Len(log[w])
  BY <1>0, Zenon DEF Framed, Up, Rewound
<1>a. log[w] \in Seq(Event) /\ Len(log[w]) \in Nat /\ threshold[w] \in Time
  BY <1>0 DEF TypeOK
<1>2. PICK l, T : l = log[w] /\ T = threshold[w] /\ l \in Seq(Event) /\ T \in Time
  BY <1>a, Zenon
<1>3. /\ offsets'[w][w] \in Nat
      /\ 1 .. offsets'[w][w] \subseteq RowsIn(l, Len(l))
  <2>1. offsets'[w] \in Offsets /\ 1 .. offsets'[w][w] \subseteq RowsIn(log[w], Kept(w))
    BY ReconstructBound
  <2>2. Kept(w) = Len(l)
    BY <1>1, <1>2 DEF Kept
  <2> QED  BY <1>2, <2>1, <2>2, ConstantsAssumption DEF Offsets
<1>4. /\ LastFrontier(l, T) \in Offsets /\ LastFrontier(l, T)[w] <= offsets'[w][w]
  <2>1. PICK n \in Nat : /\ n \in synced[w] .. Len(log[w])
                         /\ LastFrontier(SubSeq(log[w], 1, n), threshold[w]) \in Offsets
                         /\ LastFrontier(SubSeq(log[w], 1, n), threshold[w])[w] <= offsets'[w][w]
    BY ReconstructBound, Zenon
  <2>2. n = Len(l) /\ SubSeq(l, 1, n) = l
    BY <1>1, <1>2, <1>a, <2>1
  <2> QED  BY <1>2, <2>1, <2>2, Zenon
<1>5. CASE Len(l) = 0
  <2>1. RowsIn(l, Len(l)) = {}
    BY <1>2, <1>5, RowsInFacts, Zenon
  <2>2. 1 .. offsets'[w][w] = {}
    BY <1>3, <2>1
  <2> QED  BY <1>2, <2>1, <2>2, Zenon
<1>6. CASE Len(l) > 0
  <2>1. IsAdv(l[Len(l)])
    BY <1>0, <1>1, <1>2, <1>6, Zenon DEF Framed
  <2>2. ReadLength(l, T) = Len(l)
    <3>1. \A i \in 1 .. Len(l) - 1 : IsAdv(l[i]) => l[i].time < T
      BY <1>0, <1>1, <1>2, Zenon DEF Stops
    <3>2. \A k \in 0 .. Len(l) : (\A i \in 1 .. k - 1 : IsAdv(l[i]) => l[i].time < T)
                                    => k <= ReadLength(l, T)
      BY <1>2, PrefixRead
    <3>3. ReadLength(l, T) \in 0 .. Len(l) /\ Len(l) \in Nat
      BY <1>2, ReadLengthFacts
    <3>4. Len(l) <= ReadLength(l, T)
      BY <3>1, <3>2, <3>3
    <3> QED  BY <3>3, <3>4
  <2>3. Len(l) \in 1 .. ReadLength(l, T) /\ Len(l) \in Nat
    BY <1>2, <1>6, <2>2
  <2>4. LastFrontier(l, T) = l[Len(l)].frontier
    <3>1. PICK i \in 1 .. ReadLength(l, T) :
             /\ IsAdv(l[i]) /\ LastFrontier(l, T) = l[i].frontier
             /\ \A j \in 1 .. ReadLength(l, T) : IsAdv(l[j]) => j <= i
      BY <1>2, <2>1, <2>3, LastFrontierFacts, Zenon
    <3>2. i = Len(l)
      BY <2>1, <2>2, <2>3, <3>1
    <3> QED  BY <3>1, <3>2, Zenon
  <2>5. PICK n \in Nat : n = l[Len(l)].frontier[w]
    BY <1>4, <2>4, ConstantsAssumption DEF Offsets
  <2>6. RowsIn(l, Len(l) - 1) = 1 .. n
    BY <1>0, <1>2, <2>1, <2>2, <2>3, <2>5, Zenon DEF Ordered
  <2>7. RowsIn(l, Len(l)) = 1 .. n
    <3>1. PICK k \in Nat : k = Len(l) - 1
      BY <2>3
    <3>2. IsAdv(l[k + 1]) => RowsIn(l, k + 1) = RowsIn(l, k)
      BY <1>2, <3>1, RowsInFacts
    <3>3. k + 1 = Len(l)
      BY <2>3, <3>1
    <3> QED  BY <2>1, <2>6, <3>1, <3>2, <3>3, Zenon
  <2>8. offsets'[w][w] = n
    <3>1. n <= offsets'[w][w]
      BY <1>4, <2>4, <2>5, Zenon
    <3>2. offsets'[w][w] <= n
      <4>1. 1 .. offsets'[w][w] \subseteq 1 .. n
        BY <1>3, <2>7
      <4>2. CASE offsets'[w][w] = 0
        BY <4>2
      <4>3. CASE offsets'[w][w] > 0
        <5>1. offsets'[w][w] \in 1 .. offsets'[w][w]
          BY <4>3, <1>3
        <5> QED  BY <5>1, <4>1
      <4> QED  BY <4>2, <4>3, <1>3
    <3> QED  BY <3>1, <3>2, <1>3
  <2> QED  BY <1>2, <2>7, <2>8, Zenon
<1> QED  BY <1>2, <1>5, <1>6, <1>a

\* Every step keeps the session, the log and the own offset in step.
LEMMA FedNext ==
    ASSUME Base, TypeOK', Hypotheses, RecoveryInv, ShapeInv', [Next]_vars
    PROVE  FedInv'
<1>0. /\ TypeOK /\ OrderInv /\ ShapeInv /\ TimesInv /\ CoverInv /\ CrossInv /\ FedInv
  BY DEF Base, RecoveryInv
<1> SUFFICES ASSUME NEW w \in Worker
             PROVE  /\ Rewound(w)' => /\ {e.row : e \in fed'[w]} = RowsIn(log[w], Len(log[w]))'
                                      /\ \A d, e \in fed'[w] : d.row = e.row => d = e
                    /\ Seeked(w)' => RowsIn(log[w], Len(log[w]))' = 1 .. offsets'[w][w]
  BY Zenon DEF FedInv
<1>a. log[w] \in Seq(Event) /\ Len(log[w]) \in Nat
  BY <1>0 DEF TypeOK
<1>1. PICK l, m : l = log[w] /\ m = log'[w] /\ l \in Seq(Event) /\ Len(l) \in Nat
  BY <1>a, Zenon
<1>2. /\ Rewound(w) => /\ {e.row : e \in fed[w]} = RowsIn(l, Len(l))
                       /\ \A d, e \in fed[w] : d.row = e.row => d = e
      /\ Seeked(w) => RowsIn(l, Len(l)) = 1 .. offsets[w][w]
  BY <1>0, <1>1, Zenon DEF FedInv
<1> DEFINE Goal == /\ Rewound(w)' => /\ {e.row : e \in fed'[w]} = RowsIn(m, Len(m))
                                     /\ \A d, e \in fed'[w] : d.row = e.row => d = e
                   /\ Seeked(w)' => RowsIn(m, Len(m)) = 1 .. offsets'[w][w]
<1> SUFFICES Goal
  BY <1>1, Zenon
<1>3. CASE Still(w)
  <2>1. m = l /\ fed'[w] = fed[w] /\ (Rewound(w)' <=> Rewound(w))
    BY <1>0, <1>1, <1>3, StillFacts, Zenon DEF Still
  <2>2. CASE ReconstructFrontier(w)
    <3>1. RowsIn(l, Len(l)) = 1 .. offsets'[w][w]
      BY <1>1, <2>2, FedReconstruct, Zenon
    <3> QED  BY <1>2, <2>1, <3>1, Zenon
  <2>3. CASE Seeked(w)' => Seeked(w) /\ offsets'[w] = offsets[w]
    BY <1>2, <2>1, <2>3, Zenon
  <2> QED  BY <1>0, <1>3, <2>2, <2>3, StillFacts, Zenon
<1>4. CASE RewindFromSnapshot(w)
  <2>1. /\ {e.row : e \in fed'[w]} = RowsIn(log'[w], Len(log'[w]))
        /\ \A d, e \in fed'[w] : d.row = e.row => d = e
    BY <1>0, <1>4, FedRewind, Zenon
  <2>2. ~ Seeked(w)'
    BY <1>0, <1>4, Zenon DEF RewindFromSnapshot, Seeked, TypeOK
  <2> QED  BY <1>1, <2>1, <2>2, Zenon
<1>5. ASSUME NEW e \in Event, Logs(w, e)
      PROVE  Goal
  <2>1. m \in Seq(Event) /\ Len(m) = Len(l) + 1 /\ m[Len(l) + 1] = e
        /\ \A i \in 1 .. Len(l) : m[i] = l[i]
    BY <1>0, <1>1, <1>5, LogsKept, Zenon
  <2>2. Rewound(w) /\ Seeked(w)
    BY <1>5, Zenon DEF Logs, Rewound, Seeked
  <2>3. RowsIn(m, Len(l)) = RowsIn(l, Len(l))
    <3>1. Len(l) \in Nat
      BY <1>1
    <3> QED  BY <2>1, <3>1, RowsInAgree, Zenon
  <2>4. CASE IsAdv(e)
    <3>1. UNCHANGED <<offsets, fed>>
      BY <1>5, <2>4, Zenon DEF Logs, IsAdv, IsRow
    <3>a. IsAdv(m[Len(l) + 1])
      BY <2>1, <2>4, Zenon
    <3>2. RowsIn(m, Len(l) + 1) = RowsIn(m, Len(l))
      <4>1. \A n \in Nat : IsAdv(m[n + 1]) => RowsIn(m, n + 1) = RowsIn(m, n)
        BY <2>1, RowsInFacts
      <4> QED  BY <1>1, <3>a, <4>1, Zenon
    <3> QED  BY <1>2, <2>1, <2>2, <2>3, <3>1, <3>2, Zenon
  <2>5. CASE IsRow(e)
    <3>1. ReadRow(w) /\ e.row = offsets[w][w] + 1
      BY <1>5, <2>5, Zenon DEF Logs, IsAdv, IsRow
    <3>2. PICK k : k = offsets[w][w] + 1 /\ k = e.row
      BY <3>1
    <3>a. PICK x : x = [at |-> Len(log[w]) + 1, row |-> k, time |-> now[w]]
      BY Zenon
    <3>3. x = [at |-> Len(log[w]) + 1, row |-> k, time |-> now[w]] /\ x.row = k
      BY <3>a
    <3>4. /\ k \in 1 .. NumRows
          /\ fed'[w] = fed[w] \union {x}
          /\ offsets'[w][w] = k
      <4>1. /\ k \in 1 .. NumRows
            /\ fed' = [fed EXCEPT ![w] = fed[w] \union
                          {[at |-> Len(log[w]) + 1, row |-> k, time |-> now[w]]}]
            /\ offsets' = [offsets EXCEPT ![w] = [offsets[w] EXCEPT ![w] = k]]
        BY <1>0, <3>1, <3>2, ReadEffect, Zenon
      <4>2. fed'[w] = fed[w] \union {x}
        BY <1>0, <3>3, <4>1, Zenon DEF TypeOK
      <4>3. offsets'[w][w] = k
        BY <1>0, <4>1, Zenon DEF TypeOK
      <4> QED  BY <4>1, <4>2, <4>3, Zenon
    <3>5. RowsIn(l, Len(l)) = 1 .. k - 1
      <4>1. offsets[w][w] \in Nat
        BY <1>0, ConstantsAssumption DEF TypeOK
      <4>2. offsets[w][w] = k - 1
        BY <3>2, <4>1
      <4> QED  BY <1>2, <2>2, <4>2, Zenon
    <3>6. RowsIn(m, Len(m)) = (1 .. k - 1) \union {k}
      <4>1. RowsIn(m, Len(l) + 1) = RowsIn(m, Len(l)) \union {m[Len(l) + 1].row}
        <5>1. IsRow(m[Len(l) + 1])
          BY <2>1, <2>5, Zenon
        <5>2. \A n \in Nat : IsRow(m[n + 1]) => RowsIn(m, n + 1) = RowsIn(m, n) \union {m[n + 1].row}
          BY <2>1, RowsInFacts, Zenon
        <5>3. Len(l) \in Nat
          BY <1>1
        <5> QED  BY <5>1, <5>2, <5>3, Zenon
      <4> QED  BY <2>1, <2>3, <3>2, <3>5, <4>1, Zenon
    <3>7. (1 .. k - 1) \union {k} = 1 .. k
      BY <3>4
    <3>8. {d.row : d \in fed'[w]} = {d.row : d \in fed[w]} \union {k}
      BY <3>3, <3>4, Zenon
    <3>9. \A d \in fed[w] : d.row \in 1 .. k - 1
      BY <1>2, <2>2, <3>5, Zenon
    <3>10. \A c, d \in fed'[w] : c.row = d.row => c = d
      <4>1. \A d \in fed[w] : d.row # k
        BY <3>4, <3>9
      <4> QED  BY <1>2, <2>2, <3>3, <3>4, <4>1, Zenon
    <3> QED  BY <1>2, <2>2, <3>4, <3>5, <3>6, <3>7, <3>8, <3>10, Zenon
  <2> QED  BY <2>4, <2>5, EventFacts, Zenon DEF IsAdv, IsRow
<1>6. CASE FinishSource(w) /\ log' = log
  <2>1. phase[w] = "run" /\ UNCHANGED <<offsets, fed>>
    BY <1>6, Zenon DEF FinishSource
  <2>2. Rewound(w) /\ Seeked(w) /\ m = l
    BY <1>1, <1>6, <2>1, Zenon DEF Rewound, Seeked
  <2> QED  BY <1>2, <2>1, <2>2, Zenon
<1>7. CASE Crash \/ Exit
  BY <1>7, Zenon DEF Crash, Exit, FreshProcess, Rewound, Seeked
<1> QED
  <2> HIDE DEF Goal
  <2> QED  BY <1>0, StepEffects, <1>3, <1>4, <1>5, <1>6, <1>7, Zenon

-----------------------------------------------------------------------------
(* Recovery is exact.                                                      *)

\* The first start.
LEMMA RecoveryInit == Init => Base /\ RecoveryInv
<1> SUFFICES ASSUME Init
             PROVE  Base /\ RecoveryInv
  OBVIOUS
<1>1. TypeOK /\ OrderInv
  BY TypeInit, OrderInit, Zenon
<1>2. StartupInv
  BY Zenon DEF Init, StartupInv, ThresholdsAgree
<1>3. StoredInv
  BY ConstantsAssumption DEF Init, StoredInv, Stored, Nothing
<1>4. \A w \in Worker : /\ log[w] = << >> /\ Len(log[w]) = 0 /\ synced[w] = 0
                        /\ ~ Rewound(w) /\ ~ Up(w) /\ ~ Seeked(w) /\ meta[w] = Nothing
                        /\ pending[w] = Nothing /\ phase[w] = "down"
  BY DEF Init, Rewound, Up, Seeked
<1>5. MinThreshold(meta) = 0
  BY <1>1, <1>4, MinThresholdFacts, Zenon DEF TypeOK
<1>6. \A w \in Worker : Len(Truncated(log[w], MinThreshold(meta))) = 0
  BY <1>5 DEF Truncated
<1>7. ShapeInv
  <2>1. ASSUME NEW w \in Worker
        PROVE  Framed(w)
    <3>1. /\ log[w] = << >> /\ Len(log[w]) = 0 /\ synced[w] = 0 /\ phase[w] = "down"
          /\ ~ Rewound(w) /\ ~ Up(w) /\ Len(Truncated(log[w], MinThreshold(meta))) = 0
      BY <1>4, <1>6, Zenon
    <3>2. DOMAIN log[w] = {}
      <4>1. DOMAIN << >> = {} /\ log[w] = << >>
        BY <3>1
      <4> QED  BY <4>1, Zenon
    <3>3. /\ log[w] # << >> => IsAdv(log[w][1])
          /\ \A i \in DOMAIN log[w] : IsAdv(log[w][i])
      BY <3>1, <3>2, Zenon
    <3>4. LET n == Len(Truncated(log[w], MinThreshold(meta)))
          IN  n > 0 => IsAdv(log[w][n])
      <4>1. ~ (0 > 0)
        OBVIOUS
      <4> QED  BY <3>1, <4>1, Zenon
    <3> QED  BY <3>1, <3>3, <3>4, Zenon DEF Framed
  <2>2. \A w \in Worker : Ordered(log[w], w)
    <3>1. DOMAIN << >> = {} /\ Len(<< >>) = 0 /\ 1 .. 0 = {}
      OBVIOUS
    <3> QED  BY <1>4, <3>1, Zenon DEF Ordered
  <2> QED  BY <2>1, <2>2 DEF ShapeInv
<1>8. TimesInv
  <2>1. \A w \in Worker : TimesOf(w)
    <3>1. \A w \in Worker : Past(w) = 0
      BY <1>4, Zenon DEF Past
    <3>2. 1 .. 0 - 1 = {} /\ DOMAIN << >> = {}
      OBVIOUS
    <3> QED  BY <1>4, <3>1, <3>2, Zenon DEF TimesOf
  <2>2. \A w \in Worker : Stops(w)
    BY <1>4, Zenon DEF Stops
  <2> QED  BY <2>1, <2>2, Zenon DEF TimesInv
<1>9. CoverInv
  BY <1>4, TimeFacts, Zenon DEF CoverInv
<1>10. CrossInv
  <2>1. \A w \in Worker : Readable(w) = 0
    <3> TAKE w \in Worker
    <3>1. ReadLength(log[w], MinThreshold(meta)) \in 0 .. Len(log[w])
      BY <1>1, <1>5, ReadLengthFacts, TimeFacts, Zenon DEF TypeOK
    <3> QED  BY <1>4, <3>1 DEF Readable
  <2> QED  BY <1>4, <2>1, NumberFacts, Zenon DEF CrossInv
<1>11. FedInv
  BY <1>4, Zenon DEF FedInv
<1> QED  BY <1>1, <1>2, <1>3, <1>7, <1>8, <1>9, <1>10, <1>11, Zenon DEF Base, RecoveryInv

\* Every step keeps the invariant, provided that the program does not die in one of
\* the moments of Windows and that no flush fails unnoticed.
LEMMA RecoveryNext ==
    ASSUME Hypotheses
    PROVE  Base /\ RecoveryInv /\ [Next]_vars => Base' /\ RecoveryInv'
<1> SUFFICES ASSUME Base, RecoveryInv, [Next]_vars
             PROVE  Base' /\ RecoveryInv'
  OBVIOUS
<1>1. TypeOK' /\ OrderInv' /\ StartupInv' /\ StoredInv'
  BY TypeNext, OrderNext, StartupNext, StoredNext, Zenon DEF Base
<1>2. ShapeInv'
  BY ShapeNext
<1>3. TimesInv' /\ CoverInv' /\ CrossInv' /\ FedInv'
  BY <1>1, <1>2, TimesNext, CoverNext, CrossNext, FedNext, Zenon
<1> QED  BY <1>1, <1>2, <1>3 DEF Base, RecoveryInv

\* Recovery rebuilds the input exactly: once frontier_for has been computed and the
\* source seeked, the rows fed by rewind_from_disk_snapshot and those read since are
\* the rows 1 .. offset of the partition, each once.  For every number of workers,
\* sinks, rows, crashes and restarts, cancelled flushes and failed saves.
THEOREM InputRecovered ==
    ASSUME Windows = {}, "io_error" \notin FlushOutcomes
    PROVE  Spec => []InputExact
<1>0. Hypotheses
  BY DEF Hypotheses
<1>1. FedInv => InputExact
  BY Zenon DEF FedInv, InputExact, Rewound, Seeked
<1>2. RecoveryInv => FedInv
  BY DEF RecoveryInv
<1>3. Base /\ RecoveryInv /\ [Next]_vars => Base' /\ RecoveryInv'
  BY <1>0, RecoveryNext
<1> QED  BY <1>1, <1>2, <1>3, RecoveryInit, PTL DEF Spec

=============================================================================
