--------------------------- MODULE RecoveryTimes ----------------------------
(***************************************************************************)
(* Three parts of the inductive invariant of recovery: the logs keep their *)
(* shape, the times of earlier runs are below those of the present one, and*)
(* what a commit covers is on disk.                                        *)
(***************************************************************************)
EXTENDS PersistenceProofs

-----------------------------------------------------------------------------
(* The shape of the logs is kept.                                          *)

\* A log that does not change keeps its shape, whatever more of it is flushed.
LEMMA ShapeSame ==
    ASSUME TypeOK, ShapeInv, NEW u \in Worker,
           log'[u] = log[u], restored'[u] = restored[u], now'[u] = now[u],
           synced'[u] \in synced[u] .. Len(log[u]),
           Rewound(u)' <=> Rewound(u), Up(u)' <=> Up(u),
           phase'[u] = "run" <=> phase[u] = "run", phase'[u] = "ended" <=> phase[u] = "ended",
           meta' = meta \/ Rewound(u)
    PROVE  Ordered(log[u], u)' /\ Framed(u)'
<1>0. /\ synced[u] \in Nat /\ Len(log[u]) \in Nat /\ restored[u] \in Nat
      /\ synced[u] <= Len(log[u])
  BY LogType
<1>1. Ordered(log[u], u)'
  BY DEF ShapeInv, Ordered
<1>2. Framed(u)
  BY DEF ShapeInv
<1>3. /\ (log[u] # << >> => IsAdv(log[u][1]))'
      /\ (u \notin Reader => \A i \in DOMAIN log[u] : IsAdv(log[u][i]))'
  BY <1>2 DEF Framed
<1>4. (Rewound(u) => /\ restored[u] \in 0 .. synced[u]
                     /\ restored[u] > 0 => IsAdv(log[u][restored[u]]))'
  BY <1>0, <1>2 DEF Framed
<1>5. ASSUME ~ Rewound(u)'
      PROVE  LET n == Len(Truncated(log[u], MinThreshold(meta))) IN n > 0 => IsAdv(log[u][n])'
  <2>1. meta' = meta /\ ~ Rewound(u)
    BY <1>5
  <2>2. MinThreshold(meta)' = MinThreshold(meta)
    BY <2>1 DEF MinThreshold
  <2> QED  BY <1>2, <2>1, <2>2 DEF Framed
<1>6. /\ (Rewound(u) /\ ~ Up(u) => restored[u] = Len(log[u]))'
      /\ (Up(u) => restored[u] < Len(log[u]) /\ IsAdv(log[u][restored[u] + 1]))'
      /\ (~ Up(u) => synced[u] = Len(log[u]))'
  BY <1>0, <1>2 DEF Framed
<1>7. /\ (phase[u] = "run" => \E i \in restored[u] + 1 .. Len(log[u]) :
                                 IsAdv(log[u][i]) /\ log[u][i].time = now[u])'
      /\ (phase[u] = "ended" => IsAdv(log[u][Len(log[u])]))'
  BY <1>2 DEF Framed
<1> QED  BY <1>1, <1>3, <1>4, <1>5, <1>6, <1>7 DEF Framed

\* A log to which a running connector appends keeps its shape.
LEMMA ShapeGrows ==
    ASSUME TypeOK, ShapeInv, FedInv, NEW w \in Worker, phase[w] \in {"seeked", "run"},
           NEW e \in Event, log'[w] = Append(log[w], e),
           restored'[w] = restored[w], synced'[w] = synced[w],
           phase'[w] \in {"run", "ended"},
           IsRow(e) => /\ phase[w] = "run" /\ phase'[w] = "run" /\ w \in Reader
                       /\ e.row = offsets[w][w] + 1 /\ now'[w] = now[w],
           IsAdv(e) => e.frontier = offsets[w] /\ (phase'[w] = "run" => e.time = now'[w])
    PROVE  Ordered(log[w], w)' /\ Framed(w)'
<1> DEFINE l == log[w]
           m == log'[w]
<1>0. /\ synced[w] \in Nat /\ l \in Seq(Event) /\ Len(l) \in Nat /\ restored[w] \in Nat
      /\ synced[w] <= Len(l) /\ offsets[w][w] \in Nat
  <2>1. l \in Seq(Event) /\ restored[w] \in Nat /\ synced[w] \in Nat /\ synced[w] <= Len(l)
    BY LogType
  <2>2. offsets \in [Worker -> [Worker -> 0 .. NumRows]]
    BY OffsetsType
  <2>3. offsets[w][w] \in 0 .. NumRows
    BY <2>2, Zenon
  <2> QED  BY <2>1, <2>3, ConstantsAssumption
<1>1. /\ Len(m) = Len(l) + 1 /\ m[Len(l) + 1] = e
      /\ \A i \in 1 .. Len(l) : m[i] = l[i]
      /\ m # << >> /\ DOMAIN m = 1 .. Len(l) + 1
  <2>1. m = Append(l, e) /\ l \in Seq(Event)
    BY <1>0
  <2> HIDE DEF m, l
  <2> QED  BY <2>1, AppendFacts
<1>2. IsRow(e) \/ IsAdv(e)
  BY EventFacts DEF IsRow, IsAdv
<1>3. Framed(w) /\ Rewound(w) /\ Seeked(w) /\ Rewound(w)' /\ Up(w)'
  BY DEF ShapeInv, Rewound, Seeked, Up
<1>4. Ordered(m, w)
  <2>1. RowsIn(l, Len(l)) = 1 .. offsets[w][w]
    BY <1>3 DEF FedInv
  <2>2. Ordered(l, w)
    BY DEF ShapeInv
  <2>3. IsRow(e) => RowsIn(l, Len(l)) = 1 .. e.row - 1
    <3>1. IsRow(e) => e.row = offsets[w][w] + 1
      OBVIOUS
    <3>2. IsRow(e) => e.row - 1 = offsets[w][w]
      BY <3>1, <1>0, NumberFacts, Zenon
    <3> QED  BY <2>1, <3>2, Zenon
  <2>4. IsAdv(e) => RowsIn(l, Len(l)) = 1 .. e.frontier[w]
    BY <2>1
  <2> QED  BY <2>2, <2>3, <2>4, <1>0, OrderedAppend, Zenon
<1>5. phase[w] = "run" => restored[w] < Len(l) /\ IsAdv(l[restored[w] + 1])
  BY <1>3 DEF Framed, Up
<1>6. phase[w] = "seeked" => restored[w] = Len(l) /\ IsAdv(e)
  BY <1>2, <1>3 DEF Framed, Up
<1>7. IsAdv(m[1])
  <2>1. CASE phase[w] = "run"
    <3>1. Len(l) > 0
      BY <2>1, <1>0, <1>5
    <3>2. l # << >> /\ 1 \in 1 .. Len(l)
      BY <3>1, <1>0
    <3> QED  BY <3>2, <1>1, <1>3, Zenon DEF Framed
  <2>2. CASE phase[w] = "seeked" /\ l = << >>
    BY <2>2, <1>1, <1>6
  <2>3. CASE l # << >>
    <3>1. 1 \in 1 .. Len(l)
      BY <2>3, <1>0, FirstEntry, Zenon
    <3> QED  BY <3>1, <2>3, <1>1, <1>3 DEF Framed
  <2> QED  BY <2>1, <2>2, <2>3
<1>8. w \notin Reader => \A i \in DOMAIN m : IsAdv(m[i])
  <2> SUFFICES ASSUME w \notin Reader, NEW i \in 1 .. Len(l) + 1
               PROVE  IsAdv(m[i])
    BY <1>1
  <2>1. CASE i = Len(l) + 1
    BY <2>1, <1>1, <1>2, Zenon
  <2>2. CASE i \in 1 .. Len(l)
    <3>1. i \in DOMAIN l
      BY <2>2, <1>0
    <3> QED  BY <3>1, <2>2, <1>1, <1>3 DEF Framed
  <2>3. i = Len(l) + 1 \/ i \in 1 .. Len(l)
    <3>1. PICK n \in Nat : n = Len(l)
      BY <1>0, Zenon
    <3> QED  BY <3>1
  <2> QED  BY <2>1, <2>2, <2>3, Zenon
<1>9. /\ restored[w] \in 0 .. synced[w]
      /\ restored[w] > 0 => IsAdv(m[restored[w]])
  <2>1. restored[w] \in 0 .. synced[w] /\ (restored[w] > 0 => IsAdv(l[restored[w]]))
    BY <1>3 DEF Framed
  <2>2. restored[w] > 0 => restored[w] \in 1 .. Len(l)
    BY <2>1, <1>0
  <2> QED  BY <2>1, <2>2, <1>1, Zenon
<1>10. restored[w] < Len(m) /\ IsAdv(m[restored[w] + 1])
  <2>1. CASE phase[w] = "run"
    <3>1. restored[w] + 1 \in 1 .. Len(l)
      BY <2>1, <1>0, <1>5
    <3> QED  BY <3>1, <2>1, <1>0, <1>1, <1>5
  <2>2. CASE phase[w] = "seeked"
    BY <2>2, <1>0, <1>1, <1>6
  <2> QED  BY <2>1, <2>2, Zenon
<1>11. phase'[w] = "run" => \E i \in restored[w] + 1 .. Len(m) : IsAdv(m[i]) /\ m[i].time = now'[w]
  <2>1. CASE IsAdv(e)
    <3>1. Len(m) \in restored[w] + 1 .. Len(m)
      BY <1>0, <1>1, <1>10
    <3> QED  BY <2>1, <3>1, <1>1
  <2>2. CASE IsRow(e)
    <3>1. PICK i \in restored[w] + 1 .. Len(l) : IsAdv(l[i]) /\ l[i].time = now[w]
      BY <2>2, <1>3 DEF Framed
    <3>2. i \in 1 .. Len(l) /\ i \in restored[w] + 1 .. Len(m)
      BY <3>1, <1>0, <1>1
    <3> QED  BY <3>1, <3>2, <2>2, <1>1, Zenon
  <2> QED  BY <2>1, <2>2, <1>2, Zenon
<1>12. phase'[w] = "ended" => IsAdv(m[Len(m)])
  BY <1>1, <1>2
<1> QED  BY <1>3, <1>4, <1>7, <1>8, <1>9, <1>10, <1>11, <1>12, Zenon DEF Framed

\* Every step keeps the shape of the logs.
LEMMA ShapeNext ==
    ASSUME Base, Hypotheses, RecoveryInv, [Next]_vars
    PROVE  ShapeInv'
<1>0. /\ TypeOK /\ OrderInv /\ StartupInv /\ ShapeInv /\ TimesInv /\ CoverInv /\ FedInv
  BY DEF Base, RecoveryInv
<1>a. \A u \in Worker : log[u] \in Seq(Event) /\ Len(log[u]) \in Nat
  BY <1>0 DEF TypeOK
<1>b. /\ log \in [Worker -> Seq(Event)] /\ synced \in [Worker -> Nat]
      /\ restored \in [Worker -> Nat] /\ now \in [Worker -> 0 .. MaxTime]
      /\ DOMAIN phase = Worker
  BY <1>0 DEF TypeOK
<1>1. ASSUME NEW u \in Worker, Still(u), meta' = meta \/ Rewound(u)
      PROVE  Ordered(log[u], u)' /\ Framed(u)'
  <2>1. /\ Rewound(u)' <=> Rewound(u)
        /\ Up(u)' <=> Up(u)
        /\ phase'[u] = "run" <=> phase[u] = "run"
        /\ phase'[u] = "ended" <=> phase[u] = "ended"
    BY <1>0, <1>1, StillFacts, Zenon
  <2>2. /\ log'[u] = log[u] /\ restored'[u] = restored[u] /\ now'[u] = now[u]
        /\ synced'[u] \in synced[u] .. Len(log[u])
    BY <1>1 DEF Still
  <2> QED  BY <1>0, <1>1, <2>1, <2>2, ShapeSame, Zenon
<1>2. CASE (\A u \in Worker : Still(u)) /\ UNCHANGED <<meta, clock>>
  BY <1>1, <1>2 DEF ShapeInv
<1>3. ASSUME NEW w \in Worker, SaveMetadata(w), \A u \in Worker : Still(u)
      PROVE  ShapeInv'
  <2>1. pending[w] # Nothing
    BY <1>3 DEF SaveMetadata
  <2>2. \A u \in Worker : Rewound(u)
    BY <1>0, <2>1, CommitNeedsAll DEF Up, Rewound
  <2> QED  BY <1>1, <1>3, <2>2 DEF ShapeInv
<1>4. ASSUME NEW w \in Worker, RewindFromSnapshot(w), \A u \in Worker : u # w => Still(u)
      PROVE  ShapeInv'
  <2> DEFINE T == threshold[w]
             m == Truncated(log[w], T)
  <2>1. /\ phase[w] = "opened" /\ phase'[w] = "rewound" /\ meta' = meta
        /\ log'[w] = m /\ synced'[w] = Len(m) /\ restored'[w] = Len(m)
    BY <1>4, <1>b DEF RewindFromSnapshot
  <2>2. T = MinThreshold(meta) /\ T \in Time
    BY <2>1, <1>0, Zenon DEF StartupInv, Up, TypeOK
  <2>3. /\ m \in Seq(Event) /\ Len(m) <= Len(log[w]) /\ Len(m) \in Nat
        /\ \A i \in 1 .. Len(m) : m[i] = log[w][i]
    BY <2>2, <1>a, TruncatedFacts
  <2>4. Framed(w) /\ Ordered(log[w], w) /\ ~ Rewound(w) /\ ~ Up(w)' /\ Rewound(w)'
    BY <2>1, <1>0, Zenon DEF ShapeInv, Rewound, Up
  <2>5. Len(m) > 0 => IsAdv(log[w][Len(m)])
    BY <2>2, <2>4, Zenon DEF Framed
  <2> HIDE DEF m
  <2>6. Ordered(m, w)
    BY <2>3, <2>4, <1>a, OrderedPrefix, Zenon
  <2>7. Len(m) > 0 => IsAdv(m[Len(m)])
    BY <2>3, <2>5
  <2>8. m # << >> => IsAdv(m[1])
    <3>1. m # << >> => 1 \in 1 .. Len(m) /\ log[w] # << >>
      BY <2>3, <1>a
    <3> QED  BY <3>1, <2>3, <2>4 DEF Framed
  <2>9. w \notin Reader => \A i \in DOMAIN m : IsAdv(m[i])
    <3>1. \A i \in DOMAIN m : i \in DOMAIN log[w] /\ m[i] = log[w][i]
      BY <2>3, <1>a
    <3> QED  BY <3>1, <2>4 DEF Framed
  <2>10. Framed(w)'
    <3>1. (Rewound(w) => /\ restored[w] \in 0 .. synced[w]
                         /\ restored[w] > 0 => IsAdv(log[w][restored[w]]))'
      BY <2>1, <2>3, <2>7
    <3>2. (Rewound(w) /\ ~ Up(w) => restored[w] = Len(log[w]))' /\ (~ Up(w) => synced[w] = Len(log[w]))'
      BY <2>1, Zenon
    <3>3. phase'[w] # "run" /\ phase'[w] # "ended"
      BY <2>1
    <3> QED  BY <2>1, <2>4, <2>8, <2>9, <3>1, <3>2, <3>3, Zenon DEF Framed
  <2>11. Ordered(log[w], w)'
    BY <2>1, <2>6
  <2> QED  BY <1>1, <1>4, <2>1, <2>10, <2>11, Zenon DEF ShapeInv
<1>5. ASSUME NEW w \in Worker, NEW e \in Event, Logs(w, e), \A u \in Worker : u # w => Still(u)
      PROVE  ShapeInv'
  <2>1. /\ meta' = meta /\ log'[w] = Append(log[w], e) /\ restored'[w] = restored[w]
        /\ synced'[w] = synced[w]
        /\ phase[w] \in {"seeked", "run"} /\ phase'[w] \in {"run", "ended"}
    BY <1>5, <1>b DEF Logs
  <2>2. IsRow(e) => /\ phase[w] = "run" /\ phase'[w] = "run" /\ w \in Reader
                    /\ e.row = offsets[w][w] + 1 /\ now'[w] = now[w]
    BY <1>5 DEF Logs, IsRow, IsAdv
  <2>3. IsAdv(e) => e.frontier = offsets[w] /\ (phase'[w] = "run" => e.time = now'[w])
    BY <1>5, <1>b DEF Logs, IsRow, IsAdv
  <2>4. Ordered(log[w], w)' /\ Framed(w)'
    BY <1>0, <2>1, <2>2, <2>3, ShapeGrows, Zenon
  <2> QED  BY <1>1, <1>5, <2>1, <2>4, Zenon DEF ShapeInv
<1>6. ASSUME NEW w \in Worker, FinishSource(w), w \notin Reader, log' = log,
             \A u \in Worker : u # w => Still(u)
      PROVE  ShapeInv'
  <2>1. /\ phase[w] = "run" /\ phase'[w] = "ended"
        /\ UNCHANGED <<synced, meta, restored>>
    BY <1>6, <1>b DEF FinishSource
  <2>2. Framed(w) /\ Ordered(log[w], w) /\ Rewound(w) /\ Up(w) /\ Rewound(w)' /\ Up(w)'
    BY <2>1, <1>0 DEF ShapeInv, Rewound, Up
  <2>3. restored[w] < Len(log[w]) /\ Len(log[w]) \in DOMAIN log[w]
    <3>1. restored[w] < Len(log[w])
      BY <2>2, Zenon DEF Framed
    <3>2. restored[w] \in Nat /\ log[w] \in Seq(Event)
      BY <1>a, <1>b, Zenon
    <3> QED  BY <3>1, <3>2
  <2>4. IsAdv(log[w][Len(log[w])])
    BY <2>2, <2>3, <1>6, Zenon DEF Framed
  <2>5. Framed(w)'
    BY <2>1, <2>2, <2>4, <1>6 DEF Framed
  <2>6. Ordered(log[w], w)'
    BY <2>2, <1>6
  <2> QED  BY <1>1, <1>6, <2>1, <2>5, <2>6, Zenon DEF ShapeInv
<1>7. CASE Crash \/ Exit
  <2>1. PICK kept \in [Worker -> Nat] :
           /\ \A w \in Worker : kept[w] \in synced[w] .. Len(log[w])
           /\ \/ ~ CommitWindow /\ ~ StaleDone
              \/ \A w \in Worker : phase[w] = "ended" /\ kept[w] = Len(log[w])
           /\ log' = [w \in Worker |-> SubSeq(log[w], 1, kept[w])] /\ synced' = kept
           /\ FreshProcess /\ UNCHANGED <<meta, delivered, available, twice>>
           /\ phase' = [w \in Worker |-> "down"]
    BY <1>0, <1>7, RestartEffect
  <2> SUFFICES ASSUME NEW w \in Worker
               PROVE  Ordered(log[w], w)' /\ Framed(w)'
    BY DEF ShapeInv
  <2>2. PICK n \in Nat : n = kept[w] /\ n \in synced[w] .. Len(log[w])
    BY <2>1, Zenon
  <2>3. PICK m : m = SubSeq(log[w], 1, n) /\ log'[w] = m /\ synced'[w] = n
    BY <2>1, <2>2, Zenon
  <2>4. m \in Seq(Event) /\ Len(m) = n /\ n <= Len(log[w]) /\ \A i \in 1 .. n : m[i] = log[w][i]
    <3>1. PICK l \in Seq(Event) : l = log[w]
      BY <1>a, Zenon
    <3>2. synced[w] \in Nat
      BY <1>b, Zenon
    <3>3. n <= Len(l)
      BY <2>2, <3>1, <3>2
    <3> QED  BY <2>3, <3>1, <3>3
  <2>5. PICK T : T = MinThreshold(meta)
    OBVIOUS
  <2>6. PICK r : r = Len(Truncated(m, T))
    BY Zenon
  <2>7. r > 0 => IsAdv(m[r])
    BY <1>0, <2>1, <2>2, <2>3, <2>5, <2>6, RestartFacts, Zenon
  <2>8. ~ Rewound(w)' /\ ~ Up(w)' /\ phase'[w] = "down" /\ MinThreshold(meta)' = T
    BY <2>1, <2>5 DEF Rewound, Up, MinThreshold
  <2>9. Framed(w) /\ Ordered(log[w], w)
    BY <1>0 DEF ShapeInv
  <2>10. Ordered(m, w)
    BY <2>4, <2>9, <1>a, OrderedPrefix, Zenon
  <2>11. m # << >> => IsAdv(m[1])
    <3>1. m # << >> => 1 \in 1 .. n /\ log[w] # << >>
      BY <2>4, <1>a
    <3> QED  BY <3>1, <2>4, <2>9 DEF Framed
  <2>12. w \notin Reader => \A i \in DOMAIN m : IsAdv(m[i])
    <3>1. \A i \in DOMAIN m : i \in DOMAIN log[w] /\ m[i] = log[w][i]
      BY <2>4, <1>a
    <3> QED  BY <3>1, <2>9 DEF Framed
  <2>13. Framed(w)'
    BY <2>3, <2>4, <2>6, <2>7, <2>8, <2>11, <2>12, Zenon DEF Framed
  <2> QED  BY <2>3, <2>10, <2>13, Zenon
<1> QED  BY <1>0, StepEffects, <1>2, <1>3, <1>4, <1>5, <1>6, <1>7, Zenon

-----------------------------------------------------------------------------
(* The times of the logs are kept apart.                                   *)

\* A new process starts after everything that the clock has shown.
LEMMA FreshPast ==
    ASSUME TypeOK, FreshProcess, NEW t \in Nat, t <= clock
    PROVE  PastTime(t)'
<1>1. clock' = clock + 1 /\ clock \in Nat
  BY DEF FreshProcess, TypeOK
<1>2. \A u \in Worker : SessionTime(u)' = 0 /\ pending'[u] = Nothing
  BY DEF FreshProcess, SessionTime
<1>3. \A u \in Worker, s \in Sink : sinkTime'[u][s] = 0
  BY DEF FreshProcess
<1> QED  BY <1>1, <1>2, <1>3 DEF PastTime

\* A time of the past remains one.
LEMMA PastTimeKept ==
    ASSUME TypeOK, TypeOK', OrderInv, OrderInv', [Next]_vars, NEW t \in Nat, PastTime(t)
    PROVE  PastTime(t)'
<1>0. /\ clock \in Nat /\ clock' \in Nat
      /\ \A u \in Worker : SessionTime(u) \in Nat /\ SessionTime(u)' \in Nat
      /\ \A u \in Worker, s \in Sink : sinkTime[u][s] \in Nat /\ sinkTime'[u][s] \in Nat
      /\ sinkTime \in [Worker -> [Sink -> Time]] /\ sinkTime' \in [Worker -> [Sink -> Time]]
      /\ pending \in [Worker -> Time \union {Nothing}]
      /\ \A u \in Worker : last[u] \in Nat /\ pending[u] \in Time \union {Nothing}
  <2>1. \A u \in Worker : SessionTime(u) \in Nat /\ SessionTime(u)' \in Nat
    BY SessionType, TimeFacts, Zenon
  <2>2. /\ clock \in Nat /\ clock' \in Nat
        /\ sinkTime \in [Worker -> [Sink -> Time]] /\ sinkTime' \in [Worker -> [Sink -> Time]]
        /\ pending \in [Worker -> Time \union {Nothing}] /\ last \in [Worker -> Time]
    BY DEF TypeOK
  <2>3. Time \subseteq Nat
    BY TimeFacts
  <2> QED  BY <2>1, <2>2, <2>3, Zenon
<1>1. /\ t < clock
      /\ \A u \in Worker : SessionTime(u) = 0 \/ t < SessionTime(u)
      /\ \A u \in Worker, s \in Sink : sinkTime[u][s] = 0 \/ t < sinkTime[u][s]
      /\ \A u \in Worker : pending[u] = Nothing \/ t < pending[u]
  BY DEF PastTime
<1>2. ASSUME NEW w \in Worker, InputStep(w), UNCHANGED output
      PROVE  PastTime(t)'
  <2>1. /\ clock <= clock'
        /\ \A u \in Worker : SessionTime(u)' = SessionTime(u) \/ clock <= SessionTime(u)'
    BY <1>2, SessionAdvances
  <2>2. t < clock'
    BY <2>1, <1>0, <1>1
  <2>3. \A u \in Worker : SessionTime(u)' = 0 \/ t < SessionTime(u)'
    BY <2>1, <1>0, <1>1
  <2>4. UNCHANGED <<sinkTime, pending>>
    BY <1>2 DEF output
  <2> QED  BY <1>1, <2>2, <2>3, <2>4 DEF PastTime
<1>3. ASSUME UNCHANGED <<input, clock>>
      PROVE  (\A u \in Worker : SessionTime(u)' = SessionTime(u)) /\ t < clock'
  BY <1>1, <1>3 DEF SessionTime, input
<1>4. ASSUME UNCHANGED <<input, clock, sinkTime>>,
             \A u \in Worker : pending'[u] = pending[u] \/ pending'[u] = Nothing
      PROVE  PastTime(t)'
  <2>1. \A u \in Worker : pending'[u] = Nothing \/ t < pending'[u]
    BY <1>1, <1>4, Zenon
  <2>2. \A u \in Worker : SessionTime(u)' = 0 \/ t < SessionTime(u)'
    BY <1>1, <1>3, <1>4, Zenon
  <2> QED  BY <1>1, <1>3, <1>4, <2>1, <2>2, Zenon DEF PastTime
<1>5. ASSUME NEW w \in Worker, NEW s \in Sink, CommitSink(w, s)
      PROVE  PastTime(t)'
  <2>1. /\ UNCHANGED <<input, clock, last>> /\ Frontier > sinkTime[w][s]
        /\ sinkTime' = [sinkTime EXCEPT ![w][s] = Frontier]
    BY <1>5, Zenon DEF CommitSink
  <2>2. Frontier \in Nat /\ t < Frontier
    <3>1. PICK v \in Worker : Frontier = SessionTime(v)
      BY FrontierFacts
    <3> QED  BY <3>1, <2>1, <1>0, <1>1
  <2>3. \A u \in Worker, r \in Sink : sinkTime'[u][r] = sinkTime[u][r] \/ sinkTime'[u][r] = Frontier
    BY <2>1, <1>0
  <2>4. \A u \in Worker, r \in Sink : sinkTime'[u][r] = 0 \/ t < sinkTime'[u][r]
    BY <2>2, <2>3, <1>1
  <2>5. PICK f : f = Finalized(sinkTime'[w])
    OBVIOUS
  <2>6. f > last[w] => t < f
    <3>1. sinkTime'[w] \in [Sink -> Time]
      BY <1>0
    <3>2. \E r \in Sink : f = sinkTime'[w][r]
      BY <3>1, <2>5, FinalizedFacts
    <3> QED  BY <3>2, <2>4, <1>0
  <2>7. \/ pending' = pending
        \/ f > last[w] /\ \/ pending' = [pending EXCEPT ![w] = f]
                          \/ pending' = [pending EXCEPT ![w] = Nothing]
        \/ pending' = [pending EXCEPT ![w] = last[w]]
    BY <1>5, <2>5, Zenon DEF CommitSink
  <2>8. ~ (pending' = [pending EXCEPT ![w] = last[w]])
    <3> SUFFICES ASSUME pending' = [pending EXCEPT ![w] = last[w]]
                 PROVE  FALSE
      OBVIOUS
    <3>1. pending'[w] = last[w] /\ last'[w] = last[w] /\ last[w] \in Nat
      BY <2>1, <1>0
    <3>2. pending'[w] # Nothing
      BY <3>1 DEF Nothing
    <3>3. last'[w] < pending'[w]
      BY <3>2 DEF OrderInv
    <3> QED  BY <3>1, <3>3
  <2>9. \A u \in Worker : pending'[u] = Nothing \/ t < pending'[u]
    BY <2>6, <2>7, <2>8, <1>0, <1>1, Zenon
  <2>10. \A u \in Worker : SessionTime(u)' = 0 \/ t < SessionTime(u)'
    BY <1>1, <1>3, <2>1, Zenon
  <2> QED  BY <1>3, <2>1, <2>4, <2>9, <2>10, Zenon DEF PastTime
<1>6. ASSUME NEW w \in Worker, SaveMetadata(w)
      PROVE  PastTime(t)'
  <2>1. UNCHANGED <<input, clock, sinkTime>> /\ pending' = [pending EXCEPT ![w] = Nothing]
    BY <1>6 DEF SaveMetadata
  <2> QED  BY <1>4, <2>1, <1>0
<1>7. ASSUME FreshProcess
      PROVE  PastTime(t)'
  BY <1>0, <1>1, <1>7, FreshPast
<1>8. ASSUME NEW w \in Worker, NEW s \in Sink, OutputBatches(w, s)
      PROVE  PastTime(t)'
  BY <1>4, <1>8 DEF OutputBatches
<1>9. ASSUME NEW s \in Delayed, FlushSink(s)
      PROVE  PastTime(t)'
  BY <1>4, <1>9 DEF FlushSink
<1>10. CASE UNCHANGED vars
  BY <1>4, <1>10 DEF vars, durable, output
<1> QED  BY StepKinds, <1>2, <1>5, <1>6, <1>7, <1>8, <1>9, <1>10, Zenon

\* A log holds times, below the end of time.
LEMMA LogTimes ==
    ASSUME NEW l \in Seq(Event), NEW i \in 1 .. Len(l), IsAdv(l[i])
    PROVE  l[i].time \in Nat /\ l[i].time \in 1 .. Done /\ l[i].frontier \in Offsets
<1>1. l[i] \in Event
  OBVIOUS
<1> QED  BY <1>1, EventFacts, TimeFacts DEF IsAdv

\* Every step keeps the times of earlier runs in the past, and all below the clock.
LEMMA TimesOfNext ==
    ASSUME Base, TypeOK', OrderInv', Hypotheses, RecoveryInv, [Next]_vars, NEW w \in Worker
    PROVE  TimesOf(w)'
<1>0. /\ TypeOK /\ OrderInv /\ ShapeInv /\ TimesOf(w)
      /\ Framed(w)
  BY Zenon DEF Base, RecoveryInv, TimesInv, TimesOf, ShapeInv
<1>a. /\ log[w] \in Seq(Event) /\ Len(log[w]) \in Nat /\ restored[w] \in Nat
      /\ clock \in Nat /\ clock' \in Nat /\ now[w] \in Nat /\ now[w] <= clock
      /\ synced[w] \in Nat /\ synced[w] <= Len(log[w])
  BY <1>0 DEF TypeOK, OrderInv
<1>b. \A i \in 1 .. Len(log[w]) : IsAdv(log[w][i]) => log[w][i].time \in Nat
  BY <1>a, LogTimes, Zenon
<1>c. /\ Past(w) \in Nat /\ Past(w) <= Len(log[w])
  <2>1. Rewound(w) => restored[w] \in 0 .. synced[w]
    BY <1>0, Zenon DEF Framed
  <2>2. PICK r \in Nat, s \in Nat, n \in Nat : r = restored[w] /\ s = synced[w] /\ n = Len(log[w]) /\ s <= n
    BY <1>a, Zenon
  <2>3. n <= n /\ (r \in 0 .. s => r <= n)
    BY <2>2
  <2> QED  BY <2>1, <2>2, <2>3, Zenon DEF Past
<1>d. \A i \in 1 .. Past(w) - 1 : IsAdv(log[w][i]) =>
         \A t \in Nat : t = log[w][i].time => PastTime(t)'
  <2> SUFFICES ASSUME NEW i \in 1 .. Past(w) - 1, IsAdv(log[w][i]),
                      NEW t \in Nat, t = log[w][i].time
               PROVE  PastTime(t)'
    BY Zenon
  <2>1. PastTime(t)
    BY <1>0, Zenon DEF TimesOf
  <2> QED  BY <1>0, <2>1, PastTimeKept, Zenon
<1>1. ASSUME NEW u \in Worker, u = w, Still(u), clock <= clock'
      PROVE  TimesOf(w)'
  <2>1. /\ log'[w] = log[w] /\ Past(w)' = Past(w)
        /\ Up(w)' <=> Up(w)
        /\ phase'[w] = "run" <=> phase[w] = "run"
    BY <1>0, <1>1, StillFacts, Zenon DEF Past, Still
  <2>2. \A i \in 1 .. Past(w) - 1 : IsAdv(log'[w][i]) => PastTime(log[w][i].time)'
    <3>1. PICK r \in Nat, n \in Nat : r = Past(w) /\ n = Len(log[w]) /\ r <= n
      BY <1>a, <1>c, Zenon
    <3>2. \A i \in 1 .. r - 1 : i \in 1 .. n
      BY <3>1
    <3> QED  BY <1>b, <1>d, <2>1, <3>1, <3>2, Zenon
  <2>4. DOMAIN log[w] = 1 .. Len(log[w])
    BY <1>a
  <2>3. \A i \in 1 .. Len(log[w]) : IsAdv(log[w][i]) =>
          log[w][i].time <= IF Up(w) /\ (i < Len(log[w]) \/ phase[w] = "run")
                            THEN clock' ELSE IF Up(w) THEN clock' + 1 ELSE clock'
    <3> SUFFICES ASSUME NEW i \in 1 .. Len(log[w]), IsAdv(log[w][i])
                 PROVE  log[w][i].time <= IF Up(w) /\ (i < Len(log[w]) \/ phase[w] = "run")
                                          THEN clock' ELSE IF Up(w) THEN clock' + 1 ELSE clock'
      BY Zenon
    <3>1. PICK t \in Nat, k \in Nat, n \in Nat : t = log[w][i].time /\ k = clock /\ n = clock' /\ k <= n
      BY <1>1, <1>a, <1>b, Zenon
    <3>2. (t <= k => t <= n) /\ (t <= k + 1 => t <= n + 1)
      BY <3>1
    <3>3. t <= IF Up(w) /\ (i < Len(log[w]) \/ phase[w] = "run")
               THEN k ELSE IF Up(w) THEN k + 1 ELSE k
      BY <1>0, <2>4, <3>1, Zenon DEF TimesOf
    <3>4. t <= IF Up(w) /\ (i < Len(log[w]) \/ phase[w] = "run")
               THEN n ELSE IF Up(w) THEN n + 1 ELSE n
      BY <3>2, <3>3, Zenon
    <3> QED  BY <3>1, <3>4, Zenon
  <2> QED  BY <2>1, <2>2, <2>3, <2>4, Zenon DEF TimesOf
<1>2. ASSUME RewindFromSnapshot(w)
      PROVE  TimesOf(w)'
  <2>1. PICK m : m = Truncated(log[w], threshold[w])
    BY Zenon
  <2>2. /\ phase[w] = "opened" /\ phase'[w] = "rewound" /\ clock' = clock
        /\ log'[w] = m /\ restored'[w] = Len(m)
    BY <1>0, <1>2, <2>1, Zenon DEF RewindFromSnapshot, TypeOK
  <2>3. /\ m \in Seq(Event) /\ Len(m) <= Len(log[w]) /\ Len(m) \in Nat
        /\ \A i \in 1 .. Len(m) : m[i] = log[w][i]
    <3>1. threshold[w] \in Time
      BY <1>0, Zenon DEF TypeOK
    <3>2. /\ Truncated(log[w], threshold[w]) \in Seq(Event)
          /\ Len(Truncated(log[w], threshold[w])) <= Len(log[w])
          /\ \A i \in 1 .. Len(Truncated(log[w], threshold[w])) :
                Truncated(log[w], threshold[w])[i] = log[w][i]
      BY <3>1, <1>a, TruncatedFacts, Zenon
    <3> QED  BY <2>1, <3>2
  <2>4. ~ Up(w) /\ ~ Up(w)' /\ Past(w)' = Len(m) /\ Past(w) = Len(log[w])
    BY <2>2, Zenon DEF Up, Past, Rewound
  <2>5. \A i \in 1 .. Len(m) - 1 : IsAdv(m[i]) => \A t \in Nat : t = m[i].time => PastTime(t)'
    <3>1. PICK r \in Nat, n \in Nat : r = Len(m) /\ n = Len(log[w]) /\ r <= n
      BY <1>a, <2>3, Zenon
    <3>2. \A i \in 1 .. r - 1 : i \in 1 .. r /\ i \in 1 .. n - 1
      BY <3>1
    <3> QED  BY <1>d, <2>3, <2>4, <3>1, <3>2, Zenon
  <2>6. \A i \in 1 .. Len(m) : IsAdv(m[i]) => m[i].time \in Nat /\ m[i].time <= clock
    <3>1. PICK r \in Nat, n \in Nat : r = Len(m) /\ n = Len(log[w]) /\ r <= n
      BY <1>a, <2>3, Zenon
    <3>2. (\A i \in 1 .. r : i \in 1 .. n) /\ \A i \in 1 .. r - 1 : i \in 1 .. r
      BY <3>1
    <3>3. DOMAIN log[w] = 1 .. Len(log[w])
      BY <1>a
    <3> QED  BY <1>0, <1>b, <2>3, <2>4, <3>1, <3>2, <3>3, Zenon DEF TimesOf
  <2>7. \A i \in 1 .. Len(m) - 1 : IsAdv(m[i]) => PastTime(log[w][i].time)'
    <3>1. PICK r \in Nat : r = Len(m)
      BY <2>3, Zenon
    <3>2. \A i \in 1 .. r - 1 : i \in 1 .. r
      BY <3>1
    <3> QED  BY <2>2, <2>3, <2>5, <2>6, <3>1, <3>2, Zenon
  <2>8. DOMAIN m = 1 .. Len(m)
    BY <2>3
  <2> QED  BY <2>2, <2>4, <2>6, <2>7, <2>8, Zenon DEF TimesOf
<1>3. ASSUME NEW e \in Event, Logs(w, e)
      PROVE  TimesOf(w)'
  <2>1. PICK m : m = Append(log[w], e)
    BY Zenon
  <2>2. /\ log'[w] = m /\ restored'[w] = restored[w] /\ clock <= clock'
        /\ phase[w] \in {"seeked", "run"} /\ phase'[w] \in {"run", "ended"}
        /\ IsAdv(e) => \/ phase'[w] = "run" /\ e.time = clock'
                       \/ phase'[w] = "ended" /\ e.time = now[w] + 1
    <3>1. log'[w] = m /\ restored'[w] = restored[w]
      BY <1>0, <1>3, <2>1, Zenon DEF Logs, TypeOK
    <3>2. clock <= clock'
      BY <1>3, <1>a, NumberFacts, Zenon DEF Logs
    <3>3. phase[w] \in {"seeked", "run"} /\ phase'[w] \in {"run", "ended"}
      BY <1>3 DEF Logs
    <3>4. IsAdv(e) => \/ phase'[w] = "run" /\ e.time = clock'
                      \/ phase'[w] = "ended" /\ e.time = now[w] + 1
      BY <1>3, Zenon DEF Logs, IsAdv, IsRow
    <3> QED  BY <3>1, <3>2, <3>3, <3>4, Zenon
  <2>3. /\ m \in Seq(Event) /\ Len(m) = Len(log[w]) + 1 /\ m[Len(m)] = e
        /\ \A i \in 1 .. Len(log[w]) : m[i] = log[w][i]
    BY <2>1, <1>a
  <2>4. /\ Past(w) = restored[w] /\ Past(w)' = restored[w] /\ Up(w)'
        /\ phase[w] # "ended"
    BY <2>2, Zenon DEF Past, Rewound, Up
  <2>5. \A i \in 1 .. restored[w] - 1 : i \in 1 .. Len(log[w]) /\ m[i] = log[w][i]
    <3>1. PICK r \in Nat, n \in Nat : r = restored[w] /\ n = Len(log[w]) /\ r <= n
      BY <1>a, <1>c, <2>4, Zenon
    <3>2. \A i \in 1 .. r - 1 : i \in 1 .. n
      BY <3>1
    <3> QED  BY <2>3, <3>1, <3>2, Zenon
  <2>6. \A i \in 1 .. restored[w] - 1 : IsAdv(m[i]) => PastTime(log[w][i].time)'
    BY <1>b, <1>d, <2>2, <2>4, <2>5, Zenon
  <2>7. \A i \in 1 .. Len(log[w]) : IsAdv(log[w][i]) => log[w][i].time <= clock
    <3>1. DOMAIN log[w] = 1 .. Len(log[w])
      BY <1>a
    <3>2. phase[w] = "run" \/ ~ Up(w)
      BY <2>2, Zenon DEF Up
    <3> QED  BY <1>0, <3>1, <3>2, Zenon DEF TimesOf
  <2>8. ASSUME NEW i \in 1 .. Len(m), IsAdv(m[i])
        PROVE  m[i].time <= IF i < Len(m) \/ phase'[w] = "run" THEN clock' ELSE clock' + 1
    <3>1. CASE i = Len(m)
      <4>1. IsAdv(e) /\ m[i] = e
        BY <2>3, <2>8, <3>1, Zenon
      <4>2. \/ phase'[w] = "run" /\ e.time = clock'
            \/ phase'[w] = "ended" /\ e.time = now[w] + 1
        BY <2>2, <4>1, Zenon
      <4> QED  BY <2>2, <3>1, <4>1, <4>2, <1>a
    <3>2. CASE i \in 1 .. Len(log[w])
      <4>1. m[i].time \in Nat /\ m[i].time <= clock
        BY <2>3, <2>7, <2>8, <3>2, <1>b, Zenon
      <4> QED  BY <4>1, <2>2, <1>a
    <3> QED  BY <2>3, <3>1, <3>2, <1>a
  <2>9. DOMAIN m = 1 .. Len(m)
    BY <2>3
  <2> QED  BY <2>2, <2>4, <2>6, <2>8, <2>9, Zenon DEF TimesOf
<1>4. ASSUME FinishSource(w), log' = log
      PROVE  TimesOf(w)'
  <2>1. phase[w] = "run" /\ phase'[w] = "ended" /\ UNCHANGED <<restored, clock>>
    BY <1>0, <1>4, Zenon DEF FinishSource, TypeOK
  <2>2. Past(w)' = Past(w) /\ Up(w)' /\ Up(w)
    BY <1>4, <2>1, Zenon DEF Past, Rewound, Up
  <2>3. \A i \in 1 .. Past(w) - 1 : IsAdv(log'[w][i]) => PastTime(log[w][i].time)'
    <3>1. PICK r \in Nat, n \in Nat : r = Past(w) /\ n = Len(log[w]) /\ r <= n
      BY <1>a, <1>c, Zenon
    <3>2. \A i \in 1 .. r - 1 : i \in 1 .. n
      BY <3>1
    <3> QED  BY <1>b, <1>d, <1>4, <3>1, <3>2, Zenon
  <2>6. DOMAIN log[w] = 1 .. Len(log[w])
    BY <1>a
  <2>4. \A i \in 1 .. Len(log[w]) : IsAdv(log[w][i]) => log[w][i].time <= clock
    BY <1>0, <2>1, <2>2, <2>6, Zenon DEF TimesOf
  <2>5. \A i \in 1 .. Len(log[w]) : IsAdv(log[w][i]) =>
          log[w][i].time <= IF i < Len(log[w]) THEN clock ELSE clock + 1
    BY <1>a, <1>b, <2>4
  <2> QED  BY <1>4, <2>1, <2>2, <2>3, <2>5, <2>6, Zenon DEF TimesOf
<1>5. ASSUME Crash \/ Exit
      PROVE  TimesOf(w)'
  <2>1. PICK kept \in [Worker -> Nat] :
           /\ \A u \in Worker : kept[u] \in synced[u] .. Len(log[u])
           /\ log' = [u \in Worker |-> SubSeq(log[u], 1, kept[u])]
           /\ FreshProcess
           /\ phase' = [u \in Worker |-> "down"]
    BY <1>0, <1>5, RestartEffect, Zenon
  <2>2. PICK n \in Nat : n = kept[w] /\ n <= Len(log[w])
    BY <2>1, <1>a
  <2>3. PICK m : m = SubSeq(log[w], 1, n) /\ log'[w] = m
    BY <2>1, <2>2, Zenon
  <2>4. m \in Seq(Event) /\ Len(m) = n /\ \A i \in 1 .. n : m[i] = log[w][i]
    BY <2>2, <2>3, <1>a
  <2>5. ~ Up(w)' /\ Past(w)' = n /\ clock' = clock + 1
    BY <2>1, <2>3, <2>4, Zenon DEF Up, Past, Rewound, FreshProcess
  <2>a. ASSUME NEW i \in 1 .. Len(log[w]), IsAdv(log[w][i])
        PROVE  /\ log[w][i].time \in Nat /\ log[w][i].time <= clock + 1
               /\ i < Len(log[w]) => log[w][i].time <= clock
    <3>1. PICK t : t = log[w][i].time
      BY Zenon
    <3>2. t \in Nat /\ clock \in Nat
      BY <1>a, <1>b, <2>a, <3>1, Zenon
    <3>3. t <= (IF Up(w) /\ (i < Len(log[w]) \/ phase[w] = "run") THEN clock ELSE IF Up(w) THEN clock + 1 ELSE clock)
      <4>1. i \in DOMAIN log[w]
        BY <1>a, <2>a
      <4> QED  BY <1>0, <2>a, <3>1, <4>1, Zenon DEF TimesOf
    <3> QED  BY <3>1, <3>2, <3>3
  <2>6. ASSUME NEW i \in 1 .. n, IsAdv(m[i])
        PROVE  m[i].time \in Nat /\ m[i].time <= clock + 1
    <3>1. i \in 1 .. Len(log[w]) /\ m[i] = log[w][i]
      BY <1>a, <2>2, <2>4
    <3> QED  BY <2>6, <2>a, <3>1, Zenon
  <2>7. ASSUME NEW i \in 1 .. n - 1, IsAdv(m[i])
        PROVE  m[i].time \in Nat /\ m[i].time <= clock
    <3>1. i \in 1 .. Len(log[w]) /\ i < Len(log[w]) /\ m[i] = log[w][i]
      BY <1>a, <2>2, <2>4
    <3> QED  BY <2>7, <2>a, <3>1, Zenon
  <2>8. \A i \in 1 .. n - 1 : IsAdv(m[i]) => PastTime(log[w][i].time)'
    <3> SUFFICES ASSUME NEW i \in 1 .. n - 1, IsAdv(m[i])
                 PROVE  PastTime(log[w][i].time)'
      OBVIOUS
    <3>1. PICK t \in Nat : t = m[i].time /\ t <= clock
      BY <2>7, Zenon
    <3>2. PastTime(t)'
      BY <1>0, <2>1, <3>1, FreshPast
    <3> QED  BY <2>3, <3>1, <3>2, Zenon
  <2>9. DOMAIN m = 1 .. n
    BY <2>4
  <2> QED  BY <2>3, <2>5, <2>6, <2>8, <2>9, Zenon DEF TimesOf
<1> QED
  <2>3. clock' = clock => clock <= clock'
    BY <1>a, NumberFacts, Zenon
  <2>1. ASSUME NEW v \in Worker, v # w, NEW e, Logs(v, e)
        PROVE  clock <= clock'
    BY <2>1, <2>3, Zenon DEF Logs
  <2>2. ASSUME NEW v \in Worker, RewindFromSnapshot(v) \/ FinishSource(v)
        PROVE  clock <= clock'
    BY <2>2, <2>3, Zenon DEF RewindFromSnapshot, FinishSource
  <2> QED  BY <1>0, StepEffects, <1>1, <1>2, <1>3, <1>4, <1>5, <2>1, <2>2, <2>3, Zenon

\* Every step keeps what is known of where the reading for the threshold stopped.
LEMMA StopsNext ==
    ASSUME Base, Hypotheses, RecoveryInv, [Next]_vars, NEW w \in Worker
    PROVE  Stops(w)'
<1>0. /\ TypeOK /\ OrderInv /\ StartupInv /\ StoredInv /\ ShapeInv /\ TimesOf(w) /\ Stops(w)
      /\ Framed(w)
  BY Zenon DEF Base, RecoveryInv, TimesInv, ShapeInv
<1>a. /\ log[w] \in Seq(Event) /\ Len(log[w]) \in Nat /\ restored[w] \in Nat
      /\ clock \in Nat /\ meta \in [Worker -> Time \union {Nothing}]
      /\ pending \in [Worker -> Time \union {Nothing}]
      /\ synced[w] \in Nat /\ synced[w] <= Len(log[w])
  BY <1>0 DEF TypeOK
<1>c. Rewound(w) => restored[w] \in 0 .. Len(log[w])
  <2>1. Rewound(w) => restored[w] \in 0 .. synced[w]
    BY <1>0, Zenon DEF Framed
  <2> QED  BY <2>1, <1>a
<1>1. ASSUME NEW u \in Worker, u = w, Still(u), meta' = meta
      PROVE  Stops(w)'
  <2>1. /\ log'[w] = log[w] /\ restored'[w] = restored[w]
        /\ Up(w)' <=> Up(w)
        /\ Rewound(w)' <=> Rewound(w)
        /\ Rewound(w) => threshold'[w] = threshold[w]
    BY <1>0, <1>1, StillFacts, Zenon DEF Still
  <2> QED  BY <1>0, <1>1, <2>1, Zenon DEF Stops
<1>2. ASSUME NEW v \in Worker, SaveMetadata(v), \A u \in Worker : Still(u)
      PROVE  Stops(w)'
  <2>1. /\ pending[v] # Nothing
        /\ meta' = meta \/ meta' = [meta EXCEPT ![v] = pending[v]]
    BY <1>2, <1>a, Zenon DEF SaveMetadata
  <2>2. CASE meta' = meta
    BY <1>1, <1>2, <2>2
  <2>3. CASE meta' = [meta EXCEPT ![v] = pending[v]]
    <3>1. /\ log'[w] = log[w] /\ restored'[w] = restored[w]
          /\ Up(w)' <=> Up(w)
          /\ Rewound(w)' <=> Rewound(w)
          /\ Rewound(w) => threshold'[w] = threshold[w]
      BY <1>0, <1>2, StillFacts, Zenon DEF Still
    <3>2. meta'[v] = pending[v] /\ \A u \in Worker : u # v => meta'[u] = meta[u]
      BY <2>3, <1>a, Zenon
    <3>3. ASSUME Rewound(w), NEW i \in 1 .. restored[w] - 1, IsAdv(log[w][i]), NEW u \in Worker
          PROVE  meta'[u] = Nothing \/ log[w][i].time < meta'[u]
      <4>1. PastTime(log[w][i].time)
        BY <1>0, <3>3, Zenon DEF TimesOf, Past
      <4>2. log[w][i].time < pending[v]
        BY <4>1, <2>1, Zenon DEF PastTime
      <4>3. meta[u] = Nothing \/ log[w][i].time < meta[u]
        BY <1>0, <3>3, Zenon DEF Stops
      <4> QED  BY <4>2, <4>3, <3>2, Zenon
    <3>4. ~ \A u \in Worker : meta'[u] = Nothing
      BY <2>1, <3>2, Zenon
    <3> QED  BY <1>0, <3>1, <3>3, <3>4, Zenon DEF Stops
  <2> QED  BY <2>1, <2>2, <2>3
<1>3. ASSUME RewindFromSnapshot(w)
      PROVE  Stops(w)'
  <2>1. PICK T : T = threshold[w]
    OBVIOUS
  <2>2. PICK m : m = Truncated(log[w], T)
    BY Zenon
  <2>3. /\ phase[w] = "opened" /\ phase'[w] = "rewound" /\ UNCHANGED <<meta, threshold>>
        /\ log'[w] = m /\ restored'[w] = Len(m)
    BY <1>0, <1>3, <2>1, <2>2, LogType, PhaseType, Zenon DEF RewindFromSnapshot
  <2>4. T = MinThreshold(meta)
    BY <2>1, <2>3, <1>0, Zenon DEF StartupInv, Up
  <2>5. /\ T \in Time /\ T \in Nat
        /\ (\A u \in Worker : meta[u] = Nothing) => T = 0
        /\ \A u \in Worker : meta[u] # Nothing => T <= meta[u] /\ meta[u] \in Nat
    BY <2>4, <1>a, MinThresholdFacts, TimeFacts, Zenon
  <2>6. (T = 0 => Len(m) = 0) /\ (T # 0 => Len(m) = ReadLength(log[w], T))
    BY <2>2, <2>5, <1>a, TruncatedLength, Zenon
  <2>7. /\ Len(m) <= Len(log[w]) /\ Len(m) \in Nat
        /\ \A i \in 1 .. Len(m) : m[i] = log[w][i]
    <3>1. /\ Truncated(log[w], T) \in Seq(Event)
          /\ Len(Truncated(log[w], T)) <= Len(log[w])
          /\ \A i \in 1 .. Len(Truncated(log[w], T)) : Truncated(log[w], T)[i] = log[w][i]
      BY <2>5, <1>a, TruncatedFacts, Zenon
    <3> QED  BY <2>2, <3>1
  <2>8. ASSUME NEW i \in 1 .. Len(m) - 1, IsAdv(m[i])
        PROVE  m[i].time \in Nat /\ m[i].time < T
    <3>1. T # 0 /\ i < ReadLength(log[w], T) /\ i \in 1 .. Len(log[w]) /\ m[i] = log[w][i]
      BY <2>5, <2>6, <2>7
    <3>2. i \notin Closing(log[w], T)
      <4>1. /\ ReadLength(log[w], T) \in 0 .. Len(log[w])
            /\ Closing(log[w], T) # {} => \A j \in Closing(log[w], T) : ReadLength(log[w], T) <= j
        BY <2>5, <1>a, ReadLengthFacts, Zenon
      <4> QED  BY <3>1, <4>1
    <3>3. m[i].time \in Nat
      BY <3>1, <2>8, <1>a, LogTimes, Zenon
    <3> QED  BY <3>1, <3>2, <3>3, <2>5, <2>8, <1>a DEF Closing, IsAdv
  <2>9. \A i \in 1 .. Len(m) - 1 : IsAdv(m[i]) =>
           \A u \in Worker : meta[u] = Nothing \/ m[i].time < meta[u]
    BY <2>5, <2>8
  <2>10. ~ Up(w)'
    BY <2>3 DEF Up
  <2> QED  BY <2>1, <2>3, <2>5, <2>6, <2>8, <2>9, <2>10, Zenon DEF Stops
<1>4. ASSUME NEW e \in Event, Logs(w, e)
      PROVE  Stops(w)'
  <2>1. PICK m : m = Append(log[w], e)
    BY Zenon
  <2>2. /\ log'[w] = m /\ restored'[w] = restored[w] /\ UNCHANGED <<meta, threshold>>
        /\ phase[w] \in {"seeked", "run"}
        /\ phase[w] = "seeked" => clock <= e.time
    <3>1. log'[w] = m /\ restored'[w] = restored[w] /\ UNCHANGED <<meta, threshold>>
      BY <1>0, <1>4, <2>1, Zenon DEF Logs, TypeOK
    <3>2. phase[w] \in {"seeked", "run"} /\ (phase[w] = "seeked" => clock <= e.time)
      BY <1>4, Zenon DEF Logs
    <3> QED  BY <3>1, <3>2, Zenon
  <2>3. /\ Len(m) = Len(log[w]) + 1 /\ m[Len(log[w]) + 1] = e
        /\ \A i \in 1 .. Len(log[w]) : m[i] = log[w][i]
    BY <2>1, <1>a
  <2>4. Rewound(w)
    BY <2>2, Zenon DEF Rewound
  <2>5. \A i \in 1 .. restored[w] - 1 : m[i] = log[w][i]
    BY <1>a, <1>c, <2>3, <2>4
  <2>6. threshold[w] = Done \/ threshold[w] <= m[restored[w] + 1].time
    <3>1. CASE phase[w] = "run"
      <4>1. Up(w) /\ restored[w] + 1 \in 1 .. Len(log[w])
        BY <3>1, <1>0, <1>a DEF Framed, Up
      <4>2. m[restored[w] + 1] = log[w][restored[w] + 1]
        BY <4>1, <2>3, Zenon
      <4> QED  BY <4>1, <4>2, <2>4, <1>0, Zenon DEF Stops
    <3>2. CASE phase[w] = "seeked"
      <4>1. restored[w] = Len(log[w])
        BY <3>2, <2>4, <1>0, Zenon DEF Framed, Up
      <4>2. threshold[w] = MinThreshold(meta)
        BY <3>2, <1>0, Zenon DEF StartupInv, Up
      <4>3. threshold[w] = 0 \/ \E u \in Worker : meta[u] # Nothing /\ threshold[w] = meta[u]
        <5>1. /\ MinThreshold(meta) \in Time
              /\ (\A u \in Worker : meta[u] = Nothing) => MinThreshold(meta) = 0
              /\ (\E u \in Worker : meta[u] # Nothing) => \E u \in Worker : MinThreshold(meta) = meta[u]
          BY <1>a, MinThresholdFacts, Zenon
        <5> QED  BY <4>2, <5>1, TimeFacts, Zenon
      <4>4. threshold[w] \in Nat /\ (threshold[w] = Done \/ threshold[w] <= clock)
        <5>1. threshold[w] \in Nat
          BY <1>0, TimeFacts, Zenon DEF TypeOK
        <5> QED  BY <4>3, <5>1, <1>0, <1>a DEF StoredInv, Stored
      <4>5. e.time \in Nat
        BY <1>4, <3>2, EventFacts, TimeFacts DEF Logs, IsAdv
      <4> QED  BY <4>1, <4>4, <4>5, <3>2, <2>2, <2>3, <1>a
    <3> QED  BY <2>2, <3>1, <3>2, Zenon
  <2> QED  BY <1>0, <2>2, <2>4, <2>5, <2>6, Zenon DEF Stops
<1>5. ASSUME FinishSource(w), log' = log
      PROVE  Stops(w)'
  <2>1. phase[w] = "run" /\ UNCHANGED <<restored, meta, threshold>>
    BY <1>5 DEF FinishSource
  <2>2. Rewound(w) /\ Up(w)
    BY <2>1 DEF Rewound, Up
  <2> QED  BY <1>0, <1>5, <2>1, <2>2, Zenon DEF Stops
<1>6. ASSUME Crash \/ Exit
      PROVE  Stops(w)'
  BY <1>6, Zenon DEF Crash, Exit, FreshProcess, Stops, Rewound
<1> QED
  <2>1. ASSUME NEW v \in Worker, v # w, \/ \E e : Logs(v, e)
                                        \/ RewindFromSnapshot(v)
                                        \/ FinishSource(v)
        PROVE  meta' = meta
    BY <2>1 DEF Logs, RewindFromSnapshot, FinishSource
  <2> QED  BY <1>0, StepEffects, <1>1, <1>2, <1>3, <1>4, <1>5, <1>6, <2>1, Zenon

\* Every step keeps the times of the runs apart.
LEMMA TimesNext ==
    ASSUME Base, TypeOK', OrderInv', Hypotheses, RecoveryInv, [Next]_vars
    PROVE  TimesInv'
BY TimesOfNext, StopsNext DEF TimesInv

-----------------------------------------------------------------------------
(* What a commit covers stays on disk.                                     *)

\* Nothing that a commit covers leaves the log of a running worker.
LEMMA CoversKept ==
    ASSUME TypeOK, TypeOK', NEW w \in Worker, NEW t, Covers(w, t),
           \/ Still(w)
           \/ \E e \in Event : Logs(w, e)
           \/ FinishSource(w) /\ log' = log
    PROVE  Covers(w, t)'
<1>0. /\ log[w] \in Seq(Event) /\ Len(log[w]) \in Nat /\ synced[w] \in Nat
      /\ synced'[w] \in Nat /\ synced[w] <= Len(log[w]) /\ log \in [Worker -> Seq(Event)]
      /\ DOMAIN phase = Worker
  <2>1. synced' \in [Worker -> Nat]
    BY Zenon DEF TypeOK
  <2> QED  BY <2>1, LogType, PhaseType
<1>1. CASE Still(w)
  <2>1. /\ log'[w] = log[w] /\ synced'[w] \in synced[w] .. Len(log[w])
        /\ phase'[w] = "ended" <=> phase[w] = "ended"
    BY <1>1, StillFacts, Zenon DEF Still
  <2>2. synced[w] <= synced'[w] /\ (synced[w] = Len(log[w]) => synced'[w] = Len(log[w]))
    <3>1. synced[w] \in Nat /\ Len(log[w]) \in Nat /\ synced'[w] \in synced[w] .. Len(log[w])
      BY <2>1, <1>0, Zenon
    <3> QED  BY <3>1
  <2>3. \A p \in 1 .. synced[w] : p \in 1 .. synced'[w]
    BY <1>0, <2>2
  <2> QED  BY <2>1, <2>2, <2>3 DEF Covers
<1>2. ASSUME NEW e \in Event, Logs(w, e)
      PROVE  Covers(w, t)'
  <2>1. log'[w] = Append(log[w], e) /\ synced'[w] = synced[w] /\ phase[w] # "ended"
    BY <1>0, <1>2, Zenon DEF Logs
  <2>2. \A p \in 1 .. synced[w] : log'[w][p] = log[w][p]
    BY <1>0, <2>1
  <2> QED  BY <2>1, <2>2, Zenon DEF Covers
<1>3. CASE FinishSource(w) /\ log' = log
  BY <1>3, Zenon DEF Covers, FinishSource
<1> QED  BY <1>1, <1>2, <1>3

\* The facts about one worker's commits survive a step that changes neither its
\* metadata nor its commit, as long as what is covered and the old block remain.
LEMMA CoverSame ==
    ASSUME CoverInv, NEW u \in Worker, meta'[u] = meta[u], last'[u] = last[u],
           pending'[u] = pending[u],
           \A s \in Sink : meta[u] <= sinkTime[u][s] => meta[u] <= sinkTime'[u][s],
           \A t : Covers(u, t) => Covers(u, t)',
           (meta[u] = Done /\ last[u] # Done) \/ (OldBlock(u) => OldBlock(u)')
    PROVE  /\ meta'[u] # 0
           /\ pending'[u] # Nothing => Covers(u, pending[u])'
           /\ \/ meta'[u] = Nothing
              \/ meta'[u] = Done /\ last'[u] # Done
              \/ Covers(u, meta[u])' /\ \A s \in Sink : meta'[u] <= sinkTime'[u][s]
              \/ OldBlock(u)'
<1>1. PICK p, m : p = pending[u] /\ m = meta[u]
  BY Zenon
<1>2. pending[u] # Nothing => Covers(u, p)
  BY <1>1, Zenon DEF CoverInv
<1>3. pending'[u] # Nothing => Covers(u, pending[u])'
  <2>1. pending[u] # Nothing => Covers(u, p)'
    BY <1>2, Zenon
  <2> QED  BY <2>1, <1>1, Zenon
<1>4. Covers(u, m) => Covers(u, meta[u])'
  <2>1. Covers(u, m) => Covers(u, m)'
    BY Zenon
  <2> QED  BY <2>1, <1>1, Zenon
<1>5. /\ meta[u] # 0
      /\ \/ meta[u] = Nothing
         \/ meta[u] = Done /\ last[u] # Done
         \/ Covers(u, m) /\ \A s \in Sink : meta[u] <= sinkTime[u][s]
         \/ OldBlock(u)
  BY <1>1 DEF CoverInv
<1> QED  BY <1>3, <1>4, <1>5, Zenon

\* A prepared commit is covered: the flush has succeeded, and the connector has
\* logged an AdvanceTime that is not below the commit, or has ended.
LEMMA CommitCovers ==
    ASSUME Base, TypeOK', OrderInv', Hypotheses, ShapeInv, NEW w \in Worker, NEW s \in Sink,
           CommitSink(w, s), pending'[w] # Nothing
    PROVE  Covers(w, pending[w])'
<1>0. TypeOK /\ OrderInv /\ Framed(w)
  BY DEF Base, ShapeInv
<1>a. /\ log[w] \in Seq(Event) /\ Len(log[w]) \in Nat /\ restored[w] \in Nat
      /\ synced \in [Worker -> Nat] /\ pending \in [Worker -> Time \union {Nothing}]
      /\ sinkTime' \in [Worker -> [Sink -> Time]] /\ sinkTime \in [Worker -> [Sink -> Time]]
      /\ last[w] \in Nat
  <2>1. last[w] \in Nat
    BY <1>0, TimeFacts, Zenon DEF TypeOK
  <2>2. sinkTime' \in [Worker -> [Sink -> Time]]
    BY Zenon DEF TypeOK
  <2> QED  BY <1>0, <2>1, <2>2, LogType, CommitType, SinkTimeType
<1>1. PICK t : t = Finalized(sinkTime'[w])
  OBVIOUS
<1>2. /\ pending[w] = Nothing /\ UNCHANGED <<log, input, last>>
      /\ Frontier > sinkTime[w][s] /\ sinkTime' = [sinkTime EXCEPT ![w][s] = Frontier]
      /\ \/ UNCHANGED <<synced, pending>>
         \/ /\ t > last[w]
            /\ \E outcome \in FlushOutcomes :
                 /\ synced' = [synced EXCEPT ![w] = SyncedByFlush(w, outcome)]
                 /\ pending' = [pending EXCEPT ![w] = IF outcome = "cancelled" THEN Nothing ELSE t]
         \/ pending' = [pending EXCEPT ![w] = last[w]]
  BY <1>1, Zenon DEF CommitSink
<1>3. ~ (pending' = [pending EXCEPT ![w] = last[w]])
  <2> SUFFICES ASSUME pending' = [pending EXCEPT ![w] = last[w]]
               PROVE  FALSE
    BY Zenon
  <2>1. pending'[w] = last[w] /\ last'[w] = last[w]
    BY <1>2, <1>a, Zenon
  <2>2. pending'[w] # Nothing /\ last'[w] < pending'[w]
    BY Zenon DEF OrderInv
  <2> QED  BY <2>1, <2>2, <1>a
<1>4. t > last[w] /\ synced'[w] = Len(log[w]) /\ pending'[w] = t
  <2>1. pending' # pending
    BY <1>2
  <2>2. PICK outcome \in FlushOutcomes :
           /\ t > last[w]
           /\ synced' = [synced EXCEPT ![w] = SyncedByFlush(w, outcome)]
           /\ pending' = [pending EXCEPT ![w] = IF outcome = "cancelled" THEN Nothing ELSE t]
    BY <1>2, <1>3, <2>1, Zenon
  <2>3. pending'[w] = IF outcome = "cancelled" THEN Nothing ELSE t
    BY <2>2, <1>a
  <2>4. outcome = "ok"
    BY <2>3, ConstantsAssumption, Zenon DEF Hypotheses
  <2> QED  BY <2>2, <2>3, <2>4, <1>a, Zenon DEF SyncedByFlush
<1>5. t \in Nat /\ t > 0 /\ t <= SessionTime(w)
  <2>1. sinkTime'[w] \in [Sink -> Time]
    BY <1>a
  <2>2. t \in Time /\ t <= sinkTime'[w][s]
    BY <2>1, <1>1, FinalizedFacts, Zenon
  <2>3. sinkTime'[w][s] = Frontier
    BY <1>2, <1>a
  <2>4. Frontier <= SessionTime(w) /\ Frontier \in Nat /\ SessionTime(w) \in Nat
    BY <1>0, FrontierFacts, TimeFacts, Zenon
  <2>5. t \in Nat
    BY <2>2, TimeFacts
  <2> QED  BY <2>2, <2>3, <2>4, <2>5, <1>4, <1>a
<1>6. CASE phase[w] = "ended"
  BY <1>2, <1>4, <1>6, Zenon DEF Covers, input
<1>7. CASE phase[w] = "run"
  <2>1. PICK i \in restored[w] + 1 .. Len(log[w]) : IsAdv(log[w][i]) /\ log[w][i].time = now[w]
    BY <1>0, <1>7 DEF Framed
  <2>2. i \in 1 .. synced'[w] /\ t <= log[w][i].time /\ now[w] \in Nat
    BY <2>1, <1>0, <1>4, <1>5, <1>7, <1>a, NowType DEF SessionTime
  <2> QED  BY <2>1, <2>2, <1>2, <1>4, <1>5, Zenon DEF Covers
<1> QED  BY <1>5, <1>6, <1>7 DEF SessionTime

\* The old block of u stays below what is logged.
LEMMA OldBlockLogs ==
    ASSUME Base, ShapeInv, NEW u \in Worker, NEW w \in Worker, NEW e \in Event, Logs(w, e),
           \A v \in Worker : v # w => Still(v),
           meta[u] # Nothing, ~ (meta[u] = Done /\ last[u] # Done), OldBlock(u)
    PROVE  OldBlock(u)'
<1>0. TypeOK /\ OrderInv /\ StoredInv /\ Framed(w)
  BY Zenon DEF Base, ShapeInv
<1>a. /\ log \in [Worker -> Seq(Event)] /\ restored \in [Worker -> Nat]
      /\ Len(log[w]) \in Nat /\ clock \in Nat /\ now[w] \in 0 .. MaxTime
      /\ meta[u] \in Time
  BY <1>0, LogType, NowType, CommitType
<1>1. /\ meta' = meta /\ restored' = restored /\ log' = [log EXCEPT ![w] = Append(log[w], e)]
      /\ phase[w] \in {"seeked", "run"} /\ phase'[w] \in {"run", "ended"}
  BY <1>0, <1>a, Zenon DEF Logs
<1>2. meta[u] # Done /\ meta[u] \in Nat /\ meta[u] <= clock
  <2>1. PICK s \in Sink : TRUE
    BY NonEmpty, Zenon
  <2>2. SessionTime(w) < Done /\ SessionTime(w) \in Nat
    BY <1>1, <1>a, TimeFacts DEF SessionTime
  <2>3. last[u] <= sinkTime[u][s] /\ sinkTime[u][s] <= SessionTime(w)
    BY <1>0, Zenon DEF OrderInv
  <2>4. last[u] \in Nat /\ sinkTime[u][s] \in Nat /\ Done \in Nat
    <3>1. last \in [Worker -> Time] /\ sinkTime \in [Worker -> [Sink -> Time]]
      BY <1>0, Zenon DEF TypeOK
    <3> QED  BY <3>1, TimeFacts, Zenon
  <2>5. last[u] # Done
    <3>1. PICK a \in Nat, b \in Nat, c \in Nat, d \in Nat :
             a = last[u] /\ b = sinkTime[u][s] /\ c = SessionTime(w) /\ d = Done
      BY <2>2, <2>4, Zenon
    <3>2. a <= b /\ b <= c /\ c < d
      BY <2>2, <2>3, <3>1, Zenon
    <3>3. a # d
      BY <3>1, <3>2
    <3> QED  BY <3>1, <3>3, Zenon
  <2>6. meta[u] # Done /\ meta[u] \in Nat
    BY <2>5, <1>a, TimeFacts, Zenon
  <2> QED  BY <2>6, <1>0, Zenon DEF StoredInv, Stored
<1>3. IsAdv(e) => meta[u] <= e.time
  <2> SUFFICES ASSUME IsAdv(e)
               PROVE  meta[u] <= e.time
    BY Zenon
  <2>1. e.time \in Nat
    BY EventFacts, TimeFacts DEF IsAdv
  <2>2. CASE clock <= e.time
    BY <2>1, <2>2, <1>2, <1>a
  <2>3. CASE phase[w] = "run" /\ e.time = now[w] + 1
    <3>1. PICK i \in restored[w] + 1 .. Len(log[w]) : IsAdv(log[w][i]) /\ log[w][i].time = now[w]
      BY <2>3, <1>0, Zenon DEF Framed
    <3>2. meta[u] <= now[w]
      BY <2>3, <3>1, Zenon DEF OldBlock, Rewound
    <3> QED  BY <2>3, <3>2, <1>2, <1>a
  <2> QED  BY <2>2, <2>3, Zenon DEF Logs, IsAdv, IsRow
<1> SUFFICES ASSUME NEW v \in Worker, Rewound(v)',
                    NEW j \in restored[v] + 1 .. Len(log'[v]), IsAdv(log'[v][j])
             PROVE  meta[u] <= log'[v][j].time
  BY <1>1, Zenon DEF OldBlock
<1>4. CASE v # w
  <2>1. Rewound(v) /\ log'[v] = log[v]
    BY <1>0, <1>1, <1>4, <1>a, StillFacts, Zenon
  <2> QED  BY <2>1 DEF OldBlock
<1>5. CASE v = w
  <2>1. Rewound(w) /\ log'[w] = Append(log[w], e)
    BY <1>1, <1>a, Zenon DEF Rewound
  <2>2. CASE j = Len(log[w]) + 1
    BY <1>3, <1>5, <1>a, <2>1, <2>2
  <2>3. CASE j \in restored[w] + 1 .. Len(log[w])
    <3>0. log[w] \in Seq(Event) /\ j \in 1 .. Len(log[w])
      <4>1. log[w] \in Seq(Event) /\ restored[w] \in Nat /\ Len(log[w]) \in Nat
        BY <1>a, Zenon
      <4> QED  BY <2>3, <4>1
    <3>1. log'[w][j] = log[w][j]
      <4>1. PICK l \in Seq(Event) : l = log[w] /\ j \in 1 .. Len(l)
        BY <3>0, Zenon
      <4>2. Append(l, e)[j] = l[j]
        BY <4>1, AppendFacts, Zenon
      <4> QED  BY <2>1, <4>1, <4>2, Zenon
    <3> QED  BY <1>5, <2>1, <2>3, <3>1, Zenon DEF OldBlock
  <2>4. Len(log'[w]) = Len(log[w]) + 1
    BY <2>1, <1>a
  <2> QED  BY <1>5, <1>a, <2>2, <2>3, <2>4
<1> QED  BY <1>4, <1>5, Zenon

\* Every step keeps what the commits cover on disk.
LEMMA CoverNext ==
    ASSUME Base, TypeOK', OrderInv', Hypotheses, RecoveryInv, [Next]_vars
    PROVE  CoverInv'
<1>0. /\ TypeOK /\ OrderInv /\ ShapeInv /\ CoverInv
  BY Zenon DEF Base, RecoveryInv
<1>a. /\ meta \in [Worker -> Time \union {Nothing}] /\ last \in [Worker -> Time]
      /\ pending \in [Worker -> Time \union {Nothing}]
      /\ \A u \in Worker, s \in Sink : sinkTime[u][s] \in Nat
      /\ \A u \in Worker : meta[u] \in Int /\ last[u] \in Nat
  <2>1. \A u \in Worker : last[u] \in Nat /\ \A s \in Sink : sinkTime[u][s] \in Nat
    <3>1. last \in [Worker -> Time] /\ sinkTime \in [Worker -> [Sink -> Time]]
      BY <1>0, Zenon DEF TypeOK
    <3> QED  BY <3>1, TimeFacts, Zenon
  <2>2. meta \in [Worker -> Time \union {Nothing}] /\ last \in [Worker -> Time]
        /\ pending \in [Worker -> Time \union {Nothing}]
    BY <1>0 DEF TypeOK
  <2>3. \A u \in Worker : meta[u] \in Int
    <3> SUFFICES ASSUME NEW u \in Worker
                 PROVE  meta[u] \in Int
      OBVIOUS
    <3>1. meta[u] \in Nat \/ meta[u] = -1
      BY <2>2, TimeFacts, Zenon DEF Nothing
    <3> QED  BY <3>1
  <2> QED  BY <2>1, <2>2, <2>3
<1> DEFINE CoverOf(u) ==
             /\ meta[u] # 0
             /\ pending[u] # Nothing => Covers(u, pending[u])
             /\ \/ meta[u] = Nothing
                \/ meta[u] = Done /\ last[u] # Done
                \/ Covers(u, meta[u]) /\ \A s \in Sink : meta[u] <= sinkTime[u][s]
                \/ OldBlock(u)
<1>b. (\A u \in Worker : CoverOf(u)') => CoverInv'
  BY Zenon DEF CoverInv
<1>c. ASSUME \A v \in Worker : Still(v), NEW u \in Worker, meta'[u] = meta[u]
      PROVE  OldBlock(u) => OldBlock(u)'
  <2>1. \A v \in Worker : /\ log'[v] = log[v] /\ restored'[v] = restored[v]
                          /\ Rewound(v)' <=> Rewound(v)
    BY <1>0, <1>c, StillFacts, Zenon DEF Still
  <2> QED  BY <1>c, <2>1, Zenon DEF OldBlock
<1>1. ASSUME \A v \in Worker : Still(v), NEW u \in Worker, meta'[u] = meta[u], last'[u] = last[u],
             pending'[u] = pending[u],
             \A s \in Sink : meta[u] <= sinkTime[u][s] => meta[u] <= sinkTime'[u][s]
      PROVE  CoverOf(u)'
  <2>1. \A t : Covers(u, t) => Covers(u, t)'
    BY <1>0, <1>1, CoversKept, Zenon
  <2>2. OldBlock(u) => OldBlock(u)'
    BY <1>1, <1>c, Zenon
  <2> QED  BY <1>0, <1>1, <2>1, <2>2, CoverSame, Zenon
<1>2. CASE (\A u \in Worker : Still(u)) /\ UNCHANGED <<meta, sinkTime, last, pending>>
  BY <1>1, <1>2, <1>b, Zenon
<1>3. ASSUME NEW w \in Worker, NEW s \in Sink, CommitSink(w, s), \A u \in Worker : Still(u),
             meta' = meta
      PROVE  CoverInv'
  <2>1. /\ UNCHANGED last /\ pending[w] = Nothing /\ Frontier > sinkTime[w][s]
        /\ sinkTime' = [sinkTime EXCEPT ![w][s] = Frontier]
        /\ \A u \in Worker : u # w => pending'[u] = pending[u]
    BY <1>3, <1>a, Zenon DEF CommitSink
  <2>2. \A u \in Worker, r \in Sink : meta[u] <= sinkTime[u][r] => meta[u] <= sinkTime'[u][r]
    <3>1. Frontier \in Nat
      BY <1>0, FrontierFacts, TimeFacts, Zenon
    <3>2. \A u \in Worker, r \in Sink :
             sinkTime'[u][r] = sinkTime[u][r] \/ (u = w /\ r = s /\ sinkTime'[u][r] = Frontier)
      BY <2>1, <1>0 DEF TypeOK
    <3> QED  BY <3>1, <3>2, <2>1, <1>a
  <2>3. ASSUME NEW u \in Worker, pending'[u] = pending[u]
        PROVE  CoverOf(u)'
    BY <1>1, <1>3, <2>1, <2>2, <2>3, Zenon
  <2>4. ASSUME pending'[w] # Nothing
        PROVE  CoverOf(w)'
    <3>1. Covers(w, pending[w])'
      BY <1>0, <1>3, <2>4, CommitCovers, Zenon
    <3>2. PICK m : m = meta[w]
      OBVIOUS
    <3>3. Covers(w, m) => Covers(w, meta[w])'
      <4>1. Covers(w, m) => Covers(w, m)'
        BY <1>0, <1>3, CoversKept
      <4> QED  BY <4>1, <3>2, <1>3, Zenon
    <3>4. OldBlock(w) => OldBlock(w)'
      BY <1>3, <1>c, Zenon
    <3>5. /\ meta[w] # 0
          /\ \/ meta[w] = Nothing
             \/ meta[w] = Done /\ last[w] # Done
             \/ Covers(w, m) /\ \A r \in Sink : meta[w] <= sinkTime[w][r]
             \/ OldBlock(w)
      BY <1>0, <3>2 DEF CoverInv
    <3> QED  BY <1>3, <2>1, <2>2, <3>1, <3>3, <3>4, <3>5, Zenon
  <2>5. pending'[w] = Nothing => pending'[w] = pending[w]
    BY <2>1, Zenon
  <2> QED  BY <2>1, <2>3, <2>4, <2>5, <1>b, Zenon
<1>4. ASSUME NEW w \in Worker, SaveMetadata(w), \A u \in Worker : Still(u)
      PROVE  CoverInv'
  <2>1. /\ pending[w] # Nothing /\ UNCHANGED sinkTime
        /\ last' = [last EXCEPT ![w] = pending[w]] /\ pending' = [pending EXCEPT ![w] = Nothing]
        /\ meta' = meta \/ meta' = [meta EXCEPT ![w] = pending[w]]
    BY <1>4, <1>a, Zenon DEF SaveMetadata
  <2>2. ASSUME NEW u \in Worker, u # w
        PROVE  CoverOf(u)'
    <3>1. meta'[u] = meta[u] /\ last'[u] = last[u] /\ pending'[u] = pending[u]
      BY <2>1, <2>2, <1>a, Zenon
    <3> QED  BY <1>1, <1>4, <2>1, <3>1, Zenon
  <2>3. pending'[w] = Nothing /\ last'[w] = pending[w]
    BY <2>1, <1>a
  <2>4. PICK p : p = pending[w]
    OBVIOUS
  <2>5. Covers(w, p)'
    <3>1. Covers(w, p)
      BY <2>1, <2>4, <1>0, Zenon DEF CoverInv
    <3> QED  BY <3>1, <1>0, <1>4, CoversKept, Zenon
  <2>6. /\ p > 0 /\ \A s \in Sink : p <= sinkTime[w][s]
    <3>1. last[w] < pending[w] /\ \A s \in Sink : pending[w] <= sinkTime[w][s]
      BY <1>0, <2>1 DEF OrderInv
    <3>2. pending[w] \in Nat
      BY <2>1, <1>a, TimeFacts, Zenon
    <3> QED  BY <2>4, <3>1, <3>2, <1>a
  <2>7. CASE meta'[w] = pending[w]
    <3>1. Covers(w, meta[w])'
      BY <2>4, <2>5, <2>7, Zenon
    <3> QED  BY <2>1, <2>2, <2>3, <2>4, <2>6, <2>7, <3>1, <1>b
  <2>8. CASE meta'[w] = meta[w]
    <3>1. PICK m : m = meta[w]
      OBVIOUS
    <3>2. /\ meta[w] # 0
          /\ \/ meta[w] = Nothing
             \/ meta[w] = Done /\ last[w] # Done
             \/ Covers(w, m) /\ \A s \in Sink : meta[w] <= sinkTime[w][s]
             \/ OldBlock(w)
      BY <1>0, <3>1, Zenon DEF CoverInv
    <3>3. Covers(w, m) => Covers(w, meta[w])'
      <4>1. Covers(w, m) => Covers(w, m)'
        BY <1>0, <1>4, CoversKept, Zenon
      <4> QED  BY <4>1, <3>1, <2>8
    <3>4. OldBlock(w) => OldBlock(w)'
      BY <1>4, <1>c, <2>8, Zenon
    <3>5. meta[w] = Done /\ p = Done =>
             Covers(w, meta[w])' /\ \A s \in Sink : meta'[w] <= sinkTime'[w][s]
      <4>1. ASSUME meta[w] = Done, p = Done
            PROVE  Covers(w, meta[w])'
        BY <2>5, <2>8, <4>1, Zenon
      <4> QED  BY <2>1, <2>6, <2>8, <4>1, Zenon
    <3>6. CoverOf(w)'
      BY <2>1, <2>3, <2>4, <2>8, <3>2, <3>3, <3>4, <3>5, Zenon
    <3> QED  BY <2>2, <3>6, <1>b, Zenon
  <2> QED  BY <2>1, <2>7, <2>8, <1>a
<1>5. ASSUME NEW w \in Worker, RewindFromSnapshot(w), \A u \in Worker : u # w => Still(u)
      PROVE  CoverInv'
  <2>1. /\ UNCHANGED <<meta, output>> /\ phase[w] = "opened"
        /\ restored'[w] = Len(log'[w])
    BY <1>5, <1>0, Zenon DEF RewindFromSnapshot, TypeOK
  <2>2. Len(log'[w]) \in Nat
    BY DEF TypeOK
  <2>3. ASSUME NEW u \in Worker
        PROVE  pending'[u] = Nothing /\ (meta[u] # Nothing => ~ \A s \in Sink : meta[u] <= sinkTime[u][s])
    <3>1. pending[u] = Nothing
      BY <1>0, <2>1, CommitNeedsAll, Zenon DEF Up
    <3>2. PICK s \in Sink : TRUE
      BY NonEmpty
    <3>3. sinkTime[u][s] <= 0
      BY <1>0, <2>1, Zenon DEF OrderInv, SessionTime
    <3>4. meta[u] # Nothing => meta[u] \in Nat /\ meta[u] # 0
      BY <1>0, <1>a, TimeFacts, Zenon DEF CoverInv
    <3> QED  BY <3>1, <3>2, <3>3, <3>4, <2>1, <1>a DEF output
  <2>4. ASSUME NEW u \in Worker, OldBlock(u)
        PROVE  OldBlock(u)'
    <3> SUFFICES ASSUME NEW v \in Worker, Rewound(v)',
                        NEW j \in restored'[v] + 1 .. Len(log'[v]), IsAdv(log'[v][j])
                 PROVE  meta[u] <= log'[v][j].time
      BY <2>1, Zenon DEF OldBlock
    <3>1. v # w
      BY <2>1, <2>2
    <3>2. Rewound(v) /\ log'[v] = log[v] /\ restored'[v] = restored[v]
      BY <1>0, <1>5, <3>1, StillFacts, Zenon DEF Still
    <3> QED  BY <2>4, <3>2, Zenon DEF OldBlock
  <2>5. ASSUME NEW u \in Worker
        PROVE  CoverOf(u)'
    <3>1. /\ meta[u] # 0
          /\ meta[u] = Nothing \/ (meta[u] = Done /\ last[u] # Done) \/ OldBlock(u)
      BY <1>0, <2>3, Zenon DEF CoverInv
    <3> QED  BY <2>1, <2>3, <2>4, <3>1, Zenon DEF output
  <2> QED  BY <2>5, <1>b
<1>6. ASSUME NEW w \in Worker, NEW e \in Event, Logs(w, e), \A u \in Worker : u # w => Still(u)
      PROVE  CoverInv'
  <2>1. UNCHANGED <<meta, last, pending, sinkTime>>
    BY <1>6, Zenon DEF Logs, output
  <2>2. ASSUME NEW u \in Worker
        PROVE  CoverOf(u)'
    <3>1. \A t : Covers(u, t) => Covers(u, t)'
      BY <1>0, <1>6, CoversKept, Zenon
    <3>2. CASE meta[u] = Nothing
      <4>1. PICK p : p = pending[u]
        BY Zenon
      <4>2. pending[u] # Nothing => Covers(u, p)'
        BY <3>1, <4>1, <1>0 DEF CoverInv
      <4> QED  BY <4>1, <4>2, <3>2, <2>1 DEF Nothing
    <3>3. CASE meta[u] = Done /\ last[u] # Done
      BY <1>0, <2>1, <3>1, <3>3, CoverSame, Zenon
    <3>4. CASE meta[u] # Nothing /\ ~ (meta[u] = Done /\ last[u] # Done)
      <4>1. OldBlock(u) => OldBlock(u)'
        BY <1>0, <1>6, <3>4, OldBlockLogs, Zenon
      <4> QED  BY <1>0, <2>1, <3>1, <4>1, CoverSame, Zenon
    <3> QED  BY <3>2, <3>3, <3>4, Zenon
  <2> QED  BY <2>2, <1>b, Zenon
<1>7. ASSUME NEW w \in Worker, FinishSource(w), log' = log, \A u \in Worker : u # w => Still(u)
      PROVE  CoverInv'
  <2>1. /\ UNCHANGED <<meta, last, pending, sinkTime, restored>>
        /\ phase[w] = "run" /\ phase'[w] = "ended"
    BY <1>7, <1>0, Zenon DEF FinishSource, output, TypeOK
  <2>2. \A u \in Worker : Rewound(u)' <=> Rewound(u)
    BY <1>0, <1>7, <2>1, StillFacts, Zenon DEF Rewound
  <2>3. \A u \in Worker : OldBlock(u) => OldBlock(u)'
    BY <1>7, <2>1, <2>2, Zenon DEF OldBlock
  <2>4. ASSUME NEW u \in Worker
        PROVE  CoverOf(u)'
    <3>1. \A t : Covers(u, t) => Covers(u, t)'
      BY <1>0, <1>7, CoversKept
    <3> QED  BY <1>0, <2>1, <2>3, <3>1, CoverSame, Zenon
  <2> QED  BY <2>4, <1>b
<1>8. CASE Crash \/ Exit
  <2>1. FreshProcess /\ meta' = meta
    BY <1>8, Zenon DEF Crash, Exit
  <2>2. \A u \in Worker : ~ Rewound(u)' /\ pending'[u] = Nothing
    BY <2>1, Zenon DEF FreshProcess, Rewound
  <2>3. \A u \in Worker : OldBlock(u)'
    BY <2>2 DEF OldBlock
  <2> QED  BY <2>1, <2>2, <2>3, <1>0, <1>b, Zenon DEF CoverInv
<1> QED  BY <1>0, StepEffects, <1>2, <1>3, <1>4, <1>5, <1>6, <1>7, <1>8, Zenon

=============================================================================
