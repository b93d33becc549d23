--------------------------- MODULE DeliveryProofs ---------------------------
(***************************************************************************)
(* Delivery across restarts: what a recovered program does not output      *)
(* again has been delivered, a program that finishes has delivered all it  *)
(* has ever seen of the source, and one that is neither killed nor meets a *)
(* failed flush or save delivers nothing twice.                            *)
(***************************************************************************)
EXTENDS RecoveryProofs

\* The worker whose sink thread writes row k of partition w.
Writes(s, w, k) == Dest[<<s, <<w, k>>>>]

\* An entry of the session that a sink thread has passed, at the artificial time of
\* the rewind or in a batch.
Passed(s, w, e) == e.time = 0 \/ e.time < wrote[Writes(s, w, e.row)][s]

\* A sink thread writes what is below the frontier and commits what it has written.
WroteInv ==
    \A u \in Worker, s \in Sink :
        sinkTime[u][s] <= wrote[u][s] /\ \A v \in Worker : wrote[u][s] <= SessionTime(v)

\* The entry of the session for the row at position i of a log: at the artificial time if
\* it was replayed, and otherwise at that of an AdvanceTime before it.
EntryOf(w, i, e) ==
    /\ e.row = log[w][i].row
    /\ i <= restored[w] => e.time = 0
    /\ i > restored[w] => \E j \in restored[w] + 1 .. i - 1 :
                             IsAdv(log[w][j]) /\ e.time = log[w][j].time

\* Every row in a log that has been rewound is in the session.
EntryInv ==
    \A w \in Worker : Rewound(w) => \A i \in 1 .. Len(log[w]) : IsRow(log[w][i]) =>
        \E e \in fed[w] : EntryOf(w, i, e)

\* What has passed a sink that does not hold rows back is delivered, and so is what the
\* next rewind will replay.
PassedInv ==
    \A w \in Worker, s \in Sink \ Delayed :
        /\ \A e \in fed[w] : Passed(s, w, e) => <<s, <<w, e.row>>>> \in delivered
        /\ ~ Rewound(w) => \A k \in RowsIn(log[w], Kept(w)) : <<s, <<w, k>>>> \in delivered

DeliveryInv == WroteInv /\ EntryInv /\ PassedInv

\* A source that has ended has been read to its end.
AvailableInv ==
    \A w \in Worker : /\ w \notin Reader => available[w] = 0
                      /\ phase[w] = "ended" => available[w] <= offsets[w][w]

\* Without a failure, every commit reaches the metadata, and the last one is Done.
CommitInv ==
    ~ disturbed => \A w \in Worker :
        /\ last[w] # 0 => meta[w] = last[w]
        /\ Finalized(sinkTime[w]) = Done => last[w] = Done \/ pending[w] = Done

\* A row has passed its sink, or will be replayed at the artificial time.
Settled(s, w, k) ==
    IF Rewound(w) THEN \E e \in fed[w] : e.row = k /\ Passed(s, w, e)
    ELSE k \in RowsIn(log[w], Kept(w))

\* Without a failure, that holds of what was delivered or is held back.
OnceInv ==
    ~ disturbed =>
        /\ twice = {} /\ delivered \intersect buffered = {}
        /\ \A s \in Sink, w \in Worker, k \in 1 .. NumRows :
             <<s, <<w, k>>>> \in delivered \union buffered => Settled(s, w, k)

-----------------------------------------------------------------------------
(* The sinks pass what is below the frontier, and deliver it.              *)

\* How a step bears on the sinks.
LEMMA DeliverySteps ==
    ASSUME [Next]_vars
    PROVE  \/ UNCHANGED <<wrote, sinkTime, delivered, buffered, twice>>
           \/ \E w \in Worker, s \in Sink : OutputBatches(w, s)
           \/ \E w \in Worker, s \in Sink : CommitSink(w, s)
           \/ \E s \in Delayed : FlushSink(s)
           \/ Crash \/ Exit
<1>1. CASE \E w \in Worker : \/ Open(w) \/ RewindFromSnapshot(w) \/ ReconstructFrontier(w)
                             \/ FinishRewind(w) \/ Autocommit(w)
                             \/ ReadRow(w) \/ FinishSource(w) \/ SaveMetadata(w)
  BY <1>1 DEF Open, RewindFromSnapshot, ReconstructFrontier, FinishRewind, Autocommit,
              AdvanceTimeTo, ReadRow, FinishSource, SaveMetadata, durable, output, history
<1>2. CASE UNCHANGED vars
  BY <1>2 DEF vars, durable, output, history
<1> QED  BY <1>1, <1>2, RecoverySteps, Zenon

\* A sink writes no further than the frontier, and the frontier does not go back.
LEMMA WroteNext ==
    ASSUME TypeOK, TypeOK', OrderInv, OrderInv', WroteInv, [Next]_vars
    PROVE  WroteInv'
<1> SUFFICES ASSUME NEW u \in Worker, NEW s \in Sink, NEW v \in Worker
             PROVE  sinkTime'[u][s] <= wrote'[u][s] /\ wrote'[u][s] <= SessionTime(v)'
  BY DEF WroteInv
<1>0. sinkTime[u][s] <= wrote[u][s] /\ wrote[u][s] <= SessionTime(v)
  BY DEF WroteInv
<1>t. /\ sinkTime[u][s] \in Nat /\ wrote[u][s] \in Nat /\ SessionTime(v) \in Nat
      /\ wrote'[u][s] \in Nat /\ SessionTime(v)' \in Nat
  <2>1. /\ sinkTime \in [Worker -> [Sink -> Time]] /\ wrote \in [Worker -> [Sink -> Time]]
        /\ wrote' \in [Worker -> [Sink -> Time]]
    BY Zenon DEF TypeOK
  <2>2. sinkTime[u][s] \in Time /\ wrote[u][s] \in Time /\ wrote'[u][s] \in Time
    BY <2>1
  <2>3. SessionTime(v) \in Time /\ SessionTime(v)' \in Time
    BY SessionType
  <2> QED  BY <2>2, <2>3, TimeFacts, Zenon
<1>f. Frontier \in Nat /\ Frontier <= SessionTime(v) /\ wrote[u][s] <= Frontier
  <2>1. PICK z \in Worker : Frontier = SessionTime(z)
    BY FrontierFacts
  <2>2. Frontier \in Nat /\ Frontier <= SessionTime(v)
    BY FrontierFacts, TimeFacts, Zenon
  <2> QED  BY <2>1, <2>2 DEF WroteInv
<1>1. ASSUME NEW w \in Worker, InputStep(w), UNCHANGED <<meta, output, history>>
      PROVE  sinkTime'[u][s] <= wrote'[u][s] /\ wrote'[u][s] <= SessionTime(v)'
  <2>1. UNCHANGED <<wrote, sinkTime>>
    BY <1>1 DEF output
  <2>2. SessionTime(v) <= SessionTime(v)'
    BY <1>1, SessionAdvances
  <2> QED  BY <2>1, <2>2, <1>0, <1>t
<1>2. ASSUME UNCHANGED <<phase, now>>, NEW x \in Worker, NEW z \in Sink,
             wrote' = [wrote EXCEPT ![x][z] = Frontier],
             sinkTime' = sinkTime \/ sinkTime' = [sinkTime EXCEPT ![x][z] = Frontier]
      PROVE  sinkTime'[u][s] <= wrote'[u][s] /\ wrote'[u][s] <= SessionTime(v)'
  <2>1. SessionTime(v)' = SessionTime(v)
    BY <1>2 DEF SessionTime
  <2>2. CASE u = x /\ s = z
    <3>1. wrote'[u][s] = Frontier
      BY <1>2, <2>2 DEF TypeOK
    <3>2. sinkTime'[u][s] = sinkTime[u][s] \/ sinkTime'[u][s] = Frontier
      BY <1>2, <2>2 DEF TypeOK
    <3> QED  BY <3>1, <3>2, <2>1, <1>0, <1>t, <1>f
  <2>3. CASE ~ (u = x /\ s = z)
    <3>0. wrote \in [Worker -> [Sink -> Time]] /\ sinkTime \in [Worker -> [Sink -> Time]]
      BY Zenon DEF TypeOK
    <3>1. wrote'[u][s] = wrote[u][s]
      BY <1>2, <2>3, <3>0, Zenon
    <3>2. [sinkTime EXCEPT ![x][z] = Frontier][u][s] = sinkTime[u][s]
      BY <2>3, <3>0
    <3>3. sinkTime'[u][s] = sinkTime[u][s]
      BY <1>2, <3>2, Zenon
    <3> QED  BY <3>1, <3>3, <2>1, <1>0, Zenon
  <2> QED  BY <2>2, <2>3
<1>3. ASSUME NEW x \in Worker, NEW z \in Sink, OutputBatches(x, z) \/ CommitSink(x, z)
      PROVE  sinkTime'[u][s] <= wrote'[u][s] /\ wrote'[u][s] <= SessionTime(v)'
  <2>1. /\ UNCHANGED <<phase, now>> /\ wrote' = [wrote EXCEPT ![x][z] = Frontier]
        /\ sinkTime' = sinkTime \/ sinkTime' = [sinkTime EXCEPT ![x][z] = Frontier]
    BY <1>3 DEF OutputBatches, CommitSink, input
  <2> QED  BY <2>1, <1>2, Zenon
<1>4. CASE (\E w \in Worker : SaveMetadata(w)) \/ (\E z \in Delayed : FlushSink(z)) \/ UNCHANGED vars
  <2>1. UNCHANGED <<phase, now, wrote, sinkTime>>
    BY <1>4, Zenon DEF SaveMetadata, FlushSink, vars, input, output
  <2>2. SessionTime(v)' = SessionTime(v)
    BY <2>1 DEF SessionTime
  <2> QED  BY <2>1, <2>2, <1>0
<1>5. CASE FreshProcess
  <2>1. wrote'[u][s] = 0 /\ sinkTime'[u][s] = 0
    BY <1>5 DEF FreshProcess
  <2> QED  BY <2>1, <1>t
<1> QED  BY <1>1, <1>3, <1>4, <1>5, StepKinds, Zenon

\* Entries follow the log: a rewind makes them anew, and a row that is read has one.
LEMMA EntryNext ==
    ASSUME TypeOK, TypeOK', ShapeInv, EntryInv, [Next]_vars
    PROVE  EntryInv'
<1> SUFFICES ASSUME NEW w \in Worker, Rewound(w)', NEW i \in 1 .. Len(log'[w]), IsRow(log'[w][i])
             PROVE  \E e \in fed'[w] : EntryOf(w, i, e)'
  BY DEF EntryInv
<1>0. /\ log[w] \in Seq(Event) /\ Len(log[w]) \in Nat /\ i \in Nat /\ restored[w] \in Nat
      /\ log'[w] \in Seq(Event) /\ Len(log'[w]) \in Nat
  <2>1. log' \in [Worker -> Seq(Event)]
    BY Zenon DEF TypeOK
  <2> QED  BY <2>1, LogType
<1>1. ASSUME Rewound(w), restored'[w] = restored[w], i <= Len(log[w]), fed[w] \subseteq fed'[w],
             \A j \in 1 .. Len(log[w]) : log'[w][j] = log[w][j]
      PROVE  \E e \in fed'[w] : EntryOf(w, i, e)'
  <2>1. i \in 1 .. Len(log[w]) /\ log'[w][i] = log[w][i]
    BY <1>1, <1>0
  <2>2. PICK e \in fed[w] : EntryOf(w, i, e)
    BY <2>1, <1>1 DEF EntryInv
  <2>3. \A j \in restored[w] + 1 .. i - 1 : log'[w][j] = log[w][j]
    BY <1>0, <1>1
  <2>4. EntryOf(w, i, e)'
    <3>1. e.row = log'[w][i].row /\ (i <= restored'[w] => e.time = 0)
      BY <2>1, <2>2, <1>1 DEF EntryOf
    <3>2. i > restored'[w] => \E j \in restored'[w] + 1 .. i - 1 :
                                 IsAdv(log'[w][j]) /\ e.time = log'[w][j].time
      BY <2>2, <2>3, <1>1, Zenon DEF EntryOf
    <3> QED  BY <3>1, <3>2, Zenon DEF EntryOf
  <2> QED  BY <2>4, <1>1
<1>2. ASSUME Still(w)
      PROVE  \E e \in fed'[w] : EntryOf(w, i, e)'
  <2>1. Rewound(w)
    BY <1>2, StillFacts
  <2> QED  BY <2>1, <1>0, <1>1, <1>2 DEF Still
<1>3. ASSUME RewindFromSnapshot(w)
      PROVE  \E e \in fed'[w] : EntryOf(w, i, e)'
  <2>1. /\ restored'[w] = Len(log'[w])
        /\ fed'[w] = {[at |-> k, row |-> log'[w][k].row, time |-> 0] :
                        k \in {j \in DOMAIN log'[w] : log'[w][j].kind = "row"}}
    BY <1>3 DEF RewindFromSnapshot, TypeOK
  <2>2. i \in {j \in DOMAIN log'[w] : log'[w][j].kind = "row"}
    BY <1>0 DEF IsRow
  <2>3. PICK e \in fed'[w] : e.row = log'[w][i].row /\ e.time = 0
    <3>1. [at |-> i, row |-> log'[w][i].row, time |-> 0] \in fed'[w]
      BY <2>1, <2>2, Zenon
    <3> QED  BY <3>1, Zenon
  <2>4. i <= restored'[w] /\ ~ (i > restored'[w])
    BY <2>1, <1>0
  <2>5. EntryOf(w, i, e)'
    BY <2>3, <2>4 DEF EntryOf
  <2> QED  BY <2>5, Zenon
<1>4. ASSUME NEW a \in Event, Logs(w, a)
      PROVE  \E e \in fed'[w] : EntryOf(w, i, e)'
  <2>1. /\ Len(log'[w]) = Len(log[w]) + 1 /\ log'[w][Len(log[w]) + 1] = a
        /\ \A j \in 1 .. Len(log[w]) : log'[w][j] = log[w][j]
    BY <1>4, LogsKept, Zenon
  <2>2. Rewound(w) /\ restored'[w] = restored[w]
    BY <1>4, Zenon DEF Logs, Rewound
  <2>3. fed[w] \subseteq fed'[w]
    <3>1. CASE UNCHANGED fed
      BY <3>1, Zenon
    <3>2. CASE ReadRow(w)
      <4>1. fed' = [fed EXCEPT ![w] = fed[w] \union
                      {[at |-> Len(log[w]) + 1, row |-> offsets[w][w] + 1, time |-> now[w]]}]
        BY <3>2, ReadEffect, Zenon
      <4> QED  BY <4>1 DEF TypeOK
    <3> QED  BY <1>4, <3>1, <3>2, Zenon DEF Logs
  <2>4. CASE i <= Len(log[w])
    BY <2>1, <2>2, <2>3, <2>4, <1>0, <1>1, Zenon
  <2>5. CASE i = Len(log[w]) + 1
    <3>1. IsRow(a)
      BY <2>1, <2>5, Zenon
    <3>2. ReadRow(w) /\ phase[w] = "run" /\ a.row = offsets[w][w] + 1
      BY <3>1, <1>4, Zenon DEF Logs, IsRow, IsAdv
    <3>3. PICK e \in fed'[w] : e.row = offsets[w][w] + 1 /\ e.time = now[w]
      <4>1. fed' = [fed EXCEPT ![w] = fed[w] \union
                      {[at |-> Len(log[w]) + 1, row |-> offsets[w][w] + 1, time |-> now[w]]}]
        BY <3>2, ReadEffect, Zenon
      <4>2. [at |-> Len(log[w]) + 1, row |-> offsets[w][w] + 1, time |-> now[w]] \in fed'[w]
        BY <4>1, Zenon DEF TypeOK
      <4> QED  BY <4>2
    <3>4. PICK j \in restored[w] + 1 .. Len(log[w]) : IsAdv(log[w][j]) /\ log[w][j].time = now[w]
      BY <3>2, Zenon DEF ShapeInv, Framed
    <3>5. Up(w)
      BY <3>2, Zenon DEF Up
    <3>6. restored[w] < Len(log[w])
      BY <3>5, Zenon DEF ShapeInv, Framed
    <3>7. /\ j \in restored'[w] + 1 .. i - 1 /\ IsAdv(log'[w][j]) /\ e.time = log'[w][j].time
          /\ i > restored'[w] /\ ~ (i <= restored'[w])
      BY <2>1, <2>2, <2>5, <3>3, <3>4, <3>6, <1>0
    <3>8. e.row = log'[w][i].row
      BY <2>1, <2>5, <3>2, <3>3, Zenon
    <3>9. EntryOf(w, i, e)'
      BY <3>7, <3>8, Zenon DEF EntryOf
    <3> QED  BY <3>9, Zenon
  <2> QED  BY <2>1, <2>4, <2>5, <1>0
<1>5. ASSUME FinishSource(w), log' = log
      PROVE  \E e \in fed'[w] : EntryOf(w, i, e)'
  <2>1. restored'[w] = restored[w] /\ fed'[w] = fed[w] /\ Rewound(w)
    BY <1>5, Zenon DEF FinishSource, Rewound
  <2> QED  BY <2>1, <1>0, <1>1, <1>5
<1>6. ~ Crash /\ ~ Exit
  <2>1. FreshProcess => phase'[w] = "down"
    BY DEF FreshProcess
  <2> QED  BY <2>1 DEF Crash, Exit, Rewound
<1> QED  BY <1>2, <1>3, <1>4, <1>5, <1>6, StepEffects, Zenon

\* Delivered rows stay delivered.
LEMMA DeliveredGrows ==
    ASSUME [Next]_vars
    PROVE  delivered \subseteq delivered'
<1>1. CASE UNCHANGED delivered
  BY <1>1
<1>2. CASE \E w \in Worker, s \in Sink : OutputBatches(w, s)
  BY <1>2 DEF OutputBatches, Deliver
<1>3. CASE \E s \in Delayed : FlushSink(s)
  BY <1>3, Zenon DEF FlushSink, Deliver
<1>4. CASE (\E w \in Worker, s \in Sink : CommitSink(w, s)) \/ Crash \/ Exit
  BY <1>4, Zenon DEF CommitSink, Crash, Exit
<1> QED  BY <1>1, <1>2, <1>3, <1>4, DeliverySteps, Zenon

\* The entries that a sink thread passes by a step: those of its batch.
LEMMA PassedBatch ==
    ASSUME TypeOK, NEW u \in Worker, NEW z \in Sink, wrote' = [wrote EXCEPT ![u][z] = Frontier],
           fed' = fed, NEW w \in Worker, NEW s \in Sink, NEW e \in fed[w], Passed(s, w, e)'
    PROVE  Passed(s, w, e) \/ (s = z /\ <<s, <<w, e.row>>>> \in Batch(u, z, wrote[u][z], Frontier))
<1>0. /\ e.row \in 1 .. NumRows /\ e.time \in 0 .. MaxTime /\ wrote \in [Worker -> [Sink -> Time]]
  BY FedType, WroteType
<1>r. <<w, e.row>> \in Row
  BY <1>0 DEF Row
<1>d. Writes(s, w, e.row) \in Worker
  BY <1>r, ConstantsAssumption DEF Writes
<1>1. CASE e.time = 0
  BY <1>1 DEF Passed
<1>2. CASE e.time # 0 /\ ~ (s = z /\ Writes(s, w, e.row) = u)
  <2>1. wrote'[Writes(s, w, e.row)][s] = wrote[Writes(s, w, e.row)][s]
    BY <1>0, <1>d, <1>2, Zenon
  <2>2. Writes(s, w, e.row)' = Writes(s, w, e.row)
    BY DEF Writes
  <2> QED  BY <2>1, <2>2, <1>2, Zenon DEF Passed
<1>3. CASE e.time # 0 /\ s = z /\ Writes(s, w, e.row) = u /\ ~ (e.time < wrote[u][z])
  <2>1. wrote'[u][z] = Frontier
    BY <1>0
  <2>2. e.time < Frontier
    BY <2>1, <1>3 DEF Passed, Writes
  <2>3. Frontier \in Nat /\ wrote[u][z] \in Nat /\ e.time \in Nat
    BY <1>0, FrontierFacts, TimeFacts, Zenon
  <2>4. e.time \in wrote[u][z] .. Frontier - 1
    BY <2>2, <2>3, <1>3
  <2>5. /\ Dest[<<z, <<w, e.row>>>>] = u
        /\ \E d \in fed[<<w, e.row>>[1]] : d.row = <<w, e.row>>[2] /\ d.time # 0
                                           /\ d.time \in wrote[u][z] .. Frontier - 1
    BY <2>4, <1>3 DEF Writes
  <2> QED  BY <2>5, <1>r, <1>3, Zenon DEF Batch
<1>4. CASE e.time # 0 /\ s = z /\ Writes(s, w, e.row) = u /\ e.time < wrote[u][z]
  BY <1>4, Zenon DEF Passed
<1> QED  BY <1>1, <1>2, <1>3, <1>4, Zenon

\* A row that is read enters at a time that no sink thread has passed.
LEMMA ReadNotPassed ==
    ASSUME TypeOK, ShapeInv, WroteInv, NEW w \in Worker, ReadRow(w), NEW s \in Sink, NEW e \in fed'[w],
           e \notin fed[w]
    PROVE  ~ Passed(s, w, e)'
<1>1. /\ phase[w] = "run" /\ wrote' = wrote
      /\ fed' = [fed EXCEPT ![w] = fed[w] \union
                   {[at |-> Len(log[w]) + 1, row |-> offsets[w][w] + 1, time |-> now[w]]}]
      /\ offsets[w][w] + 1 \in 1 .. NumRows
  BY ReadEffect, Zenon DEF output
<1>2. e = [at |-> Len(log[w]) + 1, row |-> offsets[w][w] + 1, time |-> now[w]]
  BY <1>1, Zenon DEF TypeOK
<1>3. e.time = now[w] /\ e.row \in 1 .. NumRows
  BY <1>1, <1>2, Zenon
<1>4. now[w] # 0
  <2>1. PICK j \in restored[w] + 1 .. Len(log[w]) : IsAdv(log[w][j]) /\ log[w][j].time = now[w]
    BY <1>1, Zenon DEF ShapeInv, Framed
  <2>2. log[w] \in Seq(Event) /\ j \in 1 .. Len(log[w])
    BY <2>1 DEF TypeOK
  <2>3. log[w][j].time \in 1 .. Done
    BY <2>1, <2>2, LogTimes, Zenon
  <2> QED  BY <2>1, <2>3
<1>5. <<w, e.row>> \in Row
  BY <1>3 DEF Row
<1>6. Writes(s, w, e.row) \in Worker
  BY <1>5, ConstantsAssumption DEF Writes
<1>7. wrote[Writes(s, w, e.row)][s] <= now[w]
  BY <1>1, <1>6 DEF WroteInv, SessionTime
<1>8. wrote[Writes(s, w, e.row)][s] \in Nat /\ now[w] \in Nat
  BY <1>6, TimeFacts, WroteType, NowType, Zenon
<1>9. Writes(s, w, e.row)' = Writes(s, w, e.row)
  BY Zenon DEF Writes
<1> QED  BY <1>1, <1>3, <1>4, <1>7, <1>8, <1>9 DEF Passed

\* What a step puts into the session, unless it is the rewind, has not passed a sink.
LEMMA EntersUnpassed ==
    ASSUME TypeOK, ShapeInv, WroteInv, [Next]_vars, NEW w \in Worker, NEW s \in Sink, NEW e \in fed'[w],
           Passed(s, w, e)'
    PROVE  e \in fed[w] \/ RewindFromSnapshot(w)
<1>1. CASE Still(w)
  BY <1>1, Zenon DEF Still
<1>2. ASSUME NEW a \in Event, Logs(w, a)
      PROVE  e \in fed[w]
  <2>1. CASE UNCHANGED fed
    BY <2>1
  <2>2. CASE ReadRow(w)
    BY <2>2, ReadNotPassed, Zenon
  <2> QED  BY <1>2, <2>1, <2>2, Zenon DEF Logs
<1>3. CASE FinishSource(w)
  BY <1>3, Zenon DEF FinishSource
<1>4. CASE Crash \/ Exit
  BY <1>4, Zenon DEF Crash, Exit, FreshProcess
<1> QED  BY <1>1, <1>2, <1>3, <1>4, StepEffects, Zenon

\* The entry of a row that was read in this run, below the threshold T.
ReadBelow(w, e, T) ==
    \E j \in restored[w] + 1 .. Len(log[w]) :
        IsAdv(log[w][j]) /\ e.time = log[w][j].time /\ e.time < T

\* The rows in the part of a log that the next run will replay: those replayed by this
\* run, and those whose entries lie below the threshold.
LEMMA RestartEntries ==
    ASSUME TypeOK, ShapeInv, EntryInv, NEW w \in Worker, Rewound(w), NEW m \in Seq(Event),
           Len(m) <= Len(log[w]), \A i \in 1 .. Len(m) : m[i] = log[w][i],
           NEW T \in Time, NEW k \in RowsIn(m, Len(Truncated(m, T)))
    PROVE  \E e \in fed[w] : e.row = k /\ (e.time = 0 \/ ReadBelow(w, e, T))
<1> DEFINE n == Len(m)
           r == Len(Truncated(m, T))
<1>0. /\ log[w] \in Seq(Event) /\ Len(log[w]) \in Nat /\ restored[w] \in Nat /\ n \in Nat /\ T \in Nat
  BY TimeFacts DEF TypeOK
<1>1. m \in Seq(Event) /\ n <= Len(log[w]) /\ \A i \in 1 .. n : m[i] = log[w][i]
  OBVIOUS
<1>2. (T = 0 => r = 0) /\ (T # 0 => r = ReadLength(m, T))
  BY <1>1, TruncatedLength, Zenon
<1>3. /\ ReadLength(m, T) \in 0 .. n
      /\ Closing(m, T) = {} => ReadLength(m, T) = n
      /\ Closing(m, T) # {} => \A j \in Closing(m, T) : ReadLength(m, T) <= j
  BY <1>1, ReadLengthFacts, Zenon
<1>4. r \in 0 .. n
  BY <1>2, <1>3, <1>0
<1>5. PICK i \in 1 .. r : IsRow(m[i]) /\ k = m[i].row
  BY DEF RowsIn
<1>6. i \in 1 .. Len(log[w]) /\ i \in 1 .. n /\ m[i] = log[w][i] /\ T # 0 /\ i <= ReadLength(m, T)
  BY <1>0, <1>1, <1>2, <1>4, <1>5
<1>7. PICK e \in fed[w] : EntryOf(w, i, e)
  BY <1>5, <1>6 DEF EntryInv
<1>8. CASE i <= restored[w]
  BY <1>5, <1>6, <1>7, <1>8, Zenon DEF EntryOf
<1>9. CASE i > restored[w]
  <2>1. PICK j \in restored[w] + 1 .. i - 1 : IsAdv(log[w][j]) /\ e.time = log[w][j].time
    BY <1>7, <1>9, Zenon DEF EntryOf
  <2>2. j \in 1 .. n /\ j \in restored[w] + 1 .. Len(log[w]) /\ j < i /\ m[j] = log[w][j] /\ j \in Nat
    BY <2>1, <1>0, <1>1, <1>6
  <2>3. log[w][j].time \in Nat
    BY <2>1, <2>2, <1>0, LogTimes, Zenon
  <2>4. j \notin Closing(m, T)
    BY <2>2, <1>3, <1>6
  <2>5. log[w][j].time < T
    BY <2>1, <2>2, <2>3, <2>4, <1>0, <1>1 DEF Closing, IsAdv
  <2> QED  BY <2>1, <2>2, <2>5, <1>5, <1>6, <1>7, Zenon DEF EntryOf, ReadBelow
<1> QED  BY <1>0, <1>6, <1>8, <1>9

\* Below the threshold of the next run, every sink has passed what is in the session.
LEMMA RestartPassed ==
    ASSUME Base, RecoveryInv, WroteInv, NEW w \in Worker, Rewound(w), NEW s \in Sink, NEW e \in fed[w],
           (~ CommitWindow /\ ~ StaleDone) \/ Finished,
           ReadBelow(w, e, MinThreshold(meta))
    PROVE  Passed(s, w, e)
<1> DEFINE u == Writes(s, w, e.row)
<1>j. PICK j \in restored[w] + 1 .. Len(log[w]) :
         IsAdv(log[w][j]) /\ e.time = log[w][j].time /\ e.time < MinThreshold(meta)
  BY Zenon DEF ReadBelow
<1>0. e.row \in 1 .. NumRows /\ e.time \in 0 .. MaxTime /\ meta \in [Worker -> Time \union {Nothing}]
  BY DEF Base, TypeOK
<1>1. <<w, e.row>> \in Row
  BY <1>0 DEF Row
<1>2. u \in Worker
  BY <1>1, ConstantsAssumption DEF Writes
<1>3. /\ wrote[u][s] \in Nat /\ sinkTime[u][s] \in Nat /\ e.time \in Nat /\ e.time < Done /\ Done \in Nat
      /\ sinkTime[u][s] <= wrote[u][s]
  <2>1. wrote \in [Worker -> [Sink -> Time]] /\ sinkTime \in [Worker -> [Sink -> Time]]
    BY Zenon DEF Base, TypeOK
  <2>2. wrote[u][s] \in Time /\ sinkTime[u][s] \in Time
    BY <2>1, <1>2, Zenon
  <2> QED  BY <2>2, <1>0, <1>2, TimeFacts, Zenon DEF WroteInv
<1> HIDE DEF u
<1>4. CASE Finished
  <2>1. sinkTime[u][s] = Done
    BY <1>2, <1>4, Zenon DEF Finished
  <2> QED  BY <2>1, <1>3 DEF Passed, u
<1>5. CASE ~ CommitWindow /\ ~ StaleDone
  <2>1. /\ (\A v \in Worker : meta[v] = Nothing) => MinThreshold(meta) = 0
        /\ meta[u] # Nothing => MinThreshold(meta) <= meta[u]
        /\ MinThreshold(meta) \in Nat
    BY <1>0, <1>2, MinThresholdFacts, TimeFacts, Zenon
  <2>2. \E v \in Worker : meta[v] # Nothing
    BY <2>1, <1>3, <1>j
  <2>3. meta[u] # Nothing
    BY <2>2, <1>2, <1>5, Zenon DEF CommitWindow
  <2>4. meta[u] \in Nat /\ e.time < meta[u]
    <3>1. meta[u] \in Nat
      BY <2>3, <1>0, <1>2, TimeFacts, Zenon
    <3> QED  BY <3>1, <2>1, <2>3, <1>3, <1>j
  <2>5. ~ (meta[u] = Done /\ last[u] # Done)
    BY <1>2, <1>5, Zenon DEF StaleDone
  <2>6. ~ OldBlock(u)
    BY <2>4, <1>j, <1>3, <1>2 DEF OldBlock
  <2>7. meta[u] <= sinkTime[u][s]
    BY <2>3, <2>5, <2>6, <1>2, Zenon DEF RecoveryInv, CoverInv
  <2>8. e.time < wrote[u][s]
    BY <2>4, <2>7, <1>3
  <2> QED  BY <2>8 DEF Passed, u
<1> QED  BY <1>4, <1>5, Zenon

\* Deliveries keep up with what the sinks have passed, and a restart finds delivered
\* what it will replay.
LEMMA PassedNext ==
    ASSUME Base, Hypotheses, RecoveryInv, DeliveryInv, [Next]_vars
    PROVE  PassedInv'
<1> USE DEF Base, DeliveryInv, RecoveryInv
<1> SUFFICES ASSUME NEW w \in Worker, NEW s \in Sink \ Delayed
             PROVE  /\ \A e \in fed'[w] : Passed(s, w, e)' => <<s, <<w, e.row>>>> \in delivered'
                    /\ ~ Rewound(w)' => \A k \in RowsIn(log[w], Kept(w))' : <<s, <<w, k>>>> \in delivered'
  BY DEF PassedInv
<1>0. delivered \subseteq delivered'
  BY DeliveredGrows
<1>1. ASSUME NEW e \in fed'[w], Passed(s, w, e)'
      PROVE  <<s, <<w, e.row>>>> \in delivered'
  <2>1. CASE RewindFromSnapshot(w)
    <3>1. e.row \in RowsIn(log[w], Kept(w))
      <4>1. fed'[w] = {[at |-> k, row |-> log'[w][k].row, time |-> 0] :
                         k \in {j \in DOMAIN log'[w] : log'[w][j].kind = "row"}}
        BY <2>1, Zenon DEF RewindFromSnapshot, TypeOK
      <4>2. PICK k \in DOMAIN log'[w] : log'[w][k].kind = "row" /\ e.row = log'[w][k].row
        BY <4>1
      <4>3. /\ log'[w] \in Seq(Event) /\ Len(log'[w]) = Kept(w)
            /\ \A i \in 1 .. Kept(w) : log'[w][i] = log[w][i]
        BY <2>1, RewindKept, Zenon
      <4>4. k \in 1 .. Kept(w) /\ log'[w][k] = log[w][k]
        BY <4>2, <4>3
      <4> QED  BY <4>2, <4>4, Zenon DEF RowsIn, IsRow
    <3>2. ~ Rewound(w)
      BY <2>1 DEF RewindFromSnapshot, Rewound
    <3> QED  BY <3>1, <3>2, <1>0, Zenon DEF PassedInv
  <2>2. CASE e \in fed[w]
    <3>1. CASE wrote' = wrote
      BY <3>1, <2>2, <1>0, <1>1, Zenon DEF PassedInv, Passed, Writes
    <3>2. ASSUME NEW u \in Worker, NEW z \in Sink, OutputBatches(u, z)
          PROVE  <<s, <<w, e.row>>>> \in delivered'
      <4>1. wrote' = [wrote EXCEPT ![u][z] = Frontier] /\ fed' = fed
        BY <3>2 DEF OutputBatches, input
      <4>2. Passed(s, w, e) \/ (s = z /\ <<s, <<w, e.row>>>> \in Batch(u, z, wrote[u][z], Frontier))
        BY <4>1, <2>2, <1>1, PassedBatch, Zenon
      <4>3. CASE Passed(s, w, e)
        BY <4>3, <2>2, <1>0, Zenon DEF PassedInv
      <4>4. CASE s = z /\ <<s, <<w, e.row>>>> \in Batch(u, z, wrote[u][z], Frontier)
        BY <4>4, <3>2, Zenon DEF OutputBatches, Deliver
      <4> QED  BY <4>2, <4>3, <4>4, Zenon
    <3>3. ASSUME NEW u \in Worker, NEW z \in Sink, CommitSink(u, z)
          PROVE  <<s, <<w, e.row>>>> \in delivered'
      <4>1. /\ wrote' = [wrote EXCEPT ![u][z] = Frontier] /\ fed' = fed
            /\ Batch(u, z, wrote[u][z], Frontier) = {}
        BY <3>3 DEF CommitSink, input
      <4>2. Passed(s, w, e)
        BY <4>1, <2>2, <1>1, PassedBatch, Zenon
      <4> QED  BY <4>2, <2>2, <1>0, Zenon DEF PassedInv
    <3>4. CASE \E z \in Delayed : FlushSink(z)
      BY <3>4, <3>1, Zenon DEF FlushSink
    <3>5. ~ Crash /\ ~ Exit
      BY <1>1 DEF Crash, Exit, FreshProcess
    <3> QED  BY <3>1, <3>2, <3>3, <3>4, <3>5, DeliverySteps, Zenon
  <2>3. s \in Sink
    OBVIOUS
  <2>4. e \in fed[w] \/ RewindFromSnapshot(w)
    BY <2>3, <1>1, EntersUnpassed, Zenon
  <2> QED  BY <2>1, <2>2, <2>4, Zenon
<1>2. ASSUME ~ Rewound(w)', NEW k \in RowsIn(log[w], Kept(w))'
      PROVE  <<s, <<w, k>>>> \in delivered'
  <2>1. ASSUME Still(w), meta' = meta \/ Rewound(w)
        PROVE  <<s, <<w, k>>>> \in delivered'
    <3>1. Kept(w)' = Kept(w) /\ log'[w] = log[w] /\ ~ Rewound(w)
      BY <2>1, <1>2, StillKept, StillFacts, Zenon
    <3>2. k \in RowsIn(log[w], Kept(w))
      BY <3>1
    <3> QED  BY <3>1, <3>2, <1>0, Zenon DEF PassedInv
  <2>2. ASSUME NEW v \in Worker, SaveMetadata(v), \A u \in Worker : Still(u)
        PROVE  <<s, <<w, k>>>> \in delivered'
    <3>1. pending[v] # Nothing
      BY <2>2, Zenon DEF SaveMetadata
    <3>2. Rewound(w)
      BY <3>1, CommitNeedsAll, Zenon DEF Up, Rewound
    <3> QED  BY <2>1, <2>2, <3>2, Zenon
  <2>3. ASSUME NEW v \in Worker, \A u \in Worker : u # v => Still(u), meta' = meta,
               RewindFromSnapshot(v) \/ FinishSource(v) \/ phase'[v] \in {"run", "ended"}
        PROVE  <<s, <<w, k>>>> \in delivered'
    <3>1. Rewound(v)'
      BY <2>3, PhaseType, Zenon DEF RewindFromSnapshot, FinishSource, Rewound
    <3>2. v # w
      BY <3>1, <1>2, Zenon
    <3> QED  BY <2>1, <2>3, <3>2, Zenon
  <2>4. CASE Crash \/ Exit
    <3>0. PICK n \in [Worker -> Nat] :
             /\ \A v \in Worker : n[v] \in synced[v] .. Len(log[v])
             /\ log' = [v \in Worker |-> SubSeq(log[v], 1, n[v])]
             /\ meta' = meta
             /\ \/ ~ CommitWindow /\ ~ StaleDone
                \/ \A v \in Worker : phase[v] = "ended" /\ n[v] = Len(log[v])
      BY <2>4, RestartEffect, Zenon
    <3> DEFINE T == MinThreshold(meta)
               m == SubSeq(log[w], 1, n[w])
               r == Len(Truncated(m, T))
    <3>1. T \in Time /\ log[w] \in Seq(Event) /\ n[w] \in 0 .. Len(log[w])
      <4>1. T \in Time
        BY MinThresholdFacts, CommitType
      <4>2. log[w] \in Seq(Event) /\ synced[w] \in Nat /\ n[w] \in synced[w] .. Len(log[w])
        BY <3>0, LogType, Zenon
      <4> QED  BY <4>1, <4>2
    <3>2. log'[w] = m /\ Kept(w)' = r
      BY <1>2, <3>0, Zenon DEF Kept
    <3>3. k \in RowsIn(m, r)
      BY <3>2, Zenon
    <3>4. CASE Rewound(w)
      <4>0. m = SubSeq(log[w], 1, n[w]) /\ r = Len(Truncated(m, T)) /\ TypeOK /\ ShapeInv /\ EntryInv
        OBVIOUS
      <4> HIDE DEF T, m, r
      <4>1. PICK e \in fed[w] : e.row = k /\ (e.time = 0 \/ ReadBelow(w, e, T))
        <5>1. m \in Seq(Event) /\ Len(m) <= Len(log[w]) /\ \A i \in 1 .. Len(m) : m[i] = log[w][i]
          BY <3>1, <4>0
        <5>2. k \in RowsIn(m, Len(Truncated(m, T)))
          BY <3>3, <4>0
        <5> HIDE DEF Base, DeliveryInv, RecoveryInv
        <5> QED  BY <5>1, <5>2, <3>1, <3>4, <4>0, RestartEntries, ZenonT(30)
      <4>2. (~ CommitWindow /\ ~ StaleDone) \/ Finished
        BY <2>4, Zenon DEF Crash, Exit, Hypotheses
      <4>3. CASE e.time = 0
        BY <4>1, <4>3, <1>0, Zenon DEF PassedInv, Passed
      <4>4. CASE ReadBelow(w, e, T)
        <5>1. Passed(s, w, e)
          BY <3>4, <4>2, <4>4, RestartPassed, Zenon DEF T
        <5> QED  BY <5>1, <4>1, <1>0, Zenon DEF PassedInv
      <4> QED  BY <4>1, <4>3, <4>4, Zenon
    <3>5. CASE ~ Rewound(w)
      <4>1. ~ Up(w) /\ phase[w] # "ended"
        BY <3>5, Zenon DEF Rewound, Up
      <4>2. synced[w] = Len(log[w])
        BY <4>1, Zenon DEF ShapeInv, Framed
      <4>3. n[w] = Len(log[w])
        BY <4>2, <3>0, <3>1
      <4>4. m = log[w]
        BY <4>3, <3>1
      <4>5. Kept(w) = r
        BY <4>4, <3>5, Zenon DEF Kept
      <4>6. k \in RowsIn(log[w], Kept(w))
        BY <3>3, <4>4, <4>5, Zenon
      <4> QED  BY <4>6, <3>5, <1>0, Zenon DEF PassedInv
    <3> QED  BY <3>4, <3>5
  <2> QED
    <3>1. CASE (\A u \in Worker : Still(u)) /\ meta' = meta
      BY <3>1, <2>1
    <3>2. ASSUME NEW v \in Worker, RewindFromSnapshot(v), \A u \in Worker : u # v => Still(u)
          PROVE  <<s, <<w, k>>>> \in delivered'
      BY <3>2, <2>3, Zenon DEF RewindFromSnapshot
    <3>3. ASSUME NEW v \in Worker, NEW a \in Event, Logs(v, a), \A u \in Worker : u # v => Still(u)
          PROVE  <<s, <<w, k>>>> \in delivered'
      BY <3>3, <2>3, Zenon DEF Logs
    <3>4. ASSUME NEW v \in Worker, FinishSource(v), \A u \in Worker : u # v => Still(u)
          PROVE  <<s, <<w, k>>>> \in delivered'
      BY <3>4, <2>3, Zenon DEF FinishSource
    <3> QED  BY <3>1, <3>2, <3>3, <3>4, <2>2, <2>4, StepEffects, Zenon
<1> QED  BY <1>1, <1>2, Zenon

LEMMA DeliveryInit == Init => DeliveryInv
<1> SUFFICES ASSUME Init
             PROVE  DeliveryInv
  OBVIOUS
<1>1. /\ \A u \in Worker, s \in Sink : sinkTime[u][s] = 0 /\ wrote[u][s] = 0
      /\ \A u \in Worker : SessionTime(u) = 0 /\ ~ Rewound(u) /\ fed[u] = {} /\ log[u] = << >>
  BY Zenon DEF Init, SessionTime, Rewound
<1>2. WroteInv /\ EntryInv
  BY <1>1 DEF WroteInv, EntryInv
<1>3. ASSUME NEW w \in Worker
      PROVE  RowsIn(log[w], Kept(w)) = {}
  <2>1. Base /\ ShapeInv
    BY RecoveryInit, Zenon DEF RecoveryInv
  <2>2. Kept(w) \in 0 .. Len(log[w]) /\ Len(log[w]) = 0
    BY <2>1, <1>1, KeptType DEF Base
  <2> QED  BY <2>2 DEF RowsIn
<1>4. PassedInv
  BY <1>1, <1>3 DEF PassedInv
<1> QED  BY <1>2, <1>4 DEF DeliveryInv

LEMMA DeliveryNext ==
    ASSUME Hypotheses
    PROVE  Base /\ RecoveryInv /\ DeliveryInv /\ [Next]_vars => DeliveryInv'
<1> SUFFICES ASSUME Base, RecoveryInv, DeliveryInv, [Next]_vars
             PROVE  DeliveryInv'
  OBVIOUS
<1>1. Base'
  BY RecoveryNext
<1>2. WroteInv'
  BY <1>1, WroteNext, Zenon DEF Base, DeliveryInv
<1>3. EntryInv'
  BY <1>1, EntryNext DEF Base, RecoveryInv, DeliveryInv
<1>4. PassedInv'
  BY PassedNext
<1> QED  BY <1>2, <1>3, <1>4, Zenon DEF DeliveryInv

\* A row that a restarted program replays at the artificial time, and so does not output
\* again, has been delivered by every sink whose flush is complete: outside the windows,
\* and when no flush error is ignored.
THEOREM ReplayedDelivered ==
    ASSUME Windows = {}, "io_error" \notin FlushOutcomes
    PROVE  Spec => []ReplayedIsDelivered
<1>0. Hypotheses
  BY DEF Hypotheses
<1>1. Init => Base /\ RecoveryInv /\ DeliveryInv
  BY RecoveryInit, DeliveryInit
<1>2. Base /\ RecoveryInv /\ DeliveryInv /\ [Next]_vars => Base' /\ RecoveryInv' /\ DeliveryInv'
  BY <1>0, RecoveryNext, DeliveryNext, Zenon
<1>3. DeliveryInv => ReplayedIsDelivered
  BY DEF DeliveryInv, PassedInv, Passed, ReplayedIsDelivered
<1> QED  BY <1>1, <1>2, <1>3, PTL DEF Spec

-----------------------------------------------------------------------------
(* A run that finishes has delivered everything.                           *)

LEMMA AvailableNext ==
    ASSUME Base, Base', AvailableInv, [Next]_vars
    PROVE  AvailableInv'
<1> USE DEF Base
<1> SUFFICES ASSUME NEW w \in Worker
             PROVE  /\ w \notin Reader => available'[w] = 0
                    /\ phase'[w] = "ended" => available'[w] <= offsets'[w][w]
  BY DEF AvailableInv
<1>0. /\ w \notin Reader => available[w] = 0
      /\ phase[w] = "ended" => available[w] <= offsets[w][w]
  BY DEF AvailableInv
<1>1. ASSUME NEW v \in Worker, ReadRow(v)
      PROVE  /\ w \notin Reader => available'[w] = 0
             /\ phase'[w] = "ended" => available'[w] <= offsets'[w][w]
  <2>1. /\ phase[v] = "run" /\ v \in Reader /\ UNCHANGED phase
        /\ w # v => available'[w] = available[w] /\ offsets'[w] = offsets[w]
    BY <1>1 DEF ReadRow, TypeOK
  <2> QED  BY <2>1, <1>0, Zenon
<1>2. ASSUME NEW v \in Worker, FinishSource(v)
      PROVE  /\ w \notin Reader => available'[w] = 0
             /\ phase'[w] = "ended" => available'[w] <= offsets'[w][w]
  <2>1. /\ UNCHANGED <<available, offsets>> /\ phase' = [phase EXCEPT ![v] = "ended"]
        /\ v \in Reader => offsets[v][v] >= available[v]
    BY <1>2, Zenon DEF FinishSource
  <2>2. w # v => phase'[w] = phase[w]
    BY <2>1, Zenon DEF TypeOK
  <2>3. available[w] \in Nat /\ offsets[w][w] \in Nat
    BY DEF TypeOK
  <2>4. CASE w = v /\ v \in Reader
    BY <2>1, <2>3, <2>4, Zenon
  <2>5. CASE w = v /\ v \notin Reader
    BY <2>1, <2>3, <2>5, <1>0
  <2>6. CASE w # v
    BY <2>1, <2>2, <2>6, <1>0, Zenon
  <2> QED  BY <2>4, <2>5, <2>6, Zenon
<1>3. ASSUME UNCHANGED available,
             phase'[w] # "ended" \/ (phase'[w] = phase[w] /\ offsets'[w] = offsets[w])
      PROVE  /\ w \notin Reader => available'[w] = 0
             /\ phase'[w] = "ended" => available'[w] <= offsets'[w][w]
  BY <1>0, <1>3, Zenon
<1>4. CASE \E v \in Worker : \/ Open(v) \/ RewindFromSnapshot(v) \/ ReconstructFrontier(v)
                             \/ FinishRewind(v) \/ Autocommit(v)
  <2>1. PICK v \in Worker : \/ Open(v) \/ RewindFromSnapshot(v) \/ ReconstructFrontier(v)
                            \/ FinishRewind(v) \/ Autocommit(v)
    BY <1>4
  <2>2. UNCHANGED available
    BY <2>1, Zenon DEF Open, RewindFromSnapshot, ReconstructFrontier, FinishRewind, Autocommit, durable
  <2>3. CASE Open(v) \/ RewindFromSnapshot(v) \/ ReconstructFrontier(v)
    <3>1. w = v => phase'[w] # "ended"
      BY <2>3, PhaseType, Zenon DEF Open, RewindFromSnapshot, ReconstructFrontier
    <3>2. w # v => phase'[w] = phase[w] /\ offsets'[w] = offsets[w]
      BY <2>3, PhaseType, OffsetsType, Zenon DEF Open, RewindFromSnapshot, ReconstructFrontier
    <3> QED  BY <3>1, <3>2, <2>2, <1>3, Zenon
  <2>4. CASE FinishRewind(v) \/ Autocommit(v)
    <3>1. phase' = [phase EXCEPT ![v] = "run"] /\ UNCHANGED offsets
      BY <2>4, AdvanceEffect
    <3>2. phase'[w] = "run" \/ phase'[w] = phase[w]
      BY <3>1, PhaseType, Zenon
    <3> QED  BY <3>1, <3>2, <2>2, <1>3, Zenon
  <2> QED  BY <2>1, <2>3, <2>4, Zenon
<1>5. CASE \/ \E v \in Worker : SaveMetadata(v)
           \/ \E v \in Worker, s \in Sink : OutputBatches(v, s) \/ CommitSink(v, s)
           \/ \E s \in Delayed : FlushSink(s)
           \/ UNCHANGED vars
  <2>1. UNCHANGED <<available, phase, offsets>>
    BY <1>5, Zenon DEF SaveMetadata, OutputBatches, CommitSink, FlushSink, vars, durable, input
  <2> QED  BY <2>1, <1>3, Zenon
<1>6. CASE Crash \/ Exit
  <2>1. UNCHANGED available /\ phase'[w] = "down"
    BY <1>6 DEF Crash, Exit, FreshProcess
  <2> QED  BY <2>1, <1>3, Zenon
<1> QED  BY <1>1, <1>2, <1>4, <1>5, <1>6, RecoverySteps, Zenon

\* At-least-once delivery: a run that finishes has delivered every row that the source
\* was ever seen to hold, whatever crashes and restarts came before.  The sinks have to
\* complete their flushes, the program does not die in one of the windows, and no flush
\* error is ignored.
THEOREM DeliveredAtLeastOnce ==
    ASSUME Windows = {}, "io_error" \notin FlushOutcomes, Delayed = {}
    PROVE  Spec => []AtLeastOnce
<1>0. Hypotheses
  BY DEF Hypotheses
<1> DEFINE Inv == Base /\ RecoveryInv /\ DeliveryInv /\ AvailableInv
<1>1. Init => Inv
  <2>1. Init => AvailableInv
    BY DEF Init, AvailableInv
  <2> QED  BY <2>1, RecoveryInit, DeliveryInit, Zenon
<1>2. Inv /\ [Next]_vars => Inv'
  <2> SUFFICES ASSUME Inv, [Next]_vars
               PROVE  Inv'
    OBVIOUS
  <2>1. Base' /\ RecoveryInv'
    BY <1>0, RecoveryNext
  <2>2. DeliveryInv'
    BY <1>0, DeliveryNext
  <2>3. AvailableInv'
    BY <2>1, AvailableNext, Zenon
  <2> QED  BY <2>1, <2>2, <2>3, Zenon
<1>3. Inv => AtLeastOnce
  <2> SUFFICES ASSUME Inv, Finished, NEW w \in Worker, NEW s \in Sink, NEW k \in 1 .. available[w]
               PROVE  <<s, <<w, k>>>> \in delivered
    BY Zenon DEF AtLeastOnce
  <2> USE DEF Base
  <2>1. phase[w] = "ended" /\ s \in Sink \ Delayed
    BY Zenon DEF Finished
  <2>2. available[w] <= offsets[w][w] /\ available[w] \in Nat /\ offsets[w][w] \in Nat
    BY <2>1 DEF AvailableInv, TypeOK
  <2>3. {e.row : e \in fed[w]} = 1 .. offsets[w][w]
    BY <2>1, Zenon DEF RecoveryInv, FedInv, Rewound, Seeked
  <2>4. k \in 1 .. offsets[w][w]
    BY <2>2
  <2>5. PICK e \in fed[w] : e.row = k
    BY <2>3, <2>4, Zenon
  <2>6. e.row \in 1 .. NumRows /\ e.time \in 0 .. MaxTime
    BY DEF TypeOK
  <2>7. <<w, e.row>> \in Row
    BY <2>6 DEF Row
  <2>8. PICK u \in Worker : u = Writes(s, w, e.row)
    BY <2>7, ConstantsAssumption, Zenon DEF Writes
  <2>9. sinkTime[u][s] = Done /\ sinkTime[u][s] <= wrote[u][s]
    BY DEF Finished, DeliveryInv, WroteInv
  <2>10. wrote[u][s] \in Nat /\ e.time \in Nat /\ e.time < Done /\ Done \in Nat
    <3>1. wrote[u][s] \in Time
      BY DEF TypeOK
    <3> QED  BY <3>1, <2>6, TimeFacts, Zenon
  <2>11. Passed(s, w, e)
    BY <2>8, <2>9, <2>10 DEF Passed
  <2> QED  BY <2>1, <2>5, <2>11, Zenon DEF DeliveryInv, PassedInv
<1> QED  BY <1>1, <1>2, <1>3, PTL DEF Spec

-----------------------------------------------------------------------------
(* Without a failure nothing is delivered twice.                           *)

\* A failure is not forgotten.
LEMMA DisturbedStays ==
    ASSUME TypeOK, [Next]_vars, ~ disturbed'
    PROVE  ~ disturbed /\ ~ Crash
<1>0. ~ Crash
  BY Zenon DEF Crash
<1>1. CASE UNCHANGED disturbed
  BY <1>0, <1>1, Zenon
<1>2. CASE \E w \in Worker : \/ Open(w) \/ RewindFromSnapshot(w) \/ ReconstructFrontier(w)
                             \/ FinishRewind(w) \/ Autocommit(w)
                             \/ ReadRow(w) \/ FinishSource(w)
  BY <1>1, <1>2, Zenon DEF Open, RewindFromSnapshot, ReconstructFrontier, FinishRewind, Autocommit,
                    ReadRow, FinishSource, history
<1>3. CASE \/ \E w \in Worker, s \in Sink : OutputBatches(w, s)
           \/ \E s \in Delayed : FlushSink(s)
           \/ Exit
           \/ UNCHANGED vars
  BY <1>1, <1>3, Zenon DEF OutputBatches, FlushSink, Exit, vars, history
<1>4. CASE \E outcome : disturbed' = (disturbed \/ outcome # "ok")
  BY <1>0, <1>4, Zenon
<1>5. CASE \E w \in Worker : SaveMetadata(w)
  BY <1>4, <1>5, Zenon DEF SaveMetadata
<1>6. CASE \E w \in Worker, s \in Sink : CommitSink(w, s)
  <2>1. UNCHANGED disturbed \/ \E outcome : disturbed' = (disturbed \/ outcome # "ok")
    BY <1>6 DEF CommitSink
  <2> QED  BY <2>1, <1>1, <1>4, Zenon
<1> QED  BY <1>0, <1>2, <1>3, <1>5, <1>6, RecoverySteps, Zenon

\* Each commit of an undisturbed program is stored, and it is put off only when a later
\* one follows.
LEMMA CommitNext ==
    ASSUME Base, Base', CommitInv, [Next]_vars
    PROVE  CommitInv'
<1> USE DEF Base
<1> SUFFICES ASSUME ~ disturbed', NEW w \in Worker
             PROVE  /\ last'[w] # 0 => meta'[w] = last'[w]
                    /\ Finalized(sinkTime'[w]) = Done => last'[w] = Done \/ pending'[w] = Done
  BY Zenon DEF CommitInv
<1>0. /\ ~ disturbed /\ ~ Crash
      /\ last[w] # 0 => meta[w] = last[w]
      /\ Finalized(sinkTime[w]) = Done => last[w] = Done \/ pending[w] = Done
  BY DisturbedStays, Zenon DEF CommitInv
<1>1. ASSUME meta'[w] = meta[w], last'[w] = last[w], pending'[w] = pending[w], sinkTime'[w] = sinkTime[w]
      PROVE  /\ last'[w] # 0 => meta'[w] = last'[w]
             /\ Finalized(sinkTime'[w]) = Done => last'[w] = Done \/ pending'[w] = Done
  BY <1>0, <1>1, Zenon
<1>2. ASSUME NEW v \in Worker, SaveMetadata(v)
      PROVE  /\ last'[w] # 0 => meta'[w] = last'[w]
             /\ Finalized(sinkTime'[w]) = Done => last'[w] = Done \/ pending'[w] = Done
  <2>1. CASE w # v
    <3>1. meta'[w] = meta[w] /\ last'[w] = last[w] /\ pending'[w] = pending[w] /\ sinkTime'[w] = sinkTime[w]
      BY <1>2, <2>1 DEF SaveMetadata, TypeOK
    <3> QED  BY <3>1, <1>1, Zenon
  <2>2. CASE w = v
    <3>1. PICK outcome \in SaveOutcomes :
             /\ meta' = [meta EXCEPT ![w] = IF outcome = "ok" THEN pending[w] ELSE @]
             /\ disturbed' = (disturbed \/ outcome # "ok")
      BY <1>2, <2>2, Zenon DEF SaveMetadata
    <3>2. outcome = "ok"
      BY <3>1, Zenon
    <3>3. meta'[w] = pending[w] /\ last'[w] = pending[w] /\ sinkTime' = sinkTime /\ pending[w] # Nothing
      BY <3>1, <3>2, <1>2, <2>2, CommitType, SinkTimeType, Zenon DEF SaveMetadata
    <3>4. Finalized(sinkTime[w]) = Done => pending[w] = Done
      <4>1. last[w] < pending[w]
        BY <3>3, Zenon DEF OrderInv
      <4>2. last[w] \in Time /\ pending[w] \in Time
        BY <3>3, Zenon DEF TypeOK
      <4>3. last[w] # Done
        BY <4>1, <4>2, TimeFacts DEF Time
      <4> QED  BY <4>3, <1>0
    <3> QED  BY <3>3, <3>4, Zenon
  <2> QED  BY <2>1, <2>2, Zenon
<1>3. ASSUME NEW v \in Worker, NEW z \in Sink, CommitSink(v, z)
      PROVE  /\ last'[w] # 0 => meta'[w] = last'[w]
             /\ Finalized(sinkTime'[w]) = Done => last'[w] = Done \/ pending'[w] = Done
  <2>0. meta' = meta /\ last' = last
    BY <1>3, Zenon DEF CommitSink
  <2>1. CASE w # v
    <3>1. sinkTime'[w] = sinkTime[w]
      BY <1>3, <2>1, SinkTimeType, Zenon DEF CommitSink
    <3>2. pending'[w] = pending[w]
      <4>1. UNCHANGED pending \/ \E x : pending' = [pending EXCEPT ![v] = x]
        BY <1>3, Zenon DEF CommitSink
      <4> QED  BY <4>1, <2>1, CommitType, Zenon
    <3> QED  BY <3>1, <3>2, <2>0, <1>1, Zenon
  <2>2. CASE w = v
    <3> DEFINE t == Finalized(sinkTime'[w])
    <3>1. \/ t = last[w] \/ (Lazy /\ t # Done)
          \/ \E outcome \in FlushOutcomes :
               /\ disturbed' = (disturbed \/ outcome # "ok")
               /\ pending' = [pending EXCEPT ![w] = IF outcome = "cancelled" THEN Nothing ELSE t]
          \/ t < last[w]
      BY <1>3, <2>2, Zenon DEF CommitSink
    <3>2. ~ (t < last[w])
      <4>1. sinkTime'[w] \in [Sink -> Time]
        BY DEF TypeOK
      <4>2. PICK y \in Sink : t = sinkTime'[w][y]
        BY <4>1, FinalizedFacts, Zenon
      <4>3. last'[w] <= sinkTime'[w][y]
        BY Zenon DEF OrderInv
      <4>4. last[w] \in Nat /\ t \in Nat
        BY <4>1, <4>2, TimeFacts, SinkTimeType, Zenon
      <4> HIDE DEF t
      <4> QED  BY <4>2, <4>3, <4>4, <2>0
    <3>3. CASE t = last[w] \/ (Lazy /\ t # Done)
      BY <3>3, <2>0, <1>0, Zenon
    <3>4. ASSUME NEW outcome \in FlushOutcomes, disturbed' = (disturbed \/ outcome # "ok"),
                 pending' = [pending EXCEPT ![w] = IF outcome = "cancelled" THEN Nothing ELSE t]
          PROVE  pending'[w] = t
      <4>1. outcome = "ok"
        BY <3>4, Zenon
      <4> QED  BY <4>1, <3>4, CommitType, Zenon
    <3> QED  BY <3>1, <3>2, <3>3, <3>4, <2>0, <1>0, Zenon
  <2> QED  BY <2>1, <2>2, Zenon
<1>4. CASE Exit
  <2>1. last'[w] = 0 /\ sinkTime'[w] = [s \in Sink |-> 0]
    BY <1>4, Zenon DEF Exit, FreshProcess, InitialTimestamps
  <2>2. sinkTime'[w] \in [Sink -> Time]
    BY Zenon DEF TypeOK
  <2>3. PICK s \in Sink : Finalized(sinkTime'[w]) = sinkTime'[w][s]
    BY <2>2, FinalizedFacts, Zenon
  <2>4. Done # 0
    BY ConstantsAssumption DEF Done
  <2> QED  BY <2>1, <2>3, <2>4, Zenon
<1>5. CASE UNCHANGED <<meta, output>>
  BY <1>5, <1>1, Zenon DEF output
<1>6. CASE \/ \E v \in Worker, s \in Sink : OutputBatches(v, s)
           \/ \E s \in Delayed : FlushSink(s)
           \/ UNCHANGED vars
  <2>1. UNCHANGED <<meta, last, pending, sinkTime>>
    BY <1>6, Zenon DEF OutputBatches, FlushSink, vars, durable, output
  <2> QED  BY <2>1, <1>1, Zenon
<1>7. CASE \E v \in Worker : \/ Open(v) \/ RewindFromSnapshot(v) \/ ReconstructFrontier(v)
                             \/ FinishRewind(v) \/ Autocommit(v)
                             \/ ReadRow(v) \/ FinishSource(v)
  BY <1>5, <1>7, Zenon DEF Open, RewindFromSnapshot, ReconstructFrontier, FinishRewind, Autocommit,
                    ReadRow, FinishSource, durable
<1> QED  BY <1>0, <1>2, <1>3, <1>4, <1>6, <1>7, RecoverySteps, Zenon

\* Within a run the sinks only advance, and a rewound session only grows.
LEMMA PassedStays ==
    ASSUME Base, Hypotheses, RecoveryInv, DeliveryInv, [Next]_vars, ~ Crash, ~ Exit,
           NEW w \in Worker, Rewound(w), NEW s \in Sink, NEW e \in fed[w], Passed(s, w, e)
    PROVE  e \in fed'[w] /\ Passed(s, w, e)' /\ Rewound(w)'
<1> USE DEF Base, RecoveryInv, DeliveryInv
<1>1. e \in fed'[w] /\ Rewound(w)'
  <2>1. CASE Still(w)
    BY <2>1, StillFacts, Zenon DEF Still
  <2>2. ~ RewindFromSnapshot(w)
    BY Zenon DEF RewindFromSnapshot, Rewound
  <2>3. ASSUME NEW a \in Event, Logs(w, a)
        PROVE  e \in fed'[w] /\ Rewound(w)'
    <3>1. Rewound(w)'
      BY <2>3, Zenon DEF Logs, Rewound
    <3>2. CASE UNCHANGED fed
      BY <3>1, <3>2, Zenon
    <3>3. CASE ReadRow(w)
      <4>1. fed' = [fed EXCEPT ![w] = fed[w] \union
                      {[at |-> Len(log[w]) + 1, row |-> offsets[w][w] + 1, time |-> now[w]]}]
        BY <3>3, ReadEffect, Zenon
      <4> QED  BY <3>1, <4>1, Zenon DEF TypeOK
    <3> QED  BY <2>3, <3>2, <3>3, Zenon DEF Logs
  <2>4. CASE FinishSource(w)
    BY <2>4 DEF FinishSource, Rewound, TypeOK
  <2> QED  BY <2>1, <2>2, <2>3, <2>4, StepEffects, Zenon
<1>2. Passed(s, w, e)'
  <2>0. e.row \in 1 .. NumRows /\ e.time \in 0 .. MaxTime
    BY DEF TypeOK
  <2>1. <<w, e.row>> \in Row
    BY <2>0, Zenon DEF Row
  <2>2. PICK u \in Worker : u = Writes(s, w, e.row)
    BY <2>1, ConstantsAssumption DEF Writes
  <2>3. wrote \in [Worker -> [Sink -> Time]] /\ wrote[u][s] \in Nat
    BY TimeFacts, WroteType, Zenon
  <2>4. wrote'[u][s] = wrote[u][s] \/ wrote'[u][s] = Frontier
    <3>1. CASE wrote' = wrote
      BY <3>1, Zenon
    <3>2. ASSUME NEW x \in Worker, NEW z \in Sink, wrote' = [wrote EXCEPT ![x][z] = Frontier]
          PROVE  wrote'[u][s] = wrote[u][s] \/ wrote'[u][s] = Frontier
      BY <2>3, <3>2, Zenon
    <3> QED  BY <3>1, <3>2, DeliverySteps, Zenon DEF OutputBatches, CommitSink, FlushSink
  <2>5. Frontier \in Nat /\ wrote[u][s] <= Frontier
    <3>1. PICK z \in Worker : Frontier = SessionTime(z)
      BY FrontierFacts, Zenon
    <3> QED  BY <3>1, FrontierFacts, TimeFacts, Zenon DEF WroteInv
  <2>6. wrote[u][s] <= wrote'[u][s] /\ wrote'[u][s] \in Nat
    BY <2>3, <2>4, <2>5
  <2>7. e.time = 0 \/ e.time < wrote[u][s]
    BY <2>2, Zenon DEF Passed
  <2>8. e.time = 0 \/ e.time < wrote'[u][s]
    BY <2>0, <2>3, <2>6, <2>7
  <2> QED  BY <2>2, <2>8, Zenon DEF Passed, Writes
<1> QED  BY <1>1, <1>2, Zenon

\* The rows of a batch come from entries that their sink has not passed, of sessions
\* that are running or have ended.
LEMMA BatchUnpassed ==
    ASSUME TypeOK, NEW u \in Worker, NEW z \in Sink, NEW s, NEW w, NEW k,
           <<s, <<w, k>>>> \in Batch(u, z, wrote[u][z], Frontier)
    PROVE  /\ s = z /\ w \in Worker /\ k \in 1 .. NumRows /\ Rewound(w)
           /\ \E e \in fed[w] : /\ e.row = k /\ ~ Passed(s, w, e)
                                /\ Writes(s, w, k) = u /\ e.time < Frontier
<1>1. PICK r \in Row : /\ <<s, <<w, k>>>> = <<z, r>> /\ Dest[<<z, r>>] = u
                       /\ \E e \in fed[r[1]] : /\ e.row = r[2] /\ e.time # 0
                                               /\ e.time \in wrote[u][z] .. Frontier - 1
  BY Zenon DEF Batch
<1>2. s = z /\ r = <<w, k>> /\ w \in Worker /\ k \in 1 .. NumRows
  BY <1>1 DEF Row
<1>3. PICK e \in fed[w] : e.row = k /\ e.time # 0 /\ e.time \in wrote[u][z] .. Frontier - 1
  BY <1>1, <1>2
<1>4. /\ Frontier \in Nat /\ wrote[u][z] \in Nat /\ e.time \in Nat /\ Frontier <= SessionTime(w)
      /\ SessionTime(w) \in Nat
  <2>1. wrote[u][z] \in Time
    BY Zenon DEF TypeOK
  <2>2. e.time \in 0 .. MaxTime
    BY <1>2 DEF TypeOK
  <2> QED  BY <2>1, <2>2, <1>2, FrontierFacts, TimeFacts, Zenon
<1>5. e.time < Frontier /\ ~ (e.time < wrote[u][z]) /\ SessionTime(w) # 0
  BY <1>3, <1>4
<1>6. Rewound(w)
  BY <1>5, Zenon DEF SessionTime, Rewound
<1>7. Writes(s, w, k) = u
  BY <1>1, <1>2, Zenon DEF Writes
<1>8. ~ Passed(s, w, e)
  BY <1>2, <1>3, <1>5, <1>7, Zenon DEF Passed
<1> QED  BY <1>2, <1>3, <1>5, <1>6, <1>7, <1>8, Zenon

\* The program ends with every block at Done: the next run replays the whole of each log.
LEMMA ExitKeepsAll ==
    ASSUME Base, RecoveryInv, CommitInv, ~ disturbed, Exit, NEW w \in Worker
    PROVE  Kept(w)' = Len(log[w]) /\ log' = log /\ ~ Rewound(w)' /\ Rewound(w)
<1> USE DEF Base, RecoveryInv
<1>1. /\ log' = log /\ meta' = meta /\ phase'[w] = "down" /\ clock < MaxTime /\ Finished
  BY Zenon DEF Exit, FreshProcess
<1>2. \A u \in Worker : meta[u] = Done
  <2> SUFFICES ASSUME NEW u \in Worker
               PROVE  meta[u] = Done
    OBVIOUS
  <2>1. pending[u] = Nothing /\ \A s \in Sink : sinkTime[u][s] = Done
    BY <1>1, Zenon DEF Finished
  <2>2. sinkTime[u] \in [Sink -> Time]
    BY DEF TypeOK
  <2>3. Finalized(sinkTime[u]) = Done
    BY <2>1, <2>2, FinalizedFacts, Zenon
  <2>4. Done # 0 /\ Done # Nothing
    BY ConstantsAssumption DEF Done, Nothing
  <2>5. last[u] = Done
    BY <2>1, <2>3, <2>4, Zenon DEF CommitInv
  <2> QED  BY <2>4, <2>5, Zenon DEF CommitInv
<1>3. MinThreshold(meta) = Done
  <2>1. meta \in [Worker -> Time \union {Nothing}]
    BY DEF TypeOK
  <2>2. \E u \in Worker : meta[u] # Nothing
    BY <1>2, NonEmpty, TimeFacts, Zenon
  <2> QED  BY <1>2, <2>1, <2>2, MinThresholdFacts, Zenon
<1>4. log[w] \in Seq(Event) /\ Len(log[w]) \in Nat /\ clock \in Nat
  BY DEF TypeOK
<1>5. Closing(log[w], Done) = {}
  <2> SUFFICES ASSUME NEW i \in 1 .. Len(log[w]), IsAdv(log[w][i])
               PROVE  ~ (log[w][i].time >= Done)
    BY DEF Closing, IsAdv
  <2>1. log[w][i].time \in Nat
    BY <1>4, LogTimes, Zenon
  <2>2. log[w][i].time <= IF Up(w) /\ (i < Len(log[w]) \/ phase[w] = "run")
                          THEN clock ELSE IF Up(w) THEN clock + 1 ELSE clock
    BY <1>4 DEF TimesInv, TimesOf
  <2>3. log[w][i].time <= clock + 1
    BY <2>1, <2>2, <1>4
  <2> QED  BY <2>1, <2>3, <1>1, <1>4, ConstantsAssumption DEF Done
<1>6. ReadLength(log[w], Done) = Len(log[w])
  BY <1>4, <1>5, ReadLengthFacts, TimeFacts, Zenon
<1>7. Len(Truncated(log[w], Done)) = Len(log[w])
  <2>1. Done # 0 /\ Done \in Time
    BY ConstantsAssumption, TimeFacts DEF Done
  <2> QED  BY <1>4, <1>6, <2>1, TruncatedLength, Zenon
<1>8. ~ Rewound(w)' /\ Rewound(w)
  BY <1>1, Zenon DEF Rewound, Finished
<1>9. Kept(w)' = Len(log[w])
  BY <1>1, <1>3, <1>7, <1>8, Zenon DEF Kept
<1> QED  BY <1>1, <1>8, <1>9, Zenon

\* What has passed its sink, or will be replayed, stays so.
LEMMA SettledStays ==
    ASSUME Base, Hypotheses, RecoveryInv, DeliveryInv, CommitInv, [Next]_vars, ~ disturbed',
           NEW s \in Sink, NEW w \in Worker, NEW k, Settled(s, w, k)
    PROVE  Settled(s, w, k)'
<1> USE DEF Base, RecoveryInv, DeliveryInv
<1>0. ~ disturbed /\ ~ Crash
  BY DisturbedStays, Zenon
<1>1. CASE ~ Exit /\ Rewound(w)
  <2>1. PICK e \in fed[w] : e.row = k /\ Passed(s, w, e)
    BY <1>1, Zenon DEF Settled
  <2>2. e \in fed'[w] /\ Passed(s, w, e)' /\ Rewound(w)'
    BY <2>1, <1>0, <1>1, PassedStays, Zenon
  <2> QED  BY <2>1, <2>2, Zenon DEF Settled
<1>2. CASE Exit
  <2>1. Kept(w)' = Len(log[w]) /\ log' = log /\ ~ Rewound(w)' /\ Rewound(w)
    BY <1>0, <1>2, ExitKeepsAll, Zenon
  <2>2. PICK e \in fed[w] : e.row = k
    BY <2>1, Zenon DEF Settled
  <2>3. k \in RowsIn(log[w], Len(log[w]))
    BY <2>1, <2>2 DEF FedInv
  <2>4. k \in RowsIn(log[w], Kept(w))'
    BY <2>1, <2>3, Zenon
  <2> QED  BY <2>1, <2>4, Zenon DEF Settled
<1>3. CASE ~ Rewound(w) /\ RewindFromSnapshot(w)
  <2>1. k \in RowsIn(log[w], Kept(w))
    BY <1>3, Zenon DEF Settled
  <2>2. PICK i \in 1 .. Kept(w) : IsRow(log[w][i]) /\ k = log[w][i].row
    BY <2>1 DEF RowsIn
  <2>3. /\ log'[w] \in Seq(Event) /\ Len(log'[w]) = Kept(w)
        /\ \A j \in 1 .. Kept(w) : log'[w][j] = log[w][j]
    BY <1>3, RewindKept, Zenon
  <2>4. i \in DOMAIN log'[w] /\ log'[w][i].kind = "row" /\ log'[w][i].row = k
    BY <2>2, <2>3 DEF IsRow
  <2>5. [at |-> i, row |-> log'[w][i].row, time |-> 0] \in fed'[w]
    <3>1. fed' = [fed EXCEPT ![w] = {[at |-> j, row |-> log'[w][j].row, time |-> 0] :
                                        j \in {n \in DOMAIN log'[w] : log'[w][n].kind = "row"}}]
      BY <1>3, Zenon DEF RewindFromSnapshot
    <3>2. fed'[w] = {[at |-> j, row |-> log'[w][j].row, time |-> 0] :
                        j \in {n \in DOMAIN log'[w] : log'[w][n].kind = "row"}}
      BY <3>1, FedType, Zenon
    <3> QED  BY <2>4, <3>2, Zenon
  <2>6. PICK e \in fed'[w] : e.row = k /\ e.time = 0
    BY <2>4, <2>5, Zenon
  <2>7. Rewound(w)'
    BY <1>3, PhaseType, Zenon DEF RewindFromSnapshot, Rewound
  <2>8. Passed(s, w, e)'
    BY <2>6 DEF Passed
  <2> QED  BY <2>6, <2>7, <2>8, Zenon DEF Settled
<1>4. CASE ~ Rewound(w) /\ ~ RewindFromSnapshot(w) /\ ~ Exit
  <2>1. Still(w)
    <3>1. ~ FinishSource(w) /\ \A a \in Event : ~ Logs(w, a)
      BY <1>4, Zenon DEF FinishSource, Logs, Rewound
    <3> QED  BY <3>1, <1>0, <1>4, StepEffects, Zenon
  <2>2. meta' = meta
    <3>1. ~ \E v \in Worker : SaveMetadata(v)
      BY <1>4, CommitNeedsAll, Zenon DEF SaveMetadata, Up, Rewound
    <3> QED  BY <3>1, <1>0, <1>4, StepEffects, Zenon DEF RewindFromSnapshot, Logs, FinishSource
  <2>3. Kept(w)' = Kept(w) /\ log'[w] = log[w] /\ ~ Rewound(w)'
    BY <2>1, <2>2, <1>4, StillKept, StillFacts, Zenon
  <2>4. k \in RowsIn(log[w], Kept(w))
    BY <1>4, Zenon DEF Settled
  <2>5. k \in RowsIn(log[w], Kept(w))'
    BY <2>3, <2>4, Zenon
  <2> QED  BY <2>3, <2>5, Zenon DEF Settled
<1> QED  BY <1>1, <1>2, <1>3, <1>4, Zenon

LEMMA OnceNext ==
    ASSUME Base, Base', Hypotheses, RecoveryInv, DeliveryInv, CommitInv, OnceInv, [Next]_vars
    PROVE  OnceInv'
<1> USE DEF Base
<1> SUFFICES ASSUME ~ disturbed'
             PROVE  /\ twice' = {} /\ delivered' \intersect buffered' = {}
                    /\ \A s \in Sink, w \in Worker, k \in 1 .. NumRows :
                         <<s, <<w, k>>>> \in delivered' \union buffered' => Settled(s, w, k)'
  BY DEF OnceInv
<1>0. ~ disturbed /\ ~ Crash
  BY DisturbedStays, Zenon
<1>1. /\ twice = {} /\ delivered \intersect buffered = {}
      /\ \A s \in Sink, w \in Worker, k \in 1 .. NumRows :
           <<s, <<w, k>>>> \in delivered \union buffered => Settled(s, w, k)
  BY <1>0 DEF OnceInv
<1>2. ASSUME twice' = twice, delivered' \intersect buffered' \subseteq delivered \intersect buffered,
             delivered' \union buffered' \subseteq delivered \union buffered
      PROVE  /\ twice' = {} /\ delivered' \intersect buffered' = {}
             /\ \A s \in Sink, w \in Worker, k \in 1 .. NumRows :
                  <<s, <<w, k>>>> \in delivered' \union buffered' => Settled(s, w, k)'
  BY <1>1, <1>2, SettledStays, Zenon
<1>3. ASSUME NEW u \in Worker, NEW z \in Sink, OutputBatches(u, z)
      PROVE  /\ twice' = {} /\ delivered' \intersect buffered' = {}
             /\ \A s \in Sink, w \in Worker, k \in 1 .. NumRows :
                  <<s, <<w, k>>>> \in delivered' \union buffered' => Settled(s, w, k)'
  <2> DEFINE rows == Batch(u, z, wrote[u][z], Frontier)
  <2>1. rows \intersect (delivered \union buffered) = {}
    <3> SUFFICES ASSUME NEW x \in rows, x \in delivered \union buffered
                 PROVE  FALSE
      BY Zenon
    <3>1. PICK w \in Worker, k \in 1 .. NumRows : x = <<z, <<w, k>>>>
      BY BatchType DEF Row
    <3>2. PICK e \in fed[w] : e.row = k /\ ~ Passed(z, w, e)
      BY <3>1, BatchUnpassed
    <3>3. Rewound(w)
      BY <3>1, BatchUnpassed, Zenon
    <3>4. PICK d \in fed[w] : d.row = k /\ Passed(z, w, d)
      BY <3>1, <3>3, <1>1, Zenon DEF Settled
    <3>5. d = e
      BY <3>2, <3>3, <3>4, Zenon DEF RecoveryInv, FedInv
    <3> QED  BY <3>2, <3>4, <3>5, Zenon
  <2>2. ASSUME NEW s \in Sink, NEW w \in Worker, NEW k \in 1 .. NumRows, <<s, <<w, k>>>> \in rows
        PROVE  Settled(s, w, k)'
    <3>1. /\ s = z /\ Rewound(w)
          /\ \E e \in fed[w] : e.row = k /\ Writes(s, w, k) = u /\ e.time < Frontier
      <4>1. /\ s = z /\ Rewound(w)
            /\ \E e \in fed[w] : /\ e.row = k /\ ~ Passed(s, w, e)
                                 /\ Writes(s, w, k) = u /\ e.time < Frontier
        <5>1. \A x \in Sink, v \in Worker, n \in 1 .. NumRows : <<x, <<v, n>>>> \in rows =>
                 /\ x = z /\ Rewound(v)
                 /\ \E e \in fed[v] : /\ e.row = n /\ ~ Passed(x, v, e)
                                      /\ Writes(x, v, n) = u /\ e.time < Frontier
          BY BatchUnpassed, SMTT(30)
        <5> HIDE DEF rows
        <5> QED  BY <2>2, <5>1, Zenon
      <4> QED  BY <4>1, Zenon
    <3>2. PICK e \in fed[w] : e.row = k /\ Writes(s, w, k) = u /\ e.time < Frontier
      BY <3>1, Zenon
    <3>3. fed' = fed /\ phase' = phase /\ wrote' = [wrote EXCEPT ![u][z] = Frontier]
      BY <1>3, Zenon DEF OutputBatches, input
    <3>4. wrote'[u][s] = Frontier
      BY <3>1, <3>3 DEF TypeOK
    <3>5. PICK F : F = Frontier
      BY Zenon
    <3>6. e.time < wrote'[u][s]
      BY <3>2, <3>4, Zenon
    <3>7. Passed(s, w, e)'
      BY <3>2, <3>6, Zenon DEF Passed, Writes
    <3>8. Rewound(w)'
      BY <3>1, <3>3, Zenon DEF Rewound
    <3> QED  BY <3>2, <3>3, <3>7, <3>8, Zenon DEF Settled
  <2>3. /\ \/ z \in Delayed /\ buffered' = buffered \union rows /\ UNCHANGED <<delivered, twice>>
           \/ /\ z \notin Delayed /\ delivered' = delivered \union rows
              /\ twice' = twice \union (rows \intersect delivered) /\ UNCHANGED buffered
    BY <1>3 DEF OutputBatches, Deliver
  <2> HIDE DEF rows
  <2>4. twice' = {} /\ delivered' \intersect buffered' = {}
    BY <2>1, <2>3, <1>1, Zenon
  <2>5. delivered' \union buffered' = delivered \union buffered \union rows
    BY <2>3
  <2>6. ASSUME NEW s \in Sink, NEW w \in Worker, NEW k \in 1 .. NumRows,
               <<s, <<w, k>>>> \in delivered' \union buffered'
        PROVE  Settled(s, w, k)'
    <3>1. CASE <<s, <<w, k>>>> \in rows
      BY <3>1, <2>2, Zenon
    <3>2. CASE <<s, <<w, k>>>> \in delivered \union buffered
      BY <3>2, <1>1, SettledStays, Zenon
    <3> QED  BY <2>5, <2>6, <3>1, <3>2, Zenon
  <2> QED  BY <2>4, <2>6, Zenon
<1>4. CASE \E z \in Delayed : FlushSink(z)
  <2>1. PICK z \in Delayed : FlushSink(z)
    BY <1>4
  <2> DEFINE rows == {r \in buffered : r[1] = z}
  <2>2. /\ delivered' = delivered \union rows /\ buffered' = buffered \ rows
        /\ twice' = twice \union (rows \intersect delivered) /\ rows \subseteq buffered
    BY <2>1, Zenon DEF FlushSink, Deliver
  <2> HIDE DEF rows
  <2>3. /\ twice' = twice /\ delivered' \union buffered' \subseteq delivered \union buffered
        /\ delivered' \intersect buffered' \subseteq delivered \intersect buffered
    BY <2>2, <1>1, Zenon
  <2> QED  BY <2>3, <1>2, Zenon
<1>5. CASE UNCHANGED <<delivered, buffered, twice>>
  BY <1>5, <1>2, Zenon
<1>6. CASE \E w \in Worker, s \in Sink : CommitSink(w, s)
  BY <1>5, <1>6, Zenon DEF CommitSink
<1>7. CASE Exit
  <2>1. twice' = twice /\ delivered' = delivered /\ buffered' = {}
    BY <1>7 DEF Exit, FreshProcess
  <2> QED  BY <2>1, <1>2, Zenon
<1> QED  BY <1>0, <1>3, <1>4, <1>5, <1>6, <1>7, DeliverySteps, Zenon

\* Exactly-once for graceful termination: until a crash, a failed flush or a failed save
\* happens, no restart delivers a row again.
THEOREM DeliveredOnce ==
    ASSUME Windows = {}, "io_error" \notin FlushOutcomes
    PROVE  Spec => []ExactlyOnceIfUndisturbed
<1>0. Hypotheses
  BY DEF Hypotheses
<1> DEFINE Inv == Base /\ RecoveryInv /\ DeliveryInv /\ CommitInv /\ OnceInv
<1>1. Init => Inv
  <2> SUFFICES ASSUME Init
               PROVE  Inv
    OBVIOUS
  <2>1. Base /\ RecoveryInv /\ DeliveryInv
    BY RecoveryInit, DeliveryInit, Zenon
  <2>2. OnceInv
    BY Zenon DEF Init, OnceInv
  <2>3. CommitInv
    <3> SUFFICES ASSUME NEW w \in Worker
                 PROVE  last[w] = 0 /\ Finalized(sinkTime[w]) # Done
      BY DEF CommitInv
    <3>1. last[w] = 0 /\ sinkTime[w] = [s \in Sink |-> 0]
      BY Zenon DEF Init, InitialTimestamps
    <3>2. sinkTime[w] \in [Sink -> Time]
      BY <2>1, Zenon DEF Base, TypeOK
    <3>3. Finalized(sinkTime[w]) = 0
      BY <3>1, <3>2, FinalizedFacts, Zenon
    <3> QED  BY <3>1, <3>3, DoneFact, Zenon
  <2> QED  BY <2>1, <2>2, <2>3, Zenon
<1>2. Inv /\ [Next]_vars => Inv'
  <2> SUFFICES ASSUME Inv, [Next]_vars
               PROVE  Inv'
    OBVIOUS
  <2>1. Base' /\ RecoveryInv' /\ DeliveryInv'
    BY <1>0, RecoveryNext, DeliveryNext, Zenon
  <2>2. CommitInv'
    BY <2>1, CommitNext, Zenon
  <2>3. OnceInv'
    BY <1>0, <2>1, OnceNext, Zenon
  <2> QED  BY <2>1, <2>2, <2>3, Zenon
<1>3. Inv => ExactlyOnceIfUndisturbed
  BY Zenon DEF OnceInv, ExactlyOnceIfUndisturbed
<1> QED  BY <1>1, <1>2, <1>3, PTL DEF Spec

=============================================================================
