----------------------------- MODULE Persistence -----------------------------
(***************************************************************************)
(* Persistence and recovery of a Pathway program: the snapshot logs of the *)
(* input connectors, the commit of finalized times to the metadata store,  *)
(* and the rewind that a restarted program performs                        *)
(* (src/persistence, src/connectors/mod.rs, src/connectors/snapshot.rs and *)
(* the output threads of src/engine/dataflow.rs).                          *)
(*                                                                         *)
(* Every worker reads its own partition of one persisted source.  Rows of  *)
(* a partition are numbered 1, 2, 3, ... and the offset of a partition is  *)
(* the number of its last row read.  Times are the even milliseconds of    *)
(* the code divided by two; 0 is ARTIFICIAL_TIME_ON_REWIND_START and Done  *)
(* is TotalFrontier::Done.                                                 *)
(***************************************************************************)
EXTENDS Integers, Sequences, SnapshotEvents

CONSTANTS
    Worker,         \* the workers (timely threads) of the program
    Sink,           \* the output tables; every worker runs a thread for each
    NumRows,        \* rows that a partition may ever hold
    Delayed,        \* sinks whose flush(false) may keep rows (Kafka, Delta Lake)
    Reader,         \* the workers below parallel_readers: they read the source
    Dest,           \* the worker whose sink thread writes a row
    FlushOutcomes,  \* how the flush of a snapshot writer may end
    Lazy,           \* snapshot_interval is positive: commits may be put off
    SaveOutcomes,   \* how the write of a metadata block may end
    Windows,        \* the hazardous moments at which the program may die
    MaxTime,        \* bound: the last reading of the wall clock
    MaxRuns         \* bound: number of times the program is started

Row == Worker \X (1 .. NumRows)

ASSUME ConstantsAssumption ==
    /\ NumRows \in Nat /\ MaxTime \in Nat \ {0} /\ MaxRuns \in Nat \ {0}
    /\ Dest \in [Sink \X Row -> Worker]
    /\ Sink # {} /\ Worker # {} /\ Delayed \subseteq Sink /\ Reader \subseteq Worker
    /\ Lazy \in BOOLEAN
    /\ FlushOutcomes \subseteq {"ok", "cancelled", "io_error"}
    /\ SaveOutcomes \subseteq {"ok", "error"}
    /\ Windows \subseteq {"commit", "done", "startup"}

Done    == MaxTime + 2   \* TotalFrontier::Done, above every At(t)
Nothing == -1            \* no metadata block, or no commit in progress

VARIABLES
    \* Durable: survive a crash.
    log,        \* the snapshot events each worker has written
    synced,     \* how many of them have left the writer's buffer
    meta,       \* last_advanced_timestamp of the worker's newest metadata block
    delivered,  \* rows each sink has handed to the outside world
    clock,      \* last reading of the wall clock
    available,  \* rows that each partition of the source is known to hold
    \* Volatile: the running program.
    phase,      \* startup of a worker's connector
    threshold,  \* past_runs_threshold_times, already minimised
    restored,   \* length of the log after the rewind
    offsets,    \* current_frontier of the worker's connector
    now,        \* current_timestamp of the worker's connector
    fed,        \* rows in the worker's input session, by position in the log
    wrote,      \* a sink thread has written every batch below this time
    buffered,   \* rows written to a sink that still holds them in memory
    sinkTime,   \* sink_threshold_times
    last,       \* last_advanced_timestamp held in memory
    pending,    \* timestamp of a prepared commit whose metadata is not saved
    \* History, read by properties only (and by the bound on runs).
    runs,       \* times the program has been started
    twice,      \* rows some sink has delivered more than once
    disturbed   \* a crash, a failed flush or a failed save has happened

durable  == <<log, synced, meta, delivered, clock, available>>
input    == <<phase, threshold, restored, offsets, now, fed>>
output   == <<wrote, buffered, sinkTime, last, pending>>
history  == <<runs, twice, disturbed>>
vars     == <<durable, input, output, history>>

-----------------------------------------------------------------------------
(* Snapshot logs.                                                          *)

RowEvent(k)    == [kind |-> "row", row |-> k]
AdvEvent(t, f) == [kind |-> "adv", time |-> t, frontier |-> f]

NoOffsets == [w \in Worker |-> 0]

\* last_frontier of a reader after the last event it reads.
Mut_LastFrontier(l, T) ==
    LET advs == {i \in 1 .. ReadLength(l, T) - 1 : l[i].kind = "adv"}
    IN  IF advs = {} THEN NoOffsets
        ELSE l[CHOOSE i \in advs : \A j \in advs : j <= i].frontier
LastFrontier(l, T) ==
    LET advs == {i \in 1 .. ReadLength(l, T) : l[i].kind = "adv"}
    IN  IF advs = {} THEN NoOffsets
        ELSE l[CHOOSE i \in advs : \A j \in advs : j <= i].frontier

\* merge_two_frontiers over a set of frontiers: the furthest offset of each.
MergedFrontier(fs) ==
    [w \in Worker |-> CHOOSE o \in {f[w] : f \in fs} : \A f \in fs : f[w] <= o]

\* The threshold a worker computes from the metadata of the known workers.
Mut_MinThreshold(m) ==
    CHOOSE t \in {m[w] : w \in Worker} \union {0} : t >= 0 /\ \A w \in Worker : t >= m[w]
MinThreshold(m) ==
    LET known == {w \in Worker : m[w] # Nothing}
    IN  IF known = {} THEN 0
        ELSE CHOOSE t \in {m[w] : w \in known} : \A w \in known : t <= m[w]

-----------------------------------------------------------------------------
\* A new MetadataAccessor merges the storage types of past blocks, not their
\* timestamps: the run starts from At(0).
Mut_InitialTimestamps == meta
InitialTimestamps == [w \in Worker |-> 0]

Init ==
    /\ log = [w \in Worker |-> << >>]
    /\ synced = [w \in Worker |-> 0]
    /\ meta = [w \in Worker |-> Nothing]
    /\ delivered = {}
    /\ clock = 1
    /\ available = [w \in Worker |-> 0]
    /\ phase = [w \in Worker |-> "down"]
    /\ threshold = [w \in Worker |-> 0]
    /\ restored = [w \in Worker |-> 0]
    /\ offsets = [w \in Worker |-> NoOffsets]
    /\ now = [w \in Worker |-> 0]
    /\ fed = [w \in Worker |-> {}]
    /\ wrote = [w \in Worker |-> [s \in Sink |-> 0]]
    /\ buffered = {}
    /\ sinkTime = [w \in Worker |-> [s \in Sink |-> 0]]
    /\ last = InitialTimestamps
    /\ pending = [w \in Worker |-> Nothing]
    /\ runs = 1
    /\ twice = {} /\ disturbed = FALSE

(* Startup of a worker.                                                    *)

\* WorkerPersistentStorage::new reads the metadata of all workers.
Open(w) ==
    /\ phase[w] = "down"
    /\ phase' = [phase EXCEPT ![w] = "opened"]
    /\ threshold' = [threshold EXCEPT ![w] = MinThreshold(meta)]
    /\ UNCHANGED <<durable, restored, offsets, now, fed, output, history>>

\* The connector thread replays the worker's own log at time 0 and truncates
\* what lies beyond the threshold.
RewindFromSnapshot(w) ==
    /\ phase[w] = "opened"
    /\ phase' = [phase EXCEPT ![w] = "rewound"]
    /\ log' = [log EXCEPT ![w] = Truncated(@, threshold[w])]
    /\ synced' = [synced EXCEPT ![w] = Len(log'[w])]
    /\ restored' = [restored EXCEPT ![w] = Len(log'[w])]
    /\ fed' = [fed EXCEPT ![w] =
                 {[at |-> i, row |-> log'[w][i].row, time |-> 0] :
                     i \in {j \in DOMAIN log'[w] : log'[w][j].kind = "row"}}]
    /\ UNCHANGED <<meta, delivered, clock, available, threshold, offsets, now, output,
                   history>>

\* A reader without an upper limit takes in events that another worker, which has
\* started earlier, has logged after its own rewind.
SeesRunningWorker(w, seen) ==
    /\ threshold[w] = Done
    /\ \E u \in Worker : phase[u] \in {"run", "ended"} /\ seen[u] > restored[u] + 1

\* frontier_for reads the logs of all workers, some of which may already be
\* past their rewind and writing: it sees what has left their buffers.
ReconstructFrontier(w) ==
    /\ phase[w] = "rewound"
    /\ phase' = [phase EXCEPT ![w] = "seeked"]
    /\ \E seen \in [Worker -> UNION {synced[u] .. Len(log[u]) : u \in Worker}] :
         /\ \A u \in Worker : seen[u] \in synced[u] .. Len(log[u])
         /\ SeesRunningWorker(w, seen) => "startup" \in Windows
         /\ synced' = seen
         /\ offsets' = [offsets EXCEPT ![w] =
              MergedFrontier({LastFrontier(SubSeq(log[u], 1, seen[u]), threshold[w]) :
                                u \in Worker})]
    /\ UNCHANGED <<log, meta, delivered, clock, available, threshold, restored, now,
                   fed, output, history>>

\* Connector::advance_time and the AdvanceTime event it puts into the log.  The
\* wall clock is read here, and does not run backwards.
Mut_AdvanceTimeTo(w, t) ==
    /\ t > now[w]
    /\ UNCHANGED clock
    /\ now' = [now EXCEPT ![w] = t]
    /\ log' = [log EXCEPT ![w] = Append(@, AdvEvent(t, offsets[w]))]
AdvanceTimeTo(w, t) ==
    /\ t \in {clock, clock + 1} /\ t <= MaxTime
    /\ clock' = t
    /\ now' = [now EXCEPT ![w] = t]
    /\ log' = [log EXCEPT ![w] = Append(@, AdvEvent(t, offsets[w]))]

\* The poller takes the RewindFinishSentinel: backfilling is finished.
FinishRewind(w) ==
    /\ phase[w] = "seeked"
    /\ phase' = [phase EXCEPT ![w] = "run"]
    /\ \E t \in 1 .. MaxTime : AdvanceTimeTo(w, t)
    /\ UNCHANGED <<synced, meta, delivered, available, threshold, restored, offsets,
                   fed, output, history>>

-----------------------------------------------------------------------------
(* The running input connector (the poller, in the worker's main thread).  *)

\* A row is logged, fed into the session at the current time, and only then
\* counted in current_frontier.  A row that was not known before has been
\* appended to the source meanwhile.
ReadRow(w) ==
    LET k == offsets[w][w] + 1
    IN  /\ phase[w] = "run"
        /\ w \in Reader /\ k <= NumRows
        /\ log' = [log EXCEPT ![w] = Append(@, RowEvent(k))]
        /\ fed' = [fed EXCEPT ![w] = @ \union
                     {[at |-> Len(log[w]) + 1, row |-> k, time |-> now[w]]}]
        /\ offsets' = [offsets EXCEPT ![w][w] = k]
        /\ available' = [available EXCEPT ![w] = IF k > @ THEN k ELSE @]
        /\ UNCHANGED <<synced, meta, delivered, clock, phase, threshold, restored, now,
                       output, history>>

\* The autocommit timer, or the end of an atomic data source.  One that would
\* log the last event again is left out: every reader sees the same.
Autocommit(w) ==
    /\ phase[w] = "run" /\ w \in Reader
    /\ \E t \in 1 .. MaxTime : /\ AdvanceTimeTo(w, t)
                              /\ AdvEvent(t, offsets[w]) # log[w][Len(log[w])]
    /\ UNCHANGED <<synced, meta, delivered, available, phase, threshold, restored,
                   offsets, fed, output, history>>

\* ReadResult::Finished: a last AdvanceTime, one time unit ahead, is logged
\* and the input session is dropped.  The thread of a worker that reads no
\* source just hangs up after the rewind.
Mut_FinishSource(w) ==
    /\ phase[w] = "run"
    /\ w \in Reader => offsets[w][w] >= available[w]
    /\ UNCHANGED vars
FinishSource(w) ==
    /\ phase[w] = "run"
    /\ w \in Reader => offsets[w][w] >= available[w]
    /\ phase' = [phase EXCEPT ![w] = "ended"]
    /\ log' = IF w \in Reader
              THEN [log EXCEPT ![w] = Append(@, AdvEvent(now[w] + 1, offsets[w]))]
              ELSE log
    /\ UNCHANGED <<synced, meta, delivered, clock, available, threshold, restored,
                   offsets, now, fed, output, history>>

-----------------------------------------------------------------------------
(* Output threads and commits.                                             *)

Mut_SessionTime(w) == IF phase[w] = "run" THEN now[w] ELSE Done
SessionTime(w) ==
    CASE phase[w] = "ended" -> Done
      [] phase[w] = "run"   -> now[w]
      [] OTHER              -> 0

\* The time below which the dataflow has finished: no input session can
\* produce anything earlier.
Frontier == CHOOSE t \in {SessionTime(w) : w \in Worker} :
                \A w \in Worker : t <= SessionTime(w)

\* The rows of the dataflow that sink s of worker w writes in batches with
\* lo <= time < hi.  Batches at the artificial time of the rewind are skipped.
Mut_BatchSkipsFirst(w, s, lo, hi) ==
    {<<s, r>> : r \in {r \in Row : \E e \in fed[r[1]] :
        Dest[<<s, r>>] = w /\ e.row = r[2] /\ e.time # 0 /\ e.time \in lo + 1 .. hi - 1}}
Mut_BatchRepeatsRewind(w, s, lo, hi) ==
    {<<s, r>> : r \in {r \in Row : \E e \in fed[r[1]] :
        Dest[<<s, r>>] = w /\ e.row = r[2] /\ e.time \in lo .. hi - 1}}
Batch(w, s, lo, hi) ==
    {<<s, r>> : r \in {r \in Row :
        /\ Dest[<<s, r>>] = w
        /\ \E e \in fed[r[1]] : e.row = r[2] /\ e.time # 0 /\ e.time \in lo .. hi - 1}}

\* Rows leave the program for good.
Deliver(rows) ==
    /\ delivered' = delivered \union rows
    /\ twice' = twice \union (rows \intersect delivered)

\* The sink thread receives and writes the batches below the frontier.
OutputBatches(w, s) ==
    LET rows == Batch(w, s, wrote[w][s], Frontier)
    IN  /\ rows # {}
        /\ IF s \in Delayed
           THEN buffered' = buffered \union rows /\ UNCHANGED <<delivered, twice>>
           ELSE Deliver(rows) /\ UNCHANGED buffered
        /\ wrote' = [wrote EXCEPT ![w][s] = Frontier]
        /\ UNCHANGED <<log, synced, meta, clock, available, input, sinkTime, last,
                       pending, runs, disturbed>>

\* A sink lets go of its buffer: a background producer, a later flush(false), or
\* the flush(true) that follows the last commit.
FlushSink(s) ==
    LET rows == {r \in buffered : r[1] = s}
    IN  /\ rows # {}
        /\ Deliver(rows)
        /\ buffered' = buffered \ rows
        /\ UNCHANGED <<log, synced, meta, clock, available, input, wrote, sinkTime,
                       last, pending, runs, disturbed>>

\* The time a worker has finalized: the minimum over its sinks.
Finalized(st) == CHOOSE t \in {st[s] : s \in Sink} : \A s \in Sink : t <= st[s]

\* How much of the log is out of the writer's buffer after a flush.
Mut_SyncedByFlush(w, outcome) == synced[w]
Mut_SyncedByLongFlush(w, outcome) == Len(log[w]) + 1
SyncedByFlush(w, outcome) == IF outcome = "ok" THEN Len(log[w]) ELSE synced[w]

\* The sink thread receives Commit(frontier), behind the batches below it:
\* update_sink_finalized_time up to the end of prepare().  The worker's storage
\* stays locked until the metadata is saved, the log does not.  Whether
\* snapshot_interval has passed is up to the wall clock.
CommitSink(w, s) ==
    /\ pending[w] = Nothing
    /\ Frontier > sinkTime[w][s]
    /\ Batch(w, s, wrote[w][s], Frontier) = {}
    /\ sinkTime' = [sinkTime EXCEPT ![w][s] = Frontier]
    /\ wrote' = [wrote EXCEPT ![w][s] = Frontier]
    /\ LET t == Finalized(sinkTime'[w])
       IN  \/ /\ t = last[w] \/ (Lazy /\ t # Done)
              /\ UNCHANGED <<synced, pending, disturbed>>
           \/ /\ t > last[w]
              /\ \E outcome \in FlushOutcomes :
                   /\ disturbed' = (disturbed \/ outcome # "ok")
                   /\ synced' = [synced EXCEPT ![w] = SyncedByFlush(w, outcome)]
                   /\ pending' = [pending EXCEPT ![w] =
                                    IF outcome = "cancelled" THEN Nothing ELSE t]
           \/ /\ t < last[w]
              /\ pending' = [pending EXCEPT ![w] = last[w]]
              /\ UNCHANGED <<synced, disturbed>>
    /\ UNCHANGED <<log, meta, delivered, clock, available, input, buffered, last, runs,
                   twice>>

\* commit_finalized_timestamp: the block is stored.  When put_value fails, the
\* error is logged and the timestamp in memory has moved all the same.
SaveMetadata(w) ==
    /\ pending[w] # Nothing
    /\ \E outcome \in SaveOutcomes :
         /\ meta' = [meta EXCEPT ![w] = IF outcome = "ok" THEN pending[w] ELSE @]
         /\ disturbed' = (disturbed \/ outcome # "ok")
    /\ last' = [last EXCEPT ![w] = pending[w]]
    /\ pending' = [pending EXCEPT ![w] = Nothing]
    /\ UNCHANGED <<log, synced, delivered, clock, available, input, wrote, buffered,
                   sinkTime, runs, twice>>

-----------------------------------------------------------------------------
(* The end of a run.  Afterwards the program is started again.             *)

\* What a new process knows before it opens the storage.  Starting it takes
\* longer than one time unit.
FreshProcess ==
    /\ clock < MaxTime
    /\ clock' = clock + 1
    /\ phase' = [w \in Worker |-> "down"]
    /\ threshold' = [w \in Worker |-> 0]
    /\ restored' = [w \in Worker |-> 0]
    /\ offsets' = [w \in Worker |-> NoOffsets]
    /\ now' = [w \in Worker |-> 0]
    /\ fed' = [w \in Worker |-> {}]
    /\ wrote' = [w \in Worker |-> [s \in Sink |-> 0]]
    /\ buffered' = {}
    /\ sinkTime' = [w \in Worker |-> [s \in Sink |-> 0]]
    /\ last' = InitialTimestamps
    /\ pending' = [w \in Worker |-> Nothing]
    /\ runs < MaxRuns
    /\ runs' = runs + 1

\* Some worker has stored a finalized time and another has never done so:
\* the other one does not take part in MinThreshold.
CommitWindow == \E u, v \in Worker : meta[u] # Nothing /\ meta[v] = Nothing

\* A block still says Done, which an earlier run stored: it does not limit the
\* threshold to what the present run has finalized.
StaleDone == \E w \in Worker : meta[w] = Done /\ last[w] # Done

\* The program dies.  Of each log survives what has left the writer's buffer.
Crash ==
    /\ \E w \in Worker : phase[w] # "down"
    /\ CommitWindow => "commit" \in Windows
    /\ StaleDone => "done" \in Windows
    /\ FreshProcess
    /\ \E kept \in [Worker -> UNION {synced[w] .. Len(log[w]) : w \in Worker}] :
         /\ \A w \in Worker : kept[w] \in synced[w] .. Len(log[w])
         /\ synced' = kept
         /\ log' = [w \in Worker |-> SubSeq(log[w], 1, kept[w])]
    /\ disturbed' = TRUE
    /\ UNCHANGED <<meta, delivered, available, twice>>

\* Every session has ended, every sink thread has committed Done and exited:
\* the writers are dropped, which empties their buffers.
Finished ==
    /\ \A w \in Worker : /\ phase[w] = "ended"
                         /\ pending[w] = Nothing
                         /\ \A s \in Sink : sinkTime[w][s] = Done
    /\ buffered = {}

Exit ==
    /\ Finished
    /\ FreshProcess
    /\ synced' = [w \in Worker |-> Len(log[w])]
    /\ UNCHANGED <<log, meta, delivered, available, twice, disturbed>>

\* The last run has ended.
Terminated ==
    /\ Finished
    /\ runs = MaxRuns \/ clock = MaxTime
    /\ UNCHANGED vars

WorkerStep(w) ==
    \/ Open(w) \/ RewindFromSnapshot(w) \/ ReconstructFrontier(w) \/ FinishRewind(w)
    \/ ReadRow(w) \/ Autocommit(w) \/ FinishSource(w)
    \/ \E s \in Sink : OutputBatches(w, s) \/ CommitSink(w, s)
    \/ SaveMetadata(w)

Next ==
    \/ \E w \in Worker : WorkerStep(w)
    \/ \E s \in Delayed : FlushSink(s)
    \/ Crash
    \/ Exit
    \/ Terminated

Spec == Init /\ [][Next]_vars

\* The threads of a running program are scheduled: startup completes, a finite
\* source reports its end, batches are written and commits are tried.
Fairness ==
    /\ \A w \in Worker :
         /\ WF_vars(Open(w) \/ RewindFromSnapshot(w) \/ ReconstructFrontier(w)
                    \/ FinishRewind(w))
         /\ WF_vars(ReadRow(w) \/ FinishSource(w))
         /\ WF_vars(SaveMetadata(w))
         /\ \A s \in Sink : /\ WF_vars(OutputBatches(w, s))
                             /\ WF_vars(CommitSink(w, s))
    /\ \A s \in Delayed : WF_vars(FlushSink(s))
    /\ WF_vars(Exit)

FairSpec == Spec /\ Fairness

-----------------------------------------------------------------------------
(* Properties.                                                             *)

Event ==
    [kind : {"row"}, row : 1 .. NumRows]
      \union [kind : {"adv"}, time : 1 .. Done, frontier : [Worker -> 0 .. NumRows]]

Time == 0 .. Done

\* The types of the variables.
TypeOK ==
    /\ log \in [Worker -> Seq(Event)]
    /\ synced \in [Worker -> Nat]
    /\ \A w \in Worker : synced[w] <= Len(log[w])
    /\ meta \in [Worker -> Time \union {Nothing}]
    /\ delivered \subseteq Sink \X Row
    /\ clock \in 1 .. MaxTime
    /\ available \in [Worker -> 0 .. NumRows]
    /\ phase \in [Worker -> {"down", "opened", "rewound", "seeked", "run", "ended"}]
    /\ threshold \in [Worker -> Time]
    /\ restored \in [Worker -> Nat]
    /\ offsets \in [Worker -> [Worker -> 0 .. NumRows]]
    /\ now \in [Worker -> 0 .. MaxTime]
    /\ fed \in [Worker -> SUBSET [at : Nat, row : 1 .. NumRows, time : 0 .. MaxTime]]
    /\ wrote \in [Worker -> [Sink -> Time]]
    /\ buffered \subseteq Delayed \X Row
    /\ sinkTime \in [Worker -> [Sink -> Time]]
    /\ last \in [Worker -> Time]
    /\ pending \in [Worker -> Time \union {Nothing}]
    /\ runs \in 1 .. MaxRuns
    /\ twice \subseteq Sink \X Row
    /\ disturbed \in BOOLEAN

\* All workers of a run recover to the same time, although they read the
\* metadata one after another while others may already be running: a commit
\* needs a frontier above 0, hence every worker past its rewind.
ThresholdsAgree ==
    \A u, v \in Worker :
        phase[u] # "down" /\ phase[v] # "down" => threshold[u] = threshold[v]

\* Recovery rebuilds the input exactly: when the source has been seeked, the rows
\* replayed from the log and the rows read since are the rows 1 .. offset of the
\* partition, each fed once.  A row that is both replayed and read again, or
\* neither, is a state that no uninterrupted run has.
InputExact ==
    \A w \in Worker : phase[w] \in {"seeked", "run", "ended"} =>
        /\ {e.row : e \in fed[w]} = 1 .. offsets[w][w]
        /\ \A d, e \in fed[w] : d.row = e.row => d = e

\* A row replayed at the artificial time is not output again, so it has to be
\* delivered already, by every sink whose flush is complete.
ReplayedIsDelivered ==
    \A w \in Worker : \A e \in fed[w] : e.time = 0 =>
        \A s \in Sink \ Delayed : <<s, <<w, e.row>>>> \in delivered

\* Metadata is stored after the log: when a commit has been prepared, every row
\* with a time it finalizes has left the writer's buffer.
CommittedIsSaved ==
    \A w \in Worker : pending[w] # Nothing =>
        \A e \in fed[w] : e.time < pending[w] => e.at <= synced[w]

\* At-least-once delivery: a run that finishes has delivered every row that the
\* source was ever seen to hold, in this run or in one before a crash.
AtLeastOnce ==
    Finished => \A w \in Worker, s \in Sink : \A k \in 1 .. available[w] :
                    <<s, <<w, k>>>> \in delivered

\* Exactly-once for graceful termination: as long as no crash, failed flush or
\* failed save has happened, restarts deliver nothing again.
ExactlyOnceIfUndisturbed == disturbed \/ twice = {}

\* The error branch of accept_finalized_timestamp ("Time isn't in the increasing
\* order") is dead: what the sinks have finalized never falls below the commit.
FinalizedNeverBehind ==
    \A w \in Worker : Finalized(sinkTime[w]) >= last[w]

\* A stored time is replaced by a later one, also across restarts; only Done is
\* replaced by the times of a run that continues a finished one.
StoredTimeAdvances ==
    [][\A w \in Worker : meta[w] = Done \/ meta[w] <= meta'[w]]_vars

\* Every row taken from the source is delivered in the end, also when the program
\* dies and is started again before that.
EventuallyDelivered ==
    \A w \in Worker, s \in Sink \ Delayed, k \in 1 .. NumRows :
        (\E e \in fed[w] : e.row = k) ~> (<<s, <<w, k>>>> \in delivered)

=============================================================================
