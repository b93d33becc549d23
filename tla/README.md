# Verification of Pathway 0.13

TLA+ models of the engine of Pathway (`src/pathway-0.13.0/src`): its persistence and
recovery, its connectors and threads, and its operators. TLC checks them on small
instances; TLAPS proves twenty-one theorems for all sizes.

## The system

A program runs on several workers (timely threads). A connector reads a source in a
thread of its own, and a poller of the worker's loop feeds the rows to an input
session and closes times. Operators of differential dataflow compute tables from
tables; sinks write the results in threads of their own. The sinks report what they
have finished; when the minimum over the sinks of a worker moves, the snapshot logs
of its inputs are flushed and then the metadata is stored. A restarted program
replays the logs at the artificial time 0, whose output is suppressed, up to the
minimum of the stored times, seeks the sources and goes on.

| Part | Modules | Hard because of |
| --- | --- | --- |
| Persistence and recovery (`persistence`, `connectors/mod.rs`) | Persistence, PersistenceProofs, RecoveryTimes, RecoveryProofs, DeliveryProofs | crashes between any two steps, workers of different speed, failing flushes and saves |
| Snapshot storage (`connectors/snapshot.rs`) | SnapshotEvents, SnapshotLog, SnapshotStore, StoreProofs | truncation file by file, names by time |
| Metadata (`persistence/state.rs`) | MetadataStore, StoreProofs | torn writes, removal while others read |
| Sources (`connectors/data_storage.rs`) | Connector, FileSource, S3Source, SqliteSource, KafkaSource, SourceProofs, ComponentProofs | sources that change while they are read, restarts |
| Formats (`connectors/data_format.rs`, `adaptors.rs`) | Parsers, ChangeCapture | headers per file, defaults and errors, upserts |
| Sinks and observers (`engine/dataflow.rs`, `connectors/monitoring.rs`) | Sinks, Subscribe, Monitoring | retries, buffers, order within a time |
| A process (`engine/dataflow.rs`) | Runtime, ComponentProofs | parks and unparks, one slot for errors |
| Tables and reducers (`engine/dataflow.rs`, `reduce.rs`) | Collections, Values, Tables, Reducers | differences, error and missing values, overflow |
| Operators (`engine/dataflow/operators`) | TimeColumn, PrevNext, GradualBroadcast, ConsistentMap, Deduplicate, ExternalIndex, OperatorProofs | state carried from batch to batch |
| Loops (`engine/dataflow.rs`, `complex_columns.rs`) | Iterate, ComplexColumns | differences that circulate, requests on demand |
| Exported tables (`engine/dataflow/export.rs`) | Export, ComponentProofs | three locks, two threads |
| Expressions and times (`engine/expression.rs`, `time.rs`) | Expressions | errors, laziness, rounding, clock changes |

## Modules

Every module has one action per handler or step; `PROJECT.json` maps each definition
to the lines it stands for. Some correspondences a reader needs:

* **Persistence** composes connector, log, sinks and tracker. `log`, `synced`, `meta`
  and `delivered` survive a crash. A commit is two actions, since the poller appends
  between flush and save. Times are the code's even milliseconds halved. Persistence
  treats log and metadata as atomic; **SnapshotStore**, which refines **SnapshotLog**,
  and **MetadataStore** check when storage justifies that. MetadataStore removes and
  reads keys oldest version first, the order most exposed to removal by others; the
  code takes the order of the listing.
* **Connector** is the channel, the poller and the input session; each source module
  extends it with a reader and with the world that changes beneath. `visible` is the
  table, `taken` what the open time has. The rows carry the version of the file or
  object they come from, so that mixtures can be told apart.
* **ChangeCapture** goes from the changes of a database through messages and events
  to the table of a native or an upsert session; `together` remembers which upserts of
  a document shared a time. **Parsers** maps columns.
* **Sinks** has the output thread, its retries and six writers; the target is what
  an acknowledged write leaves. The formatter notes a header as written before it is,
  so a header whose write fails is not sent by the retry (`headerLost`).
* **Runtime** has the worker loop with `step_or_park`, connector threads, the channel
  of errors and the error log. Parks have tokens, as in Rust.
* **Collections** has the operators of differential dataflow as functions on weighted
  sets (external). **Tables** and **Reducers** are built from them as the code is, and
  compared with definitions on rows.
* **TimeColumn**, **PrevNext** and **GradualBroadcast** keep the batches, traces and
  feedback of the code: the traces are modelled as what the library's cursors show. An
  activation of GradualBroadcast takes all waiting batches, then messages one by one.
* **ConsistentMap** handles a batch as the code does, all deletions and then all
  insertions; **SqliteSource** loads a table in any order that its queries may give.
* **Deduplicate** handles one time per step; `TimesPerBatch` says how far the reducer
  may be ahead of the frontier that is recorded in its snapshot. `counted`,
  `countedAt` and `resumed` are history: the times that the state stands for, the same
  at each event of the snapshot, and the times that restarts came back to.
* **Iterate** is a Variable of differential dataflow by differences, iteration by
  iteration; **ComplexColumns** is the set of events of its iteration.
* **Export** has one action for every lock that is taken.
* **Expressions** evaluates an expression on a row, with integers of `IntBits` bits and
  floats that are exact up to `FloatExact`; arithmetic is that of a release build.

`MCPersistence`, `MCSnapshotStore`, `MCStorage`, `MCOperators` and `MCConnectors`
instantiate these for TLC. In the last three a behaviour exercises one `part`; the
states of the parts are disjoint and the property of a part speaks of its own.

## Runs

| Run | Properties | Shows |
| --- | --- | --- |
| `two_readers` | `TypeOK`, `ThresholdsAgree`, `InputExact`, `ReplayedIsDelivered` | two workers, rows written by the other's sink: one recovery time, exact input, only delivered rows are suppressed |
| `one_worker` | `AtLeastOnce`, `CommittedIsSaved`, `StoredTimeAdvances` | three runs with lazy commits, cancelled flushes, failing saves: nothing lost, log before metadata |
| `two_sinks` | `ExactlyOnceIfUndisturbed`, `FinalizedNeverBehind`, `EventuallyDelivered` | minimum over sinks, exactly-once on graceful restarts, liveness |
| `storage` | `CommittedSurvives`, `RecoversSaved`, `ImplementsLog` | files and objects implement one log; blocks recover the last completed saves |
| `operators` | `OnTime` | buffer, forget and freeze release, retract and drop rows at the right times |
| | `PointersExact`, `BroadcastExact`, `IndexExact` | sorting, gradual broadcast and external index agree with their definitions after each batch; a sorter that lagged behind its trace does once it has caught up, unless it has failed |
| | `ComputedExact` | tables, reducers, iterate, complex columns, snapshots of exported tables |
| | `DeletionsConsistent`, `StateMatchesInput` | a deletion takes what its insertion gave; a deduplication leaves out no row over crashes, and counts again only the rest of a batch that a commit has split |
| | `ExpressionsExact` | errors, laziness, slices, division, tuples, times |
| | `ImportsExact`, `InputsEnd` | an importer has what was exported below its time; buffers drain, importers end |
| `connectors` | `FilesExact`, `ReplacedAtOnce`, `S3Exact`, `KafkaExact` | the table is the source, a file's old and new rows change places in one time |
| | `SqliteStates`, `SqliteCatchesUp`, `TakenIsCommitted` | every visible table was a state of the database; the last state is reached |
| | `ParsedExact`, `DeliveredExact` | parsers; change capture, exact but for the order of upserts that share a time; sinks, subscribers and monitors |
| | `OkIsClean`, `RuntimeEnds` | Ok means no error and no unflushed log; every run ends |

Six further runs are expected to be violated; each shows a disagreement between code
and documentation, quoted in `findings`: `commit_window`, `stale_done`,
`startup_skew`, `delayed_sink` (a row is never delivered), `flush_error` (metadata
stored for a log that was not), `s3_naming` (an S3 log is lost at the second restart).

**The passing runs leave some situations out, by constants that name them**; their
properties hold only outside:

* Persistence: `Windows` (a crash while one worker has metadata and another has not;
  a crash while a Done of an earlier run is stored; a frontier read, under threshold
  Done, from a worker already running), `Delayed`, `"io_error"` in `FlushOutcomes`.
* Storage: `Hazards` of SnapshotStore (`"naming"` is the usual schedule of the code;
  `"removal"` is a crash while S3 objects are removed), `TornFirst`.
* Files: `EditSteps` (a change between listing and opening), `SecondLength` (two
  changes in a second), `StreamingRestarts`, `FullRestarts`. S3: `S3SecondLength`,
  `PolledLines`, `WholeRestarts`. Kafka: `GroupCommits` (offsets that the consumer
  group stored by itself).
* Formats: `BeforeImages` (Postgres without old rows), `HeaderRead`,
  `FieldAbsenceIsError`. Sinks: `ReplayMerges`.
* Operators: `LatePairs`, `QueryUpdates`, `ZoneShifts` of half hours.

With any of these set the other way TLC finds the property of that part violated. The
six runs above include the ones that contradict the documentation; most of the others
are under `hazards` in `PROJECT.json`, at the line where they bite.

Four awkward cases are inside the runs, and the properties say what holds in them: a
sorter whose input trace is ahead of its batch (`BatchesAhead = 1`), a commit between
two times of one batch of a deduplication (`TimesPerBatch = 2`), upserts of a document
that share a time, and a header whose write fails.

## Bounds

`MaxTime` and `MaxRuns` bound clock and starts, `NumRows` the rows of a partition.
Two workers suffice for one to be ahead or without metadata; two runs for a crash and
a recovery, three for a recovery from a recovered state; local files have four since
a truncation that breaks off needs a log of two files. Sources have two files or
partitions, three objects, and enough changes for a file to be replaced, deleted and
put back. Six sort keys in two groups give a row two neighbours on either side, and
`JointKeys` bounds the keys changed by two batches that wait together; four times of a
deduplication make a split batch come before and after a whole one;
three batches let a buffered row be late for one and released by another. Three
limits of an iteration are below, at and above the last one that changes anything.
`IntModulus` and `IntBits` are small so that sums and products wrap, and `FloatExact`
lies below the largest cell, which as a float is another number. `WriteErrors`
reaches the failure of the last retry. The runs of
`storage`, `operators` and `connectors` do not check for deadlock: inputs end and
bounds stop them.

## Fairness

* `two_sinks`: weak fairness of startup, of reading a finite source to its end, of the
  sink threads and of saving, since each is a thread or a poller that is called again,
  and of the restart after an orderly exit. Nothing is assumed of crashes, the timer,
  or flushes succeeding.
* `operators`: timely schedules an operator that has work (the steps of a buffer);
  the threads of export and import run, a parked one only when it has its token. That
  an input ends, or that the exporting dataflow goes on, is not assumed.
* `connectors`: reader threads and pollers run; in Runtime the main thread, awake
  workers, and what a connector thread does at its end. That a source produces, fails
  or ends is not assumed.

## Proofs

All theorems hold for every value of the constants that the named assumptions allow.
Where a property needs one of the situations above to be absent, the theorem says so
in its hypothesis, with the same constant that the runs set.

**PersistenceProofs**, from `ConstantsAssumption` (finite bounds, non-empty sets), for
all workers, sinks, rows and runs, crash windows included:

* `TypeCorrect`.
* `CommitsInOrder`, by `OrderInv`: last commit <= pending commit <= time of every
  sink <= time of every input session. `FinalizedNeverBehind` alone does not say why
  a later commit is later.
* `RecoveryTimeAgreed`, by `StartupInv`: while some worker is still starting, the
  thresholds read are the minimum of the metadata as it is, because a commit needs
  every session past 0 (lemma `CommitNeedsAll`).
* `LogSavedBeforeMetadata`, provided no flush fails silently, by `SavedInv`.
* `StoredTimesAdvance`, by `StoredInv`: a stored time is of this run, or of an earlier
  one and then below all that this run may finalize.

**RecoveryProofs**: `InputRecovered` (`InputExact`), provided `Windows = {}` and no flush
fails silently. `InputExact` speaks of what was replayed and read; why a crash at any
point leaves a log from which that comes out takes five invariants, `RecoveryInv`. They
are stated in PersistenceProofs; RecoveryTimes shows that every step keeps the first
three, RecoveryProofs does so for the others:

* `ShapeInv`: the rows of a log are numbered without gaps, each AdvanceTime holds the
  number of rows before it, and what is replayed ends with an AdvanceTime.
* `TimesInv`: the AdvanceTimes that earlier runs left are below every time of this run
  (but for the last, at which the replay stopped). Without it a later, larger threshold
  could stop at another place than the offset that was sought.
* `CoverInv`: a pending or stored time is covered by a flushed AdvanceTime, or is of an
  earlier run. This is where a silently failing flush breaks the proof.
* `CrossInv`: what one worker's log says of another's partition is no more than that
  worker replays. `frontier_for` takes the larger of the two, so without it rows would
  be skipped.
* `FedInv`: the session holds what the log holds, each row once.

**DeliveryProofs**, under the same hypotheses and on top of `RecoveryInv`:

* `ReplayedDelivered` (`ReplayedIsDelivered`), by `DeliveryInv`: a sink has written no
  further than any session (`WroteInv`), every logged row is in the session, at the
  artificial time or at that of an AdvanceTime before it (`EntryInv`), and what a sink has
  passed is delivered (`PassedInv`). A stored time is below what the sinks passed, so
  what a log holds below it was delivered.
* `DeliveredAtLeastOnce` (`AtLeastOnce`), if also `Delayed = {}`: adds `AvailableInv`,
  that a source which ended has been read to its end.
* `DeliveredOnce` (`ExactlyOnceIfUndisturbed`), by `CommitInv` (without a failure every
  commit reaches the metadata, and the last one is Done) and `OnceInv` (then whatever
  is delivered has passed its sink or will be replayed).

**StoreProofs** has the metadata and the snapshots:

* `RecoversSavedAlways`, from `MetadataAssumption` and `TornFirst = FALSE`, by
  `MetadataInv`. `LastSaved(k)` says that block `k` holds the last completed save of its
  worker; such a block exists for everything inherited or saved, a reader has it still
  to read or has found it, and whatever is removed or overwritten is older (lemmas
  `RemovalHarmless`, `LastSavedStable`).

For the snapshots, from `StoreAssumption` and `Hazards = {}`, for any
number of files, times and starts, on local files and on S3, with crashes between any
two steps of `truncate()`:

* `CommittedKept` (`CommittedSurvives`), by `StoreInv`: the clock is ahead of all file
  names and the writer fills the last file (`NamesInv`); the files begin with what the
  last commit covers, and while `truncate()` is under way those that stay hold just
  that (`KeptInv`).
* `StoreImplementsLog` (`ImplementsLog`): under the mapping of SnapshotStore to
  SnapshotLog, each step is a step of the log or changes nothing there (`LogStep`).
  The log is cut when a process dies; opening, truncating file by file and rewinding
  then change nothing of it.

What reading a directory gives is a recursive function over the names. The lemmas
about it (`ReadOrderExists`, `ReadSame`, `ReadPrefix`, ...) take the least
name at which a claim fails and derive a contradiction (`NatMin`).

**ComponentProofs**:

* `S3ExactAlways` (`S3Exact`), from `S3Assumption`, provided
  `S3SecondLength = 1` and `WholeRestarts = FALSE`, for any objects, broken downloads and
  restarts, by `S3Inv`. Rows are ordered by the object's time and their place in it. What
  is visible, taken, in the channel and in the stream are then four parts, in this order,
  of one initial piece of all rows, and the stored offset is the last row of the first. A
  broken download leaves an initial piece, too, and the join reports it before another
  object is opened. A whole object that breaks off leaves a row that is no part of it
  (`Broken`): this is why such a reader must not be started again.
* `ImportsExactAlways`, from `ExportAssumption`, by `ExportInv`. What is pending on the
  exporting side is never below the exported frontier, and an importer that has read a
  frontier reads the data after it; so a length read later covers all updates below
  the frontier read before. In the other order the step fails.
* `OkIsCleanAlways`, from `RuntimeAssumption`, by `RuntimeInv`: a report stays in the
  channel until the main thread acts on it, a worker past its loop has flushed its
  log, and at Ok no thread is left that could report.

**SourceProofs**:

* `KafkaExactAlways` (`KafkaExact`), provided `GroupCommits = FALSE`, for any
  partitions, messages, errors and restarts, by `KafkaInv`: there are three offsets for
  each partition, up to which messages are visible, taken and sent. The channel holds
  those between the last two, in order; a partition whose consumer is still behind the
  restored offset has nothing in it.
* `SqliteStatesAlways` (`SqliteStates`), from `SqliteAssumption` (finite tables), by
  `SqliteInv`: there is a sequence of tables, one after each entry that is on its way in
  the channel and then in the queue, that leads from the rows taken so far to
  `storedState`. Each is reached by one insertion or deletion that fits, and where no
  block is open it is a state of the database. The invariant needs the whole sequence:
  that the last table is right does not say which of the earlier ones may be closed.

**OperatorProofs**:

* `DeletionsConsistentAlways` (`DeletionsConsistent`), for any keys, values, answers and
  batches, by `MapInv`: there is a sequence of tables of which the waiting batches are
  the differences, from the one whose keys the cache holds to the present one. Then
  every deletion finds its answer and every insertion finds none.
* `BroadcastExactAlways` (`BroadcastExact`), from `BroadcastAssumption` (a value lies
  between its bounds, which may be equal), by `GbInv`: what is shown is always exactly
  the rows taken with the bounds of the operator's triplet, and the waiting messages
  lead from that triplet to the table's. An activation takes all batches before a
  message, so the trace that a correction walks holds just the rows that are shown.
  There is a lemma for each way to correct: the first triplet, the same bucket, an
  adjacent one below or above, and all rows.
* `StateMatchesInputAlways` (`StateMatchesInput`), from `DedupAssumption`, for batches
  of any number of times, by `DedupInv`: the insertions and deletions before each
  AdvanceTime of the snapshot net to the state after the times counted there, the last
  of which is its own (`Kept`), and each AdvanceTime exceeds an earlier one, or zero, by
  no more than a batch (`Near`). So the first that is not below the committed time is
  less than a batch beyond it. The values need not increase: after a restart within a
  batch the rest of it is recorded again. `EachTimeOnceAlways` is the case of one time
  per batch: the state counts the times `1 .. handled`, each once.

Only model-checked:

* the liveness properties (`EventuallyDelivered`, `InputsEnd`, `TakenIsCommitted`,
  `SqliteCatchesUp`, `RuntimeEnds`), which with ENABLED are out of the prover's reach;
* `PointersExact` and `ExpressionsExact`, whose modules declare RECURSIVE operators;
* `ComputedExact`, `IndexExact`, `ParsedExact` and `DeliveredExact`, which compare the
  state with the result of sorting or folding all the data, an induction over data;
* `OnTime`, `FilesExact` and `ReplacedAtOnce`, for which no inductive invariant has been
  worked out.

The library's induction theorems take an operator as a parameter, which the provers
cannot instantiate. Arguments by least counterexample (`NatMin`) take their place for
functions over naturals, as in StoreProofs and for the states of a deduplication.

## Not modelled

* Delegations, handles and type plumbing: most of `graph.rs`, the inner and outer
  graphs of `dataflow.rs`, the conversions of `python_api.rs`. They have no state of
  their own.
* Pure I/O: telemetry, HTTP server, licence, the progress display; readers that hand
  on what a library or Python gives (Python, Delta Lake).
* Values without control: strings, arrays, JSON, hashing, encodings for each target.
* A changed number of workers, errors while a snapshot is read, a clock that is set
  back: the code states no guarantee for them that a property could check.
* The replay modes of a connector, and the vendored timely and differential dataflow
  libraries, which are used through the operators, traces and frontiers they provide.
* What a search library finds; the index is an exact ranking.
