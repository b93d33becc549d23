------------------------------ MODULE Subscribe ------------------------------
(***************************************************************************)
(* subscribe_table of src/engine/dataflow.rs: a table whose changes are    *)
(* handed to callbacks.  All updates are arranged on one worker; a first   *)
(* inspect calls on_data and on_time_end for each time, a second one looks *)
(* at the frontier behind it, on every worker.  An update is               *)
(* <<key, value, diff>>; times are 0, 1, ..., of which 0 is                *)
(* ARTIFICIAL_TIME_ON_REWIND_START.                                        *)
(***************************************************************************)
EXTENDS Integers, Sequences, SequencesExt, FiniteSetsExt

CONSTANTS
    SubKeys, SubValues,
    SubError,       \* the value among them that is an error
    LastSubTime,    \* bound on the times
    SubWorkers      \* workers, of which 0 has the callbacks

VARIABLES
    subTables,      \* history: the table after each time, key -> value, 0 being no row
    skipInitial,    \* skip_persisted_batch, with persistence
    skipErrors,     \* skip_errors
    sealed,         \* times before this are arranged
    sealedBatches,  \* batches of the arrangement, each the times it covers
    outputs,        \* OutputBatches on their way to the first inspect: <<time, updates>>
    calls,          \* history: the calls of callbacks
    sinkTimes,      \* what each worker passed to update_sink_finalized_time
    subState        \* "running" or "failed"

subVars == <<subTables, skipInitial, skipErrors, sealed, sealedBatches, outputs, calls, sinkTimes, subState>>

SubEnd == LastSubTime + 1
SubTable(t) == IF t < 0 THEN [k \in SubKeys |-> 0] ELSE subTables[t]

\* filter_out_errors
Passes(v) == v # 0 /\ ~(skipErrors /\ v = SubError)
ShownAt(t) == {<<k, SubTable(t)[k]>> : k \in {x \in SubKeys : Passes(SubTable(t)[x])}}
UpdatesAt(t) ==
    {<<r[1], r[2], 1>> : r \in ShownAt(t) \ ShownAt(t - 1)} \cup {<<r[1], r[2], -1>> : r \in ShownAt(t - 1) \ ShownAt(t)}

-----------------------------------------------------------------------------
\* The arrangement of worker 0 gives one batch for all times that are complete.
Seal ==
    /\ subState = "running" /\ sealed < SubEnd
    /\ \E f \in sealed + 1 .. SubEnd :
        /\ sealedBatches' = Append(sealedBatches, sealed .. f - 1)
        /\ sealed' = f
    /\ UNCHANGED <<subTables, skipInitial, skipErrors, outputs, calls, sinkTimes, subState>>

\* A batch is ordered by key and value; partition moves the deletions to the front.
BatchOrder(updates) == SetToSortSeq(updates, LAMBDA a, b : a[1] < b[1] \/ (a[1] = b[1] /\ a[2] < b[2]))
Mut_Partition(s) == s
Partition(s) == SelectSeq(s, LAMBDA u : u[3] < 0) \o SelectSeq(s, LAMBDA u : u[3] >= 0)

\* consolidate_for_output with batch_by_time
ConsolidateForOutput ==
    /\ subState = "running" /\ sealedBatches # <<>>
    /\ LET times == SetToSortSeq({t \in Head(sealedBatches) : UpdatesAt(t) # {}}, <)
       IN outputs' = outputs \o [n \in DOMAIN times |-> <<times[n], Partition(BatchOrder(UpdatesAt(times[n])))>>]
    /\ sealedBatches' = Tail(sealedBatches)
    /\ UNCHANGED <<subTables, skipInitial, skipErrors, sealed, calls, sinkTimes, subState>>

\* The first inspect; a callback that fails panics after some of the calls.
SkipBatch(t) == t = 0 /\ skipInitial
CallsFor(b) ==
    IF SkipBatch(b[1]) THEN <<>>
    ELSE Append([n \in DOMAIN b[2] |-> <<"on_data", b[1], b[2][n]>>], <<"on_time_end", b[1], <<>>>>)
Inspect ==
    /\ subState = "running" /\ outputs # <<>>
    /\ LET due == CallsFor(Head(outputs)) IN
        \/ calls' = calls \o due /\ UNCHANGED subState
        \/ \E n \in 1 .. Len(due) : calls' = calls \o SubSeq(due, 1, n - 1) /\ subState' = "failed"
    /\ outputs' = Tail(outputs)
    /\ UNCHANGED <<subTables, skipInitial, skipErrors, sealed, sealedBatches, sinkTimes>>

\* Progress tracking: the frontier passes no batch that the first inspect still has.
FrontierBehind(f) ==
    /\ f <= sealed
    /\ \A n \in DOMAIN sealedBatches : \A t \in sealedBatches[n] : f <= t
    /\ \A n \in DOMAIN outputs : f <= outputs[n][1]

\* The second inspect.
InspectFrontier(w) ==
    /\ subState = "running"
    /\ \E f \in sinkTimes[w] + 1 .. SubEnd :
        /\ FrontierBehind(f)
        /\ calls' = IF w = 0 /\ f = SubEnd THEN Append(calls, <<"on_end", SubEnd, <<>>>>) ELSE calls
        /\ sinkTimes' = [sinkTimes EXCEPT ![w] = f]
    /\ UNCHANGED <<subTables, skipInitial, skipErrors, sealed, sealedBatches, outputs, subState>>

SubInit ==
    /\ subTables \in [0 .. LastSubTime -> [SubKeys -> SubValues \cup {0}]]
    /\ skipInitial \in BOOLEAN /\ skipErrors \in BOOLEAN
    /\ sealed = 0 /\ sealedBatches = <<>> /\ outputs = <<>> /\ calls = <<>>
    /\ sinkTimes = [w \in SubWorkers |-> 0] /\ subState = "running"
SubNext == Seal \/ ConsolidateForOutput \/ Inspect \/ \E w \in SubWorkers : InspectFrontier(w)

-----------------------------------------------------------------------------
Started == IF skipInitial THEN ShownAt(0) ELSE {}
\* the rows that a subscriber who applies the first n calls has
After(n) ==
    FoldLeft(LAMBDA rows, c : CASE c[1] # "on_data" -> rows
                                [] c[3][3] > 0 -> rows \cup {<<c[3][1], c[3][2]>>}
                                [] OTHER -> rows \ {<<c[3][1], c[3][2]>>}, Started, SubSeq(calls, 1, n))

\* A subscriber that applies the calls one by one has at most one row per key at any
\* moment, is asked to delete only what it has, and at each on_time_end has the
\* table of that time; times come in order, and on_end comes once, after all of
\* them.  No worker lets persistence count a time as delivered before its calls.
SubscribedExact ==
    /\ \A n \in DOMAIN calls :
        /\ \A r, q \in After(n) : r[1] = q[1] => r = q
        /\ calls[n][1] = "on_data" /\ calls[n][3][3] < 0 => <<calls[n][3][1], calls[n][3][2]>> \in After(n - 1)
        /\ calls[n][1] # "on_data" => After(n) = ShownAt(IF calls[n][1] = "on_end" THEN LastSubTime ELSE calls[n][2])
        /\ n < Len(calls) =>
            /\ calls[n][1] # "on_end" /\ calls[n][2] <= calls[n + 1][2]
            /\ calls[n][1] = "on_time_end" => calls[n][2] < calls[n + 1][2]
    /\ \A w \in SubWorkers : \A t \in 0 .. sinkTimes[w] - 1 :
        UpdatesAt(t) = {} \/ SkipBatch(t) \/ \E n \in DOMAIN calls : calls[n][1] = "on_time_end" /\ calls[n][2] = t

=============================================================================
