-------------------------------- MODULE Sinks --------------------------------
(***************************************************************************)
(* The output thread of output_table and output_batch in src/engine/       *)
(* dataflow.rs, with the Writers of src/connectors/data_storage.rs and the *)
(* two formatters of data_format.rs that matter for what a target holds:   *)
(* DsvFormatter, which writes a header before its first row, and           *)
(* PsqlSnapshotFormatter, whose queries keep one row per key.              *)
(* An update is <<key, value, time, diff>>.                                *)
(***************************************************************************)
EXTENDS Integers, Sequences, SequencesExt

CONSTANTS
    SinkKinds,        \* writers that are checked
    OutKeys, OutValues,
    MaxTimes,         \* bound on the times that output changes at
    MaxBatchSize,     \* max_batch_size
    OutputRetries,    \* OUTPUT_RETRIES
    WriteErrors,      \* bound on writes that fail
    SinkRestarts,     \* bound on restarts
    ProducerQueue,    \* bound of the Kafka producer's queue
    ReplayMerges      \* whether times are merged when their input is read again

VARIABLES
    sinkKind,         \* "file", "psql", "snapshot", "elastic", "kafka" or "delta"
    outTables,        \* history: the tables of the closed times, key -> value, 0 being no row
    lastTime,         \* the last time of an update
    events,           \* OutputEvents in the channel: <<"Batch", updates>>, <<"Commit", closed times>>
    writing,          \* inside output_batch
    batch,            \* updates of the batch that are still to be written
    attempt,          \* failed attempts to write the first of them
    headerWritten,    \* dsv_header_written
    buffer,           \* what the writer keeps: buffer, docs_buffer, buffered_columns, the producer's queue
    target,           \* what the target holds, in order
    elapsed,          \* min_commit_frequency has passed since last_commit_at, which is set only once
    sent,             \* history: updates taken from the channel in this run
    finalized,        \* closed times of the last Commit
    finalizedSent,    \* history: updates sent when it was handled
    sinkState,        \* "running", "closing", "finished" or "failed"
    headerLost,       \* history: the write of a header has failed in this run
    writeErrors, sinkRestarts

channelVars == <<outTables, lastTime, events>>
writerVars == <<headerWritten, buffer, target>>
commitVars == <<finalized, finalizedSent>>
boundVars == <<sinkKind, headerLost, writeErrors, sinkRestarts>>
sinkVars == <<channelVars, writing, batch, attempt, writerVars, elapsed, sent, commitVars, sinkState, boundVars>>

Header == <<0, 0, 0, 0>>
Ended == <<"Commit", MaxTimes + 1>>
Now == Len(outTables)
TableAt(t) == IF t = 0 THEN [k \in OutKeys |-> 0] ELSE outTables[t]

\* The updates between two tables, as consolidate_for_output gives them.
Updates(a, b, t) ==
    LET changed == {k \in OutKeys : a[k] # b[k]}
    IN {<<k, a[k], t, -1>> : k \in {x \in changed : a[x] # 0}} \cup {<<k, b[k], t, 1>> : k \in {x \in changed : b[x] # 0}}

-----------------------------------------------------------------------------
\* The dataflow closes a time, whose updates come in any order, or ends.
CloseOutputTime ==
    /\ Now < MaxTimes /\ sinkState = "running"
    /\ \E k \in OutKeys, v \in OutValues \cup {0} :
        LET new == [TableAt(Now) EXCEPT ![k] = v] IN
        /\ new # TableAt(Now)
        /\ outTables' = Append(outTables, new)
        /\ \E updates \in SetToSeqs(Updates(TableAt(Now), new, lastTime + 1)) :
            events' = events \o <<<<"Batch", updates>>, <<"Commit", Now + 1>>>>
    /\ lastTime' = lastTime + 1
    /\ UNCHANGED <<writing, batch, attempt, writerVars, elapsed, sent, commitVars, sinkState, boundVars>>
EndOutput ==
    /\ Now = MaxTimes /\ sinkState = "running" /\ Ended \notin Range(events)
    /\ events' = Append(events, Ended)
    /\ UNCHANGED <<outTables, lastTime, writing, batch, attempt, writerVars, elapsed, sent, commitVars, sinkState, boundVars>>

-----------------------------------------------------------------------------
\* output_batch takes a batch ...
TakeBatch ==
    /\ sinkState = "running" /\ ~writing /\ events # <<>> /\ Head(events)[1] = "Batch"
    /\ writing' = TRUE /\ batch' = Head(events)[2] /\ sent' = sent \o Head(events)[2]
    /\ events' = Tail(events)
    /\ UNCHANGED <<outTables, lastTime, attempt, writerVars, elapsed, commitVars, sinkState, boundVars>>

\* ... formats and writes its updates; some writers flush when they hold enough,
\* and Kafka's waits for room in the producer's queue ...
Payloads == IF sinkKind \in {"file", "kafka"} /\ ~headerWritten THEN <<Header, Head(batch)>> ELSE <<Head(batch)>>
FlushesAt(n) == sinkKind \in {"psql", "snapshot", "elastic"} /\ n >= MaxBatchSize
WriteEntry ==
    /\ sinkState = "running" /\ batch # <<>>
    /\ LET kept == buffer \o Payloads IN
        /\ sinkKind = "kafka" => Len(kept) <= ProducerQueue
        /\ IF FlushesAt(Len(kept)) THEN target' = target \o kept /\ buffer' = <<>>
           ELSE buffer' = kept /\ UNCHANGED target
    /\ batch' = Tail(batch) /\ attempt' = 0 /\ headerWritten' = TRUE
    /\ UNCHANGED <<channelVars, writing, elapsed, sent, commitVars, sinkState, boundVars>>

\* ... or fails to, after n payloads; it tries again when the writer is retriable,
\* with what the formatter makes of the update the second time: no header, also
\* when it was the header that could not be written ...
Attempts == IF sinkKind = "kafka" THEN OutputRetries ELSE 1
Mut_KeptAfterError(n) == buffer \o SubSeq(Payloads, 1, n + 1)
KeptAfterError(n) == IF FlushesAt(Len(buffer) + 1) THEN <<>> ELSE buffer \o SubSeq(Payloads, 1, n)
FailWrite ==
    /\ sinkState = "running" /\ batch # <<>> /\ writeErrors < WriteErrors
    /\ \E n \in 0 .. Len(Payloads) - 1 :
        /\ buffer' = KeptAfterError(n)
        /\ headerLost' = (headerLost \/ (n = 0 /\ Len(Payloads) = 2))
    /\ headerWritten' = TRUE /\ writeErrors' = writeErrors + 1 /\ attempt' = attempt + 1
    /\ sinkState' = IF attempt + 1 >= Attempts THEN "failed" ELSE "running"
    /\ UNCHANGED <<channelVars, writing, batch, target, elapsed, sent, commitVars, sinkKind, sinkRestarts>>

\* ... and flushes.  Kafka's writer has no flush.
Mut_Flushes == sinkKind \in {"file", "psql", "snapshot", "delta"}
Flushes == sinkKind \in {"file", "psql", "snapshot", "elastic"} \/ (sinkKind = "delta" /\ elapsed)
FlushBatch ==
    /\ sinkState = "running" /\ writing /\ batch = <<>>
    /\ writing' = FALSE
    /\ IF Flushes THEN target' = target \o buffer /\ buffer' = <<>> ELSE UNCHANGED <<target, buffer>>
    /\ UNCHANGED <<channelVars, batch, attempt, headerWritten, elapsed, sent, commitVars, sinkState, boundVars>>

\* commit_output_time; the end of the output is recorded before the last flush.
CommitTime ==
    /\ sinkState = "running" /\ ~writing /\ events # <<>> /\ Head(events)[1] = "Commit"
    /\ finalized' = Head(events)[2] /\ finalizedSent' = Len(sent) /\ events' = Tail(events)
    /\ sinkState' = IF Head(events) = Ended THEN "closing" ELSE "running"
    /\ UNCHANGED <<outTables, lastTime, writing, batch, attempt, writerVars, elapsed, sent, boundVars>>
\* flush(true), and the drop of the writer, which waits for Kafka's producer.
FinishSink ==
    /\ sinkState = "closing" /\ sinkState' = "finished"
    /\ target' = target \o buffer /\ buffer' = <<>>
    /\ UNCHANGED <<channelVars, writing, batch, attempt, headerWritten, elapsed, sent, commitVars, boundVars>>

\* A producer, or a file's buffer, hands over what it holds in its own time.
HandOver ==
    /\ sinkKind \in {"file", "kafka"} /\ buffer # <<>>
    /\ target' = Append(target, Head(buffer)) /\ buffer' = Tail(buffer)
    /\ UNCHANGED <<channelVars, writing, batch, attempt, headerWritten, elapsed, sent, commitVars, sinkState, boundVars>>
CommitDue ==
    /\ sinkKind = "delta" /\ ~elapsed /\ elapsed' = TRUE
    /\ UNCHANGED <<channelVars, writing, batch, attempt, writerVars, sent, commitVars, sinkState, boundVars>>

\* The program starts again from what was finalized: the input after it is read
\* again and output at later times, time by time or merged into one.
Replay(f, i) ==
    <<<<"Batch", SetToSeq(Updates(TableAt(f), TableAt(i), lastTime + i))>>, <<"Commit", i>>>>
RestartSink ==
    /\ sinkRestarts < SinkRestarts /\ sinkState # "finished" /\ finalized <= MaxTimes
    /\ sinkRestarts' = sinkRestarts + 1
    /\ \E merged \in BOOLEAN :
        /\ merged => ReplayMerges
        /\ events' = IF merged THEN Replay(finalized, Now)
                     ELSE FlattenSeq([i \in 1 .. Now - finalized |-> Replay(finalized + i - 1, finalized + i)])
    /\ lastTime' = lastTime + Now
    /\ writing' = FALSE /\ batch' = <<>> /\ attempt' = 0 /\ headerWritten' = FALSE /\ buffer' = <<>>
    /\ elapsed' = FALSE /\ sent' = <<>> /\ finalizedSent' = 0 /\ sinkState' = "running"
    /\ headerLost' = FALSE
    /\ UNCHANGED <<outTables, target, finalized, sinkKind, writeErrors>>

SinkInit ==
    /\ sinkKind \in SinkKinds /\ outTables = <<>> /\ lastTime = 0 /\ events = <<>> /\ writing = FALSE
    /\ batch = <<>> /\ attempt = 0 /\ headerWritten = FALSE /\ buffer = <<>> /\ target = <<>>
    /\ elapsed = FALSE /\ sent = <<>> /\ finalized = 0 /\ finalizedSent = 0 /\ sinkState = "running"
    /\ headerLost = FALSE /\ writeErrors = 0 /\ sinkRestarts = 0

RunSink == TakeBatch \/ WriteEntry \/ FailWrite \/ FlushBatch \/ CommitTime \/ FinishSink
SinkNext == CloseOutputTime \/ EndOutput \/ RunSink \/ HandOver \/ CommitDue \/ RestartSink

-----------------------------------------------------------------------------
\* What a sink has reported as finalized is in its target: a crash loses none of
\* it.  Held by the writers that flush with each batch.
FinalizedIsDelivered ==
    sinkKind \in {"file", "psql", "snapshot", "elastic"} /\ sinkState \in {"running", "closing"}
    => \A i \in 1 .. finalizedSent : sent[i] \in Range(target)

\* Without restarts the target holds the updates in order and each once, after a
\* header where there is one, over writes that fail and are tried again; and all
\* of them when the sink has finished.  Only a header is not tried again: it is
\* missing if and only if its own write has failed.
DeliveredInOrder ==
    sinkRestarts = 0 =>
    LET expected == (IF sinkKind \in {"file", "kafka"} /\ headerWritten /\ ~headerLost
                     THEN <<Header>> ELSE <<>>) \o sent
    IN /\ IsPrefix(target, expected)
       /\ sinkState = "finished" => target = expected

\* The rows that PsqlSnapshotFormatter's INSERT ... ON CONFLICT ... leaves.
Mut_Replaces(row, u) == row[2] < u[3]
Replaces(row, u) == row[2] < u[3] \/ (row[2] = u[3] /\ row[3] = -1)
ApplyQuery(rows, u) ==
    IF u[1] \in DOMAIN rows /\ ~Replaces(rows[u[1]], u) THEN rows
    ELSE [k \in (DOMAIN rows) \cup {u[1]} |-> IF k = u[1] THEN <<u[2], u[3], u[4]>> ELSE rows[k]]
SnapshotRows == FoldLeft(ApplyQuery, <<>>, target)

\* A snapshot kept in Postgres is the table whenever the sink has caught up: the
\* order of updates within a time, and updates repeated after a restart, included.
SnapshotExact ==
    sinkKind = "snapshot" /\ sinkState # "failed" /\ events = <<>> /\ ~writing =>
    \A k \in OutKeys :
        TableAt(Now)[k] = IF k \in DOMAIN SnapshotRows /\ SnapshotRows[k][3] = 1 THEN SnapshotRows[k][1] ELSE 0

\* What a sink has received, and what the commit may count on.
SinksExact == FinalizedIsDelivered /\ DeliveredInOrder /\ SnapshotExact

=============================================================================
