-------------------------------- MODULE Export --------------------------------
(***************************************************************************)
(* export_table and import_table of src/engine/dataflow/export.rs: a table *)
(* that one dataflow writes and others read.  The two sides share a vector *)
(* of updates, a frontier and a flag, each behind a lock of its own; the   *)
(* importing thread sleeps until the exporting one unparks it.  Times are  *)
(* 1, 2, ...; the frontier ExportDone stands for TotalFrontier::Done.      *)
(***************************************************************************)
EXTENDS Naturals, Integers, Sequences, Functions

CONSTANTS
    ExportKeys,     \* rows of the table
    ExportTimes,    \* bound on the times at which it changes
    Importers       \* the dataflows that import it

ASSUME ExportAssumption == ExportTimes \in Nat \ {0}

VARIABLES
    tableHistory,   \* the rows after each time
    exData,         \* ExportedTable::data, <<key, time, diff>>
    exFrontier, exFailed, consumers,
    exporter,       \* where the exporting thread is
    importer,       \* where each importing thread is
    imToken,        \* its unpark token
    offset,         \* updates it has taken
    seenFrontier, seenLength,    \* what it has read in this poll
    sessionTime     \* the time of its input session

exportedVars == <<exData, exFrontier, exFailed, consumers>>
importVars == <<offset, seenFrontier, seenLength, sessionTime>>
exVars == <<tableHistory, exportedVars, exporter, importer, imToken, importVars>>

ExportDone == ExportTimes + 1
RowsAt(t) == IF t = 0 THEN {} ELSE tableHistory[t]

\* The updates of the table, which reach the export in any order from the frontier on.
ExportUpdates ==
    UNION {{<<k, t, -1>> : k \in RowsAt(t - 1) \ RowsAt(t)} \cup {<<k, t, 1>> : k \in RowsAt(t) \ RowsAt(t - 1)}
           : t \in 1 .. ExportTimes}
Pending == ExportUpdates \ Range(exData)

-----------------------------------------------------------------------------
(* The exporting thread. *)

\* The inspect_batch of export_table: push, whose notify is the next step.
PushData ==
    /\ exporter = "run"
    /\ \E u \in Pending : exData' = Append(exData, u)
    /\ exporter' = "notify"
    /\ UNCHANGED <<tableHistory, exFrontier, exFailed, consumers, importer, imToken, importVars>>

\* Its inspect_core: the frontier passes no update that is still to come.
AdvanceExport ==
    /\ exporter = "run"
    /\ \E f \in exFrontier + 1 .. ExportDone :
        /\ \A u \in Pending : f <= u[2]
        /\ exFrontier' = f
    /\ exporter' = "notify"
    /\ UNCHANGED <<tableHistory, exData, exFailed, consumers, importer, imToken, importVars>>

Notify ==
    /\ exporter = "notify"
    /\ imToken' = [i \in Importers |-> imToken[i] \/ i \in consumers]
    /\ exporter' = IF exFailed THEN "gone" ELSE "run"
    /\ UNCHANGED <<tableHistory, exportedVars, importer, importVars>>

Mut_AfterFailing == "gone"
AfterFailing == "notify"

\* mark_finished, when the dataflow is dropped: after its end, or before it.
MarkFinished ==
    /\ exporter = "run"
    /\ exFailed' = (exFrontier # ExportDone)
    /\ exporter' = IF exFrontier = ExportDone THEN "gone" ELSE AfterFailing
    /\ UNCHANGED <<tableHistory, exData, exFrontier, consumers, importer, imToken, importVars>>

\* ExportedTable::snapshot_at: how often each key is there.
CountAt(f, k) == FoldFunction(LAMBDA u, n : IF u[1] = k /\ u[2] < f THEN n + u[3] ELSE n, 0, exData)

-----------------------------------------------------------------------------
(* An importing thread: import_table subscribes, then the poller is called in *)
(* every turn of the worker's loop.                                           *)
Mut_AfterStep(s) == CASE s = "poll" -> "data" [] s = "data" -> "frontier" [] s = "frontier" -> "apply"
AfterStep(s) == CASE s = "poll" -> "frontier" [] s = "frontier" -> "data" [] s = "data" -> "apply"
Goto(i, s) == importer' = [importer EXCEPT ![i] = s]

ImportTable(i) ==
    /\ importer[i] = "new"
    /\ consumers' = consumers \cup {i}
    /\ Goto(i, "poll")
    /\ UNCHANGED <<tableHistory, exData, exFrontier, exFailed, exporter, imToken, importVars>>

CheckFailed(i) ==
    /\ importer[i] = "poll"
    /\ Goto(i, IF exFailed THEN "ImportedTableFailed" ELSE AfterStep("poll"))
    /\ UNCHANGED <<tableHistory, exportedVars, exporter, imToken, importVars>>

ReadFrontier(i) ==
    /\ importer[i] = "frontier"
    /\ seenFrontier' = [seenFrontier EXCEPT ![i] = exFrontier]
    /\ Goto(i, AfterStep("frontier"))
    /\ UNCHANGED <<tableHistory, exportedVars, exporter, imToken, offset, seenLength, sessionTime>>

DataFromOffset(i) ==
    /\ importer[i] = "data"
    /\ seenLength' = [seenLength EXCEPT ![i] = Len(exData)]
    /\ Goto(i, AfterStep("data"))
    /\ UNCHANGED <<tableHistory, exportedVars, exporter, imToken, offset, seenFrontier, sessionTime>>

\* update_at, which asserts that an update is not before the session, and advance_to
Apply(i) ==
    /\ importer[i] = "apply"
    /\ IF \E n \in offset[i] + 1 .. seenLength[i] : exData[n][2] < sessionTime[i]
       THEN Goto(i, "assertion") /\ UNCHANGED <<offset, sessionTime>>
       ELSE /\ offset' = [offset EXCEPT ![i] = seenLength[i]]
            /\ sessionTime' = [sessionTime EXCEPT ![i] = seenFrontier[i]]
            /\ Goto(i, IF seenFrontier[i] = ExportDone THEN "done" ELSE "park")
    /\ UNCHANGED <<tableHistory, exportedVars, exporter, imToken, seenFrontier, seenLength>>

\* step_or_park returns when it is unparked; other work may wake it as well
Wake(i) ==
    /\ importer[i] = "park"
    /\ imToken' = [imToken EXCEPT ![i] = FALSE]
    /\ Goto(i, "poll")
    /\ UNCHANGED <<tableHistory, exportedVars, exporter, importVars>>

-----------------------------------------------------------------------------
ExportInit ==
    /\ tableHistory \in [1 .. ExportTimes -> SUBSET ExportKeys]
    /\ exData = <<>> /\ exFrontier = 1 /\ exFailed = FALSE /\ consumers = {}
    /\ exporter = "run"
    /\ importer = [i \in Importers |-> "new"]
    /\ imToken = [i \in Importers |-> FALSE]
    /\ offset = [i \in Importers |-> 0]
    /\ seenFrontier = [i \in Importers |-> 1]
    /\ seenLength = [i \in Importers |-> 0]
    /\ sessionTime = [i \in Importers |-> 1]

Poll(i) == CheckFailed(i) \/ ReadFrontier(i) \/ DataFromOffset(i) \/ Apply(i)
ExportNext ==
    \/ PushData \/ AdvanceExport \/ Notify \/ MarkFinished
    \/ \E i \in Importers : ImportTable(i) \/ Poll(i) \/ Wake(i)
ExportSpec == ExportInit /\ [][ExportNext]_exVars

-----------------------------------------------------------------------------
\* A snapshot taken at any frontier that was ever reported shows the rows of that
\* time, each once, however much later the data is read.
SnapshotsExact ==
    \A f \in 1 .. exFrontier, k \in ExportKeys :
        CountAt(f, k) = IF k \in RowsAt(f - 1) THEN 1 ELSE 0

\* An importer whose session is at a time has every update before it, although it
\* reads the frontier and the data separately; no update comes too late for its
\* session, and it ends normally only with the whole of a table that did not fail.
ImportsExact ==
    \A i \in Importers :
        /\ importer[i] # "assertion"
        /\ \A n \in DOMAIN exData : exData[n][2] < sessionTime[i] => n <= offset[i]
        /\ \A u \in Pending : sessionTime[i] <= u[2]
        /\ importer[i] = "done" => ~exFailed /\ Pending = {} /\ offset[i] = Len(exData)

\* No importer sleeps through the end: when the exporting dataflow is gone, each
\* of them finishes with the table, or fails if the export did.
ImportEnds ==
    \A i \in Importers :
        (exporter = "gone" /\ importer[i] # "new")
            ~> importer[i] = IF exFailed THEN "ImportedTableFailed" ELSE "done"

=============================================================================
