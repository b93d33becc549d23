------------------------------ MODULE Monitoring ------------------------------
(***************************************************************************)
(* What a run reports of itself: ConnectorMonitor with its ConnectorLogger *)
(* and OutputConnectorStats of src/connectors/monitoring.rs, and the       *)
(* Prober of src/engine/dataflow.rs, which the worker's loop calls in each *)
(* turn and once at the end.  A clock ticks; frontiers are times, 0 being  *)
(* the least one, or NoTime for an empty one.                              *)
(***************************************************************************)
EXTENDS Integers, Sequences, SequencesExt

CONSTANTS
    Horizon,         \* bound of the clock
    Minute,          \* the window of num_messages_in_last_minute, in ticks
    ReportPeriod,    \* MIN_TIME_ADVANCED_REPORTS_FREQUENCY, in ticks
    MessageLimit,    \* bound on messages
    LastFrontierTime \* bound on the times of frontiers

VARIABLES
    clock,
    monitor,         \* ConnectorMonitor: current, queue, stats, and its logger
    logged,          \* history: entries in the lines that the logger wrote
    received,        \* history: messages, and the commits <<messages, clock>>
    outStats,        \* OutputConnectorStats
    outLogged,       \* history: entries in the lines it wrote
    written,         \* history: entries written
    probes,          \* frontiers of the input, of an operator and of the output
    prober,          \* input_time, output_time and the stats of the operator
    everyTime,       \* run_callback_every_time
    shown,           \* history: the last stats given to the callback, and the probes then
    seen             \* history: the probes at the last update

sourceMonitorVars == <<monitor, logged, received>>
sinkMonitorVars == <<outStats, outLogged, written>>
proberVars == <<prober, everyTime, shown, seen>>
monitorVars == <<clock, sourceMonitorVars, sinkMonitorVars, probes, proberVars>>

Never == -1
NoTime == -1
Total(commits) == FoldLeft(LAMBDA n, c : n + c[1], 0, commits)

MonitorTick ==
    /\ clock < Horizon /\ clock' = clock + 1
    /\ UNCHANGED <<sourceMonitorVars, sinkMonitorVars, probes, proberVars>>

-----------------------------------------------------------------------------
(* ConnectorMonitor *)

\* ConnectorLogger::on_commit, with report_stats: the logger, and what it writes.
Reports(l, messages) ==
    l.last = Never \/ (clock - l.last >= ReportPeriod /\ (l.previous > 0 \/ messages > 0))
Reported(l) == [l EXCEPT !.last = clock, !.previous = l.messages, !.messages = 0, !.batches = 0]
Counted(l, n) == [l EXCEPT !.messages = @ + n, !.batches = @ + 1]
LogCommit(l, n) ==
    LET c == Counted(l, n)
    IN IF Reports(l, c.messages) THEN <<Reported(c), c.messages>> ELSE <<c, 0>>

Increment ==
    /\ ~monitor.finished /\ received.messages < MessageLimit
    /\ monitor' = [monitor EXCEPT !.current = @ + 1]
    /\ received' = [received EXCEPT !.messages = @ + 1]
    /\ UNCHANGED <<clock, logged, sinkMonitorVars, probes, proberVars>>

\* commit: the commits that are older than a minute leave the window first.
Mut_Expired(c) == clock - c[2] > Minute
Expired(c) == clock - c[2] >= Minute
CommitMonitor ==
    /\ ~monitor.finished
    /\ Len(received.commits) <= MessageLimit
    /\ LET now == <<monitor.current, clock>>
           old == SelectSeq(monitor.queue, Expired)
           log == LogCommit(monitor.logger, monitor.current)
       IN /\ monitor' = [monitor EXCEPT
                !.queue = Append(SubSeq(@, Len(old) + 1, Len(@)), now),
                !.inLastMinute = @ - Total(old) + monitor.current,
                !.fromStart = @ + monitor.current,
                !.recentlyCommitted = monitor.current,
                !.current = 0,
                !.logger = log[1]]
          /\ logged' = logged + log[2]
          /\ received' = [received EXCEPT !.commits = Append(@, now)]
    /\ UNCHANGED <<clock, sinkMonitorVars, probes, proberVars>>

\* finish: on_commit of the logger, then on_finished, which writes what is left.
Mut_AtEnd(l) == <<l, 0>>
AtEnd(l) == IF l.batches > 0 THEN <<Reported(l), l.messages>> ELSE <<l, 0>>
FinishMonitor ==
    /\ ~monitor.finished
    /\ LET log == LogCommit(monitor.logger, monitor.current)
           end == AtEnd(log[1])
       IN /\ monitor' = [monitor EXCEPT !.finished = TRUE, !.logger = end[1]]
          /\ logged' = logged + log[2] + end[2]
    /\ UNCHANGED <<clock, received, sinkMonitorVars, probes, proberVars>>

-----------------------------------------------------------------------------
(* OutputConnectorStats *)
OnBatchEntryWritten ==
    /\ ~outStats.ended /\ written < MessageLimit
    /\ outStats' = [outStats EXCEPT !.inBatch = @ + 1, !.inTotal = @ + 1]
    /\ written' = written + 1
    /\ UNCHANGED <<clock, outLogged, sourceMonitorVars, probes, proberVars>>

\* report_stats; on_time_committed, at a time or (last) at the end
WithStatsReported(last) == [outStats EXCEPT !.inBatch = 0, !.last = clock, !.ended = last]
OnTimeCommitted(last) ==
    /\ ~outStats.ended
    /\ LET reports == \/ last \/ outStats.last = Never
                      \/ clock - outStats.last >= ReportPeriod /\ (outStats.inTotal > 0 \/ outStats.inBatch > 0)
       IN IF reports
          THEN /\ outStats' = WithStatsReported(last)
               /\ outLogged' = outLogged + outStats.inBatch
          ELSE UNCHANGED <<outStats, outLogged>>
    /\ UNCHANGED <<clock, written, sourceMonitorVars, probes, proberVars>>

-----------------------------------------------------------------------------
(* Prober *)

\* Frontiers advance, the input's first.
Behind(a, b) == b = NoTime \/ (a # NoTime /\ a <= b)
AdvanceProbes ==
    /\ \E new \in [{"input", "operator", "output"} -> 0 .. LastFrontierTime \cup {NoTime}] :
        /\ new # probes /\ \A p \in DOMAIN new : Behind(probes[p], new[p])
        /\ Behind(new["operator"], new["input"]) /\ Behind(new["output"], new["operator"])
        /\ probes' = new
    /\ UNCHANGED <<clock, sourceMonitorVars, sinkMonitorVars, proberVars>>

CreateStats(f, inputTime) ==
    IF f = NoTime THEN [time |-> NoTime, lag |-> NoTime, done |-> TRUE]
    ELSE [time |-> IF f > 0 THEN f ELSE NoTime,
          lag |-> IF inputTime = NoTime THEN NoTime ELSE IF inputTime >= f THEN inputTime - f ELSE 0,
          done |-> FALSE]

\* Whether update finds something changed; intermediate probes are required.
Mut_Changed ==
    \/ probes["output"] # prober.outputTime
    \/ prober.operator = <<>> \/ probes["operator"] # prober.operator[1].time
Changed ==
    \/ probes["input"] # prober.inputTime
    \/ probes["output"] # prober.outputTime
    \/ prober.operator = <<>> \/ probes["operator"] # prober.operator[1].time
ProberUpdate ==
    /\ LET runs == Changed \/ everyTime
           input == probes["input"]
           stats == [p \in DOMAIN probes |-> CreateStats(probes[p], input)]
       IN /\ prober' = [inputTime |-> input, outputTime |-> probes["output"],
                        operator |-> IF runs THEN <<stats["operator"]>> ELSE prober.operator]
          /\ shown' = IF runs THEN [stats |-> stats, at |-> probes] ELSE shown
    /\ seen' = probes
    /\ UNCHANGED <<clock, sourceMonitorVars, sinkMonitorVars, probes, everyTime>>

-----------------------------------------------------------------------------
MonitoringInit ==
    /\ clock = 0
    /\ monitor = [current |-> 0, queue |-> <<>>, fromStart |-> 0, inLastMinute |-> 0,
                  recentlyCommitted |-> 0, finished |-> FALSE,
                  logger |-> [previous |-> 0, messages |-> 0, batches |-> 0, last |-> Never]]
    /\ logged = 0 /\ received = [messages |-> 0, commits |-> <<>>]
    /\ outStats = [inBatch |-> 0, inTotal |-> 0, last |-> Never, ended |-> FALSE]
    /\ outLogged = 0 /\ written = 0
    /\ probes = [p \in {"input", "operator", "output"} |-> 0]
    /\ prober = [inputTime |-> NoTime, outputTime |-> NoTime, operator |-> <<>>]
    /\ everyTime \in BOOLEAN
    /\ shown = <<>> /\ seen = <<>>

SourceMonitorNext == MonitorTick \/ Increment \/ CommitMonitor \/ FinishMonitor
SinkMonitorNext == MonitorTick \/ OnBatchEntryWritten \/ \E last \in BOOLEAN : OnTimeCommitted(last)
ProberNext == AdvanceProbes \/ ProberUpdate

-----------------------------------------------------------------------------
\* The counters of a source agree with what it committed: the total, and at each
\* commit exactly the commits of the last minute; every entry is in one line of the
\* log, at the latest when the source or the sink ends.  The stats shown are those
\* of the frontiers of the last update, except that an operator which was done
\* without ever leaving the least time may still be shown as running, until
\* something else changes, and no longer once the output is done.
MonitoringExact ==
    /\ monitor.fromStart = Total(received.commits)
    /\ LET commits == received.commits IN commits # <<>> =>
        monitor.inLastMinute = Total(SelectSeq(commits, LAMBDA c : commits[Len(commits)][2] - c[2] < Minute))
    /\ logged + monitor.logger.messages + (IF monitor.finished THEN 0 ELSE monitor.current) = received.messages
    /\ monitor.finished => logged = received.messages
    /\ outLogged + outStats.inBatch = written /\ (outStats.ended => outLogged = written)
    /\ seen # <<>> =>
        \/ shown.at = seen
        \/ /\ shown.at = [seen EXCEPT !["operator"] = 0]
           /\ seen["operator"] = NoTime /\ seen["output"] # NoTime /\ ~everyTime

=============================================================================
