---------------------------- MODULE Runtime ----------------------------
(* One process of the engine: the loop of its worker threads, the connector *)
(* threads that feed them, the channel on which errors are reported and the *)
(* main thread that waits for the end (run_with_new_dataflow_graph of       *)
(* engine/dataflow.rs).  A worker sleeps in step_or_park until a connector  *)
(* thread, the progress protocol or the main thread unparks it, or until a  *)
(* commit or a flush of the error log is due.                               *)
EXTENDS Naturals, FiniteSets

CONSTANTS
    RuntimeWorkers,    \* the worker threads; each has one connector
    EntryBound,        \* bound on the entries in a connector's channel
    CommitDuration,    \* the connectors have a commit duration
    LogBound           \* bound on the errors that are logged and not flushed

ASSUME RuntimeAssumption == EntryBound \in Nat /\ CommitDuration \in BOOLEAN /\ LogBound \in Nat

VARIABLES
    terminateOnError,  \* errors in rows stop the program
    worker,            \* where each worker thread is
    woken,             \* the unpark token of each worker thread
    polling,           \* the poller of a worker's connector is there
    flushing,          \* the flushers of the error log are there
    connectorThread,   \* where each connector thread is
    finishedSent,      \* the connector thread has sent ReadResult::Finished
    entries,           \* entries sent, not polled
    unflushed,         \* errors in the input session of the log, not in its table
    errorChannel,      \* errors in the bounded(1) channel
    everReported,      \* some error was reported
    failed,            \* the flag the workers look at
    mainThread

readerVars == <<connectorThread, finishedSent>>
reportVars == <<errorChannel, everReported>>
mainVars == <<failed, mainThread>>
runtimeVars == <<terminateOnError, worker, woken, polling, flushing, readerVars, entries,
                 unflushed, reportVars, mainVars>>

\* ErrorReporter::report: try_send on a channel of one place, later errors are dropped
Report == errorChannel' = 1 /\ everReported' = TRUE

Unpark(w) == woken' = [woken EXCEPT ![w] = TRUE]

WorkerEnded(w) == worker[w] \in {"done", "panicked"}

---------------------------------------------------------------------------
(* The connector thread of worker w. *)

\* read_realtime_updates: an entry is sent first, the worker unparked after
SendEntry(w) ==
    /\ connectorThread[w] = "read"
    /\ entries[w] < EntryBound
    /\ IF polling[w] /\ ~WorkerEnded(w)
       THEN /\ entries' = [entries EXCEPT ![w] = @ + 1]
            /\ connectorThread' = [connectorThread EXCEPT ![w] = "unpark"]
       ELSE /\ connectorThread' = [connectorThread EXCEPT ![w] = "leave"]
            /\ UNCHANGED entries
    /\ UNCHANGED <<terminateOnError, worker, woken, polling, flushing, finishedSent, unflushed,
                   reportVars, mainVars>>

\* a reader that fails more often than it may is reported, and reads on
ReportReader(w) ==
    /\ connectorThread[w] = "read"
    /\ ~everReported
    /\ Report
    /\ connectorThread' = [connectorThread EXCEPT ![w] = "unpark"]
    /\ UNCHANGED <<terminateOnError, worker, woken, polling, flushing, finishedSent,
                   entries, unflushed, mainVars>>

UnparkWorker(w) ==
    /\ connectorThread[w] = "unpark"
    /\ Unpark(w)
    /\ connectorThread' = [connectorThread EXCEPT ![w] = "read"]
    /\ UNCHANGED <<terminateOnError, worker, polling, flushing, finishedSent, entries,
                   unflushed, reportVars, mainVars>>

\* Finished leaves the loop at once, without an unpark
SendFinished(w) ==
    /\ connectorThread[w] = "read"
    /\ finishedSent' = [finishedSent EXCEPT ![w] = TRUE]
    /\ connectorThread' = [connectorThread EXCEPT ![w] = "leave"]
    /\ UNCHANGED <<terminateOnError, worker, woken, polling, flushing, entries,
                   unflushed, reportVars, mainVars>>

\* spawn_with_reporter: an error or a panic of the thread is reported
PanicReader(w) ==
    /\ connectorThread[w] = "read"
    /\ Report
    /\ connectorThread' = [connectorThread EXCEPT ![w] = "leave"]
    /\ UNCHANGED <<terminateOnError, worker, woken, polling, flushing, finishedSent,
                   entries, unflushed, mainVars>>

\* the guard on the sender: it is dropped first ...
DropSender(w) ==
    /\ connectorThread[w] = "leave"
    /\ connectorThread' = [connectorThread EXCEPT ![w] = "dropped"]
    /\ UNCHANGED <<terminateOnError, worker, woken, polling, flushing, finishedSent,
                   entries, unflushed, reportVars, mainVars>>

Mut_UnparkAtEnd(w) == UNCHANGED woken

\* ... and then "we always unpark the main thread after dropping the sender"
UnparkAtEnd(w) == Unpark(w)

EndReader(w) ==
    /\ connectorThread[w] = "dropped"
    /\ UnparkAtEnd(w)
    /\ connectorThread' = [connectorThread EXCEPT ![w] = "ended"]
    /\ UNCHANGED <<terminateOnError, worker, polling, flushing, finishedSent, entries,
                   unflushed, reportVars, mainVars>>

---------------------------------------------------------------------------
(* The worker thread w. *)

\* catch_unwind of the closure: the panic is reported and resumed
Panicked(w) == worker' = [worker EXCEPT ![w] = "panicked"] /\ Report

\* the poller meets Finished, or Disconnected, once the entries are drained
PollerBreaks(w) == finishedSent[w] \/ connectorThread[w] \in {"dropped", "ended"}

\* flushers.clear() when no poller is left
ClearFlushers(w, open) == flushing' = [flushing EXCEPT ![w] = @ /\ open]

\* the frontiers of all inputs, the error log's among them, are empty
AllClosed(open, flushers) == \A v \in RuntimeWorkers : ~open[v] /\ ~flushers[v]

\* ErrorLogInner::maybe_flush, which the flushers and insert call, if it is due
FlushLog(w, due, inserted) ==
    unflushed' = [unflushed EXCEPT ![w] = IF due THEN 0 ELSE @ + inserted]

\* one turn of the loop up to step_or_park: the failed flag, the flushers, the pollers,
\* the step.  An error in a row is reported and panics if errors terminate the program;
\* else it is logged.  Progress that a worker makes wakes the others.
Turn(w, bad, due) ==
    /\ worker[w] = "turn"
    /\ ~failed
    /\ bad => entries[w] > 0 /\ \A v \in RuntimeWorkers : unflushed[v] < LogBound
    /\ due => flushing[w]
    /\ entries' = [entries EXCEPT ![w] = 0]
    /\ polling' = [polling EXCEPT ![w] = @ /\ ~PollerBreaks(w)]
    /\ ClearFlushers(w, polling'[w])
    /\ woken' = IF <<polling', flushing'>> # <<polling, flushing>>
                THEN [v \in RuntimeWorkers |-> TRUE] ELSE woken
    /\ IF bad /\ terminateOnError
       THEN Panicked(w) /\ UNCHANGED unflushed
       ELSE /\ worker' = [worker EXCEPT ![w] = "park"]
            /\ FlushLog(w, due, IF bad THEN 1 ELSE 0)
            /\ UNCHANGED reportVars
    /\ UNCHANGED <<terminateOnError, readerVars, mainVars>>

\* resume_unwind("other worker panicked") at the top of the loop
GiveUp(w) ==
    /\ worker[w] = "turn"
    /\ failed
    /\ Panicked(w)
    /\ UNCHANGED <<terminateOnError, woken, polling, flushing, readerVars, entries, unflushed, mainVars>>

Mut_FinalFlush(w) == UNCHANGED unflushed
\* "have the final flush at input session drop"
FinalFlush(w) == unflushed' = [unflushed EXCEPT ![w] = 0]

\* step_or_park returns: unparked, or the duration has passed.  It answers FALSE when
\* the dataflow is complete; the last holder has then dropped the session of the error log
WakeUp(w) ==
    /\ worker[w] = "park"
    /\ woken[w] \/ flushing[w] \/ (CommitDuration /\ polling[w])
    /\ woken' = [woken EXCEPT ![w] = FALSE]
    /\ IF AllClosed(polling, flushing)
       THEN /\ worker' = [worker EXCEPT ![w] = "join"]
            /\ FinalFlush(w)
       ELSE /\ worker' = [worker EXCEPT ![w] = "turn"]
            /\ UNCHANGED unflushed
    /\ UNCHANGED <<terminateOnError, polling, flushing, readerVars, entries, reportVars, mainVars>>

\* connector_thread.join().expect(...): a thread that panicked panics the worker too
JoinConnector(w) ==
    /\ worker[w] = "join"
    /\ connectorThread[w] = "ended"
    /\ IF finishedSent[w]
       THEN worker' = [worker EXCEPT ![w] = "done"] /\ UNCHANGED reportVars
       ELSE Panicked(w)
    /\ UNCHANGED <<terminateOnError, woken, polling, flushing, readerVars, entries, unflushed, mainVars>>

---------------------------------------------------------------------------
(* The main thread. *)

\* the select: an error is there, and the loop is left
TakeError ==
    /\ mainThread = "select"
    /\ errorChannel = 1
    /\ errorChannel' = 0
    /\ mainThread' = "fail"
    /\ UNCHANGED <<terminateOnError, worker, woken, polling, flushing, readerVars, entries, unflushed,
                   everReported, failed>>

\* a wakeup callback (a Python signal handler) answers with an error
Interrupt ==
    /\ mainThread = "select"
    /\ mainThread' = "fail"
    /\ everReported' = TRUE
    /\ UNCHANGED <<terminateOnError, worker, woken, polling, flushing, readerVars, entries, unflushed,
                   errorChannel, failed>>

SetFailed == failed' = TRUE /\ UNCHANGED woken
UnparkAll == woken' = [w \in RuntimeWorkers |-> TRUE] /\ UNCHANGED failed

\* the flag is stored before the workers are unparked
StopWorkers ==
    /\ \/ mainThread = "fail" /\ SetFailed /\ mainThread' = "unpark"
       \/ mainThread = "unpark" /\ UnparkAll /\ mainThread' = "join"
    /\ UNCHANGED <<terminateOnError, worker, polling, flushing, readerVars, entries, unflushed, reportVars>>

\* after a failure the workers are joined and the first error is returned
ReturnError ==
    /\ mainThread = "join"
    /\ \A w \in RuntimeWorkers : WorkerEnded(w)
    /\ mainThread' = "Err"
    /\ UNCHANGED <<terminateOnError, worker, woken, polling, flushing, readerVars, entries, unflushed,
                   reportVars, failed>>

\* RecvError: the channel is empty and every reporter is dropped, the workers' and the
\* connector threads'; the workers' results are collected
ReturnResults ==
    /\ mainThread = "select"
    /\ errorChannel = 0
    /\ \A w \in RuntimeWorkers : WorkerEnded(w) /\ connectorThread[w] = "ended"
    /\ mainThread' = IF \A w \in RuntimeWorkers : worker[w] = "done" THEN "Ok" ELSE "Err"
    /\ UNCHANGED <<terminateOnError, worker, woken, polling, flushing, readerVars, entries, unflushed,
                   reportVars, failed>>

---------------------------------------------------------------------------
RuntimeInit ==
    /\ terminateOnError \in BOOLEAN
    /\ worker = [w \in RuntimeWorkers |-> "turn"]
    /\ woken = [w \in RuntimeWorkers |-> FALSE]
    /\ polling = [w \in RuntimeWorkers |-> TRUE]
    /\ flushing = [w \in RuntimeWorkers |-> ~terminateOnError]
    /\ connectorThread = [w \in RuntimeWorkers |-> "read"]
    /\ finishedSent = [w \in RuntimeWorkers |-> FALSE]
    /\ entries = [w \in RuntimeWorkers |-> 0]
    /\ unflushed = [w \in RuntimeWorkers |-> 0]
    /\ errorChannel = 0 /\ everReported = FALSE
    /\ failed = FALSE /\ mainThread = "select"

ReaderStep(w) ==
    \/ SendEntry(w) \/ ReportReader(w) \/ UnparkWorker(w) \/ SendFinished(w)
    \/ PanicReader(w) \/ DropSender(w) \/ EndReader(w)

WorkerStep(w) ==
    \/ GiveUp(w) \/ WakeUp(w) \/ JoinConnector(w)
    \/ \E bad, due \in BOOLEAN : Turn(w, bad, due)

MainStep == TakeError \/ StopWorkers \/ ReturnError \/ ReturnResults

RuntimeNext ==
    \/ \E w \in RuntimeWorkers : ReaderStep(w) \/ WorkerStep(w)
    \/ MainStep \/ Interrupt
RuntimeSpec == RuntimeInit /\ [][RuntimeNext]_runtimeVars

---------------------------------------------------------------------------
\* run_with_new_dataflow_graph returns Ok only for a run in which no thread reported
\* an error, no worker or connector thread panicked, and every error that was logged
\* is in the table of the log.
OkIsClean ==
    mainThread = "Ok" =>
        /\ ~everReported
        /\ \A w \in RuntimeWorkers : worker[w] = "done" /\ finishedSent[w] /\ unflushed[w] = 0

(* Whatever the order of sends, polls, parks and unparks: an error that any  *)
(* thread reports ends the program with an error, although the channel holds *)
(* one and sleeping workers look at the flag only when they wake; when the   *)
(* connector threads have ended, the program ends.                           *)
RuntimeEnds ==
    /\ everReported ~> mainThread = "Err"
    /\ (\A w \in RuntimeWorkers : connectorThread[w] \in {"leave", "dropped", "ended"})
          ~> mainThread \in {"Ok", "Err"}
===========================================================================
