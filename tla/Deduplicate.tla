----------------------------- MODULE Deduplicate -----------------------------
(***************************************************************************)
(* deduplicate of src/engine/dataflow.rs: a stateful_reduce whose state is *)
(* kept in a snapshot of its own and read back after a restart, for one    *)
(* group.                                                                  *)
(*                                                                         *)
(* The rows of input time t are history[t].  The input is rewound to the   *)
(* committed time by its own persistence; its rows of the artificial time  *)
(* are left out here, and the state comes from this operator's snapshot,   *)
(* cut at the same time.                                                   *)
(***************************************************************************)
EXTENDS Integers, Sequences, FiniteSets

CONSTANTS
    DedupTimes,      \* bound: number of input times
    DedupValues,     \* values of a row; 0 makes the combining function fail
    TimesPerBatch,   \* bound: input times that one batch of the arrangement spans
    DedupRestarts    \* bound: number of restarts

ASSUME DedupAssumption == DedupValues \subseteq Nat /\ TimesPerBatch \in Nat

VARIABLES
    history,    \* values that came at each time, one row each
    handled,    \* times handled by the reducer
    state,      \* state_by_key of the group, a sequence of length 0 or 1
    snapshot,   \* events of the operator's snapshot
    recorded,   \* the last time an AdvanceTime was written for
    committed,  \* the time the metadata holds
    restarts,
    counted,    \* history: the times whose rows the state stands for, in their order
    countedAt,  \* history: what counted was at each event of the snapshot
    resumed     \* history: the times that restarts came back to

dedupGhosts == <<counted, countedAt, resumed>>
dedupVars == <<history, handled, state, snapshot, recorded, committed, restarts, dedupGhosts>>

\* The user's function: it accepts a first value, and the sum after that.
Combine(s, v) == IF v = 0 THEN s ELSE IF s = <<>> THEN <<v>> ELSE <<s[1] + v>>

\* The states after the rows of each time, from the first on.
States(h) ==
    LET after[n \in 0 .. Len(h)] == IF n = 0 THEN <<>> ELSE Combine(after[n - 1], h[n])
    IN after

\* What the combining function makes of the rows of some times, one after another.
CountedRows(h, times) == [i \in DOMAIN times |-> h[times[i]]]
StateAfter(h, times) == States(CountedRows(h, times))[Len(times)]

\* What one time adds to the snapshot: nothing when the state stays.
Changes(old, new) ==
    IF old = new THEN <<>>
    ELSE [i \in DOMAIN old |-> <<"Delete", old[i]>>] \o [i \in DOMAIN new |-> <<"Insert", new[i]>>]

DedupInput ==
    /\ Len(history) < DedupTimes
    /\ \E v \in DedupValues : history' = Append(history, v)
    /\ UNCHANGED <<handled, state, snapshot, recorded, committed, restarts, dedupGhosts>>

\* The history goes with the events of the snapshot.
CountEvents ==
    countedAt' = [i \in DOMAIN snapshot' |-> IF i \in DOMAIN countedAt THEN countedAt[i] ELSE counted']

\* One time of a batch of the arrangement; its events follow at once.  A
\* batch is handled whole, but a crash within it loses as much as a crash
\* after a batch that ends there.
ReduceBatch ==
    /\ handled < recorded + TimesPerBatch /\ handled < Len(history)
    /\ handled' = handled + 1
    /\ state' = Combine(state, history[handled + 1])
    /\ snapshot' = snapshot \o Changes(state, state')
    /\ counted' = Append(counted, handled + 1) /\ CountEvents
    /\ UNCHANGED <<history, recorded, committed, restarts, resumed>>

\* The frontier has passed the batch: all times up to handled are complete.
RecordFrontier ==
    /\ recorded < handled
    /\ recorded' = handled
    /\ snapshot' = Append(snapshot, <<"AdvanceTime", handled>>)
    /\ UNCHANGED <<history, handled, state, committed, restarts, counted, resumed>> /\ CountEvents

\* The minimum over sinks and workers, none of them beyond this operator.
DedupCommit ==
    \E t \in committed + 1 .. recorded :
        committed' = t /\ UNCHANGED <<history, handled, state, snapshot, recorded, restarts, dedupGhosts>>

\* Events up to the first AdvanceTime that is not below the committed time.
Mut_Restored(log, t) == log
Restored(log, t) ==
    LET ends == {i \in DOMAIN log : log[i][1] = "AdvanceTime" /\ log[i][2] >= t}
    IN IF t = 0 THEN <<>> ELSE IF ends = {} THEN log ELSE SubSeq(log, 1, CHOOSE i \in ends : \A j \in ends : i <= j)

\* read_persisted_state: the net of the events is one row at time zero.
Places(log, event) == {i \in DOMAIN log : log[i] = event}
NetWeight(log, v) ==
    Cardinality(Places(log, <<"Insert", v>>)) - Cardinality(Places(log, <<"Delete", v>>))
PersistedRows(log) == {v \in {log[i][2] : i \in DOMAIN log} : NetWeight(log, v) > 0}

\* The state is that row, combined with nothing; there is never more than one.
DedupRestart ==
    /\ restarts < DedupRestarts
    /\ restarts' = restarts + 1
    /\ snapshot' = Restored(snapshot, committed)
    /\ \/ PersistedRows(snapshot') = {} /\ state' = <<>>
       \/ \E v \in PersistedRows(snapshot') : state' = Combine(<<>>, v)
    /\ handled' = committed /\ recorded' = committed
    /\ counted' = IF snapshot' = <<>> THEN <<>> ELSE countedAt[Len(snapshot')]
    /\ CountEvents /\ resumed' = resumed \cup {committed}
    /\ UNCHANGED <<history, committed>>

DedupInit ==
    /\ history = <<>> /\ handled = 0 /\ state = <<>> /\ snapshot = <<>>
    /\ recorded = 0 /\ committed = 0 /\ restarts = 0
    /\ counted = <<>> /\ countedAt = <<>> /\ resumed = {}

DedupNext == DedupInput \/ ReduceBatch \/ RecordFrontier \/ DedupCommit \/ DedupRestart
DedupSpec == DedupInit /\ [][DedupNext]_dedupVars

\* A state that ends with time t goes on after time u: t is u, or a restart came
\* back to u within a batch, t being a later time of the same batch.
Continues(past, t, u) == t = u \/ (u \in past /\ t \in u .. u + TimesPerBatch - 1)
LastOf(times) == IF times = <<>> THEN 0 ELSE times[Len(times)]
InTurn(past, times) ==
    \A i \in DOMAIN times : Continues(past, IF i = 1 THEN 0 ELSE times[i - 1], times[i] - 1)

\* Over any number of crashes the state is what the combining function makes of
\* the rows of all times handled so far, from the first on and in their order:
\* what read_persisted_state gives back fits the time to which the input is
\* rewound.  No row is left out.  A time is counted again only where a restart
\* came back to a committed time with a later one in the same batch, and then no
\* more than the rest of that batch; with one time per batch, each is counted once.
StateMatchesInput ==
    /\ state = StateAfter(history, counted)
    /\ InTurn(resumed, counted)
    /\ Continues(resumed, LastOf(counted), handled)

=============================================================================
