----------------------------- MODULE SnapshotLog -----------------------------
(***************************************************************************)
(* What ReadSnapshotEvent and WriteSnapshotEvent promise together          *)
(* (src/connectors/snapshot.rs): one log per worker and persistent id, to  *)
(* which events are appended; a restart finds a prefix that holds at least *)
(* what was flushed, cut at the first AdvanceTime that reaches the         *)
(* threshold stored by the last commit.  Persistence relies on this.       *)
(***************************************************************************)
EXTENDS SnapshotEvents

CONSTANTS
    Event,      \* the events of a snapshot
    Threshold   \* the times a commit may store

VARIABLES
    log,        \* all events written
    synced,     \* how many of them cannot be lost any more
    threshold   \* the time stored by the last commit

vars == <<log, synced, threshold>>

Init == log = << >> /\ synced = 0 /\ threshold = 0

Write ==
    /\ UNCHANGED <<threshold, synced>>
    /\ Len(log') = Len(log) + 1
    /\ \E e \in Event : log' = Append(log, e)

Flush ==
    /\ UNCHANGED <<threshold, log>>
    /\ synced' \in synced .. Len(log)

Commit(t) ==
    /\ threshold' = t
    /\ Closing(SubSeq(log, 1, synced), t) # {} \/ synced = Len(log)
    /\ UNCHANGED <<log, synced>>

Restart ==
    /\ UNCHANGED threshold
    /\ synced' = Len(log')
    /\ \E kept \in synced .. Len(log) :
         log' = Truncated(SubSeq(log, 1, kept), threshold)

Next ==
    \/ Flush
    \/ \E t \in Threshold : Commit(t)
    \/ Restart
    \/ Write

Spec == Init /\ [][Next]_vars

=============================================================================
