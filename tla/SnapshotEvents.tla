--------------------------- MODULE SnapshotEvents ---------------------------
(***************************************************************************)
(* How a SnapshotReader goes through the events of a snapshot              *)
(* (src/connectors/snapshot.rs).  A log is a sequence of records with a    *)
(* field kind; those of kind "adv" are AdvanceTime events and have a time. *)
(***************************************************************************)
EXTENDS Integers, Sequences

\* The AdvanceTime events of log l at which a reader with threshold T stops.
Closing(l, T) == {i \in DOMAIN l : l[i].kind = "adv" /\ l[i].time >= T}

\* How many events of l such a reader goes through.
ReadLength(l, T) ==
    IF Closing(l, T) = {} THEN Len(l)
    ELSE CHOOSE i \in Closing(l, T) : \A j \in Closing(l, T) : i <= j

\* A reader that truncates: threshold At(0) discards the whole log up front.
Truncated(l, T) == IF T = 0 THEN << >> ELSE SubSeq(l, 1, ReadLength(l, T))

=============================================================================
