--------------------------- MODULE GradualBroadcast ---------------------------
(***************************************************************************)
(* gradual_broadcast of src/engine/dataflow/operators/gradual_broadcast.rs *)
(* attaches to every row of a table one of the two bounds of a broadcast   *)
(* triplet <<lower, value, upper>>: keys below a threshold that grows with *)
(* value get upper, the others lower.  When the triplet changes only the   *)
(* rows between the old and the new threshold are corrected.               *)
(*                                                                         *)
(* Keys are 0 .. KeyRange - 1.  Every activation first takes all batches   *)
(* of the arrangement, with one triplet, and then the messages of the      *)
(* triplet's stream, so the trace that it walks holds the batches it has   *)
(* taken and no others.  An activation that takes several messages is one  *)
(* BroadcastTriplet after another here, with no rows in between.  Times    *)
(* are left out: the property is about the sum of the updates.             *)
(***************************************************************************)
EXTENDS Integers, Sequences

CONSTANTS
    KeyRange,      \* K::max_value
    Triplets,      \* the triplets <<lower, value, upper>> the stream may carry
    MessageBound   \* bound: messages waiting for the operator

\* A value lies between its bounds; they may be equal.
ASSUME BroadcastAssumption ==
    /\ KeyRange \in Nat
    /\ Triplets \subseteq {t \in Int \X Int \X Int : t[1] <= t[2] /\ t[2] <= t[3]}

VARIABLES
    rows,         \* keys in the trace of the arrangement
    takenRows,    \* the keys it held when its batches were last taken
    tableTriplet, \* the row of the triplet's table, a set of at most one
    messages,     \* its updates not taken yet: sets of <<triplet, diff>>
    triplet,      \* the local variable of the operator, a set of at most one
    shown         \* weight of every <<key, bound>> in the output

gbVars == <<rows, takenRows, tableTriplet, messages, triplet, shown>>

BroadcastKeys == 0 .. KeyRange - 1
ShownValues == {t[1] : t \in Triplets} \cup {t[3] : t \in Triplets}
Lower(t) == t[1]
Upper(t) == t[3]
ToUpperBound(t) == <<t[1], t[3], t[3]>>
ToLowerBound(t) == <<t[1], t[1], t[3]>>

\* With equal bounds the factor is 0 / 0, and a NaN is cast to 0.
GetThreshold(t) ==
    IF t[1] = t[3] THEN 0 ELSE ((t[2] - t[1]) * KeyRange) \div (t[3] - t[1])
Smaller(a, b) == IF a < b THEN a ELSE b
Larger(a, b) == IF a < b THEN b ELSE a

Bound(t, k) == IF k < GetThreshold(t) THEN Upper(t) ELSE Lower(t)

\* Adds weight[k] copies of every key in from .. to - 1 with its bound in t.
ApplyToFragment(out, weight, t, from, to) ==
    [p \in DOMAIN out |->
        IF p[1] >= from /\ p[1] < to /\ p[2] = Bound(t, p[1]) THEN out[p] + weight[p[1]] ELSE out[p]]

InTrace(sign) == [k \in BroadcastKeys |-> IF k \in rows THEN sign ELSE 0]

Mut_ReplaceInFragment(out, old, new, from, to) ==
    ApplyToFragment(ApplyToFragment(out, InTrace(-1), old, from, to - 1), InTrace(1), new, from, to - 1)
ReplaceInFragment(out, old, new, from, to) ==
    ApplyToFragment(ApplyToFragment(out, InTrace(-1), old, from, to), InTrace(1), new, from, to)

ReplaceBetween(out, old, new) ==
    ReplaceInFragment(out, old, new, Smaller(GetThreshold(old), GetThreshold(new)),
                      Larger(GetThreshold(old), GetThreshold(new)))

\* At most one retraction and one insertion: the one that is not current.
GetNewTriplet(current, message) ==
    LET received == {u[1] : u \in message}
    IN IF received \subseteq current THEN received ELSE received \ current

\* Buckets that share a bound: first the old bucket is brought to that bound.
Adjacent(old, new) == Lower(old) = Upper(new) \/ Lower(new) = Upper(old)
SameBucket(old, new) == Lower(old) = Lower(new) /\ Upper(old) = Upper(new)

ChangeTriplet(out, old, new) ==
    LET down == Lower(old) = Upper(new)
        fake == IF down THEN ToLowerBound(old) ELSE ToUpperBound(old)
        from == IF down THEN ToUpperBound(new) ELSE ToLowerBound(new)
    IN IF SameBucket(old, new) THEN ReplaceBetween(out, old, new)
       ELSE IF Adjacent(old, new) THEN ReplaceBetween(ReplaceBetween(out, old, fake), from, new)
       ELSE ReplaceInFragment(out, old, new, 0, KeyRange)

\* The waiting batches change the rows from takenRows to rows.
TakeBatches ==
    LET weight == [k \in BroadcastKeys |->
                    (IF k \in rows THEN 1 ELSE 0) - (IF k \in takenRows THEN 1 ELSE 0)]
    IN IF triplet = {} THEN shown
       ELSE ApplyToFragment(shown, weight, CHOOSE t \in triplet : TRUE, 0, KeyRange)

TakeMessage(out, new) ==
    IF triplet = {} THEN ApplyToFragment(out, InTrace(1), new, 0, KeyRange)
    ELSE ChangeTriplet(out, CHOOSE t \in triplet : TRUE, new)

\* An activation that finds batches and no message.
BroadcastRows ==
    /\ rows # takenRows
    /\ shown' = TakeBatches /\ takenRows' = rows
    /\ UNCHANGED <<rows, tableTriplet, messages, triplet>>

\* One that finds a message, after all batches that are there.
BroadcastTriplet ==
    /\ messages # <<>>
    /\ \E new \in GetNewTriplet(triplet, Head(messages)) :
        triplet' = {new} /\ shown' = TakeMessage(TakeBatches, new)
    /\ takenRows' = rows /\ messages' = Tail(messages)
    /\ UNCHANGED <<rows, tableTriplet>>

ChangeRows ==
    /\ rows' \in SUBSET BroadcastKeys
    /\ UNCHANGED <<takenRows, tableTriplet, messages, triplet, shown>>

\* The table's one row is inserted, replaced or deleted, in one message each time.
Message(old, new) == {<<t, -1>> : t \in old} \cup {<<t, 1>> : t \in new}
TableTriplets == {{t} : t \in Triplets} \cup {{}}

ChangeTripletRow ==
    /\ Len(messages) < MessageBound
    /\ \E new \in TableTriplets \ {tableTriplet} :
        messages' = Append(messages, Message(tableTriplet, new)) /\ tableTriplet' = new
    /\ UNCHANGED <<rows, takenRows, triplet, shown>>

BroadcastInit ==
    /\ rows = {} /\ takenRows = {}
    /\ tableTriplet = {} /\ messages = <<>> /\ triplet = {}
    /\ shown = [p \in BroadcastKeys \X ShownValues |-> 0]

BroadcastNext == BroadcastRows \/ BroadcastTriplet \/ ChangeRows \/ ChangeTripletRow
BroadcastSpec == BroadcastInit /\ [][BroadcastNext]_gbVars

-----------------------------------------------------------------------------
\* Correcting only the rows between two thresholds, in one bucket, over to an
\* adjacent one or all of them, leaves every row with exactly one bound, the
\* one of the triplet that was received last, whatever rows came and went in
\* between.  A deleted triplet stays in force (gradual_broadcast_core).
BroadcastExact ==
    rows = takenRows /\ messages = <<>> =>
        /\ tableTriplet # {} => triplet = tableTriplet
        /\ \A p \in BroadcastKeys \X ShownValues :
            shown[p] = IF p[1] \in rows /\ \E t \in triplet : p[2] = Bound(t, p[1]) THEN 1 ELSE 0

=============================================================================
