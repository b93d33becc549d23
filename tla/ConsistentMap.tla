---------------------------- MODULE ConsistentMap ----------------------------
(***************************************************************************)
(* map_named_with_consistent_deletions and its async form, of              *)
(* src/engine/dataflow/operators.rs: a function that may answer differently*)
(* every time it is called is applied to the rows of a table.  Its answer  *)
(* for an inserted row is kept, and a deletion takes the kept answer.      *)
(*                                                                         *)
(* consolidate_for_output (operators/output.rs) hands over one batch per   *)
(* time, consolidated, with the deletions first.                           *)
(***************************************************************************)
EXTENDS Integers, Sequences

CONSTANTS MapKeys, MapValues, MapResults, MapWaiting  \* MapWaiting bounds the waiting batches

VARIABLES
    mapTable,    \* rows <<key, value>> of the input, no key twice
    mapBatches,  \* batches of updates <<key, value, diff>> not handled yet
    cache,       \* answers kept: <<key, result>>
    mapped,      \* rows of the output
    mapError     \* an expect or assert of the operator has failed

mapVars == <<mapTable, mapBatches, cache, mapped, mapError>>

KeysOf(S) == {x[1] : x \in S}
Delta(old, new) ==
    {<<r[1], r[2], -1>> : r \in old \ new} \cup {<<r[1], r[2], 1>> : r \in new \ old}

ChangeMapTable ==
    /\ Len(mapBatches) < MapWaiting
    /\ \E new \in [MapKeys -> MapValues \cup {0}] :
        LET rowsOf == {<<k, new[k]>> : k \in {x \in MapKeys : new[x] # 0}}
        IN /\ rowsOf # mapTable
           /\ mapTable' = rowsOf
           /\ mapBatches' = Append(mapBatches, Delta(mapTable, rowsOf))
    /\ UNCHANGED <<cache, mapped, mapError>>

\* The deletions of a batch, of different keys, retract the answers that are kept.
Deletions(batch) == {u \in batch : u[3] < 0}
TakeKept(s, batch) ==
    LET keys == KeysOf(Deletions(batch))
        kept == {c \in s.cache : c[1] \in keys}
    IN [cache |-> s.cache \ kept, rows |-> s.rows \ kept, bad |-> s.bad \/ ~(keys \subseteq KeysOf(s.cache))]

\* The insertions, of different keys, call the function and keep its answers.
CallLogic(s, batch, answers) ==
    LET keys == KeysOf(batch \ Deletions(batch))
        new  == {<<k, answers[k]>> : k \in keys}
    IN [cache |-> {c \in s.cache : c[1] \notin keys} \cup new, rows |-> s.rows \cup new,
        bad   |-> s.bad \/ keys \cap KeysOf(s.cache) # {}]

Mut_HandleBatch(s, batch, answers) == TakeKept(CallLogic(s, batch, answers), batch)
HandleBatch(s, batch, answers) == CallLogic(TakeKept(s, batch), batch, answers)

MapBatch ==
    /\ mapBatches # <<>> /\ ~mapError
    /\ \E answers \in [MapKeys -> MapResults] :
        LET done == HandleBatch([cache |-> cache, rows |-> mapped, bad |-> FALSE], Head(mapBatches), answers)
        IN cache' = done.cache /\ mapped' = done.rows /\ mapError' = done.bad
    /\ mapBatches' = Tail(mapBatches)
    /\ UNCHANGED mapTable

MapInit == mapTable = {} /\ mapBatches = <<>> /\ cache = {} /\ mapped = {} /\ mapError = FALSE
MapNext == ChangeMapTable \/ MapBatch
MapSpec == MapInit /\ [][MapNext]_mapVars

\* However the function answers, the output holds one row for each row of the
\* input that has been handled: a deletion retracts the very answer that was
\* given for the insertion, and a row that is replaced within one batch never
\* retracts its successor's answer.
DeletionsConsistent ==
    /\ ~mapError
    /\ mapped = cache
    /\ mapBatches = <<>> => KeysOf(mapped) = KeysOf(mapTable)
    /\ \A r, q \in mapped : r[1] = q[1] => r = q

=============================================================================
