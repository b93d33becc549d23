------------------------------- MODULE PrevNext -------------------------------
(***************************************************************************)
(* The sorting operator, add_prev_next_pointers of                         *)
(* src/engine/dataflow/operators/prev_next.rs: it keeps, for every row of  *)
(* an instance, pointers to its neighbours in the order of the keys.       *)
(*                                                                         *)
(* Keys are 1 .. SortKeys, ordered by instance first as SortingCell is.    *)
(* The operator takes one batch of the input arrangement after the other,  *)
(* reads neighbours from the whole input trace and old pointers from its   *)
(* own output trace, and inserts the updates it has built at once.  A row  *)
(* whose pointers are not final yet is held back as the carry entry.       *)
(*                                                                         *)
(* A deleted key stays in the input trace with weight zero at least until  *)
(* its batch has been processed, so walking over such keys finds every     *)
(* deleted key of the batch.  The times inside a batch are left out.       *)
(***************************************************************************)
EXTENDS Integers, Sequences, FiniteSetsExt

CONSTANTS
    SortKeys,      \* number of keys
    FirstOf,       \* the first key of each instance
    BatchesAhead,  \* bound: batches that the trace holds beyond the one to be handled
    JointKeys      \* bound: keys changed by two batches that wait together

VARIABLES
    present,   \* keys with non-zero weight in the input trace
    queued,    \* batches on their way to the operator: sets of changed keys
    pointers,  \* the output trace: <<key, prev, next>>
    sortError, \* an assertion has failed, or pointers were read that are not there
    lagged     \* history: a batch was handled although the trace held a later one

sortVars == <<present, queued, pointers, sortError, lagged>>

Nil == 0   \* no key: Option::None
InstanceOf(k) == Max({i \in FirstOf : i <= k})
SameInstance(a, b) == InstanceOf(a) = InstanceOf(b)

Updated(S, batch) == SymDiff(S, batch)

\* The arrangement has sealed another batch; the trace holds it at once, also
\* when the operator has not come to the batch before.
ArrangeSorted ==
    /\ ~sortError /\ Len(queued) <= BatchesAhead
    /\ \E batch \in SUBSET (1 .. SortKeys) \ {{}} :
        /\ queued # <<>> => Cardinality(Head(queued)) + Cardinality(batch) <= JointKeys
        /\ queued' = Append(queued, batch)
        /\ present' = Updated(present, batch)
    /\ UNCHANGED <<pointers, sortError, lagged>>

(***************************************************************************)
(* Reading the traces.                                                     *)
(***************************************************************************)
\* find_non_zero_prev looks past the instance; the caller drops such a key.
FindNonZeroPrev(k) == Max({Nil} \cup {x \in present : x < k})

OtherInstanceToNone(k, x) == IF x # Nil /\ SameInstance(k, x) THEN x ELSE Nil

Mut_Next(k) == Min({x \in present : x > k} \cup {SortKeys + 1}) % (SortKeys + 1)
NonZeroNext(k) ==
    LET after == {x \in present : x > k /\ SameInstance(x, k)}
    IN IF after = {} THEN Nil ELSE Min(after)

\* Keys of the batch that process_to_non_zero_next passes on its way.
Skipped(batch, k) ==
    {d \in batch \ present : d > k /\ SameInstance(d, k) /\ (NonZeroNext(k) = Nil \/ d < NonZeroNext(k))}

HasPointers(k) == \E e \in pointers : e[1] = k
PointersOf(k) == CHOOSE e \in pointers : e[1] = k

(***************************************************************************)
(* The batch builder: a sequence of <<entry, diff>> and whether every      *)
(* cursor read and assertion was sound.                                    *)
(***************************************************************************)
Push(b, entries, sound) == [updates |-> b.updates \o entries, sound |-> b.sound /\ sound]

PushDelete(b, k) ==
    IF HasPointers(k) THEN Push(b, << <<PointersOf(k), -1>> >>, TRUE) ELSE Push(b, <<>>, FALSE)

PushInsertReplace(b, k, prev, next) ==
    Push(b, (IF HasPointers(k) THEN << <<PointersOf(k), -1>> >> ELSE <<>>)
                \o << <<<<k, prev, next>>, 1>> >>, TRUE)

PushPrevReplace(b, k, prev) ==
    IF HasPointers(k)
    THEN Push(b, << <<PointersOf(k), -1>>, <<<<k, prev, PointersOf(k)[3]>>, 1>> >>, TRUE)
    ELSE Push(b, <<>>, FALSE)

\* CarryEntry; its time is only told apart from none.
Carry(k, prev, next) == [key |-> k, prev |-> prev, next |-> next, timed |-> TRUE]
NoCarry == [key |-> Nil, prev |-> Nil, next |-> Nil, timed |-> FALSE]

\* Deletions that a walk to the next key generates on its way.
RECURSIVE PushSkipped(_, _)
PushSkipped(b, S) ==
    IF S = {} THEN b ELSE PushSkipped(PushDelete(b, Min(S)), S \ {Min(S)})

(***************************************************************************)
(* One key of the batch: the new builder and carry entry.                  *)
(***************************************************************************)
HandleDelete(b0, k, carry, prev, prevPrev, next) ==
    LET b     == PushDelete(b0, k)
        c     == IF carry = NoCarry /\ prev # Nil
                 THEN Carry(prev, prevPrev, k) ELSE carry
    IN IF prev = Nil
       THEN [builder |-> Push(b, <<>>, carry.key = Nil),
             carry   |-> Carry(Nil, Nil, next)]
       ELSE IF c.key = prev
       THEN [builder |-> b, carry |-> [c EXCEPT !.next = next]]
       ELSE LET b1 == IF c.key # Nil THEN PushInsertReplace(b, c.key, c.prev, c.next) ELSE b
                b2 == IF c.next # Nil /\ c.next < prev THEN PushPrevReplace(b1, c.next, c.key)
                      ELSE Push(b1, <<>>, c.next # Nil)
            IN [builder |-> b2, carry |-> Carry(prev, prevPrev, next)]

Mut_HandleInsert(b, k, carry, prev, prevPrev, next) ==
    LET b1 == IF carry.key # Nil /\ carry.key # prev
              THEN PushInsertReplace(b, carry.key, carry.prev, carry.next) ELSE b
    IN [builder |-> IF prev = Nil THEN Push(b, <<>>, carry.key = Nil)
                    ELSE PushInsertReplace(b1, prev, prevPrev, k),
        carry   |-> Carry(k, prev, next)]
HandleInsert(b, k, carry, prev, prevPrev, next) ==
    LET b1 == IF carry.key # Nil /\ carry.key # prev
              THEN PushInsertReplace(b, carry.key, carry.prev, carry.next) ELSE b
        b2 == IF carry.next # Nil /\ carry.next < prev
              THEN PushPrevReplace(b1, carry.next, carry.key) ELSE b1
    IN [builder |-> IF prev = Nil THEN Push(b, <<>>, carry.key = Nil)
                    ELSE PushInsertReplace(b2, prev, prevPrev, k),
        carry   |-> Carry(k, prev, next)]

HandleKey(batch, b, k, carry) ==
    LET first    == FindNonZeroPrev(k)
        prevPrev == IF first = Nil THEN Nil ELSE OtherInstanceToNone(k, FindNonZeroPrev(first))
        prev     == OtherInstanceToNone(k, first)
        walked   == PushSkipped(b, Skipped(batch, k))
    IN IF k \in present
       THEN HandleInsert(walked, k, carry, prev, prevPrev, NonZeroNext(k))
       ELSE HandleDelete(walked, k, carry, prev, prevPrev, NonZeroNext(k))

\* The end of an instance: the carry entry and the key after it are final.
FinishInstance(b, carry) ==
    LET b1 == IF carry.key # Nil THEN PushInsertReplace(b, carry.key, carry.prev, carry.next) ELSE b
    IN IF carry.next # Nil THEN PushPrevReplace(b1, carry.next, carry.key) ELSE b1

RECURSIVE HandleInstance(_, _, _, _)
HandleInstance(batch, todo, b, carry) ==
    LET k    == Min(todo)
        r    == HandleKey(batch, b, k, carry)
        rest == todo \ ({k} \cup Skipped(batch, k))
    IN IF \E x \in rest : SameInstance(x, k)
       THEN HandleInstance(batch, rest, r.builder, r.carry)
       ELSE [builder |-> FinishInstance(r.builder, r.carry), rest |-> rest]

RECURSIVE HandleInstances(_, _, _)
HandleInstances(batch, todo, b) ==
    IF todo = {} THEN b
    ELSE LET r == HandleInstance(batch, todo, b, NoCarry)
         IN HandleInstances(batch, r.rest, r.builder)

\* batch_builder.done and the insertion into the output trace.
EntryWeight(b, e) ==
    (IF e \in pointers THEN 1 ELSE 0)
        + Cardinality({i \in DOMAIN b.updates : b.updates[i] = <<e, 1>>})
        - Cardinality({i \in DOMAIN b.updates : b.updates[i] = <<e, -1>>})

SortBatch ==
    /\ queued # <<>> /\ ~sortError
    /\ LET b == HandleInstances(Head(queued), Head(queued), [updates |-> <<>>, sound |-> TRUE])
           entries == pointers \cup {b.updates[i][1] : i \in DOMAIN b.updates}
       IN /\ pointers' = {e \in entries : EntryWeight(b, e) # 0}
          /\ sortError' = (~b.sound \/ \E e \in entries : EntryWeight(b, e) \notin {0, 1})
    /\ queued' = Tail(queued) /\ lagged' = (lagged \/ Len(queued) > 1)
    /\ UNCHANGED present

SortInit == present = {} /\ queued = <<>> /\ pointers = {} /\ sortError = FALSE /\ lagged = FALSE
SortNext == ArrangeSorted \/ SortBatch

-----------------------------------------------------------------------------
\* The keys that the batches processed so far leave.
RECURSIVE Before(_, _)
Before(S, batches) ==
    IF batches = <<>> THEN S
    ELSE Before(Updated(S, batches[Len(batches)]), SubSeq(batches, 1, Len(batches) - 1))

Neighbours(S) ==
    {<<k, OtherInstanceToNone(k, Max({Nil} \cup {x \in S : x < k})),
          OtherInstanceToNone(k, Min({x \in S : x > k} \cup {SortKeys + 1}) % (SortKeys + 1))>> : k \in S}

\* Whatever a batch inserts and deletes, in however many instances, every row
\* points to its neighbours of the same instance: the half-built carry entry is
\* always completed with the right key, and written once (handle_insert,
\* handle_delete, handle_one_instance).  As long as the operator has seen every
\* batch before the next one is in the trace, no assertion of it fails and this
\* holds after each batch.  A trace that runs ahead, whose later rows the operator
\* takes for neighbours, leaves no wrong pointer behind once the operator has
\* caught up, unless it has looked for pointers that its output does not have yet.
PointersExact ==
    /\ ~lagged => ~sortError /\ pointers = Neighbours(Before(present, queued))
    /\ ~sortError /\ queued = <<>> => pointers = Neighbours(present)

=============================================================================
