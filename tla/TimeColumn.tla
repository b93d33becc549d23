------------------------------ MODULE TimeColumn ------------------------------
(***************************************************************************)
(* The operators behind temporal behaviours: buffer (postpone), forget and *)
(* freeze of src/engine/dataflow/operators/time_column.rs, fed by one      *)
(* table.                                                                  *)
(*                                                                         *)
(* A row <<thr, key, cur>> carries a threshold and a current time as       *)
(* columns.  buffer holds a row back until a current time of an earlier    *)
(* batch has reached its threshold, forget retracts it then, freeze drops  *)
(* what arrives for it later.                                              *)
(*                                                                         *)
(* postpone is a loop: what it emits comes back negated, one epsilon later *)
(* and marked as a retraction, so that the arrangement it reads forgets    *)
(* it.  A SelfCompactionTime (t, retraction) is the number 2t+retraction.  *)
(* The arrangement and the frontiers are those of differential dataflow:   *)
(* a batch holds every update below a frontier that the feedback allows.   *)
(***************************************************************************)
EXTENDS Integers, Sequences, SequencesExt, FiniteSetsExt

CONSTANTS
    TimeRows,     \* the rows <<thr, key, cur>> the table may hold
    TimeBatches,  \* bound: number of input times
    TimeDelta,    \* bound: updates of one input time
    LatePairs     \* two keys that are both late may come at one time

VARIABLES
    fed,        \* fed[n]: the updates <<row, diff>> the table got at time 2(n-1)
    closed,     \* the input has ended
    unbatched,  \* updates <<row, code, diff>> the arrangement has not sealed
    batches,    \* sealed batches on their way to the operator
    stored,     \* total weight of each row in the trace of the arrangement
    core,       \* the local variables of postpone_core
    emitted,    \* what postpone_core has output: <<row, code, diff>>
    flushed,    \* maybe_cap is None: the end of input has been handled
    frozen      \* state and outputs of ignore_late

tcVars == <<fed, closed, unbatched, batches, stored, core, emitted, flushed, frozen>>

Never == -1    \* an Option<CT> that is None, below every column time
Thr(r) == r[1]
Cur(r) == r[3]
TimeKey(r) == <<r[1], r[2]>>
NoKey == <<Never, Never>>
KeyLess(a, b) == a[1] < b[1] \/ (a[1] = b[1] /\ a[2] < b[2])
MaxKey(K) == CHOOSE k \in K : \A x \in K : ~KeyLess(k, x)

Original(t) == 2 * t
IsRetraction(code) == code % 2 = 1
TimeOf(code) == code \div 2
MaxTimestamp == Original(2 * TimeBatches + 2)  \* stands for u64::MAX / 2 * 2
Mut_Feedback(code) == code
\* SelfCompactionTime::retraction(epsilon) as the summary of the feedback edge.
Feedback(code) == 2 * (TimeOf(code) + 1) + 1

(***************************************************************************)
(* The table: rows are inserted and deleted, times are even.               *)
(***************************************************************************)
TimeOfBatch(n) == 2 * (n - 1)
Diff(u) == u[Len(u)]
\* Sum of the diffs of row r in a set of updates <<row, ..., diff>>.
RowWeight(U, r) == MapThenSumSet(Diff, {u \in U : u[1] = r})
\* A row is inserted and deleted in turn, so its weight is 0 or 1.
InputWeight(n, r) == Cardinality({i \in 1 .. n : \E u \in fed[i] : u[1] = r}) % 2
\* The column time that the updates of the first n times have reached.
ColumnTime(n) == Max({Never} \cup UNION {{Cur(u[1]) : u \in fed[i]} : i \in 1 .. n})

Deltas ==
    {{<<r, 1 - 2 * InputWeight(Len(fed), r)>> : r \in R} :
        R \in {S \in SUBSET TimeRows : Cardinality(S) \in 1 .. TimeDelta}}

LateKeys(U) ==
    {TimeKey(u[1]) : u \in {v \in U : Thr(v[1]) <= ColumnTime(Len(fed) - 1)}}

Feed ==
    /\ ~closed /\ Len(fed) < TimeBatches
    /\ \E U \in Deltas :
        /\ LatePairs \/ Cardinality(LateKeys(U)) <= 1
        /\ fed' = Append(fed, U)
        /\ unbatched' = unbatched \cup
               {<<u[1], Original(TimeOfBatch(Len(fed) + 1)), u[2]>> : u \in U}
    /\ UNCHANGED <<closed, batches, stored, core, emitted, flushed, frozen>>

CloseInput ==
    /\ ~closed /\ fed # <<>>
    /\ closed' = TRUE
    /\ UNCHANGED <<fed, unbatched, batches, stored, core, emitted, flushed, frozen>>

(***************************************************************************)
(* The arrangement seals batches below a frontier: the input's, and one    *)
(* feedback step after any update or batch that can still cause an output. *)
(***************************************************************************)
Held == {u[2] : u \in unbatched} \cup
        UNION {{u[2] : u \in batches[i]} : i \in DOMAIN batches}

InputFrontier == IF closed THEN MaxTimestamp ELSE Original(TimeOfBatch(Len(fed) + 1))

ArrangeFrontier == Min({InputFrontier} \cup {Feedback(c) : c \in Held})

Arrange ==
    \E f \in {u[2] + 1 : u \in unbatched} :
        LET sealed == {u \in unbatched : u[2] < f}
        IN /\ f <= ArrangeFrontier
           /\ batches' = Append(batches, sealed)
           /\ unbatched' = unbatched \ sealed
           /\ stored' = [r \in TimeRows |-> stored[r] + RowWeight(sealed, r)]
           /\ UNCHANGED <<fed, closed, core, emitted, flushed, frozen>>

(***************************************************************************)
(* postpone_core: one original time of a batch.  The loop over the entries *)
(* (in the order of their keys) forwards what is late, and walks the trace *)
(* from the last key handled up to the release threshold, which is that of *)
(* earlier times; the walk of the first entry leaves nothing to the later  *)
(* ones.  ghost is the greatest key of the trace whose weight is zero and  *)
(* that compaction has not removed yet.                                    *)
(***************************************************************************)
Mut_IsLate(s, r) == s.already > Thr(r)
IsLate(s, r) == s.already >= Thr(r)

HandleTime(s, ghost, c, entries) ==
    LET late  == {e \in entries : IsLate(s, e[1])}
        first == CHOOSE e \in entries : \A x \in entries : ~KeyLess(TimeKey(x[1]), TimeKey(e[1]))
        from  == IF first \in late THEN MaxKey({s.last, TimeKey(first[1])}) ELSE s.last
        walk  == {r \in TimeRows : stored[r] # 0 /\ KeyLess(from, TimeKey(r)) /\ Thr(r) <= s.release}
        Shown(r) == RowWeight(late, r) + (IF r \in walk THEN stored[r] ELSE 0)
    IN [already |-> s.release,
        release |-> Max({s.release} \cup {Cur(e[1]) : e \in entries}),
        last    |-> MaxKey({from, ghost} \cup {TimeKey(e[1]) : e \in late} \cup {TimeKey(r) : r \in walk}),
        time    |-> c,
        out     |-> s.out \cup {<<r, c, Shown(r)>> : r \in {q \in TimeRows : Shown(q) # 0}}]

\* The original times of a batch in their order; retractions only reach the trace.
PostponeBatch(batch, ghost) ==
    LET times == {u[2] : u \in {v \in batch : ~IsRetraction(v[2])}}
        Upto[c \in times \cup {Never}] ==
            IF c = Never THEN core @@ [out |-> {}]
            ELSE HandleTime(Upto[Max({Never} \cup {x \in times : x < c})], ghost, c,
                            {u \in batch : u[2] = c})
    IN Upto[Max({Never} \cup times)]

Ghosts == {NoKey} \cup {TimeKey(r) : r \in {q \in TimeRows :
              stored[q] = 0 /\ Thr(q) <= core.release /\ \E i \in DOMAIN fed : RowWeight(fed[i], q) # 0}}

Postpone ==
    /\ batches # <<>>
    /\ \E p \in {PostponeBatch(Head(batches), ghost) : ghost \in Ghosts} :
        /\ core' = [already |-> p.already, release |-> p.release, last |-> p.last, time |-> p.time]
        /\ emitted' = emitted \cup p.out
        /\ unbatched' = unbatched \cup {<<u[1], Feedback(u[2]), -u[3]>> : u \in p.out}
    /\ batches' = Tail(batches)
    /\ UNCHANGED <<fed, closed, stored, flushed, frozen>>

\* flush_on_end: the rest of the trace leaves at the greatest even time.
FlushOnEnd ==
    /\ closed /\ unbatched = {} /\ batches = <<>> /\ ~flushed
    /\ flushed' = TRUE
    /\ emitted' = emitted \cup {<<r, MaxTimestamp, stored[r]>> :
                      r \in {q \in TimeRows : stored[q] # 0 /\ KeyLess(core.last, TimeKey(q))}}
    /\ UNCHANGED <<fed, closed, unbatched, batches, stored, core, frozen>>

(***************************************************************************)
(* forget: the input and, negated, what postpone releases, marked with the *)
(* odd ("neu") time that follows.  filter_out_results_of_forgetting keeps  *)
(* the updates at even times.                                              *)
(***************************************************************************)
ForgetMark(t) == t + 1

ForgetOutput(n) ==
    UNION {{<<u[1], TimeOfBatch(i), u[2]>> : u \in fed[i]} : i \in 1 .. n}
        \cup {<<u[1], ForgetMark(TimeOf(u[2])), -u[3]>> : u \in {v \in emitted : v[2] < MaxTimestamp}}

FilterOutResultsOfForgetting(U) == {u \in U : u[2] % 2 = 0}

(***************************************************************************)
(* freeze (ignore_late): a batch may hold several times, each compared     *)
(* with the column time of the times before it.                            *)
(***************************************************************************)
IgnoreLate(s, U) ==
    [max  |-> Max({s.max} \cup {Cur(u[1]) : u \in U}),
     kept |-> [r \in TimeRows |-> s.kept[r] + IF s.max < Thr(r) THEN RowWeight(U, r) ELSE 0],
     late |-> [r \in TimeRows |-> s.late[r] + IF s.max < Thr(r) THEN 0 ELSE RowWeight(U, r)]]

Freeze ==
    /\ frozen.next <= Len(fed)
    /\ \E n \in frozen.next .. Len(fed) :
        LET s == FoldLeft(IgnoreLate, [max |-> frozen.max, kept |-> frozen.kept, late |-> frozen.late],
                          SubSeq(fed, frozen.next, n))
        IN frozen' = [next |-> n + 1, max |-> s.max, kept |-> s.kept, late |-> s.late]
    /\ UNCHANGED <<fed, closed, unbatched, batches, stored, core, emitted, flushed>>

TimeColumnInit ==
    /\ fed = <<>> /\ closed = FALSE
    /\ unbatched = {} /\ batches = <<>>
    /\ stored = [r \in TimeRows |-> 0]
    /\ core = [already |-> Never, release |-> Never, last |-> NoKey, time |-> Never]
    /\ emitted = {} /\ flushed = FALSE
    /\ frozen = [next |-> 1, max |-> Never,
                 kept |-> [r \in TimeRows |-> 0], late |-> [r \in TimeRows |-> 0]]

BufferNext == Feed \/ CloseInput \/ Arrange \/ Postpone \/ FlushOnEnd
FreezeNext == Feed \/ Freeze

-----------------------------------------------------------------------------
Processed == IF core.time = Never THEN 0 ELSE TimeOf(core.time) \div 2 + 1

\* What buffer shows after n times: the rows whose threshold has been reached
\* by the column time of earlier batches, and only those.
Due(n, r) == IF n > 0 /\ Thr(r) <= ColumnTime(n - 1) THEN InputWeight(n, r) ELSE 0

\* Whatever the schedule of the loop, the output of buffer is the input's
\* rows that are due at the last time processed, each with the weight it has
\* in the input: nothing is released early, twice or never, a row deleted
\* while it was held back is not shown, and the end of input releases the rest
\* (postpone_core).
ReleasedWhenDue ==
    \A r \in TimeRows :
        RowWeight(emitted, r) =
            IF flushed THEN InputWeight(Len(fed), r) ELSE Due(Processed, r)

\* forget shows exactly the rows that are not due yet, and dropping the
\* updates at odd times gives back the input it was made from: the times that
\* mark forgetting never mix with those of the input.
ForgottenWhenDue ==
    /\ \A r \in TimeRows :
        RowWeight(ForgetOutput(Processed), r) = InputWeight(Processed, r) - Due(Processed, r)
    /\ FilterOutResultsOfForgetting(ForgetOutput(Processed)) =
        UNION {{<<u[1], TimeOfBatch(i), u[2]>> : u \in fed[i]} : i \in 1 .. Processed}

\* A row that freeze lets through is as it was when the column time passed its
\* threshold: later insertions and deletions of it go to the late output,
\* however the arrangement cuts the input into batches (ignore_late).
FrozenWhenPassed ==
    \A r \in TimeRows :
        LET n == Max({0} \cup {i \in 1 .. frozen.next - 1 : ColumnTime(i - 1) < Thr(r)})
        IN /\ frozen.kept[r] = InputWeight(n, r)
           /\ frozen.kept[r] + frozen.late[r] = InputWeight(frozen.next - 1, r)

\* The time columns act on a row when it is due, never before.
OnTime == ReleasedWhenDue /\ ForgottenWhenDue /\ FrozenWhenPassed

\* Once the input has ended every row that buffer held back is released: the
\* loop drains and the flush on end is reached.
BufferDrains == closed ~> flushed

=============================================================================
