------------------------------- MODULE Reducers -------------------------------
(***************************************************************************)
(* group_by_table of src/engine/dataflow.rs and the reducers of            *)
(* src/engine/reduce.rs.  A row is <<key, <<group, value>>>>; a reducer    *)
(* sees the <<key, value>> of one group.  What the generic reducers keep   *)
(* is recomputed from a group's rows; the integer sum is kept up to date   *)
(* by differences, and the reducers over arrivals look at new rows only.   *)
(***************************************************************************)
EXTENDS Values, Sequences, SequencesExt, FiniteSetsExt

CONSTANTS
    RowKeys, GroupNames,
    ReducedValues,   \* numbers a column holds, beside None and Error
    IntModulus,      \* 2^w for integers of w bits
    ArrivalTimes     \* bound: times at which rows arrive

VARIABLES
    grouped,    \* the table
    intSums,    \* IntSumState of every group
    arrivals,   \* sets of <<key, value>> that came at each time, for one group
    earliest, latest, stateful    \* states of the reducers over arrivals, NoState at first

reduceVars == <<grouped, intSums, arrivals, earliest, latest, stateful>>

ValuesOf(rs) == {r[2] : r \in rs}
RowsOf(g) == {<<x[1], x[2][2]>> : x \in {y \in grouped : y[2][1] = g}}

(***************************************************************************)
(* IntSumReducer: (count, sum, error_count), a difference type.            *)
(***************************************************************************)
IntSumInit(v) == IF v > NoneValue THEN <<1, v % IntModulus, 0>> ELSE <<0, 0, 1>>
Mut_Plus(a, b, n) == <<a[1] + n * b[1], (a[2] + n * b[2]) % IntModulus, a[3] + b[3]>>
Plus(a, b, n) == <<a[1] + n * b[1], (a[2] + n * b[2]) % IntModulus, a[3] + n * b[3]>>
Mut_IntSumIsZero(s) == s[1] = 0 /\ s[2] = 0
IntSumIsZero(s) == s = <<0, 0, 0>>
IntSum(s) == IF s[3] # 0 THEN ErrorValue ELSE s[2]

(***************************************************************************)
(* The reducers that combine states with counts.                           *)
(***************************************************************************)
Earlier(r, q) == r[2] < q[2] \/ (r[2] = q[2] /\ r[1] <= q[1])   \* (value, key)
SortedRows(rs) == SetToSortSeq(rs, Earlier)
FloatSum(rs) ==
    IF NoneValue \in ValuesOf(rs) THEN ErrorValue ELSE MapThenSumSet(LAMBDA r : r[2], rs)
MinOf(rs) == Min(ValuesOf(rs))
MaxOf(rs) == Max(ValuesOf(rs))
Unique(rs) == IF Cardinality(ValuesOf(rs)) = 1 THEN Min(ValuesOf(rs)) ELSE ErrorValue
ArgMin(rs) == (CHOOSE r \in rs : \A q \in rs : Earlier(r, q))[1]
Mut_ArgMax(rs) == (CHOOSE r \in rs : \A q \in rs : Earlier(q, r))[1]
ArgMax(rs) == (CHOOSE r \in rs : \A q \in rs : q[2] < r[2] \/ (q[2] = r[2] /\ r[1] <= q[1]))[1]
AnyOf(rs) == (CHOOSE r \in rs : \A q \in rs : r[1] <= q[1])[2]   \* the salted keys' order
SortedTuple(rs) == [i \in DOMAIN SortedRows(rs) |-> SortedRows(rs)[i][2]]
TupleByKey(rs) == LET s == SetToSortSeq(rs, LAMBDA r, q : r[1] <= q[1]) IN [i \in DOMAIN s |-> s[i][2]]
SkipNones(rs) == {r \in rs : r[2] # NoneValue}

ReducerNames == {"count", "int_sum", "float_sum", "unique", "min", "max", "argmin", "argmax",
                 "any", "sorted_tuple", "tuple"}

\* A group with an error among its values reduces to Error, except for a count.
Reduce(name, rs) ==
    CASE name = "count" -> <<Cardinality(rs)>>
      [] name # "count" /\ ErrorValue \in ValuesOf(rs) -> <<ErrorValue>>
      [] OTHER ->
        CASE name = "int_sum" -> <<IntSum(FoldSet(LAMBDA r, s : Plus(s, IntSumInit(r[2]), 1), <<0, 0, 0>>, rs))>>
          [] name = "float_sum" -> <<FloatSum(rs)>>
          [] name = "unique" -> <<Unique(rs)>>
          [] name = "min" -> <<MinOf(rs)>>
          [] name = "max" -> <<MaxOf(rs)>>
          [] name = "argmin" -> <<ArgMin(rs)>>
          [] name = "argmax" -> <<ArgMax(rs)>>
          [] name = "any" -> <<AnyOf(rs)>>
          [] name = "sorted_tuple" -> SortedTuple(SkipNones(rs))
          [] name = "tuple" -> TupleByKey(rs)

\* One column of the result: group -> value, for the groups that have a state.
ReducedColumn(name, skipErrors) ==
    LET Kept(g) == {r \in RowsOf(g) : skipErrors => r[2] # ErrorValue}
    IN IF name = "int_sum" /\ ~skipErrors
       THEN [g \in {h \in GroupNames : ~IntSumIsZero(intSums[h])} |-> <<IntSum(intSums[g])>>]
       ELSE [g \in {h \in GroupNames : Kept(h) # {}} |-> Reduce(name, Kept(g))]

\* group_by_table joins its columns: a group needs a value in each of them.
GroupByTable(columns) ==
    LET cols == [c \in columns |-> ReducedColumn(c[1], c[2])]
    IN [g \in {h \in GroupNames : \A c \in columns : h \in DOMAIN cols[c]} |->
            [c \in columns |-> cols[c][g]]]

-----------------------------------------------------------------------------
\* Rows whose group is an error are logged and left out.
Difference(g, gone, come) ==
    LET minus == FoldSet(LAMBDA x, s : IF x[2][1] = g THEN Plus(s, IntSumInit(x[2][2]), -1) ELSE s, intSums[g], gone)
    IN FoldSet(LAMBDA x, s : IF x[2][1] = g THEN Plus(s, IntSumInit(x[2][2]), 1) ELSE s, minus, come)

ChangeGrouped ==
    /\ \E k \in RowKeys, g \in GroupNames \cup {ErrorValue}, v \in ReducedValues \cup {NoneValue, ErrorValue},
          deleted \in BOOLEAN :
        LET gone == {x \in grouped : x[1] = k}
            come == IF deleted THEN {} ELSE {<<k, <<g, v>>>>}
        IN /\ grouped' = (grouped \ gone) \cup come
           /\ intSums' = [h \in GroupNames |-> Difference(h, gone, come)]
    /\ UNCHANGED <<arrivals, earliest, latest, stateful>>

NoState == <<>>

\* stateful_reduce over the rows of one time; deletions stop the program.
Arrive ==
    /\ Len(arrivals) < ArrivalTimes
    /\ \E rs \in SUBSET (RowKeys \X (ReducedValues \cup {ErrorValue})) :
        /\ rs # {} /\ Cardinality({r[1] : r \in rs}) = Cardinality(rs)
        /\ \A i \in DOMAIN arrivals : \A r \in rs, q \in arrivals[i] : r[1] # q[1]
        /\ arrivals' = Append(arrivals, rs)
        /\ latest' = <<(CHOOSE r \in rs : \A q \in rs : q[1] <= r[1])[2]>>
        /\ earliest' = IF earliest # NoState THEN earliest
                       ELSE <<(CHOOSE r \in rs : \A q \in rs : r[1] <= q[1])[2]>>
        /\ stateful' = IF stateful = <<ErrorValue>> \/ ErrorValue \in ValuesOf(rs) THEN <<ErrorValue>>
                       ELSE <<(IF stateful = NoState THEN 0 ELSE stateful[1]) + MapThenSumSet(LAMBDA r : r[2], rs)>>
    /\ UNCHANGED <<grouped, intSums>>

ReduceInit ==
    /\ grouped = {} /\ intSums = [g \in GroupNames |-> <<0, 0, 0>>]
    /\ arrivals = <<>> /\ earliest = NoState /\ latest = NoState /\ stateful = NoState

-----------------------------------------------------------------------------
\* The integer sum, which only ever sees differences, agrees with the rows that
\* are there: modulo its width, with an error exactly while a row of the group
\* has one (the last such row's deletion heals the group), and the group is
\* there exactly while it has rows, a sum of zero included.
IntSumExact ==
    LET column == ReducedColumn("int_sum", FALSE) IN
    /\ DOMAIN column = {g \in GroupNames : RowsOf(g) # {}}
    /\ \A g \in DOMAIN column :
        column[g][1] = IF \E r \in RowsOf(g) : r[2] \in {NoneValue, ErrorValue} THEN ErrorValue
                       ELSE MapThenSumSet(LAMBDA r : r[2], RowsOf(g)) % IntModulus

\* No group is lost and none is invented, whatever errors its rows hold, unless
\* a reducer that skips errors has nothing left of it: then the group goes, with
\* the other reducers' results for it.
GroupsExact ==
    \A names \in {{"count", "unique"}, {"int_sum", "argmin"}, ReducerNames} :
        LET kept == GroupByTable({<<n, FALSE>> : n \in names})
            skipping == GroupByTable({<<n, n = "unique">> : n \in names})
        IN /\ DOMAIN kept = {g \in GroupNames : RowsOf(g) # {}}
           /\ DOMAIN kept \ DOMAIN skipping =
                {g \in DOMAIN kept : "unique" \in names /\ ValuesOf(RowsOf(g)) = {ErrorValue}}

\* The reducers that pick a row pick one of the group's, and the same whatever
\* order the rows came in: ties of argmin and argmax both go to the least key,
\* and over arrivals latest and earliest follow the order of (time, key).
PicksExact ==
    /\ \A g \in GroupNames : LET rs == RowsOf(g) IN
        rs # {} /\ ErrorValue \notin ValuesOf(rs) =>
            LET Ties(v) == {r[1] : r \in {q \in rs : q[2] = v}}
            IN /\ Reduce("argmin", rs)[1] = Min(Ties(Reduce("min", rs)[1]))
               /\ Reduce("argmax", rs)[1] = Min(Ties(Reduce("max", rs)[1]))
               /\ Reduce("unique", rs)[1] # ErrorValue <=> Reduce("min", rs) = Reduce("max", rs)
    /\ LET timed == UNION {{<<i, r[1], r[2]>> : r \in arrivals[i]} : i \in DOMAIN arrivals}
           Precedes(a, b) == a[1] < b[1] \/ (a[1] = b[1] /\ a[2] <= b[2])
       IN \A a \in timed :
            /\ (\A b \in timed : Precedes(a, b)) => earliest = <<a[3]>>
            /\ (\A b \in timed : Precedes(b, a)) => latest = <<a[3]>>

\* What a group shows is what its rows, and only they, amount to.
ReducedExact == IntSumExact /\ GroupsExact /\ PicksExact

=============================================================================
