-------------------------------- MODULE Tables --------------------------------
(***************************************************************************)
(* The relational operators of src/engine/dataflow.rs over two tables that *)
(* change row by row.  A table is a collection of <<key, value>>.  A value *)
(* is a pointer or join value 1 .. RightKeys, NoneValue or ErrorValue; a   *)
(* hashed key is the tuple it is the hash of.                              *)
(***************************************************************************)
EXTENDS Collections, Values, Sequences

CONSTANTS LeftKeys, RightKeys   \* numbers of keys of the two tables

VARIABLES left, right

tableVars == <<left, right>>

TableValues == {NoneValue, ErrorValue} \cup (1 .. RightKeys)

(***************************************************************************)
(* Duplicates: where two tables or a new index may bring a key twice.      *)
(***************************************************************************)
\* errorLogic gives, for a value of the collection, what takes its place.
ReplaceDuplicatesWithError(c, errorLogic) ==
    LET Logic(k, vs) ==
            LET v == CHOOSE x \in DOMAIN vs : TRUE
            IN IF DOMAIN vs = {v} /\ vs[v] = 1 THEN v ELSE errorLogic[v]
    IN ReduceColl(c, Logic)

ValuesIn(c) == {x[2] : x \in DOMAIN c}
NoRow == <<>>                \* Value::None in place of a row
ErrorRow == <<ErrorValue>>   \* Value::Error in place of a row

\* Errors in the filtering column drop the row; truths are the values that count as true.
FilterTable(t, truths) ==
    LET P(x) == x[2] # ErrorValue /\ x[2] \in truths IN FilterColl(t, P)

\* A new key that is None is no pointer and stops the program.
ReindexTable(t) ==
    LET New(x) == IF x[2] = ErrorValue THEN {} ELSE {<<x[2], x>>}
        indexed == FlatMap(t, New)
    IN ReplaceDuplicatesWithError(indexed, [v \in ValuesIn(indexed) |-> ErrorRow])

Mut_ConcatTables(a, b) == Concat(a, b)
ConcatTables(a, b) ==
    LET both == Concat(a, b)
    IN ReplaceDuplicatesWithError(both, [v \in ValuesIn(both) |-> ErrorValue])

IntersectTables(a, b) ==
    LET F(k, v, w) == <<k, v>> IN JoinColl(a, b, F)

Mut_SubtractTable(a, b) == Concat(a, Negate(b))
SubtractTable(a, b) == Concat(a, Negate(IntersectTables(a, b)))

\* Rows of the new universe with the original's values, Error where there is none.
RestrictOrOverrideTableUniverse(original, new) ==
    LET Both(k, n, o) == <<k, <<n, o>>>>
        NewOf(x)      == <<x[1], x[2][1]>>
        Fill(x)       == <<x[1], <<x[2], ErrorValue>>>>
        result        == JoinColl(new, original, Both)
    IN Concat(result, MapColl(Concat(new, Negate(Distinct(MapColl(result, NewOf)))), Fill))

\* A value n stands for a sequence of n elements; none and errors give no rows.
FlattenTable(t) ==
    LET Rows(x) == {<<<<x[1], i>>, <<x[2], i>>>> : i \in 0 .. x[2] - 1} IN FlatMap(t, Rows)

UpdateRowsArrange(t, update) ==
    LET Orig(x) == <<x[1], <<"original", x[2]>>>>
        Upd(x)  == <<x[1], <<"update", x[2]>>>>
    IN Concat(MapColl(t, Orig), MapColl(update, Upd))

UpdateRowsTable(t, update) ==
    LET Logic(k, vs) == (CHOOSE x \in DOMAIN vs : (\E y \in DOMAIN vs : y[1] = "update") => x[1] = "update")[2]
    IN ReduceColl(UpdateRowsArrange(t, update), Logic)

\* Called with an update whose keys are keys of the table; panics otherwise.
UpdateCellsTable(t, update) ==
    LET Logic(k, vs) ==
            LET original == CHOOSE x \in DOMAIN vs : x[1] = "original"
                selected == IF \E x \in DOMAIN vs : x[1] = "update"
                            THEN CHOOSE x \in DOMAIN vs : x[1] = "update" ELSE original
            IN <<original[2], selected[2]>>
    IN ReduceColl(UpdateRowsArrange(t, update), Logic)

(***************************************************************************)
(* ix_table: the value of a row is a pointer into another table.  A value  *)
(* that is no pointer stops the program (unwrap_with_reporter).            *)
(***************************************************************************)
IxAborts(t, policy) ==
    \E x \in DOMAIN t : x[2] = ErrorValue \/ (policy = "FailMissing" /\ x[2] = NoneValue)

IxTable(t, target, policy) ==
    LET Source(x)  == IF x[2] = NoneValue THEN {} ELSE {<<x[2], x>>}
        F(p, x, v) == <<x[1], IF policy = "SkipMissing" THEN v ELSE <<x[2], v>>>>
        Forward(x) == IF x[2] = NoneValue THEN {<<x[1], <<x[2], NoneValue>>>>} ELSE {}
        found      == JoinColl(FlatMap(t, Source), target, F)
    IN IF policy = "ForwardNone" THEN Concat(found, FlatMap(t, Forward)) ELSE found

\* assert_collections_same_size: an error is logged when the sizes differ.
Mut_IxLogsMissing(t, target, policy) ==
    policy = "FailMissing" /\ Cardinality(DOMAIN t) # Cardinality(DOMAIN IxTable(t, target, policy))
IxLogsMissing(t, target, policy) ==
    policy # "SkipMissing" /\ Cardinality(DOMAIN t) # Cardinality(DOMAIN IxTable(t, target, policy))

(***************************************************************************)
(* join_tables on the value.  An Error has no join key: the row meets no   *)
(* other, but the outer parts keep it.                                     *)
(***************************************************************************)
JoinTypes == {"Inner", "LeftOuter", "RightOuter", "FullOuter", "LeftKeysSubset", "LeftKeysFull"}
LeftKeyTypes == {"LeftKeysSubset", "LeftKeysFull"}

WithJoinKey(t) == LET F(x) == <<x[2], x>> IN MapColl(t, F)
Joinable(c) == LET P(x) == x[1] # ErrorValue IN FilterColl(c, P)

\* The rows of one side that are in no matched pair.
Mut_OuterPart(side, matchedSide) == Concat(side, Negate(matchedSide))
OuterPart(side, matchedSide) == Concat(side, Negate(Distinct(matchedSide)))

JoinTables(l, r, type) ==
    LET lk == WithJoinKey(l)
        rk == WithJoinKey(r)
        Meet(j, x, y) == <<j, x, y>>
        matched == JoinColl(Joinable(lk), Joinable(rk), Meet)
        LeftSide(m)  == <<m[1], m[2]>>
        RightSide(m) == <<m[1], m[3]>>
        Both(m) == <<IF type \in LeftKeyTypes THEN m[2][1] ELSE <<m[2][1], m[3][1]>>, <<m[2], m[3]>>>>
        LeftOnly(x) == <<IF type = "LeftKeysFull" THEN x[2][1] ELSE <<x[2][1], NoneValue>>, <<x[2], NoRow>>>>
        RightOnly(x) == <<<<NoneValue, x[2][1]>>, <<NoRow, x[2]>>>>
        inner == MapColl(matched, Both)
        withLeft == IF type \in {"LeftOuter", "FullOuter", "LeftKeysFull"}
                    THEN Concat(inner, MapColl(OuterPart(lk, MapColl(matched, LeftSide)), LeftOnly)) ELSE inner
        withRight == IF type \in {"RightOuter", "FullOuter"}
                     THEN Concat(withLeft, MapColl(OuterPart(rk, MapColl(matched, RightSide)), RightOnly)) ELSE withLeft
        keepLeft == [v \in ValuesIn(withRight) |-> <<v[1], ErrorRow>>]
    IN IF type \in LeftKeyTypes THEN ReplaceDuplicatesWithError(withRight, keepLeft) ELSE withRight

-----------------------------------------------------------------------------
\* A row is inserted, replaced or deleted.
Changed(t, k, v) ==
    LET P(x) == x[1] # k
    IN IF v \in TableValues THEN Concat(FilterColl(t, P), Once({<<k, v>>})) ELSE FilterColl(t, P)
Deleted == RightKeys + 1

ChangeLeft ==
    \E k \in 1 .. LeftKeys, v \in TableValues \cup {Deleted} : left' = Changed(left, k, v) /\ UNCHANGED right
ChangeRight ==
    \E k \in 1 .. RightKeys, v \in TableValues \cup {Deleted} : right' = Changed(right, k, v) /\ UNCHANGED left

TablesInit == left = Once({}) /\ right = Once({})
TablesNext == ChangeLeft \/ ChangeRight

\* The outputs that other operators take as tables.
Restricted == IntersectTables(right, left)
OutputsOf(l, r) ==
    <<ReindexTable(FilterTable(l, TableValues \ {NoneValue})), ConcatTables(l, r),
      IntersectTables(l, r), SubtractTable(l, r), RestrictOrOverrideTableUniverse(l, r),
      FlattenTable(l), UpdateRowsTable(l, r), UpdateCellsTable(l, Restricted)>>

\* Every operator hands on a table: no key twice, no weight but one, although
\* its parts are added, negated and made distinct as multisets, and although a
\* new index, a concatenation or a join on one side's keys may bring duplicates
\* (replace_duplicates_with_error).
OutputsWellFormed ==
    /\ \A i \in DOMAIN OutputsOf(left, right) : WellFormed(OutputsOf(left, right)[i])
    /\ \A p \in {"FailMissing", "SkipMissing", "ForwardNone"} : WellFormed(IxTable(left, right, p))
    /\ \A type \in JoinTypes : WellFormed(JoinTables(left, right, type))

\* The universes that later operators are entitled to: intersection and
\* difference split a table; update_rows has the union of the keys and takes
\* the update's value where there is one; restrict keeps the keys of the new
\* universe, with Error where the original has no row.
UniversesExact ==
    /\ Concat(IntersectTables(left, right), SubtractTable(left, right)) = left
    /\ Keys(UpdateRowsTable(left, right)) = Keys(left) \cup Keys(right)
    /\ \A x \in DOMAIN UpdateRowsTable(left, right) : x[1] \in Keys(right) => x \in DOMAIN right
    /\ Keys(UpdateCellsTable(left, Restricted)) = Keys(left)
    /\ \A x \in DOMAIN RestrictOrOverrideTableUniverse(left, right) :
            /\ <<x[1], x[2][1]>> \in DOMAIN right
            /\ IF x[1] \in Keys(left) THEN <<x[1], x[2][2]>> \in DOMAIN left ELSE x[2][2] = ErrorValue
    /\ Keys(RestrictOrOverrideTableUniverse(left, right)) = Keys(right)

Matches(x, y) == x[2] # ErrorValue /\ x[2] = y[2]

\* Every kind of join shows each matching pair, every row of an outer side in
\* exactly one of the parts, rows with an error in the join column included,
\* and with the left side's keys a row that meets several keeps its key with
\* Error on the right.
JoinExact ==
    \A type \in JoinTypes :
        LET rowsOf == {x[2] : x \in DOMAIN JoinTables(left, right, type)}
            lone(x, t) == ~\E y \in DOMAIN t : Matches(x, y)
            many(x) == \E y, z \in DOMAIN right : y # z /\ Matches(x, y) /\ Matches(x, z)
        IN rowsOf =
             {<<x, IF type \in LeftKeyTypes /\ many(x) THEN ErrorRow ELSE y>> :
                   <<x, y>> \in {p \in (DOMAIN left) \X (DOMAIN right) : Matches(p[1], p[2])}}
             \cup (IF type \in {"LeftOuter", "FullOuter", "LeftKeysFull"}
                   THEN {<<x, NoRow>> : x \in {z \in DOMAIN left : lone(z, right)}} ELSE {})
             \cup (IF type \in {"RightOuter", "FullOuter"}
                   THEN {<<NoRow, y>> : y \in {z \in DOMAIN right : lone(z, left)}} ELSE {})

\* An ix that does not stop the program finds every pointer, or the difference
\* in size is logged: a row never goes missing unnoticed unless SkipMissing
\* asked for it.
IxNoticesMissing ==
    \A p \in {"FailMissing", "ForwardNone"} :
        ~IxAborts(left, p) /\ ~IxLogsMissing(left, right, p) =>
            /\ Keys(IxTable(left, right, p)) = Keys(left)
            /\ \A x \in DOMAIN left : x[2] # NoneValue => x[2] \in Keys(right)

\* What the table operators promise to the operators after them.
TablesExact == OutputsWellFormed /\ UniversesExact /\ JoinExact /\ IxNoticesMissing

=============================================================================
