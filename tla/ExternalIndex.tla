---------------------------- MODULE ExternalIndex ----------------------------
(***************************************************************************)
(* use_external_index_as_of_now (operators/external_index.rs), the wrapper *)
(* that filters its answers and the maps of keys to numeric ids            *)
(* (src/external_integration/mod.rs).  At each time the updates of the     *)
(* documents are applied first and the queries of that time answered then; *)
(* an answer is never revised.                                             *)
(*                                                                         *)
(* The library's index is a set of <<id, data>> that ranks by data, then   *)
(* by id.  Data is a number, or one of the ways in which it can be bad.    *)
(***************************************************************************)
EXTENDS Values, Sequences, SequencesExt, FiniteSetsExt

CONSTANTS
    DocKeys, DocScores,
    Unreadable,    \* data that does not unpack, with filter data that does
    Unfilterable,  \* a row whose filter data does not unpack
    Misfit,        \* a value the library refuses
    Limits,        \* limits a query may ask for
    MaxId,         \* bound on the ids given out
    QueryUpdates   \* whether a query may be retracted and asked anew at one time

VARIABLES
    docs,         \* rows <<key, data>> of the documents' table
    idOf,         \* key_to_id_map, as a set of <<key, id>>; id_to_key_map is its inverse
    nextId,
    filterData,   \* filter_data_map, keys only: a document's filter data is its data
    indexed,       \* documents <<id, data>> in the library's index
    answers       \* the answers of the last time: <<query, matched keys or NoAnswer>>

indexVars == <<docs, idOf, nextId, filterData, indexed, answers>>

DocData == DocScores \cup {Unreadable, Unfilterable, Misfit, ErrorValue}
NoAnswer == <<ErrorValue>>

\* remove_one for each key; a key that was never added is an error that is logged.
RemoveAll(s, keys) ==
    [s EXCEPT !.ids = {p \in s.ids : p[1] \notin keys},
              !.filter = s.filter \ keys,
              !.indexed = {d \in s.indexed : \A p \in s.ids : p[1] \in keys => p[2] # d[1]}]

\* handle_filter_and_unpack_data keeps the filter data before it unpacks the data.
HandleFilter(s, row) ==
    IF row[2] = Unfilterable THEN s ELSE [s EXCEPT !.filter = s.filter \cup {row[1]}]

\* One row: the filter data, then the id, then the library's index.
AddOne(s0, row) ==
    LET s     == HandleFilter(s0, row)
        known == {p \in s.ids : p[1] = row[1]}
        id    == IF known = {} THEN s.next ELSE (CHOOSE p \in known : TRUE)[2]
        named == [s EXCEPT !.ids = s.ids \cup {<<row[1], id>>},
                           !.next = IF known = {} THEN s.next + 1 ELSE s.next]
    IN CASE row[2] \in {Unreadable, Unfilterable} -> s
         [] row[2] = Misfit -> named
         [] OTHER -> [named EXCEPT !.indexed = @ \cup {<<id, row[2]>>}]

\* take_updates: rows with errors are left out, removals come before additions.
Mut_TakeUpdates(s, gone, come) ==
    RemoveAll(FoldLeft(AddOne, s, SetToSeq({r \in come : r[2] # ErrorValue})), {r[1] : r \in {q \in gone : q[2] # ErrorValue}})
TakeUpdates(s, gone, come) ==
    FoldLeft(AddOne, RemoveAll(s, {r[1] : r \in {q \in gone : q[2] # ErrorValue}}),
             SetToSeq({r \in come : r[2] # ErrorValue}))

Ranked(idx) == SetToSortSeq(idx, LAMBDA a, b : a[2] < b[2] \/ (a[2] = b[2] /\ a[1] <= b[1]))
InnerSearch(s, n) == SubSeq(Ranked(s.indexed), 1, IF n < Cardinality(s.indexed) THEN n ELSE Cardinality(s.indexed))
KeyForId(s, id) == (CHOOSE p \in s.ids : p[2] = id)[1]
Passes(d) == d[2] % 2 = 0

\* The filtering search: the library is asked for ever more until enough pass
\* the filter or it has no more to give.
Bounds(limit) == {limit * m : m \in {1, 2, 4, 8}}
Finished(s, limit, bound) ==
    LET found == InnerSearch(s, bound)
    IN Len(SelectSeq(found, Passes)) >= limit \/ Len(found) < bound
Mut_FilteredSearch(s, limit) ==
    LET found == SelectSeq(InnerSearch(s, limit), Passes) IN found
FilteredSearch(s, limit) ==
    LET bound == Min({b \in Bounds(limit) : Finished(s, limit, b)})
        found == SelectSeq(InnerSearch(s, bound), Passes)
    IN SubSeq(found, 1, IF Len(found) < limit THEN Len(found) ELSE limit)

\* A query is <<key, limit or ErrorValue, filtered>>.
SearchOne(s, q) ==
    IF q[2] = ErrorValue THEN NoAnswer
    ELSE LET found == IF q[3] THEN FilteredSearch(s, q[2]) ELSE InnerSearch(s, q[2])
         IN [i \in DOMAIN found |-> KeyForId(s, found[i][1])]

\* The responses are kept by query key, and each is handed out once.
Respond(s, qs) ==
    [i \in DOMAIN qs |->
        LET last == Max({j \in DOMAIN qs : qs[j][1] = qs[i][1]})
        IN <<qs[i], IF \E j \in 1 .. i - 1 : qs[j][1] = qs[i][1] THEN NoAnswer ELSE SearchOne(s, qs[last])>>]

Queries == {1} \X (Limits \cup {ErrorValue}) \X BOOLEAN
QueryLists == {<<q>> : q \in Queries} \cup (IF QueryUpdates THEN {<<q, p>> : q, p \in Queries} ELSE {})

IndexStep ==
    /\ nextId <= MaxId
    /\ \E k \in DocKeys, new \in DocData \cup {NoneValue}, qs \in QueryLists :
        LET table == {d \in docs : d[1] # k} \cup (IF new = NoneValue THEN {} ELSE {<<k, new>>})
            s     == TakeUpdates([ids |-> idOf, next |-> nextId, filter |-> filterData, indexed |-> indexed],
                                 docs \ table, table \ docs)
        IN /\ docs' = table
           /\ idOf' = s.ids /\ nextId' = s.next /\ filterData' = s.filter /\ indexed' = s.indexed
           /\ answers' = Respond(s, qs)

IndexInit ==
    /\ docs = {} /\ idOf = {} /\ nextId = 1 /\ filterData = {} /\ indexed = {}
    /\ answers = <<>>

-----------------------------------------------------------------------------
Searchable == {d \in docs : d[2] \in DocScores}

\* The index, its ids and its filter data follow the documents' table through
\* updates that fail at any of their steps: exactly the rows that can be searched
\* are in it, under one id each that no other key has had, and no filter data is
\* left of a row that is gone.
IndexFollowsTable ==
    /\ {<<KeyForId([ids |-> idOf], d[1]), d[2]>> : d \in indexed} = Searchable
    /\ Cardinality(indexed) = Cardinality(Searchable)
    /\ \A p, q \in idOf : (p[1] = q[1] \/ p[2] = q[2]) => p = q
    /\ \A p \in idOf : p[2] < nextId /\ p[1] \in filterData
    /\ filterData \subseteq {d[1] : d \in docs}

\* Each query is answered with the documents of its own time: the best that pass
\* its filter, as many as it asks for or as there are, however many others rank
\* before them; Error is only the answer to a query with an error.
AnswersExact ==
    \A i \in DOMAIN answers :
        LET q == answers[i][1]
            a == answers[i][2]
            fit == {d \in Searchable : q[3] => Passes(d)}
            Before(d, e) == d[2] < e[2]
        IN IF q[2] = ErrorValue THEN a = NoAnswer
           ELSE /\ a # NoAnswer
                /\ ToSet(a) \subseteq {d[1] : d \in fit}
                /\ Len(a) = Min({q[2], Cardinality(fit)})
                /\ \A d, e \in fit : e[1] \in ToSet(a) /\ Before(d, e) => d[1] \in ToSet(a)

\* The index holds the documents of the table, and the answers come from them.
IndexExact == IndexFollowsTable /\ AnswersExact

=============================================================================
