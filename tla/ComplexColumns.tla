---------------------------- MODULE ComplexColumns ----------------------------
(***************************************************************************)
(* complex_columns of src/engine/dataflow/complex_columns.rs: columns that *)
(* are computed from each other, row by row, by functions that ask for     *)
(* what they need.  Requests, replies and dependencies are events, and an  *)
(* iteration adds to them until nothing is new.  The columns here:         *)
(*   "next"   a column that points to another row, 0 being no row;         *)
(*   "depth"  an attribute, the rows that follow;                          *)
(*   "ahead"  a method with a data column: the data some rows further on;  *)
(*   "peek"   an attribute that asks the next row's "mark", or "ahead";    *)
(*   "mark"   an attribute that asks nothing.                              *)
(* A request is [column, key, arg], with arg 0 when there are none.        *)
(***************************************************************************)
EXTENDS Integers, FiniteSets, FiniteSetsExt

CONSTANTS
    RowNames,     \* keys
    AheadBy       \* the argument that "peek" passes

VARIABLES
    rowsPresent,      \* the universe of the rows
    nextRow,      \* the column "next"
    colEvents,    \* Events of the iteration
    settled

columnVars == <<rowsPresent, nextRow, colEvents, settled>>

Request(c, k, arg) == [column |-> c, key |-> k, arg |-> arg]
Asked(q) == [kind |-> "Request", of |-> q]
Reply(q, v) == [kind |-> "Reply", of |-> q, value |-> v]
Dependency(q, on) == [kind |-> "Dependency", of |-> q, on |-> on]

Attributes == {"depth", "peek", "mark"}
DataOf(k) == 10 * k    \* the data column of "ahead"

-----------------------------------------------------------------------------
\* handle_input: a column answers, an attribute is asked for every row, a method is
\* asked by others only.
HandleInput ==
    {Reply(Request("next", k, 0), nextRow[k]) : k \in rowsPresent}
    \cup {Asked(Request(c, k, 0)) : c \in Attributes, k \in rowsPresent}

\* The values that a computation of q can see: the replies to what it depends on.
ContextOf(q) ==
    LET known == {e \in colEvents : e.kind = "Reply"
                                    /\ Dependency(q, e.of) \in colEvents}
    IN [r \in {e.of : e \in known} |-> (CHOOSE e \in known : e.of = r).value]

\* Context::get for a function that goes on with the value: without one, the function
\* ends with the request.
Get(values, r, Then(_)) == IF r \in DOMAIN values THEN Then(values[r]) ELSE [asks |-> r]
Answers(v) == [answer |-> v]

\* The logic of the computers.
Compute(q, values) ==
    LET here == Request("next", q.key, 0) IN
    CASE q.column = "depth" ->
            Get(values, here, LAMBDA p :
                IF p = 0 THEN Answers(0)
                ELSE Get(values, Request("depth", p, 0), LAMBDA d : Answers(d + 1)))
      [] q.column = "ahead" ->
            IF q.arg = 1 THEN Answers(DataOf(q.key))
            ELSE Get(values, here, LAMBDA p :
                     IF p = 0 THEN Answers(DataOf(q.key))
                     ELSE Get(values, Request("ahead", p, q.arg - 1), Answers))
      [] q.column = "peek" ->
            Get(values, here, LAMBDA p :
                IF p = 0 THEN Get(values, Request("ahead", q.key, AheadBy), Answers)
                ELSE Get(values, Request("mark", p, 0), LAMBDA m :
                         Get(values, Request("ahead", q.key, AheadBy), Answers)))
      [] q.column = "mark" -> Answers(1)

\* What is to be computed: asked for, or depended on.  A method with a data column
\* needs the row's data.
Mut_Wanted == {e.of : e \in {x \in colEvents : x.kind = "Request"}}
Wanted ==
    {e.of : e \in {x \in colEvents : x.kind = "Request"}}
    \cup {e.on : e \in {x \in colEvents : x.kind = "Dependency"}}
Computable == {q \in Wanted : q.column \in Attributes \/ (q.column = "ahead" /\ q.key \in rowsPresent)}

NewEvents ==
    {LET r == Compute(q, ContextOf(q))
     IN IF "answer" \in DOMAIN r THEN Reply(q, r.answer) ELSE Dependency(q, r.asks)
     : q \in Computable}

IterateEvents ==
    /\ ~settled
    /\ colEvents' = colEvents \cup NewEvents
    /\ settled' = (colEvents' = colEvents)
    /\ UNCHANGED <<rowsPresent, nextRow>>

\* Output::to_column_handle of an attribute: every reply of the column
OutputColumn(c) == {<<e.of.key, e.value>> : e \in {x \in colEvents : x.kind = "Reply" /\ x.of.column = c}}

\* assert_input_keys_match_output_keys: the keys that are logged
KeysLogged(c) ==
    LET keys == {r[1] : r \in OutputColumn(c)} IN (keys \ rowsPresent) \cup (rowsPresent \ keys)

ColumnsInit ==
    /\ rowsPresent \in SUBSET RowNames
    /\ nextRow \in [rowsPresent -> RowNames \cup {0}]
    /\ colEvents = HandleInput
    /\ settled = FALSE

-----------------------------------------------------------------------------
\* The row n steps after k; -1 when there is none to ask.
Follow[n \in 0 .. Cardinality(RowNames) + 1, k \in RowNames] ==
    IF n = 0 THEN k
    ELSE LET p == Follow[n - 1, k] IN IF p \in rowsPresent THEN nextRow[p] ELSE -1

DepthOf(k) == {n \in 1 .. Cardinality(RowNames) : Follow[n, k] = 0}
\* the row that "ahead" ends at: n steps on, or the last before them
AheadOf(k) ==
    LET steps == {n \in 0 .. AheadBy - 1 :
                    Follow[n, k] > 0 /\ (n = AheadBy - 1 \/ Follow[n + 1, k] = 0)}
    IN {DataOf(Follow[n, k]) : n \in {m \in steps : Follow[m, k] \in rowsPresent}}

\* However the requests of different rows and columns meet: at no point are there
\* two replies to one request; in the end each row has the value that following
\* its pointers gives, a row whose pointers run in a circle or to a row that is not
\* there has none and is logged, and a row that is not in the table is output only
\* for a column that asks nothing of it, and logged.
ColumnsExact ==
    /\ \A e, f \in colEvents : e.kind = "Reply" /\ f.kind = "Reply" /\ e.of = f.of => e = f
    /\ settled =>
        /\ OutputColumn("depth") = UNION {{<<k, n - 1>> : n \in DepthOf(k)} : k \in rowsPresent}
        /\ OutputColumn("peek") = UNION {{<<k, v>> : v \in AheadOf(k)} : k \in rowsPresent}
        /\ {<<k, 1>> : k \in rowsPresent} \subseteq OutputColumn("mark")
        /\ KeysLogged("depth") \cup KeysLogged("peek") \subseteq rowsPresent
        /\ KeysLogged("mark") = {nextRow[k] : k \in rowsPresent} \ (rowsPresent \cup {0})
=============================================================================
