-------------------------- MODULE Expressions --------------------------
(* The expressions of a table (engine/expression.rs), how a table of         *)
(* expressions turns their failures into Error cells and log entries         *)
(* (expression_table), and the arithmetic of times (engine/time.rs).  A row  *)
(* goes through two tables of expressions; every other case is one question  *)
(* that the evaluator answers in one step.                                   *)
EXTENDS Integers, Sequences, FiniteSets, FiniteSetsExt

CONSTANTS
    CellValues,     \* integers that cells and constants take
    IntBits,        \* width of an integer
    FloatExact,     \* integers up to here are exact as floats
    NanosPerSecond, \* the nanoseconds of a second, scaled down
    DisplayUnits,   \* day, hour, minute, second, nanosecond, scaled down
    Timestamps,     \* timestamps and durations
    HourLength,     \* an hour, in the time units of the zone questions
    ZoneShifts      \* by how much the clocks of a time zone change

ASSUME ExpressionsAssumption ==
    /\ IntBits \in Nat /\ FloatExact \in Nat
    /\ \A n \in CellValues : n > -(2 ^ (IntBits - 1))
    /\ NanosPerSecond > 0 /\ HourLength > 0 /\ HourLength % 2 = 0
    /\ DisplayUnits[Len(DisplayUnits)] = 1

VARIABLES
    question,   \* what is evaluated
    evalStage,  \* the tables the row has gone through, or the answered questions
    cells,      \* the row
    errorLog,   \* the tables that have inserted an error in the log
    result      \* the answer to any other question

exprVars == <<question, evalStage, cells, errorLog, result>>

---------------------------------------------------------------------------
(* Values and errors.  DataError::ErrorInValue is the error of an expression *)
(* that meets an Error cell.                                                 *)
IntV(n) == [type |-> "int", v |-> n]
FloatV(n) == [type |-> "float", v |-> n]
RatioV(a, b) == [type |-> "float", over |-> <<a, b>>]   \* a float that need not be whole
BoolV(b) == [type |-> "bool", v |-> IF b THEN 1 ELSE 0]
TupleV(s) == [type |-> "tuple", items |-> s]
NoneCell == [type |-> "none", v |-> 0]
JsonCell == [type |-> "json", v |-> 0]
ErrorInCell == [type |-> "error", v |-> 0]
Err(kind) == [error |-> kind]
IsErr(r) == "error" \in DOMAIN r

\* the first error of a sequence of results
FirstErr(rs) == rs[Min({i \in DOMAIN rs : IsErr(rs[i])})]
Collected(rs) == IF \E i \in DOMAIN rs : IsErr(rs[i]) THEN FirstErr(rs) ELSE TupleV(rs)

\* i64 as f64: exact up to FloatExact, to the nearest even multiple of two above
AsFloat(n) ==
    IF n \in (-FloatExact) .. FloatExact \/ n % 2 = 0 THEN n
    ELSE IF ((n - 1) \div 2) % 2 = 0 THEN n - 1 ELSE n + 1

\* i64 arithmetic wraps
Wrap(n) == ((n + 2 ^ (IntBits - 1)) % 2 ^ IntBits) - 2 ^ (IntBits - 1)

---------------------------------------------------------------------------
(* Integer division, as Rust and num_integer have it. *)
Sign(n) == IF n < 0 THEN -1 ELSE IF n > 0 THEN 1 ELSE 0
Magnitude(n) == IF n < 0 THEN -n ELSE n
Quotient(a, b) == Sign(a) * Sign(b) * (Magnitude(a) \div Magnitude(b))
Remainder(a, b) == a - Quotient(a, b) * b
DivFloor(a, b) ==
    IF Sign(Remainder(a, b)) * Sign(b) = -1 THEN Quotient(a, b) - 1 ELSE Quotient(a, b)
ModFloor(a, b) ==
    IF Sign(Remainder(a, b)) * Sign(b) = -1 THEN Remainder(a, b) + b ELSE Remainder(a, b)

\* FloatExpression::Mod, on floats that are whole
FloatMod(a, b) ==
    LET modulo == Remainder(a, b) IN
    IF modulo # 0 /\ (b < 0) # (modulo < 0) THEN modulo + b ELSE modulo

---------------------------------------------------------------------------
(* Tuples. *)

\* get_tuple_element: an index counts from the end when it is negative
TupleIndex(length, index) == IF index < 0 THEN index + length ELSE index

GetTupleElement(tuple, index) ==
    LET i == TupleIndex(Len(tuple), index) IN
    IF i < 0 \/ Len(tuple) <= i THEN Err("absent") ELSE tuple[i + 1]

Compared(x, y) == IntV(Sign(x - y))
Numbers(a, b) == {a.type, b.type} = {"int", "float"}
AsNumber(a) == IF a.type = "int" THEN AsFloat(a.v) ELSE a.v

RECURSIVE AreTuplesEqual(_, _)
AreTuplesEqual(l, r) ==
    LET Single(a, b) ==
          IF a.type = "tuple" /\ b.type = "tuple" THEN AreTuplesEqual(a.items, b.items)
          ELSE IF Numbers(a, b) THEN BoolV(AsNumber(a) = AsNumber(b))
          ELSE IF NoneCell \in {a, b} THEN BoolV(a = b)
          ELSE IF a.type = b.type THEN BoolV(a.v = b.v) ELSE Err("value")
        rs == [i \in 1 .. Min({Len(l), Len(r)}) |-> Single(l[i], r[i])]
    IN IF IsErr(Collected(rs)) THEN Collected(rs)
       ELSE BoolV(Len(l) = Len(r) /\ \A i \in DOMAIN rs : rs[i] = BoolV(TRUE))

\* every position is compared, also those after the first difference
RECURSIVE CompareTuples(_, _)
CompareTuples(l, r) ==
    LET Single(a, b) ==
          IF a.type = "tuple" /\ b.type = "tuple" THEN CompareTuples(a.items, b.items)
          ELSE IF Numbers(a, b) THEN Compared(AsNumber(a), AsNumber(b))
          ELSE IF a.type # b.type \/ a.type = "json" THEN Err("value")
          ELSE Compared(a.v, b.v)
        rs == [i \in 1 .. Min({Len(l), Len(r)}) |-> Single(l[i], r[i])]
        different == {i \in DOMAIN rs : rs[i].v # 0}
    IN IF IsErr(Collected(rs)) THEN Collected(rs)
       ELSE IF different = {} THEN Compared(Len(l), Len(r)) ELSE rs[Min(different)]

---------------------------------------------------------------------------
(* Evaluation.  An expression is a record of its operator and operands. *)

\* Expression::eval_as_...: a value of another type is an error
As(type, r) == IF IsErr(r) \/ r.type = type THEN r ELSE Err("type")

\* a strict operator on two operands, evaluated in this order
Strictly(first, second, Op(_, _)) ==
    IF IsErr(first) THEN first ELSE IF IsErr(second) THEN second ELSE Op(first, second)

IntOperators == {"add", "sub", "mul"}
Arithmetic(op, a, b) == CASE op = "add" -> a + b [] op = "sub" -> a - b [] op = "mul" -> a * b
Comparisons == {"eq", "ne", "lt", "le", "gt", "ge"}
Holds(op, a, b) ==
    CASE op = "eq" -> a = b [] op = "ne" -> a # b [] op = "lt" -> a < b
      [] op = "le" -> a <= b [] op = "gt" -> a > b [] op = "ge" -> a >= b

\* maybe_argument_slice: arguments with consecutive indices become a slice of the row
IsArgumentSlice(exprs) ==
    /\ exprs # <<>>
    /\ \A i \in DOMAIN exprs : exprs[i].op = "argument"
    /\ \A i \in 1 .. Len(exprs) - 1 : exprs[i + 1].index = exprs[i].index + 1

RECURSIVE Eval(_, _), EvalExplicit(_, _), EvalBool(_, _), EvalInt(_, _), EvalFloat(_, _)
\* Expressions::eval
EvalExplicit(exprs, row) == Collected([i \in DOMAIN exprs |-> Eval(exprs[i], row)])

EvalArguments(exprs, row) ==
    LET values == SubSeq(row, exprs[1].index, exprs[1].index + Len(exprs) - 1) IN
    IF \E i \in DOMAIN values : values[i] = ErrorInCell THEN Err("ErrorInValue")
    ELSE TupleV(values)

EvalAll(exprs, row) ==
    IF IsArgumentSlice(exprs) THEN EvalArguments(exprs, row) ELSE EvalExplicit(exprs, row)

\* AnyExpression::FillError
FillError(e, replacement, row) ==
    LET r == Eval(e, row) IN IF IsErr(r) THEN Eval(replacement, row) ELSE r

Unwrapped(r) == IF r = NoneCell THEN Err("value") ELSE r
\* CastToOptionalFloatFromOptionalInt
ToOptionalFloat(r) ==
    IF IsErr(r) \/ r = NoneCell THEN r
    ELSE IF r.type = "int" THEN FloatV(AsFloat(r.v)) ELSE Err("value")

\* the default of an unchecked access
Absent == [op |-> "absent"]

\* the function of an Apply: here one that fails on a tuple that starts with 0
Function(args) == IF args[1] = IntV(0) THEN Err("other") ELSE IntV(Len(args))

\* a comparison is the same for every type of its operands; tuples have their own
EvalBool(e, row) ==
    CASE e.op = "is_none" ->
            LET r == Eval(e.x, row) IN IF IsErr(r) THEN r ELSE BoolV(r = NoneCell)
      [] e.op = "not" ->
            LET r == As("bool", Eval(e.x, row)) IN IF IsErr(r) THEN r ELSE BoolV(r = BoolV(FALSE))
      [] e.op = "and" ->
            LET l == As("bool", Eval(e.x, row)) IN
            IF IsErr(l) \/ l = BoolV(FALSE) THEN l ELSE As("bool", Eval(e.y, row))
      [] e.op = "or" ->
            LET l == As("bool", Eval(e.x, row)) IN
            IF IsErr(l) \/ l = BoolV(TRUE) THEN l ELSE As("bool", Eval(e.y, row))
      [] e.op = "xor" ->
            LET Op(a, b) == BoolV(a # b) IN
            Strictly(As("bool", Eval(e.x, row)), As("bool", Eval(e.y, row)), Op)
      [] e.op = "compare" ->
            LET Op(a, b) == BoolV(Holds(e.how, a.v, b.v)) IN
            Strictly(As(e.type, Eval(e.x, row)), As(e.type, Eval(e.y, row)), Op)
      [] e.op = "compare_tuples" ->
            LET Op(a, b) ==
                    LET r == IF e.how \in {"eq", "ne"} THEN AreTuplesEqual(a.items, b.items)
                             ELSE CompareTuples(a.items, b.items)
                    IN IF IsErr(r) THEN r
                       ELSE BoolV(IF e.how \in {"eq", "ne"} THEN (e.how = "eq") = (r = BoolV(TRUE))
                                  ELSE Holds(e.how, r.v, 0))
            IN Strictly(As("tuple", Eval(e.x, row)), As("tuple", Eval(e.y, row)), Op)

\* the divisor is evaluated first, and a zero stops the evaluation; the least integer,
\* whose division by -1 panics, is not among the cells
EvalInt(e, row) ==
    CASE e.op = "neg" -> LET r == As("int", Eval(e.x, row)) IN IF IsErr(r) THEN r ELSE IntV(Wrap(-r.v))
      [] e.op \in IntOperators ->
            LET Op(a, b) == IntV(Wrap(Arithmetic(e.op, a.v, b.v))) IN
            Strictly(As("int", Eval(e.x, row)), As("int", Eval(e.y, row)), Op)
      [] e.op \in {"floor_div", "mod"} ->
            LET Op(b, a) == IntV(IF e.op = "mod" THEN ModFloor(a.v, b.v) ELSE DivFloor(a.v, b.v))
                r == As("int", Eval(e.y, row))
            IN IF r = IntV(0) THEN Err("DivisionByZero")
               ELSE Strictly(r, As("int", Eval(e.x, row)), Op)

\* the operands are whole; the remainder evaluates them in their order, the two
\* divisions begin with the divisor
EvalFloat(e, row) ==
    CASE e.op = "float_cast" ->
            LET r == As("int", Eval(e.x, row)) IN IF IsErr(r) THEN r ELSE FloatV(AsFloat(r.v))
      [] e.op \in {"float_floor_div", "float_true_div"} ->
            LET Op(b, a) == IF e.op = "float_true_div" THEN RatioV(a.v, b.v)
                            ELSE FloatV(DivFloor(a.v, b.v))
                r == As("float", Eval(e.y, row))
            IN IF r = FloatV(0) THEN Err("DivisionByZero")
               ELSE Strictly(r, As("float", Eval(e.x, row)), Op)
      [] e.op = "float_mod" ->
            LET Op(a, b) == IF b.v = 0 THEN Err("DivisionByZero") ELSE FloatV(FloatMod(a.v, b.v)) IN
            Strictly(As("float", Eval(e.x, row)), As("float", Eval(e.y, row)), Op)

BoolOperators == {"is_none", "not", "and", "or", "xor", "compare", "compare_tuples"}

Eval(e, row) ==
    CASE e.op = "argument" ->
            IF row[e.index] = ErrorInCell THEN Err("ErrorInValue") ELSE row[e.index]
      [] e.op = "const" -> e.value
      [] e.op = "apply" ->
            LET args == EvalAll(e.args, row) IN IF IsErr(args) THEN args ELSE Function(args.items)
      [] e.op = "optional_apply" ->
            LET args == EvalAll(e.args, row) IN
            IF IsErr(args) THEN args
            ELSE IF \E i \in DOMAIN args.items : args.items[i] = NoneCell THEN NoneCell
            ELSE Function(args.items)
      [] e.op = "make_tuple" -> EvalAll(e.args, row)
      [] e.op = "if_else" ->
            LET c == As("bool", Eval(e.x, row)) IN
            IF IsErr(c) THEN c ELSE IF c = BoolV(TRUE) THEN Eval(e.y, row) ELSE Eval(e.z, row)
      [] e.op = "get_item" ->
            LET Item(i, t) == GetTupleElement(t.items, i.v)
                r == Strictly(As("int", Eval(e.y, row)), As("tuple", Eval(e.x, row)), Item)
            IN IF r # Err("absent") THEN r
               ELSE IF e.z = Absent THEN Err("IndexOutOfBounds") ELSE Eval(e.z, row)
      [] e.op = "unwrap" -> Unwrapped(Eval(e.x, row))
      [] e.op = "to_optional_float" -> ToOptionalFloat(Eval(e.x, row))
      [] e.op = "fill_error" -> FillError(e.x, e.y, row)
      [] e.op \in BoolOperators -> EvalBool(e, row)
      [] e.op \in {"float_cast", "float_floor_div", "float_true_div", "float_mod"} -> EvalFloat(e, row)
      [] OTHER -> EvalInt(e, row)

\* expression_table: every expression over the row; a failure is logged, unless it is
\* that of an Error cell, and leaves an Error cell
Mut_LogsError(r) == IsErr(r) /\ r.error \notin {"ErrorInValue", "DivisionByZero"}
LogsError(r) == IsErr(r) /\ r # Err("ErrorInValue")

ExpressionTable ==
    /\ question.about = "table"
    /\ evalStage < Len(question.exprs)
    /\ LET exprs == question.exprs[evalStage + 1]
           rs == [i \in DOMAIN exprs |-> Eval(exprs[i], cells)]
       IN /\ cells' = [i \in DOMAIN rs |-> IF IsErr(rs[i]) THEN ErrorInCell ELSE rs[i]]
          /\ errorLog' = IF \E i \in DOMAIN rs : LogsError(rs[i])
                         THEN errorLog \cup {evalStage + 1} ELSE errorLog
    /\ evalStage' = evalStage + 1
    /\ UNCHANGED <<question, result>>

---------------------------------------------------------------------------
(* Times. *)

\* DateTime::as_chrono_datetime: seconds, and nanoseconds that are not negative
AsChronoDatetime(timestamp) ==
    LET secs == Quotient(timestamp, NanosPerSecond)
        nanos == Remainder(timestamp, NanosPerSecond)
    IN IF nanos < 0 THEN <<secs - 1, nanos + NanosPerSecond>> ELSE <<secs, nanos>>

\* Duration / and % round down; true_div_by_i64 drops the fraction
DurationDiv(a, b) == IF b = 0 THEN Err("DivisionByZero") ELSE IntV(DivFloor(a, b))
DurationRem(a, b) == IF b = 0 THEN Err("DivisionByZero") ELSE IntV(ModFloor(a, b))
DurationTrueDiv(a, n) == IF n = 0 THEN Err("DivisionByZero") ELSE IntV(Quotient(a, n))
\* Duration * float: as i64 drops the fraction; the factor is halves / 2
DurationTimes(a, halves) == Quotient(a * halves, 2)

\* Duration::fmt: how many of each unit are printed
RECURSIVE Displayed(_, _)
Displayed(remaining, units) ==
    IF units = <<>> THEN <<>>
    ELSE LET n == Quotient(remaining, Head(units)) IN
         <<n>> \o Displayed(IF n # 0 THEN Remainder(remaining, Head(units)) ELSE remaining,
                            Tail(units))

\* chrono: a zone whose clocks change by shift at time 0, and go hour by hour
ToNaive(utc, shift) == IF utc < 0 THEN utc ELSE utc + shift
FromLocal(naive, shift) ==
    {utc \in {naive, naive - shift} : ToNaive(utc, shift) = naive}
RoundToHour(t) == ((t + HourLength \div 2) \div HourLength) * HourLength

\* to_utc_from_timezone: the later of two times; for a time that does not exist, the
\* half hour after it rounded to an hour
ToUtc(naive, shift) ==
    IF FromLocal(naive, shift) # {} THEN Max(FromLocal(naive, shift))
    ELSE Max(FromLocal(RoundToHour(naive + HourLength \div 2), shift) \cup {-100})

---------------------------------------------------------------------------
(* The questions. *)
Arg(i) == [op |-> "argument", index |-> i]
Const(v) == [op |-> "const", value |-> v]
Call(op, args) == [op |-> op, args |-> args]
Unary(op, x) == [op |-> op, x |-> x]
Binary(op, x, y) == [op |-> op, x |-> x, y |-> y]
Compare(op, how, x, y) == [op |-> op, how |-> how, type |-> "int", x |-> x, y |-> y]
PairWith(i) == Call("make_tuple", <<Arg(i), Const(IntV(1))>>)
Ternary(op, x, y, z) == [op |-> op, x |-> x, y |-> y, z |-> z]

ExprCells == {IntV(n) : n \in CellValues} \cup {NoneCell}
Calls == {<<Arg(1), Arg(2)>>, <<Arg(2), Arg(1)>>, <<Arg(2)>>, <<Const(IntV(0)), Arg(1)>>}

\* expressions over two cells, some of which fail on some rows
Simple ==
    {Binary(op, Arg(1), Arg(2)) : op \in IntOperators \cup {"floor_div", "mod", "xor"}}
    \cup {Compare("compare", how, Arg(1), Arg(2)) : how \in Comparisons}
    \cup {Compare("compare_tuples", how, PairWith(1), PairWith(2)) : how \in Comparisons}
    \cup {Binary(op, Unary("float_cast", Arg(1)), Unary("float_cast", Arg(2))) :
              op \in {"float_floor_div", "float_true_div", "float_mod"}}
    \cup {Unary("neg", Arg(1)), Unary("not", Unary("is_none", Arg(2)))}
    \cup {Call(op, c) : op \in {"apply", "optional_apply", "make_tuple"}, c \in Calls}
    \cup {Unary(op, Arg(i)) : op \in {"unwrap", "is_none", "to_optional_float"}, i \in 1 .. 2}
    \cup {Arg(1), Arg(2)}

Failing ==
    {Binary("floor_div", Arg(1), Arg(2)), Call("apply", <<Arg(1), Arg(2)>>),
     Call("make_tuple", <<Arg(2), Arg(1)>>), Unary("unwrap", Arg(1)), Arg(1)}

Lazy ==
    UNION {
      {Ternary("if_else", Unary("is_none", Arg(1)), Arg(2), s),
       Binary("fill_error", s, Arg(2)),
       Binary("and", Unary("is_none", Arg(1)), s),
       Binary("or", Unary("is_none", Arg(2)), s),
       Ternary("get_item", Call("make_tuple", <<Arg(1), Arg(2)>>), s, Const(NoneCell)),
       Ternary("get_item", Call("make_tuple", <<Arg(1), Arg(2)>>), s, Absent)}
      : s \in Failing}

TableQuestions ==
    [about : {"table"}, exprs : {<<<<s, t>>, <<l, Arg(2)>>>> :
        s \in Simple, t \in {Binary("floor_div", Arg(1), Arg(2))}, l \in Lazy}]

Scalars == {IntV(n) : n \in CellValues} \cup {FloatV(AsFloat(n)) : n \in CellValues}
           \cup {NoneCell}
SmallTuples ==
    {<<>>} \cup {<<s>> : s \in Scalars \cup {JsonCell}}
    \cup {<<s, TupleV(<<t>>)>> : s \in {IntV(1), FloatV(1), NoneCell}, t \in {IntV(0), FloatV(0), NoneCell}}

OtherQuestions ==
    [about : {"tuples"}, a : SmallTuples, b : SmallTuples, c : SmallTuples]
    \cup [about : {"division"}, a : Timestamps, b : Timestamps \ {0}]
    \cup [about : {"duration"}, a : Timestamps, b : -3 .. 3]
    \cup [about : {"index"}, a : SmallTuples, b : -3 .. 3]
    \cup [about : {"arguments"}, a : Calls, b : [1 .. 2 -> ExprCells \cup {ErrorInCell}]]
    \cup [about : {"timestamp"}, a : Timestamps]
    \cup [about : {"zone"}, a : Timestamps, b : ZoneShifts]

Answer(q) ==
    CASE q.about = "tuples" ->
            <<CompareTuples(q.a, q.b), CompareTuples(q.b, q.a), CompareTuples(q.b, q.c),
              CompareTuples(q.a, q.c), AreTuplesEqual(q.a, q.b)>>
      [] q.about = "division" ->
            <<DivFloor(q.a, q.b), ModFloor(q.a, q.b), FloatMod(q.a, q.b), Quotient(q.a, q.b)>>
      [] q.about = "duration" ->
            <<DurationDiv(q.a, q.b), DurationRem(q.a, q.b), DurationTrueDiv(q.a, q.b),
              DurationTimes(q.a, q.b)>>
      [] q.about = "index" -> <<GetTupleElement(q.a, q.b)>>
      [] q.about = "arguments" -> <<EvalAll(q.a, q.b)>>
      [] q.about = "timestamp" -> <<AsChronoDatetime(q.a), Displayed(q.a, DisplayUnits)>>
      [] q.about = "zone" -> <<ToUtc(q.a, q.b)>>

AnswerQuestion ==
    /\ question.about # "table"
    /\ evalStage = 0
    /\ result' = Answer(question)
    /\ evalStage' = 1
    /\ UNCHANGED <<question, cells, errorLog>>

ExprInit ==
    /\ question \in TableQuestions \cup OtherQuestions
    /\ cells \in IF question.about = "table" THEN [1 .. 2 -> ExprCells] ELSE {<<>>}
    /\ evalStage = 0
    /\ errorLog = {}
    /\ result = <<>>

ExprNext == ExpressionTable \/ AnswerQuestion

---------------------------------------------------------------------------
(* No Error cell is silent: the row began without one, so whatever the        *)
(* expressions of the two tables skip, replace or pass on, a failure that     *)
(* reaches a cell was logged, by this table or by the one before it.          *)
ErrorsAccounted ==
    question.about = "table" =>
        /\ (\E i \in DOMAIN cells : cells[i] = ErrorInCell) => errorLog # {}
        /\ \A i \in DOMAIN cells : ~IsErr(cells[i])
        /\ evalStage = 2 /\ question.exprs[2][1].op = "fill_error"
              /\ cells[1] = ErrorInCell => cells[2] = ErrorInCell

Compares(r) == ~IsErr(r)
\* an integer that as a float is another number
Inexact(t) == \E i \in DOMAIN t : t[i].type = "int" /\ AsFloat(t[i].v) # t[i].v

(* Each operator against what it stands for: tuple comparison is a total      *)
(* order on the tuples it accepts and agrees with tuple equality, except that *)
(* a float may equal two integers too large to be exact as floats; division   *)
(* rounds down and the three remainders are the one of Python; a duration     *)
(* divides like an integer, fails on zero whichever division is used, and its *)
(* two divisions differ only where a negative quotient is rounded; an index   *)
(* counts from either end; a slice of arguments evaluates like the arguments  *)
(* one by one; a timestamp splits into whole seconds and a rest, a printed    *)
(* duration adds up to it; a local time that exists comes back unchanged, and *)
(* one that a change of the clocks skips becomes the first that exists.       *)
AnswersAgree ==
    result # <<>> =>
      LET q == question IN
      CASE q.about = "tuples" ->
             LET ab == result[1] ba == result[2] bc == result[3] ac == result[4] eq == result[5]
             IN /\ Compares(ab) = Compares(ba)
                /\ Compares(ab) => /\ ab.v = -ba.v
                                   /\ ~IsErr(eq) /\ (eq = BoolV(TRUE)) = (ab.v = 0)
                /\ Compares(ab) /\ Compares(bc) /\ Compares(ac) /\ ab.v <= 0 /\ bc.v <= 0
                     /\ ~ (Inexact(q.a) \/ Inexact(q.b) \/ Inexact(q.c))
                     => ac.v <= 0 /\ (ac.v = 0 => ab.v = 0 /\ bc.v = 0)
        [] q.about = "division" ->
             /\ q.a = result[1] * q.b + result[2]
             /\ result[2] = result[3]
             /\ result[2] \in IF q.b > 0 THEN 0 .. q.b - 1 ELSE (q.b + 1) .. 0
             /\ Magnitude(result[4] * q.b) <= Magnitude(q.a)
             /\ Magnitude(q.a) < Magnitude(result[4] * q.b) + Magnitude(q.b)
        [] q.about = "duration" ->
             /\ q.b = 0 => \A i \in 1 .. 3 : result[i] = Err("DivisionByZero")
             /\ q.b # 0 => /\ result[1].v * q.b + result[2].v = q.a
                           /\ result[3].v - result[1].v
                                = IF result[2].v # 0 /\ Sign(q.a) # Sign(q.b) THEN 1 ELSE 0
             /\ q.a * q.b - 2 * result[4] \in {0, Sign(q.a * q.b)}
        [] q.about = "index" ->
             LET n == Len(q.a) IN
             /\ q.b \in 0 .. n - 1 => result[1] = q.a[q.b + 1]
             /\ q.b \in (-n) .. (-1) => result[1] = q.a[n + q.b + 1]
             /\ q.b \notin (-n) .. (n - 1) => result[1] = Err("absent")
        [] q.about = "arguments" -> result[1] = EvalExplicit(q.a, q.b)
        [] q.about = "timestamp" ->
             /\ result[1][1] * NanosPerSecond + result[1][2] = q.a
             /\ result[1][2] \in 0 .. NanosPerSecond - 1
             /\ q.a = MapThenSumSet(LAMBDA i : result[2][i] * DisplayUnits[i],
                                    DOMAIN DisplayUnits)
             /\ \A i \in 2 .. Len(DisplayUnits) :
                   Magnitude(result[2][i]) * DisplayUnits[i] < DisplayUnits[i - 1]
        [] q.about = "zone" ->
             LET exists == {n \in q.a .. q.a + 2 * HourLength : FromLocal(n, q.b) # {}} IN
             ToNaive(result[1], q.b) = Min(exists)

(* What an expression yields, and what becomes of one that fails. *)
ExpressionsExact == ErrorsAccounted /\ AnswersAgree
===========================================================================
