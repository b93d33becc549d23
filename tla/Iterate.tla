------------------------------- MODULE Iterate -------------------------------
(***************************************************************************)
(* iterate of src/engine/dataflow.rs.  A table is put into a Variable of   *)
(* differential dataflow: its rows enter at iteration 0 and are retracted  *)
(* at iteration 1, where the result of iteration 0 takes their place, and  *)
(* so on.  What circulates are differences; the limit cuts off those of    *)
(* late iterations.  A row is <<key, value>>, the logic a map of values.   *)
(***************************************************************************)
EXTENDS Integers, FiniteSets, FiniteSetsExt

CONSTANTS
    IterKeys, IterValues,
    IterLimits,       \* limits, 0 being none
    IterationBound    \* bound on the iterations of a logic that never settles

VARIABLES
    iterKind,         \* "iterated", or "iterated_with_universe", whose keys may change
    iterLimit, iterLogic, iterInput,
    returned,         \* the shape of what the logic returns
    iteration,        \* time.inner
    variable,         \* the Variable: how often each row is in it
    resultOf,         \* the result of the last iteration, likewise
    iterState         \* "new", "running", "finished" or an error

iterVars == <<iterKind, iterLimit, iterLogic, iterInput, returned, iteration, variable, resultOf, iterState>>

IterRows == IterKeys \X IterValues
Nothing == [r \in IterRows |-> 0]
Plus2(a, b, n) == [r \in IterRows |-> a[r] + n * b[r]]
CountOf(set) == [r \in IterRows |-> IF r \in set THEN 1 ELSE 0]

\* What the logic makes of a row; 0 stands for no row.
LogicOn(r) == <<r[1], iterLogic[r[2]]>>
LogicResult == [r \in IterRows |-> MapThenSumSet(LAMBDA q : variable[q], {q \in IterRows : LogicOn(q) = r})]

-----------------------------------------------------------------------------
Mut_TooSmall(limit) == limit = 0
TooSmall(limit) == limit <= 1

\* ImportedUniverse::finish: the keys of an iterated table are those it came with.
UniverseMatches == iterKind = "iterated_with_universe" \/ returned # "other universe"

\* InnerLegacyTable::finish
Finish == CASE ~UniverseMatches -> "UniverseMismatch"
            [] returned = "fewer columns" -> "LengthMismatch"
            [] OTHER -> "running"

\* iterate, up to the first iteration; the early returns in their order.
Build ==
    /\ iterState = "new"
    /\ iterState' = CASE iterLimit # 0 /\ TooSmall(iterLimit) -> "IterationLimitTooSmall"
                      [] returned = "fewer tables" -> "LengthMismatch"
                      [] OTHER -> Finish
    /\ UNCHANGED <<iterKind, iterLimit, iterLogic, iterInput, returned, iteration, variable, resultOf>>

\* Variable::new_from: the rows it was made with leave at the next iteration
Retracted == IF iteration = 0 THEN CountOf(iterInput) ELSE Nothing

\* AfterIterate::apply_limit
Mut_FeedsBack == iterLimit = 0 \/ iteration < iterLimit
FeedsBack == iterLimit = 0 \/ iteration < iterLimit - 1

\* One iteration, and the differences it passes to the next.
Iteration ==
    /\ iterState = "running" /\ iteration < IterationBound
    /\ LET new == LogicResult
           fed == IF FeedsBack THEN Plus2(new, resultOf, -1) ELSE Nothing
           change == Plus2(fed, Retracted, -1)
       IN /\ resultOf' = new
          /\ variable' = Plus2(variable, change, 1)
          /\ iterState' = IF change = Nothing THEN "finished" ELSE "running"
    /\ iteration' = iteration + 1
    /\ UNCHANGED <<iterKind, iterLimit, iterLogic, iterInput, returned>>

IterInit ==
    /\ iterKind \in {"iterated", "iterated_with_universe"}
    /\ iterLimit \in IterLimits
    /\ iterLogic \in [IterValues -> IterValues \cup (IF iterKind = "iterated" THEN {} ELSE {0})]
    /\ iterInput \in {{<<k, v[k]>> : k \in ks} : ks \in SUBSET IterKeys, v \in [IterKeys -> IterValues]}
    /\ returned \in {"matching", "fewer tables", "other universe", "fewer columns"}
    /\ returned # "matching" => iterInput = {} /\ \A v \in IterValues : iterLogic[v] = v
    /\ iteration = 0 /\ variable = CountOf(iterInput) /\ resultOf = Nothing /\ iterState = "new"

IterNext == Build \/ Iteration

-----------------------------------------------------------------------------
\* The logic applied n times to the input.
Applied[n \in 0 .. IterationBound] ==
    IF n = 0 THEN iterInput ELSE {LogicOn(r) : r \in Applied[n - 1]} \cap IterRows

Reached == {n \in 0 .. IterationBound : (iterLimit # 0 => n <= iterLimit)}

\* The differences add up: an iteration below the limit sees what the one before
\* made, and the table that leaves the loop is the logic applied as often as the
\* limit says, or to its fixed point if that comes first; without a limit it is a
\* fixed point.  A loop that would lose its input is refused.
IterateExact ==
    /\ iterState = "running" /\ (iterLimit = 0 \/ iteration < iterLimit) => variable = CountOf(Applied[iteration])
    /\ iterState = "finished" =>
        /\ resultOf \in {CountOf(Applied[n]) : n \in Reached}
        /\ \/ iterLimit # 0 /\ resultOf = CountOf(Applied[iterLimit])
           \/ iterLimit = 0 /\ variable = resultOf /\ LogicResult = resultOf
=============================================================================
