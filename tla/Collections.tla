----------------------------- MODULE Collections -----------------------------
(***************************************************************************)
(* Collections of differential dataflow, as the engine uses them: a finite *)
(* map from records to integer weights that are not zero.  The operators   *)
(* below are those of the library; the engine's tables are built of them.  *)
(***************************************************************************)
EXTENDS Integers, FiniteSets, FiniteSetsExt

Weight(c, x) == IF x \in DOMAIN c THEN c[x] ELSE 0

\* The collection over S in which x has weight w(x).
Consolidated(S, w(_)) == [x \in {y \in S : w(y) # 0} |-> w(x)]

\* The collection that holds every element of S once.
Once(S) == [x \in S |-> 1]

Concat(a, b) ==
    LET w(x) == Weight(a, x) + Weight(b, x)
    IN Consolidated(DOMAIN a \cup DOMAIN b, w)

Negate(a) == [x \in DOMAIN a |-> -a[x]]

Distinct(a) == [x \in {y \in DOMAIN a : a[y] > 0} |-> 1]

FilterColl(a, P(_)) == [x \in {y \in DOMAIN a : P(y)} |-> a[x]]

\* Every record becomes the records of the set F(x).
FlatMap(a, F(_)) ==
    LET w(y) == LET c(x) == a[x] IN MapThenSumSet(c, {x \in DOMAIN a : y \in F(x)})
    IN Consolidated(UNION {F(x) : x \in DOMAIN a}, w)

MapColl(a, F(_)) == LET G(x) == {F(x)} IN FlatMap(a, G)

\* join_core of two collections of <<key, data>>.
JoinColl(a, b, F(_, _, _)) ==
    LET pairs == {p \in (DOMAIN a) \X (DOMAIN b) : p[1][1] = p[2][1]}
        Out(p) == F(p[1][1], p[1][2], p[2][2])
        w(z) == LET c(p) == a[p[1]] * b[p[2]] IN MapThenSumSet(c, {p \in pairs : Out(p) = z})
    IN Consolidated({Out(p) : p \in pairs}, w)

\* reduce: Logic maps a key and the collection of its data to one output.
ReduceColl(a, Logic(_, _)) ==
    Once({<<k, Logic(k, LET R == {x \in DOMAIN a : x[1] = k}
                        IN [v \in {x[2] : x \in R} |-> a[<<k, v>>]])>> : k \in {x[1] : x \in DOMAIN a}})

Keys(a) == {x[1] : x \in DOMAIN a}

\* What every operator may rely on: no key has two rows, and no row two copies.
WellFormed(a) == (\A x \in DOMAIN a : a[x] = 1) /\ Cardinality(Keys(a)) = Cardinality(DOMAIN a)

=============================================================================
