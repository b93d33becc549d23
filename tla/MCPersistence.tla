--------------------------- MODULE MCPersistence ---------------------------
(***************************************************************************)
(* Instances of Persistence for TLC.                                       *)
(***************************************************************************)
EXTENDS Persistence, TLC

CONSTANTS w0, w1, s0, s1

\* One table, sharded by key: the rows of worker w0 are written by w1 and
\* conversely, so that every row crosses workers.
CrossDest == [x \in Sink \X Row |-> IF x[2][1] = w0 THEN w1 ELSE w0]

\* Swapping the workers maps CrossDest to itself.
WorkerSymmetry == Permutations(Worker)

\* A single_threaded sink: worker w0 writes everything.
SingleDest == [x \in Sink \X Row |-> w0]

=============================================================================
