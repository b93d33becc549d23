-------------------------------- MODULE Values --------------------------------
(***************************************************************************)
(* The two values that every operator of the engine treats apart.  Other   *)
(* values are positive numbers, which is the order Value derives: None     *)
(* comes before them, and an Error is never compared.                      *)
(***************************************************************************)
EXTENDS Integers

NoneValue == 0
ErrorValue == -1

=============================================================================
