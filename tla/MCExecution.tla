----------------------------- MODULE MCExecution -----------------------------
(* Small instances of the execution API for TLC. *)
EXTENDS ExecutionApi, TLC

CONSTANTS c1, c2, u1, u2

CallSymmetry == Permutations({c1, c2}) \union Permutations({u1, u2})
=============================================================================
