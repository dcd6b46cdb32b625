----------------------------- MODULE MCConsumer ------------------------------
(* Small instances of the worker for TLC. *)
EXTENDS Ec2AsyncJobConsumer, TLC

CONSTANTS j1, w1, w2, m1, m2

WorkerSymmetry == Permutations({w1, w2})
=============================================================================
