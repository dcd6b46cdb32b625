------------------------------ MODULE MCSystem -------------------------------
(* Small instances of producer and workers together for TLC. *)
EXTENDS Ec2AsyncJobSystem, TLC

CONSTANTS j1, j2, w1, w2, m1, m2, r1, r2, s1, s2

RequestSymmetry == Permutations({r1, r2})
WorkerAndRequestSymmetry == RequestSymmetry \union Permutations({w1, w2})

\* Bound: no worker acts on a job before a lagging read can see its creation.
QueueSlowerThanReplica ==
  (\A j \in Jobs : Exists(jobs[j]) => Exists(jobsReplica[j])) \/ pc' = pc
=============================================================================
