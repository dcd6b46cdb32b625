----------------------------- MODULE MCDashboard -----------------------------
(* A small instance of the dashboard for TLC. *)
EXTENDS Ec2JobDashboard, TLC

CONSTANTS j1, j2, j3, s1

MCScopeOf == [j \in Jobs |-> s1]
==============================================================================
