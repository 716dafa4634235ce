---------------------------- MODULE MCSupervisor ----------------------------
(* Instances of Supervisor for TLC.                                        *)
EXTENDS SupervisorProps, TLC

CONSTANTS a, b, c, i

OwnNames    == [w \in Workers |-> w]
SharedNames == [w \in Workers |-> "shared"]
Symmetric   == Permutations({a, b})
=============================================================================
