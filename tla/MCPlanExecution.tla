-------------------------- MODULE MCPlanExecution --------------------------
(* Names for the legs and sessions of the instances that TLC checks.        *)
EXTENDS PlanExecution

CONSTANTS b1, b2, s1, u1, u2, t1, t2, w1, p1
=============================================================================
