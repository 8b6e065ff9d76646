-------------------------- MODULE MCPlanGeneration --------------------------
(* Two processes of a deployment that overlaps them, each with its job; the *)
(* clicks go to one of them.                                                *)
EXTENDS PlanGeneration, MCOrderBuilding, TLC

CONSTANTS old, new, j1, j2, k1, a1, a2, x1, x2, x3

MCHome == (j1 :> old) @@ (j2 :> new) @@ (k1 :> old)
MCValues == (a1 :> {1}) @@ (a2 :> {2})
PlanNames == Permutations(Plans)
=============================================================================
