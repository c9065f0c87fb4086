------------------------- MODULE MCPlanningWorkspace -------------------------
(* Small instances of PlanningWorkspace.                                   *)
EXTENDS PlanningWorkspace, TLC
CONSTANTS k1, k2, q1, q2, p1, p2, none, x, y

\* x and y are complete plans with different active blocks.
PlansOf == {none, x, y}
OnePlan == {none, x}
BlockOf == none :> "-" @@ x :> "b1" @@ y :> "b2"
OneBlock == none :> "-" @@ x :> "b1"
KeySymmetry == Permutations({k1, k2}) \cup Permutations({q1, q2})
=============================================================================
