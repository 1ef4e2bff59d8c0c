--------------------------- MODULE MCPlanExecution ---------------------------
(* Instances of PlanExecution for TLC. *)
EXTENDS PlanExecution, TLC

(* No action tells one executing process from another. *)
Symmetry == Permutations(Execs)
=============================================================================
