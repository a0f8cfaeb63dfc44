------------------------- MODULE MCModuleController -------------------------
(* Instances of ModuleController: each disturbance may happen once, and a *)
(* bounded number of them in one behaviour. *)
EXTENDS ModuleController, TLC

AtMost(n, ds) == [d \in Disturbances |-> IF d = "any" THEN n ELSE IF d \in ds THEN 1 ELSE 0]

CoreBudget == AtMost(3, {"edit", "executionLoss", "rerun", "apiError", "restart"})
LiveBudget == AtMost(2, {"edit", "touch", "deletion"})

Permuted == Permutations(Executions)
=============================================================================
