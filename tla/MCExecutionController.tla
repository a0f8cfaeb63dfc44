----------------------- MODULE MCExecutionController -----------------------
(* Instances of ExecutionController: how often each disturbance may happen. *)
EXTENDS ExecutionController, TLC

None == [d \in Disturbances |-> 0]
Only(ds) == [d \in Disturbances |-> IF d \in ds THEN 1 ELSE 0]

CoreBudget == Only({"edit", "moduleLoss"})
LossBudget == Only({"restart", "apiError", "jobLoss", "deletion"})
LiveBudget == Only({"deleteError"})

Permuted == Permutations(Jobs)
=============================================================================
