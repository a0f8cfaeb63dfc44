------------------------------ MODULE MCRunner ------------------------------
(* Instances of Runner: the default image holds tofu. *)
EXTENDS Runner

TofuImage == [engine |-> "tofu", version |-> "default"]
=============================================================================
