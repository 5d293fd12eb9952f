------------------------- MODULE MCPrefectDispatch --------------------------
(* Instances of PrefectDispatch with a flow of two steps. *)
EXTENDS PrefectDispatch

CONSTANTS run1, run2

MCFlowSteps == <<"validate-data", "train-model">>
=============================================================================
