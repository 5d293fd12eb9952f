------------------------ MODULE MCPipelineValidation ------------------------
(* Every graph of up to four jobs, cyclic ones included. *)
EXTENDS PipelineValidation

CONSTANTS a, b, c, d
=============================================================================
