------------------------------ MODULE MCHandlerHost ------------------------------
(***************************************************************************)
(* HandlerHost with the four steps of the pipeline.                        *)
(***************************************************************************)
EXTENDS HandlerHost

CONSTANTS extract, map, evaluate, save

PipelineSteps == {extract, map, evaluate, save}
===============================================================================
