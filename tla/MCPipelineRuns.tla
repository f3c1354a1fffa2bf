--------------------------- MODULE MCPipelineRuns ---------------------------
(* Instance of PipelineRuns for TLC: the runs are model values.            *)
EXTENDS PipelineRuns
=============================================================================
