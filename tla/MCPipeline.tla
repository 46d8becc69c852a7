----------------------------- MODULE MCPipeline -----------------------------
(* Instances of Pipeline for TLC.                                          *)
EXTENDS Pipeline

MCBatchStarts == {1, 3}
MCInputSize == <<2, 1, 3, 0>>
MCOutputSize == <<1, 3, 0, 2>>
=============================================================================
