------------------------------ MODULE MCPipeline ------------------------------
(* A small instance of Pipeline.                                           *)
EXTENDS Pipeline
=============================================================================
