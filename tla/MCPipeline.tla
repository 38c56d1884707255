---------------------------- MODULE MCPipeline ----------------------------
(* Instantiates Pipeline for TLC; relays and products are model values.    *)
EXTENDS Pipeline
===========================================================================
