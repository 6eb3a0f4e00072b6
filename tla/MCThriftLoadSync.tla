-------------------------- MODULE MCThriftLoadSync --------------------------
(* The synchronous loader on the include graphs of MCIncludeGraph.         *)
EXTENDS ThriftLoadSync, MCIncludeGraph
=============================================================================
