---------------------------- MODULE MCThriftLoad ----------------------------
(* The asynchronous loader on the include graphs of MCIncludeGraph.        *)
EXTENDS ThriftLoad, MCIncludeGraph
=============================================================================
