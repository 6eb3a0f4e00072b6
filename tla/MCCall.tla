------------------------------- MODULE MCCall -------------------------------
(***************************************************************************)
(* Call for a function with a result and one that is one way, with the     *)
(* structs of MCSchemas as bodies.                                         *)
(***************************************************************************)
EXTENDS Call, MCSchemas

CallStructs == [n \in DOMAIN MCStructs \cup {"Exception"} |->
                    IF n = "Exception" THEN Exception ELSE MCStructs[n]]
CallEnums == [n \in DOMAIN MCEnums \cup {"ExceptionType"} |->
                    IF n = "ExceptionType" THEN ExceptionTypes ELSE MCEnums[n]]

ping == [name |-> <<112, 105>>, oneway |-> FALSE,
         args |-> Named("struct", "NodeC"), result |-> Named("struct", "ResA")]
tell == [name |-> <<>>, oneway |-> TRUE,
         args |-> Named("struct", "NodeD"), result |-> Named("struct", "ResB")]
MCFunctions == {ping, tell}

MCArguments(f) ==
    IF f = ping THEN NodesC \cup {Empty} ELSE NodesD
MCResults(f) == MCOffers("ResA")
MCExceptions == {Empty, [type |-> "UNKNOWN"], [message |-> b],
                 [message |-> <<>>, type |-> "UNSUPPORTED_CLIENT_TYPE"],
                 [type |-> "TEAPOT"]}
=============================================================================
