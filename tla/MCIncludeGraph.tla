--------------------------- MODULE MCIncludeGraph ---------------------------
(* Every include graph over three files with at most two definitions each; *)
(* a file that is not read by the loader includes the root or nothing.     *)
EXTENDS IncludeGraph

Defs == {<<>>} \cup {<<d>> : d \in File}
               \cup {<<d, e>> : d \in File \cup {Other}, e \in File}

Read == [given : {"nothing"}, status : {"good"}, defs : Defs]
Unread == [given : {"nothing"}, status : {"unreadable", "malformed"}, defs : {<<>>}]
Given == [given : {"idl"}, status : {"malformed", "good"}, defs : {<<>>}]
            \cup [given : {"ast"}, status : {"good"}, defs : {<<Root>>}]
BadIncludes == [given : {"ast"}, status : {"badInclude"}, defs : {<<d>> : d \in File}]

MCSources == [File -> Read \cup Unread \cup Given \cup BadIncludes]
=============================================================================
