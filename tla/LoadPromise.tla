---------------------------- MODULE LoadPromise ----------------------------
(***************************************************************************)
(* What new Thrift(...) and Thrift.load(...) promise, however the files    *)
(* are read: one answer, that depends on the files and the program only.   *)
(***************************************************************************)
EXTENDS IncludeGraph

VARIABLES source,     \* the files
          linkable,   \* compileAndLink accepts the syntax trees
          answers     \* what the caller was told

promiseVars == <<source, linkable, answers>>

Result == IF Loadable(source) /\ linkable THEN "thrift" ELSE "error"

Init == source \in Sources /\ linkable \in BOOLEAN /\ answers = <<>>

Answer == /\ answers = <<>>
          /\ answers' = <<Result>>
          /\ UNCHANGED <<source, linkable>>

Spec == Init /\ [][Answer]_promiseVars /\ WF_promiseVars(Answer)
=============================================================================
