--------------------------- MODULE ThriftLoadSync ---------------------------
(***************************************************************************)
(* new Thrift(options) without a callback: loadSync of thrift.js walks the *)
(* includes depth first, reading as it goes; whatever throws is thrown to  *)
(* the caller of the constructor.  Then compileAndLink.                    *)
(***************************************************************************)
EXTENDS IncludeGraph

VARIABLES source,     \* what reading and parsing each file gives
          linkable,   \* compileAndLink accepts the program
          parsed,     \* this.parsed
          idls,       \* this.idls: files whose text is known
          asts,       \* this.asts: files whose syntax tree is known
          entering,   \* the file loadSync is being called for, at most one
          stack,      \* loops over definitions in progress, innermost last
          answers     \* how the constructor ended: it returned or threw

vars == <<source, linkable, parsed, idls, asts, entering, stack, answers>>

Init == /\ source \in Sources
        /\ linkable \in BOOLEAN
        /\ parsed = {}
        /\ idls = {f \in File : source[f].given = "idl"}
        /\ asts = {f \in File : source[f].given = "ast"}
        /\ entering = {Root}
        /\ stack = <<>>
        /\ answers = <<>>
-----------------------------------------------------------------------------
(* A file already loaded, or being loaded further up the stack.            *)
ReturnAtOnce ==
    /\ \E f \in entering : f \in parsed
    /\ entering' = {}
    /\ UNCHANGED <<source, linkable, parsed, idls, asts, stack, answers>>

(* loadSync(filename): mark, read unless the text or the tree was given,   *)
(* parse unless the tree was given, validate the includes, start the loop. *)
(* Faults: the file is not marked; the loop starts behind the first header.*)
Unmarked(f) == parsed
Marked(f) == parsed \cup {f}

LateLoop(f) == [file |-> f, index |-> 2]
Loop(f) == [file |-> f, index |-> 1]

LoadSync ==
    \E f \in entering :
        /\ f \notin parsed
        /\ entering' = {}
        /\ parsed' = Marked(f)
        /\ idls' = IF f \in asts \/ source[f].status = "unreadable"
                      THEN idls ELSE idls \cup {f}
        /\ asts' = IF source[f].status \in {"unreadable", "malformed"}
                      THEN asts ELSE asts \cup {f}
        /\ \/ /\ source[f].status # "good"
              /\ answers' = Append(answers, "error")
              /\ stack' = <<>>
           \/ /\ source[f].status = "good"
              /\ stack' = Append(stack, Loop(f))
              /\ UNCHANGED answers
        /\ UNCHANGED <<source, linkable>>

(* A turn of the innermost loop: pass over what is no include, load what   *)
(* is, return at the end.  Fault: what is no include is loaded as well.    *)
Anything(def) == {def}
IncludeOf(def) == {def} \ {Other}

Top == stack[Len(stack)]

Turn ==
    /\ entering = {} /\ stack # <<>>
    /\ Top.index <= Len(source[Top.file].defs)
    /\ stack' = [stack EXCEPT ![Len(stack)].index = @ + 1]
    /\ entering' = IncludeOf(source[Top.file].defs[Top.index])
    /\ UNCHANGED <<source, linkable, parsed, idls, asts, answers>>

Return ==
    /\ entering = {} /\ stack # <<>>
    /\ Top.index > Len(source[Top.file].defs)
    /\ stack' = SubSeq(stack, 1, Len(stack) - 1)
    /\ UNCHANGED <<source, linkable, parsed, idls, asts, entering, answers>>

(* Back in the constructor: the includes are compiled from 'asts' alone.   *)
Compiles == Reachable(source) \subseteq asts /\ linkable

CompileAndLink ==
    /\ entering = {} /\ stack = <<>> /\ answers = <<>>
    /\ answers' = <<IF Compiles THEN "thrift" ELSE "error">>
    /\ UNCHANGED <<source, linkable, parsed, idls, asts, entering, stack>>

Next == ReturnAtOnce \/ LoadSync \/ Turn \/ Return \/ CompileAndLink

Spec == Init /\ [][Next]_vars
FairSpec == Spec /\ WF_vars(Next)
-----------------------------------------------------------------------------
TypeOK == /\ source \in Sources /\ linkable \in BOOLEAN
          /\ parsed \subseteq File /\ idls \subseteq File /\ asts \subseteq File
          /\ entering \subseteq File
          /\ stack \in Seq([file : File, index : Nat])
          /\ answers \in Seq({"thrift", "error"})

(* A cyclic include never makes the walk deeper than the number of files:  *)
(* each file is on the stack at most once, below the files it includes.    *)
EachFileOnceOnStack ==
    \A i, j \in 1 .. Len(stack) : stack[i].file = stack[j].file => i = j

(* While nothing has failed, every file whose loop is over has the trees   *)
(* of all it includes, or they are still on the stack.                     *)
DepthFirst ==
    answers # <<"error">> =>
        \A f \in parsed :
            f \in {stack[i].file : i \in 1 .. Len(stack)}
              \/ Included(source, f) \subseteq parsed

(* The synchronous constructor gives the answer the files determine, the   *)
(* same the asynchronous one gives.                                        *)
Promise == INSTANCE LoadPromise
Promised == Promise!Spec
=============================================================================
