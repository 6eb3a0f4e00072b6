------------------------ MODULE ThriftLoadSync_proofs ------------------------
(***************************************************************************)
(* The synchronous loader on include graphs of every size: the recursion   *)
(* never meets a file twice, and the constructor gives the answer that the *)
(* files determine.                                                        *)
(*                                                                         *)
(* The inductive invariant is that of a search in depth: what a loop has   *)
(* passed is parsed or is being entered, what is parsed and not on the     *)
(* stack is done, and nothing is visited that the entry point does not     *)
(* reach.                                                                  *)
(***************************************************************************)
EXTENDS ThriftLoadSync, IncludeGraph_proofs

Frames == 1 .. Len(stack)
Defs(f) == source[f].defs

(* Nothing is left to do once there is an answer.                          *)
Ended == answers # <<>> => (entering = {} /\ stack = <<>>)

(* At most one call of loadSync is being made.                             *)
OneCall == \A f, g \in entering : f = g

(* Each loop is one of a good file that was marked.                        *)
Marks == \A k \in Frames : /\ stack[k].file \in parsed /\ stack[k].index >= 1
                           /\ source[stack[k].file].status = "good"

(* What a loop has passed.                                                 *)
Passed ==
    \A k \in Frames : \A m \in 1 .. Len(Defs(stack[k].file)) :
        m < stack[k].index => Defs(stack[k].file)[m] \in {Other} \cup parsed \cup entering

Started == Root \in parsed \cup entering
Reached == (parsed \cup entering) \subseteq Reachable(source)

(* Without an error so far, all that was marked is good and has a tree.    *)
AllGood == answers # <<"error">> =>
              \A f \in parsed : source[f].status = "good" /\ f \in asts

(* The answer is that of the promise.                                      *)
Truthful == answers = <<>> \/ answers = <<Promise!Result>>

IInv == /\ TypeOK /\ Ended /\ OneCall /\ Marks /\ EachFileOnceOnStack
        /\ Passed /\ Started /\ Reached /\ AllGood /\ DepthFirst /\ Truthful

-----------------------------------------------------------------------------
(* The definitions of the promise are those of this module.                *)
LEMMA SamePromise ==
  Promise!Result = IF Loadable(source) /\ linkable THEN "thrift" ELSE "error"
<1>1. \A f : Promise!Included(source, f) = Included(source, f)
  BY DEF Promise!Included, Included
<1>2. \A S : Promise!Closed(source, S) <=> Closed(source, S)
  BY <1>1 DEF Promise!Closed, Closed
<1>3. Promise!Reachable(source) = Reachable(source)
  BY <1>2 DEF Promise!Reachable, Reachable
<1>4. Promise!Loadable(source) <=> Loadable(source)
  BY <1>3 DEF Promise!Loadable, Loadable
<1> QED
  BY <1>4 DEF Promise!Result
-----------------------------------------------------------------------------
LEMMA Initially == Init => IInv
<1> SUFFICES ASSUME Init PROVE IInv
  OBVIOUS
<1>1. TypeOK
  BY RootAssumption DEF Init, TypeOK
<1>2. Ended /\ OneCall /\ Marks /\ EachFileOnceOnStack /\ Passed /\ Started
  BY DEF Init, Ended, OneCall, Marks, EachFileOnceOnStack, Passed, Started, Frames
<1>3. Reached
  BY RootReached DEF Init, Reached
<1>4. AllGood /\ DepthFirst /\ Truthful
  BY DEF Init, AllGood, DepthFirst, Truthful
<1> QED
  BY <1>1, <1>2, <1>3, <1>4 DEF IInv

(* A file that was marked already.                                         *)
LEMMA KeepsWhenReturning ==
  ASSUME IInv, ReturnAtOnce PROVE IInv'
<1> USE DEF ReturnAtOnce
<1>1. TypeOK'
  BY DEF IInv, TypeOK
<1>2. entering \subseteq parsed
  BY DEF IInv, OneCall
<1>3. Ended' /\ OneCall' /\ Marks' /\ EachFileOnceOnStack'
  BY DEF IInv, Ended, OneCall, Marks, EachFileOnceOnStack, Frames
<1>4. Passed'
  BY <1>2 DEF IInv, Passed, Frames, Defs
<1>5. Started' /\ Reached'
  BY <1>2 DEF IInv, Started, Reached
<1>6. AllGood' /\ DepthFirst'
  BY DEF IInv, AllGood, DepthFirst
<1>7. Truthful'
  BY DEF IInv, Truthful, Promise!Result
<1> QED
  BY <1>1, <1>3, <1>4, <1>5, <1>6, <1>7 DEF IInv

(* loadSync(f) for a file that was not marked.                             *)
LEMMA KeepsWhenEntering ==
  ASSUME IInv, LoadSync PROVE IInv'
<1>1. PICK f \in entering :
        /\ f \notin parsed
        /\ entering' = {}
        /\ parsed' = Marked(f)
        /\ idls' = IF f \in asts \/ source[f].status = "unreadable"
                      THEN idls ELSE idls \cup {f}
        /\ asts' = IF source[f].status \in {"unreadable", "malformed"}
                      THEN asts ELSE asts \cup {f}
        /\ \/ /\ source[f].status # "good"
              /\ answers' = Append(answers, "error")
              /\ stack' = <<>>
           \/ /\ source[f].status = "good"
              /\ stack' = Append(stack, Loop(f))
              /\ UNCHANGED answers
        /\ UNCHANGED <<source, linkable>>
  BY DEF LoadSync
<1>2. /\ source \in Sources /\ linkable \in BOOLEAN
      /\ f \in File /\ parsed \subseteq File /\ idls \subseteq File /\ asts \subseteq File
      /\ stack \in Seq([file : File, index : Nat])
  BY <1>1 DEF IInv, TypeOK
<1>3. parsed' = parsed \cup {f} /\ entering' = {} /\ source' = source /\ entering = {f}
  BY <1>1 DEF IInv, OneCall, Marked
<1>4. answers = <<>> /\ f \in Reachable(source)
  BY <1>1 DEF IInv, Ended, Reached
<1>5. idls' \subseteq File /\ asts' \subseteq File /\ parsed' \subseteq File
  BY <1>1, <1>2, <1>3
<1>6. OneCall' /\ Started' /\ Reached'
  BY <1>3, <1>4 DEF IInv, OneCall, Started, Reached
<1>7. CASE source[f].status # "good"
  <2>1. answers' = <<"error">> /\ stack' = <<>>
    BY <1>1, <1>4, <1>7
  <2>2. TypeOK'
    BY <1>2, <1>3, <1>1, <1>5, <2>1 DEF TypeOK
  <2>3. Ended' /\ Marks' /\ EachFileOnceOnStack' /\ Passed'
    BY <1>3, <2>1 DEF Ended, Marks, EachFileOnceOnStack, Passed, Frames
  <2>4. AllGood' /\ DepthFirst'
    BY <2>1 DEF AllGood, DepthFirst
  <2>5. ~Loadable(source)
    BY <1>4, <1>7 DEF Loadable
  <2>6. Promise!Result' = "error"
    BY <1>1, <2>5, SamePromise DEF Promise!Result
  <2>7. Truthful'
    BY <2>1, <2>6 DEF Truthful
  <2> QED
    BY <1>6, <2>2, <2>3, <2>4, <2>7 DEF IInv
<1>8. CASE source[f].status = "good"
  <2>1. answers' = <<>> /\ stack' = Append(stack, [file |-> f, index |-> 1])
    BY <1>1, <1>4, <1>8 DEF Loop
  <2>2. /\ Len(stack) \in Nat /\ Len(stack') = Len(stack) + 1
        /\ \A k \in 1 .. Len(stack) : stack'[k] = stack[k]
        /\ stack'[Len(stack) + 1] = [file |-> f, index |-> 1]
    BY <1>2, <2>1
  <2>3. TypeOK'
    <3>1. stack' \in Seq([file : File, index : Nat])
      BY <1>2, <2>1
    <3> QED
      BY <1>1, <1>2, <1>3, <1>5, <2>1, <3>1 DEF TypeOK
  <2>4. Ended' /\ Truthful'
    BY <2>1 DEF Ended, Truthful
  <2>5. Marks'
    BY <1>3, <1>8, <2>2 DEF IInv, Marks, Frames
  <2>6. EachFileOnceOnStack'
    <3>1. \A k \in 1 .. Len(stack) : stack[k].file # f
      BY <1>1 DEF IInv, Marks, Frames
    <3> QED
      BY <2>2, <3>1 DEF IInv, EachFileOnceOnStack
  <2>7. Passed'
    <3> SUFFICES ASSUME NEW k \in 1 .. Len(stack) + 1,
                        NEW l \in 1 .. Len(Defs(stack'[k].file)), l < stack'[k].index
                 PROVE  Defs(stack'[k].file)[l] \in {Other} \cup parsed \cup {f}
      BY <1>3, <2>2 DEF Passed, Frames, Defs
    <3>1. CASE k = Len(stack) + 1
      <4>1. stack'[k].index = 1 /\ l \in Nat /\ l >= 1
        BY <2>2, <3>1
      <4> QED
        BY <4>1
    <3>2. CASE k # Len(stack) + 1
      <4>1. k \in Frames /\ stack'[k] = stack[k]
        BY <2>2, <3>2 DEF Frames
      <4> QED
        BY <1>3, <4>1 DEF IInv, Passed
    <3> QED
      BY <3>1, <3>2
  <2>8. AllGood'
    BY <1>1, <1>3, <1>4, <1>8, <2>1 DEF IInv, AllGood
  <2>9. DepthFirst'
    BY <1>3, <1>4, <2>1, <2>2 DEF IInv, DepthFirst
  <2> QED
    BY <1>6, <2>3, <2>4, <2>5, <2>6, <2>7, <2>8, <2>9 DEF IInv
<1> QED
  BY <1>7, <1>8

(* A turn of the innermost loop.                                           *)
LEMMA KeepsWhenTurning ==
  ASSUME IInv, Turn PROVE IInv'
<1> DEFINE n == Len(stack)
<1>1. /\ source \in Sources
      /\ stack \in Seq([file : File, index : Nat]) /\ n \in Nat /\ n >= 1
      /\ stack[n] \in [file : File, index : Nat]
      /\ Top = stack[n]
  <2>1. source \in Sources /\ stack \in Seq([file : File, index : Nat])
    BY DEF IInv, TypeOK
  <2>2. stack # <<>>
    BY DEF Turn
  <2>3. n \in Nat /\ n >= 1 /\ stack[n] \in [file : File, index : Nat]
    BY <2>1, <2>2, Stacks
  <2> QED
    BY <2>1, <2>3 DEF Top
<1> DEFINE f == stack[n].file
           m == stack[n].index
<1>2. f \in File /\ m \in Nat /\ m <= Len(Defs(f)) /\ entering = {}
  BY <1>1 DEF Turn, Defs
<1>3. /\ UNCHANGED <<source, linkable, parsed, idls, asts, answers>>
      /\ stack' = [stack EXCEPT ![n].index = m + 1]
      /\ entering' = {Defs(f)[m]} \ {Other}
  BY <1>1 DEF Turn, IncludeOf, Defs
<1>4. /\ Len(stack') = n
      /\ \A k \in 1 .. n - 1 : stack'[k] = stack[k]
      /\ stack'[n].file = f /\ stack'[n].index = m + 1
  BY <1>1, <1>3
<1>5. answers = <<>>
  BY <1>1 DEF IInv, Ended
<1>6. \A k \in 1 .. n : stack'[k].file = stack[k].file
  BY <1>1, <1>4
<1>7. entering' \subseteq Included(source, f)
  <2>0. m \in 1 .. Len(source[f].defs)
    BY <1>1, <1>2 DEF IInv, Marks, Frames, Defs
  <2>1. Defs(f)[m] \in {Other} \cup Included(source, f)
    BY <1>1, <1>2, <2>0, Files DEF Defs
  <2> QED
    BY <1>3, <2>1
<1>8. f \in parsed /\ source[f].status = "good" /\ f \in Reachable(source)
  BY <1>1 DEF IInv, Marks, Frames, Reached
<1>9. entering' \subseteq Reachable(source)
  BY <1>1, <1>7, <1>8, IncludesReached
<1>10. TypeOK'
  <2>1. stack' \in Seq([file : File, index : Nat])
    BY <1>1, <1>2, <1>3
  <2>2. entering' \subseteq File
    BY <1>9 DEF Reachable
  <2> QED
    BY <1>3, <2>1, <2>2 DEF IInv, TypeOK
<1>11. Ended' /\ Truthful'
  BY <1>3, <1>5 DEF Ended, Truthful
<1>12. OneCall'
  BY <1>3 DEF OneCall
<1>13. Marks' /\ EachFileOnceOnStack'
  <2>1. \A k \in 1 .. n : stack'[k].index >= 1
    BY <1>1, <1>2, <1>4 DEF IInv, Marks, Frames
  <2> QED
    BY <1>3, <1>4, <1>6, <2>1 DEF IInv, Marks, EachFileOnceOnStack, Frames
<1>14. Passed'
  <2> SUFFICES ASSUME NEW k \in 1 .. n, NEW l \in 1 .. Len(Defs(stack[k].file)),
                      l < stack'[k].index
               PROVE  Defs(stack[k].file)[l] \in {Other} \cup parsed \cup entering'
    BY <1>3, <1>4, <1>6 DEF Passed, Frames, Defs
  <2>1. CASE l < stack[k].index
    BY <1>2, <2>1 DEF IInv, Passed, Frames
  <2>2. CASE k = n /\ l = m
    BY <1>3, <2>2
  <2>3. k = n \/ stack'[k] = stack[k]
    BY <1>1, <1>4
  <2>4. k = n => l < m + 1
    BY <1>4
  <2>5. l \in Nat
    OBVIOUS
  <2> QED
    BY <1>2, <2>1, <2>2, <2>3, <2>4, <2>5
<1>15. Started' /\ Reached'
  BY <1>2, <1>3, <1>9 DEF IInv, Started, Reached
<1>16. AllGood'
  BY <1>3 DEF IInv, AllGood
<1>17. DepthFirst'
  BY <1>3, <1>4, <1>6 DEF IInv, DepthFirst
<1> QED
  BY <1>10, <1>11, <1>12, <1>13, <1>14, <1>15, <1>16, <1>17 DEF IInv

(* The innermost loop is over: all that its file includes is parsed.       *)
LEMMA KeepsWhenLoopEnds ==
  ASSUME IInv, Return PROVE IInv'
<1> DEFINE n == Len(stack)
<1>1. /\ source \in Sources
      /\ stack \in Seq([file : File, index : Nat]) /\ n \in Nat /\ n >= 1
      /\ stack[n] \in [file : File, index : Nat]
      /\ Top = stack[n] /\ entering = {}
      /\ UNCHANGED <<source, linkable, parsed, idls, asts, entering, answers>>
      /\ stack' = SubSeq(stack, 1, n - 1)
  <2>1. source \in Sources /\ stack \in Seq([file : File, index : Nat])
    BY DEF IInv, TypeOK
  <2>2. stack # <<>>
    BY DEF Return
  <2>3. n \in Nat /\ n >= 1 /\ stack[n] \in [file : File, index : Nat]
    BY <2>1, <2>2, Stacks
  <2> QED
    BY <2>1, <2>3 DEF Top, Return
<1> DEFINE f == stack[n].file
<1>2. /\ Len(stack') = n - 1
      /\ \A k \in 1 .. n - 1 : stack'[k] = stack[k]
      /\ stack' \in Seq([file : File, index : Nat])
  <2>1. stack # <<>>
    BY DEF Return
  <2> QED
    BY <1>1, <2>1, Stacks
<1>3. answers = <<>>
  BY <1>1 DEF IInv, Ended
<1>4. Included(source, f) \subseteq parsed
  <2>1. Defs(f) \in Seq(File \cup {Other})
    <3> f \in File
      BY <1>1
    <3> QED
      BY <1>1, Files DEF Defs
  <2>2. \A m \in 1 .. Len(Defs(f)) : Defs(f)[m] \in {Other} \cup parsed
    <3>1. stack[n].index > Len(Defs(f))
      BY <1>1 DEF Return, Defs
    <3> QED
      BY <1>1, <2>1, <3>1 DEF IInv, Passed, Frames
  <2> QED
    BY <2>2 DEF Included, Defs
<1>5. TypeOK'
  BY <1>1, <1>2 DEF IInv, TypeOK
<1>6. Ended' /\ Truthful' /\ OneCall'
  BY <1>1, <1>3 DEF Ended, Truthful, OneCall
<1>7. Marks' /\ EachFileOnceOnStack'
  <2>1. \A k \in 1 .. n - 1 : k \in 1 .. n
    BY <1>1
  <2>2. Marks'
    BY <1>1, <1>2, <2>1 DEF IInv, Marks, Frames
  <2>3. EachFileOnceOnStack'
    BY <1>1, <1>2, <2>1 DEF IInv, EachFileOnceOnStack
  <2> QED
    BY <2>2, <2>3
<1>8. Passed'
  <2> SUFFICES ASSUME NEW k \in 1 .. n - 1, NEW l \in 1 .. Len(Defs(stack[k].file)),
                      l < stack[k].index
               PROVE  Defs(stack[k].file)[l] \in {Other} \cup parsed \cup entering
    BY <1>1, <1>2 DEF Passed, Frames, Defs
  <2>1. k \in Frames
    BY <1>1 DEF Frames
  <2> QED
    BY <2>1 DEF IInv, Passed
<1>9. Started' /\ Reached' /\ AllGood'
  BY <1>1 DEF IInv, Started, Reached, AllGood
<1>10. DepthFirst'
  <2> SUFFICES ASSUME NEW g \in parsed
               PROVE  \/ g \in {stack'[k].file : k \in 1 .. n - 1}
                      \/ Included(source, g) \subseteq parsed
    BY <1>1, <1>2 DEF DepthFirst
  <2>1. \/ g \in {stack[k].file : k \in 1 .. n}
        \/ Included(source, g) \subseteq parsed
    BY <1>3 DEF IInv, DepthFirst
  <2>2. g \in {stack[k].file : k \in 1 .. n} =>
            g = f \/ g \in {stack'[k].file : k \in 1 .. n - 1}
    <3> SUFFICES ASSUME NEW k \in 1 .. n, g = stack[k].file, k # n
                 PROVE  g \in {stack'[l].file : l \in 1 .. n - 1}
      OBVIOUS
    <3>1. k \in 1 .. n - 1
      BY <1>1
    <3> QED
      BY <1>2, <3>1
  <2> QED
    BY <1>4, <2>1, <2>2
<1> QED
  BY <1>5, <1>6, <1>7, <1>8, <1>9, <1>10 DEF IInv

(* Back in the constructor: what was parsed is what the entry point        *)
(* reaches, all of it good, and the answer depends on compileAndLink.      *)
LEMMA Complete ==
  ASSUME IInv, entering = {}, stack = <<>>, answers = <<>>
  PROVE  /\ Loadable(source)
         /\ Reachable(source) \subseteq asts
<1>1. parsed \subseteq File /\ Root \in parsed /\ parsed \subseteq Reachable(source)
  BY DEF IInv, TypeOK, Started, Reached
<1>2. \A f \in parsed : source[f].status = "good" /\ f \in asts
  BY DEF IInv, AllGood
<1>3. \A f \in parsed : Included(source, f) \subseteq parsed
  <2>1. {stack[k].file : k \in 1 .. Len(stack)} = {}
    OBVIOUS
  <2> QED
    BY <2>1 DEF IInv, DepthFirst
<1>4. Closed(source, parsed)
  BY <1>3 DEF Closed
<1>5. Reachable(source) \subseteq parsed
  BY <1>1, <1>4, ClosedCovers
<1> QED
  BY <1>2, <1>5 DEF Loadable

LEMMA KeepsWhenCompiling ==
  ASSUME IInv, CompileAndLink PROVE IInv'
<1>1. /\ entering = {} /\ stack = <<>> /\ answers = <<>>
      /\ answers' = <<IF Compiles THEN "thrift" ELSE "error">>
      /\ UNCHANGED <<source, linkable, parsed, idls, asts, entering, stack>>
  BY DEF CompileAndLink
<1>2. answers' = <<Promise!Result>>
  BY <1>1, Complete, SamePromise DEF Compiles
<1>3. Promise!Result' = Promise!Result
  BY <1>1 DEF Promise!Result
<1>4. TypeOK'
  BY <1>1 DEF IInv, TypeOK
<1>5. Ended' /\ OneCall' /\ Marks' /\ EachFileOnceOnStack' /\ Passed'
  BY <1>1 DEF IInv, Ended, OneCall, Marks, EachFileOnceOnStack, Passed, Frames
<1>6. Started' /\ Reached' /\ AllGood' /\ DepthFirst'
  BY <1>1 DEF IInv, Started, Reached, AllGood, DepthFirst
<1>7. Truthful'
  BY <1>2, <1>3 DEF Truthful
<1> QED
  BY <1>4, <1>5, <1>6, <1>7 DEF IInv

LEMMA StepKeepsInvariant == IInv /\ [Next]_vars => IInv'
<1> SUFFICES ASSUME IInv, [Next]_vars PROVE IInv'
  OBVIOUS
<1>1. CASE ReturnAtOnce
  BY <1>1, KeepsWhenReturning
<1>2. CASE LoadSync
  BY <1>2, KeepsWhenEntering
<1>3. CASE Turn
  BY <1>3, KeepsWhenTurning
<1>4. CASE Return
  BY <1>4, KeepsWhenLoopEnds
<1>5. CASE CompileAndLink
  BY <1>5, KeepsWhenCompiling
<1>6. CASE UNCHANGED vars
  <2> USE <1>6 DEF vars
  <2>1. TypeOK' /\ Truthful'
    BY DEF IInv, TypeOK, Truthful, Promise!Result
  <2>2. Ended' /\ OneCall' /\ Marks' /\ EachFileOnceOnStack' /\ Passed'
    BY DEF IInv, Ended, OneCall, Marks, EachFileOnceOnStack, Passed, Frames, Defs
  <2>3. Started' /\ Reached' /\ AllGood' /\ DepthFirst'
    BY DEF IInv, Started, Reached, AllGood, DepthFirst
  <2> QED
    BY <2>1, <2>2, <2>3 DEF IInv
<1> QED
  BY <1>1, <1>2, <1>3, <1>4, <1>5, <1>6 DEF Next

THEOREM Invariance == Spec => []IInv
BY Initially, StepKeepsInvariant, PTL DEF Spec
-----------------------------------------------------------------------------
(* The type invariant of the synchronous loader, for file systems of any   *)
(* size.                                                                   *)
THEOREM TypeCorrect == Spec => []TypeOK
<1>1. IInv => TypeOK
  BY DEF IInv
<1> QED
  BY <1>1, Invariance, PTL

(* loadSync never runs for a file that it already runs for, however the    *)
(* files include each other: the recursion is as deep as there are files.  *)
THEOREM RecursionIsBounded == Spec => []EachFileOnceOnStack
<1>1. IInv => EachFileOnceOnStack
  BY DEF IInv
<1> QED
  BY <1>1, Invariance, PTL

(* Every file that loadSync has left has all it includes parsed.           *)
THEOREM SearchesInDepth == Spec => []DepthFirst
<1>1. IInv => DepthFirst
  BY DEF IInv
<1> QED
  BY <1>1, Invariance, PTL

(* The constructor returns or throws once, and it is the files that decide *)
(* which: every step is the answer of LoadPromise or changes nothing of    *)
(* it.                                                                     *)
LEMMA StepImplements ==
  ASSUME IInv, [Next]_vars
  PROVE  [Promise!Answer]_(Promise!promiseVars)
<1> USE DEF Promise!promiseVars, Promise!Answer
<1>1. CASE LoadSync
  <2>1. UNCHANGED <<source, linkable>> /\ (answers' = answers \/ answers = <<>>)
    BY <1>1 DEF LoadSync, IInv, Ended
  <2>2. answers' = answers \/ answers' = Append(answers, "error")
    BY <1>1 DEF LoadSync
  <2>3. Truthful' /\ Promise!Result' = Promise!Result
    BY <1>1, <2>1, KeepsWhenEntering DEF IInv, Promise!Result
  <2>4. CASE answers' # answers
    <3>1. answers = <<>> /\ answers' = Append(answers, "error")
      BY <2>1, <2>2, <2>4
    <3>3. answers' # <<>>
      BY <3>1
    <3>2. answers' = <<Promise!Result>>
      BY <2>3, <3>3 DEF Truthful
    <3> QED
      BY <2>1, <3>1, <3>2
  <2> QED
    BY <2>1, <2>4
<1>2. CASE CompileAndLink
  <2>1. answers = <<>> /\ answers' = <<Promise!Result>>
    BY <1>2, Complete, SamePromise DEF CompileAndLink, Compiles
  <2> QED
    BY <1>2, <2>1 DEF CompileAndLink
<1>3. CASE ReturnAtOnce \/ Turn \/ Return \/ UNCHANGED vars
  BY <1>3 DEF ReturnAtOnce, Turn, Return, vars
<1> QED
  BY <1>1, <1>2, <1>3 DEF Next

THEOREM Implements ==
  Spec => Promise!Init /\ [][Promise!Answer]_(Promise!promiseVars)
<1>1. Init => Promise!Init
  BY DEF Init, Promise!Init
<1>2. IInv /\ [Next]_vars => [Promise!Answer]_(Promise!promiseVars)
  BY StepImplements
<1> QED
  BY <1>1, <1>2, Invariance, PTL DEF Spec
=============================================================================
