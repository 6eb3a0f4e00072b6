---------------------------- MODULE Linker_proofs ----------------------------
(***************************************************************************)
(* What holds of compile and link for all programs.                        *)
(***************************************************************************)
EXTENDS Linker, FiniteSetTheorems, SequenceTheorems, TLAPS

IsFrame(fr) == fr = [op |-> fr.op, id |-> fr.id, todo |-> fr.todo, got |-> fr.got]
IsStack == \E S : stack \in Seq(S) /\ \A fr \in S : IsFrame(fr)

(* A module on the stack has its Thrift; a model on it is marked, unless   *)
(* it is a typedef.                                                        *)
Compiles(fr) == fr.op = "compile" /\ \E file \in memo : fr.id = Module(file)
Links(fr) == fr.op \in {"link", "functions"}
                /\ (Kind(fr.id) # "typedef" => fr.id \in linked)

Busy == {"compile", "link"}
Running == /\ phase \in Busy \cup {"done", "duplicate", "failed", "overflow"}
           /\ IF phase \in Busy THEN stack # <<>> ELSE stack = <<>>
           /\ \A i \in DOMAIN stack : IF phase = "compile" THEN Compiles(stack[i])
                                                           ELSE Links(stack[i])
StackInv == IsStack /\ Running /\ EntersOnce

(* Of a stack with something on it: the top and what is below.             *)
LEMMA Stacks ==
  ASSUME NEW S, NEW s \in Seq(S), s # <<>>
  PROVE  /\ Len(s) \in Nat /\ Len(s) >= 1 /\ s[Len(s)] \in S
         /\ SubSeq(s, 1, Len(s) - 1) \in Seq(S)
         /\ Len(SubSeq(s, 1, Len(s) - 1)) = Len(s) - 1
         /\ \A k \in 1 .. Len(s) - 1 : SubSeq(s, 1, Len(s) - 1)[k] = s[k]
<1>1. Len(s) \in Nat /\ Len(s) >= 1
  OBVIOUS
<1>2. \A k \in 1 .. Len(s) : s[k] \in S
  BY ElementOfSeq
<1>3. \A k \in 1 .. Len(s) - 1 : s[k] \in S
  BY <1>1, <1>2
<1>4. SubSeq(s, 1, Len(s) - 1) \in Seq(S)
  BY <1>1, <1>3, SubSeqProperties
<1>5. Len(SubSeq(s, 1, Len(s) - 1)) = Len(s) - 1
  BY <1>1
<1>6. \A k \in 1 .. Len(s) - 1 : SubSeq(s, 1, Len(s) - 1)[k] = s[k]
  BY <1>1
<1>7. s[Len(s)] \in S
  BY <1>1, <1>2
<1> QED
  BY <1>1, <1>4, <1>5, <1>6, <1>7

LEMMA TopAndBelow ==
  ASSUME IsStack, stack # <<>>
  PROVE  /\ Len(stack) \in Nat /\ Len(stack) >= 1 /\ DOMAIN stack = 1 .. Len(stack)
         /\ IsFrame(Top) /\ Len(stack) \in DOMAIN stack /\ Top = stack[Len(stack)]
         /\ \E S : Below \in Seq(S) /\ \A fr \in S : IsFrame(fr)
         /\ DOMAIN Below = 1 .. Len(stack) - 1 /\ Len(Below) = Len(stack) - 1
         /\ \A i \in 1 .. Len(stack) - 1 : Below[i] = stack[i] /\ i \in DOMAIN stack
<1>1. PICK S : stack \in Seq(S) /\ \A fr \in S : IsFrame(fr)
  BY DEF IsStack
<1>2. /\ Len(stack) \in Nat /\ Len(stack) >= 1 /\ Top \in S
      /\ Below \in Seq(S) /\ Len(Below) = Len(stack) - 1
      /\ \A i \in 1 .. Len(stack) - 1 : Below[i] = stack[i]
  BY <1>1, Stacks DEF Top, Below
<1>3. DOMAIN stack = 1 .. Len(stack) /\ DOMAIN Below = 1 .. Len(stack) - 1
  BY <1>1, <1>2
<1> QED
  BY <1>1, <1>2, <1>3 DEF Top

(* What the four ways to change the stack leave there.                     *)
LEMMA Pushed ==
  ASSUME IsStack, NEW fr, IsFrame(fr), stack' = Append(stack, fr)
  PROVE  /\ IsStack' /\ stack' # <<>> /\ Len(stack) \in Nat
         /\ DOMAIN stack = 1 .. Len(stack) /\ DOMAIN stack' = 1 .. Len(stack) + 1
         /\ stack'[Len(stack) + 1] = fr
         /\ \A i \in 1 .. Len(stack) : stack'[i] = stack[i]
<1>1. PICK S : stack \in Seq(S) /\ \A g \in S : IsFrame(g)
  BY DEF IsStack
<1> DEFINE T == S \cup {fr}
<1>2. stack' \in Seq(T)
  BY <1>1
<1>3. \A g \in T : IsFrame(g)
  BY <1>1
<1>4. IsStack'
  BY <1>2, <1>3 DEF IsStack, IsFrame
<1> HIDE DEF T
<1> QED
  BY <1>1, <1>4

LEMMA Popped ==
  ASSUME IsStack, stack # <<>>, stack' = Below
  PROVE  /\ IsStack' /\ Len(stack) \in Nat /\ Len(stack) >= 1
         /\ DOMAIN stack' = 1 .. Len(stack) - 1 /\ DOMAIN stack = 1 .. Len(stack)
         /\ \A i \in 1 .. Len(stack) - 1 : stack'[i] = stack[i]
<1>1. PICK S : Below \in Seq(S) /\ \A fr \in S : IsFrame(fr)
  BY TopAndBelow
<1>2. IsStack'
  BY <1>1 DEF IsStack, IsFrame
<1> QED
  BY <1>2, TopAndBelow

LEMMA Resumed ==
  ASSUME IsStack, stack # <<>>, NEW fr, IsFrame(fr), stack' = Resume(fr)
  PROVE  /\ IsStack' /\ stack' # <<>> /\ Len(stack) \in Nat /\ Len(stack) >= 1
         /\ DOMAIN stack' = DOMAIN stack /\ DOMAIN stack = 1 .. Len(stack)
         /\ stack'[Len(stack)] = fr
         /\ \A i \in 1 .. Len(stack) - 1 : stack'[i] = stack[i]
<1>1. PICK S : Below \in Seq(S) /\ \A g \in S : IsFrame(g)
  BY TopAndBelow
<1>2. /\ Len(stack) \in Nat /\ Len(stack) >= 1 /\ DOMAIN stack = 1 .. Len(stack)
      /\ DOMAIN Below = 1 .. Len(stack) - 1 /\ Len(Below) = Len(stack) - 1
      /\ \A i \in 1 .. Len(stack) - 1 : Below[i] = stack[i]
  BY TopAndBelow
<1> DEFINE T == S \cup {fr}
<1>3. stack' \in Seq(T) /\ stack' = Append(Below, fr) /\ Below \in Seq(T)
  BY <1>1 DEF Resume
<1>4. \A g \in T : IsFrame(g)
  BY <1>1
<1>5. IsStack'
  BY <1>3, <1>4 DEF IsStack, IsFrame
<1> HIDE DEF T
<1>6. Len(stack') = Len(stack) /\ DOMAIN stack' = 1 .. Len(stack) /\ stack' # <<>>
  <2>1. Len(stack') = Len(Below) + 1 /\ stack' # <<>>
    BY <1>3, AppendProperties
  <2>2. stack' \in Seq(T)
    BY <1>3
  <2> QED
    BY <1>2, <2>1, <2>2
<1>7. stack'[Len(stack)] = fr /\ \A i \in 1 .. Len(stack) - 1 : stack'[i] = stack[i]
  BY <1>2, <1>3
<1> QED
  BY <1>2, <1>5, <1>6, <1>7

LEMMA Single ==
  ASSUME NEW fr, IsFrame(fr), stack' = <<fr>>
  PROVE  IsStack' /\ stack' # <<>> /\ DOMAIN stack' = {1} /\ stack'[1] = fr
<1> DEFINE T == {fr}
<1>1. stack' \in Seq(T) /\ \A g \in T : IsFrame(g)
  OBVIOUS
<1> HIDE DEF T
<1>2. IsStack'
  BY <1>1 DEF IsStack, IsFrame
<1> QED
  BY <1>2

LEMMA Emptied ==
  ASSUME stack' = <<>> PROVE IsStack' /\ DOMAIN stack' = {}
<1>1. stack' \in Seq({}) /\ \A g \in {} : IsFrame(g)
  OBVIOUS
<1>2. IsStack'
  BY <1>1 DEF IsStack, IsFrame
<1> QED
  BY <1>2

LEMMA Frames == \A op, id, todo : /\ IsFrame(Frame(op, id, todo))
                                  /\ Frame(op, id, todo).op = op
                                  /\ Frame(op, id, todo).id = id
                                  /\ Frame(op, id, todo).todo = todo
                                  /\ Frame(op, id, todo).got = <<>>
BY DEF IsFrame, Frame

LEMMA FramesGoOn ==
  ASSUME IsStack, stack # <<>>, NEW got, stack' = GoOn(got)
  PROVE  /\ IsStack' /\ stack' # <<>> /\ Len(stack) \in Nat /\ Len(stack) >= 1
         /\ DOMAIN stack' = DOMAIN stack /\ DOMAIN stack = 1 .. Len(stack)
         /\ stack'[Len(stack)].op = Top.op /\ stack'[Len(stack)].id = Top.id
         /\ stack'[Len(stack)].todo = Tail(Top.todo)
         /\ \A i \in 1 .. Len(stack) - 1 : stack'[i] = stack[i]
<1> DEFINE fr == [op |-> Top.op, id |-> Top.id, todo |-> Tail(Top.todo), got |-> got]
<1>1. IsFrame(fr) /\ fr.op = Top.op /\ fr.id = Top.id /\ fr.todo = Tail(Top.todo)
  BY DEF IsFrame
<1>2. stack' = Resume(fr)
  BY DEF GoOn
<1> HIDE DEF fr
<1> QED
  BY <1>1, <1>2, Resumed

(* A module has no other name than its file.                               *)
LEMMA Modules ==
  /\ \A file : Kind(Module(file)) = "module" /\ Module(file)[1] = file
  /\ \A f, g : Module(f) = Module(g) => f = g
BY DEF Kind, Def, Module

(* What a definition is does not change while the trees do not.            *)
LEMMA KindStays ==
  ASSUME UNCHANGED trees
  PROVE  \A id : Def(id)' = Def(id) /\ Kind(id)' = Kind(id)
<1>1. ASSUME NEW id PROVE Def(id)' = Def(id)
  BY DEF trees, Def, Source, Entries, Both, FunctionEntry, ResultFields, Successes
<1> QED
  BY <1>1 DEF Kind

(* Thrown out of all calls.                                                *)
LEMMA ThrowKeeps ==
  ASSUME NEW how \in {"duplicate", "failed", "overflow"}, Throw(how)
  PROVE  StackInv'
<1>1. stack' = <<>> /\ phase' = how
  BY DEF Throw
<1>2. IsStack' /\ DOMAIN stack' = {}
  BY <1>1, Emptied
<1> QED
  BY <1>1, <1>2 DEF StackInv, Running, EntersOnce, Busy
-----------------------------------------------------------------------------
(* No model is entered twice, but a typedef: one step after the other.     *)
LEMMA StackInitially == Init => StackInv
<1> SUFFICES ASSUME Init PROVE StackInv
  OBVIOUS
<1> DEFINE fr == Frame("compile", Module(Entry), Source(Entry))
<1>1. IsFrame(fr) /\ fr.op = "compile" /\ fr.id = Module(Entry) /\ stack = <<fr>>
  BY Frames DEF Init
<1> HIDE DEF fr
<1>2. IsStack
  <2> DEFINE T == {fr}
  <2>1. stack \in Seq(T) /\ \A g \in T : IsFrame(g)
    BY <1>1
  <2> HIDE DEF T
  <2> QED
    BY <2>1 DEF IsStack
<1>3. DOMAIN stack = {1} /\ stack[1] = fr /\ stack # <<>>
  BY <1>1
<1>4. phase = "compile" /\ Entry \in memo
  BY DEF Init
<1> QED
  BY <1>1, <1>2, <1>3, <1>4 DEF StackInv, Running, Busy, Compiles, EntersOnce

LEMMA CompileIncludeKeeps ==
  ASSUME StackInv, CompileInclude PROVE StackInv'
<1> DEFINE file == Head(Top.todo).file
<1>1. /\ phase = "compile" /\ phase' = phase /\ file \notin memo
      /\ memo' = memo \cup {file} /\ UNCHANGED trees
      /\ stack' = Append(stack, Frame("compile", Module(file), Source(file)))
  BY DEF CompileInclude, Compiling, Includes
<1> HIDE DEF file
<1>2. /\ IsStack' /\ stack' # <<>> /\ Len(stack) \in Nat
      /\ DOMAIN stack = 1 .. Len(stack) /\ DOMAIN stack' = 1 .. Len(stack) + 1
      /\ stack'[Len(stack) + 1].op = "compile" /\ stack'[Len(stack) + 1].id = Module(file)
      /\ \A i \in 1 .. Len(stack) : stack'[i] = stack[i]
  BY <1>1, Pushed, Frames DEF StackInv
<1>3. Running'
  <2>1. \A i \in 1 .. Len(stack) : Compiles(stack[i])
    BY <1>1, <1>2 DEF StackInv, Running
  <2>2. ASSUME NEW i \in DOMAIN stack' PROVE Compiles(stack[i])'
    BY <1>1, <1>2, <2>1 DEF Compiles
  <2> QED
    BY <1>1, <1>2, <2>2 DEF Running, Busy
<1>4. EntersOnce'
  <2>1. \A i \in 1 .. Len(stack) : stack[i].id # Module(file)
    BY <1>1, <1>2, Modules DEF StackInv, Running, Compiles
  <2>2. ASSUME NEW i \in DOMAIN stack', NEW j \in DOMAIN stack', i # j,
               stack'[i].id = stack'[j].id
        PROVE  (Kind(stack[i].id) = "typedef")'
    <3>1. i \in 1 .. Len(stack) /\ j \in 1 .. Len(stack)
      BY <1>2, <2>1, <2>2
    <3>2. Kind(stack[i].id) = "typedef"
      BY <3>1, <2>2, <1>2 DEF StackInv, EntersOnce
    <3> QED
      BY <3>1, <3>2, <1>1, <1>2, KindStays
  <2> QED
    BY <2>2 DEF EntersOnce
<1> QED
  BY <1>2, <1>3, <1>4 DEF StackInv

LEMMA CompileDefinitionKeeps ==
  ASSUME StackInv, CompileDefinition PROVE StackInv'
<1>1. phase = "compile" /\ (Throw("duplicate") \/ (stack' = GoOn(Top.got)
         /\ UNCHANGED <<program, phase, memo, linked>>))
  BY DEF CompileDefinition, Compiling
<1>2. CASE Throw("duplicate")
  BY <1>2, ThrowKeeps
<1>3. CASE stack' = GoOn(Top.got) /\ UNCHANGED <<program, phase, memo, linked>>
  <2>1. /\ IsStack' /\ stack' # <<>> /\ Len(stack) \in Nat /\ Len(stack) >= 1
        /\ DOMAIN stack' = DOMAIN stack /\ DOMAIN stack = 1 .. Len(stack)
        /\ \A i \in DOMAIN stack : stack'[i].op = stack[i].op /\ stack'[i].id = stack[i].id
    BY <1>1, <1>3, FramesGoOn, TopAndBelow DEF StackInv, Running, Busy
  <2>2. \A i \in DOMAIN stack : Compiles(stack[i])
    BY <1>1 DEF StackInv, Running
  <2>3. Running'
    BY <1>1, <1>3, <2>1, <2>2 DEF Running, Busy, Compiles
  <2>4. \A i, j \in DOMAIN stack : i # j => stack[i].id # stack[j].id
    BY <2>2, Modules DEF StackInv, EntersOnce, Compiles
  <2> QED
    BY <2>1, <2>3, <2>4 DEF StackInv, EntersOnce
<1> QED
  BY <1>1, <1>2, <1>3

LEMMA CompileReturnsKeeps ==
  ASSUME StackInv, CompileReturns PROVE StackInv'
<1>1. phase = "compile" /\ UNCHANGED <<trees, memo>>
  BY DEF CompileReturns, Compiling
<1>2. CASE Below # <<>> /\ stack' = Below /\ UNCHANGED <<phase, linked>>
  <2>1. /\ IsStack' /\ Len(stack) \in Nat /\ Len(stack) >= 1 /\ stack' # <<>>
        /\ DOMAIN stack' = 1 .. Len(stack) - 1 /\ DOMAIN stack = 1 .. Len(stack)
        /\ \A i \in 1 .. Len(stack) - 1 : stack'[i] = stack[i]
    BY <1>1, <1>2, Popped DEF StackInv, Running, Busy
  <2>2. Running'
    BY <1>1, <1>2, <2>1 DEF StackInv, Running, Busy, Compiles
  <2>3. EntersOnce'
    BY <1>1, <2>1, KindStays DEF StackInv, EntersOnce
  <2> QED
    BY <2>1, <2>2, <2>3 DEF StackInv
<1>3. CASE /\ phase' = "link" /\ linked' = {Module(Entry)}
           /\ stack' = <<Frame("link", Module(Entry), Names(Entry))>>
  <2>1. IsStack' /\ stack' # <<>> /\ DOMAIN stack' = {1}
            /\ stack'[1].op = "link" /\ stack'[1].id = Module(Entry)
    BY <1>3, Single, Frames
  <2>2. Links(stack[1])'
    BY <1>3, <2>1 DEF Links
  <2>3. Running'
    BY <1>3, <2>1, <2>2 DEF Running, Busy
  <2> QED
    BY <2>1, <2>3 DEF StackInv, EntersOnce
<1> QED
  BY <1>2, <1>3 DEF CompileReturns

LEMMA CallLinkKeeps ==
  ASSUME StackInv, CallLink PROVE StackInv'
<1>1. phase = "link"
  BY DEF CallLink, Calling, Linking
<1>2. CASE Throw("failed") \/ Throw("overflow")
  BY <1>2, ThrowKeeps
<1>3. CASE \E target : /\ ~ReturnsAtOnce(target) /\ linked' = Entered(target)
                       /\ stack' = Append(stack, Frame("link", target, Todo(target)))
                       /\ UNCHANGED <<trees, phase, memo, models, value, functions, consts>>
  <2>1. PICK target : /\ ~ReturnsAtOnce(target) /\ linked' = Entered(target)
                      /\ stack' = Append(stack, Frame("link", target, Todo(target)))
                      /\ UNCHANGED <<trees, phase, memo>>
    BY <1>3
  <2>2. /\ IsStack' /\ stack' # <<>> /\ Len(stack) \in Nat
        /\ DOMAIN stack = 1 .. Len(stack) /\ DOMAIN stack' = 1 .. Len(stack) + 1
        /\ stack'[Len(stack) + 1].op = "link" /\ stack'[Len(stack) + 1].id = target
        /\ \A i \in 1 .. Len(stack) : stack'[i] = stack[i]
    BY <2>1, Pushed, Frames DEF StackInv
  <2>3. \A id : Kind(id)' = Kind(id)
    BY <2>1, KindStays
  <2>4. linked \subseteq linked' /\ (Kind(target) # "typedef" => target \in linked')
    BY <2>1 DEF Entered
  <2>5. \A i \in 1 .. Len(stack) : Links(stack[i])
    BY <1>1, <2>2 DEF StackInv, Running
  <2>6. ASSUME NEW i \in DOMAIN stack' PROVE Links(stack[i])'
    <3>1. CASE i \in 1 .. Len(stack)
      BY <3>1, <2>2, <2>3, <2>4, <2>5 DEF Links
    <3>2. CASE i = Len(stack) + 1
      BY <3>2, <2>2, <2>3, <2>4 DEF Links
    <3> QED
      BY <3>1, <3>2, <2>2
  <2>7. Running'
    BY <1>1, <2>1, <2>2, <2>6 DEF Running, Busy
  <2>8. \A i \in 1 .. Len(stack) : stack[i].id = target => Kind(target) = "typedef"
    BY <2>1, <2>5 DEF Links, ReturnsAtOnce
  <2>9. ASSUME NEW i \in DOMAIN stack', NEW j \in DOMAIN stack', i # j,
               stack'[i].id = stack'[j].id
        PROVE  Kind(stack'[i].id) = "typedef"
    <3>1. CASE i \in 1 .. Len(stack) /\ j \in 1 .. Len(stack)
      BY <3>1, <2>9, <2>2 DEF StackInv, EntersOnce
    <3>2. CASE i = Len(stack) + 1 \/ j = Len(stack) + 1
      BY <3>2, <2>9, <2>2, <2>8
    <3> QED
      BY <3>1, <3>2, <2>2
  <2>10. EntersOnce'
    BY <2>3, <2>9 DEF EntersOnce
  <2> QED
    BY <2>2, <2>7, <2>10 DEF StackInv
<1> QED
  BY <1>2, <1>3 DEF CallLink

(* A step of link that keeps all frames, perhaps with less to do.          *)
LEMMA GoingOnKeeps ==
  ASSUME StackInv, phase = "link", UNCHANGED <<trees, phase, linked>>, IsStack',
         stack' # <<>>, DOMAIN stack' = DOMAIN stack,
         \A i \in DOMAIN stack : /\ stack'[i].id = stack[i].id
                                 /\ stack'[i].op \in {stack[i].op, "functions"}
  PROVE  StackInv'
<1>1. \A id : Kind(id)' = Kind(id)
  BY KindStays
<1>2. \A i \in DOMAIN stack : Links(stack[i])
  BY DEF StackInv, Running
<1>3. Running'
  BY <1>1, <1>2 DEF Running, Busy, Links
<1>4. EntersOnce'
  BY <1>1 DEF StackInv, EntersOnce
<1> QED
  BY <1>3, <1>4 DEF StackInv

LEMMA GoOnKeeps ==
  ASSUME StackInv, ResolveNothing \/ LinkReturns \/ CheckFields PROVE StackInv'
<1>1. /\ phase = "link" /\ stack # <<>> /\ IsStack
      /\ Throw("failed") \/ \E got : stack' = GoOn(got) /\ UNCHANGED <<trees, phase, linked>>
  BY DEF ResolveNothing, LinkReturns, CheckFields, Calling, Linking, StackInv, Running, Busy
<1>2. CASE Throw("failed")
  BY <1>2, ThrowKeeps
<1>3. ASSUME NEW got, stack' = GoOn(got), UNCHANGED <<trees, phase, linked>>
      PROVE  StackInv'
  <2>1. /\ IsStack' /\ stack' # <<>> /\ DOMAIN stack' = DOMAIN stack
        /\ \A i \in DOMAIN stack : /\ stack'[i].id = stack[i].id
                                   /\ stack'[i].op = stack[i].op
    BY <1>1, <1>3, FramesGoOn, TopAndBelow
  <2> QED
    BY <1>1, <1>3, <2>1, GoingOnKeeps
<1> QED
  BY <1>1, <1>2, <1>3

LEMMA InheritKeeps ==
  ASSUME StackInv, Inherit PROVE StackInv'
<1>1. phase = "link" /\ stack # <<>> /\ IsStack
  BY DEF Inherit, Linking, StackInv, Running, Busy
<1>2. CASE Throw("failed")
  BY <1>2, ThrowKeeps
<1>3. CASE \E todo : stack' = Resume(Frame("functions", Top.id, todo))
                        /\ UNCHANGED <<trees, phase, linked>>
  <2>1. PICK todo : stack' = Resume(Frame("functions", Top.id, todo))
                        /\ UNCHANGED <<trees, phase, linked>>
    BY <1>3
  <2>2. /\ IsStack' /\ stack' # <<>> /\ DOMAIN stack' = DOMAIN stack
        /\ \A i \in DOMAIN stack : /\ stack'[i].id = stack[i].id
                                   /\ stack'[i].op \in {stack[i].op, "functions"}
    BY <1>1, <2>1, Resumed, Frames, TopAndBelow
  <2> QED
    BY <1>1, <2>1, <2>2, GoingOnKeeps
<1> QED
  BY <1>2, <1>3 DEF Inherit

LEMMA FinishKeeps ==
  ASSUME StackInv, Finish PROVE StackInv'
<1>1. /\ phase = "link" /\ stack' = Below /\ UNCHANGED <<trees, linked>>
      /\ phase' = IF Below = <<>> THEN "done" ELSE phase
  BY DEF Finish, Linking
<1>2. /\ IsStack' /\ Len(stack) \in Nat /\ Len(stack) >= 1
      /\ DOMAIN stack' = 1 .. Len(stack) - 1 /\ DOMAIN stack = 1 .. Len(stack)
      /\ \A i \in 1 .. Len(stack) - 1 : stack'[i] = stack[i]
  BY <1>1, Popped DEF StackInv, Running, Busy
<1>3. \A id : Kind(id)' = Kind(id)
  BY <1>1, KindStays
<1>4. \A i \in DOMAIN stack : Links(stack[i])
  BY <1>1 DEF StackInv, Running
<1>5. \A i \in DOMAIN stack' : Links(stack[i])'
  BY <1>1, <1>2, <1>3, <1>4 DEF Links
<1>6. Running'
  BY <1>1, <1>5 DEF Running, Busy
<1>7. EntersOnce'
  BY <1>2, <1>3 DEF StackInv, EntersOnce
<1> QED
  BY <1>2, <1>6, <1>7 DEF StackInv

LEMMA MakeAgainKeeps ==
  ASSUME StackInv, MakeAgain PROVE StackInv'
<1>1. /\ phase' = "compile" /\ memo' = {Entry}
      /\ stack' = <<Frame("compile", Module(Entry), Source(Entry))>>
  BY DEF MakeAgain
<1>2. IsStack' /\ stack' # <<>> /\ DOMAIN stack' = {1}
          /\ stack'[1].op = "compile" /\ stack'[1].id = Module(Entry)
  BY <1>1, Single, Frames
<1>3. Running'
  BY <1>1, <1>2 DEF Running, Busy, Compiles
<1> QED
  BY <1>2, <1>3 DEF StackInv, EntersOnce

LEMMA StackInvariant == Spec => []StackInv
<1>1. ASSUME StackInv, [Next]_vars PROVE StackInv'
  <2>1. CASE CompileInclude
    BY <1>1, <2>1, CompileIncludeKeeps
  <2>2. CASE CompileDefinition
    BY <1>1, <2>2, CompileDefinitionKeeps
  <2>3. CASE CompileReturns
    BY <1>1, <2>3, CompileReturnsKeeps
  <2>4. CASE CallLink
    BY <1>1, <2>4, CallLinkKeeps
  <2>5. CASE ResolveNothing \/ LinkReturns \/ CheckFields
    BY <1>1, <2>5, GoOnKeeps
  <2>6. CASE Inherit
    BY <1>1, <2>6, InheritKeeps
  <2>7. CASE Finish
    BY <1>1, <2>7, FinishKeeps
  <2>8. CASE MakeAgain
    BY <1>1, <2>8, MakeAgainKeeps
  <2>9. CASE UNCHANGED vars
    <3>1. \A id : Kind(id)' = Kind(id)
      BY <2>9, KindStays DEF vars, trees
    <3>2. IsStack'
      BY <1>1, <2>9 DEF StackInv, IsStack, IsFrame, vars
    <3>3. Running'
      BY <1>1, <2>9, <3>1 DEF StackInv, Running, Compiles, Links, vars
    <3>4. EntersOnce'
      BY <1>1, <2>9, <3>1 DEF StackInv, EntersOnce, vars
    <3> QED
      BY <3>2, <3>3, <3>4 DEF StackInv
  <2> QED
    BY <1>1, <2>1, <2>2, <2>3, <2>4, <2>5, <2>6, <2>7, <2>8, <2>9 DEF Next
<1> QED
  BY <1>1, StackInitially, PTL DEF Spec

(* No module is compiled and no model but a typedef is linked inside its   *)
(* own compile or link, whatever the program.                              *)
THEOREM EntersNoneTwice == Spec => []EntersOnce
<1>1. StackInv => EntersOnce
  BY DEF StackInv
<1> QED
  BY <1>1, StackInvariant, PTL
-----------------------------------------------------------------------------
(* The paths a definition takes, in order, as the program has them.        *)
Size(def) == CASE def.kind = "enum" -> Len(def.members) + 1
               [] def.kind = "service" -> 2 * Len(def.functions) + 1
               [] OTHER -> 1
PathAt(def, k) ==
    CASE k = Size(def) -> <<def.name>>
      [] k # Size(def) /\ def.kind = "enum" -> <<def.name, def.members[k]>>
      [] k # Size(def) /\ def.kind # "enum" ->
            StructOf(FunctionPath(def.name, def.functions[(k + 1) \div 2].name),
                     Structs[2 - (k % 2)])

Defs(file) == DOMAIN Source(file)
Is(file, m, kind) == Source(file)[m].kind = kind
FunctionsOf(file, m) == Source(file)[m].functions

(* What Linker assumes of a program, of the definition with a number.      *)
LEMMA Programmed ==
  ASSUME program \in Programs, NEW file \in DOMAIN program.files
  PROVE  /\ Len(Source(file)) \in Nat /\ Defs(file) = 1 .. Len(Source(file))
         /\ Listed(Source(file))
         /\ \A m \in Defs(file) : WellFormed(Source(file)[m], program.files)
<1> DEFINE own == program.files[file]
           S == Range(own) \cup Range(Builtins)
<1>1. Listed(own) /\ Listed(Builtins) /\ \A def \in S : WellFormed(def, program.files)
  BY ProgramsAssumption
<1> HIDE DEF S
<1>2. own \in Seq(S) /\ Builtins \in Seq(S)
  <2>1. own \in Seq(Range(own)) /\ Builtins \in Seq(Range(Builtins))
    BY <1>1 DEF Listed
  <2>2. Range(own) \subseteq S /\ Range(Builtins) \subseteq S
    BY DEF S
  <2> HIDE DEF own
  <2> QED
    BY <2>1, <2>2
<1>3. Source(file) \in Seq(S)
  BY <1>2 DEF Source
<1>4. Len(Source(file)) \in Nat /\ DOMAIN Source(file) = 1 .. Len(Source(file))
  BY <1>3
<1>5. \A m \in 1 .. Len(Source(file)) : Source(file)[m] \in S
  BY <1>3, ElementOfSeq
<1>6. Listed(Source(file))
  <2> DEFINE source == Source(file)
  <2>1. source \in Seq(S) /\ \A m \in 1 .. Len(source) : source[m] \in Range(source)
    BY <1>3, <1>4 DEF Range
  <2> HIDE DEF source
  <2>2. source \in Seq(Range(source))
    BY <2>1
  <2> QED
    BY <2>2 DEF Listed, source
<1> QED
  BY <1>1, <1>4, <1>5, <1>6 DEF Defs

LEMMA Sizes ==
  ASSUME NEW def, NEW files, WellFormed(def, files)
  PROVE  /\ Size(def) \in Nat \ {0}
         /\ def.kind = "enum" => Len(def.members) \in Nat
         /\ def.kind = "service" =>
               /\ Len(def.functions) \in Nat
               /\ DOMAIN def.functions = 1 .. Len(def.functions)
<1>1. \A seq : Listed(seq) => Len(seq) \in Nat /\ DOMAIN seq = 1 .. Len(seq)
  BY DEF Listed
<1> QED
  BY <1>1 DEF Size, WellFormed

LEMMA EntriesHavePaths ==
  ASSUME NEW file, NEW def, NEW files, WellFormed(def, files)
  PROVE  /\ Len(Entries(file, def)) = Size(def)
         /\ DOMAIN Entries(file, def) = 1 .. Size(def)
         /\ \A k \in 1 .. Size(def) : Entries(file, def)[k].path = PathAt(def, k)
         /\ Entries(file, def)[Size(def)].def = def
<1>0. /\ def.kind = "enum" => Len(def.members) \in Nat
      /\ def.kind = "service" => Len(def.functions) \in Nat
  BY Sizes
<1> DEFINE own == Defines(<<def.name>>, def)
<1>o. own.path = <<def.name>> /\ own.def = def
  BY DEF Defines
<1> HIDE DEF own
<1>1. CASE def.kind = "enum"
  <2> DEFINE n == Len(def.members)
             first == [i \in 1 .. n |-> Member(def, def.members[i])]
  <2>1. Entries(file, def) = first \o <<own>> /\ Size(def) = n + 1 /\ n \in Nat
    BY <1>1, <1>0 DEF Entries, Size, own
  <2>2. \A i \in 1 .. n : first[i].path = <<def.name, def.members[i]>>
    BY DEF Member, Defines
  <2>3. \A k \in 1 .. n : PathAt(def, k) = <<def.name, def.members[k]>>
    BY <1>1, <2>1 DEF PathAt
  <2>4. PathAt(def, n + 1) = <<def.name>>
    BY <2>1 DEF PathAt
  <2>5. first \in Seq(Range(first)) /\ Len(first) = n
    BY <2>1 DEF Range
  <2> HIDE DEF first, n
  <2>6. /\ Len(first \o <<own>>) = n + 1 /\ DOMAIN (first \o <<own>>) = 1 .. n + 1
        /\ (first \o <<own>>)[n + 1] = own
        /\ \A k \in 1 .. n : (first \o <<own>>)[k] = first[k]
    BY <2>5, <2>1
  <2>7. \A k \in 1 .. n : first[k].path = PathAt(def, k)
    BY <2>2, <2>3
  <2>8. \A k \in 1 .. n + 1 : Entries(file, def)[k].path = PathAt(def, k)
    BY <1>o, <2>1, <2>4, <2>6, <2>7
  <2> QED
    BY <1>o, <2>1, <2>6, <2>8
<1>2. CASE def.kind = "service"
  <2> DEFINE n == Len(def.functions)
             at(k) == FunctionEntry(file, def.name, def.functions[(k + 1) \div 2],
                                    Structs[2 - (k % 2)])
             first == [k \in 1 .. 2 * n |-> at(k)]
  <2>1. Entries(file, def) = first \o <<own>> /\ Size(def) = 2 * n + 1 /\ n \in Nat
    BY <1>2, <1>0 DEF Entries, Both, Size, own
  <2>2. \A k \in 1 .. 2 * n : first[k].path = PathAt(def, k)
    <3>1. \A k : at(k).path = StructOf(FunctionPath(def.name, def.functions[(k + 1) \div 2].name),
                                       Structs[2 - (k % 2)])
      BY DEF FunctionEntry, Defines
    <3>2. \A k \in 1 .. 2 * n : k # Size(def) /\ first[k] = at(k)
      BY <2>1
    <3> HIDE DEF at, first
    <3> QED
      BY <1>2, <3>1, <3>2 DEF PathAt
  <2>4. PathAt(def, 2 * n + 1) = <<def.name>>
    BY <2>1 DEF PathAt
  <2> HIDE DEF at
  <2>5. first \in Seq(Range(first)) /\ Len(first) = 2 * n
    <3>1. 2 * n \in Nat /\ DOMAIN first = 1 .. 2 * n
      BY <2>1
    <3>2. \A k \in 1 .. 2 * n : first[k] \in Range(first)
      BY <3>1 DEF Range
    <3>3. first = [k \in 1 .. 2 * n |-> first[k]]
      OBVIOUS
    <3> HIDE DEF first
    <3> QED
      BY <3>1, <3>2, <3>3
  <2> HIDE DEF first, n
  <2>6. /\ Len(first \o <<own>>) = 2 * n + 1 /\ DOMAIN (first \o <<own>>) = 1 .. 2 * n + 1
        /\ (first \o <<own>>)[2 * n + 1] = own
        /\ \A k \in 1 .. 2 * n : (first \o <<own>>)[k] = first[k]
    BY <2>5, <2>1
  <2> QED
    BY <1>o, <2>1, <2>2, <2>4, <2>6
<1>3. CASE def.kind \notin {"enum", "service"}
  <2>1. Entries(file, def) = <<own>> /\ Size(def) = 1
    BY <1>3 DEF Entries, Size, own
  <2>2. PathAt(def, 1) = <<def.name>>
    BY <2>1 DEF PathAt
  <2> QED
    BY <1>o, <2>1, <2>2
<1> QED
  BY <1>1, <1>2, <1>3

(* A sequence of n elements names n things if no two of it are alike, and  *)
(* fewer if two are.                                                       *)
LEMMA Alike ==
  ASSUME NEW n \in Nat, NEW f, DOMAIN f = 1 .. n
  PROVE  /\ Cardinality(Range(f)) \in Nat /\ Cardinality(Range(f)) <= n
         /\ Cardinality(Range(f)) = n <=> \A k, l \in 1 .. n : f[k] = f[l] => k = l
<1> DEFINE g == [k \in 1 .. n |-> f[k]]
<1>1. IsFiniteSet(1 .. n) /\ Cardinality(1 .. n) = n
  BY FS_Interval
<1>2. g \in Surjection(1 .. n, Range(f))
  BY DEF Surjection, Range
<1>3. /\ IsFiniteSet(Range(f)) /\ Cardinality(Range(f)) <= n
      /\ Cardinality(Range(f)) = n <=> g \in Injection(1 .. n, Range(f))
  BY <1>1, <1>2, FS_Surjection
<1>4. g \in Injection(1 .. n, Range(f)) <=> \A k, l \in 1 .. n : f[k] = f[l] => k = l
  BY <1>2 DEF Injection, IsInjective, Surjection
<1> QED
  BY <1>3, <1>4, FS_CardinalityType
-----------------------------------------------------------------------------
(* No two definitions of a file, and no two parts of one, have one path.   *)
Distinct(file) ==
    \A m, l \in Defs(file) :
        \A k \in 1 .. Size(Source(file)[m]), h \in 1 .. Size(Source(file)[l]) :
            PathAt(Source(file)[m], k) = PathAt(Source(file)[l], h) => m = l /\ k = h

PathSet(def) == {PathAt(def, k) : k \in 1 .. Size(def)}

LEMMA PathsAreThose ==
  ASSUME NEW file, NEW def, NEW files, WellFormed(def, files)
  PROVE  /\ PathsOf(file, def) = PathSet(def)
         /\ LET entries == Entries(file, def)
                paths == [i \in DOMAIN entries |-> entries[i].path]
            IN  Range(paths) = PathSet(def) /\ Len(paths) = Size(def)
                    /\ DOMAIN paths = 1 .. Size(def)
                    /\ \A i \in DOMAIN paths : paths[i] = PathAt(def, i)
         /\ Cardinality(PathSet(def)) \in Nat /\ Cardinality(PathSet(def)) <= Size(def)
         /\ Cardinality(PathSet(def)) = Size(def) <=>
                \A k, l \in 1 .. Size(def) : PathAt(def, k) = PathAt(def, l) => k = l
<1> DEFINE entries == Entries(file, def)
           n == Size(def)
<1>1. /\ n \in Nat /\ DOMAIN entries = 1 .. n
      /\ \A k \in 1 .. n : entries[k].path = PathAt(def, k)
  BY Sizes, EntriesHavePaths
<1> HIDE DEF entries, n
<1>2. {e.path : e \in Range(entries)} = {PathAt(def, k) : k \in 1 .. n}
  BY <1>1 DEF Range
<1> DEFINE paths == [i \in DOMAIN entries |-> entries[i].path]
<1>3. /\ DOMAIN paths = 1 .. n
      /\ \A k \in 1 .. n : paths[k] = PathAt(def, k)
  BY <1>1
<1>4. Len(paths) = n
  BY <1>1
<1> HIDE DEF paths
<1>5. Range(paths) = {PathAt(def, k) : k \in 1 .. n}
  BY <1>3 DEF Range
<1>6. /\ Cardinality(Range(paths)) \in Nat /\ Cardinality(Range(paths)) <= n
      /\ Cardinality(Range(paths)) = n <=>
            \A k, l \in 1 .. n : paths[k] = paths[l] => k = l
  BY <1>1, <1>3, Alike
<1> QED
  <2>1. PathSet(def) = {PathAt(def, k) : k \in 1 .. n}
    BY DEF PathSet, n
  <2>2. PathsOf(file, def) = PathSet(def)
    BY <1>2, <2>1 DEF PathsOf, entries
  <2>3. Range(paths) = PathSet(def)
    BY <1>5, <2>1
  <2>4. \A k, l \in 1 .. n : (paths[k] = paths[l]) <=> (PathAt(def, k) = PathAt(def, l))
    BY <1>3
  <2>5. Cardinality(PathSet(def)) = n <=>
            \A k, l \in 1 .. n : PathAt(def, k) = PathAt(def, l) => k = l
    BY <1>6, <2>3, <2>4
  <2>6. Cardinality(PathSet(def)) \in Nat /\ Cardinality(PathSet(def)) <= n
    BY <1>6, <2>3
  <2>7. LET list == [i \in DOMAIN entries |-> entries[i].path]
        IN  Range(list) = PathSet(def) /\ Len(list) = n
                /\ DOMAIN list = 1 .. n /\ \A i \in DOMAIN list : list[i] = PathAt(def, i)
    BY <1>3, <1>4, <2>3 DEF paths
  <2> QED
    BY <2>2, <2>5, <2>6, <2>7 DEF entries, n

LEMMA NoDuplicatesIs ==
  ASSUME program \in Programs, memo \subseteq DOMAIN program.files
  PROVE  NoDuplicates <=> \A file \in memo : Distinct(file)
<1> DEFINE Separate(file) ==
        \A m, l \in Defs(file) :
            /\ (m # l) => (PathSet(Source(file)[m]) \cap PathSet(Source(file)[l]) = {})
            /\ Cardinality(PathSet(Source(file)[m])) = Size(Source(file)[m])
<1>1. ASSUME NEW file \in memo PROVE Separate(file) <=> Distinct(file)
  <2>1. \A m \in Defs(file) : WellFormed(Source(file)[m], program.files)
    BY Programmed
  <2>2. \A m \in Defs(file) :
            Cardinality(PathSet(Source(file)[m])) = Size(Source(file)[m]) <=>
                \A k, l \in 1 .. Size(Source(file)[m]) :
                    PathAt(Source(file)[m], k) = PathAt(Source(file)[m], l) => k = l
    BY <2>1, PathsAreThose
  <2>3. \A m, l \in Defs(file) :
            (PathSet(Source(file)[m]) \cap PathSet(Source(file)[l]) = {}) <=>
                \A k \in 1 .. Size(Source(file)[m]), h \in 1 .. Size(Source(file)[l]) :
                    PathAt(Source(file)[m], k) # PathAt(Source(file)[l], h)
    BY DEF PathSet
  <2>4. ASSUME Separate(file) PROVE Distinct(file)
    BY <2>2, <2>3, <2>4 DEF Distinct
  <2>5. ASSUME Distinct(file) PROVE Separate(file)
    BY <2>2, <2>3, <2>5 DEF Distinct
  <2> QED
    BY <2>4, <2>5
<1>2. NoDuplicates <=> \A file \in memo : Separate(file)
  <2>1. \A file \in memo : \A i \in Defs(file) :
            /\ PathsOf(file, Source(file)[i]) = PathSet(Source(file)[i])
            /\ Len(Entries(file, Source(file)[i])) = Size(Source(file)[i])
    BY Programmed, PathsAreThose, EntriesHavePaths
  <2>2. ASSUME NEW file \in memo
        PROVE  Separate(file) <=>
                \A i, j \in DOMAIN Source(file) :
                    /\ (i # j) => Apart(file, Source(file)[i], Source(file)[j])
                    /\ Cardinality(PathsOf(file, Source(file)[i]))
                            = Len(Entries(file, Source(file)[i]))
    BY <2>1 DEF Defs, Apart
  <2> HIDE DEF Separate
  <2> QED
    BY <2>2 DEF NoDuplicates
<1> QED
  BY <1>1, <1>2

(* Two definitions do not have one name, nor do two functions of a service.*)
LEMMA NamesDiffer ==
  ASSUME program \in Programs, NEW file \in DOMAIN program.files, Distinct(file),
         NEW m \in Defs(file), NEW l \in Defs(file),
         Source(file)[m].name = Source(file)[l].name
  PROVE  m = l
<1>1. WellFormed(Source(file)[m], program.files) /\ WellFormed(Source(file)[l], program.files)
  BY Programmed
<1>2. Size(Source(file)[m]) \in Nat \ {0} /\ Size(Source(file)[l]) \in Nat \ {0}
  BY <1>1, Sizes
<1>3. PathAt(Source(file)[m], Size(Source(file)[m]))
        = PathAt(Source(file)[l], Size(Source(file)[l]))
  BY DEF PathAt
<1> QED
  BY <1>2, <1>3 DEF Distinct

LEMMA FunctionPaths ==
  ASSUME NEW def, NEW files, WellFormed(def, files), def.kind = "service",
         NEW i \in 1 .. Len(def.functions)
  PROVE  /\ 2 * i \in 1 .. Size(def) /\ 2 * i # Size(def)
         /\ (2 * i + 1) \div 2 = i /\ 2 - ((2 * i) % 2) = 2
         /\ PathAt(def, 2 * i) =
                StructOf(FunctionPath(def.name, def.functions[i].name), "result")
<1>1. Len(def.functions) \in Nat /\ Size(def) = 2 * Len(def.functions) + 1
  BY Sizes DEF Size
<1>2. /\ 2 * i \in 1 .. Size(def) /\ 2 * i # Size(def)
      /\ (2 * i + 1) \div 2 = i /\ 2 - ((2 * i) % 2) = 2
  BY <1>1
<1>3. PathAt(def, 2 * i) = StructOf(FunctionPath(def.name, def.functions[i].name), Structs[2])
  BY <1>2 DEF PathAt
<1> QED
  BY <1>2, <1>3 DEF Structs

LEMMA FunctionsDiffer ==
  ASSUME program \in Programs, NEW file \in DOMAIN program.files, Distinct(file),
         NEW m \in Defs(file), Is(file, m, "service"),
         NEW f \in Range(FunctionsOf(file, m)), NEW g \in Range(FunctionsOf(file, m)),
         f.name = g.name
  PROVE  f = g
<1> DEFINE def == Source(file)[m]
<1>1. WellFormed(def, program.files) /\ def.kind = "service"
  BY Programmed DEF Is
<1>2. DOMAIN def.functions = 1 .. Len(def.functions)
  BY <1>1, Sizes
<1>3. PICK i \in 1 .. Len(def.functions), j \in 1 .. Len(def.functions) :
        f = def.functions[i] /\ g = def.functions[j]
  BY <1>2 DEF Range, FunctionsOf
<1>4. /\ 2 * i \in 1 .. Size(def) /\ 2 * j \in 1 .. Size(def)
      /\ PathAt(def, 2 * i) = PathAt(def, 2 * j)
  BY <1>1, <1>3, FunctionPaths
<1>5. 2 * i = 2 * j
  BY <1>4 DEF Distinct
<1> QED
  BY <1>3, <1>5
-----------------------------------------------------------------------------
(* The files the entry point reaches by includes.                          *)
Holds(S) == \A file \in S : \A m \in Defs(file) :
                Is(file, m, "include") => Source(file)[m].file \in S
Reached == {f \in DOMAIN program.files :
                \A S \in SUBSET DOMAIN program.files : Entry \in S /\ Holds(S) => f \in S}

LEMMA ReachedHolds ==
  ASSUME program \in Programs
  PROVE  /\ Entry \in Reached /\ Reached \subseteq DOMAIN program.files /\ Holds(Reached)
         /\ \A S \in SUBSET Reached : Entry \in S /\ Holds(S) => S = Reached
<1>1. Entry \in DOMAIN program.files
  BY ProgramsAssumption
<1>2. Reached \subseteq DOMAIN program.files /\ Entry \in Reached
  BY <1>1 DEF Reached
<1>3. ASSUME NEW file \in Reached, NEW m \in Defs(file), Is(file, m, "include")
      PROVE  Source(file)[m].file \in Reached
  <2>1. Source(file)[m].file \in DOMAIN program.files
    BY <1>2, <1>3, Programmed DEF WellFormed, Is
  <2>2. ASSUME NEW S \in SUBSET DOMAIN program.files, Entry \in S, Holds(S)
        PROVE  Source(file)[m].file \in S
    <3>1. file \in S
      BY <2>2 DEF Reached
    <3> QED
      BY <3>1, <2>2, <1>3 DEF Holds
  <2> QED
    BY <2>1, <2>2 DEF Reached
<1>4. ASSUME NEW S \in SUBSET Reached, Entry \in S, Holds(S) PROVE S = Reached
  <2>1. S \in SUBSET DOMAIN program.files
    BY <1>2
  <2> QED
    BY <1>4, <2>1 DEF Reached
<1> QED
  BY <1>2, <1>3, <1>4 DEF Holds
-----------------------------------------------------------------------------
(* What is left of a file, and which of its definitions are behind.        *)
IsRest(todo, file) ==
    /\ Len(todo) \in 0 .. Len(Source(file))
    /\ todo = SubSeq(Source(file), Len(Source(file)) - Len(todo) + 1, Len(Source(file)))
CompileOf(fr, file) == fr.op = "compile" /\ fr.id = Module(file)
Passed(file, m) ==
    /\ file \in memo
    /\ \A i \in DOMAIN stack :
          CompileOf(stack[i], file) => m <= Len(Source(file)) - Len(stack[i].todo)

Times(tree) == IF tree \in DOMAIN unshifted THEN unshifted[tree] ELSE 0
TreeOf(file, def, f) == ThrowsOf(file, FunctionPath(def.name, f.name))

Live == phase \in {"compile", "link", "done"}

Programs1 == /\ program \in Programs /\ made \in Nat \ {0}
             /\ DOMAIN models = DOMAIN program.files
             /\ Entry \in memo /\ memo \subseteq Reached
Rests == \A i \in DOMAIN stack : \A file \in memo :
            CompileOf(stack[i], file) => IsRest(stack[i].todo, file)
Modelled == \A file \in DOMAIN program.files :
                /\ Listed(models[file])
                /\ Paths(file) = UNION {PathSet(Source(file)[m]) :
                                          m \in {m \in Defs(file) : Passed(file, m)}}
Found == \A file \in memo : \A m \in Defs(file) :
            Passed(file, m) /\ Is(file, m, "include") => Source(file)[m].file \in memo
Unlike == \A file \in memo : \A m, l \in Defs(file) :
            Passed(file, m) /\ Passed(file, l) =>
                \A k \in 1 .. Size(Source(file)[m]), h \in 1 .. Size(Source(file)[l]) :
                    PathAt(Source(file)[m], k) = PathAt(Source(file)[l], h) => m = l /\ k = h
Counted == (\A file \in Reached : Distinct(file)) =>
    \A file \in Reached : \A m \in Defs(file) : Is(file, m, "service") =>
        \A f \in Range(FunctionsOf(file, m)) :
            Times(TreeOf(file, Source(file)[m], f)) =
                IF ~Unshifts(f) THEN 0 ELSE IF Passed(file, m) THEN made ELSE made - 1

CompileInv == /\ StackInv /\ Programs1 /\ Rests
              /\ (phase = "compile") => Modelled
              /\ Live => (Found /\ Unlike /\ Counted)
              /\ (phase = "duplicate") => \E file \in memo : ~Distinct(file)

(* What depends on the program alone stays.                                *)
LEMMA ProgramStays ==
  ASSUME program' = program
  PROVE  /\ \A file : Source(file)' = Source(file) /\ Defs(file)' = Defs(file)
         /\ \A file : \A m : \A kind : Is(file, m, kind)' = Is(file, m, kind)
         /\ \A file : \A m : FunctionsOf(file, m)' = FunctionsOf(file, m)
         /\ \A file : Distinct(file)' = Distinct(file)
         /\ Reached' = Reached
<1>1. \A file : Source(file)' = Source(file)
  BY DEF Source
<1>2. \A file : Defs(file)' = Defs(file)
  BY <1>1 DEF Defs
<1>3. \A file, m, kind : Is(file, m, kind)' = Is(file, m, kind)
  BY <1>1 DEF Is
<1>4. \A file, m : FunctionsOf(file, m)' = FunctionsOf(file, m)
  BY <1>1 DEF FunctionsOf
<1>5. \A file : Distinct(file)' = Distinct(file)
  BY <1>1, <1>2 DEF Distinct
<1>6. \A S : Holds(S)' = Holds(S)
  BY <1>1, <1>2, <1>3 DEF Holds
<1>7. Reached' = Reached
  BY <1>6 DEF Reached
<1> QED
  BY <1>1, <1>2, <1>3, <1>4, <1>5, <1>7

LEMMA DefinitionsStay ==
  ASSUME program' = program, Found, Unlike, memo' = memo,
         \A file \in memo : \A m \in Defs(file) : Passed(file, m)' => Passed(file, m)
  PROVE  Found' /\ Unlike'
<1>1. \A file : Source(file)' = Source(file) /\ Defs(file)' = Defs(file)
  BY ProgramStays
<1>2. \A file : \A m : \A kind : Is(file, m, kind)' = Is(file, m, kind)
  BY ProgramStays
<1>3. Found'
  BY <1>1, <1>2 DEF Found
<1>4. Unlike'
  BY <1>1 DEF Unlike
<1> QED
  BY <1>3, <1>4

LEMMA CountsStay ==
  ASSUME UNCHANGED trees, Counted,
         \A file \in Reached : \A m \in Defs(file) : Passed(file, m)' = Passed(file, m)
  PROVE  Counted'
<1>1. /\ \A file : Source(file)' = Source(file) /\ Defs(file)' = Defs(file)
      /\ \A file : \A m : FunctionsOf(file, m)' = FunctionsOf(file, m)
      /\ \A file : Distinct(file)' = Distinct(file)
      /\ Reached' = Reached
  BY ProgramStays DEF trees
<1>2. \A file : \A m : Is(file, m, "service")' = Is(file, m, "service")
  BY ProgramStays DEF trees
<1>3. \A tree : Times(tree)' = Times(tree)
  BY DEF Times, trees
<1>4. made' = made
  BY DEF trees
<1> QED
  BY <1>1, <1>2, <1>3, <1>4 DEF Counted

(* A file is compiled by one frame at most; of the file at the top it is   *)
(* known how far it is, and that the next definition is not behind.        *)
LEMMA AtTop ==
  ASSUME CompileInv, phase = "compile"
  PROVE  /\ IsStack /\ stack # <<>> /\ Len(stack) \in Nat /\ Len(stack) >= 1
         /\ DOMAIN stack = 1 .. Len(stack)
         /\ Top.op = "compile" /\ File \in memo /\ Top.id = Module(File)
         /\ memo \subseteq DOMAIN program.files /\ IsRest(Top.todo, File)
         /\ \A i \in 1 .. Len(stack) : stack[i].op = "compile"
         /\ \A i \in 1 .. Len(stack) - 1 : stack[i].id # Module(File)
         /\ \A m \in Defs(File) :
                Passed(File, m) <=> m <= Len(Source(File)) - Len(Top.todo)
<1>1. /\ IsStack /\ stack # <<>> /\ Len(stack) \in Nat /\ Len(stack) >= 1
      /\ DOMAIN stack = 1 .. Len(stack) /\ Top = stack[Len(stack)]
  BY TopAndBelow DEF CompileInv, StackInv, Running, Busy
<1>2. \A i \in DOMAIN stack : Compiles(stack[i])
  BY DEF CompileInv, StackInv, Running
<1>3. PICK file \in memo : Top.id = Module(file)
  BY <1>1, <1>2 DEF Compiles
<1>4. File = file /\ Top.op = "compile"
  BY <1>1, <1>2, <1>3, Modules DEF File, Compiles
<1>5. IsRest(Top.todo, File)
  BY <1>1, <1>3, <1>4 DEF CompileInv, Rests, CompileOf
<1>6. \A i \in 1 .. Len(stack) - 1 : stack[i].id # Module(File)
  BY <1>1, <1>3, <1>4, Modules DEF CompileInv, StackInv, EntersOnce
<1>7. \A i \in 1 .. Len(stack) : stack[i].op = "compile"
  BY <1>1, <1>2 DEF Compiles
<1>8. \A m \in Defs(File) : Passed(File, m) <=> m <= Len(Source(File)) - Len(Top.todo)
  <2>1. \A i \in DOMAIN stack : CompileOf(stack[i], File) <=> i = Len(stack)
    BY <1>1, <1>3, <1>4, <1>6 DEF CompileOf
  <2>2. Len(stack) \in DOMAIN stack /\ stack[Len(stack)] = Top /\ File \in memo
    BY <1>1, <1>3, <1>4
  <2> QED
    BY <2>1, <2>2 DEF Passed
<1>9. memo \subseteq DOMAIN program.files
  BY DEF CompileInv, Programs1, Reached
<1> QED
  BY <1>1, <1>3, <1>4, <1>5, <1>6, <1>7, <1>8, <1>9

(* The next definition of the file at the top.                             *)
LEMMA NextDefinition ==
  ASSUME CompileInv, phase = "compile", Top.todo # <<>>
  PROVE  LET n == Len(Source(File)) - Len(Top.todo) + 1
         IN  /\ n \in Defs(File) /\ Head(Top.todo) = Source(File)[n]
             /\ IsRest(Tail(Top.todo), File)
             /\ Len(Source(File)) - Len(Tail(Top.todo)) = n
             /\ \A m \in Defs(File) : Passed(File, m) <=> m < n
<1> DEFINE source == Source(File)
           todo == Top.todo
           n == Len(source) - Len(todo) + 1
<1>1. /\ IsRest(todo, File) /\ File \in DOMAIN program.files
      /\ \A m \in Defs(File) : Passed(File, m) <=> m <= Len(source) - Len(todo)
  BY AtTop
<1>2. Len(source) \in Nat /\ Defs(File) = 1 .. Len(source)
  BY <1>1, Programmed DEF CompileInv, Programs1
<1>3. source \in Seq(Range(source))
  BY <1>1, Programmed DEF CompileInv, Programs1, Listed
<1>4. Len(todo) \in 0 .. Len(source) /\ todo = SubSeq(source, n, Len(source))
  BY <1>1 DEF IsRest
<1> HIDE DEF source, todo
<1>5. Len(todo) # 0
  BY <1>2, <1>3, <1>4 DEF todo
<1>6. n \in 1 .. Len(source)
  BY <1>2, <1>4, <1>5
<1>7. Head(todo) = source[n]
  BY <1>2, <1>3, <1>4, <1>6
<1>8. Tail(todo) = SubSeq(source, n + 1, Len(source)) /\ Len(Tail(todo)) = Len(todo) - 1
  BY <1>2, <1>3, <1>4, <1>6
<1>9. Len(source) - Len(Tail(todo)) = n /\ Len(Tail(todo)) \in 0 .. Len(source)
  <2>1. Len(todo) \in Nat
    BY <1>2, <1>4
  <2> QED
    BY <1>2, <1>4, <1>5, <1>8, <2>1
<1>10. IsRest(Tail(todo), File)
  BY <1>2, <1>4, <1>8, <1>9 DEF IsRest, source
<1>11. \A m \in 1 .. Len(source) : m <= Len(source) - Len(todo) <=> m < n
  BY <1>2, <1>4
<1> QED
  BY <1>1, <1>2, <1>6, <1>7, <1>9, <1>10, <1>11 DEF source, todo

(* Once nothing compiles, all the files there are have been compiled.      *)
LEMMA AllPassed ==
  ASSUME StackInv, phase # "compile"
  PROVE  \A file, m : Passed(file, m) <=> file \in memo
BY DEF Passed, CompileOf, StackInv, Running, Links
-----------------------------------------------------------------------------
LEMMA CompileInvInitially == Init => CompileInv
<1> SUFFICES ASSUME Init PROVE CompileInv
  OBVIOUS
<1>1. /\ program \in Programs /\ made = 1 /\ phase = "compile" /\ memo = {Entry}
      /\ DOMAIN models = DOMAIN program.files
      /\ \A file \in DOMAIN program.files : models[file] = <<>>
      /\ \A tree : Times(tree) = 0
  BY DEF Init, Times
<1>2. Programs1
  BY <1>1, ReachedHolds DEF Programs1
<1>3. stack = <<Frame("compile", Module(Entry), Source(Entry))>>
  BY DEF Init
<1>4. /\ Len(Source(Entry)) \in Nat /\ Defs(Entry) = 1 .. Len(Source(Entry))
      /\ Source(Entry) \in Seq(Range(Source(Entry)))
  BY <1>1, ReachedHolds, Programmed DEF Listed
<1>5. DOMAIN stack = {1} /\ stack[1].id = Module(Entry) /\ stack[1].op = "compile"
        /\ stack[1].todo = Source(Entry)
  BY <1>3, Frames
<1>6. IsRest(Source(Entry), Entry)
  BY <1>4 DEF IsRest
<1>7. Rests
  BY <1>1, <1>5, <1>6 DEF Rests
<1>8. \A file, m : m \in Defs(file) => ~Passed(file, m)
  <2> SUFFICES ASSUME NEW file, NEW m \in Defs(file), Passed(file, m) PROVE FALSE
    OBVIOUS
  <2>1. file = Entry
    BY <1>1 DEF Passed
  <2>2. m <= Len(Source(Entry)) - Len(Source(Entry))
    BY <1>5, <2>1 DEF Passed, CompileOf
  <2> QED
    BY <1>4, <2>1, <2>2
<1>9. Modelled
  <2>1. Listed(<<>>) /\ Range(<<>>) = {}
    BY DEF Listed, Range
  <2> QED
    BY <1>1, <1>8, <2>1 DEF Modelled, Paths
<1>10. Found /\ Unlike
  BY <1>8 DEF Found, Unlike
<1>11. Counted
  BY <1>1, <1>8 DEF Counted
<1> QED
  BY <1>1, <1>2, <1>7, <1>9, <1>10, <1>11, StackInitially DEF CompileInv

(* What is behind stays so, and of a file that was not met none is.        *)
LEMMA IncludePasses ==
  ASSUME CompileInv, CompileInclude
  PROVE  \A f : \A m \in Defs(f) : Passed(f, m)' <=> Passed(f, m)
<1>1. PICK file : file = Head(Top.todo).file
  OBVIOUS
<1>2. /\ phase = "compile" /\ Top.todo # <<>> /\ Head(Top.todo).kind = "include"
      /\ file \notin memo /\ memo' = memo \cup {file} /\ UNCHANGED trees
      /\ stack' = Append(stack, Frame("compile", Module(file), Source(file)))
  BY <1>1 DEF CompileInclude, Compiling, Includes
<1>3. /\ program \in Programs /\ IsStack /\ file \in DOMAIN program.files
  <2>1. /\ program \in Programs /\ IsStack /\ File \in DOMAIN program.files
        /\ Len(Source(File)) - Len(Top.todo) + 1 \in Defs(File)
        /\ Head(Top.todo) = Source(File)[Len(Source(File)) - Len(Top.todo) + 1]
    BY <1>2, AtTop, NextDefinition DEF CompileInv, Programs1
  <2>2. WellFormed(Head(Top.todo), program.files)
    BY <2>1, Programmed
  <2> QED
    BY <1>1, <1>2, <2>1, <2>2 DEF WellFormed
<1>4. Len(Source(file)) \in Nat /\ Defs(file) = 1 .. Len(Source(file))
  BY <1>3, Programmed
<1>5. /\ Len(stack) \in Nat
      /\ DOMAIN stack = 1 .. Len(stack) /\ DOMAIN stack' = 1 .. Len(stack) + 1
      /\ stack'[Len(stack) + 1].op = "compile" /\ stack'[Len(stack) + 1].id = Module(file)
      /\ stack'[Len(stack) + 1].todo = Source(file)
      /\ \A i \in 1 .. Len(stack) : stack'[i] = stack[i]
  BY <1>2, <1>3, Pushed, Frames
<1>6. \A f : Source(f)' = Source(f) /\ Defs(f)' = Defs(f)
  BY <1>2, ProgramStays DEF trees
<1>7. \A f : \A i \in DOMAIN stack' : CompileOf(stack[i], f)' <=>
            IF i = Len(stack) + 1 THEN f = file ELSE CompileOf(stack[i], f)
  BY <1>5, Modules DEF CompileOf
<1>8. ASSUME NEW f, NEW m \in Defs(f) PROVE Passed(f, m)' <=> Passed(f, m)
  <2>1. CASE f = file
    <3>1. ~Passed(f, m)
      BY <1>2, <2>1 DEF Passed
    <3>2. ASSUME Passed(f, m)' PROVE FALSE
      <4>1. m <= Len(Source(file)) - Len(Source(file))
        BY <1>5, <1>6, <1>7, <2>1, <3>2 DEF Passed
      <4> QED
        BY <4>1, <1>4, <2>1
    <3> QED
      BY <3>1, <3>2
  <2>2. CASE f # file
    <3>1. (f \in memo)' <=> f \in memo
      BY <1>2, <2>2
    <3>2. \A i \in DOMAIN stack' : CompileOf(stack[i], f)' =>
                i \in DOMAIN stack /\ CompileOf(stack[i], f) /\ stack'[i] = stack[i]
      BY <1>5, <1>7, <2>2
    <3>3. \A i \in DOMAIN stack : i \in DOMAIN stack' /\ stack'[i] = stack[i]
                /\ (CompileOf(stack[i], f) => CompileOf(stack[i], f)')
      BY <1>5, <1>7
    <3> QED
      BY <1>6, <3>1, <3>2, <3>3 DEF Passed
  <2> QED
    BY <2>1, <2>2
<1> QED
  BY <1>8

(* compileInclude of a file that was not met: none of it is behind.        *)
LEMMA IncludeKeeps ==
  ASSUME CompileInv, CompileInclude PROVE CompileInv'
<1> DEFINE n == Len(Source(File)) - Len(Top.todo) + 1
           file == Head(Top.todo).file
<1>1. /\ phase = "compile" /\ phase' = phase /\ Top.todo # <<>>
      /\ Head(Top.todo).kind = "include" /\ file \notin memo
      /\ memo' = memo \cup {file} /\ UNCHANGED trees /\ models' = models
      /\ stack' = Append(stack, Frame("compile", Module(file), Source(file)))
  BY DEF CompileInclude, Compiling, Includes
<1>2. /\ program \in Programs /\ IsStack /\ File \in memo /\ memo \subseteq Reached
      /\ n \in Defs(File) /\ Head(Top.todo) = Source(File)[n]
  BY <1>1, AtTop, NextDefinition DEF CompileInv, Programs1
<1>3. file \in Reached
  <2>1. Holds(Reached) /\ File \in Reached
    BY <1>2, ReachedHolds
  <2>2. Is(File, n, "include") /\ Source(File)[n].file = file
    BY <1>1, <1>2 DEF Is
  <2> QED
    BY <1>2, <2>1, <2>2 DEF Holds
<1> HIDE DEF n, file
<1>4. /\ Len(Source(file)) \in Nat /\ Defs(file) = 1 .. Len(Source(file))
      /\ Source(file) \in Seq(Range(Source(file))) /\ Reached \subseteq DOMAIN program.files
  BY <1>2, <1>3, ReachedHolds, Programmed DEF Listed
<1>5. /\ Len(stack) \in Nat
      /\ DOMAIN stack = 1 .. Len(stack) /\ DOMAIN stack' = 1 .. Len(stack) + 1
      /\ stack'[Len(stack) + 1].op = "compile" /\ stack'[Len(stack) + 1].id = Module(file)
      /\ stack'[Len(stack) + 1].todo = Source(file)
      /\ \A i \in 1 .. Len(stack) : stack'[i] = stack[i]
  BY <1>1, <1>2, Pushed, Frames
<1>6. /\ \A f : Source(f)' = Source(f) /\ Defs(f)' = Defs(f)
      /\ Reached' = Reached /\ program' = program /\ made' = made
  BY <1>1, ProgramStays DEF trees
<1>7. \A f : \A i \in DOMAIN stack' : CompileOf(stack[i], f)' <=>
            IF i = Len(stack) + 1 THEN f = file ELSE CompileOf(stack[i], f)
  BY <1>5, Modules DEF CompileOf
<1>8. \A f : \A m \in Defs(f) : Passed(f, m)' <=> Passed(f, m)
  BY IncludePasses
<1>9. Programs1'
  BY <1>1, <1>3, <1>6 DEF CompileInv, Programs1
<1>10. Rests'
  <2>1. IsRest(Source(file), file)
    BY <1>4 DEF IsRest
  <2>2. \A todo, f : IsRest(todo, f)' <=> IsRest(todo, f)
    BY <1>6 DEF IsRest
  <2>3. ASSUME NEW i \in DOMAIN stack', NEW f \in memo', CompileOf(stack[i], f)'
        PROVE  IsRest(stack'[i].todo, f)
    <3>1. CASE i = Len(stack) + 1
      BY <1>5, <1>7, <2>1, <2>3, <3>1
    <3>2. CASE i # Len(stack) + 1
      <4>1. i \in DOMAIN stack /\ stack'[i] = stack[i] /\ CompileOf(stack[i], f)
        BY <1>5, <1>7, <2>3, <3>2
      <4>2. f \in memo
        BY <1>1, <1>5, <4>1, AtTop, Modules, <1>2
           DEF CompileOf, CompileInv, StackInv, Running, Compiles
      <4> QED
        BY <4>1, <4>2 DEF CompileInv, Rests
    <3> QED
      BY <3>1, <3>2
  <2> QED
    BY <2>2, <2>3 DEF Rests
<1>11. Modelled'
  <2>1. \A f : Paths(f)' = Paths(f) /\ Listed(models[f])' = Listed(models[f])
    BY <1>1 DEF Paths, Listed
  <2>2. \A f : {m \in Defs(f) : Passed(f, m)}' = {m \in Defs(f) : Passed(f, m)}
    BY <1>6, <1>8
  <2> QED
    BY <1>1, <1>6, <2>1, <2>2 DEF CompileInv, Modelled
<1>12. /\ \A f : \A m \in Defs(f) : Passed(f, m)' <=> Passed(f, m)
       /\ \A m \in Defs(file) : ~Passed(file, m)
       /\ \A f : \A m \in Defs(f) : Passed(f, m)' = Passed(f, m)
  <2>1. \A f : \A m \in Defs(f) : Passed(f, m)' <=> Passed(f, m)
    BY <1>8
  <2>2. \A f, m : Passed(f, m) \in BOOLEAN /\ Passed(f, m)' \in BOOLEAN
    BY DEF Passed
  <2>3. \A m : ~Passed(file, m)
    BY <1>1 DEF Passed
  <2> QED
    BY <2>1, <2>2, <2>3
<1>13. Found'
  <2>1. \A f : \A m : Is(f, m, "include")' <=> Is(f, m, "include")
    BY <1>6, ProgramStays
  <2>2. Found
    BY <1>1 DEF CompileInv, Live
  <2>3. ASSUME NEW f \in memo', NEW m \in Defs(f), Passed(f, m)', Is(f, m, "include")
        PROVE  Source(f)[m].file \in memo'
    <3>1. f \in memo /\ Passed(f, m)
      BY <1>1, <1>12, <2>3
    <3> QED
      BY <1>1, <2>2, <2>3, <3>1 DEF Found
  <2> QED
    BY <1>6, <2>1, <2>3 DEF Found
<1>14. Unlike'
  <2>1. Unlike
    BY <1>1 DEF CompileInv, Live
  <2>2. ASSUME NEW f \in memo', NEW m \in Defs(f), NEW l \in Defs(f),
               Passed(f, m)', Passed(f, l)'
        PROVE  \A k \in 1 .. Size(Source(f)[m]), h \in 1 .. Size(Source(f)[l]) :
                  PathAt(Source(f)[m], k) = PathAt(Source(f)[l], h) => m = l /\ k = h
    <3>1. f \in memo /\ Passed(f, m) /\ Passed(f, l)
      BY <1>1, <1>12, <2>2
    <3> QED
      BY <2>1, <3>1 DEF Unlike
  <2> QED
    BY <1>6, <2>2 DEF Unlike
<1>15. Counted'
  <2>1. Counted
    BY <1>1 DEF CompileInv, Live
  <2> QED
    BY <1>1, <1>12, <2>1, CountsStay
<1> QED
  <2>1. StackInv'
    BY CompileIncludeKeeps DEF CompileInv
  <2> QED
    BY <1>1, <1>9, <1>10, <1>11, <1>13, <1>14, <1>15, <2>1 DEF CompileInv, Live

(* Listing one more sequence.                                              *)
LEMMA Joined ==
  ASSUME NEW s, Listed(s), NEW n \in Nat, NEW t, t = [i \in 1 .. n |-> t[i]]
  PROVE  Listed(s \o t) /\ Range(s \o t) = Range(s) \cup Range(t)
<1> DEFINE S == Range(s) \cup Range(t)
<1>1. \A i \in 1 .. n : t[i] \in Range(t)
  BY DEF Range
<1>2. t \in Seq(Range(t))
  BY <1>1
<1>3. s \in Seq(Range(s))
  BY DEF Listed
<1>4. s \in Seq(S) /\ t \in Seq(S)
  BY <1>2, <1>3
<1>5. /\ s \o t \in Seq(S) /\ Len(s) \in Nat /\ Len(t) = n
      /\ DOMAIN s = 1 .. Len(s) /\ DOMAIN t = 1 .. n
      /\ DOMAIN (s \o t) = 1 .. Len(s) + n
      /\ \A i \in 1 .. Len(s) + n : (s \o t)[i] = IF i <= Len(s) THEN s[i] ELSE t[i - Len(s)]
  BY <1>2, <1>4
<1>6. Range(s \o t) = S
  <2>1. ASSUME NEW x \in Range(s \o t) PROVE x \in S
    <3>1. PICK i \in 1 .. Len(s) + n : x = (s \o t)[i]
      BY <1>5, <2>1 DEF Range
    <3>2. (i <= Len(s) /\ i \in DOMAIN s /\ x = s[i])
            \/ (i - Len(s) \in DOMAIN t /\ x = t[i - Len(s)])
      BY <1>5, <3>1
    <3> QED
      BY <3>2 DEF Range
  <2>2. ASSUME NEW x \in S PROVE x \in Range(s \o t)
    <3>1. CASE x \in Range(s)
      <4>1. PICK i \in 1 .. Len(s) : x = s[i]
        BY <1>5, <3>1 DEF Range
      <4>2. i \in DOMAIN (s \o t) /\ x = (s \o t)[i]
        BY <1>5, <4>1
      <4> QED
        BY <4>2 DEF Range
    <3>2. CASE x \in Range(t)
      <4>1. PICK i \in 1 .. n : x = t[i]
        BY <1>5, <3>2 DEF Range
      <4>2. i + Len(s) \in DOMAIN (s \o t) /\ x = (s \o t)[i + Len(s)]
        BY <1>5, <4>1
      <4> QED
        BY <4>2 DEF Range
    <3> QED
      BY <3>1, <3>2
  <2> QED
    BY <2>1, <2>2
<1> HIDE DEF S
<1>7. s \o t \in Seq(Range(s \o t))
  BY <1>5, <1>6
<1> QED
  BY <1>6, <1>7 DEF Listed, S

(* A name that is taken stands for two definitions or two parts of one.    *)
PathsOfNext == LET entries == Entries(File, Head(Top.todo))
               IN  [i \in DOMAIN entries |-> entries[i].path]

LEMMA TakenMeans ==
  ASSUME CompileInv, phase = "compile", Top.todo # <<>>
  PROVE  LET n == Len(Source(File)) - Len(Top.todo) + 1
             def == Source(File)[n]
         IN  /\ Range(PathsOfNext) = PathSet(def) /\ DOMAIN PathsOfNext = 1 .. Size(def)
             /\ Size(def) \in Nat
             /\ \A i \in DOMAIN PathsOfNext : PathsOfNext[i] = PathAt(def, i)
             /\ Taken(File, PathsOfNext) =>
                   \/ \E m \in Defs(File) : Passed(File, m) /\ PathSet(def) \cap PathSet(Source(File)[m]) # {}
                   \/ ~ \A k, l \in 1 .. Size(def) : PathAt(def, k) = PathAt(def, l) => k = l
             /\ ~Taken(File, PathsOfNext) =>
                   /\ \A m \in Defs(File) : Passed(File, m) =>
                                PathSet(def) \cap PathSet(Source(File)[m]) = {}
                   /\ \A k, l \in 1 .. Size(def) : PathAt(def, k) = PathAt(def, l) => k = l
<1> DEFINE n == Len(Source(File)) - Len(Top.todo) + 1
           def == Source(File)[n]
<1>1. /\ File \in DOMAIN program.files /\ program \in Programs
      /\ n \in Defs(File) /\ Head(Top.todo) = def
  BY AtTop, NextDefinition DEF CompileInv, Programs1
<1>2. WellFormed(def, program.files)
  BY <1>1, Programmed
<1>3. Size(def) \in Nat
  BY <1>2, Sizes
<1>4. Paths(File) = UNION {PathSet(Source(File)[m]) : m \in {m \in Defs(File) : Passed(File, m)}}
  BY <1>1 DEF CompileInv, Modelled
<1> HIDE DEF n, def
<1>5. /\ Range(PathsOfNext) = PathSet(def) /\ Len(PathsOfNext) = Size(def)
      /\ DOMAIN PathsOfNext = 1 .. Size(def)
      /\ \A i \in DOMAIN PathsOfNext : PathsOfNext[i] = PathAt(def, i)
      /\ Cardinality(PathSet(def)) \in Nat /\ Cardinality(PathSet(def)) <= Size(def)
      /\ Cardinality(PathSet(def)) = Size(def) <=>
                \A k, l \in 1 .. Size(def) : PathAt(def, k) = PathAt(def, l) => k = l
  BY <1>1, <1>2, PathsAreThose DEF PathsOfNext
<1>6. Taken(File, PathsOfNext) <=>
        \/ \E m \in Defs(File) : Passed(File, m) /\ PathSet(def) \cap PathSet(Source(File)[m]) # {}
        \/ Cardinality(PathSet(def)) # Size(def)
  BY <1>3, <1>4, <1>5 DEF Taken
<1> QED
  BY <1>3, <1>5, <1>6 DEF n, def

(* How often 'success' is put in front of one function's throws while a    *)
(* service is compiled: once, if it is a function of that service.         *)
LEMMA UnshiftedOnce ==
  ASSUME program \in Programs, NEW file \in DOMAIN program.files, Distinct(file),
         NEW m \in Defs(file), Is(file, m, "service"), NEW f \in Range(FunctionsOf(file, m)),
         NEW n \in Defs(File), Is(File, n, "service")
  PROVE  Unshiftings(TreeOf(file, Source(file)[m], f), Source(File)[n])
            = IF file = File /\ m = n /\ Unshifts(f) THEN 1 ELSE 0
<1> DEFINE T == TreeOf(file, Source(file)[m], f)
           those == {g \in Range(FunctionsOf(File, n)) :
                        Unshifts(g) /\ ThrowsOf(File, FunctionPath(Source(File)[n].name, g.name)) = T}
<1>1. ASSUME NEW g \in those PROVE file = File /\ m = n /\ g = f
  <2>1. /\ Unshifts(g) /\ g \in Range(FunctionsOf(File, n))
        /\ ThrowsOf(File, FunctionPath(Source(File)[n].name, g.name))
                = ThrowsOf(file, FunctionPath(Source(file)[m].name, f.name))
    BY DEF TreeOf
  <2>2. /\ File = file
        /\ FunctionPath(Source(File)[n].name, g.name) = FunctionPath(Source(file)[m].name, f.name)
    BY <2>1 DEF ThrowsOf
  <2>3. Source(File)[n].name = Source(file)[m].name /\ g.name = f.name
    BY <2>2 DEF FunctionPath
  <2>4. m = n
    BY <2>2, <2>3, NamesDiffer
  <2> QED
    BY <2>1, <2>2, <2>3, <2>4, FunctionsDiffer
<1>2. file = File /\ m = n /\ Unshifts(f) => f \in those
  BY DEF TreeOf
<1>3. \A g \in those : Unshifts(g)
  OBVIOUS
<1>4. Unshiftings(T, Source(File)[n]) = Cardinality(those)
  BY DEF Unshiftings, FunctionsOf
<1> HIDE DEF T, those
<1>5. CASE file = File /\ m = n /\ Unshifts(f)
  <2>1. those = {f}
    BY <1>1, <1>2, <1>5
  <2>2. Cardinality({f}) = 1
    BY FS_Singleton
  <2> QED
    BY <1>4, <1>5, <2>1, <2>2 DEF T
<1>6. CASE ~(file = File /\ m = n /\ Unshifts(f))
  <2>1. those = {}
    BY <1>1, <1>3, <1>6
  <2> QED
    BY <1>4, <1>6, <2>1, FS_EmptySet DEF T
<1> QED
  BY <1>5, <1>6

Passes(n) == \A file : \A m \in Defs(file) :
                Passed(file, m)' <=> Passed(file, m) \/ (file = File /\ m = n)

LEMMA StackGoesOn ==
  ASSUME CompileInv, phase = "compile", Top.todo # <<>>, stack' = GoOn(Top.got),
         UNCHANGED <<program, memo>>
  PROVE  Passes(Len(Source(File)) - Len(Top.todo) + 1) /\ Rests'
<1> DEFINE n == Len(Source(File)) - Len(Top.todo) + 1
           last == Len(stack)
<1>1. /\ n \in Defs(File) /\ IsRest(Tail(Top.todo), File)
      /\ Len(Source(File)) - Len(Tail(Top.todo)) = n
      /\ \A m \in Defs(File) : Passed(File, m) <=> m < n
  BY NextDefinition
<1>2. /\ IsStack /\ stack # <<>> /\ File \in memo /\ Top.id = Module(File)
      /\ Top.op = "compile" /\ \A i \in 1 .. last - 1 : stack[i].id # Module(File)
      /\ program \in Programs /\ File \in DOMAIN program.files
      /\ Top = stack[Len(stack)]
  BY AtTop, TopAndBelow DEF CompileInv, Programs1
<1>3. n \in Nat /\ \A m \in Defs(File) : m \in Nat
  <2>1. Len(Source(File)) \in Nat /\ Defs(File) = 1 .. Len(Source(File))
    BY <1>2, Programmed
  <2> HIDE DEF n
  <2> QED
    BY <1>1, <2>1
<1>4. /\ last \in Nat /\ last >= 1
      /\ DOMAIN stack' = DOMAIN stack /\ DOMAIN stack = 1 .. last
      /\ stack'[last].op = Top.op /\ stack'[last].id = Top.id
      /\ stack'[last].todo = Tail(Top.todo)
      /\ \A i \in 1 .. last - 1 : stack'[i] = stack[i]
  BY <1>2, FramesGoOn
<1>5. \A f : Source(f)' = Source(f) /\ Defs(f)' = Defs(f)
  BY ProgramStays
<1> HIDE DEF n, last
<1>6. \A i \in DOMAIN stack : \A f : CompileOf(stack[i], f)' <=> CompileOf(stack[i], f)
  BY <1>2, <1>4 DEF CompileOf, last
<1>7. ASSUME NEW f, NEW m \in Defs(f)
      PROVE  Passed(f, m)' <=> Passed(f, m) \/ (f = File /\ m = n)
  <2>1. CASE f = File
    <3>1. \A i \in DOMAIN stack : CompileOf(stack[i], f)' <=> i = last
      BY <1>2, <1>4, <2>1 DEF CompileOf, Module
    <3>2. Passed(f, m)' <=> m <= Len(Source(File)) - Len(Tail(Top.todo))
      <4>1. /\ Source(f)' = Source(File) /\ f \in memo' /\ last \in DOMAIN stack'
            /\ \A i \in DOMAIN stack' : CompileOf(stack[i], f)' <=> i = last
        BY <1>2, <1>4, <1>5, <2>1, <3>1
      <4> QED
        BY <1>4, <4>1 DEF Passed
    <3>3. Passed(f, m)' <=> m <= n
      BY <1>1, <3>2
    <3>4. Passed(f, m) <=> m < n
      BY <1>1, <2>1
    <3>5. m \in Nat
      BY <1>3, <2>1
    <3>6. m <= n <=> m < n \/ m = n
      BY <1>3, <3>5
    <3> QED
      BY <2>1, <3>3, <3>4, <3>6
  <2>2. CASE f # File
    <3>1. \A i \in DOMAIN stack : CompileOf(stack[i], f) => stack'[i] = stack[i]
      BY <1>2, <1>4, <2>2, Modules DEF CompileOf, last
    <3> QED
      BY <1>4, <1>5, <1>6, <2>2, <3>1 DEF Passed
  <2> QED
    BY <2>1, <2>2
<1>8. Rests'
  <2>1. \A todo, f : IsRest(todo, f)' <=> IsRest(todo, f)
    BY <1>5 DEF IsRest
  <2>2. ASSUME NEW i \in DOMAIN stack', NEW f \in memo', CompileOf(stack[i], f)'
        PROVE  IsRest(stack'[i].todo, f)
    <3>1. CompileOf(stack[i], f) /\ f \in memo
      BY <1>4, <1>6, <2>2
    <3>2. CASE i = last
      <4>1. f = File
        BY <1>2, <3>1, <3>2, Modules DEF CompileOf, last
      <4> QED
        BY <1>1, <1>4, <3>2, <4>1
    <3>3. CASE i # last
      BY <1>4, <2>2, <3>1, <3>3 DEF CompileInv, Rests
    <3> QED
      BY <3>2, <3>3
  <2> QED
    BY <2>1, <2>2 DEF Rests
<1> QED
  BY <1>7, <1>8 DEF Passes, n

LEMMA DefinitionKeeps ==
  ASSUME CompileInv, CompileDefinition PROVE CompileInv'
<1> DEFINE n == Len(Source(File)) - Len(Top.todo) + 1
           def == Source(File)[n]
           id(path) == IF Head(Top.todo).kind = "include" THEN Module(Head(Top.todo).file)
                                                          ELSE <<File, path>>
           added == [i \in DOMAIN PathsOfNext |->
                        [path |-> PathsOfNext[i], id |-> id(PathsOfNext[i])]]
           lists == {TreeOf(File, Head(Top.todo), f) :
                        f \in {f \in Range(Head(Top.todo).functions) : Unshifts(f)}}
           Goes == /\ ~Taken(File, PathsOfNext) /\ stack' = GoOn(Top.got)
                   /\ models' = [models EXCEPT ![File] = @ \o added]
                   /\ unshifted' = IF Head(Top.todo).kind = "service"
                                   THEN [tree \in DOMAIN unshifted \cup lists |->
                                            Unshiftings(tree, Head(Top.todo)) + Times(tree)]
                                   ELSE unshifted
                   /\ UNCHANGED <<program, made, phase, memo>>
<1>1. /\ phase = "compile" /\ Top.todo # <<>> /\ ~Includes(Head(Top.todo))
      /\ (Taken(File, PathsOfNext) /\ Throw("duplicate")) \/ Goes
  BY DEF CompileDefinition, Compiling, PathsOfNext, Times, TreeOf
<1>2. /\ program \in Programs /\ File \in memo /\ memo \subseteq Reached
      /\ Reached \subseteq DOMAIN program.files
      /\ n \in Defs(File) /\ Head(Top.todo) = def
      /\ \A m \in Defs(File) : Passed(File, m) <=> m < n
  BY <1>1, AtTop, NextDefinition, ReachedHolds DEF CompileInv, Programs1
<1>3. /\ Range(PathsOfNext) = PathSet(def) /\ DOMAIN PathsOfNext = 1 .. Size(def)
      /\ Size(def) \in Nat
      /\ \A i \in DOMAIN PathsOfNext : PathsOfNext[i] = PathAt(def, i)
      /\ Taken(File, PathsOfNext) =>
            \/ \E m \in Defs(File) : Passed(File, m) /\ PathSet(def) \cap PathSet(Source(File)[m]) # {}
            \/ ~ \A k, l \in 1 .. Size(def) : PathAt(def, k) = PathAt(def, l) => k = l
      /\ ~Taken(File, PathsOfNext) =>
            /\ \A m \in Defs(File) : Passed(File, m) =>
                        PathSet(def) \cap PathSet(Source(File)[m]) = {}
            /\ \A k, l \in 1 .. Size(def) : PathAt(def, k) = PathAt(def, l) => k = l
  BY <1>1, TakenMeans
<1>4. \A m \in Defs(File) : m \in Nat
  BY <1>2, Programmed
<1>5. StackInv'
  BY CompileDefinitionKeeps DEF CompileInv
<1>6. Found /\ Unlike /\ Counted /\ Modelled
  BY <1>1 DEF CompileInv, Live
<1> HIDE DEF added, lists, def, n
<1>7. CASE Taken(File, PathsOfNext) /\ Throw("duplicate")
  <2>1. ~Distinct(File)
    <3>1. CASE \E m \in Defs(File) : Passed(File, m) /\ PathSet(def) \cap PathSet(Source(File)[m]) # {}
      <4>1. PICK m \in Defs(File) : m < n /\ PathSet(def) \cap PathSet(Source(File)[m]) # {}
        BY <1>2, <3>1
      <4>2. PICK k \in 1 .. Size(def), h \in 1 .. Size(Source(File)[m]) :
                PathAt(def, k) = PathAt(Source(File)[m], h)
        BY <4>1 DEF PathSet
      <4>3. m # n
        BY <1>2, <1>4, <4>1
      <4> QED
        BY <1>2, <4>2, <4>3 DEF Distinct, def
    <3>2. CASE ~ \A k, l \in 1 .. Size(def) : PathAt(def, k) = PathAt(def, l) => k = l
      BY <1>2, <3>2 DEF Distinct, def
    <3> QED
      BY <1>3, <1>7, <3>1, <3>2
  <2>2. /\ program' = program /\ made' = made /\ memo' = memo /\ models' = models
        /\ stack' = <<>> /\ phase' = "duplicate"
    BY <1>7 DEF Throw, trees
  <2>3. Programs1' /\ Rests'
    BY <2>2, ProgramStays DEF CompileInv, Programs1, Rests
  <2>4. (\E file \in memo : ~Distinct(file))'
    BY <1>2, <2>1, <2>2, ProgramStays
  <2> QED
    BY <1>5, <2>2, <2>3, <2>4 DEF CompileInv, Live
<1>8. CASE Goes
  <2>1. /\ ~Taken(File, PathsOfNext) /\ stack' = GoOn(Top.got)
        /\ models' = [models EXCEPT ![File] = @ \o added]
        /\ program' = program /\ made' = made /\ phase' = phase /\ memo' = memo
    BY <1>8
  <2>2. Rests' /\ \A file : \A m \in Defs(file) :
                        Passed(file, m)' <=> Passed(file, m) \/ (file = File /\ m = n)
    BY <1>1, <2>1, StackGoesOn DEF n, Passes
  <2>3. /\ \A file : Source(file)' = Source(file) /\ Defs(file)' = Defs(file)
        /\ \A file : \A m : \A kind : Is(file, m, kind)' = Is(file, m, kind)
        /\ \A file : \A m : FunctionsOf(file, m)' = FunctionsOf(file, m)
        /\ \A file : Distinct(file)' = Distinct(file)
        /\ Reached' = Reached
    BY <2>1, ProgramStays
  <2>4. Programs1'
    BY <2>1, <2>3 DEF CompileInv, Programs1
  <2>5. Modelled'
    <3>1. File \in DOMAIN models /\ Listed(models[File])
      BY <1>2, <1>6 DEF CompileInv, Programs1, Modelled
    <3>2. added = [i \in 1 .. Size(def) |-> added[i]]
      BY <1>3 DEF added
    <3>3. Listed(models[File] \o added)
            /\ Range(models[File] \o added) = Range(models[File]) \cup Range(added)
      BY <1>3, <3>1, <3>2, Joined
    <3>4. {entry.path : entry \in Range(added)} = PathSet(def)
      <4>1. DOMAIN added = 1 .. Size(def)
                /\ \A i \in 1 .. Size(def) : added[i].path = PathAt(def, i)
        BY <1>3 DEF added
      <4> QED
        BY <4>1 DEF Range, PathSet
    <3>5. models'[File] = models[File] \o added
             /\ \A file \in DOMAIN models : file # File => models'[file] = models[file]
      BY <2>1, <3>1
    <3>6. {entry.path : entry \in Range(models'[File])} = Paths(File) \cup PathSet(def)
      BY <3>3, <3>4, <3>5 DEF Paths
    <3>7. ASSUME NEW file \in DOMAIN program.files
          PROVE  /\ Listed(models[file])'
                 /\ Paths(file)' = UNION {PathSet(Source(file)[m]) :
                                            m \in {m \in Defs(file) : Passed(file, m)'}}
      <4>1. CASE file = File
        <5>1. Paths(file) = UNION {PathSet(Source(file)[m]) :
                                      m \in {m \in Defs(file) : Passed(file, m)}}
          BY <1>6 DEF Modelled
        <5>2. {m \in Defs(file) : Passed(file, m)'}
                    = {m \in Defs(file) : Passed(file, m)} \cup {n}
          BY <1>2, <2>2, <4>1
        <5>3. PathSet(Source(file)[n]) = PathSet(def)
          BY <4>1 DEF def
        <5>4. \A A : UNION {PathSet(Source(file)[m]) : m \in A \cup {n}}
                        = (UNION {PathSet(Source(file)[m]) : m \in A}) \cup PathSet(Source(file)[n])
          <6>1. \A A : {PathSet(Source(file)[m]) : m \in A \cup {n}}
                        = {PathSet(Source(file)[m]) : m \in A} \cup {PathSet(Source(file)[n])}
            OBVIOUS
          <6>2. ASSUME NEW B, NEW b PROVE UNION (B \cup {b}) = (UNION B) \cup b
            <7>1. \A x : x \in UNION (B \cup {b}) <=> x \in (UNION B) \cup b
              OBVIOUS
            <7> QED
              BY <7>1
          <6> QED
            BY <6>1, <6>2
        <5>5. Paths(file)' = UNION {PathSet(Source(file)[m]) :
                                            m \in {m \in Defs(file) : Passed(file, m)'}}
          <6>1. Paths(file)' = Paths(file) \cup PathSet(def)
            BY <3>6, <4>1 DEF Paths
          <6> HIDE DEF def
          <6>2. UNION {PathSet(Source(file)[m]) : m \in {m \in Defs(file) : Passed(file, m)'}}
                    = (UNION {PathSet(Source(file)[m]) : m \in {m \in Defs(file) : Passed(file, m)}})
                        \cup PathSet(Source(file)[n])
            BY <5>2, <5>4
          <6> QED
            BY <5>1, <5>3, <6>1, <6>2
        <5>6. Listed(models[file])'
          BY <3>3, <3>5, <4>1 DEF Listed
        <5> QED
          BY <5>5, <5>6
      <4>2. CASE file # File
        <5>1. models'[file] = models[file] /\ Listed(models[file])
          BY <1>6, <3>5, <4>2 DEF CompileInv, Programs1, Modelled
        <5>2. Paths(file)' = Paths(file) /\ Listed(models[file])'
          BY <5>1 DEF Paths, Listed
        <5>3. {m \in Defs(file) : Passed(file, m)'} = {m \in Defs(file) : Passed(file, m)}
          BY <2>2, <4>2
        <5> QED
          BY <1>6, <5>2, <5>3 DEF Modelled
      <4> QED
        BY <4>1, <4>2
    <3> QED
      BY <2>1, <2>3, <3>7 DEF Modelled
  <2>6. Found'
    <3>1. Is(File, n, "include") => Source(File)[n].file \in memo
      BY <1>1, <1>2 DEF Includes, Is, def
    <3>2. ASSUME NEW file \in memo', NEW m \in Defs(file), Passed(file, m)', Is(file, m, "include")
          PROVE  Source(file)[m].file \in memo'
      <4>1. CASE file = File /\ m = n
        BY <2>1, <3>1, <3>2, <4>1
      <4>2. CASE ~(file = File /\ m = n)
        <5>1. file \in memo /\ Passed(file, m)
          BY <2>1, <2>2, <3>2, <4>2
        <5> QED
          BY <1>6, <2>1, <3>2, <5>1 DEF Found
      <4> QED
        BY <4>1, <4>2
    <3> QED
      BY <2>3, <3>2 DEF Found
  <2>7. Unlike'
    <3>1. \A m \in Defs(File) : Passed(File, m) =>
              \A k \in 1 .. Size(def), h \in 1 .. Size(Source(File)[m]) :
                  PathAt(def, k) # PathAt(Source(File)[m], h)
      BY <1>3, <2>1 DEF PathSet
    <3>2. \A k, l \in 1 .. Size(def) : PathAt(def, k) = PathAt(def, l) => k = l
      BY <1>3, <2>1
    <3>3. ASSUME NEW file \in memo', NEW m \in Defs(file), NEW l \in Defs(file),
                 Passed(file, m)', Passed(file, l)',
                 NEW k \in 1 .. Size(Source(file)[m]), NEW h \in 1 .. Size(Source(file)[l]),
                 PathAt(Source(file)[m], k) = PathAt(Source(file)[l], h)
          PROVE  m = l /\ k = h
      <4>1. /\ Passed(file, m) \/ (file = File /\ m = n)
            /\ Passed(file, l) \/ (file = File /\ l = n)
            /\ file \in memo
        BY <2>1, <2>2, <3>3
      <4>2. CASE Passed(file, m) /\ Passed(file, l)
        BY <1>6, <3>3, <4>1, <4>2 DEF Unlike
      <4>3. CASE file = File /\ m = n /\ l = n
        BY <3>2, <3>3, <4>3 DEF def
      <4>4. CASE file = File /\ m = n /\ Passed(file, l)
        BY <3>1, <3>3, <4>4 DEF def
      <4>5. CASE file = File /\ l = n /\ Passed(file, m)
        BY <3>1, <3>3, <4>5 DEF def
      <4> QED
        BY <4>1, <4>2, <4>3, <4>4, <4>5
    <3> QED
      BY <2>3, <3>3 DEF Unlike
  <2>8. Counted'
    <3>1. ASSUME \A file \in Reached : Distinct(file),
                 NEW file \in Reached, NEW m \in Defs(file), Is(file, m, "service"),
                 NEW f \in Range(FunctionsOf(file, m))
          PROVE  Times(TreeOf(file, Source(file)[m], f))' =
                    IF ~Unshifts(f) THEN 0 ELSE IF Passed(file, m)' THEN made ELSE made - 1
      <4>0. PICK T : T = TreeOf(file, Source(file)[m], f)
        OBVIOUS
      <4>1. /\ Times(T) = IF ~Unshifts(f) THEN 0 ELSE IF Passed(file, m) THEN made ELSE made - 1
            /\ made \in Nat
        BY <1>6, <3>1, <4>0 DEF Counted, CompileInv, Programs1
      <4>2. TreeOf(file, Source(file)[m], f)' = T
        BY <2>3, <4>0 DEF TreeOf
      <4>3. Passed(file, m)' <=> Passed(file, m) \/ (file = File /\ m = n)
        BY <2>2
      <4>4. ~(file = File /\ m = n /\ Passed(file, m))
        BY <1>2, <1>4
      <4>5. CASE Is(File, n, "service")
        <5>1. Unshiftings(T, def) = IF file = File /\ m = n /\ Unshifts(f) THEN 1 ELSE 0
          BY <1>2, <3>1, <4>5, <4>0, UnshiftedOnce DEF def
        <5>2. unshifted' = [tree \in DOMAIN unshifted \cup lists |->
                                            Unshiftings(tree, def) + Times(tree)]
          BY <1>2, <1>8, <4>5 DEF Is, def
        <5>3. T \in lists <=> \E g \in Range(FunctionsOf(File, n)) :
                                    Unshifts(g) /\ TreeOf(File, def, g) = T
          BY <1>2 DEF lists, FunctionsOf, def
        <5>4. T \notin DOMAIN unshifted => Times(T) = 0
          BY DEF Times
        <5>5. CASE T \in DOMAIN unshifted \cup lists
          <6>1. Times(T)' = Unshiftings(T, def) + Times(T)
            BY <5>2, <5>5 DEF Times
          <6> QED
            BY <4>1, <4>2, <4>3, <4>4, <5>1, <6>1
        <5>6. CASE T \notin DOMAIN unshifted \cup lists
          <6>1. Times(T)' = 0 /\ Times(T) = 0
            BY <5>2, <5>6 DEF Times
          <6>2. ~(file = File /\ m = n /\ Unshifts(f))
            BY <4>0, <5>3, <5>6 DEF def
          <6> QED
            BY <4>1, <4>2, <4>3, <6>1, <6>2
        <5> QED
          BY <5>5, <5>6
      <4>6. CASE ~Is(File, n, "service")
        <5>1. unshifted' = unshifted
          BY <1>2, <1>8, <4>6 DEF Is, def
        <5>2. Times(T)' = Times(T)
          BY <5>1 DEF Times
        <5>3. Passed(file, m)' <=> Passed(file, m)
          BY <3>1, <4>3, <4>6
        <5> QED
          BY <4>1, <4>2, <5>2, <5>3
      <4> QED
        BY <4>5, <4>6
    <3>2. \A file, m, f : TreeOf(file, Source(file)[m], f)' = TreeOf(file, Source(file)[m], f)
      BY <2>3 DEF TreeOf
    <3>3. ASSUME (\A file \in Reached : Distinct(file))',
                 NEW file \in Reached', NEW m \in Defs(file)', Is(file, m, "service")',
                 NEW f \in Range(FunctionsOf(file, m))'
          PROVE  Times(TreeOf(file, Source(file)[m], f))' =
                    IF ~Unshifts(f) THEN 0 ELSE IF Passed(file, m)' THEN made' ELSE made' - 1
      BY <2>1, <2>3, <3>1, <3>3
    <3> QED
      BY <3>3 DEF Counted
  <2> QED
    BY <1>1, <1>5, <2>1, <2>2, <2>4, <2>5, <2>6, <2>7, <2>8 DEF CompileInv, Live
<1> QED
  BY <1>1, <1>7, <1>8

(* A step behind which as much of each file is behind as before it.        *)
LEMMA LiveStays ==
  ASSUME CompileInv, Live, UNCHANGED <<trees, memo>>, DOMAIN models' = DOMAIN models,
         \A file : \A m \in Defs(file) : Passed(file, m)' <=> Passed(file, m)
  PROVE  Programs1' /\ Found' /\ Unlike' /\ Counted'
<1>1. Found /\ Unlike /\ Counted /\ Programs1
  BY DEF CompileInv
<1>2. Found' /\ Unlike'
  BY <1>1, DefinitionsStay DEF trees
<1>3. \A file : \A m \in Defs(file) : Passed(file, m)' = Passed(file, m)
  <2>1. \A file, m : Passed(file, m) \in BOOLEAN /\ Passed(file, m)' \in BOOLEAN
    BY DEF Passed
  <2> QED
    BY <2>1
<1>4. Counted'
  BY <1>1, <1>3, CountsStay
<1>5. Programs1'
  BY <1>1, ProgramStays DEF Programs1, trees
<1> QED
  BY <1>2, <1>4, <1>5

(* The end of the compile of a file: all of it is behind.                  *)
LEMMA LastPassed ==
  ASSUME CompileInv, phase = "compile", Top.todo = <<>>
  PROVE  \A m \in Defs(File) : Passed(File, m)
<1>1. /\ File \in DOMAIN program.files /\ program \in Programs
      /\ \A m \in Defs(File) : Passed(File, m) <=> m <= Len(Source(File)) - Len(Top.todo)
  BY AtTop DEF CompileInv, Programs1
<1>2. Len(Source(File)) \in Nat /\ Defs(File) = 1 .. Len(Source(File))
  BY <1>1, Programmed
<1>3. Len(Top.todo) = 0
  OBVIOUS
<1> DEFINE len == Len(Source(File))
           rest == Len(Top.todo)
<1> HIDE DEF len, rest
<1>4. \A m \in 1 .. len : m <= len - rest
  BY <1>2, <1>3 DEF len, rest
<1> QED
  BY <1>1, <1>2, <1>4 DEF len, rest

LEMMA NonePassedLater ==
  ASSUME StackInv', phase' # "compile"
  PROVE  \A file, m : Passed(file, m)' <=> file \in memo'
BY DEF Passed, CompileOf, StackInv, Running, Links

(* The end of a compile leaves what is behind as it is.                    *)
LEMMA ReturnPasses ==
  ASSUME CompileInv, CompileReturns
  PROVE  \A file : \A m \in Defs(file) : Passed(file, m)' <=> Passed(file, m)
<1>1. /\ phase = "compile" /\ Top.todo = <<>> /\ UNCHANGED <<trees, memo, models>>
      /\ \/ Below # <<>> /\ stack' = Below /\ phase' = phase
         \/ Below = <<>> /\ phase' = "link"
  BY DEF CompileReturns, Compiling
<1>2. StackInv'
  BY CompileReturnsKeeps DEF CompileInv
<1>3. /\ IsStack /\ stack # <<>> /\ Len(stack) \in Nat /\ Len(stack) >= 1
      /\ DOMAIN stack = 1 .. Len(stack) /\ File \in memo /\ Top = stack[Len(stack)]
      /\ Top.id = Module(File) /\ \A m \in Defs(File) : Passed(File, m)
      /\ \A i \in 1 .. Len(stack) - 1 : stack[i].id # Module(File)
  BY <1>1, AtTop, LastPassed, TopAndBelow
<1>4. \A f : Source(f)' = Source(f) /\ Defs(f)' = Defs(f)
  BY <1>1, ProgramStays DEF trees
<1>5. CASE Below # <<>> /\ stack' = Below /\ phase' = phase
  <2>1. /\ DOMAIN stack' = 1 .. Len(stack) - 1
        /\ \A i \in 1 .. Len(stack) - 1 : stack'[i] = stack[i]
    BY <1>3, <1>5, Popped
  <2>2. ASSUME NEW file, NEW m \in Defs(file) PROVE Passed(file, m)' <=> Passed(file, m)
    <3>1. CASE file = File
      <4>1. \A i \in DOMAIN stack' : ~CompileOf(stack[i], file)'
        BY <1>3, <2>1, <3>1 DEF CompileOf, Module
      <4>2. Passed(file, m)' /\ Passed(file, m)
        BY <1>1, <1>3, <2>2, <3>1, <4>1 DEF Passed
      <4> QED
        BY <4>2
    <3>2. CASE file # File
      <4>1. ~CompileOf(Top, file)
        BY <1>3, <3>2, Modules DEF CompileOf
      <4>2. \A i \in DOMAIN stack : CompileOf(stack[i], file) =>
                i \in DOMAIN stack' /\ stack'[i] = stack[i] /\ CompileOf(stack[i], file)'
        BY <1>3, <2>1, <4>1 DEF CompileOf, Module
      <4>3. \A i \in DOMAIN stack' : CompileOf(stack[i], file)' =>
                i \in DOMAIN stack /\ stack'[i] = stack[i] /\ CompileOf(stack[i], file)
        BY <1>3, <2>1 DEF CompileOf, Module
      <4> QED
        BY <1>1, <1>4, <4>2, <4>3 DEF Passed
    <3> QED
      BY <3>1, <3>2
  <2> QED
    BY <2>2
<1>6. CASE Below = <<>> /\ phase' = "link"
  <2>1. Len(stack) = 1
    BY <1>3, <1>6, TopAndBelow
  <2>2. ASSUME NEW file, NEW m \in Defs(file) PROVE Passed(file, m)' <=> Passed(file, m)
    <3>1. Passed(file, m)' <=> file \in memo
      BY <1>1, <1>2, <1>6, NonePassedLater
    <3>2. CASE file = File
      BY <1>3, <3>1, <3>2, <2>2
    <3>3. CASE file # File
      <4>1. \A i \in DOMAIN stack : ~CompileOf(stack[i], file)
        BY <1>3, <2>1, <3>3, Modules DEF CompileOf
      <4> QED
        BY <3>1, <4>1 DEF Passed
    <3> QED
      BY <3>2, <3>3
  <2> QED
    BY <2>2
<1> QED
  BY <1>1, <1>5, <1>6

LEMMA ReturnKeeps ==
  ASSUME CompileInv, CompileReturns PROVE CompileInv'
<1>1. /\ phase = "compile" /\ Top.todo = <<>> /\ UNCHANGED <<trees, memo, models>>
      /\ \/ Below # <<>> /\ stack' = Below /\ phase' = phase
         \/ Below = <<>> /\ phase' = "link"
  BY DEF CompileReturns, Compiling
<1>2. StackInv'
  BY CompileReturnsKeeps DEF CompileInv
<1>3. /\ IsStack /\ stack # <<>> /\ Len(stack) \in Nat /\ Len(stack) >= 1
      /\ DOMAIN stack = 1 .. Len(stack) /\ File \in memo /\ Top = stack[Len(stack)]
      /\ Top.id = Module(File) /\ \A m \in Defs(File) : Passed(File, m)
      /\ \A i \in 1 .. Len(stack) - 1 : stack[i].id # Module(File)
  BY <1>1, AtTop, LastPassed, TopAndBelow
<1>4. \A f : Source(f)' = Source(f) /\ Defs(f)' = Defs(f)
  BY <1>1, ProgramStays DEF trees
<1>5. Live /\ Live'
  BY <1>1 DEF Live
<1>6. CASE Below # <<>> /\ stack' = Below /\ phase' = phase
  <2>1. /\ DOMAIN stack' = 1 .. Len(stack) - 1
        /\ \A i \in 1 .. Len(stack) - 1 : stack'[i] = stack[i]
    BY <1>3, <1>6, Popped
  <2>2. \A file : \A m \in Defs(file) : Passed(file, m)' <=> Passed(file, m)
    BY ReturnPasses
  <2>3. Programs1' /\ Found' /\ Unlike' /\ Counted'
    BY <1>1, <1>5, <2>2, LiveStays
  <2>4. Rests'
    <3>1. \A todo, f : IsRest(todo, f)' <=> IsRest(todo, f)
      BY <1>4 DEF IsRest
    <3>2. \A i \in DOMAIN stack' : \A f : CompileOf(stack[i], f)' =>
                i \in DOMAIN stack /\ stack'[i] = stack[i] /\ CompileOf(stack[i], f)
      BY <1>3, <2>1 DEF CompileOf, Module
    <3> QED
      BY <1>1, <3>1, <3>2 DEF CompileInv, Rests
  <2>5. Modelled'
    <3>1. \A f : Paths(f)' = Paths(f) /\ Listed(models[f])' = Listed(models[f])
      BY <1>1 DEF Paths, Listed
    <3>2. \A f : {m \in Defs(f) : Passed(f, m)}' = {m \in Defs(f) : Passed(f, m)}
      BY <1>4, <2>2
    <3> QED
      BY <1>1, <1>4, <3>1, <3>2 DEF CompileInv, Modelled, trees
  <2> QED
    BY <1>1, <1>2, <1>6, <2>3, <2>4, <2>5 DEF CompileInv
<1>7. CASE Below = <<>> /\ phase' = "link"
  <2>1. Len(stack) = 1
    BY <1>3, <1>7, TopAndBelow
  <2>2. \A file : \A m \in Defs(file) : Passed(file, m)' <=> Passed(file, m)
    BY ReturnPasses
  <2>3. Programs1' /\ Found' /\ Unlike' /\ Counted'
    BY <1>1, <1>5, <2>2, LiveStays
  <2>4. Rests'
    BY <1>2, <1>7 DEF StackInv, Running, Links, Rests, CompileOf
  <2> QED
    BY <1>2, <1>7, <2>3, <2>4 DEF CompileInv
<1> QED
  BY <1>1, <1>6, <1>7

(* link changes neither the trees nor which files there are.               *)
LEMMA LinkingKeeps ==
  ASSUME CompileInv, StackInv', phase \notin {"compile", "duplicate"},
         phase' \notin {"compile", "duplicate"}, Live' => Live,
         UNCHANGED <<trees, memo>>, DOMAIN models' = DOMAIN models
  PROVE  CompileInv'
<1>1. \A file, m : Passed(file, m)' <=> file \in memo
  BY NonePassedLater
<1>2. \A file, m : Passed(file, m) <=> file \in memo
  BY AllPassed DEF CompileInv
<1>3. Live' => Programs1' /\ Found' /\ Unlike' /\ Counted'
  BY <1>1, <1>2, LiveStays
<1>4. Programs1'
  BY ProgramStays DEF CompileInv, Programs1, trees
<1>5. Rests'
  BY DEF StackInv, Running, Links, Rests, CompileOf
<1> QED
  BY <1>3, <1>4, <1>5 DEF CompileInv

(* Once a Thrift is there, it has all the files the entry point reaches,   *)
(* and no two definitions of one file have one path.                       *)
LEMMA AllReached ==
  ASSUME CompileInv, phase \in {"link", "done"}
  PROVE  memo = Reached /\ (\A file \in Reached : Distinct(file)) /\ Counted
            /\ \A file \in Reached : \A m : Passed(file, m)
<1>1. Found /\ Unlike /\ Counted /\ Programs1
  BY DEF CompileInv, Live
<1>2. \A file, m : Passed(file, m) <=> file \in memo
  BY AllPassed DEF CompileInv
<1>3. Holds(memo)
  BY <1>1, <1>2 DEF Found, Holds
<1>4. memo = Reached
  BY <1>1, <1>3, ReachedHolds DEF Programs1
<1>5. \A file \in memo : Distinct(file)
  BY <1>1, <1>2 DEF Unlike, Distinct
<1> QED
  BY <1>1, <1>2, <1>4, <1>5

LEMMA AgainKeeps ==
  ASSUME CompileInv, MakeAgain PROVE CompileInv'
<1>1. /\ phase = "done" /\ phase' = "compile" /\ made' = made + 1 /\ memo' = {Entry}
      /\ models' = [file \in DOMAIN program.files |-> <<>>]
      /\ stack' = <<Frame("compile", Module(Entry), Source(Entry))>>
      /\ program' = program /\ unshifted' = unshifted
  BY DEF MakeAgain
<1>2. StackInv'
  BY MakeAgainKeeps DEF CompileInv
<1>3. /\ memo = Reached /\ (\A file \in Reached : Distinct(file)) /\ Counted
      /\ \A file \in Reached : \A m : Passed(file, m)
  BY <1>1, AllReached
<1>4. program \in Programs /\ made \in Nat \ {0}
  BY DEF CompileInv, Programs1
<1>5. Entry \in Reached /\ Entry \in DOMAIN program.files
  BY <1>4, ReachedHolds
<1>6. /\ Len(Source(Entry)) \in Nat /\ Defs(Entry) = 1 .. Len(Source(Entry))
      /\ Source(Entry) \in Seq(Range(Source(Entry)))
  BY <1>4, <1>5, Programmed DEF Listed
<1>7. /\ \A f : Source(f)' = Source(f) /\ Defs(f)' = Defs(f)
      /\ \A f : \A m : \A kind : Is(f, m, kind)' = Is(f, m, kind)
      /\ \A f : \A m : FunctionsOf(f, m)' = FunctionsOf(f, m)
      /\ Reached' = Reached
  BY <1>1, ProgramStays
<1>8. DOMAIN stack' = {1} /\ stack'[1].id = Module(Entry) /\ stack'[1].op = "compile"
        /\ stack'[1].todo = Source(Entry)
  BY <1>1, Single, Frames
<1>9. Programs1'
  BY <1>1, <1>4, <1>5, <1>7 DEF Programs1
<1>10. Rests'
  <2>1. IsRest(Source(Entry), Entry)'
    BY <1>6, <1>7 DEF IsRest
  <2>2. stack'[1].todo = Source(Entry)'
    BY <1>7, <1>8
  <2> QED
    BY <1>1, <1>8, <2>1, <2>2, <1>7 DEF Rests
<1>11. \A f : \A m \in Defs(f) : ~Passed(f, m)'
  <2> SUFFICES ASSUME NEW f, NEW m \in Defs(f), Passed(f, m)' PROVE FALSE
    OBVIOUS
  <2>1. f = Entry
    BY <1>1 DEF Passed
  <2>2. m <= Len(Source(Entry)) - Len(Source(Entry))
    BY <1>7, <1>8, <2>1 DEF Passed, CompileOf, Module
  <2> QED
    BY <1>6, <2>1, <2>2
<1>12. Modelled'
  <2>1. Listed(<<>>) /\ Range(<<>>) = {}
    BY DEF Listed, Range
  <2>2. \A f \in DOMAIN program.files : Listed(models[f])' /\ Paths(f)' = {}
    BY <1>1, <2>1 DEF Paths, Listed
  <2>3. \A f : {m \in Defs(f) : Passed(f, m)'} = {}
    BY <1>11
  <2>4. \A f : UNION {PathSet(Source(f)[m]) : m \in {m \in Defs(f) : Passed(f, m)'}} = {}
    BY <2>3
  <2> QED
    BY <1>1, <1>7, <2>2, <2>4 DEF Modelled
<1>13. Found' /\ Unlike'
  BY <1>7, <1>11 DEF Found, Unlike
<1>14. Counted'
  <2>1. \A tree : Times(tree)' = Times(tree)
    BY <1>1 DEF Times
  <2>2. \A file, m, f : TreeOf(file, Source(file)[m], f)' = TreeOf(file, Source(file)[m], f)
    BY <1>7 DEF TreeOf
  <2>3. ASSUME NEW file \in Reached, NEW m \in Defs(file), Is(file, m, "service"),
               NEW f \in Range(FunctionsOf(file, m))
        PROVE  Times(TreeOf(file, Source(file)[m], f)) = IF ~Unshifts(f) THEN 0 ELSE made' - 1
    BY <1>1, <1>3, <1>4, <2>3 DEF Counted
  <2> QED
    BY <1>7, <1>11, <2>1, <2>2, <2>3 DEF Counted
<1> QED
  BY <1>1, <1>2, <1>9, <1>10, <1>12, <1>13, <1>14 DEF CompileInv
-----------------------------------------------------------------------------
(* No step breaks it.                                                      *)
LEMMA CompileInvKept ==
  ASSUME CompileInv, [Next]_vars PROVE CompileInv'
<1>0. StackInv
  BY DEF CompileInv
<1>1. CASE CompileInclude
  BY <1>1, IncludeKeeps
<1>2. CASE CompileDefinition
  BY <1>2, DefinitionKeeps
<1>3. CASE CompileReturns
  BY <1>3, ReturnKeeps
<1>4. CASE CallLink
  <2>1. StackInv'
    BY <1>0, <1>4, CallLinkKeeps
  <2>2. /\ phase = "link" /\ phase' \in {"link", "failed", "overflow"}
        /\ UNCHANGED <<trees, memo, models>>
    BY <1>4 DEF CallLink, Calling, Linking, Throw
  <2> QED
    BY <2>1, <2>2, LinkingKeeps DEF Live
<1>5. CASE ResolveNothing \/ LinkReturns \/ CheckFields
  <2>1. StackInv'
    BY <1>0, <1>5, GoOnKeeps
  <2>2. /\ phase = "link" /\ phase' \in {"link", "failed"}
        /\ UNCHANGED <<trees, memo, models>>
    BY <1>5 DEF ResolveNothing, LinkReturns, CheckFields, Calling, Linking, Throw
  <2> QED
    BY <2>1, <2>2, LinkingKeeps DEF Live
<1>6. CASE Inherit
  <2>1. StackInv'
    BY <1>0, <1>6, InheritKeeps
  <2>2. /\ phase = "link" /\ phase' \in {"link", "failed"}
        /\ UNCHANGED <<trees, memo>> /\ DOMAIN models' = DOMAIN models
    BY <1>6 DEF Inherit, Linking, Throw
  <2> QED
    BY <2>1, <2>2, LinkingKeeps DEF Live
<1>7. CASE Finish
  <2>1. StackInv'
    BY <1>0, <1>7, FinishKeeps
  <2>2. /\ phase = "link" /\ phase' \in {"link", "done"}
        /\ UNCHANGED <<trees, memo, models>>
    BY <1>7 DEF Finish, Linking
  <2> QED
    BY <2>1, <2>2, LinkingKeeps DEF Live
<1>8. CASE MakeAgain
  BY <1>8, AgainKeeps
<1>9. CASE UNCHANGED vars
  <2>1. UNCHANGED <<stack, phase, memo, models, trees>>
    BY <1>9 DEF vars, trees
  <2>2. StackInv'
    <3>1. \A id : Kind(id)' = Kind(id)
      BY <2>1, KindStays
    <3>2. IsStack'
      BY <1>0, <2>1 DEF StackInv, IsStack, IsFrame
    <3>3. Running'
      BY <1>0, <1>9, <3>1 DEF StackInv, Running, Compiles, Links, vars
    <3>4. EntersOnce'
      BY <1>0, <2>1, <3>1 DEF StackInv, EntersOnce
    <3> QED
      BY <3>2, <3>3, <3>4 DEF StackInv
  <2>3. \A f : Source(f)' = Source(f) /\ Defs(f)' = Defs(f)
    BY <2>1, ProgramStays DEF trees
  <2>4. \A f, m : Passed(f, m)' <=> Passed(f, m)
    BY <2>1, <2>3 DEF Passed, CompileOf, Module
  <2>5. Live' => Programs1' /\ Found' /\ Unlike' /\ Counted'
    BY <2>1, <2>4, LiveStays DEF Live
  <2>6. Programs1'
    BY <2>1, ProgramStays DEF CompileInv, Programs1, trees
  <2>7. Rests'
    BY <2>1, <2>3 DEF CompileInv, Rests, IsRest, CompileOf, Module
  <2>8. (phase' = "compile") => Modelled'
    <3>1. \A f : Paths(f)' = Paths(f) /\ Listed(models[f])' = Listed(models[f])
      BY <2>1 DEF Paths, Listed
    <3>2. \A f : {m \in Defs(f) : Passed(f, m)}' = {m \in Defs(f) : Passed(f, m)}
      BY <2>3, <2>4
    <3> QED
      BY <2>1, <2>3, <3>1, <3>2 DEF CompileInv, Modelled, trees
  <2>9. (phase' = "duplicate") => (\E file \in memo : ~Distinct(file))'
    BY <2>1, ProgramStays DEF CompileInv, trees
  <2> QED
    BY <2>2, <2>5, <2>6, <2>7, <2>8, <2>9 DEF CompileInv
<1> QED
  BY <1>1, <1>2, <1>3, <1>4, <1>5, <1>6, <1>7, <1>8, <1>9 DEF Next

LEMMA CompileInvariant == Spec => []CompileInv
<1> QED
  BY CompileInvKept, CompileInvInitially, PTL DEF Spec

(* A program is refused for a name that a module defines twice, and a      *)
(* Thrift is made of it only if no module does: not of the files compiled  *)
(* so far, but of all that the entry point reaches by includes.            *)
THEOREM DuplicatesAreRefused == Spec => [](DuplicatesRefused /\ (phase = "done" => memo = Reached))
<1>1. CompileInv => DuplicatesRefused /\ (phase = "done" => memo = Reached)
  <2> SUFFICES ASSUME CompileInv PROVE DuplicatesRefused /\ (phase = "done" => memo = Reached)
    OBVIOUS
  <2>1. program \in Programs /\ memo \subseteq DOMAIN program.files
    BY DEF CompileInv, Programs1, Reached
  <2>2. NoDuplicates <=> \A file \in memo : Distinct(file)
    BY <2>1, NoDuplicatesIs
  <2>3. phase = "duplicate" => ~NoDuplicates
    BY <2>2 DEF CompileInv
  <2>4. phase = "done" => NoDuplicates /\ memo = Reached
    BY <2>2, AllReached
  <2> QED
    BY <2>3, <2>4 DEF DuplicatesRefused
<1> QED
  BY <1>1, CompileInvariant, PTL

(* The result of a function, found by its path.                            *)
LEMMA ResultEntry ==
  ASSUME NEW file, NEW def, NEW files, WellFormed(def, files), def.kind = "service",
         NEW i \in 1 .. Len(def.functions)
  PROVE  LET f == def.functions[i]
         IN  Entries(file, def)[2 * i].def.fields = ResultFields(TreeOf(file, def, f), f)
<1> DEFINE n == Len(def.functions)
           at(k) == FunctionEntry(file, def.name, def.functions[(k + 1) \div 2],
                                  Structs[2 - (k % 2)])
           first == [k \in 1 .. 2 * n |-> at(k)]
           own == Defines(<<def.name>>, def)
<1>1. n \in Nat
  BY Sizes
<1>2. Entries(file, def) = first \o <<own>>
  BY DEF Entries, Both
<1>3. 2 * i \in 1 .. 2 * n /\ (2 * i + 1) \div 2 = i /\ 2 - ((2 * i) % 2) = 2
  <2>1. i \in 1 .. n
    OBVIOUS
  <2> HIDE DEF n
  <2> QED
    BY <1>1, <2>1
<1>4. at(2 * i) = FunctionEntry(file, def.name, def.functions[i], "result")
  BY <1>3 DEF Structs
<1> HIDE DEF at, own
<1>5. first \in Seq(Range(first)) /\ Len(first) = 2 * n
  <2>1. 2 * n \in Nat /\ DOMAIN first = 1 .. 2 * n
    BY <1>1
  <2>2. \A k \in 1 .. 2 * n : first[k] \in Range(first)
    BY <2>1 DEF Range
  <2>3. first = [k \in 1 .. 2 * n |-> first[k]]
    OBVIOUS
  <2> HIDE DEF first
  <2> QED
    BY <2>1, <2>2, <2>3
<1>6. first[2 * i] = at(2 * i)
  BY <1>3
<1> HIDE DEF first, n
<1>7. (first \o <<own>>)[2 * i] = first[2 * i]
  BY <1>1, <1>3, <1>5
<1>8. FunctionEntry(file, def.name, def.functions[i], "result").def.fields
            = ResultFields(TreeOf(file, def, def.functions[i]), def.functions[i])
  BY DEF FunctionEntry, Defines, Structure, TreeOf
<1> QED
  BY <1>2, <1>4, <1>6, <1>7, <1>8

LEMMA ResultFound ==
  ASSUME program \in Programs, NEW file \in DOMAIN program.files, Distinct(file),
         NEW m \in Defs(file), Is(file, m, "service"),
         NEW i \in 1 .. Len(Source(file)[m].functions)
  PROVE  LET def == Source(file)[m]
             f == def.functions[i]
         IN  Def(StructId(<<file, FunctionPath(def.name, f.name)>>, "result")).fields
                = ResultFields(TreeOf(file, def, f), f)
<1> DEFINE source == Source(file)
           def == source[m]
           f == def.functions[i]
           path == StructOf(FunctionPath(def.name, f.name), "result")
           entries == Entries(file, def)
<1>1. /\ WellFormed(def, program.files) /\ def.kind = "service"
      /\ DOMAIN source = Defs(file)
  BY Programmed DEF Is, Defs
<1>2. StructId(<<file, FunctionPath(def.name, f.name)>>, "result") = <<file, path>>
  BY DEF StructId
<1>3. path # <<>> /\ path[1] = def.name
  BY DEF StructOf, FunctionPath
<1>4. (CHOOSE l \in DOMAIN source : source[l].name = path[1]) = m
  BY <1>1, <1>3, NamesDiffer
<1>5. /\ 2 * i \in 1 .. Size(def) /\ PathAt(def, 2 * i) = path
      /\ DOMAIN entries = 1 .. Size(def)
      /\ \A k \in 1 .. Size(def) : entries[k].path = PathAt(def, k)
  BY <1>1, FunctionPaths, EntriesHavePaths
<1>6. (CHOOSE k \in DOMAIN entries : entries[k].path = path) = 2 * i
  <2>1. \A k \in 1 .. Size(def) : PathAt(def, k) = path => k = 2 * i
    BY <1>5 DEF Distinct
  <2> HIDE DEF entries, path
  <2> QED
    BY <1>5, <2>1
<1>7. entries[2 * i].def.fields = ResultFields(TreeOf(file, def, f), f)
  BY <1>1, ResultEntry
<1>8. Def(<<file, path>>) = entries[2 * i].def
  BY <1>3, <1>4, <1>6 DEF Def
<1> QED
  BY <1>2, <1>7, <1>8

(* The result of each function has its 'success' once in front of what it  *)
(* throws, for the first Thrift that is made of the trees, and once more   *)
(* for each Thrift after it: for all programs, and however many Thrifts    *)
(* are made.                                                               *)
THEOREM SuccessStaysInFront == Spec => []SuccessInFront
<1>1. ASSUME CompileInv, phase = "done", NEW file \in memo, NEW def \in Range(Source(file)),
             def.kind = "service", NEW f \in Range(def.functions)
      PROVE  Def(StructId(<<file, FunctionPath(def.name, f.name)>>, "result")).fields =
                [k \in 1 .. (IF f.throws = Null THEN 1 ELSE made) * Len(f.returns) |->
                    f.returns[1]] \o Thrown(f)
  <2>1. /\ file \in Reached /\ Distinct(file) /\ Counted
        /\ \A g \in Reached : Distinct(g)
        /\ \A m : Passed(file, m)
    BY <1>1, AllReached
  <2>2. program \in Programs /\ made \in Nat \ {0} /\ file \in DOMAIN program.files
    BY <1>1, <2>1 DEF CompileInv, Programs1, Reached
  <2>3. PICK m \in Defs(file) : def = Source(file)[m]
    BY DEF Range, Defs
  <2>4. WellFormed(def, program.files)
    BY <2>2, <2>3, Programmed
  <2>5. PICK i \in 1 .. Len(def.functions) : f = def.functions[i]
    BY <1>1, <2>4, Sizes DEF Range
  <2>6. Listed(f.returns) /\ Len(f.returns) <= 1 /\ (f.throws = Null \/ Listed(f.throws))
    BY <1>1, <2>4 DEF WellFormed, FieldsFormed
  <2>7. f.returns \in Seq(Range(f.returns)) /\ Len(f.returns) \in Nat
    BY <2>6 DEF Listed
  <2> DEFINE tree == TreeOf(file, def, f)
             left == Def(StructId(<<file, FunctionPath(def.name, f.name)>>, "result")).fields
  <2>8. left = Successes(tree, f) \o Thrown(f)
    BY <1>1, <2>1, <2>2, <2>3, <2>5, ResultFound DEF Is, ResultFields
  <2>9. Times(tree) = IF ~Unshifts(f) THEN 0 ELSE made
    BY <1>1, <2>1, <2>3 DEF Counted, Is, FunctionsOf
  <2> HIDE DEF tree, left
  <2>10. f.returns = <<>> \/ (Len(f.returns) = 1 /\ f.returns = <<f.returns[1]>>)
    <3> DEFINE s == f.returns
               S == Range(s)
    <3>1. s \in Seq(S) /\ Len(s) \in Nat /\ Len(s) <= 1
      BY <2>6, <2>7
    <3> HIDE DEF s, S
    <3>2. Len(s) = 0 \/ Len(s) = 1
      <4>1. \A l \in Nat : l <= 1 => l = 0 \/ l = 1
        OBVIOUS
      <4>2. Len(s) \in Nat /\ Len(s) <= 1
        BY <3>1
      <4> DEFINE l == Len(s)
      <4> HIDE DEF l
      <4> QED
        BY <4>1, <4>2 DEF l
    <3>3. s = <<>> \/ (Len(s) = 1 /\ s = <<s[1]>>)
      BY <3>1, <3>2
    <3> QED
      BY <3>3 DEF s
  <2>11. Successes(tree, f) = [k \in 1 .. (IF f.throws = Null THEN 1 ELSE made) * Len(f.returns)
                                    |-> f.returns[1]]
    <3>1. CASE f.throws = Null
      <4>1. Successes(tree, f) = f.returns
        BY <3>1 DEF Successes
      <4>2. f.returns = [k \in 1 .. Len(f.returns) |-> f.returns[1]]
        BY <2>10
      <4> QED
        BY <2>7, <3>1, <4>1, <4>2
    <3>2. CASE f.throws # Null
      <4>1. Successes(tree, f) = [k \in 1 .. Times(tree) |-> f.returns[1]]
        BY <3>2 DEF Successes, Times
      <4>2. Times(tree) = made * Len(f.returns)
        <5>1. CASE f.returns = <<>>
          BY <2>2, <2>9, <5>1 DEF Unshifts
        <5>2. CASE f.returns # <<>>
          <6>1. Unshifts(f) /\ Len(f.returns) = 1
            BY <2>10, <3>2, <5>2 DEF Unshifts
          <6> QED
            BY <2>2, <2>9, <6>1
        <5> QED
          BY <5>1, <5>2
      <4> QED
        BY <3>2, <4>1, <4>2
    <3> QED
      BY <3>1, <3>2
  <2> QED
    BY <2>8, <2>11 DEF left
<1>2. CompileInv => SuccessInFront
  BY <1>1 DEF SuccessInFront
<1> QED
  BY <1>2, CompileInvariant, PTL
=============================================================================
