--------------------------- MODULE ThriftLoad_proofs ---------------------------
(***************************************************************************)
(* The asynchronous loader on include graphs of every size and in every    *)
(* order of read completions: it answers once, with what the files         *)
(* determine, and is never stuck.                                          *)
(*                                                                         *)
(* A callback, one for each definition of a file, is a token: the loop     *)
(* hands it out, it is in flight, the load of a file holds it, or it is    *)
(* spent in 'called'.  A file whose load has begun owes its own callback   *)
(* until it is read, parsed and all its callbacks are spent, or one failed.*)
(* The files form a tree: a file hangs below the definition that was the   *)
(* first to include it, however the graph of includes looks.               *)
(***************************************************************************)
EXTENDS ThriftLoad, IncludeGraph_proofs, FiniteSetTheorems

Frames == 1 .. Len(stack)
Defs(f) == source[f].defs
Indexes(f) == 1 .. Len(Defs(f))
Good(f) == source[f].status = "good"
Token(f, i) == [file |-> f, index |-> i]

(* The call about to be made has the callback cb.                          *)
Flying(cb) == call.op \in {"load", "back"} /\ call.cb = cb

(* The asyncEach of a file has been started.                               *)
Begun(f) == shared[f].count # 0 \/ shared[f].done

(* The load of a file owes its callback.                                   *)
Waits(f) == \/ f \in reading
            \/ call.op = "includes" /\ call.file = f
            \/ shared[f].count # 0 /\ ~shared[f].done

(* A callback the loop has handed out.                                     *)
Used(cb) == cb \in called \/ Flying(cb) \/ \E f \in parsed : onLoad[f] = cb

(* The load of a file has gone well, for all that its callback says.       *)
Spent(f) == {i \in Indexes(f) : Token(f, i) \in called}
Complete(f) == Good(f) /\ f \in asts /\ Spent(f) = Indexes(f)
-----------------------------------------------------------------------------
(* The constructor's call of load is the first.                            *)
FirstCall == Root \in parsed \/ (parsed = {} /\ call = LoadCall(Root, User))

(* A file is read, then its includes are loaded, then its loop has begun.  *)
Phases == /\ \A f \in File \ parsed :
                ~Begun(f) /\ f \notin reading /\ ~(call.op = "includes" /\ call.file = f)
          /\ \A f \in File : Begun(f) =>
                /\ f \notin reading /\ ~(call.op = "includes" /\ call.file = f)
                /\ Good(f) /\ f \in asts
          /\ \A f \in reading : ~(call.op = "includes" /\ call.file = f)

(* The loops in progress are of different files.                           *)
Loops == /\ \A k \in Frames : Begun(stack[k].file) /\ stack[k].index >= 1
         /\ \A j, k \in Frames : stack[j].file = stack[k].file => j = k

(* Only a loop makes callbacks, and each once.                             *)
Tokens == /\ \A cb \in Callback : (Used(cb) /\ cb # User) =>
                /\ Begun(cb.file) /\ cb.index \in Indexes(cb.file)
                /\ \A k \in Frames : stack[k].file = cb.file => cb.index < stack[k].index
          /\ User \notin called

(* A file was first included by the definition whose callback it holds.    *)
Parents == \A f \in parsed :
              IF f = Root THEN onLoad[f] = User
              ELSE onLoad[f] # User /\ Defs(onLoad[f].file)[onLoad[f].index] = f

(* A call of load has a callback no other load holds.                      *)
Loading == call.op = "load" =>
              /\ call.file \in Reachable(source)
              /\ call.cb = User => call.file = Root /\ parsed = {}
              /\ call.cb # User => Defs(call.cb.file)[call.cb.index] = call.file
              /\ \A f \in parsed : onLoad[f] # call.cb

(* A callback is held, in flight or spent, one of these.                   *)
Backing == /\ \A f \in parsed : Waits(f) => ~Flying(onLoad[f]) /\ onLoad[f] \notin called
           /\ \A cb \in Callback : Flying(cb) => cb \notin called

(* The user's callback is owed as long as there is no answer.              *)
Asked == answers = <<>> <=> Flying(User) \/ (Root \in parsed /\ Waits(Root))

(* An error is one of the files that the entry point reaches.              *)
Truth == call.err => call.op = "back" /\ ~Loadable(source)
Reached == parsed \subseteq Reachable(source)

(* 'count' is the number of callbacks that are not spent.                  *)
Counted == \A f \in File : Begun(f) =>
              shared[f].count + Cardinality(Spent(f)) = Len(Defs(f))

(* A callback is spent, or about to be spent without error, when the load  *)
(* of its file has begun; if it is the one that load holds, when it ended. *)
Delivered(cb) == cb \in called \/ (call.op = "back" /\ call.cb = cb /\ ~call.err)
SpentWhenParsed ==
    \A f \in File : \A i \in Indexes(f) :
        Delivered(Token(f, i)) => Defs(f)[i] \in {Other} \cup parsed
Succeeded == \A f \in parsed : Delivered(onLoad[f]) => Complete(f)

(* Until one fails, every callback has yet to be handed out, is in flight, *)
(* held or spent: none is lost.                                            *)
Handed ==
    \A f \in File : Begun(f) /\ ~shared[f].done =>
        \A i \in Indexes(f) :
            \/ Token(f, i) \in called
            \/ Flying(Token(f, i))
            \/ \E g \in parsed : onLoad[g] = Token(f, i) /\ Waits(g)
            \/ \E k \in Frames : stack[k].file = f /\ stack[k].index <= i

(* The tree of files hangs together, and any part of it has a leaf.        *)
Below(f, g) == g # Root /\ onLoad[g].file = f
Tree == \A S \in SUBSET File :
            (Root \in S /\ \A f \in S, g \in parsed : Below(f, g) => g \in S)
                => parsed \subseteq S
Leaves == \A S \in SUBSET parsed :
              S # {} => \E f \in S : \A g \in S : ~Below(f, g)

(* The answer is that of the promise, and success ends the load.           *)
Truthful == answers = <<>> \/ answers = <<Promise!Result>>
Finished == answers = <<"thrift">> =>
               /\ call = Idle /\ reading = {}
               /\ parsed = Reachable(source) /\ \A f \in parsed : Complete(f)

IInv == /\ TypeOK /\ FirstCall /\ Phases /\ Loops /\ Tokens /\ Parents /\ Loading
        /\ Backing /\ Asked /\ Truth /\ Reached /\ Counted /\ SpentWhenParsed
        /\ Succeeded /\ Handed /\ Tree /\ Leaves /\ Truthful /\ Finished
-----------------------------------------------------------------------------
(* The definitions of the promise are those of this module.                *)
LEMMA SamePromise ==
  Promise!Result = IF Loadable(source) /\ linkable THEN "thrift" ELSE "error"
<1>1. \A f : Promise!Included(source, f) = Included(source, f)
  BY DEF Promise!Included, Included
<1>2. \A S : Promise!Closed(source, S) <=> Closed(source, S)
  BY <1>1 DEF Promise!Closed, Closed
<1>3. Promise!Reachable(source) = Reachable(source)
  BY <1>2 DEF Promise!Reachable, Reachable
<1>4. Promise!Loadable(source) <=> Loadable(source)
  BY <1>3 DEF Promise!Loadable, Loadable
<1> QED
  BY <1>4 DEF Promise!Result

(* A callback is that of the constructor or that of a definition.          *)
LEMMA Callbacks ==
  /\ User \in Callback /\ User.file = Root /\ User.index = 0
  /\ \A f \in File, i \in Nat : /\ Token(f, i) \in Callback
                                /\ Token(f, i).file = f /\ Token(f, i).index = i
                                /\ i # 0 => Token(f, i) # User
  /\ \A cb \in Callback : /\ cb.file \in File /\ cb.index \in Nat
                          /\ cb = Token(cb.file, cb.index)
BY RootAssumption DEF User, Token, Callback

(* The calls that the loader makes, field by field.                        *)
LEMMA Calls ==
  /\ Idle \in Call /\ Idle.op = "idle" /\ Idle.err = FALSE
  /\ \A f \in File, cb \in Callback :
        LET made == LoadCall(f, cb) IN
        made \in Call /\ made.op = "load" /\ made.file = f /\ made.cb = cb /\ ~made.err
  /\ \A f \in File :
        LET made == IncludesCall(f) IN
        made \in Call /\ made.op = "includes" /\ made.file = f /\ ~made.err
  /\ \A cb \in Callback, err \in BOOLEAN :
        LET made == BackCall(cb, err) IN
        made \in Call /\ made.op = "back" /\ made.cb = cb /\ made.err = err
<1>1. Root \in File /\ User \in Callback
  BY RootAssumption, Callbacks
<1>2. Idle \in Call /\ Idle.op = "idle" /\ Idle.err = FALSE
  BY <1>1 DEF Idle, Call
<1>3. \A f \in File, cb \in Callback :
        LET made == LoadCall(f, cb) IN
        made \in Call /\ made.op = "load" /\ made.file = f /\ made.cb = cb /\ ~made.err
  BY <1>1 DEF LoadCall, Call
<1>4. \A f \in File :
        LET made == IncludesCall(f) IN
        made \in Call /\ made.op = "includes" /\ made.file = f /\ ~made.err
  BY <1>1 DEF IncludesCall, Call
<1>5. \A cb \in Callback, err \in BOOLEAN :
        LET made == BackCall(cb, err) IN
        made \in Call /\ made.op = "back" /\ made.cb = cb /\ made.err = err
  BY <1>1 DEF BackCall, Call
<1> QED
  BY <1>2, <1>3, <1>4, <1>5

(* What a parsed file holds: the user's callback, or that of a definition. *)
LEMMA Held ==
  ASSUME IInv, NEW f \in parsed
  PROVE  /\ f \in File /\ onLoad[f] \in Callback /\ onLoad[f].file \in parsed
         /\ f = Root => onLoad[f] = User
         /\ f # Root => /\ onLoad[f] # User
                        /\ Begun(onLoad[f].file)
                        /\ onLoad[f].index \in Indexes(onLoad[f].file)
                        /\ Defs(onLoad[f].file)[onLoad[f].index] = f
         /\ \A g \in parsed : onLoad[g] = onLoad[f] => g = f
<1>1. /\ f \in File /\ onLoad[f] \in Callback
      /\ \A g \in parsed : g \in File /\ onLoad[g] \in Callback
  BY DEF IInv, TypeOK
<1>2. /\ f = Root => onLoad[f] = User
      /\ f # Root => onLoad[f] # User /\ Defs(onLoad[f].file)[onLoad[f].index] = f
      /\ \A g \in parsed : onLoad[g] = onLoad[f] => g = f
  BY <1>1 DEF IInv, Parents
<1>3. f # Root => Begun(onLoad[f].file) /\ onLoad[f].index \in Indexes(onLoad[f].file)
  BY <1>1, <1>2 DEF IInv, Tokens, Used
<1>4. onLoad[f].file \in parsed
  <2>1. CASE f = Root
    BY <1>2, <2>1, Callbacks
  <2>2. CASE f # Root
    BY <1>1, <1>3, <2>2, Callbacks DEF IInv, Phases
  <2> QED
    BY <2>1, <2>2
<1> QED
  BY <1>1, <1>2, <1>3, <1>4

LEMMA Initially == Init => IInv
<1> SUFFICES ASSUME Init PROVE IInv
  OBVIOUS
<1> USE DEF Init
<1>1. TypeOK
  <2>1. User \in Callback /\ call \in Call
    BY RootAssumption, Callbacks DEF LoadCall, Idle, Call
  <2>2. /\ onLoad \in [File -> Callback]
        /\ shared \in [File -> [done : BOOLEAN, count : Nat]]
    BY <2>1
  <2> QED
    BY <2>1, <2>2 DEF TypeOK
<1>2. /\ call.op = "load" /\ call.cb = User /\ call.file = Root /\ ~call.err
      /\ \A f \in File : ~Begun(f) /\ ~Waits(f)
      /\ Frames = {}
      /\ \A cb : Flying(cb) <=> cb = User
      /\ \A cb : Used(cb) <=> cb = User
  BY DEF Begun, Waits, Frames, Flying, Used, LoadCall, Idle
<1>3. FirstCall /\ Phases /\ Loops /\ Parents /\ Backing /\ Handed
  BY <1>2 DEF FirstCall, Phases, Loops, Parents, Backing, Handed
<1>4. Tokens /\ Loading /\ Asked /\ Truth
  BY <1>2, Callbacks, RootReached DEF Tokens, Loading, Asked, Truth
<1>5. Reached /\ Counted /\ SpentWhenParsed /\ Succeeded
  BY <1>2 DEF Reached, Counted, SpentWhenParsed, Succeeded, Delivered
<1>6. Tree /\ Leaves /\ Truthful /\ Finished
  BY DEF Tree, Leaves, Truthful, Finished
<1> QED
  BY <1>1, <1>2, <1>3, <1>4, <1>5, <1>6 DEF IInv

(* A file that was loaded already: its callback is called at once.         *)
LEMMA KeepsWhenLoadedAgain ==
  ASSUME IInv, LoadAgain PROVE IInv'
<1>1. /\ call \in Call /\ call.op = "load" /\ call.file \in parsed
      /\ UNCHANGED <<source, linkable, parsed, idls, asts, reading, onLoad, shared,
                     called, stack, answers>>
      /\ call' = [op |-> "back", file |-> Root, cb |-> call.cb, err |-> FALSE]
  BY DEF LoadAgain, IInv, TypeOK, AnswerAgain, BackCall, Idle, model, each
<1>2. /\ call'.op = "back" /\ call'.cb = call.cb /\ ~call'.err /\ call.cb \in Callback
  BY <1>1 DEF Call
<1>3. /\ \A f : Waits(f)' <=> Waits(f)
      /\ \A f : Begun(f)' <=> Begun(f)
      /\ \A cb : Flying(cb)' <=> Flying(cb)
      /\ \A cb : Used(cb)' <=> Used(cb)
      /\ \A cb : Delivered(cb)' <=> cb \in called \/ cb = call.cb
      /\ \A f : Complete(f)' <=> Complete(f)
  BY <1>1, <1>2 DEF Waits, Begun, Flying, Used, Delivered, Complete, Good, Spent,
     Indexes, Defs, Token
<1>4. TypeOK'
  BY <1>1, RootAssumption DEF IInv, TypeOK, Call
<1>5. FirstCall' /\ Phases' /\ Loops'
  BY <1>1, <1>2, <1>3 DEF IInv, FirstCall, Phases, Loops, Frames, Good
<1>6. Tokens' /\ Parents' /\ Loading' /\ Backing'
  BY <1>1, <1>2, <1>3 DEF IInv, Tokens, Parents, Loading, Backing, Frames, Indexes, Defs
<1>7. Asked' /\ Truth' /\ Reached' /\ Counted'
  BY <1>1, <1>2, <1>3 DEF IInv, Asked, Truth, Reached, Counted, Spent, Indexes, Defs, Token
<1>8. SpentWhenParsed'
  <2> SUFFICES ASSUME NEW f \in File, NEW i \in Indexes(f), Delivered(Token(f, i))'
               PROVE  Defs(f)[i] \in {Other} \cup parsed
    BY <1>1 DEF SpentWhenParsed, Indexes, Defs, Token
  <2>1. CASE Token(f, i) \in called
    BY <2>1 DEF IInv, SpentWhenParsed, Delivered
  <2>2. CASE Token(f, i) = call.cb
    <3>1. i \in Nat /\ i # 0
      BY DEF Indexes
    <3>2. call.cb # User /\ call.cb.file = f /\ call.cb.index = i
      BY <2>2, <3>1, Callbacks
    <3> QED
      BY <1>1, <3>2 DEF IInv, Loading
  <2> QED
    BY <1>3, <2>1, <2>2
<1>9. Succeeded'
  BY <1>1, <1>2, <1>3 DEF IInv, Succeeded, Loading, Delivered
<1>10. Handed'
  BY <1>1, <1>3 DEF IInv, Handed, Frames, Indexes, Defs, Token
<1>11. Tree' /\ Leaves'
  BY <1>1 DEF IInv, Tree, Leaves, Below
<1>12. Truthful' /\ Finished'
  BY <1>1 DEF IInv, Truthful, Finished, Idle, Promise!Result
<1> QED
  BY <1>4, <1>5, <1>6, <1>7, <1>8, <1>9, <1>10, <1>11, <1>12 DEF IInv

(* The load of a new file: the file takes over the callback of the call.   *)
LEMMA KeepsWhenLoadedFirst ==
  ASSUME IInv, LoadFirst PROVE IInv'
<1>f. /\ call \in Call /\ call.op = "load" /\ call.file \notin parsed
      /\ parsed \subseteq File /\ source \in Sources
      /\ call.file \in File /\ call.cb \in Callback
  BY DEF LoadFirst, IInv, TypeOK, Call
<1>p. PICK f \in File, cb \in Callback : f = call.file /\ cb = call.cb
  BY <1>f
<1>1. /\ call.op = "load" /\ f \notin parsed /\ source \in Sources
      /\ f \in Reachable(source) /\ \A g \in parsed : g \in File /\ onLoad[g] # cb
      /\ ~Begun(f) /\ f \notin reading /\ cb \notin called
  <2> Flying(cb)
    BY <1>f, <1>p DEF Flying
  <2> QED
    BY <1>f, <1>p DEF IInv, Loading, Phases, Backing
<1>2. /\ parsed' = parsed \cup {f}
      /\ onLoad' = [onLoad EXCEPT ![f] = cb]
      /\ UNCHANGED <<source, linkable, asts, shared, called, stack, answers>>
      /\ idls' \in {idls, idls \cup {f}}
      /\ \/ /\ call' = IncludesCall(f)
            /\ reading' = reading
         \/ /\ call' = Idle
            /\ reading' = reading \cup {f}
         \/ /\ call' = BackCall(cb, TRUE)
            /\ reading' = reading
            /\ ~Good(f)
  <2>1. onLoad'[f] = cb
    BY <1>p DEF LoadFirst, IInv, TypeOK
  <2> QED
    BY <1>p, <2>1 DEF LoadFirst, Marked, Receive, each, Good
<1>3. /\ onLoad' \in [File -> Callback] /\ onLoad'[f] = cb
      /\ \A g \in parsed : g # f /\ onLoad'[g] = onLoad[g]
  BY <1>1, <1>2 DEF IInv, TypeOK
<1>4. cb = User <=> f = Root
  BY <1>1, <1>p DEF IInv, Loading, FirstCall, LoadCall
<1>5. /\ call' \in Call
       /\ \/ call'.op = "includes" /\ call'.file = f /\ ~call'.err /\ reading' = reading
          \/ call'.op = "idle" /\ ~call'.err /\ reading' = reading \cup {f}
          \/ /\ call'.op = "back" /\ call'.cb = cb /\ call'.err
             /\ reading' = reading /\ ~Good(f)
  <2>1. CASE call' = IncludesCall(f) /\ reading' = reading
    BY <1>1, <2>1, Calls
  <2>2. CASE call' = Idle /\ reading' = reading \cup {f}
    BY <1>1, <2>2, Calls
  <2>3. CASE call' = BackCall(cb, TRUE) /\ reading' = reading /\ ~Good(f)
    BY <1>1, <2>3, Calls
  <2> QED
    BY <1>2, <2>1, <2>2, <2>3
<1>6. /\ \A g \in File : Begun(g)' <=> Begun(g)
      /\ \A g \in File : g # f => (Waits(g)' <=> Waits(g))
      /\ \A x : Flying(x) <=> x = cb
      /\ \A x : Flying(x)' <=> (call'.op = "back" /\ x = cb)
      /\ Waits(f)' <=> call'.op # "back"
  <2>1. \A g \in File : Begun(g)' <=> Begun(g)
    BY <1>2 DEF Begun
  <2>2. \A g \in File : g # f => (Waits(g)' <=> Waits(g))
    BY <1>1, <1>2, <1>5 DEF Waits
  <2>3. /\ \A x : Flying(x) <=> x = cb
        /\ \A x : Flying(x)' <=> (call'.op = "back" /\ x = cb)
    BY <1>1, <1>p, <1>5 DEF Flying
  <2>4. Waits(f)' <=> call'.op # "back"
    BY <1>1, <1>2, <1>5 DEF Begun, Waits
  <2> QED
    BY <2>1, <2>2, <2>3, <2>4
<1>7. \A x : Used(x)' <=> Used(x)
  BY <1>2, <1>3, <1>6 DEF Used
<1>8. TypeOK'
  <2>1. /\ parsed' \subseteq File /\ idls' \subseteq File /\ reading' \subseteq parsed'
    BY <1>1, <1>2, <1>5 DEF IInv, TypeOK
  <2> QED
    BY <1>2, <1>3, <1>5, <2>1 DEF IInv, TypeOK
<1>9. FirstCall' /\ Phases' /\ Loops'
  <2>1. FirstCall'
    BY <1>1, <1>2, <1>p DEF IInv, FirstCall, LoadCall
  <2>2. Phases'
    BY <1>1, <1>2, <1>5, <1>6 DEF IInv, Phases, Good
  <2>3. Loops'
    BY <1>2, <1>6 DEF IInv, Loops, Frames, TypeOK, Begun
  <2> QED
    BY <2>1, <2>2, <2>3
<1>10. Tokens'
  BY <1>2, <1>7 DEF IInv, Tokens, Begun, Frames, Indexes, Defs
<1>11. Parents'
  BY <1>1, <1>2, <1>3, <1>4, <1>p DEF IInv, Parents, Loading, Defs
<1>12. Loading' /\ Truth' /\ Reached'
  <2>1. Loading'
    BY <1>5 DEF Loading
  <2>2. ~Good(f) => ~Loadable(source)
    BY <1>1 DEF Loadable, Good
  <2> QED
    BY <1>1, <1>2, <1>5, <2>1, <2>2 DEF Truth, IInv, Reached
<1>13. Backing'
  BY <1>1, <1>2, <1>3, <1>6 DEF IInv, Backing
<1>14. Asked'
  BY <1>1, <1>2, <1>4, <1>6, RootAssumption DEF IInv, Asked
<1>15. Counted'
  BY <1>2 DEF IInv, Counted, Begun, Spent, Indexes, Defs, Token
<1>16. SpentWhenParsed' /\ Succeeded'
  <2>1. /\ \A x : Delivered(x) <=> x \in called
        /\ \A x : Delivered(x)' <=> x \in called
    BY <1>1, <1>2, <1>5 DEF Delivered
  <2>2. SpentWhenParsed'
    BY <1>2, <2>1 DEF IInv, SpentWhenParsed, Indexes, Defs, Token
  <2>3. Succeeded'
    BY <1>1, <1>2, <1>3, <2>1 DEF IInv, Succeeded, Complete, Good, Spent, Indexes, Defs, Token
  <2> QED
    BY <2>2, <2>3
<1>17. Handed'
  <2> SUFFICES ASSUME NEW h \in File, Begun(h), ~shared[h].done, NEW i \in Indexes(h)
               PROVE  \/ Token(h, i) \in called
                      \/ Flying(Token(h, i))'
                      \/ \E g \in parsed' : onLoad'[g] = Token(h, i) /\ Waits(g)'
                      \/ \E k \in Frames : stack[k].file = h /\ stack[k].index <= i
    BY <1>2, <1>6 DEF Handed, Frames, Indexes, Defs, Token
  <2>1. \/ Token(h, i) \in called
        \/ Flying(Token(h, i))
        \/ \E g \in parsed : onLoad[g] = Token(h, i) /\ Waits(g)
        \/ \E k \in Frames : stack[k].file = h /\ stack[k].index <= i
    BY DEF IInv, Handed
  <2> QED
    BY <1>1, <1>2, <1>3, <1>6, <2>1
<1>18. f = Root \/ cb.file \in parsed
  BY <1>1, <1>4, <1>6, Callbacks DEF IInv, Tokens, Used, Phases
<1>19. Tree'
  <2> SUFFICES ASSUME NEW S \in SUBSET File, Root \in S,
                      \A h \in S, g \in parsed' : Below(h, g)' => g \in S
               PROVE  parsed' \subseteq S
    BY DEF Tree
  <2>1. parsed \subseteq S
    BY <1>2, <1>3 DEF IInv, Tree, Below
  <2>2. f \in S
    BY <1>2, <1>3, <1>18, <2>1 DEF Below
  <2> QED
    BY <1>2, <2>1, <2>2
<1>20. Leaves'
  <2> SUFFICES ASSUME NEW S \in SUBSET parsed', S # {}
               PROVE  \E h \in S : \A g \in S : ~Below(h, g)'
    BY DEF Leaves
  <2>1. CASE f \in S
    <3>1. \A g \in parsed : onLoad'[g].file # f
      BY <1>1, <1>3, Held
    <3> QED
      BY <1>1, <1>2, <1>3, <1>18, <2>1, <3>1 DEF Below
  <2>2. CASE f \notin S
    BY <1>2, <1>3, <2>2 DEF IInv, Leaves, Below
  <2> QED
    BY <2>1, <2>2
<1>21. Truthful' /\ Finished'
  BY <1>1, <1>2 DEF IInv, Truthful, Finished, Idle, Promise!Result
<1> QED
  BY <1>8, <1>9, <1>10, <1>11, <1>12, <1>13, <1>14, <1>15, <1>16, <1>17, <1>19, <1>20,
     <1>21 DEF IInv

(* The event loop: a file is read, or cannot be.                           *)
LEMMA KeepsWhenDelivered ==
  ASSUME IInv, NEW f \in File, Deliver(f) PROVE IInv'
<1> DEFINE cb == onLoad[f]
<1>1. /\ call = Idle /\ call.op = "idle" /\ f \in reading /\ f \in parsed
      /\ source \in Sources /\ f \in Reachable(source) /\ ~Begun(f) /\ cb \in Callback
      /\ cb \notin called /\ stack = <<>>
  <2>1. call = Idle /\ f \in reading /\ f \in parsed /\ source \in Sources /\ cb \in Callback
        /\ stack = <<>>
    BY DEF Deliver, IInv, TypeOK
  <2>2. Waits(f)
    BY <2>1 DEF Waits
  <2> QED
    BY <2>1, <2>2, Calls DEF IInv, Reached, Phases, Backing
<1>2. /\ reading' = reading \ {f}
      /\ UNCHANGED <<source, linkable, parsed, asts, shared, called, stack, answers, onLoad>>
      /\ idls' \in {idls, idls \cup {f}}
      /\ \/ call' = IncludesCall(f)
         \/ call' = BackCall(cb, TRUE) /\ ~Good(f)
  BY DEF Deliver, Receive, each, Good
<1>3. /\ call' \in Call
      /\ \/ call'.op = "includes" /\ call'.file = f /\ ~call'.err
         \/ call'.op = "back" /\ call'.cb = cb /\ call'.err /\ ~Good(f)
  <2>1. CASE call' = IncludesCall(f)
    BY <1>1, <2>1, Calls
  <2>2. CASE call' = BackCall(cb, TRUE) /\ ~Good(f)
    BY <1>1, <2>2, Calls
  <2> QED
    BY <1>2, <2>1, <2>2
<1>4. /\ \A g \in File : Begun(g)' <=> Begun(g)
      /\ \A g \in File : g # f => (Waits(g)' <=> Waits(g))
      /\ \A x : ~Flying(x)
      /\ \A x : Flying(x)' <=> (call'.op = "back" /\ x = cb)
      /\ Waits(f) /\ (Waits(f)' <=> call'.op # "back")
  <2>1. \A g \in File : Begun(g)' <=> Begun(g)
    BY <1>2 DEF Begun
  <2>2. \A g \in File : g # f => (Waits(g)' <=> Waits(g))
    BY <1>1, <1>2, <1>3 DEF Waits
  <2>3. /\ \A x : ~Flying(x)
        /\ \A x : Flying(x)' <=> (call'.op = "back" /\ x = cb)
    BY <1>1, <1>2, <1>3 DEF Flying
  <2>4. Waits(f) /\ (Waits(f)' <=> call'.op # "back")
    BY <1>1, <1>2, <1>3 DEF Begun, Waits
  <2> QED
    BY <2>1, <2>2, <2>3, <2>4
<1>5. \A x : Used(x)' <=> Used(x)
  BY <1>1, <1>2, <1>4 DEF Used
<1>6. \A g \in parsed : onLoad[g] = cb => g = f
  BY <1>1, Held
<1>7. TypeOK'
  BY <1>1, <1>2, <1>3 DEF IInv, TypeOK
<1>8. FirstCall' /\ Phases' /\ Loops'
  <2>1. FirstCall'
    BY <1>1, <1>2 DEF IInv, FirstCall
  <2>2. Phases'
    BY <1>1, <1>2, <1>3, <1>4 DEF IInv, Phases, Good
  <2>3. Loops'
    BY <1>2, <1>4 DEF IInv, Loops, Frames, TypeOK, Begun
  <2> QED
    BY <2>1, <2>2, <2>3
<1>9. Tokens'
  BY <1>2, <1>5 DEF IInv, Tokens, Begun, Frames, Indexes, Defs
<1>10. Parents'
  BY <1>1, <1>2 DEF IInv, Parents, Defs
<1>11. Loading' /\ Truth' /\ Reached'
  <2>1. ~Good(f) => ~Loadable(source)
    BY <1>1 DEF Loadable, Good
  <2> QED
    BY <1>1, <1>2, <1>3, <2>1 DEF Loading, Truth, IInv, Reached
<1>12. Backing'
  BY <1>1, <1>2, <1>3, <1>4, <1>6 DEF IInv, Backing, TypeOK
<1>13. Asked'
  <2>1. f = Root <=> cb = User
    BY <1>1, Held
  <2> QED
    BY <1>1, <1>2, <1>4, <2>1, RootAssumption DEF IInv, Asked
<1>14. Counted'
  BY <1>2 DEF IInv, Counted, Begun, Spent, Indexes, Defs, Token
<1>15. SpentWhenParsed' /\ Succeeded'
  <2>1. /\ \A x : Delivered(x) <=> x \in called
        /\ \A x : Delivered(x)' <=> x \in called
    BY <1>1, <1>2, <1>3 DEF Delivered
  <2>2. SpentWhenParsed'
    BY <1>2, <2>1 DEF IInv, SpentWhenParsed, Indexes, Defs, Token
  <2>3. Succeeded'
    BY <1>1, <1>2, <2>1 DEF IInv, Succeeded, Complete, Good, Spent, Indexes, Defs, Token
  <2> QED
    BY <2>2, <2>3
<1>16. Handed'
  <2> SUFFICES ASSUME NEW h \in File, Begun(h), ~shared[h].done, NEW i \in Indexes(h)
               PROVE  \/ Token(h, i) \in called
                      \/ Flying(Token(h, i))'
                      \/ \E g \in parsed : onLoad[g] = Token(h, i) /\ Waits(g)'
                      \/ \E k \in Frames : stack[k].file = h /\ stack[k].index <= i
    BY <1>2, <1>4 DEF Handed, Frames, Indexes, Defs, Token
  <2>1. \/ Token(h, i) \in called
        \/ \E g \in parsed : onLoad[g] = Token(h, i) /\ Waits(g)
        \/ \E k \in Frames : stack[k].file = h /\ stack[k].index <= i
    BY <1>4 DEF IInv, Handed
  <2>2. parsed \subseteq File
    BY DEF IInv, TypeOK
  <2> QED
    BY <1>4, <2>1, <2>2
<1>17. Tree' /\ Leaves'
  BY <1>2 DEF IInv, Tree, Leaves, Below
<1>18. Truthful' /\ Finished'
  BY <1>1, <1>2 DEF IInv, Truthful, Finished, Promise!Result
<1> QED
  BY <1>7, <1>8, <1>9, <1>10, <1>11, <1>12, <1>13, <1>14, <1>15, <1>16, <1>17, <1>18
     DEF IInv

(* loadIncludedModules: the file is refused, has no definitions, or its    *)
(* loop begins.                                                            *)
LEMMA KeepsWhenIncluding ==
  ASSUME IInv, LoadIncludedModules PROVE IInv'
<1>c. call \in Call /\ call.op = "includes" /\ call.file \in File /\ call.file \in parsed
  <2>1. call \in Call /\ call.op = "includes" /\ call.file \in File
    BY DEF LoadIncludedModules, IInv, TypeOK, Call
  <2> QED
    BY <2>1 DEF IInv, Phases
<1>p. PICK f \in parsed, cb \in Callback : f = call.file /\ cb = onLoad[f]
  BY <1>c, Held
<1>1. /\ call.op = "includes" /\ f \in File /\ f \notin reading
      /\ source \in Sources /\ f \in Reachable(source) /\ ~Begun(f) /\ Waits(f)
      /\ cb \notin called /\ ~call.err
  <2>1. Waits(f)
    BY <1>c, <1>p DEF Waits
  <2> QED
    BY <1>c, <1>p, <2>1 DEF IInv, TypeOK, Reached, Phases, Backing, Truth
<1>2. /\ UNCHANGED <<source, linkable, parsed, idls, reading, onLoad, called, answers>>
      /\ asts' \in {asts, asts \cup {f}} /\ (Good(f) => f \in asts')
      /\ \/ /\ ~Good(f) /\ call' = BackCall(cb, TRUE)
            /\ UNCHANGED <<shared, stack>>
         \/ /\ Good(f) /\ Defs(f) = <<>> /\ call' = BackCall(cb, FALSE)
            /\ UNCHANGED <<shared, stack>>
         \/ /\ Good(f) /\ Defs(f) # <<>> /\ call' = Idle
            /\ shared' = [shared EXCEPT ![f] = [done |-> FALSE, count |-> Len(Defs(f))]]
            /\ stack' = Append(stack, Token(f, 1))
  BY <1>p DEF LoadIncludedModules, Parses, Accepted, Good, Defs, Token
<1>3. /\ Defs(f) \in Seq(File \cup {Other}) /\ Len(Defs(f)) \in Nat
      /\ Defs(f) = <<>> => Indexes(f) = {}
      /\ Defs(f) # <<>> => Len(Defs(f)) # 0
  BY <1>1, Files DEF Defs, Indexes
<1>4. /\ shared \in [File -> [done : BOOLEAN, count : Nat]]
      /\ shared' \in [File -> [done : BOOLEAN, count : Nat]]
      /\ \A g \in File : g # f => shared'[g] = shared[g]
  <2>1. shared \in [File -> [done : BOOLEAN, count : Nat]]
    BY DEF IInv, TypeOK
  <2>2. [done |-> FALSE, count |-> Len(Defs(f))] \in [done : BOOLEAN, count : Nat]
    BY <1>3
  <2>3. \/ shared' = shared
        \/ shared' = [shared EXCEPT ![f] = [done |-> FALSE, count |-> Len(Defs(f))]]
    BY <1>2
  <2> QED
    BY <1>1, <2>1, <2>2, <2>3
<1>5. /\ call' \in Call
      /\ \/ /\ call'.op = "back" /\ call'.cb = cb /\ (call'.err <=> ~Good(f))
            /\ UNCHANGED <<shared, stack>> /\ (Good(f) => Defs(f) = <<>>)
         \/ /\ call'.op = "idle" /\ ~call'.err /\ Good(f) /\ call' = Idle
            /\ ~shared'[f].done /\ shared'[f].count = Len(Defs(f)) /\ Len(Defs(f)) # 0
            /\ stack' = Append(stack, Token(f, 1))
  <2>1. CASE ~Good(f) /\ call' = BackCall(cb, TRUE) /\ UNCHANGED <<shared, stack>>
    BY <2>1, Calls
  <2>2. CASE /\ Good(f) /\ Defs(f) = <<>> /\ call' = BackCall(cb, FALSE)
             /\ UNCHANGED <<shared, stack>>
    BY <2>2, Calls
  <2>3. CASE /\ Good(f) /\ Defs(f) # <<>> /\ call' = Idle
             /\ shared' = [shared EXCEPT ![f] = [done |-> FALSE, count |-> Len(Defs(f))]]
             /\ stack' = Append(stack, Token(f, 1))
    BY <1>1, <1>3, <1>4, <2>3, Calls
  <2> QED
    BY <1>2, <2>1, <2>2, <2>3
<1>6. /\ \A g \in File : g # f => (Begun(g)' <=> Begun(g)) /\ (Waits(g)' <=> Waits(g))
      /\ \A x : ~Flying(x)
      /\ \A x : Flying(x)' <=> (call'.op = "back" /\ x = cb)
      /\ (Begun(f)' <=> call'.op = "idle") /\ (Waits(f)' <=> call'.op = "idle")
  <2>1. \A g \in File : g # f => (Begun(g)' <=> Begun(g)) /\ (Waits(g)' <=> Waits(g))
    BY <1>1, <1>2, <1>p, <1>4, <1>5 DEF Begun, Waits
  <2>2. /\ \A x : ~Flying(x)
        /\ \A x : Flying(x)' <=> (call'.op = "back" /\ x = cb)
    BY <1>1, <1>5 DEF Flying
  <2>3. (Begun(f)' <=> call'.op = "idle") /\ (Waits(f)' <=> call'.op = "idle")
    BY <1>1, <1>2, <1>5 DEF Begun, Waits
  <2> QED
    BY <2>1, <2>2, <2>3
<1>7. \A x : Used(x)' <=> Used(x)
  BY <1>p, <1>2, <1>6 DEF Used
<1>8. \A g \in parsed : onLoad[g] = cb => g = f
  BY <1>p, Held
<1>9. /\ stack' \in Seq(Callback)
      /\ \/ stack' = stack
         \/ /\ Len(stack) \in Nat /\ Len(stack') = Len(stack) + 1
            /\ \A k \in 1 .. Len(stack) : stack'[k] = stack[k]
            /\ stack'[Len(stack) + 1] = Token(f, 1)
            /\ call'.op = "idle"
  <2>1. stack \in Seq(Callback) /\ Token(f, 1) \in Callback
    BY <1>1, Callbacks DEF IInv, TypeOK
  <2>2. CASE stack' = stack
    BY <2>1, <2>2
  <2>3. CASE stack' = Append(stack, Token(f, 1)) /\ call'.op = "idle"
    BY <2>1, <2>3
  <2> QED
    BY <1>5, <2>2, <2>3
<1>10. \A k \in Frames : stack[k] \in Callback /\ stack[k].file # f
  <2>1. stack \in Seq(Callback)
    BY DEF IInv, TypeOK
  <2> QED
    BY <1>1, <2>1, ElementOfSeq DEF IInv, Loops, Frames
<1>11. Token(f, 1).file = f /\ Token(f, 1).index = 1
  BY <1>1, Callbacks
<1>12. TypeOK'
  BY <1>1, <1>2, <1>4, <1>5, <1>9 DEF IInv, TypeOK
<1>13. FirstCall' /\ Phases'
  <2>1. FirstCall'
    BY <1>1, <1>2, <1>p DEF IInv, FirstCall, LoadCall
  <2>2. Phases'
    BY <1>1, <1>2, <1>5, <1>6, <1>p DEF IInv, Phases, Good
  <2> QED
    BY <2>1, <2>2
<1>14. Loops'
  <2>1. CASE stack' = stack
    <3>1. \A k \in Frames : stack[k].file \in File /\ stack[k].file # f
      BY <1>10, Callbacks
    <3>2. \A k \in Frames : shared'[stack[k].file] = shared[stack[k].file]
      BY <1>4, <3>1
    <3> QED
      BY <2>1, <3>2 DEF IInv, Loops, Frames, Begun
  <2>2. CASE stack' # stack
    <3>1. \A k \in 1 .. Len(stack) : shared'[stack[k].file] = shared[stack[k].file]
      BY <1>4, <1>10, Callbacks DEF Frames
    <3>2. shared'[f].count # 0
      BY <1>5, <1>9, <2>2
    <3>3. \A k \in 1 .. Len(stack) + 1 :
             /\ shared'[stack'[k].file].count # 0 \/ shared'[stack'[k].file].done
             /\ stack'[k].index >= 1
      BY <1>9, <1>11, <2>2, <3>1, <3>2 DEF IInv, Loops, Frames, Begun
    <3>4. \A j, k \in 1 .. Len(stack) + 1 : stack'[j].file = stack'[k].file => j = k
      BY <1>9, <1>10, <1>11, <2>2 DEF IInv, Loops, Frames
    <3> QED
      BY <1>9, <2>2, <3>3, <3>4 DEF Loops, Frames, Begun
  <2> QED
    BY <2>1, <2>2
<1>15. Tokens'
  <2> SUFFICES ASSUME NEW x \in Callback, Used(x), x # User
               PROVE  /\ Begun(x.file)' /\ x.index \in Indexes(x.file)
                      /\ \A k \in Frames' : stack'[k].file = x.file => x.index < stack'[k].index
    BY <1>2, <1>7 DEF IInv, Tokens, Indexes, Defs
  <2>1. /\ Begun(x.file) /\ x.index \in Indexes(x.file) /\ x.file \in File
        /\ \A k \in Frames : stack[k].file = x.file => x.index < stack[k].index
    BY Callbacks DEF IInv, Tokens
  <2>2. x.file # f
    BY <1>1, <2>1
  <2> QED
    BY <1>6, <1>9, <1>11, <2>1, <2>2 DEF Frames
<1>16. Parents' /\ Loading' /\ Truth' /\ Reached'
  <2>1. ~Good(f) => ~Loadable(source)
    BY <1>1 DEF Loadable, Good
  <2> QED
    BY <1>2, <1>5, <2>1 DEF IInv, Parents, Loading, Truth, Reached, Defs
<1>17. Backing'
  BY <1>1, <1>2, <1>6, <1>8 DEF IInv, Backing, TypeOK
<1>18. Asked'
  <2>1. f = Root <=> cb = User
    BY <1>p, Held
  <2> QED
    BY <1>1, <1>2, <1>5, <1>6, <2>1, RootAssumption DEF IInv, Asked
<1>19. Counted'
  <2>1. \A g \in File : Spent(g)' = Spent(g)
    BY <1>2 DEF Spent, Indexes, Defs, Token
  <2>2. Spent(f) = {}
    <3> SUFFICES ASSUME NEW i \in Indexes(f), Token(f, i) \in called PROVE FALSE
      BY DEF Spent
    <3>1. i \in Nat /\ i # 0
      BY <1>3 DEF Indexes
    <3> QED
      BY <1>1, <3>1, Callbacks DEF IInv, Tokens, Used
  <2>3. Cardinality(Spent(f)) = 0
    BY <2>2, FS_EmptySet
  <2> SUFFICES ASSUME NEW g \in File, Begun(g)'
               PROVE  shared'[g].count + Cardinality(Spent(g)) = Len(Defs(g))
    BY <1>2, <2>1 DEF Counted, Defs
  <2>4. CASE g = f
    BY <1>3, <1>5, <1>6, <2>3, <2>4
  <2>5. CASE g # f
    BY <1>4, <1>6, <2>5 DEF IInv, Counted
  <2> QED
    BY <2>4, <2>5
<1>20. \A g \in parsed : Complete(g) => Complete(g)'
  BY <1>2 DEF Complete, Good, Spent, Indexes, Defs, Token
<1>21. SpentWhenParsed' /\ Succeeded'
  <2>1. /\ \A x : Delivered(x) <=> x \in called
        /\ \A x : Delivered(x)' <=> x \in called \/ (call'.op = "back" /\ ~call'.err /\ x = cb)
    BY <1>1, <1>2, <1>5 DEF Delivered
  <2>2. SpentWhenParsed'
    <3> SUFFICES ASSUME NEW h \in File, NEW i \in Indexes(h), Token(h, i) = cb
                 PROVE  Defs(h)[i] \in {Other} \cup parsed
      BY <1>2, <2>1 DEF IInv, SpentWhenParsed, Indexes, Defs, Token
    <3>1. i \in Nat /\ i # 0
      BY DEF Indexes
    <3>2. cb # User /\ cb.file = h /\ cb.index = i
      BY <3>1, Callbacks
    <3> QED
      BY <1>p, <3>2, Held
  <2>3. Succeeded'
    <3> SUFFICES ASSUME NEW g \in parsed, Delivered(onLoad[g])'
                 PROVE  Complete(g)'
      BY <1>2 DEF Succeeded
    <3>1. CASE onLoad[g] \in called
      BY <1>20, <2>1, <3>1 DEF IInv, Succeeded
    <3>2. CASE call'.op = "back" /\ ~call'.err /\ onLoad[g] = cb
      <4>1. g = f /\ Good(f) /\ Defs(f) = <<>>
        BY <1>5, <1>8, <3>2
      <4> QED
        BY <1>2, <1>3, <4>1 DEF Complete, Spent, Good, Indexes, Defs
    <3> QED
      BY <1>2, <1>5, <3>1, <3>2 DEF Delivered
  <2> QED
    BY <2>2, <2>3
<1>22. Handed'
  <2> SUFFICES ASSUME NEW h \in File, Begun(h)', ~shared'[h].done, NEW i \in Indexes(h)
               PROVE  \/ Token(h, i) \in called
                      \/ Flying(Token(h, i))'
                      \/ \E g \in parsed : onLoad[g] = Token(h, i) /\ Waits(g)'
                      \/ \E k \in Frames' : stack'[k].file = h /\ stack'[k].index <= i
    BY <1>2, <1>6 DEF Handed, Frames, Indexes, Defs, Token
  <2>1. CASE h = f
    <3>1. stack' = Append(stack, Token(f, 1)) /\ stack' # stack
      BY <1>5, <1>6, <1>9, <2>1
    <3>2. Len(stack) + 1 \in Frames' /\ 1 <= i
      BY <1>3, <1>9, <2>1, <3>1 DEF Frames, Indexes
    <3> QED
      BY <1>9, <1>11, <2>1, <3>1, <3>2
  <2>2. CASE h # f
    <3>1. \/ Token(h, i) \in called
          \/ \E g \in parsed : onLoad[g] = Token(h, i) /\ Waits(g)
          \/ \E k \in Frames : stack[k].file = h /\ stack[k].index <= i
      BY <1>4, <1>6, <2>2 DEF IInv, Handed
    <3>2. CASE \E k \in Frames : stack[k].file = h /\ stack[k].index <= i
      BY <1>9, <3>2 DEF Frames
    <3>3. parsed \subseteq File
      BY DEF IInv, TypeOK
    <3>4. Waits(f)' \/ Flying(cb)'
      BY <1>5, <1>6
    <3> QED
      BY <1>6, <1>p, <3>1, <3>2, <3>3, <3>4
  <2> QED
    BY <2>1, <2>2
<1>23. Tree' /\ Leaves'
  BY <1>2 DEF IInv, Tree, Leaves, Below
<1>24. Truthful' /\ Finished'
  BY <1>1, <1>2, Calls DEF IInv, Truthful, Finished, Promise!Result
<1> QED
  BY <1>12, <1>13, <1>14, <1>15, <1>16, <1>17, <1>18, <1>19, <1>21, <1>22, <1>23, <1>24
     DEF IInv

(* The innermost loop is over: nothing is left to hand out.                *)
LEMMA KeepsWhenLoopEnds ==
  ASSUME IInv, LoopEnds PROVE IInv'
<1> DEFINE n == Len(stack)
<1>1. /\ stack \in Seq(Callback) /\ stack # <<>> /\ n \in Nat /\ n >= 1
      /\ stack[n] \in Callback
      /\ UNCHANGED <<source, linkable, parsed, idls, asts, reading, onLoad, shared, called,
                     call, answers>>
      /\ stack' \in Seq(Callback) /\ Len(stack') = n - 1
      /\ \A k \in 1 .. n - 1 : stack'[k] = stack[k]
      /\ shared[stack[n].file].done \/ stack[n].index > Len(Defs(stack[n].file))
  <2>1. stack \in Seq(Callback) /\ stack # <<>>
    BY DEF LoopEnds, IInv, TypeOK
  <2> QED
    BY <2>1, Stacks DEF LoopEnds, LoopIsOver, Top, model, each, Defs
<1>2. \A k \in 1 .. n - 1 : k \in Frames
  BY <1>1 DEF Frames
<1>3. /\ \A f : Waits(f)' <=> Waits(f)
      /\ \A f : Begun(f)' <=> Begun(f)
      /\ \A cb : Flying(cb)' <=> Flying(cb)
      /\ \A cb : Used(cb)' <=> Used(cb)
      /\ \A cb : Delivered(cb)' <=> Delivered(cb)
      /\ \A f : Complete(f)' <=> Complete(f)
  BY <1>1 DEF Waits, Begun, Flying, Used, Delivered, Complete, Good, Spent, Indexes,
     Defs, Token
<1>4. TypeOK'
  BY <1>1 DEF IInv, TypeOK
<1>5. FirstCall' /\ Phases'
  BY <1>1, <1>3 DEF IInv, FirstCall, Phases, Good, LoadCall
<1>6. Loops'
  BY <1>1, <1>2 DEF IInv, Loops, Frames, Begun
<1>7. Tokens'
  BY <1>1, <1>2, <1>3 DEF IInv, Tokens, Frames, Indexes, Defs
<1>8. Parents' /\ Loading' /\ Backing'
  BY <1>1, <1>3 DEF IInv, Parents, Loading, Backing, Defs
<1>9. Asked' /\ Truth' /\ Reached' /\ Counted'
  BY <1>1, <1>3 DEF IInv, Asked, Truth, Reached, Counted, Spent, Indexes, Defs, Token
<1>10. SpentWhenParsed' /\ Succeeded'
  BY <1>1, <1>3 DEF IInv, SpentWhenParsed, Succeeded, Delivered, Indexes, Defs, Token
<1>11. Handed'
  <2> SUFFICES ASSUME NEW h \in File, Begun(h), ~shared[h].done, NEW i \in Indexes(h)
               PROVE  \/ Token(h, i) \in called
                      \/ Flying(Token(h, i))
                      \/ \E g \in parsed : onLoad[g] = Token(h, i) /\ Waits(g)
                      \/ \E k \in 1 .. n - 1 : stack[k].file = h /\ stack[k].index <= i
    BY <1>1, <1>3 DEF Handed, Frames, Indexes, Defs, Token
  <2>1. ~(stack[n].file = h /\ stack[n].index <= i)
    <3>1. i \in Nat /\ i <= Len(Defs(h)) /\ Len(Defs(h)) \in Nat
      <4>1. Defs(h) \in Seq(File \cup {Other})
        BY Files DEF Defs, IInv, TypeOK
      <4> QED
        BY <4>1 DEF Indexes
    <3>2. stack[n].index \in Nat
      BY <1>1, Callbacks
    <3> QED
      BY <1>1, <3>1, <3>2
  <2>2. \A k \in Frames : k = n \/ k \in 1 .. n - 1
    BY <1>1 DEF Frames
  <2> QED
    BY <2>1, <2>2 DEF IInv, Handed
<1>12. Tree' /\ Leaves'
  BY <1>1 DEF IInv, Tree, Leaves, Below
<1>13. Truthful' /\ Finished'
  BY <1>1, <1>3 DEF IInv, Truthful, Finished, Idle, User, Promise!Result
<1> QED
  BY <1>4, <1>5, <1>6, <1>7, <1>8, <1>9, <1>10, <1>11, <1>12, <1>13 DEF IInv

(* A turn of the innermost loop hands out the next callback of its file.   *)
LEMMA KeepsWhenLooping ==
  ASSUME IInv, LoopStep PROVE IInv'
<1>s. /\ stack \in Seq(Callback) /\ stack # <<>> /\ Len(stack) \in Nat /\ Len(stack) >= 1
      /\ stack[Len(stack)] \in Callback /\ source \in Sources
  <2>1. stack \in Seq(Callback) /\ stack # <<>> /\ source \in Sources
    BY DEF LoopStep, IInv, TypeOK
  <2> QED
    BY <2>1, Stacks
<1>p. PICK n \in Nat, f \in File, i \in Nat, cb \in Callback :
        /\ n = Len(stack) /\ n >= 1 /\ cb = stack[n] /\ cb = Token(f, i)
        /\ cb.file = f /\ cb.index = i
  BY <1>s, Callbacks
<1>n. n \in Frames /\ n \in 1 .. n /\ Frames = 1 .. n
  BY <1>p DEF Frames
<1>k. /\ stack[n] = [file |-> f, index |-> i] /\ stack[n].file = f /\ stack[n].index = i
      /\ i \in Nat /\ ~(i < i) /\ i < i + 1
  BY <1>p DEF Token
<1>1. /\ call = Idle /\ call.op = "idle" /\ source \in Sources
      /\ Begun(f) /\ ~shared[f].done /\ i \in Indexes(f) /\ cb # User
      /\ Good(f) /\ f \in parsed /\ f \in Reachable(source)
  <2>1. /\ call = Idle /\ ~shared[f].done /\ ~(i > Len(Defs(f)))
    BY <1>p DEF LoopStep, LoopIsOver, Top, Defs
  <2>2. Begun(f) /\ i >= 1
    BY <1>p, <1>n DEF IInv, Loops
  <2>3. Defs(f) \in Seq(File \cup {Other})
    BY <1>s, <1>p, Files DEF Defs
  <2>4. i \in Indexes(f) /\ i # 0
    BY <2>1, <2>2, <2>3 DEF Indexes
  <2>5. Good(f) /\ f \in parsed /\ f \in Reachable(source)
    BY <2>2 DEF IInv, Phases, Reached
  <2> QED
    BY <1>s, <1>p, <2>1, <2>2, <2>4, <2>5, Calls, Callbacks
<1>d. PICK def \in File \cup {Other} :
        def = Defs(f)[i] /\ (def # Other => def \in Included(source, f))
  BY <1>1, <1>s, Files DEF Defs, Indexes
<1>2. /\ UNCHANGED <<source, linkable, parsed, idls, asts, reading, onLoad, shared, called,
                     answers>>
      /\ stack' = [stack EXCEPT ![n].index = i + 1]
      /\ call' = IF def = Other THEN BackCall(cb, FALSE) ELSE LoadCall(def, cb)
  BY <1>p, <1>d DEF LoopStep, Top, OwnHandle, model, each, Defs
<1>3. /\ call' \in Call /\ call'.op \in {"load", "back"} /\ call'.cb = cb /\ ~call'.err
      /\ call'.op = "back" => def = Other
      /\ call'.op = "load" => call'.file = def /\ def \in Reachable(source)
  <2>1. CASE def = Other
    BY <1>2, <2>1, Calls
  <2>2. CASE def # Other
    <3>1. def \in Reachable(source)
      BY <1>1, <1>d, <2>2, IncludesReached DEF Good
    <3> QED
      BY <1>2, <1>d, <2>2, <3>1, Calls
  <2> QED
    BY <2>1, <2>2
<1>4. /\ stack' \in Seq(Callback) /\ Len(stack') = n
      /\ \A k \in 1 .. n : k # n => stack'[k] = stack[k]
      /\ \A k \in 1 .. n : stack'[k].file = stack[k].file
      /\ stack'[n].file = f /\ stack'[n].index = i + 1
  <2>1. stack' \in Seq(Callback)
    BY <1>s, <1>p, <1>n, <1>k, <1>2 DEF Callback
  <2>2. /\ Len(stack') = n
        /\ \A k \in 1 .. n : k # n => stack'[k] = stack[k]
        /\ stack'[n].file = f /\ stack'[n].index = i + 1
    BY <1>s, <1>p, <1>n, <1>k, <1>2
  <2> QED
    BY <1>k, <2>1, <2>2
<1>5. /\ \A g : Waits(g)' <=> Waits(g)
      /\ \A g : Begun(g)' <=> Begun(g)
      /\ \A x : ~Flying(x)
      /\ \A x : Flying(x)' <=> x = cb
      /\ \A x : Used(x)' <=> Used(x) \/ x = cb
      /\ \A g : Complete(g)' <=> Complete(g)
  <2>1. \A g : (Waits(g)' <=> Waits(g)) /\ (Begun(g)' <=> Begun(g))
    BY <1>1, <1>2, <1>3 DEF Waits, Begun
  <2>2. \A x : ~Flying(x) /\ (Flying(x)' <=> x = cb)
    BY <1>1, <1>3 DEF Flying
  <2>3. \A x : Used(x)' <=> Used(x) \/ x = cb
    BY <1>2, <2>2 DEF Used
  <2>4. \A g : Complete(g)' <=> Complete(g)
    BY <1>2 DEF Complete, Good, Spent, Indexes, Defs, Token
  <2> QED
    BY <2>1, <2>2, <2>3, <2>4
<1>6. ~Used(cb)
  <2> SUFFICES ASSUME Used(cb) PROVE FALSE
    OBVIOUS
  <2>1. \A k \in Frames : stack[k].file = cb.file => cb.index < stack[k].index
    BY <1>1 DEF IInv, Tokens
  <2> QED
    BY <1>n, <1>k, <1>p, <2>1
<1>7. cb \notin called /\ \A g \in parsed : onLoad[g] # cb
  BY <1>6 DEF Used
<1>8. TypeOK'
  BY <1>2, <1>3, <1>4 DEF IInv, TypeOK
<1>9. FirstCall' /\ Phases'
  <2>1. FirstCall'
    BY <1>1, <1>2 DEF IInv, FirstCall
  <2>2. Phases'
    BY <1>1, <1>2, <1>3, <1>5 DEF IInv, Phases, Good
  <2> QED
    BY <2>1, <2>2
<1>10. Loops'
  <2>1. \A k \in 1 .. n : stack'[k].index >= 1
    BY <1>p, <1>4 DEF IInv, Loops, Frames
  <2> QED
    BY <1>p, <1>2, <1>4, <2>1 DEF IInv, Loops, Frames, Begun
<1>11. Tokens'
  <2> SUFFICES ASSUME NEW x \in Callback, Used(x) \/ x = cb, x # User
               PROVE  /\ Begun(x.file) /\ x.index \in Indexes(x.file)
                      /\ \A k \in 1 .. n : stack[k].file = x.file => x.index < stack'[k].index
    BY <1>2, <1>4, <1>5 DEF IInv, Tokens, Indexes, Defs, Frames
  <2>1. CASE Used(x)
    <3>1. /\ Begun(x.file) /\ x.index \in Indexes(x.file) /\ x.index \in Nat
          /\ \A k \in 1 .. n : stack[k].file = x.file => x.index < stack[k].index
      BY <1>p, <2>1, Callbacks DEF IInv, Tokens, Frames
    <3>2. stack[n].file = x.file => x.index < stack'[n].index
      BY <1>n, <1>k, <1>4, <3>1
    <3> QED
      BY <1>4, <3>1, <3>2
  <2>2. CASE x = cb
    <3>1. \A k \in 1 .. n : stack[k].file = f => k = n
      BY <1>p, <1>n DEF IInv, Loops
    <3> QED
      BY <1>p, <1>1, <1>4, <2>2, <3>1
  <2> QED
    BY <2>1, <2>2
<1>12. Parents' /\ Reached' /\ Truth'
  BY <1>2, <1>3 DEF IInv, Parents, Reached, Truth, Defs
<1>13. Loading'
  BY <1>p, <1>1, <1>d, <1>2, <1>3, <1>7 DEF Loading, Defs
<1>14. Backing'
  BY <1>2, <1>5, <1>7 DEF IInv, Backing
<1>15. Asked' /\ Counted'
  BY <1>1, <1>2, <1>5 DEF IInv, Asked, Counted, Spent, Indexes, Defs, Token
<1>16. SpentWhenParsed' /\ Succeeded'
  <2>1. SpentWhenParsed'
    <3> SUFFICES ASSUME NEW h \in File, NEW j \in Indexes(h), Delivered(Token(h, j))'
                 PROVE  Defs(h)[j] \in {Other} \cup parsed
      BY <1>2 DEF SpentWhenParsed, Indexes, Defs, Token
    <3>1. CASE Token(h, j) \in called
      BY <3>1 DEF IInv, SpentWhenParsed, Delivered
    <3>2. CASE call'.op = "back" /\ Token(h, j) = cb
      <4>1. j \in Nat
        BY DEF Indexes
      <4>2. h = f /\ j = i
        BY <1>p, <3>2, <4>1, Callbacks
      <4> QED
        BY <1>3, <1>d, <3>2, <4>2
    <3> QED
      BY <1>2, <1>3, <3>1, <3>2 DEF Delivered, Token
  <2>2. Succeeded'
    BY <1>1, <1>2, <1>3, <1>5, <1>7 DEF IInv, Succeeded, Delivered
  <2> QED
    BY <2>1, <2>2
<1>17. Handed'
  <2> SUFFICES ASSUME NEW h \in File, Begun(h), ~shared[h].done, NEW j \in Indexes(h)
               PROVE  \/ Token(h, j) \in called
                      \/ Token(h, j) = cb
                      \/ \E g \in parsed : onLoad[g] = Token(h, j) /\ Waits(g)
                      \/ \E k \in 1 .. n : stack'[k].file = h /\ stack'[k].index <= j
    BY <1>2, <1>4, <1>5 DEF Handed, Frames, Indexes, Defs, Token
  <2>1. \/ Token(h, j) \in called
        \/ \E g \in parsed : onLoad[g] = Token(h, j) /\ Waits(g)
        \/ \E k \in 1 .. n : stack[k].file = h /\ stack[k].index <= j
    BY <1>p, <1>5 DEF IInv, Handed, Frames
  <2>2. ASSUME NEW k \in 1 .. n, stack[k].file = h, stack[k].index <= j
        PROVE  \/ Token(h, j) = cb
               \/ stack'[k].file = h /\ stack'[k].index <= j
    <3>1. CASE k = n /\ j = i
      BY <1>p, <2>2, <3>1
    <3>2. CASE k = n /\ j # i
      <4>1. j \in Nat /\ i <= j
        BY <1>k, <2>2, <3>2 DEF Indexes
      <4> QED
        BY <1>p, <1>4, <2>2, <3>2, <4>1
    <3>3. CASE k # n
      BY <1>4, <2>2, <3>3
    <3> QED
      BY <3>1, <3>2, <3>3
  <2> QED
    BY <2>1, <2>2
<1>18. Tree' /\ Leaves'
  BY <1>2 DEF IInv, Tree, Leaves, Below
<1>19. Truthful' /\ Finished'
  <2>1. answers # <<"thrift">>
    <3> SUFFICES ASSUME answers = <<"thrift">> PROVE FALSE
      OBVIOUS
    <3>1. Spent(f) = Indexes(f)
      BY <1>1 DEF IInv, Finished, Complete
    <3> QED
      BY <1>p, <1>1, <1>7, <3>1 DEF Spent
  <2> QED
    BY <1>2, <2>1 DEF IInv, Truthful, Finished, Promise!Result
<1> QED
  BY <1>8, <1>9, <1>10, <1>11, <1>12, <1>13, <1>14, <1>15, <1>16, <1>17, <1>18, <1>19
     DEF IInv

(* What every handleCb finds: its file is begun, and handleCb was not      *)
(* called before.                                                          *)
LEMMA Handling ==
  ASSUME IInv, call.op = "back", call.cb # User
  PROVE  \E f \in parsed, i \in Nat, cb \in Callback, up \in Callback :
           /\ cb = call.cb /\ cb = Token(f, i) /\ cb.file = f /\ cb.index = i /\ up = onLoad[f]
           /\ cb \notin called /\ cb # User /\ f \in File /\ i \in Indexes(f) /\ i # 0
           /\ Begun(f) /\ Good(f) /\ f \in asts
           /\ \A x : Flying(x) <=> x = cb
           /\ ~shared[f].done => /\ Waits(f) /\ shared[f].count \in Nat \ {0}
                                 /\ up \notin called /\ up # cb
           /\ \A g \in parsed : onLoad[g] = up => g = f
           /\ f = Root <=> up = User
           /\ answers # <<"thrift">>
<1>p. PICK cb \in Callback, f \in File, i \in Nat :
         cb = call.cb /\ f = cb.file /\ i = cb.index /\ cb = Token(f, i)
  <2>1. call.cb \in Callback
    BY DEF IInv, TypeOK, Call
  <2> QED
    BY <2>1, Callbacks
<1>1. \A x : Flying(x) <=> x = cb
  BY <1>p DEF Flying
<1>2. cb \notin called /\ Begun(f) /\ i \in Indexes(f)
  BY <1>p, <1>1 DEF IInv, Backing, Tokens, Used
<1>3. f \in parsed /\ Good(f) /\ f \in asts /\ i # 0
  BY <1>2 DEF IInv, Phases, Indexes
<1>4. PICK up \in Callback : up = onLoad[f]
  BY <1>3, Held
<1>5. (f = Root <=> up = User) /\ \A g \in parsed : onLoad[g] = up => g = f
  BY <1>3, <1>4, Held
<1>6. ASSUME ~shared[f].done
      PROVE  /\ Waits(f) /\ shared[f].count \in Nat \ {0}
             /\ up \notin called /\ up # cb
  <2>1. shared[f].count \in Nat /\ shared[f].count # 0
    BY <1>2, <1>6 DEF IInv, TypeOK, Begun
  <2>2. Waits(f)
    BY <1>6, <2>1 DEF Waits
  <2> QED
    BY <1>1, <1>3, <1>4, <2>1, <2>2 DEF IInv, Backing
<1>7. answers # <<"thrift">>
  BY Calls DEF IInv, Finished
<1> QED
  BY <1>p, <1>1, <1>2, <1>3, <1>4, <1>5, <1>6, <1>7

(* handleCb when its asyncEach has failed: nothing happens.                *)
LEMMA KeepsWhenHandledLate ==
  ASSUME IInv, call.op = "back", call.cb # User, shared[call.cb.file].done, call' = Idle,
         UNCHANGED <<source, linkable, model, reading, onLoad, each, stack, answers>>
  PROVE  IInv'
<1>p. PICK f \in parsed, i \in Nat, cb \in Callback :
           /\ cb = call.cb /\ cb = Token(f, i) /\ cb.file = f /\ cb.index = i
           /\ cb # User /\ f \in File /\ i \in Indexes(f)
           /\ \A x : Flying(x) <=> x = cb
           /\ answers # <<"thrift">>
  BY Handling
<1>2. /\ UNCHANGED <<source, linkable, parsed, idls, asts, reading, onLoad, shared, called,
                     stack, answers>>
      /\ call' = Idle /\ call' \in Call /\ call'.op = "idle" /\ ~call'.err
  BY Calls DEF model, each
<1>3. /\ \A g : Waits(g)' <=> Waits(g)
      /\ \A g : Begun(g)' <=> Begun(g)
      /\ \A x : ~Flying(x)'
      /\ \A x : Used(x)' => Used(x)
      /\ \A x : Delivered(x)' => Delivered(x)
      /\ \A g : Complete(g)' <=> Complete(g)
  BY <1>2 DEF Waits, Begun, Flying, Used, Delivered, Complete, Good, Spent, Indexes,
     Defs, Token
<1>4. TypeOK'
  BY <1>2 DEF IInv, TypeOK
<1>5. FirstCall' /\ Phases' /\ Loops'
  BY <1>2, <1>3, <1>p DEF IInv, FirstCall, Phases, Loops, Frames, Good, Begun, LoadCall
<1>6. Tokens' /\ Parents' /\ Loading' /\ Backing'
  BY <1>2, <1>3 DEF IInv, Tokens, Parents, Loading, Backing, Frames, Indexes, Defs, Begun
<1>7. Asked' /\ Truth' /\ Reached' /\ Counted'
  BY <1>2, <1>3, <1>p DEF IInv, Asked, Truth, Reached, Counted, Spent, Indexes, Defs, Token
<1>8. SpentWhenParsed' /\ Succeeded'
  <2>1. \A x : Delivered(x)' <=> x \in called
    BY <1>2 DEF Delivered
  <2>2. \A x \in called : Delivered(x)
    BY DEF Delivered
  <2> QED
    BY <1>2, <1>3, <2>1, <2>2 DEF IInv, SpentWhenParsed, Succeeded, Indexes, Defs, Token
<1>9. Handed'
  <2> SUFFICES ASSUME NEW h \in File, Begun(h), ~shared[h].done, NEW j \in Indexes(h)
               PROVE  \/ Token(h, j) \in called
                      \/ \E g \in parsed : onLoad[g] = Token(h, j) /\ Waits(g)
                      \/ \E k \in Frames : stack[k].file = h /\ stack[k].index <= j
    BY <1>2, <1>3 DEF Handed, Frames, Indexes, Defs, Token
  <2>1. h # f
    BY <1>p
  <2>2. ~Flying(Token(h, j))
    BY <1>p, <2>1 DEF Token
  <2> QED
    BY <2>2 DEF IInv, Handed
<1>10. Tree' /\ Leaves' /\ Truthful' /\ Finished'
  BY <1>2, <1>p DEF IInv, Tree, Leaves, Below, Truthful, Finished, Promise!Result
<1> QED
  BY <1>4, <1>5, <1>6, <1>7, <1>8, <1>9, <1>10 DEF IInv

(* handleCb with the first error: the asyncEach of the file has failed.    *)
LEMMA KeepsWhenSettled ==
  ASSUME IInv, call.op = "back", call.cb # User, ~shared[call.cb.file].done,
         call.err \/ call.cb \in called, Settle(call.cb.file, TRUE),
         UNCHANGED <<source, linkable, model, reading, onLoad, stack, answers>>
  PROVE  IInv'
<1>p. PICK f \in parsed, i \in Nat, cb \in Callback, up \in Callback :
           /\ cb = call.cb /\ cb = Token(f, i) /\ cb.file = f /\ cb.index = i /\ up = onLoad[f]
           /\ cb \notin called /\ cb # User /\ f \in File /\ i \in Indexes(f)
           /\ Begun(f) /\ Good(f) /\ f \in asts /\ up \notin called /\ up # cb
           /\ \A x : Flying(x) <=> x = cb
           /\ \A g \in parsed : onLoad[g] = up => g = f
           /\ f = Root <=> up = User
           /\ Waits(f)
           /\ answers # <<"thrift">>
  BY Handling
<1>2. /\ UNCHANGED <<source, linkable, parsed, idls, asts, reading, onLoad, called,
                     stack, answers>>
      /\ shared' = [shared EXCEPT ![f].done = TRUE]
      /\ call' = BackCall(up, TRUE)
  BY <1>p DEF Settle, model, each
<1>3. /\ call' \in Call /\ call'.op = "back" /\ call'.cb = up /\ call'.err
      /\ call.err /\ ~Loadable(source)
  BY <1>p, <1>2, Calls DEF IInv, Truth
<1>4. /\ shared' \in [File -> [done : BOOLEAN, count : Nat]]
      /\ shared'[f].done /\ shared'[f].count = shared[f].count
      /\ \A g \in File : g # f => shared'[g] = shared[g]
  BY <1>p, <1>2 DEF IInv, TypeOK
<1>5. f \notin reading /\ call.op # "includes" /\ parsed \subseteq File
  BY <1>p DEF IInv, Phases, TypeOK
<1>6. /\ \A g \in File : Begun(g)' <=> Begun(g)
      /\ \A g \in File : g # f => (Waits(g)' <=> Waits(g))
      /\ ~Waits(f)'
      /\ \A x : Flying(x)' <=> x = up
  <2>1. \A g \in File : g # f => (Begun(g)' <=> Begun(g)) /\ (Waits(g)' <=> Waits(g))
    BY <1>2, <1>3, <1>4, <1>5 DEF Begun, Waits
  <2>2. Begun(f)' /\ ~Waits(f)'
    BY <1>2, <1>3, <1>4, <1>5 DEF Begun, Waits
  <2>3. \A x : Flying(x)' <=> x = up
    BY <1>3 DEF Flying
  <2> QED
    BY <1>p, <2>1, <2>2, <2>3
<1>7. \A x : Used(x)' => Used(x)
  BY <1>p, <1>2, <1>6 DEF Used
<1>8. TypeOK'
  BY <1>2, <1>3, <1>4 DEF IInv, TypeOK
<1>9. FirstCall' /\ Phases' /\ Loops'
  <2>1. FirstCall'
    BY <1>2, <1>p DEF IInv, FirstCall, LoadCall
  <2>2. Phases'
    BY <1>2, <1>3, <1>5, <1>6 DEF IInv, Phases, Good
  <2>3. Loops'
    <3>1. \A k \in Frames : stack[k].file \in File
      <4>1. stack \in Seq(Callback)
        BY DEF IInv, TypeOK
      <4> QED
        BY <4>1, ElementOfSeq, Callbacks DEF Frames
    <3>2. \A k \in Frames : shared'[stack[k].file].count # 0 \/ shared'[stack[k].file].done
      BY <1>4, <3>1 DEF IInv, Loops, Begun
    <3> QED
      BY <1>2, <3>2 DEF IInv, Loops, Frames, Begun
  <2> QED
    BY <2>1, <2>2, <2>3
<1>10. Tokens'
  <2> SUFFICES ASSUME NEW x \in Callback, Used(x), x # User
               PROVE  /\ Begun(x.file)' /\ x.index \in Indexes(x.file)
                      /\ \A k \in Frames : stack[k].file = x.file => x.index < stack[k].index
    BY <1>2, <1>7 DEF IInv, Tokens, Indexes, Defs, Frames
  <2> QED
    BY <1>6, Callbacks DEF IInv, Tokens
<1>11. Parents' /\ Loading' /\ Truth' /\ Reached'
  BY <1>2, <1>3 DEF IInv, Parents, Loading, Truth, Reached, Defs
<1>12. Backing'
  BY <1>p, <1>2, <1>5, <1>6 DEF IInv, Backing
<1>13. Asked'
  BY <1>p, <1>2, <1>6, RootAssumption DEF IInv, Asked
<1>14. Counted'
  <2>1. \A g \in File : Spent(g)' = Spent(g) /\ shared'[g].count = shared[g].count
    BY <1>2, <1>4 DEF Spent, Indexes, Defs, Token
  <2> QED
    BY <1>2, <1>6, <2>1 DEF IInv, Counted, Defs
<1>15. SpentWhenParsed' /\ Succeeded'
  <2>1. /\ \A x : Delivered(x)' <=> x \in called
        /\ \A x \in called : Delivered(x)
        /\ \A g : Complete(g)' <=> Complete(g)
    BY <1>2, <1>3 DEF Delivered, Complete, Good, Spent, Indexes, Defs, Token
  <2> QED
    BY <1>2, <2>1 DEF IInv, SpentWhenParsed, Succeeded, Indexes, Defs, Token
<1>16. Handed'
  <2> SUFFICES ASSUME NEW h \in File, Begun(h), ~shared'[h].done, NEW j \in Indexes(h)
               PROVE  \/ Token(h, j) \in called
                      \/ Token(h, j) = up
                      \/ \E g \in parsed : onLoad[g] = Token(h, j) /\ Waits(g)'
                      \/ \E k \in Frames : stack[k].file = h /\ stack[k].index <= j
    BY <1>2, <1>6 DEF Handed, Frames, Indexes, Defs, Token
  <2>1. h # f /\ ~shared[h].done
    BY <1>4
  <2>2. ~Flying(Token(h, j))
    BY <1>p, <2>1 DEF Token
  <2> QED
    BY <1>p, <1>5, <1>6, <2>1, <2>2 DEF IInv, Handed
<1>17. Tree' /\ Leaves'
  BY <1>2 DEF IInv, Tree, Leaves, Below
<1>18. Truthful' /\ Finished'
  <2>1. Promise!Result' = Promise!Result
    BY <1>2 DEF Promise!Result
  <2>2. answers' # <<"thrift">>
    BY <1>2, <1>p
  <2>3. Truthful'
    <3>1. Truthful /\ answers' = answers
      BY <1>2 DEF IInv
    <3> QED
      BY <2>1, <3>1 DEF Truthful
  <2>4. Finished'
    BY <2>2 DEF Finished
  <2> QED
    BY <2>3, <2>4
<1> QED
  BY <1>8, <1>9, <1>10, <1>11, <1>12, <1>13, <1>14, <1>15, <1>16, <1>17,
     <1>18 DEF IInv

(* handleCb of a definition that is done: one is left less.                *)
LEMMA KeepsWhenCounted ==
  ASSUME IInv, call.op = "back", call.cb # User, ~shared[call.cb.file].done,
         ~call.err, call.cb \notin called, CountDown(call.cb),
         UNCHANGED <<source, linkable, model, reading, onLoad, stack, answers>>
  PROVE  IInv'
<1>p. PICK f \in parsed, i \in Nat, cb \in Callback, up \in Callback :
           /\ cb = call.cb /\ cb = Token(f, i) /\ cb.file = f /\ cb.index = i /\ up = onLoad[f]
           /\ cb \notin called /\ cb # User /\ f \in File /\ i \in Indexes(f)
           /\ Begun(f) /\ Good(f) /\ f \in asts /\ up \notin called /\ up # cb
           /\ \A x : Flying(x) <=> x = cb
           /\ \A g \in parsed : onLoad[g] = up => g = f
           /\ f = Root <=> up = User
           /\ Waits(f) /\ ~shared[f].done /\ shared[f].count \in Nat \ {0}
           /\ answers # <<"thrift">>
  BY Handling
<1>l. PICK left \in Nat : left = shared[f].count - 1
  BY <1>p
<1>2. /\ UNCHANGED <<source, linkable, parsed, idls, asts, reading, onLoad, stack, answers>>
      /\ called' = called \cup {cb}
      /\ shared' = [shared EXCEPT ![f] = [done |-> left = 0, count |-> left]]
      /\ call' = IF left = 0 THEN BackCall(up, FALSE) ELSE Idle
  BY <1>p, <1>l DEF CountDown, NoneLeft, model
<1>3. /\ call' \in Call /\ ~call'.err
      /\ \/ left = 0 /\ call'.op = "back" /\ call'.cb = up
         \/ left # 0 /\ call'.op = "idle"
  BY <1>2, Calls
<1>4. /\ shared' \in [File -> [done : BOOLEAN, count : Nat]]
      /\ (shared'[f].done <=> left = 0) /\ shared'[f].count = left
      /\ \A g \in File : g # f => shared'[g] = shared[g]
  <2>1. [done |-> left = 0, count |-> left] \in [done : BOOLEAN, count : Nat]
    BY Zenon
  <2> QED
    BY <1>p, <1>2, <2>1 DEF IInv, TypeOK
<1>5. f \notin reading /\ call.op # "includes" /\ parsed \subseteq File
  BY <1>p DEF IInv, Phases, TypeOK
<1>6. /\ \A g \in File : Begun(g)' <=> Begun(g)
      /\ \A g \in File : g # f => (Waits(g)' <=> Waits(g))
      /\ Waits(f)' <=> left # 0
      /\ \A x : Flying(x)' <=> left = 0 /\ x = up
  <2>1. \A g \in File : g # f => (Begun(g)' <=> Begun(g)) /\ (Waits(g)' <=> Waits(g))
    BY <1>2, <1>3, <1>4, <1>5 DEF Begun, Waits
  <2>2. Begun(f)' /\ (Waits(f)' <=> left # 0)
    BY <1>2, <1>3, <1>4, <1>5 DEF Begun, Waits
  <2>3. \A x : Flying(x)' <=> left = 0 /\ x = up
    BY <1>3 DEF Flying
  <2> QED
    BY <1>p, <2>1, <2>2, <2>3
<1>7. \A x : Used(x)' => Used(x)
  BY <1>p, <1>2, <1>6 DEF Used
<1>8. TypeOK'
  BY <1>2, <1>3, <1>4 DEF IInv, TypeOK
<1>9. FirstCall' /\ Phases' /\ Loops'
  <2>1. FirstCall'
    BY <1>2, <1>p DEF IInv, FirstCall, LoadCall
  <2>2. Phases'
    BY <1>2, <1>3, <1>5, <1>6 DEF IInv, Phases, Good
  <2>3. Loops'
    <3>1. \A k \in Frames : stack[k].file \in File
      <4>1. stack \in Seq(Callback)
        BY DEF IInv, TypeOK
      <4> QED
        BY <4>1, ElementOfSeq, Callbacks DEF Frames
    <3>2. \A k \in Frames : shared'[stack[k].file].count # 0 \/ shared'[stack[k].file].done
      BY <1>4, <3>1 DEF IInv, Loops, Begun
    <3> QED
      BY <1>2, <3>2 DEF IInv, Loops, Frames, Begun
  <2> QED
    BY <2>1, <2>2, <2>3
<1>10. Tokens'
  <2> SUFFICES ASSUME NEW x \in Callback, Used(x), x # User
               PROVE  /\ Begun(x.file)' /\ x.index \in Indexes(x.file)
                      /\ \A k \in Frames : stack[k].file = x.file => x.index < stack[k].index
    BY <1>2, <1>7, <1>p DEF IInv, Tokens, Indexes, Defs, Frames
  <2> QED
    BY <1>6, Callbacks DEF IInv, Tokens
<1>11. Parents' /\ Loading' /\ Truth' /\ Reached'
  BY <1>2, <1>3 DEF IInv, Parents, Loading, Truth, Reached, Defs
<1>12. Backing'
  BY <1>p, <1>2, <1>5, <1>6 DEF IInv, Backing
<1>13. Asked'
  BY <1>p, <1>2, <1>6, RootAssumption DEF IInv, Asked
<1>14. Len(Defs(f)) \in Nat
  <2>1. Defs(f) \in Seq(File \cup {Other})
    BY <1>p, Files DEF Defs, IInv, TypeOK
  <2> QED
    BY <2>1
<1>15. /\ \A g \in File : g # f => Spent(g)' = Spent(g)
       /\ Spent(f)' = Spent(f) \cup {i}
       /\ \A g \in File : Spent(g) \subseteq Spent(g)'
       /\ Cardinality(Spent(f)) \in Nat
       /\ Cardinality(Spent(f) \cup {i}) = Cardinality(Spent(f)) + 1
       /\ Cardinality(Spent(f) \cup {i}) = Len(Defs(f)) => Spent(f) \cup {i} = Indexes(f)
  <2>1. \A g \in File : g # f => Spent(g)' = Spent(g)
    <3> SUFFICES ASSUME NEW g \in File, g # f, NEW j \in Indexes(g)
                 PROVE  Token(g, j) # cb
      BY <1>2 DEF Spent, Indexes, Defs, Token
    <3> QED
      BY <1>p DEF Token
  <2>2. Spent(f)' = Spent(f) \cup {i}
    <3>1. \A j \in Indexes(f) : Token(f, j) = cb <=> j = i
      BY <1>p DEF Token
    <3>2. Spent(f)' = {j \in Indexes(f) : Token(f, j) \in called \cup {cb}}
      BY <1>2 DEF Spent, Indexes, Defs, Token
    <3> QED
      BY <1>p, <3>1, <3>2 DEF Spent
  <2>3. i \notin Spent(f) /\ Spent(f) \subseteq Indexes(f)
    BY <1>p DEF Spent
  <2>4. IsFiniteSet(Indexes(f)) /\ Cardinality(Indexes(f)) = Len(Defs(f))
    BY <1>14, FS_Interval DEF Indexes
  <2>5. IsFiniteSet(Spent(f)) /\ Cardinality(Spent(f)) \in Nat
    BY <2>3, <2>4, FS_Subset, FS_CardinalityType
  <2>6. Cardinality(Spent(f) \cup {i}) = Cardinality(Spent(f)) + 1
    BY <2>3, <2>5, FS_AddElement
  <2>7. Spent(f) \cup {i} \subseteq Indexes(f)
    BY <1>p, <2>3
  <2>8. Cardinality(Spent(f) \cup {i}) = Len(Defs(f)) => Spent(f) \cup {i} = Indexes(f)
    BY <2>4, <2>7, FS_Subset
  <2> QED
    BY <2>1, <2>2, <2>5, <2>6, <2>8
<1>16. /\ shared[f].count + Cardinality(Spent(f)) = Len(Defs(f))
       /\ left + Cardinality(Spent(f) \cup {i}) = Len(Defs(f))
  <2>1. shared[f].count + Cardinality(Spent(f)) = Len(Defs(f))
    BY <1>p DEF IInv, Counted
  <2> QED
    BY <1>p, <1>l, <1>14, <1>15, <2>1
<1>17. Counted'
  <2> SUFFICES ASSUME NEW g \in File, Begun(g)
               PROVE  shared'[g].count + Cardinality(Spent(g)') = Len(Defs(g))
    BY <1>2, <1>6 DEF Counted, Defs
  <2>1. CASE g = f
    BY <1>4, <1>15, <1>16, <2>1
  <2>2. CASE g # f
    BY <1>4, <1>15, <2>2 DEF IInv, Counted
  <2> QED
    BY <2>1, <2>2
<1>18. \A x : Delivered(x)' <=> x \in called \/ x = cb \/ (left = 0 /\ x = up)
  BY <1>2, <1>3 DEF Delivered
<1>19. \A x : x \in called \/ x = cb => Delivered(x)
  BY <1>p DEF Delivered
<1>20. SpentWhenParsed'
  <2> SUFFICES ASSUME NEW h \in File, NEW j \in Indexes(h), Token(h, j) = up
               PROVE  Defs(h)[j] \in {Other} \cup parsed
    BY <1>2, <1>18, <1>19 DEF IInv, SpentWhenParsed, Indexes, Defs, Token
  <2>1. j \in Nat /\ j # 0
    BY DEF Indexes
  <2>2. up # User /\ up.file = h /\ up.index = j
    BY <2>1, Callbacks
  <2> QED
    BY <1>p, <2>2, Held
<1>21. Succeeded'
  <2> SUFFICES ASSUME NEW g \in parsed, Delivered(onLoad[g])'
               PROVE  Complete(g)'
    BY <1>2 DEF Succeeded
  <2>0. onLoad[g] \in called \/ onLoad[g] = cb \/ (left = 0 /\ onLoad[g] = up)
    BY <1>2, <1>3 DEF Delivered
  <2>1. CASE onLoad[g] \in called \/ onLoad[g] = cb
    <3>1. Complete(g) /\ g \in File
      BY <1>5, <1>19, <2>1 DEF IInv, Succeeded
    <3>2. Spent(g) \subseteq Spent(g)'
      BY <1>15, <3>1
    <3> QED
      BY <1>2, <3>1, <3>2 DEF Complete, Good, Spent, Indexes, Defs
  <2>2. CASE left = 0 /\ onLoad[g] = up
    <3>1. g = f
      BY <1>p, <2>2
    <3>2. Spent(f)' = Indexes(f)
      BY <1>14, <1>15, <1>16, <2>2
    <3> QED
      BY <1>p, <1>2, <3>1, <3>2 DEF Complete, Good, Indexes, Defs
  <2> QED
    BY <2>0, <2>1, <2>2
<1>22. Handed'
  <2> SUFFICES ASSUME NEW h \in File, Begun(h), ~shared'[h].done, NEW j \in Indexes(h)
               PROVE  \/ Token(h, j) \in called'
                      \/ Flying(Token(h, j))'
                      \/ \E g \in parsed : onLoad[g] = Token(h, j) /\ Waits(g)'
                      \/ \E k \in Frames : stack[k].file = h /\ stack[k].index <= j
    BY <1>2, <1>6 DEF Handed, Frames, Indexes, Defs, Token
  <2>1. ~shared[h].done
    BY <1>4, <1>p
  <2>2. \/ Token(h, j) \in called
        \/ Token(h, j) = cb
        \/ \E g \in parsed : onLoad[g] = Token(h, j) /\ Waits(g)
        \/ \E k \in Frames : stack[k].file = h /\ stack[k].index <= j
    BY <1>p, <2>1 DEF IInv, Handed
  <2>3. ASSUME NEW g \in parsed, onLoad[g] = Token(h, j), Waits(g)
        PROVE  Waits(g)' \/ Flying(Token(h, j))'
    BY <1>p, <1>5, <1>6, <2>3
  <2> QED
    BY <1>2, <2>2, <2>3
<1>23. Tree' /\ Leaves'
  BY <1>2 DEF IInv, Tree, Leaves, Below
<1>24. Truthful' /\ Finished'
  <2>1. Promise!Result' = Promise!Result
    BY <1>2 DEF Promise!Result
  <2>2. answers' # <<"thrift">>
    BY <1>2, <1>p
  <2>3. Truthful'
    <3>1. Truthful /\ answers' = answers
      BY <1>2 DEF IInv
    <3> QED
      BY <2>1, <3>1 DEF Truthful
  <2>4. Finished'
    BY <2>2 DEF Finished
  <2> QED
    BY <2>3, <2>4
<1> QED
  BY <1>8, <1>9, <1>10, <1>11, <1>12, <1>13, <1>17, <1>20, <1>21, <1>22, <1>23, <1>24
     DEF IInv

(* A load that succeeded: the file and all below it are complete, which is *)
(* all that the entry point reaches.                                       *)
LEMMA AllComplete ==
  ASSUME IInv, Root \in parsed, Complete(Root)
  PROVE  /\ \A f \in parsed : Complete(f) /\ (f # Root => onLoad[f] \in called)
         /\ parsed = Reachable(source) /\ Loadable(source) /\ Reachable(source) \subseteq asts
<1>1. \A f, g \in parsed : Complete(f) /\ Below(f, g) => onLoad[g] \in called
  <2> SUFFICES ASSUME NEW f \in parsed, NEW g \in parsed, Complete(f), Below(f, g)
               PROVE  onLoad[g] \in called
    OBVIOUS
  <2>1. g # Root /\ onLoad[g].file = f
    BY DEF Below
  <2>2. onLoad[g] \in Callback /\ onLoad[g].index \in Indexes(f)
    BY <2>1, Held
  <2>3. Token(f, onLoad[g].index) \in called
    BY <2>2 DEF Complete, Spent
  <2> QED
    BY <2>1, <2>2, <2>3, Callbacks
<1>2. DEFINE S == {f \in parsed : Complete(f)}
<1>3. parsed \subseteq S
  <2>1. S \in SUBSET File /\ Root \in S
    BY DEF IInv, TypeOK
  <2>2. ASSUME NEW f \in S, NEW g \in parsed, Below(f, g) PROVE g \in S
    <3>1. Delivered(onLoad[g])
      BY <1>1, <2>2 DEF Delivered
    <3> QED
      BY <3>1 DEF IInv, Succeeded
  <2> QED
    BY <2>1, <2>2 DEF IInv, Tree
<1>4. \A f \in parsed : f # Root => onLoad[f] \in called
  <2> SUFFICES ASSUME NEW f \in parsed, f # Root PROVE onLoad[f] \in called
    OBVIOUS
  <2>1. onLoad[f].file \in parsed
    BY Held
  <2> QED
    BY <1>1, <1>3, <2>1 DEF Below
<1>5. Closed(source, parsed)
  <2> SUFFICES ASSUME NEW f \in parsed PROVE Included(source, f) \subseteq parsed
    BY DEF Closed
  <2>1. f \in File /\ Spent(f) = Indexes(f)
    BY <1>3 DEF IInv, TypeOK, Complete
  <2>2. \A i \in Indexes(f) : Delivered(Token(f, i))
    BY <2>1 DEF Spent, Delivered
  <2>3. \A i \in Indexes(f) : Defs(f)[i] \in {Other} \cup parsed
    BY <2>1, <2>2 DEF IInv, SpentWhenParsed
  <2> QED
    BY <2>3 DEF Included, Indexes, Defs
<1>6. Reachable(source) = parsed
  BY <1>5, ClosedCovers DEF IInv, Reached, TypeOK
<1>7. Loadable(source) /\ Reachable(source) \subseteq asts
  BY <1>3, <1>6 DEF Loadable, Complete, Good
<1> QED
  BY <1>3, <1>4, <1>6, <1>7

(* The user's callback: the answer is the one that the files determine.    *)
LEMMA Answering ==
  ASSUME IInv, CallUser
  PROVE  /\ answers = <<>> /\ answers' = <<Promise!Result>> /\ Root \in parsed
         /\ ~Waits(Root)
         /\ Promise!Result = "thrift" => Complete(Root) /\ reading = {}
         /\ answers \in Seq({"thrift", "error"}) /\ answers' \in Seq({"thrift", "error"})
<1>1. call.op = "back" /\ call.cb = User /\ Flying(User)
  BY DEF CallUser, Flying
<1>2. answers = <<>>
  BY <1>1 DEF IInv, Asked
<1>3. Root \in parsed /\ onLoad[Root] = User
  <2>1. Root \in parsed
    BY <1>1, RootAssumption, Callbacks, Calls DEF IInv, FirstCall
  <2> QED
    BY <2>1, Held
<1>4. ~Waits(Root)
  BY <1>1, <1>3 DEF IInv, Backing
<1>5. ~call.err => Complete(Root)
  BY <1>1, <1>3 DEF IInv, Succeeded, Delivered
<1>6. call.err => ~Loadable(source)
  BY DEF IInv, Truth
<1>7. answers' = <<IF ~call.err /\ Compiles THEN "thrift" ELSE "error">>
  BY <1>2 DEF CallUser
<1>8. answers' = <<Promise!Result>>
  BY <1>3, <1>5, <1>6, <1>7, AllComplete, SamePromise DEF Compiles
<1>9. ASSUME Promise!Result = "thrift" PROVE Complete(Root) /\ reading = {}
  <2>1. Complete(Root)
    BY <1>5, <1>6, <1>9, SamePromise
  <2>2. \A f \in reading : f \in parsed /\ Waits(f)
    BY DEF IInv, TypeOK, Waits
  <2>3. \A f \in parsed : Waits(f) => f = Root
    BY <1>3, <2>1, AllComplete DEF IInv, Backing
  <2> QED
    BY <1>4, <2>1, <2>2, <2>3
<1>10. answers' \in Seq({"thrift", "error"})
  BY <1>7
<1> QED
  BY <1>2, <1>3, <1>4, <1>8, <1>9, <1>10

LEMMA KeepsWhenAnswered ==
  ASSUME IInv, CallUser PROVE IInv'
<1>1. /\ UNCHANGED <<source, linkable, parsed, idls, asts, reading, onLoad, shared, called,
                     stack>>
      /\ call.op = "back" /\ call.cb = User
      /\ call' = Idle /\ call' \in Call /\ call'.op = "idle" /\ ~call'.err
      /\ answers' = <<Promise!Result>> /\ answers' # <<>>
  BY Answering, Calls DEF CallUser, model, each
<1>2. /\ \A g : Waits(g)' <=> Waits(g)
      /\ \A g : Begun(g)' <=> Begun(g)
      /\ \A x : Flying(x) <=> x = User
      /\ \A x : ~Flying(x)'
      /\ \A x : Used(x)' => Used(x)
      /\ \A g : Complete(g)' <=> Complete(g)
  BY <1>1 DEF Waits, Begun, Flying, Used, Complete, Good, Spent, Indexes, Defs, Token
<1>3. Root \in parsed /\ ~Waits(Root)
  BY Answering
<1>4. TypeOK'
  BY <1>1, Answering DEF IInv, TypeOK
<1>5. FirstCall' /\ Phases' /\ Loops'
  BY <1>1, <1>2, <1>3 DEF IInv, FirstCall, Phases, Loops, Frames, Good, Begun
<1>6. Tokens' /\ Parents' /\ Loading' /\ Backing'
  BY <1>1, <1>2 DEF IInv, Tokens, Parents, Loading, Backing, Frames, Indexes, Defs, Begun
<1>7. Asked' /\ Truth' /\ Reached' /\ Counted'
  BY <1>1, <1>2, <1>3 DEF IInv, Asked, Truth, Reached, Counted, Spent, Indexes, Defs, Token
<1>8. SpentWhenParsed' /\ Succeeded'
  <2>1. /\ \A x : Delivered(x)' <=> x \in called
        /\ \A x \in called : Delivered(x)
    BY <1>1 DEF Delivered
  <2> QED
    BY <1>1, <1>2, <2>1 DEF IInv, SpentWhenParsed, Succeeded, Indexes, Defs, Token
<1>9. Handed'
  <2>1. \A h \in File : \A j \in Indexes(h) : ~Flying(Token(h, j))
    BY <1>2, Callbacks DEF Indexes
  <2> QED
    BY <1>1, <1>2, <2>1 DEF IInv, Handed, Frames, Indexes, Defs, Token
<1>10. Tree' /\ Leaves'
  BY <1>1 DEF IInv, Tree, Leaves, Below
<1>11. Truthful' /\ Finished'
  <2>1. Promise!Result' = Promise!Result
    BY <1>1 DEF Promise!Result
  <2>2. ASSUME answers' = <<"thrift">>
        PROVE  reading = {} /\ parsed = Reachable(source) /\ \A f \in parsed : Complete(f)
    <3>1. Promise!Result = "thrift"
      BY <1>1, <2>2
    <3> QED
      BY <3>1, Answering, AllComplete
  <2>3. Truthful'
    BY <1>1, <2>1 DEF Truthful
  <2>4. Finished'
    BY <1>1, <1>2, <2>2, Calls DEF Finished, Idle, User
  <2> QED
    BY <2>3, <2>4
<1> QED
  BY <1>4, <1>5, <1>6, <1>7, <1>8, <1>9, <1>10, <1>11 DEF IInv

LEMMA StepKeepsInvariant == IInv /\ [Next]_vars => IInv'
<1> SUFFICES ASSUME IInv, [Next]_vars PROVE IInv'
  OBVIOUS
<1>1. CASE LoadAgain
  BY <1>1, KeepsWhenLoadedAgain
<1>2. CASE LoadFirst
  BY <1>2, KeepsWhenLoadedFirst
<1>3. ASSUME NEW f \in File, Deliver(f) PROVE IInv'
  BY <1>3, KeepsWhenDelivered
<1>4. CASE LoadIncludedModules
  BY <1>4, KeepsWhenIncluding
<1>5. CASE LoopEnds
  BY <1>5, KeepsWhenLoopEnds
<1>6. CASE LoopStep
  BY <1>6, KeepsWhenLooping
<1>7. CASE HandleCb
  BY <1>7, KeepsWhenHandledLate, KeepsWhenSettled, KeepsWhenCounted DEF HandleCb
<1>8. CASE CallUser
  BY <1>8, KeepsWhenAnswered
<1>9. CASE UNCHANGED vars
  <2>1. UNCHANGED <<source, linkable, parsed, idls, asts, reading, onLoad, shared, called,
                    call, stack, answers>>
    BY <1>9 DEF vars, model, each
  <2>2. /\ \A f : Waits(f)' <=> Waits(f)
        /\ \A f : Begun(f)' <=> Begun(f)
        /\ \A cb : Flying(cb)' <=> Flying(cb)
        /\ \A cb : Used(cb)' <=> Used(cb)
        /\ \A cb : Delivered(cb)' <=> Delivered(cb)
        /\ \A f : Complete(f)' <=> Complete(f)
    BY <2>1 DEF Waits, Begun, Flying, Used, Delivered, Complete, Good, Spent, Indexes,
       Defs, Token
  <2>3. TypeOK' /\ FirstCall' /\ Phases' /\ Loops'
    BY <2>1, <2>2 DEF IInv, TypeOK, FirstCall, Phases, Loops, Frames, Good, Begun
  <2>4. Tokens' /\ Parents' /\ Loading' /\ Backing'
    BY <2>1, <2>2 DEF IInv, Tokens, Parents, Loading, Backing, Frames, Indexes, Defs, Begun
  <2>5. Asked' /\ Truth' /\ Reached' /\ Counted'
    BY <2>1, <2>2 DEF IInv, Asked, Truth, Reached, Counted, Spent, Indexes, Defs, Token
  <2>6. SpentWhenParsed' /\ Succeeded' /\ Handed'
    BY <2>1, <2>2 DEF IInv, SpentWhenParsed, Succeeded, Handed, Delivered, Frames,
       Indexes, Defs, Token
  <2>7. Tree' /\ Leaves' /\ Truthful' /\ Finished'
    BY <2>1, <2>2 DEF IInv, Tree, Leaves, Below, Truthful, Finished, Promise!Result
  <2> QED
    BY <2>3, <2>4, <2>5, <2>6, <2>7 DEF IInv
<1> QED
  BY <1>1, <1>2, <1>3, <1>4, <1>5, <1>6, <1>7, <1>8, <1>9 DEF Next, Run

THEOREM Invariance == Spec => []IInv
BY Initially, StepKeepsInvariant, PTL DEF Spec
-----------------------------------------------------------------------------
(* The type invariant of the asynchronous loader, for file systems of any  *)
(* size.                                                                   *)
THEOREM TypeCorrect == Spec => []TypeOK
<1>1. IInv => TypeOK
  BY DEF IInv
<1> QED
  BY <1>1, Invariance, PTL

(* The user's callback is called at most once, in whatever order fs        *)
(* answers and however the files fail or include one another.              *)
THEOREM AnswersAtMostOnce == Spec => []AnswersOnce
<1>1. IInv => AnswersOnce
  <2> SUFFICES ASSUME IInv PROVE Len(answers) <= 1
    BY DEF AnswersOnce
  <2>1. CASE answers = <<>>
    BY <2>1
  <2>2. CASE answers = <<Promise!Result>>
    <3>1. Len(answers) = 1
      BY <2>2
    <3> QED
      BY <3>1
  <2> QED
    BY <2>1, <2>2 DEF IInv, Truthful
<1> QED
  BY <1>1, Invariance, PTL

(* No callback that the loader hands to asyncEach calls back twice.        *)
THEOREM CallsHandlesOnce == Spec => []HandlesOnce
<1>1. IInv => HandlesOnce
  <2> SUFFICES ASSUME IInv, call.op = "back" PROVE call.cb \notin called
    BY DEF HandlesOnce
  <2>1. call.cb \in Callback /\ Flying(call.cb)
    BY DEF IInv, TypeOK, Call, Flying
  <2> QED
    BY <2>1 DEF IInv, Backing
<1> QED
  BY <1>1, Invariance, PTL

(* A Thrift is handed over only when all that the entry point reaches is   *)
(* parsed, and nothing is read any more.                                   *)
THEOREM SucceedsWhenComplete == Spec => []SuccessIsComplete
<1>1. IInv => SuccessIsComplete
  BY DEF IInv, Finished, Complete, SuccessIsComplete
<1> QED
  BY <1>1, Invariance, PTL

(* The loader is never stuck: when no call is made, no loop runs and no    *)
(* file is read, the user has been answered.  A file that waits without    *)
(* being read waits for one of its callbacks, which the load of another    *)
(* file below it holds, and that file waits, too; but a tree of files has  *)
(* leaves.                                                                 *)
THEOREM LosesNothing == Spec => []NothingLost
<1>1. IInv => NothingLost
  <2> SUFFICES ASSUME IInv, call = Idle, stack = <<>>, reading = {}, answers = <<>>
               PROVE  FALSE
    BY DEF NothingLost
  <2> DEFINE S == {f \in parsed : Waits(f)}
  <2>1. call.op = "idle" /\ \A cb : ~Flying(cb)
    BY Calls DEF Flying
  <2>2. Root \in S
    BY <2>1 DEF IInv, Asked
  <2>3. PICK f \in S : \A g \in S : ~Below(f, g)
    BY <2>2 DEF IInv, Leaves
  <2>4. f \in File /\ Begun(f) /\ ~shared[f].done /\ shared[f].count # 0
    BY <2>1, <2>3 DEF IInv, TypeOK, Waits, Begun
  <2>5. PICK i \in Indexes(f) : i \notin Spent(f)
    <3> SUFFICES ASSUME Spent(f) = Indexes(f) PROVE FALSE
      BY DEF Spent
    <3>1. Len(Defs(f)) \in Nat
      <4>1. Defs(f) \in Seq(File \cup {Other})
        BY <2>4, Files DEF Defs, IInv, TypeOK
      <4> QED
        BY <4>1
    <3>2. Cardinality(Spent(f)) = Len(Defs(f))
      <4>1. Cardinality(1 .. Len(Defs(f))) = Len(Defs(f))
        BY <3>1, FS_Interval
      <4> QED
        BY <4>1 DEF Indexes
    <3>3. shared[f].count \in Nat /\ shared[f].count + Cardinality(Spent(f)) = Len(Defs(f))
      BY <2>4 DEF IInv, TypeOK, Counted
    <3> QED
      BY <2>4, <3>1, <3>2, <3>3
  <2>6. PICK g \in parsed : onLoad[g] = Token(f, i) /\ Waits(g)
    <3>1. Frames = {}
      BY DEF Frames
    <3> QED
      BY <2>1, <2>4, <2>5, <3>1 DEF IInv, Handed, Spent
  <2>7. Below(f, g)
    <3>1. i \in Nat /\ i # 0
      BY DEF Indexes
    <3>2. onLoad[g] # User /\ onLoad[g].file = f
      BY <2>4, <2>6, <3>1, Callbacks
    <3> QED
      BY <3>2, Held DEF Below
  <2> QED
    BY <2>3, <2>6, <2>7
<1> QED
  BY <1>1, Invariance, PTL

(* The loader answers once and it is the files that decide what: every     *)
(* step is the answer of LoadPromise or changes nothing of it.             *)
LEMMA StepImplements ==
  ASSUME IInv, [Next]_vars
  PROVE  [Promise!Answer]_(Promise!promiseVars)
<1> USE DEF Promise!promiseVars, Promise!Answer
<1>1. CASE CallUser
  BY <1>1, Answering DEF CallUser
<1>2. CASE LoadAgain \/ LoadFirst \/ LoadIncludedModules \/ \E f \in File : Deliver(f)
  BY <1>2 DEF LoadAgain, LoadFirst, LoadIncludedModules, Deliver
<1>3. CASE LoopEnds \/ LoopStep \/ HandleCb \/ UNCHANGED vars
  BY <1>3 DEF LoopEnds, LoopStep, HandleCb, vars
<1> QED
  BY <1>1, <1>2, <1>3 DEF Next, Run

THEOREM Implements ==
  Spec => Promise!Init /\ [][Promise!Answer]_(Promise!promiseVars)
<1>1. Init => Promise!Init
  BY DEF Init, Promise!Init
<1>2. IInv /\ [Next]_vars => [Promise!Answer]_(Promise!promiseVars)
  BY StepImplements
<1> QED
  BY <1>1, <1>2, Invariance, PTL DEF Spec
=============================================================================
