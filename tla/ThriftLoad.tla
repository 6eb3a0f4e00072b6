----------------------------- MODULE ThriftLoad -----------------------------
(***************************************************************************)
(* Thrift.load(options, cb): the asynchronous loader of thrift.js, which   *)
(* reads the entry point and, file by file through asyncEach, everything   *)
(* it includes, and then compiles and links.                               *)
(*                                                                         *)
(* JavaScript runs one callback to its end before the next.  'call' is the *)
(* function call about to run and 'stack' the asyncEach loops waiting for  *)
(* the handle they started to return, innermost last.  While both are      *)
(* empty the event loop may deliver the answer of any pending readFile.    *)
(***************************************************************************)
EXTENDS IncludeGraph, FiniteSets

VARIABLES source,     \* what reading and parsing each file gives
          linkable,   \* compileAndLink accepts the program
          parsed,     \* model.parsed: files whose load has begun
          idls,       \* model.idls: files whose text is known
          asts,       \* model.asts: files whose syntax tree is known
          reading,    \* files fs.readFile has not answered for
          onLoad,     \* the callback the load of each file was given
          shared,     \* sharedData of the asyncEach over a file's definitions
          called,     \* callbacks whose handleCbCalled is set
          call,       \* the call about to be made
          stack,      \* asyncEach loops in progress
          answers     \* what the user's callback was called with

model == <<parsed, idls, asts>>
each == <<shared, called>>
vars == <<source, linkable, model, reading, onLoad, each, call, stack, answers>>

(* A callback stands for one definition of a file: the function handleCb   *)
(* made for it.  The callback of the constructor has index 0.              *)
Callback == [file : File, index : Nat]
User == [file |-> Root, index |-> 0]

Call == [op : {"idle", "load", "includes", "back"}, file : File,
         cb : Callback, err : BOOLEAN]

Idle == [op |-> "idle", file |-> Root, cb |-> User, err |-> FALSE]
LoadCall(f, cb) == [op |-> "load", file |-> f, cb |-> cb, err |-> FALSE]
IncludesCall(f) == [op |-> "includes", file |-> f, cb |-> User, err |-> FALSE]
BackCall(cb, err) == [op |-> "back", file |-> Root, cb |-> cb, err |-> err]

Init == /\ source \in Sources
        /\ linkable \in BOOLEAN
        /\ parsed = {}
        /\ idls = {f \in File : source[f].given = "idl"}
        /\ asts = {f \in File : source[f].given = "ast"}
        /\ reading = {}
        /\ onLoad = [f \in File |-> User]
        /\ shared = [f \in File |-> [done |-> FALSE, count |-> 0]]
        /\ called = {}
        /\ call = LoadCall(Root, User)
        /\ stack = <<>>
        /\ answers = <<>>
-----------------------------------------------------------------------------
(* The function load passes to fs.readFile.                                *)
Receive(f) ==
    \/ /\ source[f].status = "unreadable"
       /\ call' = BackCall(onLoad'[f], TRUE)
       /\ UNCHANGED idls
    \/ /\ source[f].status # "unreadable"
       /\ idls' = idls \cup {f}
       /\ call' = IncludesCall(f)

(* load(filename, cb) of a file whose load has begun, perhaps not ended:   *)
(* cb is called without waiting.  Fault: wait for the first load instead.  *)
AnswerLater(cb) == Idle
AnswerAgain(cb) == BackCall(cb, FALSE)

LoadAgain ==
    /\ call.op = "load" /\ call.file \in parsed
    /\ call' = AnswerAgain(call.cb)
    /\ UNCHANGED <<source, linkable, model, reading, onLoad, each, stack, answers>>

(* load of a new file: its text or tree was given, or it is read.  A       *)
(* readFile of the user's may answer before it returns.  Fault: the file   *)
(* is not marked.                                                          *)
Unmarked(f) == parsed
Marked(f) == parsed \cup {f}

LoadFirst ==
    /\ call.op = "load" /\ call.file \notin parsed
    /\ parsed' = Marked(call.file)
    /\ onLoad' = [onLoad EXCEPT ![call.file] = call.cb]
    /\ \/ /\ call.file \in idls \cup asts
          /\ call' = IncludesCall(call.file)
          /\ UNCHANGED <<idls, reading>>
       \/ /\ call.file \notin idls \cup asts
          /\ reading' = reading \cup {call.file}
          /\ call' = Idle
          /\ UNCHANGED idls
       \/ /\ call.file \notin idls \cup asts
          /\ Receive(call.file)
          /\ UNCHANGED reading
    /\ UNCHANGED <<source, linkable, asts, each, stack, answers>>

(* The event loop: an answer of readFile arrives, in any order.            *)
Deliver(f) ==
    /\ call = Idle /\ stack = <<>> /\ f \in reading
    /\ reading' = reading \ {f}
    /\ onLoad' = onLoad
    /\ Receive(f)
    /\ UNCHANGED <<source, linkable, parsed, asts, each, stack, answers>>

(* loadIncludedModules(filename, cb): parse, check every include, and      *)
(* start an asyncEach over the definitions.  Fault: includes not checked.  *)
Parses(f) == source[f].status # "malformed"
Accepted(f) == source[f].status = "good"

LoadIncludedModules ==
    /\ call.op = "includes"
    /\ LET f == call.file IN
       /\ asts' = IF Parses(f) THEN asts \cup {f} ELSE asts
       /\ \/ /\ ~Accepted(f)
             /\ call' = BackCall(onLoad[f], TRUE)
             /\ UNCHANGED <<shared, stack>>
          \/ /\ Accepted(f) /\ source[f].defs = <<>>
             /\ call' = BackCall(onLoad[f], FALSE)
             /\ UNCHANGED <<shared, stack>>
          \/ /\ Accepted(f) /\ source[f].defs # <<>>
             /\ shared' = [shared EXCEPT ![f] =
                             [done |-> FALSE, count |-> Len(source[f].defs)]]
             /\ stack' = Append(stack, [file |-> f, index |-> 1])
             /\ call' = Idle
    /\ UNCHANGED <<source, linkable, parsed, idls, reading, onLoad, called, answers>>

(* A turn of the innermost asyncEach loop: it ends, or hands over the next *)
(* definition, which calls back at once unless it is an include.  Fault:   *)
(* the callbacks of one loop share their handleCbCalled.                   *)
SharedHandle(loop) == [loop EXCEPT !.index = 1]
OwnHandle(loop) == loop

Top == stack[Len(stack)]
LoopIsOver == shared[Top.file].done \/ Top.index > Len(source[Top.file].defs)

LoopEnds ==
    /\ call = Idle /\ stack # <<>> /\ LoopIsOver
    /\ stack' = SubSeq(stack, 1, Len(stack) - 1)
    /\ UNCHANGED <<source, linkable, model, reading, onLoad, each, call, answers>>

LoopStep ==
    /\ call = Idle /\ stack # <<>> /\ ~LoopIsOver
    /\ stack' = [stack EXCEPT ![Len(stack)].index = @ + 1]
    /\ LET def == source[Top.file].defs[Top.index] IN
       call' = IF def = Other THEN BackCall(OwnHandle(Top), FALSE)
                            ELSE LoadCall(def, OwnHandle(Top))
    /\ UNCHANGED <<source, linkable, model, reading, onLoad, each, answers>>

(* The function handleCb of lib/async-each.js made for a definition.       *)
(* Faults: 'done' is not set after an error; success one callback early.   *)
SettleNotDone(f, err) ==
    /\ call' = BackCall(onLoad[f], err)
    /\ UNCHANGED each

Settle(f, err) ==
    /\ shared' = [shared EXCEPT ![f].done = TRUE]
    /\ call' = BackCall(onLoad[f], err)
    /\ UNCHANGED called

NoneLeftSoon(left) == left <= 1
NoneLeft(left) == left = 0

CountDown(cb) ==
    LET left == shared[cb.file].count - 1 IN
    /\ called' = called \cup {cb}
    /\ shared' = [shared EXCEPT ![cb.file] = [done |-> NoneLeft(left), count |-> left]]
    /\ call' = IF NoneLeft(left) THEN BackCall(onLoad[cb.file], FALSE) ELSE Idle

HandleCb ==
    /\ call.op = "back" /\ call.cb # User
    /\ LET cb == call.cb IN
       \/ /\ shared[cb.file].done
          /\ call' = Idle
          /\ UNCHANGED each
       \/ /\ ~shared[cb.file].done
          /\ call.err \/ cb \in called
          /\ Settle(cb.file, TRUE)
       \/ /\ ~shared[cb.file].done
          /\ ~call.err /\ cb \notin called
          /\ CountDown(cb)
    /\ UNCHANGED <<source, linkable, model, reading, onLoad, stack, answers>>

(* The callback of the constructor: pass an error on, or compile and link, *)
(* which needs the tree of every file reached: included Thrift objects     *)
(* share 'asts' but are given neither 'fs' nor a callback.                 *)
Compiles == Reachable(source) \subseteq asts /\ linkable

CallUser ==
    /\ call.op = "back" /\ call.cb = User
    /\ answers' = Append(answers,
                         IF ~call.err /\ Compiles THEN "thrift" ELSE "error")
    /\ call' = Idle
    /\ UNCHANGED <<source, linkable, model, reading, onLoad, each, stack>>
-----------------------------------------------------------------------------
Run == LoadAgain \/ LoadFirst \/ LoadIncludedModules
         \/ LoopEnds \/ LoopStep \/ HandleCb \/ CallUser

Next == Run \/ \E f \in File : Deliver(f)

(* JavaScript runs what is on its stack, and fs.readFile answers.          *)
Fairness == WF_vars(Run) /\ \A f \in File : WF_vars(Deliver(f))

Spec == Init /\ [][Next]_vars
FairSpec == Spec /\ Fairness
-----------------------------------------------------------------------------
TypeOK == /\ source \in Sources /\ linkable \in BOOLEAN
          /\ parsed \subseteq File /\ idls \subseteq File /\ asts \subseteq File
          /\ reading \subseteq parsed
          /\ onLoad \in [File -> Callback]
          /\ shared \in [File -> [done : BOOLEAN, count : Nat]]
          /\ called \subseteq Callback
          /\ call \in Call
          /\ stack \in Seq(Callback)
          /\ answers \in Seq({"thrift", "error"})

(* The user's callback is called at most once, in whatever order the files *)
(* are read, fail, include one another or include a file being loaded.     *)
AnswersOnce == Len(answers) <= 1

(* A load that succeeds has loaded exactly what the entry point reaches    *)
(* and has no read in flight, though 'parsed' is set before a file is read *)
(* and a second include of the same file is answered at once.              *)
SuccessIsComplete ==
    answers = <<"thrift">> => /\ Reachable(source) = parsed
                              /\ Reachable(source) \subseteq asts
                              /\ reading = {}

(* No definition calls back again after it succeeded, so the error "Called *)
(* asyncEach handle argument twice" is never raised by the loader itself.  *)
HandlesOnce == call.op = "back" => call.cb \notin called

(* When nothing is left to run and no read is in flight the user has been  *)
(* answered: no include cycle makes loads wait for one another.            *)
NothingLost ==
    (call = Idle /\ stack = <<>> /\ reading = {}) => answers # <<>>

(* The answer is the one the files determine, and it comes: the loader     *)
(* implements the promise it shares with the synchronous one.              *)
Promise == INSTANCE LoadPromise
Promised == Promise!Spec
=============================================================================
