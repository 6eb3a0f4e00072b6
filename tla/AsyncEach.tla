----------------------------- MODULE AsyncEach -----------------------------
(***************************************************************************)
(* lib/async-each.js: run a handle on every element of an iterator and     *)
(* call 'cb' once, when all of them have called back or the first of them  *)
(* reports an error.                                                       *)
(*                                                                         *)
(* The handles are the environment.  A handle that was started may call    *)
(* its callback at any time, inside the loop or long after it, with or     *)
(* without an error, and more than once.                                   *)
(***************************************************************************)
EXTENDS Naturals, FiniteSets, Sequences

CONSTANTS Lengths,    \* the lengths an iterator may have
          MaxCalls    \* bound: calls one handle makes of its callback

ASSUME LengthsAssumption == Lengths \subseteq Nat
ASSUME MaxCallsAssumption == MaxCalls \in Nat

VARIABLES length,     \* iterator.length
          index,      \* the next element of the for loop
          looping,    \* the for loop has not returned
          done,       \* sharedData.done
          count,      \* sharedData.count
          called,     \* elements whose handleCbCalled is set
          calls,      \* calls made so far by the handle of each element
          failed,     \* elements whose handle has reported an error
          answers     \* what 'cb' was called with, in order

vars == <<length, index, looping, done, count, called, calls, failed, answers>>

Elements == 0 .. length - 1

(* The elements whose handle was started. *)
Started == {e \in Elements : e < index}

(* What 'cb' can be given: success, the error of a handle, or the error    *)
(* that a handle called back twice.                                        *)
Answer == {"ok", "error", "twice"}

Init == /\ length \in Lengths
        /\ index = 0
        /\ looping = TRUE
        /\ done = FALSE
        /\ count = length
        /\ called = {}
        /\ calls = [e \in Elements |-> 0]
        /\ failed = {}
        /\ answers = <<>>

(* An empty iterator: cb at once, sharedData is never made.                *)
CallBackAtOnce ==
    /\ looping /\ length = 0
    /\ looping' = FALSE
    /\ answers' = Append(answers, "ok")
    /\ UNCHANGED <<length, index, done, count, called, calls, failed>>

(* One turn of the for loop: the handle of the next element is started,    *)
(* unless a callback made in an earlier turn has already settled it.       *)
(* Faults: one turn too many; the check of 'done' dropped.                 *)
GoesOnPastTheEnd == index <= length /\ ~done
GoesOnWhenDone == index < length
GoesOn == index < length /\ ~done

Handle ==
    /\ looping /\ length # 0 /\ GoesOn
    /\ index' = index + 1
    /\ UNCHANGED <<length, looping, done, count, called, calls, failed, answers>>

EndLoop ==
    /\ looping /\ length # 0 /\ ~GoesOn
    /\ looping' = FALSE
    /\ UNCHANGED <<length, index, done, count, called, calls, failed, answers>>

(* The function handleCb returns, for element e: an error settles it, so   *)
(* does a second call, and a first call counts down to success.            *)
(* Faults: 'done' is not set; no handleCbCalled at all; the counter is     *)
(* compared before it is decremented.                                      *)
SettleNotDone(answer) ==
    /\ done' = done
    /\ answers' = Append(answers, answer)
Settle(answer) ==
    /\ done' = TRUE
    /\ answers' = Append(answers, answer)

NeverCalledBefore(e) == FALSE
CalledBefore(e) == e \in called

NoneLeftBefore == count = 0
NoneLeft == count' = 0

CountDown(e) ==
    /\ called' = called \cup {e}
    /\ count' = count - 1
    /\ IF NoneLeft THEN Settle("ok") ELSE UNCHANGED <<done, answers>>

HandleCb(e, err) ==
    \/ /\ done
       /\ UNCHANGED <<done, count, called, answers>>
    \/ /\ ~done /\ err
       /\ Settle("error")
       /\ UNCHANGED <<count, called>>
    \/ /\ ~done /\ ~err /\ CalledBefore(e)
       /\ Settle("twice")
       /\ UNCHANGED <<count, called>>
    \/ /\ ~done /\ ~err /\ ~CalledBefore(e)
       /\ CountDown(e)

(* The environment: the handle of e calls its callback.                    *)
CallBack(e, err) ==
    /\ e \in Started
    /\ calls[e] < MaxCalls
    /\ calls' = [calls EXCEPT ![e] = @ + 1]
    /\ failed' = IF err THEN failed \cup {e} ELSE failed
    /\ HandleCb(e, err)
    /\ UNCHANGED <<length, index, looping>>

Loop == CallBackAtOnce \/ Handle \/ EndLoop

Next == Loop \/ \E e \in Elements, err \in BOOLEAN : CallBack(e, err)

(* The loop runs to its end, and every handle that was started calls back  *)
(* at least once: what asyncEach asks of its caller.                       *)
FirstCallBack(e) == /\ e \in Elements /\ calls[e] = 0
                    /\ \E err \in BOOLEAN : CallBack(e, err)

AllElements == UNION {0 .. n - 1 : n \in Lengths}

Fairness == /\ WF_vars(Loop)
            /\ \A e \in AllElements : WF_vars(FirstCallBack(e))

Spec == Init /\ [][Next]_vars
FairSpec == Spec /\ Fairness
-----------------------------------------------------------------------------
TypeOK == /\ length \in Lengths
          /\ index \in 0 .. length
          /\ looping \in BOOLEAN /\ done \in BOOLEAN
          /\ count \in 0 .. length
          /\ called \subseteq Started /\ failed \subseteq Started
          /\ calls \in [Elements -> 0 .. MaxCalls]
          /\ answers \in Seq(Answer)

(* However the handles behave, 'cb' is called at most once.                *)
AnswersOnce == Len(answers) <= 1

(* 'cb' is told of success only when every element of the iterator was     *)
(* handled and its handle called back: the counter stands for that set.    *)
(* An error 'cb' is told of was caused by a handle: one that reported it,  *)
(* or one that called back twice.                                          *)
SuccessIsComplete == answers = <<"ok">> => called = Elements
ErrorHasCause ==
    /\ answers = <<"error">> => failed # {}
    /\ answers = <<"twice">> => \E e \in Elements : calls[e] >= 2
AnswerIsTrue == SuccessIsComplete /\ ErrorHasCause

(* Nothing is lost: once the loop is over and every handle it started has  *)
(* called back, 'cb' has been called.                                      *)
NothingLost ==
    (~looping /\ \A e \in Started : calls[e] > 0) => answers # <<>>

(* No handle is started once 'cb' was called (test/async-each.js, "ensure  *)
(* handle parameter not called after error").                              *)
NoHandleAfterAnswer == [][answers # <<>> => index' = index]_vars

(* When every handle calls back, 'cb' is called.                           *)
Answers == <>(answers # <<>>)

(* The counter and the flags implement the settlement of a set of tasks.   *)
Settling == INSTANCE Settlement
              WITH Task <- AllElements, pending <- Elements \ called

Settles == Settling!Spec
=============================================================================
