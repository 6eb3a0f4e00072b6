----------------------------- MODULE Settlement -----------------------------
(***************************************************************************)
(* What lib/async-each.js promises to its caller, without its counter and  *)
(* its flags: a set of tasks is settled once, with success when the last   *)
(* of them has succeeded, or with an error before that.                    *)
(***************************************************************************)
EXTENDS Sequences

CONSTANT Task

VARIABLES pending,   \* the tasks that have not succeeded
          answers    \* the answer given, a sequence that stays below two

Init == pending \in SUBSET Task /\ answers = <<>>

Succeed(t) ==
    /\ answers = <<>> /\ t \in pending
    /\ pending' = pending \ {t}
    /\ answers' = IF pending' = {} THEN <<"ok">> ELSE <<>>

NothingToDo ==
    /\ answers = <<>> /\ pending = {}
    /\ answers' = <<"ok">>
    /\ UNCHANGED pending

Fail ==
    /\ answers = <<>> /\ pending # {}
    /\ \E answer \in {"error", "twice"} : answers' = <<answer>>
    /\ UNCHANGED pending

Next == NothingToDo \/ Fail \/ \E t \in Task : Succeed(t)

Spec == Init /\ [][Next]_<<pending, answers>>
=============================================================================
