-------------------------- MODULE AsyncEach_proofs --------------------------
(***************************************************************************)
(* For iterators of every length, and however often the handles call back: *)
(* the invariants of AsyncEach, and that it implements Settlement.         *)
(*                                                                         *)
(* The inductive invariant says what the counter stands for: the elements  *)
(* that have not called back.  Everything else follows from it.            *)
(***************************************************************************)
EXTENDS AsyncEach, FiniteSetTheorems, TLAPS

CounterOK == count = length - Cardinality(called)

(* While nothing is settled no handle has failed, and the handles that     *)
(* called back are those counted.                                          *)
Unsettled ==
    (~done /\ length # 0) => /\ answers = <<>> /\ count > 0 /\ failed = {}
                             /\ \A e \in Elements : calls[e] > 0 => e \in called
                             /\ ~looping => index = length

Settled ==
    done => /\ \E answer \in Answer : answers = <<answer>>
            /\ SuccessIsComplete
            /\ ErrorHasCause

EmptyIterator ==
    length = 0 => /\ ~done
                  /\ IF looping THEN answers = <<>> ELSE answers = <<"ok">>

CountedOnce == \A e \in called : calls[e] > 0

IInv == TypeOK /\ CounterOK /\ Unsettled /\ Settled /\ EmptyIterator /\ CountedOnce

(* Some or all of the elements of an iterator: how many they can be.       *)
LEMMA SomeOfAll ==
  ASSUME NEW n \in Nat, NEW S \in SUBSET (0 .. n - 1)
  PROVE  /\ IsFiniteSet(S)
         /\ Cardinality(S) \in 0 .. n
         /\ Cardinality(S) = n => S = 0 .. n - 1
         /\ \A e \in 0 .. n - 1 :
               e \notin S => Cardinality(S \cup {e}) = Cardinality(S) + 1
<1>1. IsFiniteSet(0 .. n - 1) /\ Cardinality(0 .. n - 1) = n
  BY FS_Interval
<1>2. /\ IsFiniteSet(S)
      /\ Cardinality(S) <= n
      /\ Cardinality(S) = n => S = 0 .. n - 1
  BY <1>1, FS_Subset
<1>3. Cardinality(S) \in Nat
  BY <1>2, FS_CardinalityType
<1>4. \A e \in 0 .. n - 1 :
         e \notin S => Cardinality(S \cup {e}) = Cardinality(S) + 1
  BY <1>2, FS_AddElement
<1> QED
  BY <1>2, <1>3, <1>4

LEMMA Initially == Init => IInv
<1> SUFFICES ASSUME Init PROVE IInv
  OBVIOUS
<1>1. length \in Nat
  BY LengthsAssumption DEF Init
<1>2. Cardinality({}) = 0
  BY FS_EmptySet
<1>3. calls \in [Elements -> 0 .. MaxCalls]
  BY MaxCallsAssumption DEF Init
<1>4. looping \in BOOLEAN /\ done \in BOOLEAN
  BY DEF Init
<1>5. TypeOK
  BY <1>1, <1>3, <1>4 DEF Init, TypeOK
<1> QED
  BY <1>1, <1>2, <1>5 DEF Init, IInv, CounterOK, Unsettled, Settled,
     EmptyIterator, CountedOnce, Elements

(* Each disjunct of the function handleCb makes, given what a call of it   *)
(* does to the history of the handles.                                     *)
LEMMA StepKeepsInvariant == IInv /\ [Next]_vars => IInv'
<1> SUFFICES ASSUME IInv, [Next]_vars PROVE IInv'
  OBVIOUS
<1> USE DEF IInv
<1>0. /\ length \in Nat /\ index \in Nat /\ count \in Nat
      /\ called \in SUBSET (0 .. length - 1)
  BY LengthsAssumption DEF TypeOK, Started, Elements
<1>1. CASE CallBackAtOnce
  <2>1. /\ answers' = <<"ok">> /\ looping' = FALSE /\ length = 0 /\ ~done
        /\ UNCHANGED <<length, index, done, count, called, calls, failed>>
        /\ Elements' = Elements /\ Started' = Started
    BY <1>1 DEF CallBackAtOnce, EmptyIterator, Elements, Started
  <2>2. TypeOK'
    <3>1. looping' \in BOOLEAN
      BY <2>1
    <3>2. answers' \in Seq(Answer)
      BY <2>1 DEF Answer
    <3> QED
      BY <2>1, <3>1, <3>2 DEF TypeOK
  <2> QED
    BY <2>1, <2>2 DEF CounterOK, Unsettled, Settled, EmptyIterator, CountedOnce
<1>2. CASE Handle
  <2>1. TypeOK'
    BY <1>0, <1>2 DEF Handle, GoesOn, TypeOK, Elements, Started, Answer
  <2> QED
    BY <1>0, <1>2, <2>1 DEF Handle, GoesOn, TypeOK, CounterOK, Unsettled, Settled,
       EmptyIterator, CountedOnce, Elements, SuccessIsComplete, ErrorHasCause
<1>3. CASE EndLoop
  <2>1. TypeOK'
    BY <1>0, <1>3 DEF EndLoop, GoesOn, TypeOK, Elements, Started, Answer
  <2> QED
    BY <1>0, <1>3, <2>1 DEF EndLoop, GoesOn, TypeOK, CounterOK, Unsettled, Settled,
       EmptyIterator, CountedOnce, Elements, SuccessIsComplete, ErrorHasCause
<1>4. ASSUME NEW e \in Elements, NEW err \in BOOLEAN, CallBack(e, err)
      PROVE  IInv'
  <2>0. /\ e \in Started /\ calls[e] \in Nat /\ calls'[e] = calls[e] + 1
        /\ length' = length /\ index' = index /\ looping' = looping
        /\ Elements' = Elements /\ Started' = Started
        /\ calls' \in [Elements -> 0 .. MaxCalls]
        /\ \A d \in Elements : calls'[d] >= calls[d]
        /\ \A d \in Elements : d # e => calls'[d] = calls[d]
        /\ failed \subseteq failed' /\ failed' \subseteq Started
        /\ err => e \in failed'
        /\ ~err => failed' = failed
        /\ length # 0
    BY <1>0, <1>4, MaxCallsAssumption DEF CallBack, TypeOK, Elements, Started
  <2>1. CASE done /\ UNCHANGED <<done, count, called, answers>>
    <3>1. TypeOK'
      BY <1>0, <2>0, <2>1 DEF TypeOK
    <3>2. Settled'
      BY <1>0, <2>0, <2>1 DEF Settled, SuccessIsComplete, ErrorHasCause, TypeOK
    <3>3. CounterOK' /\ Unsettled' /\ EmptyIterator' /\ CountedOnce'
      BY <1>0, <2>0, <2>1 DEF CounterOK, Unsettled, EmptyIterator, CountedOnce,
         Elements
    <3> QED
      BY <3>1, <3>2, <3>3
  <2>2. CASE ~done /\ err /\ Settle("error") /\ UNCHANGED <<count, called>>
    <3>1. answers' = <<"error">> /\ done'
      BY <2>0, <2>2 DEF Settle, Unsettled
    <3>2. TypeOK'
      BY <1>0, <2>0, <2>2, <3>1 DEF TypeOK, Answer
    <3>3. Settled'
      BY <2>0, <2>2, <3>1 DEF Settled, SuccessIsComplete, ErrorHasCause, Answer
    <3>4. CounterOK' /\ Unsettled' /\ EmptyIterator' /\ CountedOnce'
      BY <1>0, <2>0, <2>2, <3>1 DEF CounterOK, Unsettled, EmptyIterator,
         CountedOnce, Elements
    <3> QED
      BY <3>2, <3>3, <3>4
  <2>3. CASE /\ ~done /\ ~err /\ CalledBefore(e)
             /\ Settle("twice") /\ UNCHANGED <<count, called>>
    <3>1. answers' = <<"twice">> /\ done'
      BY <2>0, <2>3 DEF Settle, Unsettled
    <3>2. calls'[e] >= 2
      BY <2>0, <2>3 DEF CalledBefore, CountedOnce
    <3>3. TypeOK'
      BY <1>0, <2>0, <2>3, <3>1 DEF TypeOK, Answer
    <3>4. Settled'
      BY <2>0, <2>3, <3>1, <3>2
         DEF Settled, SuccessIsComplete, ErrorHasCause, Answer
    <3>5. CounterOK' /\ Unsettled' /\ EmptyIterator' /\ CountedOnce'
      BY <1>0, <2>0, <2>3, <3>1 DEF CounterOK, Unsettled, EmptyIterator,
         CountedOnce, Elements
    <3> QED
      BY <3>3, <3>4, <3>5
  <2>4. CASE ~done /\ ~err /\ ~CalledBefore(e) /\ CountDown(e)
    <3>1. called' = called \cup {e} /\ count' = count - 1
      BY <2>4 DEF CountDown
    <3>2. count = length - Cardinality(called) /\ e \notin called
      BY <2>4 DEF CounterOK, CalledBefore
    <3>3. Cardinality(called \cup {e}) = Cardinality(called) + 1
      BY <1>0, <3>2, SomeOfAll DEF Elements
    <3>4. called' \in SUBSET (0 .. length - 1) /\ called' \subseteq Started
      BY <1>0, <2>0, <3>1 DEF Elements, TypeOK
    <3>5. /\ Cardinality(called) \in 0 .. length
          /\ Cardinality(called') \in 0 .. length
          /\ Cardinality(called') = length => called' = Elements
      BY <1>0, <3>4, SomeOfAll DEF Elements
    <3>6. CounterOK' /\ count' \in 0 .. length
      BY <1>0, <2>0, <3>1, <3>2, <3>3, <3>5 DEF CounterOK
    <3>7. CASE count' = 0
      <4>1. done' /\ answers' = <<"ok">> /\ called' = Elements
        BY <1>0, <2>0, <2>4, <3>5, <3>6, <3>7
           DEF CountDown, NoneLeft, Settle, Unsettled, CounterOK
      <4> QED
        BY <1>0, <2>0, <2>4, <3>1, <3>4, <3>6, <4>1 DEF TypeOK, Unsettled, Settled,
           EmptyIterator, CountedOnce, SuccessIsComplete, ErrorHasCause, Answer
    <3>8. CASE count' # 0
      <4>1. done' = done /\ answers' = answers
        BY <2>4, <3>8 DEF CountDown, NoneLeft
      <4>2. TypeOK'
        BY <1>0, <2>0, <2>4, <3>4, <3>6, <4>1 DEF TypeOK
      <4>3. Unsettled'
        BY <1>0, <2>0, <2>4, <3>1, <3>6, <3>8, <4>1 DEF Unsettled, Elements
      <4>4. Settled' /\ EmptyIterator' /\ CountedOnce'
        BY <1>0, <2>0, <2>4, <3>1, <4>1 DEF Settled, EmptyIterator, CountedOnce,
           Elements
      <4> QED
        BY <3>6, <4>2, <4>3, <4>4
    <3> QED
      BY <3>7, <3>8
  <2> QED
    BY <1>4, <2>1, <2>2, <2>3, <2>4 DEF CallBack, HandleCb
<1>5. CASE UNCHANGED vars
  BY <1>5 DEF vars, TypeOK, CounterOK, Unsettled, Settled, EmptyIterator,
     CountedOnce, Elements, Started, SuccessIsComplete, ErrorHasCause
<1> QED
  BY <1>1, <1>2, <1>3, <1>4, <1>5 DEF Next, Loop

LEMMA Invariance == Spec => []IInv
BY Initially, StepKeepsInvariant, PTL DEF Spec

(* What the invariant says of the answers 'cb' gets.                       *)
LEMMA InvariantImplies ==
  IInv => TypeOK /\ AnswersOnce /\ SuccessIsComplete /\ ErrorHasCause /\ NothingLost
<1> SUFFICES ASSUME IInv
             PROVE  TypeOK /\ AnswersOnce /\ SuccessIsComplete /\ ErrorHasCause
                      /\ NothingLost
  OBVIOUS
<1>0. /\ length \in Nat /\ called \in SUBSET (0 .. length - 1) /\ TypeOK
      /\ done \in BOOLEAN /\ looping \in BOOLEAN
  BY LengthsAssumption DEF IInv, TypeOK, Started, Elements
<1>1. CASE length = 0
  <2>1. /\ answers = <<>> \/ answers = <<"ok">>
        /\ looping \/ answers = <<"ok">>
        /\ called = Elements
    BY <1>0, <1>1 DEF IInv, EmptyIterator, Elements
  <2> QED
    <3>1. AnswersOnce
      BY <2>1 DEF AnswersOnce
    <3>2. SuccessIsComplete /\ ErrorHasCause /\ NothingLost
      BY <2>1 DEF SuccessIsComplete, ErrorHasCause, NothingLost
    <3> QED
      BY <1>0, <3>1, <3>2
<1>2. CASE length # 0 /\ ~done
  <2>1. answers = <<>>
    BY <1>2 DEF IInv, Unsettled
  <2>2. ASSUME ~looping, \A e \in Started : calls[e] > 0 PROVE FALSE
    <3>1. Started = Elements
      BY <1>0, <1>2, <2>2 DEF IInv, Unsettled, Started, Elements
    <3>2. called = 0 .. length - 1
      BY <1>0, <1>2, <2>2, <3>1 DEF IInv, Unsettled, Elements
    <3>3. Cardinality(called) = length
      BY <1>0, <3>2, FS_Interval
    <3> QED
      BY <1>0, <1>2, <3>3 DEF IInv, CounterOK, Unsettled
  <2> QED
    BY <1>0, <2>1, <2>2 DEF AnswersOnce, SuccessIsComplete, ErrorHasCause, NothingLost
<1>3. CASE done
  <2>1. PICK answer \in Answer : answers = <<answer>>
    BY <1>3 DEF IInv, Settled
  <2> QED
    BY <1>0, <1>3, <2>1 DEF IInv, Settled, AnswersOnce, NothingLost
<1> QED
  BY <1>0, <1>1, <1>2, <1>3

(* The variables of asyncEach keep their types, the counter its range.     *)
THEOREM TypeCorrect == Spec => []TypeOK
BY Invariance, InvariantImplies, PTL

(* However many elements there are and however their handles behave, 'cb'  *)
(* is called at most once.                                                 *)
THEOREM CallsBackOnce == Spec => []AnswersOnce
BY Invariance, InvariantImplies, PTL

(* 'cb' is told of success only when every handle has called back, and of  *)
(* an error only when a handle has caused one.                             *)
THEOREM AnswersTruly == Spec => []AnswerIsTrue
<1>1. IInv => AnswerIsTrue
  BY InvariantImplies DEF AnswerIsTrue
<1> QED
  BY <1>1, Invariance, PTL

(* When the loop is over and each handle it started has called back, 'cb'  *)
(* has been called.                                                        *)
THEOREM LosesNothing == Spec => []NothingLost
BY Invariance, InvariantImplies, PTL
-----------------------------------------------------------------------------
(* The loop starts no further handle once 'cb' was called.                 *)
THEOREM StopsWhenAnswered == Spec => NoHandleAfterAnswer
<1>1. IInv /\ [Next]_vars => [answers # <<>> => index' = index]_vars
  <2> SUFFICES ASSUME IInv, Next, answers # <<>> PROVE index' = index
    BY DEF vars
  <2>1. CASE Handle
    BY <2>1 DEF Handle, GoesOn, IInv, Unsettled
  <2>2. CASE CallBackAtOnce \/ EndLoop
    BY <2>2 DEF CallBackAtOnce, EndLoop
  <2>3. CASE \E e \in Elements, err \in BOOLEAN : CallBack(e, err)
    BY <2>3 DEF CallBack
  <2> QED
    BY <2>1, <2>2, <2>3 DEF Next, Loop
<1> QED
  BY <1>1, Invariance, PTL DEF Spec, NoHandleAfterAnswer

(* One step of asyncEach is one step of a settlement, or leaves it alone.  *)
LEMMA StepSettles ==
  IInv /\ [Next]_vars => [Settling!Next]_<<Elements \ called, answers>>
<1> SUFFICES ASSUME IInv, Next
             PROVE  \/ Settling!Next
                    \/ Elements' \ called' = Elements \ called /\ answers' = answers
  BY DEF vars, Elements
<1>0. /\ length \in Nat /\ called \in SUBSET (0 .. length - 1)
      /\ Elements' = Elements /\ Elements \subseteq AllElements
  BY LengthsAssumption DEF IInv, TypeOK, Started, Elements, Next, Loop,
     CallBackAtOnce, Handle, EndLoop, CallBack, AllElements
<1>1. CASE CallBackAtOnce
  <2>1. Elements = {} /\ called = {} /\ answers = <<>> /\ answers' = <<"ok">>
    BY <1>0, <1>1 DEF CallBackAtOnce, IInv, EmptyIterator, Elements
  <2>2. called' = called
    BY <1>1 DEF CallBackAtOnce
  <2> QED
    BY <1>0, <2>1, <2>2 DEF Settling!Next, Settling!NothingToDo
<1>2. CASE Handle \/ EndLoop
  BY <1>0, <1>2 DEF Handle, EndLoop
<1>3. ASSUME NEW e \in Elements, NEW err \in BOOLEAN, HandleCb(e, err)
      PROVE  \/ Settling!Next
             \/ Elements' \ called' = Elements \ called /\ answers' = answers
  <2>0. length # 0
    BY <1>0, <1>3 DEF Elements
  <2>1. CASE done /\ UNCHANGED <<done, count, called, answers>>
    BY <1>0, <2>1
  <2>2. ASSUME NEW answer \in {"error", "twice"}, ~done, Settle(answer),
               UNCHANGED <<count, called>>
        PROVE  Settling!Fail
    <3>1. answers = <<>> /\ count > 0 /\ answers' = <<answer>>
      BY <2>0, <2>2 DEF IInv, Unsettled, Settle
    <3>2. called # Elements
      <4>1. Cardinality(0 .. length - 1) = length
        BY <1>0, FS_Interval
      <4> QED
        BY <1>0, <3>1, <4>1 DEF IInv, CounterOK, Elements
    <3> QED
      BY <1>0, <2>2, <3>1, <3>2 DEF Settling!Fail, Elements
  <2>3. CASE ~done /\ ~err /\ ~CalledBefore(e) /\ CountDown(e)
    <3>1. /\ answers = <<>> /\ e \notin called
          /\ called' = called \cup {e} /\ count' = count - 1
      BY <2>0, <2>3 DEF IInv, Unsettled, CalledBefore, CountDown
    <3>2. /\ called' \in SUBSET (0 .. length - 1)
          /\ count' = length - Cardinality(called')
      <4>1. /\ Cardinality(called \cup {e}) = Cardinality(called) + 1
            /\ Cardinality(called) \in 0 .. length
        BY <1>0, <1>3, <3>1, SomeOfAll DEF Elements
      <4>2. count = length - Cardinality(called)
        BY DEF IInv, CounterOK
      <4> QED
        BY <1>0, <1>3, <3>1, <4>1, <4>2 DEF Elements
    <3>3. count' = 0 <=> Elements \ called' = {}
      <4>1. Cardinality(0 .. length - 1) = length
        BY <1>0, FS_Interval
      <4>2. Cardinality(called') \in 0 .. length
        BY <1>0, <3>2, SomeOfAll
      <4>3. Cardinality(called') = length <=> called' = 0 .. length - 1
        BY <1>0, <3>2, <4>1, SomeOfAll
      <4>4. Elements \ called' = {} <=> called' = 0 .. length - 1
        BY <3>2 DEF Elements
      <4>5. count' = 0 <=> Cardinality(called') = length
        BY <1>0, <3>2, <4>2
      <4> QED
        BY <4>3, <4>4, <4>5
    <3>4. answers' = IF Elements \ called' = {} THEN <<"ok">> ELSE <<>>
      BY <2>3, <3>1, <3>3 DEF CountDown, NoneLeft, Settle
    <3>5. Settling!Succeed(e)
      BY <1>0, <1>3, <3>1, <3>4 DEF Settling!Succeed
    <3> QED
      BY <1>0, <1>3, <3>5 DEF Settling!Next
  <2> QED
    BY <1>3, <2>1, <2>2, <2>3 DEF HandleCb, Settling!Next
<1> QED
  BY <1>1, <1>2, <1>3 DEF Next, Loop, CallBack

(* The counter, the flags and the early returns implement a settlement:    *)
(* one answer, success exactly when the last of the tasks has succeeded.   *)
THEOREM Implements == Spec => Settles
<1>1. Init => Settling!Init
  BY DEF Init, Settling!Init, AllElements, Elements
<1> QED
  BY <1>1, StepSettles, Invariance, PTL DEF Spec, Settles, Settling!Spec
=============================================================================
