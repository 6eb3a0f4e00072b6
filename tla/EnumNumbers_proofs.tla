------------------------- MODULE EnumNumbers_proofs --------------------------
(***************************************************************************)
(* What the loop of ThriftEnum.compile computes, for all enums.  It keeps  *)
(* that 'value' is one more than the number of the member before, counted  *)
(* from the last member that states its number.                            *)
(***************************************************************************)
EXTENDS EnumNumbers, TLAPS

Member == [name : Name, value : Seq(Int)]

(* The members before index that state a number have a last one.           *)
IsLastOf(e, S) == e \in S /\ \A f \in S : f <= e
HasLast == Stated(index - 1) = {} \/ \E e \in Int : IsLastOf(e, Stated(index - 1))

Continues == value = NumberOf(index - 1) + 1

IInv == TypeOK /\ HasLast /\ Continues /\ Numbered /\ LastNameReads /\ Verdict

LEMMA EnumsAreSequences ==
  ASSUME NEW defs \in Enums
  PROVE  /\ defs \in Seq(Member) /\ Len(defs) \in Nat
         /\ \A k \in 1 .. Len(defs) : defs[k] \in Member
<1>1. defs \in Seq(Member)
  BY EnumsAssumption DEF Member
<1> QED
  BY <1>1

LEMMA LastOfIsLast ==
  ASSUME NEW S \in SUBSET Int, NEW e \in Int, IsLastOf(e, S)
  PROVE  LastOf(S) = e
<1>1. LastOf(S) \in S /\ \A f \in S : f <= LastOf(S)
  BY DEF LastOf, IsLastOf
<1>2. LastOf(S) \in Int /\ LastOf(S) <= e /\ e <= LastOf(S)
  BY <1>1 DEF IsLastOf
<1> QED
  BY <1>2

LEMMA DefineType ==
  ASSUME NEW T, NEW function, function \in [DOMAIN function -> T],
         NEW key, NEW image \in T
  PROVE  Define(function, key, image) \in [DOMAIN Define(function, key, image) -> T]
BY DEF Define

LEMMA Initially == Init => IInv
<1> SUFFICES ASSUME Init PROVE IInv
  OBVIOUS
<1>1. /\ enumDefs \in Enums /\ enumDefs \in Seq(Member) /\ Len(enumDefs) \in Nat
      /\ index = 1 /\ value = 0 /\ phase = "compile"
      /\ DOMAIN namesToValues = {} /\ DOMAIN valuesToNames = {}
  BY EnumsAreSequences DEF Init
<1>2. Stated(index - 1) = {}
  BY <1>1 DEF Stated
<1>3. TypeOK
  <2>1. namesToValues \in [DOMAIN namesToValues -> Int]
    BY DEF Init
  <2>2. valuesToNames \in [DOMAIN valuesToNames -> Name]
    BY DEF Init
  <2> QED
    BY <1>1, <2>1, <2>2 DEF TypeOK
<1>4. HasLast
  BY <1>2 DEF HasLast
<1>5. Continues
  BY <1>1, <1>2 DEF Continues, NumberOf
<1>6. Numbered /\ LastNameReads
  BY <1>1 DEF Numbered, LastNameReads
<1>7. Verdict
  BY <1>1 DEF Verdict, Distinct, Fits
<1> QED
  BY <1>3, <1>4, <1>5, <1>6, <1>7 DEF IInv

(* The number compile takes for a member is that of its place.             *)
LEMMA NumberIsNumberOf ==
  ASSUME IInv, Looping
  PROVE  /\ Number = NumberOf(index) /\ Number \in Int
         /\ Stated(index) = {} \/ \E e \in Int : IsLastOf(e, Stated(index))
<1>1. /\ enumDefs \in Seq(Member) /\ Len(enumDefs) \in Nat
      /\ index \in 1 .. Len(enumDefs) /\ value \in Int
      /\ \A k \in 1 .. Len(enumDefs) : enumDefs[k] \in Member
  BY EnumsAreSequences DEF IInv, TypeOK, Looping
<1>2. Stated(index) \in SUBSET Int /\ Stated(index - 1) \in SUBSET Int
  BY <1>1 DEF Stated
<1>3. CASE enumDefs[index].value # <<>>
  <2>1. IsLastOf(index, Stated(index))
    BY <1>1, <1>3 DEF IsLastOf, Stated
  <2>2. LastStated(index) = index
    BY <1>1, <1>2, <2>1, LastOfIsLast DEF LastStated
  <2>3. enumDefs[index].value[1] \in Int
    BY <1>1, <1>3 DEF Member
  <2>4. Number = enumDefs[index].value[1]
    BY <1>3 DEF Number, enumDef
  <2>5. NumberOf(index) = enumDefs[index].value[1] + (index - index)
    BY <2>1, <2>2 DEF NumberOf, IsLastOf
  <2> QED
    BY <1>1, <2>1, <2>3, <2>4, <2>5
<1>4. CASE enumDefs[index].value = <<>>
  <2>1. Stated(index) = Stated(index - 1)
    BY <1>1, <1>4 DEF Stated
  <2>2. Number = NumberOf(index - 1) + 1
    BY <1>4 DEF Number, enumDef, IInv, Continues
  <2>3. CASE Stated(index) = {}
    BY <1>1, <2>1, <2>2, <2>3 DEF NumberOf
  <2>4. CASE Stated(index) # {}
    <3>1. PICK e \in Int : IsLastOf(e, Stated(index - 1))
      BY <2>1, <2>4 DEF IInv, HasLast
    <3>2. LastStated(index) = e /\ LastStated(index - 1) = e
      BY <1>2, <2>1, <3>1, LastOfIsLast DEF LastStated
    <3>3. e \in 1 .. Len(enumDefs) /\ enumDefs[e].value # <<>>
      BY <1>1, <3>1 DEF IsLastOf, Stated
    <3>4. enumDefs[e].value[1] \in Int
      BY <1>1, <3>3 DEF Member
    <3>5. /\ NumberOf(index) = enumDefs[e].value[1] + (index - e)
          /\ NumberOf(index - 1) = enumDefs[e].value[1] + ((index - 1) - e)
      BY <2>1, <2>4, <3>2 DEF NumberOf
    <3> QED
      BY <1>1, <2>1, <2>2, <3>1, <3>4, <3>5
  <2> QED
    BY <2>3, <2>4
<1> QED
  BY <1>3, <1>4

(* Accepting a member.                                                     *)
LEMMA AcceptKeepsInvariant == IInv /\ Accept => IInv'
<1> SUFFICES ASSUME IInv, Accept PROVE IInv'
  OBVIOUS
<1>1. /\ enumDefs \in Enums /\ enumDefs \in Seq(Member) /\ Len(enumDefs) \in Nat
      /\ index \in 1 .. Len(enumDefs) /\ phase = "compile"
      /\ enumDefs[index] \in Member /\ name = enumDefs[index].name /\ name \in Name
  <2>1. /\ enumDefs \in Enums /\ enumDefs \in Seq(Member) /\ Len(enumDefs) \in Nat
        /\ index \in 1 .. Len(enumDefs) /\ phase = "compile"
        /\ enumDefs[index] \in Member
    BY EnumsAreSequences DEF IInv, TypeOK, Accept, Looping
  <2>2. name = enumDefs[index].name
    BY DEF name, enumDef
  <2> QED
    BY <2>1, <2>2 DEF Member
<1>2. /\ enumDefs' = enumDefs /\ phase' = phase
      /\ index' = index + 1 /\ value' = Number + 1
      /\ namesToValues' = Define(namesToValues, name, Number)
      /\ valuesToNames' = Define(valuesToNames, Number, name)
  BY DEF Accept, Named
<1>3. /\ Number = NumberOf(index) /\ Number \in Int
      /\ Stated(index) = {} \/ \E e \in Int : IsLastOf(e, Stated(index))
  BY NumberIsNumberOf DEF Accept
<1>d. /\ DOMAIN namesToValues' = DOMAIN namesToValues \cup {name}
      /\ namesToValues'[name] = Number
      /\ \A k \in DOMAIN namesToValues :
             k # name => namesToValues'[k] = namesToValues[k]
  BY <1>2 DEF Define
<1>e. /\ DOMAIN valuesToNames' = DOMAIN valuesToNames \cup {Number}
      /\ valuesToNames'[Number] = name
      /\ \A k \in DOMAIN valuesToNames :
             k # Number => valuesToNames'[k] = valuesToNames[k]
  BY <1>2 DEF Define
<1>4. index' - 1 = index
  BY <1>1, <1>2
<1>5. \A k : Stated(k)' = Stated(k) /\ NumberOf(k)' = NumberOf(k)
  BY <1>2 DEF Stated, NumberOf, LastStated, LastOf
<1>6. TypeOK'
  <2>1. namesToValues' \in [DOMAIN namesToValues' -> Int]
    BY <1>2, <1>3, DefineType DEF IInv, TypeOK
  <2>2. valuesToNames' \in [DOMAIN valuesToNames' -> Name]
    BY <1>1, <1>2, <1>3, DefineType DEF IInv, TypeOK
  <2> QED
    BY <1>1, <1>2, <1>3, <2>1, <2>2 DEF TypeOK
<1>7. HasLast'
  BY <1>2, <1>3, <1>4, <1>5 DEF HasLast, IsLastOf, Stated
<1>8. Continues'
  BY <1>2, <1>3, <1>4, <1>5 DEF Continues, NumberOf, Stated, LastStated, LastOf
<1>9. Numbered'
  <2>1. DOMAIN namesToValues' = {enumDefs[k].name : k \in 1 .. index}
    BY <1>1, <1>d DEF IInv, Numbered
  <2>2. ASSUME NEW k \in 1 .. index
        PROVE  namesToValues'[enumDefs[k].name] = NumberOf(k)
    <3>1. CASE k = index
      BY <1>1, <1>d, <1>3, <3>1
    <3>2. CASE k # index
      <4>1. k \in 1 .. index - 1
        BY <1>1, <3>2
      <4>2. enumDefs[k].name \in DOMAIN namesToValues /\ enumDefs[k].name # name
        BY <4>1 DEF IInv, Numbered, Accept, IsTaken
      <4> QED
        BY <1>d, <4>1, <4>2 DEF IInv, Numbered
    <3> QED
      BY <3>1, <3>2
  <2> QED
    BY <1>2, <1>4, <1>5, <2>1, <2>2 DEF Numbered
<1>10. LastNameReads'
  <2>1. DOMAIN valuesToNames' = {NumberOf(k) : k \in 1 .. index}
    BY <1>1, <1>e, <1>3 DEF IInv, LastNameReads
  <2>2. ASSUME NEW k \in 1 .. index,
               \A l \in k + 1 .. index : NumberOf(l) # NumberOf(k)
        PROVE  valuesToNames'[NumberOf(k)] = enumDefs[k].name
    <3>1. CASE k = index
      BY <1>1, <1>e, <1>3, <3>1
    <3>2. CASE k # index
      <4>1. k \in 1 .. index - 1 /\ index \in k + 1 .. index
        BY <1>1, <3>2
      <4>2. \A l \in k + 1 .. index - 1 : NumberOf(l) # NumberOf(k)
        BY <1>1, <2>2
      <4>3. NumberOf(k) \in DOMAIN valuesToNames /\ NumberOf(k) # Number
        BY <1>3, <2>2, <4>1 DEF IInv, LastNameReads
      <4>4. valuesToNames[NumberOf(k)] = enumDefs[k].name
        BY <4>1, <4>2 DEF IInv, LastNameReads
      <4> QED
        BY <1>e, <4>3, <4>4
    <3> QED
      BY <3>1, <3>2
  <2> QED
    BY <1>2, <1>4, <1>5, <2>1, <2>2 DEF LastNameReads
<1>11. Verdict'
  <2>1. Distinct(index)
    <3>1. \A k \in 1 .. index - 1 : enumDefs[k].name # name
      BY DEF IInv, Numbered, Accept, IsTaken
    <3> QED
      BY <1>1, <3>1 DEF IInv, Verdict, Distinct
  <2>2. Fits(index)
    BY <1>1, <1>3, MaxAssumption DEF IInv, Verdict, Fits, Accept, Overflows
  <2> QED
    BY <1>1, <1>2, <1>4, <1>5, <2>1, <2>2 DEF Verdict, Distinct, Fits
<1> QED
  BY <1>6, <1>7, <1>8, <1>9, <1>10, <1>11 DEF IInv

(* The steps that only end the loop leave what it has built.               *)
built == <<enumDefs, index, value, namesToValues, valuesToNames>>
LEMMA RestKeepsInvariant ==
  ASSUME IInv, UNCHANGED built, TypeOK',
         phase' = "duplicate" => ~Distinct(index),
         phase' = "overflow" => ~Fits(index),
         phase' = "done" => index = Len(enumDefs) + 1
  PROVE  IInv'
<1>1. \A k : Stated(k)' = Stated(k) /\ NumberOf(k)' = NumberOf(k)
  BY DEF built, Stated, NumberOf, LastStated, LastOf
<1>2. HasLast' /\ Continues'
  <2>1. /\ index' = index /\ value' = value
        /\ Stated(index - 1)' = Stated(index - 1)
        /\ NumberOf(index - 1)' = NumberOf(index - 1)
    BY DEF built, Stated, NumberOf, LastStated, LastOf
  <2>2. HasLast'
    BY <2>1 DEF IInv, HasLast, IsLastOf
  <2>3. Continues'
    BY <2>1 DEF IInv, Continues
  <2> QED
    BY <2>2, <2>3
<1>3. Numbered' /\ LastNameReads'
  BY <1>1 DEF IInv, built, Numbered, LastNameReads
<1>4. Verdict'
  BY <1>1 DEF IInv, built, Verdict, Distinct, Fits
<1> QED
  BY <1>2, <1>3, <1>4 DEF IInv

LEMMA StepKeepsInvariant == IInv /\ [Next]_vars => IInv'
<1> SUFFICES ASSUME IInv, [Next]_vars PROVE IInv'
  OBVIOUS
<1>1. CASE Accept
  BY <1>1, AcceptKeepsInvariant
<1>2. CASE Duplicate
  <2>1. UNCHANGED built /\ phase' = "duplicate"
    BY <1>2 DEF Duplicate, Fail, built
  <2>2. TypeOK'
    BY <2>1 DEF IInv, TypeOK, built
  <2>3. ~Distinct(index)
    <3>1. index \in 1 .. Len(enumDefs) /\ Len(enumDefs) \in Nat
      BY <1>2, EnumsAssumption DEF Duplicate, Looping, IInv, TypeOK
    <3>2. PICK k \in 1 .. index - 1 : enumDefs[k].name = enumDefs[index].name
      BY <1>2 DEF Duplicate, IsTaken, IInv, Numbered, name, enumDef
    <3> QED
      BY <3>1, <3>2 DEF Distinct
  <2> QED
    BY <2>1, <2>2, <2>3, RestKeepsInvariant
<1>3. CASE Overflow
  <2>1. UNCHANGED built /\ phase' = "overflow"
    BY <1>3 DEF Overflow, Fail, built
  <2>2. TypeOK'
    BY <2>1 DEF IInv, TypeOK, built
  <2>3. ~Fits(index)
    <3>1. index \in 1 .. index /\ Number = NumberOf(index) /\ Number \in Int
      BY <1>3, NumberIsNumberOf, EnumsAssumption DEF Overflow, Looping, IInv, TypeOK
    <3>2. Number > Max
      BY <1>3 DEF Overflow, Overflows
    <3> QED
      BY <3>1, <3>2, MaxAssumption DEF Fits
  <2> QED
    BY <2>1, <2>2, <2>3, RestKeepsInvariant
<1>4. CASE Return
  <2>1. UNCHANGED built /\ phase' = "done"
    BY <1>4 DEF Return, built
  <2>2. Len(enumDefs) \in Nat /\ index > Len(enumDefs)
    BY <1>4, EnumsAssumption DEF Return, IInv, TypeOK
  <2>3. TypeOK'
    BY <2>1 DEF IInv, TypeOK, built
  <2>4. index = Len(enumDefs) + 1
    BY <2>2 DEF IInv, TypeOK
  <2> QED
    BY <2>1, <2>3, <2>4, RestKeepsInvariant
<1>5. CASE UNCHANGED vars
  <2>1. UNCHANGED built /\ phase' = phase
    BY <1>5 DEF vars, built
  <2>2. TypeOK'
    BY <2>1 DEF IInv, TypeOK, built
  <2> QED
    BY <2>1, <2>2, RestKeepsInvariant DEF IInv, Verdict
<1> QED
  BY <1>1, <1>2, <1>3, <1>4, <1>5 DEF Next

THEOREM Invariance == Spec => []IInv
BY Initially, StepKeepsInvariant, PTL DEF Spec
-----------------------------------------------------------------------------
(* The type invariant of the loop of ThriftEnum.compile, for all enums.    *)
THEOREM TypeCorrect == Spec => []TypeOK
<1>1. IInv => TypeOK
  BY DEF IInv
<1> QED
  BY <1>1, Invariance, PTL

(* ThriftEnum.compile gives each member the number its place and the       *)
(* stated numbers before it define.                                        *)
THEOREM NumbersAreCounted == Spec => []Numbered
<1>1. IInv => Numbered
  BY DEF IInv
<1> QED
  BY <1>1, Invariance, PTL

(* In valuesToNames a number has the name of the last member with it.      *)
THEOREM LastNameWins == Spec => []LastNameReads
<1>1. IInv => LastNameReads
  BY DEF IInv
<1> QED
  BY <1>1, Invariance, PTL

(* ThriftEnum.compile throws for duplicate names and numbers beyond the    *)
(* range, and for nothing else.                                            *)
THEOREM VerdictIsRight == Spec => []Verdict
<1>1. IInv => Verdict
  BY DEF IInv
<1> QED
  BY <1>1, Invariance, PTL
=============================================================================
