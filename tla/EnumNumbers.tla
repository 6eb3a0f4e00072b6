---------------------------- MODULE EnumNumbers -----------------------------
(***************************************************************************)
(* ThriftEnum.compile of enum.js: the loop that gives the members of an    *)
(* enum their numbers.  A member is [name, value], where value is <<>> or  *)
(* <<number>>.                                                             *)
(***************************************************************************)
EXTENDS Integers, Sequences

CONSTANTS Name, Enums,  \* the definitions compile may be given
          Max           \* the largest i32

ASSUME MaxAssumption == Max \in Nat
ASSUME EnumsAssumption ==
    Enums \subseteq Seq([name : Name, value : Seq(Int)])

VARIABLES enumDefs, index, value,
          namesToValues, valuesToNames,
          phase         \* "compile", "done", "duplicate" or "overflow"

vars == <<enumDefs, index, value, namesToValues, valuesToNames, phase>>

Init == /\ enumDefs \in Enums
        /\ index = 1 /\ value = 0
        /\ namesToValues = [name \in {} |-> 0]
        /\ valuesToNames = [number \in {} |-> CHOOSE name \in Name : TRUE]
        /\ phase = "compile"

enumDef == enumDefs[index]
name == enumDef.name

(* Fault: zero counts as no value.                                         *)
NumberIfTruthy ==
    IF enumDef.value # <<>> /\ enumDef.value # <<0>> THEN enumDef.value[1] ELSE value
Number == IF enumDef.value # <<>> THEN enumDef.value[1] ELSE value

Define(function, key, image) ==
    [k \in DOMAIN function \cup {key} |-> IF k = key THEN image ELSE function[k]]

Fail(how) == /\ phase' = how
             /\ UNCHANGED <<enumDefs, index, value, namesToValues, valuesToNames>>

Looping == phase = "compile" /\ index <= Len(enumDefs)

(* Faults: a name is looked for only in the member before; the first name  *)
(* of a number is kept.                                                    *)
IsTakenByLast == index > 1 /\ enumDefs[index - 1].name = name
IsTaken == name \in DOMAIN namesToValues
Overflows == Number > Max
NameKept == IF Number \in DOMAIN valuesToNames THEN valuesToNames
            ELSE Define(valuesToNames, Number, name)
Named == Define(valuesToNames, Number, name)

Duplicate == Looping /\ IsTaken /\ Fail("duplicate")
Overflow == Looping /\ ~IsTaken /\ Overflows /\ Fail("overflow")

Accept == /\ Looping /\ ~IsTaken /\ ~Overflows
          /\ namesToValues' = Define(namesToValues, name, Number)
          /\ valuesToNames' = Named
          /\ value' = Number + 1 /\ index' = index + 1
          /\ UNCHANGED <<enumDefs, phase>>

Return == /\ phase = "compile" /\ index > Len(enumDefs)
          /\ phase' = "done"
          /\ UNCHANGED <<enumDefs, index, value, namesToValues, valuesToNames>>

Next == Duplicate \/ Overflow \/ Accept \/ Return

Spec == Init /\ [][Next]_vars
-----------------------------------------------------------------------------
(* What the number of member k is, without a loop: that of the last member *)
(* up to k that states one, and one more for each member in between.       *)
Stated(k) == {e \in 1 .. k : enumDefs[e].value # <<>>}
LastOf(S) == CHOOSE e \in S : \A f \in S : f <= e
LastStated(k) == LastOf(Stated(k))
NumberOf(k) == IF Stated(k) = {} THEN k - 1
               ELSE enumDefs[LastStated(k)].value[1] + (k - LastStated(k))

TypeOK == /\ enumDefs \in Enums
          /\ index \in 1 .. Len(enumDefs) + 1
          /\ value \in Int
          /\ namesToValues \in [DOMAIN namesToValues -> Int]
          /\ valuesToNames \in [DOMAIN valuesToNames -> Name]
          /\ phase \in {"compile", "done", "duplicate", "overflow"}

(* Every member behind the loop has the number its place gives it.         *)
Numbered ==
    /\ DOMAIN namesToValues = {enumDefs[k].name : k \in 1 .. index - 1}
    /\ \A k \in 1 .. index - 1 : namesToValues[enumDefs[k].name] = NumberOf(k)

(* A number reads as the last of the names that have it: this is what      *)
(* makes 'duplicate name returns in normal form' (test/enum.js) hold.      *)
LastNameReads ==
    /\ DOMAIN valuesToNames = {NumberOf(k) : k \in 1 .. index - 1}
    /\ \A k \in 1 .. index - 1 :
          (\A l \in k + 1 .. index - 1 : NumberOf(l) # NumberOf(k)) =>
             valuesToNames[NumberOf(k)] = enumDefs[k].name

(* compile throws for the first member that has the name of one before it  *)
(* or a number beyond the range, for no other reason, and it returns when  *)
(* it has been through all members.                                        *)
Distinct(n) == \A k, l \in 1 .. n : k # l => enumDefs[k].name # enumDefs[l].name
Fits(n) == \A k \in 1 .. n : NumberOf(k) <= Max
Verdict ==
    /\ Distinct(index - 1) /\ Fits(index - 1)
    /\ (phase = "duplicate") => ~Distinct(index)
    /\ (phase = "overflow") => ~Fits(index)
    /\ (phase = "done") => (index = Len(enumDefs) + 1)
=============================================================================
