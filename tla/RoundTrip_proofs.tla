-------------------------- MODULE RoundTrip_proofs --------------------------
(***************************************************************************)
(* What lib/lcp.js computes, for all lists of names; what getSources and   *)
(* toJSON of thrift.js do with it, for all programs.                       *)
(*                                                                         *)
(* 1. longestCommonPath.  The two loops keep that the names before i share *)
(*    'length' characters, that one of them stops there or goes another    *)
(*    way, and that the name at i shares j.                                *)
(* 2. Names and paths: parts, path.join, and how an include of a shortened *)
(*    name compares with the include of the whole one (IncludeBelow).      *)
(* 3. Two walks, by least sets that are closed under includes: what the    *)
(*    one Thrift has visited is what the other visits, shortened.          *)
(* 4. The invariant of RoundTripSpec, and the theorems about it.           *)
(***************************************************************************)
EXTENDS RoundTrip, SequenceTheorems, WellFoundedInduction, TLAPS

Shares(s, n) == n <= Len(strings[s]) /\ Agree(strings[s], longest, n)
Stops(s, n) == n = Len(strings[s]) \/ strings[s][n + 1] # longest[n + 1]

SharedSoFar == \A s \in 1 .. i : Shares(s, length)
SharedByThis == comparing => Shares(i + 1, j)
StoppedBySome == \E s \in 1 .. i : Stops(s, length)
EndKnown == (end # Unset) => (~comparing /\ i = Len(strings) /\ LastSlash(end))

IInv == TypeOK /\ SharedSoFar /\ SharedByThis /\ StoppedBySome /\ EndKnown

(* The first name shares all of itself, and stops where it ends.           *)
Fresh == /\ strings \in Seq(Seq(Char)) /\ strings # <<>>
         /\ i = 1 /\ j = 0 /\ length = Len(longest)
         /\ comparing = FALSE /\ end = Unset

(* This is so when longestCommonPath is called.                            *)
LEMMA FreshIsGood == Fresh => IInv
<1> SUFFICES ASSUME Fresh PROVE IInv
  OBVIOUS
<1>1. /\ strings \in Seq(Seq(Char)) /\ strings # <<>>
      /\ i = 1 /\ j = 0 /\ length = Len(longest) /\ comparing = FALSE /\ end = Unset
  BY DEF Fresh
<1>2. Len(strings) \in Nat /\ Len(strings) >= 1 /\ strings[1] \in Seq(Char)
  BY <1>1
<1>3. Len(longest) \in Nat
  BY <1>2 DEF longest
<1>4. TypeOK
  <2>1. comparing => (i < Len(strings) /\ j <= Smaller(length, Len(string)))
    BY <1>1
  <2>2. i \in 1 .. Len(strings) /\ j \in Nat /\ length \in 0 .. Len(longest)
    BY <1>1, <1>2, <1>3
  <2>3. comparing \in BOOLEAN /\ end \in {Unset} \cup -1 .. Len(longest) - 1
    BY <1>1
  <2> QED
    BY <1>1, <2>1, <2>2, <2>3 DEF TypeOK
<1>5. SharedSoFar
  BY <1>1, <1>2, <1>3 DEF SharedSoFar, Shares, Agree, longest
<1>6. StoppedBySome
  BY <1>1, <1>2, <1>3 DEF StoppedBySome, Stops, longest
<1>7. SharedByThis /\ EndKnown
  BY <1>1 DEF SharedByThis, EndKnown
<1> QED
  BY <1>4, <1>5, <1>6, <1>7 DEF IInv

(* Where longestCommonPath starts.                                         *)
LEMMA Initially == Init => IInv
BY InputsAssumption, FreshIsGood DEF Init, Fresh

(* One step of either loop, or the search for the slash.                   *)
LEMMA StepKeepsInvariant == IInv /\ [Next]_vars => IInv'
<1> SUFFICES ASSUME IInv, [Next]_vars PROVE IInv'
  OBVIOUS
<1>t. /\ strings \in Seq(Seq(Char)) /\ strings # <<>>
      /\ Len(strings) \in Nat
      /\ i \in 1 .. Len(strings) /\ j \in Nat
      /\ Len(longest) \in Nat /\ length \in 0 .. Len(longest)
      /\ \A s \in 1 .. Len(strings) : Len(strings[s]) \in Nat
  BY DEF IInv, TypeOK, longest
<1>1. CASE NextString
  <2>1. TypeOK'
    BY <1>1, <1>t DEF NextString, IInv, TypeOK, longest, string, Smaller
  <2>2. SharedByThis'
    BY <1>1, <1>t DEF NextString, SharedByThis, Shares, Agree, longest
  <2>3. SharedSoFar'
    BY <1>1 DEF NextString, IInv, SharedSoFar, Shares, Agree, longest
  <2>4. StoppedBySome'
    BY <1>1 DEF NextString, IInv, StoppedBySome, Stops, longest
  <2>5. EndKnown'
    BY <1>1, <1>t DEF NextString, IInv, EndKnown
  <2> QED
    BY <2>1, <2>2, <2>3, <2>4, <2>5 DEF IInv
<1>2. CASE SameChar
  <2>1. j < length /\ j < Len(strings[i + 1]) /\ i + 1 \in 1 .. Len(strings)
    BY <1>2, <1>t DEF SameChar, Inside, Smaller, string, IInv, TypeOK
  <2>2. TypeOK'
    BY <1>2, <1>t, <2>1 DEF SameChar, IInv, TypeOK, longest, string, Smaller
  <2>3. SharedByThis'
    BY <1>2, <1>t, <2>1
    DEF SameChar, Same, string, IInv, SharedByThis, Shares, Agree, longest
  <2>4. SharedSoFar'
    BY <1>2 DEF SameChar, IInv, SharedSoFar, Shares, Agree, longest
  <2>5. StoppedBySome'
    BY <1>2 DEF SameChar, IInv, StoppedBySome, Stops, longest
  <2>6. EndKnown'
    BY <1>2 DEF SameChar, IInv, EndKnown
  <2> QED
    BY <2>2, <2>3, <2>4, <2>5, <2>6 DEF IInv
<1>3. CASE EndOfPrefix
  <2>1. /\ i + 1 \in 1 .. Len(strings) /\ i' = i + 1
        /\ j <= length /\ j <= Len(strings[i + 1]) /\ length' = j
        /\ strings' = strings /\ longest' = longest /\ ~comparing'
    BY <1>3, <1>t DEF EndOfPrefix, IInv, TypeOK, Smaller, string, longest
  <2>2. TypeOK'
    <3>1. comparing' = FALSE /\ j' = j /\ end' = end
      BY <1>3 DEF EndOfPrefix
    <3>2. (comparing => (i < Len(strings) /\ j <= Smaller(length, Len(string))))'
      BY <3>1
    <3>3. length' \in 0 .. Len(longest')
      BY <1>t, <2>1
    <3>4. end' \in {Unset} \cup -1 .. Len(longest') - 1
      BY <3>1, <2>1 DEF IInv, TypeOK
    <3> QED
      BY <1>t, <2>1, <3>1, <3>2, <3>3, <3>4 DEF TypeOK
  <2>3. SharedSoFar'
    <3>1. Shares(i + 1, j)
      BY <1>3 DEF EndOfPrefix, IInv, SharedByThis
    <3>2. \A s \in 1 .. i : Shares(s, j)
      BY <1>t, <2>1 DEF IInv, SharedSoFar, Shares, Agree
    <3> QED
      BY <3>1, <3>2, <1>t, <2>1 DEF SharedSoFar, Shares, Agree
  <2>4. StoppedBySome'
    <3>1. CASE j = length
      <4>1. PICK s \in 1 .. i : Stops(s, length)
        BY DEF IInv, StoppedBySome
      <4>2. Stops(s, length)'
        BY <4>1, <3>1, <2>1 DEF Stops
      <4>3. s \in 1 .. i'
        BY <1>t, <2>1
      <4> QED
        BY <4>2, <4>3 DEF StoppedBySome, Stops
    <3>2. CASE j # length
      <4>1. Stops(i + 1, j)
        BY <3>2, <2>1, <1>3, <1>t DEF EndOfPrefix, Inside, Same, Smaller, string, Stops
      <4>2. i + 1 \in 1 .. i'
        BY <1>t, <2>1
      <4> QED
        BY <4>1, <4>2, <2>1 DEF StoppedBySome, Stops
    <3> QED
      BY <3>1, <3>2
  <2>5. SharedByThis' /\ EndKnown'
    BY <1>3, <2>1 DEF EndOfPrefix, IInv, SharedByThis, EndKnown
  <2> QED
    BY <2>2, <2>3, <2>4, <2>5 DEF IInv
<1>4. CASE Slice
  <2>1. TypeOK'
    BY <1>4, <1>t DEF Slice, IInv, TypeOK, longest, string, Smaller
  <2>2. SharedSoFar'
    BY <1>4 DEF Slice, IInv, SharedSoFar, Shares, Agree, longest
  <2>3. StoppedBySome'
    BY <1>4 DEF Slice, IInv, StoppedBySome, Stops, longest
  <2>4. SharedByThis'
    BY <1>4 DEF Slice, SharedByThis
  <2>5. EndKnown'
    <3>1. i = Len(strings) /\ comparing = FALSE /\ LastSlash(end')
      BY <1>4, <1>t DEF Slice
    <3>2. strings' = strings /\ i' = i /\ comparing' = comparing /\ length' = length
      BY <1>4 DEF Slice
    <3>3. LastSlash(end)'
      BY <3>1, <3>2 DEF LastSlash, IsLastIndexOf, SlashesUpTo, longest
    <3> QED
      BY <3>1, <3>2, <3>3 DEF EndKnown
  <2> QED
    BY <2>1, <2>2, <2>3, <2>4, <2>5 DEF IInv
<1>5. CASE UNCHANGED vars
  <2>1. TypeOK'
    BY <1>5 DEF vars, IInv, TypeOK, longest, string, Smaller
  <2>2. SharedSoFar' /\ SharedByThis'
    BY <1>5 DEF vars, IInv, SharedSoFar, SharedByThis, Shares, Agree, longest
  <2>3. StoppedBySome'
    BY <1>5 DEF vars, IInv, StoppedBySome, Stops, longest
  <2>4. EndKnown'
    BY <1>5 DEF vars, IInv, EndKnown, LastSlash, IsLastIndexOf, SlashesUpTo, longest
  <2> QED
    BY <2>1, <2>2, <2>3, <2>4 DEF IInv
<1> QED
  BY <1>1, <1>2, <1>3, <1>4, <1>5 DEF Next

(* What the two loops keep is what their answers need.                     *)
LEMMA PrefixKnown == IInv => LongestCommonPrefix
<1>1. ASSUME IInv, Counted
      PROVE  /\ Within(length)
             /\ \A s \in 1 .. Len(strings) : Agree(strings[s], longest, length)
             /\ \E s \in 1 .. Len(strings) : Stops(s, length)
  BY <1>1 DEF IInv, Counted, Within, SharedSoFar, Shares, StoppedBySome
<1> QED
  BY <1>1 DEF LongestCommonPrefix, Stops

(* The slash that is found is in the prefix, or the first character of all *)
(* names.                                                                  *)
LEMMA DirectoryKnown == IInv => DirectoryIsCommon
<1>1. ASSUME IInv PROVE DirectoryIsCommon
  <2> SUFFICES ASSUME end # Unset, Unmixed PROVE
                 /\ Within(end + 1)
                 /\ \A s \in 1 .. Len(strings) : Agree(strings[s], longest, end + 1)
                 /\ (end >= 0) => (longest[end + 1] = Slash)
    BY DEF DirectoryIsCommon
  <2>1. /\ Len(strings) \in Nat /\ Len(strings) >= 1
        /\ Len(longest) \in Nat /\ length \in 0 .. Len(longest)
        /\ \A s \in 1 .. Len(strings) : strings[s] \in Seq(Char)
        /\ end \in -1 .. Len(longest) - 1
    BY <1>1 DEF IInv, TypeOK, longest
  <2>2. /\ \A s \in 1 .. Len(strings) : Shares(s, length)
        /\ \E s \in 1 .. Len(strings) : Stops(s, length)
        /\ LastSlash(end)
    BY <1>1 DEF IInv, EndKnown, SharedSoFar, StoppedBySome
  <2>3. (end >= 0) => (longest[end + 1] = Slash)
    BY <2>1, <2>2 DEF LastSlash, IsLastIndexOf, SlashesUpTo
  <2>4. end + 1 <= length
    <3>1. CASE end <= length - 1
      BY <3>1, <2>1
    <3>2. CASE end > length - 1
      <4>1. CASE end = -1
        BY <4>1, <2>1
      <4>2. CASE end # -1
        <5>1. end = 0 /\ length = 0
          BY <4>2, <3>2, <2>1, <2>2 DEF LastSlash, IsLastIndexOf, SlashesUpTo
        <5>2. Absolute(strings[1])
          BY <5>1, <2>1, <2>3 DEF Absolute, longest
        <5>3. \A s \in 1 .. Len(strings) : Absolute(strings[s])
          BY <5>2, <2>1 DEF Unmixed
        <5>4. PICK s \in 1 .. Len(strings) : Stops(s, 0)
          BY <5>1, <2>2
        <5>5. strings[s] # <<>> /\ strings[s][1] = Slash /\ longest[1] = Slash
          BY <5>2, <5>3 DEF Absolute, longest
        <5> QED
          BY <5>4, <5>5, <2>1 DEF Stops
      <4> QED
        BY <4>1, <4>2
    <3> QED
      BY <3>1, <3>2, <2>1
  <2>5. Within(end + 1)
    BY <2>1, <2>2, <2>4 DEF Within, Shares
  <2>6. \A s \in 1 .. Len(strings) : Agree(strings[s], longest, end + 1)
    BY <2>1, <2>2, <2>4 DEF Shares, Agree
  <2> QED
    BY <2>3, <2>5, <2>6
<1> QED
  BY <1>1

(* A later slash would be in the prefix, and be found instead.             *)
LEMMA LongestKnown == IInv => DirectoryIsLongest
<1>1. ASSUME IInv PROVE DirectoryIsLongest
  <2> SUFFICES ASSUME end # Unset, NEW k \in end + 2 .. Len(longest),
                      longest[k] = Slash, Within(k),
                      \A s \in 1 .. Len(strings) : Agree(strings[s], longest, k)
               PROVE FALSE
    BY DEF DirectoryIsLongest
  <2>1. /\ Len(strings) \in Nat /\ Len(strings) >= 1
        /\ Len(longest) \in Nat /\ length \in 0 .. Len(longest)
        /\ \A s \in 1 .. Len(strings) : Len(strings[s]) \in Nat
        /\ end \in -1 .. Len(longest) - 1 /\ k \in Nat /\ k >= 1
    BY <1>1 DEF IInv, TypeOK, longest
  <2>2. LastSlash(end)
    BY <1>1 DEF IInv, EndKnown
  <2>3. PICK s \in 1 .. Len(strings) : Stops(s, length)
    BY <1>1 DEF IInv, EndKnown, StoppedBySome
  <2>4. k <= length
    BY <2>1, <2>3 DEF Stops, Within, Agree
  <2>5. k - 1 \in SlashesUpTo(longest, length - 1)
    BY <2>1, <2>4 DEF SlashesUpTo
  <2> QED
    BY <2>1, <2>2, <2>5 DEF LastSlash, IsLastIndexOf
<1> QED
  BY <1>1

(* The two loops of lib/lcp.js keep their invariant.                       *)
THEOREM Invariance == Spec => []IInv
BY Initially, StepKeepsInvariant, PTL DEF Spec
-----------------------------------------------------------------------------
(* The type invariant of the two loops of lib/lcp.js holds for all lists.  *)
THEOREM TypeCorrect == Spec => []TypeOK
<1>1. IInv => TypeOK
  BY DEF IInv
<1> QED
  BY <1>1, Invariance, PTL

(* lengthOfCommonPrefix returns the length of the longest prefix that all  *)
(* names have.                                                             *)
THEOREM PrefixIsLongest == Spec => []LongestCommonPrefix
BY PrefixKnown, Invariance, PTL

(* The directory that longestCommonPath returns is a beginning of every    *)
(* name, if the names are all absolute or none is.                         *)
THEOREM PathIsCommon == Spec => []DirectoryIsCommon
BY DirectoryKnown, Invariance, PTL

(* No directory that all names share is longer.                            *)
THEOREM PathIsLongest == Spec => []DirectoryIsLongest
BY LongestKnown, Invariance, PTL

-----------------------------------------------------------------------------
(* Numbers one by one.                                                     *)
Lower == {pair \in Nat \X Nat : pair[1] < pair[2]}

(* What holds at 0 and is handed on holds at every number: otherwise there *)
(* is a least one where it does not.                                       *)
LEMMA UpTo ==
  ASSUME NEW l \in Nat, NEW T, 0 \in T,
         \A n \in 0 .. l - 1 : n \in T => n + 1 \in T
  PROVE  \A n \in 0 .. l : n \in T
<1> SUFFICES ASSUME (0 .. l) \ T # {} PROVE FALSE
  OBVIOUS
<1>1. IsWellFoundedOn(Lower, Nat)
  BY NatLessThanWellFounded DEF OpToRel, Lower
<1>2. PICK m \in (0 .. l) \ T : \A k \in (0 .. l) \ T : ~ (<<k, m>> \in Lower)
  <2>1. (0 .. l) \ T \in SUBSET Nat
    OBVIOUS
  <2> QED
    BY <1>1, <2>1, WFMin
<1>3. m # 0
  BY <1>2
<1>4. m - 1 \in T
  <2>1. m - 1 \in 0 .. l - 1 /\ <<m - 1, m>> \in Lower
    BY <1>3 DEF Lower
  <2> QED
    BY <1>2, <2>1
<1>5. m - 1 + 1 \in T
  BY <1>3, <1>4
<1> QED
  BY <1>2, <1>5

(* A function on 0 .. l is defined by its first value and by each step.    *)
Follows(f, T, base, l, step) ==
    f \in [0 .. l -> T] /\ f[0] = base /\ \A n \in 1 .. l : f[n] = step[<<f[n - 1], n>>]

(* There is one: one value more at a time.                                 *)
LEMMA Recursion ==
  ASSUME NEW T, NEW base \in T, NEW l \in Nat, NEW step \in [T \X (1 .. l) -> T]
  PROVE  \E f : Follows(f, T, base, l, step)
<1> DEFINE Unfolds(f, k) == f[0] = base /\ \A n \in 1 .. k : f[n] = step[<<f[n - 1], n>>]
           Known(k) == \E f \in [0 .. k -> T] : Unfolds(f, k)
           S == {k \in 0 .. l : Known(k)}
<1>1. 0 \in S
  <2> DEFINE g == [n \in 0 .. 0 |-> base]
  <2>1. g \in [0 .. 0 -> T] /\ g[0] = base
    OBVIOUS
  <2>2. 1 .. 0 = {} /\ 0 \in 0 .. l
    OBVIOUS
  <2>3. Unfolds(g, 0)
    BY <2>1, <2>2
  <2> QED
    BY <2>1, <2>2, <2>3
<1>2. ASSUME NEW k \in 0 .. l - 1, k \in S PROVE k + 1 \in S
  <2>1. PICK f \in [0 .. k -> T] : Unfolds(f, k)
    BY <1>2
  <2>2. f[k] \in T /\ k + 1 \in 1 .. l /\ k \in Nat
    OBVIOUS
  <2>3. step[<<f[k], k + 1>>] \in T
    BY <2>2
  <2> DEFINE new == step[<<f[k], k + 1>>]
             g == [n \in 0 .. k + 1 |-> IF n = k + 1 THEN new ELSE f[n]]
  <2>4. g \in [0 .. k + 1 -> T]
    <3> HIDE DEF new
    <3>1. new \in T
      BY <2>3 DEF new
    <3> QED
      BY <2>2, <3>1
  <2>5. g[k + 1] = new /\ \A n \in 0 .. k : g[n] = f[n]
    <3> HIDE DEF new
    <3> QED
      BY <2>2
  <2>6. ASSUME NEW n \in 1 .. k + 1 PROVE g[n] = step[<<g[n - 1], n>>]
    <3> HIDE DEF g
    <3>1. CASE n = k + 1
      <4>1. n - 1 = k /\ k \in 0 .. k
        BY <3>1, <2>2
      <4> QED
        BY <3>1, <4>1, <2>5
    <3>2. CASE n # k + 1
      <4>1. n \in 1 .. k /\ n \in 0 .. k /\ n - 1 \in 0 .. k
        BY <3>2, <2>2
      <4> QED
        BY <4>1, <2>1, <2>5
    <3> QED
      BY <3>1, <3>2
  <2>7. g[0] = base
    <3> HIDE DEF g
    <3> QED
      BY <2>1, <2>2, <2>5
  <2>8. Unfolds(g, k + 1)
    <3> HIDE DEF g
    <3> QED
      BY <2>6, <2>7
  <2>9. Known(k + 1)
    <3> HIDE DEF g, Unfolds
    <3> QED
      BY <2>4, <2>8
  <2> QED
    <3> HIDE DEF Known
    <3> QED
      BY <2>2, <2>9
<1>3. Known(l)
  <2>1. l \in S
    <3> HIDE DEF S
    <3> QED
      BY <1>1, <1>2, UpTo
  <2> HIDE DEF Known
  <2> QED
    BY <2>1
<1> QED
  BY <1>3 DEF Follows
-----------------------------------------------------------------------------
(* The parts of a path, character by character.                            *)
PartsTo(path) ==
    CHOOSE parts : parts = [n \in 0 .. Len(path) |->
        IF n = 0 THEN <<>> ELSE WithChar(parts[n - 1], path, n)]

(* The code's step from character to character makes parts of parts.       *)
LEMMA WithCharType ==
  ASSUME NEW path \in Seq(Char), NEW parts \in Seq(Piece), NEW n \in 1 .. Len(path)
  PROVE  WithChar(parts, path, n) \in Seq(Piece)
<1>1. CASE path[n] = Slash
  BY <1>1 DEF WithChar
<1>2. CASE path[n] # Slash
  <2>1. path[n] \in Char \ {Slash}
    BY <1>2
  <2>2. <<path[n]>> \in Piece
    BY <2>1 DEF Piece
  <2>3. Append(parts, <<path[n]>>) \in Seq(Piece)
    BY <2>2
  <2>4. [parts EXCEPT ![Len(parts)] = Append(@, path[n])] \in Seq(Piece)
    <3> DEFINE longer == Append(parts[Len(parts)], path[n])
    <3>1. CASE parts = <<>>
      <4>1. parts \in [1 .. 0 -> Piece] /\ Len(parts) \notin 1 .. 0
        BY <3>1
      <4> HIDE DEF longer
      <4>2. [parts EXCEPT ![Len(parts)] = longer] \in [1 .. 0 -> Piece]
        BY <4>1
      <4> QED
        BY <4>2, SeqDef DEF longer
    <3>2. CASE parts # <<>>
      <4>1. Len(parts) \in 1 .. Len(parts) /\ parts[Len(parts)] \in Piece
        BY <3>2
      <4>2. longer \in Piece
        <5>1. parts[Len(parts)] \in Seq(Char \ {Slash})
          BY <4>1 DEF Piece
        <5>2. longer \in Seq(Char \ {Slash}) /\ longer # <<>>
          BY <5>1, <2>1
        <5> QED
          BY <5>2 DEF Piece
      <4> HIDE DEF longer
      <4>3. parts \in [1 .. Len(parts) -> Piece] /\ Len(parts) \in Nat
        OBVIOUS
      <4>4. [parts EXCEPT ![Len(parts)] = longer] \in [1 .. Len(parts) -> Piece]
        BY <4>1, <4>2, <4>3
      <4> QED
        BY <4>3, <4>4, SeqDef DEF longer
    <3> QED
      BY <3>1, <3>2
  <2> QED
    BY <1>2, <2>3, <2>4 DEF WithChar
<1> QED
  BY <1>1, <1>2

(* The parts of a path are found from character to character.              *)
LEMMA PartsAre ==
  ASSUME NEW path \in Seq(Char)
  PROVE  /\ PartsTo(path) \in [0 .. Len(path) -> Seq(Piece)]
         /\ PartsTo(path)[0] = <<>>
         /\ \A n \in 1 .. Len(path) :
               PartsTo(path)[n] = WithChar(PartsTo(path)[n - 1], path, n)
         /\ Parts(path) = PartsTo(path)[Len(path)]
         /\ Parts(path) \in Seq(Piece)
<1> DEFINE step == [x \in Seq(Piece) \X (1 .. Len(path)) |-> WithChar(x[1], path, x[2])]
<1>1. step \in [Seq(Piece) \X (1 .. Len(path)) -> Seq(Piece)]
  BY WithCharType
<1>2. PICK f : Follows(f, Seq(Piece), <<>>, Len(path), step)
  <2>1. <<>> \in Seq(Piece) /\ Len(path) \in Nat
    OBVIOUS
  <2> HIDE DEF step
  <2> QED
    BY <1>1, <2>1, Recursion
<1>3. f = [n \in 0 .. Len(path) |-> IF n = 0 THEN <<>> ELSE WithChar(f[n - 1], path, n)]
  <2>1. ASSUME NEW n \in 1 .. Len(path) PROVE f[n] = WithChar(f[n - 1], path, n)
    <3>1. n - 1 \in 0 .. Len(path)
      OBVIOUS
    <3>2. f[n - 1] \in Seq(Piece)
      BY <1>2, <3>1 DEF Follows
    <3>3. <<f[n - 1], n>> \in Seq(Piece) \X (1 .. Len(path))
      BY <3>2
    <3> QED
      BY <1>2, <3>3 DEF Follows
  <2>2. ASSUME NEW n \in 0 .. Len(path)
        PROVE  f[n] = IF n = 0 THEN <<>> ELSE WithChar(f[n - 1], path, n)
    <3>1. n = 0 \/ n \in 1 .. Len(path)
      OBVIOUS
    <3> QED
      BY <1>2, <2>1, <3>1 DEF Follows
  <2>3. f = [n \in 0 .. Len(path) |-> f[n]]
    BY <1>2 DEF Follows
  <2> QED
    BY <2>2, <2>3, Zenon
<1>4. PartsTo(path) =
         [n \in 0 .. Len(path) |-> IF n = 0 THEN <<>> ELSE WithChar(PartsTo(path)[n - 1], path, n)]
  BY <1>3 DEF PartsTo
<1>5. Parts(path) = PartsTo(path)[Len(path)]
  BY DEF Parts, PartsTo
<1>6. PartsTo(path) \in [0 .. Len(path) -> Seq(Piece)]
  <2> DEFINE g == PartsTo(path)
             Typed == {n \in 0 .. Len(path) : g[n] \in Seq(Piece)}
  <2>1. 0 \in Typed
    BY <1>4
  <2>2. ASSUME NEW n \in 0 .. Len(path) - 1, n \in Typed PROVE n + 1 \in Typed
    <3>1. g[n + 1] = WithChar(g[n], path, n + 1)
      BY <1>4
    <3> QED
      BY <2>2, <3>1, WithCharType
  <2>3. \A n \in 0 .. Len(path) : n \in Typed
    <3>1. Len(path) \in Nat
      OBVIOUS
    <3> HIDE DEF Typed
    <3> QED
      BY <2>1, <2>2, <3>1, UpTo
  <2>4. \A n \in 0 .. Len(path) : g[n] \in Seq(Piece)
    BY <2>3
  <2> HIDE DEF g
  <2>5. g = [n \in 0 .. Len(path) |-> g[n]]
    BY <1>4 DEF g
  <2> QED
    BY <2>4, <2>5 DEF g
<1>7. Len(path) \in Nat
  OBVIOUS
<1>8. PartsTo(path)[0] = <<>>
  BY <1>4, <1>7
<1>9. ASSUME NEW n \in 1 .. Len(path)
      PROVE  PartsTo(path)[n] = WithChar(PartsTo(path)[n - 1], path, n)
  <2>1. n \in 0 .. Len(path) /\ n # 0
    BY <1>7
  <2> QED
    BY <1>4, <2>1
<1> QED
  BY <1>5, <1>6, <1>7, <1>8, <1>9

-----------------------------------------------------------------------------
(* Sequences.  The provers unfold \o, Append and SubSeq where they see     *)
(* them; under names of their own they match what is said of them.         *)
Cat(s, t) == s \o t
Add(s, x) == Append(s, x)
One(x) == <<x>>
Changed(s, x) == [s EXCEPT ![Len(s)] = x]
Start(s, n) == SubSeq(s, 1, n)
Begins(s, w) == Len(s) <= Len(w) /\ \A n \in 1 .. Len(s) : w[n] = s[n]

IsCat(T, s, t, w) ==
    /\ w \in Seq(T) /\ Len(s) \in Nat /\ Len(t) \in Nat /\ Len(w) = Len(s) + Len(t)
    /\ \A n \in 1 .. Len(s) : w[n] = s[n]
    /\ \A n \in 1 .. Len(t) : w[Len(s) + n] = t[n]
IsAdd(T, s, x, w) ==
    /\ w \in Seq(T) /\ w # <<>> /\ Len(s) \in Nat
    /\ Len(w) = Len(s) + 1 /\ w[Len(s) + 1] = x
    /\ \A n \in 1 .. Len(s) : w[n] = s[n]
IsChanged(T, s, x, w) ==
    /\ w \in Seq(T) /\ w # <<>> /\ Len(s) \in Nat /\ Len(s) >= 1
    /\ Len(w) = Len(s)
    /\ \A n \in 1 .. Len(s) : w[n] = IF n = Len(s) THEN x ELSE s[n]
IsStart(T, s, n, w) ==
    w \in Seq(T) /\ Len(s) \in Nat /\ Len(w) = n /\ \A k \in 1 .. n : w[k] = s[k]

(* Facts about sequences under these names.                                *)
LEMMA CatIs ==
  ASSUME NEW T, NEW s \in Seq(T), NEW t \in Seq(T)
  PROVE  IsCat(T, s, t, Cat(s, t))
<1>1. /\ s \o t \in Seq(T) /\ Len(s \o t) = Len(s) + Len(t)
      /\ \A n \in 1 .. Len(s) + Len(t) : (s \o t)[n] = IF n <= Len(s) THEN s[n] ELSE t[n - Len(s)]
      /\ Len(s) \in Nat /\ Len(t) \in Nat
  BY ConcatProperties
<1> DEFINE w == s \o t
<1> HIDE DEF w
<1>2. \A n \in 1 .. Len(s) : w[n] = s[n]
  BY <1>1 DEF w
<1>3. ASSUME NEW n \in 1 .. Len(t) PROVE w[Len(s) + n] = t[n]
  <2>1. /\ Len(s) + n \in 1 .. Len(s) + Len(t) /\ ~(Len(s) + n <= Len(s))
        /\ Len(s) + n - Len(s) = n
    BY <1>1
  <2> QED
    BY <1>1, <2>1 DEF w
<1> QED
  BY <1>1, <1>2, <1>3 DEF w, Cat, IsCat

LEMMA OneIs ==
  ASSUME NEW T, NEW x \in T
  PROVE  One(x) \in Seq(T) /\ Len(One(x)) = 1 /\ One(x)[1] = x /\ One(x) # <<>>
BY DEF One

LEMMA AddIs ==
  ASSUME NEW T, NEW s \in Seq(T), NEW x \in T
  PROVE  IsAdd(T, s, x, Add(s, x))
BY AppendProperties DEF Add, IsAdd

LEMMA AddIsCat ==
  ASSUME NEW T, NEW s \in Seq(T), NEW x \in T
  PROVE  Add(s, x) = Cat(s, One(x))
BY AppendIsConcat DEF Add, Cat, One

LEMMA CatEmpty ==
  ASSUME NEW T, NEW s \in Seq(T)
  PROVE  Cat(s, <<>>) = s /\ Cat(<<>>, s) = s
BY ConcatEmptySeq DEF Cat

LEMMA CatIsEmpty ==
  ASSUME NEW T, NEW s \in Seq(T), NEW t \in Seq(T), Cat(s, t) = <<>>
  PROVE  s = <<>> /\ t = <<>>
BY ConcatEqualIffEmpty DEF Cat

LEMMA CatAssociative ==
  ASSUME NEW T, NEW s \in Seq(T), NEW t \in Seq(T), NEW u \in Seq(T)
  PROVE  Cat(Cat(s, t), u) = Cat(s, Cat(t, u))
BY ConcatAssociative DEF Cat

LEMMA Equal ==
  ASSUME NEW T, NEW s \in Seq(T), NEW t \in Seq(T), Len(s) = Len(t),
         \A n \in 1 .. Len(s) : s[n] = t[n]
  PROVE  s = t
BY SeqEqual

LEMMA AddBehind ==
  ASSUME NEW T, NEW p \in Seq(T), NEW q \in Seq(T), NEW x \in T
  PROVE  Add(Cat(p, q), x) = Cat(p, Add(q, x))
<1>1. Cat(p, q) \in Seq(T) /\ One(x) \in Seq(T)
  BY CatIs, OneIs DEF IsCat
<1>2. Add(Cat(p, q), x) = Cat(Cat(p, q), One(x))
  BY <1>1, AddIsCat
<1>3. Add(q, x) = Cat(q, One(x))
  BY AddIsCat
<1>4. Cat(Cat(p, q), One(x)) = Cat(p, Cat(q, One(x)))
  BY <1>1, CatAssociative
<1> QED
  BY <1>2, <1>3, <1>4

LEMMA ChangedIs ==
  ASSUME NEW T, NEW s \in Seq(T), NEW x \in T, s # <<>>
  PROVE  IsChanged(T, s, x, Changed(s, x))
<1>1. Len(s) \in 1 .. Len(s)
  OBVIOUS
<1> QED
  BY <1>1, ExceptSeq DEF Changed, IsChanged

LEMMA ChangeBehind ==
  ASSUME NEW T, NEW p \in Seq(T), NEW q \in Seq(T), NEW x \in T, q # <<>>
  PROVE  Changed(Cat(p, q), x) = Cat(p, Changed(q, x))
<1> DEFINE r == Cat(p, q)
           u == Changed(q, x)
           v == Changed(r, x)
           w == Cat(p, u)
<1>1. IsCat(T, p, q, r) /\ IsChanged(T, q, x, u)
  BY CatIs, ChangedIs
<1> HIDE DEF r, u
<1>2. IsCat(T, p, u, w)
  <2>1. u \in Seq(T)
    BY <1>1 DEF IsChanged
  <2> QED
    BY <2>1, CatIs
<1>3. IsChanged(T, r, x, v)
  <2>1. r \in Seq(T) /\ r # <<>>
    BY <1>1 DEF IsCat, IsChanged
  <2> QED
    BY <2>1, ChangedIs
<1> HIDE DEF v, w
<1>4. Len(v) = Len(p) + Len(q) /\ Len(v) = Len(w) /\ v \in Seq(T) /\ w \in Seq(T) /\ Len(p) \in Nat /\ Len(q) \in Nat
  BY <1>1, <1>2, <1>3 DEF IsCat, IsChanged
<1>5. ASSUME NEW n \in 1 .. Len(v) PROVE v[n] = w[n]
  <2>1. CASE n <= Len(p)
    <3>1. n \in 1 .. Len(p) /\ n \in 1 .. Len(r) /\ n # Len(r)
      <4>1. Len(q) >= 1 /\ Len(r) = Len(p) + Len(q)
        BY <1>1 DEF IsCat, IsChanged
      <4> QED
        BY <1>4, <2>1, <4>1
    <3>2. w[n] = p[n] /\ r[n] = p[n]
      BY <1>1, <1>2, <3>1 DEF IsCat
    <3>3. v[n] = r[n]
      BY <1>3, <3>1 DEF IsChanged
    <3> QED
      BY <3>2, <3>3
  <2>2. CASE ~(n <= Len(p))
    <3> DEFINE k == n - Len(p)
    <3>1. k \in 1 .. Len(q) /\ n = Len(p) + k /\ (n = Len(p) + Len(q) <=> k = Len(q))
      BY <1>4, <2>2
    <3> HIDE DEF k
    <3>2. v[n] = IF k = Len(q) THEN x ELSE r[Len(p) + k]
      BY <1>1, <1>3, <1>4, <3>1 DEF IsChanged, IsCat
    <3>3. w[n] = u[k]
      BY <1>1, <1>2, <3>1 DEF IsCat, IsChanged
    <3> QED
      BY <1>1, <3>1, <3>2, <3>3 DEF IsCat, IsChanged
  <2> QED
    BY <2>1, <2>2
<1>6. v = w
  BY <1>4, <1>5, Equal
<1> QED
  BY <1>6 DEF v, w, u, r

(* The first n of a sequence.                                              *)
LEMMA StartIs ==
  ASSUME NEW T, NEW s \in Seq(T), NEW n \in 0 .. Len(s)
  PROVE  IsStart(T, s, n, Start(s, n))
<1>1. \A k \in 1 .. n : s[k] \in T
  BY ElementOfSeq
<1>2. n \in Int /\ 1 \in Int /\ n - 1 + 1 = n /\ (IF 1 <= n THEN n - 1 + 1 ELSE 0) = n
  OBVIOUS
<1>3. /\ SubSeq(s, 1, n) \in Seq(T)
      /\ Len(SubSeq(s, 1, n)) = IF 1 <= n THEN n - 1 + 1 ELSE 0
      /\ \A k \in 1 .. n - 1 + 1 : SubSeq(s, 1, n)[k] = s[1 + k - 1]
  BY <1>1, <1>2, SubSeqProperties
<1>4. \A k \in 1 .. n : 1 + k - 1 = k
  OBVIOUS
<1> DEFINE w == SubSeq(s, 1, n)
<1> HIDE DEF w
<1>5. w \in Seq(T) /\ Len(w) = n /\ \A k \in 1 .. n : w[k] = s[k]
  BY <1>2, <1>3, <1>4 DEF w
<1> QED
  BY <1>5 DEF w, Start, IsStart

LEMMA StartWhole ==
  ASSUME NEW T, NEW s \in Seq(T)
  PROVE  Start(s, Len(s)) = s /\ Start(s, 0) = <<>>
BY SubSeqFull, SubSeqEmpty DEF Start

LEMMA StartNext ==
  ASSUME NEW T, NEW s \in Seq(T), NEW n \in 0 .. Len(s) - 1
  PROVE  Start(s, n + 1) = Add(Start(s, n), s[n + 1])
<1> DEFINE v == Start(s, n + 1)
           u == Start(s, n)
           w == Add(u, s[n + 1])
<1>0. Len(s) \in Nat /\ n \in Nat /\ n + 1 \in 0 .. Len(s) /\ n \in 0 .. Len(s) /\ s[n + 1] \in T
  OBVIOUS
<1>1. IsStart(T, s, n + 1, v) /\ IsStart(T, s, n, u)
  BY <1>0, StartIs
<1> HIDE DEF u, v
<1>2. IsAdd(T, u, s[n + 1], w)
  <2>1. u \in Seq(T)
    BY <1>1 DEF IsStart
  <2> QED
    BY <1>0, <2>1, AddIs
<1> HIDE DEF w
<1>3. \A k \in 1 .. Len(v) : v[k] = w[k]
  BY <1>0, <1>1, <1>2 DEF IsStart, IsAdd
<1>4. v \in Seq(T) /\ w \in Seq(T) /\ Len(v) = Len(w)
  BY <1>1, <1>2 DEF IsStart, IsAdd
<1>5. v = w
  BY <1>3, <1>4, Equal
<1> QED
  BY <1>5 DEF v, w, u

LEMMA StartOfCat ==
  ASSUME NEW T, NEW p \in Seq(T), NEW q \in Seq(T), NEW n \in 0 .. Len(q)
  PROVE  Start(Cat(p, q), Len(p) + n) = Cat(p, Start(q, n))
<1> DEFINE r == Cat(p, q)
           v == Start(r, Len(p) + n)
           u == Start(q, n)
           w == Cat(p, u)
<1>1. IsCat(T, p, q, r) /\ IsStart(T, q, n, u)
  BY CatIs, StartIs
<1> HIDE DEF r, u
<1>2. IsCat(T, p, u, w)
  <2>1. u \in Seq(T)
    BY <1>1 DEF IsStart
  <2> QED
    BY <2>1, CatIs
<1>3. IsStart(T, r, Len(p) + n, v)
  <2>1. r \in Seq(T) /\ Len(p) + n \in 0 .. Len(r)
    BY <1>1 DEF IsCat
  <2> QED
    BY <2>1, StartIs
<1> HIDE DEF v, w
<1>4. /\ v \in Seq(T) /\ w \in Seq(T) /\ Len(v) = Len(p) + n /\ Len(w) = Len(v)
      /\ Len(p) \in Nat /\ Len(q) \in Nat
  BY <1>1, <1>2, <1>3 DEF IsCat, IsStart
<1>5. ASSUME NEW k \in 1 .. Len(v) PROVE v[k] = w[k]
  <2>1. CASE k <= Len(p)
    <3>1. k \in 1 .. Len(p) /\ k \in 1 .. Len(p) + n
      BY <1>4, <2>1
    <3>2. v[k] = r[k]
      BY <1>3, <3>1 DEF IsStart
    <3>3. r[k] = p[k] /\ w[k] = p[k]
      BY <1>1, <1>2, <3>1 DEF IsCat
    <3> QED
      BY <3>2, <3>3
  <2>2. CASE ~(k <= Len(p))
    <3> DEFINE m == k - Len(p)
    <3>1. m \in 1 .. n /\ m \in 1 .. Len(q) /\ k = Len(p) + m
      BY <1>4, <2>2
    <3> HIDE DEF m
    <3>2. v[k] = r[Len(p) + m] /\ r[Len(p) + m] = q[m]
      BY <1>1, <1>3, <1>4, <3>1 DEF IsCat, IsStart
    <3>3. w[k] = u[m] /\ u[m] = q[m]
      BY <1>1, <1>2, <1>4, <3>1 DEF IsCat, IsStart
    <3> QED
      BY <3>2, <3>3
  <2> QED
    BY <2>1, <2>2
<1>6. v = w
  BY <1>4, <1>5, Equal
<1> QED
  BY <1>6 DEF v, w, u, r

LEMMA CatBegins ==
  ASSUME NEW T, NEW s \in Seq(T), NEW t \in Seq(T)
  PROVE  Begins(s, Cat(s, t))
<1>1. IsCat(T, s, t, Cat(s, t))
  BY CatIs
<1> QED
  BY <1>1 DEF IsCat, Begins

(* What a sequence begins with is its start.                               *)
LEMMA BeginsIsStart ==
  ASSUME NEW T, NEW s \in Seq(T), NEW w \in Seq(T), Begins(s, w)
  PROVE  Len(s) \in 0 .. Len(w) /\ s = Start(w, Len(s))
<1>1. Len(s) \in 0 .. Len(w) /\ \A n \in 1 .. Len(s) : w[n] = s[n]
  BY DEF Begins
<1> DEFINE v == Start(w, Len(s))
<1>2. IsStart(T, w, Len(s), v)
  BY <1>1, StartIs
<1> HIDE DEF v
<1>3. s = v
  BY <1>1, <1>2, Equal DEF IsStart
<1> QED
  BY <1>1, <1>3 DEF v

-----------------------------------------------------------------------------
(* A slash adds nothing, a character behind one a part, any other is added *)
(* to the last part.                                                       *)
LEMMA WithCharIs ==
  ASSUME NEW parts, NEW path, NEW n
  PROVE  /\ path[n] = Slash => WithChar(parts, path, n) = parts
         /\ path[n] # Slash /\ (n = 1 \/ path[n - 1] = Slash) =>
               WithChar(parts, path, n) = Add(parts, One(path[n]))
         /\ path[n] # Slash /\ ~(n = 1 \/ path[n - 1] = Slash) =>
               WithChar(parts, path, n) = Changed(parts, Add(parts[Len(parts)], path[n]))
<1>1. CASE path[n] = Slash
  BY <1>1 DEF WithChar
<1>2. CASE path[n] # Slash /\ (n = 1 \/ path[n - 1] = Slash)
  BY <1>2 DEF WithChar, Add, One
<1>3. CASE path[n] # Slash /\ ~(n = 1 \/ path[n - 1] = Slash)
  <2>1. WithChar(parts, path, n) = [parts EXCEPT ![Len(parts)] = Append(@, path[n])]
    BY <1>3 DEF WithChar
  <2>2. [parts EXCEPT ![Len(parts)] = Append(@, path[n])]
          = [parts EXCEPT ![Len(parts)] = Append(parts[Len(parts)], path[n])]
    OBVIOUS
  <2> QED
    BY <1>3, <2>1, <2>2 DEF Changed, Add
<1> QED
  BY <1>1, <1>2, <1>3

(* The parts of the beginning of a path are those of the beginning.        *)
LEMMA PartsOfBeginning ==
  ASSUME NEW s \in Seq(Char), NEW w \in Seq(Char), Begins(s, w)
  PROVE  \A n \in 0 .. Len(s) : PartsTo(w)[n] = PartsTo(s)[n]
<1> DEFINE T == {n \in 0 .. Len(s) : PartsTo(w)[n] = PartsTo(s)[n]}
<1>1. Len(s) \in Nat /\ Len(w) \in Nat /\ Len(s) <= Len(w) /\ \A n \in 1 .. Len(s) : w[n] = s[n]
  BY DEF Begins
<1>2. 0 \in T
  BY <1>1, PartsAre
<1>3. ASSUME NEW n \in 0 .. Len(s) - 1, n \in T PROVE n + 1 \in T
  <2>1. n + 1 \in 1 .. Len(s) /\ n + 1 \in 1 .. Len(w) /\ n \in Nat
    BY <1>1
  <2>2. /\ PartsTo(w)[n + 1] = WithChar(PartsTo(w)[n + 1 - 1], w, n + 1)
        /\ PartsTo(s)[n + 1] = WithChar(PartsTo(s)[n + 1 - 1], s, n + 1)
    BY <1>1, <2>1, PartsAre
  <2>3. n + 1 - 1 = n
    BY <2>1
  <2>4. w[n + 1] = s[n + 1] /\ (n + 1 # 1 => w[n + 1 - 1] = s[n + 1 - 1])
    BY <1>1, <2>1
  <2>5. WithChar(PartsTo(s)[n], w, n + 1) = WithChar(PartsTo(s)[n], s, n + 1)
    BY <2>1, <2>4 DEF WithChar
  <2>6. PartsTo(w)[n + 1] = PartsTo(s)[n + 1]
    BY <1>3, <2>2, <2>3, <2>5
  <2> QED
    BY <2>1, <2>6
<1>4. \A n \in 0 .. Len(s) : n \in T
  <2> HIDE DEF T
  <2> QED
    BY <1>1, <1>2, <1>3, UpTo
<1> QED
  BY <1>4

(* A part of one character, and one more of it.                            *)
LEMMA PieceIs ==
  ASSUME NEW c \in Char, c # Slash
  PROVE  One(c) \in Piece /\ \A p \in Piece : Add(p, c) \in Piece
<1>1. c \in Char \ {Slash}
  OBVIOUS
<1>2. One(c) \in Piece
  BY <1>1, OneIs DEF Piece
<1>3. ASSUME NEW p \in Piece PROVE Add(p, c) \in Piece
  <2>1. p \in Seq(Char \ {Slash})
    BY DEF Piece
  <2>2. IsAdd(Char \ {Slash}, p, c, Add(p, c))
    BY <1>1, <2>1, AddIs
  <2> QED
    BY <2>2 DEF IsAdd, Piece
<1> QED
  BY <1>2, <1>3

(* At a character that is no slash there is a part.                        *)
LEMMA SomePart ==
  ASSUME NEW path \in Seq(Char)
  PROVE  \A n \in 1 .. Len(path) : path[n] # Slash => PartsTo(path)[n] # <<>>
<1> DEFINE P == PartsTo(path)
           T == {n \in 0 .. Len(path) : n \in 1 .. Len(path) /\ path[n] # Slash => P[n] # <<>>}
<1>1. Len(path) \in Nat /\ P \in [0 .. Len(path) -> Seq(Piece)]
  BY PartsAre
<1>2. 0 \in T
  BY <1>1
<1>3. ASSUME NEW n \in 0 .. Len(path) - 1, n \in T PROVE n + 1 \in T
  <2> SUFFICES ASSUME path[n + 1] # Slash PROVE P[n + 1] # <<>>
    BY <1>1
  <2>1. n + 1 \in 1 .. Len(path) /\ n \in 0 .. Len(path) /\ n + 1 - 1 = n
    BY <1>1
  <2>2. P[n + 1] = WithChar(P[n], path, n + 1)
    BY <2>1, PartsAre
  <2>3. P[n] \in Seq(Piece)
    BY <1>1, <2>1
  <2>0. path[n + 1] \in Char /\ path[n + 1] # Slash
    BY <2>1
  <2> HIDE DEF P
  <2>4. CASE n + 1 = 1 \/ path[n + 1 - 1] = Slash
    <3>1. P[n + 1] = Add(P[n], One(path[n + 1]))
      BY <2>0, <2>2, <2>4, WithCharIs
    <3>2. One(path[n + 1]) \in Piece
      BY <2>0, PieceIs
    <3>3. IsAdd(Piece, P[n], One(path[n + 1]), P[n + 1])
      BY <2>3, <3>1, <3>2, AddIs
    <3> QED
      BY <3>3 DEF IsAdd
  <2>5. CASE ~(n + 1 = 1 \/ path[n + 1 - 1] = Slash)
    <3>1. P[n] # <<>>
      BY <1>3, <2>1, <2>5
    <3>2. P[n + 1] = Changed(P[n], Add(P[n][Len(P[n])], path[n + 1]))
      BY <2>0, <2>2, <2>5, WithCharIs
    <3>3. P[n][Len(P[n])] \in Piece
      BY <2>3, <3>1
    <3>4. Add(P[n][Len(P[n])], path[n + 1]) \in Piece
      BY <2>0, <3>3, PieceIs
    <3>5. IsChanged(Piece, P[n], Add(P[n][Len(P[n])], path[n + 1]), P[n + 1])
      BY <2>3, <3>1, <3>2, <3>4, ChangedIs
    <3> QED
      BY <3>5 DEF IsChanged
  <2> QED
    BY <2>4, <2>5
<1>4. \A n \in 0 .. Len(path) : n \in T
  <2> HIDE DEF T
  <2> QED
    BY <1>1, <1>2, <1>3, UpTo
<1> QED
  BY <1>1, <1>4

(* A path is split anywhere behind a slash.                                *)
LEMMA PartsOfBoth ==
  ASSUME NEW s \in Seq(Char), NEW t \in Seq(Char), s = <<>> \/ s[Len(s)] = Slash
  PROVE  Parts(Cat(s, t)) = Cat(Parts(s), Parts(t))
<1> DEFINE w == Cat(s, t)
           P == Parts(s)
           Q == PartsTo(t)
           R == PartsTo(w)
           T == {n \in 0 .. Len(t) : R[Len(s) + n] = Cat(P, Q[n])}
<1>0. IsCat(Char, s, t, w) /\ Begins(s, w)
  BY CatIs, CatBegins
<1> HIDE DEF w
<1>1. /\ w \in Seq(Char) /\ Len(s) \in Nat /\ Len(t) \in Nat /\ Len(w) = Len(s) + Len(t)
      /\ \A n \in 1 .. Len(s) : w[n] = s[n]
      /\ \A n \in 1 .. Len(t) : w[Len(s) + n] = t[n]
  BY <1>0 DEF IsCat
<1>2. P \in Seq(Piece) /\ Q \in [0 .. Len(t) -> Seq(Piece)] /\ Q[0] = <<>>
  BY PartsAre
<1>3. R[Len(s)] = P
  <2>1. PartsTo(s)[Len(s)] = P
    BY PartsAre
  <2> QED
    BY <1>0, <1>1, <2>1, PartsOfBeginning
<1>4. 0 \in T
  <2>1. R[Len(s) + 0] = Cat(P, Q[0])
    <3>1. Cat(P, <<>>) = P
      BY <1>2, CatEmpty
    <3> HIDE DEF P, Q, R
    <3> QED
      BY <1>1, <1>2, <1>3, <3>1
  <2> QED
    BY <1>1, <2>1
<1>5. ASSUME NEW n \in 0 .. Len(t) - 1, n \in T PROVE n + 1 \in T
  <2>1. /\ n + 1 \in 1 .. Len(t) /\ n \in 0 .. Len(t) /\ n + 1 - 1 = n
        /\ Len(s) + n + 1 \in 1 .. Len(w) /\ Len(s) + n + 1 - 1 = Len(s) + n
        /\ Len(s) + (n + 1) = Len(s) + n + 1
    BY <1>1
  <2>2. Q[n + 1] = WithChar(Q[n], t, n + 1)
    BY <2>1, PartsAre
  <2>3. R[Len(s) + n + 1] = WithChar(R[Len(s) + n], w, Len(s) + n + 1)
    BY <1>1, <2>1, PartsAre
  <2>4. R[Len(s) + n] = Cat(P, Q[n])
    BY <1>5
  <2>5. w[Len(s) + n + 1] = t[n + 1]
    BY <1>1, <2>1
  <2>6. n # 0 => w[Len(s) + n] = t[n]
    BY <1>1, <2>1
  <2>7. n = 0 => Len(s) + n + 1 = 1 \/ w[Len(s) + n] = Slash
    BY <1>1
  <2>8. Q[n] \in Seq(Piece)
    BY <1>2, <2>1
  <2>9. n # 0 /\ t[n] # Slash => Q[n] # <<>>
    BY <2>1, SomePart
  <2>a. t[n + 1] \in Char
    BY <2>1
  <2> HIDE DEF P, Q, R
  <2>10. R[Len(s) + n + 1] = Cat(P, Q[n + 1])
    <3>1. CASE t[n + 1] = Slash
      <4>1. Q[n + 1] = Q[n] /\ R[Len(s) + n + 1] = R[Len(s) + n]
        BY <2>2, <2>3, <2>5, <3>1, WithCharIs
      <4> QED
        BY <2>4, <4>1
    <3>2. CASE t[n + 1] # Slash /\ (n = 0 \/ t[n] = Slash)
      <4>1. n + 1 = 1 \/ t[n + 1 - 1] = Slash
        BY <2>1, <3>2
      <4>2. Q[n + 1] = Add(Q[n], One(t[n + 1]))
        BY <2>2, <3>2, <4>1, WithCharIs
      <4>3. Len(s) + n + 1 = 1 \/ w[Len(s) + n + 1 - 1] = Slash
        BY <2>1, <2>6, <2>7, <3>2
      <4>4. R[Len(s) + n + 1] = Add(Cat(P, Q[n]), One(t[n + 1]))
        BY <2>3, <2>4, <2>5, <3>2, <4>3, WithCharIs
      <4>5. One(t[n + 1]) \in Piece
        BY <2>a, <3>2, PieceIs
      <4>6. Add(Cat(P, Q[n]), One(t[n + 1])) = Cat(P, Add(Q[n], One(t[n + 1])))
        BY <1>2, <2>8, <4>5, AddBehind
      <4> QED
        BY <4>2, <4>4, <4>6
    <3>3. CASE t[n + 1] # Slash /\ ~(n = 0 \/ t[n] = Slash)
      <4> DEFINE V == Cat(P, Q[n])
                 longer == Add(Q[n][Len(Q[n])], t[n + 1])
      <4>1. ~(n + 1 = 1 \/ t[n + 1 - 1] = Slash)
        BY <2>1, <3>3
      <4>2. Q[n + 1] = Changed(Q[n], longer)
        BY <2>2, <3>3, <4>1, WithCharIs
      <4>3. ~(Len(s) + n + 1 = 1 \/ w[Len(s) + n + 1 - 1] = Slash)
        BY <1>1, <2>1, <2>6, <3>3
      <4>4. R[Len(s) + n + 1] = Changed(V, Add(V[Len(V)], t[n + 1]))
        BY <2>3, <2>4, <2>5, <3>3, <4>3, WithCharIs
      <4>5. Q[n] # <<>>
        BY <2>9, <3>3
      <4>6. IsCat(Piece, P, Q[n], V)
        BY <1>2, <2>8, CatIs
      <4>7. Len(Q[n]) \in 1 .. Len(Q[n]) /\ Q[n][Len(Q[n])] \in Piece
        BY <2>8, <4>5
      <4>8. V[Len(V)] = Q[n][Len(Q[n])]
        <5> HIDE DEF V
        <5> QED
          BY <4>6, <4>7 DEF IsCat
      <4>9. longer \in Piece
        BY <2>a, <3>3, <4>7, PieceIs
      <4>10. Changed(V, longer) = Cat(P, Changed(Q[n], longer))
        BY <1>2, <2>8, <4>5, <4>9, ChangeBehind
      <4> QED
        BY <4>2, <4>4, <4>8, <4>10
    <3> QED
      BY <3>1, <3>2, <3>3
  <2> QED
    BY <2>1, <2>10
<1>6. \A n \in 0 .. Len(t) : n \in T
  <2> HIDE DEF T
  <2> QED
    BY <1>1, <1>4, <1>5, UpTo
<1>7. R[Len(s) + Len(t)] = Cat(P, Q[Len(t)])
  BY <1>1, <1>6
<1>8. Parts(w) = R[Len(w)] /\ Parts(t) = Q[Len(t)]
  BY <1>1, PartsAre
<1> QED
  BY <1>1, <1>7, <1>8 DEF w

-----------------------------------------------------------------------------
(* A part is a path of one part.                                           *)
LEMMA PartsOfPiece ==
  ASSUME NEW p \in Piece
  PROVE  Parts(p) = One(p)
<1> DEFINE P == PartsTo(p)
           T == {n \in 0 .. Len(p) : n # 0 => P[n] = One(Start(p, n))}
<1>1. /\ p \in Seq(Char) /\ Len(p) \in Nat /\ Len(p) >= 1
      /\ \A n \in 1 .. Len(p) : p[n] \in Char /\ p[n] # Slash
  <2>1. p \in Seq(Char \ {Slash}) /\ p # <<>>
    BY DEF Piece
  <2> QED
    BY <2>1
<1>2. 0 \in T
  BY <1>1
<1>3. ASSUME NEW n \in 0 .. Len(p) - 1, n \in T PROVE n + 1 \in T
  <2>1. /\ n + 1 \in 1 .. Len(p) /\ n + 1 - 1 = n /\ p[n + 1] # Slash /\ p[n + 1] \in Char
        /\ n # 0 => p[n] # Slash
    BY <1>1
  <2>2. P[n + 1] = WithChar(P[n], p, n + 1)
    BY <1>1, <2>1, PartsAre
  <2>3. P[0] = <<>>
    BY <1>1, PartsAre
  <2>4. Start(p, n + 1) = Add(Start(p, n), p[n + 1])
    BY <1>1, StartNext
  <2> HIDE DEF P
  <2>5. CASE n = 0
    <3>1. P[n + 1] = Add(P[n], One(p[n + 1]))
      BY <2>1, <2>2, <2>5, WithCharIs
    <3>2. Start(p, 0) = <<>>
      BY <1>1, StartWhole
    <3>3. P[n + 1] = One(One(p[n + 1])) /\ Start(p, n + 1) = One(p[n + 1])
      <4>1. \A x : Add(<<>>, x) = One(x)
        BY DEF Add, One
      <4>2. P[n + 1] = Add(<<>>, One(p[n + 1])) /\ Start(p, n + 1) = Add(<<>>, p[n + 1])
        BY <2>3, <2>4, <2>5, <3>1, <3>2
      <4> QED
        BY <4>1, <4>2
    <3> QED
      BY <2>1, <3>3
  <2>6. CASE n # 0
    <3>1. P[n] = One(Start(p, n))
      BY <1>3, <2>1, <2>6
    <3>2. P[n + 1] = Changed(P[n], Add(P[n][Len(P[n])], p[n + 1]))
      BY <2>1, <2>2, <2>6, WithCharIs
    <3> DEFINE u == Start(p, n)
    <3> HIDE DEF u
    <3>3. One(u)[Len(One(u))] = u
      BY DEF One
    <3>4. \A x : Changed(One(u), x) = One(x)
      BY DEF Changed, One
    <3>5. P[n + 1] = One(Add(u, p[n + 1]))
      BY <3>1, <3>2, <3>3, <3>4 DEF u
    <3> QED
      BY <2>1, <2>4, <3>5 DEF u
  <2> QED
    BY <2>5, <2>6
<1>4. \A n \in 0 .. Len(p) : n \in T
  <2> HIDE DEF T
  <2> QED
    BY <1>1, <1>2, <1>3, UpTo
<1>5. P[Len(p)] = One(Start(p, Len(p)))
  BY <1>1, <1>4
<1>6. Start(p, Len(p)) = p
  BY <1>1, StartWhole
<1> QED
  BY <1>1, <1>5, <1>6, PartsAre

(* A slash behind a path is no part of it.                                 *)
LEMMA SlashBehind ==
  ASSUME NEW s \in Seq(Char)
  PROVE  /\ Add(s, Slash) \in Seq(Char) /\ Add(s, Slash)[Len(Add(s, Slash))] = Slash
         /\ Add(s, Slash) # <<>> /\ Parts(Add(s, Slash)) = Parts(s)
<1> DEFINE w == Add(s, Slash)
<1>1. IsAdd(Char, s, Slash, w)
  BY CharAssumption, AddIs
<1> HIDE DEF w
<1>2. Begins(s, w) /\ w \in Seq(Char) /\ Len(s) \in Nat /\ Len(w) = Len(s) + 1 /\ w[Len(w)] = Slash
  BY <1>1 DEF IsAdd, Begins
<1>3. PartsTo(w)[Len(s)] = PartsTo(s)[Len(s)]
  BY <1>2, PartsOfBeginning
<1>4. PartsTo(w)[Len(w)] = WithChar(PartsTo(w)[Len(s)], w, Len(w))
  <2>1. Len(w) \in 1 .. Len(w) /\ Len(w) - 1 = Len(s)
    BY <1>2
  <2> QED
    BY <1>2, <2>1, PartsAre
<1>5. WithChar(PartsTo(w)[Len(s)], w, Len(w)) = PartsTo(w)[Len(s)]
  BY <1>2, WithCharIs
<1>6. Parts(w) = Parts(s)
  BY <1>2, <1>3, <1>4, <1>5, PartsAre
<1> QED
  BY <1>1, <1>2, <1>6 DEF w, IsAdd

(* What a path starts with, up to a slash, is its first part.              *)
LEMMA FirstPart ==
  ASSUME NEW p \in Piece, NEW rest \in Seq(Char), rest = <<>> \/ rest[1] = Slash
  PROVE  Parts(Cat(p, rest)) # <<>> /\ Parts(Cat(p, rest))[1] = p
<1>1. p \in Seq(Char) /\ Len(p) \in Nat
  BY DEF Piece
<1>2. One(p) \in Seq(Piece) /\ Len(One(p)) = 1 /\ One(p)[1] = p /\ One(p) # <<>>
  BY OneIs
<1>3. CASE rest = <<>>
  <2>1. Cat(p, rest) = p
    BY <1>1, <1>3, CatEmpty
  <2> QED
    BY <1>2, <2>1, PartsOfPiece
<1>4. CASE rest # <<>>
  <2>1. PICK others \in Seq(Char) : rest = Cat(One(Slash), others)
    <3>1. Head(rest) = Slash /\ Tail(rest) \in Seq(Char) /\ rest = <<Head(rest)>> \o Tail(rest)
      BY <1>4
    <3> QED
      BY <3>1 DEF Cat, One
  <2>2. One(Slash) \in Seq(Char)
    BY CharAssumption, OneIs
  <2>3. Cat(p, rest) = Cat(Cat(p, One(Slash)), others)
    BY <1>1, <2>1, <2>2, CatAssociative
  <2>4. Cat(p, One(Slash)) = Add(p, Slash)
    BY <1>1, CharAssumption, AddIsCat
  <2>5. Parts(Cat(Add(p, Slash), others)) = Cat(Parts(p), Parts(others))
    BY <1>1, SlashBehind, PartsOfBoth
  <2>6. IsCat(Piece, One(p), Parts(others), Cat(One(p), Parts(others)))
    BY <1>2, PartsAre, CatIs
  <2>7. Parts(Cat(p, rest)) = Cat(One(p), Parts(others))
    BY <2>3, <2>4, <2>5, PartsOfPiece
  <2>8. 1 \in 1 .. Len(One(p)) /\ Len(Parts(others)) \in Nat
    BY <1>2, <2>6 DEF IsCat
  <2> QED
    BY <1>2, <2>6, <2>7, <2>8 DEF IsCat
<1> QED
  BY <1>3, <1>4

-----------------------------------------------------------------------------
(* Parts with slashes between them.                                        *)
SlashedTo(parts) ==
    CHOOSE slashed : slashed = [n \in 0 .. Len(parts) |->
        IF n = 0 THEN <<>> ELSE WithPart(slashed[n - 1], parts, n)]

(* A part more, and a slash in front of it.                                *)
LEMMA WithPartIs ==
  ASSUME NEW parts \in Seq(Piece), NEW path \in Seq(Char), NEW n \in 1 .. Len(parts)
  PROVE  /\ WithPart(path, parts, n) \in Seq(Char)
         /\ n = 1 => WithPart(path, parts, n) = parts[1]
         /\ n # 1 => WithPart(path, parts, n) = Cat(Add(path, Slash), parts[n])
<1>1. parts[n] \in Seq(Char)
  <2>1. parts[n] \in Piece
    OBVIOUS
  <2> QED
    BY <2>1 DEF Piece
<1>2. Add(path, Slash) = Cat(path, One(Slash)) /\ Add(path, Slash) \in Seq(Char)
  BY CharAssumption, AddIsCat, SlashBehind
<1>3. IsCat(Char, Add(path, Slash), parts[n], Cat(Add(path, Slash), parts[n]))
  BY <1>1, <1>2, CatIs
<1>4. CASE n = 1
  <2>1. WithPart(path, parts, n) = parts[1]
    BY <1>4 DEF WithPart
  <2> QED
    BY <1>1, <1>4, <2>1
<1>5. CASE n # 1
  <2>1. WithPart(path, parts, n) = Cat(Cat(path, One(Slash)), parts[n])
    BY <1>5 DEF WithPart, Cat, One
  <2>2. Cat(Add(path, Slash), parts[n]) \in Seq(Char)
    BY <1>3 DEF IsCat
  <2> QED
    BY <1>2, <1>5, <2>1, <2>2
<1> QED
  BY <1>4, <1>5

(* It is made from part to part.                                           *)
LEMMA SlashedAre ==
  ASSUME NEW parts \in Seq(Piece)
  PROVE  /\ SlashedTo(parts) \in [0 .. Len(parts) -> Seq(Char)]
         /\ SlashedTo(parts)[0] = <<>>
         /\ \A n \in 1 .. Len(parts) :
               SlashedTo(parts)[n] = WithPart(SlashedTo(parts)[n - 1], parts, n)
         /\ Slashed(parts) = SlashedTo(parts)[Len(parts)]
         /\ Slashed(parts) \in Seq(Char)
<1> DEFINE step == [x \in Seq(Char) \X (1 .. Len(parts)) |-> WithPart(x[1], parts, x[2])]
<1>1. step \in [Seq(Char) \X (1 .. Len(parts)) -> Seq(Char)]
  BY WithPartIs
<1>2. PICK f : Follows(f, Seq(Char), <<>>, Len(parts), step)
  <2>1. <<>> \in Seq(Char) /\ Len(parts) \in Nat
    OBVIOUS
  <2> HIDE DEF step
  <2> QED
    BY <1>1, <2>1, Recursion
<1>3. f = [n \in 0 .. Len(parts) |-> IF n = 0 THEN <<>> ELSE WithPart(f[n - 1], parts, n)]
  <2>1. ASSUME NEW n \in 1 .. Len(parts) PROVE f[n] = WithPart(f[n - 1], parts, n)
    <3>1. n - 1 \in 0 .. Len(parts)
      OBVIOUS
    <3>2. f[n - 1] \in Seq(Char)
      BY <1>2, <3>1 DEF Follows
    <3>3. <<f[n - 1], n>> \in Seq(Char) \X (1 .. Len(parts))
      BY <3>2
    <3> QED
      BY <1>2, <3>3 DEF Follows
  <2>2. ASSUME NEW n \in 0 .. Len(parts)
        PROVE  f[n] = IF n = 0 THEN <<>> ELSE WithPart(f[n - 1], parts, n)
    <3>1. n = 0 \/ n \in 1 .. Len(parts)
      OBVIOUS
    <3> QED
      BY <1>2, <2>1, <3>1 DEF Follows
  <2>3. f = [n \in 0 .. Len(parts) |-> f[n]]
    BY <1>2 DEF Follows
  <2> QED
    BY <2>2, <2>3, Zenon
<1>4. SlashedTo(parts) =
         [n \in 0 .. Len(parts) |-> IF n = 0 THEN <<>> ELSE WithPart(SlashedTo(parts)[n - 1], parts, n)]
  BY <1>3 DEF SlashedTo
<1>5. Slashed(parts) = SlashedTo(parts)[Len(parts)]
  BY DEF Slashed, SlashedTo
<1>6. SlashedTo(parts) \in [0 .. Len(parts) -> Seq(Char)]
  <2> DEFINE g == SlashedTo(parts)
             Typed == {n \in 0 .. Len(parts) : g[n] \in Seq(Char)}
  <2>1. 0 \in Typed
    BY <1>4
  <2>2. ASSUME NEW n \in 0 .. Len(parts) - 1, n \in Typed PROVE n + 1 \in Typed
    <3>1. g[n + 1] = WithPart(g[n], parts, n + 1)
      BY <1>4
    <3> QED
      BY <2>2, <3>1, WithPartIs
  <2>3. \A n \in 0 .. Len(parts) : n \in Typed
    <3>1. Len(parts) \in Nat
      OBVIOUS
    <3> HIDE DEF Typed
    <3> QED
      BY <2>1, <2>2, <3>1, UpTo
  <2>4. \A n \in 0 .. Len(parts) : g[n] \in Seq(Char)
    BY <2>3
  <2> HIDE DEF g
  <2>5. g = [n \in 0 .. Len(parts) |-> g[n]]
    BY <1>4 DEF g
  <2> QED
    BY <2>4, <2>5 DEF g
<1>7. Len(parts) \in Nat
  OBVIOUS
<1>8. SlashedTo(parts)[0] = <<>>
  BY <1>4, <1>7
<1>9. ASSUME NEW n \in 1 .. Len(parts)
      PROVE  SlashedTo(parts)[n] = WithPart(SlashedTo(parts)[n - 1], parts, n)
  <2>1. n \in 0 .. Len(parts) /\ n # 0
    BY <1>7
  <2> QED
    BY <1>4, <2>1
<1> QED
  BY <1>5, <1>6, <1>7, <1>8, <1>9

(* What the parts begin with is written first.                             *)
LEMMA SlashedOfBeginning ==
  ASSUME NEW p \in Seq(Piece), NEW w \in Seq(Piece), NEW l \in 0 .. Len(p), l <= Len(w),
         \A n \in 1 .. l : w[n] = p[n]
  PROVE  \A n \in 0 .. l : SlashedTo(w)[n] = SlashedTo(p)[n]
<1> DEFINE T == {n \in 0 .. l : SlashedTo(w)[n] = SlashedTo(p)[n]}
<1>1. Len(p) \in Nat /\ Len(w) \in Nat /\ l \in Nat
  OBVIOUS
<1>2. 0 \in T
  BY <1>1, SlashedAre
<1>3. ASSUME NEW n \in 0 .. l - 1, n \in T PROVE n + 1 \in T
  <2>1. n + 1 \in 1 .. l /\ n + 1 \in 1 .. Len(p) /\ n + 1 \in 1 .. Len(w) /\ n \in Nat /\ 1 \in 1 .. l
    BY <1>1
  <2>2. /\ SlashedTo(w)[n + 1] = WithPart(SlashedTo(w)[n + 1 - 1], w, n + 1)
        /\ SlashedTo(p)[n + 1] = WithPart(SlashedTo(p)[n + 1 - 1], p, n + 1)
    BY <2>1, SlashedAre
  <2>3. n + 1 - 1 = n
    BY <2>1
  <2>4. w[n + 1] = p[n + 1] /\ w[1] = p[1]
    BY <2>1
  <2>5. WithPart(SlashedTo(p)[n], w, n + 1) = WithPart(SlashedTo(p)[n], p, n + 1)
    BY <2>4 DEF WithPart
  <2>6. SlashedTo(w)[n + 1] = SlashedTo(p)[n + 1]
    BY <1>3, <2>2, <2>3, <2>5
  <2> QED
    BY <2>1, <2>6
<1>4. \A n \in 0 .. l : n \in T
  <2> HIDE DEF T
  <2> QED
    BY <1>1, <1>2, <1>3, UpTo
<1> QED
  BY <1>4

(* Of one part it is that part, of none it is empty.                       *)
LEMMA SlashedOne ==
  ASSUME NEW p \in Piece
  PROVE  Slashed(One(p)) = p
<1>1. One(p) \in Seq(Piece) /\ Len(One(p)) = 1 /\ One(p)[1] = p
  BY OneIs
<1>2. SlashedTo(One(p))[1] = WithPart(SlashedTo(One(p))[1 - 1], One(p), 1)
  BY <1>1, SlashedAre
<1>3. SlashedTo(One(p))[1] = p
  BY <1>1, <1>2 DEF WithPart
<1> QED
  BY <1>1, <1>3, SlashedAre

LEMMA SlashedNone == Slashed(<<>>) = <<>>
<1>1. <<>> \in Seq(Piece) /\ Len(<<>>) = 0
  OBVIOUS
<1> QED
  BY <1>1, SlashedAre

(* Two lists of parts are written with a slash between them.               *)
LEMMA SlashedOfBoth ==
  ASSUME NEW p \in Seq(Piece), NEW q \in Seq(Piece), p # <<>>, q # <<>>
  PROVE  Slashed(Cat(p, q)) = Cat(Add(Slashed(p), Slash), Slashed(q))
<1> DEFINE w == Cat(p, q)
           P == Add(Slashed(p), Slash)
           Q == SlashedTo(q)
           R == SlashedTo(w)
           T == {n \in 0 .. Len(q) : n # 0 => R[Len(p) + n] = Cat(P, Q[n])}
<1>0. IsCat(Piece, p, q, w)
  BY CatIs
<1> HIDE DEF w
<1>1. /\ w \in Seq(Piece) /\ Len(p) \in Nat /\ Len(q) \in Nat /\ Len(w) = Len(p) + Len(q)
      /\ \A n \in 1 .. Len(p) : w[n] = p[n]
      /\ \A n \in 1 .. Len(q) : w[Len(p) + n] = q[n]
      /\ Len(p) >= 1 /\ Len(q) >= 1
  BY <1>0 DEF IsCat
<1>2. Slashed(p) \in Seq(Char) /\ P \in Seq(Char) /\ Q \in [0 .. Len(q) -> Seq(Char)]
  BY SlashedAre, SlashBehind
<1>3. R[Len(p)] = Slashed(p)
  <2>1. Len(p) \in 0 .. Len(p) /\ Len(p) <= Len(w)
    BY <1>1
  <2>2. SlashedTo(w)[Len(p)] = SlashedTo(p)[Len(p)]
    BY <1>1, <2>1, SlashedOfBeginning
  <2> QED
    BY <2>2, SlashedAre
<1>4. 0 \in T
  BY <1>1
<1>5. ASSUME NEW n \in 0 .. Len(q) - 1, n \in T PROVE n + 1 \in T
  <2>1. /\ n + 1 \in 1 .. Len(q) /\ n \in 0 .. Len(q) /\ n + 1 - 1 = n
        /\ Len(p) + n + 1 \in 1 .. Len(w) /\ Len(p) + n + 1 - 1 = Len(p) + n
        /\ Len(p) + n + 1 # 1 /\ Len(p) + (n + 1) = Len(p) + n + 1
    BY <1>1
  <2>2. Q[n + 1] = WithPart(Q[n], q, n + 1)
    BY <2>1, SlashedAre
  <2>3. R[Len(p) + n + 1] = WithPart(R[Len(p) + n], w, Len(p) + n + 1)
    BY <1>1, <2>1, SlashedAre
  <2>4. w[Len(p) + n + 1] = q[n + 1]
    BY <1>1, <2>1
  <2>5. Q[n] \in Seq(Char) /\ R[Len(p) + n] \in Seq(Char)
    <3>1. R \in [0 .. Len(w) -> Seq(Char)] /\ Len(p) + n \in 0 .. Len(w)
      <4>1. R \in [0 .. Len(w) -> Seq(Char)]
        BY <1>1, SlashedAre
      <4>2. Len(p) + n \in 0 .. Len(w)
        BY <1>1, <2>1
      <4> QED
        BY <4>1, <4>2
    <3> HIDE DEF Q, R
    <3> QED
      BY <1>2, <2>1, <3>1
  <2>6. R[Len(p) + n + 1] = Cat(Add(R[Len(p) + n], Slash), q[n + 1])
    <3> DEFINE path == R[Len(p) + n]
               m == Len(p) + n + 1
    <3>1. path \in Seq(Char) /\ m \in 1 .. Len(w) /\ m # 1 /\ R[m] = WithPart(path, w, m) /\ w[m] = q[n + 1]
      BY <2>1, <2>3, <2>4, <2>5
    <3> HIDE DEF path, m, R
    <3>2. WithPart(path, w, m) = Cat(Add(path, Slash), w[m])
      BY <1>1, <3>1, WithPartIs
    <3> QED
      BY <3>1, <3>2 DEF path, m
  <2>7. q[n + 1] \in Seq(Char)
    <3>1. q[n + 1] \in Piece
      BY <2>1
    <3> QED
      BY <3>1 DEF Piece
  <2> HIDE DEF P, Q, R
  <2>8. CASE n = 0
    <3>1. Q[n + 1] = q[n + 1]
      BY <2>1, <2>2, <2>8 DEF WithPart
    <3>2. R[Len(p) + n] = Slashed(p)
      BY <1>1, <1>3, <2>8
    <3> QED
      BY <2>1, <2>6, <3>1, <3>2 DEF P
  <2>9. CASE n # 0
    <3>1. R[Len(p) + n] = Cat(P, Q[n])
      BY <1>5, <2>9
    <3>2. Q[n + 1] = Cat(Add(Q[n], Slash), q[n + 1])
      <4>1. n + 1 # 1
        BY <2>1, <2>9
      <4> QED
        BY <2>1, <2>2, <2>5, <4>1, WithPartIs
    <3>3. Add(Cat(P, Q[n]), Slash) = Cat(P, Add(Q[n], Slash)) /\ Add(Q[n], Slash) \in Seq(Char)
      BY <1>2, <2>5, CharAssumption, AddBehind, SlashBehind
    <3>4. Cat(Cat(P, Add(Q[n], Slash)), q[n + 1]) = Cat(P, Cat(Add(Q[n], Slash), q[n + 1]))
      BY <1>2, <2>7, <3>3, CatAssociative
    <3> QED
      BY <2>1, <2>6, <3>1, <3>2, <3>3, <3>4
  <2> QED
    BY <2>8, <2>9
<1>6. \A n \in 0 .. Len(q) : n \in T
  <2> HIDE DEF T
  <2> QED
    BY <1>1, <1>4, <1>5, UpTo
<1>7. R[Len(p) + Len(q)] = Cat(P, Q[Len(q)])
  BY <1>1, <1>6
<1>8. Slashed(w) = R[Len(w)] /\ Slashed(q) = Q[Len(q)]
  BY <1>1, SlashedAre
<1> QED
  BY <1>1, <1>7, <1>8 DEF w

-----------------------------------------------------------------------------
(* The first of a sequence, and the last of it.                            *)
LEMMA SplitFirst ==
  ASSUME NEW T, NEW s \in Seq(T), s # <<>>
  PROVE  \E t \in Seq(T) : s = Cat(One(s[1]), t)
<1>1. s[1] \in T /\ Tail(s) \in Seq(T) /\ s = <<s[1]>> \o Tail(s)
  OBVIOUS
<1> QED
  BY <1>1 DEF Cat, One

LEMMA SplitLast ==
  ASSUME NEW T, NEW s \in Seq(T), s # <<>>
  PROVE  /\ s = Add(Start(s, Len(s) - 1), s[Len(s)])
         /\ Start(s, Len(s) - 1) \in Seq(T) /\ Len(Start(s, Len(s) - 1)) = Len(s) - 1
         /\ s[Len(s)] \in T
<1>1. Len(s) \in Nat /\ Len(s) - 1 \in 0 .. Len(s) - 1 /\ Len(s) - 1 + 1 = Len(s) /\ s[Len(s)] \in T
      /\ Len(s) - 1 \in 0 .. Len(s)
  OBVIOUS
<1> DEFINE k == Len(s) - 1
<1>2. Start(s, k + 1) = Add(Start(s, k), s[k + 1])
  BY <1>1, StartNext
<1>3. Start(s, Len(s)) = s
  BY StartWhole
<1>4. IsStart(T, s, k, Start(s, k))
  BY <1>1, StartIs
<1> QED
  BY <1>1, <1>2, <1>3, <1>4 DEF IsStart

(* What a list of parts starts with is found in front of the first slash.  *)
LEMMA SlashedHead ==
  ASSUME NEW parts \in Seq(Piece), parts # <<>>
  PROVE  \E rest \in Seq(Char) :
            (rest = <<>> \/ rest[1] = Slash) /\ Slashed(parts) = Cat(parts[1], rest)
<1> DEFINE p == parts[1]
<1>1. PICK others \in Seq(Piece) : parts = Cat(One(p), others)
  BY SplitFirst
<1>2. p \in Piece /\ p \in Seq(Char)
  <2>1. p \in Piece
    OBVIOUS
  <2> QED
    BY <2>1 DEF Piece
<1> HIDE DEF p
<1>3. One(p) \in Seq(Piece) /\ One(p) # <<>> /\ One(Slash) \in Seq(Char) /\ One(Slash) # <<>>
      /\ Len(One(Slash)) = 1 /\ One(Slash)[1] = Slash
  BY <1>2, CharAssumption, OneIs
<1>4. CASE others = <<>>
  <2>1. parts = One(p)
    BY <1>1, <1>3, <1>4, CatEmpty
  <2>2. Slashed(parts) = p /\ Cat(p, <<>>) = p
    BY <1>2, <2>1, SlashedOne, CatEmpty
  <2>3. <<>> \in Seq(Char)
    OBVIOUS
  <2> QED
    BY <2>2, <2>3 DEF p
<1>5. CASE others # <<>>
  <2> DEFINE rest == Cat(One(Slash), Slashed(others))
  <2>1. Slashed(parts) = Cat(Add(p, Slash), Slashed(others))
    BY <1>1, <1>2, <1>3, <1>5, SlashedOfBoth, SlashedOne
  <2>2. Slashed(others) \in Seq(Char)
    BY SlashedAre
  <2>3. IsCat(Char, One(Slash), Slashed(others), rest)
    BY <1>3, <2>2, CatIs
  <2>4. Add(p, Slash) = Cat(p, One(Slash))
    BY <1>2, CharAssumption, AddIsCat
  <2>5. Cat(Cat(p, One(Slash)), Slashed(others)) = Cat(p, rest)
    BY <1>2, <1>3, <2>2, CatAssociative
  <2> HIDE DEF rest
  <2>6. rest \in Seq(Char) /\ rest[1] = Slash
    <3>1. 1 \in 1 .. Len(One(Slash))
      BY <1>3
    <3> QED
      BY <1>3, <2>3, <3>1 DEF IsCat
  <2> QED
    BY <2>1, <2>4, <2>5, <2>6 DEF p
<1> QED
  BY <1>4, <1>5

(* A character more in the last part is one more at the end.               *)
LEMMA SlashedChanged ==
  ASSUME NEW parts \in Seq(Piece), parts # <<>>, NEW c \in Char, c # Slash
  PROVE  /\ Changed(parts, Add(parts[Len(parts)], c)) \in Seq(Piece)
         /\ Slashed(Changed(parts, Add(parts[Len(parts)], c))) = Add(Slashed(parts), c)
<1> DEFINE l == Len(parts)
           p == parts[l]
           w == Changed(parts, Add(p, c))
           P == SlashedTo(parts)[l - 1]
<1>1. l \in Nat /\ l >= 1 /\ p \in Piece /\ l - 1 \in 0 .. l /\ l \in 1 .. l
  OBVIOUS
<1>2. Add(p, c) \in Piece
  BY <1>1, PieceIs
<1>3. IsChanged(Piece, parts, Add(p, c), w)
  BY <1>2, ChangedIs
<1> HIDE DEF w
<1>4. w \in Seq(Piece) /\ Len(w) = l /\ w[l] = Add(p, c) /\ \A n \in 1 .. l - 1 : w[n] = parts[n]
  BY <1>1, <1>3 DEF IsChanged
<1>5. SlashedTo(w)[l - 1] = P
  <2>1. l - 1 \in 0 .. Len(parts) /\ l - 1 <= Len(w) /\ l - 1 \in 0 .. l - 1
    BY <1>1, <1>4
  <2> DEFINE k == l - 1
  <2>2. \A n \in 1 .. k : w[n] = parts[n]
    BY <1>4
  <2>3. \A n \in 0 .. k : SlashedTo(w)[n] = SlashedTo(parts)[n]
    <3>1. k \in 0 .. Len(parts) /\ k <= Len(w)
      BY <2>1
    <3> HIDE DEF k
    <3> QED
      BY <1>4, <2>2, <3>1, SlashedOfBeginning
  <2> QED
    BY <2>1, <2>3
<1>6. P \in Seq(Char)
  <2>1. SlashedTo(parts) \in [0 .. Len(parts) -> Seq(Char)]
    BY SlashedAre
  <2> QED
    BY <1>1, <2>1
<1>7. Slashed(parts) = WithPart(P, parts, l)
  BY <1>1, SlashedAre
<1>8. Slashed(w) = WithPart(P, w, l)
  <2>1. Slashed(w) = SlashedTo(w)[l] /\ SlashedTo(w)[l] = WithPart(SlashedTo(w)[l - 1], w, l)
    BY <1>1, <1>4, SlashedAre
  <2> QED
    BY <1>5, <2>1
<1> HIDE DEF P, l, p
<1>9. CASE l = 1
  <2>1. Slashed(parts) = p
    BY <1>7, <1>9 DEF WithPart, p
  <2>2. Slashed(w) = Add(p, c)
    BY <1>4, <1>8, <1>9 DEF WithPart
  <2> QED
    BY <1>4, <2>1, <2>2 DEF w, p, l
<1>10. CASE l # 1
  <2>1. Slashed(parts) = Cat(Add(P, Slash), p)
    <3>1. l \in 1 .. Len(parts)
      BY <1>1 DEF l
    <3>2. WithPart(P, parts, l) = Cat(Add(P, Slash), parts[l])
      BY <1>6, <1>10, <3>1, WithPartIs
    <3> QED
      BY <1>7, <3>2 DEF p
  <2>2. Slashed(w) = Cat(Add(P, Slash), Add(p, c))
    BY <1>1, <1>4, <1>6, <1>8, <1>10, WithPartIs
  <2>3. p \in Seq(Char) /\ Add(P, Slash) \in Seq(Char)
    BY <1>1, <1>6, SlashBehind DEF Piece
  <2>4. Add(Cat(Add(P, Slash), p), c) = Cat(Add(P, Slash), Add(p, c))
    BY <2>3, AddBehind
  <2> QED
    BY <1>4, <2>1, <2>2, <2>4 DEF w, p, l
<1> QED
  BY <1>9, <1>10

(* A path without doubled slashes is its parts, with a slash in front if   *)
(* it is absolute, and one behind if it ends in one.                       *)
Root(absolute) == IF absolute THEN One(Slash) ELSE <<>>
Tidy(s) == \A n \in 1 .. Len(s) - 1 : s[n] = Slash => s[n + 1] # Slash
Behind(s, n) == IF s[n] = Slash /\ PartsTo(s)[n] # <<>> THEN One(Slash) ELSE <<>>

(* A tidy path that ends in a slash is spelled so.                         *)
LEMMA Spelled ==
  ASSUME NEW s \in Seq(Char), s # <<>>, Tidy(s), s[Len(s)] = Slash
  PROVE  s = Cat(Root(Absolute(s)),
                 Cat(Slashed(Parts(s)), IF Parts(s) # <<>> THEN One(Slash) ELSE <<>>))
<1> DEFINE P == PartsTo(s)
           A == Root(Absolute(s))
           T == {n \in 0 .. Len(s) :
                   n # 0 => Start(s, n) = Cat(A, Cat(Slashed(P[n]), Behind(s, n)))}
<1>0. One(Slash) \in Seq(Char) /\ <<>> \in Seq(Char) /\ A \in Seq(Char)
  BY CharAssumption, OneIs DEF Root
<1>1. /\ Len(s) \in Nat /\ Len(s) >= 1 /\ P \in [0 .. Len(s) -> Seq(Piece)] /\ P[0] = <<>>
      /\ Start(s, 0) = <<>>
  BY PartsAre, StartWhole
<1>2. 0 \in T
  BY <1>1
<1>3. ASSUME NEW n \in 0 .. Len(s) - 1, n \in T PROVE n + 1 \in T
  <2> DEFINE c == s[n + 1]
             m == n + 1
  <2>1. /\ n + 1 \in 1 .. Len(s) /\ n + 1 \in 0 .. Len(s) /\ n \in 0 .. Len(s)
        /\ n + 1 - 1 = n /\ c \in Char
    BY <1>1
  <2>2. P[n + 1] = WithChar(P[n], s, n + 1)
    BY <2>1, PartsAre
  <2>3. Start(s, n + 1) = Add(Start(s, n), c)
    BY StartNext
  <2>4. P[n] \in Seq(Piece) /\ Slashed(P[n]) \in Seq(Char)
    <3>1. P[n] \in Seq(Piece)
      BY <1>1, <2>1
    <3> QED
      BY <3>1, SlashedAre
  <2>5. n # 0 => Start(s, n) = Cat(A, Cat(Slashed(P[n]), Behind(s, n)))
    BY <1>3
  <2>6. n # 0 /\ s[n] # Slash => P[n] # <<>>
    BY <2>1, SomePart
  <2>7. n # 0 /\ s[n] = Slash => c # Slash
    BY <2>1 DEF Tidy
  <2>8. \A x \in Char : Add(<<>>, x) = One(x)
    BY DEF Add, One
  <2>9. (n = 0 /\ c = Slash <=> n = 0 /\ Absolute(s)) /\ P[0] = <<>>
    BY <1>1 DEF Absolute
  <2>10. One(c) \in Seq(Char) /\ One(c) # <<>>
    BY <2>1, OneIs
  <2>12. \A x \in Seq(Char) : Cat(x, <<>>) = x /\ Cat(<<>>, x) = x
    BY CatEmpty
  <2>13. \A x \in Seq(Char), y \in Seq(Char) : Cat(x, y) \in Seq(Char) /\ Add(Cat(x, y), c) = Cat(x, Add(y, c))
    <3> SUFFICES ASSUME NEW x \in Seq(Char), NEW y \in Seq(Char)
                 PROVE  Cat(x, y) \in Seq(Char) /\ Add(Cat(x, y), c) = Cat(x, Add(y, c))
      OBVIOUS
    <3>1. IsCat(Char, x, y, Cat(x, y))
      BY CatIs
    <3>2. Add(Cat(x, y), c) = Cat(x, Add(y, c))
      BY <2>1, AddBehind
    <3> QED
      BY <3>1, <3>2 DEF IsCat
  <2> HIDE DEF P, A, c
  <2>11. Start(s, n + 1) = Cat(A, Cat(Slashed(P[n + 1]), Behind(s, n + 1)))
    <3>1. CASE n = 0 /\ c = Slash
      <4>1. P[n + 1] = <<>>
        BY <2>2, <2>9, <3>1, WithCharIs DEF c
      <4>2. Behind(s, n + 1) = <<>>
        BY <4>1 DEF Behind, P
      <4>3. A = One(Slash)
        BY <2>9, <3>1 DEF A, Root
      <4>4. Start(s, n + 1) = One(Slash)
        BY <1>1, <2>1, <2>3, <2>8, <3>1
      <4> QED
        BY <1>0, <2>12, <4>1, <4>2, <4>3, <4>4, SlashedNone
    <3>2. CASE n = 0 /\ c # Slash
      <4>1. P[n + 1] = Add(P[n], One(c))
        BY <2>2, <3>2, WithCharIs DEF c
      <4>2. P[n + 1] = One(One(c)) /\ One(c) \in Piece
        <5>1. One(c) \in Piece /\ P[n] = <<>>
          BY <2>1, <2>9, <3>2, PieceIs
        <5>2. \A x : Add(<<>>, x) = One(x)
          BY DEF Add, One
        <5> QED
          BY <4>1, <5>1, <5>2
      <4>3. Behind(s, n + 1) = <<>> /\ A = <<>>
        BY <2>9, <3>2 DEF Behind, A, Root, c
      <4>4. Start(s, n + 1) = One(c)
        BY <1>1, <2>1, <2>3, <2>8, <3>2
      <4> QED
        BY <2>10, <2>12, <4>2, <4>3, <4>4, SlashedOne
    <3>3. CASE n # 0 /\ c = Slash
      <4>1. s[n] # Slash
        BY <2>7, <3>3
      <4>2. P[n + 1] = P[n] /\ P[n] # <<>>
        BY <2>2, <2>6, <3>3, <4>1, WithCharIs DEF c
      <4>3. Behind(s, n) = <<>> /\ Behind(s, n + 1) = One(Slash)
        BY <3>3, <4>1, <4>2 DEF Behind, P, c
      <4>4. Start(s, n) = Cat(A, Slashed(P[n]))
        BY <2>4, <2>5, <2>12, <3>3, <4>3
      <4>5. Start(s, n + 1) = Cat(A, Add(Slashed(P[n]), Slash))
        BY <1>0, <2>3, <2>4, <2>13, <3>3, <4>4
      <4>6. Add(Slashed(P[n]), Slash) = Cat(Slashed(P[n]), One(Slash))
        BY <2>4, CharAssumption, AddIsCat
      <4> QED
        BY <4>2, <4>3, <4>5, <4>6
    <3>4. CASE n # 0 /\ c # Slash /\ s[n] = Slash
      <4>1. P[n + 1] = Add(P[n], One(c)) /\ One(c) \in Piece
        BY <2>1, <2>2, <3>4, WithCharIs, PieceIs DEF c
      <4>2. Behind(s, n + 1) = <<>>
        BY <3>4 DEF Behind, c
      <4>3. CASE P[n] = <<>>
        <5>1. \A x : Add(<<>>, x) = One(x)
          BY DEF Add, One
        <5>2. P[n + 1] = One(One(c)) /\ Slashed(P[n + 1]) = One(c)
          BY <4>1, <4>3, <5>1, SlashedOne
        <5>3. Behind(s, n) = <<>>
          BY <4>3 DEF Behind, P
        <5>4. Start(s, n) = A
          BY <1>0, <2>5, <2>12, <3>4, <4>3, <5>3, SlashedNone
        <5>5. Start(s, n + 1) = Cat(A, One(c))
          BY <1>0, <2>1, <2>3, <5>4, AddIsCat
        <5> QED
          BY <2>10, <2>12, <4>2, <5>2, <5>5
      <4>4. CASE P[n] # <<>>
        <5>1. Behind(s, n) = One(Slash)
          BY <3>4, <4>4 DEF Behind, P
        <5>2. Cat(Slashed(P[n]), One(Slash)) = Add(Slashed(P[n]), Slash) /\ Add(Slashed(P[n]), Slash) \in Seq(Char)
          BY <2>4, CharAssumption, AddIsCat, SlashBehind
        <5>3. Start(s, n + 1) = Cat(A, Add(Add(Slashed(P[n]), Slash), c))
          BY <1>0, <2>3, <2>5, <2>13, <3>4, <5>1, <5>2
        <5>4. Add(Add(Slashed(P[n]), Slash), c) = Cat(Add(Slashed(P[n]), Slash), One(c))
          BY <2>1, <5>2, AddIsCat
        <5>5. P[n + 1] = Cat(P[n], One(One(c))) /\ One(One(c)) \in Seq(Piece) /\ One(One(c)) # <<>>
          BY <2>4, <4>1, AddIsCat, OneIs
        <5>6. Slashed(P[n + 1]) = Cat(Add(Slashed(P[n]), Slash), One(c))
          BY <2>4, <4>1, <4>4, <5>5, SlashedOfBoth, SlashedOne
        <5>7. Slashed(P[n + 1]) \in Seq(Char)
          BY <2>10, <5>2, <5>6, CatIs DEF IsCat
        <5> QED
          BY <2>12, <4>2, <5>3, <5>4, <5>6, <5>7
      <4> QED
        BY <4>3, <4>4
    <3>5. CASE n # 0 /\ c # Slash /\ s[n] # Slash
      <4>1. P[n] # <<>>
        BY <2>6, <3>5
      <4>2. P[n + 1] = Changed(P[n], Add(P[n][Len(P[n])], c))
        <5>1. n + 1 # 1
          BY <2>1, <3>5
        <5> QED
          BY <2>1, <2>2, <3>5, <5>1, WithCharIs DEF c
      <4>3. Slashed(P[n + 1]) = Add(Slashed(P[n]), c) /\ Slashed(P[n + 1]) \in Seq(Char)
        BY <2>1, <2>4, <3>5, <4>1, <4>2, SlashedChanged, SlashedAre
      <4>4. Behind(s, n) = <<>> /\ Behind(s, n + 1) = <<>>
        BY <3>5 DEF Behind, c
      <4>5. Start(s, n) = Cat(A, Slashed(P[n]))
        BY <2>4, <2>5, <2>12, <3>5, <4>4
      <4>6. Start(s, n + 1) = Cat(A, Add(Slashed(P[n]), c))
        BY <1>0, <2>3, <2>4, <2>13, <4>5
      <4> QED
        BY <2>12, <4>3, <4>4, <4>6
    <3> QED
      BY <3>1, <3>2, <3>3, <3>4, <3>5
  <2> QED
    BY <2>1, <2>11
<1>4. \A n \in 0 .. Len(s) : n \in T
  <2> HIDE DEF T
  <2> QED
    BY <1>1, <1>2, <1>3, UpTo
<1>5. Start(s, Len(s)) = Cat(A, Cat(Slashed(P[Len(s)]), Behind(s, Len(s))))
  BY <1>1, <1>4
<1>6. Start(s, Len(s)) = s /\ P[Len(s)] = Parts(s)
  BY PartsAre, StartWhole
<1>7. Behind(s, Len(s)) = IF Parts(s) # <<>> THEN One(Slash) ELSE <<>>
  BY <1>6 DEF Behind
<1> QED
  BY <1>5, <1>6, <1>7

-----------------------------------------------------------------------------
(* The parts that are left when ".." and "." are followed.                 *)
NormalTo(parts, absolute) ==
    CHOOSE normal : normal = [n \in 0 .. Len(parts) |->
        IF n = 0 THEN <<>> ELSE Enter(normal[n - 1], parts[n], absolute)]

(* A step into a part, by cases.                                           *)
LEMMA EnterIs ==
  ASSUME NEW parts \in Seq(Piece), NEW part \in Piece, NEW absolute \in BOOLEAN
  PROVE  /\ Enter(parts, part, absolute) \in Seq(Piece)
         /\ part = Here => Enter(parts, part, absolute) = parts
         /\ part \notin {Up, Here} => Enter(parts, part, absolute) = Add(parts, part)
         /\ (part = Up /\ parts # <<>> /\ parts[Len(parts)] # Up) =>
               Enter(parts, part, absolute) = Start(parts, Len(parts) - 1)
         /\ (part = Up /\ ~(parts # <<>> /\ parts[Len(parts)] # Up)) =>
               Enter(parts, part, absolute) = IF absolute THEN parts ELSE Add(parts, Up)
<1>1. CASE part = Here
  BY <1>1, PartsAssumption DEF Enter
<1>2. CASE part \notin {Up, Here}
  <2>1. Enter(parts, part, absolute) = Add(parts, part)
    BY <1>2 DEF Enter, Add
  <2>2. IsAdd(Piece, parts, part, Add(parts, part))
    BY AddIs
  <2> QED
    BY <1>2, <2>1, <2>2 DEF IsAdd
<1>3. CASE part = Up
  <2>1. Enter(parts, part, absolute) = Climb(parts, absolute)
    BY <1>3, PartsAssumption DEF Enter
  <2>2. CASE parts # <<>> /\ parts[Len(parts)] # Up
    <3>1. Climb(parts, absolute) = Start(parts, Len(parts) - 1)
      BY <2>2 DEF Climb, Last, Start
    <3>2. Start(parts, Len(parts) - 1) \in Seq(Piece)
      BY <2>2, SplitLast
    <3> QED
      BY <1>3, <2>1, <2>2, <3>1, <3>2, PartsAssumption
  <2>3. CASE ~(parts # <<>> /\ parts[Len(parts)] # Up)
    <3>1. Climb(parts, absolute) = IF absolute THEN parts ELSE Add(parts, Up)
      BY <2>3 DEF Climb, Last, Add
    <3>2. IsAdd(Piece, parts, Up, Add(parts, Up))
      BY PartsAssumption, AddIs
    <3>3. Add(parts, Up) \in Seq(Piece)
      BY <3>2 DEF IsAdd
    <3> QED
      BY <1>3, <2>1, <2>3, <3>1, <3>3, PartsAssumption
  <2> QED
    BY <2>2, <2>3
<1> QED
  BY <1>1, <1>2, <1>3

(* It is found from part to part.                                          *)
LEMMA NormalAre ==
  ASSUME NEW parts \in Seq(Piece), NEW absolute \in BOOLEAN
  PROVE  /\ NormalTo(parts, absolute) \in [0 .. Len(parts) -> Seq(Piece)]
         /\ NormalTo(parts, absolute)[0] = <<>>
         /\ \A n \in 1 .. Len(parts) :
               NormalTo(parts, absolute)[n] = Enter(NormalTo(parts, absolute)[n - 1], parts[n], absolute)
         /\ Normal(parts, absolute) = NormalTo(parts, absolute)[Len(parts)]
         /\ Normal(parts, absolute) \in Seq(Piece)
<1> DEFINE step == [x \in Seq(Piece) \X (1 .. Len(parts)) |-> Enter(x[1], parts[x[2]], absolute)]
<1>0. \A n \in 1 .. Len(parts) : parts[n] \in Piece
  OBVIOUS
<1>1. step \in [Seq(Piece) \X (1 .. Len(parts)) -> Seq(Piece)]
  BY <1>0, EnterIs
<1>2. PICK f : Follows(f, Seq(Piece), <<>>, Len(parts), step)
  <2>1. <<>> \in Seq(Piece) /\ Len(parts) \in Nat
    OBVIOUS
  <2> HIDE DEF step
  <2> QED
    BY <1>1, <2>1, Recursion
<1>3. f = [n \in 0 .. Len(parts) |-> IF n = 0 THEN <<>> ELSE Enter(f[n - 1], parts[n], absolute)]
  <2>1. ASSUME NEW n \in 1 .. Len(parts) PROVE f[n] = Enter(f[n - 1], parts[n], absolute)
    <3>1. n - 1 \in 0 .. Len(parts)
      OBVIOUS
    <3>2. f[n - 1] \in Seq(Piece)
      BY <1>2, <3>1 DEF Follows
    <3>3. <<f[n - 1], n>> \in Seq(Piece) \X (1 .. Len(parts))
      BY <3>2
    <3> QED
      BY <1>2, <3>3 DEF Follows
  <2>2. ASSUME NEW n \in 0 .. Len(parts)
        PROVE  f[n] = IF n = 0 THEN <<>> ELSE Enter(f[n - 1], parts[n], absolute)
    <3>1. n = 0 \/ n \in 1 .. Len(parts)
      OBVIOUS
    <3> QED
      BY <1>2, <2>1, <3>1 DEF Follows
  <2>3. f = [n \in 0 .. Len(parts) |-> f[n]]
    BY <1>2 DEF Follows
  <2> QED
    BY <2>2, <2>3, Zenon
<1>4. NormalTo(parts, absolute) =
         [n \in 0 .. Len(parts) |-> IF n = 0 THEN <<>> ELSE Enter(NormalTo(parts, absolute)[n - 1], parts[n], absolute)]
  BY <1>3 DEF NormalTo
<1>5. Normal(parts, absolute) = NormalTo(parts, absolute)[Len(parts)]
  BY DEF Normal, NormalTo
<1>6. NormalTo(parts, absolute) \in [0 .. Len(parts) -> Seq(Piece)]
  <2> DEFINE g == NormalTo(parts, absolute)
             Typed == {n \in 0 .. Len(parts) : g[n] \in Seq(Piece)}
  <2>1. 0 \in Typed
    BY <1>4
  <2>2. ASSUME NEW n \in 0 .. Len(parts) - 1, n \in Typed PROVE n + 1 \in Typed
    <3>1. n + 1 \in 0 .. Len(parts) /\ n + 1 # 0 /\ n + 1 - 1 = n /\ parts[n + 1] \in Piece
      OBVIOUS
    <3>2. g[n + 1] = Enter(g[n], parts[n + 1], absolute)
      BY <1>4, <3>1
    <3> HIDE DEF g
    <3>3. g[n] \in Seq(Piece)
      BY <2>2
    <3>4. Enter(g[n], parts[n + 1], absolute) \in Seq(Piece)
      BY <3>1, <3>3, EnterIs
    <3> QED
      BY <3>1, <3>2, <3>4
  <2>3. \A n \in 0 .. Len(parts) : n \in Typed
    <3>1. Len(parts) \in Nat
      OBVIOUS
    <3> HIDE DEF Typed
    <3> QED
      BY <2>1, <2>2, <3>1, UpTo
  <2>4. \A n \in 0 .. Len(parts) : g[n] \in Seq(Piece)
    BY <2>3
  <2> HIDE DEF g
  <2>5. g = [n \in 0 .. Len(parts) |-> g[n]]
    BY <1>4 DEF g
  <2> QED
    BY <2>4, <2>5 DEF g
<1>7. Len(parts) \in Nat
  OBVIOUS
<1>8. NormalTo(parts, absolute)[0] = <<>>
  BY <1>4, <1>7
<1>9. ASSUME NEW n \in 1 .. Len(parts)
      PROVE  NormalTo(parts, absolute)[n] = Enter(NormalTo(parts, absolute)[n - 1], parts[n], absolute)
  <2>1. n \in 0 .. Len(parts) /\ n # 0
    BY <1>7
  <2> QED
    BY <1>4, <2>1
<1> QED
  BY <1>5, <1>6, <1>7, <1>8, <1>9

(* The first parts of a way alone lead where the way is after them.        *)
LEMMA NormalOfStart ==
  ASSUME NEW w \in Seq(Piece), NEW absolute \in BOOLEAN, NEW l \in 0 .. Len(w)
  PROVE  Normal(Start(w, l), absolute) = NormalTo(w, absolute)[l]
<1> DEFINE p == Start(w, l)
           N == NormalTo(w, absolute)
           M == NormalTo(p, absolute)
           T == {n \in 0 .. l : M[n] = N[n]}
<1>0. IsStart(Piece, w, l, p)
  BY StartIs
<1> HIDE DEF p
<1>1. Len(w) \in Nat /\ l \in Nat /\ p \in Seq(Piece) /\ Len(p) = l /\ \A n \in 1 .. l : p[n] = w[n]
  BY <1>0 DEF IsStart
<1>2. 0 \in T
  BY <1>1, NormalAre
<1>3. ASSUME NEW n \in 0 .. l - 1, n \in T PROVE n + 1 \in T
  <2>1. n + 1 \in 1 .. l /\ n + 1 \in 1 .. Len(p) /\ n + 1 \in 1 .. Len(w) /\ n + 1 - 1 = n
    BY <1>1
  <2>2. /\ N[n + 1] = Enter(N[n + 1 - 1], w[n + 1], absolute)
        /\ M[n + 1] = Enter(M[n + 1 - 1], p[n + 1], absolute)
    <3>1. N[n + 1] = Enter(N[n + 1 - 1], w[n + 1], absolute)
      BY <2>1, NormalAre
    <3>2. M[n + 1] = Enter(M[n + 1 - 1], p[n + 1], absolute)
      <4>1. \A k \in 1 .. Len(p) : M[k] = Enter(M[k - 1], p[k], absolute)
        BY <1>1, NormalAre, Zenon
      <4> QED
        BY <2>1, <4>1
    <3> QED
      BY <3>1, <3>2
  <2> HIDE DEF N, M
  <2> QED
    BY <1>1, <1>3, <2>1, <2>2
<1>4. \A n \in 0 .. l : n \in T
  <2> HIDE DEF T
  <2> QED
    BY <1>1, <1>2, <1>3, UpTo
<1>5. M[l] = N[l]
  BY <1>1, <1>4
<1> QED
  BY <1>1, <1>5, NormalAre DEF p
-----------------------------------------------------------------------------
(* The provers take a truth value for an argument only under a name.       *)
Relative == FALSE
LEMMA RelativeIs == Relative \in BOOLEAN /\ ~Relative
BY DEF Relative

(* A way that is outside starts with "..", one that is inside has none.    *)
UpFirst(parts) == parts # <<>> /\ parts[1] = Up
NoUps(parts) == \A n \in 1 .. Len(parts) : parts[n] # Up

(* A step leads outside only from the directory itself, by "..".           *)
LEMMA EnterInside ==
  ASSUME NEW parts \in Seq(Piece), NEW part \in Piece, NoUps(parts)
  PROVE  /\ ~(parts = <<>> /\ part = Up) => NoUps(Enter(parts, part, Relative))
         /\ (parts = <<>> /\ part = Up) => Enter(parts, part, Relative) = One(Up)
<1> DEFINE w == Enter(parts, part, Relative)
<1>0. Relative \in BOOLEAN /\ ~Relative /\ Len(parts) \in Nat
  BY RelativeIs
<1>1. CASE part = Here
  BY <1>0, <1>1, EnterIs, PartsAssumption
<1>2. CASE part \notin {Up, Here}
  <2>1. w = Add(parts, part)
    BY <1>0, <1>2, EnterIs
  <2>2. IsAdd(Piece, parts, part, w)
    BY <2>1, AddIs
  <2> HIDE DEF w
  <2>3. NoUps(w)
    BY <1>2, <2>2 DEF IsAdd, NoUps
  <2> QED
    BY <1>2, <2>3 DEF w
<1>3. CASE part = Up /\ parts # <<>>
  <2>1. parts[Len(parts)] # Up
    BY <1>0, <1>3 DEF NoUps
  <2>2. w = Start(parts, Len(parts) - 1)
    BY <1>0, <1>3, <2>1, EnterIs
  <2>3. Len(parts) - 1 \in 0 .. Len(parts)
    BY <1>0, <1>3
  <2>4. IsStart(Piece, parts, Len(parts) - 1, w)
    BY <2>2, <2>3, StartIs
  <2> HIDE DEF w
  <2>5. NoUps(w)
    BY <2>3, <2>4 DEF IsStart, NoUps
  <2> QED
    BY <1>3, <2>5 DEF w
<1>4. CASE part = Up /\ parts = <<>>
  <2>1. w = Add(parts, Up)
    BY <1>0, <1>4, EnterIs
  <2>2. \A x : Add(<<>>, x) = One(x)
    BY DEF Add, One
  <2> QED
    BY <1>4, <2>1, <2>2
<1> QED
  BY <1>1, <1>2, <1>3, <1>4

(* From outside no step leads back.                                        *)
LEMMA EnterOutside ==
  ASSUME NEW parts \in Seq(Piece), NEW part \in Piece, UpFirst(parts)
  PROVE  UpFirst(Enter(parts, part, Relative))
<1> DEFINE w == Enter(parts, part, Relative)
<1>0. /\ Relative \in BOOLEAN /\ ~Relative
      /\ Len(parts) \in Nat /\ Len(parts) >= 1 /\ parts # <<>> /\ parts[1] = Up
  BY RelativeIs DEF UpFirst
<1>1. CASE part = Here
  BY <1>0, <1>1, EnterIs
<1>2. CASE part # Here /\ ~(part = Up /\ parts[Len(parts)] # Up)
  <2>1. w = Add(parts, part)
    BY <1>0, <1>2, EnterIs
  <2>2. IsAdd(Piece, parts, part, w)
    BY <2>1, AddIs
  <2> HIDE DEF w
  <2>3. UpFirst(w)
    BY <1>0, <2>2 DEF IsAdd, UpFirst
  <2> QED
    BY <2>3 DEF w
<1>3. CASE part = Up /\ parts[Len(parts)] # Up
  <2>1. w = Start(parts, Len(parts) - 1)
    BY <1>0, <1>3, EnterIs
  <2>2. Len(parts) - 1 \in 0 .. Len(parts) /\ Len(parts) - 1 >= 1
    BY <1>0, <1>3
  <2>3. IsStart(Piece, parts, Len(parts) - 1, w)
    BY <2>1, <2>2, StartIs
  <2> HIDE DEF w
  <2>4. UpFirst(w)
    BY <1>0, <2>2, <2>3 DEF IsStart, UpFirst
  <2> QED
    BY <2>4 DEF w
<1> QED
  BY <1>1, <1>2, <1>3

(* Either, at each step; and what is outside stays there.                  *)
LEMMA WayOut ==
  ASSUME NEW parts \in Seq(Piece)
  PROVE  LET N == NormalTo(parts, Relative) IN
         /\ \A n \in 0 .. Len(parts) : NoUps(N[n]) \/ UpFirst(N[n])
         /\ \A n \in 0 .. Len(parts) : ~(NoUps(N[n]) /\ UpFirst(N[n]))
         /\ \A n \in 0 .. Len(parts) - 1 : NoUps(N[n + 1]) =>
               NoUps(N[n]) /\ ~(N[n] = <<>> /\ parts[n + 1] = Up)
         /\ \A n \in 0 .. Len(parts) - 1 : NoUps(N[n]) /\ UpFirst(N[n + 1]) =>
               N[n] = <<>> /\ parts[n + 1] = Up
<1> DEFINE N == NormalTo(parts, Relative)
           T == {n \in 0 .. Len(parts) : NoUps(N[n]) \/ UpFirst(N[n])}
<1>b. Relative \in BOOLEAN
  BY RelativeIs
<1>1. Len(parts) \in Nat /\ N \in [0 .. Len(parts) -> Seq(Piece)] /\ N[0] = <<>>
  BY <1>b, NormalAre
<1>2. ASSUME NEW n \in 0 .. Len(parts) - 1
      PROVE  /\ n + 1 \in 1 .. Len(parts) /\ n \in 0 .. Len(parts) /\ n + 1 \in 0 .. Len(parts)
             /\ N[n] \in Seq(Piece) /\ parts[n + 1] \in Piece
             /\ N[n + 1] = Enter(N[n], parts[n + 1], Relative)
  <2>1. n + 1 \in 1 .. Len(parts) /\ n \in 0 .. Len(parts) /\ n + 1 \in 0 .. Len(parts) /\ n + 1 - 1 = n
    BY <1>1
  <2>2. N[n + 1] = Enter(N[n + 1 - 1], parts[n + 1], Relative)
    BY <1>b, <2>1, NormalAre
  <2> HIDE DEF N
  <2> QED
    BY <1>1, <2>1, <2>2
<1> HIDE DEF N
<1>0. \A w \in Seq(Piece) : ~(NoUps(w) /\ UpFirst(w))
  BY DEF NoUps, UpFirst
<1>3. 0 \in T
  BY <1>1 DEF NoUps
<1>o. UpFirst(One(Up))
  BY DEF UpFirst, One
<1>4. ASSUME NEW n \in 0 .. Len(parts) - 1, n \in T PROVE n + 1 \in T
  BY <1>2, <1>4, <1>o, EnterInside, EnterOutside
<1>5. \A n \in 0 .. Len(parts) : n \in T
  <2> HIDE DEF T
  <2> QED
    BY <1>1, <1>3, <1>4, UpTo
<1>6. ASSUME NEW n \in 0 .. Len(parts) - 1, NoUps(N[n + 1])
      PROVE  NoUps(N[n]) /\ ~(N[n] = <<>> /\ parts[n + 1] = Up)
  <2>1. N[n + 1] \in Seq(Piece) /\ ~UpFirst(N[n + 1])
    BY <1>0, <1>1, <1>2, <1>6
  <2>2. ~UpFirst(N[n])
    BY <1>2, <2>1, EnterOutside
  <2>3. NoUps(N[n])
    BY <1>2, <1>5, <2>2
  <2> QED
    BY <1>2, <1>o, <2>1, <2>3, EnterInside
<1>7. ASSUME NEW n \in 0 .. Len(parts) - 1, NoUps(N[n]), UpFirst(N[n + 1])
      PROVE  N[n] = <<>> /\ parts[n + 1] = Up
  <2>1. N[n + 1] \in Seq(Piece) /\ ~NoUps(N[n + 1])
    BY <1>0, <1>1, <1>2, <1>7
  <2> QED
    BY <1>2, <1>7, <2>1, EnterInside
<1>8. \A n \in 0 .. Len(parts) : ~(NoUps(N[n]) /\ UpFirst(N[n]))
  BY <1>0, <1>1
<1> QED
  BY <1>5, <1>6, <1>7, <1>8 DEF N

-----------------------------------------------------------------------------
(* A directory and a way from it.  Leading: it is what path.normalize      *)
(* leaves, ".." only in front, and not behind the root.                    *)
Leading(parts, absolute) ==
    \A n \in 1 .. Len(parts) :
        /\ parts[n] # Here
        /\ parts[n] = Up => ~absolute /\ \A m \in 1 .. n : parts[m] = Up
AllUps(parts) == \A n \in 1 .. Len(parts) : parts[n] = Up

(* A normal way is left as it is.                                          *)
LEMMA NormalOfLeading ==
  ASSUME NEW base \in Seq(Piece), NEW absolute \in BOOLEAN, Leading(base, absolute)
  PROVE  Normal(base, absolute) = base
<1> DEFINE N == NormalTo(base, absolute)
           T == {n \in 0 .. Len(base) : N[n] = Start(base, n)}
<1>1. /\ Len(base) \in Nat /\ N \in [0 .. Len(base) -> Seq(Piece)] /\ N[0] = <<>>
      /\ \A n \in 1 .. Len(base) : N[n] = Enter(N[n - 1], base[n], absolute)
      /\ Normal(base, absolute) = N[Len(base)]
  BY NormalAre
<1> HIDE DEF N
<1>2. 0 \in T
  BY <1>1, StartWhole
<1>3. ASSUME NEW n \in 0 .. Len(base) - 1, n \in T PROVE n + 1 \in T
  <2> DEFINE u == Start(base, n)
  <2>1. n + 1 \in 1 .. Len(base) /\ n \in 0 .. Len(base) /\ n + 1 - 1 = n /\ base[n + 1] \in Piece
    BY <1>1
  <2>2. IsStart(Piece, base, n, u)
    BY <2>1, StartIs
  <2>3. Start(base, n + 1) = Add(u, base[n + 1])
    BY StartNext
  <2> HIDE DEF u
  <2>4. N[n] = u /\ N[n + 1] = Enter(u, base[n + 1], absolute) /\ u \in Seq(Piece) /\ Len(u) = n
    BY <1>1, <1>3, <2>1, <2>2 DEF u, IsStart
  <2>5. base[n + 1] # Here
    BY <2>1 DEF Leading
  <2>6. CASE base[n + 1] = Up
    <3>1. ~absolute /\ \A m \in 1 .. n + 1 : base[m] = Up
      BY <2>1, <2>6 DEF Leading
    <3>2. ~(u # <<>> /\ u[Len(u)] # Up)
      BY <2>1, <2>2, <2>4, <3>1 DEF IsStart
    <3>3. Enter(u, base[n + 1], absolute) = Add(u, Up)
      BY <2>1, <2>4, <2>6, <3>1, <3>2, EnterIs
    <3> QED
      BY <2>1, <2>3, <2>4, <2>6, <3>3 DEF u
  <2>7. CASE base[n + 1] # Up
    <3>1. Enter(u, base[n + 1], absolute) = Add(u, base[n + 1])
      BY <2>1, <2>4, <2>5, <2>7, EnterIs
    <3> QED
      BY <2>1, <2>3, <2>4, <3>1 DEF u
  <2> QED
    BY <2>6, <2>7
<1>4. \A n \in 0 .. Len(base) : n \in T
  <2> HIDE DEF T
  <2> QED
    BY <1>1, <1>2, <1>3, UpTo
<1>5. N[Len(base)] = Start(base, Len(base))
  BY <1>1, <1>4
<1> QED
  BY <1>1, <1>5, StartWhole

(* Behind a normal way one is where it leads.                              *)
LEMMA NormalOfBase ==
  ASSUME NEW base \in Seq(Piece), NEW way \in Seq(Piece), NEW absolute \in BOOLEAN,
         Leading(base, absolute)
  PROVE  NormalTo(Cat(base, way), absolute)[Len(base)] = base
<1> DEFINE w == Cat(base, way)
<1>1. w \in Seq(Piece) /\ Begins(base, w)
  BY CatIs, CatBegins DEF IsCat
<1> HIDE DEF w
<1>2. Len(base) \in 0 .. Len(w) /\ base = Start(w, Len(base))
  BY <1>1, BeginsIsStart
<1>3. Normal(Start(w, Len(base)), absolute) = NormalTo(w, absolute)[Len(base)]
  BY <1>1, <1>2, NormalOfStart
<1>4. Normal(base, absolute) = base
  BY NormalOfLeading
<1> QED
  BY <1>2, <1>3, <1>4 DEF w

(* The last of two sequences is the last of the second.                    *)
LEMMA LastOfCat ==
  ASSUME NEW T, NEW p \in Seq(T), NEW q \in Seq(T), q # <<>>
  PROVE  /\ Cat(p, q) \in Seq(T) /\ Cat(p, q) # <<>> /\ Cat(p, q)[Len(Cat(p, q))] = q[Len(q)]
         /\ Start(Cat(p, q), Len(Cat(p, q)) - 1) = Cat(p, Start(q, Len(q) - 1))
<1> DEFINE w == Cat(p, q)
<1>1. IsCat(T, p, q, w) /\ Len(q) \in Nat /\ Len(q) >= 1 /\ Len(q) \in 1 .. Len(q)
  BY CatIs
<1>2. Start(w, Len(p) + (Len(q) - 1)) = Cat(p, Start(q, Len(q) - 1))
  <2>1. Len(q) - 1 \in 0 .. Len(q)
    BY <1>1
  <2> QED
    BY <2>1, StartOfCat
<1> HIDE DEF w
<1>3. /\ w \in Seq(T) /\ Len(w) = Len(p) + Len(q) /\ w[Len(p) + Len(q)] = q[Len(q)]
      /\ Len(p) \in Nat /\ w # <<>> /\ Len(w) - 1 = Len(p) + (Len(q) - 1)
  BY <1>1 DEF IsCat
<1> QED
  BY <1>2, <1>3 DEF w

(* A step behind a directory is the step without it, but for ".." at the   *)
(* directory.                                                              *)
LEMMA EnterBehind ==
  ASSUME NEW base \in Seq(Piece), NEW parts \in Seq(Piece), NEW part \in Piece,
         NEW absolute \in BOOLEAN,
         \/ NoUps(parts) /\ ~(parts = <<>> /\ part = Up)
         \/ AllUps(base) /\ absolute = Relative
  PROVE  Enter(Cat(base, parts), part, absolute) = Cat(base, Enter(parts, part, Relative))
<1>0. Relative \in BOOLEAN /\ ~Relative /\ Len(parts) \in Nat /\ Len(base) \in Nat /\ Up \in Piece
  BY RelativeIs, PartsAssumption
<1>1. Cat(base, parts) \in Seq(Piece)
  BY CatIs DEF IsCat
<1> DEFINE w == Cat(base, parts)
<1> HIDE DEF w
<1>2. CASE part = Here
  BY <1>0, <1>1, <1>2, EnterIs
<1>3. CASE part \notin {Up, Here}
  <2>1. Enter(w, part, absolute) = Add(w, part)
    BY <1>1, <1>3, EnterIs DEF w
  <2>2. Enter(parts, part, Relative) = Add(parts, part)
    BY <1>0, <1>3, EnterIs
  <2>3. Add(Cat(base, parts), part) = Cat(base, Add(parts, part))
    BY AddBehind
  <2> QED
    BY <2>1, <2>2, <2>3 DEF w
<1>4. CASE part = Up /\ parts # <<>>
  <2>1. w # <<>> /\ w[Len(w)] = parts[Len(parts)] /\ w \in Seq(Piece)
        /\ Start(w, Len(w) - 1) = Cat(base, Start(parts, Len(parts) - 1))
    BY <1>4, LastOfCat DEF w
  <2>2. CASE parts[Len(parts)] # Up
    <3>1. Enter(w, part, absolute) = Start(w, Len(w) - 1)
      BY <1>4, <2>1, <2>2, EnterIs
    <3>2. Enter(parts, part, Relative) = Start(parts, Len(parts) - 1)
      BY <1>0, <1>4, <2>2, EnterIs
    <3> QED
      BY <2>1, <3>1, <3>2 DEF w
  <2>3. CASE parts[Len(parts)] = Up
    <3>1. absolute = Relative
      BY <1>0, <1>4, <2>3 DEF NoUps
    <3>2. Enter(w, part, Relative) = Add(w, Up)
      BY <1>0, <1>4, <2>1, <2>3, EnterIs
    <3>3. Enter(parts, part, Relative) = Add(parts, Up)
      BY <1>0, <1>4, <2>3, EnterIs
    <3>4. Add(Cat(base, parts), Up) = Cat(base, Add(parts, Up))
      BY <1>0, AddBehind
    <3> QED
      BY <3>1, <3>2, <3>3, <3>4 DEF w
  <2> QED
    BY <2>2, <2>3
<1>5. CASE part = Up /\ parts = <<>>
  <2>1. AllUps(base) /\ absolute = Relative
    BY <1>5
  <2>2. w = base
    BY <1>5, CatEmpty DEF w
  <2>3. ~(base # <<>> /\ base[Len(base)] # Up)
    BY <1>0, <2>1 DEF AllUps
  <2>4. Enter(w, part, Relative) = Add(w, Up)
    BY <1>0, <1>5, <2>2, <2>3, EnterIs
  <2>5. Enter(parts, part, Relative) = Add(parts, Up)
    BY <1>0, <1>5, EnterIs
  <2>6. Add(Cat(base, parts), Up) = Cat(base, Add(parts, Up))
    BY <1>0, AddBehind
  <2> QED
    BY <2>1, <2>4, <2>5, <2>6 DEF w
<1> QED
  BY <1>2, <1>3, <1>4, <1>5

(* Behind a directory the way is what it is without, as long as it stays   *)
(* inside, or if the directory is nothing but "..".                        *)
LEMMA NormalBehind ==
  ASSUME NEW base \in Seq(Piece), NEW way \in Seq(Piece), NEW absolute \in BOOLEAN,
         Leading(base, absolute)
  PROVE  LET N == NormalTo(way, Relative)
             M == NormalTo(Cat(base, way), absolute)
         IN  \A n \in 0 .. Len(way) :
                NoUps(N[n]) \/ (AllUps(base) /\ absolute = Relative) => M[Len(base) + n] = Cat(base, N[n])
<1> DEFINE w == Cat(base, way)
           N == NormalTo(way, Relative)
           M == NormalTo(w, absolute)
           Fits(n) == NoUps(N[n]) \/ (AllUps(base) /\ absolute = Relative)
           T == {n \in 0 .. Len(way) : Fits(n) => M[Len(base) + n] = Cat(base, N[n])}
<1>0. IsCat(Piece, base, way, w) /\ Relative \in BOOLEAN
  BY CatIs, RelativeIs
<1>1. M[Len(base)] = base
  BY NormalOfBase
<1> HIDE DEF w
<1>2. /\ w \in Seq(Piece) /\ Len(w) = Len(base) + Len(way) /\ Len(base) \in Nat /\ Len(way) \in Nat
      /\ \A n \in 1 .. Len(way) : w[Len(base) + n] = way[n]
  BY <1>0 DEF IsCat
<1>3. /\ N \in [0 .. Len(way) -> Seq(Piece)] /\ N[0] = <<>>
      /\ \A n \in 1 .. Len(way) : N[n] = Enter(N[n - 1], way[n], Relative)
  BY <1>0, NormalAre
<1>4. \A n \in 1 .. Len(w) : M[n] = Enter(M[n - 1], w[n], absolute)
  BY <1>2, NormalAre, Zenon
<1>w. \A n \in 0 .. Len(way) - 1 : NoUps(N[n + 1]) => NoUps(N[n]) /\ ~(N[n] = <<>> /\ way[n + 1] = Up)
  BY WayOut
<1> HIDE DEF M, N
<1>5. 0 \in T
  <2>1. Cat(base, <<>>) = base
    BY CatEmpty
  <2> QED
    BY <1>1, <1>2, <1>3, <2>1
<1>6. ASSUME NEW n \in 0 .. Len(way) - 1, n \in T PROVE n + 1 \in T
  <2> SUFFICES ASSUME Fits(n + 1) PROVE M[Len(base) + (n + 1)] = Cat(base, N[n + 1])
    BY <1>2
  <2>1. /\ n + 1 \in 1 .. Len(way) /\ n \in 0 .. Len(way) /\ n + 1 - 1 = n
        /\ Len(base) + (n + 1) \in 1 .. Len(w) /\ Len(base) + (n + 1) - 1 = Len(base) + n
        /\ way[n + 1] \in Piece /\ N[n] \in Seq(Piece)
    <3>1. /\ n + 1 \in 1 .. Len(way) /\ n \in 0 .. Len(way) /\ n + 1 - 1 = n
          /\ Len(base) + (n + 1) \in 1 .. Len(w) /\ Len(base) + (n + 1) - 1 = Len(base) + n
      BY <1>2
    <3>2. way[n + 1] \in Piece
      BY <3>1
    <3>3. N[n] \in Seq(Piece)
      BY <1>3, <3>1
    <3> QED
      BY <3>1, <3>2, <3>3
  <2>2. NoUps(N[n + 1]) => NoUps(N[n]) /\ ~(N[n] = <<>> /\ way[n + 1] = Up)
    BY <1>w
  <2>3. /\ Fits(n)
        /\ \/ NoUps(N[n]) /\ ~(N[n] = <<>> /\ way[n + 1] = Up)
           \/ AllUps(base) /\ absolute = Relative
    BY <2>2
  <2>4. M[Len(base) + n] = Cat(base, N[n])
    BY <1>6, <2>3
  <2>5. M[Len(base) + (n + 1)] = Enter(Cat(base, N[n]), way[n + 1], absolute)
    <3>1. M[Len(base) + (n + 1)] = Enter(M[Len(base) + n], w[Len(base) + (n + 1)], absolute)
      BY <1>4, <2>1
    <3> QED
      BY <1>2, <2>1, <2>4, <3>1
  <2>6. Enter(Cat(base, N[n]), way[n + 1], absolute) = Cat(base, Enter(N[n], way[n + 1], Relative))
    BY <2>1, <2>3, EnterBehind
  <2>7. N[n + 1] = Enter(N[n], way[n + 1], Relative)
    BY <1>3, <2>1
  <2> QED
    BY <2>5, <2>6, <2>7
<1>7. \A n \in 0 .. Len(way) : n \in T
  <2> HIDE DEF T
  <2> QED
    BY <1>2, <1>5, <1>6, UpTo
<1> QED
  BY <1>7 DEF M, N, w

-----------------------------------------------------------------------------
(* path.dirname takes the last part off.                                   *)
LEMMA DirectoryIs ==
  ASSUME NEW name \in Seq(Char)
  PROVE  /\ Directory(name) \in Seq(Piece)
         /\ Parts(name) # <<>> => Directory(name) = Start(Parts(name), Len(Parts(name)) - 1)
<1>1. Parts(name) \in Seq(Piece)
  BY PartsAre
<1>2. CASE Parts(name) = <<>>
  BY <1>2 DEF Directory
<1>3. CASE Parts(name) # <<>>
  <2>1. Directory(name) = Start(Parts(name), Len(Parts(name)) - 1)
    BY <1>3 DEF Directory, Start
  <2> QED
    BY <1>1, <1>3, <2>1, SplitLast
<1> QED
  BY <1>2, <1>3

(* What is known of the path of an include.                                *)
LEMMA IncludableIs ==
  ASSUME NEW path \in Includable
  PROVE  /\ path \in Seq(Char) /\ Parts(path) \in Seq(Piece) /\ Parts(path) # <<>>
         /\ Len(Parts(path)) \in Nat /\ Len(Parts(path)) >= 1
         /\ Parts(path)[Len(Parts(path))] \notin {Up, Here}
<1>1. path \in Seq(Char) /\ Parts(path) # <<>> /\ Parts(path)[Len(Parts(path))] \notin {Up, Here}
  BY DEF Includable, Last
<1>2. Parts(path) \in Seq(Piece)
  BY <1>1, PartsAre
<1> QED
  BY <1>1, <1>2

(* A way that ends in the name of a file leads somewhere.                  *)
LEMMA NormalNotEmpty ==
  ASSUME NEW way \in Seq(Piece), way # <<>>, way[Len(way)] \notin {Up, Here},
         NEW absolute \in BOOLEAN
  PROVE  Normal(way, absolute) \in Seq(Piece) /\ Normal(way, absolute) # <<>>
<1> DEFINE l == Len(way)
           N == NormalTo(way, absolute)
<1>1. l \in 1 .. l /\ l - 1 \in 0 .. l /\ way[l] \in Piece
  OBVIOUS
<1>2. N[l] = Enter(N[l - 1], way[l], absolute) /\ N \in [0 .. l -> Seq(Piece)]
      /\ Normal(way, absolute) = N[l]
  BY <1>1, NormalAre
<1>3. N[l - 1] \in Seq(Piece)
  BY <1>1, <1>2
<1> HIDE DEF N, l
<1>4. way[l] \notin {Up, Here}
  BY DEF l
<1>5. N[l] = Add(N[l - 1], way[l])
  BY <1>1, <1>2, <1>3, <1>4, EnterIs
<1>6. IsAdd(Piece, N[l - 1], way[l], N[l])
  BY <1>1, <1>3, <1>5, AddIs
<1> QED
  BY <1>2, <1>6 DEF IsAdd

Way(name, path) == Cat(Directory(name), Parts(path))
EndOf(path) == IF Ends(path) THEN One(Slash) ELSE <<>>
Spelt(parts, path) == Cat(Slashed(parts), EndOf(path))

(* The way of an include has parts, and leads somewhere.                   *)
LEMMA WayIs ==
  ASSUME NEW name \in Seq(Char), NEW path \in Includable, NEW absolute \in BOOLEAN
  PROVE  /\ Way(name, path) \in Seq(Piece)
         /\ Len(Way(name, path)) = Len(Directory(name)) + Len(Parts(path))
         /\ Normal(Way(name, path), absolute) \in Seq(Piece)
         /\ Normal(Way(name, path), absolute) # <<>>
<1>1. Directory(name) \in Seq(Piece) /\ Parts(path) \in Seq(Piece) /\ Parts(path) # <<>>
      /\ Parts(path)[Len(Parts(path))] \notin {Up, Here}
  BY DirectoryIs, IncludableIs
<1> DEFINE w == Way(name, path)
<1>2. w \in Seq(Piece) /\ w # <<>> /\ w[Len(w)] = Parts(path)[Len(Parts(path))]
  BY <1>1, LastOfCat DEF Way
<1>3. IsCat(Piece, Directory(name), Parts(path), w)
  BY <1>1, CatIs DEF Way
<1> HIDE DEF w
<1>4. Normal(w, absolute) \in Seq(Piece) /\ Normal(w, absolute) # <<>>
  BY <1>1, <1>2, NormalNotEmpty
<1> QED
  BY <1>2, <1>3, <1>4 DEF w, IsCat

(* How far one is after n parts of an included path.                       *)
LEMMA WayTo ==
  ASSUME NEW name \in Seq(Char), NEW path \in Includable, NEW n \in 0 .. Len(Parts(path))
  PROVE  Normal(Directory(name) \o SubSeq(Parts(path), 1, n), Relative)
            = NormalTo(Way(name, path), Relative)[Len(Directory(name)) + n]
<1> DEFINE d == Directory(name)
           q == Parts(path)
           w == Way(name, path)
<1>1. d \in Seq(Piece) /\ q \in Seq(Piece) /\ w \in Seq(Piece) /\ Len(w) = Len(d) + Len(q)
      /\ Relative \in BOOLEAN
  BY DirectoryIs, IncludableIs, RelativeIs, WayIs
<1>2. d \o SubSeq(q, 1, n) = Cat(d, Start(q, n))
  BY DEF Cat, Start
<1>3. Start(w, Len(d) + n) = Cat(d, Start(q, n))
  BY <1>1, StartOfCat DEF Way
<1>4. Len(d) + n \in 0 .. Len(w)
  <2>1. Len(d) \in Nat /\ Len(q) \in Nat
    BY <1>1
  <2> QED
    BY <1>1, <2>1
<1> HIDE DEF w
<1>5. Normal(Start(w, Len(d) + n), Relative) = NormalTo(w, Relative)[Len(d) + n]
  BY <1>1, <1>4, NormalOfStart
<1> QED
  BY <1>2, <1>3, <1>5 DEF w

(* What is written of parts has parts, the same first one.                 *)
LEMMA SpeltIs ==
  ASSUME NEW parts \in Seq(Piece), parts # <<>>, NEW path
  PROVE  /\ Slashed(parts) \in Seq(Char) /\ EndOf(path) \in Seq(Char)
         /\ Spelt(parts, path) \in Seq(Char) /\ Spelt(parts, path) # <<>>
         /\ Parts(Spelt(parts, path)) # <<>> /\ Parts(Spelt(parts, path))[1] = parts[1]
<1>1. One(Slash) \in Seq(Char) /\ <<>> \in Seq(Char) /\ One(Slash)[1] = Slash
  BY CharAssumption, OneIs
<1>2. EndOf(path) \in Seq(Char) /\ (EndOf(path) = <<>> \/ EndOf(path)[1] = Slash)
  BY <1>1 DEF EndOf
<1>3. PICK rest \in Seq(Char) :
          (rest = <<>> \/ rest[1] = Slash) /\ Slashed(parts) = Cat(parts[1], rest)
  BY SlashedHead
<1>4. parts[1] \in Piece
  OBVIOUS
<1>5. parts[1] \in Seq(Char) /\ parts[1] # <<>>
  BY <1>4 DEF Piece
<1> DEFINE t == EndOf(path)
           e == Cat(rest, t)
<1>6. Spelt(parts, path) = Cat(parts[1], e)
  <2>1. Cat(Cat(parts[1], rest), t) = Cat(parts[1], Cat(rest, t))
    BY <1>2, <1>5, CatAssociative
  <2> QED
    BY <1>3, <2>1 DEF Spelt
<1>7. IsCat(Char, rest, t, e)
  BY <1>2, CatIs
<1> HIDE DEF e
<1>8. e \in Seq(Char) /\ (e = <<>> \/ e[1] = Slash)
  <2>1. e \in Seq(Char)
    BY <1>7 DEF IsCat
  <2>2. CASE rest = <<>>
    <3>1. e = t
      BY <1>2, <2>2, CatEmpty DEF e
    <3> QED
      BY <1>2, <2>1, <3>1
  <2>3. CASE rest # <<>>
    <3>1. 1 \in 1 .. Len(rest)
      BY <2>3
    <3> QED
      BY <1>3, <1>7, <2>1, <2>3, <3>1 DEF IsCat
  <2> QED
    BY <2>2, <2>3
<1>9. Spelt(parts, path) \in Seq(Char) /\ Spelt(parts, path) # <<>>
  <2>1. IsCat(Char, parts[1], e, Cat(parts[1], e))
    BY <1>5, <1>8, CatIs
  <2>2. Cat(parts[1], e) # <<>>
    BY <1>5, <1>8, CatIsEmpty
  <2> QED
    BY <1>6, <2>1, <2>2 DEF IsCat
<1>10. Parts(Cat(parts[1], e)) # <<>> /\ Parts(Cat(parts[1], e))[1] = parts[1]
  BY <1>4, <1>8, FirstPart
<1>11. Slashed(parts) \in Seq(Char)
  BY SlashedAre
<1> QED
  BY <1>2, <1>6, <1>9, <1>10, <1>11

(* path.join, of a path that ends in the name of a file.                   *)
LEMMA JoinIs ==
  ASSUME NEW name \in Seq(Char), NEW path \in Includable
  PROVE  Join(name, path) = Cat(Root(Absolute(name)),
                                Spelt(Normal(Way(name, path), Absolute(name)), path))
<1> DEFINE N == Normal(Way(name, path), Absolute(name))
<1>1. PICK absolute \in BOOLEAN : absolute = Absolute(name)
  BY DEF Absolute
<1>2. N \in Seq(Piece) /\ N # <<>>
  BY <1>1, WayIs
<1>3. Directory(name) \o Parts(path) = Way(name, path)
  BY DEF Way, Cat
<1>4. Join(name, path) = Named(N, Absolute(name), Ends(path))
  BY <1>3 DEF Join
<1> HIDE DEF N
<1>5. Named(N, Absolute(name), Ends(path)) =
         (Root(Absolute(name)) \o Slashed(N)) \o EndOf(path)
  BY <1>2 DEF Named, Root, EndOf, One
<1>6. Root(Absolute(name)) \in Seq(Char) /\ Slashed(N) \in Seq(Char) /\ EndOf(path) \in Seq(Char)
  <2>1. One(Slash) \in Seq(Char) /\ <<>> \in Seq(Char)
    BY CharAssumption, OneIs
  <2> QED
    BY <1>2, <2>1, SpeltIs DEF Root
<1>7. Cat(Cat(Root(Absolute(name)), Slashed(N)), EndOf(path))
        = Cat(Root(Absolute(name)), Cat(Slashed(N), EndOf(path)))
  BY <1>6, CatAssociative
<1>8. (Root(Absolute(name)) \o Slashed(N)) \o EndOf(path)
        = Cat(Cat(Root(Absolute(name)), Slashed(N)), EndOf(path))
  BY DEF Cat
<1> QED
  BY <1>4, <1>5, <1>7, <1>8 DEF N, Spelt

(* path.join gives a name that is not empty.                               *)
LEMMA JoinType ==
  ASSUME NEW name \in Seq(Char), NEW path \in Includable
  PROVE  Join(name, path) \in Seq(Char) /\ Join(name, path) # <<>>
<1> DEFINE N == Normal(Way(name, path), Absolute(name))
           r == Root(Absolute(name))
<1>1. PICK absolute \in BOOLEAN : absolute = Absolute(name)
  BY DEF Absolute
<1>2. N \in Seq(Piece) /\ N # <<>>
  BY <1>1, WayIs
<1>3. Spelt(N, path) \in Seq(Char) /\ Spelt(N, path) # <<>>
  BY <1>2, SpeltIs
<1>4. r \in Seq(Char)
  <2>1. One(Slash) \in Seq(Char) /\ <<>> \in Seq(Char)
    BY CharAssumption, OneIs
  <2> QED
    BY <2>1 DEF Root
<1> HIDE DEF N, r
<1>5. IsCat(Char, r, Spelt(N, path), Cat(r, Spelt(N, path)))
  BY <1>3, <1>4, CatIs
<1>6. Cat(r, Spelt(N, path)) # <<>>
  BY <1>3, <1>4, CatIsEmpty
<1> QED
  BY <1>5, <1>6, JoinIs DEF N, r, IsCat

-----------------------------------------------------------------------------
(* A normal name has no doubled slash and normal parts.                    *)
LEMMA IsNormalIs ==
  ASSUME NEW name \in Seq(Char), IsNormal(name)
  PROVE  Tidy(name) /\ Leading(Parts(name), Absolute(name))
<1>1. Parts(name) \in Seq(Piece) /\ DOMAIN Parts(name) = 1 .. Len(Parts(name))
  BY PartsAre
<1> DEFINE P == Parts(name)
<1>2. Tidy(name)
  BY DEF IsNormal, Tidy
<1>3. \A n \in DOMAIN P : P[n] # Here /\ (P[n] = Up => ~Absolute(name) /\ \A m \in 1 .. n : P[m] = Up)
  BY DEF IsNormal
<1> HIDE DEF P
<1>4. Leading(P, Absolute(name))
  BY <1>1, <1>3 DEF Leading, P
<1> QED
  BY <1>2, <1>4 DEF P

(* A path without doubled slashes that is not a root has parts.            *)
LEMMA HasParts ==
  ASSUME NEW s \in Seq(Char), s # <<>>, Tidy(s), s[1] # Slash
  PROVE  Parts(s) # <<>>
<1> DEFINE l == Len(s)
           P == PartsTo(s)
<1>1. l \in Nat /\ l >= 1 /\ Parts(s) = P[l] /\ l \in 1 .. l
  BY PartsAre
<1>2. CASE s[l] # Slash
  BY <1>1, <1>2, SomePart
<1>3. CASE s[l] = Slash
  <2>1. l - 1 \in 1 .. l /\ l - 1 \in 1 .. l - 1 /\ l - 1 + 1 = l
    BY <1>1, <1>3
  <2>2. s[l - 1] # Slash
    BY <1>3, <2>1 DEF Tidy
  <2>3. P[l - 1] # <<>>
    BY <2>1, <2>2, SomePart
  <2>4. P[l] = WithChar(P[l - 1], s, l)
    BY <1>1, PartsAre
  <2> HIDE DEF P, l
  <2>5. P[l] = P[l - 1]
    BY <1>3, <2>4, WithCharIs
  <2> QED
    BY <1>1, <2>3, <2>5
<1> QED
  BY <1>2, <1>3

(* A normal name below a directory: both are made of their parts, and so   *)
(* is the name.                                                            *)
LEMMA BelowIs ==
  ASSUME NEW C \in Seq(Char), C # <<>>, C[Len(C)] = Slash, NEW u \in Seq(Char), u # <<>>,
         IsNormal(Cat(C, u))
  PROVE  /\ Cat(C, u) \in Seq(Char) /\ ~Absolute(u) /\ (Absolute(Cat(C, u)) <=> Absolute(C))
         /\ C = Cat(Root(Absolute(C)),
                    Cat(Slashed(Parts(C)), IF Parts(C) # <<>> THEN One(Slash) ELSE <<>>))
         /\ Parts(C) \in Seq(Piece) /\ Parts(u) \in Seq(Piece) /\ Parts(u) # <<>>
         /\ Parts(Cat(C, u)) = Cat(Parts(C), Parts(u))
         /\ Directory(Cat(C, u)) = Cat(Parts(C), Directory(u))
         /\ Leading(Parts(C), Absolute(C)) /\ Leading(Parts(C), Relative)
         /\ Directory(u) \in Seq(Piece)
         /\ Absolute(C) \/ ~AllUps(Parts(C)) => NoUps(Directory(u))
<1> DEFINE m == Cat(C, u)
           PC == Parts(C)
           PU == Parts(u)
           PM == Parts(m)
<1>1. IsCat(Char, C, u, m)
  BY CatIs
<1>2. PM = Cat(PC, PU)
  BY PartsOfBoth
<1> HIDE DEF m
<1>3. /\ m \in Seq(Char) /\ Len(m) = Len(C) + Len(u) /\ Len(C) \in Nat /\ Len(u) \in Nat
      /\ Len(C) >= 1 /\ Len(u) >= 1
      /\ \A n \in 1 .. Len(C) : m[n] = C[n]
      /\ \A n \in 1 .. Len(u) : m[Len(C) + n] = u[n]
  BY <1>1 DEF IsCat
<1>4. Tidy(m) /\ Leading(PM, Absolute(m))
  BY <1>3, IsNormalIs DEF m
<1>5. Tidy(C)
  <2> SUFFICES ASSUME NEW n \in 1 .. Len(C) - 1, C[n] = Slash PROVE C[n + 1] # Slash
    BY DEF Tidy
  <2>1. n \in 1 .. Len(m) - 1 /\ m[n] = C[n] /\ m[n + 1] = C[n + 1]
    BY <1>3
  <2> QED
    BY <1>4, <2>1 DEF Tidy
<1>6. u[1] # Slash /\ Tidy(u)
  <2>1. u[1] # Slash
    <3>1. Len(C) \in 1 .. Len(m) - 1 /\ m[Len(C)] = Slash /\ m[Len(C) + 1] = u[1]
      BY <1>3
    <3> QED
      BY <1>4, <3>1 DEF Tidy
  <2>2. ASSUME NEW n \in 1 .. Len(u) - 1, u[n] = Slash PROVE u[n + 1] # Slash
    <3>1. Len(C) + n \in 1 .. Len(m) - 1 /\ m[Len(C) + n] = u[n] /\ m[Len(C) + (n + 1)] = u[n + 1]
          /\ Len(C) + (n + 1) = (Len(C) + n) + 1
      BY <1>3
    <3> QED
      BY <1>4, <2>2, <3>1 DEF Tidy
  <2> QED
    BY <2>1, <2>2 DEF Tidy
<1>7. ~Absolute(u) /\ (Absolute(m) <=> Absolute(C))
  BY <1>3, <1>6 DEF Absolute
<1>8. PU # <<>> /\ PC \in Seq(Piece) /\ PU \in Seq(Piece)
  BY <1>6, HasParts, PartsAre
<1>9. IsCat(Piece, PC, PU, PM)
  BY <1>2, <1>8, CatIs
<1>10. C = Cat(Root(Absolute(C)), Cat(Slashed(PC), IF PC # <<>> THEN One(Slash) ELSE <<>>))
  BY <1>5, Spelled
<1>11. Directory(m) = Cat(PC, Directory(u)) /\ Directory(u) \in Seq(Piece)
       /\ Directory(u) = Start(PU, Len(PU) - 1)
  <2>1. PM # <<>> /\ Start(PM, Len(PM) - 1) = Cat(PC, Start(PU, Len(PU) - 1))
    BY <1>2, <1>8, LastOfCat
  <2>2. Directory(m) = Start(PM, Len(PM) - 1)
    BY <1>3, <2>1, DirectoryIs
  <2>3. Directory(u) = Start(PU, Len(PU) - 1) /\ Directory(u) \in Seq(Piece)
    BY <1>8, DirectoryIs
  <2> QED
    BY <2>1, <2>2, <2>3
<1>12. /\ \A n \in 1 .. Len(PC) : PM[n] = PC[n]
       /\ \A n \in 1 .. Len(PU) : PM[Len(PC) + n] = PU[n]
       /\ Len(PM) = Len(PC) + Len(PU) /\ Len(PC) \in Nat /\ Len(PU) \in Nat /\ Len(PU) >= 1
  BY <1>8, <1>9 DEF IsCat
<1> HIDE DEF PM, PC, PU
<1>13. Leading(PC, Absolute(C))
  <2> SUFFICES ASSUME NEW n \in 1 .. Len(PC)
               PROVE  /\ PC[n] # Here
                      /\ PC[n] = Up => ~Absolute(C) /\ \A k \in 1 .. n : PC[k] = Up
    BY DEF Leading
  <2>1. n \in 1 .. Len(PM) /\ PM[n] = PC[n] /\ \A k \in 1 .. n : PM[k] = PC[k]
    BY <1>12
  <2> QED
    BY <1>4, <1>7, <2>1 DEF Leading
<1>14. Leading(PC, Relative)
  BY <1>13, RelativeIs DEF Leading
<1>15. ASSUME Absolute(C) \/ ~AllUps(PC) PROVE NoUps(Directory(u))
  <2>1. NoUps(PU)
    <3> SUFFICES ASSUME NEW n \in 1 .. Len(PU), PU[n] = Up PROVE FALSE
      BY DEF NoUps
    <3>1. Len(PC) + n \in 1 .. Len(PM) /\ PM[Len(PC) + n] = Up
      BY <1>12
    <3>2. ~Absolute(m) /\ \A k \in 1 .. Len(PC) + n : PM[k] = Up
      BY <1>4, <3>1 DEF Leading
    <3>3. AllUps(PC)
      BY <1>12, <3>2 DEF AllUps
    <3> QED
      BY <1>7, <1>15, <3>2, <3>3
  <2>2. IsStart(Piece, PU, Len(PU) - 1, Directory(u))
    <3>1. Len(PU) - 1 \in 0 .. Len(PU)
      BY <1>12
    <3> QED
      BY <1>8, <1>11, <3>1, StartIs
  <2> QED
    BY <1>12, <2>1, <2>2 DEF NoUps, IsStart
<1> QED
  BY <1>2, <1>3, <1>7, <1>8, <1>10, <1>11, <1>13, <1>14, <1>15 DEF m, PC, PU, PM

-----------------------------------------------------------------------------
(* What it is that an include climbs, where the directory is.              *)
OutsideAt(name, path, base, n) ==
    LET way == NormalTo(Way(name, path), Relative)[Len(Directory(name)) + n]
    IN  ~IsBelow(way, base) \/ (Absolute(name) /\ IsBelow(way, One(Up)))
ClimbsOut(name, path, base) == \E n \in 1 .. Len(Parts(path)) : OutsideAt(name, path, base, n)

(* Climbs of the model is this, where the directory is the common one.     *)
LEMMA ClimbsIs ==
  ASSUME NEW name \in Seq(Char), NEW path \in Includable
  PROVE  Climbs(name, path) <=> ClimbsOut(name, path, Parts(Common))
<1>1. Len(Parts(path)) \in Nat
  BY IncludableIs
<1> DEFINE way(n) == Normal(Directory(name) \o SubSeq(Parts(path), 1, n), FALSE)
           there(n) == NormalTo(Way(name, path), Relative)[Len(Directory(name)) + n]
<1>2. ASSUME NEW n \in 1 .. Len(Parts(path)) PROVE way(n) = there(n)
  <2>1. n \in 0 .. Len(Parts(path))
    BY <1>1
  <2>2. Normal(Directory(name) \o SubSeq(Parts(path), 1, n), Relative) = there(n)
    BY <2>1, WayTo
  <2> QED
    BY <2>2 DEF Relative
<1>3. Climbs(name, path) <=>
        \E n \in 1 .. Len(Parts(path)) :
            ~IsBelow(way(n), Parts(Common)) \/ (Absolute(name) /\ IsBelow(way(n), <<Up>>))
  BY DEF Climbs
<1>4. ClimbsOut(name, path, Parts(Common)) <=>
        \E n \in 1 .. Len(Parts(path)) :
            ~IsBelow(there(n), Parts(Common)) \/ (Absolute(name) /\ IsBelow(there(n), <<Up>>))
  BY DEF ClimbsOut, OutsideAt, One
<1> HIDE DEF way, there
<1> QED
  BY <1>2, <1>3, <1>4

(* A way behind a directory is below it; one that is below ".." starts     *)
(* with it.                                                                *)
LEMMA IsBelowBase ==
  ASSUME NEW base \in Seq(Piece), NEW way \in Seq(Piece)
  PROVE  IsBelow(Cat(base, way), base)
<1>1. Cat(base, way) \in Seq(Piece) /\ Begins(base, Cat(base, way))
  BY CatIs, CatBegins DEF IsCat
<1>2. Len(base) \in 0 .. Len(Cat(base, way)) /\ base = Start(Cat(base, way), Len(base))
  BY <1>1, BeginsIsStart
<1>3. Len(base) <= Len(Cat(base, way))
  BY <1>1 DEF Begins
<1> QED
  BY <1>2, <1>3 DEF IsBelow, Start

LEMMA IsBelowUp ==
  ASSUME NEW way \in Seq(Piece)
  PROVE  IsBelow(way, One(Up)) <=> UpFirst(way)
<1>1. Up \in Piece
  BY PartsAssumption
<1>2. One(Up) \in Seq(Piece) /\ Len(One(Up)) = 1 /\ One(Up)[1] = Up
  BY <1>1, OneIs
<1>3. CASE way = <<>>
  BY <1>2, <1>3 DEF IsBelow, UpFirst
<1>4. CASE way # <<>>
  <2>1. 1 \in 0 .. Len(way) /\ 1 <= Len(way)
    BY <1>4
  <2>2. IsStart(Piece, way, 1, Start(way, 1))
    BY <2>1, StartIs
  <2>3. Start(way, 1) \in Seq(Piece) /\ Len(Start(way, 1)) = 1 /\ Start(way, 1)[1] = way[1]
    BY <2>2 DEF IsStart
  <2>4. Start(way, 1) = One(Up) <=> way[1] = Up
    <3>1. ASSUME way[1] = Up PROVE Start(way, 1) = One(Up)
      <4>1. \A n \in 1 .. Len(Start(way, 1)) : Start(way, 1)[n] = One(Up)[n]
        BY <1>2, <2>3, <3>1
      <4> QED
        BY <1>2, <2>3, <4>1, Equal
    <3> QED
      BY <1>2, <2>3, <3>1
  <2> QED
    BY <1>2, <1>4, <2>1, <2>4 DEF IsBelow, UpFirst, Start
<1> QED
  BY <1>3, <1>4

(* An include that stays inside leads, behind the directory, where it      *)
(* leads without it, and does not climb; one that leaves climbs, and       *)
(* without the directory starts with "..".                                 *)
LEMMA WayBelow ==
  ASSUME NEW C \in Seq(Char), C # <<>>, C[Len(C)] = Slash, NEW u \in Seq(Char), u # <<>>,
         IsNormal(Cat(C, u)), NEW path \in Includable
  PROVE  LET N == Normal(Way(u, path), Relative)
             inside == (AllUps(Parts(C)) /\ ~Absolute(C)) \/ NoUps(N)
         IN  /\ inside =>
                   /\ Normal(Way(Cat(C, u), path), Absolute(C)) = Cat(Parts(C), N)
                   /\ ~ClimbsOut(Cat(C, u), path, Parts(C))
             /\ ~inside => ClimbsOut(Cat(C, u), path, Parts(C)) /\ UpFirst(N)
<1> DEFINE m == Cat(C, u)
           B == Parts(C)
           d == Directory(u)
           x == Way(u, path)
           w == Way(m, path)
           F == NormalTo(x, Relative)
           M == NormalTo(w, Relative)
           ups == AllUps(B) /\ ~Absolute(C)
           l == Len(d)
           q == Len(Parts(path))
<1>1. /\ m \in Seq(Char) /\ (Absolute(m) <=> Absolute(C)) /\ B \in Seq(Piece)
      /\ Directory(m) = Cat(B, d) /\ Leading(B, Absolute(C)) /\ Leading(B, Relative)
      /\ d \in Seq(Piece) /\ (~ups => NoUps(d))
  BY BelowIs
<1> HIDE DEF m, B
<1>2. Relative \in BOOLEAN /\ ~Relative
  BY RelativeIs
<1>3. /\ x \in Seq(Piece) /\ Len(x) = l + q /\ Normal(x, Relative) = F[l + q]
      /\ F \in [0 .. l + q -> Seq(Piece)] /\ l \in Nat /\ q \in Nat /\ q >= 1
      /\ \A n \in 1 .. l + q : F[n] = Enter(F[n - 1], x[n], Relative)
      /\ F[0] = <<>>
  <2>1. x \in Seq(Piece) /\ Len(x) = l + q /\ l \in Nat /\ q \in Nat /\ q >= 1
    BY <1>1, <1>2, WayIs, IncludableIs
  <2> HIDE DEF x, l, q
  <2> QED
    BY <1>2, <2>1, NormalAre
<1>4. w = Cat(B, x)
  <2>1. Parts(path) \in Seq(Piece)
    BY IncludableIs
  <2>2. Cat(Cat(B, d), Parts(path)) = Cat(B, Cat(d, Parts(path)))
    BY <1>1, <2>1, CatAssociative
  <2> QED
    BY <1>1, <2>2 DEF Way
<1>5. Len(Directory(m)) = Len(B) + l /\ Len(B) \in Nat
  <2>1. IsCat(Piece, B, d, Directory(m))
    BY <1>1, CatIs
  <2> QED
    BY <2>1 DEF IsCat
<1>6. IsCat(Piece, B, x, w)
  BY <1>1, <1>3, <1>4, CatIs
<1>o. /\ \A n \in 0 .. Len(x) : NoUps(F[n]) \/ UpFirst(F[n])
      /\ \A n \in 0 .. Len(x) : ~(NoUps(F[n]) /\ UpFirst(F[n]))
      /\ \A n \in 0 .. Len(x) - 1 : NoUps(F[n + 1]) =>
            NoUps(F[n]) /\ ~(F[n] = <<>> /\ x[n + 1] = Up)
      /\ \A n \in 0 .. Len(x) - 1 : NoUps(F[n]) /\ UpFirst(F[n + 1]) =>
            F[n] = <<>> /\ x[n + 1] = Up
  BY <1>3, WayOut
<1>b. \A n \in 0 .. Len(x) :
        NoUps(F[n]) \/ (AllUps(B) /\ Relative = Relative) => M[Len(B) + n] = Cat(B, F[n])
  <2>1. LET N == NormalTo(x, Relative)
            K == NormalTo(Cat(B, x), Relative)
        IN  \A n \in 0 .. Len(x) :
               NoUps(N[n]) \/ (AllUps(B) /\ Relative = Relative) => K[Len(B) + n] = Cat(B, N[n])
    <3>1. x \in Seq(Piece)
      BY <1>3
    <3> HIDE DEF x
    <3> QED
      BY <1>1, <1>2, <3>1, NormalBehind
  <2> HIDE DEF w, x
  <2> QED
    BY <1>4, <2>1
<1>a. PICK absolute \in BOOLEAN : absolute <=> Absolute(C)
  BY DEF Absolute
<1>c. \A n \in 0 .. Len(x) : NoUps(F[n]) \/ (AllUps(B) /\ absolute = Relative) =>
         NormalTo(w, absolute)[Len(B) + n] = Cat(B, F[n])
  <2>1. absolute = Absolute(C)
    BY <1>a DEF Absolute
  <2>2. Leading(B, absolute)
    BY <1>1, <1>a DEF Leading
  <2> HIDE DEF x, w
  <2>3. \A n \in 0 .. Len(x) :
           LET N == NormalTo(x, Relative)
               L == NormalTo(Cat(B, x), absolute)
           IN  NoUps(N[n]) \/ (AllUps(B) /\ absolute = Relative) => L[Len(B) + n] = Cat(B, N[n])
    BY <1>1, <1>3, <2>2, NormalBehind
  <2> QED
    BY <1>4, <2>3
<1>d. d \o <<>> = d /\ IsCat(Piece, d, Parts(path), x)
  BY <1>1, IncludableIs, CatIs, ConcatEmptySeq DEF Way
<1> HIDE DEF x, w, F, M, l, q
(* It stays inside.                                                        *)
<1>7. ASSUME ups \/ NoUps(F[l + q])
      PROVE  /\ Normal(w, absolute) = Cat(B, F[l + q])
             /\ ~ClimbsOut(m, path, B)
  <2>1. \A n \in 0 .. l + q : ups \/ NoUps(F[n])
    <3>1. CASE ups
      BY <3>1
    <3>2. CASE NoUps(F[l + q])
      <4> DEFINE e == l + q
      <4>e. e \in Nat /\ e = l + q /\ Len(x) = e
        BY <1>3
      <4> HIDE DEF e
      <4> DEFINE T == {k \in 0 .. e : NoUps(F[e - k])}
      <4>1. 0 \in T
        BY <4>e, <3>2
      <4>2. ASSUME NEW k \in 0 .. e - 1, k \in T PROVE k + 1 \in T
        <5>1. e - (k + 1) \in 0 .. Len(x) - 1 /\ e - (k + 1) + 1 = e - k /\ k + 1 \in 0 .. e
          BY <4>e
        <5> QED
          BY <1>o, <4>2, <5>1
      <4>3. \A k \in 0 .. e : k \in T
        <5> HIDE DEF T
        <5> QED
          BY <4>1, <4>2, <4>e, UpTo
      <4>4. ASSUME NEW n \in 0 .. e PROVE NoUps(F[n])
        <5>1. e - n \in 0 .. e /\ e - (e - n) = n
          BY <4>e
        <5> QED
          BY <4>3, <5>1
      <4> QED
        BY <4>4, <4>e
    <3> QED
      BY <1>7, <3>1, <3>2
  <2>2. Normal(w, absolute) = Cat(B, F[l + q])
    <3>1. w \in Seq(Piece) /\ Len(w) = Len(B) + (l + q)
      BY <1>3, <1>6 DEF IsCat
    <3>2. Normal(w, absolute) = NormalTo(w, absolute)[Len(w)]
      BY <3>1, NormalAre
    <3>3. ups => AllUps(B) /\ absolute = Relative
      BY <1>2, <1>a
    <3>4. l + q \in 0 .. Len(x) /\ l + q \in 0 .. l + q
      BY <1>3
    <3> QED
      BY <1>c, <2>1, <3>1, <3>2, <3>3, <3>4
  <2>3. ~ClimbsOut(m, path, B)
    <3> SUFFICES ASSUME NEW n \in 1 .. q, OutsideAt(m, path, B, n) PROVE FALSE
      BY DEF ClimbsOut, q
    <3>1. l + n \in 0 .. l + q /\ Len(B) + (l + n) = Len(Directory(m)) + n /\ l + n \in 0 .. Len(x)
      BY <1>3, <1>5
    <3>2. M[Len(Directory(m)) + n] = Cat(B, F[l + n]) /\ F[l + n] \in Seq(Piece)
      <4>1. ups => AllUps(B)
        OBVIOUS
      <4>2. M[Len(B) + (l + n)] = Cat(B, F[l + n])
        BY <1>b, <2>1, <3>1, <4>1
      <4> QED
        BY <1>3, <3>1, <4>2
    <3> DEFINE v == F[l + n]
    <3> HIDE DEF v
    <3>3. IsBelow(Cat(B, v), B)
      BY <1>1, <3>2, IsBelowBase DEF v
    <3>4. Absolute(m) /\ IsBelow(Cat(B, v), One(Up))
      BY <3>2, <3>3 DEF OutsideAt, M, w, v
    <3>5. ~ups /\ NoUps(v)
      BY <1>1, <2>1, <3>1, <3>4 DEF v
    <3>6. UpFirst(Cat(B, v)) /\ IsCat(Piece, B, v, Cat(B, v))
      <4>1. v \in Seq(Piece)
        BY <3>2 DEF v
      <4>2. IsCat(Piece, B, v, Cat(B, v))
        BY <1>1, <4>1, CatIs
      <4>3. Cat(B, v) \in Seq(Piece)
        BY <4>2 DEF IsCat
      <4> QED
        BY <3>4, <4>2, <4>3, IsBelowUp
    <3>7. CASE B = <<>>
      <4>1. UpFirst(v)
        <5>1. Cat(B, v) = v
          BY <3>2, <3>7, CatEmpty DEF v
        <5> QED
          BY <3>6, <5>1
      <4>2. v \in Seq(Piece)
        BY <3>2 DEF v
      <4> QED
        BY <3>5, <4>1, <4>2 DEF NoUps, UpFirst
    <3>8. CASE B # <<>>
      <4>1. 1 \in 1 .. Len(B)
        BY <1>1, <3>8
      <4>2. B[1] = Up
        BY <3>6, <4>1 DEF UpFirst, IsCat
      <4> QED
        BY <1>1, <3>4, <4>1, <4>2 DEF Leading
    <3> QED
      BY <3>7, <3>8
  <2> QED
    BY <2>2, <2>3
(* It leaves.                                                              *)
<1>8. ASSUME ~ups, ~NoUps(F[l + q]) PROVE ClimbsOut(m, path, B) /\ UpFirst(F[l + q])
  <2>1. UpFirst(F[l + q])
    <3>1. l + q \in 0 .. Len(x)
      BY <1>3
    <3> QED
      BY <1>8, <1>o, <3>1
  <2>2. PICK n \in 0 .. l + q - 1 : NoUps(F[n]) /\ ~NoUps(F[n + 1])
    <3> SUFFICES ASSUME \A n \in 0 .. l + q - 1 : NoUps(F[n]) => NoUps(F[n + 1]) PROVE FALSE
      OBVIOUS
    <3> DEFINE e == l + q
    <3>e. e \in Nat /\ e = l + q
      BY <1>3
    <3> HIDE DEF e
    <3> DEFINE T == {n \in 0 .. e : NoUps(F[n])}
    <3>1. 0 \in T
      BY <1>3, <3>e DEF NoUps
    <3>2. \A n \in 0 .. e - 1 : n \in T => n + 1 \in T
      <4> SUFFICES ASSUME NEW n \in 0 .. e - 1, n \in T PROVE n + 1 \in T
        OBVIOUS
      <4>1. n \in 0 .. l + q - 1 /\ n + 1 \in 0 .. e
        BY <1>3, <3>e
      <4>2. NoUps(F[n]) => NoUps(F[n + 1])
        BY <4>1
      <4> QED
        BY <4>1, <4>2
    <3>3. \A n \in 0 .. e : n \in T
      <4> HIDE DEF T
      <4> QED
        BY <3>1, <3>2, <3>e, UpTo
    <3> QED
      BY <1>8, <3>3, <3>e
  <2>3. /\ n \in 0 .. Len(x) - 1 /\ n + 1 \in 0 .. Len(x) /\ n \in 0 .. Len(x) /\ n + 1 \in 1 .. l + q
        /\ n + 1 - 1 = n
    BY <1>3
  <2>4. F[n] = <<>> /\ x[n + 1] = Up
    BY <1>o, <2>2, <2>3
  <2>5. n + 1 > l
    <3> SUFFICES ASSUME n + 1 \in 1 .. l PROVE FALSE
      BY <1>3, <2>3
    <3>1. x[n + 1] = d[n + 1]
      BY <1>d DEF IsCat, l
    <3> QED
      BY <1>1, <1>8, <2>4, <3>1 DEF NoUps, l
  <2> DEFINE k == n + 1 - l
  <2>6. k \in 1 .. q /\ Len(Directory(m)) + k = Len(B) + (n + 1)
    BY <1>3, <1>5, <2>3, <2>5
  <2>7. M[Len(B) + n] = B
    <3>1. M[Len(B) + n] = Cat(B, <<>>)
      BY <1>b, <2>2, <2>3, <2>4
    <3> QED
      BY <1>1, <3>1, CatEmpty
  <2>8. M[Len(B) + (n + 1)] = Enter(B, Up, Relative)
    <3>1. Len(B) + (n + 1) \in 1 .. Len(w) /\ w \in Seq(Piece) /\ w[Len(B) + (n + 1)] = x[n + 1]
          /\ Len(B) + (n + 1) - 1 = Len(B) + n
      <4>1. w \in Seq(Piece) /\ Len(w) = Len(B) + Len(x) /\ \A k_ \in 1 .. Len(x) : w[Len(B) + k_] = x[k_]
        BY <1>6 DEF IsCat
      <4>2. n + 1 \in 1 .. Len(x)
        BY <2>3, <1>3
      <4>3. w[Len(B) + (n + 1)] = x[n + 1]
        BY <4>1, <4>2
      <4>4. Len(x) \in Nat
        BY <1>3
      <4>5. Len(B) + (n + 1) \in 1 .. Len(w)
        <5> DEFINE b == Len(B)
                   t == Len(x)
        <5> HIDE DEF b, t
        <5>1. b \in Nat /\ t \in Nat /\ n + 1 \in 1 .. t
          BY <1>5, <4>2, <4>4 DEF b, t
        <5>2. b + (n + 1) \in 1 .. b + t
          BY <5>1
        <5> QED
          BY <4>1, <5>2 DEF b, t
      <4>6. Len(B) + (n + 1) - 1 = Len(B) + n
        BY <1>5
      <4> QED
        BY <4>1, <4>3, <4>5, <4>6
    <3>2. M[Len(B) + (n + 1)] = Enter(M[Len(B) + (n + 1) - 1], w[Len(B) + (n + 1)], Relative)
      BY <1>2, <3>1, NormalAre DEF M
    <3> QED
      BY <2>4, <2>7, <3>1, <3>2
  <2> DEFINE v == Enter(B, Up, Relative)
  <2>9. ~IsBelow(v, B) \/ (Absolute(m) /\ IsBelow(v, One(Up)))
    <3>1. Up \in Piece
      BY PartsAssumption
    <3>2. CASE B # <<>> /\ B[Len(B)] # Up
      <4>1. v = Start(B, Len(B) - 1)
        BY <1>1, <1>2, <3>1, <3>2, EnterIs
      <4>2. Len(v) = Len(B) - 1
        BY <1>1, <3>2, <4>1, SplitLast
      <4> QED
        BY <1>5, <4>2 DEF IsBelow
    <3>3. CASE ~(B # <<>> /\ B[Len(B)] # Up)
      <4>1. B = <<>>
        <5> SUFFICES ASSUME B # <<>> PROVE FALSE
          OBVIOUS
        <5>1. Len(B) \in 1 .. Len(B) /\ B[Len(B)] = Up
          BY <1>1, <3>3
        <5>2. ~Absolute(C) /\ \A i_ \in 1 .. Len(B) : B[i_] = Up
          BY <1>1, <5>1 DEF Leading
        <5> QED
          BY <1>8, <5>2 DEF AllUps
      <4>2. Absolute(C)
        BY <1>8, <4>1 DEF AllUps
      <4>3. v = Add(B, Up)
        BY <1>1, <1>2, <3>1, <3>3, EnterIs
      <4>4. IsAdd(Piece, B, Up, v)
        BY <1>1, <3>1, <4>3, AddIs
      <4>5. v \in Seq(Piece) /\ UpFirst(v)
        BY <4>1, <4>4 DEF IsAdd, UpFirst
      <4> QED
        BY <1>1, <4>2, <4>5, IsBelowUp
    <3> QED
      BY <3>2, <3>3
  <2>10. OutsideAt(m, path, B, k)
    <3> HIDE DEF k, v
    <3>1. M[Len(Directory(m)) + k] = v
      BY <2>6, <2>8 DEF v
    <3> QED
      BY <2>9, <3>1 DEF OutsideAt, M, w
  <2> QED
    BY <2>1, <2>6, <2>10 DEF ClimbsOut, q
<1> QED
  <2>1. Normal(w, absolute) = Normal(w, Absolute(C))
    <3>1. absolute = Absolute(C)
      BY <1>a DEF Absolute
    <3> QED
      BY <3>1
  <2> QED
    BY <1>3, <1>7, <1>8, <2>1 DEF m, B, x, w

-----------------------------------------------------------------------------
(* What an include names is below the directory if and only if the way     *)
(* stays below; and then the name is that in the shortened tree.           *)
LEMMA JoinBelow ==
  ASSUME NEW C \in Seq(Char), C # <<>>, C[Len(C)] = Slash, NEW u \in Seq(Char), u # <<>>,
         IsNormal(Cat(C, u)), NEW path \in Includable
  PROVE  /\ ~ClimbsOut(Cat(C, u), path, Parts(C)) =>
               Join(Cat(C, u), path) = Cat(C, Join(u, path))
         /\ IsNormal(Cat(C, Join(u, path))) => ~ClimbsOut(Cat(C, u), path, Parts(C))
<1> DEFINE m == Cat(C, u)
           B == Parts(C)
           N == Normal(Way(u, path), Relative)
           r == Root(Absolute(C))
           inside == (AllUps(B) /\ ~Absolute(C)) \/ NoUps(N)
           w == Spelt(N, path)
<1>1. /\ m \in Seq(Char) /\ ~Absolute(u) /\ (Absolute(m) <=> Absolute(C)) /\ B \in Seq(Piece)
      /\ C = Cat(r, Cat(Slashed(B), IF B # <<>> THEN One(Slash) ELSE <<>>))
  BY BelowIs
<1>2. /\ inside => Normal(Way(m, path), Absolute(C)) = Cat(B, N) /\ ~ClimbsOut(m, path, B)
      /\ ~inside => ClimbsOut(m, path, B) /\ UpFirst(N)
  BY WayBelow
<1>3. N \in Seq(Piece) /\ N # <<>>
  BY RelativeIs, WayIs
<1>4. /\ Slashed(N) \in Seq(Char) /\ EndOf(path) \in Seq(Char) /\ w \in Seq(Char) /\ w # <<>>
      /\ Parts(w) # <<>> /\ Parts(w)[1] = N[1]
  BY <1>3, SpeltIs
<1>5. Join(u, path) = w
  <2>1. Join(u, path) = Cat(Root(Absolute(u)), Spelt(Normal(Way(u, path), Absolute(u)), path))
    BY JoinIs
  <2>2. Absolute(u) = Relative
    BY <1>1 DEF Absolute, Relative
  <2>3. Root(Absolute(u)) = <<>>
    BY <1>1 DEF Root
  <2>4. Join(u, path) = Cat(<<>>, w)
    BY <2>1, <2>2, <2>3
  <2> HIDE DEF w
  <2> QED
    BY <1>4, <2>4, CatEmpty
<1>6. One(Slash) \in Seq(Char) /\ <<>> \in Seq(Char) /\ r \in Seq(Char)
  <2>1. One(Slash) \in Seq(Char) /\ <<>> \in Seq(Char)
    BY CharAssumption, OneIs
  <2> QED
    BY <2>1 DEF Root
<1>7. Slashed(B) \in Seq(Char)
  BY <1>1, SlashedAre
<1>8. ASSUME inside PROVE Join(m, path) = Cat(C, w)
  <2>1. Join(m, path) = Cat(Root(Absolute(m)), Spelt(Normal(Way(m, path), Absolute(m)), path))
    BY <1>1, JoinIs
  <2>2. Absolute(m) = Absolute(C)
    BY <1>1 DEF Absolute
  <2>3. Join(m, path) = Cat(r, Spelt(Cat(B, N), path))
    BY <1>2, <1>8, <2>1, <2>2
  <2> HIDE DEF m, B, N, r
  <2>4. CASE B = <<>>
    <3>1. Cat(B, N) = N
      BY <1>3, <2>4, CatEmpty
    <3>2. C = r
      <4>1. C = Cat(r, Cat(<<>>, <<>>))
        BY <1>1, <2>4, SlashedNone
      <4> QED
        BY <1>6, <4>1, CatEmpty
    <3> QED
      BY <2>3, <3>1, <3>2
  <2>5. CASE B # <<>>
    <3> DEFINE X == Add(Slashed(B), Slash)
    <3>1. X = Cat(Slashed(B), One(Slash)) /\ X \in Seq(Char)
      BY <1>7, CharAssumption, AddIsCat, SlashBehind
    <3>2. C = Cat(r, X)
      BY <1>1, <2>5, <3>1
    <3>3. Slashed(Cat(B, N)) = Cat(X, Slashed(N))
      BY <1>1, <1>3, <2>5, SlashedOfBoth
    <3> HIDE DEF X
    <3>4. Spelt(Cat(B, N), path) = Cat(X, w)
      <4>1. Cat(Cat(X, Slashed(N)), EndOf(path)) = Cat(X, Cat(Slashed(N), EndOf(path)))
        BY <1>4, <3>1, CatAssociative
      <4> QED
        BY <3>3, <4>1 DEF Spelt
    <3>5. Cat(Cat(r, X), w) = Cat(r, Cat(X, w))
      BY <1>4, <1>6, <3>1, CatAssociative
    <3> QED
      BY <2>3, <3>2, <3>4, <3>5
  <2> QED
    BY <2>4, <2>5
<1>9. ASSUME IsNormal(Cat(C, w)) PROVE inside
  <2> SUFFICES ASSUME ~inside PROVE FALSE
    OBVIOUS
  <2>1. N[1] = Up
    BY <1>2 DEF UpFirst
  <2> DEFINE k == Cat(C, w)
             PK == Parts(k)
             PW == Parts(w)
  <2> HIDE DEF w
  <2>2. k \in Seq(Char) /\ (Absolute(k) <=> Absolute(C)) /\ PK = Cat(B, PW) /\ PW \in Seq(Piece)
    BY <1>4, <1>9, BelowIs
  <2>3. Leading(PK, Absolute(k))
    BY <1>9, <2>2, IsNormalIs
  <2>4. IsCat(Piece, B, PW, PK)
    BY <1>1, <2>2, CatIs
  <2> HIDE DEF PK, PW, k, B
  <2>5. 1 \in 1 .. Len(PW) /\ PW[1] = Up
    BY <1>4, <2>1, <2>2 DEF PW
  <2>6. Len(B) + 1 \in 1 .. Len(PK) /\ PK[Len(B) + 1] = Up
    BY <2>4, <2>5 DEF IsCat
  <2>7. ~Absolute(k) /\ \A n \in 1 .. Len(B) + 1 : PK[n] = Up
    BY <2>3, <2>6 DEF Leading
  <2>8. AllUps(B)
    BY <2>4, <2>7 DEF AllUps, IsCat
  <2> QED
    BY <2>2, <2>7, <2>8
<1> QED
  BY <1>2, <1>5, <1>8, <1>9

-----------------------------------------------------------------------------
(* What is left of a name without its first n characters.                  *)
Rest(n, s) == SubSeq(s, n + 1, Len(s))

(* It is a sequence of the same.                                           *)
LEMMA RestType ==
  ASSUME NEW T, NEW s \in Seq(T), NEW n \in Nat
  PROVE  Rest(n, s) \in Seq(T)
<1>1. \A k \in n + 1 .. Len(s) : s[k] \in T
  <2> SUFFICES ASSUME NEW k \in n + 1 .. Len(s) PROVE s[k] \in T
    OBVIOUS
  <2>1. k \in 1 .. Len(s)
    OBVIOUS
  <2> QED
    BY <2>1, ElementOfSeq
<1>2. n + 1 \in Int /\ Len(s) \in Int
  OBVIOUS
<1> QED
  BY <1>1, <1>2, SubSeqProperties DEF Rest

(* What it is, if there are as many characters.                            *)
LEMMA RestIs ==
  ASSUME NEW T, NEW s \in Seq(T), NEW n \in 0 .. Len(s)
  PROVE  /\ Rest(n, s) \in Seq(T) /\ Len(s) \in Nat /\ Len(Rest(n, s)) = Len(s) - n
         /\ \A k \in 1 .. Len(s) - n : Rest(n, s)[k] = s[n + k]
<1>1. \A k \in n + 1 .. Len(s) : s[k] \in T
  <2> SUFFICES ASSUME NEW k \in n + 1 .. Len(s) PROVE s[k] \in T
    OBVIOUS
  <2>1. k \in 1 .. Len(s)
    OBVIOUS
  <2> QED
    BY <2>1, ElementOfSeq
<1> DEFINE m == n + 1
           l == Len(s)
           w == SubSeq(s, m, l)
<1>2. /\ n \in Nat /\ l \in Nat /\ m \in Int /\ l \in Int /\ m = n + 1 /\ l - m + 1 = l - n
      /\ (IF m <= l THEN l - m + 1 ELSE 0) = l - n
  OBVIOUS
<1> HIDE DEF m, l
<1>3. /\ w \in Seq(T) /\ Len(w) = IF m <= l THEN l - m + 1 ELSE 0
      /\ \A k \in 1 .. l - m + 1 : w[k] = s[m + k - 1]
  <2>1. m \in Int /\ l \in Int
    BY <1>2
  <2>2. \A k \in m .. l : s[k] \in T
    BY <1>1 DEF m, l
  <2> QED
    BY <2>1, <2>2, SubSeqProperties
<1> HIDE DEF w
<1>4. \A k \in 1 .. l - n : m + k - 1 = n + k
  BY <1>2
<1>5. \A k \in 1 .. l - n : w[k] = s[n + k]
  BY <1>2, <1>3, <1>4
<1> QED
  BY <1>2, <1>3, <1>5 DEF w, Rest, m, l

(* A sequence is its start and the rest.                                   *)
LEMMA StartAndRest ==
  ASSUME NEW T, NEW s \in Seq(T), NEW n \in 0 .. Len(s)
  PROVE  s = Cat(Start(s, n), Rest(n, s))
<1> DEFINE u == Start(s, n)
           v == Rest(n, s)
           w == Cat(u, v)
<1>1. /\ v \in Seq(T) /\ Len(s) \in Nat /\ Len(v) = Len(s) - n
      /\ \A k \in 1 .. Len(s) - n : v[k] = s[n + k]
  BY RestIs
<1>2. IsStart(T, s, n, u)
  BY StartIs
<1> HIDE DEF u, v
<1>3. IsCat(T, u, v, w)
  <2>1. u \in Seq(T)
    BY <1>2 DEF IsStart
  <2> QED
    BY <1>1, <2>1, CatIs
<1> HIDE DEF w
<1>4. w \in Seq(T) /\ Len(w) = Len(s) /\ n \in Nat
  BY <1>1, <1>2, <1>3 DEF IsCat, IsStart
<1>5. ASSUME NEW k \in 1 .. Len(s) PROVE s[k] = w[k]
  <2>1. CASE k <= n
    BY <1>1, <1>2, <1>3, <1>4, <2>1 DEF IsCat, IsStart
  <2>2. CASE ~(k <= n)
    <3> DEFINE m == k - n
    <3>1. m \in 1 .. Len(s) - n /\ k = n + m
      BY <1>1, <1>4, <2>2
    <3> HIDE DEF m
    <3>2. w[k] = v[m] /\ v[m] = s[n + m]
      BY <1>1, <1>2, <1>3, <3>1 DEF IsCat, IsStart
    <3> QED
      BY <3>1, <3>2
  <2> QED
    BY <2>1, <2>2
<1>6. s = w
  BY <1>4, <1>5, Equal
<1> QED
  BY <1>6 DEF w, v, u

(* Without the first sequence the second is left.                          *)
LEMMA RestOfCat ==
  ASSUME NEW T, NEW s \in Seq(T), NEW t \in Seq(T)
  PROVE  Rest(Len(s), Cat(s, t)) = t
<1> DEFINE w == Cat(s, t)
           v == Rest(Len(s), w)
<1>1. IsCat(T, s, t, w)
  BY CatIs
<1> HIDE DEF w
<1>2. w \in Seq(T) /\ Len(s) \in 0 .. Len(w) /\ Len(w) - Len(s) = Len(t)
  BY <1>1 DEF IsCat
<1>3. v \in Seq(T) /\ Len(v) = Len(t) /\ \A k \in 1 .. Len(t) : v[k] = w[Len(s) + k]
  BY <1>2, RestIs
<1> HIDE DEF v
<1>4. v = t
  BY <1>1, <1>3, Equal DEF IsCat
<1> QED
  BY <1>4 DEF v, w
-----------------------------------------------------------------------------
(* The directory that is taken off names, of c characters.                 *)
Like(list) == \A s, t \in 1 .. Len(list) : Absolute(list[s]) => Absolute(list[t])
Shared(list, n) == \A s \in 1 .. Len(list) : n <= Len(list[s]) /\ Agree(list[s], list[1], n)
Cut(list, c) ==
    /\ c \in Nat
    /\ Like(list) => Shared(list, c) /\ (c > 0 => list[1][c] = Slash)
    /\ \A k \in c + 1 .. Len(list[1]) : list[1][k] = Slash => ~Shared(list, k)

(* Every name is the directory and its shortened name, if the names are    *)
(* alike.                                                                  *)
LEMMA Divided ==
  ASSUME NEW list \in Seq(Seq(Char)), list # <<>>, NEW c, Cut(list, c), Like(list),
         NEW s \in 1 .. Len(list)
  PROVE  LET C == Start(list[1], c)
         IN  /\ c \in Nat /\ C \in Seq(Char) /\ Len(C) = c
             /\ (C # <<>> => C[Len(C)] = Slash)
             /\ list[s] \in Seq(Char) /\ Rest(c, list[s]) \in Seq(Char)
             /\ list[s] = Cat(C, Rest(c, list[s]))
             /\ (C = <<>> => ~Absolute(list[s]))
<1> DEFINE C == Start(list[1], c)
<1>1. /\ Len(list) \in Nat /\ 1 \in 1 .. Len(list) /\ list[1] \in Seq(Char) /\ list[s] \in Seq(Char)
      /\ Len(list[1]) \in Nat /\ Len(list[s]) \in Nat
  OBVIOUS
<1>2. c \in Nat /\ Shared(list, c) /\ (c > 0 => list[1][c] = Slash)
  BY DEF Cut
<1>3. c \in 0 .. Len(list[1]) /\ c \in 0 .. Len(list[s]) /\ \A k \in 1 .. c : list[s][k] = list[1][k]
  BY <1>1, <1>2 DEF Shared, Agree
<1>4. IsStart(Char, list[1], c, C)
  BY <1>1, <1>3, StartIs
<1>5. IsStart(Char, list[s], c, Start(list[s], c))
  BY <1>1, <1>3, StartIs
<1> HIDE DEF C
<1>6. Start(list[s], c) = C
  <2>1. Start(list[s], c) \in Seq(Char) /\ C \in Seq(Char) /\ Len(Start(list[s], c)) = c /\ Len(C) = c
    BY <1>4, <1>5 DEF IsStart
  <2>2. \A k \in 1 .. c : Start(list[s], c)[k] = C[k]
    BY <1>3, <1>4, <1>5 DEF IsStart
  <2> QED
    BY <2>1, <2>2, Equal
<1>7. list[s] = Cat(C, Rest(c, list[s])) /\ Rest(c, list[s]) \in Seq(Char)
  BY <1>1, <1>3, <1>6, StartAndRest, RestIs
<1>8. C # <<>> => C[Len(C)] = Slash
  <2> SUFFICES ASSUME C # <<>> PROVE C[Len(C)] = Slash
    OBVIOUS
  <2>1. C \in Seq(Char) /\ Len(C) = c /\ c \in 1 .. c
    BY <1>2, <1>4 DEF IsStart
  <2> QED
    BY <1>2, <1>4, <2>1 DEF IsStart
<1>9. C = <<>> => ~Absolute(list[s])
  <2> SUFFICES ASSUME C = <<>>, Absolute(list[s]) PROVE FALSE
    OBVIOUS
  <2>1. c = 0
    BY <1>4 DEF IsStart
  <2>2. \A t \in 1 .. Len(list) : Absolute(list[t])
    BY DEF Like
  <2>3. \A t \in 1 .. Len(list) : list[t] # <<>> /\ list[t][1] = Slash
    BY <2>2 DEF Absolute
  <2>4. \A t \in 1 .. Len(list) : 1 <= Len(list[t]) /\ Agree(list[t], list[1], 1)
    <3> SUFFICES ASSUME NEW t \in 1 .. Len(list)
                 PROVE  1 <= Len(list[t]) /\ Agree(list[t], list[1], 1)
      OBVIOUS
    <3>1. list[t] \in Seq(Char) /\ list[t] # <<>> /\ list[t][1] = list[1][1]
      BY <1>1, <2>3
    <3> QED
      BY <3>1 DEF Agree
  <2>5. 1 \in c + 1 .. Len(list[1]) /\ list[1][1] = Slash
    BY <1>1, <2>1, <2>3, <2>4
  <2> QED
    BY <2>4, <2>5 DEF Cut, Shared
<1> QED
  BY <1>1, <1>2, <1>4, <1>7, <1>8, <1>9 DEF C, IsStart

(* Includes of a file that lies in the directory.                          *)
LEMMA IncludeBelow ==
  ASSUME NEW C \in Seq(Char), NEW u \in Seq(Char), u # <<>>, NEW path \in Includable,
         C = <<>> => ~Absolute(Cat(C, u)),
         C # <<>> => C[Len(C)] = Slash /\ IsNormal(Cat(C, u))
  PROVE  /\ ~ClimbsOut(Cat(C, u), path, Parts(C)) =>
               Join(Cat(C, u), path) = Cat(C, Join(u, path))
         /\ C = <<>> \/ IsNormal(Cat(C, Join(u, path))) => ~ClimbsOut(Cat(C, u), path, Parts(C))
         /\ Join(u, path) \in Seq(Char) /\ Join(u, path) # <<>>
<1>1. Join(u, path) \in Seq(Char) /\ Join(u, path) # <<>>
  BY JoinType
<1>2. CASE C # <<>>
  BY <1>1, <1>2, JoinBelow
<1>3. CASE C = <<>>
  <2>1. Cat(C, u) = u /\ Cat(C, Join(u, path)) = Join(u, path)
    BY <1>1, <1>3, CatEmpty
  <2>2. ~ClimbsOut(u, path, Parts(C))
    <3> SUFFICES ASSUME NEW n \in 1 .. Len(Parts(path)), OutsideAt(u, path, Parts(C), n)
                 PROVE  FALSE
      BY <2>1 DEF ClimbsOut
    <3>1. Parts(C) = <<>>
      BY <1>3, PartsAre
    <3> DEFINE w == Way(u, path)
               v == NormalTo(w, Relative)[Len(Directory(u)) + n]
    <3>2. /\ w \in Seq(Piece) /\ Len(w) = Len(Directory(u)) + Len(Parts(path))
          /\ Len(Directory(u)) \in Nat /\ Len(Parts(path)) \in Nat
      BY RelativeIs, WayIs, DirectoryIs, IncludableIs
    <3> HIDE DEF w
    <3>3. v \in Seq(Piece)
      <4>1. Len(Directory(u)) + n \in 0 .. Len(w)
        BY <3>2
      <4>2. NormalTo(w, Relative) \in [0 .. Len(w) -> Seq(Piece)]
        BY <3>2, RelativeIs, NormalAre
      <4> QED
        BY <4>1, <4>2
    <3> HIDE DEF v
    <3>4. ~IsBelow(v, <<>>)
      BY <1>3, <2>1, <3>1 DEF OutsideAt, w, v
    <3>5. Start(v, 0) = <<>>
      BY <3>3, StartWhole
    <3> QED
      BY <3>3, <3>4, <3>5 DEF IsBelow, Start
  <2> QED
    BY <1>1, <2>1, <2>2
<1> QED
  BY <1>2, <1>3

-----------------------------------------------------------------------------
(* A walk over the includes of F reaches, from e, the least set that has   *)
(* what its files include.                                                 *)
FilesType(F) == \A name \in DOMAIN F : name \in Seq(Char) /\ F[name].includes \in Seq(Includable)
Closed(F, X) ==
    \A name \in X : name \in DOMAIN F =>
        \A n \in DOMAIN F[name].includes : Join(name, F[name].includes[n]) \in X
Reached(F, e, V) ==
    /\ FilesType(F) /\ V \subseteq DOMAIN F /\ e \in Seq(Char) /\ e # <<>>
    /\ e \in V /\ Closed(F, V)
    /\ \A X : e \in X /\ Closed(F, X) => V \subseteq X

(* A Thrift that can be asked, and what is made of what it gives when c    *)
(* characters are taken off.                                               *)
Asked(o) ==
    /\ o.keys \in Seq(Seq(Char)) /\ o.keys # <<>>
    /\ \A n \in DOMAIN o.keys : o.keys[n] \in DOMAIN o.files
    /\ Reached(o.files, o.entry, o.visited)
SameFile(o, c, F, name) ==
    \E n \in DOMAIN o.keys :
        /\ Rest(c, o.keys[n]) = name /\ F[name].includes = o.files[o.keys[n]].includes
        /\ F[name].how # "ast" => F[name].empty = o.files[o.keys[n]].empty
ShorterKeys(o, c, list) == list = [n \in DOMAIN o.keys |-> Rest(c, o.keys[n])]
Kept(o, c, F, list) ==
    \/ list = <<>> /\ \A name \in DOMAIN F : F[name].how = "ast"
    \/ ShorterKeys(o, c, list)
GivenOf(o, c, F, e, list) ==
    /\ Cut(o.keys, c)
    /\ FilesType(F) /\ e = Rest(c, o.entry)
    /\ \A name \in DOMAIN F : SameFile(o, c, F, name) /\ F[name].how # "file"
    /\ \A n \in DOMAIN o.keys : o.keys[n] \in o.visited => Rest(c, o.keys[n]) \in DOMAIN F
    /\ Kept(o, c, F, list)

TextsOf(o) == {o.keys[n] : n \in DOMAIN o.keys}
Dir(o, c) == Start(o.keys[1], c)
Safe(o, c) ==
    \/ Dir(o, c) = <<>>
    \/ \A name \in TextsOf(o) : IsNormal(name)
    \/ \A name \in TextsOf(o) : o.files[name].includes = <<>>
Whole(o, c) ==
    /\ o.visited \subseteq TextsOf(o)
    /\ \A name \in o.visited : \A n \in DOMAIN o.files[name].includes :
          ~ClimbsOut(name, o.files[name].includes[n], Parts(Dir(o, c)))
    /\ o.entry # Dir(o, c)

(* A text of a Thrift that was asked is the directory and its shortened    *)
(* name.                                                                   *)
LEMMA TextIs ==
  ASSUME NEW o, NEW c, Asked(o), Cut(o.keys, c), Like(o.keys), NEW x \in TextsOf(o)
  PROVE  /\ x \in DOMAIN o.files /\ x \in Seq(Char)
         /\ c \in Nat /\ Dir(o, c) \in Seq(Char) /\ Len(Dir(o, c)) = c
         /\ (Dir(o, c) # <<>> => Dir(o, c)[Len(Dir(o, c))] = Slash)
         /\ Rest(c, x) \in Seq(Char) /\ x = Cat(Dir(o, c), Rest(c, x))
         /\ (Dir(o, c) = <<>> => ~Absolute(x))
<1> DEFINE list == o.keys
<1>1. list \in Seq(Seq(Char)) /\ list # <<>>
  BY DEF Asked
<1>2. PICK n \in DOMAIN list : x = list[n]
  BY DEF TextsOf
<1>3. n \in 1 .. Len(list) /\ list[n] \in DOMAIN o.files
  BY <1>1, <1>2 DEF Asked
<1>4. Cut(list, c) /\ Like(list)
  OBVIOUS
<1>5. Dir(o, c) = Start(list[1], c)
  BY DEF Dir
<1> HIDE DEF list
<1> QED
  BY <1>1, <1>2, <1>3, <1>4, <1>5, Divided

(* A shortened name is that of one text, the file includes what the text   *)
(* does.                                                                   *)
LEMMA ShorterIsLike ==
  ASSUME NEW o, NEW c, NEW F, NEW e, NEW list, Asked(o), GivenOf(o, c, F, e, list), Like(o.keys),
         NEW x \in TextsOf(o), Rest(c, x) \in DOMAIN F
  PROVE  /\ F[Rest(c, x)].includes = o.files[x].includes
         /\ F[Rest(c, x)].how # "ast" => F[Rest(c, x)].empty = o.files[x].empty
<1>1. Cut(o.keys, c) /\ SameFile(o, c, F, Rest(c, x))
  BY DEF GivenOf
<1>2. PICK y \in TextsOf(o) :
        /\ Rest(c, y) = Rest(c, x) /\ F[Rest(c, x)].includes = o.files[y].includes
        /\ F[Rest(c, x)].how # "ast" => F[Rest(c, x)].empty = o.files[y].empty
  BY <1>1 DEF SameFile, TextsOf
<1>3. x = Cat(Dir(o, c), Rest(c, x)) /\ y = Cat(Dir(o, c), Rest(c, y))
  BY <1>1, TextIs
<1> QED
  BY <1>2, <1>3

(* Every file that was given is a text behind the directory.               *)
LEMMA NameOfText ==
  ASSUME NEW o, NEW c, NEW F, NEW e, NEW list, Asked(o), GivenOf(o, c, F, e, list), Like(o.keys),
         NEW name \in DOMAIN F
  PROVE  Cat(Dir(o, c), name) \in TextsOf(o) /\ Rest(c, Cat(Dir(o, c), name)) = name
<1>1. Cut(o.keys, c) /\ SameFile(o, c, F, name)
  BY DEF GivenOf
<1>2. PICK y \in TextsOf(o) : Rest(c, y) = name
  BY <1>1 DEF SameFile, TextsOf
<1>3. y = Cat(Dir(o, c), Rest(c, y))
  BY <1>1, TextIs
<1> QED
  BY <1>2, <1>3

(* What a text includes, in the Thrift that gave it and in the other.      *)
LEMMA TextIncludes ==
  ASSUME NEW o, NEW c, Asked(o), Cut(o.keys, c), Like(o.keys), Safe(o, c),
         NEW x \in TextsOf(o), Rest(c, x) # <<>>, NEW n \in DOMAIN o.files[x].includes
  PROVE  LET path == o.files[x].includes[n]
             C == Dir(o, c)
             u == Rest(c, x)
         IN  /\ ~ClimbsOut(x, path, Parts(C)) => Join(x, path) = Cat(C, Join(u, path))
             /\ C = <<>> \/ IsNormal(Cat(C, Join(u, path))) => ~ClimbsOut(x, path, Parts(C))
             /\ Join(u, path) \in Seq(Char) /\ Join(u, path) # <<>>
             /\ Rest(c, Cat(C, Join(u, path))) = Join(u, path)
<1> DEFINE path == o.files[x].includes[n]
           C == Dir(o, c)
           u == Rest(c, x)
<1>1. /\ x \in DOMAIN o.files /\ C \in Seq(Char) /\ Len(C) = c
      /\ (C # <<>> => C[Len(C)] = Slash) /\ u \in Seq(Char) /\ x = Cat(C, u)
      /\ (C = <<>> => ~Absolute(x))
  BY TextIs
<1>2. o.files[x].includes \in Seq(Includable)
  BY <1>1 DEF Asked, Reached, FilesType
<1>3. path \in Includable /\ o.files[x].includes # <<>>
  BY <1>2
<1>4. C # <<>> => IsNormal(x)
  BY <1>3 DEF Safe
<1>5. u # <<>>
  OBVIOUS
<1> HIDE DEF path, C, u
<1>6. /\ ~ClimbsOut(Cat(C, u), path, Parts(C)) => Join(Cat(C, u), path) = Cat(C, Join(u, path))
      /\ C = <<>> \/ IsNormal(Cat(C, Join(u, path))) => ~ClimbsOut(Cat(C, u), path, Parts(C))
      /\ Join(u, path) \in Seq(Char) /\ Join(u, path) # <<>>
  BY <1>1, <1>3, <1>4, <1>5, IncludeBelow
<1>7. Rest(Len(C), Cat(C, Join(u, path))) = Join(u, path)
  BY <1>1, <1>6, RestOfCat
<1>8. /\ ~ClimbsOut(x, path, Parts(C)) => Join(x, path) = Cat(C, Join(u, path))
      /\ C = <<>> \/ IsNormal(Cat(C, Join(u, path))) => ~ClimbsOut(x, path, Parts(C))
      /\ Join(u, path) \in Seq(Char) /\ Join(u, path) # <<>>
      /\ Rest(c, Cat(C, Join(u, path))) = Join(u, path)
  BY <1>1, <1>6, <1>7
<1> QED
  BY <1>8 DEF path, C, u

(* Nothing is reached that has no name.                                    *)
LEMMA ReachedAreNamed ==
  ASSUME NEW F, NEW e, NEW V, Reached(F, e, V)
  PROVE  <<>> \notin V
<1> DEFINE X == Seq(Char) \ {<<>>}
<1>1. e \in X
  BY DEF Reached
<1>2. Closed(F, X)
  <2> SUFFICES ASSUME NEW name \in X, name \in DOMAIN F, NEW n \in DOMAIN F[name].includes
               PROVE  Join(name, F[name].includes[n]) \in X
    BY DEF Closed
  <2>1. F[name].includes \in Seq(Includable) /\ name \in Seq(Char)
    BY DEF Reached, FilesType
  <2>2. F[name].includes[n] \in Includable
    BY <2>1
  <2> QED
    BY <2>1, <2>2, JoinType
<1> HIDE DEF X
<1>3. V \subseteq X
  BY <1>1, <1>2 DEF Reached
<1> QED
  BY <1>3 DEF X

(* If a Thrift is made of the sources it has what the other had.           *)
LEMMA ComesBack ==
  ASSUME NEW o, NEW c, NEW F, NEW e, NEW list, Asked(o), GivenOf(o, c, F, e, list), Like(o.keys),
         Safe(o, c), o.entry \in TextsOf(o), NEW V, Reached(F, e, V)
  PROVE  Whole(o, c) /\ V = {Rest(c, name) : name \in o.visited}
<1> DEFINE C == Dir(o, c)
           X == {x \in TextsOf(o) : Rest(c, x) \in V}
           Y == {Rest(c, name) : name \in o.visited}
<1>0. Cut(o.keys, c) /\ e = Rest(c, o.entry) /\ Reached(o.files, o.entry, o.visited)
  BY DEF GivenOf, Asked
<1>1. /\ V \subseteq DOMAIN F /\ e \in V /\ e # <<>> /\ Closed(F, V)
      /\ \A Z : e \in Z /\ Closed(F, Z) => V \subseteq Z
  BY DEF Reached
<1>2. <<>> \notin V
  BY ReachedAreNamed
<1>3. ASSUME NEW x \in X, NEW n \in DOMAIN o.files[x].includes
      PROVE  LET path == o.files[x].includes[n]
             IN  /\ ~ClimbsOut(x, path, Parts(C)) /\ Join(x, path) \in X
                 /\ Rest(c, Join(x, path)) = Join(Rest(c, x), path)
                 /\ F[Rest(c, x)].includes = o.files[x].includes
  <2> DEFINE path == o.files[x].includes[n]
             u == Rest(c, x)
             y == Cat(C, Join(u, path))
  <2>1. x \in TextsOf(o) /\ u \in V /\ u # <<>> /\ u \in DOMAIN F
    BY <1>1, <1>2
  <2>2. F[u].includes = o.files[x].includes
    BY <2>1, ShorterIsLike
  <2>3. Join(u, path) \in V
    BY <1>1, <2>1, <2>2 DEF Closed
  <2>4. y \in TextsOf(o) /\ Rest(c, y) = Join(u, path)
    BY <1>1, <2>3, NameOfText
  <2>5. o.files[x].includes \in Seq(Includable) /\ o.files[x].includes # <<>>
    <3>1. x \in DOMAIN o.files
      BY <1>0, <2>1, TextIs
    <3>2. o.files[x].includes \in Seq(Includable)
      BY <1>0, <3>1 DEF Reached, FilesType
    <3> QED
      BY <3>2
  <2>6. C = <<>> \/ IsNormal(y)
    BY <2>1, <2>4, <2>5 DEF Safe
  <2>7. /\ ~ClimbsOut(x, path, Parts(C)) => Join(x, path) = y
        /\ C = <<>> \/ IsNormal(y) => ~ClimbsOut(x, path, Parts(C))
    BY <1>0, <2>1, TextIncludes
  <2> HIDE DEF y, u, path, C
  <2>8. ~ClimbsOut(x, path, Parts(C)) /\ Join(x, path) = y
    BY <2>6, <2>7
  <2>9. y \in X
    BY <2>3, <2>4
  <2> QED
    BY <2>2, <2>4, <2>8, <2>9 DEF path, C, u
<1>4. o.entry \in X
  BY <1>0, <1>1
<1>5. Closed(o.files, X)
  BY <1>3 DEF Closed
<1>6. o.visited \subseteq X
  <2> HIDE DEF X
  <2> QED
    BY <1>0, <1>4, <1>5 DEF Reached
<1>7. Whole(o, c)
  <2>1. o.entry # C
    <3> SUFFICES ASSUME o.entry = C PROVE FALSE
      OBVIOUS
    <3>1. C \in Seq(Char) /\ Len(C) = c /\ Rest(c, C) = e
      BY <1>0, TextIs
    <3> HIDE DEF C
    <3>2. Cat(C, <<>>) = C /\ Rest(Len(C), Cat(C, <<>>)) = <<>>
      <4>1. <<>> \in Seq(Char)
        OBVIOUS
      <4> QED
        BY <3>1, <4>1, CatEmpty, RestOfCat
    <3> QED
      BY <1>1, <3>1, <3>2
  <2>2. \A name \in o.visited : \A n \in DOMAIN o.files[name].includes :
           ~ClimbsOut(name, o.files[name].includes[n], Parts(C))
    <3> HIDE DEF X
    <3> QED
      BY <1>3, <1>6
  <2> QED
    BY <1>6, <2>1, <2>2 DEF Whole
<1>8. Y \subseteq V
  BY <1>6
<1>9. e \in Y
  BY <1>0 DEF Reached
<1>10. Closed(F, Y)
  <2> SUFFICES ASSUME NEW x \in o.visited, NEW n \in DOMAIN F[Rest(c, x)].includes
               PROVE  Join(Rest(c, x), F[Rest(c, x)].includes[n]) \in Y
    BY DEF Closed
  <2>1. x \in X /\ x \in TextsOf(o) /\ Rest(c, x) \in DOMAIN F
    BY <1>1, <1>6
  <2>2. F[Rest(c, x)].includes = o.files[x].includes
    BY <2>1, ShorterIsLike
  <2> DEFINE path == o.files[x].includes[n]
  <2>3. n \in DOMAIN o.files[x].includes /\ x \in DOMAIN o.files
    BY <1>0, <2>1, <2>2, TextIs
  <2>4. Join(x, path) \in o.visited
    BY <1>0, <2>3 DEF Reached, Closed
  <2> HIDE DEF X
  <2>5. Rest(c, Join(x, path)) = Join(Rest(c, x), path)
    BY <1>3, <2>1, <2>3
  <2> QED
    BY <2>2, <2>4, <2>5
<1>11. V \subseteq Y
  <2> HIDE DEF Y
  <2> QED
    BY <1>1, <1>9, <1>10
<1> QED
  BY <1>7, <1>8, <1>11

(* If one cannot be made of them the other was not made of texts alone.    *)
LEMMA CanBeMade ==
  ASSUME NEW o, NEW c, NEW F, NEW e, NEW list, Asked(o), GivenOf(o, c, F, e, list), Like(o.keys),
         Safe(o, c), Whole(o, c),
         NEW name, \A X : e \in X /\ Closed(F, X) => name \in X
  PROVE  e # <<>> /\ name \in DOMAIN F /\ \E x \in o.visited : name = Rest(c, x)
<1> DEFINE C == Dir(o, c)
           W == o.visited \ {C}
           Y == {Rest(c, x) : x \in o.visited}
<1>0. /\ Cut(o.keys, c) /\ e = Rest(c, o.entry)
      /\ o.entry \in o.visited /\ Closed(o.files, o.visited)
      /\ \A X : o.entry \in X /\ Closed(o.files, X) => o.visited \subseteq X
      /\ \A n \in DOMAIN o.keys : o.keys[n] \in o.visited => Rest(c, o.keys[n]) \in DOMAIN F
      /\ FilesType(o.files)
  BY DEF GivenOf, Asked, Reached
<1>1. /\ o.visited \subseteq TextsOf(o) /\ o.entry # C
      /\ \A x \in o.visited : \A n \in DOMAIN o.files[x].includes :
            ~ClimbsOut(x, o.files[x].includes[n], Parts(C))
  BY DEF Whole
<1>2. C \in Seq(Char)
  BY <1>0, <1>1, TextIs
<1>3. ASSUME NEW x \in o.visited, x # C
      PROVE  /\ Rest(c, x) # <<>> /\ x \in DOMAIN o.files
             /\ \A n \in DOMAIN o.files[x].includes :
                  LET path == o.files[x].includes[n]
                  IN  Join(x, path) \in W /\ Rest(c, Join(x, path)) = Join(Rest(c, x), path)
  <2>1. x \in TextsOf(o) /\ x \in DOMAIN o.files /\ x = Cat(C, Rest(c, x))
    BY <1>0, <1>1, TextIs
  <2>2. Rest(c, x) # <<>>
    <3> SUFFICES ASSUME Rest(c, x) = <<>> PROVE FALSE
      OBVIOUS
    <3> HIDE DEF C
    <3>1. x = C
      BY <1>2, <2>1, CatEmpty
    <3> QED
      BY <1>3, <3>1
  <2>3. ASSUME NEW n \in DOMAIN o.files[x].includes
        PROVE  LET path == o.files[x].includes[n]
               IN  Join(x, path) \in W /\ Rest(c, Join(x, path)) = Join(Rest(c, x), path)
    <3> DEFINE path == o.files[x].includes[n]
               u == Join(Rest(c, x), path)
    <3>1. Join(x, path) \in o.visited
      BY <1>0, <2>1 DEF Closed
    <3>2. /\ ~ClimbsOut(x, path, Parts(C)) => Join(x, path) = Cat(C, u)
          /\ u # <<>> /\ Rest(c, Cat(C, u)) = u
      BY <1>0, <2>1, <2>2, TextIncludes
    <3>3. Join(x, path) = Cat(C, u)
      BY <1>1, <3>2
    <3>4. Cat(C, u) # C
      <4> SUFFICES ASSUME Cat(C, u) = C PROVE FALSE
        OBVIOUS
      <4>1. C \in Seq(Char) /\ Len(C) = c /\ <<>> \in Seq(Char)
        BY <1>0, <2>1, TextIs
      <4> HIDE DEF C, u
      <4>2. Rest(c, C) = <<>>
        <5>1. Cat(C, <<>>) = C
          BY <4>1, CatEmpty
        <5>2. Rest(Len(C), Cat(C, <<>>)) = <<>>
          BY <4>1, RestOfCat
        <5> QED
          BY <4>1, <5>1, <5>2
      <4> QED
        BY <3>2, <4>2
    <3> HIDE DEF C, u, path
    <3>5. Join(x, path) \in W /\ Rest(c, Join(x, path)) = u
      BY <3>1, <3>2, <3>3, <3>4
    <3> QED
      BY <3>5 DEF u, path
  <2> QED
    BY <2>1, <2>2, <2>3
<1>4. o.visited \subseteq W
  <2>1. o.entry \in W
    BY <1>0, <1>1
  <2>2. Closed(o.files, W)
    BY <1>3 DEF Closed
  <2> HIDE DEF W
  <2> QED
    BY <1>0, <2>1, <2>2
<1>5. \A x \in o.visited : x # C
  BY <1>4
<1>6. e # <<>>
  BY <1>0, <1>3, <1>5
<1>7. Y \subseteq DOMAIN F
  BY <1>0, <1>1 DEF TextsOf
<1>8. e \in Y
  BY <1>0
<1>9. Closed(F, Y)
  <2> SUFFICES ASSUME NEW x \in o.visited, NEW n \in DOMAIN F[Rest(c, x)].includes
               PROVE  Join(Rest(c, x), F[Rest(c, x)].includes[n]) \in Y
    BY DEF Closed
  <2>1. x \in TextsOf(o) /\ Rest(c, x) \in DOMAIN F
    BY <1>1, <1>7
  <2>2. F[Rest(c, x)].includes = o.files[x].includes
    BY <2>1, ShorterIsLike
  <2> HIDE DEF W
  <2>3. n \in DOMAIN o.files[x].includes
    BY <2>2
  <2>4. Join(x, o.files[x].includes[n]) \in o.visited
    BY <1>0, <1>3, <1>5, <2>3 DEF Closed
  <2>5. Rest(c, Join(x, o.files[x].includes[n])) = Join(Rest(c, x), o.files[x].includes[n])
    BY <1>3, <1>5, <2>3
  <2> QED
    BY <2>2, <2>4, <2>5
<1>10. name \in Y
  <2> HIDE DEF Y
  <2> QED
    BY <1>8, <1>9
<1> QED
  BY <1>6, <1>7, <1>10

(* No directory is left to take off.                                       *)
LEMMA NothingLeft ==
  ASSUME NEW o, NEW c, Asked(o), Cut(o.keys, c), Like(o.keys),
         NEW list, ShorterKeys(o, c, list),
         NEW d, Cut(list, d), Like(list)
  PROVE  d = 0
<1> DEFINE all == o.keys
<1>1. all \in Seq(Seq(Char)) /\ Len(all) \in Nat /\ DOMAIN all = 1 .. Len(all) /\ 1 \in 1 .. Len(all)
  BY DEF Asked
<1>2. Cut(all, c) /\ Like(all)
  OBVIOUS
<1>3. list = [n \in DOMAIN all |-> Rest(c, all[n])]
  BY DEF ShorterKeys
<1> HIDE DEF all
<1>4. \A s \in 1 .. Len(all) : all[s] \in Seq(Char) /\ Len(all[s]) \in Nat
  BY <1>1
<1>5. /\ c \in Nat /\ \A s \in 1 .. Len(all) : c <= Len(all[s]) /\ Agree(all[s], all[1], c)
      /\ \A k \in c + 1 .. Len(all[1]) : all[1][k] = Slash => ~Shared(all, k)
  BY <1>2 DEF Cut, Shared
<1>6. Len(list) = Len(all) /\ \A s \in 1 .. Len(all) : list[s] = Rest(c, all[s])
  <2>1. Len(list) = Len(all)
    BY <1>1, <1>3
  <2>2. \A s \in 1 .. Len(all) : list[s] = Rest(c, all[s])
    BY <1>1, <1>3
  <2> QED
    BY <2>1, <2>2
<1>7. ASSUME NEW s \in 1 .. Len(all)
      PROVE  /\ Len(list[s]) = Len(all[s]) - c
             /\ \A k \in 1 .. Len(all[s]) - c : list[s][k] = all[s][c + k]
  <2>1. c \in 0 .. Len(all[s]) /\ all[s] \in Seq(Char)
    BY <1>4, <1>5
  <2>2. Len(Rest(c, all[s])) = Len(all[s]) - c
        /\ \A k \in 1 .. Len(all[s]) - c : Rest(c, all[s])[k] = all[s][c + k]
    BY <2>1, RestIs
  <2> QED
    BY <1>6, <2>2
<1> SUFFICES ASSUME d # 0 PROVE FALSE
  OBVIOUS
<1>8. d \in Nat /\ d > 0 /\ Shared(list, d) /\ list[1][d] = Slash
  BY DEF Cut
<1>9. \A s \in 1 .. Len(all) : d <= Len(list[s]) /\ Agree(list[s], list[1], d)
  BY <1>6, <1>8 DEF Shared
<1>10. ASSUME NEW s \in 1 .. Len(all) PROVE c + d <= Len(all[s])
  <2>1. Len(all[s]) \in Nat /\ d <= Len(all[s]) - c
    BY <1>4, <1>7, <1>9
  <2> DEFINE l == Len(all[s])
  <2> HIDE DEF l
  <2>2. l \in Nat /\ d <= l - c /\ c \in Nat /\ d \in Nat
    BY <1>5, <1>8, <2>1 DEF l
  <2>3. c + d <= l
    BY <2>2
  <2> QED
    BY <2>3 DEF l
<1>11. all[1][c + d] = Slash /\ c + d \in c + 1 .. Len(all[1])
  <2> DEFINE l == Len(all[1])
  <2> HIDE DEF l
  <2>1. l \in Nat /\ c \in Nat /\ d \in Nat /\ d > 0 /\ c + d <= l
    BY <1>1, <1>4, <1>5, <1>8, <1>10 DEF l
  <2>2. d \in 1 .. l - c /\ c + d \in c + 1 .. l
    BY <2>1
  <2>3. list[1][d] = all[1][c + d]
    BY <1>1, <1>7, <2>2 DEF l
  <2> QED
    BY <1>8, <2>2, <2>3 DEF l
<1>12. ASSUME NEW s \in 1 .. Len(all) PROVE Agree(all[s], all[1], c + d)
  <2> SUFFICES ASSUME NEW k \in 1 .. c + d PROVE all[s][k] = all[1][k]
    BY DEF Agree
  <2>1. CASE k <= c
    <3>1. k \in 1 .. c
      BY <1>5, <1>8, <2>1
    <3> QED
      BY <1>5, <3>1 DEF Agree
  <2>2. CASE ~(k <= c)
    <3> DEFINE m == k - c
    <3>1. m \in 1 .. d /\ k = c + m /\ m \in 1 .. Len(all[s]) - c /\ m \in 1 .. Len(all[1]) - c
      BY <1>1, <1>4, <1>5, <1>8, <1>10, <2>2
    <3> HIDE DEF m
    <3>2. list[s][m] = all[s][c + m] /\ list[1][m] = all[1][c + m]
      BY <1>1, <1>7, <3>1
    <3>3. list[s][m] = list[1][m]
      BY <1>9, <3>1 DEF Agree
    <3> QED
      BY <3>1, <3>2, <3>3
  <2> QED
    BY <2>1, <2>2
<1>13. Shared(all, c + d)
  BY <1>10, <1>12 DEF Shared
<1> QED
  BY <1>5, <1>11, <1>13

-----------------------------------------------------------------------------
(* What has still to be visited.                                           *)
Pending == {todo[n] : n \in DOMAIN todo}

States ==
    /\ FilesType(files)
    /\ keys \in Seq(Seq(Char)) /\ \A n \in DOMAIN keys : keys[n] \in DOMAIN files
    /\ entry \in Seq(Char) /\ (phase # "refused" => entry # <<>>)
    /\ visited \subseteq DOMAIN files /\ \A name \in visited : Found(name)
    /\ todo \in Seq(Seq(Char))
    /\ phase \in {"load", "made", "asked", "refused", "thrown"}
    /\ phase \in {"made", "asked", "thrown"} => todo = <<>>
    /\ phase = "asked" => strings = keys
    /\ phase = "thrown" => keys = <<>>
    /\ generation \in Nat

(* Nothing that is included is forgotten, and nothing else is visited.     *)
Spreads ==
    phase # "refused" =>
        /\ entry \in visited \cup Pending
        /\ \A name \in visited : \A n \in DOMAIN files[name].includes :
              Join(name, files[name].includes[n]) \in visited \cup Pending
Needed ==
    \A X : entry \in X /\ Closed(files, X) => visited \subseteq X /\ Pending \subseteq X
Refusal == phase = "refused" => entry = <<>> \/ (todo # <<>> /\ ~Found(todo[1]))

(* Of a Thrift that is not the first: what it is made of, and by which     *)
(* directory.                                                              *)
MadeBy(c) ==
    /\ GivenOf(origin, c, files, entry, keys)
    /\ phase \in {"load", "made", "refused"} =>
          /\ strings = origin.keys /\ end = c - 1
          /\ \A name \in DOMAIN files : files[name].how = IF trees THEN "ast" ELSE "idl"
Inherits == generation > 1 => Asked(origin) /\ \E c \in Nat : MadeBy(c)

RoundTripInv == IInv /\ States /\ Spreads /\ Needed /\ Refusal /\ Inherits

(* A Thrift that is made of the options.                                   *)
LEMMA InitiallyGood == RoundTripInit => RoundTripInv
<1> SUFFICES ASSUME RoundTripInit PROVE RoundTripInv
  OBVIOUS
<1>1. PICK program \in Programs :
        /\ files = program.files /\ entry = program.entry /\ keys = program.texts
        /\ todo = <<program.entry>> /\ strings = <<program.entry>>
        /\ length = Len(program.entry)
  BY DEF RoundTripInit
<1>2. /\ visited = {} /\ phase = "load" /\ generation = 1
      /\ i = 1 /\ j = 0 /\ comparing = FALSE /\ end = Unset
  BY DEF RoundTripInit
<1>3. /\ keys \in Seq(Seq(Char))
      /\ {keys[n] : n \in DOMAIN keys} = {name \in DOMAIN files : files[name].how = "idl"}
      /\ entry \in Seq(Char) /\ entry # <<>>
  BY <1>1, ProgramsAssumption
<1>4. FilesType(files)
  <2> SUFFICES ASSUME NEW name \in DOMAIN files
               PROVE  name \in Seq(Char) /\ files[name].includes \in Seq(Includable)
    BY DEF FilesType
  <2>1. name \in Seq(Char) /\ files[name] \in [how : {"idl", "ast", "file"},
                                              includes : Seq(Includable), empty : BOOLEAN]
    BY <1>1, ProgramsAssumption
  <2> QED
    BY <2>1
<1>5. todo \in Seq(Seq(Char)) /\ todo = <<entry>> /\ strings = <<entry>> /\ length = Len(entry)
  BY <1>1, <1>3
<1>6. Fresh
  BY <1>2, <1>3, <1>5 DEF Fresh, longest
<1>7. IInv
  BY <1>6, FreshIsGood
<1>8. States
  <2>1. \A n \in DOMAIN keys : keys[n] \in DOMAIN files
    BY <1>3
  <2> QED
    BY <1>2, <1>3, <1>4, <1>5, <2>1 DEF States
<1>9. Pending = {entry}
  BY <1>5 DEF Pending
<1>10. Spreads /\ Needed /\ Refusal /\ Inherits
  BY <1>2, <1>9 DEF Spreads, Needed, Refusal, Inherits
<1> QED
  BY <1>7, <1>8, <1>10 DEF RoundTripInv

(* The walk goes on.                                                       *)
LEMMA CommonKept == IInv /\ UNCHANGED commonVars => IInv'
<1> SUFFICES ASSUME IInv, UNCHANGED commonVars PROVE IInv'
  OBVIOUS
<1>1. UNCHANGED vars
  BY DEF commonVars, vars
<1> QED
  BY <1>1, StepKeepsInvariant

(* What is found, and of what a Thrift was made, stays known while nothing *)
(* it depends on changes.                                                  *)
LEMMA FoundKept == UNCHANGED files => \A name : Found(name)' <=> Found(name)
BY DEF Found

LEMMA InheritsKept ==
  ASSUME Inherits, UNCHANGED <<generation, origin, files, entry, keys, trees, strings, end>>,
         phase' \in {"load", "made", "refused"} => phase \in {"load", "made", "refused"}
  PROVE  Inherits'
<1> SUFFICES ASSUME generation > 1 PROVE Asked(origin) /\ \E c \in Nat : MadeBy(c)'
  BY DEF Inherits
<1>1. PICK c \in Nat : MadeBy(c)
  BY DEF Inherits
<1>2. MadeBy(c)'
  BY <1>1 DEF MadeBy
<1> QED
  BY <1>2 DEF Inherits

(* loadSync passes over a file, finds none or visits one.                  *)
LEMMA VisitKeeps == RoundTripInv /\ Visit => RoundTripInv'
<1> SUFFICES ASSUME RoundTripInv, Visit PROVE RoundTripInv'
  OBVIOUS
<1> DEFINE name == Head(todo)
<1>1. /\ IInv /\ States /\ Spreads /\ Needed /\ Refusal /\ Inherits
  BY DEF RoundTripInv
<1>2. /\ phase = "load" /\ todo # <<>>
      /\ UNCHANGED <<files, entry, trees, generation, origin, commonVars>>
      /\ UNCHANGED <<strings, end>>
  BY DEF Visit, commonVars
<1>3. IInv'
  BY <1>1, <1>2, CommonKept
<1>0. \A other : Found(other)' <=> Found(other)
  BY <1>2, FoundKept
<1>4. /\ todo \in Seq(Seq(Char)) /\ name \in Seq(Char) /\ name = todo[1]
      /\ Tail(todo) \in Seq(Seq(Char)) /\ 1 \in DOMAIN todo /\ DOMAIN todo = 1 .. Len(todo)
      /\ Len(Tail(todo)) = Len(todo) - 1 /\ DOMAIN Tail(todo) = 1 .. Len(Tail(todo))
      /\ \A n \in 1 .. Len(Tail(todo)) : Tail(todo)[n] = todo[n + 1]
  <2>1. todo \in Seq(Seq(Char))
    BY <1>1 DEF States
  <2> QED
    BY <1>2, <2>1, HeadTailProperties
<1> DEFINE rest == {Tail(todo)[n] : n \in DOMAIN Tail(todo)}
<1>5. Pending = {name} \cup rest
  <2>1. rest \subseteq Pending
    BY <1>4 DEF Pending
  <2>2. ASSUME NEW n \in DOMAIN todo, n # 1 PROVE todo[n] \in rest
    <3>1. n - 1 \in 1 .. Len(Tail(todo)) /\ n - 1 + 1 = n
      BY <1>4, <2>2
    <3> QED
      BY <1>4, <3>1
  <2>3. Pending \subseteq {name} \cup rest
    BY <1>4, <2>2 DEF Pending
  <2>4. name \in Pending
    BY <1>4 DEF Pending
  <2> QED
    BY <2>1, <2>3, <2>4
<1> HIDE DEF name
<1>6. CASE name \in visited
  <2>1. todo' = Tail(todo) /\ keys' = keys /\ visited' = visited /\ phase' = phase
    BY <1>6 DEF Visit, name
  <2>2. Pending' = rest
    BY <2>1 DEF Pending
  <2> HIDE DEF rest
  <2>3. States'
    BY <1>0, <1>1, <1>2, <1>4, <2>1 DEF States
  <2>4. Spreads'
    BY <1>1, <1>2, <1>5, <1>6, <2>1, <2>2 DEF Spreads
  <2>5. Needed'
    BY <1>1, <1>2, <1>5, <2>1, <2>2 DEF Needed
  <2>6. Refusal'
    BY <1>2, <2>1 DEF Refusal
  <2>7. Inherits'
    BY <1>1, <1>2, <2>1, InheritsKept
  <2> QED
    BY <1>3, <2>3, <2>4, <2>5, <2>6, <2>7 DEF RoundTripInv
<1>7. CASE name \notin visited /\ ~Found(name)
  <2>1. todo' = todo /\ keys' = keys /\ visited' = visited /\ phase' = "refused"
    BY <1>7 DEF Visit, name
  <2>2. Pending' = Pending
    BY <2>1 DEF Pending
  <2>3. States'
    BY <1>0, <1>1, <1>2, <2>1 DEF States
  <2>4. Spreads' /\ Refusal'
    BY <1>0, <1>2, <1>4, <1>7, <2>1 DEF Spreads, Refusal
  <2>5. Needed'
    BY <1>1, <1>2, <2>1, <2>2 DEF Needed
  <2>6. Inherits'
    BY <1>1, <1>2, <2>1, InheritsKept
  <2> QED
    BY <1>3, <2>3, <2>4, <2>5, <2>6 DEF RoundTripInv
<1>8. CASE name \notin visited /\ Found(name)
  <2>0. name \in DOMAIN files
    BY <1>8 DEF Found
  <2> DEFINE paths == files[name].includes
             more == [n \in DOMAIN paths |-> Join(name, paths[n])]
             new == {more[n] : n \in DOMAIN more}
  <2>1. /\ visited' = visited \cup {name} /\ phase' = phase
        /\ keys' = IF files[name].how = "file" THEN Append(keys, name) ELSE keys
        /\ todo' = more \o Tail(todo)
    BY <1>8 DEF Visit, name
  <2>2. paths \in Seq(Includable)
    BY <1>1, <2>0 DEF States, FilesType
  <2>3. ASSUME NEW n \in DOMAIN paths PROVE Join(name, paths[n]) \in Seq(Char)
    <3>1. paths[n] \in Includable
      BY <2>2
    <3> QED
      BY <1>4, <3>1, JoinType
  <2>4. more \in Seq(Seq(Char)) /\ DOMAIN more = DOMAIN paths
    <3>1. DOMAIN paths = 1 .. Len(paths) /\ Len(paths) \in Nat
      BY <2>2
    <3>2. more \in [1 .. Len(paths) -> Seq(Char)]
      BY <2>3, <3>1
    <3> QED
      BY <3>1, <3>2, SeqDef
  <2>5. /\ todo' \in Seq(Seq(Char))
        /\ Pending' = new \cup rest
    <3> DEFINE tail == Tail(todo)
               w == more \o tail
    <3>1. /\ w \in Seq(Seq(Char)) /\ Len(w) = Len(more) + Len(tail)
          /\ \A n \in 1 .. Len(more) + Len(tail) :
                w[n] = IF n <= Len(more) THEN more[n] ELSE tail[n - Len(more)]
          /\ Len(more) \in Nat /\ Len(tail) \in Nat
          /\ DOMAIN more = 1 .. Len(more) /\ DOMAIN tail = 1 .. Len(tail)
          /\ DOMAIN w = 1 .. Len(w)
      <4> HIDE DEF more
      <4>1. more \in Seq(Seq(Char)) /\ tail \in Seq(Seq(Char))
        BY <1>4, <2>4
      <4> QED
        BY <4>1, ConcatProperties
    <3>2. rest = {tail[n] : n \in DOMAIN tail}
      OBVIOUS
    <3>3. todo' = w
      BY <2>1
    <3> HIDE DEF w, more, tail, rest
    <3>4. \A n \in DOMAIN w : w[n] \in new \cup rest
      <4> SUFFICES ASSUME NEW n \in 1 .. Len(w) PROVE w[n] \in new \cup rest
        BY <3>1
      <4>1. CASE n <= Len(more)
        <5>1. n \in 1 .. Len(more) /\ w[n] = more[n]
          BY <3>1, <4>1
        <5> QED
          BY <3>1, <5>1
      <4>2. CASE ~(n <= Len(more))
        <5>1. n - Len(more) \in 1 .. Len(tail) /\ w[n] = tail[n - Len(more)]
          BY <3>1, <4>2
        <5> QED
          BY <3>1, <3>2, <5>1
      <4> QED
        BY <4>1, <4>2
    <3>5. \A n \in 1 .. Len(more) : n \in 1 .. Len(w) /\ w[n] = more[n]
      BY <3>1
    <3>6. ASSUME NEW n \in 1 .. Len(tail)
          PROVE  Len(more) + n \in 1 .. Len(w) /\ w[Len(more) + n] = tail[n]
      <4>1. /\ Len(more) + n \in 1 .. Len(more) + Len(tail) /\ ~(Len(more) + n <= Len(more))
            /\ Len(more) + n - Len(more) = n
        BY <3>1
      <4> QED
        BY <3>1, <4>1
    <3>7. new \cup rest \subseteq {w[n] : n \in DOMAIN w}
      <4>1. new \subseteq {w[n] : n \in DOMAIN w}
        BY <3>1, <3>5
      <4>2. rest \subseteq {w[n] : n \in DOMAIN w}
        BY <3>1, <3>2, <3>6
      <4> QED
        BY <4>1, <4>2
    <3>8. Pending' = {w[n] : n \in DOMAIN w}
      BY <3>3 DEF Pending
    <3> QED
      BY <3>1, <3>3, <3>4, <3>7, <3>8
  <2>6. new = {Join(name, paths[n]) : n \in DOMAIN paths}
    BY <2>4
  <2> HIDE DEF rest, more, new, paths
  <2>7. States'
    <3>1. keys' \in Seq(Seq(Char)) /\ \A n \in DOMAIN keys' : keys'[n] \in DOMAIN files
      <4>1. CASE files[name].how # "file"
        BY <1>1, <2>1, <4>1 DEF States
      <4>2. CASE files[name].how = "file"
        <5>1. keys \in Seq(Seq(Char)) /\ \A n \in DOMAIN keys : keys[n] \in DOMAIN files
          BY <1>1 DEF States
        <5>2. keys' = Add(keys, name)
          BY <2>1, <4>2 DEF Add
        <5>3. IsAdd(Seq(Char), keys, name, Add(keys, name))
          BY <1>4, <5>1, AddIs
        <5> DEFINE l == Add(keys, name)
        <5> HIDE DEF l
        <5>4. l \in Seq(Seq(Char)) /\ DOMAIN l = 1 .. Len(l) /\ Len(l) = Len(keys) + 1
              /\ l[Len(keys) + 1] = name /\ (\A n \in 1 .. Len(keys) : l[n] = keys[n])
              /\ Len(keys) \in Nat /\ DOMAIN keys = 1 .. Len(keys)
          <6>1. l \in Seq(Seq(Char)) /\ Len(l) = Len(keys) + 1 /\ l[Len(keys) + 1] = name
                /\ \A n \in 1 .. Len(keys) : l[n] = keys[n]
            BY <5>3 DEF IsAdd, l
          <6> QED
            BY <5>1, <6>1
        <5>5. ASSUME NEW n \in DOMAIN l PROVE l[n] \in DOMAIN files
          <6>1. CASE n = Len(keys) + 1
            BY <2>0, <5>4, <6>1
          <6>2. CASE n # Len(keys) + 1
            <7>1. n \in 1 .. Len(keys)
              BY <5>4, <6>2
            <7> QED
              BY <5>1, <5>4, <7>1
          <6> QED
            BY <6>1, <6>2
        <5> QED
          BY <5>2, <5>4, <5>5 DEF l
      <4> QED
        BY <4>1, <4>2
    <3> QED
      BY <1>0, <1>1, <1>2, <1>8, <2>0, <2>1, <2>5, <3>1 DEF States
  <2>8. Spreads'
    <3>1. entry \in visited' \cup Pending'
      BY <1>1, <1>2, <1>5, <2>1, <2>5 DEF Spreads
    <3>2. ASSUME NEW other \in visited', NEW n \in DOMAIN files[other].includes
          PROVE  Join(other, files[other].includes[n]) \in visited' \cup Pending'
      <4>1. CASE other = name
        BY <2>5, <2>6, <4>1 DEF paths
      <4>2. CASE other # name
        <5>1. Join(other, files[other].includes[n]) \in visited \cup Pending
          BY <1>1, <1>2, <2>1, <4>2 DEF Spreads
        <5> QED
          BY <1>5, <2>1, <2>5, <5>1
      <4> QED
        BY <4>1, <4>2
    <3> QED
      BY <1>2, <3>1, <3>2 DEF Spreads
  <2>9. Needed'
    <3> SUFFICES ASSUME NEW X, entry \in X, Closed(files, X)
                 PROVE  visited' \subseteq X /\ Pending' \subseteq X
      BY <1>2 DEF Needed
    <3>1. visited \subseteq X /\ name \in X /\ rest \subseteq X
      BY <1>1, <1>5 DEF Needed
    <3>2. new \subseteq X
      BY <2>0, <2>6, <3>1 DEF Closed, paths
    <3> QED
      BY <2>1, <2>5, <3>1, <3>2
  <2>10. Refusal'
    BY <1>2, <2>1 DEF Refusal
  <2>11. Inherits'
    <3>1. CASE generation > 1
      <4>1. PICK c \in Nat : MadeBy(c)
        BY <1>1, <3>1 DEF Inherits
      <4>2. files[name].how # "file"
        BY <2>0, <4>1 DEF MadeBy, GivenOf
      <4> QED
        BY <1>1, <1>2, <2>1, <4>2, InheritsKept
    <3>2. CASE ~(generation > 1)
      BY <1>2, <3>2 DEF Inherits
    <3> QED
      BY <3>1, <3>2
  <2> QED
    BY <1>3, <2>7, <2>8, <2>9, <2>10, <2>11 DEF RoundTripInv
<1> QED
  BY <1>6, <1>7, <1>8

-----------------------------------------------------------------------------
(* The walk has ended.                                                     *)
LEMMA MakeKeeps == RoundTripInv /\ Make => RoundTripInv'
<1> SUFFICES ASSUME RoundTripInv, Make PROVE RoundTripInv'
  OBVIOUS
<1>1. IInv /\ States /\ Spreads /\ Needed /\ Refusal /\ Inherits
  BY DEF RoundTripInv
<1>2. /\ phase = "load" /\ todo = <<>> /\ phase' = "made"
      /\ UNCHANGED <<files, entry, keys, visited, todo, trees, generation, origin, commonVars>>
      /\ UNCHANGED <<strings, end>>
  BY DEF Make, commonVars
<1>3. IInv'
  BY <1>1, <1>2, CommonKept
<1>4. States' /\ Refusal'
  BY <1>1, <1>2, FoundKept DEF States, Refusal
<1>5. Pending' = Pending
  BY <1>2 DEF Pending
<1>6. Spreads'
  BY <1>1, <1>2, <1>5 DEF Spreads
<1>7. Needed'
  BY <1>1, <1>2, <1>5 DEF Needed
<1>8. Inherits'
  BY <1>1, <1>2, InheritsKept
<1> QED
  BY <1>3, <1>4, <1>6, <1>7, <1>8 DEF RoundTripInv

(* longestCommonPath is called anew.                                       *)
LEMMA FreshKept == Fresh' => IInv'
BY FreshIsGood, PTL

(* getSources and toJSON.                                                  *)
LEMMA AskKeeps == RoundTripInv /\ Ask => RoundTripInv'
<1> SUFFICES ASSUME RoundTripInv, Ask PROVE RoundTripInv'
  OBVIOUS
<1>1. IInv /\ States /\ Spreads /\ Needed /\ Refusal /\ Inherits
  BY DEF RoundTripInv
<1>2. /\ phase = "made" /\ phase' \in {"thrown", "asked"}
      /\ UNCHANGED <<files, entry, keys, visited, todo, generation, origin>>
      /\ (phase' = "asked" => keys # <<>> /\ CommonPathOf(keys))
      /\ (phase' = "thrown" => keys = <<>> /\ UNCHANGED commonVars)
  BY DEF Ask
<1>3. IInv'
  <2>1. CASE phase' = "thrown"
    BY <1>1, <1>2, <2>1, CommonKept
  <2>2. CASE phase' = "asked"
    <3>1. /\ strings' = keys /\ i' = 1 /\ j' = 0 /\ length' = Len(keys[1])
          /\ comparing' = FALSE /\ end' = Unset /\ keys # <<>>
      BY <1>2, <2>2 DEF CommonPathOf
    <3>2. keys \in Seq(Seq(Char))
      BY <1>1 DEF States
    <3>3. Fresh'
      BY <3>1, <3>2 DEF Fresh, longest, Unset
    <3> QED
      BY <3>3, FreshKept
  <2> QED
    BY <1>2, <2>1, <2>2
<1>4. States'
  BY <1>1, <1>2, FoundKept DEF States, CommonPathOf
<1>5. Pending' = Pending /\ Refusal'
  BY <1>2 DEF Pending, Refusal
<1>6. Spreads'
  BY <1>1, <1>2, <1>5 DEF Spreads
<1>7. Needed'
  BY <1>1, <1>2, <1>5 DEF Needed
<1>8. Inherits'
  <2> SUFFICES ASSUME generation > 1 PROVE Asked(origin) /\ \E c \in Nat : MadeBy(c)'
    BY <1>2 DEF Inherits
  <2>1. PICK c \in Nat : MadeBy(c)
    BY <1>1 DEF Inherits
  <2>2. MadeBy(c)'
    BY <1>2, <2>1 DEF MadeBy
  <2> QED
    BY <1>1, <2>2 DEF Inherits
<1> QED
  BY <1>3, <1>4, <1>5, <1>6, <1>7, <1>8 DEF RoundTripInv

(* longestCommonPath does not change the list.                             *)
LEMMA NextKeepsStrings == Next => strings' = strings
BY DEF Next, NextString, SameChar, EndOfPrefix, Slice

(* A step of longestCommonPath.                                            *)
LEMMA FindCommonPathKeeps == RoundTripInv /\ FindCommonPath => RoundTripInv'
<1> SUFFICES ASSUME RoundTripInv, FindCommonPath PROVE RoundTripInv'
  OBVIOUS
<1>1. IInv /\ States /\ Spreads /\ Needed /\ Refusal /\ Inherits
  BY DEF RoundTripInv
<1>2. /\ phase = "asked" /\ Next
      /\ UNCHANGED <<files, entry, keys, visited, todo, phase, trees, generation, origin>>
      /\ strings' = strings
  BY NextKeepsStrings DEF FindCommonPath, thriftVars
<1>3. IInv'
  BY <1>1, <1>2, StepKeepsInvariant
<1>4. States' /\ Refusal'
  BY <1>1, <1>2, FoundKept DEF States, Refusal
<1>5. Pending' = Pending
  BY <1>2 DEF Pending
<1>6. Spreads'
  BY <1>1, <1>2, <1>5 DEF Spreads
<1>7. Needed'
  BY <1>1, <1>2, <1>5 DEF Needed
<1>8. Inherits'
  <2> SUFFICES ASSUME generation > 1 PROVE Asked(origin) /\ \E c \in Nat : MadeBy(c)'
    BY <1>2 DEF Inherits
  <2>1. PICK c \in Nat : MadeBy(c)
    BY <1>1 DEF Inherits
  <2>2. MadeBy(c)'
    BY <1>2, <2>1 DEF MadeBy
  <2> QED
    BY <1>1, <2>2 DEF Inherits
<1> QED
  BY <1>3, <1>4, <1>6, <1>7, <1>8 DEF RoundTripInv

(* What longestCommonPath has found.                                       *)
LEMMA CutFound == IInv /\ end # Unset => end + 1 \in Nat /\ Cut(strings, end + 1)
<1> SUFFICES ASSUME IInv, end # Unset PROVE end + 1 \in Nat /\ Cut(strings, end + 1)
  OBVIOUS
<1>1. end \in -1 .. Len(longest) - 1 /\ Len(longest) \in Nat
  BY DEF IInv, TypeOK, longest
<1>2. end + 1 \in Nat /\ end + 1 + 1 = end + 2 /\ (end + 1 > 0 <=> end >= 0)
  BY <1>1
<1>3. DirectoryIsCommon /\ DirectoryIsLongest
  BY DirectoryKnown, LongestKnown
<1>4. Like(strings) => Shared(strings, end + 1) /\ (end + 1 > 0 => strings[1][end + 1] = Slash)
  <2> SUFFICES ASSUME Like(strings)
               PROVE  Shared(strings, end + 1) /\ (end + 1 > 0 => strings[1][end + 1] = Slash)
    OBVIOUS
  <2>1. Unmixed
    BY DEF Like, Unmixed
  <2>2. /\ Within(end + 1) /\ \A s \in 1 .. Len(strings) : Agree(strings[s], longest, end + 1)
        /\ (end >= 0) => (longest[end + 1] = Slash)
    BY <1>3, <2>1 DEF DirectoryIsCommon
  <2> QED
    BY <1>2, <2>2 DEF Shared, Within, longest
<1>5. \A k \in end + 1 + 1 .. Len(strings[1]) : strings[1][k] = Slash => ~Shared(strings, k)
  BY <1>2, <1>3 DEF DirectoryIsLongest, Shared, Within, longest
<1> QED
  BY <1>2, <1>4, <1>5 DEF Cut

(* A Thrift is made of the sources: what it is given is known by the       *)
(* directory that was found.                                               *)
LEMMA MakeOfSourcesKeeps == RoundTripInv /\ MakeOfSources => RoundTripInv'
<1> SUFFICES ASSUME RoundTripInv, MakeOfSources PROVE RoundTripInv'
  OBVIOUS
<1>1. IInv /\ States /\ Spreads /\ Needed /\ Refusal /\ Inherits
  BY DEF RoundTripInv
<1>2. /\ phase = "asked" /\ end # Unset /\ strings = keys /\ todo = <<>> /\ entry # <<>>
      /\ keys \in Seq(Seq(Char)) /\ (\A n \in DOMAIN keys : keys[n] \in DOMAIN files)
      /\ FilesType(files) /\ entry \in Seq(Char) /\ visited \subseteq DOMAIN files
      /\ generation \in Nat
  BY <1>1 DEF States, MakeOfSources
<1>3. /\ origin' = [files |-> files, entry |-> entry, keys |-> keys, visited |-> visited]
      /\ entry' = Shortened(entry) /\ visited' = {} /\ todo' = <<Shortened(entry)>>
      /\ keys' = IF trees THEN <<>> ELSE KeysGiven
      /\ phase' = IF Shortened(entry) = <<>> THEN "refused" ELSE "load"
      /\ generation' = generation + 1
      /\ UNCHANGED trees /\ UNCHANGED commonVars /\ UNCHANGED <<strings, end>>
  BY DEF MakeOfSources, EntryGiven, commonVars
<1>4. files' = [name \in {Shortened(key) : key \in Given} |->
                  LET key == CHOOSE key \in Given : Shortened(key) = name
                  IN  [how |-> IF trees THEN "ast" ELSE "idl",
                       includes |-> files[key].includes,
                       empty |-> IF trees THEN FALSE ELSE files[key].empty]]
  BY DEF MakeOfSources
<1>5. IInv'
  BY <1>1, <1>3, CommonKept
<1>0. PICK c \in Nat : c = end + 1
  BY <1>1, <1>2, CutFound
<1>6. c \in Nat /\ Cut(keys, c) /\ end = c - 1 /\ keys # <<>>
  <2>1. end \in Int /\ strings # <<>>
    BY <1>1, <1>2 DEF IInv, TypeOK
  <2>2. Cut(strings, end + 1)
    BY <1>1, <1>2, CutFound
  <2> QED
    BY <1>0, <1>2, <2>1, <2>2
<1>7. \A name : Shortened(name) = Rest(c, name)
  <2>1. c + 1 = end + 2
    BY <1>0, <1>6
  <2> QED
    BY <2>1 DEF Shortened, Rest
<1>8. Asked(origin') /\ origin'.keys = keys /\ origin'.files = files /\ origin'.entry = entry
      /\ origin'.visited = visited
  <2>1. /\ origin'.keys = keys /\ origin'.files = files /\ origin'.entry = entry
        /\ origin'.visited = visited
    BY <1>3
  <2>2. Pending = {}
    BY <1>2 DEF Pending
  <2>3. entry \in visited /\ Closed(files, visited)
    BY <1>1, <1>2, <2>2 DEF Spreads, Closed
  <2>4. \A X : entry \in X /\ Closed(files, X) => visited \subseteq X
    BY <1>1 DEF Needed
  <2>5. Reached(files, entry, visited)
    BY <1>2, <2>3, <2>4 DEF Reached
  <2> QED
    BY <1>2, <1>6, <2>1, <2>5 DEF Asked
<1>9. Given \subseteq DOMAIN files /\ Given \subseteq {keys[n] : n \in DOMAIN keys}
  BY <1>2 DEF Given
<1>10. DOMAIN files' = {Rest(c, key) : key \in Given}
  BY <1>4, <1>7
<1>11. ASSUME NEW name \in DOMAIN files'
       PROVE  /\ files'[name].how = IF trees THEN "ast" ELSE "idl"
              /\ \E key \in Given :
                    /\ Rest(c, key) = name /\ files'[name].includes = files[key].includes
                    /\ ~trees => files'[name].empty = files[key].empty
  <2> DEFINE key == CHOOSE key \in Given : Shortened(key) = name
  <2>1. \E k \in Given : Shortened(k) = name
    BY <1>7, <1>10
  <2>2. key \in Given /\ Shortened(key) = name
    BY <2>1
  <2>3. name \in {Shortened(k) : k \in Given}
    BY <2>1
  <2>4. files'[name] = [how |-> IF trees THEN "ast" ELSE "idl",
                        includes |-> files[key].includes,
                        empty |-> IF trees THEN FALSE ELSE files[key].empty]
    BY <1>4, <2>3
  <2> HIDE DEF key
  <2>5. ~trees => files'[name].empty = files[key].empty
    <3> SUFFICES ASSUME ~trees PROVE files'[name].empty = files[key].empty
      OBVIOUS
    <3> QED
      BY <2>4
  <2>6. /\ files'[name].how = IF trees THEN "ast" ELSE "idl"
        /\ files'[name].includes = files[key].includes
    BY <2>4
  <2> QED
    BY <1>7, <2>2, <2>5, <2>6
<1>12. FilesType(files')
  <2> SUFFICES ASSUME NEW name \in DOMAIN files'
               PROVE  name \in Seq(Char) /\ files'[name].includes \in Seq(Includable)
    BY DEF FilesType
  <2>1. PICK key \in Given : Rest(c, key) = name /\ files'[name].includes = files[key].includes
    BY <1>11
  <2>2. key \in Seq(Char) /\ files[key].includes \in Seq(Includable)
    BY <1>2, <1>9 DEF FilesType
  <2>3. Rest(c, key) \in Seq(Char)
    BY <1>6, <2>2, RestType
  <2> QED
    BY <2>1, <2>2, <2>3
<1>13. entry' = Rest(c, entry) /\ entry' \in Seq(Char)
  BY <1>2, <1>3, <1>6, <1>7, RestType
<1>14. ~trees => keys' = [n \in DOMAIN keys |-> Rest(c, keys[n])]
  BY <1>3, <1>7 DEF KeysGiven
<1>15. GivenOf(origin', c, files', entry', keys')
  <2>1. \A name \in DOMAIN files' : SameFile(origin', c, files', name) /\ files'[name].how # "file"
    <3> SUFFICES ASSUME NEW name \in DOMAIN files'
                 PROVE  SameFile(origin', c, files', name) /\ files'[name].how # "file"
      OBVIOUS
    <3>1. PICK key \in Given :
            /\ Rest(c, key) = name /\ files'[name].includes = files[key].includes
            /\ ~trees => files'[name].empty = files[key].empty
      BY <1>11
    <3>2. PICK n \in DOMAIN keys : key = keys[n]
      BY <1>9
    <3>4. files'[name].how \in {"ast", "idl"} /\ (files'[name].how # "ast" => ~trees)
      BY <1>11
    <3>3. SameFile(origin', c, files', name)
      BY <1>8, <3>1, <3>2, <3>4 DEF SameFile
    <3> QED
      BY <3>3, <3>4
  <2>2. \A n \in DOMAIN keys : keys[n] \in visited => Rest(c, keys[n]) \in DOMAIN files'
    BY <1>10 DEF Given
  <2>3. Kept(origin', c, files', keys')
    <3>1. CASE trees
      BY <1>3, <1>11, <3>1 DEF Kept
    <3>2. CASE ~trees
      BY <1>8, <1>14, <3>2 DEF Kept, ShorterKeys
    <3> QED
      BY <3>1, <3>2
  <2> QED
    BY <1>6, <1>8, <1>12, <1>13, <2>1, <2>2, <2>3 DEF GivenOf
<1>16. Inherits'
  <2>1. MadeBy(c)'
    <3>1. strings' = origin'.keys /\ end' = c - 1
      BY <1>2, <1>3, <1>6, <1>8
    <3>2. GivenOf(origin', c, files', entry', keys')
      BY <1>15
    <3>3. \A name \in DOMAIN files' : files'[name].how = IF trees' THEN "ast" ELSE "idl"
      BY <1>3, <1>11
    <3> QED
      BY <3>1, <3>2, <3>3 DEF MadeBy
  <2> QED
    BY <1>6, <1>8, <2>1 DEF Inherits
<1>17. States'
  <2>1. keys' \in Seq(Seq(Char)) /\ \A n \in DOMAIN keys' : keys'[n] \in DOMAIN files'
    <3>1. CASE trees
      BY <1>3, <3>1
    <3>2. CASE ~trees
      <4>1. keys' = [n \in DOMAIN keys |-> Rest(c, keys[n])] /\ DOMAIN keys = 1 .. Len(keys)
            /\ Len(keys) \in Nat
        BY <1>2, <1>14, <3>2
      <4>2. \A n \in DOMAIN keys : Rest(c, keys[n]) \in Seq(Char)
        <5> SUFFICES ASSUME NEW n \in DOMAIN keys PROVE Rest(c, keys[n]) \in Seq(Char)
          OBVIOUS
        <5>1. keys[n] \in Seq(Char)
          BY <1>2
        <5> QED
          BY <1>6, <5>1, RestType
      <4>3. keys' \in [1 .. Len(keys) -> Seq(Char)]
        BY <4>1, <4>2
      <4>4. keys' \in Seq(Seq(Char))
        BY <4>1, <4>3, SeqDef
      <4>5. \A n \in DOMAIN keys : keys[n] \in Given
        BY <3>2 DEF Given
      <4>6. \A n \in DOMAIN keys' : keys'[n] \in DOMAIN files'
        BY <1>10, <4>1, <4>5
      <4> QED
        BY <4>4, <4>6
    <3> QED
      BY <3>1, <3>2
  <2>2. todo' \in Seq(Seq(Char)) /\ todo' = <<entry'>>
    BY <1>3, <1>13
  <2>3. phase' \in {"load", "refused"} /\ (phase' # "refused" => entry' # <<>>)
    BY <1>3
  <2>4. generation' \in Nat /\ visited' = {}
    BY <1>2, <1>3
  <2> QED
    BY <1>12, <1>13, <2>1, <2>2, <2>3, <2>4 DEF States
<1>18. Pending' = {entry'}
  BY <1>3 DEF Pending
<1>19. Spreads' /\ Needed' /\ Refusal'
  BY <1>3, <1>18 DEF Spreads, Needed, Refusal
<1> QED
  BY <1>5, <1>16, <1>17, <1>19 DEF RoundTripInv

(* Every step of getSources, toJSON and the loading of what they gave      *)
(* keeps the invariant.                                                    *)
LEMMA RoundTripStep == RoundTripInv /\ [RoundTripNext]_allVars => RoundTripInv'
<1>1. ASSUME RoundTripInv, UNCHANGED allVars PROVE RoundTripInv'
  <2>1. /\ UNCHANGED <<files, entry, keys, visited, todo, phase, trees, generation, origin>>
        /\ UNCHANGED commonVars /\ UNCHANGED <<strings, end>>
    BY <1>1 DEF allVars, thriftVars, commonVars
  <2>2. IInv /\ States /\ Spreads /\ Needed /\ Refusal /\ Inherits
    BY <1>1 DEF RoundTripInv
  <2>3. IInv'
    BY <2>1, <2>2, CommonKept
  <2>4. States' /\ Refusal'
    BY <2>1, <2>2, FoundKept DEF States, Refusal
  <2>5. Pending' = Pending
    BY <2>1 DEF Pending
  <2>6. Spreads'
    BY <2>1, <2>2, <2>5 DEF Spreads
  <2>7. Needed'
    BY <2>1, <2>2, <2>5 DEF Needed
  <2>8. Inherits'
    BY <2>1, <2>2, InheritsKept
  <2> QED
    BY <2>3, <2>4, <2>6, <2>7, <2>8 DEF RoundTripInv
<1> QED
  BY <1>1, VisitKeeps, MakeKeeps, AskKeeps, FindCommonPathKeeps, MakeOfSourcesKeeps
  DEF RoundTripNext

(* So it holds of every Thrift that is made, asked, and made of what was   *)
(* given.                                                                  *)
LEMMA RoundTripInvariance == RoundTripSpec => []RoundTripInv
BY InitiallyGood, RoundTripStep, PTL DEF RoundTripSpec

(* The type invariant of lib/lcp.js also holds when getSources and toJSON  *)
(* call longestCommonPath, over all generations of Thrifts.                *)
THEOREM RoundTripTypeCorrect == RoundTripSpec => []TypeOK
<1>1. RoundTripInv => TypeOK
  BY DEF RoundTripInv, IInv
<1> QED
  BY <1>1, RoundTripInvariance, PTL

(* What lengthOfCommonPrefix returns to getSources and toJSON is the       *)
(* length of the longest prefix of the keys.                               *)
THEOREM RoundTripPrefixIsLongest == RoundTripSpec => []LongestCommonPrefix
<1>1. RoundTripInv => LongestCommonPrefix
  BY PrefixKnown DEF RoundTripInv
<1> QED
  BY <1>1, RoundTripInvariance, PTL

(* The directory that getSources and toJSON take off is a beginning of all *)
(* keys, if they are alike.                                                *)
THEOREM RoundTripPathIsCommon == RoundTripSpec => []DirectoryIsCommon
<1>1. RoundTripInv => DirectoryIsCommon
  BY DirectoryKnown DEF RoundTripInv
<1> QED
  BY <1>1, RoundTripInvariance, PTL

(* No longer directory is common to the keys.                              *)
THEOREM RoundTripPathIsLongest == RoundTripSpec => []DirectoryIsLongest
<1>1. RoundTripInv => DirectoryIsLongest
  BY LongestKnown DEF RoundTripInv
<1> QED
  BY <1>1, RoundTripInvariance, PTL

-----------------------------------------------------------------------------
(* The words of the property, while the directory of the one before is     *)
(* still known.                                                            *)
LEMMA LikeIsAlike == Asked(origin) => (Like(origin.keys) <=> Alike)
<1> SUFFICES ASSUME Asked(origin) PROVE Like(origin.keys) <=> Alike
  OBVIOUS
<1>1. DOMAIN origin.keys = 1 .. Len(origin.keys)
  BY DEF Asked
<1> QED
  BY <1>1 DEF Like, Alike, Texts

(* The words of the property, and those of the lemmas above.               *)
NoneEmpty == \A name \in origin.visited : origin.files[name].empty => trees
LEMMA SameWords ==
  ASSUME NEW c \in Nat, Asked(origin), strings = origin.keys, end = c - 1
  PROVE  /\ Common = Dir(origin, c) /\ Texts = TextsOf(origin)
         /\ Unmistakable <=> Safe(origin, c)
         /\ Complete <=> Whole(origin, c) /\ NoneEmpty
         /\ \A name : Shortened(name) = Rest(c, name)
<1>1. Common = Dir(origin, c)
  <2>1. end + 1 = c
    OBVIOUS
  <2> QED
    BY <2>1 DEF Common, Dir, Start, longest
<1>2. Texts = TextsOf(origin)
  BY DEF Texts, TextsOf
<1>3. Unmistakable <=> Safe(origin, c)
  BY <1>1, <1>2 DEF Unmistakable, Safe
<1>4. ASSUME NEW name \in origin.visited, NEW n \in DOMAIN origin.files[name].includes
      PROVE  Climbs(name, origin.files[name].includes[n])
                <=> ClimbsOut(name, origin.files[name].includes[n], Parts(Dir(origin, c)))
  <2>1. name \in Seq(Char) /\ origin.files[name].includes \in Seq(Includable)
    BY DEF Asked, Reached, FilesType
  <2>2. origin.files[name].includes[n] \in Includable
    BY <2>1
  <2> QED
    BY <1>1, <2>1, <2>2, ClimbsIs
<1>5. Complete <=> Whole(origin, c) /\ NoneEmpty
  BY <1>1, <1>2, <1>4 DEF Complete, Whole, NoneEmpty
<1>6. \A name : Shortened(name) = Rest(c, name)
  <2>1. c + 1 = end + 2
    OBVIOUS
  <2> QED
    BY <2>1 DEF Shortened, Rest
<1> QED
  BY <1>1, <1>2, <1>3, <1>5, <1>6

(* A Thrift that is made.                                                  *)
LEMMA MadeHasAll ==
  ASSUME RoundTripInv, generation > 1, Alike, phase = "made", origin.entry \in Texts, Unmistakable
  PROVE  /\ Complete
         /\ visited = {Shortened(name) : name \in origin.visited}
         /\ entry = Shortened(origin.entry)
<1>1. PICK c \in Nat : MadeBy(c)
  BY DEF RoundTripInv, Inherits
<1>2. /\ Asked(origin) /\ GivenOf(origin, c, files, entry, keys)
      /\ strings = origin.keys /\ end = c - 1
  BY <1>1 DEF RoundTripInv, Inherits, MadeBy
<1>3. Like(origin.keys)
  BY <1>2, LikeIsAlike
<1>4. /\ Texts = TextsOf(origin) /\ Safe(origin, c)
      /\ (Complete <=> Whole(origin, c) /\ NoneEmpty)
      /\ \A name : Shortened(name) = Rest(c, name)
  BY <1>2, SameWords
<1>5. Reached(files, entry, visited)
  <2>1. States /\ Spreads /\ Needed
    BY DEF RoundTripInv
  <2>2. todo = <<>> /\ FilesType(files) /\ visited \subseteq DOMAIN files /\ entry \in Seq(Char)
        /\ entry # <<>>
    BY <2>1 DEF States
  <2>3. Pending = {}
    BY <2>2 DEF Pending
  <2>4. entry \in visited /\ Closed(files, visited)
    BY <2>1, <2>3 DEF Spreads, Closed
  <2>5. \A X : entry \in X /\ Closed(files, X) => visited \subseteq X
    BY <2>1 DEF Needed
  <2> QED
    BY <2>2, <2>4, <2>5 DEF Reached
<1>6. Whole(origin, c) /\ visited = {Rest(c, name) : name \in origin.visited}
  BY <1>2, <1>3, <1>4, <1>5, ComesBack
<1>7. entry = Rest(c, origin.entry)
  BY <1>2 DEF GivenOf
<1>8. NoneEmpty
  <2> SUFFICES ASSUME NEW name \in origin.visited, origin.files[name].empty PROVE trees
    BY DEF NoneEmpty
  <2>1. name \in TextsOf(origin) /\ Rest(c, name) \in visited
    BY <1>6 DEF Whole
  <2>2. Rest(c, name) \in DOMAIN files /\ Found(Rest(c, name))
    BY <2>1 DEF RoundTripInv, States
  <2>3. files[Rest(c, name)].how # "ast" =>
           files[Rest(c, name)].empty = origin.files[name].empty
    BY <1>2, <1>3, <2>1, <2>2, ShorterIsLike
  <2>4. files[Rest(c, name)].how = IF trees THEN "ast" ELSE "idl"
    BY <1>1, <2>2 DEF MadeBy
  <2> QED
    BY <2>2, <2>3, <2>4 DEF Found
<1> QED
  BY <1>4, <1>6, <1>7, <1>8

(* One that is refused.                                                    *)
LEMMA RefusedLacksSome ==
  ASSUME RoundTripInv, generation > 1, Alike, phase = "refused", Unmistakable, Complete
  PROVE  FALSE
<1>1. PICK c \in Nat : MadeBy(c)
  BY DEF RoundTripInv, Inherits
<1>2. /\ Asked(origin) /\ GivenOf(origin, c, files, entry, keys)
      /\ strings = origin.keys /\ end = c - 1
  BY <1>1 DEF RoundTripInv, Inherits, MadeBy
<1>3. Like(origin.keys) /\ Safe(origin, c) /\ Whole(origin, c) /\ NoneEmpty
  BY <1>2, LikeIsAlike, SameWords
<1>4. entry = <<>> \/ (todo # <<>> /\ ~Found(todo[1]))
  BY DEF RoundTripInv, Refusal
<1>5. CASE entry = <<>>
  <2>1. \A X : entry \in X /\ Closed(files, X) => entry \in X
    OBVIOUS
  <2> QED
    BY <1>2, <1>3, <1>5, <2>1, CanBeMade
<1>6. CASE todo # <<>> /\ ~Found(todo[1])
  <2>1. todo[1] \in Pending
    <3>1. todo \in Seq(Seq(Char))
      BY DEF RoundTripInv, States
    <3>2. 1 \in DOMAIN todo
      BY <1>6, <3>1
    <3> QED
      BY <3>2 DEF Pending
  <2>2. \A X : entry \in X /\ Closed(files, X) => todo[1] \in X
    BY <2>1 DEF RoundTripInv, Needed
  <2>3. todo[1] \in DOMAIN files /\ \E x \in origin.visited : todo[1] = Rest(c, x)
    BY <1>2, <1>3, <2>2, CanBeMade
  <2>4. PICK x \in origin.visited : todo[1] = Rest(c, x)
    BY <2>3
  <2>5. files[todo[1]].how = IF trees THEN "ast" ELSE "idl"
    BY <1>1, <2>3 DEF MadeBy
  <2>6. x \in TextsOf(origin) /\ (origin.files[x].empty => trees)
    BY <1>3 DEF Whole, NoneEmpty
  <2>7. files[todo[1]].how # "ast" => files[todo[1]].empty = origin.files[x].empty
    BY <1>2, <1>3, <2>3, <2>4, <2>6, ShorterIsLike
  <2> QED
    BY <1>6, <2>3, <2>5, <2>6, <2>7 DEF Found
<1> QED
  BY <1>4, <1>5, <1>6

(* One that gives its sources.                                             *)
LEMMA GivesThemAsTheyAre ==
  ASSUME RoundTripInv, generation > 1, Alike, phase = "asked", end # Unset, Unmixed
  PROVE  Common = <<>>
<1>1. PICK c \in Nat : MadeBy(c)
  BY DEF RoundTripInv, Inherits
<1>2. /\ Asked(origin) /\ Cut(origin.keys, c) /\ Kept(origin, c, files, keys)
      /\ strings = keys /\ keys # <<>>
  BY <1>1 DEF RoundTripInv, Inherits, MadeBy, GivenOf, States, IInv, TypeOK
<1>3. Like(origin.keys) /\ Like(keys)
  BY <1>2, LikeIsAlike DEF Unmixed, Like
<1>4. ShorterKeys(origin, c, keys)
  BY <1>2 DEF Kept
<1>5. Cut(keys, end + 1)
  BY <1>2, CutFound DEF RoundTripInv
<1>6. end + 1 = 0
  <2> DEFINE d == end + 1
  <2>1. Cut(keys, d)
    BY <1>5
  <2> HIDE DEF d
  <2>2. Cut(origin.keys, c)
    BY <1>2
  <2>3. d = 0
    BY <1>2, <1>3, <1>4, <2>1, <2>2, NothingLeft
  <2> QED
    BY <2>3 DEF d
<1>7. strings[1] \in Seq(Char)
  BY DEF RoundTripInv, IInv, TypeOK
<1>8. Common = Start(strings[1], 0)
  BY <1>6 DEF Common, Start, longest
<1> QED
  BY <1>7, <1>8, StartWhole

(* One that throws.                                                        *)
LEMMA ThrownHasTrees ==
  ASSUME RoundTripInv, generation > 1, phase = "thrown"
  PROVE  \A name \in visited : files[name].how = "ast"
<1>1. PICK c \in Nat : MadeBy(c)
  BY DEF RoundTripInv, Inherits
<1>2. /\ Asked(origin) /\ Kept(origin, c, files, keys) /\ keys = <<>> /\ visited \subseteq DOMAIN files
  BY <1>1 DEF RoundTripInv, Inherits, MadeBy, GivenOf, States
<1>3. ~ShorterKeys(origin, c, keys)
  <2>1. 1 \in DOMAIN origin.keys
    BY <1>2 DEF Asked
  <2> DEFINE list == [n \in DOMAIN origin.keys |-> Rest(c, origin.keys[n])]
  <2>2. 1 \in DOMAIN list
    BY <2>1
  <2>3. 1 \notin DOMAIN keys
    BY <1>2
  <2> QED
    BY <2>2, <2>3 DEF ShorterKeys
<1> QED
  BY <1>2, <1>3 DEF Kept

(* For all programs and any number of generations: the Thrift that is made *)
(* of what getSources or toJSON of thrift.js gave has the files of the one *)
(* before under shorter names, and is made unless those cannot do.         *)
THEOREM SourcesComeBack == RoundTripSpec => []RoundTrips
<1>1. RoundTripInv => RoundTrips
  BY MadeHasAll, RefusedLacksSome, GivesThemAsTheyAre, ThrownHasTrees DEF RoundTrips
<1> QED
  BY <1>1, RoundTripInvariance, PTL
=============================================================================
