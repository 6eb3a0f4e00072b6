----------------------------- MODULE CommonPath -----------------------------
(***************************************************************************)
(* longestCommonPath of lib/lcp.js, and what getSources and toJSON of      *)
(* thrift.js do with it: they take the directory all files share off the   *)
(* names.  A name is a sequence of characters; an index of the code counts *)
(* from zero.                                                              *)
(***************************************************************************)
EXTENDS Integers, Sequences

CONSTANTS Char, Slash,
          Inputs        \* lists of file names, of the keys of Thrift.idls

ASSUME CharAssumption == Slash \in Char
ASSUME InputsAssumption ==
    \A strings \in Inputs : strings \in Seq(Seq(Char)) /\ strings # <<>>

VARIABLES strings,
          i, j, length, \* of lengthOfCommonPrefix
          comparing,    \* in its inner loop
          end           \* of longestCommonPath; Unset until it is known

vars == <<strings, i, j, length, comparing, end>>

Unset == -2
longest == strings[1]
string == strings[i + 1]
Smaller(m, n) == IF m <= n THEN m ELSE n

Init == /\ strings \in Inputs
        /\ i = 1 /\ j = 0 /\ length = Len(longest)
        /\ comparing = FALSE /\ end = Unset

(* Fault: the index is not reset.                                          *)
NextStringFrom == /\ ~comparing /\ i < Len(strings)
                  /\ j' = j /\ comparing' = TRUE
                  /\ UNCHANGED <<strings, i, length, end>>
NextString == /\ ~comparing /\ i < Len(strings)
              /\ j' = 0 /\ comparing' = TRUE
              /\ UNCHANGED <<strings, i, length, end>>

(* Fault: what the names before have in common is forgotten.               *)
InsideBoth == j < Smaller(Len(longest), Len(string))
Inside == j < Smaller(length, Len(string))
Same == string[j + 1] = longest[j + 1]

SameChar == /\ comparing /\ Inside /\ Same
            /\ j' = j + 1
            /\ UNCHANGED <<strings, i, length, comparing, end>>

EndOfPrefix == /\ comparing /\ ~(Inside /\ Same)
               /\ length' = j /\ i' = i + 1 /\ comparing' = FALSE
               /\ UNCHANGED <<strings, j, end>>

(* String.lastIndexOf: the search starts at 'from', but never before the   *)
(* first character; -1 if there is none.                                   *)
SlashesUpTo(s, from) ==
    {k \in 0 .. Len(s) - 1 : s[k + 1] = Slash /\ (k <= from \/ k = 0)}
IsLastIndexOf(k, s, from) ==
    IF k = -1 THEN SlashesUpTo(s, from) = {}
    ELSE k \in SlashesUpTo(s, from) /\ \A l \in SlashesUpTo(s, from) : l <= k

(* Faults: the character behind the common prefix is looked at as well; a  *)
(* slash at its end is not.                                                *)
LastSlashLate(k) == IsLastIndexOf(k, longest, length)
LastSlashEarly(k) == IsLastIndexOf(k, longest, length - 2)
LastSlash(k) == IsLastIndexOf(k, longest, length - 1)

Slice == /\ ~comparing /\ i >= Len(strings) /\ end = Unset
         /\ end' \in {k \in -1 .. Len(longest) - 1 : LastSlash(k)}
         /\ UNCHANGED <<strings, i, j, length, comparing>>

Next == NextString \/ SameChar \/ EndOfPrefix \/ Slice

Spec == Init /\ [][Next]_vars
-----------------------------------------------------------------------------
TypeOK == /\ strings \in Seq(Seq(Char)) /\ strings # <<>>
          /\ i \in 1 .. Len(strings)
          /\ j \in Nat /\ length \in 0 .. Len(longest)
          /\ comparing \in BOOLEAN
          /\ comparing => (i < Len(strings) /\ j <= Smaller(length, Len(string)))
          /\ end \in {Unset} \cup -1 .. Len(longest) - 1

Agree(s, t, n) == \A k \in 1 .. n : s[k] = t[k]
Within(n) == \A s \in 1 .. Len(strings) : n <= Len(strings[s])

(* What lengthOfCommonPrefix returns is the length of a prefix that all    *)
(* names have, also where one name is the beginning of another, and there  *)
(* is no longer one.                                                       *)
Counted == ~comparing /\ i = Len(strings)
LongestCommonPrefix ==
    Counted =>
        /\ Within(length)
        /\ \A s \in 1 .. Len(strings) : Agree(strings[s], longest, length)
        /\ \E s \in 1 .. Len(strings) :
              length = Len(strings[s]) \/ strings[s][length + 1] # longest[length + 1]

(* The directory that getSources takes off is a beginning of every name,   *)
(* so that no name loses a part of its own, and it ends at a slash: an     *)
(* include of one file that names another still does.  This is so for      *)
(* names that are all absolute or all relative.  Of "/a" and "b" the slash *)
(* is taken off, though "b" has none: lastIndexOf is called with -1 and    *)
(* looks at the first character all the same.                              *)
Absolute(s) == s # <<>> /\ s[1] = Slash
Unmixed == \A s, t \in 1 .. Len(strings) : Absolute(strings[s]) => Absolute(strings[t])
DirectoryIsCommon ==
    (end # Unset /\ Unmixed) =>
        /\ Within(end + 1)
        /\ \A s \in 1 .. Len(strings) : Agree(strings[s], longest, end + 1)
        /\ (end >= 0) => (longest[end + 1] = Slash)

(* No longer directory is common: two files of one directory are named     *)
(* without it.                                                             *)
DirectoryIsLongest ==
    end # Unset =>
        \A k \in end + 2 .. Len(longest) :
            ~(/\ longest[k] = Slash /\ Within(k)
              /\ \A s \in 1 .. Len(strings) : Agree(strings[s], longest, k))
=============================================================================
