------------------------- MODULE IncludeGraph_proofs -------------------------
(***************************************************************************)
(* Facts about include graphs and stacks that the proofs about both        *)
(* loaders rest on.                                                        *)
(***************************************************************************)
EXTENDS IncludeGraph, SequenceTheorems, TLAPS

(* The top of a stack, and what is below it.                               *)
LEMMA Stacks ==
  ASSUME NEW S, NEW s \in Seq(S), s # <<>>
  PROVE  /\ Len(s) \in Nat /\ Len(s) >= 1 /\ s[Len(s)] \in S
         /\ SubSeq(s, 1, Len(s) - 1) \in Seq(S)
         /\ Len(SubSeq(s, 1, Len(s) - 1)) = Len(s) - 1
         /\ \A k \in 1 .. Len(s) - 1 : SubSeq(s, 1, Len(s) - 1)[k] = s[k]
<1>1. Len(s) \in Nat /\ Len(s) >= 1
  OBVIOUS
<1>2. \A k \in 1 .. Len(s) : s[k] \in S
  BY ElementOfSeq
<1>3. \A k \in 1 .. Len(s) - 1 : s[k] \in S
  BY <1>1, <1>2
<1>4. SubSeq(s, 1, Len(s) - 1) \in Seq(S)
  BY <1>1, <1>3, SubSeqProperties
<1>5. Len(SubSeq(s, 1, Len(s) - 1)) = Len(s) - 1
  BY <1>1
<1>6. \A k \in 1 .. Len(s) - 1 : SubSeq(s, 1, Len(s) - 1)[k] = s[k]
  BY <1>1
<1>7. s[Len(s)] \in S
  BY <1>1, <1>2
<1> QED
  BY <1>1, <1>4, <1>5, <1>6, <1>7

(* The definitions of a file, and what they include.                       *)
LEMMA Files ==
  ASSUME NEW files \in Sources, NEW f \in File
  PROVE  /\ files[f].defs \in Seq(File \cup {Other})
         /\ Included(files, f) \subseteq File
         /\ \A m \in 1 .. Len(files[f].defs) :
                files[f].defs[m] \in {Other} \cup Included(files, f)
<1>1. files[f].defs \in Seq(File \cup {Other})
  BY SourcesAssumption
<1>2. \A m \in 1 .. Len(files[f].defs) : files[f].defs[m] \in File \cup {Other}
  BY <1>1, ElementOfSeq
<1> QED
  BY <1>1, <1>2 DEF Included

(* The entry point is reached, with all that a good file includes; and no  *)
(* more than what any closed set with the entry point holds.               *)
LEMMA RootReached ==
  ASSUME NEW files PROVE Root \in Reachable(files)
BY RootAssumption DEF Reachable

LEMMA IncludesReached ==
  ASSUME NEW files \in Sources, NEW f \in Reachable(files), files[f].status = "good"
  PROVE  Included(files, f) \subseteq Reachable(files)
<1>1. f \in File
  BY DEF Reachable
<1>2. Included(files, f) \subseteq File
  BY <1>1, Files
<1>3. ASSUME NEW S \in SUBSET File, Root \in S, Closed(files, S)
      PROVE  Included(files, f) \subseteq S
  <2>1. f \in S
    BY <1>3 DEF Reachable
  <2> QED
    BY <1>3, <2>1 DEF Closed
<1> QED
  BY <1>2, <1>3 DEF Reachable

LEMMA ClosedCovers ==
  ASSUME NEW files, NEW S \in SUBSET File, Root \in S, Closed(files, S)
  PROVE  Reachable(files) \subseteq S
BY DEF Reachable
=============================================================================
