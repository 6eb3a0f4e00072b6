-------------------------------- MODULE Peg --------------------------------
(***************************************************************************)
(* What the functions do that pegjs writes for the rules of a grammar, the *)
(* peg$parse... of thrift-idl.js. Each is called at a position, gives a    *)
(* value and the position behind what it took, or fails. A choice takes    *)
(* its first alternative that does not fail and never comes back for       *)
(* another; '*' and '?' take what they can and never give back.            *)
(***************************************************************************)
EXTENDS Naturals, Sequences, TLC

CONSTANTS
    Grammar,       \* a record: the expression of each rule
    Act(_, _, _),  \* the code of an expression: (name, values of labels, text())
    Null           \* what '?' gives when there is nothing

(* Results: 'at' is 0 for peg$FAILED.                                      *)
Failed == [at |-> 0, value |-> Null, labels |-> <<>>]
Fails(r) == r.at = 0
Took(at, value) == [at |-> at, value |-> value, labels |-> <<>>]

(* A sequence without code gives an array of what its parts gave: no more  *)
(* is said of it than the text they took.                                  *)
Array(chunks) == [type |-> "Array", text |-> chunks]

RECURSIVE Match(_, _, _), Sequence(_, _, _, _), Choice(_, _, _), Repeat(_, _, _, _)

(* Expressions in a row, each from where the one before it ended.          *)
Sequence(es, s, p, labels) ==
    IF es = <<>> THEN [at |-> p, value |-> Null, labels |-> labels]
    ELSE LET r == Match(Head(es), s, p)
         IN IF Fails(r) THEN Failed ELSE Sequence(Tail(es), s, r.at, r.labels @@ labels)

Choice(es, s, p) ==
    IF es = <<>> THEN Failed
    ELSE LET r == Match(Head(es), s, p)
         IN IF Fails(r) THEN Choice(Tail(es), s, p) ELSE Took(r.at, r.value)

(* The loop of '*'. If e took nothing it would not end, and TLC stops.     *)
Repeat(e, s, p, values) ==
    LET r == Match(e, s, p)
    IN IF Fails(r) THEN Took(p, values) ELSE Repeat(e, s, r.at, Append(values, r.value))

(* The expression e at position p of the text s.                           *)
Match(e, s, p) ==
    CASE e.op = "lit" ->
            LET end == p + Len(e.chunks)
            IN IF end - 1 <= Len(s) /\ SubSeq(s, p, end - 1) = e.chunks
               THEN Took(end, e.chunks) ELSE Failed
      [] e.op = "rule" -> LET r == Match(Grammar[e.name], s, p)
                          IN IF Fails(r) THEN Failed ELSE Took(r.at, r.value)
      [] e.op = "oneof" -> Choice(e.es, s, p)
      [] e.op = "class" -> IF p <= Len(s) /\ s[p] \in e.of THEN Took(p + 1, s[p]) ELSE Failed
      [] e.op = "any" -> IF p <= Len(s) THEN Took(p + 1, s[p]) ELSE Failed
      [] e.op = "do" -> LET r == Sequence(e.es, s, p, <<>>)
                        IN IF Fails(r) THEN Failed
                           ELSE Took(r.at, Act(e.name, r.labels, SubSeq(s, p, r.at - 1)))
      [] e.op = "then" -> LET r == Sequence(e.es, s, p, <<>>)
                          IN IF Fails(r) THEN Failed
                             ELSE Took(r.at, Array(SubSeq(s, p, r.at - 1)))
      [] e.op = "as" -> LET r == Match(e.e, s, p)
                        IN IF Fails(r) THEN Failed
                           ELSE [r EXCEPT !.labels = e.label :> r.value]
      [] e.op = "opt" -> LET r == Match(e.e, s, p) IN IF Fails(r) THEN Took(p, Null) ELSE r
      [] e.op = "star" -> Repeat(e.e, s, p, <<>>)
      [] e.op = "plus" -> LET r == Repeat(e.e, s, p, <<>>) IN IF r.at = p THEN Failed ELSE r
      [] e.op = "not" -> IF Fails(Match(e.e, s, p)) THEN Took(p, Null) ELSE Failed
=============================================================================
