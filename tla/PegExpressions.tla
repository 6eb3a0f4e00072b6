--------------------------- MODULE PegExpressions ---------------------------
(***************************************************************************)
(* Parsing expressions as values. A text is a sequence of chunks: strings  *)
(* of characters within which no literal of the grammar ends. So "stringy" *)
(* is <<"string", "y">>: a literal matches the first chunk of a word that  *)
(* begins with it.                                                         *)
(***************************************************************************)
Lits(chunks) == [op |-> "lit", chunks |-> chunks]
Lit(chunk) == Lits(<<chunk>>)
Class(chunks) == [op |-> "class", of |-> chunks]   \* one chunk, one of these
AnyChunk == [op |-> "any"]                              \* one chunk
Rule(name) == [op |-> "rule", name |-> name]
Then(es) == [op |-> "then", es |-> es]             \* a sequence without code
Do(name, es) == [op |-> "do", name |-> name, es |-> es]   \* and with code
OneOf(es) == [op |-> "oneof", es |-> es]
Star(e) == [op |-> "star", e |-> e]
Plus(e) == [op |-> "plus", e |-> e]
Opt(e) == [op |-> "opt", e |-> e]
Not(e) == [op |-> "not", e |-> e]
As(label, e) == [op |-> "as", label |-> label, e |-> e]
=============================================================================
