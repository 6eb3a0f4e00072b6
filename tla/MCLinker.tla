------------------------------ MODULE MCLinker ------------------------------
(***************************************************************************)
(* Programs for the linker: forward and mutual references, cycles of       *)
(* structs and of modules, inheritance, programs that must be refused, and *)
(* trees of which a second Thrift is made; every order of the definitions  *)
(* of the entry file.                                                      *)
(***************************************************************************)
EXTENDS Linker

CONSTANTS a, b, c

Value(path) == [role |-> "value", path |-> path]
Type(path) == [role |-> "type", path |-> path]
Service(path) == [role |-> "service", path |-> path]
Definition(kind, name, refs) ==
    [kind |-> kind, name |-> name, refs |-> refs, lit |-> name, list |-> FALSE]
Const(name, refs) == Definition("const", name, refs)
ListOf(def) == [def EXCEPT !.list = TRUE]
Typedef(name, refs) == Definition("typedef", name, refs)
Field(type, default, mark) == [type |-> type, default |-> default, mark |-> mark]
Needs(type) == Field(type, Null, "required")
MayHave(type) == Field(type, Null, "optional")
With(type, default) == Field(type, default, "none")
Struct(name, fields) == Structure(name, "struct", fields)
Function(name, args, returns, throws) ==
    [name |-> name, args |-> args, returns |-> returns, throws |-> throws]
Void == <<>>
Returning(type) == <<MayHave(type)>>
Extends(name, base, fs) ==
    [kind |-> "service", name |-> name, refs |-> base, functions |-> fs]
Include(name, file) == [kind |-> "include", name |-> name, file |-> file]
Enum(name, members) == [kind |-> "enum", name |-> name, members |-> members]

MCBuiltins == <<Enum("Code", <<"OTHER">>), Struct("Error", <<MayHave(<<"Code">>)>>)>>

(* Definitions that use one another: a const that names two others, a tree *)
(* through a typedef of a container, defaults that name enum members.      *)
Trees == <<Const("X", <<Value(<<"Y">>)>>), Const("Y", <<>>),
           ListOf(Const("XY", <<Value(<<"X">>), Value(<<"Hue", "RED">>)>>)),
           Enum("Hue", <<"RED", "BLUE">>),
           ListOf(Typedef("Nodes", <<Type(<<"Node">>)>>))>>
Node == Struct("Node", <<With(<<"Hue">>, <<"Hue", "BLUE">>), Needs(<<"Nodes">>),
                         With(Null, <<"XY">>), MayHave(<<"Alias">>)>>)
Alias == Typedef("Alias", <<Type(<<"Node">>)>>)

(* Modules that include each other.                                        *)
Far == <<Include("A", a), Include("C", c), Const("Z", <<Value(<<"A", "X">>)>>),
         Struct("Leaf", <<With(<<"A", "Alias">>, <<"Z">>), MayHave(<<"C", "Id">>)>>),
         Extends("Base", <<>>,
                 <<Function("ping", <<Needs(<<"Leaf">>)>>, Returning(<<"Leaf">>), Null)>>),
         Extends("Mid", <<Service(<<"Base">>)>>, <<Function("pong", <<>>, Void, Null)>>)>>
Deep == <<Typedef("Id", <<>>)>>
Near == <<Struct("Twig", <<With(<<"B", "Leaf">>, <<"B", "Z">>), Needs(<<"B", "C", "Id">>)>>),
          Const("X", <<>>), Alias, Node,
          Extends("Top", <<Service(<<"B", "Mid">>)>>,
                  <<Function("do", <<Field(<<"Twig">>, Null, "none")>>, Void,
                             <<MayHave(<<"Twig">>)>>)>>)>>

(* Programs that throw: in place of the last definition of Near.           *)
Does(name, args) == <<Function(name, args, Void, Null)>>
Bad == {Extends("Top", <<Service(<<"B", "Mid">>)>>, Does("ping", <<>>)),
        Extends("Top", <<Service(<<"B", "Leaf">>)>>, <<>>),
        Extends("Top", <<Service(<<"Top">>)>>, Does("do", <<>>)),
        Struct("Bad", <<Needs(<<"B", "None">>)>>), Struct("Bad", <<Needs(<<"B">>)>>),
        Struct("Bad", <<Needs(<<"X">>)>>), Struct("Bad", <<With(Null, <<"B", "Leaf">>)>>),
        Struct("X", <<>>), Enum("Hue", <<"RED", "RED">>), Const("Code", <<>>)}

(* Programs that are refused or not, as the options say.                   *)
Strict == {Struct("Lax", <<Field(Null, Null, "none")>>),
           Extends("Top", <<>>, Does("do", <<MayHave(<<"Alias">>)>>))}

(* Functions that throw and return, throw only, return only.               *)
Throws == <<MayHave(<<"Alias">>)>>
Functions == <<Extends("Svc", <<>>, <<Function("a", <<>>, Returning(<<"Node">>), Throws),
                                     Function("b", <<>>, Void, Throws),
                                     Function("c", <<>>, Returning(Null), Null),
                                     Function("d", <<>>, Returning(Null), <<>>)>>),
               Alias>>

(* A typedef of a map, entered by both structs that are in it.             *)
Shared == <<ListOf(Typedef("Map", <<Type(<<"Key">>), Type(<<"Item">>)>>)),
            Struct("Key", <<Needs(<<"Map">>)>>), Struct("Item", <<Needs(<<"Map">>)>>)>>

(* Services in a circle.                                                   *)
Circle == <<Extends("A", <<Service(<<"B">>)>>, <<>>),
            Extends("B", <<Service(<<"C">>)>>, Does("do", <<>>)),
            Extends("C", <<Service(<<"A">>)>>, Does("ping", <<>>)),
            Extends("D", <<Service(<<"C">>)>>, Does("do", <<>>))>>

Orders(seq) == {[i \in DOMAIN seq |-> seq[p[i]]] :
                  p \in {p \in [DOMAIN seq -> DOMAIN seq] :
                           \A i, j \in DOMAIN seq : p[i] = p[j] => i = j}}

(* Consts in a circle, and what names one of them: a list, of a value that *)
(* is null, is a default, the value itself is none.  With a list in the    *)
(* circle it depends on the order.                                         *)
Round(default) ==
    <<Const("P", <<Value(<<"Q">>)>>), Const("Q", <<Value(<<"P">>)>>),
      ListOf(Const("R", <<Value(<<"P">>)>>)), Struct("S", <<With(Null, default)>>)>>
RoundList(default) ==
    <<Const("P", <<Value(<<"Q">>)>>), ListOf(Const("Q", <<Value(<<"P">>)>>)),
      Const("R", <<Value(<<"P">>)>>), Struct("S", <<With(Null, default)>>)>>
Rounds == UNION {Orders(Round(<<name>>)) \cup Orders(RoundList(<<name>>)) : name \in {"P", "Q", "R"}}

OneFile == {[file \in {a} |-> seq] : seq \in Orders(Append(Trees, Node))}
TwoFiles(defs) ==
    {[file \in {a, b, c} |-> CASE file = b -> Far [] file = c -> Deep
                               [] OTHER -> <<Include("C", c), Include("B", b)>> \o seq] :
        seq \in Orders(defs)}

(* The hue and the tree have no alias of their own in the second file.     *)
Plain == Struct("Node", <<With(<<"Alias">>, <<"X">>)>>)
NearTo(last) == [Near EXCEPT ![4] = Plain, ![5] = last]
Program(files, strict, allow, times) ==
    [files |-> files, strict |-> strict, allowOptionalArguments |-> allow, times |-> times]
MCPrograms ==
    {Program([one EXCEPT ![a] = Append(@, Alias)], TRUE, FALSE, 1) : one \in OneFile}
        \cup {Program([file \in {a} |-> one], TRUE, FALSE, 1) :
                one \in Orders(Shared) \cup Orders(Circle) \cup Rounds}
        \cup {Program([file \in {a} |-> Round(<<"P">>)], FALSE, FALSE, 1)}
        \cup {Program(files, TRUE, FALSE, 1) :
                files \in TwoFiles(NearTo(Near[5]))
                          \cup UNION {TwoFiles(SubSeq(NearTo(def), 2, 5)) : def \in Bad}}
        \cup {Program([file \in {a} |-> <<Const("X", <<>>), Plain, def, Alias>>], strict, allow, 1) :
                def \in Strict, strict \in BOOLEAN, allow \in BOOLEAN}
        \cup {Program(files, TRUE, FALSE, 2) :
                files \in {[file \in {a, b, c} |->
                             CASE file = a -> <<Include("B", b), Const("X", <<>>)>> \o seq
                               [] file = b -> <<Const("X", <<>>), Plain>> \o Functions
                               [] OTHER -> Deep] :
                            seq \in Orders(<<Plain,
                                Extends("Top", <<Service(<<"B", "Svc">>)>>,
                                        <<Function("do", <<>>, Returning(Null), Throws)>>),
                                Alias>>)}}

(* A list of itself.                                                       *)
Loop == {Program([file \in {a} |-> <<ListOf(Typedef("Loop", <<Type(<<"Loop">>)>>))>>],
               TRUE, FALSE, 1)}
=============================================================================
