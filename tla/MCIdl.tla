------------------------------- MODULE MCIdl -------------------------------
(***************************************************************************)
(* Files with every kind of header, definition, type and value; a name in  *)
(* each of them is a word that could be taken for something else.          *)
(***************************************************************************)
EXTENDS IdlText

A == <<"a">>
B == <<"b">>
Id(name) == ast!Identifier(name)
I32 == ast!BaseType("i32", Null)
N(chunks) == ast!Literal([number |-> chunks])
Text(chars) == ast!Literal([string |-> chars])
F(id, ft, name, req) ==
    ast!Field(ast!FieldIdentifier([number |-> <<id>>]), ft, name, req, Null, Null)
Note(name, value) == <<ast!TypeAnnotation(name, value)>>
P(headers, definitions) == ast!Program(headers, definitions)

Structs(n) ==
    P(<<>>, <<ast!Struct(Id(A), <<F("1", Id(n), n, "optional"),
                                  ast!Field(Null, Id(n), B, Null, N(<<"5">>), Note(<<"y">>, <<"x">>))>>,
                         Null),
              ast!Union(Id(n), <<F("2", ast!MapType(I32, Id(n), Null), A, "required")>>, Null)>>)
Types(n) ==
    P(<<>>, <<ast!Typedef(ast!SetType(ast!ListType(Id(n), Null), Note(<<"y">>, Null)), Id(B), Null),
              ast!Exception(Id(n), <<F("1", ast!BaseType("string", Note(<<"y">>, Null)), n, Null)>>,
                            Null)>>)
Enums(n) ==
    P(<<>>, <<ast!Enum(Id(n), <<ast!EnumDefinition(Id(A), N(<<"-", "2">>), Null),
                                ast!EnumDefinition(Id(n), Null, Note(<<"y">>, <<"x">>)),
                                ast!EnumDefinition(Id(B), N(<<"0", "x", "a">>), Null)>>, Null),
              ast!Senum(Id(n), <<A, B>>, Null)>>)
Consts(n) ==
    P(<<>>, <<ast!Const(Id(A), Id(n), N(<<"1", ".", "5", "e", "-", "2">>)),
              ast!Const(Id(n), ast!ListType(I32, Null),
                        ast!ConstList(<<N(<<"1">>), Id(n), Text(<<"x", "NL", "\"">>)>>)),
              ast!Const(Id(B), I32, ast!ConstMap(<<ast!ConstEntry(Id(n), N(<<"7">>))>>))>>)
Services(n) ==
    P(<<>>, <<ast!Service(Id(n),
                <<ast!FunctionDefinition(Id(A), <<F("1", I32, n, Null)>>, Id(n),
                                         <<F("1", Id(A), B, Null)>>, Null, FALSE),
                  ast!FunctionDefinition(Id(n), <<>>, ast!BaseType("void", Null), Null, Null,
                                         TRUE)>>,
                Null, Id(B)),
              ast!Service(Id(A), <<>>, Null, Null)>>)
Headers(n) ==
    P(<<ast!Include(<<"x">>, Id(n)), ast!Include(<<"y">>, Null), ast!Namespace(Id(n), <<"js">>),
        ast!Namespace(Id(A), <<"py", ".", "twisted">>),
        [type |-> "Array", text |-> <<"cpp_include", " ", "\"", "x", "\"">>]>>, <<>>)
Raw(type, chunks) == [type |-> type, text |-> chunks]
OtherHeaders(n) ==
    {P(<<h, ast!Namespace(Id(n), <<"go">>)>>, <<>>) :
        h \in {Raw("Ignored", <<"namespace", " ", "*", " ", "a">>),
               Raw("Ignored", <<"namespace", " ", "x", " ", "a">>),
               Raw("Ignored", <<"namespace", " ", "js", "x", " ", "a">>),
               Raw("Array", <<"xsd_namespace", " ", "\"", "x", "\"">>),
               Raw("Array", <<"cpp_namespace", " ", "a">>),
               Raw("Array", <<"smalltalk_category", " ", "a">>)}}

Names == {A, <<"_", "a">>, <<"a", ".", "b">>, <<"string">>, <<"string", "y">>, <<"i32", "x">>,
          <<"optional", "x">>, <<"required">>, <<"oneway", "x">>, <<"void", "x">>, <<"void">>,
          <<"map">>, <<"map", "x">>, <<"list">>, <<"set">>, <<"struct">>, <<"extends">>,
          <<"namespace">>}
MCPrograms == UNION {{Structs(n), Types(n), Enums(n), Consts(n), Services(n), Headers(n)}
                     \union OtherHeaders(n) : n \in Names}
MCWords == {"a", "b", "e", "x", "y", "n", "string", "i32", "optional", "required", "oneway", "void", "map",
            "list", "set", "struct", "extends", "namespace", "union", "exception", "typedef",
            "enum", "senum", "const", "service", "throws", "include", "cpp_include", "js", "go", "py",
            "twisted", "xsd_all", "xsd_namespace",
            "cpp_namespace", "smalltalk_category"}
MCComments == {<<" ">>, <<Newline>>, <<"/*", "a", Newline, "*/">>, <<" ", "//", "a", Newline>>,
               <<"/*", "a", "*/">>}
MCExtras == {<<"a">>, <<"5">>, <<"i32">>, <<"optional">>, <<"oneway">>, <<"-">>, <<"&">>, <<"{">>,
             <<"}">>, <<"(">>, <<")">>, <<"=">>, <<":">>, <<"<">>, <<"/*">>, <<"//">>, <<"\"">>,
             <<"struct">>, <<"xsd_all">>}

(* For the run that shows what becomes of the sign of a constant.          *)
MCSigned == {P(<<>>, <<ast!Const(Id(A), I32, N(<<"-", "5">>))>>), Consts(A), Enums(A)}
=============================================================================
