-------------------------------- MODULE Idl --------------------------------
(***************************************************************************)
(* The grammar of Thrift IDL: the rules of thrift-idl.pegjs, from which    *)
(* thrift-idl.js is generated, with the code that makes the syntax tree.   *)
(* A rule has the name it has there; '__' is Blanks and '_' is SameLine.   *)
(***************************************************************************)
EXTENDS PegExpressions, Sequences, SequencesExt

CONSTANTS
    Null,
    Words   \* the chunks that are identifiers by themselves and begin with a letter

ast == INSTANCE Ast

Digits == {"0", "1", "2", "3", "4", "5", "6", "7", "8", "9"}
HexLetters == {"a", "b", "c", "d", "e", "f"}
Quotes == {"\"", "'"}
Newline == "\n"
Backslash == "\\"
Undefined == [type |-> "undefined"]

----------------------------------------------------------------------------
(* Blanks and comments.                                                    *)
WhiteSpace == Class({" "})
LineTerminator == Class({Newline})
LineTerminatorSequence == LineTerminator
MultiLineComment == Then(<<Lit("/*"), Star(Then(<<Not(Lit("*/")), AnyChunk>>)), Lit("*/")>>)
MultiLineCommentNoLineTerminator ==
    Then(<<Lit("/*"), Star(Then(<<Not(OneOf(<<Lit("*/"), LineTerminator>>)), AnyChunk>>)),
           Lit("*/")>>)
SingleLineComment == Then(<<Lit("//"), Star(Then(<<Not(LineTerminator), AnyChunk>>))>>)
UnixComment == Then(<<Lit("#"), Star(Then(<<Not(LineTerminator), AnyChunk>>))>>)
Comment == OneOf(<<MultiLineComment, SingleLineComment, UnixComment>>)
Blanks == Star(OneOf(<<WhiteSpace, LineTerminatorSequence, Comment>>))
SameLine == Star(OneOf(<<WhiteSpace, MultiLineCommentNoLineTerminator>>))

----------------------------------------------------------------------------
(* Words.                                                                  *)
IdentifierStart == Class(Words \union {"_"})
IdentifierPart == OneOf(<<IdentifierStart, Class(Digits \union {"."})>>)
Token(name) == Then(<<Lit(name), Not(IdentifierPart), Blanks>>)
IncludeToken == Token("include")
CppIncludeToken == Token("cpp_include")
NamespaceToken == Token("namespace")
TypedefToken == Token("typedef")
EnumToken == Token("enum")
SenumToken == Token("senum")
ConstToken == Token("const")
VoidToken == Token("void")
SetToken == Token("set")
MapToken == Token("map")
ListToken == Token("list")
UnionToken == Token("union")
ReservedWord == OneOf(<<VoidToken, SetToken, MapToken, ListToken>>)
IdentifierName ==
    Do("IdentifierName", <<Not(ReservedWord), As("first", IdentifierStart),
                           As("rest", Star(IdentifierPart)), Blanks>>)
Identifier == Do("Identifier", <<As("name", IdentifierName), Blanks>>)
container_type_tokens ==
    Then(<<OneOf(<<Lit("map"), Lit("set"), Lit("list")>>), Not(Class(Words \union {"_"}))>>)
word == Plus(Class(Words \union Digits \union {"_", "."}))
STIdentifierName == Then(<<Not(container_type_tokens), word>>)
STIdentifier == Do("STIdentifier", <<As("name", STIdentifierName)>>)

----------------------------------------------------------------------------
(* Literals.                                                               *)
SingleEscapeCharacter ==
    OneOf(<<Class(Quotes), Lit(Backslash), Do("BS", <<Lit("b")>>), Do("FF", <<Lit("f")>>),
            Do("NL", <<Lit("n")>>), Do("CR", <<Lit("r")>>), Do("HT", <<Lit("t")>>),
            Do("VT", <<Lit("v")>>)>>)
DecimalDigit == Class(Digits)
EscapeCharacter == OneOf(<<SingleEscapeCharacter, DecimalDigit, Lit("x"), Lit("u")>>)
NonEscapeCharacter ==
    Do("char", <<Not(OneOf(<<EscapeCharacter, LineTerminator>>)), As("char", AnyChunk)>>)
CharacterEscapeSequence == OneOf(<<SingleEscapeCharacter, NonEscapeCharacter>>)
HexDigit == Class(Digits \union HexLetters)
HexEscapeSequence == Do("CharCode", <<Lit("x"), As("digits", Then(<<HexDigit, HexDigit>>))>>)
UnicodeEscapeSequence ==
    Do("CharCode",
       <<Lit("u"), As("digits", Then(<<HexDigit, HexDigit, HexDigit, HexDigit>>))>>)
EscapeSequence ==
    OneOf(<<CharacterEscapeSequence, Do("NUL", <<Lit("0"), Not(DecimalDigit)>>),
            HexEscapeSequence, UnicodeEscapeSequence>>)
LineContinuation == Do("nothing", <<Lit(Backslash), LineTerminatorSequence>>)
StringCharacter(quote) ==
    OneOf(<<Do("char", <<Not(OneOf(<<Lit(quote), Lit(Backslash), LineTerminator>>)),
                         As("char", AnyChunk)>>),
            Do("sequence", <<Lit(Backslash), As("sequence", EscapeSequence)>>),
            LineContinuation>>)
DoubleStringCharacter == StringCharacter("\"")
SingleStringCharacter == StringCharacter("'")
Quoted(quote, character) ==
    Do("String", <<Lit(quote), As("chars", Star(character)), Lit(quote), Blanks>>)
String == OneOf(<<Quoted("\"", DoubleStringCharacter), Quoted("'", SingleStringCharacter)>>)
StringLiteral == Do("StringLiteral", <<As("str", String)>>)

Sign == Class({"+", "-"})
SignedInteger == Do("Number", <<Opt(Sign), Plus(DecimalDigit)>>)
HexIntegerLiteral == Do("Hex", <<Lits(<<"0", "x">>), As("digits", Plus(HexDigit))>>)
IntConstant == OneOf(<<HexIntegerLiteral, SignedInteger>>)
ExponentIndicator == Lit("e")
ExponentPart == Then(<<ExponentIndicator, SignedInteger>>)
DecimalLiteral ==
    OneOf(<<Do("Number", <<Plus(DecimalDigit), Opt(Then(<<Lit("."), Plus(DecimalDigit)>>)),
                           Opt(ExponentPart)>>),
            Do("Number", <<Lit("."), Plus(DecimalDigit), Opt(ExponentPart)>>),
            Do("Number", <<Plus(DecimalDigit), Opt(ExponentPart)>>)>>)
NumberLiteral ==
    OneOf(<<HexIntegerLiteral, Do("i", <<Opt(Sign), As("i", DecimalLiteral)>>),
            SignedInteger>>)

----------------------------------------------------------------------------
(* What several definitions share.                                         *)
CommaOrSemicolon == OneOf(<<Then(<<Lit(","), Blanks>>), Then(<<Lit(";"), Blanks>>)>>)
ListSeparator == CommaOrSemicolon
TypeAnnotation ==
    Do("TypeAnnotation",
       <<As("name", IdentifierName),
         As("v", Opt(Do("l", <<Lit("="), Blanks, As("l", String)>>))), Opt(ListSeparator)>>)
TypeAnnotations ==
    Do("TypeAnnotations",
       <<Lit("("), Blanks, As("entries", Star(TypeAnnotation)), Blanks, Lit(")"), Blanks>>)
Annotated == As("ta", Opt(TypeAnnotations))

(* Types.                                                                  *)
cppType == Then(<<Lit("cpp_type"), Blanks, String>>)
MapType ==
    Do("MapType", <<Lit("map"), Blanks, Opt(cppType), Lit("<"), Blanks,
                    As("ft1", Rule("FieldType")), Blanks, Lit(","), Blanks,
                    As("ft2", Rule("FieldType")), Blanks, Lit(">"), Blanks, Annotated>>)
SetType ==
    Do("SetType", <<Lit("set"), Blanks, Opt(cppType), Lit("<"), Blanks,
                    As("ft", Rule("FieldType")), Blanks, Lit(">"), Blanks, Annotated>>)
ListType ==
    Do("ListType", <<Lit("list"), Blanks, Lit("<"), Blanks, As("ft", Rule("FieldType")),
                     Blanks, Lit(">"), Blanks, Annotated, Opt(cppType)>>)
ContainerType == OneOf(<<MapType, SetType, ListType>>)
BaseTypeName ==
    OneOf(<<Lit("bool"), Lit("byte"), Lit("i8"), Lit("i16"), Lit("i32"), Lit("i64"),
            Lit("double"), Lit("string"), Lit("binary"), Lit("slist")>>)
BaseType == Do("BaseType", <<As("t", BaseTypeName), Blanks, Annotated>>)
FieldType == OneOf(<<BaseType, ContainerType, Identifier>>)
FunctionType == OneOf(<<Do("void", <<Lit("void"), Blanks>>), FieldType>>)
DefinitionType == Do("ft", <<As("ft", FieldType), Blanks>>)

(* Values of constants and defaults.                                       *)
ConstList ==
    Do("ConstList",
       <<Lit("["), Blanks,
         As("values", Star(Do("v", <<As("v", Rule("ConstValue")), Blanks, Opt(ListSeparator),
                                     Blanks>>))),
         Lit("]"), Blanks>>)
ConstValueEntry ==
    Do("ConstEntry", <<As("k", Rule("ConstValue")), Blanks, Lit(":"), Blanks,
                       As("v", Rule("ConstValue")), Blanks, Opt(ListSeparator)>>)
ConstMap ==
    Do("ConstMap",
       <<Lit("{"), Blanks, As("entries", Star(ConstValueEntry)), Lit("}"), Blanks>>)
ConstValue == OneOf(<<ConstList, ConstMap, StringLiteral, NumberLiteral, Identifier>>)

----------------------------------------------------------------------------
(* Fields.                                                                 *)
FieldIdentifier == Do("FieldIdentifier", <<As("id", IntConstant), Lit(":"), SameLine>>)
FieldRequiredness ==
    OneOf(<<Do("required", <<Lit("required"), Blanks>>),
            Do("optional", <<Lit("optional"), Blanks>>)>>)
Recursive == OneOf(<<Do("true", <<Opt(Lit("&")), Blanks>>), Do("false", <<>>)>>)
FieldValue == Do("cv", <<Lit("="), Blanks, As("cv", ConstValue), Blanks>>)
xsdAll == Then(<<Lit("xsd_all"), Blanks>>)
xsdOptional == Then(<<Lit("xsd_optional"), Blanks>>)
xsdNillable == Then(<<Lit("xsd_nillable"), Blanks>>)
xsdAttributes ==
    Then(<<Lit("xsd_attributes"), Blanks, Lit("{"), Blanks, Star(Rule("Field")), Blanks,
           Lit("}"), Blanks>>)
XsdFieldOptions == Then(<<Opt(xsdOptional), Opt(xsdNillable), Opt(xsdAttributes)>>)
Field ==
    Do("Field",
       <<SameLine, As("id", Opt(FieldIdentifier)), As("req", Opt(FieldRequiredness)),
         As("ft", FieldType), As("rec", Opt(Recursive)), As("name", IdentifierName),
         As("fv", Opt(FieldValue)), Opt(XsdFieldOptions), Annotated, Opt(ListSeparator)>>)
Fields == As("fs", Star(Field))

----------------------------------------------------------------------------
(* Definitions.                                                            *)
Typedef ==
    Do("Typedef", <<TypedefToken, Blanks, As("dt", DefinitionType), As("id", Identifier),
                    Annotated, Opt(ListSeparator)>>)
EnumDefinition ==
    Do("EnumDefinition",
       <<As("id", Identifier),
         As("value", Opt(Do("v", <<Lit("="), Blanks, As("v", IntConstant)>>))), Blanks,
         Annotated, Opt(ListSeparator), Blanks>>)
Enum ==
    Do("Enum", <<EnumToken, Blanks, As("id", Identifier), Blanks, Lit("{"), Blanks,
                 As("ed", Star(EnumDefinition)), Blanks, Lit("}"), Blanks, Annotated>>)
SenumDefinition == Do("s", <<As("s", String), Opt(ListSeparator)>>)
Senum ==
    Do("Senum", <<SenumToken, As("id", Identifier), Lit("{"), Blanks,
                  As("ss", Star(SenumDefinition)), Lit("}"), Blanks, Annotated>>)
Const ==
    Do("Const", <<ConstToken, As("ft", FieldType), As("id", Identifier), Lit("="), Blanks,
                  As("cv", ConstValue), Opt(ListSeparator), Blanks>>)
Struct ==
    Do("Struct", <<Lit("struct"), Blanks, As("id", Identifier), Opt(xsdAll), Blanks, Lit("{"),
                   Blanks, Fields, Blanks, Lit("}"), Blanks, Annotated>>)
Union ==
    Do("Union", <<UnionToken, As("id", Identifier), Opt(xsdAll), Blanks, Lit("{"),
                  Blanks, Fields, Blanks, Lit("}"), Blanks, Annotated>>)
Exception ==
    Do("Exception", <<Lit("exception"), Blanks, As("id", Identifier), Lit("{"), Blanks, Fields,
                      Blanks, Lit("}"), Blanks, Annotated, Blanks>>)
oneway == OneOf(<<Do("true", <<Lit("oneway"), Blanks>>), Do("false", <<>>)>>)
throwz ==
    Do("fs", <<Lit("throws"), Blanks, Lit("("), Blanks, Fields, Blanks, Lit(")"), Blanks>>)
function ==
    Do("Function",
       <<Blanks, As("oneway", oneway), As("ft", FunctionType), As("id", Identifier),
         Lit("("), Blanks, Fields, Blanks, Lit(")"), Blanks, As("ts", Opt(throwz)), Annotated,
         Opt(ListSeparator), SameLine>>)
extends == Do("baseService", <<Lit("extends"), Blanks, As("baseService", Identifier)>>)
Service ==
    Do("Service", <<Lit("service"), Blanks, As("id", Identifier), As("bs", Opt(extends)),
                    Lit("{"), Blanks, As("fns", Star(function)), Blanks, Lit("}"), Blanks,
                    Annotated>>)
Definition == OneOf(<<Const, Typedef, Enum, Senum, Struct, Union, Exception, Service>>)

----------------------------------------------------------------------------
(* Headers.                                                                *)
Include ==
    Do("Include", <<IncludeToken, As("namespace", Opt(Identifier)), Blanks,
                    As("id", String)>>)
CppInclude == Then(<<CppIncludeToken, String>>)
(* Fault: py is looked for before py.twisted.                              *)
NamespaceScopePyFirst ==
    OneOf(<<Lit("cpp"), Lit("java"), Lit("py"), Lits(<<"py", ".", "twisted">>), Lit("perl"),
            Lit("rb"), Lit("cocoa"), Lit("csharp"), Lit("php"), Lit("as3"), Lit("c_glib"),
            Lit("js"), Lit("st"), Lit("go"), Lit("delphi"), Lit("lua")>>)
NamespaceScope ==
    OneOf(<<Lit("cpp"), Lit("java"), Lits(<<"py", ".", "twisted">>), Lit("py"), Lit("perl"),
            Lit("rb"), Lit("cocoa"), Lit("csharp"), Lit("php"), Lit("as3"), Lit("c_glib"),
            Lit("js"), Lit("st"), Lit("go"), Lit("delphi"), Lit("lua")>>)
Namespace ==
    OneOf(<<Do("Namespace", <<NamespaceToken, As("scope", NamespaceScope), Blanks,
                              As("id", Identifier)>>),
            Then(<<NamespaceToken, Lits(<<"smalltalk", ".", "category">>), Blanks,
                   STIdentifier>>),
            Then(<<NamespaceToken, Lits(<<"smalltalk", ".", "prefix">>), Blanks, Identifier>>),
            Then(<<Lit("php_namespace"), Blanks, String>>),
            Then(<<Lit("xsd_namespace"), Blanks, String>>),
            Do("undefined", <<NamespaceToken, Lit("*"), Blanks, Identifier>>),
            Do("undefined", <<NamespaceToken, Identifier, Identifier>>)>>)
OldHeader(name, e) == Then(<<Lit(name), e>>)
Header ==
    OneOf(<<Include, CppInclude, Namespace, OldHeader("cpp_namespace", Identifier),
            OldHeader("php_namespace", Identifier), OldHeader("py_module", Identifier),
            OldHeader("perl_package", Identifier), OldHeader("ruby_namespace", Identifier),
            OldHeader("smalltalk_category", STIdentifier),
            OldHeader("smalltalk_prefix", Identifier), OldHeader("java_package", Identifier),
            OldHeader("cocoa_package", Identifier), OldHeader("xsd_namespace", String),
            OldHeader("csharp_namespace", Identifier)>>)
Program ==
    Do("Program", <<Blanks, As("hs", Star(Header)), As("ds", Star(Definition))>>)

----------------------------------------------------------------------------
(* The code in braces.                                                     *)

(* parseFloat and parseInt: of a text they keep all but a plus sign.       *)
Number(text) == [number |-> IF Head(text) = "+" THEN Tail(text) ELSE text]

(* An object has a name once, with the value that was set last.            *)
AnnotationObject(entries) ==
    LET LastOf(name) == CHOOSE i \in DOMAIN entries :
                        /\ entries[i].name = name
                        /\ \A j \in DOMAIN entries : entries[j].name = name => j <= i
        IsFirst(i) == \A j \in 1..(i - 1) : entries[j].name # entries[i].name
        first == SelectSeq([i \in DOMAIN entries |-> i], IsFirst)
    IN [k \in DOMAIN first |-> entries[LastOf(entries[first[k]].name)]]

Act(name, l, text) ==
    CASE name = "IdentifierName" -> <<l.first>> \o l.rest
      [] name \in {"Identifier", "STIdentifier"} -> ast!Identifier(l.name)
      [] name = "Number" -> ast!Literal(Number(text))
      [] name = "Hex" -> ast!Literal([number |-> <<"0", "x">> \o l.digits])
      [] name = "String" -> SelectSeq(l.chars, LAMBDA c : c # "")
      [] name = "nothing" -> ""
      [] name \in {"BS", "FF", "NL", "CR", "HT", "VT", "NUL"} -> name
      [] name = "CharCode" -> ToString(l.digits.text)
      [] name = "StringLiteral" -> ast!Literal([string |-> l.str])
      [] name = "true" -> TRUE
      [] name = "false" -> FALSE
      [] name \in {"required", "optional"} -> name
      [] name = "void" -> ast!BaseType("void", Null)
      [] name = "BaseType" -> ast!BaseType(l.t[1], l.ta)
      [] name = "MapType" -> ast!MapType(l.ft1, l.ft2, l.ta)
      [] name = "SetType" -> ast!SetType(l.ft, l.ta)
      [] name = "ListType" -> ast!ListType(l.ft, l.ta)
      [] name = "TypeAnnotation" -> ast!TypeAnnotation(l.name, l.v)
      [] name = "TypeAnnotations" -> AnnotationObject(l.entries)
      [] name = "ConstList" -> ast!ConstList(l.values)
      [] name = "ConstMap" -> ast!ConstMap(l.entries)
      [] name = "ConstEntry" -> ast!ConstEntry(l.k, l.v)
      [] name = "FieldIdentifier" -> ast!FieldIdentifier(l.id.value)
      [] name = "Field" -> ast!Field(l.id, l.ft, l.name, l.req, l.fv, l.ta)
      [] name = "Typedef" -> ast!Typedef(l.dt, l.id, l.ta)
      [] name = "EnumDefinition" -> ast!EnumDefinition(l.id, l.value, l.ta)
      [] name = "Enum" -> ast!Enum(l.id, l.ed, l.ta)
      [] name = "Senum" -> ast!Senum(l.id, l.ss, l.ta)
      [] name = "Const" -> ast!Const(l.id, l.ft, l.cv)
      [] name = "Struct" -> ast!Struct(l.id, l.fs, l.ta)
      [] name = "Union" -> ast!Union(l.id, l.fs, l.ta)
      [] name = "Exception" -> ast!Exception(l.id, l.fs, l.ta)
      [] name = "Function" -> ast!FunctionDefinition(l.id, l.fs, l.ft, l.ts, l.ta, l.oneway)
      [] name = "Service" -> ast!Service(l.id, l.fns, l.ta, l.bs)
      [] name = "Include" -> ast!Include(l.id, l.namespace)
      [] name = "Namespace" -> ast!Namespace(l.id, l.scope)
      [] name = "undefined" -> Undefined
      [] name = "Program" -> ast!Program(SelectSeq(l.hs, LAMBDA h : h # Undefined), l.ds)
      [] OTHER -> l[name]   \* the code returns one of its labels

Grammar == [FieldType |-> FieldType, ConstValue |-> ConstValue, Field |-> Field]
peg == INSTANCE Peg

(* parse: the whole input has to be taken. Fault: its beginning is enough. *)
parseBeginning(s) ==
    LET r == peg!Match(Program, s, 1) IN IF peg!Fails(r) THEN Null ELSE r.value
parse(s) ==
    LET r == peg!Match(Program, s, 1)
    IN IF peg!Fails(r) \/ r.at # Len(s) + 1 THEN Null ELSE r.value
=============================================================================
