------------------------------ MODULE IdlText ------------------------------
(***************************************************************************)
(* Someone writes a Thrift file and idl.parse reads it. What is meant is a *)
(* syntax tree. It is written lexeme by lexeme, with blanks and comments   *)
(* where the author likes, with or without separators, and with slips: a   *)
(* lexeme is left out, or another one gets in.                             *)
(*                                                                         *)
(* Write says how a tree is spelled. It is the language as its users know  *)
(* it, not the grammar backwards: what the grammar asks beyond that, blank *)
(* by blank, is 'gap', the blanks that may be before a lexeme.             *)
(***************************************************************************)
EXTENDS Idl

CONSTANTS
    Programs,    \* the trees that are meant
    Comments,    \* what may be written between lexemes
    Extras,      \* lexemes that get in by a slip
    Unread,      \* no tree yet
    Oddities     \* how many unusual gaps, separators and slips a text has at most

VARIABLES
    program,     \* the tree that is meant
    todo,        \* the lexemes still to be written
    text,
    oddities,    \* unusual things written
    lawful,      \* FALSE: a gap is where the grammar takes none
    slipped,
    tree         \* what parse gave, once it has

vars == <<program, todo, text, oddities, lawful, slipped, tree>>

----------------------------------------------------------------------------
(* Spelling.                                                               *)
Lexeme(kind, chunks, gap) == [kind |-> kind, chunks |-> chunks, gap |-> gap]
W(chunk) == <<Lexeme("keyword", <<chunk>>, "free")>>
Name(name) == <<Lexeme("name", name, "free")>>
Separator(gap) == <<Lexeme("separator", <<>>, gap)>>

IsSeparator(lexeme) == lexeme.kind = "separator"

Each(seq, Op(_)) == FlattenSeq([i \in DOMAIN seq |-> Op(seq[i])])
Optional(x, lexemes) == IF x = Null THEN <<>> ELSE lexemes

EscapeOf == [BS |-> "b", FF |-> "f", NL |-> "n", CR |-> "r", HT |-> "t", VT |-> "v", NUL |-> "0"]
Spell(char) ==
    CASE char \in DOMAIN EscapeOf -> <<Backslash, EscapeOf[char]>>
      [] char \in {"\"", Backslash} -> <<Backslash, char>>
      [] OTHER -> <<char>>
Quote(chars) == <<"\"">> \o FlattenSeq([i \in DOMAIN chars |-> Spell(chars[i])]) \o <<"\"">>
WriteNumber(literal) == Name(literal.value.number)

WriteAnnotation(a) ==
    Name(a.name) \o Optional(a.value, W("=") \o Name(Quote(a.value))) \o Separator("free")
WriteAnnotations(as) ==
    IF as = <<>> THEN <<>> ELSE W("(") \o Each(as, WriteAnnotation) \o W(")")

RECURSIVE WriteType(_)
WriteType(t) ==
    CASE t.type = "Identifier" -> Name(t.name)
      [] t.type = "BaseType" -> W(t.baseType) \o WriteAnnotations(t.annotations)
      [] t.type = "Map" -> W("map") \o W("<") \o WriteType(t.keyType) \o W(",")
                           \o WriteType(t.valueType) \o W(">") \o WriteAnnotations(t.annotations)
      [] t.type = "Set" -> W("set") \o W("<") \o WriteType(t.valueType) \o W(">")
                           \o WriteAnnotations(t.annotations)
      [] t.type = "List" -> W("list") \o W("<") \o WriteType(t.valueType) \o W(">")
                            \o WriteAnnotations(t.annotations)

RECURSIVE WriteValue(_)
WriteValue(v) ==
    CASE v.type = "Identifier" -> Name(v.name)
      [] v.type = "Literal" -> IF "number" \in DOMAIN v.value THEN WriteNumber(v)
                               ELSE Name(Quote(v.value.string))
      [] v.type = "ConstList" ->
            W("[") \o FlattenSeq([i \in DOMAIN v.values |->
                                    WriteValue(v.values[i]) \o Separator("free")]) \o W("]")
      [] v.type = "ConstMap" ->
            W("{") \o FlattenSeq([i \in DOMAIN v.entries |->
                                    WriteValue(v.entries[i].key) \o W(":")
                                    \o WriteValue(v.entries[i].value) \o Separator("free")])
            \o W("}")

(* The number of a field and its colon are one; what follows the colon is  *)
(* on the same line.                                                       *)
WriteField(f) ==
    LET rest == (IF f.required THEN W("required") ELSE <<>>)
                \o (IF f.optional THEN W("optional") ELSE <<>>)
                \o WriteType(f.valueType) \o Name(f.name)
                \o Optional(f.defaultValue, W("=") \o WriteValue(f.defaultValue))
                \o WriteAnnotations(f.annotations) \o Separator("free")
    IN IF f.id = Null THEN rest
       ELSE Name(f.id.value.number) \o <<Lexeme("keyword", <<":">>, "none")>>
            \o <<[rest[1] EXCEPT !.gap = "line"]>> \o Tail(rest)
WriteFields(fs) == Each(fs, WriteField)

WriteFunction(f) ==
    (IF f.oneway THEN W("oneway") ELSE <<>>)
    \o (IF f.returns = ast!BaseType("void", Null) THEN W("void") ELSE WriteType(f.returns))
    \o Name(f.id.name) \o W("(") \o WriteFields(f.fields) \o W(")")
    \o Optional(f.throws, W("throws") \o W("(") \o WriteFields(f.throws) \o W(")"))
    \o WriteAnnotations(f.annotations) \o Separator("free")

WriteMember(m) ==
    Name(m.id.name) \o Optional(m.value, W("=") \o WriteNumber(m.value))
    \o WriteAnnotations(m.annotations) \o Separator("free")
WriteBody(word1, d) ==
    W(word1) \o Name(d.id.name) \o W("{") \o WriteFields(d.fields) \o W("}")
    \o WriteAnnotations(d.annotations)

(* A number takes no blanks behind it, so a separator behind a const that  *)
(* is a number is close to it.                                             *)
AfterValue(v) == IF v.type = "Literal" /\ "number" \in DOMAIN v.value THEN "none" ELSE "free"

WriteDefinition(d) ==
    CASE d.type = "Typedef" -> W("typedef") \o WriteType(d.valueType) \o Name(d.id.name)
                               \o WriteAnnotations(d.annotations) \o Separator("free")
      [] d.type = "Enum" -> W("enum") \o Name(d.id.name) \o W("{")
                            \o Each(d.definitions, WriteMember) \o W("}")
                            \o WriteAnnotations(d.annotations)
      [] d.type = "Senum" -> W("senum") \o Name(d.id.name) \o W("{")
                             \o FlattenSeq([i \in DOMAIN d.senumDefinitions |->
                                    Name(Quote(d.senumDefinitions[i])) \o Separator("free")])
                             \o W("}") \o WriteAnnotations(d.annotations)
      [] d.type = "Const" -> W("const") \o WriteType(d.fieldType) \o Name(d.id.name) \o W("=")
                             \o WriteValue(d.value) \o Separator(AfterValue(d.value))
      [] d.type = "Struct" -> WriteBody("struct", d)
      [] d.type = "Union" -> WriteBody("union", d)
      [] d.type = "Exception" -> WriteBody("exception", d)
      [] d.type = "Service" ->
            W("service") \o Name(d.id.name)
            \o Optional(d.baseService, W("extends") \o Name(d.baseService.name))
            \o W("{") \o Each(d.functions, WriteFunction) \o W("}")
            \o WriteAnnotations(d.annotations)

WriteHeader(h) ==
    CASE h.type = "Include" -> W("include") \o Optional(h.namespace, Name(h.namespace.name))
                               \o Name(Quote(h.id))
      [] h.type = "Namespace" -> W("namespace") \o Name(h.scope) \o Name(h.id.name)
      [] h.type \in {"Array", "Ignored"} -> Name(h.text)

Write(p) == Each(p.headers, WriteHeader) \o Each(p.definitions, WriteDefinition)

----------------------------------------------------------------------------
(* Writing.                                                                *)
IdentifierChunks == Words \union Digits \union {"_", "."}

(* Words next to each other need a blank between them.                     *)
UsualGap(s, chunks) ==
    IF s # <<>> /\ Last(s) \in IdentifierChunks /\ Head(chunks) \in IdentifierChunks
    THEN <<" ">> ELSE <<>>

GapAllowed(gap, c) ==
    CASE gap = "free" -> TRUE
      [] gap = "line" -> \A i \in DOMAIN c : c[i] \notin {Newline, "//", "#"}
      [] gap = "none" -> c = <<>>

WriteLexeme ==
    /\ todo # <<>>
    /\ ~IsSeparator(Head(todo))
    /\ text' = text \o UsualGap(text, Head(todo).chunks) \o Head(todo).chunks
    /\ todo' = Tail(todo)
    /\ UNCHANGED <<program, oddities, lawful, slipped, tree>>

WriteWithGap ==
    /\ todo # <<>>
    /\ oddities < Oddities
    /\ \E c \in Comments, chunks \in IF IsSeparator(Head(todo)) THEN {<<",">>, <<";">>}
                                     ELSE {Head(todo).chunks} :
            /\ text' = text \o c \o chunks
            /\ lawful' = (lawful /\ GapAllowed(Head(todo).gap, c))
    /\ todo' = Tail(todo)
    /\ oddities' = oddities + 1
    /\ UNCHANGED <<program, slipped, tree>>

WriteSeparator ==
    /\ todo # <<>>
    /\ IsSeparator(Head(todo))
    /\ \/ text' = Append(text, ",") /\ oddities' = oddities
       \/ oddities < Oddities /\ text' = Append(text, ";") /\ oddities' = oddities + 1
       \/ oddities < Oddities /\ text' = text /\ oddities' = oddities + 1
    /\ todo' = Tail(todo)
    /\ UNCHANGED <<program, lawful, slipped, tree>>

LeaveOut ==
    /\ todo # <<>>
    /\ oddities < Oddities
    /\ todo' = Tail(todo)
    /\ oddities' = oddities + 1
    /\ slipped' = TRUE
    /\ UNCHANGED <<program, text, lawful, tree>>

PutIn ==
    /\ todo # <<>>
    /\ oddities < Oddities
    /\ \E extra \in Extras : text' = text \o UsualGap(text, extra) \o extra
    /\ oddities' = oddities + 1
    /\ slipped' = TRUE
    /\ UNCHANGED <<program, todo, lawful, tree>>

(* idl.parse(source)                                                       *)
Parse ==
    /\ todo = <<>>
    /\ tree = Unread
    /\ tree' = parse(text)
    /\ UNCHANGED <<program, todo, text, oddities, lawful, slipped>>

Init ==
    /\ program \in Programs
    /\ todo = Write(program)
    /\ text = <<>>
    /\ oddities = 0
    /\ lawful = TRUE
    /\ slipped = FALSE
    /\ tree = Unread

Next == WriteLexeme \/ WriteWithGap \/ WriteSeparator \/ LeaveOut \/ PutIn \/ Parse

Spec == Init /\ [][Next]_vars

----------------------------------------------------------------------------
(* A plain lexer to compare with: words, numbers and strings are as long   *)
(* as they can be; blanks and comments are nothing, and neither are the    *)
(* words and separators that leave nothing in a syntax tree.               *)
Meaningless == {",", ";", "&", "xsd_all", "xsd_optional", "xsd_nillable"}
EndOfComment(s, i, closing) ==
    LET ends == {j \in i..Len(s) : s[j] = closing} IN IF ends = {} THEN Len(s) ELSE Min(ends)
EndOfString(s, i) ==
    LET ends == {j \in (i + 1)..Len(s) : s[j] = s[i] /\ s[j - 1] # Backslash}
    IN IF ends = {} THEN Len(s) ELSE Min(ends)
EndOfWord(s, i) ==
    Min({j \in i..Len(s) : j = Len(s) \/ s[j + 1] \notin IdentifierChunks})

RECURSIVE Tokens(_, _)
Tokens(s, i) ==
    CASE i > Len(s) -> <<>>
      [] i <= Len(s) /\ s[i] \in {" ", Newline} \union Meaningless -> Tokens(s, i + 1)
      [] i <= Len(s) /\ s[i] = "/*" -> Tokens(s, EndOfComment(s, i, "*/") + 1)
      [] i <= Len(s) /\ s[i] \in {"//", "#"} -> Tokens(s, EndOfComment(s, i, Newline) + 1)
      [] OTHER ->
            LET end == IF s[i] \in Quotes THEN EndOfString(s, i)
                       ELSE IF s[i] \in IdentifierChunks THEN EndOfWord(s, i) ELSE i
            IN <<SubSeq(s, i, end)>> \o Tokens(s, end + 1)

Spelled(p) ==
    LET lexemes == Write(p)
    IN FoldLeft(LAMBDA s, l : IF IsSeparator(l) THEN Append(s, ",")
                             ELSE s \o UsualGap(s, l.chunks) \o l.chunks,
               <<>>, lexemes)

RECURSIVE TypesIn(_)
TypesIn(t) ==   \* the names of types a type refers to
    CASE t.type = "Identifier" -> {t.name}
      [] t.type = "BaseType" -> {}
      [] t.type = "Map" -> TypesIn(t.keyType) \union TypesIn(t.valueType)
      [] OTHER -> TypesIn(t.valueType)

FieldsOf(d) ==
    CASE d.type \in {"Struct", "Union", "Exception"} -> Range(d.fields)
      [] d.type = "Service" -> UNION {Range(f.fields) \union
                                      (IF f.throws = Null THEN {} ELSE Range(f.throws)) :
                                        f \in Range(d.functions)}
      [] OTHER -> {}
Returns(d) == IF d.type = "Service" THEN {f.returns : f \in Range(d.functions)} ELSE {}
TypeNames(d) ==
    UNION {TypesIn(f.valueType) : f \in FieldsOf(d)} \union UNION {TypesIn(t) : t \in Returns(d)}
    \union (CASE d.type = "Typedef" -> TypesIn(d.valueType)
              [] d.type = "Const" -> TypesIn(d.fieldType)
              [] OTHER -> {})

BaseTypeNames == {"bool", "byte", "i8", "i16", "i32", "i64", "double", "string", "binary", "slist"}
ReservedWords == {<<w>> : w \in {"void", "set", "map", "list"}}

(* A name of a type begins with a word that the grammar takes there as the *)
(* whole word: "stringy" is a string, "optionals" is optional.             *)
BeginsWith(name, words) == Head(name) \in words
Misread(d) ==
    \/ \E name \in TypeNames(d) : BeginsWith(name, BaseTypeNames)
    \/ \E f \in FieldsOf(d) : /\ ~f.required /\ ~f.optional
                              /\ f.valueType.type = "Identifier"
                              /\ BeginsWith(f.valueType.name, {"required", "optional"})
    \/ d.type = "Service" /\ \E f \in Range(d.functions) :
            /\ f.returns.type = "Identifier"
            /\ \/ BeginsWith(f.returns.name, {"void"})
               \/ ~f.oneway /\ BeginsWith(f.returns.name, {"oneway"})

Meant(p) == [p EXCEPT !.headers = SelectSeq(@, LAMBDA h : h.type # "Ignored")]
(* Of a header without a node only the words count, not the blanks in it.  *)
Tidy(p) == [p EXCEPT !.headers =
              [i \in DOMAIN @ |-> IF @[i].type # "Array" THEN @[i]
                                  ELSE [type |-> "Array", words |-> Tokens(@[i].text, 1)]]]
HasReservedName(p) ==
    \E l \in Range(Write(p)) : l.kind = "name" /\ l.chunks \in ReservedWords

(* The same with headers: "jsx" is js and a name. And the words of old     *)
(* headers take no blank behind them, so a name there is a part of them.   *)
Scopes == {"cpp", "java", "py", "perl", "rb", "cocoa", "csharp", "php", "as3", "c_glib", "js",
           "st", "go", "delphi", "lua"}
OldHeaders == {"cpp_namespace", "php_namespace", "py_module", "perl_package", "ruby_namespace",
               "smalltalk_category", "smalltalk_prefix", "java_package", "cocoa_package",
               "csharp_namespace"}
MisreadHeader(h) ==
    \/ h.type = "Ignored" /\ BeginsWith(SubSeq(h.text, 3, 3), Scopes)
    \/ h.type = "Array" /\ BeginsWith(h.text, OldHeaders)

(* A file without slips is read as it was meant, however it is laid out;   *)
(* where the grammar takes no gap, and where a name is a reserved word, it *)
(* is refused; and only a name of a type that begins with a keyword is     *)
(* misread (no alternative of thrift-idl.js is tried again, and most of    *)
(* its keywords do not look at what follows them).                         *)
ReadAsMeant ==
    tree # Unread /\ ~slipped =>
        IF ~lawful \/ HasReservedName(program) THEN tree = Null
        ELSE (tree # Null /\ Tidy(tree) = Tidy(Meant(program))) <=>
                /\ \A i \in DOMAIN program.definitions : ~Misread(program.definitions[i])
                /\ \A i \in DOMAIN program.headers : ~MisreadHeader(program.headers[i])

Keywords == BaseTypeNames \union {"required", "optional", "void", "oneway", "throws", "extends",
                                  "struct", "exception", "service"}
Glued(token) == Len(token) > 1 /\ Head(token) \in Keywords
(* A number ends where its digits end: '-0xa' is the number -0 and the     *)
(* word xa, since only '0x' without a sign begins a hexadecimal number.    *)
SignedHex(ts) ==
    \E i \in 1..(Len(ts) - 1) : ts[i] = <<"-">> /\ Len(ts[i + 1]) > 1 /\ ts[i + 1][2] = "x"
IsSign(token) == token \in {<<"+">>, <<"-">>}
Brackets(ts, i) == ts[i] = <<"(">> /\ i < Len(ts) /\ ts[i + 1] = <<")">>
Significant(ts) ==
    LET Kept(i) == /\ ~IsSign(ts[i])
                   /\ ~Brackets(ts, i)
                   /\ i = 1 \/ ~Brackets(ts, i - 1)
        kept == SelectSeq([i \in DOMAIN ts |-> i], Kept)
    IN [k \in DOMAIN kept |-> ts[kept[k]]]

(* Nothing that is written gets lost: whatever is accepted, slips and all, *)
(* the syntax tree has every word of, whole and in order. Left out are     *)
(* words that begin with a keyword (see ReadAsMeant), headers that mean    *)
(* nothing to the program, and signs (see NumbersAreSigned).               *)
NothingLost ==
    /\ tree \notin {Unread, Null}
    /\ Meant(program) = program
    /\ \A token \in Range(Tokens(text, 1)) : ~Glued(token)
    /\ ~SignedHex(Tokens(text, 1))
    => Significant(Tokens(Spelled(tree), 1)) = Significant(Tokens(text, 1))

(* A constant has the sign that was written: test/thrift/ConstantsDemo     *)
(* .thrift 44 has 'const i32 GEN_ME = -3523553'.                           *)
NumbersAreSigned ==
    tree \notin {Unread, Null} /\ ~slipped /\ lawful =>
        \A i \in DOMAIN program.definitions :
            program.definitions[i].type = "Const" /\ program.definitions[i].value.type = "Literal"
            => tree.definitions[i].value = program.definitions[i].value
=============================================================================
