------------------------------- MODULE Linker -------------------------------
(***************************************************************************)
(* compile and link of thrift.js, with the compile and link methods of     *)
(* const.js, typedef.js, enum.js, struct.js and service.js: what a Thrift  *)
(* does with the modules once all of them are parsed.  Linking is a search *)
(* in depth: a definition is linked when it is first referred to, whatever *)
(* the order it stands in.  The call stack is a variable; a step is what   *)
(* the code does between two calls of link.                                *)
(*                                                                         *)
(* A definition is a record:                                               *)
(*   kind  "include", "const", "typedef", "enum", "struct" or "service"    *)
(*   name                                                                  *)
(*   refs  what a const, a typedef or a service resolves, in the order of  *)
(*         link: [role, path], where role is "value", "type" or "service"  *)
(*         and path a dotted name                                          *)
(*   lit   what a const or a typedef without references stands for; the    *)
(*         default of a field that is a literal is a const of that literal *)
(*   list  a const or a typedef is a container of what it refers to        *)
(*   of    a struct is a plain "struct", or that of the "arguments" or the *)
(*         "result" of a function; fields, each with the path of its type  *)
(*         and of its default, or Null, and its mark: "required",          *)
(*         "optional" or "none" (not its id, so not the check of it)        *)
(*   file  of an include; members of an enum; functions of a service: the  *)
(*         name, the fields of args, 'success' (returns) and throws, or    *)
(*         Null if it has no list of them                                  *)
(***************************************************************************)
EXTENDS Naturals, FiniteSets, SequencesExt

CONSTANTS Programs,     \* [files, strict, allowOptionalArguments, times]:
                        \* files has the definitions by file, includes first;
                        \* times is how often a Thrift is made of the trees
          Builtins,     \* definitions every module ends with
          Entry,        \* the file a Thrift is made for
          MaxDepth,     \* bound: calls the JavaScript stack holds
          Null

(* A program has all the files it includes, which is what the loaders see  *)
(* to.  A function returns at most one value, and a const names values, a  *)
(* typedef types, a service at most one service: no name has "::" in it.   *)
Listed(seq) == seq \in Seq(Range(seq))
Dotted(path) == Listed(path) /\ "::" \notin Range(path)
FieldsFormed(fields) ==
    /\ Listed(fields)
    /\ \A field \in Range(fields) :
          \A path \in {field.type, field.default} : path = Null \/ Dotted(path)
RefsFormed(refs, role) ==
    Listed(refs) /\ \A ref \in Range(refs) : /\ ref.role = role
                                             /\ ref.path # Null /\ Dotted(ref.path)
WellFormed(def, files) ==
    /\ def.kind \in {"include", "const", "typedef", "enum", "struct", "service"}
    /\ def.kind = "include" => def.file \in DOMAIN files
    /\ def.kind = "const" => RefsFormed(def.refs, "value")
    /\ def.kind = "typedef" => RefsFormed(def.refs, "type")
    /\ def.kind \in {"const", "typedef"} => def.list \/ Len(def.refs) <= 1
    /\ def.kind = "enum" => Listed(def.members)
    /\ def.kind = "struct" => FieldsFormed(def.fields)
    /\ def.kind = "service" =>
          /\ RefsFormed(def.refs, "service") /\ Len(def.refs) <= 1
          /\ Listed(def.functions)
          /\ \A f \in Range(def.functions) :
                /\ FieldsFormed(f.args)
                /\ FieldsFormed(f.returns) /\ Len(f.returns) <= 1
                /\ f.throws = Null \/ FieldsFormed(f.throws)
ASSUME ProgramsAssumption ==
    /\ Listed(Builtins)
    /\ \A p \in Programs :
          /\ Entry \in DOMAIN p.files
          /\ \A file \in DOMAIN p.files :
                /\ Listed(p.files[file])
                /\ \A def \in Range(p.files[file]) \cup Range(Builtins) :
                      WellFormed(def, p.files)

VARIABLES program,
          made,         \* the Thrift that is made: the first, the second...
          unshifted,    \* by function: how often 'success' was put in front
                        \* of the throws in its syntax tree
          phase,        \* "compile", "link", "done", or what was thrown:
                        \* "duplicate", "failed", "overflow"
          memo,         \* files that have a Thrift
          models,       \* by file: what is defined, in order: [path, id]
          linked,       \* ids whose 'linked' or 'defined' is set
          value,        \* by id: value of a const, 'to' of a typedef, what
                        \* the fields of a struct refer to
          functions,    \* by id of a service: ids of the structs it has
          consts,       \* by file: Thrift.consts
          stack

vars == <<stack, phase, memo, linked, value, functions, consts, models, program, made,
          unshifted>>
trees == <<program, made, unshifted>>

(* A frame: compile of the file of 'id', or link of 'id', which has 'todo' *)
(* left to call and 'got' of what it has called.  Once a service has what  *)
(* it inherits, its frame goes on as "functions".                          *)
Frame(op, id, todo) == [op |-> op, id |-> id, todo |-> todo, got |-> <<>>]
Module(file) == <<file, <<>>>>
Top == stack[Len(stack)]
Below == SubSeq(stack, 1, Len(stack) - 1)
Resume(frame) == Append(Below, frame)
GoOn(got) == Resume([op |-> Top.op, id |-> Top.id, todo |-> Tail(Top.todo), got |-> got])

-----------------------------------------------------------------------------
(* The structs of a function.  Its throws are the list in the syntax tree  *)
(* itself, in front of which 'success' is put each time it is compiled; a  *)
(* function without such a list has a new one each time.                   *)
Structs == <<"args", "result">>
FunctionPath(service, function) == <<service, "::", function>>
StructOf(path, struct) == Append(path, struct)
StructId(id, struct) == <<id[1], StructOf(id[2], struct)>>
Structure(name, of, fields) ==
    [kind |-> "struct", name |-> name, of |-> of, fields |-> fields]

ThrowsOf(file, path) == <<file, path>>
Unshifts(function) == function.throws # Null /\ function.returns # <<>>
Successes(tree, function) ==
    IF function.throws = Null THEN function.returns
    ELSE [i \in 1 .. IF tree \in DOMAIN unshifted THEN unshifted[tree] ELSE 0 |->
            function.returns[1]]
Thrown(function) == IF function.throws = Null THEN <<>> ELSE function.throws

(* Fault: pushed behind the throws.                                        *)
ResultFieldsPushed(tree, function) == Thrown(function) \o Successes(tree, function)
ResultFields(tree, function) == Successes(tree, function) \o Thrown(function)

(* What a definition defines: enum members and the structs of functions    *)
(* before their owner.                                                     *)
Defines(path, def) == [path |-> path, def |-> def]
Member(def, name) ==
    Defines(<<def.name, name>>, [kind |-> "const", name |-> name, refs |-> <<>>,
                                 lit |-> name, list |-> FALSE])
Both(n, of(_, _)) == [k \in 1 .. 2 * n |-> of((k + 1) \div 2, Structs[2 - (k % 2)])]
FunctionEntry(file, service, function, struct) ==
    LET path == FunctionPath(service, function.name) IN
    Defines(StructOf(path, struct),
            IF struct = "args"
            THEN Structure(function.name, "arguments", function.args)
            ELSE Structure(function.name, "result",
                           ResultFields(ThrowsOf(file, path), function)))
Entries(file, def) ==
    CASE def.kind = "enum" ->
            [i \in 1 .. Len(def.members) |-> Member(def, def.members[i])]
                \o <<Defines(<<def.name>>, def)>>
      [] def.kind = "service" ->
            Both(Len(def.functions), LAMBDA i, struct :
                    FunctionEntry(file, def.name, def.functions[i], struct))
                \o <<Defines(<<def.name>>, def)>>
      [] OTHER -> <<Defines(<<def.name>>, def)>>

Source(file) == program.files[file] \o Builtins

Def(id) ==
    IF id[2] = <<>> THEN [kind |-> "module"]
    ELSE LET source == Source(id[1])
             owner == source[CHOOSE i \in DOMAIN source : source[i].name = id[2][1]]
             entries == Entries(id[1], owner)
         IN  entries[CHOOSE i \in DOMAIN entries : entries[i].path = id[2]].def
Kind(id) == Def(id).kind

(* What link resolves: of a struct the default values of its fields first, *)
(* then their types; a literal or a base type has no path.                 *)
Defaults(def) ==
    [i \in DOMAIN def.fields |-> [role |-> "value", path |-> def.fields[i].default]]
Types(def) ==
    [i \in DOMAIN def.fields |-> [role |-> "type", path |-> def.fields[i].type]]
Refs(def) == CASE def.kind = "struct" -> Defaults(def) \o Types(def)
               [] def.kind = "enum" -> <<>>
               [] OTHER -> def.refs

(* Thrift.models of a file.                                                *)
Paths(file) == {entry.path : entry \in Range(models[file])}
Model(file, path) ==
    LET i == CHOOSE i \in DOMAIN models[file] : models[file][i].path = path
    IN  models[file][i].id

(* The 'models' of what Thrift.models holds.                               *)
Role(id) == CASE Kind(id) = "const" -> "value" [] Kind(id) = "service" -> "service"
              [] Kind(id) = "module" -> "module" [] OTHER -> "type"

(* resolveIdentifier: the whole name is looked for first; if there is none,*)
(* its head is a module and the rest is looked for there.  A walk has the  *)
(* modules this leads to, and ends where the rest is found.                *)
Resolve(file, path) ==
    LET rest(n) == SubSeq(path, n + 1, Len(path))
        finds(at, n) == rest(n) \in Paths(at)
        leads(at, n, to) == /\ ~finds(at, n - 1) /\ <<path[n]>> \in Paths(at)
                            /\ Model(at, <<path[n]>>) = Module(to)
        hits == {hit \in UNION {{n} \X [0 .. n -> memo] : n \in 0 .. Len(path) - 1} :
                    LET n == hit[1]  walk == hit[2] IN
                    /\ walk[0] = file /\ finds(walk[n], n)
                    /\ \A k \in 1 .. n : leads(walk[k - 1], k, walk[k])}
    IN  IF hits = {} THEN Null
        ELSE LET hit == CHOOSE hit \in hits : TRUE
             IN  Model(hit[2][hit[1]], rest(hit[1]))
-----------------------------------------------------------------------------
Init == /\ program \in Programs
        /\ made = 1
        /\ unshifted = [tree \in {} |-> 0]
        /\ phase = "compile"
        /\ memo = {Entry}
        /\ models = [file \in DOMAIN program.files |-> <<>>]
        /\ consts = [file \in DOMAIN program.files |-> [path \in {} |-> Null]]
        /\ linked = {}
        /\ value = [id \in {} |-> Null]
        /\ functions = [id \in {} |-> <<>>]
        /\ stack = <<Frame("compile", Module(Entry), Source(Entry))>>

(* Another Thrift is made of the trees ('asts' of the options, or the JSON *)
(* of the first).  Bound: only of trees that could be linked.              *)
MakeAgain ==
    /\ phase = "done" /\ made < program.times
    /\ made' = made + 1
    /\ phase' = "compile"
    /\ memo' = {Entry}
    /\ models' = [file \in DOMAIN program.files |-> <<>>]
    /\ consts' = [file \in DOMAIN program.files |-> [path \in {} |-> Null]]
    /\ linked' = {}
    /\ value' = [id \in {} |-> Null]
    /\ functions' = [id \in {} |-> <<>>]
    /\ stack' = <<Frame("compile", Module(Entry), Source(Entry))>>
    /\ UNCHANGED <<program, unshifted>>

Throw(how) ==
    /\ phase' = how /\ stack' = <<>>
    /\ UNCHANGED <<trees, memo, models, linked, value, functions, consts>>

(* Thrift.define: a name is taken once.  Fault: not looked for in a        *)
(* definition that defines it twice.                                       *)
TakenBefore(file, paths) == Range(paths) \cap Paths(file) # {}
Taken(file, paths) ==
    \/ Range(paths) \cap Paths(file) # {}
    \/ Cardinality(Range(paths)) < Len(paths)

Compiling == phase = "compile" /\ Top.op = "compile"
File == Top.id[1]

(* compileInclude of a file that has no Thrift yet: new Thrift.            *)
Includes(def) == def.kind = "include" /\ def.file \notin memo
CompileInclude ==
    /\ Compiling /\ Top.todo # <<>> /\ Includes(Head(Top.todo))
    /\ LET file == Head(Top.todo).file IN
       /\ memo' = memo \cup {file}
       /\ stack' = Append(stack, Frame("compile", Module(file), Source(file)))
    /\ UNCHANGED <<trees, phase, models, linked, value, functions, consts>>

(* compileConst, compileStruct and so on, and what compileInclude does     *)
(* with the Thrift it found or made.  compileEnum leaves the model of each *)
(* member in Thrift.consts.                                                *)
Unshiftings(tree, def) ==
    Cardinality({f \in Range(def.functions) :
                    Unshifts(f) /\ ThrowsOf(File, FunctionPath(def.name, f.name)) = tree})
CompileDefinition ==
    /\ Compiling /\ Top.todo # <<>> /\ ~Includes(Head(Top.todo))
    /\ LET def == Head(Top.todo)
           entries == Entries(File, def)
           paths == [i \in DOMAIN entries |-> entries[i].path]
           id(path) == IF def.kind = "include" THEN Module(def.file) ELSE <<File, path>>
           members == {path \in Range(paths) : def.kind = "enum" /\ Len(path) = 2}
           own == [i \in DOMAIN def.functions |->
                        <<File, FunctionPath(def.name, def.functions[i].name)>>]
           lists == {ThrowsOf(File, FunctionPath(def.name, f.name)) :
                        f \in {f \in Range(def.functions) : Unshifts(f)}}
       IN  IF Taken(File, paths) THEN Throw("duplicate")
           ELSE /\ models' = [models EXCEPT ![File] = @ \o
                                [i \in DOMAIN paths |->
                                    [path |-> paths[i], id |-> id(paths[i])]]]
                /\ consts' = [consts EXCEPT ![File] =
                                [path \in DOMAIN @ \cup members |->
                                    IF path \in members THEN <<"model">> ELSE @[path]]]
                /\ functions' = IF def.kind = "service"
                                THEN [s \in DOMAIN functions \cup {<<File, <<def.name>>>>} |->
                                        IF s \in DOMAIN functions THEN functions[s] ELSE own]
                                ELSE functions
                /\ unshifted' = IF def.kind = "service"
                                THEN [tree \in DOMAIN unshifted \cup lists |->
                                        Unshiftings(tree, def)
                                        + IF tree \in DOMAIN unshifted THEN unshifted[tree]
                                                                       ELSE 0]
                                ELSE unshifted
                /\ stack' = GoOn(Top.got)
                /\ UNCHANGED <<program, made, phase, memo, linked, value>>

(* The last compile of all returns to compileAndLink.                      *)
Own(id) == [role |-> "own", id |-> id]
Names(file) == [i \in DOMAIN models[file] |-> Own(models[file][i].id)]
CompileReturns ==
    /\ Compiling /\ Top.todo = <<>>
    /\ IF Below # <<>>
       THEN stack' = Below /\ UNCHANGED <<phase, linked>>
       ELSE /\ phase' = "link"
            /\ linked' = {Module(Entry)}
            /\ stack' = <<Frame("link", Module(Entry), Names(Entry))>>
    /\ UNCHANGED <<trees, memo, models, value, functions, consts>>
-----------------------------------------------------------------------------
(* A value is the sequence of what it is made of: a literal of itself, a   *)
(* list of its values, and null of nothing.  (The empty list is a literal.)*)
Nothing == <<>>
ValueOf(id) == IF id \in DOMAIN value THEN value[id] ELSE Nothing

(* link returns at once: a typedef that knows what it is, any other model  *)
(* that has been entered, finished or not.  Fault: as if a typedef had a   *)
(* flag, or as if a struct had none and were asked for its fields.         *)
ReturnsIfLinked(id) == id \in linked
ReturnsIfKnown(id) == IF Kind(id) \in {"typedef", "struct"} THEN id \in DOMAIN value
                                                            ELSE id \in linked
ReturnsAtOnce(id) == IF Kind(id) = "typedef" THEN id \in DOMAIN value
                                             ELSE id \in linked

(* What the caller has of it: the value of a const, the type a typedef     *)
(* stands for, or the model.                                               *)
Result(id) == IF Kind(id) \in {"const", "typedef"} THEN ValueOf(id) ELSE id

(* What link does in turn: a struct checks the marks of its fields once    *)
(* their default values are known.  Fault: types before default values.    *)
Check == [role |-> "check"]
TodoBackwards(id) ==
    CASE Kind(id) = "module" -> Names(id[1])
      [] Kind(id) = "struct" -> Types(Def(id)) \o <<Check>> \o Defaults(Def(id))
      [] OTHER -> Refs(Def(id))
Todo(id) == CASE Kind(id) = "module" -> Names(id[1])
              [] Kind(id) = "struct" -> Defaults(Def(id)) \o <<Check>> \o Types(Def(id))
              [] OTHER -> Refs(Def(id))

(* A typedef has no flag, the other models set theirs before they go on.   *)
Entered(id) == IF Kind(id) = "typedef" THEN linked ELSE linked \cup {id}

Linking == phase = "link"
Target(id, call) == IF call.role = "own" THEN call.id ELSE Resolve(id[1], call.path)

(* resolve and resolveValue of what names nothing.                         *)
NamesNothing(call) == call.role \in {"value", "type"} /\ call.path = Null
ResolveNothing ==
    /\ Linking /\ Top.todo # <<>> /\ NamesNothing(Head(Top.todo))
    /\ stack' = GoOn(Append(Top.got, Nothing))
    /\ UNCHANGED <<trees, phase, memo, models, linked, value, functions, consts>>

(* A call of link: of a child, or of what a name is resolved to.           *)
Calling == /\ Linking /\ Top.todo # <<>>
           /\ Head(Top.todo) # Check /\ ~NamesNothing(Head(Top.todo))
NotFound(call, target) == call.role # "own" /\ target = Null
CallLink ==
    /\ Calling
    /\ \E call \in {Head(Top.todo)} : \E target \in {Target(Top.id, call)} :
       IF NotFound(call, target) THEN Throw("failed")
       ELSE /\ ~ReturnsAtOnce(target)
            /\ IF Len(stack) = MaxDepth THEN Throw("overflow")
               ELSE /\ linked' = Entered(target)
                    /\ stack' = Append(stack, Frame("link", target, Todo(target)))
                    /\ UNCHANGED <<trees, phase, memo, models, value, functions, consts>>

(* The call returns, and resolveIdentifier compares the roles.             *)
LinkReturns ==
    /\ Calling
    /\ \E call \in {Head(Top.todo)} : \E target \in {Target(Top.id, call)} :
       /\ ~NotFound(call, target) /\ ReturnsAtOnce(target)
       /\ IF call.role \notin {"own", Role(target)} THEN Throw("failed")
          ELSE /\ stack' = GoOn(Append(Top.got, Result(target)))
               /\ UNCHANGED <<trees, phase, memo, models, linked, value,
                              functions, consts>>

(* Without the opt-in no argument is optional; in strict mode a field of a *)
(* struct has a mark or a default value that is not null, whether a        *)
(* default is written or not.  (The code checks a field as soon as it has  *)
(* its default value; which of two faults is thrown is left open.)  Fault: *)
(* a default that is written will do.                                      *)
Refused(def, without) ==
    \E i \in DOMAIN def.fields :
        \/ /\ def.of = "arguments" /\ ~program.allowOptionalArguments
           /\ def.fields[i].mark = "optional"
        \/ /\ def.of = "struct" /\ program.strict
           /\ def.fields[i].mark = "none" /\ i \in without
WithoutWritten(def, got) == {i \in DOMAIN def.fields : def.fields[i].default = Null}
WithoutValue(def, got) == {i \in DOMAIN def.fields : got[i] = Nothing}
CheckFields ==
    /\ Linking /\ Top.todo # <<>> /\ Head(Top.todo) = Check
    /\ IF Refused(Def(Top.id), WithoutValue(Def(Top.id), Top.got)) THEN Throw("failed")
       ELSE /\ stack' = GoOn(Top.got)
            /\ UNCHANGED <<trees, phase, memo, models, linked, value, functions, consts>>

(* ThriftService.link, past its base: addFunction for all it inherits.     *)
FunctionName(id) == id[2][3]
FunctionNames(ids) == {FunctionName(id) : id \in Range(ids)}

(* Fault: what the base inherits itself is forgotten.                      *)
InheritedOwn(got) ==
    IF got = <<>> THEN <<>>
    ELSE SelectSeq(functions[got[1]], LAMBDA id : id[2][1] = got[1][2][1])
Inherited(got) == IF got = <<>> THEN <<>> ELSE functions[got[1]]
Inherit ==
    /\ Linking /\ Top.todo = <<>> /\ Top.op = "link" /\ Kind(Top.id) = "service"
    /\ LET own == functions[Top.id]
           base == Inherited(Top.got)
           all == own \o base
           inherited == Both(Len(base), LAMBDA i, struct :
               LET path == FunctionPath(Def(Top.id).name, FunctionName(base[i])) IN
               [path |-> StructOf(path, struct), id |-> StructId(base[i], struct)])
       IN  IF FunctionNames(own) \cap FunctionNames(base) # {} THEN Throw("failed")
           ELSE /\ functions' = [functions EXCEPT ![Top.id] = all]
                /\ models' = [models EXCEPT ![File] = @ \o inherited]
                /\ stack' = Resume(Frame("functions", Top.id,
                                Both(Len(all), LAMBDA i, struct :
                                        Own(StructId(all[i], struct)))))
                /\ UNCHANGED <<trees, phase, memo, linked, value, consts>>

(* What a const is, a typedef stands for, the fields of a struct refer to  *)
(* and which of them are required: without the opt-in all arguments are.   *)
RequiredFields(def) ==
    {i \in DOMAIN def.fields :
        \/ def.fields[i].mark = "required"
        \/ def.of = "arguments" /\ ~program.allowOptionalArguments}
Made(def, got) == CASE def.kind = "struct" -> [refs |-> got, required |-> RequiredFields(def)]
                    [] def.refs = <<>> -> <<def.lit>>
                    [] OTHER -> IF def.list THEN got ELSE got[1]

(* The end of link.                                                        *)
Finish ==
    /\ Linking /\ Top.todo = <<>>
    /\ ~(Top.op = "link" /\ Kind(Top.id) = "service")
    /\ LET def == Def(Top.id)
           meaning == Made(def, Top.got) IN
       /\ value' = IF def.kind \in {"const", "typedef", "struct"}
                   THEN [id \in DOMAIN value \cup {Top.id} |->
                            IF id = Top.id THEN meaning ELSE value[id]]
                   ELSE value
       /\ consts' = IF def.kind = "const"
                    THEN [consts EXCEPT ![File] =
                            [path \in DOMAIN @ \cup {<<def.name>>} |->
                                IF path = <<def.name>> THEN meaning ELSE @[path]]]
                    ELSE consts
    /\ stack' = Below
    /\ phase' = IF Below = <<>> THEN "done" ELSE phase
    /\ UNCHANGED <<trees, memo, models, linked, functions>>

Next == \/ CompileInclude \/ CompileDefinition \/ CompileReturns
        \/ ResolveNothing \/ CallLink \/ LinkReturns \/ CheckFields \/ Inherit \/ Finish
        \/ MakeAgain

(* The constructor runs to its end once it is called.                      *)
Spec == Init /\ [][Next]_vars /\ WF_vars(Next)
-----------------------------------------------------------------------------
(* All that the files in memo define, modules aside.                       *)
Ids == UNION {{id \in {entry.id : entry \in Range(models[file])} : id[2] # <<>>} :
                file \in memo}
RefTarget(id, ref) == IF ref.path = Null THEN Null ELSE Resolve(id[1], ref.path)
Targets(id) == LET refs == Refs(Def(id))
               IN  [i \in DOMAIN refs |-> RefTarget(id, refs[i])]
Meanings(id) == LET refs == Refs(Def(id))
                IN  [i \in DOMAIN refs |->
                        IF refs[i].path = Null THEN Nothing ELSE Result(Targets(id)[i])]
Referring == {id \in Ids : Kind(id) \in {"const", "typedef", "struct"}}

(* A linked Thrift solves its own equations, whatever the order of the     *)
(* definitions and the includes: a const is the literal, the value or the  *)
(* list of the values it names, also when they come later or in another    *)
(* module, a typedef stands for the type it names, and a struct has the    *)
(* default values and the types its fields name.  Thrift.consts has each   *)
(* const under its name; enum members are in it under their bare names     *)
(* too, and nothing is claimed of which of several with one name stays.    *)
(* (Consts that name one another in a circle are not refused: the one that *)
(* closes the circle is null, and so are those that name it.)              *)
Consts == {id \in Ids : Kind(id) = "const" /\ Refs(Def(id)) # <<>>}
Values(id) == {Targets(id)[i] : i \in {i \in DOMAIN Refs(Def(id)) :
                                            Refs(Def(id))[i].role = "value"}}
Circular == UNION {S \in SUBSET Consts : \A id \in S : Values(id) \cap S # {}}
Grounded == {id \in Referring : Values(id) \cap Circular = {}}
Homonyms(id) == {other \in Referring \ {id} :
                    /\ Kind(other) = "const" /\ other[1] = id[1]
                    /\ Def(other).name = Def(id).name}
Solved ==
    phase = "done" =>
        \A id \in Grounded :
            /\ id \in DOMAIN value
            /\ value[id] = Made(Def(id), Meanings(id))
            /\ (Kind(id) = "const" /\ Homonyms(id) = {}) =>
                  consts[id[1]][<<Def(id).name>>] = value[id]

(* A linked service has its own functions and those of all the services it *)
(* extends, wherever these stand, and Thrift.models has the structs of     *)
(* their arguments and results as well.  (Services that extend each other  *)
(* in a circle are not refused if the first of them has no functions; the  *)
(* one that closes the circle finds its base half linked.)                 *)
Services == {id \in Ids : Kind(id) = "service"}
OwnNames(s) == {Def(s).functions[i].name : i \in DOMAIN Def(s).functions}
Bases(s) == Range(Targets(s)) \cap Services
Ancestors(s) ==
    {a \in Services :
        \A S \in SUBSET Services :
            (Bases(s) \subseteq S /\ \A b \in S : Bases(b) \subseteq S) => a \in S}
Straight == {s \in Services : \A a \in {s} \cup Ancestors(s) : a \notin Ancestors(a)}
InheritsAll ==
    phase = "done" =>
        \A s \in Straight :
            /\ FunctionNames(functions[s]) = UNION {OwnNames(a) : a \in {s} \cup Ancestors(s)}
            /\ Cardinality(FunctionNames(functions[s])) = Len(functions[s])
            /\ \A id \in Range(functions[s]), struct \in Range(Structs) :
                  Model(s[1], StructOf(FunctionPath(Def(s).name, FunctionName(id)), struct))
                      = StructId(id, struct)

(* The constructor throws when the program deserves it, and only then: a   *)
(* name defined twice in a module; a reference that leads nowhere or to    *)
(* the wrong kind of definition, a function that is inherited twice, or a  *)
(* field that lacks a mark and a default value or has a wrong mark,        *)
(* anywhere in the modules that the entry reaches.  A default that names a *)
(* const in a circle, straight or through others, is null, and no default  *)
(* at all: so is every one that leads into a circle without a list.  If    *)
(* there is a list in the circle, which of the consts is null depends on   *)
(* which is linked first, and nothing is claimed of what names them.       *)
PathsOf(file, def) == {entry.path : entry \in Range(Entries(file, def))}
Apart(file, d, e) == PathsOf(file, d) \cap PathsOf(file, e) = {}
NoDuplicates ==
    \A file \in memo : \A i, j \in DOMAIN Source(file) :
        /\ (i # j) => Apart(file, Source(file)[i], Source(file)[j])
        /\ Cardinality(PathsOf(file, Source(file)[i])) = Len(Entries(file, Source(file)[i]))
Resolved == \A id \in Ids : \A ref \in Range(Refs(Def(id))) :
                ref.path # Null =>
                    RefTarget(id, ref) # Null /\ Role(RefTarget(id, ref)) = ref.role
AlwaysNull == UNION {S \in SUBSET Consts :
                        \A id \in S : ~Def(id).list /\ Values(id) \cap S # {}}
MaybeNull == {id \in Circular : ~Def(id).list}
Without(id, nulls) == {i \in DOMAIN Def(id).fields : Targets(id)[i] \in nulls \cup {Null}}
Marked(nulls) ==
    \A id \in Ids : Kind(id) = "struct" => ~Refused(Def(id), Without(id, nulls))
Unrepeated(s) == \A a \in Ancestors(s) : OwnNames(s) \cap OwnNames(a) = {}
DuplicatesRefused ==
    /\ (phase = "done") => NoDuplicates
    /\ (phase = "duplicate") => ~NoDuplicates
Verdict ==
    /\ DuplicatesRefused
    /\ (phase = "done") => Resolved /\ Marked(AlwaysNull) /\ \A s \in Straight : Unrepeated(s)
    /\ (phase = "failed") =>
            ~(Resolved /\ Marked(MaybeNull) /\ \A s \in Services : Unrepeated(s))

(* The result of a function has the field 'success', if it returns, once   *)
(* and in front of what the function throws.  This is so for the first     *)
(* Thrift that is made of a syntax tree: compile changes the tree, and the *)
(* result of a function that throws has one more 'success' in each Thrift  *)
(* that is made of it again.                                               *)
SuccessInFront ==
    phase = "done" =>
        \A file \in memo : \A def \in Range(Source(file)) :
            def.kind = "service" =>
                \A f \in Range(def.functions) :
                    LET id == <<file, FunctionPath(def.name, f.name)>>
                        times == IF f.throws = Null THEN 1 ELSE made
                    IN  Def(StructId(id, "result")).fields =
                            [k \in 1 .. times * Len(f.returns) |-> f.returns[1]]
                                \o Thrown(f)

(* No module is compiled and no model is linked inside its own compile or  *)
(* link, however modules include and structs contain each other; but a     *)
(* typedef is, by each struct that needs it while it is being resolved.    *)
EntersOnce ==
    \A i, j \in DOMAIN stack :
        (i # j /\ stack[i].id = stack[j].id) => Kind(stack[i].id) = "typedef"

(* The constructor returns or throws what it has to say, each time.        *)
Returns == []<>(phase \in {"done", "duplicate", "failed"})

(* README.md, Enhancements: self-referential types need no demarcation.    *)
SelfReferenceWorks == phase # "overflow"
=============================================================================
