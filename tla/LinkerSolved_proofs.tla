------------------------- MODULE LinkerSolved_proofs -------------------------
(***************************************************************************)
(* What link makes of the definitions, for all programs: first that a      *)
(* Thrift that is made solves its equations (LinkInv, LinkedIsSolved);     *)
(* then that its services inherit what they extend (ServiceInv,            *)
(* AllAreInherited) and that nothing is refused without a reason (Failing, *)
(* VerdictIsDeserved).                                                     *)
(***************************************************************************)
EXTENDS Linker_proofs

(* The models of the files that are reached, and their modules.            *)
Part(file, m, k) == <<file, PathAt(Source(file)[m], k)>>
Known == UNION {UNION {{Part(file, m, k) : k \in 1 .. Size(Source(file)[m])} :
                            m \in {m \in Defs(file) : ~Is(file, m, "include")}} :
                    file \in Reached}
ModuleIds == {Module(file) : file \in Reached}
Linkable == Known \cup ModuleIds

(* What Thrift.models of a file holds: what its definitions define, and    *)
(* what its services inherit.                                              *)
EntryFor(file, m, k) ==
    [path |-> PathAt(Source(file)[m], k),
     id |-> IF Is(file, m, "include") THEN Module(Source(file)[m].file) ELSE Part(file, m, k)]
Heard(file, entry) ==
    \E m \in Defs(file) : Passed(file, m) /\ \E k \in 1 .. Size(Source(file)[m]) :
                                                entry = EntryFor(file, m, k)
Bequeathed(entry) == entry.path \in Seq(Range(entry.path)) /\ "::" \in Range(entry.path)
                        /\ entry.id \in Known
Listing == \A file \in memo :
    /\ Listed(models[file])
    /\ \A m \in Defs(file) : Passed(file, m) =>
            \A k \in 1 .. Size(Source(file)[m]) : EntryFor(file, m, k) \in Range(models[file])
    /\ \A entry \in Range(models[file]) : Heard(file, entry) \/ Bequeathed(entry)

ServiceId(file, m) == <<file, <<Source(file)[m].name>>>>
Serving ==
    /\ \A s \in DOMAIN functions :
          /\ Listed(functions[s])
          /\ \A id \in Range(functions[s]) : \A struct \in {"args", "result"} :
                StructId(id, struct) \in Known
    /\ \A file \in memo : \A m \in Defs(file) :
            Passed(file, m) /\ Is(file, m, "service") => ServiceId(file, m) \in DOMAIN functions

(* A frame of a model has what is left of Todo, and as much as is behind.  *)
OwnCall(call) == call.id \in Linkable /\ call = Own(call.id)
OwnCalls(todo) == Listed(todo) /\ \A call \in Range(todo) : OwnCall(call)
LeftOf(todo, all) == /\ Len(todo) \in 0 .. Len(all)
                     /\ todo = SubSeq(all, Len(all) - Len(todo) + 1, Len(all))
Past(id, todo) == Len(Todo(id)) - Len(todo)
Checked(id, todo) == Kind(id) = "struct" /\ Past(id, todo) > Len(Def(id).fields)
Behind(id, todo) == IF Checked(id, todo) THEN Past(id, todo) - 1 ELSE Past(id, todo)
Refers(fr) == fr.op = "link" /\ fr.id \in Known
FrameFormed(fr) ==
    /\ fr.id \in Linkable /\ fr.op \in {"link", "functions"}
    /\ fr.id \in ModuleIds => fr.op = "link" /\ OwnCalls(fr.todo)
    /\ fr.op = "functions" => Kind(fr.id) = "service" /\ OwnCalls(fr.todo)
    /\ Refers(fr) => /\ LeftOf(fr.todo, Todo(fr.id))
                     /\ Listed(fr.got) /\ Len(fr.got) = Behind(fr.id, fr.todo)
                     /\ Kind(fr.id) = "service" =>
                            \A id \in Range(fr.got) : id \in Known /\ Kind(id) = "service"
Calls(fr, id) == /\ fr.todo # <<>> /\ Head(fr.todo) # Check /\ ~NamesNothing(Head(fr.todo))
                 /\ id = Target(fr.id, Head(fr.todo))
Formed == /\ \A i \in DOMAIN stack : FrameFormed(stack[i])
          /\ \A i \in DOMAIN stack : i > 1 => Calls(stack[i - 1], stack[i].id)

(* A model is referred to in the wrong role, so the program is refused.    *)
Misled(fr) == /\ fr.todo # <<>> /\ Head(fr.todo) # Check /\ ~NamesNothing(Head(fr.todo))
              /\ Head(fr.todo).role \notin {"own", Role(Target(fr.id, Head(fr.todo)))}
Doomed == \E i \in DOMAIN stack : Misled(stack[i])

(* Of a reference: it was followed; what it stands for; a const it leads   *)
(* to has its value.                                                       *)
RefDone(id, ref) ==
    ref.path # Null => /\ RefTarget(id, ref) # Null
                       /\ Role(RefTarget(id, ref)) = ref.role
                       /\ ReturnsAtOnce(RefTarget(id, ref))
Meaning(id, ref) == IF ref.path = Null THEN Nothing ELSE Result(RefTarget(id, ref))
Held(id, ref) ==
    (ref.path # Null /\ Kind(RefTarget(id, ref)) = "const") => RefTarget(id, ref) \in DOMAIN value
Sound(id) == Values(id) \cap Circular = {}

(* What leads into a circle without a list is null, and nothing is that    *)
(* does not lead into a circle.  So it is with what a frame was given.     *)
NullRight(id) == /\ id \in AlwaysNull => value[id] = Nothing
                 /\ id \notin MaybeNull => value[id] # Nothing
GivenRight(id, ref, x) ==
    /\ ref.path = Null => x = Nothing
    /\ (ref.path # Null /\ RefTarget(id, ref) \in AlwaysNull) => x = Nothing
    /\ (Kind(id) = "struct" /\ ref.role = "value" /\ ref.path # Null
            /\ RefTarget(id, ref) \notin MaybeNull) => x # Nothing
Unfit(id) == Refused(Def(id), Without(id, AlwaysNull))

Valuable == {"const", "typedef", "struct"}
Complete(id) ==
    /\ \A ref \in Range(Refs(Def(id))) : RefDone(id, ref)
    /\ Kind(id) \in Valuable => id \in DOMAIN value
    /\ Kind(id) = "struct" => ~Unfit(id)
    /\ Kind(id) = "const" => NullRight(id)
    /\ Kind(id) \in Valuable /\ Sound(id) =>
            /\ value[id] = Made(Def(id), Meanings(id))
            /\ \A ref \in Range(Refs(Def(id))) : Held(id, ref)
            /\ (Kind(id) = "const" /\ Homonyms(id) = {}) =>
                    consts[id[1]][<<Def(id).name>>] = value[id]
AllEntered(file, todo) ==
    \A m \in Defs(file) : \A k \in 1 .. Size(Source(file)[m]) :
        \/ ReturnsAtOnce(EntryFor(file, m, k).id)
        \/ \E call \in Range(todo) : call.id = EntryFor(file, m, k).id
OnStack(id) == \E i \in DOMAIN stack : stack[i].id = id

FrameTrue(fr) ==
    /\ Refers(fr) =>
        /\ \A j \in 1 .. Len(fr.got) :
                LET ref == Refs(Def(fr.id))[j] IN
                /\ RefDone(fr.id, ref)
                /\ GivenRight(fr.id, ref, fr.got[j])
                /\ Sound(fr.id) => fr.got[j] = Meaning(fr.id, ref) /\ Held(fr.id, ref)
        /\ Checked(fr.id, fr.todo) => ~Unfit(fr.id)
        /\ Kind(fr.id) \in {"const", "struct"} => fr.id \notin DOMAIN value
    /\ fr.op = "functions" => \A ref \in Range(Refs(Def(fr.id))) : RefDone(fr.id, ref)
    /\ fr.id \in ModuleIds => AllEntered(fr.id[1], fr.todo)
Truth ==
    /\ \A i \in DOMAIN stack : FrameTrue(stack[i])
    /\ \A id \in linked :
            \/ OnStack(id)
            \/ id \in Known /\ Complete(id)
            \/ id \in ModuleIds /\ AllEntered(id[1], <<>>)
    /\ \A id \in DOMAIN value : Complete(id)

Tables == /\ DOMAIN consts = DOMAIN program.files
          /\ linked \subseteq Linkable
          /\ \A id \in linked : Kind(id) # "typedef"
          /\ \A id \in DOMAIN value :
                /\ id \in Known /\ Kind(id) \in Valuable
                /\ Kind(id) # "typedef" => id \in linked
                /\ Kind(id) = "const" => <<Def(id).name>> \in DOMAIN consts[id[1]]
LinkInv ==
    /\ CompileInv
    /\ Live => Listing /\ Serving /\ Tables
    /\ (phase = "compile") => linked = {} /\ DOMAIN value = {}
    /\ (phase \in {"link", "done"}) => /\ Module(Entry) \in linked
                                       /\ Formed
                                       /\ Doomed \/ Truth
-----------------------------------------------------------------------------
(* What the entries of a definition define.                                *)
LEMMA EntryDefs ==
  ASSUME NEW file, NEW def, NEW files, WellFormed(def, files),
         NEW k \in 1 .. Size(def), k # Size(def)
  PROVE  /\ def.kind \in {"enum", "service"}
         /\ def.kind = "enum" => /\ k \in 1 .. Len(def.members)
                                 /\ Entries(file, def)[k] = Member(def, def.members[k])
         /\ def.kind = "service" =>
                /\ (k + 1) \div 2 \in 1 .. Len(def.functions)
                /\ Entries(file, def)[k] =
                        FunctionEntry(file, def.name, def.functions[(k + 1) \div 2],
                                      Structs[2 - (k % 2)])
                /\ Structs[2 - (k % 2)] \in {"args", "result"}
<1>1. def.kind \in {"enum", "service"}
  BY DEF Size
<1>2. CASE def.kind = "enum"
  <2> DEFINE n == Len(def.members)
             first == [i \in 1 .. n |-> Member(def, def.members[i])]
             own == Defines(<<def.name>>, def)
  <2>1. n \in Nat /\ k \in 1 .. n
    BY <1>2, Sizes DEF Size
  <2>2. Entries(file, def) = first \o <<own>>
    BY <1>2 DEF Entries
  <2> HIDE DEF own, n
  <2>3. first \in Seq(Range(first)) /\ Len(first) = n
    BY <2>1 DEF Range
  <2>4. first[k] = Member(def, def.members[k])
    BY <2>1
  <2> HIDE DEF first
  <2>5. (first \o <<own>>)[k] = first[k]
    BY <2>1, <2>3
  <2> QED
    BY <1>2, <2>1, <2>2, <2>4, <2>5 DEF n
<1>3. CASE def.kind = "service"
  <2> DEFINE n == Len(def.functions)
             at(h) == FunctionEntry(file, def.name, def.functions[(h + 1) \div 2],
                                    Structs[2 - (h % 2)])
             first == [h \in 1 .. 2 * n |-> at(h)]
             own == Defines(<<def.name>>, def)
  <2>1. n \in Nat /\ k \in 1 .. 2 * n
    BY <1>3, Sizes DEF Size
  <2>2. Entries(file, def) = first \o <<own>>
    BY <1>3 DEF Entries, Both
  <2> HIDE DEF own, n, at
  <2>3. 2 * n \in Nat /\ first \in Seq(Range(first)) /\ Len(first) = 2 * n
    BY <2>1 DEF Range
  <2>4. first[k] = at(k)
    BY <2>1
  <2> HIDE DEF first
  <2>5. (first \o <<own>>)[k] = first[k]
    BY <2>1, <2>3
  <2>6. (k + 1) \div 2 \in 1 .. n /\ 2 - (k % 2) \in {1, 2}
    BY <2>1
  <2>7. Structs[2 - (k % 2)] \in {"args", "result"}
    BY <2>6 DEF Structs
  <2> QED
    BY <1>3, <2>1, <2>2, <2>4, <2>5, <2>6, <2>7 DEF n, at
<1> QED
  BY <1>1, <1>2, <1>3

(* Def finds what a path names, and nothing else.                          *)
LEMMA DefOfPart ==
  ASSUME program \in Programs, NEW file \in DOMAIN program.files, Distinct(file),
         NEW m \in Defs(file), NEW k \in 1 .. Size(Source(file)[m])
  PROVE  /\ Def(Part(file, m, k)) = Entries(file, Source(file)[m])[k].def
         /\ Part(file, m, k)[1] = file /\ Part(file, m, k)[2] = PathAt(Source(file)[m], k)
         /\ PathAt(Source(file)[m], k) # <<>>
         /\ PathAt(Source(file)[m], k)[1] = Source(file)[m].name
<1> DEFINE source == Source(file)
           def == source[m]
           path == PathAt(def, k)
           entries == Entries(file, def)
<1>1. WellFormed(def, program.files) /\ DOMAIN source = Defs(file)
  BY Programmed DEF Defs
<1>2. path # <<>> /\ path[1] = def.name
  BY DEF PathAt, StructOf, FunctionPath
<1>3. (CHOOSE l \in DOMAIN source : source[l].name = path[1]) = m
  BY <1>1, <1>2, NamesDiffer
<1>4. /\ DOMAIN entries = 1 .. Size(def)
      /\ \A h \in 1 .. Size(def) : entries[h].path = PathAt(def, h)
  BY <1>1, EntriesHavePaths
<1>5. (CHOOSE h \in DOMAIN entries : entries[h].path = path) = k
  <2>1. \A h \in 1 .. Size(def) : PathAt(def, h) = path => h = k
    BY DEF Distinct
  <2> HIDE DEF entries, path
  <2>2. entries[k].path = path
    BY <1>4 DEF path
  <2> QED
    BY <1>4, <2>1, <2>2
<1>6. Def(<<file, path>>) = entries[k].def
  BY <1>2, <1>3, <1>5 DEF Def
<1>7. Part(file, m, k) = <<file, path>>
  BY DEF Part
<1> HIDE DEF path, entries
<1>8. <<file, path>>[1] = file /\ <<file, path>>[2] = path
  OBVIOUS
<1> QED
  BY <1>2, <1>6, <1>7, <1>8 DEF path, entries

(* Where a model comes from, once there is a Thrift of each file.          *)
LEMMA Origin ==
  ASSUME CompileInv, phase \in {"link", "done"}, NEW id \in Known
  PROVE  \E file \in Reached : \E m \in Defs(file) : \E k \in 1 .. Size(Source(file)[m]) :
            /\ file \in DOMAIN program.files /\ Distinct(file)
            /\ ~Is(file, m, "include") /\ id = Part(file, m, k)
            /\ WellFormed(Source(file)[m], program.files)
            /\ Def(id) = Entries(file, Source(file)[m])[k].def
            /\ id[1] = file /\ id[2] = PathAt(Source(file)[m], k)
<1>1. /\ program \in Programs /\ Reached \subseteq DOMAIN program.files
      /\ \A file \in Reached : Distinct(file)
  BY AllReached, ReachedHolds DEF CompileInv, Programs1
<1>a. PICK file \in Reached : \E m \in Defs(file) : \E k \in 1 .. Size(Source(file)[m]) :
            ~Is(file, m, "include") /\ id = Part(file, m, k)
  BY DEF Known
<1>b. PICK m \in Defs(file) : \E k \in 1 .. Size(Source(file)[m]) :
            ~Is(file, m, "include") /\ id = Part(file, m, k)
  BY <1>a
<1>2. PICK k \in 1 .. Size(Source(file)[m]) : ~Is(file, m, "include") /\ id = Part(file, m, k)
  BY <1>b
<1>3. WellFormed(Source(file)[m], program.files)
  BY <1>1, <1>2, Programmed
<1>4. /\ Def(id) = Entries(file, Source(file)[m])[k].def
      /\ id[1] = file /\ id[2] = PathAt(Source(file)[m], k)
  BY <1>1, <1>2, DefOfPart
<1> QED
  BY <1>1, <1>2, <1>3, <1>4

LEMMA NotModules == \A id \in Known : id[2] # <<>> /\ id \notin ModuleIds
<1>1. \A file, m, k : Part(file, m, k)[2] # <<>>
  BY DEF Part, PathAt, StructOf, FunctionPath
<1>2. \A id \in ModuleIds : id[2] = <<>>
  BY DEF ModuleIds, Module
<1> QED
  BY <1>1, <1>2 DEF Known

(* A result has fields that can be linked, with its 'success' in front.    *)
LEMMA ItemsOf ==
  ASSUME NEW s, Listed(s)
  PROVE  /\ Len(s) \in Nat /\ DOMAIN s = 1 .. Len(s)
         /\ \A i \in 1 .. Len(s) : s[i] \in Range(s)
         /\ \A x \in Range(s) : \E i \in 1 .. Len(s) : x = s[i]
<1>1. Len(s) \in Nat /\ DOMAIN s = 1 .. Len(s)
  BY DEF Listed
<1>2. Range(s) = {s[i] : i \in 1 .. Len(s)}
  BY <1>1 DEF Range
<1> QED
  BY <1>1, <1>2

LEMMA FieldsOf ==
  ASSUME NEW fields, FieldsFormed(fields)
  PROVE  \A i \in 1 .. Len(fields) :
            /\ fields[i].type = Null \/ Dotted(fields[i].type)
            /\ fields[i].default = Null \/ Dotted(fields[i].default)
<1>1. \A i \in 1 .. Len(fields) : fields[i] \in Range(fields)
  BY ItemsOf DEF FieldsFormed
<1> QED
  BY <1>1 DEF FieldsFormed

LEMMA FieldsJoin ==
  ASSUME NEW s, NEW t, FieldsFormed(s), FieldsFormed(t)
  PROVE  FieldsFormed(s \o t)
<1>1. Len(t) \in Nat /\ t = [i \in 1 .. Len(t) |-> t[i]]
  BY DEF FieldsFormed, Listed
<1>2. Listed(s \o t) /\ Range(s \o t) = Range(s) \cup Range(t)
  BY <1>1, Joined DEF FieldsFormed
<1> QED
  BY <1>2 DEF FieldsFormed

LEMMA NoFields == FieldsFormed(<<>>)
BY DEF FieldsFormed, Listed, Range

LEMMA ResultFormed ==
  ASSUME CompileInv, phase \in {"link", "done"}, NEW file \in Reached, NEW m \in Defs(file),
         Is(file, m, "service"), NEW i \in 1 .. Len(FunctionsOf(file, m))
  PROVE  LET f == FunctionsOf(file, m)[i]
         IN  /\ FieldsFormed(f.args)
             /\ FieldsFormed(ResultFields(TreeOf(file, Source(file)[m], f), f))
<1> DEFINE f == FunctionsOf(file, m)[i]
           tree == TreeOf(file, Source(file)[m], f)
<1>1. /\ program \in Programs /\ file \in DOMAIN program.files
      /\ (\A h \in Reached : Distinct(h)) /\ Counted /\ Passed(file, m) /\ made \in Nat
  BY AllReached, ReachedHolds DEF CompileInv, Programs1
<1>2. WellFormed(Source(file)[m], program.files) /\ Source(file)[m].kind = "service"
  BY <1>1, Programmed DEF Is
<1>3. f \in Range(FunctionsOf(file, m))
  <2>1. Listed(FunctionsOf(file, m))
    BY <1>2 DEF WellFormed, FunctionsOf
  <2> QED
    BY <2>1, ItemsOf
<1>4. /\ FieldsFormed(f.args) /\ FieldsFormed(f.returns) /\ Len(f.returns) <= 1
      /\ f.throws = Null \/ FieldsFormed(f.throws)
  BY <1>2, <1>3 DEF WellFormed, FunctionsOf
<1>5. Times(tree) = IF ~Unshifts(f) THEN 0 ELSE made
  BY <1>1, <1>3 DEF Counted
<1> HIDE DEF f, tree
<1>6. FieldsFormed(Thrown(f))
  BY <1>4, NoFields DEF Thrown
<1>7. FieldsFormed(Successes(tree, f))
  <2>1. CASE f.throws = Null
    BY <1>4, <2>1 DEF Successes
  <2>2. CASE f.throws # Null
    <3> DEFINE n == Times(tree)
               s == [h \in 1 .. n |-> f.returns[1]]
    <3>1. Successes(tree, f) = s
      BY <2>2 DEF Successes, Times
    <3>2. n \in Nat
      BY <1>1, <1>5
    <3>3. n # 0 => f.returns # <<>>
      BY <1>5 DEF Unshifts
    <3>4. f.returns # <<>> => 1 \in 1 .. Len(f.returns)
      BY <1>4 DEF FieldsFormed, Listed
    <3>5. n # 0 => f.returns[1] \in Range(f.returns)
      <4>1. Listed(f.returns)
        BY <1>4 DEF FieldsFormed
      <4>2. \A h \in 1 .. Len(f.returns) : f.returns[h] \in Range(f.returns)
        BY <4>1, ItemsOf
      <4> QED
        BY <3>3, <3>4, <4>2
    <3> HIDE DEF n
    <3>6. Listed(s)
      BY <3>2 DEF Listed, Range
    <3>7. \A field \in Range(s) : field \in Range(f.returns)
      <4>1. \A h \in 1 .. n : n # 0
        BY <3>2
      <4> QED
        BY <3>5, <4>1 DEF Range
    <3> QED
      BY <1>4, <3>1, <3>6, <3>7 DEF FieldsFormed
  <2> QED
    BY <2>1, <2>2
<1>8. FieldsFormed(ResultFields(tree, f))
  BY <1>6, <1>7, FieldsJoin DEF ResultFields
<1> QED
  BY <1>4, <1>8 DEF f, tree

-----------------------------------------------------------------------------
(* What a model refers to, and in which role.                              *)
Roles(kind) == CASE kind = "const" -> {"value"} [] kind = "typedef" -> {"type"}
                 [] kind = "service" -> {"service"} [] kind = "struct" -> {"value", "type"}
                 [] OTHER -> {}
RefOf(ref, kind) == /\ ref.role \in Roles(kind)
                    /\ ref.path = Null \/ Dotted(ref.path)
                    /\ kind # "struct" => ref.path # Null
StructTodo(def) ==
    LET n == Len(def.fields)  refs == Refs(def)  todo == Defaults(def) \o <<Check>> \o Types(def)
    IN  /\ n \in Nat /\ Len(refs) = 2 * n /\ Len(todo) = 2 * n + 1
        /\ todo[n + 1] = Check
        /\ \A i \in 1 .. n : todo[i] = refs[i]
        /\ \A i \in n + 2 .. 2 * n + 1 : todo[i] = refs[i - 1]
        /\ Listed(todo)
        /\ DOMAIN def.fields = 1 .. n /\ \A i \in 1 .. n : refs[i].role = "value"

LEMMA RoleSets == \A kind : Roles(kind) \subseteq {"value", "type", "service"}
BY DEF Roles

LEMMA MadeList ==
  ASSUME NEW n \in Nat, NEW s, DOMAIN s = 1 .. n, s = [i \in 1 .. n |-> s[i]]
  PROVE  Listed(s) /\ s \in Seq(Range(s)) /\ Len(s) = n
<1>1. \A i \in 1 .. n : s[i] \in Range(s)
  BY DEF Range
<1>2. s \in [1 .. n -> Range(s)]
  BY <1>1
<1>3. s \in Seq(Range(s))
  BY <1>2
<1> QED
  BY <1>3 DEF Listed

LEMMA StructRefs ==
  ASSUME NEW def, def.kind = "struct", FieldsFormed(def.fields)
  PROVE  /\ Listed(Refs(def)) /\ \A ref \in Range(Refs(def)) : RefOf(ref, "struct")
         /\ StructTodo(def)
<1> DEFINE n == Len(def.fields)
           d == Defaults(def)
           t == Types(def)
<1>1. n \in Nat /\ DOMAIN def.fields = 1 .. n
  BY ItemsOf DEF FieldsFormed
<1>2. /\ d = [i \in 1 .. n |-> [role |-> "value", path |-> def.fields[i].default]]
      /\ t = [i \in 1 .. n |-> [role |-> "type", path |-> def.fields[i].type]]
  BY <1>1 DEF Defaults, Types
<1>3. \A i \in 1 .. n : RefOf(d[i], "struct") /\ RefOf(t[i], "struct")
  <2>1. \A i \in 1 .. n : /\ def.fields[i].type = Null \/ Dotted(def.fields[i].type)
                          /\ def.fields[i].default = Null \/ Dotted(def.fields[i].default)
    BY FieldsOf
  <2> HIDE DEF n, d, t
  <2> QED
    BY <1>2, <2>1 DEF RefOf, Roles
<1>4. Refs(def) = d \o t
  BY DEF Refs
<1> DEFINE S == Range(d) \cup {Check} \cup Range(t)
<1> HIDE DEF n, d, t
<1>5. /\ d \in Seq(Range(d)) /\ t \in Seq(Range(t)) /\ Len(d) = n /\ Len(t) = n
      /\ DOMAIN d = 1 .. n /\ DOMAIN t = 1 .. n
  <2>1. DOMAIN d = 1 .. n /\ DOMAIN t = 1 .. n
    BY <1>2
  <2>2. d = [i \in 1 .. n |-> d[i]] /\ t = [i \in 1 .. n |-> t[i]]
    BY <1>2
  <2> QED
    BY <1>1, <2>1, <2>2, MadeList
<1>6. /\ Listed(d \o t) /\ Range(d \o t) = Range(d) \cup Range(t)
  <2>1. Listed(d) /\ t = [i \in 1 .. n |-> t[i]]
    BY <1>2, <1>5 DEF Listed
  <2> QED
    BY <1>1, <2>1, Joined
<1>7. \A ref \in Range(d) \cup Range(t) : RefOf(ref, "struct")
  BY <1>3, <1>5 DEF Range
<1>8. d \in Seq(S) /\ <<Check>> \in Seq(S) /\ t \in Seq(S)
  BY <1>5
<1> HIDE DEF S
<1>9. /\ d \o <<Check>> \in Seq(S) /\ Len(d \o <<Check>>) = n + 1
      /\ \A i \in 1 .. n : (d \o <<Check>>)[i] = d[i]
      /\ (d \o <<Check>>)[n + 1] = Check
  BY <1>1, <1>5, <1>8
<1> DEFINE c == d \o <<Check>>
<1>10. /\ c \o t \in Seq(S) /\ Len(c \o t) = 2 * n + 1
       /\ \A i \in 1 .. n + 1 : (c \o t)[i] = c[i]
       /\ \A i \in n + 2 .. 2 * n + 1 : (c \o t)[i] = t[i - (n + 1)]
  <2>1. c \in Seq(S) /\ Len(c) = n + 1 /\ t \in Seq(S) /\ Len(t) = n
    BY <1>5, <1>8, <1>9
  <2> HIDE DEF c
  <2>2. c \o t \in Seq(S) /\ Len(c \o t) = (n + 1) + n
    BY <1>1, <2>1
  <2>3. \A i \in 1 .. n + 1 : (c \o t)[i] = c[i]
    BY <1>1, <2>1
  <2>4. \A i \in n + 2 .. (n + 1) + n : (c \o t)[i] = t[i - (n + 1)]
    BY <1>1, <2>1
  <2> QED
    BY <1>1, <2>2, <2>3, <2>4
<1>11. /\ Len(d \o t) = 2 * n
       /\ \A i \in 1 .. n : (d \o t)[i] = d[i]
       /\ \A i \in n + 1 .. 2 * n : (d \o t)[i] = t[i - n]
  BY <1>1, <1>5
<1>12. Listed(c \o t)
  <2>1. Len(c \o t) \in Nat /\ DOMAIN (c \o t) = 1 .. Len(c \o t)
        /\ c \o t = [i \in 1 .. Len(c \o t) |-> (c \o t)[i]]
    BY <1>10
  <2> QED
    BY <2>1, MadeList
<1>13. \A i \in n + 2 .. 2 * n + 1 :
            i \in Int /\ i - 1 \in n + 1 .. 2 * n /\ i - (n + 1) = (i - 1) - n
  BY <1>1
<1>14. \A i \in n + 2 .. 2 * n + 1 : (c \o t)[i] = (d \o t)[i - 1]
  BY <1>10, <1>11, <1>13
<1>15. StructTodo(def)
  <2>1. 1 .. n \subseteq 1 .. n + 1 /\ n + 1 \in 1 .. n + 1
    BY <1>1
  <2>2. /\ (c \o t)[n + 1] = Check
        /\ \A i \in 1 .. n : (c \o t)[i] = (d \o t)[i]
    BY <1>9, <1>10, <1>11, <2>1
  <2>3. c \o t = Defaults(def) \o <<Check>> \o Types(def)
    BY DEF d, t
  <2>4. \A i \in 1 .. n : (d \o t)[i].role = "value"
    <3>1. \A i \in 1 .. n : d[i].role = "value"
      BY <1>2
    <3> QED
      BY <1>11, <3>1
  <2> HIDE DEF c
  <2> QED
    BY <1>1, <1>4, <1>10, <1>11, <1>12, <1>14, <2>2, <2>3, <2>4 DEF StructTodo, n
<1> QED
  BY <1>4, <1>6, <1>7, <1>15

LEMMA RefsOf ==
  ASSUME CompileInv, phase \in {"link", "done"}, NEW id \in Known
  PROVE  /\ Kind(id) \in {"const", "typedef", "enum", "struct", "service"}
         /\ Listed(Refs(Def(id)))
         /\ \A ref \in Range(Refs(Def(id))) : RefOf(ref, Kind(id))
         /\ Kind(id) = "struct" => StructTodo(Def(id))
         /\ Kind(id) = "const" => Def(id).list \/ Len(Refs(Def(id))) <= 1
<1> DEFINE Good(def) ==
            /\ def.kind \in {"const", "typedef", "enum", "struct", "service"}
            /\ Listed(Refs(def))
            /\ \A ref \in Range(Refs(def)) : RefOf(ref, def.kind)
            /\ def.kind = "struct" => StructTodo(def)
            /\ def.kind = "const" => def.list \/ Len(Refs(def)) <= 1
<1>1. \A def, files : (WellFormed(def, files) /\ def.kind # "include") => Good(def)
  <2> SUFFICES ASSUME NEW def, NEW files, WellFormed(def, files), def.kind # "include"
               PROVE  Good(def)
    OBVIOUS
  <2>1. CASE def.kind = "struct"
    <3>1. FieldsFormed(def.fields)
      BY <2>1 DEF WellFormed
    <3> QED
      BY <2>1, <3>1, StructRefs
  <2>2. CASE def.kind \in {"const", "typedef", "service"}
    <3>1. PICK role \in Roles(def.kind) : RefsFormed(def.refs, role)
      BY <2>2 DEF WellFormed, Roles
    <3>2. Refs(def) = def.refs
      BY <2>2 DEF Refs
    <3>3. def.kind = "const" => def.list \/ Len(def.refs) <= 1
      BY DEF WellFormed
    <3> QED
      BY <2>2, <3>1, <3>2, <3>3 DEF RefsFormed, RefOf
  <2>3. CASE def.kind = "enum"
    <3>1. Refs(def) = <<>>
      BY <2>3 DEF Refs
    <3>2. Listed(<<>>) /\ Range(<<>>) = {}
      BY DEF Listed, Range
    <3> QED
      BY <2>3, <3>1, <3>2
  <2> QED
    BY <2>1, <2>2, <2>3 DEF WellFormed
<1>a. PICK file \in Reached : \E m \in Defs(file) : \E k \in 1 .. Size(Source(file)[m]) :
            /\ ~Is(file, m, "include") /\ WellFormed(Source(file)[m], program.files)
            /\ Def(id) = Entries(file, Source(file)[m])[k].def
  BY Origin
<1>b. PICK m \in Defs(file) : \E k \in 1 .. Size(Source(file)[m]) :
            /\ ~Is(file, m, "include") /\ WellFormed(Source(file)[m], program.files)
            /\ Def(id) = Entries(file, Source(file)[m])[k].def
  BY <1>a
<1>2. PICK k \in 1 .. Size(Source(file)[m]) :
            /\ ~Is(file, m, "include") /\ WellFormed(Source(file)[m], program.files)
            /\ Def(id) = Entries(file, Source(file)[m])[k].def
  BY <1>b
<1> DEFINE def == Source(file)[m]
<1>3. CASE k = Size(def)
  <2>1. Def(id) = def
    BY <1>2, <1>3, EntriesHavePaths
  <2> QED
    BY <1>1, <1>2, <2>1 DEF Is, Kind
<1>4. CASE k # Size(def) /\ def.kind = "enum"
  <2>1. Def(id) = Member(def, def.members[k]).def
    BY <1>2, <1>4, EntryDefs
  <2>2. Def(id).kind = "const" /\ Refs(Def(id)) = <<>>
    BY <2>1 DEF Member, Defines, Refs
  <2>3. Listed(<<>>) /\ Range(<<>>) = {}
    BY DEF Listed, Range
  <2> QED
    BY <2>2, <2>3 DEF Kind
<1>5. CASE k # Size(def) /\ def.kind = "service"
  <2> DEFINE i == (k + 1) \div 2
             f == FunctionsOf(file, m)[i]
             struct == Structs[2 - (k % 2)]
  <2>1. /\ i \in 1 .. Len(def.functions) /\ struct \in {"args", "result"}
        /\ Def(id) = FunctionEntry(file, def.name, f, struct).def
    BY <1>2, <1>5, EntryDefs DEF FunctionsOf
  <2>2. /\ FieldsFormed(f.args)
        /\ FieldsFormed(ResultFields(TreeOf(file, def, f), f))
    BY <1>5, <2>1, ResultFormed DEF Is, FunctionsOf
  <2> HIDE DEF i, f, struct
  <2>3. Def(id).kind = "struct" /\ FieldsFormed(Def(id).fields)
    BY <2>1, <2>2 DEF FunctionEntry, Defines, Structure, TreeOf
  <2> QED
    BY <2>3, StructRefs DEF Kind
<1>6. CASE k # Size(def) /\ def.kind \notin {"enum", "service"}
  BY <1>2, <1>6, EntryDefs
<1> QED
  BY <1>3, <1>4, <1>5, <1>6

-----------------------------------------------------------------------------
(* Once the files are compiled, their models are those of the program, and *)
(* what services inherit under names that nothing can refer to.            *)
Ready == CompileInv /\ phase \in {"link", "done"} /\ Listing

LEMMA EntriesStand ==
  ASSUME Ready, NEW file \in Reached
  PROVE  /\ file \in memo /\ file \in DOMAIN program.files /\ Distinct(file)
         /\ Listed(models[file])
         /\ \A m \in Defs(file) : \A k \in 1 .. Size(Source(file)[m]) :
                /\ EntryFor(file, m, k) \in Range(models[file])
                /\ EntryFor(file, m, k).id \in Linkable
         /\ \A entry \in Range(models[file]) : entry.id \in Linkable
<1>1. /\ memo = Reached /\ (\A h \in Reached : Distinct(h)) /\ Holds(Reached)
      /\ Reached \subseteq DOMAIN program.files /\ \A m : Passed(file, m)
  BY AllReached, ReachedHolds DEF Ready, CompileInv, Programs1
<1>2. \A m \in Defs(file) : \A k \in 1 .. Size(Source(file)[m]) :
            EntryFor(file, m, k) \in Range(models[file])
  BY <1>1 DEF Ready, Listing
<1>3. \A m \in Defs(file) : \A k \in 1 .. Size(Source(file)[m]) :
            EntryFor(file, m, k).id \in Linkable
  <2> TAKE m \in Defs(file)
  <2> TAKE k \in 1 .. Size(Source(file)[m])
  <2>1. CASE Is(file, m, "include")
    <3>1. EntryFor(file, m, k).id = Module(Source(file)[m].file)
      BY <2>1 DEF EntryFor
    <3>2. Source(file)[m].file \in Reached
      BY <1>1, <2>1 DEF Holds
    <3> QED
      BY <3>1, <3>2 DEF Linkable, ModuleIds
  <2>2. CASE ~Is(file, m, "include")
    <3>1. EntryFor(file, m, k).id = Part(file, m, k)
      BY <2>2 DEF EntryFor
    <3> QED
      BY <2>2, <3>1 DEF Linkable, Known
  <2> QED
    BY <2>1, <2>2
<1>4. \A entry \in Range(models[file]) : entry.id \in Linkable
  <2> TAKE entry \in Range(models[file])
  <2>1. CASE Heard(file, entry)
    BY <1>3, <2>1 DEF Heard
  <2>2. CASE Bequeathed(entry)
    BY <2>2 DEF Bequeathed, Linkable
  <2> QED
    BY <1>1, <2>1, <2>2 DEF Ready, Listing
<1> QED
  BY <1>1, <1>2, <1>3, <1>4 DEF Ready, Listing

(* A dotted name has one model in a file, the one the file defines.        *)
LEMMA DottedModel ==
  ASSUME Ready, NEW file \in Reached, NEW path, "::" \notin Range(path)
  PROVE  /\ path \in Paths(file) <=> \E m \in Defs(file) :
                                        path \in PathSet(Source(file)[m])
         /\ \A m \in Defs(file) : \A k \in 1 .. Size(Source(file)[m]) :
                path = PathAt(Source(file)[m], k) =>
                    Model(file, path) = EntryFor(file, m, k).id
<1>1. \A m \in Defs(file) : \A k \in 1 .. Size(Source(file)[m]) :
            /\ EntryFor(file, m, k) \in Range(models[file])
            /\ EntryFor(file, m, k).path = PathAt(Source(file)[m], k)
  BY EntriesStand DEF EntryFor
<1>2. \A entry \in Range(models[file]) : entry.path = path =>
            \E m \in Defs(file) : \E k \in 1 .. Size(Source(file)[m]) :
                entry = EntryFor(file, m, k)
  <2>1. \A entry \in Range(models[file]) : Heard(file, entry) \/ Bequeathed(entry)
    BY EntriesStand DEF Ready, Listing
  <2> QED
    BY <2>1 DEF Heard, Bequeathed
<1>3. ASSUME NEW m \in Defs(file), NEW k \in 1 .. Size(Source(file)[m]),
             path = PathAt(Source(file)[m], k)
      PROVE  Model(file, path) = EntryFor(file, m, k).id
  <2>1. \E i \in DOMAIN models[file] : models[file][i].path = path
    BY <1>1, <1>3 DEF Range
  <2>2. PICK i \in DOMAIN models[file] :
            models[file][i].path = path /\ Model(file, path) = models[file][i].id
    BY <2>1 DEF Model
  <2>3. models[file][i] \in Range(models[file])
    BY DEF Range
  <2>4. PICK l \in Defs(file) : \E h \in 1 .. Size(Source(file)[l]) :
                models[file][i] = EntryFor(file, l, h)
    BY <1>2, <2>2, <2>3
  <2>5. PICK h \in 1 .. Size(Source(file)[l]) : models[file][i] = EntryFor(file, l, h)
    BY <2>4
  <2>6. PathAt(Source(file)[l], h) = path
    BY <1>1, <2>2, <2>5
  <2>7. l = m /\ h = k
    BY <1>3, <2>6, EntriesStand DEF Distinct
  <2> QED
    BY <2>2, <2>5, <2>7
<1>4. path \in Paths(file) <=> \E m \in Defs(file) : path \in PathSet(Source(file)[m])
  BY <1>1, <1>2 DEF Paths, PathSet
<1> QED
  BY <1>3, <1>4

(* All that is defined, modules aside, is what the program defines.        *)
LEMMA IdsAreKnown ==
  ASSUME Ready PROVE Ids = Known
<1>1. memo = Reached
  BY AllReached DEF Ready
<1>2. \A id \in Ids : id \in Known
  <2> TAKE id \in Ids
  <2>1. PICK file \in Reached : \E entry \in Range(models[file]) : id = entry.id
    BY <1>1 DEF Ids
  <2>2. id[2] # <<>> /\ id \in Linkable
    BY <2>1, EntriesStand DEF Ids
  <2> QED
    BY <2>2 DEF Linkable, ModuleIds, Module
<1>3. \A id \in Known : id \in Ids
  <2> TAKE id \in Known
  <2>1. PICK file \in Reached : \E m \in Defs(file) : \E k \in 1 .. Size(Source(file)[m]) :
            ~Is(file, m, "include") /\ id = Part(file, m, k)
    BY Origin DEF Ready
  <2>2. PICK m \in Defs(file) : \E k \in 1 .. Size(Source(file)[m]) :
            ~Is(file, m, "include") /\ id = Part(file, m, k)
    BY <2>1
  <2>3. PICK k \in 1 .. Size(Source(file)[m]) :
            ~Is(file, m, "include") /\ id = Part(file, m, k)
    BY <2>2
  <2>4. EntryFor(file, m, k) \in Range(models[file]) /\ EntryFor(file, m, k).id = id
    BY <2>3, EntriesStand DEF EntryFor
  <2> QED
    BY <1>1, <2>4, NotModules DEF Ids
<1> QED
  BY <1>2, <1>3

-----------------------------------------------------------------------------
(* The walk of resolveIdentifier, step by step.                            *)
Rest(path, n) == SubSeq(path, n + 1, Len(path))
Leads(path, at, n, to) == /\ ~(Rest(path, n - 1) \in Paths(at)) /\ <<path[n]>> \in Paths(at)
                          /\ Model(at, <<path[n]>>) = Module(to)
IsHit(file, path, hit) == /\ hit[2][0] = file
                          /\ Rest(path, hit[1]) \in Paths(hit[2][hit[1]])
                          /\ \A k \in 1 .. hit[1] : Leads(path, hit[2][k - 1], k, hit[2][k])
Walks(path) == UNION {{n} \X [0 .. n -> memo] : n \in 0 .. Len(path) - 1}
Hits(file, path) == {hit \in Walks(path) : IsHit(file, path, hit)}
AHit(file, path) == CHOOSE hit \in Hits(file, path) : TRUE

LEMMA ResolveIs ==
  ASSUME NEW file, NEW path
  PROVE  Resolve(file, path) =
            IF Hits(file, path) = {} THEN Null
            ELSE Model(AHit(file, path)[2][AHit(file, path)[1]],
                       Rest(path, AHit(file, path)[1]))
BY DEF Resolve, Hits, Walks, IsHit, Leads, Rest, AHit

LEMMA Walk ==
  ASSUME NEW path, Listed(path), NEW hit \in Walks(path)
  PROVE  /\ hit[1] \in 0 .. Len(path) - 1 /\ hit[2] \in [0 .. hit[1] -> memo]
         /\ \A k \in 0 .. hit[1] : hit[2][k] \in memo
BY DEF Walks

LEMMA RestIsDotted ==
  ASSUME NEW path, Dotted(path), NEW n \in 0 .. Len(path) - 1
  PROVE  /\ "::" \notin Range(Rest(path, n))
         /\ "::" \notin Range(<<path[n + 1]>>)
<1>1. Len(path) \in Nat /\ \A i \in 1 .. Len(path) : path[i] \in Range(path)
  BY ItemsOf DEF Dotted
<1>2. path \in Seq(Range(path))
  BY DEF Dotted, Listed
<1>3. Rest(path, n) \in Seq(Range(path))
  BY <1>1, <1>2 DEF Rest
<1>4. \A x \in Range(Rest(path, n)) : x \in Range(path)
  <2> DEFINE s == Rest(path, n)
  <2>1. Len(s) \in Nat /\ DOMAIN s = 1 .. Len(s) /\ \A i \in 1 .. Len(s) : s[i] \in Range(path)
    BY <1>3
  <2> HIDE DEF s
  <2>2. Range(s) = {s[i] : i \in DOMAIN s}
    BY DEF Range
  <2> QED
    BY <2>1, <2>2 DEF s
<1>5. \A x : Range(<<x>>) = {x}
  BY DEF Range
<1>6. n + 1 \in 1 .. Len(path)
  BY <1>1
<1> QED
  BY <1>1, <1>4, <1>5, <1>6 DEF Dotted

(* What a name is resolved to, if to anything.                             *)
LEMMA ResolvesTo ==
  ASSUME Ready, NEW file \in Reached, NEW path, Dotted(path)
  PROVE  Resolve(file, path) = Null \/ Resolve(file, path) \in Linkable
<1>1. SUFFICES ASSUME Hits(file, path) # {}
               PROVE  Resolve(file, path) \in Linkable
  BY ResolveIs
<1> DEFINE hit == AHit(file, path)
           at == hit[2][hit[1]]
           rest == Rest(path, hit[1])
<1>2. hit \in Hits(file, path)
  BY <1>1 DEF AHit
<1>3. hit \in Walks(path) /\ IsHit(file, path, hit) /\ Listed(path)
  BY <1>2 DEF Hits, Dotted
<1>4. hit[1] \in 0 .. Len(path) - 1 /\ hit[1] \in 0 .. hit[1] /\ at \in memo
  <2>1. hit[1] \in 0 .. Len(path) - 1 /\ \A k \in 0 .. hit[1] : hit[2][k] \in memo
    BY <1>3, Walk
  <2> HIDE DEF hit
  <2> QED
    BY <2>1
<1>5. rest \in Paths(at)
  BY <1>3 DEF IsHit
<1>6. \E i \in DOMAIN models[at] : models[at][i].path = rest
  BY <1>5 DEF Paths, Range
<1>7. PICK i \in DOMAIN models[at] : Model(at, rest) = models[at][i].id
  BY <1>6 DEF Model
<1>8. memo = Reached
  BY AllReached DEF Ready
<1>9. models[at][i] \in Range(models[at])
  BY DEF Range
<1>10. Model(at, rest) \in Linkable
  BY <1>4, <1>7, <1>8, <1>9, EntriesStand
<1> QED
  BY <1>1, <1>10, ResolveIs

(* What services inherit does not change what a name is resolved to.       *)
Fixed == /\ memo = Reached
         /\ \A file \in Reached : \A path : "::" \notin Range(path) =>
                /\ path \in Paths(file) <=> \E m \in Defs(file) : path \in PathSet(Source(file)[m])
                /\ \A m \in Defs(file) : \A k \in 1 .. Size(Source(file)[m]) :
                        path = PathAt(Source(file)[m], k) =>
                            Model(file, path) = EntryFor(file, m, k).id

LEMMA ReadyIsFixed == Ready => Fixed
<1>1. Ready => memo = Reached
  BY AllReached DEF Ready
<1> QED
  BY <1>1, DottedModel DEF Fixed

LEMMA ModelsStay ==
  ASSUME Ready, Ready', program' = program
  PROVE  /\ memo = Reached /\ memo' = memo
         /\ \A at \in memo : \A p : "::" \notin Range(p) =>
                /\ p \in Paths(at)' <=> p \in Paths(at)
                /\ p \in Paths(at) => Model(at, p)' = Model(at, p)
<1>1. Fixed /\ Fixed'
  BY ReadyIsFixed, PTL
<1>2. memo = Reached /\ memo' = memo /\ Reached' = Reached
  BY <1>1, ProgramStays DEF Fixed
<1>3. ASSUME NEW at \in memo, NEW p, "::" \notin Range(p)
      PROVE  /\ p \in Paths(at)' <=> p \in Paths(at)
             /\ p \in Paths(at) => Model(at, p)' = Model(at, p)
  <2>1. p \in Paths(at) <=> \E m \in Defs(at) : p \in PathSet(Source(at)[m])
    BY <1>1, <1>2, <1>3 DEF Fixed
  <2>2. p \in Paths(at)' <=> \E m \in Defs(at) : p \in PathSet(Source(at)[m])
    BY <1>1, <1>2, <1>3, ProgramStays DEF Fixed
  <2>3. ASSUME p \in Paths(at) PROVE Model(at, p)' = Model(at, p)
    <3>1. PICK m \in Defs(at) : p \in PathSet(Source(at)[m])
      BY <2>1, <2>3
    <3>2. PICK k \in 1 .. Size(Source(at)[m]) : p = PathAt(Source(at)[m], k)
      BY <3>1 DEF PathSet
    <3>3. Model(at, p) = EntryFor(at, m, k).id
      BY <1>1, <1>2, <1>3, <3>2 DEF Fixed
    <3>4. Model(at, p)' = EntryFor(at, m, k).id
      BY <1>1, <1>2, <1>3, <3>2, ProgramStays DEF Fixed, EntryFor, Part
    <3> QED
      BY <3>3, <3>4
  <2> QED
    BY <2>1, <2>2, <2>3
<1> QED
  BY <1>2, <1>3

LEMMA ResolveStays ==
  ASSUME Ready, Ready', program' = program,
         NEW file \in Reached, NEW path, Dotted(path)
  PROVE  Resolve(file, path)' = Resolve(file, path)
<1>1. /\ memo = Reached /\ memo' = memo
      /\ \A at \in memo : \A p : "::" \notin Range(p) =>
                /\ p \in Paths(at)' <=> p \in Paths(at)
                /\ p \in Paths(at) => Model(at, p)' = Model(at, p)
  BY ModelsStay
<1>2. \A n \in 0 .. Len(path) - 1 : \A at \in memo :
            Rest(path, n) \in Paths(at)' <=> Rest(path, n) \in Paths(at)
  BY <1>1, RestIsDotted
<1>3. \A k \in 1 .. Len(path) - 1 : \A at \in memo : \A to :
            Leads(path, at, k, to)' <=> Leads(path, at, k, to)
  <2> TAKE k \in 1 .. Len(path) - 1
  <2> TAKE at \in memo
  <2> TAKE to
  <2>0. Len(path) \in Nat
    BY ItemsOf DEF Dotted
  <2>1. k - 1 \in 0 .. Len(path) - 1 /\ (k - 1) + 1 = k
    BY <2>0
  <2>2. Rest(path, k - 1) \in Paths(at)' <=> Rest(path, k - 1) \in Paths(at)
    BY <1>2, <2>1
  <2>3. "::" \notin Range(<<path[k]>>)
    BY <2>1, RestIsDotted
  <2>4. /\ <<path[k]>> \in Paths(at)' <=> <<path[k]>> \in Paths(at)
        /\ <<path[k]>> \in Paths(at) => Model(at, <<path[k]>>)' = Model(at, <<path[k]>>)
    BY <1>1, <2>3
  <2> QED
    BY <2>2, <2>4 DEF Leads
<1>4. Walks(path)' = Walks(path)
  BY <1>1 DEF Walks
<1>5. \A hit \in Walks(path) : IsHit(file, path, hit)' <=> IsHit(file, path, hit)
  <2> TAKE hit \in Walks(path)
  <2>1. /\ hit[1] \in 0 .. Len(path) - 1
        /\ \A k \in 0 .. hit[1] : hit[2][k] \in memo
    BY Walk DEF Dotted
  <2>2. PICK n, walk : n = hit[1] /\ walk = hit[2]
    OBVIOUS
  <2>3. Len(path) \in Nat
    BY ItemsOf DEF Dotted
  <2>4. walk[n] \in memo /\ \A k \in 1 .. n : k \in 1 .. Len(path) - 1 /\ walk[k - 1] \in memo
    BY <2>1, <2>2, <2>3
  <2>5. Rest(path, n) \in Paths(walk[n])' <=> Rest(path, n) \in Paths(walk[n])
    BY <1>2, <2>1, <2>2, <2>4
  <2>6. \A k \in 1 .. n : Leads(path, walk[k - 1], k, walk[k])' <=> Leads(path, walk[k - 1], k, walk[k])
    BY <1>3, <2>4
  <2>7. IsHit(file, path, hit) <=> /\ walk[0] = file
                                   /\ Rest(path, n) \in Paths(walk[n])
                                   /\ \A k \in 1 .. n : Leads(path, walk[k - 1], k, walk[k])
    BY <2>2 DEF IsHit
  <2>8. IsHit(file, path, hit)' <=> /\ walk[0] = file
                                    /\ Rest(path, n) \in Paths(walk[n])'
                                    /\ \A k \in 1 .. n : Leads(path, walk[k - 1], k, walk[k])'
    BY <2>2 DEF IsHit
  <2> QED
    BY <2>5, <2>6, <2>7, <2>8
<1>6. Hits(file, path)' = Hits(file, path)
  BY <1>4, <1>5 DEF Hits
<1>7. AHit(file, path)' = AHit(file, path)
  BY <1>6 DEF AHit
<1>a. Resolve(file, path)' =
            (IF Hits(file, path) = {} THEN Null
             ELSE Model(AHit(file, path)[2][AHit(file, path)[1]],
                        Rest(path, AHit(file, path)[1])))'
  BY DEF Resolve, Hits, Walks, IsHit, Leads, Rest, AHit
<1>8. CASE Hits(file, path) = {}
  <2>1. Resolve(file, path) = Null
    BY <1>8, ResolveIs
  <2>2. Resolve(file, path)' = Null
    BY <1>6, <1>8, <1>a
  <2> QED
    BY <2>1, <2>2
<1>9. CASE Hits(file, path) # {}
  <2>1. PICK hit : hit = AHit(file, path)
    OBVIOUS
  <2>2. hit \in Walks(path) /\ IsHit(file, path, hit)
    BY <1>9, <2>1 DEF AHit, Hits
  <2>3. PICK n, at : n = hit[1] /\ at = hit[2][n]
    OBVIOUS
  <2>4. n \in 0 .. Len(path) - 1 /\ at \in memo
    <3>1. n \in 0 .. Len(path) - 1 /\ \A k \in 0 .. n : hit[2][k] \in memo
      BY <2>2, <2>3, Walk DEF Dotted
    <3> QED
      BY <2>3, <3>1
  <2>5. Rest(path, n) \in Paths(at)
    BY <2>2, <2>3 DEF IsHit
  <2>6. Model(at, Rest(path, n))' = Model(at, Rest(path, n))
    BY <1>1, <2>4, <2>5, RestIsDotted
  <2>7. Resolve(file, path) = Model(at, Rest(path, n))
    BY <1>9, <2>1, <2>3, ResolveIs
  <2>8. Resolve(file, path)' = Model(at, Rest(path, n))'
    BY <1>6, <1>7, <1>9, <1>a, <2>1, <2>3
  <2> QED
    BY <2>6, <2>7, <2>8
<1> QED
  BY <1>8, <1>9

-----------------------------------------------------------------------------
(* A step of link leaves what definitions refer to as it is.               *)
LEMMA KnownStays ==
  ASSUME program' = program
  PROVE  /\ Known' = Known /\ ModuleIds' = ModuleIds /\ Linkable' = Linkable
         /\ Reached' = Reached
         /\ \A file, m, k : EntryFor(file, m, k)' = EntryFor(file, m, k)
<1>1. /\ \A file : Source(file)' = Source(file) /\ Defs(file)' = Defs(file)
      /\ \A file, m, kind : Is(file, m, kind)' = Is(file, m, kind)
      /\ Reached' = Reached
  BY ProgramStays
<1>2. \A file, m, k : Part(file, m, k)' = Part(file, m, k)
  BY <1>1 DEF Part
<1>3. Known' = Known
  BY <1>1, <1>2 DEF Known
<1>4. ModuleIds' = ModuleIds
  BY <1>1 DEF ModuleIds
<1>5. \A file, m, k : EntryFor(file, m, k)' = EntryFor(file, m, k)
  BY <1>1, <1>2 DEF EntryFor
<1> QED
  BY <1>1, <1>3, <1>4, <1>5 DEF Linkable

LEMMA FilesKnown ==
  ASSUME Ready PROVE \A id \in Known : id[1] \in Reached
BY Origin DEF Ready

LEMMA RefsDotted ==
  ASSUME Ready, NEW id \in Known, NEW ref \in Range(Refs(Def(id))), ref.path # Null
  PROVE  Dotted(ref.path) /\ id[1] \in Reached
BY RefsOf, FilesKnown DEF Ready, RefOf


LEMMA TargetsStay ==
  ASSUME Ready, Ready', UNCHANGED trees
  PROVE  /\ \A id : Def(id)' = Def(id) /\ Kind(id)' = Kind(id) /\ Role(id)' = Role(id)
         /\ \A id : Refs(Def(id))' = Refs(Def(id))
         /\ \A id, without : Refused(Def(id), without)' <=> Refused(Def(id), without)
         /\ \A id, ref : id \in Known /\ ref \in Range(Refs(Def(id))) =>
                            RefTarget(id, ref)' = RefTarget(id, ref)
         /\ \A id \in Known : Targets(id)' = Targets(id) /\ Values(id)' = Values(id)
         /\ \A id \in Known : Todo(id)' = Todo(id)
<1>1. \A id : Def(id)' = Def(id) /\ Kind(id)' = Kind(id)
  BY KindStays
<1>2. \A id : Role(id)' = Role(id)
  BY <1>1 DEF Role
<1>3. program' = program
  BY DEF trees
<1>4. /\ \A id : Refs(Def(id))' = Refs(Def(id))
      /\ \A id, without : Refused(Def(id), without)' <=> Refused(Def(id), without)
  <2>1. \A def : Refs(def)' = Refs(def)
    BY DEF Refs, Defaults, Types
  <2>2. \A def, without : Refused(def, without)' <=> Refused(def, without)
    BY <1>3 DEF Refused
  <2> QED
    BY <1>1, <2>1, <2>2
<1>5. ASSUME NEW id \in Known, NEW ref \in Range(Refs(Def(id)))
      PROVE  RefTarget(id, ref)' = RefTarget(id, ref)
  <2>1. CASE ref.path = Null
    BY <2>1 DEF RefTarget
  <2>2. CASE ref.path # Null
    <3>1. Resolve(id[1], ref.path)' = Resolve(id[1], ref.path)
      BY <1>3, <2>2, RefsDotted, ResolveStays
    <3> QED
      BY <2>2, <3>1 DEF RefTarget
  <2> QED
    BY <2>1, <2>2
<1>6. ASSUME NEW id \in Known
      PROVE  Targets(id)' = Targets(id) /\ Values(id)' = Values(id)
  <2> DEFINE refs == Refs(Def(id))
  <2>1. refs' = refs
    BY <1>4
  <2>2. \A i \in DOMAIN refs : refs[i] \in Range(refs)
    BY DEF Range
  <2>3. \A i \in DOMAIN refs : RefTarget(id, refs[i])' = RefTarget(id, refs[i])
    BY <1>4, <1>5, <2>2
  <2>4. Targets(id) = [i \in DOMAIN refs |-> RefTarget(id, refs[i])]
    BY DEF Targets
  <2>5. Targets(id)' = [i \in DOMAIN refs |-> RefTarget(id, refs[i])']
    BY <2>1 DEF Targets
  <2>6. Targets(id)' = Targets(id)
    BY <2>3, <2>4, <2>5
  <2>7. Values(id)' = Values(id)
    BY <1>4, <2>6 DEF Values
  <2> QED
    BY <2>6, <2>7
<1>7. ASSUME NEW id \in Known
      PROVE  Todo(id)' = Todo(id)
  <2>1. Kind(id) # "module"
    BY RefsOf DEF Ready
  <2>2. \A def : Defaults(def)' = Defaults(def) /\ Types(def)' = Types(def)
    BY DEF Defaults, Types
  <2> QED
    BY <1>1, <1>4, <2>1, <2>2 DEF Todo
<1> QED
  BY <1>1, <1>2, <1>4, <1>5, <1>6, <1>7

AllKnown == Ids = Known

LEMMA ReadyKnowsAll == Ready => AllKnown
BY IdsAreKnown DEF AllKnown

LEMMA CirclesStay ==
  ASSUME Ready, Ready', UNCHANGED trees
  PROVE  /\ Circular' = Circular /\ Ids' = Known
         /\ \A id \in Known : Sound(id)' <=> Sound(id)
         /\ \A id : Homonyms(id)' = Homonyms(id)
         /\ AlwaysNull' = AlwaysNull /\ MaybeNull' = MaybeNull
         /\ \A id \in Known : Unfit(id)' <=> Unfit(id)
<1>1. Ids = Known /\ Ids' = Known
  <2>1. AllKnown /\ AllKnown'
    BY ReadyKnowsAll, PTL
  <2> QED
    BY <2>1, KnownStays DEF trees, AllKnown
<1>2. \A id : Def(id)' = Def(id) /\ Kind(id)' = Kind(id) /\ Refs(Def(id))' = Refs(Def(id))
  BY TargetsStay
<1>3. Consts' = Consts /\ Consts \subseteq Known
  BY <1>1, <1>2 DEF Consts
<1>4. \A id \in Known : Values(id)' = Values(id)
  BY TargetsStay
<1>5. Circular' = Circular
  <2>1. \A S \in SUBSET Consts : \A id \in S : Values(id)' = Values(id)
    BY <1>3, <1>4
  <2>2. {S \in SUBSET Consts : \A id \in S : Values(id)' \cap S # {}}
            = {S \in SUBSET Consts : \A id \in S : Values(id) \cap S # {}}
    BY <2>1
  <2> QED
    BY <1>3, <2>2 DEF Circular
<1>6. \A id \in Known : Sound(id)' <=> Sound(id)
  BY <1>4, <1>5 DEF Sound
<1>7. Referring' = Referring
  BY <1>1, <1>2 DEF Referring
<1>8. \A id : Homonyms(id)' = Homonyms(id)
  BY <1>2, <1>7 DEF Homonyms
<1>9. AlwaysNull' = AlwaysNull
  <2>1. \A S \in SUBSET Consts : \A id \in S : Values(id)' = Values(id)
    BY <1>3, <1>4
  <2>2. {S \in SUBSET Consts : \A id \in S : ~Def(id)'.list /\ Values(id)' \cap S # {}}
            = {S \in SUBSET Consts : \A id \in S : ~Def(id).list /\ Values(id) \cap S # {}}
    BY <1>2, <2>1
  <2> QED
    BY <1>3, <2>2 DEF AlwaysNull
<1>10. MaybeNull' = MaybeNull
  BY <1>2, <1>5 DEF MaybeNull
<1>11. ASSUME NEW id \in Known PROVE Unfit(id)' <=> Unfit(id)
  <2>1. Without(id, AlwaysNull)' = Without(id, AlwaysNull)
    <3>1. Targets(id)' = Targets(id)
      BY TargetsStay
    <3> QED
      BY <1>2, <1>9, <3>1 DEF Without
  <2>2. PICK without : without = Without(id, AlwaysNull)
    OBVIOUS
  <2>3. Refused(Def(id), without)' <=> Refused(Def(id), without)
    BY TargetsStay
  <2> QED
    BY <2>1, <2>2, <2>3 DEF Unfit
<1> QED
  BY <1>1, <1>5, <1>6, <1>8, <1>9, <1>10, <1>11

-----------------------------------------------------------------------------
(* What is left of a list, and the next of it.                             *)
LEMMA NextOf ==
  ASSUME NEW all, Listed(all), NEW todo, LeftOf(todo, all)
  PROVE  /\ Len(all) \in Nat /\ Len(todo) \in 0 .. Len(all)
         /\ todo = <<>> <=> Len(todo) = 0
         /\ todo # <<>> => LET n == Len(all) - Len(todo) + 1
                           IN  /\ n \in 1 .. Len(all) /\ Head(todo) = all[n]
                               /\ LeftOf(Tail(todo), all)
                               /\ Len(all) - Len(Tail(todo)) = n
<1> DEFINE n == Len(all) - Len(todo) + 1
<1>1. all \in Seq(Range(all)) /\ Len(all) \in Nat
  BY DEF Listed
<1>2. Len(todo) \in 0 .. Len(all) /\ todo = SubSeq(all, n, Len(all))
  BY DEF LeftOf
<1>3. todo \in Seq(Range(all))
  <2>1. n \in 1 .. Len(all) + 1 /\ Len(all) \in n - 1 .. Len(all)
    <3>1. PICK l : l = Len(todo)
      OBVIOUS
    <3>2. l \in 0 .. Len(all) /\ n = Len(all) - l + 1
      BY <1>2, <3>1
    <3> QED
      BY <1>1, <3>2
  <2> HIDE DEF n
  <2> QED
    BY <1>1, <1>2, <2>1, SubSeqProperties
<1>4. todo = <<>> <=> Len(todo) = 0
  BY <1>3
<1>5. ASSUME todo # <<>>
      PROVE  /\ n \in 1 .. Len(all) /\ Head(todo) = all[n]
             /\ LeftOf(Tail(todo), all) /\ Len(all) - Len(Tail(todo)) = n
  <2>1. n \in 1 .. Len(all)
    BY <1>1, <1>2, <1>4, <1>5
  <2>2. Head(todo) = all[n]
    BY <1>1, <1>2, <2>1
  <2>3. Tail(todo) = SubSeq(all, n + 1, Len(all)) /\ Len(Tail(todo)) = Len(todo) - 1
    BY <1>1, <1>2, <2>1
  <2>4. Len(all) - Len(Tail(todo)) = n /\ Len(Tail(todo)) \in 0 .. Len(all)
    <3>1. PICK l : l = Len(todo)
      OBVIOUS
    <3>2. PICK t : t = Len(Tail(todo))
      OBVIOUS
    <3>3. l \in 0 .. Len(all) /\ l # 0 /\ t = l - 1 /\ n = Len(all) - l + 1
      BY <1>2, <1>4, <1>5, <2>3, <3>1, <3>2
    <3>4. Len(all) - t = n /\ t \in 0 .. Len(all)
      <4>1. PICK a : a = Len(all)
        OBVIOUS
      <4>2. PICK q : q = n
        OBVIOUS
      <4> QED
        BY <1>1, <3>3, <4>1, <4>2
    <3> QED
      BY <3>2, <3>4
  <2> QED
    BY <2>1, <2>2, <2>3, <2>4 DEF LeftOf
<1> QED
  BY <1>1, <1>2, <1>4, <1>5

(* The position of a frame, and what it is to do next.                     *)
At(fr) == Len(fr.got) + 1
IsRef(fr) == /\ At(fr) \in 1 .. Len(Refs(Def(fr.id)))
             /\ Head(fr.todo) = Refs(Def(fr.id))[At(fr)]
             /\ Head(fr.todo) \in Range(Refs(Def(fr.id)))
             /\ RefOf(Head(fr.todo), Kind(fr.id))
             /\ Head(fr.todo) # Check /\ Head(fr.todo).role # "own"
             /\ Behind(fr.id, Tail(fr.todo)) = At(fr)
             /\ Checked(fr.id, Tail(fr.todo)) => Checked(fr.id, fr.todo)
IsCheck(fr) == /\ Kind(fr.id) = "struct" /\ Head(fr.todo) = Check
               /\ Behind(fr.id, Tail(fr.todo)) = Len(fr.got)
               /\ Len(fr.got) <= Len(Refs(Def(fr.id)))
               /\ Len(fr.got) = Len(Def(fr.id).fields)

LEMMA RefIsNoCheck ==
  ASSUME NEW ref, NEW kind, RefOf(ref, kind)
  PROVE  ref # Check /\ ref.role # "own" /\ ref.role \in {"value", "type", "service"}
<1>1. ref.role \in {"value", "type", "service"}
  BY RoleSets DEF RefOf
<1>2. Check.role = "check"
  BY DEF Check
<1> QED
  BY <1>1, <1>2

LEMMA Position ==
  ASSUME Ready, NEW fr, FrameFormed(fr), Refers(fr)
  PROVE  /\ Len(fr.got) \in Nat /\ DOMAIN fr.got = 1 .. Len(fr.got)
         /\ Len(Refs(Def(fr.id))) \in Nat
         /\ fr.todo # <<>> => /\ LeftOf(Tail(fr.todo), Todo(fr.id))
                              /\ IsRef(fr) \/ IsCheck(fr)
         /\ fr.todo = <<>> => /\ Len(fr.got) = Len(Refs(Def(fr.id)))
                              /\ Kind(fr.id) = "struct" => Checked(fr.id, fr.todo)
<1> DEFINE id == fr.id
           todo == fr.todo
           refs == Refs(Def(id))
           all == Todo(id)
<1>1. id \in Known /\ LeftOf(todo, all) /\ Listed(fr.got) /\ Len(fr.got) = Behind(id, todo)
  BY DEF FrameFormed, Refers
<1>2. /\ Kind(id) \in {"const", "typedef", "enum", "struct", "service"}
      /\ Listed(refs) /\ \A ref \in Range(refs) : RefOf(ref, Kind(id))
      /\ Kind(id) = "struct" => StructTodo(Def(id))
  BY <1>1, RefsOf DEF Ready
<1>3. /\ Len(fr.got) \in Nat /\ DOMAIN fr.got = 1 .. Len(fr.got)
      /\ Len(refs) \in Nat /\ \A j \in 1 .. Len(refs) : refs[j] \in Range(refs)
  BY <1>1, <1>2, ItemsOf
<1>4. CASE Kind(id) = "struct"
  <2> DEFINE n == Len(Def(id).fields)
             p == Past(id, todo)
  <2>1. all = Defaults(Def(id)) \o <<Check>> \o Types(Def(id))
    BY <1>4 DEF Todo
  <2>2. /\ n \in Nat /\ Len(refs) = 2 * n /\ Len(all) = 2 * n + 1 /\ all[n + 1] = Check
        /\ \A i \in 1 .. n : all[i] = refs[i]
        /\ \A i \in n + 2 .. 2 * n + 1 : all[i] = refs[i - 1]
        /\ Listed(all)
    BY <1>2, <1>4, <2>1 DEF StructTodo
  <2>3. /\ Len(todo) \in 0 .. Len(all) /\ (todo = <<>> <=> Len(todo) = 0)
        /\ todo # <<>> => /\ p + 1 \in 1 .. Len(all) /\ Head(todo) = all[p + 1]
                          /\ LeftOf(Tail(todo), all) /\ Past(id, Tail(todo)) = p + 1
    BY <1>1, <2>2, NextOf DEF Past
  <2>4. p = Len(all) - Len(todo)
    BY DEF Past
  <2>5. /\ Checked(id, todo) <=> p > n
        /\ Len(fr.got) = IF p > n THEN p - 1 ELSE p
    BY <1>1, <1>4 DEF Checked, Behind
  <2>6. Checked(id, Tail(todo)) <=> Past(id, Tail(todo)) > n
    BY <1>4 DEF Checked
  <2>7. Behind(id, Tail(todo)) = IF Past(id, Tail(todo)) > n THEN Past(id, Tail(todo)) - 1
                                                             ELSE Past(id, Tail(todo))
    BY <2>6 DEF Behind
  <2> HIDE DEF p, n, all, todo, refs
  <2>8. p \in 0 .. 2 * n + 1 /\ (todo = <<>> <=> p = 2 * n + 1)
    <3>1. PICK l : l = Len(todo)
      OBVIOUS
    <3>2. l \in 0 .. 2 * n + 1 /\ p = (2 * n + 1) - l /\ (todo = <<>> <=> l = 0)
      BY <2>2, <2>3, <2>4, <3>1
    <3> QED
      BY <2>2, <3>2
  <2>9. CASE todo = <<>>
    <3>1. p > n /\ Len(fr.got) = Len(refs)
      BY <2>2, <2>5, <2>8, <2>9
    <3> QED
      BY <1>3, <2>5, <2>9, <3>1 DEF todo, refs
  <2>10. CASE todo # <<>> /\ p = n
    <3>1. Head(todo) = Check
      BY <2>2, <2>3, <2>10
    <3>2. Behind(id, Tail(todo)) = Len(fr.got)
      BY <2>2, <2>3, <2>5, <2>7, <2>10
    <3>3. Len(fr.got) <= Len(refs) /\ Len(fr.got) = n
      BY <2>2, <2>5, <2>10
    <3> QED
      BY <1>3, <1>4, <2>3, <2>10, <3>1, <3>2, <3>3 DEF IsCheck, todo, refs, all, n
  <2>11. CASE todo # <<>> /\ p # n
    <3> DEFINE j == Len(fr.got) + 1
    <3>1. j \in 1 .. Len(refs) /\ all[p + 1] = refs[j]
      <4>1. CASE p < n
        BY <2>2, <2>3, <2>5, <2>8, <2>11, <4>1
      <4>2. CASE p > n
        <5>1. p + 1 \in n + 2 .. 2 * n + 1 /\ (p + 1) - 1 = p /\ p \in 1 .. 2 * n /\ j = p
          BY <2>2, <2>3, <2>5, <2>8, <2>11, <4>2
        <5> QED
          BY <2>2, <5>1
      <4> QED
        BY <2>2, <2>8, <2>11, <4>1, <4>2
    <3>2. Behind(id, Tail(todo)) = j /\ (Checked(id, Tail(todo)) => Checked(id, todo))
      <4>1. PICK q, b, g : q = Past(id, Tail(todo)) /\ b = Behind(id, Tail(todo)) /\ g = Len(fr.got)
        OBVIOUS
      <4>2. /\ q = p + 1 /\ b = (IF q > n THEN q - 1 ELSE q) /\ g = (IF p > n THEN p - 1 ELSE p)
            /\ p \in Nat /\ n \in Nat /\ p # n
        BY <2>2, <2>3, <2>5, <2>7, <2>8, <2>11, <4>1
      <4>3. b = g + 1 /\ (q > n => p > n)
        BY <4>2
      <4> QED
        BY <2>5, <2>6, <4>1, <4>3
    <3> HIDE DEF j
    <3>3. Head(todo) = refs[j] /\ refs[j] \in Range(refs) /\ RefOf(refs[j], Kind(id))
      BY <1>2, <1>3, <2>3, <2>11, <3>1
    <3>4. refs[j] # Check /\ refs[j].role # "own"
      BY <3>3, RefIsNoCheck
    <3>5. IsRef(fr)
      BY <3>1, <3>2, <3>3, <3>4 DEF IsRef, At, j, refs, todo
    <3> QED
      BY <1>3, <2>3, <2>11, <3>5 DEF todo, refs, all
  <2> QED
    BY <2>9, <2>10, <2>11
<1>5. CASE Kind(id) # "struct"
  <2>1. all = refs
    BY <1>2, <1>5 DEF Todo
  <2> DEFINE p == Past(id, todo)
  <2>3. /\ Len(todo) \in 0 .. Len(refs) /\ (todo = <<>> <=> Len(todo) = 0)
        /\ todo # <<>> => /\ p + 1 \in 1 .. Len(refs) /\ Head(todo) = refs[p + 1]
                          /\ LeftOf(Tail(todo), all) /\ Past(id, Tail(todo)) = p + 1
    BY <1>1, <1>2, <2>1, NextOf DEF Past
  <2>4. p = Len(refs) - Len(todo)
    BY <2>1 DEF Past
  <2>5. /\ Len(fr.got) = p /\ Behind(id, Tail(todo)) = Past(id, Tail(todo))
        /\ ~Checked(id, Tail(todo))
    BY <1>1, <1>5 DEF Checked, Behind
  <2> HIDE DEF p, all, todo, refs
  <2>6. CASE todo = <<>>
    <3>1. Len(fr.got) = Len(refs)
      BY <1>3, <2>3, <2>4, <2>5, <2>6
    <3> QED
      BY <1>3, <1>5, <2>6, <3>1 DEF todo, refs
  <2>7. CASE todo # <<>>
    <3>1. refs[p + 1] \in Range(refs) /\ RefOf(refs[p + 1], Kind(id))
      BY <1>2, <1>3, <2>3, <2>7
    <3>2. refs[p + 1] # Check /\ refs[p + 1].role # "own"
      BY <3>1, RefIsNoCheck
    <3>3. IsRef(fr)
      BY <2>3, <2>5, <2>7, <3>1, <3>2 DEF IsRef, At, refs, todo
    <3> QED
      BY <1>3, <2>3, <2>7, <3>3 DEF todo, refs, all
  <2> QED
    BY <2>6, <2>7
<1> QED
  BY <1>4, <1>5

(* A frame has no more than it has references.                             *)
LEMMA GotBound ==
  ASSUME Ready, NEW fr, FrameFormed(fr), Refers(fr)
  PROVE  \A j \in 1 .. Len(fr.got) : j \in 1 .. Len(Refs(Def(fr.id)))
<1>1. /\ Len(fr.got) \in Nat /\ Len(Refs(Def(fr.id))) \in Nat
      /\ fr.todo # <<>> => IsRef(fr) \/ IsCheck(fr)
      /\ fr.todo = <<>> => Len(fr.got) = Len(Refs(Def(fr.id)))
  BY Position
<1>2. Len(fr.got) <= Len(Refs(Def(fr.id)))
  <2>1. CASE IsRef(fr)
    BY <1>1, <2>1 DEF IsRef, At
  <2>2. CASE IsCheck(fr)
    BY <1>1, <2>2 DEF IsCheck
  <2> QED
    BY <1>1, <2>1, <2>2
<1> QED
  BY <1>1, <1>2

-----------------------------------------------------------------------------
(* A call leads to a child, or to what a reference names.                  *)
IsOwn(fr, call) == /\ call.role = "own" /\ Target(fr.id, call) = call.id
                   /\ call.id \in Linkable /\ ~Refers(fr)
IsNamed(fr, call) == /\ Refers(fr) /\ IsRef(fr) /\ call.path # Null
                     /\ Target(fr.id, call) = RefTarget(fr.id, call)
                     /\ Target(fr.id, call) = Null \/ Target(fr.id, call) \in Linkable
LEMMA OwnFrames ==
  ASSUME Ready, NEW fr, FrameFormed(fr), ~Refers(fr)
  PROVE  /\ Listed(fr.todo) /\ \A call \in Range(fr.todo) : OwnCall(call)
         /\ fr.id \in ModuleIds \/ fr.op = "functions"
BY DEF FrameFormed, Refers, OwnCalls, Linkable

LEMMA HeadIn ==
  ASSUME NEW s, Listed(s), s # <<>>
  PROVE  /\ Head(s) \in Range(s) /\ Listed(Tail(s)) /\ Range(Tail(s)) \subseteq Range(s)
         /\ \A x \in Range(s) : x = Head(s) \/ x \in Range(Tail(s))
<1>1. s \in Seq(Range(s)) /\ Len(s) \in Nat /\ Len(s) # 0 /\ DOMAIN s = 1 .. Len(s)
  BY DEF Listed
<1>2. Head(s) = s[1] /\ 1 \in 1 .. Len(s)
  BY <1>1
<1>3. /\ Tail(s) \in Seq(Range(s)) /\ Len(Tail(s)) = Len(s) - 1
      /\ \A i \in 1 .. Len(s) - 1 : Tail(s)[i] = s[i + 1] /\ i + 1 \in 1 .. Len(s)
  BY <1>1
<1>4. DOMAIN Tail(s) = 1 .. Len(s) - 1 /\ Listed(Tail(s))
  <2>1. PICK t, n : t = Tail(s) /\ n = Len(s) - 1
    OBVIOUS
  <2>2. n \in Nat /\ t \in Seq(Range(s)) /\ Len(t) = n
    BY <1>1, <1>3, <2>1
  <2>3. DOMAIN t = 1 .. n /\ t = [i \in 1 .. n |-> t[i]]
    BY <2>2
  <2> QED
    BY <2>1, <2>2, <2>3, MadeList
<1>6. \A x \in Range(s) : x = s[1] \/ x \in Range(Tail(s))
  <2> TAKE x \in Range(s)
  <2>1. PICK i \in 1 .. Len(s) : x = s[i]
    BY <1>1 DEF Range
  <2>2. CASE i # 1
    <3>1. i - 1 \in 1 .. Len(s) - 1 /\ Tail(s)[i - 1] = s[i]
      BY <1>1, <1>3, <2>2
    <3> QED
      BY <1>4, <2>1, <3>1 DEF Range
  <2> QED
    BY <2>1, <2>2
<1> HIDE DEF Range
<1>7. Range(Tail(s)) \subseteq Range(s) /\ s[1] \in Range(s)
  BY <1>1, <1>2, <1>3, <1>4 DEF Range
<1> QED
  BY <1>2, <1>4, <1>6, <1>7

LEMMA CallIs ==
  ASSUME Ready, NEW fr, FrameFormed(fr), fr.todo # <<>>,
         Head(fr.todo) # Check, ~NamesNothing(Head(fr.todo))
  PROVE  IsOwn(fr, Head(fr.todo)) \/ IsNamed(fr, Head(fr.todo))
<1>1. PICK call : call = Head(fr.todo)
  OBVIOUS
<1>2. CASE ~Refers(fr)
  <2>1. OwnCall(call)
    BY <1>1, <1>2, OwnFrames, HeadIn
  <2>2. call.role = "own" /\ call.id \in Linkable
    BY <2>1 DEF OwnCall, Own
  <2> QED
    BY <1>1, <1>2, <2>2 DEF IsOwn, Target
<1>3. CASE Refers(fr)
  <2>1. IsRef(fr)
    BY <1>3, Position DEF IsCheck
  <2>2. /\ call.role # "own" /\ RefOf(call, Kind(fr.id)) /\ call \in Range(Refs(Def(fr.id)))
        /\ fr.id \in Known
    BY <1>1, <1>3, <2>1 DEF IsRef, Refers
  <2>3. call.path # Null
    <3>1. call.role \in {"value", "type"} => call.path # Null
      BY <1>1 DEF NamesNothing
    <3>2. call.role \in {"value", "type", "service"}
      BY <2>2, RefIsNoCheck
    <3>3. call.role = "service" => Kind(fr.id) # "struct"
      BY <2>2 DEF RefOf, Roles
    <3> QED
      BY <2>2, <3>1, <3>2, <3>3 DEF RefOf
  <2>4. Target(fr.id, call) = Resolve(fr.id[1], call.path)
    BY <2>2 DEF Target
  <2>5. RefTarget(fr.id, call) = Resolve(fr.id[1], call.path)
    BY <2>3 DEF RefTarget
  <2>6. Dotted(call.path) /\ fr.id[1] \in Reached
    BY <2>2, <2>3, RefsDotted
  <2>7. Resolve(fr.id[1], call.path) = Null \/ Resolve(fr.id[1], call.path) \in Linkable
    BY <2>6, ResolvesTo
  <2> QED
    BY <1>1, <1>3, <2>1, <2>3, <2>4, <2>5, <2>7 DEF IsNamed
<1> QED
  BY <1>2, <1>3

(* Frames that stay as they are stay what they are.                        *)
LEMMA FormStays ==
  ASSUME Ready, Ready', UNCHANGED trees, NEW fr
  PROVE  /\ FrameFormed(fr)' <=> FrameFormed(fr)
         /\ Refers(fr)' <=> Refers(fr)
         /\ Refers(fr) => (Checked(fr.id, fr.todo)' <=> Checked(fr.id, fr.todo))
         /\ FrameFormed(fr) =>
               /\ \A id : Calls(fr, id)' <=> Calls(fr, id)
               /\ (fr.todo # <<>> /\ Head(fr.todo) # Check /\ ~NamesNothing(Head(fr.todo))) =>
                        Target(fr.id, Head(fr.todo))' = Target(fr.id, Head(fr.todo))
<1>1. /\ Known' = Known /\ ModuleIds' = ModuleIds /\ Linkable' = Linkable
      /\ \A id : Def(id)' = Def(id) /\ Kind(id)' = Kind(id)
      /\ \A id \in Known : Todo(id)' = Todo(id)
      /\ \A id, ref : id \in Known /\ ref \in Range(Refs(Def(id))) =>
                            RefTarget(id, ref)' = RefTarget(id, ref)
  BY KnownStays, TargetsStay DEF trees
<1>2. Refers(fr)' <=> Refers(fr)
  BY <1>1 DEF Refers
<1>3. Refers(fr) => /\ Past(fr.id, fr.todo)' = Past(fr.id, fr.todo)
                    /\ Todo(fr.id)' = Todo(fr.id)
  BY <1>1 DEF Refers, Past
<1>4. Refers(fr) => (Checked(fr.id, fr.todo)' <=> Checked(fr.id, fr.todo))
  BY <1>1, <1>3 DEF Checked
<1>5. Refers(fr) => Behind(fr.id, fr.todo)' = Behind(fr.id, fr.todo)
  BY <1>3, <1>4 DEF Behind
<1>6. OwnCalls(fr.todo)' <=> OwnCalls(fr.todo)
  BY <1>1 DEF OwnCalls, OwnCall
<1>7. FrameFormed(fr)' <=> FrameFormed(fr)
  BY <1>1, <1>2, <1>3, <1>5, <1>6 DEF FrameFormed
<1>8. ASSUME FrameFormed(fr), fr.todo # <<>>, Head(fr.todo) # Check,
             ~NamesNothing(Head(fr.todo))
      PROVE  Target(fr.id, Head(fr.todo))' = Target(fr.id, Head(fr.todo))
  <2>1. PICK call : call = Head(fr.todo)
    OBVIOUS
  <2>2. CASE IsOwn(fr, call)
    BY <2>1, <2>2 DEF IsOwn, Target
  <2>3. CASE IsNamed(fr, call)
    <3>1. call.role # "own" /\ call.path # Null /\ fr.id \in Known /\ call \in Range(Refs(Def(fr.id)))
      BY <2>1, <2>3 DEF IsNamed, IsRef, Refers
    <3>2. RefTarget(fr.id, call)' = RefTarget(fr.id, call)
      BY <1>1, <3>1
    <3> QED
      BY <2>1, <3>1, <3>2 DEF RefTarget, Target
  <2> QED
    BY <1>8, <2>1, <2>2, <2>3, CallIs
<1>9. ASSUME FrameFormed(fr), NEW id PROVE Calls(fr, id)' <=> Calls(fr, id)
  BY <1>8, <1>9 DEF Calls
<1> QED
  BY <1>2, <1>4, <1>7, <1>8, <1>9

(* What the frames become.                                                 *)
LEMMA OneMore ==
  ASSUME NEW s, Listed(s), NEW x
  PROVE  /\ Listed(Append(s, x)) /\ Len(Append(s, x)) = Len(s) + 1
         /\ \A i \in 1 .. Len(s) : Append(s, x)[i] = s[i]
         /\ Append(s, x)[Len(s) + 1] = x
         /\ \A y \in Range(Append(s, x)) : y \in Range(s) \/ y = x
<1> DEFINE S == Range(s) \cup {x}
           t == Append(s, x)
<1>1. s \in Seq(S) /\ x \in S /\ Len(s) \in Nat
  BY DEF Listed
<1> HIDE DEF S
<1>2. /\ t \in Seq(S) /\ Len(t) = Len(s) + 1 /\ \A i \in 1 .. Len(s) : t[i] = s[i]
      /\ t[Len(s) + 1] = x
  BY <1>1
<1>3. DOMAIN t = 1 .. Len(s) + 1 /\ t = [i \in 1 .. Len(s) + 1 |-> t[i]]
  <2>1. PICK u, n : u = t /\ n = Len(s) + 1
    OBVIOUS
  <2>2. u \in Seq(S) /\ Len(u) = n /\ n \in Nat
    BY <1>1, <1>2, <2>1
  <2>3. DOMAIN u = 1 .. n /\ u = [i \in 1 .. n |-> u[i]]
    BY <2>2
  <2> QED
    BY <2>1, <2>3
<1> HIDE DEF t
<1>4. Listed(t)
  <2>1. Len(s) + 1 \in Nat
    BY <1>1
  <2> QED
    BY <1>3, <2>1, MadeList
<1>5. \A y \in Range(t) : y \in Range(s) \/ y = x
  <2> TAKE y \in Range(t)
  <2>1. PICK i \in 1 .. Len(s) + 1 : y = t[i]
    BY <1>3 DEF Range
  <2>2. i \in 1 .. Len(s) \/ i = Len(s) + 1
    BY <1>1
  <2> QED
    BY <1>2, <2>1, <2>2, ItemsOf
<1> QED
  BY <1>2, <1>4, <1>5 DEF t

LEMMA NextForm ==
  ASSUME Ready, NEW fr, FrameFormed(fr), fr.todo # <<>>,
         NEW next, next.op = fr.op, next.id = fr.id, next.todo = Tail(fr.todo),
         \/ next.got = fr.got /\ Head(fr.todo) = Check
         \/ /\ Head(fr.todo) # Check
            /\ \E x : /\ next.got = Append(fr.got, x)
                      /\ Refers(fr) /\ Kind(fr.id) = "service" =>
                                x \in Known /\ Kind(x) = "service"
  PROVE  FrameFormed(next)
<1>1. CASE ~Refers(fr)
  <2>1. ~Refers(next)
    BY <1>1 DEF Refers
  <2>2. OwnCalls(next.todo)
    BY <1>1, OwnFrames, HeadIn DEF OwnCalls
  <2> QED
    BY <2>1, <2>2 DEF FrameFormed
<1>2. CASE Refers(fr)
  <2>1. /\ Len(fr.got) \in Nat /\ LeftOf(Tail(fr.todo), Todo(fr.id))
        /\ IsRef(fr) \/ IsCheck(fr)
    BY <1>2, Position
  <2>2. Refers(next) /\ fr.id \in Known /\ fr.op = "link" /\ Listed(fr.got)
    BY <1>2 DEF Refers, FrameFormed
  <2>3. CASE next.got = fr.got /\ Head(fr.todo) = Check
    <3>1. Behind(fr.id, Tail(fr.todo)) = Len(fr.got)
      BY <2>1, <2>3 DEF IsRef, IsCheck
    <3> QED
      BY <1>2, <2>1, <2>2, <2>3, <3>1, NotModules, Position DEF FrameFormed
  <2>4. CASE Head(fr.todo) # Check
    <3>1. PICK x : /\ next.got = Append(fr.got, x)
                   /\ Kind(fr.id) = "service" => x \in Known /\ Kind(x) = "service"
      BY <1>2, <2>4
    <3>2. Behind(fr.id, Tail(fr.todo)) = Len(fr.got) + 1
      BY <2>1, <2>4 DEF IsRef, IsCheck, At
    <3>3. /\ Listed(next.got) /\ Len(next.got) = Len(fr.got) + 1
          /\ \A y \in Range(next.got) : y \in Range(fr.got) \/ y = x
      BY <2>2, <3>1, OneMore
    <3>4. LeftOf(next.todo, Todo(next.id)) /\ Len(next.got) = Behind(next.id, next.todo)
      BY <1>2, <2>1, <3>2, <3>3, Position
    <3>5. Kind(next.id) = "service" => \A id \in Range(next.got) : id \in Known /\ Kind(id) = "service"
      BY <1>2, <3>1, <3>3 DEF FrameFormed
    <3> QED
      BY <2>2, <3>3, <3>4, <3>5, NotModules DEF FrameFormed
  <2> QED
    BY <2>3, <2>4
<1> QED
  BY <1>1, <1>2

LEMMA NamesForm ==
  ASSUME Ready, NEW file \in Reached
  PROVE  /\ OwnCalls(Names(file))
         /\ \A m \in Defs(file) : \A k \in 1 .. Size(Source(file)[m]) :
                \E call \in Range(Names(file)) : call.id = EntryFor(file, m, k).id
<1> DEFINE s == models[file]
           t == Names(file)
<1>1. /\ Listed(s) /\ \A entry \in Range(s) : entry.id \in Linkable
      /\ \A m \in Defs(file) : \A k \in 1 .. Size(Source(file)[m]) :
                EntryFor(file, m, k) \in Range(s)
  BY EntriesStand
<1>2. Len(s) \in Nat /\ DOMAIN s = 1 .. Len(s) /\ t = [i \in DOMAIN s |-> Own(s[i].id)]
  BY <1>1, ItemsOf DEF Names
<1> HIDE DEF s, t
<1>3. DOMAIN t = 1 .. Len(s) /\ t = [i \in 1 .. Len(s) |-> t[i]]
  BY <1>2
<1>4. Listed(t)
  BY <1>2, <1>3, MadeList
<1>5. \A i \in 1 .. Len(s) : t[i] = Own(s[i].id) /\ s[i].id \in Linkable
  BY <1>1, <1>2, ItemsOf
<1>6. \A id : Own(id).id = id
  BY DEF Own
<1>7. \A call \in Range(t) : OwnCall(call)
  BY <1>3, <1>5, <1>6 DEF Range, OwnCall
<1>8. \A entry \in Range(s) : \E call \in Range(t) : call.id = entry.id
  BY <1>2, <1>3, <1>5, <1>6 DEF Range
<1> QED
  BY <1>1, <1>4, <1>7, <1>8 DEF OwnCalls, s, t

LEMMA WholeIsLeft ==
  ASSUME NEW s, Listed(s) PROVE LeftOf(s, s) /\ Len(s) - Len(s) = 0
<1>1. s \in Seq(Range(s)) /\ Len(s) \in Nat
  BY DEF Listed
<1>2. Len(s) - Len(s) + 1 = 1 /\ Len(s) - Len(s) = 0
  BY <1>1
<1>3. SubSeq(s, 1, Len(s)) = s
  BY <1>1
<1> QED
  BY <1>1, <1>2, <1>3 DEF LeftOf

LEMMA NewForm ==
  ASSUME Ready, NEW id \in Linkable, NEW fr, fr = Frame("link", id, Todo(id))
  PROVE  FrameFormed(fr) /\ ~Checked(fr.id, fr.todo)
<1>1. fr.op = "link" /\ fr.id = id /\ fr.todo = Todo(id) /\ fr.got = <<>>
  BY Frames
<1>2. CASE id \in ModuleIds
  <2>1. PICK file \in Reached : id = Module(file)
    BY <1>2 DEF ModuleIds
  <2>2. Kind(id) = "module" /\ id[1] = file
    BY <2>1, Modules
  <2>3. Todo(id) = Names(file)
    BY <2>2 DEF Todo
  <2>4. OwnCalls(Todo(id))
    BY <2>3, NamesForm
  <2>5. ~Refers(fr)
    BY <1>1, <1>2, NotModules DEF Refers
  <2> QED
    BY <1>1, <2>2, <2>4, <2>5 DEF FrameFormed, Checked
<1>3. CASE id \in Known
  <2>1. /\ Kind(id) \in {"const", "typedef", "enum", "struct", "service"}
        /\ Listed(Refs(Def(id)))
        /\ Kind(id) = "struct" => StructTodo(Def(id))
    BY <1>3, RefsOf DEF Ready
  <2>2. Listed(Todo(id))
    <3>1. CASE Kind(id) = "struct"
      BY <2>1, <3>1 DEF Todo, StructTodo
    <3>2. CASE Kind(id) # "struct"
      BY <2>1, <3>2 DEF Todo
    <3> QED
      BY <3>1, <3>2
  <2>3. LeftOf(Todo(id), Todo(id)) /\ Past(id, Todo(id)) = 0
    BY <2>2, WholeIsLeft DEF Past
  <2>4. ~Checked(id, Todo(id))
    BY <2>1, <2>3 DEF Checked, StructTodo
  <2>5. Behind(id, Todo(id)) = 0
    BY <2>3, <2>4 DEF Behind
  <2>6. Listed(<<>>) /\ Len(<<>>) = 0 /\ Range(<<>>) = {}
    BY DEF Listed, Range
  <2> QED
    BY <1>1, <1>3, <2>3, <2>4, <2>5, <2>6, NotModules DEF FrameFormed, Refers
<1> QED
  BY <1>2, <1>3 DEF Linkable

LEMMA FormedAfter ==
  ASSUME Ready, Ready', UNCHANGED trees, Formed, NEW n \in Nat, DOMAIN stack' = 1 .. n,
         \A i \in 1 .. n - 1 : i \in DOMAIN stack /\ stack'[i] = stack[i],
         NEW top, n >= 1 => top = stack'[n] /\ FrameFormed(top),
         n > 1 => Calls(stack[n - 1], top.id)
  PROVE  Formed'
<1>1. \A fr : FrameFormed(fr)' <=> FrameFormed(fr)
  BY FormStays
<1>2. \A fr, id : FrameFormed(fr) => (Calls(fr, id)' <=> Calls(fr, id))
  BY FormStays
<1>3. ASSUME NEW i \in 1 .. n, NEW fr, fr = stack'[i] PROVE FrameFormed(fr)'
  <2>1. CASE i = n
    BY <1>1, <1>3, <2>1
  <2>2. CASE i # n
    <3>1. i \in 1 .. n - 1
      BY <2>2
    <3>2. FrameFormed(stack[i]) /\ fr = stack[i]
      BY <1>3, <3>1 DEF Formed
    <3> QED
      BY <1>1, <3>2
  <2> QED
    BY <2>1, <2>2
<1>4. ASSUME NEW i \in 1 .. n, i > 1, NEW fr, fr = stack'[i - 1], NEW id, id = stack'[i].id
      PROVE  Calls(fr, id)'
  <2>1. i - 1 \in 1 .. n - 1
    BY <1>4
  <2>2. i - 1 \in DOMAIN stack /\ fr = stack[i - 1]
    BY <1>4, <2>1
  <2>3. FrameFormed(fr)
    BY <2>2 DEF Formed
  <2>4. Calls(fr, id)
    <3>1. CASE i = n
      BY <1>4, <2>2, <3>1
    <3>2. CASE i # n
      <4>1. i \in 1 .. n - 1
        BY <3>2
      <4>2. i \in DOMAIN stack /\ id = stack[i].id
        BY <1>4, <4>1
      <4> QED
        BY <1>4, <2>2, <4>2 DEF Formed
    <3> QED
      BY <3>1, <3>2
  <2> QED
    BY <1>2, <2>3, <2>4
<1>5. \A i \in 1 .. n : FrameFormed(stack[i])'
  BY <1>3
<1>6. \A i \in 1 .. n : i > 1 => Calls(stack[i - 1], stack[i].id)'
  BY <1>4
<1> QED
  BY <1>5, <1>6 DEF Formed

-----------------------------------------------------------------------------
(* A step of link takes nothing back: what is entered stays entered, what  *)
(* has a value keeps it.                                                   *)
KeepsConst(id) == (Kind(id) = "const" /\ Homonyms(id) = {}) =>
                    consts'[id[1]][<<Def(id).name>>] = consts[id[1]][<<Def(id).name>>]
Keeps == /\ linked \subseteq linked' /\ DOMAIN value \subseteq DOMAIN value'
         /\ \A id \in DOMAIN value : value'[id] = value[id] /\ KeepsConst(id)
Steady == Ready /\ Ready' /\ UNCHANGED trees /\ Tables /\ Keeps

LEMMA AtOnceStays ==
  ASSUME Steady, NEW id, ReturnsAtOnce(id) PROVE ReturnsAtOnce(id)'
<1>1. Kind(id)' = Kind(id)
  BY TargetsStay DEF Steady
<1> QED
  BY <1>1 DEF Steady, Keeps, ReturnsAtOnce

LEMMA RefStays ==
  ASSUME Steady, NEW id \in Known, NEW ref \in Range(Refs(Def(id)))
  PROVE  /\ RefTarget(id, ref)' = RefTarget(id, ref)
         /\ RefDone(id, ref) => RefDone(id, ref)'
         /\ Held(id, ref) => Held(id, ref)'
         /\ RefDone(id, ref) /\ Held(id, ref) => Meaning(id, ref)' = Meaning(id, ref)
<1> DEFINE t == RefTarget(id, ref)
<1>1. t' = t
  BY TargetsStay DEF Steady
<1>2. PICK x : x = RefTarget(id, ref)
  OBVIOUS
<1>3. x = RefTarget(id, ref)'
  BY <1>1, <1>2
<1>4. Kind(x)' = Kind(x) /\ Role(x)' = Role(x)
  BY TargetsStay DEF Steady
<1>5. RefDone(id, ref) => RefDone(id, ref)'
  <2>1. ReturnsAtOnce(x) => ReturnsAtOnce(x)'
    BY AtOnceStays
  <2> QED
    BY <1>2, <1>3, <1>4, <2>1 DEF RefDone
<1>6. Held(id, ref) => Held(id, ref)'
  BY <1>2, <1>3, <1>4 DEF Held, Steady, Keeps
<1>7. ASSUME RefDone(id, ref), Held(id, ref)
      PROVE  Meaning(id, ref)' = Meaning(id, ref)
  <2>1. CASE ref.path = Null
    BY <2>1 DEF Meaning
  <2>2. CASE ref.path # Null
    <3>1. Kind(x) \in {"const", "typedef"} => x \in DOMAIN value
      BY <1>2, <1>7, <2>2 DEF RefDone, Held, ReturnsAtOnce
    <3>2. x \in DOMAIN value => ValueOf(x)' = ValueOf(x)
      BY DEF ValueOf, Steady, Keeps
    <3>3. Result(x)' = Result(x)
      BY <1>4, <3>1, <3>2 DEF Result
    <3> QED
      BY <1>2, <1>3, <2>2, <3>3 DEF Meaning
  <2> QED
    BY <2>1, <2>2
<1> QED
  BY <1>1, <1>5, <1>6, <1>7

LEMMA MeaningsAre ==
  ASSUME NEW id
  PROVE  /\ Meanings(id) = [i \in DOMAIN Refs(Def(id)) |-> Meaning(id, Refs(Def(id))[i])]
         /\ Meanings(id)' = [i \in DOMAIN Refs(Def(id)) |-> Meaning(id, Refs(Def(id))[i])]'
<1>1. \A i \in DOMAIN Refs(Def(id)) : Targets(id)[i] = RefTarget(id, Refs(Def(id))[i])
  BY DEF Targets
<1>2. \A i \in DOMAIN Refs(Def(id))' : Targets(id)'[i] = RefTarget(id, Refs(Def(id))[i])'
  BY DEF Targets
<1>3. Meanings(id) = [i \in DOMAIN Refs(Def(id)) |-> Meaning(id, Refs(Def(id))[i])]
  BY <1>1 DEF Meanings, Meaning
<1>4. Meanings(id)' = [i \in DOMAIN Refs(Def(id)) |-> Meaning(id, Refs(Def(id))[i])]'
  BY <1>2 DEF Meanings, Meaning
<1> QED
  BY <1>3, <1>4

LEMMA MeaningsStay ==
  ASSUME Steady, NEW id \in Known,
         \A ref \in Range(Refs(Def(id))) : RefDone(id, ref) /\ Held(id, ref)
  PROVE  Made(Def(id), Meanings(id))' = Made(Def(id), Meanings(id))
<1> DEFINE refs == Refs(Def(id))
<1>1. Def(id)' = Def(id) /\ refs' = refs
  BY TargetsStay DEF Steady
<1>2. \A i \in DOMAIN refs : Meaning(id, refs[i])' = Meaning(id, refs[i])
  <2>1. \A i \in DOMAIN refs : refs[i] \in Range(refs)
    BY DEF Range
  <2>2. \A ref \in Range(refs) : Meaning(id, ref)' = Meaning(id, ref)
    BY RefStays
  <2>3. \A i \in DOMAIN refs : \A ref : ref = refs[i] => Meaning(id, ref)' = Meaning(id, ref)
    BY <2>1, <2>2
  <2> QED
    BY <1>1, <2>3
<1>3. Meanings(id)' = Meanings(id)
  <2>1. Meanings(id) = [i \in DOMAIN refs |-> Meaning(id, refs[i])]
    BY MeaningsAre
  <2>2. Meanings(id)' = [i \in DOMAIN refs |-> Meaning(id, refs[i])]'
    BY MeaningsAre
  <2> QED
    BY <1>1, <1>2, <2>1, <2>2
<1> QED
  BY <1>1, <1>3 DEF Made, RequiredFields, Steady, trees

LEMMA CompleteStays ==
  ASSUME Steady, NEW id \in Known, Complete(id) PROVE Complete(id)'
<1> DEFINE refs == Refs(Def(id))
<1>1. /\ Def(id)' = Def(id) /\ Kind(id)' = Kind(id) /\ refs' = refs
      /\ Unfit(id)' <=> Unfit(id)
  BY TargetsStay, CirclesStay DEF Steady
<1>2. \A ref \in Range(refs) : RefDone(id, ref) /\ RefDone(id, ref)'
  BY RefStays DEF Complete
<1>3. Sound(id)' <=> Sound(id) /\ Homonyms(id)' = Homonyms(id)
  BY CirclesStay DEF Steady
<1>4. Kind(id) \in Valuable => id \in DOMAIN value /\ id \in DOMAIN value'
  BY DEF Complete, Steady, Keeps
<1>5. ASSUME Kind(id) \in Valuable, Sound(id)
      PROVE  /\ value'[id] = Made(Def(id), Meanings(id))'
             /\ \A ref \in Range(refs) : Held(id, ref)'
             /\ (Kind(id) = "const" /\ Homonyms(id) = {}) =>
                    consts'[id[1]][<<Def(id).name>>] = value'[id]
  <2>1. /\ value[id] = Made(Def(id), Meanings(id))
        /\ \A ref \in Range(refs) : Held(id, ref)
        /\ (Kind(id) = "const" /\ Homonyms(id) = {}) =>
                    consts[id[1]][<<Def(id).name>>] = value[id]
    BY <1>5 DEF Complete
  <2>2. value'[id] = value[id] /\ KeepsConst(id)
    BY <1>4, <1>5 DEF Steady, Keeps
  <2>4. Made(Def(id), Meanings(id))' = Made(Def(id), Meanings(id))
    BY <1>2, <2>1, MeaningsStay
  <2>5. \A ref \in Range(refs) : Held(id, ref)'
    BY <2>1, RefStays
  <2> QED
    BY <2>1, <2>2, <2>4, <2>5 DEF KeepsConst
<1>6. ASSUME Kind(id) = "const" PROVE NullRight(id)'
  <2>1. NullRight(id) /\ value'[id] = value[id]
    BY <1>4, <1>6 DEF Complete, Steady, Keeps, Valuable
  <2>2. AlwaysNull' = AlwaysNull /\ MaybeNull' = MaybeNull
    BY CirclesStay DEF Steady
  <2> QED
    BY <2>1, <2>2 DEF NullRight, Nothing
<1> QED
  BY <1>1, <1>2, <1>3, <1>4, <1>5, <1>6 DEF Complete

LEMMA AllEnteredStays ==
  ASSUME Steady, NEW file, NEW todo, AllEntered(file, todo) PROVE AllEntered(file, todo)'
<1>1. /\ Source(file)' = Source(file) /\ Defs(file)' = Defs(file)
      /\ \A f, m, k : EntryFor(f, m, k)' = EntryFor(f, m, k)
  BY ProgramStays, KnownStays DEF Steady, trees
<1>2. \A id : ReturnsAtOnce(id) => ReturnsAtOnce(id)'
  BY AtOnceStays
<1>3. ASSUME NEW m \in Defs(file), NEW k \in 1 .. Size(Source(file)[m])
      PROVE  \/ ReturnsAtOnce(EntryFor(file, m, k).id)'
             \/ \E call \in Range(todo) : call.id = EntryFor(file, m, k).id
  <2>1. PICK id : id = EntryFor(file, m, k).id
    OBVIOUS
  <2>2. id = EntryFor(file, m, k).id'
    BY <1>1, <2>1
  <2>3. ReturnsAtOnce(id) \/ \E call \in Range(todo) : call.id = id
    BY <2>1 DEF AllEntered
  <2> QED
    BY <1>1, <1>2, <2>1, <2>2, <2>3
<1> QED
  BY <1>1, <1>3 DEF AllEntered

LEMMA FrameTrueStays ==
  ASSUME Steady, NEW fr, FrameFormed(fr), FrameTrue(fr),
         Refers(fr) /\ Kind(fr.id) \in {"const", "struct"} => fr.id \notin DOMAIN value'
  PROVE  FrameTrue(fr)'
<1> DEFINE id == fr.id
           refs == Refs(Def(id))
<1>1. /\ Kind(id)' = Kind(id) /\ refs' = refs
      /\ Known' = Known /\ ModuleIds' = ModuleIds
      /\ Refers(fr) => (Unfit(id)' <=> Unfit(id))
  BY TargetsStay, CirclesStay, KnownStays DEF Steady, trees, Refers
<1>2. /\ Refers(fr)' <=> Refers(fr)
      /\ Refers(fr) => (Checked(id, fr.todo)' <=> Checked(id, fr.todo))
  BY FormStays DEF Steady
<1>3. ASSUME Refers(fr), NEW j \in 1 .. Len(fr.got), NEW ref, ref = refs[j]
      PROVE  /\ RefDone(id, ref)'
             /\ GivenRight(id, ref, fr.got[j])'
             /\ Sound(id)' => fr.got[j] = Meaning(id, ref)' /\ Held(id, ref)'
  <2>1. id \in Known
    BY <1>3 DEF Refers
  <2>2. ref \in Range(refs)
    <3>1. Listed(refs)
      BY <2>1, RefsOf DEF Steady, Ready
    <3>2. j \in 1 .. Len(refs)
      BY <1>3, GotBound DEF Steady
    <3> QED
      BY <1>3, <3>1, <3>2, ItemsOf
  <2>3. RefDone(id, ref) /\ (Sound(id) => fr.got[j] = Meaning(id, ref) /\ Held(id, ref))
    BY <1>3 DEF FrameTrue
  <2>4. Sound(id)' <=> Sound(id)
    BY <2>1, CirclesStay DEF Steady
  <2>5. GivenRight(id, ref, fr.got[j])'
    <3>1. GivenRight(id, ref, fr.got[j])
      BY <1>3 DEF FrameTrue
    <3>2. RefTarget(id, ref)' = RefTarget(id, ref)
      BY <2>1, <2>2, RefStays
    <3>3. AlwaysNull' = AlwaysNull /\ MaybeNull' = MaybeNull
      BY CirclesStay DEF Steady
    <3> QED
      BY <1>1, <3>1, <3>2, <3>3 DEF GivenRight, Nothing
  <2> QED
    BY <2>1, <2>2, <2>3, <2>4, <2>5, RefStays
<1>4. ASSUME fr.op = "functions", NEW ref \in Range(refs) PROVE RefDone(id, ref)'
  <2>1. id \in Known
    BY <1>4, NotModules DEF FrameFormed, Linkable
  <2> QED
    BY <1>4, <2>1, RefStays DEF FrameTrue
<1>5. ASSUME id \in ModuleIds PROVE AllEntered(id[1], fr.todo)'
  BY <1>5, AllEnteredStays DEF FrameTrue
<1> QED
  BY <1>1, <1>2, <1>3, <1>4, <1>5 DEF FrameTrue

LEMMA TruthAfter ==
  ASSUME Steady, Formed, Truth, NEW n \in Nat, DOMAIN stack' = 1 .. n,
         \A i \in 1 .. n - 1 : i \in DOMAIN stack /\ stack'[i] = stack[i],
         \A i \in 1 .. n - 1 : (Refers(stack[i]) /\ Kind(stack[i].id) \in {"const", "struct"}) =>
                                    stack[i].id \notin DOMAIN value',
         NEW top, n >= 1 => top = stack'[n] /\ FrameTrue(top)',
         \A id \in linked : OnStack(id) => \/ OnStack(id)'
                                           \/ id \in Known /\ Complete(id)'
                                           \/ id \in ModuleIds /\ AllEntered(id[1], <<>>)',
         \A id \in linked' : id \in linked \/ OnStack(id)',
         \A id \in DOMAIN value' : id \in DOMAIN value \/ Complete(id)'
  PROVE  Truth'
<1>1. Known' = Known /\ ModuleIds' = ModuleIds
  BY KnownStays DEF Steady, trees
<1>2. ASSUME NEW i \in 1 .. n, NEW fr, fr = stack'[i] PROVE FrameTrue(fr)'
  <2>1. CASE i = n
    BY <1>2, <2>1
  <2>2. CASE i # n
    <3>1. i \in 1 .. n - 1
      BY <2>2
    <3>2. fr = stack[i] /\ i \in DOMAIN stack
      BY <1>2, <3>1
    <3>3. FrameFormed(fr) /\ FrameTrue(fr)
      BY <3>2 DEF Formed, Truth
    <3>4. Refers(fr) /\ Kind(fr.id) \in {"const", "struct"} => fr.id \notin DOMAIN value'
      BY <3>1, <3>2
    <3> QED
      BY <3>3, <3>4, FrameTrueStays
  <2> QED
    BY <2>1, <2>2
<1>3. \A i \in 1 .. n : FrameTrue(stack[i])'
  BY <1>2
<1>4. ASSUME NEW id \in linked'
      PROVE  \/ OnStack(id)'
             \/ id \in Known /\ Complete(id)'
             \/ id \in ModuleIds /\ AllEntered(id[1], <<>>)'
  <2>0. CASE OnStack(id)'
    BY <2>0
  <2>1. CASE id \in linked /\ ~OnStack(id)
    <3>1. CASE id \in Known /\ Complete(id)
      BY <3>1, CompleteStays
    <3>2. CASE id \in ModuleIds /\ AllEntered(id[1], <<>>)
      <4>1. PICK file : file = id[1]
        OBVIOUS
      <4>2. AllEntered(file, <<>>)'
        BY <3>2, <4>1, AllEnteredStays
      <4> QED
        BY <3>2, <4>1, <4>2
    <3> QED
      BY <2>1, <3>1, <3>2 DEF Truth
  <2>2. CASE id \in linked /\ OnStack(id)
    BY <2>2
  <2> QED
    BY <2>0, <2>1, <2>2
<1>5. ASSUME NEW id \in DOMAIN value' PROVE Complete(id)'
  <2>1. CASE id \in DOMAIN value
    BY <2>1, CompleteStays DEF Truth, Steady, Tables
  <2> QED
    BY <2>1
<1> QED
  BY <1>1, <1>3, <1>4, <1>5 DEF Truth

(* A frame that was misled is so until it throws.                          *)
LEMMA MisledStays ==
  ASSUME Ready, Ready', UNCHANGED trees, NEW fr, FrameFormed(fr), Misled(fr)
  PROVE  Misled(fr)'
<1>1. PICK call, x : call = Head(fr.todo) /\ x = Target(fr.id, call)
  OBVIOUS
<1>2. Target(fr.id, Head(fr.todo))' = Target(fr.id, Head(fr.todo))
  BY FormStays DEF Misled
<1>3. Role(x)' = Role(x)
  BY TargetsStay
<1>4. Target(fr.id, call)' = x
  BY <1>1, <1>2
<1> QED
  BY <1>1, <1>3, <1>4 DEF Misled

LEMMA DoomedAfter ==
  ASSUME Ready, Ready', UNCHANGED trees, Formed, Doomed, NEW l \in Nat, DOMAIN stack = 1 .. l,
         \A i \in 1 .. l - 1 : i \in DOMAIN stack' /\ stack'[i] = stack[i],
         Misled(stack[l]) => l \in DOMAIN stack' /\ stack'[l] = stack[l]
  PROVE  Doomed'
<1>1. PICK i \in 1 .. l : Misled(stack[i])
  BY DEF Doomed
<1>2. i \in DOMAIN stack' /\ stack'[i] = stack[i]
  <2>1. CASE i = l
    BY <1>1, <2>1
  <2>2. CASE i # l
    <3>1. i \in 1 .. l - 1
      BY <2>2
    <3> QED
      BY <3>1
  <2> QED
    BY <2>1, <2>2
<1>3. PICK fr : fr = stack[i]
  OBVIOUS
<1>4. FrameFormed(fr) /\ Misled(fr)
  BY <1>1, <1>3 DEF Formed
<1>5. Misled(fr)' /\ fr = stack'[i]
  BY <1>2, <1>3, <1>4, MisledStays
<1> QED
  BY <1>2, <1>5 DEF Doomed

(* What is to be shown of a step of link that does not throw.              *)
LEMMA InLink ==
  ASSUME LinkInv, phase = "link"
  PROVE  /\ Ready /\ Serving /\ Tables /\ Formed /\ (Doomed \/ Truth) /\ IsStack
         /\ stack # <<>> /\ Len(stack) \in Nat /\ Len(stack) >= 1
         /\ DOMAIN stack = 1 .. Len(stack) /\ Len(stack) \in DOMAIN stack
         /\ Top = stack[Len(stack)] /\ FrameFormed(Top) /\ Module(Entry) \in linked
         /\ \A i \in DOMAIN stack : FrameFormed(stack[i]) /\ Links(stack[i])
<1>1. /\ CompileInv /\ Live /\ Listing /\ Serving /\ Tables /\ Module(Entry) \in linked
      /\ Formed /\ (Doomed \/ Truth)
  BY DEF LinkInv, Live
<1>2. IsStack /\ stack # <<>> /\ \A i \in DOMAIN stack : Links(stack[i])
  BY <1>1 DEF CompileInv, StackInv, Running, Busy
<1>3. /\ Len(stack) \in Nat /\ Len(stack) >= 1 /\ DOMAIN stack = 1 .. Len(stack)
      /\ Len(stack) \in DOMAIN stack /\ Top = stack[Len(stack)]
  BY <1>2, TopAndBelow
<1>4. \A i \in DOMAIN stack : FrameFormed(stack[i])
  BY <1>1 DEF Formed
<1>5. FrameFormed(Top)
  BY <1>3, <1>4
<1> QED
  BY <1>1, <1>2, <1>3, <1>4, <1>5 DEF Ready

LEMMA ListingStays ==
  ASSUME Ready, CompileInv', phase' \in {"link", "done"}, UNCHANGED <<trees, memo, models>>
  PROVE  Ready'
<1>1. /\ \A file, m : Passed(file, m) <=> file \in memo
      /\ \A file, m : Passed(file, m)' <=> file \in memo
  BY AllPassed, NonePassedLater DEF Ready, CompileInv
<1>2. /\ \A file : Source(file)' = Source(file) /\ Defs(file)' = Defs(file)
      /\ \A file, m, k : EntryFor(file, m, k)' = EntryFor(file, m, k)
      /\ Known' = Known
  BY ProgramStays, KnownStays DEF trees
<1>3. \A file, entry : Heard(file, entry) => Heard(file, entry)'
  BY <1>1, <1>2 DEF Heard
<1>4. \A entry : Bequeathed(entry) => Bequeathed(entry)'
  BY <1>2 DEF Bequeathed
<1>5. Listing'
  BY <1>1, <1>2, <1>3, <1>4 DEF Ready, Listing
<1> QED
  BY <1>5 DEF Ready

LEMMA ServingStays ==
  ASSUME Ready, CompileInv', phase' \in {"link", "done"}, UNCHANGED <<trees, memo, functions>>, Serving
  PROVE  Serving'
<1>1. /\ \A file, m : Passed(file, m) <=> file \in memo
      /\ \A file, m : Passed(file, m)' <=> file \in memo
  BY AllPassed, NonePassedLater DEF Ready, CompileInv
<1>2. /\ \A file : Source(file)' = Source(file) /\ Defs(file)' = Defs(file)
      /\ \A file, m, kind : Is(file, m, kind)' = Is(file, m, kind)
      /\ Known' = Known
  BY ProgramStays, KnownStays DEF trees
<1>3. \A file, m : ServiceId(file, m)' = ServiceId(file, m)
  BY <1>2 DEF ServiceId
<1> QED
  BY <1>1, <1>2, <1>3 DEF Serving

-----------------------------------------------------------------------------
(* What a frame is after a call returned to it.                            *)
LEMMA RefGoesOn ==
  ASSUME Ready, NEW fr, FrameFormed(fr), FrameTrue(fr), Refers(fr), IsRef(fr),
         NEW next, next.op = fr.op, next.id = fr.id, next.todo = Tail(fr.todo),
         NEW x, next.got = Append(fr.got, x), RefDone(fr.id, Head(fr.todo)),
         GivenRight(fr.id, Head(fr.todo), x),
         Sound(fr.id) => x = Meaning(fr.id, Head(fr.todo)) /\ Held(fr.id, Head(fr.todo))
  PROVE  FrameTrue(next)
<1>1. Listed(fr.got) /\ Len(fr.got) \in Nat /\ fr.op = "link"
  BY Position DEF FrameFormed, Refers
<1>2. /\ Len(next.got) = Len(fr.got) + 1 /\ next.got[Len(fr.got) + 1] = x
      /\ \A j \in 1 .. Len(fr.got) : next.got[j] = fr.got[j]
  BY <1>1, OneMore
<1>3. /\ Refers(next) /\ fr.id \notin ModuleIds
      /\ Head(fr.todo) = Refs(Def(fr.id))[Len(fr.got) + 1]
  BY NotModules DEF Refers, IsRef, At
<1>4. ASSUME NEW j \in 1 .. Len(next.got)
      PROVE  LET ref == Refs(Def(next.id))[j] IN
             /\ RefDone(next.id, ref)
             /\ GivenRight(next.id, ref, next.got[j])
             /\ Sound(next.id) => next.got[j] = Meaning(next.id, ref) /\ Held(next.id, ref)
  <2>1. CASE j = Len(fr.got) + 1
    BY <1>2, <1>3, <2>1
  <2>2. CASE j # Len(fr.got) + 1
    <3>1. j \in 1 .. Len(fr.got)
      BY <1>1, <1>2, <2>2
    <3> QED
      BY <1>2, <3>1 DEF FrameTrue
  <2> QED
    BY <2>1, <2>2
<1>5. Checked(next.id, next.todo) => ~Unfit(next.id)
  BY DEF IsRef, FrameTrue
<1>6. Kind(next.id) \in {"const", "struct"} => next.id \notin DOMAIN value
  BY DEF FrameTrue
<1> QED
  BY <1>1, <1>3, <1>4, <1>5, <1>6 DEF FrameTrue

LEMMA CheckGoesOn ==
  ASSUME NEW fr, FrameTrue(fr), Refers(fr), ~Unfit(fr.id),
         NEW next, next.op = fr.op, next.id = fr.id, next.todo = Tail(fr.todo),
         next.got = fr.got
  PROVE  FrameTrue(next)
<1>1. Refers(next) /\ fr.id \notin ModuleIds /\ fr.op = "link"
  BY NotModules DEF Refers
<1> QED
  BY <1>1 DEF FrameTrue

LEMMA OwnGoesOn ==
  ASSUME Ready, NEW fr, FrameFormed(fr), FrameTrue(fr), ~Refers(fr), fr.todo # <<>>,
         ReturnsAtOnce(Head(fr.todo).id),
         NEW next, next.op = fr.op, next.id = fr.id, next.todo = Tail(fr.todo)
  PROVE  FrameTrue(next)
<1>1. ~Refers(next)
  BY DEF Refers
<1>2. next.op = "functions" =>
        \A ref \in Range(Refs(Def(next.id))) : RefDone(next.id, ref)
  BY DEF FrameTrue
<1>3. ASSUME next.id \in ModuleIds PROVE AllEntered(next.id[1], next.todo)
  <2>1. AllEntered(fr.id[1], fr.todo)
    BY <1>3 DEF FrameTrue
  <2>2. \A call \in Range(fr.todo) : call = Head(fr.todo) \/ call \in Range(Tail(fr.todo))
    BY OwnFrames, HeadIn
  <2> QED
    BY <2>1, <2>2 DEF AllEntered
<1> QED
  BY <1>1, <1>2, <1>3 DEF FrameTrue

(* A step that changes the frame at the top alone.                         *)
LEMMA TopChanges ==
  ASSUME LinkInv, phase = "link", Ready', Serving', IsStack',
         UNCHANGED <<trees, phase, linked, value, consts>>, DOMAIN stack' = DOMAIN stack,
         \A i \in 1 .. Len(stack) - 1 : stack'[i] = stack[i],
         NEW next, next = stack'[Len(stack)], next.id = Top.id, FrameFormed(next),
         Misled(Top) => next = Top, ~Doomed /\ Truth => FrameTrue(next)
  PROVE  LinkInv'
<1>1. /\ Ready /\ Tables /\ Formed /\ (Doomed \/ Truth) /\ Top = stack[Len(stack)]
      /\ FrameFormed(Top) /\ Module(Entry) \in linked
  BY InLink
<1>2. PICK l : l = Len(stack)
  OBVIOUS
<1>3. /\ DOMAIN stack' = 1 .. l /\ l \in Nat /\ l >= 1 /\ next.id = Top.id
      /\ next = stack'[l] /\ Top = stack[l] /\ DOMAIN stack = 1 .. l
      /\ \A i \in 1 .. l - 1 : stack'[i] = stack[i] /\ i \in DOMAIN stack
  BY <1>1, <1>2, InLink
<1>4. phase' = "link" /\ UNCHANGED trees
  BY DEF trees
<1>6. Tables' /\ Module(Entry) \in linked'
  <2>1. /\ Known' = Known /\ Linkable' = Linkable
        /\ \A id : Kind(id)' = Kind(id) /\ Def(id)' = Def(id)
    BY <1>4, KnownStays, KindStays DEF trees
  <2> QED
    BY <1>1, <2>1 DEF Tables, trees
<1>7. Keeps
  BY DEF Keeps, KeepsConst
<1>8. Steady
  BY <1>1, <1>4, <1>7 DEF Steady
<1>9. Formed'
  <2>1. l > 1 => Calls(stack[l - 1], next.id)
    BY <1>1, <1>3 DEF Formed
  <2>3. l \in Nat /\ DOMAIN stack' = 1 .. l
        /\ (\A i \in 1 .. l - 1 : i \in DOMAIN stack /\ stack'[i] = stack[i])
        /\ (l >= 1 => next = stack'[l] /\ FrameFormed(next))
    BY <1>3
  <2> QED
    BY <1>1, <1>4, <2>1, <2>3, FormedAfter
<1>10. Doomed' \/ Truth'
  <2>1. ASSUME Doomed PROVE Doomed'
    <3>1. \A i \in 1 .. l - 1 : i \in DOMAIN stack' /\ stack'[i] = stack[i]
      BY <1>3
    <3>2. Misled(stack[l]) => l \in DOMAIN stack' /\ stack'[l] = stack[l]
      BY <1>3
    <3> QED
      BY <1>1, <1>3, <1>4, <2>1, <3>1, <3>2, DoomedAfter
  <2>2. ASSUME ~Doomed, Truth PROVE Truth'
    <3>1. FrameTrue(next)'
      <4>1. FrameTrue(next)
        BY <2>2
      <4>2. Refers(next) /\ Kind(next.id) \in {"const", "struct"} => next.id \notin DOMAIN value'
        BY <4>1 DEF FrameTrue
      <4> QED
        BY <1>8, <4>1, <4>2, FrameTrueStays
    <3>2. \A i \in 1 .. l - 1 : (Refers(stack[i]) /\ Kind(stack[i].id) \in {"const", "struct"}) =>
                                    stack[i].id \notin DOMAIN value'
      BY <1>3, <2>2 DEF Truth, FrameTrue
    <3>3. \A id : OnStack(id) => OnStack(id)'
      <4>1. \A i \in 1 .. l : stack'[i].id = stack[i].id
        <5>1. \A i \in 1 .. l : i = l \/ i \in 1 .. l - 1
          BY <1>3
        <5> QED
          BY <1>3, <5>1
      <4> QED
        BY <1>3, <4>1 DEF OnStack
    <3>5. /\ \A i \in 1 .. l - 1 : i \in DOMAIN stack /\ stack'[i] = stack[i]
          /\ l >= 1 => next = stack'[l] /\ FrameTrue(next)'
      BY <1>3, <3>1
    <3> QED
      BY <1>1, <1>3, <1>8, <2>2, <3>2, <3>3, <3>5, TruthAfter
  <2> QED
    BY <1>1, <2>1, <2>2
<1> QED
  BY <1>4, <1>6, <1>9, <1>10 DEF LinkInv, Ready

(* A step after which the frame at the top goes on.                        *)
GoesOn == /\ UNCHANGED <<trees, phase, memo, models, linked, value, functions, consts>>
          /\ \E got : stack' = GoOn(got)

LEMMA GoingOn ==
  ASSUME LinkInv, phase = "link", CompileInv', GoesOn,
         NEW next, next = stack'[Len(stack)], FrameFormed(next), ~Misled(Top),
         ~Doomed /\ Truth => FrameTrue(next)
  PROVE  LinkInv'
<1>1. Ready /\ Serving /\ IsStack /\ stack # <<>>
  BY InLink
<1>2. /\ IsStack' /\ DOMAIN stack' = DOMAIN stack /\ next.id = Top.id
      /\ \A i \in 1 .. Len(stack) - 1 : stack'[i] = stack[i]
  BY <1>1, FramesGoOn DEF GoesOn
<1>3. Ready' /\ Serving'
  BY <1>1, ListingStays, ServingStays DEF GoesOn
<1>4. UNCHANGED <<trees, phase, linked, value, consts>>
  BY DEF GoesOn
<1> QED
  BY <1>2, <1>3, <1>4, TopChanges

(* Thrown out of it all, there is nothing to be said.                      *)
LEMMA Thrown0 ==
  ASSUME NEW how \in {"duplicate", "failed", "overflow"}, Throw(how), CompileInv'
  PROVE  LinkInv'
BY DEF Throw, LinkInv, Live

LEMMA NextFrame ==
  ASSUME IsStack, stack # <<>>, NEW got, stack' = GoOn(got)
  PROVE  /\ stack'[Len(stack)].op = Top.op /\ stack'[Len(stack)].id = Top.id
         /\ stack'[Len(stack)].todo = Tail(Top.todo) /\ stack'[Len(stack)].got = got
<1> DEFINE fr == [op |-> Top.op, id |-> Top.id, todo |-> Tail(Top.todo), got |-> got]
<1>1. IsFrame(fr) /\ stack' = Resume(fr)
  BY DEF IsFrame, GoOn
<1>2. stack'[Len(stack)] = fr
  BY <1>1, Resumed
<1> QED
  BY <1>2

LEMMA ResolveNothingSolves ==
  ASSUME LinkInv, ResolveNothing, CompileInv' PROVE LinkInv'
<1>1. phase = "link" /\ Top.todo # <<>> /\ NamesNothing(Head(Top.todo))
  BY DEF ResolveNothing, Linking
<1>2. /\ Ready /\ Formed /\ FrameFormed(Top) /\ IsStack /\ stack # <<>>
      /\ Len(stack) \in DOMAIN stack /\ Top = stack[Len(stack)]
  BY <1>1, InLink
<1>3. PICK next : next = stack'[Len(stack)]
  OBVIOUS
<1>4. /\ stack' = GoOn(Append(Top.got, Nothing))
      /\ GoesOn
  BY DEF ResolveNothing, GoesOn
<1>5. /\ next.op = Top.op /\ next.id = Top.id /\ next.todo = Tail(Top.todo)
      /\ next.got = Append(Top.got, Nothing)
  BY <1>2, <1>3, <1>4, NextFrame
<1>6. PICK fr : fr = Top
  OBVIOUS
<1>7. Head(fr.todo) # Check /\ Head(fr.todo).role \in {"value", "type"} /\ Head(fr.todo).path = Null
  BY <1>1, <1>6 DEF NamesNothing, Check
<1>8. Refers(fr)
  <2>1. ~Refers(fr) => OwnCall(Head(fr.todo))
    BY <1>1, <1>2, <1>6, OwnFrames, HeadIn
  <2> QED
    BY <1>7, <2>1 DEF OwnCall, Own
<1>9. IsRef(fr) /\ Kind(fr.id) # "service"
  BY <1>1, <1>2, <1>6, <1>7, <1>8, Position DEF IsCheck, IsRef, RefOf
<1>10. FrameFormed(next)
  BY <1>1, <1>2, <1>5, <1>6, <1>7, <1>9, NextForm
<1>11. ~Misled(Top)
  BY <1>1 DEF Misled
<1>12. ASSUME ~Doomed, Truth PROVE FrameTrue(next)
  <2>1. FrameTrue(fr)
    BY <1>2, <1>6, <1>12 DEF Truth
  <2>2. RefDone(fr.id, Head(fr.todo)) /\ Held(fr.id, Head(fr.todo))
        /\ Meaning(fr.id, Head(fr.todo)) = Nothing
        /\ GivenRight(fr.id, Head(fr.todo), Nothing)
    BY <1>7 DEF RefDone, Held, Meaning, GivenRight
  <2> QED
    BY <1>2, <1>5, <1>6, <1>8, <1>9, <2>1, <2>2, RefGoesOn
<1> QED
  BY <1>1, <1>3, <1>4, <1>10, <1>11, <1>12, GoingOn

(* What a struct sees when it checks its fields.                           *)
LEMMA CheckSees ==
  ASSUME Ready, NEW fr, FrameFormed(fr), FrameTrue(fr), Refers(fr),
         fr.todo # <<>>, Head(fr.todo) = Check
  PROVE  /\ Kind(fr.id) = "struct"
         /\ Without(fr.id, AlwaysNull) \subseteq WithoutValue(Def(fr.id), fr.got)
         /\ WithoutValue(Def(fr.id), fr.got) \subseteq Without(fr.id, MaybeNull)
<1> DEFINE id == fr.id
           refs == Refs(Def(id))
           n == Len(Def(id).fields)
<1>1. IsCheck(fr) /\ id \in Known
  BY Position DEF IsRef, Refers
<1>2. Kind(id) = "struct" /\ Len(fr.got) = n
  BY <1>1 DEF IsCheck
<1>3. StructTodo(Def(id)) /\ Listed(refs)
  BY <1>1, <1>2, RefsOf DEF Ready
<1>4. /\ n \in Nat /\ DOMAIN Def(id).fields = 1 .. n /\ Len(refs) = 2 * n
      /\ \A i \in 1 .. n : refs[i].role = "value"
  BY <1>3 DEF StructTodo
<1>5. \A i \in 1 .. n : i \in DOMAIN refs
  BY <1>3, <1>4, ItemsOf
<1>6. ASSUME NEW i \in 1 .. n
      PROVE  /\ GivenRight(id, refs[i], fr.got[i]) /\ RefDone(id, refs[i])
             /\ Targets(id)[i] = RefTarget(id, refs[i])
  <2>1. i \in 1 .. Len(fr.got)
    BY <1>2
  <2>2. GivenRight(id, refs[i], fr.got[i]) /\ RefDone(id, refs[i])
    BY <2>1 DEF FrameTrue
  <2> QED
    BY <1>5, <2>2 DEF Targets
<1>7. ASSUME NEW i \in 1 .. n, NEW ref, ref = refs[i]
      PROVE  /\ Targets(id)[i] \in AlwaysNull \cup {Null} => fr.got[i] = Nothing
             /\ fr.got[i] = Nothing => Targets(id)[i] \in MaybeNull \cup {Null}
  <2>1. GivenRight(id, ref, fr.got[i]) /\ RefDone(id, ref) /\ Targets(id)[i] = RefTarget(id, ref)
        /\ ref.role = "value"
    BY <1>4, <1>6, <1>7
  <2>2. ref.path = Null <=> RefTarget(id, ref) = Null
    BY <2>1 DEF RefDone, RefTarget
  <2> HIDE DEF id
  <2>3. CASE ref.path = Null
    BY <2>1, <2>2, <2>3 DEF GivenRight
  <2>4. CASE ref.path # Null
    BY <1>2, <2>1, <2>2, <2>4 DEF GivenRight, id
  <2> QED
    BY <2>3, <2>4
<1> QED
  BY <1>2, <1>4, <1>7 DEF Without, WithoutValue

LEMMA RefusedMore ==
  ASSUME NEW def, NEW without, NEW more, without \subseteq more, Refused(def, without)
  PROVE  Refused(def, more)
BY DEF Refused

LEMMA CheckFieldsSolves ==
  ASSUME LinkInv, CheckFields, CompileInv' PROVE LinkInv'
<1>1. phase = "link" /\ Top.todo # <<>> /\ Head(Top.todo) = Check
  BY DEF CheckFields, Linking
<1>2. /\ Ready /\ Formed /\ FrameFormed(Top) /\ IsStack /\ stack # <<>>
      /\ Len(stack) \in DOMAIN stack /\ Top = stack[Len(stack)]
  BY <1>1, InLink
<1>3. CASE Throw("failed")
  BY <1>3, Thrown0
<1>4. CASE ~Refused(Def(Top.id), WithoutValue(Def(Top.id), Top.got)) /\ stack' = GoOn(Top.got) /\ GoesOn
  <2>1. PICK next, fr : next = stack'[Len(stack)] /\ fr = Top
    OBVIOUS
  <2>2. /\ next.op = fr.op /\ next.id = fr.id /\ next.todo = Tail(fr.todo)
        /\ next.got = fr.got
    BY <1>2, <1>4, <2>1, NextFrame
  <2>3. Refers(fr)
    <3>1. ~Refers(fr) => OwnCall(Head(fr.todo))
      BY <1>1, <1>2, <2>1, OwnFrames, HeadIn
    <3> QED
      BY <1>1, <2>1, <3>1 DEF OwnCall, Own, Check
  <2>4. FrameFormed(next)
    BY <1>1, <1>2, <2>1, <2>2, NextForm
  <2>5. ~Misled(Top)
    BY <1>1 DEF Misled
  <2>6. ASSUME ~Doomed, Truth PROVE FrameTrue(next)
    <3>1. FrameTrue(fr)
      BY <1>2, <2>1, <2>6 DEF Truth
    <3>2. Without(fr.id, AlwaysNull) \subseteq WithoutValue(Def(fr.id), fr.got)
      BY <1>1, <1>2, <2>1, <2>3, <3>1, CheckSees
    <3>3. ~Unfit(fr.id)
      BY <1>4, <2>1, <3>2, RefusedMore DEF Unfit
    <3> QED
      BY <2>2, <2>3, <3>1, <3>3, CheckGoesOn
  <2> QED
    BY <1>1, <1>4, <2>1, <2>4, <2>5, <2>6, GoingOn
<1> QED
  BY <1>3, <1>4 DEF CheckFields, GoesOn

(* A step upwards from one const to the next, where none is misled.        *)

LEMMA ConstCallsConst ==
  ASSUME Ready, NEW fr, FrameFormed(fr), Refers(fr), Kind(fr.id) = "const", ~Misled(fr),
         NEW id, Calls(fr, id)
  PROVE  fr.id \in Consts /\ id \in Values(fr.id) /\ Kind(id) = "const"
<1>1. PICK call : call = Head(fr.todo)
  OBVIOUS
<1>2. /\ fr.todo # <<>> /\ call # Check /\ ~NamesNothing(call) /\ id = Target(fr.id, call)
  BY <1>1 DEF Calls
<1>3. IsNamed(fr, call)
  BY <1>1, <1>2, CallIs DEF IsOwn
<1>4. IsRef(fr) /\ id = RefTarget(fr.id, call)
  BY <1>2, <1>3 DEF IsNamed
<1>5. call.role = "value"
  BY <1>1, <1>4 DEF IsRef, RefOf, Roles
<1>6. Role(id) = "value"
  <2>1. call.role \in {"own", Role(Target(fr.id, call))}
    <3>1. /\ fr.todo # <<>> /\ Head(fr.todo) # Check /\ ~NamesNothing(Head(fr.todo))
          /\ ~Misled(fr)
      BY <1>1, <1>2
    <3>2. ~(Head(fr.todo).role \notin {"own", Role(Target(fr.id, Head(fr.todo)))})
      BY <3>1, Zenon DEF Misled
    <3> QED
      BY <1>1, <3>2
  <2>2. call.role # "own"
    BY <1>5
  <2> QED
    BY <1>2, <1>5, <2>1, <2>2
<1>7. Kind(id) = "const"
  BY <1>6 DEF Role
<1>8. PICK n \in 1 .. Len(Refs(Def(fr.id))) : call = Refs(Def(fr.id))[n]
  BY <1>1, <1>4 DEF IsRef
<1>9. Listed(Refs(Def(fr.id))) /\ fr.id \in Known
  BY RefsOf DEF Ready, Refers
<1>10. DOMAIN Refs(Def(fr.id)) = 1 .. Len(Refs(Def(fr.id)))
  BY <1>9, ItemsOf
<1>11. id \in Values(fr.id)
  <2>1. Targets(fr.id)[n] = RefTarget(fr.id, call)
    BY <1>8, <1>10 DEF Targets
  <2> QED
    BY <1>4, <1>5, <1>8, <1>10, <2>1 DEF Values
<1>12. Refs(Def(fr.id)) # <<>>
  BY <1>8, <1>9
<1>13. fr.id \in Ids
  BY <1>9, IdsAreKnown
<1> QED
  BY <1>7, <1>11, <1>12, <1>13 DEF Consts

(* Numbers one by one: what holds of i and of each that follows one of     *)
(* which it holds, holds up to l.                                          *)
Smaller == {pair \in Nat \X Nat : pair[1] < pair[2]}

LEMMA UpTo ==
  ASSUME NEW i \in Nat, NEW l \in Nat, NEW T \in SUBSET (i .. l), i \in T,
         \A j \in T : j < l => j + 1 \in T
  PROVE  T = i .. l
<1> SUFFICES ASSUME (i .. l) \ T # {} PROVE FALSE
  OBVIOUS
<1>1. IsWellFoundedOn(Smaller, Nat)
  BY NatLessThanWellFounded DEF OpToRel, Smaller
<1>2. PICK m \in (i .. l) \ T : \A k \in (i .. l) \ T : ~ (<<k, m>> \in Smaller)
  <2>1. (i .. l) \ T \in SUBSET Nat
    OBVIOUS
  <2> QED
    BY <1>1, <2>1, WFMin
<1>3. m - 1 \in T
  <2>1. m # i /\ m - 1 \in i .. l
    OBVIOUS
  <2>2. <<m - 1, m>> \in Smaller
    BY <2>1 DEF Smaller
  <2> QED
    BY <1>2, <2>1, <2>2
<1> QED
  BY <1>3

(* A const that is referred to from above it on the stack has no value:    *)
(* the consts from there on name one another in a circle.                  *)
LEMMA CircleCloses ==
  ASSUME LinkInv, phase = "link", ~Doomed, Truth, NEW fr, fr = Top, Refers(fr),
         NEW id, Calls(fr, id), Kind(id) = "const", id \in linked, id \notin DOMAIN value,
         id \in Values(fr.id)
  PROVE  ~Sound(fr.id) /\ fr.id \in Consts
<1>1. /\ Ready /\ Formed /\ Tables /\ Len(stack) \in Nat /\ DOMAIN stack = 1 .. Len(stack)
      /\ Len(stack) \in DOMAIN stack /\ fr = stack[Len(stack)]
      /\ \A j \in DOMAIN stack : FrameFormed(stack[j])
  BY InLink
<1>2. PICK l \in Nat : l = Len(stack)
  BY <1>1
<1>3. PICK i \in 1 .. l : stack[i].id = id
  <2>1. id \in Known => ~Complete(id)
    BY DEF Complete, Valuable
  <2>2. id \notin ModuleIds
    BY Modules DEF ModuleIds
  <2>3. OnStack(id)
    BY <2>1, <2>2 DEF Truth
  <2> QED
    BY <1>1, <1>2, <2>3 DEF OnStack
<1>4. \A j \in 1 .. l : stack[j].id \notin ModuleIds => stack[j].id \in Known
  BY <1>1, <1>2 DEF FrameFormed, Linkable
<1>5. \A j \in 1 .. l : Kind(stack[j].id) = "const" => Refers(stack[j])
  <2>1. \A x \in ModuleIds : Kind(x) # "const"
    BY Modules DEF ModuleIds
  <2>2. \A j \in 1 .. l : stack[j].op = "link" \/ Kind(stack[j].id) = "service"
    BY <1>1, <1>2 DEF FrameFormed
  <2> QED
    BY <1>4, <2>1, <2>2 DEF Refers
<1>6. ASSUME NEW j \in 1 .. l - 1, Kind(stack[j].id) = "const"
      PROVE  /\ stack[j].id \in Consts /\ stack[j + 1].id \in Values(stack[j].id)
             /\ Kind(stack[j + 1].id) = "const"
  <2>1. PICK lower, next : lower = stack[j] /\ next = stack[j + 1].id
    OBVIOUS
  <2>2. j \in 1 .. l /\ j + 1 \in 1 .. l /\ j + 1 > 1 /\ (j + 1) - 1 = j
    OBVIOUS
  <2>3. Calls(stack[(j + 1) - 1], stack[j + 1].id)
    BY <1>1, <1>2, <2>2 DEF Formed
  <2>4. Calls(lower, next)
    BY <2>1, <2>2, <2>3
  <2>5. FrameFormed(lower) /\ Refers(lower) /\ ~Misled(lower) /\ Kind(lower.id) = "const"
    BY <1>1, <1>2, <1>5, <1>6, <2>1, <2>2 DEF Doomed
  <2> QED
    BY <1>1, <2>1, <2>4, <2>5, ConstCallsConst
<1> DEFINE T == {j \in i .. l : Kind(stack[j].id) = "const"}
<1>7. T = i .. l
  <2>1. i \in T /\ i \in Nat /\ T \in SUBSET (i .. l)
    BY <1>3
  <2>2. \A j \in T : j < l => j + 1 \in T
    BY <1>6
  <2> HIDE DEF T
  <2> QED
    BY <2>1, <2>2, UpTo
<1>8. \A j \in i .. l : Kind(stack[j].id) = "const"
  BY <1>7
<1>9. fr.id \in Consts
  <2>1. FrameFormed(fr) /\ ~Misled(fr) /\ Kind(fr.id) = "const"
    BY <1>1, <1>2, <1>8 DEF Doomed
  <2> QED
    BY <1>1, <2>1, ConstCallsConst
<1> DEFINE S == {stack[j].id : j \in i .. l}
<1>10. \A x \in S : x \in Consts /\ Values(x) \cap S # {}
  <2> SUFFICES ASSUME NEW j \in i .. l
               PROVE  stack[j].id \in Consts /\ Values(stack[j].id) \cap S # {}
    OBVIOUS
  <2>1. CASE j = l
    BY <1>1, <1>2, <1>3, <1>9, <2>1
  <2>2. CASE j # l
    <3>1. j \in 1 .. l - 1 /\ j + 1 \in i .. l
      BY <2>2
    <3> QED
      BY <1>6, <1>8, <3>1
  <2> QED
    BY <2>1, <2>2
<1>11. id \in S
  BY <1>3
<1> HIDE DEF S
<1>12. id \in Circular
  BY <1>10, <1>11 DEF Circular
<1> QED
  BY <1>9, <1>12 DEF Sound

(* What a reference that returns gives the one who refers.                 *)
LEMMA ReferenceGiven ==
  ASSUME LinkInv, phase = "link", ~Doomed, Truth, NEW fr, fr = Top,
         NEW call, call = Head(fr.todo), NEW target, Calls(fr, target),
         IsNamed(fr, call), target # Null, ReturnsAtOnce(target), call.role = Role(target)
  PROVE  /\ RefDone(fr.id, call)
         /\ Meaning(fr.id, call) = Result(target)
         /\ Sound(fr.id) => Held(fr.id, call)
         /\ GivenRight(fr.id, call, Result(target))
<1>1. /\ target = RefTarget(fr.id, call) /\ call.path # Null /\ Refers(fr)
      /\ fr.id \in Known /\ IsRef(fr)
  BY DEF IsNamed, Calls, Refers
<1>2. RefDone(fr.id, call) /\ Meaning(fr.id, call) = Result(target)
  BY <1>1 DEF RefDone, Meaning
<1>3. ASSUME Kind(target) = "const"
      PROVE  target \in DOMAIN value \/ (~Sound(fr.id) /\ fr.id \in Consts)
  <2>1. target \in linked
    BY <1>3 DEF ReturnsAtOnce
  <2>2. target \in Values(fr.id)
    <3>1. call.role = "value"
      BY <1>3 DEF Role
    <3>2. PICK n \in 1 .. Len(Refs(Def(fr.id))) : call = Refs(Def(fr.id))[n]
      BY <1>1 DEF IsRef
    <3>3. DOMAIN Refs(Def(fr.id)) = 1 .. Len(Refs(Def(fr.id)))
      <4>1. Listed(Refs(Def(fr.id)))
        BY <1>1, InLink, RefsOf DEF Ready
      <4> QED
        BY <4>1, ItemsOf
    <3>4. Targets(fr.id)[n] = target
      BY <1>1, <3>2, <3>3 DEF Targets
    <3> QED
      BY <3>1, <3>2, <3>3, <3>4 DEF Values
  <2> QED
    BY <1>1, <1>3, <2>1, <2>2, CircleCloses
<1>4. target \in DOMAIN value /\ Kind(target) = "const" => NullRight(target)
  BY DEF Truth, Complete
<1>5. ASSUME target \in AlwaysNull PROVE Result(target) = Nothing
  <2>1. Kind(target) = "const"
    BY <1>5 DEF AlwaysNull, Consts
  <2> QED
    BY <1>4, <1>5, <2>1 DEF Result, ValueOf, NullRight
<1>6. ASSUME Kind(fr.id) = "struct", call.role = "value", target \notin MaybeNull
      PROVE  Result(target) # Nothing
  <2>1. Role(target) = "value"
    BY <1>6
  <2>2. Kind(target) = "const"
    BY <2>1 DEF Role
  <2>3. fr.id \notin Consts
    BY <1>6 DEF Consts
  <2>4. target \in DOMAIN value
    BY <1>3, <2>2, <2>3
  <2> QED
    BY <1>4, <1>6, <2>2, <2>4 DEF Result, ValueOf, NullRight
<1>7. GivenRight(fr.id, call, Result(target))
  BY <1>1, <1>5, <1>6 DEF GivenRight
<1> QED
  BY <1>1, <1>2, <1>3, <1>7 DEF Held

LEMMA LinkReturnsSolves ==
  ASSUME LinkInv, LinkReturns, CompileInv' PROVE LinkInv'
<1>1. /\ phase = "link" /\ Top.todo # <<>> /\ Head(Top.todo) # Check
      /\ ~NamesNothing(Head(Top.todo))
  BY DEF LinkReturns, Calling, Linking
<1>2. /\ Ready /\ Formed /\ FrameFormed(Top) /\ IsStack /\ stack # <<>>
      /\ Len(stack) \in DOMAIN stack /\ Top = stack[Len(stack)]
  BY <1>1, InLink
<1>3. PICK fr, call, target :
        fr = Top /\ call = Head(fr.todo) /\ target = Target(fr.id, call)
  OBVIOUS
<1>4. /\ ~NotFound(call, target) /\ ReturnsAtOnce(target)
      /\ \/ call.role \notin {"own", Role(target)} /\ Throw("failed")
         \/ call.role \in {"own", Role(target)}
            /\ stack' = GoOn(Append(Top.got, Result(target))) /\ GoesOn
  BY <1>3 DEF LinkReturns, GoesOn
<1>5. CASE Throw("failed")
  BY <1>5, Thrown0
<1>6. CASE call.role \in {"own", Role(target)}
            /\ stack' = GoOn(Append(Top.got, Result(target))) /\ GoesOn
  <2>1. PICK next : next = stack'[Len(stack)]
    OBVIOUS
  <2>2. /\ next.op = fr.op /\ next.id = fr.id /\ next.todo = Tail(fr.todo)
        /\ next.got = Append(fr.got, Result(target))
    BY <1>2, <1>3, <1>6, <2>1, NextFrame
  <2>3. IsOwn(fr, call) \/ IsNamed(fr, call)
    BY <1>1, <1>2, <1>3, CallIs
  <2>4. ASSUME IsNamed(fr, call)
        PROVE  /\ Refers(fr) /\ IsRef(fr) /\ call.role = Role(target) /\ target # Null
               /\ target \in Linkable
    BY <1>3, <1>4, <1>6, <2>4 DEF IsNamed, IsRef, NotFound
  <2>5. FrameFormed(next)
    <3>1. ASSUME Refers(fr), Kind(fr.id) = "service"
          PROVE  Result(target) \in Known /\ Kind(Result(target)) = "service"
      <4>1. IsNamed(fr, call)
        BY <2>3, <3>1 DEF IsOwn
      <4>2. call.role = "service"
        BY <1>3, <2>4, <3>1, <4>1 DEF IsRef, RefOf, Roles
      <4>3. Kind(target) = "service"
        BY <2>4, <4>1, <4>2 DEF Role
      <4>4. target \in Known
        BY <2>4, <4>1, <4>3, Modules DEF Linkable, ModuleIds
      <4> QED
        BY <4>3, <4>4 DEF Result
    <3> QED
      BY <1>1, <1>2, <1>3, <2>2, <3>1, NextForm
  <2>6. ~Misled(Top)
    BY <1>3, <1>6 DEF Misled
  <2>7. ASSUME ~Doomed, Truth PROVE FrameTrue(next)
    <3>1. FrameTrue(fr) /\ FrameFormed(fr)
      BY <1>2, <1>3, <2>7 DEF Truth
    <3>2. CASE IsOwn(fr, call)
      <4>1. ~Refers(fr) /\ target = call.id
        BY <1>3, <3>2 DEF IsOwn
      <4>2. ReturnsAtOnce(Head(fr.todo).id) /\ fr.todo # <<>>
        BY <1>1, <1>3, <1>4, <4>1
      <4> QED
        BY <1>2, <2>2, <3>1, <4>1, <4>2, OwnGoesOn
    <3>3. CASE IsNamed(fr, call)
      <4>1. Calls(fr, target)
        BY <1>1, <1>3 DEF Calls
      <4>2. /\ RefDone(fr.id, call)
            /\ Meaning(fr.id, call) = Result(target)
            /\ Sound(fr.id) => Held(fr.id, call)
            /\ GivenRight(fr.id, call, Result(target))
        BY <1>1, <1>3, <1>4, <2>4, <2>7, <3>3, <4>1, ReferenceGiven
      <4> QED
        BY <1>2, <1>3, <2>2, <2>4, <3>1, <3>3, <4>2, RefGoesOn
    <3> QED
      BY <2>3, <3>2, <3>3
  <2> QED
    BY <1>1, <1>6, <2>1, <2>5, <2>6, <2>7, GoingOn
<1> QED
  BY <1>4, <1>5, <1>6

(* What is called is there to be linked, and its frame is true.            *)
LEMMA NewFrameTrue ==
  ASSUME Ready, NEW id \in Linkable, Kind(id) \in {"const", "struct"} => id \notin DOMAIN value,
         NEW fr, fr = Frame("link", id, Todo(id))
  PROVE  FrameTrue(fr)
<1>1. /\ ~Checked(fr.id, fr.todo) /\ fr.got = <<>> /\ fr.id = id /\ fr.op = "link"
      /\ fr.todo = Todo(id)
  BY NewForm, Frames
<1>2. ASSUME id \in ModuleIds PROVE AllEntered(id[1], Todo(id))
  <2>1. PICK file \in Reached : id = Module(file)
    BY <1>2 DEF ModuleIds
  <2>2. id[1] = file /\ Todo(id) = Names(file)
    BY <2>1, Modules DEF Todo
  <2> QED
    BY <2>2, NamesForm DEF AllEntered
<1>3. \A j \in 1 .. Len(fr.got) : FALSE
  BY <1>1
<1> QED
  BY <1>1, <1>2, <1>3 DEF FrameTrue

LEMMA CallLinkSolves ==
  ASSUME LinkInv, CallLink, CompileInv' PROVE LinkInv'
<1>1. /\ phase = "link" /\ Top.todo # <<>> /\ Head(Top.todo) # Check
      /\ ~NamesNothing(Head(Top.todo))
  BY DEF CallLink, Calling, Linking
<1>2. /\ Ready /\ Serving /\ Tables /\ Formed /\ (Doomed \/ Truth) /\ IsStack
      /\ stack # <<>> /\ FrameFormed(Top) /\ Top = stack[Len(stack)] /\ Module(Entry) \in linked
  BY <1>1, InLink
<1>3. PICK call, target : call = Head(Top.todo) /\ target = Target(Top.id, call)
  OBVIOUS
<1> DEFINE Enters == /\ ~NotFound(call, target) /\ ~ReturnsAtOnce(target)
                     /\ linked' = Entered(target)
                     /\ stack' = Append(stack, Frame("link", target, Todo(target)))
                     /\ UNCHANGED <<trees, phase, memo, models, value, functions, consts>>
<1>4. Throw("failed") \/ Throw("overflow") \/ Enters
  BY <1>3 DEF CallLink
<1>5. CASE Throw("failed") \/ Throw("overflow")
  BY <1>5, Thrown0
<1>6. CASE Enters
  <2>0. PICK l, fr : l = Len(stack) /\ fr = Frame("link", target, Todo(target))
    OBVIOUS
  <2>1. target \in Linkable
    <3>1. IsOwn(Top, call) \/ IsNamed(Top, call)
      BY <1>1, <1>2, <1>3, CallIs
    <3> QED
      BY <1>3, <1>6, <3>1 DEF IsOwn, IsNamed, IsRef, NotFound
  <2>2. /\ IsFrame(fr) /\ fr.id = target
    BY <2>0, Frames
  <2>3. /\ l \in Nat /\ DOMAIN stack = 1 .. l /\ DOMAIN stack' = 1 .. l + 1
        /\ stack'[l + 1] = fr /\ \A i \in 1 .. l : stack'[i] = stack[i]
    BY <1>2, <1>6, <2>0, <2>2, Pushed
  <2>4. l >= 1 /\ Top = stack[l]
    BY <1>2, <2>0, TopAndBelow
  <2>5. /\ phase' = "link" /\ UNCHANGED trees /\ UNCHANGED <<trees, memo, models>>
        /\ UNCHANGED <<trees, memo, functions>>
    BY <1>1, <1>6 DEF trees
  <2>6. Ready' /\ Serving'
    BY <1>2, <2>5, ListingStays, ServingStays
  <2>7. linked' \in {linked, linked \cup {target}}
        /\ (Kind(target) = "typedef" => linked' = linked)
    BY <1>6 DEF Entered
  <2>8. Tables' /\ Module(Entry) \in linked'
    <3>1. /\ Known' = Known /\ Linkable' = Linkable
          /\ \A id : Kind(id)' = Kind(id) /\ Def(id)' = Def(id)
      BY <2>5, KnownStays, KindStays DEF trees
    <3> QED
      BY <1>2, <1>6, <2>1, <2>5, <2>7, <3>1 DEF Tables, trees
  <2>9. Keeps
    BY <1>6, <2>7 DEF Keeps, KeepsConst
  <2>10. Steady
    BY <1>2, <2>5, <2>6, <2>9 DEF Steady
  <2>11. \A i \in 1 .. (l + 1) - 1 : i \in DOMAIN stack /\ stack'[i] = stack[i]
    BY <2>3
  <2>12. Formed'
    <3>1. FrameFormed(fr)
      BY <1>2, <2>0, <2>1, NewForm
    <3>2. l + 1 > 1 => Calls(stack[(l + 1) - 1], fr.id)
      BY <1>1, <1>3, <2>2, <2>3, <2>4 DEF Calls
    <3>3. /\ l + 1 \in Nat /\ DOMAIN stack' = 1 .. l + 1
          /\ l + 1 >= 1 => fr = stack'[l + 1] /\ FrameFormed(fr)
      BY <2>3, <3>1
    <3> QED
      BY <1>2, <2>5, <2>6, <2>11, <3>2, <3>3, FormedAfter
  <2>13. Doomed' \/ Truth'
    <3>1. ASSUME Doomed PROVE Doomed'
      <4>1. /\ \A i \in 1 .. l - 1 : i \in DOMAIN stack' /\ stack'[i] = stack[i]
            /\ l \in DOMAIN stack' /\ stack'[l] = stack[l]
        BY <2>3, <2>4
      <4> QED
        BY <1>2, <2>3, <2>5, <2>6, <3>1, <4>1, DoomedAfter
    <3>2. ASSUME Truth PROVE Truth'
      <4>1. FrameTrue(fr)'
        <5>1. FrameTrue(fr)
          <6>1. Kind(target) \in {"const", "struct"} => target \notin DOMAIN value
            BY <1>2, <1>6 DEF ReturnsAtOnce, Tables
          <6> QED
            BY <1>2, <2>0, <2>1, <6>1, NewFrameTrue
        <5>2. FrameFormed(fr)
          BY <1>2, <2>0, <2>1, NewForm
        <5>3. Refers(fr) /\ Kind(fr.id) \in {"const", "struct"} => fr.id \notin DOMAIN value'
          BY <1>6, <5>1 DEF FrameTrue
        <5> QED
          BY <2>10, <5>1, <5>2, <5>3, FrameTrueStays
      <4>2. \A i \in 1 .. (l + 1) - 1 :
                (Refers(stack[i]) /\ Kind(stack[i].id) \in {"const", "struct"}) =>
                    stack[i].id \notin DOMAIN value'
        BY <1>6, <2>3, <3>2 DEF Truth, FrameTrue
      <4>3. \A id : OnStack(id) => OnStack(id)'
        BY <2>3 DEF OnStack
      <4>4. \A id \in linked' : id \in linked \/ OnStack(id)'
        <5>1. OnStack(target)'
          <6>1. l + 1 \in DOMAIN stack' /\ stack'[l + 1].id = target
            BY <2>2, <2>3
          <6> QED
            BY <6>1 DEF OnStack
        <5> QED
          BY <2>7, <5>1
      <4>5. \A id \in DOMAIN value' : id \in DOMAIN value \/ Complete(id)'
        BY <1>6
      <4>6. l + 1 \in Nat /\ (l + 1 >= 1 => fr = stack'[l + 1] /\ FrameTrue(fr)')
        BY <2>3, <4>1
      <4> QED
        BY <1>2, <2>3, <2>10, <2>11, <3>2, <4>2, <4>3, <4>4, <4>5, <4>6, TruthAfter
    <3> QED
      BY <1>2, <3>1, <3>2
  <2> QED
    BY <2>5, <2>6, <2>8, <2>12, <2>13 DEF LinkInv, Ready
<1> QED
  BY <1>4, <1>5, <1>6

-----------------------------------------------------------------------------
(* The end of link of the frame at the top.                                *)
Ends(fr) ==
    /\ fr = Top /\ fr.todo = <<>> /\ ~(fr.op = "link" /\ Kind(fr.id) = "service")
    /\ value' = IF Kind(fr.id) \in Valuable
                THEN [id \in DOMAIN value \cup {fr.id} |->
                        IF id = fr.id THEN Made(Def(fr.id), fr.got) ELSE value[id]]
                ELSE value
    /\ consts' = IF Kind(fr.id) = "const"
                 THEN [consts EXCEPT ![fr.id[1]] =
                        [path \in DOMAIN consts[fr.id[1]] \cup {<<Def(fr.id).name>>} |->
                            IF path = <<Def(fr.id).name>> THEN Made(Def(fr.id), fr.got)
                            ELSE consts[fr.id[1]][path]]]
                 ELSE consts
    /\ stack' = Below /\ phase' \in {"link", "done"}
    /\ UNCHANGED <<trees, memo, models, linked, functions>>

LEMMA FinishEnds ==
  ASSUME Finish PROVE phase = "link" /\ Ends(Top)
<1>1. PICK fr : fr = Top
  OBVIOUS
<1>2. phase = "link" /\ phase' \in {"link", "done"}
  BY DEF Finish, Linking
<1>3. Kind(fr.id) = Def(fr.id).kind /\ File = fr.id[1]
  BY <1>1 DEF Kind, File
<1>4. value' = IF Kind(fr.id) \in Valuable
                THEN [id \in DOMAIN value \cup {fr.id} |->
                        IF id = fr.id THEN Made(Def(fr.id), fr.got) ELSE value[id]]
                ELSE value
  BY <1>1, <1>3 DEF Finish, Valuable
<1>5. consts' = IF Kind(fr.id) = "const"
                 THEN [consts EXCEPT ![fr.id[1]] =
                        [path \in DOMAIN consts[fr.id[1]] \cup {<<Def(fr.id).name>>} |->
                            IF path = <<Def(fr.id).name>> THEN Made(Def(fr.id), fr.got)
                            ELSE consts[fr.id[1]][path]]]
                 ELSE consts
  BY <1>1, <1>3 DEF Finish
<1>6. /\ fr.todo = <<>> /\ ~(fr.op = "link" /\ Kind(fr.id) = "service")
      /\ stack' = Below /\ UNCHANGED <<trees, memo, models, linked, functions>>
  BY <1>1 DEF Finish
<1> QED
  BY <1>1, <1>2, <1>4, <1>5, <1>6 DEF Ends

LEMMA EndOf ==
  ASSUME LinkInv, phase = "link", NEW fr, Ends(fr)
  PROVE  /\ FrameFormed(fr) /\ fr.id \in Linkable /\ Links(fr)
         /\ \/ fr.id \in ModuleIds
            \/ fr.op = "functions" /\ fr.id \in Known /\ Kind(fr.id) = "service"
            \/ Refers(fr) /\ Kind(fr.id) \in {"const", "typedef", "enum", "struct"}
         /\ fr.id \in ModuleIds => Kind(fr.id) = "module"
         /\ fr.id \in Known => fr.id[1] \in DOMAIN program.files
<1>1. Ready /\ FrameFormed(fr) /\ Links(fr)
  BY InLink DEF Ends
<1>2. fr.id \in Linkable /\ fr.op \in {"link", "functions"}
      /\ (fr.op = "functions" => Kind(fr.id) = "service")
  BY <1>1 DEF FrameFormed
<1>3. fr.id \in ModuleIds => Kind(fr.id) = "module"
  BY Modules DEF ModuleIds
<1>4. fr.id \in Known => Kind(fr.id) \in {"const", "typedef", "enum", "struct", "service"}
  BY <1>1, RefsOf DEF Ready
<1>5. fr.id \in Known => fr.id[1] \in DOMAIN program.files
  BY <1>1, FilesKnown, EntriesStand
<1>6. ~(fr.op = "link" /\ Kind(fr.id) = "service")
  BY DEF Ends
<1> QED
  BY <1>1, <1>2, <1>3, <1>4, <1>5, <1>6 DEF Refers, Linkable

LEMMA EndTables ==
  ASSUME LinkInv, phase = "link", NEW fr, Ends(fr)
  PROVE  Tables'
<1>1. /\ Known' = Known /\ Linkable' = Linkable /\ program' = program
      /\ \A id : Kind(id)' = Kind(id) /\ Def(id)' = Def(id)
  BY KnownStays, KindStays DEF trees, Ends
<1>2. Tables
  BY InLink
<1>3. DOMAIN consts' = DOMAIN consts
  BY DEF Ends
<1>4. \A file : DOMAIN consts[file] \subseteq DOMAIN consts'[file]
  BY DEF Ends
<1>5. Kind(fr.id) = "const" => <<Def(fr.id).name>> \in DOMAIN consts'[fr.id[1]]
  <2>1. Kind(fr.id) = "const" => fr.id[1] \in DOMAIN consts
    BY <1>2, EndOf DEF Tables, Refers
  <2> QED
    BY <2>1 DEF Ends
<1>6. ASSUME NEW id \in DOMAIN value'
      PROVE  /\ id \in Known /\ Kind(id) \in Valuable
             /\ Kind(id) # "typedef" => id \in linked
             /\ Kind(id) = "const" => <<Def(id).name>> \in DOMAIN consts'[id[1]]
  <2>1. CASE id \in DOMAIN value
    BY <1>2, <1>4, <2>1 DEF Tables
  <2>2. CASE id = fr.id /\ Kind(fr.id) \in Valuable
    <3>1. Refers(fr) /\ Links(fr)
      BY <2>2, EndOf DEF Valuable
    <3> QED
      BY <1>5, <2>2, <3>1 DEF Refers, Links
  <2>3. id \in DOMAIN value \/ (id = fr.id /\ Kind(fr.id) \in Valuable)
    BY DEF Ends
  <2> QED
    BY <2>1, <2>2, <2>3
<1>7. linked' = linked
  BY DEF Ends
<1> QED
  BY <1>1, <1>2, <1>3, <1>6, <1>7 DEF Tables

(* A frame that has all it refers to has what it means, unless it is a     *)
(* const that names one of a circle.                                       *)
LEMMA AllGiven ==
  ASSUME Ready, NEW fr, FrameFormed(fr), FrameTrue(fr), Refers(fr), fr.todo = <<>>
  PROVE  /\ \A ref \in Range(Refs(Def(fr.id))) : RefDone(fr.id, ref)
         /\ Sound(fr.id) => /\ fr.got = Meanings(fr.id)
                            /\ \A ref \in Range(Refs(Def(fr.id))) : Held(fr.id, ref)
         /\ Kind(fr.id) = "struct" => ~Unfit(fr.id)
<1> DEFINE refs == Refs(Def(fr.id))
<1>1. /\ Len(fr.got) \in Nat /\ DOMAIN fr.got = 1 .. Len(fr.got) /\ Len(fr.got) = Len(refs)
      /\ Kind(fr.id) = "struct" => Checked(fr.id, fr.todo)
  BY Position
<1>2. Listed(refs) /\ Listed(fr.got)
  BY RefsOf DEF Ready, Refers, FrameFormed
<1>3. \A j \in 1 .. Len(fr.got) :
            /\ RefDone(fr.id, refs[j])
            /\ Sound(fr.id) => fr.got[j] = Meaning(fr.id, refs[j]) /\ Held(fr.id, refs[j])
  BY DEF FrameTrue
<1>4. DOMAIN refs = 1 .. Len(refs) /\ \A ref \in Range(refs) : \E j \in 1 .. Len(refs) : ref = refs[j]
  BY <1>2, ItemsOf
<1>5. Kind(fr.id) = "struct" => ~Unfit(fr.id)
  BY <1>1 DEF FrameTrue
<1>6. ASSUME Sound(fr.id) PROVE fr.got = Meanings(fr.id)
  <2>1. Meanings(fr.id) = [j \in 1 .. Len(refs) |-> Meaning(fr.id, refs[j])]
    BY <1>4, MeaningsAre
  <2>2. fr.got = [j \in 1 .. Len(fr.got) |-> fr.got[j]]
    BY <1>2 DEF Listed
  <2> HIDE DEF refs
  <2> QED
    BY <1>1, <1>3, <1>6, <2>1, <2>2
<1> QED
  BY <1>1, <1>3, <1>4, <1>5, <1>6

LEMMA TypedefIsSound ==
  ASSUME Ready, NEW id \in Known, Kind(id) = "typedef" PROVE Sound(id)
<1>1. \A ref \in Range(Refs(Def(id))) : ref.role = "type"
  BY RefsOf DEF Ready, RefOf, Roles
<1>2. \A i \in DOMAIN Refs(Def(id)) : Refs(Def(id))[i] \in Range(Refs(Def(id)))
  BY DEF Range
<1>3. Values(id) = {}
  BY <1>1, <1>2 DEF Values
<1> QED
  BY <1>3 DEF Sound

(* A typedef that is finished again means what it meant.                   *)
LEMMA EndKeeps ==
  ASSUME LinkInv, phase = "link", NEW fr, Ends(fr), Truth
  PROVE  Keeps
<1>1. /\ Ready /\ Tables /\ linked' = linked /\ DOMAIN value \subseteq DOMAIN value'
      /\ FrameTrue(fr) /\ FrameFormed(fr)
  BY InLink DEF Ends, Truth
<1>2. ASSUME NEW id \in DOMAIN value PROVE value'[id] = value[id]
  <2>1. CASE id = fr.id /\ Kind(fr.id) \in Valuable
    <3>1. Refers(fr)
      BY <2>1, EndOf DEF Valuable
    <3>2. Kind(fr.id) = "typedef" /\ fr.id \in Known
      BY <1>1, <2>1, <3>1 DEF FrameTrue, Valuable, Refers
    <3>3. value[fr.id] = Made(Def(fr.id), Meanings(fr.id))
      BY <1>1, <2>1, <3>2, TypedefIsSound DEF Truth, Complete
    <3>4. fr.got = Meanings(fr.id)
      BY <1>1, <3>1, <3>2, TypedefIsSound, AllGiven DEF Ends
    <3> QED
      BY <2>1, <3>3, <3>4 DEF Ends
  <2>2. CASE ~(id = fr.id /\ Kind(fr.id) \in Valuable)
    BY <2>2 DEF Ends
  <2> QED
    BY <2>1, <2>2
<1>3. ASSUME NEW id \in DOMAIN value, Kind(id) = "const", Homonyms(id) = {}
      PROVE  consts'[id[1]][<<Def(id).name>>] = consts[id[1]][<<Def(id).name>>]
  <2>1. CASE Kind(fr.id) # "const"
    BY <2>1 DEF Ends
  <2>2. CASE Kind(fr.id) = "const"
    <3>1. Refers(fr)
      BY <2>2, EndOf
    <3>2. id # fr.id /\ fr.id \in Ids
      BY <1>1, <2>2, <3>1, IdsAreKnown DEF FrameTrue, Refers
    <3>3. fr.id \in Referring
      BY <2>2, <3>2 DEF Referring
    <3>4. fr.id[1] # id[1] \/ Def(fr.id).name # Def(id).name
      BY <1>3, <2>2, <3>2, <3>3 DEF Homonyms
    <3>5. <<Def(id).name>> \in DOMAIN consts[id[1]]
      BY <1>1, <1>3 DEF Tables
    <3>6. \A path : path # <<Def(fr.id).name>> /\ path \in DOMAIN consts[fr.id[1]]
                        => consts'[fr.id[1]][path] = consts[fr.id[1]][path]
      <4>1. fr.id[1] \in DOMAIN consts
        BY <1>1, <3>1, EndOf DEF Tables, Refers
      <4> QED
        BY <2>2, <4>1 DEF Ends
    <3>7. id[1] # fr.id[1] => consts'[id[1]] = consts[id[1]]
      BY <2>2 DEF Ends
    <3>8. Def(fr.id).name # Def(id).name => <<Def(id).name>> # <<Def(fr.id).name>>
      OBVIOUS
    <3> QED
      BY <3>4, <3>5, <3>6, <3>7, <3>8
  <2> QED
    BY <2>1, <2>2
<1> QED
  BY <1>1, <1>2, <1>3 DEF Keeps, KeepsConst

(* A const is null if what it names is.                                    *)
LEMMA CircleIsClosed ==
  ASSUME NEW id \in Consts, id \notin Circular PROVE Sound(id)
<1> SUFFICES ASSUME Values(id) \cap Circular # {} PROVE id \in Circular
  BY DEF Sound
<1>1. PICK S \in SUBSET Consts : Values(id) \cap S # {} /\ \A c \in S : Values(c) \cap S # {}
  BY DEF Circular
<1> DEFINE T == S \cup {id}
<1>2. T \in SUBSET Consts /\ \A c \in T : Values(c) \cap T # {}
  BY <1>1
<1> QED
  BY <1>2 DEF Circular

LEMMA NullIsNamed ==
  ASSUME NEW id \in AlwaysNull
  PROVE  id \in Consts /\ ~Def(id).list /\ Values(id) \cap AlwaysNull # {}
<1>1. PICK S \in SUBSET Consts : id \in S /\ \A c \in S : ~Def(c).list /\ Values(c) \cap S # {}
  BY DEF AlwaysNull
<1>2. S \subseteq AlwaysNull
  BY <1>1 DEF AlwaysNull
<1> QED
  BY <1>1, <1>2

LEMMA EndIsNullRight ==
  ASSUME LinkInv, phase = "link", NEW fr, Ends(fr), Truth, NEW id, id = fr.id,
         Refers(fr), Kind(id) = "const", NEW x, x = Made(Def(id), fr.got)
  PROVE  /\ id \in AlwaysNull => x = Nothing
         /\ id \notin MaybeNull => x # Nothing
<1> DEFINE refs == Refs(Def(id))
<1>1. Ready /\ FrameTrue(fr) /\ FrameFormed(fr) /\ fr.todo = <<>> /\ id \in Known
  BY InLink DEF Ends, Truth, Refers
<1>2. /\ Listed(refs) /\ (Def(id).list \/ Len(refs) <= 1)
      /\ \A ref \in Range(refs) : ref.role = "value" /\ ref.path # Null
  BY <1>1, RefsOf DEF Ready, RefOf, Roles
<1>3. /\ Len(refs) \in Nat /\ DOMAIN refs = 1 .. Len(refs)
      /\ \A j \in 1 .. Len(refs) : refs[j] \in Range(refs)
  BY <1>2, ItemsOf
<1>4. Listed(fr.got) /\ Len(fr.got) = Len(refs)
  BY <1>1, Position DEF FrameFormed
<1>5. Def(id).kind = "const" /\ refs = Def(id).refs
  BY DEF Kind, Refs
<1>6. CASE refs = <<>>
  <2>1. x = <<Def(id).lit>>
    BY <1>5, <1>6 DEF Made
  <2>2. id \notin AlwaysNull
    BY <1>6, NullIsNamed DEF Consts
  <2> QED
    BY <2>1, <2>2 DEF Nothing
<1>7. CASE refs # <<>> /\ Def(id).list
  <2>1. x = fr.got
    BY <1>5, <1>7 DEF Made
  <2>2. fr.got # <<>>
    <3>1. Len(refs) # 0
      BY <1>2, <1>7 DEF Listed
    <3> QED
      BY <1>4, <3>1
  <2>3. id \notin AlwaysNull
    BY <1>7, NullIsNamed
  <2> QED
    BY <2>1, <2>2, <2>3 DEF Nothing
<1>8. CASE refs # <<>> /\ ~Def(id).list
  <2>1. x = fr.got[1]
    BY <1>5, <1>8 DEF Made
  <2>2. Len(refs) = 1
    <3>1. Len(refs) # 0
      BY <1>2, <1>8 DEF Listed
    <3>2. Len(refs) \in Nat /\ Len(refs) <= 1
      BY <1>2, <1>3, <1>8
    <3> DEFINE l == Len(refs)
    <3> HIDE DEF l
    <3>3. l \in Nat /\ l <= 1 /\ l # 0
      BY <3>1, <3>2 DEF l
    <3>4. l = 1
      BY <3>3
    <3> QED
      BY <3>4 DEF l
  <2>3. PICK ref, target : ref = refs[1] /\ target = RefTarget(id, ref)
    OBVIOUS
  <2>4. ref.role = "value" /\ ref.path # Null
    BY <1>2, <1>3, <2>2, <2>3
  <2>5. Values(id) = {target}
    <3>1. Targets(id)[1] = target /\ DOMAIN refs = {1}
      BY <1>3, <2>2, <2>3 DEF Targets
    <3> QED
      BY <2>3, <2>4, <3>1 DEF Values
  <2>6. /\ RefDone(id, ref) /\ GivenRight(id, ref, x)
        /\ Sound(id) => x = Meaning(id, ref) /\ Held(id, ref)
    BY <1>1, <1>4, <2>1, <2>2, <2>3 DEF FrameTrue
  <2>7. ASSUME id \in AlwaysNull PROVE x = Nothing
    <3>1. target \in AlwaysNull
      BY <2>5, <2>7, NullIsNamed
    <3> QED
      BY <2>3, <2>4, <2>6, <3>1 DEF GivenRight
  <2>8. ASSUME id \notin MaybeNull PROVE x # Nothing
    <3>1. id \notin Circular
      BY <1>8, <2>8 DEF MaybeNull
    <3>2. id \in Consts
      BY <1>1, <1>8, IdsAreKnown DEF Consts
    <3>3. Sound(id)
      BY <3>1, <3>2, CircleIsClosed
    <3>4. Kind(target) = "const"
      <4>1. Role(target) = "value"
        BY <2>3, <2>4, <2>6 DEF RefDone
      <4> QED
        BY <4>1 DEF Role
    <3>5. target \in DOMAIN value /\ x = value[target]
      BY <2>3, <2>4, <2>6, <3>3, <3>4 DEF Held, Meaning, Result, ValueOf
    <3>6. target \notin MaybeNull
      BY <2>5, <3>3 DEF Sound, MaybeNull
    <3>7. NullRight(target)
      BY <3>4, <3>5 DEF Truth, Complete
    <3> QED
      BY <3>5, <3>6, <3>7 DEF NullRight
  <2> QED
    BY <2>7, <2>8
<1> QED
  BY <1>6, <1>7, <1>8

(* What is finished is complete.                                           *)
LEMMA EndComplete ==
  ASSUME LinkInv, phase = "link", NEW fr, Ends(fr), Truth, Steady, NEW id, id = fr.id,
         id \in Known
  PROVE  Complete(id)'
<1> DEFINE refs == Refs(Def(id))
<1>0. FrameTrue(fr) /\ FrameFormed(fr) /\ Ready
  BY InLink DEF Ends, Truth
<1>1. /\ Def(id)' = Def(id) /\ Kind(id)' = Kind(id) /\ refs' = refs
      /\ Unfit(id)' <=> Unfit(id)
  BY TargetsStay, CirclesStay DEF Steady
<1>2. Sound(id)' <=> Sound(id) /\ Homonyms(id)' = Homonyms(id)
  BY CirclesStay DEF Steady
<1>3. \/ fr.op = "functions" /\ Kind(id) = "service"
      \/ Refers(fr) /\ Kind(id) \in {"const", "typedef", "enum", "struct"}
  <2>1. id \notin ModuleIds
    BY NotModules
  <2> QED
    BY <2>1, EndOf
<1>4. \A ref \in Range(refs) : RefDone(id, ref)
  <2>1. CASE fr.op = "functions"
    BY <1>0, <2>1 DEF FrameTrue
  <2>2. CASE Refers(fr)
    BY <1>0, <2>2, AllGiven DEF Ends
  <2> QED
    BY <1>3, <2>1, <2>2
<1>5. \A ref \in Range(refs) : RefDone(id, ref)'
  BY <1>4, RefStays
<1>6. Kind(id) = "struct" => ~Unfit(id)
  BY <1>0, <1>3, AllGiven DEF Ends
<1>7. Kind(id) \in Valuable => id \in DOMAIN value' /\ value'[id] = Made(Def(id), fr.got)
  BY DEF Ends
<1>8. ASSUME Kind(id) \in Valuable, Sound(id)
      PROVE  /\ value'[id] = Made(Def(id), Meanings(id))'
             /\ \A ref \in Range(refs) : Held(id, ref)'
             /\ Kind(id) = "const" => consts'[id[1]][<<Def(id).name>>] = value'[id]
  <2>1. fr.got = Meanings(id) /\ \A ref \in Range(refs) : Held(id, ref)
    BY <1>0, <1>3, <1>8, AllGiven DEF Ends, Valuable
  <2>2. \A ref \in Range(refs) : Held(id, ref)'
    BY <2>1, RefStays
  <2>4. Made(Def(id), Meanings(id))' = Made(Def(id), Meanings(id))
    BY <1>4, <2>1, MeaningsStay
  <2>5. ASSUME Kind(id) = "const"
        PROVE  consts'[id[1]][<<Def(id).name>>] = Made(Def(id), fr.got)
    <3>1. id[1] \in DOMAIN consts
      BY <2>5, EndOf DEF Steady, Tables
    <3> QED
      BY <2>5, <3>1 DEF Ends
  <2> QED
    BY <1>7, <1>8, <2>1, <2>2, <2>4, <2>5
<1>9. ASSUME Kind(id) = "const" PROVE NullRight(id)'
  <2>1. PICK x : x = Made(Def(id), fr.got)
    OBVIOUS
  <2>2. /\ id \in AlwaysNull => x = Nothing
        /\ id \notin MaybeNull => x # Nothing
    BY <1>3, <1>9, <2>1, EndIsNullRight
  <2>3. value'[id] = x
    BY <1>7, <1>9, <2>1 DEF Valuable
  <2>4. AlwaysNull' = AlwaysNull /\ MaybeNull' = MaybeNull
    BY CirclesStay DEF Steady
  <2> QED
    BY <2>2, <2>3, <2>4 DEF NullRight, Nothing
<1> QED
  BY <1>1, <1>2, <1>5, <1>6, <1>7, <1>8, <1>9 DEF Complete

LEMMA FinishSolves ==
  ASSUME LinkInv, Finish, CompileInv' PROVE LinkInv'
<1>0. PICK fr, l : fr = Top /\ l = Len(stack)
  OBVIOUS
<1>1. /\ phase = "link" /\ Ends(fr)
  BY <1>0, FinishEnds
<1>2. /\ Ready /\ Serving /\ Tables /\ Formed /\ (Doomed \/ Truth) /\ IsStack
      /\ stack # <<>> /\ FrameFormed(fr) /\ fr = stack[l] /\ Module(Entry) \in linked
  BY <1>0, <1>1, InLink
<1>3. /\ l \in Nat /\ l >= 1 /\ DOMAIN stack' = 1 .. l - 1 /\ DOMAIN stack = 1 .. l
      /\ \A i \in 1 .. l - 1 : stack'[i] = stack[i] /\ i \in DOMAIN stack
  BY <1>0, <1>1, <1>2, Popped DEF Ends
<1>4. /\ phase' \in {"link", "done"} /\ UNCHANGED trees /\ UNCHANGED <<trees, memo, models>>
      /\ UNCHANGED <<trees, memo, functions>> /\ linked' = linked
  BY <1>1 DEF Ends, trees
<1>5. Ready' /\ Serving'
  BY <1>2, <1>4, ListingStays, ServingStays
<1>6. Tables'
  BY <1>1, EndTables
<1>7. PICK n \in Nat : n = l - 1
  BY <1>3
<1>a. PICK top : n >= 1 => top = stack[n]
  OBVIOUS
<1>8. /\ DOMAIN stack' = 1 .. n /\ l = n + 1
      /\ \A i \in 1 .. n - 1 : i \in DOMAIN stack /\ stack'[i] = stack[i]
      /\ \A i \in 1 .. n : i \in DOMAIN stack /\ stack'[i] = stack[i]
  BY <1>3, <1>7
<1>9. n >= 1 => top = stack'[n] /\ FrameFormed(top) /\ n \in DOMAIN stack /\ top = stack[n]
  BY <1>2, <1>7, <1>a, <1>8 DEF Formed
<1>10. Formed'
  <2>1. n > 1 => Calls(stack[n - 1], top.id)
    BY <1>2, <1>9 DEF Formed
  <2> QED
    BY <1>2, <1>4, <1>5, <1>8, <1>9, <2>1, FormedAfter
<1>11. ASSUME Doomed PROVE Doomed'
  <2>1. ~Misled(stack[l])
    BY <1>1, <1>2 DEF Misled, Ends
  <2>2. \A i \in 1 .. l - 1 : i \in DOMAIN stack' /\ stack'[i] = stack[i]
    BY <1>3
  <2> QED
    BY <1>2, <1>3, <1>4, <1>5, <1>11, <2>1, <2>2, DoomedAfter
<1>12. ASSUME Truth PROVE Truth'
  <2>1. Keeps
    BY <1>1, <1>12, EndKeeps
  <2>2. Steady
    BY <1>2, <1>4, <1>5, <2>1 DEF Steady
  <2>3. fr.id \in Known => Complete(fr.id)'
    BY <1>1, <1>12, <2>2, EndComplete
  <2>4. fr.id \in ModuleIds => AllEntered(fr.id[1], <<>>)'
    <3>1. PICK file : file = fr.id[1]
      OBVIOUS
    <3>2. fr.id \in ModuleIds => AllEntered(file, <<>>)
      BY <1>1, <1>2, <1>3, <1>12, <3>1 DEF Truth, FrameTrue, Ends
    <3> QED
      BY <2>2, <3>1, <3>2, AllEnteredStays
  <2>5. \A id \in DOMAIN value' : id \in DOMAIN value \/ Complete(id)'
    <3>1. \A id \in DOMAIN value' : id \in DOMAIN value \/ (id = fr.id /\ Kind(fr.id) \in Valuable)
      BY <1>1 DEF Ends
    <3>2. Kind(fr.id) \in Valuable => fr.id \in Known
      BY <1>1, EndOf DEF Valuable, Refers
    <3> QED
      BY <2>3, <3>1, <3>2
  <2>6. \A i \in 1 .. n : (Refers(stack[i]) /\ Kind(stack[i].id) \in {"const", "struct"}) =>
                                    stack[i].id \notin DOMAIN value'
    <3> SUFFICES ASSUME NEW i \in 1 .. n, Refers(stack[i]), Kind(stack[i].id) \in {"const", "struct"}
                 PROVE  stack[i].id \notin DOMAIN value'
      OBVIOUS
    <3>1. stack[i].id \notin DOMAIN value
      BY <1>8, <1>12 DEF Truth, FrameTrue
    <3>2. stack[i].id # fr.id
      <4>1. i \in DOMAIN stack /\ l \in DOMAIN stack /\ i # l
        BY <1>3, <1>8
      <4>2. EntersOnce
        BY <1>2 DEF Ready, CompileInv, StackInv
      <4> QED
        BY <1>2, <4>1, <4>2 DEF EntersOnce
    <3> QED
      BY <1>1, <3>1, <3>2 DEF Ends
  <2>7. n >= 1 => FrameTrue(top)'
    <3>1. n >= 1 => FrameTrue(top) /\ n \in 1 .. n
      BY <1>9, <1>12 DEF Truth
    <3>2. n >= 1 => (Refers(top) /\ Kind(top.id) \in {"const", "struct"} => top.id \notin DOMAIN value')
      BY <1>7, <1>a, <1>9, <2>6, <3>1
    <3> QED
      BY <1>9, <2>2, <3>1, <3>2, FrameTrueStays
  <2>8. \A id \in linked : OnStack(id) => \/ OnStack(id)'
                                          \/ id \in Known /\ Complete(id)'
                                          \/ id \in ModuleIds /\ AllEntered(id[1], <<>>)'
    <3>1. ASSUME NEW id, OnStack(id) PROVE OnStack(id)' \/ id = fr.id
      <4>1. PICK i \in 1 .. l : stack[i].id = id
        BY <1>3, <3>1 DEF OnStack
      <4>2. CASE i = l
        BY <1>2, <4>1, <4>2
      <4>3. CASE i # l
        <5>1. i \in 1 .. l - 1
          BY <1>3, <4>3
        <5>2. i \in DOMAIN stack' /\ stack'[i] = stack[i]
          BY <1>3, <5>1
        <5> QED
          BY <4>1, <5>2 DEF OnStack
      <4> QED
        BY <4>2, <4>3
    <3>2. fr.id \in Known \/ fr.id \in ModuleIds
      BY <1>1, EndOf DEF Linkable
    <3> QED
      BY <2>3, <2>4, <3>1, <3>2
  <2>9. \A i \in 1 .. n - 1 : (Refers(stack[i]) /\ Kind(stack[i].id) \in {"const", "struct"}) =>
                                    stack[i].id \notin DOMAIN value'
    BY <2>6
  <2>10. (n >= 1 => top = stack'[n] /\ FrameTrue(top)') /\ \A id \in linked' : id \in linked
    BY <1>4, <1>9, <2>7
  <2> QED
    BY <1>2, <1>8, <1>12, <2>2, <2>5, <2>8, <2>9, <2>10, TruthAfter
<1> QED
  BY <1>2, <1>4, <1>5, <1>6, <1>10, <1>11, <1>12 DEF LinkInv, Ready

-----------------------------------------------------------------------------
(* A service is listed under its name, and has functions.                  *)
LEMMA ServiceOf ==
  ASSUME Ready, NEW id \in Known, Kind(id) = "service"
  PROVE  \E file \in Reached : \E m \in Defs(file) :
            /\ Is(file, m, "service") /\ id = ServiceId(file, m)
            /\ file \in DOMAIN program.files /\ Distinct(file)
            /\ WellFormed(Source(file)[m], program.files) /\ Def(id) = Source(file)[m]
<1>a. PICK file \in Reached : \E m \in Defs(file) : \E k \in 1 .. Size(Source(file)[m]) :
            /\ file \in DOMAIN program.files /\ Distinct(file) /\ id = Part(file, m, k)
            /\ WellFormed(Source(file)[m], program.files)
            /\ Def(id) = Entries(file, Source(file)[m])[k].def /\ id[1] = file
  BY Origin DEF Ready
<1>b. PICK m \in Defs(file) : \E k \in 1 .. Size(Source(file)[m]) :
            /\ file \in DOMAIN program.files /\ Distinct(file) /\ id = Part(file, m, k)
            /\ WellFormed(Source(file)[m], program.files)
            /\ Def(id) = Entries(file, Source(file)[m])[k].def /\ id[1] = file
  BY <1>a
<1>1. PICK k \in 1 .. Size(Source(file)[m]) :
            /\ file \in DOMAIN program.files /\ Distinct(file) /\ id = Part(file, m, k)
            /\ WellFormed(Source(file)[m], program.files)
            /\ Def(id) = Entries(file, Source(file)[m])[k].def /\ id[1] = file
  BY <1>b
<1>2. PICK def : def = Source(file)[m]
  OBVIOUS
<1>3. Kind(id) = Entries(file, def)[k].def.kind
  BY <1>1, <1>2 DEF Kind
<1>4. k = Size(def)
  <2> SUFFICES ASSUME k # Size(def) PROVE FALSE
    OBVIOUS
  <2>1. CASE def.kind = "enum"
    <3>1. Entries(file, def)[k] = Member(def, def.members[k])
      BY <1>1, <1>2, <2>1, EntryDefs
    <3>2. Kind(id) = "const"
      BY <1>3, <3>1 DEF Member, Defines
    <3> QED
      BY <3>2
  <2>2. CASE def.kind = "service"
    <3>1. Entries(file, def)[k] = FunctionEntry(file, def.name, def.functions[(k + 1) \div 2],
                                                Structs[2 - (k % 2)])
      BY <1>1, <1>2, <2>2, EntryDefs
    <3>2. Kind(id) = "struct"
      BY <1>3, <3>1 DEF FunctionEntry, Defines, Structure
    <3> QED
      BY <3>2
  <2> QED
    BY <1>1, <1>2, <2>1, <2>2, EntryDefs
<1>5. Entries(file, def)[k].def = def /\ PathAt(def, k) = <<def.name>>
  BY <1>1, <1>2, <1>4, EntriesHavePaths DEF PathAt
<1>6. Is(file, m, "service") /\ id = ServiceId(file, m)
  BY <1>1, <1>2, <1>3, <1>5 DEF Is, ServiceId, Part
<1> QED
  BY <1>1, <1>2, <1>5, <1>6

LEMMA ServiceIs ==
  ASSUME Ready, Serving, NEW id \in Known, Kind(id) = "service"
  PROVE  id \in DOMAIN functions /\ id[1] \in memo
<1>1. PICK file \in Reached : \E m \in Defs(file) : Is(file, m, "service") /\ id = ServiceId(file, m)
  BY ServiceOf
<1>2. memo = Reached /\ \A m : Passed(file, m)
  BY AllReached DEF Ready
<1> QED
  BY <1>1, <1>2 DEF Serving, ServiceId

LEMMA BothOf ==
  ASSUME NEW n \in Nat, NEW k \in 1 .. 2 * n
  PROVE  (k + 1) \div 2 \in 1 .. n /\ Structs[2 - (k % 2)] \in {"args", "result"}
<1>1. (k + 1) \div 2 \in 1 .. n /\ 2 - (k % 2) \in {1, 2}
  OBVIOUS
<1> QED
  BY <1>1 DEF Structs

(* What a service inherits, and what it then links.                        *)
Handed(base, name) ==
    Both(Len(base), LAMBDA i, struct :
            [path |-> StructOf(FunctionPath(name, FunctionName(base[i])), struct),
             id |-> StructId(base[i], struct)])
OwnStructs(all) == Both(Len(all), LAMBDA i, struct : Own(StructId(all[i], struct)))
Has(ids) == Listed(ids) /\ \A id \in Range(ids) : \A struct \in {"args", "result"} :
                                StructId(id, struct) \in Known

LEMMA HandedDown ==
  ASSUME NEW base, Has(base), NEW name
  PROVE  /\ Handed(base, name) = [k \in 1 .. 2 * Len(base) |-> Handed(base, name)[k]]
         /\ Len(base) \in Nat
         /\ \A entry \in Range(Handed(base, name)) : Bequeathed(entry)
<1> DEFINE n == Len(base)
           entry(k) == [path |-> StructOf(FunctionPath(name, FunctionName(base[(k + 1) \div 2])),
                                          Structs[2 - (k % 2)]),
                        id |-> StructId(base[(k + 1) \div 2], Structs[2 - (k % 2)])]
<1>1. n \in Nat /\ \A i \in 1 .. n : base[i] \in Range(base)
  BY ItemsOf DEF Has
<1>2. Handed(base, name) = [k \in 1 .. 2 * n |-> entry(k)]
  BY DEF Handed, Both
<1>3. ASSUME NEW k \in 1 .. 2 * n PROVE Bequeathed(entry(k))
  <2>1. (k + 1) \div 2 \in 1 .. n /\ Structs[2 - (k % 2)] \in {"args", "result"}
    BY <1>1, <1>3, BothOf
  <2>a. PICK id, struct : id = base[(k + 1) \div 2] /\ struct = Structs[2 - (k % 2)]
    OBVIOUS
  <2>2. /\ id = base[(k + 1) \div 2] /\ struct = Structs[2 - (k % 2)]
        /\ struct \in {"args", "result"}
    BY <2>1, <2>a
  <2>3. PICK path : path = StructOf(FunctionPath(name, FunctionName(id)), struct)
    OBVIOUS
  <2>4. entry(k) = [path |-> path, id |-> StructId(id, struct)]
    BY <2>2, <2>3
  <2>5. StructId(id, struct) \in Known
    BY <1>1, <2>1, <2>2 DEF Has
  <2>6. path \in Seq(Range(path)) /\ "::" \in Range(path)
    <3> DEFINE front == <<name, "::", FunctionName(id)>>
    <3>1. Listed(front) /\ Len(front) = 3 /\ front[2] = "::"
      BY DEF Listed, Range
    <3>2. path = Append(front, struct)
      BY <2>3 DEF StructOf, FunctionPath
    <3> HIDE DEF front
    <3>3. /\ Listed(Append(front, struct)) /\ Len(Append(front, struct)) = 3 + 1
          /\ \A i \in 1 .. 3 : Append(front, struct)[i] = front[i]
      <4>1. /\ Listed(Append(front, struct)) /\ Len(Append(front, struct)) = Len(front) + 1
            /\ \A i \in 1 .. Len(front) : Append(front, struct)[i] = front[i]
        BY <3>1, OneMore
      <4> QED
        BY <3>1, <4>1
    <3>4. Listed(path) /\ Len(path) = 4 /\ path[2] = "::"
      BY <3>1, <3>2, <3>3
    <3>5. \A i \in 1 .. 4 : path[i] \in Range(path)
      BY <3>4, ItemsOf
    <3>6. path[2] \in Range(path)
      BY <3>5
    <3> QED
      BY <3>4, <3>6 DEF Listed
  <2> HIDE DEF entry
  <2> QED
    BY <2>4, <2>5, <2>6 DEF Bequeathed
<1> HIDE DEF n, entry
<1>4. \A x \in Range(Handed(base, name)) : \E k \in 1 .. 2 * n : x = entry(k)
  BY <1>2 DEF Range
<1> QED
  BY <1>1, <1>2, <1>3, <1>4 DEF n

LEMMA OwnStructsAre ==
  ASSUME NEW all, Has(all) PROVE OwnCalls(OwnStructs(all))
<1> DEFINE n == Len(all)
           call(k) == Own(StructId(all[(k + 1) \div 2], Structs[2 - (k % 2)]))
<1>1. n \in Nat /\ 2 * n \in Nat /\ \A i \in 1 .. n : all[i] \in Range(all)
  BY ItemsOf DEF Has
<1>2. OwnStructs(all) = [k \in 1 .. 2 * n |-> call(k)]
  BY DEF OwnStructs, Both
<1>3. ASSUME NEW k \in 1 .. 2 * n PROVE OwnCall(call(k))
  <2>1. (k + 1) \div 2 \in 1 .. n /\ Structs[2 - (k % 2)] \in {"args", "result"}
    BY <1>1, <1>3, BothOf
  <2>2. StructId(all[(k + 1) \div 2], Structs[2 - (k % 2)]) \in Known
    BY <1>1, <2>1 DEF Has
  <2> QED
    BY <2>2 DEF OwnCall, Own, Linkable
<1> HIDE DEF n, call
<1>4. Listed(OwnStructs(all))
  BY <1>1, <1>2, MadeList
<1>5. \A x \in Range(OwnStructs(all)) : \E k \in 1 .. 2 * n : x = call(k)
  BY <1>2 DEF Range
<1> QED
  BY <1>3, <1>4, <1>5 DEF OwnCalls

(* A service takes over what its base has.                                 *)
Takes(fr, base) ==
    /\ fr = Top /\ fr.todo = <<>> /\ fr.op = "link" /\ Kind(fr.id) = "service"
    /\ base = Inherited(fr.got)
    /\ FunctionNames(functions[fr.id]) \cap FunctionNames(base) = {}
    /\ functions' = [functions EXCEPT ![fr.id] = functions[fr.id] \o base]
    /\ models' = [models EXCEPT ![fr.id[1]] =
                    models[fr.id[1]] \o Handed(base, Def(fr.id).name)]
    /\ stack' = Resume(Frame("functions", fr.id, OwnStructs(functions[fr.id] \o base)))
    /\ UNCHANGED <<trees, phase, memo, linked, value, consts>>

Clashes(fr) ==
    /\ fr = Top /\ fr.todo = <<>> /\ fr.op = "link" /\ Kind(fr.id) = "service"
    /\ FunctionNames(functions[fr.id]) \cap FunctionNames(Inherited(fr.got)) # {}

LEMMA InheritTakes ==
  ASSUME Inherit
  PROVE  /\ phase = "link"
         /\ (Throw("failed") /\ Clashes(Top)) \/ \E base : Takes(Top, base)
<1>1. PICK fr, base, own : fr = Top /\ base = Inherited(fr.got) /\ own = functions[fr.id]
  OBVIOUS
<1>2. /\ phase = "link" /\ fr.todo = <<>> /\ fr.op = "link" /\ Kind(fr.id) = "service"
  BY <1>1 DEF Inherit, Linking
<1>3. \/ Throw("failed") /\ FunctionNames(own) \cap FunctionNames(base) # {}
      \/ /\ FunctionNames(own) \cap FunctionNames(base) = {}
         /\ functions' = [functions EXCEPT ![Top.id] = functions[Top.id] \o Inherited(Top.got)]
         /\ models' = [models EXCEPT ![File] = @ \o Handed(Inherited(Top.got), Def(Top.id).name)]
         /\ stack' = Resume(Frame("functions", Top.id,
                                  OwnStructs(functions[Top.id] \o Inherited(Top.got))))
         /\ UNCHANGED <<trees, phase, memo, linked, value, consts>>
  BY <1>1 DEF Inherit, Handed, OwnStructs
<1>4. models' = [models EXCEPT ![File] = @ \o Handed(Inherited(Top.got), Def(Top.id).name)]
        => models' = [models EXCEPT ![fr.id[1]] =
                            models[fr.id[1]] \o Handed(base, Def(fr.id).name)]
  BY <1>1 DEF File
<1>5. (Throw("failed") /\ Clashes(fr)) \/ Takes(fr, base)
  BY <1>1, <1>2, <1>3, <1>4 DEF Takes, Clashes
<1> QED
  BY <1>1, <1>2, <1>5

LEMMA JoinHas ==
  ASSUME NEW s, NEW t, Has(s), Has(t) PROVE Has(s \o t)
<1>1. Len(t) \in Nat /\ t = [i \in 1 .. Len(t) |-> t[i]]
  BY DEF Has, Listed
<1>2. Listed(s \o t) /\ Range(s \o t) = Range(s) \cup Range(t)
  BY <1>1, Joined DEF Has
<1> QED
  BY <1>2 DEF Has

LEMMA BaseHas ==
  ASSUME LinkInv, phase = "link", NEW fr, NEW base, Takes(fr, base)
  PROVE  /\ fr.id \in Known /\ Refers(fr) /\ FrameFormed(fr) /\ fr.id \in DOMAIN functions
         /\ fr.id[1] \in memo /\ Has(functions[fr.id]) /\ Has(base)
<1>1. /\ Ready /\ Serving /\ FrameFormed(fr) /\ fr.op = "link" /\ Kind(fr.id) = "service"
  BY InLink DEF Takes
<1>2. fr.id \in Known /\ Refers(fr)
  BY <1>1, Modules DEF FrameFormed, Linkable, ModuleIds, Refers
<1>3. \A s \in DOMAIN functions : Has(functions[s])
  BY <1>1 DEF Serving, Has
<1>4. fr.id \in DOMAIN functions /\ fr.id[1] \in memo
  BY <1>1, <1>2, ServiceIs
<1>5. Has(base)
  <2>1. CASE fr.got = <<>>
    <3>1. base = <<>>
      BY <2>1 DEF Takes, Inherited
    <3> QED
      BY <3>1 DEF Has, Listed, Range
  <2>2. CASE fr.got # <<>>
    <3>1. Listed(fr.got) /\ Len(fr.got) \in Nat
      BY <1>1, <1>2, Position DEF FrameFormed
    <3>2. 1 \in 1 .. Len(fr.got)
      BY <2>2, <3>1 DEF Listed
    <3>3. fr.got[1] \in Range(fr.got)
      BY <3>1, <3>2, ItemsOf
    <3>4. fr.got[1] \in Known /\ Kind(fr.got[1]) = "service"
      BY <1>1, <1>2, <3>3 DEF FrameFormed
    <3>5. fr.got[1] \in DOMAIN functions
      BY <1>1, <3>4, ServiceIs
    <3> QED
      BY <1>3, <2>2, <3>5 DEF Takes, Inherited
  <2> QED
    BY <2>1, <2>2
<1> QED
  BY <1>1, <1>2, <1>3, <1>4, <1>5

LEMMA InheritListing ==
  ASSUME LinkInv, phase = "link", CompileInv', NEW fr, NEW base, Takes(fr, base)
  PROVE  Ready' /\ Serving'
<1> DEFINE name == Def(fr.id).name
           handed == Handed(base, name)
           file0 == fr.id[1]
<1>0. /\ Ready /\ Serving /\ CompileInv /\ phase' = "link" /\ memo' = memo
      /\ memo \subseteq DOMAIN models
  <2>1. Ready /\ Serving
    BY InLink
  <2> QED
    BY <2>1, ReachedHolds DEF Takes, Ready, CompileInv, Programs1
<1>1. /\ \A file, m : Passed(file, m) <=> file \in memo
      /\ \A file, m : Passed(file, m)' <=> file \in memo
  BY <1>0, AllPassed, NonePassedLater DEF CompileInv
<1>2. /\ \A file : Source(file)' = Source(file) /\ Defs(file)' = Defs(file)
      /\ \A file, m, k : EntryFor(file, m, k)' = EntryFor(file, m, k)
      /\ \A file, m, kind : Is(file, m, kind)' = Is(file, m, kind)
      /\ Known' = Known
  BY ProgramStays, KnownStays DEF trees, Takes
<1>3. \A file, entry : Heard(file, entry) => Heard(file, entry)'
  BY <1>1, <1>2 DEF Heard
<1>4. \A entry : Bequeathed(entry) => Bequeathed(entry)'
  BY <1>2 DEF Bequeathed
<1>5. /\ handed = [k \in 1 .. 2 * Len(base) |-> handed[k]] /\ 2 * Len(base) \in Nat
      /\ \A entry \in Range(handed) : Bequeathed(entry)
  BY BaseHas, HandedDown
<1>6. /\ models'[file0] = models[file0] \o handed
      /\ \A file \in memo : file # file0 => models'[file] = models[file]
      /\ file0 \in memo
  BY <1>0, BaseHas DEF Takes
<1>7. \A file \in memo :
        /\ Listed(models[file])
        /\ \A m \in Defs(file) : Passed(file, m) =>
                \A k \in 1 .. Size(Source(file)[m]) : EntryFor(file, m, k) \in Range(models[file])
        /\ \A entry \in Range(models[file]) : Heard(file, entry) \/ Bequeathed(entry)
  BY <1>0 DEF Ready, Listing
<1> HIDE DEF handed, file0
<1>8. /\ Listed(models'[file0]) /\ Range(models'[file0]) = Range(models[file0]) \cup Range(handed)
  BY <1>5, <1>6, <1>7, Joined
<1>9. ASSUME NEW file \in memo
      PROVE  /\ Listed(models'[file]) /\ Range(models[file]) \subseteq Range(models'[file])
             /\ \A entry \in Range(models'[file]) : Heard(file, entry) \/ Bequeathed(entry)
  BY <1>5, <1>6, <1>7, <1>8
<1>10. Listing'
  BY <1>0, <1>1, <1>2, <1>3, <1>4, <1>7, <1>9 DEF Listing
<1>11. Serving'
  <2>1. \A s \in DOMAIN functions : Has(functions'[s])
    <3>1. Has(functions[fr.id] \o base)
      BY BaseHas, JoinHas
    <3>2. \A s \in DOMAIN functions : Has(functions[s])
      BY <1>0 DEF Serving, Has
    <3> QED
      BY <3>1, <3>2 DEF Takes
  <2>2. DOMAIN functions' = DOMAIN functions
    BY DEF Takes
  <2>3. \A file, m : ServiceId(file, m)' = ServiceId(file, m)
    BY <1>2 DEF ServiceId
  <2> QED
    BY <1>0, <1>1, <1>2, <2>1, <2>2, <2>3 DEF Serving, Has
<1> QED
  BY <1>0, <1>10, <1>11 DEF Ready

LEMMA InheritSolves ==
  ASSUME LinkInv, Inherit, CompileInv' PROVE LinkInv'
<1>1. phase = "link"
  BY InheritTakes
<1>2. CASE Throw("failed")
  BY <1>2, Thrown0
<1>3. ASSUME NEW base, Takes(Top, base) PROVE LinkInv'
  <2>1. PICK fr, next : /\ fr = Top
                        /\ next = Frame("functions", fr.id, OwnStructs(functions[fr.id] \o base))
    OBVIOUS
  <2>2. /\ Takes(fr, base) /\ IsFrame(next) /\ next.op = "functions" /\ next.id = fr.id
        /\ next.todo = OwnStructs(functions[fr.id] \o base) /\ stack' = Resume(next)
    BY <1>3, <2>1, Frames DEF Takes
  <2>3. Ready' /\ Serving'
    BY <1>1, <2>2, InheritListing
  <2>4. /\ Ready /\ IsStack /\ stack # <<>> /\ Len(stack) \in DOMAIN stack
        /\ fr = stack[Len(stack)]
    BY <1>1, <2>1, InLink
  <2>5. /\ IsStack' /\ DOMAIN stack' = DOMAIN stack /\ next = stack'[Len(stack)]
        /\ \A i \in 1 .. Len(stack) - 1 : stack'[i] = stack[i]
    BY <2>2, <2>4, Resumed
  <2>6. /\ UNCHANGED <<trees, phase, linked, value, consts>>
        /\ fr.todo = <<>> /\ Kind(fr.id) = "service"
    BY <2>2 DEF Takes
  <2>7. fr.id \in Known /\ Refers(fr) /\ FrameFormed(fr) /\ Has(functions[fr.id] \o base)
    BY <1>1, <2>2, BaseHas, JoinHas
  <2>8. ~Refers(next) /\ fr.id \notin ModuleIds
    BY <2>2, <2>7, NotModules DEF Refers
  <2>9. FrameFormed(next)
    BY <2>2, <2>6, <2>7, <2>8, OwnStructsAre DEF FrameFormed, Linkable
  <2>10. ~Misled(Top)
    BY <2>1, <2>6 DEF Misled
  <2>11. ASSUME Truth PROVE FrameTrue(next)
    <3>1. FrameTrue(fr)
      BY <2>4, <2>11 DEF Truth
    <3>2. \A ref \in Range(Refs(Def(fr.id))) : RefDone(fr.id, ref)
      BY <2>4, <2>6, <2>7, <3>1, AllGiven
    <3> QED
      BY <2>2, <2>8, <3>2 DEF FrameTrue
  <2> QED
    BY <1>1, <2>1, <2>2, <2>3, <2>5, <2>6, <2>9, <2>10, <2>11, TopChanges
<1> QED
  BY <1>2, <1>3, InheritTakes

-----------------------------------------------------------------------------
(* While files are compiled, the models that are there are those of the    *)
(* definitions behind.                                                     *)
FilesThere == memo \subseteq DOMAIN program.files

LEMMA MemoIsThere == CompileInv => FilesThere
BY ReachedHolds DEF CompileInv, Programs1, FilesThere

LEMMA CompileStays ==
  ASSUME LinkInv, phase = "compile", CompileInv', phase' = "compile", memo \subseteq memo',
         UNCHANGED <<trees, models, linked, value, functions, consts>>,
         \A file : \A m \in Defs(file) : Passed(file, m)' <=> Passed(file, m)
  PROVE  LinkInv'
<1>1. /\ Listing /\ Serving /\ Tables /\ linked = {} /\ DOMAIN value = {}
      /\ CompileInv /\ Modelled /\ memo' \subseteq DOMAIN program.files /\ program' = program
  <2>1. FilesThere'
    BY MemoIsThere, PTL
  <2> QED
    BY <2>1 DEF FilesThere, LinkInv, Live, CompileInv, trees
<1>2. /\ \A file : Source(file)' = Source(file) /\ Defs(file)' = Defs(file)
      /\ \A file, m, kind : Is(file, m, kind)' = Is(file, m, kind)
      /\ \A file, m, k : EntryFor(file, m, k)' = EntryFor(file, m, k)
      /\ Known' = Known /\ Linkable' = Linkable
      /\ \A id : Kind(id)' = Kind(id) /\ Def(id)' = Def(id)
  BY ProgramStays, KnownStays, KindStays DEF trees
<1>3. \A file, entry : Heard(file, entry) => Heard(file, entry)'
  BY <1>2 DEF Heard
<1>4. \A entry : Bequeathed(entry) => Bequeathed(entry)'
  BY <1>2 DEF Bequeathed
<1>5. \A file, m : Passed(file, m) => file \in memo
  BY DEF Passed
<1>6. ASSUME NEW file \in memo', file \notin memo, NEW entry \in Range(models[file]) PROVE FALSE
  <2>1. Paths(file) = UNION {PathSet(Source(file)[m]) : m \in {m \in Defs(file) : Passed(file, m)}}
    BY <1>1, <1>6 DEF Modelled
  <2>2. {m \in Defs(file) : Passed(file, m)} = {}
    BY <1>5, <1>6
  <2>3. Paths(file) = {}
    BY <2>1, <2>2
  <2> QED
    BY <1>6, <2>3 DEF Paths
<1>7. Listing'
  <2>1. ASSUME NEW file \in memo'
        PROVE  /\ Listed(models[file])
               /\ \A m \in Defs(file) : Passed(file, m) =>
                    \A k \in 1 .. Size(Source(file)[m]) : EntryFor(file, m, k) \in Range(models[file])
               /\ \A entry \in Range(models[file]) : Heard(file, entry) \/ Bequeathed(entry)
    BY <1>1, <1>5, <1>6 DEF Listing, Modelled
  <2>2. models' = models
    OBVIOUS
  <2> QED
    BY <1>2, <1>3, <1>4, <2>1, <2>2 DEF Listing
<1>8. Serving'
  <2>1. \A file, m : ServiceId(file, m)' = ServiceId(file, m)
    BY <1>2 DEF ServiceId
  <2> QED
    BY <1>1, <1>2, <1>5, <2>1 DEF Serving
<1>9. Tables'
  BY <1>1, <1>2 DEF Tables
<1> QED
  BY <1>1, <1>7, <1>8, <1>9 DEF LinkInv

LEMMA CompileIncludeSolves ==
  ASSUME LinkInv, CompileInclude, CompileInv' PROVE LinkInv'
<1>1. PICK file : file = Head(Top.todo).file
  OBVIOUS
<1>2. /\ phase = "compile" /\ phase' = "compile" /\ memo' = memo \cup {file}
      /\ UNCHANGED <<trees, models, linked, value, functions, consts>>
  BY <1>1 DEF CompileInclude, Compiling
<1>3. \A f : \A m \in Defs(f) : Passed(f, m)' <=> Passed(f, m)
  BY IncludePasses DEF LinkInv
<1> QED
  BY <1>2, <1>3, CompileStays

(* What a definition adds to the models is what it defines.                *)
LEMMA AddedIsHeard ==
  ASSUME LinkInv, phase = "compile", Top.todo # <<>>, NEW n \in Defs(File),
         Head(Top.todo) = Source(File)[n], NEW added,
         added = [i \in DOMAIN PathsOfNext |->
                    [path |-> PathsOfNext[i],
                     id |-> IF Head(Top.todo).kind = "include" THEN Module(Head(Top.todo).file)
                                                               ELSE <<File, PathsOfNext[i]>>]]
  PROVE  /\ Size(Source(File)[n]) \in Nat
         /\ added = [k \in 1 .. Size(Source(File)[n]) |-> added[k]]
         /\ \A k \in 1 .. Size(Source(File)[n]) : added[k] = EntryFor(File, n, k)
<1>1. PICK def : def = Source(File)[n]
  OBVIOUS
<1>2. /\ Size(def) \in Nat /\ DOMAIN PathsOfNext = 1 .. Size(def)
      /\ \A k \in 1 .. Size(def) : PathsOfNext[k] = PathAt(def, k)
  <2>1. /\ program \in Programs /\ File \in DOMAIN program.files
    BY AtTop DEF LinkInv, CompileInv, Programs1
  <2>2. WellFormed(def, program.files)
    BY <1>1, <2>1, Programmed
  <2> QED
    BY <1>1, <2>2, EntriesHavePaths, Sizes DEF PathsOfNext
<1>3. ASSUME NEW k \in 1 .. Size(def) PROVE added[k] = EntryFor(File, n, k)
  BY <1>1, <1>2, <1>3 DEF EntryFor, Is, Part
<1> QED
  BY <1>1, <1>2, <1>3

LEMMA PartIsKnown ==
  ASSUME NEW file \in Reached, NEW m \in Defs(file), ~Is(file, m, "include"),
         NEW k \in 1 .. Size(Source(file)[m])
  PROVE  Part(file, m, k) \in Known
<1>1. m \in {l \in Defs(file) : ~Is(file, l, "include")}
  OBVIOUS
<1>2. Part(file, m, k) \in {Part(file, m, h) : h \in 1 .. Size(Source(file)[m])}
  OBVIOUS
<1> QED
  BY <1>1, <1>2 DEF Known

(* The structs of a function are parts of its service.                     *)
LEMMA StructIsPart ==
  ASSUME NEW file, NEW m \in Defs(file), Is(file, m, "service"),
         \E files : WellFormed(Source(file)[m], files),
         NEW i \in 1 .. Len(FunctionsOf(file, m)), NEW struct \in {"args", "result"}
  PROVE  LET path == FunctionPath(Source(file)[m].name, FunctionsOf(file, m)[i].name)
         IN  \E k \in 1 .. Size(Source(file)[m]) :
                /\ k # Size(Source(file)[m])
                /\ PathAt(Source(file)[m], k) = StructOf(path, struct)
                /\ StructId(<<file, path>>, struct) = Part(file, m, k)
<1>0. PICK path : path = FunctionPath(Source(file)[m].name, FunctionsOf(file, m)[i].name)
  OBVIOUS
<1>1. PICK def, n, files : /\ def = Source(file)[m] /\ n = Len(def.functions)
                           /\ WellFormed(def, files)
  OBVIOUS
<1>2. /\ def.kind = "service" /\ n \in Nat /\ DOMAIN def.functions = 1 .. n
      /\ Size(def) = 2 * n + 1 /\ i \in 1 .. n
  BY <1>1, Sizes DEF Is, Size, FunctionsOf
<1>3. StructId(<<file, path>>, struct) = <<file, StructOf(path, struct)>>
  BY DEF StructId
<1>4. CASE struct = "result"
  <2>1. /\ 2 * i \in 1 .. Size(def) /\ 2 * i # Size(def)
        /\ PathAt(def, 2 * i) = StructOf(path, "result")
    BY <1>0, <1>1, <1>2, FunctionPaths DEF FunctionsOf
  <2> QED
    BY <1>0, <1>1, <1>3, <1>4, <2>1 DEF Part
<1>5. CASE struct = "args"
  <2>1. /\ 2 * i - 1 \in 1 .. Size(def) /\ 2 * i - 1 # Size(def)
        /\ ((2 * i - 1) + 1) \div 2 = i /\ 2 - ((2 * i - 1) % 2) = 1
    BY <1>2
  <2>2. PathAt(def, 2 * i - 1) = StructOf(FunctionPath(def.name,
                def.functions[((2 * i - 1) + 1) \div 2].name), Structs[2 - ((2 * i - 1) % 2)])
    BY <1>2, <2>1 DEF PathAt
  <2>3. PathAt(def, 2 * i - 1) = StructOf(path, "args")
    <3>1. PathAt(def, 2 * i - 1) =
                StructOf(FunctionPath(def.name, def.functions[i].name), Structs[1])
      BY <2>1, <2>2
    <3> QED
      BY <1>0, <1>1, <3>1 DEF Structs, FunctionsOf
  <2> QED
    BY <1>0, <1>1, <1>3, <1>5, <2>1, <2>3 DEF Part
<1> QED
  BY <1>0, <1>4, <1>5

(* The functions of a service, as it is compiled.                          *)
OwnList(file, m) ==
    [i \in DOMAIN FunctionsOf(file, m) |->
        <<file, FunctionPath(Source(file)[m].name, FunctionsOf(file, m)[i].name)>>]

LEMMA OwnHas ==
  ASSUME NEW file \in Reached, NEW m \in Defs(file), Is(file, m, "service"),
         NEW files, WellFormed(Source(file)[m], files)
  PROVE  Has(OwnList(file, m))
<1>1. PICK n, own : n = Len(FunctionsOf(file, m)) /\ own = OwnList(file, m)
  OBVIOUS
<1>2. n \in Nat /\ DOMAIN own = 1 .. n
  BY <1>1, Sizes DEF Is, FunctionsOf, OwnList
<1>3. Listed(own)
  BY <1>1, <1>2, MadeList DEF OwnList
<1>4. ASSUME NEW i \in 1 .. n, NEW struct \in {"args", "result"}
      PROVE  StructId(own[i], struct) \in Known
  <2>1. PICK path : path = FunctionPath(Source(file)[m].name, FunctionsOf(file, m)[i].name)
    OBVIOUS
  <2>2. own[i] = <<file, path>>
    BY <1>1, <1>2, <2>1 DEF OwnList
  <2>3. PICK k \in 1 .. Size(Source(file)[m]) : StructId(<<file, path>>, struct) = Part(file, m, k)
    BY <1>1, <2>1, StructIsPart
  <2> QED
    BY <2>2, <2>3, PartIsKnown DEF Is
<1>5. \A id \in Range(own) : \E i \in 1 .. n : id = own[i]
  BY <1>2 DEF Range
<1> QED
  BY <1>1, <1>3, <1>4, <1>5 DEF Has

(* What a definition adds when it is compiled.                             *)
Adds(file, n, def, added, own) ==
    /\ file \in memo /\ file \in Reached /\ file \in DOMAIN program.files
    /\ program \in Programs /\ n \in Defs(file) /\ def = Source(file)[n]
    /\ \A f : \A m \in Defs(f) : Passed(f, m)' <=> Passed(f, m) \/ (f = file /\ m = n)
    /\ ~Passed(file, n)
    /\ Size(def) \in Nat /\ added = [k \in 1 .. Size(def) |-> added[k]]
    /\ \A k \in 1 .. Size(def) : added[k] = EntryFor(file, n, k)
    /\ models'[file] = models[file] \o added
    /\ \A f \in memo : f # file => models'[f] = models[f]
    /\ def.kind = "service" => own = OwnList(file, n)
    /\ functions' = IF def.kind = "service"
                    THEN [s \in DOMAIN functions \cup {<<file, <<def.name>>>>} |->
                            IF s \in DOMAIN functions THEN functions[s] ELSE own]
                    ELSE functions
    /\ DOMAIN consts' = DOMAIN consts /\ phase' = "compile"
    /\ UNCHANGED <<program, made, memo, linked, value>>

LEMMA DefinitionAdds ==
  ASSUME LinkInv, CompileDefinition, ~Throw("duplicate")
  PROVE  \E file, n, def, added, own : Adds(file, n, def, added, own)
<1> DEFINE n0 == Len(Source(File)) - Len(Top.todo) + 1
           id(path) == IF Head(Top.todo).kind = "include" THEN Module(Head(Top.todo).file)
                                                          ELSE <<File, path>>
           added0 == [i \in DOMAIN PathsOfNext |->
                        [path |-> PathsOfNext[i], id |-> id(PathsOfNext[i])]]
           own0 == [i \in DOMAIN Head(Top.todo).functions |->
                <<File, FunctionPath(Head(Top.todo).name, Head(Top.todo).functions[i].name)>>]
<1>1. /\ phase = "compile" /\ Top.todo # <<>>
      /\ stack' = GoOn(Top.got)
      /\ models' = [models EXCEPT ![File] = @ \o added0]
      /\ DOMAIN consts' = DOMAIN consts
      /\ functions' = IF Head(Top.todo).kind = "service"
                        THEN [s \in DOMAIN functions \cup {<<File, <<Head(Top.todo).name>>>>} |->
                                IF s \in DOMAIN functions THEN functions[s] ELSE own0]
                        ELSE functions
      /\ UNCHANGED <<program, made, phase, memo, linked, value>>
  BY DEF CompileDefinition, Compiling, PathsOfNext
<1>2. PICK n, file, added, own, def :
          n = n0 /\ file = File /\ added = added0 /\ own = own0 /\ def = Head(Top.todo)
  OBVIOUS
<1>3. CompileInv /\ memo \subseteq DOMAIN models
  BY <1>1, ReachedHolds DEF LinkInv, Live, CompileInv, Programs1
<1>4. /\ n \in Defs(file) /\ def = Source(file)[n] /\ file \in memo /\ file \in Reached
      /\ program \in Programs /\ file \in DOMAIN program.files /\ ~Passed(file, n)
  <2>1. /\ n \in Defs(file) /\ def = Source(file)[n] /\ file \in memo /\ file \in Reached
        /\ program \in Programs /\ file \in DOMAIN program.files
    BY <1>1, <1>2, <1>3, AtTop, NextDefinition DEF CompileInv, Programs1
  <2>2. \A m \in Defs(file) : Passed(file, m) <=> m < n
    BY <1>1, <1>2, <1>3, NextDefinition
  <2>3. n \in Nat
    BY <2>1, Programmed
  <2> QED
    BY <2>1, <2>2, <2>3
<1>5. Passes(n)
  BY <1>1, <1>2, <1>3, StackGoesOn
<1>6. \A f : \A m \in Defs(f) : Passed(f, m)' <=> Passed(f, m) \/ (f = file /\ m = n)
  BY <1>2, <1>5 DEF Passes
<1>7. /\ Size(def) \in Nat /\ added = [k \in 1 .. Size(def) |-> added[k]]
      /\ \A k \in 1 .. Size(def) : added[k] = EntryFor(file, n, k)
  <2>1. added = [i \in DOMAIN PathsOfNext |->
                  [path |-> PathsOfNext[i],
                   id |-> IF Head(Top.todo).kind = "include" THEN Module(Head(Top.todo).file)
                                                             ELSE <<File, PathsOfNext[i]>>]]
    BY <1>2
  <2>2. n \in Defs(File) /\ Head(Top.todo) = Source(File)[n]
    BY <1>2, <1>4
  <2> HIDE DEF added0, own0, n0
  <2>3. /\ Size(Source(File)[n]) \in Nat
        /\ added = [k \in 1 .. Size(Source(File)[n]) |-> added[k]]
        /\ \A k \in 1 .. Size(Source(File)[n]) : added[k] = EntryFor(File, n, k)
    BY <1>1, <2>1, <2>2, AddedIsHeard
  <2> QED
    BY <1>2, <1>4, <2>3
<1>8. def.kind = "service" => own = OwnList(file, n)
  BY <1>2, <1>4 DEF OwnList, FunctionsOf
<1> HIDE DEF added0, own0, n0
<1>9. /\ models'[file] = models[file] \o added
      /\ \A f \in memo : f # file => models'[f] = models[f]
  <2>1. file \in DOMAIN models
    BY <1>3, <1>4
  <2> QED
    BY <1>1, <1>2, <1>3, <2>1
<1>10. functions' = IF def.kind = "service"
                    THEN [s \in DOMAIN functions \cup {<<file, <<def.name>>>>} |->
                              IF s \in DOMAIN functions THEN functions[s] ELSE own]
                    ELSE functions
  BY <1>1, <1>2
<1>11. Adds(file, n, def, added, own)
  BY <1>1, <1>4, <1>6, <1>7, <1>8, <1>9, <1>10 DEF Adds
<1> QED
  BY <1>11

LEMMA CompileDefinitionSolves ==
  ASSUME LinkInv, CompileDefinition, CompileInv' PROVE LinkInv'
<1>1. phase = "compile"
  BY DEF CompileDefinition, Compiling
<1>2. CASE Throw("duplicate")
  BY <1>2, Thrown0
<1>3. CASE ~Throw("duplicate")
  <2>1. PICK file, n, def, added, own : Adds(file, n, def, added, own)
    BY <1>3, DefinitionAdds
  <2>2. /\ CompileInv /\ Listing /\ Serving /\ Tables /\ linked = {} /\ DOMAIN value = {}
        /\ UNCHANGED <<program, made, memo, linked, value>> /\ DOMAIN consts' = DOMAIN consts
    BY <1>1, <2>1 DEF LinkInv, Live, Adds
  <2>3. /\ n \in Defs(file) /\ def = Source(file)[n] /\ file \in memo /\ file \in Reached
        /\ program \in Programs /\ file \in DOMAIN program.files
    BY <2>1 DEF Adds
  <2>4. \A f : \A m \in Defs(f) : Passed(f, m)' <=> Passed(f, m) \/ (f = file /\ m = n)
    BY <2>1 DEF Adds
  <2>5. /\ Size(def) \in Nat /\ added = [k \in 1 .. Size(def) |-> added[k]]
        /\ \A k \in 1 .. Size(def) : added[k] = EntryFor(file, n, k)
    BY <2>1 DEF Adds
  <2>6. /\ \A f : Source(f)' = Source(f) /\ Defs(f)' = Defs(f)
        /\ \A f, m, kind : Is(f, m, kind)' = Is(f, m, kind)
        /\ \A f, m, k : EntryFor(f, m, k)' = EntryFor(f, m, k)
        /\ Known' = Known /\ Linkable' = Linkable
    BY <2>2, ProgramStays, KnownStays
  <2>7. /\ models'[file] = models[file] \o added /\ phase' = "compile" /\ memo' = memo
        /\ \A f \in memo : f # file => models'[f] = models[f]
    BY <2>1 DEF Adds
  <2> DEFINE name == def.name
  <2>8. functions' = IF def.kind = "service"
                     THEN [s \in DOMAIN functions \cup {<<file, <<name>>>>} |->
                                IF s \in DOMAIN functions THEN functions[s] ELSE own]
                     ELSE functions
    BY <2>1 DEF Adds
  <2>9. Listing'
    <3>1. \A f \in memo :
            /\ Listed(models[f])
            /\ \A m \in Defs(f) : Passed(f, m) =>
                    \A k \in 1 .. Size(Source(f)[m]) : EntryFor(f, m, k) \in Range(models[f])
            /\ \A entry \in Range(models[f]) : Heard(f, entry) \/ Bequeathed(entry)
      BY <2>2 DEF Listing
    <3>2. \A f, entry : Heard(f, entry) => Heard(f, entry)'
      BY <2>4, <2>6 DEF Heard
    <3>3. \A entry : Bequeathed(entry) => Bequeathed(entry)'
      BY <2>6 DEF Bequeathed
    <3>4. Listed(models'[file]) /\ Range(models'[file]) = Range(models[file]) \cup Range(added)
      BY <2>3, <2>5, <2>7, <3>1, Joined
    <3>5. \A entry \in Range(added) : \E k \in 1 .. Size(def) : entry = EntryFor(file, n, k)
      BY <2>5 DEF Range
    <3>6. \A k \in 1 .. Size(def) : EntryFor(file, n, k) \in Range(added)
      BY <2>5 DEF Range
    <3>7. \A entry \in Range(added) : Heard(file, entry)'
      BY <2>3, <2>4, <2>6, <3>5 DEF Heard
    <3>8. ASSUME NEW f \in memo
          PROVE  /\ Listed(models'[f])
                 /\ \A m \in Defs(f) : Passed(f, m)' =>
                        \A k \in 1 .. Size(Source(f)[m]) : EntryFor(f, m, k) \in Range(models'[f])
                 /\ \A entry \in Range(models'[f]) : Heard(f, entry)' \/ Bequeathed(entry)'
      <4>1. CASE f = file
        BY <2>3, <2>4, <3>1, <3>2, <3>3, <3>4, <3>6, <3>7, <4>1
      <4>2. CASE f # file
        BY <2>4, <2>7, <3>1, <3>2, <3>3, <4>2
      <4> QED
        BY <4>1, <4>2
    <3> QED
      BY <2>6, <2>7, <3>8 DEF Listing
  <2>10. Serving'
    <3>1. def.kind = "service" => Has(own)
      <4>1. WellFormed(def, program.files)
        BY <2>3, Programmed
      <4>2. ASSUME def.kind = "service" PROVE Has(own)
        <5>1. own = OwnList(file, n)
          BY <2>1, <4>2 DEF Adds
        <5> QED
          BY <2>3, <4>1, <4>2, <5>1, OwnHas DEF Is
      <4> QED
        BY <4>2
    <3>2. \A s \in DOMAIN functions : Has(functions[s])
      BY <2>2 DEF Serving, Has
    <3>3. \A s \in DOMAIN functions' : Has(functions'[s])
      BY <2>8, <3>1, <3>2
    <3>4. \A f, m : ServiceId(f, m)' = ServiceId(f, m)
      BY <2>6 DEF ServiceId
    <3>5. DOMAIN functions \subseteq DOMAIN functions'
      BY <2>8
    <3>6. Is(file, n, "service") => ServiceId(file, n) \in DOMAIN functions'
      BY <2>3, <2>8 DEF Is, ServiceId
    <3>7. \A f \in memo : \A m \in Defs(f) :
            Passed(f, m)' /\ Is(f, m, "service") => ServiceId(f, m) \in DOMAIN functions'
      BY <2>2, <2>4, <3>5, <3>6 DEF Serving
    <3> QED
      BY <2>6, <2>7, <3>3, <3>4, <3>7 DEF Serving, Has
  <2>11. Tables'
    BY <2>2, <2>6 DEF Tables
  <2> QED
    BY <2>2, <2>7, <2>9, <2>10, <2>11 DEF LinkInv
<1> QED
  BY <1>2, <1>3

-----------------------------------------------------------------------------
(* link starts with the entry point, once all files are compiled.          *)
Started == /\ CompileInv /\ phase = "link" /\ Listing /\ Serving /\ Tables
           /\ linked = {Module(Entry)} /\ DOMAIN value = {}
           /\ stack = <<Frame("link", Module(Entry), Names(Entry))>>

LEMMA StartedSolves == Started => LinkInv
<1> SUFFICES ASSUME Started PROVE LinkInv
  OBVIOUS
<1>1. Ready
  BY DEF Started, Ready
<1>2. PICK fr, id : id = Module(Entry) /\ fr = Frame("link", id, Todo(id))
  OBVIOUS
<1>3. Kind(id) = "module" /\ id[1] = Entry
  BY <1>2, Modules
<1>4. Todo(id) = Names(Entry)
  BY <1>3 DEF Todo
<1>5. stack = <<fr>> /\ DOMAIN stack = {1} /\ stack[1] = fr
  BY <1>2, <1>4 DEF Started
<1>6. id \in Linkable
  BY <1>1, <1>2, ReachedHolds DEF Ready, CompileInv, Programs1, Linkable, ModuleIds
<1>7. FrameFormed(fr) /\ FrameTrue(fr) /\ fr.id = id
  BY <1>1, <1>2, <1>3, <1>6, NewForm, NewFrameTrue, Frames
<1>8. Formed
  BY <1>5, <1>7 DEF Formed
<1>9. Truth
  <2>1. OnStack(id)
    BY <1>5, <1>7 DEF OnStack
  <2> QED
    BY <1>2, <1>5, <1>7, <2>1 DEF Truth, Started
<1> QED
  BY <1>8, <1>9 DEF LinkInv, Started

LEMMA CompileReturnsSolves ==
  ASSUME LinkInv, CompileReturns, CompileInv' PROVE LinkInv'
<1>1. phase = "compile" /\ UNCHANGED <<trees, memo, models, value, functions, consts>>
  BY DEF CompileReturns, Compiling
<1>2. \A file : \A m \in Defs(file) : Passed(file, m)' <=> Passed(file, m)
  BY ReturnPasses DEF LinkInv
<1>3. CASE phase' = phase /\ linked' = linked
  BY <1>1, <1>2, <1>3, CompileStays
<1>4. CASE /\ phase' = "link" /\ linked' = {Module(Entry)}
           /\ stack' = <<Frame("link", Module(Entry), Names(Entry))>>
  <2>1. /\ Listing /\ Serving /\ Tables /\ DOMAIN value = {} /\ CompileInv
    BY <1>1 DEF LinkInv, Live
  <2>2. /\ \A file : Source(file)' = Source(file) /\ Defs(file)' = Defs(file)
        /\ \A file, m, kind : Is(file, m, kind)' = Is(file, m, kind)
        /\ \A file, m, k : EntryFor(file, m, k)' = EntryFor(file, m, k)
        /\ Known' = Known /\ Linkable' = Linkable
        /\ \A id : Kind(id)' = Kind(id) /\ Def(id)' = Def(id)
    BY <1>1, ProgramStays, KnownStays, KindStays DEF trees
  <2>3. Listing'
    <3>1. \A file, entry : Heard(file, entry) => Heard(file, entry)'
      BY <1>2, <2>2 DEF Heard
    <3>2. \A entry : Bequeathed(entry) => Bequeathed(entry)'
      BY <2>2 DEF Bequeathed
    <3> QED
      BY <1>1, <1>2, <2>1, <2>2, <3>1, <3>2 DEF Listing
  <2>4. Serving'
    <3>1. \A file, m : ServiceId(file, m)' = ServiceId(file, m)
      BY <2>2 DEF ServiceId
    <3> QED
      BY <1>1, <1>2, <2>1, <2>2, <3>1 DEF Serving
  <2>5. Tables'
    <3>1. Module(Entry) \in Linkable /\ Kind(Module(Entry)) # "typedef"
      BY <2>1, ReachedHolds, Modules DEF CompileInv, Programs1, Linkable, ModuleIds
    <3> QED
      BY <1>1, <1>4, <2>1, <2>2, <3>1 DEF Tables, trees
  <2>6. Names(Entry)' = Names(Entry)
    BY <1>1 DEF Names
  <2>7. Started'
    BY <1>1, <1>4, <2>1, <2>3, <2>4, <2>5, <2>6 DEF Started
  <2> QED
    BY <2>7, StartedSolves, PTL
<1> QED
  BY <1>1, <1>3, <1>4 DEF CompileReturns

(* Nothing is compiled of the entry point when its Thrift is made.         *)
Fresh == /\ CompileInv /\ phase = "compile" /\ memo = {Entry} /\ linked = {} /\ DOMAIN value = {}
         /\ models = [file \in DOMAIN program.files |-> <<>>]
         /\ DOMAIN consts = DOMAIN program.files /\ DOMAIN functions = {}
         /\ stack = <<Frame("compile", Module(Entry), Source(Entry))>>

LEMMA NonePassed ==
  ASSUME Fresh PROVE \A m \in Defs(Entry) : ~Passed(Entry, m)
<1>1. /\ program \in Programs /\ Entry \in DOMAIN program.files
  BY ProgramsAssumption DEF Fresh, CompileInv, Programs1
<1>2. Len(Source(Entry)) \in Nat /\ Defs(Entry) = 1 .. Len(Source(Entry))
  BY <1>1, Programmed
<1>3. 1 \in DOMAIN stack /\ CompileOf(stack[1], Entry) /\ stack[1].todo = Source(Entry)
  BY Frames DEF Fresh, CompileOf
<1> QED
  BY <1>2, <1>3 DEF Passed

LEMMA FreshSolves == Fresh => LinkInv
<1> SUFFICES ASSUME Fresh PROVE LinkInv
  OBVIOUS
<1>1. /\ program \in Programs /\ Entry \in DOMAIN program.files /\ CompileInv
  BY ProgramsAssumption DEF Fresh, CompileInv, Programs1
<1>2. \A m \in Defs(Entry) : ~Passed(Entry, m)
  BY NonePassed
<1>3. models[Entry] = <<>>
  BY <1>1 DEF Fresh
<1>4. Listing
  <2>1. Listed(models[Entry]) /\ \A entry \in Range(models[Entry]) : FALSE
    BY <1>3 DEF Listed, Range
  <2>2. memo = {Entry}
    BY DEF Fresh
  <2> QED
    BY <1>2, <2>1, <2>2 DEF Listing
<1>5. Serving
  BY <1>2 DEF Fresh, Serving
<1>6. Tables
  BY DEF Fresh, Tables
<1> QED
  BY <1>1, <1>4, <1>5, <1>6 DEF Fresh, LinkInv

LEMMA MakeAgainSolves ==
  ASSUME LinkInv, MakeAgain, CompileInv' PROVE LinkInv'
<1>1. Source(Entry)' = Source(Entry)
  BY ProgramStays DEF MakeAgain
<1>2. Fresh'
  BY <1>1 DEF MakeAgain, Fresh
<1> QED
  BY <1>2, FreshSolves, PTL

(* A step that changes nothing.                                            *)
LEMMA StutterSolves ==
  ASSUME LinkInv, UNCHANGED vars, CompileInv' PROVE LinkInv'
<1>1. /\ UNCHANGED <<trees, phase, linked, value, consts>> /\ UNCHANGED <<trees, memo, models>>
      /\ UNCHANGED <<trees, memo, functions>> /\ stack' = stack /\ UNCHANGED trees
      /\ UNCHANGED <<trees, models, linked, value, functions, consts>> /\ memo' = memo
  BY DEF vars, trees
<1>2. CASE phase = "compile"
  <2>1. \A f : \A m \in Defs(f) : Passed(f, m)' <=> Passed(f, m)
    <3>1. \A f : Source(f)' = Source(f) /\ Defs(f)' = Defs(f)
      BY <1>1, ProgramStays DEF trees
    <3> QED
      BY <1>1, <3>1 DEF Passed, CompileOf, Module
  <2> QED
    BY <1>1, <1>2, <2>1, CompileStays
<1>3. CASE phase = "link"
  <2>1. PICK next : next = stack[Len(stack)]
    OBVIOUS
  <2>2. Ready /\ Serving /\ IsStack /\ next = Top /\ FrameFormed(next) /\ Len(stack) \in DOMAIN stack
    BY <1>3, <2>1, InLink
  <2>3. Ready' /\ Serving'
    BY <1>1, <1>3, <2>2, ListingStays, ServingStays
  <2>4. IsStack'
    BY <1>1, <2>2 DEF IsStack
  <2>5. ~Doomed /\ Truth => FrameTrue(next)
    BY <2>1, <2>2 DEF Truth
  <2> QED
    BY <1>1, <1>3, <2>1, <2>2, <2>3, <2>4, <2>5, TopChanges
<1>4. CASE phase = "done"
  <2>1. /\ Ready /\ Serving /\ Tables /\ stack = <<>> /\ Module(Entry) \in linked
    BY <1>4 DEF LinkInv, Live, Ready, CompileInv, StackInv, Running, Busy
  <2>2. DOMAIN stack = {} /\ DOMAIN stack = 1 .. 0
    BY <2>1
  <2>3. Truth /\ Formed
    BY <1>4, <2>2 DEF LinkInv, Doomed
  <2>4. Ready' /\ Serving'
    BY <1>1, <1>4, <2>1, ListingStays, ServingStays
  <2>5. Tables' /\ Formed'
    <3>1. Known' = Known /\ Linkable' = Linkable /\ \A id : Kind(id)' = Kind(id) /\ Def(id)' = Def(id)
      BY <1>1, KnownStays, KindStays DEF trees
    <3> QED
      BY <1>1, <2>1, <2>2, <3>1 DEF Tables, Formed, trees
  <2>6. Steady
    BY <1>1, <2>1, <2>4 DEF Steady, Keeps, KeepsConst
  <2>7. Truth'
    <3>1. \A id : ~OnStack(id)
      BY <2>2 DEF OnStack
    <3> QED
      BY <1>1, <2>2, <2>3, <2>6, <3>1, TruthAfter
  <2> QED
    BY <1>1, <1>4, <2>1, <2>4, <2>5, <2>7 DEF LinkInv, Ready
<1>5. CASE ~Live
  BY <1>1, <1>5 DEF LinkInv, Live
<1> QED
  BY <1>2, <1>3, <1>4, <1>5 DEF Live

-----------------------------------------------------------------------------
(* No step breaks it.                                                      *)
LEMMA LinkInvariant == Spec => []LinkInv
<1>1. Init => LinkInv
  <2> SUFFICES ASSUME Init PROVE LinkInv
    OBVIOUS
  <2>1. CompileInv
    BY CompileInvInitially
  <2>2. Fresh
    BY <2>1 DEF Init, Fresh
  <2> QED
    BY <2>2, FreshSolves
<1>2. LinkInv /\ CompileInv' /\ [Next]_vars => LinkInv'
  <2> SUFFICES ASSUME LinkInv, CompileInv', [Next]_vars PROVE LinkInv'
    OBVIOUS
  <2>1. CASE CompileInclude
    BY <2>1, CompileIncludeSolves
  <2>2. CASE CompileDefinition
    BY <2>2, CompileDefinitionSolves
  <2>3. CASE CompileReturns
    BY <2>3, CompileReturnsSolves
  <2>4. CASE ResolveNothing
    BY <2>4, ResolveNothingSolves
  <2>5. CASE CallLink
    BY <2>5, CallLinkSolves
  <2>6. CASE LinkReturns
    BY <2>6, LinkReturnsSolves
  <2>7. CASE CheckFields
    BY <2>7, CheckFieldsSolves
  <2>8. CASE Inherit
    BY <2>8, InheritSolves
  <2>9. CASE Finish
    BY <2>9, FinishSolves
  <2>10. CASE MakeAgain
    BY <2>10, MakeAgainSolves
  <2>11. CASE UNCHANGED vars
    BY <2>11, StutterSolves
  <2> QED
    BY <2>1, <2>2, <2>3, <2>4, <2>5, <2>6, <2>7, <2>8, <2>9, <2>10, <2>11 DEF Next
<1> QED
  BY <1>1, <1>2, CompileInvariant, PTL DEF Spec

(* In a Thrift that is made, all that is defined was linked.               *)
LEMMA AllComplete ==
  ASSUME LinkInv, phase = "done"
  PROVE  /\ Ready /\ Ids = Known /\ stack = <<>>
         /\ \A id \in Known : Complete(id) /\ ReturnsAtOnce(id)
<1>1. /\ Ready /\ Tables /\ stack = <<>> /\ Module(Entry) \in linked /\ program \in Programs
  BY DEF LinkInv, Live, Ready, CompileInv, StackInv, Running, Busy, Programs1
<1>2. Truth /\ \A id : ~OnStack(id)
  <2>1. DOMAIN stack = {}
    BY <1>1
  <2> QED
    BY <2>1 DEF LinkInv, Doomed, OnStack
<1> DEFINE S == {file \in Reached : Module(file) \in linked}
<1>3. ASSUME NEW file \in Reached, Module(file) \in linked PROVE AllEntered(file, <<>>)
  <2>1. Module(file)[1] = file /\ Module(file) \in ModuleIds
    BY Modules DEF ModuleIds
  <2>2. Module(file) \notin Known
    BY <2>1, NotModules
  <2> QED
    BY <1>2, <1>3, <2>1, <2>2 DEF Truth
<1>4. ASSUME NEW file \in Reached, Module(file) \in linked,
             NEW m \in Defs(file), NEW k \in 1 .. Size(Source(file)[m])
      PROVE  ReturnsAtOnce(EntryFor(file, m, k).id)
  <2>1. AllEntered(file, <<>>)
    BY <1>3, <1>4
  <2>2. Range(<<>>) = {}
    BY DEF Range
  <2> QED
    BY <1>4, <2>1, <2>2 DEF AllEntered
<1>5. S = Reached
  <2>1. Entry \in S
    BY <1>1, ReachedHolds
  <2>2. ASSUME NEW file \in S, NEW m \in Defs(file), Is(file, m, "include")
        PROVE  Source(file)[m].file \in S
    <3>1. Source(file)[m].file \in Reached
      BY <1>1, <2>2, ReachedHolds DEF Holds
    <3>2. 1 \in 1 .. Size(Source(file)[m])
      BY <2>2 DEF Is, Size
    <3>3. EntryFor(file, m, 1).id = Module(Source(file)[m].file)
      BY <2>2 DEF EntryFor
    <3>4. ReturnsAtOnce(Module(Source(file)[m].file))
      BY <1>4, <3>2, <3>3
    <3>5. Module(Source(file)[m].file) \in linked
      BY <3>4, Modules DEF ReturnsAtOnce
    <3> QED
      BY <3>1, <3>5
  <2>3. S \in SUBSET Reached /\ Holds(S)
    BY <2>2 DEF Holds
  <2> QED
    BY <1>1, <2>1, <2>3, ReachedHolds
<1>6. ASSUME NEW id \in Known PROVE Complete(id) /\ ReturnsAtOnce(id)
  <2>a. PICK file \in Reached : \E m \in Defs(file) : \E k \in 1 .. Size(Source(file)[m]) :
            ~Is(file, m, "include") /\ id = Part(file, m, k)
    BY <1>1, Origin DEF Ready
  <2>b. PICK m \in Defs(file) : \E k \in 1 .. Size(Source(file)[m]) :
            ~Is(file, m, "include") /\ id = Part(file, m, k)
    BY <2>a
  <2>1. PICK k \in 1 .. Size(Source(file)[m]) : ~Is(file, m, "include") /\ id = Part(file, m, k)
    BY <2>b
  <2>2. EntryFor(file, m, k).id = id
    BY <2>1 DEF EntryFor
  <2>3. ReturnsAtOnce(id)
    BY <1>4, <1>5, <2>2
  <2>4. id \notin ModuleIds
    BY NotModules
  <2> QED
    BY <1>2, <2>3, <2>4 DEF Truth, ReturnsAtOnce
<1> QED
  BY <1>1, <1>6, IdsAreKnown

(* A Thrift that is made solves its equations, for all programs: each      *)
(* const, typedef and struct is what the definitions it names mean, in     *)
(* whatever order they stand and are linked, in all modules; the program   *)
(* it is made of has no name that leads nowhere or to the wrong kind of    *)
(* definition, no field with a mark it must not have, and none that needs  *)
(* a mark because its default leads into a circle without a list.          *)
SolvedForGood == phase = "done" => Resolved /\ Marked(AlwaysNull)

THEOREM LinkedIsSolved == Spec => [](Solved /\ SolvedForGood)
<1>1. LinkInv => Solved /\ SolvedForGood
  <2> SUFFICES ASSUME LinkInv, phase = "done" PROVE Solved /\ Resolved /\ Marked(AlwaysNull)
    BY DEF Solved, SolvedForGood
  <2>1. Ready /\ Ids = Known /\ \A id \in Known : Complete(id)
    BY AllComplete
  <2>2. Solved
    <3> SUFFICES ASSUME NEW id \in Grounded
                 PROVE  /\ id \in DOMAIN value
                        /\ value[id] = Made(Def(id), Meanings(id))
                        /\ (Kind(id) = "const" /\ Homonyms(id) = {}) =>
                              consts[id[1]][<<Def(id).name>>] = value[id]
      BY DEF Solved
    <3>1. id \in Known /\ Kind(id) \in Valuable /\ Sound(id)
      BY <2>1 DEF Grounded, Referring, Valuable, Sound
    <3> QED
      BY <2>1, <3>1 DEF Complete
  <2>3. Resolved
    <3> SUFFICES ASSUME NEW id \in Ids, NEW ref \in Range(Refs(Def(id))), ref.path # Null
                 PROVE  RefTarget(id, ref) # Null /\ Role(RefTarget(id, ref)) = ref.role
      BY DEF Resolved
    <3>1. RefDone(id, ref)
      BY <2>1 DEF Complete
    <3> QED
      BY <3>1 DEF RefDone
  <2>4. Marked(AlwaysNull)
    BY <2>1 DEF Marked, Complete, Unfit
  <2> QED
    BY <2>2, <2>3, <2>4
<1> QED
  BY <1>1, LinkInvariant, PTL

-----------------------------------------------------------------------------
(* What services there are, and what they extend.                          *)
LEMMA ServiceIsThere ==
  ASSUME Ready, NEW file \in Reached, NEW m \in Defs(file), Is(file, m, "service")
  PROVE  /\ ServiceId(file, m) \in Services /\ ServiceId(file, m) \in Known
         /\ Kind(ServiceId(file, m)) = "service" /\ Def(ServiceId(file, m)) = Source(file)[m]
         /\ WellFormed(Source(file)[m], program.files)
         /\ program \in Programs /\ file \in DOMAIN program.files /\ Distinct(file)
<1>1. /\ program \in Programs /\ file \in DOMAIN program.files /\ Distinct(file)
  BY EntriesStand DEF Ready, CompileInv, Programs1
<1>2. WellFormed(Source(file)[m], program.files)
  BY <1>1, Programmed
<1>3. PICK def, k : def = Source(file)[m] /\ k = Size(def)
  OBVIOUS
<1>4. k \in 1 .. Size(def) /\ PathAt(def, k) = <<def.name>> /\ Entries(file, def)[k].def = def
  BY <1>2, <1>3, Sizes, EntriesHavePaths DEF PathAt
<1>5. ServiceId(file, m) = Part(file, m, k)
  BY <1>3, <1>4 DEF ServiceId, Part
<1>6. Def(ServiceId(file, m)) = def
  BY <1>1, <1>3, <1>4, <1>5, DefOfPart
<1>7. ServiceId(file, m) \in Known
  BY <1>3, <1>4, <1>5, PartIsKnown DEF Is
<1> QED
  BY <1>1, <1>2, <1>3, <1>6, <1>7, IdsAreKnown DEF Services, Kind, Is

LEMMA ServicesAre ==
  ASSUME Ready, NEW s \in Services
  PROVE  /\ s \in Known /\ Kind(s) = "service"
         /\ \E file \in Reached : \E m \in Defs(file) :
                Is(file, m, "service") /\ s = ServiceId(file, m)
BY IdsAreKnown, ServiceOf DEF Services

LEMMA Lineage ==
  ASSUME NEW s \in Services
  PROVE  /\ Bases(s) \subseteq Ancestors(s) /\ Ancestors(s) \subseteq Services
         /\ Bases(s) = {} => Ancestors(s) = {}
         /\ \A a \in Ancestors(s) : Bases(a) \subseteq Ancestors(s)
         /\ \A a \in Ancestors(s) : Ancestors(a) \subseteq Ancestors(s)
         /\ \A b : Bases(s) = {b} => Ancestors(s) = {b} \cup Ancestors(b)
<1> DEFINE Closed(S, t) == Bases(t) \subseteq S /\ \A b \in S : Bases(b) \subseteq S
<1>1. \A t : Ancestors(t) = {a \in Services : \A S \in SUBSET Services : Closed(S, t) => a \in S}
  BY DEF Ancestors
<1>2. \A t : Bases(t) \subseteq Services
  BY DEF Bases
<1>3. Bases(s) = {} => Closed({}, s)
  OBVIOUS
<1>4. ASSUME NEW a \in Ancestors(s), NEW S \in SUBSET Services, Closed(S, s)
      PROVE  Closed(S, a)
  BY <1>1, <1>4
<1>5. \A t : Bases(t) \subseteq Ancestors(t)
  BY <1>1, <1>2
<1>6. \A t : \A a \in Ancestors(t) : Bases(a) \subseteq Ancestors(t)
  BY <1>1, <1>2
<1>7. \A a \in Ancestors(s) : Ancestors(a) \subseteq Ancestors(s)
  BY <1>1, <1>4
<1>8. ASSUME NEW b, Bases(s) = {b} PROVE Ancestors(s) = {b} \cup Ancestors(b)
  <2>1. b \in Services /\ b \in Ancestors(s)
    BY <1>2, <1>5, <1>8
  <2>2. {b} \cup Ancestors(b) \in SUBSET Services
    BY <1>1, <2>1
  <2>3. Closed({b} \cup Ancestors(b), s)
    BY <1>5, <1>6, <1>8
  <2>4. Ancestors(s) \subseteq {b} \cup Ancestors(b)
    BY <1>1, <2>2, <2>3
  <2> QED
    BY <1>7, <2>1, <2>4
<1>9. Ancestors(s) \subseteq Services
  BY <1>1
<1>10. Bases(s) = {} => Ancestors(s) = {}
  BY <1>1, <1>3
<1> QED
  BY <1>5, <1>6, <1>7, <1>8, <1>9, <1>10

(* What is defined decides who extends whom, so no link changes it.        *)
LEMMA LineageStays ==
  ASSUME Ready, Ready', UNCHANGED trees
  PROVE  /\ Services' = Services /\ Straight' = Straight /\ (Resolved' <=> Resolved)
         /\ \A s \in Services : /\ Bases(s)' = Bases(s) /\ Ancestors(s)' = Ancestors(s)
                                /\ OwnNames(s)' = OwnNames(s)
                                /\ Unrepeated(s)' <=> Unrepeated(s)
<1>1. /\ \A id : Def(id)' = Def(id) /\ Kind(id)' = Kind(id) /\ Role(id)' = Role(id)
      /\ \A id : Refs(Def(id))' = Refs(Def(id))
      /\ \A id, ref : id \in Known /\ ref \in Range(Refs(Def(id))) =>
                            RefTarget(id, ref)' = RefTarget(id, ref)
      /\ \A id \in Known : Targets(id)' = Targets(id)
  BY TargetsStay
<1>2. Ids = Known /\ Ids' = Known
  BY IdsAreKnown, CirclesStay
<1>3. Services' = Services /\ Services \subseteq Known
  BY <1>1, <1>2 DEF Services
<1>4. \A s \in Services : Bases(s)' = Bases(s) /\ OwnNames(s)' = OwnNames(s)
  BY <1>1, <1>3 DEF Bases, OwnNames
<1>5. ASSUME NEW s \in Services PROVE Ancestors(s)' = Ancestors(s)
  <2> DEFINE T(a) == \A S \in SUBSET Services :
                        (Bases(s) \subseteq S /\ \A b \in S : Bases(b) \subseteq S) => a \in S
  <2>1. \A a : T(a)' <=> T(a)
    BY <1>3, <1>4
  <2>2. Ancestors(s) = {a \in Services : T(a)} /\ Ancestors(s)' = {a \in Services : T(a)}'
    BY DEF Ancestors
  <2> HIDE DEF T
  <2> QED
    BY <1>3, <2>1, <2>2
<1>6. \A s \in Services : Unrepeated(s)' <=> Unrepeated(s)
  BY <1>4, <1>5, Lineage DEF Unrepeated
<1>7. Straight' = Straight
  BY <1>3, <1>5, Lineage DEF Straight
<1>8. Resolved' <=> Resolved
  BY <1>1, <1>2 DEF Resolved
<1> QED
  BY <1>3, <1>4, <1>5, <1>6, <1>7, <1>8

(* A program in which a name leads nowhere or to the wrong kind of         *)
(* definition, and what a service is given for the name of its base.       *)
LEMMA MisledIsWrong ==
  ASSUME Ready, NEW fr, FrameFormed(fr), fr.todo # <<>>, Head(fr.todo) # Check,
         ~NamesNothing(Head(fr.todo)), NEW target, target = Target(fr.id, Head(fr.todo)),
         NotFound(Head(fr.todo), target) \/ Misled(fr)
  PROVE  ~Resolved
<1>1. PICK call : call = Head(fr.todo)
  OBVIOUS
<1>2. IsOwn(fr, call) \/ IsNamed(fr, call)
  BY <1>1, CallIs
<1>3. call.role # "own"
  BY <1>1 DEF NotFound, Misled
<1>4. /\ fr.id \in Known /\ call \in Range(Refs(Def(fr.id))) /\ call.path # Null
      /\ RefTarget(fr.id, call) = target
  BY <1>1, <1>2, <1>3, RefsOf, ItemsOf
     DEF IsOwn, IsNamed, IsRef, Refers, RefTarget, Target, Ready, At
<1>5. target = Null \/ Role(target) # call.role
  BY <1>1, <1>3 DEF NotFound, Misled
<1> QED
  BY <1>4, <1>5, IdsAreKnown DEF Resolved

LEMMA ResolvedIsTrue ==
  ASSUME LinkInv, phase = "link", Resolved PROVE ~Doomed /\ Truth
<1>1. Ready /\ Formed /\ (Doomed \/ Truth)
  BY InLink
<1>2. ASSUME NEW i \in DOMAIN stack, Misled(stack[i]) PROVE FALSE
  <2>1. FrameFormed(stack[i])
    BY <1>1 DEF Formed
  <2> QED
    BY <1>1, <1>2, <2>1, MisledIsWrong DEF Misled
<1> QED
  BY <1>1, <1>2 DEF Doomed

LEMMA ServiceIsSound ==
  ASSUME Ready, NEW s \in Services
  PROVE  /\ Sound(s) /\ Len(Refs(Def(s))) \in {0, 1}
         /\ \A ref \in Range(Refs(Def(s))) : ref.role = "service" /\ ref.path # Null
<1>1. s \in Known /\ Kind(s) = "service"
  BY ServicesAre
<1>2. PICK file \in Reached : \E m \in Defs(file) :
            WellFormed(Source(file)[m], program.files) /\ Def(s) = Source(file)[m]
  BY <1>1, ServiceOf
<1>3. PICK m \in Defs(file) :
            WellFormed(Source(file)[m], program.files) /\ Def(s) = Source(file)[m]
  BY <1>2
<1>4. Refs(Def(s)) = Def(s).refs
  BY <1>1 DEF Refs, Kind
<1>5. RefsFormed(Def(s).refs, "service") /\ Len(Def(s).refs) <= 1
  BY <1>1, <1>3 DEF WellFormed, Kind
<1>6. PICK refs : refs = Refs(Def(s))
  OBVIOUS
<1>7. \A ref \in Range(refs) : ref.role = "service" /\ ref.path # Null
  BY <1>4, <1>5, <1>6 DEF RefsFormed
<1>8. Len(refs) \in Nat /\ DOMAIN refs = 1 .. Len(refs) /\ \A j \in 1 .. Len(refs) : refs[j] \in Range(refs)
  BY <1>4, <1>5, <1>6, ItemsOf DEF RefsFormed
<1>9. Len(refs) \in {0, 1}
  <2>1. \A l \in Nat : l <= 1 => l \in {0, 1}
    OBVIOUS
  <2>2. PICK l : l = Len(refs)
    OBVIOUS
  <2>3. l \in Nat /\ l <= 1
    BY <1>4, <1>5, <1>6, <1>8, <2>2
  <2> QED
    BY <2>1, <2>2, <2>3
<1>10. Values(s) = {}
  BY <1>6, <1>7, <1>8 DEF Values
<1> QED
  BY <1>6, <1>7, <1>9, <1>10 DEF Sound

(* A service that has resolved the name of its base has got it.            *)
LEMMA BaseIs ==
  ASSUME LinkInv, phase = "link", Resolved, NEW fr, fr = Top, fr.todo = <<>>,
         fr.op = "link", Kind(fr.id) = "service"
  PROVE  /\ fr.id \in Services /\ Refers(fr)
         /\ \/ fr.got = <<>> /\ Bases(fr.id) = {}
            \/ \E b \in Services : /\ Bases(fr.id) = {b} /\ b \in linked
                                   /\ fr.got # <<>> /\ fr.got[1] = b
<1>1. /\ Ready /\ Truth /\ FrameFormed(fr) /\ FrameTrue(fr)
  BY InLink, ResolvedIsTrue DEF Truth
<1>2. PICK id, refs : id = fr.id /\ refs = Refs(Def(fr.id))
  OBVIOUS
<1>3. id \in Known /\ Refers(fr)
  BY <1>1, <1>2, Modules DEF FrameFormed, Linkable, ModuleIds, Refers
<1>4. id \in Services
  BY <1>1, <1>2, <1>3, IdsAreKnown DEF Services
<1>5. /\ Sound(id) /\ Len(refs) \in {0, 1}
      /\ \A ref \in Range(refs) : ref.role = "service" /\ ref.path # Null
  BY <1>1, <1>2, <1>4, ServiceIsSound
<1>6. /\ \A ref \in Range(refs) : RefDone(id, ref)
      /\ fr.got = Meanings(id)
  BY <1>1, <1>2, <1>3, <1>5, AllGiven
<1>7. DOMAIN refs = 1 .. Len(refs) /\ \A i \in 1 .. Len(refs) : refs[i] \in Range(refs)
  BY <1>1, <1>2, <1>3, RefsOf, ItemsOf DEF Ready
<1>8. /\ Targets(id) = [i \in DOMAIN refs |-> RefTarget(id, refs[i])]
      /\ Meanings(id) = [i \in DOMAIN refs |-> Meaning(id, refs[i])]
  BY <1>2, MeaningsAre DEF Targets
<1>9. CASE Len(refs) = 0
  <2>1. DOMAIN refs = {}
    BY <1>7, <1>9
  <2>2. Range(Targets(id)) = {}
    BY <1>8, <2>1 DEF Range
  <2>3. fr.got = <<>>
    <3>1. Len(fr.got) \in Nat /\ DOMAIN fr.got = 1 .. Len(fr.got) /\ Listed(fr.got)
      BY <1>1, <1>3, Position DEF FrameFormed
    <3>2. DOMAIN fr.got = {}
      BY <1>6, <1>8, <2>1
    <3>3. Len(fr.got) = 0
      <4>1. \A n \in Nat : 1 .. n = {} => n = 0
        OBVIOUS
      <4> QED
        BY <3>1, <3>2, <4>1
    <3> QED
      BY <3>1, <3>3 DEF Listed
  <2> QED
    BY <1>2, <1>3, <1>4, <2>2, <2>3 DEF Bases
<1>10. CASE Len(refs) = 1
  <2>1. DOMAIN refs = {1} /\ refs[1] \in Range(refs)
    BY <1>7, <1>10
  <2>2. PICK b : b = RefTarget(id, refs[1])
    OBVIOUS
  <2>3. b # Null /\ Role(b) = "service" /\ ReturnsAtOnce(b) /\ refs[1].path # Null
    BY <1>5, <1>6, <2>1, <2>2 DEF RefDone
  <2>4. Kind(b) = "service"
    BY <2>3 DEF Role
  <2>5. b \in linked
    BY <2>3, <2>4 DEF ReturnsAtOnce
  <2>6. Meaning(id, refs[1]) = b
    BY <2>2, <2>3, <2>4 DEF Meaning, Result
  <2>7. fr.got[1] = b /\ fr.got # <<>>
    <3>1. fr.got[1] = b /\ DOMAIN fr.got = {1}
      BY <1>6, <1>8, <2>1, <2>6
    <3>2. DOMAIN <<>> = {}
      OBVIOUS
    <3> QED
      BY <3>1, <3>2
  <2>8. b \in Known
    <3>1. Dotted(refs[1].path) /\ id[1] \in Reached
      BY <1>1, <1>2, <1>3, <2>1, <2>3, RefsDotted
    <3>2. b \in Linkable
      BY <1>1, <2>2, <2>3, <3>1, ResolvesTo DEF RefTarget
    <3> QED
      BY <2>4, <3>2, Modules DEF Linkable, ModuleIds
  <2>9. b \in Services
    BY <1>1, <2>4, <2>8, IdsAreKnown DEF Services
  <2>10. Range(Targets(id)) = {b}
    BY <1>8, <2>1, <2>2 DEF Range
  <2> QED
    BY <1>2, <1>3, <1>4, <2>5, <2>7, <2>9, <2>10 DEF Bases
<1> QED
  BY <1>5, <1>9, <1>10

-----------------------------------------------------------------------------
(* A service has its own functions until it has inherited; then it has     *)
(* those of its base as well.                                              *)
Compiled(file) == {ServiceId(file, m) :
                      m \in {m \in Defs(file) : Passed(file, m) /\ Is(file, m, "service")}}
Waits(s) == s \notin linked \/ \E i \in DOMAIN stack : stack[i].op = "link" /\ stack[i].id = s
Line(s) == UNION {OwnNames(a) : a \in {s} \cup Ancestors(s)}

(* No function is in it twice; its structs are structs; and those are what *)
(* Thrift.models of the file has under the name of the service.            *)
Halves == {"args", "result"}
NoneTwice(ids) ==
    \A i, j \in 1 .. Len(ids) : FunctionName(ids[i]) = FunctionName(ids[j]) => i = j
Built(ids) ==
    \A id \in Range(ids) : \A struct \in Halves : Kind(StructId(id, struct)) = "struct"
NamePath(s, f, struct) == StructOf(FunctionPath(s[2][1], f), struct)
EntryOf(s, id, struct) == [path |-> NamePath(s, FunctionName(id), struct),
                           id |-> StructId(id, struct)]
Provides(s) ==
    /\ \A id \in Range(functions[s]) : \A struct \in Halves :
            EntryOf(s, id, struct) \in Range(models[s[1]])
    /\ \A entry \in Range(models[s[1]]) :
            \A f \in Range(entry.path) : \A struct \in Halves :
                entry.path = NamePath(s, f, struct) =>
                    \E id \in Range(functions[s]) : entry = EntryOf(s, id, struct)
Inherits(s) ==
    /\ FunctionNames(functions[s]) \subseteq Line(s)
    /\ (~Waits(s) /\ s \in Straight) => /\ Line(s) \subseteq FunctionNames(functions[s])
                                        /\ Unrepeated(s)
Hands(fr) == fr.op = "functions" => \A call \in Range(fr.todo) : Kind(call.id) = "struct"

ServiceTrue(s) == /\ Listed(functions[s]) /\ NoneTwice(functions[s]) /\ Built(functions[s])
                  /\ Provides(s)
                  /\ Resolved => Inherits(s)
ServiceInv ==
    /\ Live => DOMAIN functions = UNION {Compiled(file) : file \in memo}
    /\ (phase = "compile") =>
            /\ \A file \in memo : \A m \in Defs(file) :
                  Passed(file, m) /\ Is(file, m, "service") =>
                        functions[ServiceId(file, m)] = OwnList(file, m)
            /\ \A file \in memo : \A entry \in Range(models[file]) : Heard(file, entry)
    /\ (phase \in {"link", "done"}) =>
            /\ \A file \in Reached : \A m \in Defs(file) :
                  Is(file, m, "service") /\ Waits(ServiceId(file, m)) =>
                        functions[ServiceId(file, m)] = OwnList(file, m)
            /\ \A s \in Services : ServiceTrue(s)
            /\ \A i \in DOMAIN stack : Hands(stack[i])

(* Of what the name of a struct consists.                                  *)
LEMMA PathShape ==
  ASSUME NEW n, NEW f, NEW struct, NEW path, path = StructOf(FunctionPath(n, f), struct)
  PROVE  /\ Listed(path) /\ Len(path) = 4
         /\ path[1] = n /\ path[2] = "::" /\ path[3] = f /\ path[4] = struct
         /\ f \in Range(path)
<1>1. PICK front : front = <<n, "::", f>>
  OBVIOUS
<1>2. Listed(front) /\ Len(front) = 3 /\ front[1] = n /\ front[2] = "::" /\ front[3] = f
  BY <1>1 DEF Listed, Range
<1>3. PICK t : t = Append(front, struct)
  OBVIOUS
<1>4. /\ Listed(t) /\ Len(t) = Len(front) + 1 /\ t[Len(front) + 1] = struct
      /\ \A i \in 1 .. Len(front) : t[i] = front[i]
  BY <1>2, <1>3, OneMore
<1>5. /\ Listed(t) /\ Len(t) = 4 /\ t[4] = struct
      /\ \A i \in 1 .. 3 : t[i] = front[i]
  BY <1>2, <1>4
<1>6. t[1] = n /\ t[2] = "::" /\ t[3] = f
  BY <1>2, <1>5
<1>7. f \in Range(t)
  <2>1. \A i \in 1 .. Len(t) : t[i] \in Range(t)
    BY <1>5, ItemsOf
  <2>2. 3 \in 1 .. Len(t)
    BY <1>5
  <2> QED
    BY <1>6, <2>1, <2>2
<1>8. path = t
  BY <1>1, <1>3 DEF StructOf, FunctionPath
<1> QED
  BY <1>5, <1>6, <1>7, <1>8

LEMMA NamesOf ==
  ASSUME NEW file, NEW n, NEW f, NEW struct, NEW id, id = <<file, FunctionPath(n, f)>>
  PROVE  FunctionName(id) = f /\ StructId(id, struct) = <<file, StructOf(FunctionPath(n, f), struct)>>
BY DEF FunctionName, FunctionPath, StructId

(* The functions a service defines itself.                                 *)
LEMMA OwnListIs ==
  ASSUME Ready, NEW file \in Reached, NEW m \in Defs(file), Is(file, m, "service")
  PROVE  /\ Has(OwnList(file, m)) /\ NoneTwice(OwnList(file, m)) /\ Built(OwnList(file, m))
         /\ FunctionNames(OwnList(file, m)) = OwnNames(ServiceId(file, m))
         /\ \A id \in Range(OwnList(file, m)) : \E i \in 1 .. Len(FunctionsOf(file, m)) :
                id = <<file, FunctionPath(Source(file)[m].name, FunctionsOf(file, m)[i].name)>>
<1>1. /\ Def(ServiceId(file, m)) = Source(file)[m] /\ WellFormed(Source(file)[m], program.files)
      /\ program \in Programs /\ file \in DOMAIN program.files /\ Distinct(file)
  BY ServiceIsThere
<1>2. PICK own, fs, n, name : /\ own = OwnList(file, m) /\ fs = FunctionsOf(file, m)
                              /\ n = Len(fs) /\ name = Source(file)[m].name
  OBVIOUS
<1>3. n \in Nat /\ DOMAIN fs = 1 .. n /\ fs = Source(file)[m].functions
  BY <1>1, <1>2, Sizes DEF Is, FunctionsOf
<1>4. Has(own)
  BY <1>1, <1>2, OwnHas
<1>5. /\ own = [i \in 1 .. n |-> <<file, FunctionPath(name, fs[i].name)>>]
      /\ \A i \in 1 .. n : own[i] = <<file, FunctionPath(name, fs[i].name)>>
  BY <1>2, <1>3 DEF OwnList
<1>6. Len(own) = n
  <2>1. Listed(own) /\ DOMAIN own = 1 .. n
    BY <1>4, <1>5 DEF Has
  <2> QED
    BY <1>3, <2>1 DEF Listed
<1>7. \A i \in 1 .. n : FunctionName(own[i]) = fs[i].name
  BY <1>5, NamesOf
<1>8. \A id \in Range(own) : \E i \in 1 .. n : id = own[i]
  BY <1>4, <1>6, ItemsOf DEF Has
<1>9. NoneTwice(own)
  <2> SUFFICES ASSUME NEW i \in 1 .. n, NEW j \in 1 .. n, fs[i].name = fs[j].name PROVE i = j
    BY <1>6, <1>7 DEF NoneTwice
  <2>1. /\ 2 * i \in 1 .. Size(Source(file)[m]) /\ 2 * j \in 1 .. Size(Source(file)[m])
        /\ PathAt(Source(file)[m], 2 * i) = PathAt(Source(file)[m], 2 * j)
    <3>1. PICK def : def = Source(file)[m]
      OBVIOUS
    <3>2. WellFormed(def, program.files) /\ def.kind = "service" /\ def.functions = fs /\ def.name = name
      BY <1>1, <1>2, <1>3, <3>1 DEF Is
    <3>3. \A h \in 1 .. n : /\ 2 * h \in 1 .. Size(def)
                            /\ PathAt(def, 2 * h) = StructOf(FunctionPath(name, fs[h].name), "result")
      <4> TAKE h \in 1 .. n
      <4>1. h \in 1 .. Len(def.functions)
        BY <1>2, <3>2
      <4>2. /\ 2 * h \in 1 .. Size(def)
            /\ PathAt(def, 2 * h) = StructOf(FunctionPath(def.name, def.functions[h].name), "result")
        BY <3>2, <4>1, FunctionPaths
      <4> QED
        BY <3>2, <4>2
    <3> QED
      BY <3>1, <3>3
  <2>2. 2 * i = 2 * j
    BY <1>1, <2>1 DEF Distinct
  <2> QED
    BY <1>3, <2>2
<1>10. Built(own)
  <2> SUFFICES ASSUME NEW i \in 1 .. n, NEW struct \in Halves
               PROVE  Kind(StructId(own[i], struct)) = "struct"
    BY <1>8 DEF Built
  <2>1. PICK path : path = FunctionPath(name, fs[i].name)
    OBVIOUS
  <2>2. PICK k \in 1 .. Size(Source(file)[m]) :
            /\ k # Size(Source(file)[m]) /\ StructId(<<file, path>>, struct) = Part(file, m, k)
    BY <1>1, <1>2, <2>1, StructIsPart DEF Halves
  <2>3. /\ Source(file)[m].kind = "service"
        /\ \E f, half : Entries(file, Source(file)[m])[k] =
                            FunctionEntry(file, Source(file)[m].name, f, half)
    <3>1. PICK def : def = Source(file)[m]
      OBVIOUS
    <3>2. WellFormed(def, program.files) /\ def.kind = "service" /\ k \in 1 .. Size(def) /\ k # Size(def)
      BY <1>1, <2>2, <3>1 DEF Is
    <3>3. Entries(file, def)[k] = FunctionEntry(file, def.name, def.functions[(k + 1) \div 2],
                                                Structs[2 - (k % 2)])
      BY <3>2, EntryDefs
    <3> QED
      BY <3>1, <3>2, <3>3
  <2>4. Def(Part(file, m, k)) = Entries(file, Source(file)[m])[k].def
    BY <1>1, DefOfPart
  <2>5. Def(Part(file, m, k)).kind = "struct"
    BY <2>3, <2>4 DEF FunctionEntry, Defines, Structure
  <2> QED
    BY <1>5, <2>1, <2>2, <2>5 DEF Kind
<1>11. FunctionNames(own) = OwnNames(ServiceId(file, m))
  <2>1. OwnNames(ServiceId(file, m)) = {fs[i].name : i \in 1 .. n}
    BY <1>1, <1>3 DEF OwnNames
  <2>2. \A i \in 1 .. n : own[i] \in Range(own)
    BY <1>4, <1>6, ItemsOf DEF Has
  <2> QED
    BY <1>7, <1>8, <2>1, <2>2 DEF FunctionNames
<1> QED
  BY <1>2, <1>4, <1>5, <1>8, <1>9, <1>10, <1>11

(* What a service has with what it inherits.                               *)
LEMMA JoinsNames ==
  ASSUME NEW own, NEW base, Listed(own), Listed(base)
  PROVE  /\ Listed(own \o base) /\ Range(own \o base) = Range(own) \cup Range(base)
         /\ FunctionNames(own \o base) = FunctionNames(own) \cup FunctionNames(base)
         /\ (/\ NoneTwice(own) /\ NoneTwice(base)
             /\ FunctionNames(own) \cap FunctionNames(base) = {}) => NoneTwice(own \o base)
<1>1. PICK n, k : n = Len(own) /\ k = Len(base)
  OBVIOUS
<1>2. /\ n \in Nat /\ k \in Nat /\ base = [i \in 1 .. k |-> base[i]]
      /\ (\A i \in 1 .. n : own[i] \in Range(own)) /\ (\A i \in 1 .. k : base[i] \in Range(base))
  BY <1>1, ItemsOf DEF Listed
<1>3. Listed(own \o base) /\ Range(own \o base) = Range(own) \cup Range(base)
  BY <1>1, <1>2, Joined
<1>4. FunctionNames(own \o base) = FunctionNames(own) \cup FunctionNames(base)
  BY <1>3 DEF FunctionNames
<1>5. /\ Len(own \o base) = n + k
      /\ \A i \in 1 .. n : (own \o base)[i] = own[i]
      /\ \A i \in n + 1 .. n + k : (own \o base)[i] = base[i - n]
  <2> DEFINE S == Range(own) \cup Range(base)
  <2>1. own \in Seq(S) /\ base \in Seq(S)
    <3>1. own \in Seq(Range(own)) /\ base \in Seq(Range(base))
      BY DEF Listed
    <3> QED
      BY <3>1
  <2> HIDE DEF S
  <2> QED
    BY <1>1, <1>2, <2>1
<1>6. ASSUME NoneTwice(own), NoneTwice(base), FunctionNames(own) \cap FunctionNames(base) = {}
      PROVE  NoneTwice(own \o base)
  <2>1. PICK all : all = own \o base
    OBVIOUS
  <2> SUFFICES ASSUME NEW i \in 1 .. n + k, NEW j \in 1 .. n + k,
                      FunctionName(all[i]) = FunctionName(all[j])
               PROVE  i = j
    BY <1>5, <2>1 DEF NoneTwice
  <2>2. \A h \in 1 .. n + k : \/ h \in 1 .. n /\ all[h] = own[h]
                              \/ h \in n + 1 .. n + k /\ h - n \in 1 .. k /\ all[h] = base[h - n]
    BY <1>2, <1>5, <2>1
  <2>3. CASE i \in 1 .. n /\ j \in 1 .. n
    <3>1. (i \notin n + 1 .. n + k) /\ (j \notin n + 1 .. n + k)
      BY <1>2, <2>3
    <3>2. all[i] = own[i] /\ all[j] = own[j]
      BY <2>2, <3>1
    <3> QED
      BY <1>1, <1>6, <2>3, <3>2 DEF NoneTwice
  <2>4. CASE i \in n + 1 .. n + k /\ j \in n + 1 .. n + k
    <3>1. i - n \in 1 .. k /\ j - n \in 1 .. k /\ all[i] = base[i - n] /\ all[j] = base[j - n]
      <4>1. (i \notin 1 .. n) /\ (j \notin 1 .. n)
        BY <1>2, <2>4
      <4> QED
        BY <2>2, <4>1
    <3>2. i - n = j - n
      BY <1>1, <1>6, <3>1 DEF NoneTwice
    <3> QED
      BY <1>2, <3>2
  <2>5. \A h \in 1 .. n, l \in 1 .. k : FunctionName(own[h]) # FunctionName(base[l])
    BY <1>2, <1>6 DEF FunctionNames
  <2> QED
    BY <1>2, <2>2, <2>3, <2>4, <2>5
<1> QED
  BY <1>3, <1>4, <1>6

-----------------------------------------------------------------------------
(* What a step leaves to the services that it does not concern.            *)
LEMMA OwnListStays ==
  ASSUME program' = program
  PROVE  \A file, m : /\ OwnList(file, m)' = OwnList(file, m)
                      /\ ServiceId(file, m)' = ServiceId(file, m)
BY ProgramStays DEF OwnList, ServiceId

LEMMA ServiceStays ==
  ASSUME Ready, Ready', UNCHANGED trees, NEW s \in Services, ServiceTrue(s),
         functions'[s] = functions[s], Provides(s)', Waits(s) => Waits(s)'
  PROVE  ServiceTrue(s)'
<1>1. /\ Services' = Services /\ Straight' = Straight /\ (Resolved' <=> Resolved)
      /\ \A t \in Services : /\ Ancestors(t)' = Ancestors(t) /\ OwnNames(t)' = OwnNames(t)
                             /\ Unrepeated(t)' <=> Unrepeated(t)
  BY LineageStays
<1>2. \A id : Kind(id)' = Kind(id)
  BY TargetsStay
<1>3. Listed(functions[s])' /\ NoneTwice(functions[s])' /\ Built(functions[s])'
  BY <1>2 DEF ServiceTrue, NoneTwice, Built
<1>4. Line(s)' = Line(s)
  BY <1>1, Lineage DEF Line
<1>5. FunctionNames(functions[s])' = FunctionNames(functions[s])
  BY DEF FunctionNames
<1>6. Inherits(s) => Inherits(s)'
  BY <1>1, <1>4, <1>5 DEF Inherits
<1> QED
  BY <1>1, <1>3, <1>6 DEF ServiceTrue

LEMMA AllCompiled ==
  ASSUME LinkInv, phase \in {"link", "done"}
  PROVE  \A file \in memo : Compiled(file) = {ServiceId(file, m) :
                                m \in {m \in Defs(file) : Is(file, m, "service")}}
<1>1. CompileInv /\ StackInv
  BY DEF LinkInv, CompileInv
<1> QED
  BY <1>1, AllPassed DEF Compiled

AllCompiledThen == phase \in {"link", "done"} =>
    \A file \in memo : Compiled(file) = {ServiceId(file, m) :
                                m \in {m \in Defs(file) : Is(file, m, "service")}}
LEMMA CompiledAll == LinkInv => AllCompiledThen
BY AllCompiled DEF AllCompiledThen

ReadyThen == phase \in {"link", "done"} => Ready
LEMMA ReadyLinks == LinkInv => ReadyThen
BY DEF LinkInv, Ready, Live, ReadyThen

LEMMA LinkReady ==
  ASSUME LinkInv, phase \in {"link", "done"} PROVE Ready
BY ReadyLinks DEF ReadyThen

LEMMA BothReady ==
  ASSUME LinkInv, phase \in {"link", "done"}, LinkInv', phase' \in {"link", "done"}
  PROVE  Ready /\ Ready'
<1>1. ReadyThen'
  BY ReadyLinks, PTL
<1> QED
  BY <1>1, ReadyLinks DEF ReadyThen

LEMMA CompiledStays ==
  ASSUME LinkInv, LinkInv', ServiceInv, phase \in {"link", "done"}, phase' \in {"link", "done"},
         UNCHANGED <<trees, memo>>, DOMAIN functions' = DOMAIN functions
  PROVE  DOMAIN functions' = (UNION {Compiled(file) : file \in memo})'
<1>1. /\ \A file, m : ServiceId(file, m)' = ServiceId(file, m)
      /\ \A file : Defs(file)' = Defs(file)
      /\ \A file, m, kind : Is(file, m, kind)' = Is(file, m, kind)
  BY OwnListStays, ProgramStays DEF trees
<1>2. DOMAIN functions = UNION {Compiled(file) : file \in memo}
  BY DEF ServiceInv, Live
<1>3. \A file \in memo : Compiled(file) = {ServiceId(file, m) :
                                m \in {m \in Defs(file) : Is(file, m, "service")}}
  BY AllCompiled
<1>4. AllCompiledThen'
  BY CompiledAll, PTL
<1>5. ASSUME NEW file \in memo PROVE Compiled(file)' = Compiled(file)
  <2>1. Compiled(file)' = {ServiceId(file, m) : m \in {m \in Defs(file) : Is(file, m, "service")}}'
    BY <1>4 DEF AllCompiledThen
  <2>2. Defs(file)' = Defs(file)
    BY <1>1
  <2>3. {ServiceId(file, m) : m \in {m \in Defs(file) : Is(file, m, "service")}}'
            = {ServiceId(file, m) : m \in {m \in Defs(file) : Is(file, m, "service")}}
    BY <1>1, <2>2
  <2> QED
    BY <1>3, <2>1, <2>3
<1> QED
  BY <1>2, <1>5

(* The steps of link that concern no service.                              *)
LEMMA Quiet ==
  ASSUME LinkInv, LinkInv', ServiceInv, phase \in {"link", "done"}, phase' \in {"link", "done"},
         UNCHANGED <<trees, memo, models, functions>>,
         \A s \in Services : Waits(s)' <=> Waits(s),
         (\A i \in DOMAIN stack : Hands(stack[i]))'
  PROVE  ServiceInv'
<1>1. Ready /\ Ready'
  BY BothReady
<1>2. program' = program /\ Services' = Services /\ Reached' = Reached
  BY <1>1, LineageStays, ProgramStays DEF trees
<1>3. /\ \A file, m : OwnList(file, m)' = OwnList(file, m) /\ ServiceId(file, m)' = ServiceId(file, m)
      /\ \A file : Defs(file)' = Defs(file)
      /\ \A file, m, kind : Is(file, m, kind)' = Is(file, m, kind)
  BY <1>2, OwnListStays, ProgramStays
<1>4. DOMAIN functions' = (UNION {Compiled(file) : file \in memo})'
  BY CompiledStays
<1>5. \A file \in Reached' : \A m \in Defs(file)' :
            (Is(file, m, "service") /\ Waits(ServiceId(file, m)))' =>
                functions'[ServiceId(file, m)'] = OwnList(file, m)'
  <2> SUFFICES ASSUME NEW file \in Reached, NEW m \in Defs(file), Is(file, m, "service"),
                      Waits(ServiceId(file, m))'
               PROVE  functions'[ServiceId(file, m)] = OwnList(file, m)
    BY <1>2, <1>3
  <2>1. PICK s : s = ServiceId(file, m)
    OBVIOUS
  <2>2. s \in Services
    BY <1>1, <2>1, ServiceIsThere
  <2>3. Waits(s)'
    BY <1>3, <2>1
  <2>4. Waits(s)
    BY <2>2, <2>3
  <2> QED
    BY <2>1, <2>4 DEF ServiceInv
<1>6. \A s \in Services' : ServiceTrue(s)'
  <2> SUFFICES ASSUME NEW s \in Services PROVE ServiceTrue(s)'
    BY <1>2
  <2>1. ServiceTrue(s) /\ (Waits(s) => Waits(s)')
    BY DEF ServiceInv
  <2>2. Provides(s)'
    BY <2>1 DEF ServiceTrue, Provides
  <2> QED
    BY <1>1, <2>1, <2>2, ServiceStays
<1> QED
  BY <1>4, <1>5, <1>6 DEF ServiceInv

LEMMA HandsStays ==
  ASSUME Ready, Ready', UNCHANGED trees, NEW fr, Hands(fr) PROVE Hands(fr)'
BY TargetsStay DEF Hands

(* A frame that goes on goes on with less to call.                         *)
LEMMA HandsGoesOn ==
  ASSUME Ready, Ready', UNCHANGED trees, NEW fr, FrameFormed(fr), fr.todo # <<>>, Hands(fr),
         NEW next, next.op = fr.op, next.todo = Tail(fr.todo)
  PROVE  Hands(next)'
<1>1. SUFFICES ASSUME next.op = "functions"
               PROVE  \A call \in Range(next.todo) : Kind(call.id)' = "struct"
  BY DEF Hands
<1>2. Listed(fr.todo)
  BY <1>1 DEF FrameFormed, OwnCalls
<1>3. Range(next.todo) \subseteq Range(fr.todo)
  BY <1>2, HeadIn
<1>4. \A call \in Range(fr.todo) : Kind(call.id) = "struct"
  BY <1>1 DEF Hands
<1> QED
  BY <1>3, <1>4, TargetsStay

LEMMA GoesOnQuietly ==
  ASSUME LinkInv, LinkInv', ServiceInv, phase = "link", stack # <<>>, Top.todo # <<>>,
         UNCHANGED <<trees, phase, memo, models, linked, functions>>,
         NEW got, stack' = GoOn(got)
  PROVE  ServiceInv'
<1>1. Ready /\ Ready'
  BY BothReady
<1>2. /\ IsStack /\ DOMAIN stack = 1 .. Len(stack) /\ Len(stack) \in Nat /\ Len(stack) >= 1
      /\ Top = stack[Len(stack)] /\ FrameFormed(Top) /\ Len(stack) \in DOMAIN stack
  BY InLink
<1>3. PICK l, fr, new : l = Len(stack) /\ fr = Top /\ new = stack'
  OBVIOUS
<1>4. /\ DOMAIN new = 1 .. l /\ new[l].op = fr.op /\ new[l].id = fr.id /\ new[l].todo = Tail(fr.todo)
      /\ \A i \in 1 .. l - 1 : new[i] = stack[i]
  BY <1>2, <1>3, FramesGoOn
<1>5. \A i \in 1 .. l : i \in 1 .. l - 1 \/ i = l
  <2>1. l \in Nat /\ l >= 1
    BY <1>2, <1>3
  <2> QED
    BY <2>1
<1>6. \A i \in 1 .. l : new[i].op = stack[i].op /\ new[i].id = stack[i].id
  BY <1>2, <1>3, <1>4, <1>5
<1>7. \A s : Waits(s)' <=> Waits(s)
  BY <1>2, <1>3, <1>4, <1>6 DEF Waits
<1>8. \A i \in 1 .. l : Hands(stack[i])
  BY <1>2, <1>3 DEF ServiceInv
<1>9. \A i \in 1 .. l : Hands(new[i])'
  <2> TAKE i \in 1 .. l
  <2>1. CASE i = l
    <3>1. PICK next : next = new[l]
      OBVIOUS
    <3>2. Hands(next)'
      BY <1>1, <1>2, <1>3, <1>4, <1>8, <2>1, <3>1, HandsGoesOn
    <3> QED
      BY <2>1, <3>1, <3>2
  <2>2. CASE i \in 1 .. l - 1
    <3>1. PICK next : next = stack[i]
      OBVIOUS
    <3>2. Hands(next)'
      BY <1>1, <1>8, <3>1, HandsStays
    <3> QED
      BY <1>4, <2>2, <3>1, <3>2
  <2> QED
    BY <1>5, <2>1, <2>2
<1>10. (\A i \in DOMAIN stack : Hands(stack[i]))'
  BY <1>3, <1>4, <1>9 DEF Hands
<1> QED
  BY <1>7, <1>10, Quiet

LEMMA ServesThrown ==
  ASSUME NEW how \in {"duplicate", "failed", "overflow"}, Throw(how) PROVE ServiceInv'
BY DEF Throw, ServiceInv, Live

LEMMA ResolveNothingServes ==
  ASSUME LinkInv, LinkInv', ServiceInv, ResolveNothing PROVE ServiceInv'
<1>1. phase = "link" /\ Top.todo # <<>>
  BY DEF ResolveNothing, Linking
<1>2. stack # <<>>
  BY <1>1, InLink
<1> QED
  BY <1>1, <1>2, GoesOnQuietly DEF ResolveNothing

LEMMA CheckFieldsServes ==
  ASSUME LinkInv, LinkInv', ServiceInv, CheckFields PROVE ServiceInv'
<1>1. phase = "link" /\ Top.todo # <<>>
  BY DEF CheckFields, Linking
<1>2. stack # <<>>
  BY <1>1, InLink
<1>3. CASE Throw("failed")
  BY <1>3, ServesThrown
<1>4. CASE ~Throw("failed")
  <2>1. /\ stack' = GoOn(Top.got)
        /\ UNCHANGED <<trees, phase, memo, models, linked, value, functions, consts>>
    BY <1>4 DEF CheckFields
  <2> QED
    BY <1>1, <1>2, <2>1, GoesOnQuietly
<1> QED
  BY <1>3, <1>4

LEMMA LinkReturnsServes ==
  ASSUME LinkInv, LinkInv', ServiceInv, LinkReturns PROVE ServiceInv'
<1>1. phase = "link" /\ Top.todo # <<>>
  BY DEF LinkReturns, Calling, Linking
<1>2. stack # <<>>
  BY <1>1, InLink
<1>3. CASE Throw("failed")
  BY <1>3, ServesThrown
<1>4. CASE ~Throw("failed")
  <2>1. /\ \E got : stack' = GoOn(got)
        /\ UNCHANGED <<trees, phase, memo, models, linked, value, functions, consts>>
    BY <1>4 DEF LinkReturns
  <2> QED
    BY <1>1, <1>2, <2>1, GoesOnQuietly
<1> QED
  BY <1>3, <1>4

(* A service that is entered waits as it did before.                       *)
LEMMA CallLinkServes ==
  ASSUME LinkInv, LinkInv', ServiceInv, CallLink PROVE ServiceInv'
<1>1. phase = "link" /\ Top.todo # <<>>
  BY DEF CallLink, Calling, Linking
<1>2. CASE Throw("failed") \/ Throw("overflow")
  BY <1>2, ServesThrown
<1>3. CASE ~(Throw("failed") \/ Throw("overflow"))
  <2>1. PICK target : /\ ~ReturnsAtOnce(target) /\ linked' = Entered(target)
                      /\ stack' = Append(stack, Frame("link", target, Todo(target)))
                      /\ UNCHANGED <<trees, phase, memo, models, value, functions, consts>>
    BY <1>3 DEF CallLink
  <2>2. Ready /\ Ready' /\ IsStack
    BY <1>1, <2>1, BothReady, InLink
  <2>3. PICK l, new, fr : /\ l = Len(stack) /\ new = stack'
                          /\ fr = Frame("link", target, Todo(target))
    OBVIOUS
  <2>4. /\ l \in Nat /\ DOMAIN stack = 1 .. l /\ DOMAIN new = 1 .. l + 1
        /\ new[l + 1] = fr /\ \A i \in 1 .. l : new[i] = stack[i]
    BY <2>1, <2>2, <2>3, Pushed, Frames
  <2>5. fr.op = "link" /\ fr.id = target
    BY <2>3, Frames
  <2>6. \A i \in 1 .. l + 1 : i \in 1 .. l \/ i = l + 1
    BY <2>4
  <2>7. (\A i \in DOMAIN stack : Hands(stack[i]))'
    <3> SUFFICES ASSUME NEW i \in 1 .. l + 1 PROVE Hands(new[i])'
      BY <2>3, <2>4 DEF Hands
    <3>1. CASE i = l + 1
      BY <2>4, <2>5, <3>1 DEF Hands
    <3>2. CASE i \in 1 .. l
      <4>1. PICK next : next = stack[i]
        OBVIOUS
      <4>2. Hands(next)
        BY <1>1, <2>4, <3>2, <4>1 DEF ServiceInv
      <4> QED
        BY <2>1, <2>2, <2>4, <3>2, <4>1, <4>2, HandsStays
    <3> QED
      BY <2>6, <3>1, <3>2
  <2>8. ASSUME NEW s \in Services PROVE Waits(s)' <=> Waits(s)
    <3>1. s \in linked' <=> s \in linked \/ s = target
      <4>1. Kind(s) = "service"
        BY <2>2, ServicesAre
      <4> QED
        BY <2>1, <4>1 DEF Entered
    <3>2. s = target => s \notin linked
      <4>1. Kind(s) = "service"
        BY <2>2, ServicesAre
      <4> QED
        BY <2>1, <4>1 DEF ReturnsAtOnce
    <3>3. (\E i \in 1 .. l + 1 : new[i].op = "link" /\ new[i].id = s)
            <=> s = target \/ \E i \in 1 .. l : stack[i].op = "link" /\ stack[i].id = s
      <4>1. l + 1 \in 1 .. l + 1 /\ \A i \in 1 .. l : i \in 1 .. l + 1
        BY <2>4
      <4> QED
        BY <2>4, <2>5, <2>6, <4>1
    <3> QED
      BY <2>3, <2>4, <3>1, <3>2, <3>3 DEF Waits
  <2> QED
    BY <1>1, <2>1, <2>7, <2>8, Quiet
<1> QED
  BY <1>2, <1>3

LEMMA FinishServes ==
  ASSUME LinkInv, LinkInv', ServiceInv, Finish PROVE ServiceInv'
<1>1. /\ phase = "link" /\ phase' \in {"link", "done"} /\ stack' = Below
      /\ ~(Top.op = "link" /\ Kind(Top.id) = "service")
      /\ UNCHANGED <<trees, memo, models, linked, functions>>
  BY DEF Finish, Linking
<1>2. Ready /\ Ready' /\ IsStack /\ stack # <<>> /\ Top = stack[Len(stack)]
  BY <1>1, BothReady, InLink
<1>3. PICK l, new : l = Len(stack) /\ new = stack'
  OBVIOUS
<1>4. /\ l \in Nat /\ l >= 1 /\ DOMAIN stack = 1 .. l /\ DOMAIN new = 1 .. l - 1
      /\ \A i \in 1 .. l - 1 : new[i] = stack[i]
  BY <1>1, <1>2, <1>3, Popped
<1>5. \A i \in 1 .. l : i \in 1 .. l - 1 \/ i = l
  BY <1>4
<1>6. \A i \in 1 .. l - 1 : i \in 1 .. l
  BY <1>4
<1>7. (\A i \in DOMAIN stack : Hands(stack[i]))'
  <2> SUFFICES ASSUME NEW i \in 1 .. l - 1 PROVE Hands(new[i])'
    BY <1>3, <1>4 DEF Hands
  <2>1. PICK next : next = stack[i]
    OBVIOUS
  <2>2. Hands(next)
    BY <1>1, <1>4, <1>6, <2>1 DEF ServiceInv
  <2> QED
    BY <1>1, <1>2, <1>4, <2>1, <2>2, HandsStays
<1>8. ASSUME NEW s \in Services PROVE Waits(s)' <=> Waits(s)
  <2>1. ~(stack[l].op = "link" /\ stack[l].id = s)
    BY <1>1, <1>2, <1>3, ServicesAre
  <2> QED
    BY <1>1, <1>3, <1>4, <1>5, <1>6, <2>1 DEF Waits
<1> QED
  BY <1>1, <1>7, <1>8, Quiet

(* The steps of compile that define nothing.                               *)
LEMMA NoneThere ==
  ASSUME LinkInv, phase = "compile", NEW file \in DOMAIN program.files, file \notin memo
  PROVE  Range(models[file]) = {}
<1>1. Modelled
  BY DEF LinkInv, CompileInv
<1>2. Paths(file) = UNION {PathSet(Source(file)[m]) : m \in {m \in Defs(file) : Passed(file, m)}}
  BY <1>1 DEF Modelled
<1>3. {m \in Defs(file) : Passed(file, m)} = {}
  BY DEF Passed
<1>4. Paths(file) = {}
  BY <1>2, <1>3
<1> QED
  BY <1>4 DEF Paths

LEMMA CompileQuiet ==
  ASSUME LinkInv, LinkInv', ServiceInv, phase = "compile", phase' = "compile", memo \subseteq memo',
         UNCHANGED <<trees, models, functions>>,
         \A file : \A m \in Defs(file) : Passed(file, m)' <=> Passed(file, m)
  PROVE  ServiceInv'
<1>1. memo' \subseteq DOMAIN program.files /\ program' = program
  <2>1. CompileInv'
    BY DEF LinkInv
  <2>2. FilesThere'
    BY <2>1, MemoIsThere, PTL
  <2> QED
    BY <2>2 DEF FilesThere, trees
<1>2. /\ \A file : Source(file)' = Source(file) /\ Defs(file)' = Defs(file)
      /\ \A file, m, kind : Is(file, m, kind)' = Is(file, m, kind)
      /\ \A file, m, k : EntryFor(file, m, k)' = EntryFor(file, m, k)
      /\ \A file, m : OwnList(file, m)' = OwnList(file, m) /\ ServiceId(file, m)' = ServiceId(file, m)
  BY <1>1, ProgramStays, KnownStays, OwnListStays
<1>3. \A file, m : Passed(file, m) => file \in memo
  BY DEF Passed
<1>4. \A file : Compiled(file)' = Compiled(file)
  BY <1>2 DEF Compiled
<1>5. \A file : file \notin memo => Compiled(file) = {}
  BY <1>3 DEF Compiled
<1>6. DOMAIN functions' = (UNION {Compiled(file) : file \in memo})'
  <2>1. DOMAIN functions = UNION {Compiled(file) : file \in memo}
    BY DEF ServiceInv, Live
  <2> QED
    BY <1>4, <1>5, <2>1
<1>7. ASSUME NEW file \in memo', NEW m \in Defs(file), Passed(file, m)', Is(file, m, "service")
      PROVE  functions'[ServiceId(file, m)] = OwnList(file, m)
  BY <1>2, <1>3, <1>7 DEF ServiceInv
<1>8. ASSUME NEW file \in memo', NEW entry \in Range(models[file]) PROVE Heard(file, entry)'
  <2>1. file \in memo
    BY <1>1, <1>8, NoneThere
  <2>2. Heard(file, entry)
    BY <2>1 DEF ServiceInv
  <2> QED
    BY <1>2, <2>2 DEF Heard
<1> QED
  BY <1>2, <1>6, <1>7, <1>8 DEF ServiceInv

LEMMA StutterServes ==
  ASSUME LinkInv, LinkInv', ServiceInv, UNCHANGED vars PROVE ServiceInv'
<1>1. UNCHANGED <<trees, phase, memo, models, linked, value, functions, consts, stack>>
  BY DEF vars, trees
<1>2. CASE phase \in {"link", "done"}
  <2>1. \A s : Waits(s)' <=> Waits(s)
    BY <1>1 DEF Waits
  <2>2. Ready /\ Ready'
    BY <1>1, <1>2, BothReady
  <2>3. \A i \in DOMAIN stack : Hands(stack[i])
    BY <1>2 DEF ServiceInv
  <2>4. (\A i \in DOMAIN stack : Hands(stack[i]))'
    <3> SUFFICES ASSUME NEW i \in DOMAIN stack, NEW fr, fr = stack[i] PROVE Hands(fr)'
      BY <1>1 DEF Hands
    <3> QED
      BY <1>1, <2>2, <2>3, HandsStays
  <2> QED
    BY <1>1, <1>2, <2>1, <2>4, Quiet
<1>3. CASE phase = "compile"
  <2>1. \A f : \A m \in Defs(f) : Passed(f, m)' <=> Passed(f, m)
    <3>1. \A f : Source(f)' = Source(f) /\ Defs(f)' = Defs(f)
      BY <1>1, ProgramStays DEF trees
    <3> QED
      BY <1>1, <3>1 DEF Passed, CompileOf, Module
  <2> QED
    BY <1>1, <1>3, <2>1, CompileQuiet
<1>4. CASE phase \notin {"compile", "link", "done"}
  BY <1>1, <1>4 DEF ServiceInv, Live
<1> QED
  BY <1>2, <1>3, <1>4

LEMMA CompileIncludeServes ==
  ASSUME LinkInv, LinkInv', ServiceInv, CompileInclude PROVE ServiceInv'
<1>1. /\ phase = "compile" /\ phase' = "compile" /\ memo \subseteq memo' /\ CompileInv
      /\ UNCHANGED <<trees, models, functions>>
  BY DEF CompileInclude, Compiling, LinkInv
<1> QED
  BY <1>1, IncludePasses, CompileQuiet

-----------------------------------------------------------------------------
(* A service finds its base half linked only where services extend each    *)
(* other in a circle: what is called on the way from the base down to the  *)
(* service is a chain of bases, or structs and what these refer to.        *)
LEMMA RefCalled ==
  ASSUME Ready, Resolved, NEW fr, FrameFormed(fr), Refers(fr), NEW id, Calls(fr, id)
  PROVE  /\ Head(fr.todo) \in Range(Refs(Def(fr.id))) /\ id = RefTarget(fr.id, Head(fr.todo))
         /\ RefOf(Head(fr.todo), Kind(fr.id)) /\ Role(id) = Head(fr.todo).role
         /\ id \in Linkable
<1>1. PICK call : call = Head(fr.todo)
  OBVIOUS
<1>2. fr.todo # <<>> /\ call # Check /\ ~NamesNothing(call) /\ id = Target(fr.id, call)
  BY <1>1 DEF Calls
<1>3. IsNamed(fr, call)
  BY <1>1, <1>2, CallIs DEF IsOwn
<1>4. /\ call \in Range(Refs(Def(fr.id))) /\ RefOf(call, Kind(fr.id)) /\ call.path # Null
      /\ id = RefTarget(fr.id, call) /\ (id = Null \/ id \in Linkable)
  BY <1>1, <1>2, <1>3 DEF IsNamed, IsRef
<1>5. fr.id \in Ids
  BY IdsAreKnown DEF Refers
<1>6. id # Null /\ Role(id) = call.role
  BY <1>4, <1>5 DEF Resolved
<1> QED
  BY <1>1, <1>4, <1>6

LEMMA CalledByService ==
  ASSUME Ready, Resolved, NEW fr, FrameFormed(fr), fr.op = "link", fr.id \in Services,
         NEW id, Calls(fr, id)
  PROVE  id \in Bases(fr.id)
<1>1. Refers(fr) /\ Kind(fr.id) = "service"
  BY ServicesAre DEF Refers
<1>2. PICK s, call : s = fr.id /\ call = Head(fr.todo)
  OBVIOUS
<1>3. /\ call \in Range(Refs(Def(s))) /\ id = RefTarget(s, call) /\ RefOf(call, "service")
      /\ Role(id) = call.role /\ id \in Linkable
  BY <1>1, <1>2, RefCalled
<1>4. call.path # Null /\ call.role = "service"
  BY <1>3 DEF RefOf, Roles
<1>5. Kind(id) = "service"
  BY <1>3, <1>4 DEF Role
<1>6. id \in Services
  BY <1>3, <1>5, Modules, IdsAreKnown DEF Linkable, ModuleIds, Services
<1>7. id \in Range(Targets(s))
  <2>1. Targets(s) = [i \in DOMAIN Refs(Def(s)) |-> RefTarget(s, Refs(Def(s))[i])]
    BY DEF Targets
  <2>2. PICK i \in DOMAIN Refs(Def(s)) : call = Refs(Def(s))[i]
    BY <1>3 DEF Range
  <2>3. PICK t, refs : t = Targets(s) /\ refs = Refs(Def(s))
    OBVIOUS
  <2>4. i \in DOMAIN t /\ t[i] = id
    BY <1>3, <2>1, <2>2, <2>3
  <2> QED
    BY <2>3, <2>4 DEF Range
<1> QED
  BY <1>2, <1>6, <1>7 DEF Bases

Low(fr) == fr.op = "functions" \/ Kind(fr.id) \notin {"service", "module"}
LEMMA CalledByLow ==
  ASSUME Ready, Resolved, NEW fr, FrameFormed(fr), Hands(fr), Low(fr), NEW id, Calls(fr, id)
  PROVE  Kind(id) \notin {"service", "module"}
<1>1. PICK call : call = Head(fr.todo)
  OBVIOUS
<1>2. fr.todo # <<>> /\ call # Check /\ ~NamesNothing(call) /\ id = Target(fr.id, call)
  BY <1>1 DEF Calls
<1>3. CASE fr.op = "functions"
  <2>1. Listed(fr.todo) /\ \A c \in Range(fr.todo) : OwnCall(c) /\ Kind(c.id) = "struct"
    BY <1>3 DEF FrameFormed, OwnCalls, Hands
  <2>2. call \in Range(fr.todo)
    BY <1>1, <1>2, <2>1, HeadIn
  <2>3. call.role = "own"
    BY <2>1, <2>2 DEF OwnCall, Own
  <2> QED
    BY <1>2, <2>1, <2>2, <2>3 DEF Target
<1>4. CASE fr.op # "functions"
  <2>1. Kind(fr.id) \notin {"service", "module"}
    BY <1>4 DEF Low
  <2>2. Refers(fr)
    BY <1>4, <2>1, Modules DEF FrameFormed, Linkable, ModuleIds, Refers
  <2>3. RefOf(call, Kind(fr.id)) /\ Role(id) = call.role
    BY <1>1, <2>2, RefCalled
  <2>4. call.role \notin {"service", "module"}
    BY <2>1, <2>3 DEF RefOf, Roles
  <2> QED
    BY <2>3, <2>4 DEF Role
<1> QED
  BY <1>3, <1>4

LEMMA BaseIsLinked ==
  ASSUME LinkInv, ServiceInv, phase = "link", Resolved, NEW fr, fr = Top, fr.op = "link",
         fr.id \in Services, fr.id \notin Ancestors(fr.id),
         NEW b \in Services, Bases(fr.id) = {b}, b \in linked
  PROVE  ~Waits(b)
<1>1. /\ Ready /\ Formed /\ DOMAIN stack = 1 .. Len(stack) /\ Len(stack) \in Nat
      /\ Top = stack[Len(stack)] /\ \A i \in DOMAIN stack : FrameFormed(stack[i])
  BY InLink
<1>2. \A i \in DOMAIN stack : Hands(stack[i])
  BY DEF ServiceInv
<1>3. SUFFICES ASSUME NEW i \in DOMAIN stack, stack[i].op = "link", stack[i].id = b PROVE FALSE
  BY DEF Waits
<1>4. PICK l : l = Len(stack)
  OBVIOUS
<1>5. /\ l \in Nat /\ i \in Nat /\ i \in 1 .. l /\ i \in i .. l
      /\ \A j \in i .. l : j \in 1 .. l /\ (j < l => j + 1 \in 1 .. l /\ j + 1 > 1 /\ j + 1 \in i .. l)
  BY <1>1, <1>4
<1> DEFINE chain(f) == f.op = "link" /\ f.id \in Services /\ f.id \in {b} \cup Ancestors(b)
           T == {j \in i .. l : chain(stack[j]) \/ Low(stack[j])}
<1>6. i \in T
  BY <1>3, <1>5
<1>7. ASSUME NEW j \in T, j < l PROVE j + 1 \in T
  <2>1. PICK at, next : at = stack[j] /\ next = stack[j + 1]
    OBVIOUS
  <2>2. j \in 1 .. l /\ j + 1 \in 1 .. l /\ j + 1 > 1 /\ j + 1 \in i .. l /\ (j + 1) - 1 = j
    BY <1>5, <1>7
  <2>3. FrameFormed(at) /\ Hands(at) /\ Calls(at, next.id) /\ FrameFormed(next)
    BY <1>1, <1>2, <1>4, <2>1, <2>2 DEF Formed
  <2>4. next.op \in {"link", "functions"}
    BY <2>3 DEF FrameFormed
  <2>5. CASE chain(at)
    <3>1. next.id \in Bases(at.id)
      BY <1>1, <2>3, <2>5, CalledByService
    <3>2. next.id \in Ancestors(b) /\ next.id \in Services
      BY <2>5, <3>1, Lineage DEF Bases
    <3>3. chain(next) \/ Low(next)
      BY <2>4, <3>2 DEF Low
    <3> QED
      BY <2>1, <2>2, <3>3
  <2>6. CASE Low(at)
    <3>1. Low(next)
      BY <1>1, <2>3, <2>6, CalledByLow DEF Low
    <3> QED
      BY <2>1, <2>2, <3>1
  <2> QED
    BY <2>1, <2>5, <2>6
<1> HIDE DEF T
<1>8. T \in SUBSET (i .. l)
  BY DEF T
<1>9. T = i .. l
  BY <1>5, <1>6, <1>7, <1>8, UpTo
<1>10. l \in T
  BY <1>5, <1>9
<1>11. ~Low(fr)
  BY <1>1, ServicesAre DEF Low
<1>12. fr.id \in {b} \cup Ancestors(b)
  BY <1>1, <1>4, <1>10, <1>11 DEF T
<1> QED
  BY <1>12, Lineage

-----------------------------------------------------------------------------
(* What a service is handed down, and what it links then.                  *)
Bequest(name, id, struct) ==
    [path |-> StructOf(FunctionPath(name, FunctionName(id)), struct), id |-> StructId(id, struct)]

LEMMA HandedAre ==
  ASSUME NEW base, Listed(base), NEW name
  PROVE  /\ \A entry \in Range(Handed(base, name)) : \E id \in Range(base) :
                \E struct \in Halves : entry = Bequest(name, id, struct)
         /\ \A id \in Range(base) : \A struct \in Halves :
                Bequest(name, id, struct) \in Range(Handed(base, name))
<1> DEFINE n == Len(base)
           entry(k) == Bequest(name, base[(k + 1) \div 2], Structs[2 - (k % 2)])
<1>1. /\ n \in Nat /\ 2 * n \in Nat /\ \A i \in 1 .. n : base[i] \in Range(base)
      /\ \A id \in Range(base) : \E i \in 1 .. n : id = base[i]
  BY ItemsOf
<1>2. Handed(base, name) = [k \in 1 .. 2 * n |-> entry(k)]
  BY DEF Handed, Both, Bequest
<1>3. ASSUME NEW k \in 1 .. 2 * n
      PROVE  \E id \in Range(base) : \E struct \in Halves : entry(k) = Bequest(name, id, struct)
  <2>1. (k + 1) \div 2 \in 1 .. n /\ Structs[2 - (k % 2)] \in Halves
    BY <1>1, <1>3, BothOf DEF Halves
  <2> QED
    BY <1>1, <2>1
<1>4. ASSUME NEW i \in 1 .. n, NEW struct \in Halves
      PROVE  \E k \in 1 .. 2 * n : entry(k) = Bequest(name, base[i], struct)
  <2>1. CASE struct = "args"
    <3>1. 2 * i - 1 \in 1 .. 2 * n /\ ((2 * i - 1) + 1) \div 2 = i /\ 2 - ((2 * i - 1) % 2) = 1
      BY <1>1
    <3>2. entry(2 * i - 1) = Bequest(name, base[i], Structs[1])
      BY <3>1
    <3> QED
      BY <2>1, <3>1, <3>2 DEF Structs
  <2>2. CASE struct = "result"
    <3>1. 2 * i \in 1 .. 2 * n /\ ((2 * i) + 1) \div 2 = i /\ 2 - ((2 * i) % 2) = 2
      BY <1>1
    <3>2. entry(2 * i) = Bequest(name, base[i], Structs[2])
      BY <3>1
    <3> QED
      BY <2>2, <3>1, <3>2 DEF Structs
  <2> QED
    BY <2>1, <2>2 DEF Halves
<1> HIDE DEF n, entry
<1>5. /\ \A x \in Range(Handed(base, name)) : \E k \in 1 .. 2 * n : x = entry(k)
      /\ \A k \in 1 .. 2 * n : entry(k) \in Range(Handed(base, name))
  BY <1>2 DEF Range
<1>6. \A x \in Range(Handed(base, name)) : \E id \in Range(base) :
            \E struct \in Halves : x = Bequest(name, id, struct)
  BY <1>3, <1>5
<1>7. ASSUME NEW id \in Range(base), NEW struct \in Halves
      PROVE  Bequest(name, id, struct) \in Range(Handed(base, name))
  <2>1. PICK i \in 1 .. n : id = base[i]
    BY <1>1
  <2>2. PICK k \in 1 .. 2 * n : entry(k) = Bequest(name, base[i], struct)
    BY <1>4
  <2> QED
    BY <1>5, <2>1, <2>2
<1> QED
  BY <1>6, <1>7

LEMMA OwnStructsCalled ==
  ASSUME NEW all, Listed(all)
  PROVE  \A call \in Range(OwnStructs(all)) : \E id \in Range(all) :
            \E struct \in Halves : call.id = StructId(id, struct)
<1> DEFINE n == Len(all)
           call(k) == Own(StructId(all[(k + 1) \div 2], Structs[2 - (k % 2)]))
<1>1. n \in Nat /\ \A i \in 1 .. n : all[i] \in Range(all)
  BY ItemsOf
<1>2. OwnStructs(all) = [k \in 1 .. 2 * n |-> call(k)]
  BY DEF OwnStructs, Both
<1>3. ASSUME NEW k \in 1 .. 2 * n
      PROVE  \E id \in Range(all) : \E struct \in Halves : call(k).id = StructId(id, struct)
  <2>1. (k + 1) \div 2 \in 1 .. n /\ Structs[2 - (k % 2)] \in Halves
    BY <1>1, <1>3, BothOf DEF Halves
  <2> QED
    BY <1>1, <2>1 DEF Own
<1> HIDE DEF n, call
<1>4. \A x \in Range(OwnStructs(all)) : \E k \in 1 .. 2 * n : x = call(k)
  BY <1>2 DEF Range
<1> QED
  BY <1>3, <1>4

(* Where a service is, its own functions before it inherits, and what it   *)
(* takes: nothing, or what its base has.                                   *)
LEMMA ServiceNamed ==
  ASSUME Ready, NEW s \in Services
  PROVE  /\ s = <<s[1], <<s[2][1]>>>> /\ Def(s).name = s[2][1]
         /\ s[1] \in memo /\ s[1] \in Reached
<1>1. PICK file \in Reached : \E m \in Defs(file) :
            Is(file, m, "service") /\ s = ServiceId(file, m)
  BY ServicesAre
<1>2. PICK m \in Defs(file) : Is(file, m, "service") /\ s = ServiceId(file, m)
  BY <1>1
<1>3. Def(s) = Source(file)[m]
  BY <1>2, ServiceIsThere
<1>4. s[1] = file /\ s[2] = <<Source(file)[m].name>> /\ file \in memo
  BY <1>2, EntriesStand DEF ServiceId
<1> QED
  BY <1>2, <1>3, <1>4 DEF ServiceId

LEMMA OwnNamesAre ==
  ASSUME LinkInv, ServiceInv, phase \in {"link", "done"}, NEW s \in Services, Waits(s)
  PROVE  FunctionNames(functions[s]) = OwnNames(s)
<1>0. Ready
  BY LinkReady
<1>1. PICK file \in Reached : \E m \in Defs(file) :
            Is(file, m, "service") /\ s = ServiceId(file, m)
  BY <1>0, ServicesAre
<1>2. PICK m \in Defs(file) : Is(file, m, "service") /\ s = ServiceId(file, m)
  BY <1>1
<1>3. functions[s] = OwnList(file, m)
  BY <1>2 DEF ServiceInv
<1> QED
  BY <1>0, <1>2, <1>3, OwnListIs

LEMMA BaseList ==
  ASSUME LinkInv, ServiceInv, phase = "link", NEW fr, fr = Top, fr.op = "link",
         Kind(fr.id) = "service", NEW base, base = Inherited(fr.got)
  PROVE  /\ fr.id \in Services /\ Waits(fr.id)
         /\ base = <<>> \/ \E b \in Services : base = functions[b]
         /\ Listed(base) /\ NoneTwice(base) /\ Built(base)
<1>1. /\ Ready /\ FrameFormed(fr) /\ Len(stack) \in DOMAIN stack /\ fr = stack[Len(stack)]
  BY InLink
<1>2. Refers(fr) /\ fr.id \in Known
  BY <1>1, Modules DEF FrameFormed, Linkable, ModuleIds, Refers
<1>3. fr.id \in Services
  BY <1>1, <1>2, IdsAreKnown DEF Services
<1>4. Waits(fr.id)
  BY <1>1 DEF Waits
<1>5. base = <<>> \/ \E b \in Services : base = functions[b]
  <2>1. CASE fr.got = <<>>
    BY <2>1 DEF Inherited
  <2>2. CASE fr.got # <<>>
    <3>1. Listed(fr.got) /\ Len(fr.got) \in Nat
      BY <1>1, <1>2, Position DEF FrameFormed
    <3>2. 1 \in 1 .. Len(fr.got)
      BY <2>2, <3>1 DEF Listed
    <3>3. fr.got[1] \in Range(fr.got)
      BY <3>1, <3>2, ItemsOf
    <3>4. fr.got[1] \in Known /\ Kind(fr.got[1]) = "service"
      BY <1>1, <1>2, <3>3 DEF FrameFormed
    <3>5. fr.got[1] \in Services
      BY <1>1, <3>4, IdsAreKnown DEF Services
    <3> QED
      BY <2>2, <3>5 DEF Inherited
  <2> QED
    BY <2>1, <2>2
<1>6. CASE base = <<>>
  <2>1. Listed(<<>>) /\ Range(<<>>) = {} /\ Len(<<>>) = 0
    BY DEF Listed, Range
  <2>2. 1 .. 0 = {}
    OBVIOUS
  <2> QED
    BY <1>3, <1>4, <1>6, <2>1, <2>2 DEF NoneTwice, Built
<1>7. CASE \E b \in Services : base = functions[b]
  BY <1>3, <1>4, <1>7 DEF ServiceInv, ServiceTrue
<1> QED
  BY <1>5, <1>6, <1>7

(* What the base hands down, if all names lead where they should.          *)
LEMMA BaseNames ==
  ASSUME LinkInv, ServiceInv, phase = "link", Resolved, NEW fr, fr = Top, fr.todo = <<>>,
         fr.op = "link", Kind(fr.id) = "service", NEW base, base = Inherited(fr.got)
  PROVE  /\ FunctionNames(base) \subseteq UNION {OwnNames(a) : a \in Ancestors(fr.id)}
         /\ fr.id \in Straight =>
                \A a \in Ancestors(fr.id) : OwnNames(a) \subseteq FunctionNames(base)
<1>1. /\ fr.id \in Services
      /\ \/ fr.got = <<>> /\ Bases(fr.id) = {}
         \/ \E b \in Services : /\ Bases(fr.id) = {b} /\ b \in linked
                                /\ fr.got # <<>> /\ fr.got[1] = b
  BY BaseIs
<1>2. CASE fr.got = <<>> /\ Bases(fr.id) = {}
  <2>1. base = <<>> /\ Ancestors(fr.id) = {}
    BY <1>1, <1>2, Lineage DEF Inherited
  <2>2. FunctionNames(base) = {}
    BY <2>1 DEF FunctionNames, Range
  <2> QED
    BY <2>1, <2>2
<1>3. ASSUME NEW b \in Services, Bases(fr.id) = {b}, b \in linked, fr.got # <<>>, fr.got[1] = b
      PROVE  /\ FunctionNames(base) \subseteq UNION {OwnNames(a) : a \in Ancestors(fr.id)}
             /\ fr.id \in Straight =>
                \A a \in Ancestors(fr.id) : OwnNames(a) \subseteq FunctionNames(base)
  <2>1. base = functions[b]
    BY <1>3 DEF Inherited
  <2>2. Inherits(b)
    BY DEF ServiceInv, ServiceTrue
  <2>3. Ancestors(fr.id) = {b} \cup Ancestors(b)
    BY <1>1, <1>3, Lineage
  <2>4. Line(b) = UNION {OwnNames(a) : a \in Ancestors(fr.id)}
    BY <2>3 DEF Line
  <2>5. ASSUME fr.id \in Straight
        PROVE  \A a \in Ancestors(fr.id) : OwnNames(a) \subseteq FunctionNames(base)
    <3>1. fr.id \notin Ancestors(fr.id) /\ \A a \in Ancestors(fr.id) : a \notin Ancestors(a)
      BY <2>5 DEF Straight
    <3>2. ~Waits(b)
      BY <1>1, <1>3, <3>1, BaseIsLinked
    <3>3. b \in Straight
      BY <2>3, <3>1 DEF Straight
    <3>4. Line(b) \subseteq FunctionNames(base)
      BY <2>1, <2>2, <3>2, <3>3 DEF Inherits
    <3> QED
      BY <2>4, <3>4
  <2> QED
    BY <2>1, <2>2, <2>4, <2>5 DEF Inherits
<1> QED
  BY <1>1, <1>2, <1>3

LEMMA ModelsTaken ==
  ASSUME LinkInv, phase = "link", NEW fr, NEW base, Takes(fr, base), fr.id \in Services
  PROVE  /\ Range(models'[fr.id[1]]) =
                Range(models[fr.id[1]]) \cup Range(Handed(base, fr.id[2][1]))
         /\ \A t \in Services : t[1] # fr.id[1] => models'[t[1]] = models[t[1]]
         /\ functions'[fr.id] = functions[fr.id] \o base
         /\ \A t \in Services : t # fr.id => functions'[t] = functions[t]
         /\ DOMAIN functions' = DOMAIN functions /\ Listed(functions[fr.id]) /\ Listed(base)
<1>0. PICK s, name : s = fr.id /\ name = s[2][1]
  OBVIOUS
<1>1. Ready /\ Def(s).name = name /\ \A t \in Services : t[1] \in memo /\ t[1] \in DOMAIN models
  <2>1. Ready
    BY InLink
  <2>2. \A t \in Services : t[1] \in Reached
    BY <2>1, ServiceNamed
  <2> QED
    BY <1>0, <2>1, <2>2, ServiceNamed, ReachedHolds DEF Ready, CompileInv, Programs1
<1>2. /\ s \in DOMAIN functions /\ Has(functions[s]) /\ Has(base)
  BY <1>0, BaseHas
<1>3. PICK handed : handed = Handed(base, name)
  OBVIOUS
<1>4. handed = [k \in 1 .. 2 * Len(base) |-> handed[k]] /\ 2 * Len(base) \in Nat
  BY <1>2, <1>3, HandedDown
<1>5. Listed(models[s[1]])
  BY <1>0, <1>1 DEF Ready, Listing
<1>6. models'[s[1]] = models[s[1]] \o handed /\ \A t \in Services : t[1] # s[1] => models'[t[1]] = models[t[1]]
  BY <1>0, <1>1, <1>3 DEF Takes
<1>7. Range(models'[s[1]]) = Range(models[s[1]]) \cup Range(handed)
  BY <1>4, <1>5, <1>6, Joined
<1>8. /\ functions'[s] = functions[s] \o base /\ DOMAIN functions' = DOMAIN functions
      /\ \A t \in Services : t # s => functions'[t] = functions[t]
  <2>1. functions' = [functions EXCEPT ![s] = functions[s] \o base]
    BY <1>0 DEF Takes
  <2>2. \A t \in Services : t \in DOMAIN functions
    BY <1>1, InLink, ServiceIs, ServicesAre
  <2> QED
    BY <1>0, <1>2, <2>1, <2>2
<1> QED
  BY <1>0, <1>2, <1>3, <1>6, <1>7, <1>8 DEF Has

LEMMA BequestIs ==
  ASSUME NEW s, NEW name, name = s[2][1], NEW id, NEW struct
  PROVE  Bequest(name, id, struct) = EntryOf(s, id, struct)
BY DEF Bequest, EntryOf, NamePath

(* Thrift.models gives the structs of a service under its name, and it     *)
(* gives none that the service does not have.                              *)
LEMMA ProvidesTaken ==
  ASSUME LinkInv, phase = "link", NEW fr, NEW base, Takes(fr, base), fr.id \in Services,
         Provides(fr.id)
  PROVE  Provides(fr.id)'
<1>1. PICK s, name, handed : s = fr.id /\ name = s[2][1] /\ handed = Handed(base, name)
  OBVIOUS
<1>2. /\ Range(models'[s[1]]) = Range(models[s[1]]) \cup Range(handed)
      /\ functions'[s] = functions[s] \o base /\ Listed(functions[s]) /\ Listed(base)
  <2>1. Range(models'[s[1]]) = Range(models[s[1]]) \cup Range(handed)
    BY <1>1, ModelsTaken
  <2>2. functions'[s] = functions[s] \o base
    BY <1>1, ModelsTaken
  <2>3. Listed(functions[s])
    BY <1>1, ModelsTaken
  <2>4. Listed(base)
    BY <1>1, ModelsTaken
  <2> QED
    BY <2>1, <2>2, <2>3, <2>4
<1>3. Range(functions'[s]) = Range(functions[s]) \cup Range(base)
  BY <1>2, JoinsNames
<1>4. ASSUME NEW id \in Range(functions'[s]), NEW struct \in Halves
      PROVE  EntryOf(s, id, struct) \in Range(models'[s[1]])
  <2>1. CASE id \in Range(functions[s])
    BY <1>1, <1>2, <2>1 DEF Provides
  <2>2. CASE id \in Range(base)
    <3>1. Bequest(name, id, struct) \in Range(handed)
      BY <1>1, <1>2, <2>2, HandedAre
    <3> QED
      BY <1>1, <1>2, <3>1, BequestIs
  <2> QED
    BY <1>3, <2>1, <2>2
<1>5. ASSUME NEW entry \in Range(models'[s[1]]), NEW f \in Range(entry.path), NEW struct \in Halves,
             entry.path = NamePath(s, f, struct)
      PROVE  \E id \in Range(functions'[s]) : entry = EntryOf(s, id, struct)
  <2>1. CASE entry \in Range(models[s[1]])
    BY <1>1, <1>3, <1>5, <2>1 DEF Provides
  <2>2. CASE entry \in Range(handed)
    <3>1. PICK id \in Range(base), half \in Halves : entry = Bequest(name, id, half)
      BY <1>1, <1>2, <2>2, HandedAre
    <3>2. entry.path = StructOf(FunctionPath(name, FunctionName(id)), half)
      BY <3>1 DEF Bequest
    <3>3. entry.path[4] = half
      BY <3>2, PathShape
    <3>4. entry.path[4] = struct
      BY <1>5, PathShape DEF NamePath
    <3> QED
      BY <1>1, <1>3, <3>1, <3>3, <3>4, BequestIs
  <2> QED
    BY <1>2, <1>5, <2>1, <2>2
<1> QED
  BY <1>1, <1>4, <1>5 DEF Provides, EntryOf, NamePath

LEMMA ProvidesStays ==
  ASSUME LinkInv, phase = "link", NEW fr, NEW base, Takes(fr, base), fr.id \in Services,
         NEW t \in Services, t # fr.id, Provides(t)
  PROVE  Provides(t)'
<1>1. PICK s, name, handed : s = fr.id /\ name = s[2][1] /\ handed = Handed(base, name)
  OBVIOUS
<1>2. /\ Range(models'[s[1]]) = Range(models[s[1]]) \cup Range(handed)
      /\ t[1] # s[1] => models'[t[1]] = models[t[1]]
      /\ functions'[t] = functions[t] /\ Listed(base)
  BY <1>1, ModelsTaken
<1>3. Range(models[t[1]]) \subseteq Range(models'[t[1]])
  BY <1>2
<1>4. ASSUME NEW entry \in Range(models'[t[1]]), NEW f \in Range(entry.path), NEW struct \in Halves,
             entry.path = NamePath(t, f, struct)
      PROVE  \E id \in Range(functions'[t]) : entry = EntryOf(t, id, struct)
  <2>1. CASE entry \in Range(models[t[1]])
    BY <1>2, <1>4, <2>1 DEF Provides
  <2>2. CASE entry \notin Range(models[t[1]])
    <3>1. t[1] = s[1] /\ entry \in Range(handed)
      BY <1>2, <1>4, <2>2
    <3>2. PICK id \in Range(base), half \in Halves : entry = Bequest(name, id, half)
      BY <1>1, <1>2, <3>1, HandedAre
    <3>3. entry.path = StructOf(FunctionPath(name, FunctionName(id)), half)
      BY <3>2 DEF Bequest
    <3>4. entry.path[1] = name
      BY <3>3, PathShape
    <3>5. entry.path[1] = t[2][1]
      BY <1>4, PathShape DEF NamePath
    <3>6. t = <<t[1], <<t[2][1]>>>> /\ s = <<s[1], <<s[2][1]>>>>
      BY <1>1, InLink, ServiceNamed
    <3> QED
      BY <1>1, <3>1, <3>4, <3>5, <3>6
  <2> QED
    BY <2>1, <2>2
<1>5. \A id \in Range(functions'[t]) : \A struct \in Halves :
            EntryOf(t, id, struct) \in Range(models'[t[1]])
  BY <1>2, <1>3 DEF Provides
<1> QED
  BY <1>4, <1>5 DEF Provides, EntryOf, NamePath

(* After it has inherited, a service waits no more, and the others wait as *)
(* they did.                                                               *)
LEMMA WaitsTaken ==
  ASSUME LinkInv, phase = "link", NEW fr, NEW base, Takes(fr, base), fr.id \in Services
  PROVE  /\ ~Waits(fr.id)'
         /\ \A t \in Services : t # fr.id => (Waits(t)' <=> Waits(t))
<1>1. /\ Ready /\ IsStack /\ stack # <<>> /\ fr = stack[Len(stack)] /\ fr.op = "link"
      /\ Links(stack[Len(stack)]) /\ EntersOnce
      /\ linked' = linked
  <2>1. EntersOnce
    BY DEF LinkInv, CompileInv, StackInv
  <2> QED
    BY <2>1, InLink DEF Takes
<1>2. PICK l, new, next : /\ l = Len(stack) /\ new = stack'
                          /\ next = Frame("functions", fr.id, OwnStructs(functions[fr.id] \o base))
  OBVIOUS
<1>3. IsFrame(next) /\ next.op = "functions" /\ stack' = Resume(next)
  BY <1>2, Frames DEF Takes
<1>4. /\ l \in Nat /\ l >= 1 /\ DOMAIN stack = 1 .. l /\ DOMAIN new = 1 .. l /\ new[l] = next
      /\ \A i \in 1 .. l - 1 : new[i] = stack[i]
  BY <1>1, <1>2, <1>3, Resumed
<1>5. \A i \in 1 .. l : (i \in 1 .. l - 1 /\ i # l) \/ i = l
  BY <1>4
<1>6. \A t : Waits(t)' <=> t \notin linked \/ \E i \in 1 .. l : new[i].op = "link" /\ new[i].id = t
  BY <1>1, <1>2, <1>4 DEF Waits
<1>7. \A i \in 1 .. l : i # l => stack[i].id # fr.id
  <2>1. Kind(fr.id) # "typedef" /\ l \in DOMAIN stack
    BY <1>1, <1>4, ServicesAre
  <2> QED
    BY <1>1, <1>2, <1>4, <2>1 DEF EntersOnce
<1>8. fr.id \in linked
  BY <1>1, ServicesAre DEF Links
<1>9. ~Waits(fr.id)'
  BY <1>3, <1>4, <1>5, <1>6, <1>7, <1>8
<1>10. ASSUME NEW t \in Services, t # fr.id PROVE Waits(t)' <=> Waits(t)
  <2>1. new[l].op = "functions" /\ stack[l].id # t
    BY <1>1, <1>2, <1>3, <1>4, <1>10
  <2>2. \A i \in 1 .. l : i # l => new[i] = stack[i]
    BY <1>4, <1>5
  <2>3. (\E i \in 1 .. l : new[i].op = "link" /\ new[i].id = t)
            <=> \E i \in 1 .. l : stack[i].op = "link" /\ stack[i].id = t
    BY <2>1, <2>2
  <2> QED
    BY <1>4, <1>6, <2>3 DEF Waits
<1> QED
  BY <1>9, <1>10

(* The service that inherits.                                              *)
LEMMA HeirServes ==
  ASSUME LinkInv, LinkInv', ServiceInv, phase = "link", NEW fr, NEW base, Takes(fr, base)
  PROVE  /\ fr.id \in Services /\ ServiceTrue(fr.id)'
         /\ Built(functions[fr.id] \o base)
<1>1. /\ fr = Top /\ fr.todo = <<>> /\ fr.op = "link" /\ Kind(fr.id) = "service"
      /\ base = Inherited(fr.got) /\ UNCHANGED trees /\ phase' = "link"
      /\ FunctionNames(functions[fr.id]) \cap FunctionNames(base) = {}
  BY DEF Takes
<1>2. PICK s : s = fr.id
  OBVIOUS
<1>3. Ready /\ Ready'
  BY <1>1, BothReady
<1>4. /\ s \in Services /\ Waits(s) /\ ServiceTrue(s)
      /\ Listed(base) /\ NoneTwice(base) /\ Built(base)
  BY <1>1, <1>2, BaseList DEF ServiceInv
<1>5. PICK own, all : own = functions[s] /\ all = own \o base
  OBVIOUS
<1>6. /\ Listed(own) /\ NoneTwice(own) /\ Built(own) /\ Provides(s)
      /\ FunctionNames(own) \cap FunctionNames(base) = {}
  BY <1>1, <1>2, <1>4, <1>5 DEF ServiceTrue
<1>7. functions'[s] = all
  <2>1. s \in DOMAIN functions
    BY <1>1, <1>2, BaseHas
  <2>2. functions' = [functions EXCEPT ![s] = functions[s] \o base]
    BY <1>2 DEF Takes
  <2> QED
    BY <1>5, <2>1, <2>2
<1>8. /\ Listed(all) /\ NoneTwice(all) /\ Range(all) = Range(own) \cup Range(base)
      /\ FunctionNames(all) = FunctionNames(own) \cup FunctionNames(base)
  BY <1>4, <1>5, <1>6, JoinsNames
<1>9. Built(all) /\ Built(all)'
  <2>1. Built(all)
    BY <1>4, <1>6, <1>8 DEF Built
  <2>2. \A id : Kind(id)' = Kind(id)
    BY <1>1, <1>3, TargetsStay
  <2> QED
    BY <2>1, <2>2 DEF Built
<1>10. Provides(s)'
  BY <1>2, <1>4, <1>6, ProvidesTaken
<1>11. FunctionNames(own) = OwnNames(s)
  BY <1>1, <1>4, <1>5, OwnNamesAre DEF Takes
<1>12. /\ (Resolved' <=> Resolved) /\ (s \in Straight' <=> s \in Straight)
       /\ Line(s)' = Line(s) /\ (Unrepeated(s)' <=> Unrepeated(s))
  <2>1. /\ Straight' = Straight /\ (Resolved' <=> Resolved)
        /\ \A t \in Services : /\ Ancestors(t)' = Ancestors(t) /\ OwnNames(t)' = OwnNames(t)
                               /\ Unrepeated(t)' <=> Unrepeated(t)
    BY <1>1, <1>3, LineageStays
  <2> QED
    BY <1>4, <2>1, Lineage DEF Line
<1>13. ASSUME Resolved
       PROVE  /\ FunctionNames(all) \subseteq Line(s)
              /\ s \in Straight => Line(s) \subseteq FunctionNames(all) /\ Unrepeated(s)
  <2>1. /\ FunctionNames(base) \subseteq UNION {OwnNames(a) : a \in Ancestors(s)}
        /\ s \in Straight => \A a \in Ancestors(s) : OwnNames(a) \subseteq FunctionNames(base)
    BY <1>1, <1>2, <1>13, BaseNames DEF Takes
  <2>2. Line(s) = OwnNames(s) \cup UNION {OwnNames(a) : a \in Ancestors(s)}
    BY DEF Line
  <2>3. ASSUME s \in Straight PROVE Line(s) \subseteq FunctionNames(all) /\ Unrepeated(s)
    <3>1. UNION {OwnNames(a) : a \in Ancestors(s)} \subseteq FunctionNames(base)
      BY <2>1, <2>3
    <3>2. \A a \in Ancestors(s) : OwnNames(s) \cap OwnNames(a) = {}
      BY <1>6, <1>11, <2>1, <2>3
    <3> QED
      BY <1>8, <1>11, <2>2, <3>1, <3>2 DEF Unrepeated
  <2> QED
    BY <1>8, <1>11, <2>1, <2>2, <2>3
<1>14. Resolved' => Inherits(s)'
  <2>1. FunctionNames(functions[s])' = FunctionNames(all)
    BY <1>7 DEF FunctionNames
  <2> QED
    BY <1>12, <1>13, <2>1 DEF Inherits
<1>15. Listed(functions[s])' /\ NoneTwice(functions[s])' /\ Built(functions[s])'
  BY <1>7, <1>8, <1>9 DEF NoneTwice, Built
<1> QED
  <2>1. ServiceTrue(s)'
    BY <1>10, <1>14, <1>15 DEF ServiceTrue
  <2> QED
    BY <1>2, <1>4, <1>5, <1>9, <2>1

LEMMA InheritServes ==
  ASSUME LinkInv, LinkInv', ServiceInv, Inherit PROVE ServiceInv'
<1>1. phase = "link" /\ ((Throw("failed") /\ Clashes(Top)) \/ \E base : Takes(Top, base))
  BY InheritTakes
<1>2. CASE Throw("failed")
  BY <1>2, ServesThrown
<1>3. ASSUME NEW base, NEW fr, Takes(fr, base) PROVE ServiceInv'
  <2>1. PICK s : s = fr.id
    OBVIOUS
  <2>2. /\ fr = Top /\ UNCHANGED trees /\ phase' = "link" /\ memo' = memo
        /\ stack' = Resume(Frame("functions", fr.id, OwnStructs(functions[fr.id] \o base)))
    BY <1>1, <1>3 DEF Takes
  <2>3. Ready /\ Ready' /\ IsStack /\ stack # <<>>
    BY <1>1, <2>2, BothReady, InLink
  <2>4. s \in Services /\ ServiceTrue(s)' /\ Built(functions[s] \o base)
    BY <1>1, <1>3, <2>1, HeirServes
  <2>5. /\ \A t \in Services : t # s => functions'[t] = functions[t]
        /\ DOMAIN functions' = DOMAIN functions /\ Listed(functions[s]) /\ Listed(base)
    <3>1. \A t \in Services : t # s => functions'[t] = functions[t]
      BY <1>1, <1>3, <2>1, <2>4, ModelsTaken
    <3>2. DOMAIN functions' = DOMAIN functions
      BY <1>3 DEF Takes
    <3>3. Listed(functions[s]) /\ Listed(base)
      BY <1>1, <1>3, <2>1, BaseHas DEF Has
    <3> QED
      BY <3>1, <3>2, <3>3
  <2>6. ~Waits(s)' /\ \A t \in Services : t # s => (Waits(t)' <=> Waits(t))
    BY <1>1, <1>3, <2>1, <2>4, WaitsTaken
  <2>7. /\ program' = program /\ Services' = Services /\ Reached' = Reached
        /\ \A file, m : OwnList(file, m)' = OwnList(file, m) /\ ServiceId(file, m)' = ServiceId(file, m)
        /\ \A file : Defs(file)' = Defs(file)
        /\ \A file, m, kind : Is(file, m, kind)' = Is(file, m, kind)
    BY <2>2, <2>3, LineageStays, ProgramStays, OwnListStays DEF trees
  <2>8. DOMAIN functions' = (UNION {Compiled(file) : file \in memo})'
    BY <1>1, <2>2, <2>5, <2>7, CompiledStays
  <2>9. ASSUME NEW file \in Reached, NEW m \in Defs(file), Is(file, m, "service"),
               NEW t, t = ServiceId(file, m), Waits(t)'
        PROVE  functions'[t] = OwnList(file, m)
    <3>1. t \in Services /\ t # s
      BY <2>3, <2>6, <2>9, ServiceIsThere
    <3>2. Waits(t)
      BY <2>6, <2>9, <3>1
    <3>3. functions[t] = OwnList(file, m)
      BY <1>1, <2>9, <3>2 DEF ServiceInv
    <3> QED
      BY <2>5, <3>1, <3>3
  <2>10. \A file \in Reached' : \A m \in Defs(file)' :
            (Is(file, m, "service") /\ Waits(ServiceId(file, m)))' =>
                functions'[ServiceId(file, m)'] = OwnList(file, m)'
    <3> SUFFICES ASSUME NEW file \in Reached, NEW m \in Defs(file), Is(file, m, "service"),
                        Waits(ServiceId(file, m))'
                 PROVE  functions'[ServiceId(file, m)] = OwnList(file, m)
      BY <2>7
    <3>1. PICK t : t = ServiceId(file, m)
      OBVIOUS
    <3>2. Waits(t)'
      BY <2>7, <3>1
    <3> QED
      BY <2>9, <3>1, <3>2
  <2>11. \A t \in Services' : ServiceTrue(t)'
    <3> SUFFICES ASSUME NEW t \in Services, t # s PROVE ServiceTrue(t)'
      BY <2>4, <2>7
    <3>1. ServiceTrue(t)
      BY <1>1 DEF ServiceInv
    <3>2. Provides(t)'
      BY <1>1, <1>3, <2>1, <2>4, <3>1, ProvidesStays DEF ServiceTrue
    <3> QED
      BY <2>2, <2>3, <2>5, <2>6, <3>1, <3>2, ServiceStays
  <2>12. (\A i \in DOMAIN stack : Hands(stack[i]))'
    <3>1. PICK l, new, next : /\ l = Len(stack) /\ new = stack'
                              /\ next = Frame("functions", fr.id, OwnStructs(functions[fr.id] \o base))
      OBVIOUS
    <3>2. IsFrame(next) /\ next.todo = OwnStructs(functions[s] \o base) /\ stack' = Resume(next)
      BY <2>1, <2>2, <3>1, Frames
    <3>3. /\ l \in Nat /\ l >= 1 /\ DOMAIN stack = 1 .. l /\ DOMAIN new = 1 .. l /\ new[l] = next
          /\ \A i \in 1 .. l - 1 : new[i] = stack[i]
      BY <2>3, <3>1, <3>2, Resumed
    <3>4. \A i \in 1 .. l : i \in 1 .. l - 1 \/ i = l
      BY <3>3
    <3>5. PICK all : all = functions[s] \o base
      OBVIOUS
    <3>6. Listed(all)
      BY <2>5, <3>5, JoinsNames
    <3>7. \A id \in Range(all) : \A struct \in Halves : Kind(StructId(id, struct))' = "struct"
      <4>1. \A id : Kind(id)' = Kind(id)
        BY <2>2, <2>3, TargetsStay
      <4> QED
        BY <2>4, <3>5, <4>1 DEF Built
    <3>8. Hands(next)'
      <4>1. next.todo = OwnStructs(all)
        BY <3>2, <3>5
      <4>2. \A call \in Range(next.todo) : Kind(call.id)' = "struct"
        BY <3>6, <3>7, <4>1, OwnStructsCalled
      <4> QED
        BY <4>2 DEF Hands
    <3>9. \A i \in 1 .. l - 1 : Hands(stack[i])
      BY <1>1, <3>3 DEF ServiceInv
    <3> SUFFICES ASSUME NEW i \in 1 .. l PROVE Hands(new[i])'
      BY <3>1, <3>3 DEF Hands
    <3>10. CASE i = l
      BY <3>3, <3>8, <3>10 DEF Hands
    <3>11. CASE i \in 1 .. l - 1
      <4>1. PICK f : f = stack[i]
        OBVIOUS
      <4>2. Hands(f)'
        BY <2>2, <2>3, <3>9, <3>11, <4>1, HandsStays
      <4> QED
        BY <3>3, <3>11, <4>1, <4>2
    <3> QED
      BY <3>4, <3>10, <3>11
  <2> QED
    BY <2>2, <2>8, <2>10, <2>11, <2>12 DEF ServiceInv
<1> QED
  BY <1>1, <1>2, <1>3

-----------------------------------------------------------------------------
(* Until all files are compiled, a service has the functions it defines.   *)
LEMMA NewService ==
  ASSUME LinkInv, LinkInv', ServiceInv, phase = "compile", NEW file, NEW n, NEW def, NEW added,
         NEW own, Adds(file, n, def, added, own), def.kind = "service"
  PROVE  ServiceId(file, n) \notin DOMAIN functions
<1>1. SUFFICES ASSUME ServiceId(file, n) \in DOMAIN functions PROVE FALSE
  OBVIOUS
<1>2. DOMAIN functions = UNION {Compiled(f) : f \in memo}
  BY DEF ServiceInv, Live
<1>3. PICK f \in memo : \E m \in Defs(f) :
            Passed(f, m) /\ Is(f, m, "service") /\ ServiceId(f, m) = ServiceId(file, n)
  BY <1>1, <1>2 DEF Compiled
<1>4. PICK m \in Defs(f) :
            Passed(f, m) /\ Is(f, m, "service") /\ ServiceId(f, m) = ServiceId(file, n)
  BY <1>3
<1>5. f = file /\ Source(file)[m].name = def.name
  BY <1>4 DEF ServiceId, Adds
<1>6. /\ program \in Programs /\ file \in DOMAIN program.files /\ n \in Defs(file)
      /\ def = Source(file)[n] /\ ~Passed(file, n) /\ file \in memo' /\ program' = program
      /\ Passed(file, m)' /\ Passed(file, n)'
  BY <1>4, <1>5 DEF Adds
<1>7. /\ WellFormed(Source(file)[m], program.files) /\ WellFormed(def, program.files)
      /\ m \in Defs(file)
  BY <1>4, <1>5, <1>6, Programmed
<1>8. /\ Size(Source(file)[m]) \in 1 .. Size(Source(file)[m]) /\ Size(def) \in 1 .. Size(def)
      /\ PathAt(Source(file)[m], Size(Source(file)[m])) = <<Source(file)[m].name>>
      /\ PathAt(def, Size(def)) = <<def.name>>
  BY <1>7, Sizes DEF PathAt
<1>9. Unlike'
  BY DEF LinkInv, CompileInv, Live, Adds
<1>10. \A g : Source(g)' = Source(g) /\ Defs(g)' = Defs(g)
  BY <1>6, ProgramStays
<1>11. m = n
  BY <1>5, <1>6, <1>7, <1>8, <1>9, <1>10 DEF Unlike
<1> QED
  BY <1>4, <1>5, <1>6, <1>11

LEMMA CompileDefinitionServes ==
  ASSUME LinkInv, LinkInv', ServiceInv, CompileDefinition PROVE ServiceInv'
<1>1. phase = "compile"
  BY DEF CompileDefinition, Compiling
<1>2. CASE Throw("duplicate")
  BY <1>2, ServesThrown
<1>3. CASE ~Throw("duplicate")
  <2>1. PICK file, n, def, added, own : Adds(file, n, def, added, own)
    BY <1>3, DefinitionAdds
  <2>2. /\ file \in memo /\ n \in Defs(file) /\ def = Source(file)[n] /\ program' = program
        /\ \A f : \A m \in Defs(f) : Passed(f, m)' <=> Passed(f, m) \/ (f = file /\ m = n)
        /\ phase' = "compile" /\ memo' = memo /\ ServiceId(file, n) = <<file, <<def.name>>>>
        /\ (def.kind = "service") <=> Is(file, n, "service")
    BY <2>1 DEF Adds, ServiceId, Is
  <2>3. /\ \A f : Source(f)' = Source(f) /\ Defs(f)' = Defs(f)
        /\ \A f, m, kind : Is(f, m, kind)' = Is(f, m, kind)
        /\ \A f, m, k : EntryFor(f, m, k)' = EntryFor(f, m, k)
        /\ \A f, m : OwnList(f, m)' = OwnList(f, m) /\ ServiceId(f, m)' = ServiceId(f, m)
    BY <2>2, ProgramStays, KnownStays, OwnListStays
  <2>4. DOMAIN functions = UNION {Compiled(f) : f \in memo}
    BY <1>1 DEF ServiceInv, Live
  <2>5. def.kind = "service" => ServiceId(file, n) \notin DOMAIN functions
    BY <1>1, <2>1, NewService
  <2>6. /\ def.kind = "service" => DOMAIN functions' = DOMAIN functions \cup {ServiceId(file, n)}
        /\ def.kind # "service" => DOMAIN functions' = DOMAIN functions
        /\ \A s \in DOMAIN functions : functions'[s] = functions[s]
        /\ def.kind = "service" => functions'[ServiceId(file, n)] = OwnList(file, n)
    BY <2>1, <2>2, <2>5 DEF Adds
  <2>7. /\ \A f : f # file => Compiled(f)' = Compiled(f)
        /\ Compiled(file)' = IF def.kind = "service" THEN Compiled(file) \cup {ServiceId(file, n)}
                                                     ELSE Compiled(file)
    BY <2>2, <2>3 DEF Compiled
  <2>8. DOMAIN functions' = (UNION {Compiled(f) : f \in memo})'
    <3>1. CASE def.kind = "service"
      BY <2>2, <2>4, <2>6, <2>7, <3>1
    <3>2. CASE def.kind # "service"
      <4>1. \A f : Compiled(f)' = Compiled(f)
        BY <2>7, <3>2
      <4> QED
        BY <2>2, <2>4, <2>6, <3>2, <4>1
    <3> QED
      BY <3>1, <3>2
  <2>9. ASSUME NEW f \in memo, NEW m \in Defs(f), Passed(f, m)', Is(f, m, "service")
        PROVE  functions'[ServiceId(f, m)] = OwnList(f, m)
    <3>1. CASE f = file /\ m = n
      BY <2>2, <2>6, <2>9, <3>1
    <3>2. CASE ~(f = file /\ m = n)
      <4>1. Passed(f, m)
        BY <2>2, <2>9, <3>2
      <4>2. ServiceId(f, m) \in Compiled(f)
        BY <2>9, <4>1 DEF Compiled
      <4>3. functions[ServiceId(f, m)] = OwnList(f, m)
        BY <1>1, <2>9, <4>1 DEF ServiceInv
      <4> QED
        BY <2>4, <2>6, <2>9, <4>2, <4>3
    <3> QED
      BY <3>1, <3>2
  <2>10. ASSUME NEW f \in memo, NEW entry \in Range(models'[f]) PROVE Heard(f, entry)'
    <3>1. \A g, e : Heard(g, e) => Heard(g, e)'
      BY <2>2, <2>3 DEF Heard
    <3>2. Listed(models[file]) /\ models'[file] = models[file] \o added
          /\ (\A g \in memo : g # file => models'[g] = models[g])
          /\ Size(def) \in Nat /\ added = [k \in 1 .. Size(def) |-> added[k]]
          /\ \A k \in 1 .. Size(def) : added[k] = EntryFor(file, n, k)
      BY <1>1, <2>1, <2>2 DEF LinkInv, Live, Listing, Adds
    <3>3. Range(models'[file]) = Range(models[file]) \cup Range(added)
      BY <3>2, Joined
    <3>4. \A e \in Range(added) : \E k \in 1 .. Size(def) : e = EntryFor(file, n, k)
      BY <3>2 DEF Range
    <3>5. \A e \in Range(added) : Heard(file, e)'
      BY <2>2, <2>3, <3>4 DEF Heard
    <3>6. \A g \in memo : \A e \in Range(models[g]) : Heard(g, e)
      BY <1>1 DEF ServiceInv
    <3> QED
      BY <2>10, <3>1, <3>2, <3>3, <3>5, <3>6
  <2> QED
    BY <2>2, <2>3, <2>8, <2>9, <2>10 DEF ServiceInv
<1> QED
  BY <1>2, <1>3

LEMMA ServesFresh == Fresh => ServiceInv
<1> SUFFICES ASSUME Fresh PROVE ServiceInv
  OBVIOUS
<1>1. \A m \in Defs(Entry) : ~Passed(Entry, m)
  BY NonePassed
<1>2. /\ memo = {Entry} /\ phase = "compile" /\ DOMAIN functions = {}
      /\ Entry \in DOMAIN program.files
  BY ProgramsAssumption DEF Fresh, CompileInv, Programs1
<1>3. Range(models[Entry]) = {}
  <2>1. models[Entry] = <<>>
    BY <1>2 DEF Fresh
  <2> QED
    BY <2>1 DEF Range
<1>4. UNION {Compiled(file) : file \in memo} = {}
  BY <1>1, <1>2 DEF Compiled
<1> QED
  BY <1>1, <1>2, <1>3, <1>4 DEF ServiceInv

LEMMA MakeAgainServes ==
  ASSUME LinkInv, LinkInv', MakeAgain PROVE ServiceInv'
<1>1. Source(Entry)' = Source(Entry)
  BY ProgramStays DEF MakeAgain
<1>2. Fresh'
  BY <1>1 DEF MakeAgain, Fresh, LinkInv
<1> QED
  BY <1>2, ServesFresh, PTL

(* When link starts, Thrift.models has the structs of each service.        *)
ServiceStarted ==
    /\ LinkInv /\ phase = "link" /\ linked = {Module(Entry)}
    /\ stack = <<Frame("link", Module(Entry), Names(Entry))>>
    /\ DOMAIN functions = UNION {Compiled(file) : file \in memo}
    /\ \A file \in Reached : \A m \in Defs(file) :
            Is(file, m, "service") => functions[ServiceId(file, m)] = OwnList(file, m)
    /\ \A file \in memo : \A entry \in Range(models[file]) : Heard(file, entry)

LEMMA ProvidesStarted ==
  ASSUME ServiceStarted, NEW file \in Reached, NEW m \in Defs(file), Is(file, m, "service")
  PROVE  Provides(ServiceId(file, m))
<1>1. Ready
  BY LinkReady DEF ServiceStarted
<1>2. PICK s, def, fs, name, own : /\ s = ServiceId(file, m) /\ def = Source(file)[m]
                                   /\ fs = FunctionsOf(file, m) /\ name = def.name
                                   /\ own = OwnList(file, m)
  OBVIOUS
<1>3. s[1] = file /\ s[2][1] = name /\ functions[s] = own
  BY <1>2 DEF ServiceId, ServiceStarted
<1>4. /\ WellFormed(def, program.files) /\ program \in Programs /\ file \in DOMAIN program.files
      /\ Distinct(file) /\ def.kind = "service" /\ fs = def.functions
  BY <1>1, <1>2, ServiceIsThere DEF Is, FunctionsOf
<1>5. /\ Listed(own) /\ Len(fs) \in Nat /\ DOMAIN fs = 1 .. Len(fs)
      /\ \A id \in Range(own) : \E i \in 1 .. Len(fs) : id = <<file, FunctionPath(name, fs[i].name)>>
      /\ \A i \in 1 .. Len(fs) : <<file, FunctionPath(name, fs[i].name)>> \in Range(own)
  <2>1. /\ Has(own) /\ \A id \in Range(own) : \E i \in 1 .. Len(fs) :
                            id = <<file, FunctionPath(name, fs[i].name)>>
    BY <1>1, <1>2, OwnListIs
  <2>2. Len(fs) \in Nat /\ DOMAIN fs = 1 .. Len(fs)
    BY <1>4, Sizes
  <2>3. own = [i \in 1 .. Len(fs) |-> <<file, FunctionPath(name, fs[i].name)>>]
    BY <1>2, <2>2 DEF OwnList
  <2> QED
    BY <2>1, <2>2, <2>3 DEF Has, Range
<1>6. ASSUME NEW id \in Range(own), NEW struct \in Halves
      PROVE  EntryOf(s, id, struct) \in Range(models[file])
  <2>1. PICK i \in 1 .. Len(fs) : id = <<file, FunctionPath(name, fs[i].name)>>
    BY <1>5
  <2>2. PICK path : path = FunctionPath(name, fs[i].name)
    OBVIOUS
  <2>3. PICK k \in 1 .. Size(def) : /\ PathAt(def, k) = StructOf(path, struct)
                                    /\ StructId(<<file, path>>, struct) = Part(file, m, k)
    <3>1. /\ path = FunctionPath(Source(file)[m].name, FunctionsOf(file, m)[i].name)
          /\ i \in 1 .. Len(FunctionsOf(file, m)) /\ struct \in {"args", "result"}
          /\ WellFormed(Source(file)[m], program.files)
      BY <1>2, <1>4, <2>2 DEF Halves
    <3>2. \E k \in 1 .. Size(Source(file)[m]) :
                /\ PathAt(Source(file)[m], k) = StructOf(path, struct)
                /\ StructId(<<file, path>>, struct) = Part(file, m, k)
      BY <3>1, StructIsPart
    <3> QED
      BY <1>2, <3>2
  <2>4. FunctionName(id) = fs[i].name
    BY <2>1, NamesOf
  <2>5. EntryFor(file, m, k) = EntryOf(s, id, struct)
    BY <1>2, <1>3, <1>4, <2>1, <2>2, <2>3, <2>4 DEF EntryFor, EntryOf, NamePath, Is
  <2> QED
    BY <1>1, <1>2, <2>5, EntriesStand
<1>7. ASSUME NEW entry \in Range(models[file]), NEW f, NEW struct \in Halves,
             entry.path = NamePath(s, f, struct)
      PROVE  \E id \in Range(own) : entry = EntryOf(s, id, struct)
  <2>1. entry.path = StructOf(FunctionPath(name, f), struct)
    BY <1>3, <1>7 DEF NamePath
  <2>2. Len(entry.path) = 4 /\ entry.path[1] = name /\ entry.path[3] = f /\ entry.path[4] = struct
    BY <2>1, PathShape
  <2>3. file \in memo
    BY <1>1, EntriesStand
  <2>4. PICK l \in Defs(file) : \E k \in 1 .. Size(Source(file)[l]) : entry = EntryFor(file, l, k)
    BY <2>3 DEF ServiceStarted, Heard
  <2>5. PICK k \in 1 .. Size(Source(file)[l]) : entry = EntryFor(file, l, k)
    BY <2>4
  <2>6. entry.path = PathAt(Source(file)[l], k)
    BY <2>5 DEF EntryFor
  <2>7. Source(file)[l].name = name
    BY <1>4, <2>2, <2>6, DefOfPart
  <2>8. l = m
    BY <1>2, <1>4, <2>7, NamesDiffer
  <2>9. entry = EntryFor(file, m, k) /\ entry.path = PathAt(def, k) /\ k \in 1 .. Size(def)
    BY <1>2, <2>5, <2>6, <2>8
  <2>10. k # Size(def)
    <3>1. Len(<<name>>) = 1
      OBVIOUS
    <3> QED
      BY <1>2, <2>2, <2>9, <3>1 DEF PathAt
  <2>11. PICK i, half : i = (k + 1) \div 2 /\ half = Structs[2 - (k % 2)]
    OBVIOUS
  <2>12. entry.path = StructOf(FunctionPath(name, fs[i].name), half)
    BY <1>2, <1>4, <2>9, <2>10, <2>11 DEF PathAt
  <2>13. entry.path[3] = fs[i].name /\ entry.path[4] = half
    BY <2>12, PathShape
  <2>14. i \in 1 .. Len(fs)
    BY <1>4, <2>9, <2>10, <2>11, EntryDefs
  <2>15. PICK id : id = <<file, FunctionPath(name, fs[i].name)>>
    OBVIOUS
  <2>16. id \in Range(own) /\ FunctionName(id) = f
    BY <1>5, <2>2, <2>13, <2>14, <2>15, NamesOf
  <2>17. entry = [path |-> PathAt(def, k), id |-> <<file, PathAt(def, k)>>]
    BY <1>2, <1>4, <2>9 DEF EntryFor, Part, Is
  <2>18. StructId(id, struct) = <<file, entry.path>>
    BY <2>2, <2>12, <2>13, <2>15, NamesOf
  <2>19. entry = EntryOf(s, id, struct)
    BY <1>7, <2>9, <2>16, <2>17, <2>18 DEF EntryOf
  <2> QED
    BY <2>16, <2>19
<1> QED
  BY <1>2, <1>3, <1>6, <1>7 DEF Provides

LEMMA ServesStarted == ServiceStarted => ServiceInv
<1> SUFFICES ASSUME ServiceStarted PROVE ServiceInv
  OBVIOUS
<1>1. Ready /\ phase = "link" /\ linked = {Module(Entry)}
  BY LinkReady DEF ServiceStarted
<1>2. ASSUME NEW s \in Services PROVE ServiceTrue(s)
  <2>1. PICK file \in Reached : \E m \in Defs(file) :
                Is(file, m, "service") /\ s = ServiceId(file, m)
    BY <1>1, ServicesAre
  <2>2. PICK m \in Defs(file) : Is(file, m, "service") /\ s = ServiceId(file, m)
    BY <2>1
  <2>3. functions[s] = OwnList(file, m)
    BY <2>2 DEF ServiceStarted
  <2>4. /\ Listed(functions[s]) /\ NoneTwice(functions[s]) /\ Built(functions[s])
        /\ FunctionNames(functions[s]) = OwnNames(s)
    BY <1>1, <2>2, <2>3, OwnListIs DEF Has
  <2>5. Provides(s)
    BY <2>2, ProvidesStarted
  <2>6. Waits(s)
    BY <1>1, Modules, ServicesAre DEF Waits
  <2>7. OwnNames(s) \subseteq Line(s)
    BY DEF Line
  <2> QED
    BY <2>4, <2>5, <2>6, <2>7 DEF ServiceTrue, Inherits
<1>3. \A i \in DOMAIN stack : Hands(stack[i])
  <2>1. \A i \in DOMAIN stack : stack[i].op = "link"
    BY Frames DEF ServiceStarted
  <2> QED
    BY <2>1 DEF Hands
<1> QED
  BY <1>1, <1>2, <1>3 DEF ServiceInv, ServiceStarted

AllReadyThen == phase = "link" =>
    /\ Reached \subseteq memo
    /\ \A file \in memo : \A m \in Defs(file) : Passed(file, m)
LEMMA LinkedAll == LinkInv => AllReadyThen
BY AllReached, AllPassed DEF LinkInv, AllReadyThen, CompileInv

LEMMA CompileReturnsServes ==
  ASSUME LinkInv, LinkInv', ServiceInv, CompileReturns PROVE ServiceInv'
<1>1. phase = "compile" /\ UNCHANGED <<trees, memo, models, value, functions, consts>>
  BY DEF CompileReturns, Compiling
<1>2. \A file : \A m \in Defs(file) : Passed(file, m)' <=> Passed(file, m)
  BY ReturnPasses DEF LinkInv
<1>3. CASE phase' = phase
  BY <1>1, <1>2, <1>3, CompileQuiet
<1>4. CASE /\ phase' = "link" /\ linked' = {Module(Entry)}
           /\ stack' = <<Frame("link", Module(Entry), Names(Entry))>>
  <2>1. /\ \A file : Source(file)' = Source(file) /\ Defs(file)' = Defs(file)
        /\ \A file, m, kind : Is(file, m, kind)' = Is(file, m, kind)
        /\ \A file, m, k : EntryFor(file, m, k)' = EntryFor(file, m, k)
        /\ \A file, m : OwnList(file, m)' = OwnList(file, m) /\ ServiceId(file, m)' = ServiceId(file, m)
    BY <1>1, ProgramStays, KnownStays, OwnListStays DEF trees
  <2>2. DOMAIN functions = UNION {Compiled(file) : file \in memo}
    BY <1>1 DEF ServiceInv, Live
  <2>3. \A file : Compiled(file)' = Compiled(file)
    BY <1>2, <2>1 DEF Compiled
  <2>4. \A file, entry : Heard(file, entry) => Heard(file, entry)'
    BY <1>2, <2>1 DEF Heard
  <2>5. Reached' \subseteq memo /\ \A file \in memo : \A m \in Defs(file) : Passed(file, m)
    <3>1. AllReadyThen'
      BY LinkedAll, PTL
    <3> QED
      BY <1>1, <1>2, <1>4, <2>1, <3>1 DEF AllReadyThen
  <2>6. Names(Entry)' = Names(Entry)
    BY <1>1 DEF Names
  <2>7. ServiceStarted'
    BY <1>1, <1>4, <2>1, <2>2, <2>3, <2>4, <2>5, <2>6 DEF ServiceStarted, ServiceInv
  <2> QED
    BY <2>7, ServesStarted, PTL
<1> QED
  BY <1>1, <1>3, <1>4 DEF CompileReturns
-----------------------------------------------------------------------------
LEMMA ServiceInvariant == Spec => []ServiceInv
<1>1. Init => ServiceInv
  <2> SUFFICES ASSUME Init PROVE ServiceInv
    OBVIOUS
  <2>1. CompileInv
    BY CompileInvInitially
  <2>2. Fresh
    BY <2>1 DEF Init, Fresh
  <2> QED
    BY <2>2, ServesFresh
<1>2. ServiceInv /\ LinkInv /\ LinkInv' /\ [Next]_vars => ServiceInv'
  <2> SUFFICES ASSUME ServiceInv, LinkInv, LinkInv', [Next]_vars PROVE ServiceInv'
    OBVIOUS
  <2>1. CASE CompileInclude
    BY <2>1, CompileIncludeServes
  <2>2. CASE CompileDefinition
    BY <2>2, CompileDefinitionServes
  <2>3. CASE CompileReturns
    BY <2>3, CompileReturnsServes
  <2>4. CASE ResolveNothing
    BY <2>4, ResolveNothingServes
  <2>5. CASE CallLink
    BY <2>5, CallLinkServes
  <2>6. CASE LinkReturns
    BY <2>6, LinkReturnsServes
  <2>7. CASE CheckFields
    BY <2>7, CheckFieldsServes
  <2>8. CASE Inherit
    BY <2>8, InheritServes
  <2>9. CASE Finish
    BY <2>9, FinishServes
  <2>10. CASE MakeAgain
    BY <2>10, MakeAgainServes
  <2>11. CASE UNCHANGED vars
    BY <2>11, StutterServes
  <2> QED
    BY <2>1, <2>2, <2>3, <2>4, <2>5, <2>6, <2>7, <2>8, <2>9, <2>10, <2>11 DEF Next
<1> QED
  BY <1>1, <1>2, LinkInvariant, PTL DEF Spec

-----------------------------------------------------------------------------
(* What is wrong with a program stays wrong.                               *)
Wrong == ~(Resolved /\ Marked(MaybeNull) /\ \A s \in Services : Unrepeated(s))
Failing == phase = "failed" => Wrong

LEMMA WrongStays ==
  ASSUME UNCHANGED <<trees, memo, models>>, Wrong PROVE Wrong'
<1>1. program' = program /\ memo' = memo /\ models' = models
  BY DEF trees
<1>2. \A id : Def(id)' = Def(id) /\ Kind(id)' = Kind(id)
  BY KindStays
<1>3. \A id : Role(id)' = Role(id)
  BY <1>2 DEF Role
<1>4. /\ \A id : Refs(Def(id))' = Refs(Def(id))
      /\ \A id, without : Refused(Def(id), without)' <=> Refused(Def(id), without)
  <2>1. \A def : Refs(def)' = Refs(def)
    BY DEF Refs, Defaults, Types
  <2>2. \A def, without : Refused(def, without)' <=> Refused(def, without)
    BY <1>1 DEF Refused
  <2> QED
    BY <1>2, <2>1, <2>2
<1>5. Ids' = Ids
  BY <1>1 DEF Ids
<1>6. \A file, path : Resolve(file, path)' = Resolve(file, path)
  <2>1. \A at : Paths(at)' = Paths(at)
    BY <1>1 DEF Paths
  <2>2. \A at, path : Model(at, path)' = Model(at, path)
    BY <1>1 DEF Model
  <2> TAKE file, path
  <2>3. Walks(path)' = Walks(path)
    BY <1>1 DEF Walks
  <2>4. \A at, n, to : Leads(path, at, n, to)' <=> Leads(path, at, n, to)
    BY <2>1, <2>2 DEF Leads
  <2>5. \A hit : IsHit(file, path, hit)' <=> IsHit(file, path, hit)
    BY <2>1, <2>4 DEF IsHit
  <2>6. Hits(file, path)' = Hits(file, path)
    BY <2>3, <2>5 DEF Hits
  <2>7. AHit(file, path)' = AHit(file, path)
    BY <2>6 DEF AHit
  <2>8. Resolve(file, path)' =
            (IF Hits(file, path) = {} THEN Null
             ELSE Model(AHit(file, path)[2][AHit(file, path)[1]],
                        Rest(path, AHit(file, path)[1])))'
    BY DEF Resolve, Hits, Walks, IsHit, Leads, Rest, AHit
  <2> QED
    BY <2>2, <2>6, <2>7, <2>8, ResolveIs
<1>7. \A id, ref : RefTarget(id, ref)' = RefTarget(id, ref)
  BY <1>6 DEF RefTarget
<1>8. \A id : Targets(id)' = Targets(id)
  BY <1>4, <1>7 DEF Targets
<1>9. /\ Services' = Services
      /\ \A s : Bases(s)' = Bases(s) /\ OwnNames(s)' = OwnNames(s)
  <2>1. Services' = Services
    BY <1>2, <1>5 DEF Services
  <2>2. \A s : OwnNames(s)' = OwnNames(s)
    BY <1>2 DEF OwnNames
  <2> QED
    BY <1>8, <2>1, <2>2 DEF Bases
<1>10. \A s : Ancestors(s)' = Ancestors(s)
  BY <1>9 DEF Ancestors
<1>11. \A s : Unrepeated(s)' <=> Unrepeated(s)
  BY <1>9, <1>10 DEF Unrepeated
<1>12. Resolved' <=> Resolved
  BY <1>3, <1>4, <1>5, <1>7 DEF Resolved
<1>13. Marked(MaybeNull)' <=> Marked(MaybeNull)
  <2>1. Consts' = Consts
    BY <1>2, <1>4, <1>5 DEF Consts
  <2>2. \A id : Values(id)' = Values(id)
    BY <1>4, <1>8 DEF Values
  <2>3. Circular' = Circular
    BY <2>1, <2>2 DEF Circular
  <2>4. MaybeNull' = MaybeNull
    BY <1>2, <2>3 DEF MaybeNull
  <2>5. \A id : Without(id, MaybeNull)' = Without(id, MaybeNull)
    BY <1>2, <1>8, <2>4 DEF Without
  <2>6. ASSUME NEW id
        PROVE  Refused(Def(id), Without(id, MaybeNull))' <=> Refused(Def(id), Without(id, MaybeNull))
    <3>1. PICK without : without = Without(id, MaybeNull)
      OBVIOUS
    <3>2. Refused(Def(id), without)' <=> Refused(Def(id), without)
      BY <1>4
    <3> QED
      BY <2>5, <3>1, <3>2
  <2> QED
    BY <1>2, <1>5, <2>6 DEF Marked
<1> QED
  BY <1>9, <1>11, <1>12, <1>13 DEF Wrong

(* Each reason to throw is one that the program gives.                     *)
LEMMA RefusedIsWrong ==
  ASSUME LinkInv, CheckFields, Refused(Def(Top.id), WithoutValue(Def(Top.id), Top.got))
  PROVE  Wrong
<1>1. phase = "link" /\ Top.todo # <<>> /\ Head(Top.todo) = Check
  BY DEF CheckFields, Linking
<1>2. Ready /\ FrameFormed(Top)
  BY <1>1, InLink
<1>3. Refers(Top)
  <2> SUFFICES ASSUME ~Refers(Top) PROVE FALSE
    OBVIOUS
  <2>1. OwnCall(Check)
    BY <1>1, <1>2, OwnFrames, HeadIn
  <2>2. Check.role = "own"
    BY <2>1 DEF OwnCall, Own
  <2> QED
    BY <2>2 DEF Check
<1>4. SUFFICES ASSUME Resolved PROVE ~Marked(MaybeNull)
  BY DEF Wrong
<1>6. FrameTrue(Top)
  BY <1>1, <1>4, ResolvedIsTrue, InLink DEF Truth
<1>7. /\ Kind(Top.id) = "struct"
      /\ WithoutValue(Def(Top.id), Top.got) \subseteq Without(Top.id, MaybeNull)
  BY <1>1, <1>2, <1>3, <1>6, CheckSees
<1>8. Refused(Def(Top.id), Without(Top.id, MaybeNull))
  BY <1>7, RefusedMore
<1>5. Top.id \in Ids
  BY <1>2, <1>3, IdsAreKnown DEF Refers
<1> QED
  BY <1>5, <1>7, <1>8 DEF Marked

LEMMA ClashIsWrong ==
  ASSUME LinkInv, ServiceInv, phase = "link", Clashes(Top) PROVE Wrong
<1>1. SUFFICES ASSUME Resolved PROVE \E s \in Services : ~Unrepeated(s)
  BY DEF Wrong
<1>2. PICK fr, base : fr = Top /\ base = Inherited(fr.got)
  OBVIOUS
<1>3. /\ fr.todo = <<>> /\ fr.op = "link" /\ Kind(fr.id) = "service"
      /\ FunctionNames(functions[fr.id]) \cap FunctionNames(base) # {}
  BY <1>2 DEF Clashes
<1>4. fr.id \in Services /\ Waits(fr.id)
  BY <1>2, <1>3, BaseList
<1>5. FunctionNames(functions[fr.id]) = OwnNames(fr.id)
  BY <1>4, OwnNamesAre
<1>6. FunctionNames(base) \subseteq UNION {OwnNames(a) : a \in Ancestors(fr.id)}
  BY <1>1, <1>2, <1>3, BaseNames
<1> QED
  BY <1>3, <1>4, <1>5, <1>6 DEF Unrepeated

LEMMA MissesIsWrong ==
  ASSUME LinkInv, phase = "link", Calling, NEW target, target = Target(Top.id, Head(Top.todo)),
         NotFound(Head(Top.todo), target) \/ Head(Top.todo).role \notin {"own", Role(target)}
  PROVE  Wrong
<1>1. Ready /\ FrameFormed(Top)
  BY InLink
<1> QED
  BY <1>1, MisledIsWrong DEF Wrong, Calling, Misled

LEMMA FailingInvariant == Spec => []Failing
<1>1. Init => Failing
  BY DEF Init, Failing
<1>2. Failing /\ LinkInv /\ ServiceInv /\ [Next]_vars => Failing'
  <2> SUFFICES ASSUME Failing, LinkInv, ServiceInv, [Next]_vars, phase' = "failed"
               PROVE  Wrong'
    BY DEF Failing
  <2>1. CASE UNCHANGED vars
    <3>1. phase = "failed"
      BY <2>1 DEF vars
    <3> QED
      BY <2>1, <3>1, WrongStays DEF Failing, vars, trees
  <2>2. ASSUME Throw("failed"), Wrong PROVE Wrong'
    BY <2>2, WrongStays DEF Throw
  <2>3. CASE CallLink
    <3>1. PICK call, target : /\ call = Head(Top.todo) /\ target = Target(Top.id, call)
                              /\ NotFound(call, target) /\ Throw("failed")
      BY <2>3 DEF CallLink, Throw, Calling, Linking
    <3> QED
      BY <2>2, <2>3, <3>1, MissesIsWrong DEF CallLink, Calling, Linking
  <2>4. CASE LinkReturns
    <3>1. PICK call, target : /\ call = Head(Top.todo) /\ target = Target(Top.id, call)
                              /\ call.role \notin {"own", Role(target)} /\ Throw("failed")
      BY <2>4 DEF LinkReturns, Calling, Linking
    <3> QED
      BY <2>2, <2>4, <3>1, MissesIsWrong DEF LinkReturns, Calling, Linking
  <2>5. CASE CheckFields
    <3>1. /\ Refused(Def(Top.id), WithoutValue(Def(Top.id), Top.got))
          /\ Throw("failed")
      BY <2>5 DEF CheckFields, Linking
    <3> QED
      BY <2>2, <2>5, <3>1, RefusedIsWrong
  <2>6. CASE Inherit
    <3>1. phase = "link" /\ Throw("failed") /\ Clashes(Top)
      BY <2>6, InheritTakes DEF Takes
    <3> QED
      BY <2>2, <3>1, ClashIsWrong
  <2>7. CASE CompileInclude
    BY <2>7 DEF CompileInclude, Compiling
  <2>8. CASE CompileDefinition
    BY <2>8 DEF CompileDefinition, Compiling, Throw
  <2>9. CASE CompileReturns
    BY <2>9 DEF CompileReturns, Compiling
  <2>10. CASE ResolveNothing
    BY <2>10 DEF ResolveNothing, Linking
  <2>11. CASE Finish
    BY <2>11 DEF Finish, Linking
  <2>12. CASE MakeAgain
    BY <2>12 DEF MakeAgain
  <2> QED
    BY <2>1, <2>3, <2>4, <2>5, <2>6, <2>7, <2>8, <2>9, <2>10, <2>11, <2>12 DEF Next
<1> QED
  BY <1>1, <1>2, LinkInvariant, ServiceInvariant, PTL DEF Spec
-----------------------------------------------------------------------------
(* When all are linked, no service waits.                                  *)
LEMMA NoneWaits ==
  ASSUME LinkInv, phase = "done", NEW s \in Services PROVE ~Waits(s)
<1>1. Ready /\ stack = <<>> /\ \A id \in Known : ReturnsAtOnce(id)
  BY AllComplete
<1>2. s \in Known /\ Kind(s) = "service"
  BY <1>1, ServicesAre
<1>3. s \in linked
  BY <1>1, <1>2 DEF ReturnsAtOnce
<1>4. DOMAIN stack = {}
  BY <1>1
<1> QED
  BY <1>3, <1>4 DEF Waits

LEMMA HasInherited ==
  ASSUME LinkInv, ServiceInv, phase = "done", Resolved, NEW s \in Straight
  PROVE  /\ s \in Services /\ ServiceTrue(s) /\ Unrepeated(s)
         /\ FunctionNames(functions[s]) = Line(s)
<1>1. s \in Services
  BY DEF Straight
<1>2. ~Waits(s)
  BY <1>1, NoneWaits
<1>3. ServiceTrue(s)
  BY <1>1 DEF ServiceInv
<1> QED
  BY <1>1, <1>2, <1>3 DEF ServiceTrue, Inherits

(* Thrift.models leads from the name of a function to its structs.         *)
LEMMA FindsStruct ==
  ASSUME NEW s, Provides(s), Listed(functions[s]), NoneTwice(functions[s]),
         NEW id \in Range(functions[s]), NEW struct \in Halves
  PROVE  Model(s[1], NamePath(s, FunctionName(id), struct)) = StructId(id, struct)
<1>1. PICK file, name, f, path, own : /\ file = s[1] /\ name = s[2][1] /\ f = FunctionName(id)
                                      /\ path = NamePath(s, f, struct) /\ own = functions[s]
  OBVIOUS
<1>2. EntryOf(s, id, struct) \in Range(models[file]) /\ EntryOf(s, id, struct).path = path
  BY <1>1 DEF Provides, EntryOf
<1>3. \E i \in DOMAIN models[file] : models[file][i].path = path
  BY <1>2 DEF Range
<1>4. PICK i \in DOMAIN models[file] :
            models[file][i].path = path /\ Model(file, path) = models[file][i].id
  BY <1>3 DEF Model
<1>5. PICK entry \in Range(models[file]) : entry.path = path /\ Model(file, path) = entry.id
  BY <1>4 DEF Range
<1>6. f \in Range(path) /\ path[3] = f
  BY <1>1, PathShape DEF NamePath
<1>7. PICK other \in Range(own) : entry = EntryOf(s, other, struct)
  BY <1>1, <1>5, <1>6 DEF Provides
<1>8. FunctionName(other) = f
  <2>1. path = NamePath(s, FunctionName(other), struct)
    BY <1>5, <1>7 DEF EntryOf
  <2>2. path[3] = FunctionName(other)
    BY <2>1, PathShape DEF NamePath
  <2> QED
    BY <1>6, <2>2
<1>9. other = id
  <2>1. PICK k \in 1 .. Len(own) : other = own[k]
    BY <1>1, ItemsOf
  <2>2. PICK l \in 1 .. Len(own) : id = own[l]
    BY <1>1, ItemsOf
  <2> QED
    BY <1>1, <1>8, <2>1, <2>2 DEF NoneTwice
<1> QED
  BY <1>1, <1>5, <1>7, <1>9 DEF EntryOf

(* The constructor throws when the program deserves it, for all programs:  *)
(* a Thrift that is made has no name defined twice, no reference that      *)
(* leads nowhere or to the wrong kind of definition, no field with a wrong *)
(* mark or without the mark it needs, where a default that leads into a    *)
(* circle of consts without a list is none, and no straight service that   *)
(* inherits a name it has; and of what is thrown for a duplicate, or for   *)
(* one of the others, the program has one.                                 *)
THEOREM VerdictIsDeserved == Spec => []Verdict
<1>1. LinkInv /\ ServiceInv /\ Failing /\ SolvedForGood /\ DuplicatesRefused => Verdict
  <2> SUFFICES ASSUME LinkInv, ServiceInv, Failing, SolvedForGood, DuplicatesRefused
               PROVE  Verdict
    OBVIOUS
  <2>1. phase = "done" => \A s \in Straight : Unrepeated(s)
    BY HasInherited DEF SolvedForGood
  <2> QED
    BY <2>1 DEF Verdict, Failing, Wrong, SolvedForGood
<1> QED
  BY <1>1, LinkInvariant, ServiceInvariant, FailingInvariant, LinkedIsSolved,
     DuplicatesAreRefused, PTL

(* A straight service of a Thrift that is made has its own functions and   *)
(* those of all it extends, each once, and Thrift.models has the structs   *)
(* of each under its own name, for all programs and however deep services  *)
(* extend one another.                                                     *)
THEOREM AllAreInherited == Spec => []InheritsAll
<1>1. LinkInv /\ ServiceInv /\ SolvedForGood => InheritsAll
  <2> SUFFICES ASSUME LinkInv, ServiceInv, phase = "done", Resolved, NEW s \in Straight
               PROVE  /\ FunctionNames(functions[s]) =
                            UNION {OwnNames(a) : a \in {s} \cup Ancestors(s)}
                      /\ Cardinality(FunctionNames(functions[s])) = Len(functions[s])
                      /\ \A id \in Range(functions[s]), struct \in Range(Structs) :
                            Model(s[1], StructOf(FunctionPath(Def(s).name, FunctionName(id)), struct))
                                = StructId(id, struct)
    BY DEF InheritsAll, SolvedForGood
  <2>1. s \in Services /\ ServiceTrue(s) /\ FunctionNames(functions[s]) = Line(s)
    BY HasInherited
  <2>2. Listed(functions[s]) /\ NoneTwice(functions[s]) /\ Provides(s)
    BY <2>1 DEF ServiceTrue
  <2>3. Cardinality(FunctionNames(functions[s])) = Len(functions[s])
    <3>1. PICK ids, n, f : /\ ids = functions[s] /\ n = Len(ids)
                           /\ f = [i \in 1 .. n |-> FunctionName(ids[i])]
      OBVIOUS
    <3>2. n \in Nat /\ DOMAIN f = 1 .. n /\ \A i \in 1 .. n : f[i] = FunctionName(ids[i])
      BY <2>2, <3>1, ItemsOf
    <3>3. Range(f) = FunctionNames(ids)
      <4>1. FunctionNames(ids) = {FunctionName(ids[i]) : i \in 1 .. n}
        <5>1. Range(ids) = {ids[i] : i \in 1 .. n}
          BY <2>2, <3>1, ItemsOf DEF Range
        <5> QED
          BY <5>1 DEF FunctionNames
      <4>2. Range(f) = {f[i] : i \in 1 .. n}
        BY <3>2 DEF Range
      <4> QED
        BY <3>2, <4>1, <4>2
    <3>4. \A k, l \in 1 .. n : f[k] = f[l] => k = l
      BY <2>2, <3>1, <3>2 DEF NoneTwice
    <3> QED
      <4>1. Cardinality(Range(f)) = n
        BY <3>2, <3>4, Alike
      <4> QED
        BY <3>1, <3>3, <4>1
  <2>4. Def(s).name = s[2][1]
    BY <2>1, LinkReady, ServiceNamed
  <2>5. Range(Structs) = Halves
    BY DEF Range, Structs, Halves
  <2> QED
    BY <2>1, <2>2, <2>3, <2>4, <2>5, FindsStruct DEF Line, NamePath
<1> QED
  BY <1>1, LinkInvariant, ServiceInvariant, LinkedIsSolved, PTL
=============================================================================
