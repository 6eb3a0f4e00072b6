------------------------------- MODULE Codec -------------------------------
(***************************************************************************)
(* The typed codec: StructRW of struct.js, ListRW of list.js with the      *)
(* forms of set.js, MapObjectRW and MapEntriesRW, EnumRW of enum.js, and   *)
(* ThriftUnion.  Each reader and writer has three operators: poolByteLength,*)
(* poolWriteInto and poolReadFrom.                                         *)
(*                                                                         *)
(* A type is a record [t |-> kind, ...].  Structs and enums are named, so  *)
(* that a struct may contain itself.  A struct value is a function on the  *)
(* names of the fields that are neither null nor undefined.                *)
(***************************************************************************)
EXTENDS Skip, Int64

CONSTANTS Structs,   \* by name: [kind : {"struct", "result", "union"}, fields]
                     \* a field: [id, name, type, required, default], where
                     \* default is <<>> or <<value>>
          Enums      \* by name: the members in order, [name, value]

TypeId(type) ==
    CASE type.t = "bool" -> TYPE.BOOL [] type.t = "i8" -> TYPE.BYTE
      [] type.t = "i16" -> TYPE.I16 [] type.t \in {"i32", "enum"} -> TYPE.I32
      [] type.t = "i64" -> TYPE.I64 [] type.t = "double" -> TYPE.DOUBLE
      [] type.t \in {"string", "binary"} -> TYPE.STRING
      [] type.t = "struct" -> TYPE.STRUCT [] type.t = "list" -> TYPE.LIST
      [] type.t = "set" -> TYPE.SET [] type.t = "map" -> TYPE.MAP

IntWidth(type) == Width(TypeId(type))
IsInt(type) == type.t \in {"i8", "i16", "i32"}

Range(f) == {f[x] : x \in DOMAIN f}

(* enum.js: namesToValues and valuesToNames; the last member with a value  *)
(* gives the value its name.                                               *)
HasName(enum, name) == \E m \in Range(Enums[enum]) : m.name = name
HasValue(enum, value) == \E m \in Range(Enums[enum]) : m.value = value
ValueOf(enum, name) == (CHOOSE m \in Range(Enums[enum]) : m.name = name).value
NameOf(enum, value) ==
    LET members == Enums[enum]
        last == CHOOSE i \in DOMAIN members :
                   /\ members[i].value = value
                   /\ \A j \in i + 1 .. Len(members) : members[j].value # value
    IN  members[last].name

(* Struct lookups of struct.js: the last field with an id has it.          *)
FieldsById(s, id) == {i \in DOMAIN s.fields :
                        /\ s.fields[i].id = id
                        /\ \A j \in i + 1 .. Len(s.fields) : s.fields[j].id # id}

(* The constructor without options: every default, null for the others.    *)
Create(s) ==
    IF s.kind = "union" THEN Nothing
    ELSE LET named == {i \in DOMAIN s.fields : s.fields[i].default # <<>>}
         IN  [n \in {s.fields[i].name : i \in named} |->
                s.fields[CHOOSE i \in named : s.fields[i].name = n].default[1]]

(* model.set: a union also notes the name of the value it holds.           *)
SetField(s, struct, name, value) ==
    IF s.kind = "union" THEN Put(Put(struct, name, value), "type", name)
                        ELSE Put(struct, name, value)

(* validateStruct, after reading.  Fault: nothing is required.             *)
NeverMissing(s, struct) == FALSE
MissingAfterRead(s, struct) ==
    \E f \in Range(s.fields) :
        f.required /\ f.default = <<>> /\ f.name \notin DOMAIN struct

(* What poolByteLength and poolWriteInto of StructRW refuse.               *)
MissingForWrite(s, struct) ==
    \E f \in Range(s.fields) : f.required /\ f.name \notin DOMAIN struct

(* The fields of a value in the order they are written.                    *)
Available(s, struct) ==
    SelectSeq(s.fields, LAMBDA f : f.name \in DOMAIN struct)

(* Object forms.  An object has one property per key, in the place of the  *)
(* first and with the value of the last...                                 *)
Dedupe(pairs) ==
    LET keep(i) == \A j \in 1 .. i - 1 : pairs[j][1] # pairs[i][1]
        last(i) == CHOOSE j \in i .. Len(pairs) :
                      /\ pairs[j][1] = pairs[i][1]
                      /\ \A k \in j + 1 .. Len(pairs) : pairs[k][1] # pairs[i][1]
        first == SelectSeq([i \in 1 .. Len(pairs) |-> i], keep)
    IN  [n \in 1 .. Len(first) |-> <<pairs[first[n]][1], pairs[last(first[n])][2]>>]

(* ... and Object.keys lists the natural numbers first, in ascending order.*)
(* A string key stands for one that spells no number.                      *)
ObjectForm(key, pairs) ==
    LET distinct == Dedupe(pairs)
        index(p) == IsInt(key) /\ p[1] >= 0
        indices == {p[1] : p \in {p \in Range(distinct) : index(p)}}
        nth(i) == CHOOSE p \in Range(distinct) :
                    index(p) /\ Cardinality({k \in indices : k < p[1]}) = i - 1
    IN  [i \in 1 .. Cardinality(indices) |-> nth(i)]
            \o SelectSeq(distinct, LAMBDA p : ~index(p))
-----------------------------------------------------------------------------
(* poolByteLength.                                                         *)
Length(n) == [err |-> "none", length |-> n]

RECURSIVE ByteLength(_, _), SumLengths(_, _)

(* 'items' is a sequence of <<type, value>>.                               *)
SumLengths(items, start) ==
    IF items = <<>> THEN Length(start)
    ELSE Then(ByteLength(items[1][1], items[1][2]), LAMBDA r :
              SumLengths(Tail(items), start + r.length))

(* A list, set or map as the typed values it is made of, in wire order.    *)
Items(type, value) ==
    IF type.t = "map"
    THEN [i \in 1 .. 2 * Len(value) |->
             IF i % 2 = 1 THEN <<type.key, value[(i + 1) \div 2][1]>>
                          ELSE <<type.val, value[i \div 2][2]>>]
    ELSE [i \in 1 .. Len(value) |-> <<type.of, value[i]>>]

FieldItems(s, struct) ==
    LET fields == Available(s, struct) IN
    [i \in 1 .. Len(fields) |-> <<fields[i].type, struct[fields[i].name]>>]

(* Fault: the id of a field is forgotten.                                  *)
ThinHeader == 1
FieldHeader == 3

ByteLength(type, value) ==
    CASE type.t \in {"bool", "i8", "i16", "i32", "i64", "double", "enum"} ->
            Length(Width(TypeId(type)))
      [] type.t \in {"string", "binary"} -> Length(4 + Len(value))
      [] type.t \in {"list", "set"} -> SumLengths(Items(type, value), 5)
      [] type.t = "map" -> SumLengths(Items(type, value), 6)
      [] type.t = "struct" ->
            LET s == Structs[type.name]
                items == FieldItems(s, value) IN
            IF MissingForWrite(s, value) THEN Failed("required")
            ELSE SumLengths(items, 1 + FieldHeader * Len(items))
-----------------------------------------------------------------------------
(* poolWriteInto; the value of a result is the bytes written.              *)
RECURSIVE Write(_, _), WriteItems(_, _, _)

(* Each item behind its own header: the typeid and id of a field, nothing  *)
(* for an element.                                                         *)
WriteItems(items, headers, bytes) ==
    IF items = <<>> THEN Wrote(bytes)
    ELSE Then(Write(items[1][1], items[1][2]), LAMBDA r :
              WriteItems(Tail(items), Tail(headers), bytes \o headers[1] \o r.value))

WriteElements(type, value, header) ==
    LET items == Items(type, value) IN
    WriteItems(items, [i \in 1 .. Len(items) |-> <<>>],
               header \o Bytes(Len(value), 4))

WriteStruct(s, struct) ==
    LET fields == Available(s, struct) IN
    IF MissingForWrite(s, struct) THEN Failed("required")
    ELSE Then(WriteItems(FieldItems(s, struct),
                         [i \in 1 .. Len(fields) |->
                             <<TypeId(fields[i].type)>> \o Bytes(fields[i].id, 2)],
                         <<>>),
              LAMBDA r : Wrote(r.value \o <<TYPE.STOP>>))

Write(type, value) ==
    CASE type.t = "bool" -> Wrote(BoolBytes(value))
      [] IsInt(type) -> IF InRange(value, IntWidth(type))
                          THEN Wrote(Bytes(value, IntWidth(type)))
                          ELSE Failed("range")
      [] type.t = "i64" -> WriteI64(type.form, value)
      [] type.t = "double" -> Wrote(value)
      [] type.t = "enum" -> IF HasName(type.name, value)
                              THEN Wrote(Bytes(ValueOf(type.name, value), 4))
                              ELSE Failed("name")
      [] type.t \in {"string", "binary"} -> Wrote(StringBytes(value))
      [] type.t \in {"list", "set"} ->
            WriteElements(type, value, <<TypeId(type.of)>>)
      [] type.t = "map" ->
            WriteElements(type, value, <<TypeId(type.key), TypeId(type.val)>>)
      [] type.t = "struct" -> WriteStruct(Structs[type.name], value)

(* bufrw.toBuffer (external): a buffer of byteLength, filled by writeInto. *)
ToBuffer(type, value) ==
    Then(ByteLength(type, value), LAMBDA l :
    Then(Write(type, value), LAMBDA r :
         IF Len(r.value) = l.length THEN r ELSE Failed("short")))
-----------------------------------------------------------------------------
(* poolReadFrom.                                                           *)
RECURSIVE ReadFrom(_, _, _), ReadFields(_, _, _, _), ReadItems(_, _, _, _, _)

(* The deprecated alternate typeid of a set, see set.js.                   *)
Accepts(type, typeid) ==
    typeid = TypeId(type) \/ (type.t = "set" /\ typeid = TYPE.LIST)

(* The fields up to STOP.  A field a result struct does not know is read   *)
(* as an exception from the future; any other struct skips it.             *)
(* Fault: skips in either case.                                            *)
SkipUnknown(s, buffer, offset, typeid, struct) ==
    Then(SkipType(buffer, offset, typeid), LAMBDA v : Read(v.offset, struct))
Unknown(s, buffer, offset, typeid, struct) ==
    IF s.kind = "result"
    THEN Then(ReadType(buffer, offset, typeid), LAMBDA v :
              Read(v.offset, Put(struct, "failure", v.value)))
    ELSE Then(SkipType(buffer, offset, typeid), LAMBDA v : Read(v.offset, struct))

Known(s, f, buffer, offset, typeid, struct) ==
    IF ~Accepts(f.type, typeid) THEN Failed("typeid")
    ELSE Then(ReadFrom(f.type, buffer, offset), LAMBDA v :
              Read(v.offset, SetField(s, struct, f.name, v.value)))

ReadFields(s, buffer, offset, struct) ==
    Then(ReadInt(buffer, offset, 1), LAMBDA t :
        IF t.value = TYPE.STOP
        THEN IF MissingAfterRead(s, struct) THEN Failed("required")
                                            ELSE Read(t.offset, struct)
        ELSE Then(ReadInt(buffer, t.offset, 2), LAMBDA id :
             Then(IF FieldsById(s, id.value) = {}
                  THEN Unknown(s, buffer, id.offset, t.value, struct)
                  ELSE LET i == CHOOSE i \in FieldsById(s, id.value) : TRUE
                       IN  Known(s, s.fields[i], buffer, id.offset, t.value, struct),
                  LAMBDA r : ReadFields(s, buffer, r.offset, r.value))))

(* n values of the types in turn: elements, or keys and values.            *)
ReadItems(types, n, buffer, offset, values) ==
    IF Len(values) = n THEN Read(offset, values)
    ELSE Then(ReadFrom(types[(Len(values) % Len(types)) + 1], buffer, offset),
              LAMBDA v : ReadItems(types, n, buffer, v.offset, Append(values, v.value)))

ReadContainer(types, header, buffer) ==
    IF header.value.types # [i \in 1 .. Len(types) |-> TypeId(types[i])]
    THEN Failed("typeid")
    ELSE IF header.value.size < 0 THEN Failed("size")
    ELSE ReadItems(types, header.value.size * Len(types), buffer, header.offset, <<>>)

Pairs(kvs) == [i \in 1 .. Len(kvs) \div 2 |-> <<kvs[2 * i - 1], kvs[2 * i]>>]

(* A set is an array, or an object whose keys are its elements.            *)
SetForm(type, values) ==
    IF type.form = "object"
    THEN LET keys == ObjectForm(type.of, [i \in 1 .. Len(values) |-> <<values[i], TRUE>>])
         IN  [i \in 1 .. Len(keys) |-> keys[i][1]]
    ELSE values

ReadFrom(type, buffer, offset) ==
    CASE type.t = "bool" -> ReadBool(buffer, offset)
      [] type.t = "i8" -> ReadI8(buffer, offset)
      [] type.t \in {"i16", "i32"} -> ReadInt(buffer, offset, IntWidth(type))
      [] type.t = "i64" -> ReadI64(type.form, buffer, offset)
      [] type.t = "double" -> ReadBytes(buffer, offset, 8)
      [] type.t = "enum" ->
            Then(ReadInt(buffer, offset, 4), LAMBDA r :
                 IF HasValue(type.name, r.value)
                 THEN Read(r.offset, NameOf(type.name, r.value))
                 ELSE Failed("value"))
      [] type.t \in {"string", "binary"} -> ReadString(buffer, offset)
      [] type.t = "list" ->
            Then(ReadListHeader(buffer, offset), LAMBDA h :
                 ReadContainer(<<type.of>>, h, buffer))
      [] type.t = "set" ->
            Then(ReadListHeader(buffer, offset), LAMBDA h :
            Then(ReadContainer(<<type.of>>, h, buffer), LAMBDA vs :
                 Read(vs.offset, SetForm(type, vs.value))))
      [] type.t = "map" ->
            Then(ReadMapHeader(buffer, offset), LAMBDA h :
            Then(ReadContainer(<<type.key, type.val>>, h, buffer), LAMBDA kvs :
                 Read(kvs.offset, IF type.form = "object"
                                  THEN ObjectForm(type.key, Pairs(kvs.value))
                                  ELSE Pairs(kvs.value))))
      [] type.t = "struct" ->
            ReadFields(Structs[type.name], buffer, offset, Create(Structs[type.name]))

(* bufrw.fromBuffer (external): nothing may be left over.                  *)
FromBuffer(type, buffer) ==
    Then(ReadFrom(type, buffer, 0), LAMBDA r :
         IF r.offset = Len(buffer) THEN r ELSE Failed("short"))
=============================================================================
