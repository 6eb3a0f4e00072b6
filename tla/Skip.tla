-------------------------------- MODULE Skip --------------------------------
(***************************************************************************)
(* Values nobody has a type for: skip.js steps over them, read.js reads    *)
(* them, and the untyped codec of tstruct.js, tlist.js and tmap.js reads   *)
(* and writes whole structs of them.  Only typeids on the wire tell how    *)
(* far each value goes.                                                    *)
(***************************************************************************)
EXTENDS Wire, FiniteSets

Scalars == {TYPE.BOOL, TYPE.BYTE, TYPE.DOUBLE, TYPE.I16, TYPE.I32, TYPE.I64}

(* The widths of the readers that read.js and index.js choose.             *)
Width(typeid) == CASE typeid \in {TYPE.BOOL, TYPE.BYTE} -> 1
                   [] typeid = TYPE.I16 -> 2
                   [] typeid = TYPE.I32 -> 4
                   [] typeid \in {TYPE.DOUBLE, TYPE.I64} -> 8

(* The widths that skip.js has a table of.  Fault: i16 as wide as i32.     *)
SkipWideI16(typeid) == IF typeid = TYPE.I16 THEN 4 ELSE Width(typeid)
SkipWidth(typeid) == CASE typeid \in {TYPE.BOOL, TYPE.BYTE} -> 1
                       [] typeid = TYPE.DOUBLE -> 8
                       [] typeid = TYPE.I16 -> 2
                       [] typeid = TYPE.I32 -> 4
                       [] typeid = TYPE.I64 -> 8

(* TListRW.headerRW and TMapRW.headerRW, shared by skip.js and read.js.    *)
ReadListHeader(buffer, offset) ==
    Then(ReadInt(buffer, offset, 1), LAMBDA t :
    Then(ReadInt(buffer, t.offset, 4), LAMBDA n :
         Read(n.offset, [types |-> <<t.value>>, size |-> n.value])))

ReadMapHeader(buffer, offset) ==
    Then(ReadInt(buffer, offset, 1), LAMBDA k :
    Then(ReadInt(buffer, k.offset, 1), LAMBDA v :
    Then(ReadInt(buffer, v.offset, 4), LAMBDA n :
         Read(n.offset, [types |-> <<k.value, v.value>>, size |-> n.value]))))

(* The header of a container and the typeids of all that follows it.       *)
ReadHeader(typeid, buffer, offset) ==
    IF typeid = TYPE.MAP THEN ReadMapHeader(buffer, offset)
                         ELSE ReadListHeader(buffer, offset)

ElementTypeid(header, i) == header.types[(i % Len(header.types)) + 1]
ElementCount(header) == header.size * Len(header.types)
-----------------------------------------------------------------------------
RECURSIVE SkipType(_, _, _), SkipStruct(_, _), SkipElements(_, _, _, _)

SkipStruct(buffer, offset) ==
    Then(ReadInt(buffer, offset, 1), LAMBDA t :
        IF t.value = TYPE.STOP THEN Read(t.offset, <<>>)
        ELSE Then(ReadBytes(buffer, t.offset, 2), LAMBDA id :
             Then(SkipType(buffer, id.offset, t.value), LAMBDA v :
                  SkipStruct(buffer, v.offset))))

(* The elements of a list or set, the keys and values of a map, in turn.   *)
SkipElements(buffer, offset, header, i) ==
    IF i >= ElementCount(header) THEN Read(offset, <<>>)
    ELSE Then(SkipType(buffer, offset, ElementTypeid(header, i)), LAMBDA v :
              SkipElements(buffer, v.offset, header, i + 1))

(* skipType.  SkipString is the read of a string whose value is dropped.   *)
SkipType(buffer, offset, typeid) ==
    CASE typeid \in Scalars -> ReadBytes(buffer, offset, SkipWidth(typeid))
      [] typeid = TYPE.STRING -> ReadString(buffer, offset)
      [] typeid = TYPE.STRUCT -> SkipStruct(buffer, offset)
      [] typeid \in {TYPE.LIST, TYPE.SET, TYPE.MAP} ->
            Then(ReadHeader(typeid, buffer, offset), LAMBDA h :
                 SkipElements(buffer, h.offset, h.value, 0))
      [] typeid = TYPE.VOID -> Read(offset, <<>>)
      [] OTHER -> Failed("typeid")
-----------------------------------------------------------------------------
(* read.js.  A struct is an object from field ids to values, a map an      *)
(* object from keys to values where the last of two equal keys stays.      *)
Put(object, key, value) ==
    [k \in DOMAIN object \cup {key} |-> IF k = key THEN value ELSE object[k]]

Nothing == [k \in {} |-> 0]

RECURSIVE ReadType(_, _, _), ReadStruct(_, _, _), ReadElements(_, _, _, _)

ReadStruct(buffer, offset, struct) ==
    Then(ReadInt(buffer, offset, 1), LAMBDA t :
        IF t.value = TYPE.STOP THEN Read(t.offset, struct)
        ELSE Then(ReadInt(buffer, t.offset, 2), LAMBDA id :
             Then(ReadType(buffer, id.offset, t.value), LAMBDA v :
                  ReadStruct(buffer, v.offset, Put(struct, id.value, v.value)))))

ReadElements(buffer, offset, header, values) ==
    IF Len(values) >= ElementCount(header) THEN Read(offset, values)
    ELSE Then(ReadType(buffer, offset, ElementTypeid(header, Len(values))),
              LAMBDA v : ReadElements(buffer, v.offset, header,
                                      Append(values, v.value)))

(* The object readMap makes of keys and values that alternate.             *)
ObjectOf(kvs) ==
    LET at(k) == CHOOSE i \in 1 .. Len(kvs) :
                    /\ i % 2 = 1 /\ kvs[i] = k
                    /\ \A j \in i + 1 .. Len(kvs) : j % 2 = 1 => kvs[j] # k
    IN  [k \in {kvs[i] : i \in {j \in 1 .. Len(kvs) : j % 2 = 1}} |-> kvs[at(k) + 1]]

ReadType(buffer, offset, typeid) ==
    CASE typeid = TYPE.BOOL -> ReadBool(buffer, offset)
      [] typeid \in {TYPE.BYTE, TYPE.I16, TYPE.I32} ->
            ReadInt(buffer, offset, Width(typeid))
      [] typeid \in {TYPE.DOUBLE, TYPE.I64} -> ReadBytes(buffer, offset, 8)
      [] typeid = TYPE.STRING -> ReadString(buffer, offset)
      [] typeid = TYPE.STRUCT -> ReadStruct(buffer, offset, Nothing)
      [] typeid \in {TYPE.LIST, TYPE.SET, TYPE.MAP} ->
            Then(ReadHeader(typeid, buffer, offset), LAMBDA h :
            Then(ReadElements(buffer, h.offset, h.value, <<>>), LAMBDA vs :
                 Read(vs.offset, IF typeid = TYPE.MAP THEN ObjectOf(vs.value)
                                                      ELSE vs.value)))
      [] typeid = TYPE.VOID -> Read(offset, <<>>)
      [] OTHER -> Failed("typeid")
=============================================================================
