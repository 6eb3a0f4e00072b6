---------------------------- MODULE UntypedCodec ----------------------------
(***************************************************************************)
(* TStructRW, TListRW and TMapRW of tstruct.js, tlist.js and tmap.js with  *)
(* the table of index.js: whole structs without a schema.  A program that  *)
(* knows no schema reads them, and writes them again.                      *)
(*                                                                         *)
(* A TStruct is a sequence of TFields, [typeid, id, val]; a TList or TMap  *)
(* is [types, elements], where the elements of a map are its keys and      *)
(* values in turn.  Integers are integers, all else is bytes.              *)
(***************************************************************************)
EXTENDS Skip

(* ttypes of index.js: void has no reader, and a bool is an Int8.          *)
TInts == {TYPE.BOOL, TYPE.BYTE, TYPE.I16, TYPE.I32}
TLists == {TYPE.MAP, TYPE.LIST, TYPE.SET}
TTypes == TInts \cup TLists \cup {TYPE.DOUBLE, TYPE.I64, TYPE.STRING, TYPE.STRUCT}

TField(typeid, id, val) == [typeid |-> typeid, id |-> id, val |-> val]

(* What each type writes in front, and the typed values that follow.       *)
TStructItems(struct) ==
    [i \in DOMAIN struct |->
        [head |-> <<struct[i].typeid>> \o Bytes(struct[i].id, 2),
         typeid |-> struct[i].typeid, val |-> struct[i].val]]
TElements(list) ==
    [i \in DOMAIN list.elements |->
        [head |-> <<>>, typeid |-> ElementTypeid(list, i - 1), val |-> list.elements[i]]]
(* Fault: the size of a map is the number of its keys and values.          *)
TFlatSize(list) == Len(list.elements)
TSize(list) == Len(list.elements) \div Len(list.types)
TListHead(list) == list.types \o Bytes(TSize(list), 4)
-----------------------------------------------------------------------------
(* poolByteLength.                                                         *)
RECURSIVE TByteLength(_, _), TSumLengths(_, _)

TSumLengths(items, length) ==
    IF items = <<>> THEN [err |-> "none", length |-> length]
    ELSE Then(TByteLength(items[1].typeid, items[1].val), LAMBDA t :
              TSumLengths(Tail(items), length + Len(items[1].head) + t.length))

TByteLength(typeid, value) ==
    CASE typeid \in Scalars -> [err |-> "none", length |-> Width(typeid)]
      [] typeid = TYPE.STRING -> [err |-> "none", length |-> 4 + Len(value)]
      [] typeid \in TLists -> TSumLengths(TElements(value), Len(TListHead(value)))
      [] typeid = TYPE.STRUCT -> TSumLengths(TStructItems(value), 1)
      [] OTHER -> Failed("typeid")
-----------------------------------------------------------------------------
(* poolWriteInto.                                                          *)
RECURSIVE TWrite(_, _), TWriteItems(_, _)

TWriteItems(items, bytes) ==
    IF items = <<>> THEN [err |-> "none", value |-> bytes]
    ELSE Then(TWrite(items[1].typeid, items[1].val), LAMBDA t :
              TWriteItems(Tail(items), bytes \o items[1].head \o t.value))

TWrite(typeid, value) ==
    CASE typeid \in TInts -> [err |-> "none", value |-> Bytes(value, Width(typeid))]
      [] typeid \in {TYPE.DOUBLE, TYPE.I64} -> [err |-> "none", value |-> value]
      [] typeid = TYPE.STRING -> [err |-> "none", value |-> StringBytes(value)]
      [] typeid \in TLists -> TWriteItems(TElements(value), TListHead(value))
      [] typeid = TYPE.STRUCT ->
            Then(TWriteItems(TStructItems(value), <<>>), LAMBDA t :
                 [err |-> "none", value |-> t.value \o <<TYPE.STOP>>])
      [] OTHER -> Failed("typeid")
-----------------------------------------------------------------------------
(* poolReadFrom.                                                           *)
RECURSIVE TRead(_, _, _), TReadFields(_, _, _), TReadElements(_, _, _, _)

TReadFields(buffer, offset, fields) ==
    Then(ReadInt(buffer, offset, 1), LAMBDA t :
        IF t.value = TYPE.STOP THEN Read(t.offset, fields)
        ELSE IF t.value \notin TTypes THEN Failed("typeid")
        ELSE Then(ReadInt(buffer, t.offset, 2), LAMBDA id :
             Then(TRead(buffer, id.offset, t.value), LAMBDA v :
                  TReadFields(buffer, v.offset,
                              Append(fields, TField(t.value, id.value, v.value))))))

TReadElements(buffer, offset, header, elements) ==
    IF Len(elements) = ElementCount(header)
    THEN Read(offset, [types |-> header.types, elements |-> elements])
    ELSE Then(TRead(buffer, offset, ElementTypeid(header, Len(elements))), LAMBDA v :
              TReadElements(buffer, v.offset, header, Append(elements, v.value)))

TRead(buffer, offset, typeid) ==
    CASE typeid \in TInts -> ReadInt(buffer, offset, Width(typeid))
      [] typeid \in {TYPE.DOUBLE, TYPE.I64} -> ReadBytes(buffer, offset, 8)
      [] typeid = TYPE.STRING -> ReadString(buffer, offset)
      [] typeid \in TLists ->
            Then(ReadHeader(typeid, buffer, offset), LAMBDA h :
                 IF h.value.size < 0 THEN Failed("size")
                 ELSE IF \E i \in DOMAIN h.value.types : h.value.types[i] \notin TTypes
                 THEN Failed("typeid")
                 ELSE TReadElements(buffer, h.offset, h.value, <<>>))
      [] typeid = TYPE.STRUCT -> TReadFields(buffer, offset, <<>>)
-----------------------------------------------------------------------------
(* bufrw.fromBuffer and bufrw.toBuffer with TStructRW (external).          *)
TFromBuffer(buffer) ==
    Then(TRead(buffer, 0, TYPE.STRUCT), LAMBDA r :
         IF r.offset = Len(buffer) THEN r ELSE Failed("short"))
TToBuffer(struct) ==
    Then(TByteLength(TYPE.STRUCT, struct), LAMBDA l :
    Then(TWrite(TYPE.STRUCT, struct), LAMBDA r :
         IF Len(r.value) = l.length THEN r ELSE Failed("short")))
=============================================================================
