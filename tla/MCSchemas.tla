----------------------------- MODULE MCSchemas ------------------------------
(***************************************************************************)
(* Schemas for model checking: versions of a node that contains itself, of *)
(* the result of a function, a union, and a struct whose author has used   *)
(* an id twice.                                                            *)
(***************************************************************************)
EXTENDS Int64

Type(t) == [t |-> t]
ListOf(of) == [t |-> "list", of |-> of]
SetOf(of, form) == [t |-> "set", of |-> of, form |-> form]
MapOf(key, val, form) == [t |-> "map", key |-> key, val |-> val, form |-> form]
Named(t, name) == [t |-> t, name |-> name]

Field(id, name, type, required, default) ==
    [id |-> id, name |-> name, type |-> type, required |-> required,
     default |-> default]
Required(id, name, type) == Field(id, name, type, TRUE, <<>>)
Optional(id, name, type) == Field(id, name, type, FALSE, <<>>)
Struct(kind, fields) == [kind |-> kind, fields |-> fields]

Member(name, value) == [name |-> name, value |-> value]
MCEnums == [ColorA |-> <<Member("RED", 0), Member("BLUE", -1), Member("ROUGE", 0)>>,
            ColorB |-> <<Member("RED", 0), Member("BLUE", -1), Member("GOLD", 259)>>]

MCStructs ==
    [NodeA |-> Struct("struct", <<
        Required(1, "n", Type("i16")),
        Optional(2, "tags", ListOf(Type("string"))),
        Field(3, "color", Named("enum", "ColorA"), FALSE, <<"BLUE">>),
        Optional(4, "next", Named("struct", "NodeA"))>>),
     NodeB |-> Struct("struct", <<
        Required(1, "n", Type("i16")),
        Optional(2, "tags", SetOf(Type("string"), "object")),
        Optional(3, "color", Named("enum", "ColorB")),
        Optional(5, "flags", MapOf(Type("i16"), Type("bool"), "object")),
        Optional(6, "stamp", [t |-> "i64", form |-> "Buffer"]),
        Field(300, "k", Type("i32"), TRUE, <<7>>)>>),
     NodeC |-> Struct("struct", <<
        Required(1, "n", Type("i32")),
        Optional(5, "flags", MapOf(Type("i16"), Type("bool"), "entries")),
        Optional(6, "when", [t |-> "i64", form |-> "Date"]),
        Optional(8, "small", Type("i8"))>>),
     NodeD |-> Struct("struct", <<
        Optional(1, "n", Type("i16")),
        Optional(5, "flags", MapOf(Type("i16"), Type("bool"), "entries")),
        Optional(6, "serial", [t |-> "i64", form |-> "Long"]),
        Optional(8, "small", Type("i8")),
        Required(9, "extra", Type("binary"))>>),
     ResA |-> Struct("result", <<
        Optional(0, "success", Type("i16")),
        Optional(1, "oops", Named("struct", "NodeD"))>>),
     ResB |-> Struct("result", <<
        Optional(0, "success", Type("i16")),
        Optional(2, "late", Named("struct", "NodeB"))>>),
     Union |-> Struct("union", <<
        Optional(1, "n", Type("i16")),
        Optional(5, "flags", MapOf(Type("i16"), Type("bool"), "entries"))>>),
     Twins |-> Struct("struct", <<
        Optional(1, "n", Type("i16")),
        Optional(8, "small", Type("i8")),
        Optional(1, "m", Type("i16")),
        Optional(8, "large", Type("bool"))>>)]

MCParties == DOMAIN MCStructs

(* Structs without any field beyond those of 'extra', on any of the bases. *)
Join(a, b) == [k \in DOMAIN a \cup DOMAIN b |-> IF k \in DOMAIN a THEN a[k] ELSE b[k]]
Empty == [k \in {} |-> 0]
a == <<97>>
b == <<98, 99>>

(* A digit above 7 in front of a half of a hexadecimal string, a character *)
(* that is none within one; words that are no signed numbers, or missing.  *)
Stamps == {I64("Buffer", LastDate), I64("Buffer", [LastDate EXCEPT ![8] = 1]),
           I64("Buffer", <<1, 0, 0, 0, 0, 0, 0, 0>>), I64("Buffer", [i \in 1 .. 9 |-> i]),
           I64("Number", <<-2>>), I64("Array", <<-1, 256, 255, 0, 0, 0, 0, 1>>),
           I64("Array", <<1, 2, 3>>),
           I64("Hex", [i \in 1 .. 16 |-> i % 8]), I64("Hex", [i \in 1 .. 16 |-> (i + 7) % 16]),
           I64("Hex", <<9, 1, 2, 3, -1, -1, -1, -1, 0, 0, 0, 0, 0, 0, 0, -1>>),
           I64("Pair", <<Bytes(1, 4), Bytes(-9, 4)>>),
           I64("Pair", <<Bytes(0, 4), <<0, 255, 0, 0, 0>>>>), I64("Pair", <<Bytes(0, 4), <<>>>>)}

NodesA == {Empty, [n |-> 40000], [n |-> -2, tags |-> <<>>],
           [n |-> 513, tags |-> <<b, a, b>>, color |-> "BLUE"],
           [n |-> 1, color |-> "ROUGE", next |-> [n |-> 2, tags |-> <<a>>]],
           [n |-> 1, color |-> "BLACK"], [n |-> 1, next |-> Empty]}
NodesB == {[n |-> 3], [n |-> -300, k |-> -70000],
           [n |-> 4, k |-> 1, tags |-> <<b, a>>, color |-> "GOLD"],
           [n |-> 4, k |-> 1, flags |-> << <<2, TRUE>>, <<-1, FALSE>> >>,
            stamp |-> I64("Buffer", <<0, 1, 2, 3, 4, 0, 0, 9>>)]}
            \cup {[n |-> 4, k |-> 1, stamp |-> stamp] : stamp \in Stamps}
NodesC == {[n |-> 70000], [n |-> -2, small |-> 127], [n |-> 3, small |-> -1],
           [n |-> 6, when |-> I64("Iso", <<0, 0, 1, 106, 0, 0, 0, 7>>)],
           [n |-> 6, when |-> I64("Date", FirstDate)], [n |-> 6, when |-> InvalidDate],
           [n |-> 6, when |-> I64("Long", <<Bytes(-1, 4), Bytes(9, 4)>>)],
           [n |-> 6, when |-> I64("Hex", [i \in 1 .. 16 |-> i % 8])],
           [n |-> 6, when |-> I64("Pair", <<Bytes(0, 4), Bytes(9, 4)>>)],
           [n |-> 5, flags |-> << <<3, TRUE>>, <<-7, TRUE>>, <<2, TRUE>>, <<3, FALSE>> >>]}
NodesD == {[extra |-> <<>>], [extra |-> a, serial |-> I64("Date", <<0, 0, 1, 106, 0, 0, 0, 7>>)],
           [extra |-> a, serial |-> I64("Long", <<Bytes(-2, 4), Bytes(9, 4)>>)], [extra |-> b, small |-> 5, n |-> 6]}

MCOffers(party) ==
    CASE party = "NodeA" -> NodesA [] party = "NodeB" -> NodesB
      [] party = "NodeC" -> NodesC [] party = "NodeD" -> NodesD
      [] party = "ResA" -> {Empty, [success |-> 9], [oops |-> [extra |-> a]],
                            [success |-> 9, oops |-> [extra |-> a, small |-> -1]]}
      [] party = "ResB" -> {[late |-> [n |-> 4, k |-> 1, tags |-> <<a>>]]}
      [] party = "Union" -> {[n |-> 1], [flags |-> << <<1, TRUE>> >>],
                             [n |-> 1, flags |-> << <<1, TRUE>> >>]}
      [] party = "Twins" -> {[n |-> 1], [n |-> 1, m |-> 2], [n |-> 1, small |-> -128],
                             [m |-> 1, large |-> TRUE], [n |-> 40000, m |-> 1]}
=============================================================================
