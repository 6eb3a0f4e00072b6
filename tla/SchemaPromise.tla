---------------------------- MODULE SchemaPromise ----------------------------
(***************************************************************************)
(* What thriftrw promises to programs that exchange structs and do not     *)
(* have the same schema: what one holds and another then holds, without a  *)
(* word about bytes.  Module Exchange shows that the codec keeps it.       *)
(***************************************************************************)
EXTENDS Codec

CONSTANTS Parties,      \* who holds structs: names of Structs, one schema each
          Offers(_)     \* the structs a party may start with

VARIABLES at,           \* who holds the struct
          held,         \* Kept(struct), or Refused
          cut           \* the struct was damaged on its way

vars == <<at, held, cut>>

Kept(value) == [err |-> "none", value |-> value]
Refused == Failed("refused")
StructOf(party) == [t |-> "struct", name |-> party]
-----------------------------------------------------------------------------
(* If two fields have one id, both are written and the later one is read.  *)
Latest(fields) == fields[Len(fields)]
LastWithId(fields, id) == Latest(SelectSeq(fields, LAMBDA f : f.id = id))

(* The 64 bits of an i64, in whatever form it is given; where a date is    *)
(* expected, what is neither a date nor a number is the epoch.             *)
Bits(form, value) ==
    LET half(n) == SubSeq(value.of, 8 * n - 7, 8 * n)
        digits(n) == [i \in {i \in 1 .. 8 : \A j \in 1 .. i : half(n)[j] >= 0} |-> half(n)[i]]
        padded(n) == [i \in 1 .. 8 - Len(digits(n)) |-> 0] \o digits(n)
        nibbles == padded(1) \o padded(2) IN
    CASE value.form = "Buffer" -> [i \in 1 .. 8 |-> value.of[i]]
      [] value.form = "Array" -> [i \in 1 .. 8 |-> (value.of[i] + 256) % 256]
      [] value.form = "Number" -> SignExtended(value.of[1])
      [] value.form = "Long" \/ (value.form = "Pair" /\ form # "Date") ->
            value.of[1] \o value.of[2]
      [] value.form = "Hex" /\ form # "Date" ->
            [i \in 1 .. 8 |-> 16 * nibbles[2 * i - 1] + nibbles[2 * i]]
      [] value.form \in {"Date", "Iso"} /\ value.of # <<>> -> value.of
      [] OTHER -> Zero

(* README.md 656 lists what can be given for an i64, but the halves of a   *)
(* hexadecimal string or a pair have to be signed numbers of 32 bits: with *)
(* their first bit set they are too large.                                 *)
Representable(form, value) ==
    CASE value.form = "Array" -> Len(value.of) = 8
      [] form = "Date" \/ value.form \in {"Buffer", "Number"} -> TRUE
      [] value.form \in {"Long", "Pair"} -> \A i \in 1 .. 2 : Len(value.of[i]) = 4
      [] value.form = "Hex" -> /\ Len(value.of) = 16
                               /\ \A i \in {1, 9} :
                                    \/ value.of[i] \in 0 .. 7
                                    \/ /\ value.of[i] > 7
                                       /\ \E j \in i + 1 .. i + 7 : value.of[j] < 0
      [] OTHER -> FALSE

(* What a reader makes of them.                                            *)
FromBits(form, bits) ==
    CASE form = "Buffer" -> I64("Buffer", bits)
      [] form = "Long" -> I64("Long", <<SubSeq(bits, 1, 4), SubSeq(bits, 5, 8)>>)
      [] form = "Date" -> NewDate(bits)

RECURSIVE Sendable(_, _), Untyped(_, _), Convert(_, _, _)

(* Nothing required is missing, no integer or enum name is out of range.   *)
Sendable(type, value) ==
    LET all(items) == \A item \in Range(items) : Sendable(item[1], item[2]) IN
    CASE IsInt(type) -> InRange(value, IntWidth(type))
      [] type.t = "enum" -> HasName(type.name, value)
      [] type.t = "i64" -> Representable(type.form, value)
      [] type.t \in {"list", "set", "map"} -> all(Items(type, value))
      [] type.t = "struct" -> /\ ~MissingForWrite(Structs[type.name], value)
                              /\ all(FieldItems(Structs[type.name], value))
      [] OTHER -> TRUE

Number(type, value) == IF type.t = "enum" THEN ValueOf(type.name, value) ELSE value

(* What a reader without a type makes of a value.                          *)
Untyped(type, value) ==
    LET untyped(items) ==
            [i \in 1 .. Len(items) |-> Untyped(items[i][1], items[i][2])] IN
    CASE type.t = "enum" -> Number(type, value)
      [] type.t = "i64" -> Bits(type.form, value)
      [] type.t \in {"list", "set"} -> untyped(Items(type, value))
      [] type.t = "map" -> ObjectOf(untyped(Items(type, value)))
      [] type.t = "struct" ->
            LET fields == Available(Structs[type.name], value)
                ids == {f.id : f \in Range(fields)}
                field(id) == LastWithId(fields, id)
            IN  [id \in ids |-> Untyped(field(id).type, value[field(id).name])]
      [] OTHER -> value

ConvertAll(w, r, values) ==
    LET got == [i \in 1 .. Len(values) |-> Convert(w, r, values[i])] IN
    IF \A i \in DOMAIN got : Ok(got[i])
    THEN Kept([i \in DOMAIN got |-> got[i].value])
    ELSE Refused

SameTypeid(w, r) == TypeId(w) = TypeId(r)

(* Field by field: those both know by id are converted, a default stands   *)
(* for one the reader alone knows, and one the writer alone knows is left  *)
(* out, unless the reader expects a result: then it is 'failure'.  An i8   *)
(* arrives without its sign, and a union holds all that was sent in it and *)
(* calls itself by the last (I8RW, ThriftUnion.set).                       *)
ConvertStruct(w, r, struct) ==
    LET sent == Available(w, struct)
        known(f) == \E g \in Range(r.fields) : g.id = f.id
        reader(f) == LastWithId(r.fields, f.id)
        both == SelectSeq(sent, known)
        got == [n \in {reader(f).name : f \in Range(both)} |->
                  LET f == Latest(SelectSeq(both, LAMBDA g : reader(g).name = n))
                  IN  Convert(f.type, reader(f).type, struct[f.name])]
        lost == SelectSeq(sent, LAMBDA f : ~known(f))
        extra == IF r.kind = "result" /\ lost # <<>>
                 THEN LET f == Latest(lost) IN
                      [n \in {"failure"} |-> Untyped(f.type, struct[f.name])]
                 ELSE IF r.kind = "union" /\ both # <<>>
                 THEN [n \in {"type"} |-> reader(Latest(both)).name]
                 ELSE Nothing
        made == Create(r)
        result == [n \in DOMAIN got \cup DOMAIN extra \cup DOMAIN made |->
                     IF n \in DOMAIN got THEN got[n].value
                     ELSE IF n \in DOMAIN extra THEN extra[n] ELSE made[n]]
    IN  IF \A f \in Range(both) : Ok(Convert(f.type, reader(f).type, struct[f.name]))
        THEN IF \E f \in Range(r.fields) : f.required /\ f.name \notin DOMAIN result
             THEN Refused ELSE Kept(result)
        ELSE Refused

(* What a reader of type 'r' has of a value sent as type 'w'.              *)
Convert(w, r, value) ==
    IF ~Accepts(r, TypeId(w)) THEN Refused
    ELSE CASE r.t = "enum" -> IF HasValue(r.name, Number(w, value))
                              THEN Kept(NameOf(r.name, Number(w, value)))
                              ELSE Refused
           [] r.t = "i8" -> Kept(value % 256)
           [] r.t = "i64" -> Kept(FromBits(r.form, Bits(w.form, value)))
           [] r.t \in {"i16", "i32"} -> Kept(Number(w, value))
           [] r.t \in {"list", "set"} ->
                IF SameTypeid(w.of, r.of)
                THEN Then(ConvertAll(w.of, r.of, value), LAMBDA vs :
                          Kept(IF r.t = "set" THEN SetForm(r, vs.value) ELSE vs.value))
                ELSE Refused
           [] r.t = "map" ->
                IF SameTypeid(w.key, r.key) /\ SameTypeid(w.val, r.val)
                THEN LET column(c) == [i \in 1 .. Len(value) |-> value[i][c]] IN
                     Then(ConvertAll(w.key, r.key, column(1)), LAMBDA ks :
                     Then(ConvertAll(w.val, r.val, column(2)), LAMBDA vs :
                          LET pairs == [i \in 1 .. Len(value) |->
                                          <<ks.value[i], vs.value[i]>>]
                          IN  Kept(IF r.form = "object"
                                   THEN ObjectForm(r.key, pairs) ELSE pairs)))
                ELSE Refused
           [] r.t = "struct" -> ConvertStruct(Structs[w.name], Structs[r.name], value)
           [] OTHER -> Kept(value)
-----------------------------------------------------------------------------
Init == /\ at \in Parties
        /\ \E struct \in Offers(at) : held = Kept(struct)
        /\ cut = FALSE

CanSend == Ok(held) /\ Sendable(StructOf(at), held.value)

(* 'party' receives what the holder sent.                                  *)
Pass(party) == /\ CanSend /\ ~cut
               /\ at' = party
               /\ held' = Convert(StructOf(at), StructOf(party), held.value)
               /\ cut' = FALSE

Refuse == /\ Ok(held) /\ ~CanSend
          /\ held' = Refused
          /\ UNCHANGED <<at, cut>>

Damage == CanSend /\ cut' = TRUE /\ UNCHANGED <<at, held>>

(* Damage never goes unnoticed.                                            *)
Notice(party) == /\ cut
                 /\ at' = party /\ held' = Refused /\ cut' = FALSE

Next == \/ \E party \in Parties : Pass(party) \/ Notice(party)
        \/ Refuse \/ Damage

Spec == Init /\ [][Next]_vars
=============================================================================
