------------------------------ MODULE Exchange ------------------------------
(***************************************************************************)
(* Programs that pass a struct on, each with its own version of the        *)
(* schema: toBuffer by the holder, a buffer on the way, fromBuffer by the  *)
(* next (struct.js).  The buffer may lose its tail.  A hop ends with a     *)
(* struct, or with the error that toBuffer or fromBuffer throws.  On its   *)
(* way a buffer may pass a relay: a program that has no schema, reads a    *)
(* TStruct and writes it again (tstruct.js).                               *)
(***************************************************************************)
EXTENDS Codec, UntypedCodec

CONSTANTS Parties,      \* who holds structs: names of Structs, one schema each
          Offers(_),    \* the structs a party may start with
          MaxHops       \* bound: how often the struct is passed on

VARIABLES at, held,     \* who holds the struct, and what fromBuffer gave it
          stage,        \* "held", "sent", or "cut": sent, and lost its tail
          wire,         \* the buffer on the way
          relayed,      \* the relay has passed it on; at most once a hop
          hops

vars == <<at, held, stage, wire, relayed, hops>>

Kept(value) == [err |-> "none", value |-> value]
Refused == Failed("refused")
StructOf(party) == [t |-> "struct", name |-> party]

Init == /\ at \in Parties
        /\ \E struct \in Offers(at) : held = Kept(struct)
        /\ stage = "held" /\ wire = <<>> /\ hops = 0 /\ relayed = FALSE

(* ThriftStruct.toBuffer.                                                  *)
Send == /\ stage = "held" /\ Ok(held) /\ hops < MaxHops
        /\ LET r == ToBuffer(StructOf(at), held.value) IN
           IF Ok(r) THEN stage' = "sent" /\ wire' = r.value /\ UNCHANGED held
                    ELSE held' = Refused /\ UNCHANGED <<stage, wire>>
        /\ UNCHANGED <<at, relayed, hops>>

(* The transport delivers 'n' bytes and no more.                           *)
Cut(n) == /\ stage = "sent" /\ n < Len(wire)
          /\ stage' = "cut" /\ wire' = SubSeq(wire, 1, n)
          /\ UNCHANGED <<at, held, relayed, hops>>

(* bufrw.fromBuffer and bufrw.toBuffer with TStructRW.  A relay that fails *)
(* passes nothing on.                                                      *)
Relayed == Then(TFromBuffer(wire), LAMBDA r : TToBuffer(r.value))
Relay ==
    /\ stage # "held" /\ ~relayed
    /\ IF Ok(Relayed)
       THEN /\ wire' = Relayed.value /\ relayed' = TRUE
            /\ UNCHANGED <<held, stage, hops>>
       ELSE /\ held' = Refused /\ stage' = "held" /\ wire' = <<>>
            /\ hops' = hops + 1 /\ UNCHANGED relayed
    /\ UNCHANGED at

(* ThriftStruct.fromBuffer.                                                *)
Receive(party) ==
    /\ stage # "held"
    /\ LET r == FromBuffer(StructOf(party), wire) IN
       held' = IF Ok(r) THEN Kept(r.value) ELSE Refused
    /\ at' = party /\ stage' = "held" /\ wire' = <<>> /\ relayed' = FALSE
    /\ hops' = hops + 1

Next == \/ Send \/ Relay
        \/ \E n \in 0 .. Len(wire) : Cut(n)
        \/ \E party \in Parties : Receive(party)

Spec == Init /\ [][Next]_vars
-----------------------------------------------------------------------------
(* Every hop, whatever versions the two programs have, gives what module   *)
(* SchemaPromise says: fields both know arrive, others are left out or     *)
(* take their default, a required one that is missing is refused, and a    *)
(* buffer that lost its tail is refused by every reader.                   *)
Promise == INSTANCE SchemaPromise WITH cut <- (stage = "cut")
Promised == Promise!Spec

Fields(party) == Range(Structs[party].fields)

(* Whatever StructRW has read without an error it writes without one: what *)
(* the reader leaves unchecked (a required field that has a default) never *)
(* surprises the writer, and byteLength and writeInto agree.  The one      *)
(* exception is an i8: I8RW reads 255 where -1 was written, and refuses to *)
(* write it.                                                               *)
RECURSIVE HoldsUnsigned(_, _)
HoldsUnsigned(type, value) ==
    LET anyOf(items) == \E i \in DOMAIN items : HoldsUnsigned(items[i][1], items[i][2])
    IN CASE type.t = "i8" -> ~InRange(value, 1)
         [] type.t \in {"list", "set", "map"} -> anyOf(Items(type, value))
         [] type.t = "struct" -> anyOf(FieldItems(Structs[type.name], value))
         [] OTHER -> FALSE
ReceivedCanBeSent ==
    (stage = "held" /\ hops > 0 /\ Ok(held)) =>
        (Ok(ToBuffer(StructOf(at), held.value)) <=> ~HoldsUnsigned(StructOf(at), held.value))

(* A relay that knows no schema changes nothing: unknown fields, orders of *)
(* elements and sizes included, and it passes on no part of a buffer that  *)
(* lost its tail.                                                          *)
RelayChangesNothing ==
    [][(~relayed /\ relayed') => (stage = "sent" /\ wire' = wire)]_vars

(* The three ways to get past a struct (StructRW, skipType, readType) end  *)
(* at the same byte: the end.                                              *)
ExtentsAgree ==
    stage = "sent" =>
        \A r \in {SkipType(wire, 0, TYPE.STRUCT), ReadType(wire, 0, TYPE.STRUCT)} :
            Ok(r) /\ r.offset = Len(wire)

(* A struct that was read once reads the same ever after: a program that   *)
(* sends itself what it received (a store, a proxy) keeps it.  'failure'   *)
(* is the exception, it is no field and is not written; and so is an i64   *)
(* that is no date where a date is expected: it reads as an invalid Date,  *)
(* which is sent on as the epoch.  So would be the default of a field that *)
(* names an enum member whose value a later member has too: it returns     *)
(* under the later name.  MCSchemas has no such default.                   *)
HoldsInvalidDate ==
    \E f \in Fields(at) : /\ f.name \in DOMAIN held.value /\ f.type.t = "i64"
                          /\ held.value[f.name] = InvalidDate
Settled ==
    [][(/\ stage = "sent" /\ stage' = "held" /\ at' = at /\ hops > 0
        /\ "failure" \notin DOMAIN held.value
        /\ ~HoldsInvalidDate)
       => held' = held]_vars

(* A result that holds a field the reader does not know never reads as     *)
(* success, nor as the empty result of a void function.                    *)
ExceptionIsNoticed ==
    [][(/\ stage = "sent" /\ stage' = "held"
        /\ Structs[at'].kind = "result" /\ Ok(held')
        /\ \E f \in Fields(at) : /\ f.name \in DOMAIN held.value
                                 /\ \A g \in Fields(at') : g.id # f.id)
       => "failure" \in DOMAIN held'.value]_vars
=============================================================================
