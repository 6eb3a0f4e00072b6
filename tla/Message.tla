------------------------------- MODULE Message ------------------------------
(***************************************************************************)
(* MessageRW of message.js: the envelope of a call, strict or legacy, with *)
(* a body that is a struct of the function or an exception.                *)
(*                                                                         *)
(* A message is [version, type, name, id, body].  The Buffer functions are *)
(* used without a check: they throw where a buffer ends early, except      *)
(* toString, which takes what there is.                                    *)
(***************************************************************************)
EXTENDS Codec

types == [CALL |-> 1, REPLY |-> 2, EXCEPTION |-> 3, ONEWAY |-> 4]
HasType(n) == \E t \in DOMAIN types : types[t] = n
typeNames(n) == CHOOSE t \in DOMAIN types : types[t] = n

(* exceptionTypesDef and exceptionDef; what compile adds to every module.  *)
ExceptionTypes ==
    LET names == <<"UNKNOWN", "UNKNOWN_METHOD", "INVALID_MESSAGE_TYPE",
                   "WRONG_METHOD_NAME", "BAD_SEQUENCE_ID", "MISSING_RESULT",
                   "INTERNAL_ERROR", "PROTOCOL_ERROR", "INVALID_TRANSFORM",
                   "INVALID_PROTOCOL", "UNSUPPORTED_CLIENT_TYPE">>
    IN  [i \in DOMAIN names |-> [name |-> names[i], value |-> i - 1]]
Exception ==
    LET field(id, name, type) == [id |-> id, name |-> name, type |-> type,
                                  required |-> FALSE, default |-> <<>>]
    IN  [kind |-> "struct",
         fields |-> <<field(1, "message", [t |-> "string"]),
                      field(2, "type", [t |-> "enum", name |-> "ExceptionType"])>>]

(* 'rw' is what a MessageRW is made of: the types of body and exception.   *)
(* Fault: an exception has the body of a result.                           *)
AlwaysBody(rw, message) == rw.body
BodyType(rw, message) == IF message.type = "EXCEPTION" THEN rw.exception ELSE rw.body

(* Fault: version 1 counts as none.                                        *)
StrictFromTwo(message) == message.version > 1
Strict(message) == message.version > 0

MessageLength(rw, message) ==
    Then(ByteLength(BodyType(rw, message), message.body), LAMBDA r :
         Length(r.length + Len(message.name) + IF Strict(message) THEN 12 ELSE 9))

(* poolStrictWriteInto and poolLegacyWriteInto.                            *)
Header(message) ==
    IF Strict(message)
    THEN Bytes(message.version + 32768, 2) \o Bytes(types[message.type], 2)
            \o StringBytes(message.name) \o Bytes(message.id, 4)
    ELSE StringBytes(message.name) \o Bytes(types[message.type], 1) \o Bytes(message.id, 4)

WriteMessage(rw, message) ==
    IF message.type \notin DOMAIN types THEN Failed("type name")
    ELSE Then(Write(BodyType(rw, message), message.body), LAMBDA r :
              Wrote(Header(message) \o r.value))

MessageToBuffer(rw, message) ==
    Then(MessageLength(rw, message), LAMBDA l :
    Then(WriteMessage(rw, message), LAMBDA r :
         IF Len(r.value) = l.length THEN r ELSE Failed("short")))
-----------------------------------------------------------------------------
(* Buffer.readUInt8, readUInt16BE and readUInt32BE.                        *)
Natural(bytes) ==
    LET value[i \in 0 .. Len(bytes)] == IF i = 0 THEN 0 ELSE value[i - 1] * 256 + bytes[i]
    IN  value[Len(bytes)]
ReadUInt(buffer, offset, width) ==
    IF Remain(buffer, offset) < width THEN Failed("throws")
    ELSE Read(offset + width, Natural(SubSeq(buffer, offset + 1, offset + width)))

(* A name is cut off where the buffer ends; the offset goes on.            *)
ReadName(buffer, offset) ==
    Then(ReadUInt(buffer, offset, 4), LAMBDA n :
         LET end == n.offset + n.value IN
         Read(end, SubSeq(buffer, n.offset + 1,
                          IF end <= Len(buffer) THEN end ELSE Len(buffer))))

Envelope(version, type, name, id) ==
    [version |-> version, type |-> typeNames(type), name |-> name, id |-> id]

StrictReadFrom(buffer, offset) ==
    Then(ReadUInt(buffer, offset, 2), LAMBDA v :
    IF v.value - 32768 # 1 THEN Failed("version")
    ELSE Then(ReadUInt(buffer, v.offset, 2), LAMBDA t :
    IF ~HasType(t.value % 256) THEN Failed("type")
    ELSE Then(ReadName(buffer, t.offset), LAMBDA name :
         Then(ReadUInt(buffer, name.offset, 4), LAMBDA id :
              Read(id.offset, Envelope(1, t.value % 256, name.value, id.value))))))

LegacyReadFrom(buffer, offset) ==
    Then(ReadName(buffer, offset), LAMBDA name :
    Then(ReadUInt(buffer, name.offset, 1), LAMBDA t :
    Then(ReadUInt(buffer, t.offset, 4), LAMBDA id :
    IF ~HasType(t.value) THEN Failed("type")
    ELSE Read(id.offset, Envelope(0, t.value, name.value, id.value)))))

(* The sign of the first byte.                                             *)
IsStrict(buffer, offset) == buffer[offset + 1] >= 128

(* An exception is the error of the result as well as its body, and the    *)
(* offset behind the header is added to that behind the body.              *)
WithBody(message, body) ==
    [k \in DOMAIN message \cup {"body"} |-> IF k = "body" THEN body ELSE message[k]]
Raised(offset, message) == [err |-> "exception", offset |-> offset, value |-> message]

ReadBody(rw, buffer, header) ==
    Then(ReadFrom(BodyType(rw, header.value), buffer, header.offset), LAMBDA r :
    LET message == WithBody(header.value, r.value) IN
         IF message.type = "EXCEPTION" THEN Raised(header.offset + r.offset, message)
         ELSE Read(r.offset, message))

ReadMessage(rw, buffer, offset) ==
    IF Remain(buffer, offset) < 1 THEN Failed("throws")
    ELSE Then(IF IsStrict(buffer, offset) THEN StrictReadFrom(buffer, offset)
                                          ELSE LegacyReadFrom(buffer, offset),
              LAMBDA header : ReadBody(rw, buffer, header))

(* bufrw.fromBuffer (external) looks at the offset if there is no error.   *)
MessageFromBuffer(rw, buffer) ==
    Then(ReadMessage(rw, buffer, 0), LAMBDA r :
         IF r.offset = Len(buffer) THEN r ELSE Failed("short"))
=============================================================================
