-------------------------------- MODULE Wire --------------------------------
(***************************************************************************)
(* Bytes on the wire: the typeids of TYPE.js, the integers of i8.js,       *)
(* i16.js and i32.js, booleans, and the parts of bufrw that                *)
(* thriftrw builds on (external): big-endian integers, byte strings and    *)
(* the result objects every reader and writer returns.                     *)
(*                                                                         *)
(* A buffer is a sequence of bytes.  An offset counts the bytes before it, *)
(* as in the code.                                                         *)
(***************************************************************************)
EXTENDS Integers, Sequences

Byte == 0 .. 255

TYPE == [STOP |-> 0, VOID |-> 1, BOOL |-> 2, BYTE |-> 3, DOUBLE |-> 4,
         I16 |-> 6, I32 |-> 8, I64 |-> 10, STRING |-> 11, STRUCT |-> 12,
         MAP |-> 13, SET |-> 14, LIST |-> 15]

(* bufrw: results.  'throws' stands for a RangeError of Buffer itself.     *)
Read(offset, value) == [err |-> "none", offset |-> offset, value |-> value]
Failed(err) == [err |-> err]
Ok(result) == result.err = "none"

(* What poolWriteInto wrote.                                               *)
Wrote(bytes) == [err |-> "none", value |-> bytes]

(* "if (result.err) return result", and go on with the result if not.      *)
Then(result, Go(_)) == IF Ok(result) THEN Go(result) ELSE result
-----------------------------------------------------------------------------
(* Two's complement, most significant byte first.                          *)
Bytes(n, width) == [i \in 1 .. width |-> (n \div 256 ^ (width - i)) % 256]

Signed(byte) == IF byte >= 128 THEN byte - 256 ELSE byte

(* The integer of one, two or four bytes; recursion unrolled from the most *)
(* significant byte, which carries the sign.                               *)
Integer(bytes) ==
    LET value[i \in 1 .. Len(bytes)] ==
            IF i = 1 THEN Signed(bytes[1]) ELSE value[i - 1] * 256 + bytes[i]
    IN  value[Len(bytes)]

Remain(buffer, offset) == Len(buffer) - offset

(* bufrw.FixedWidth and the bounds check all bufrw readers share.          *)
ReadBytes(buffer, offset, width) ==
    IF Remain(buffer, offset) < width
    THEN Failed("short")
    ELSE Read(offset + width, SubSeq(buffer, offset + 1, offset + width))

(* bufrw.Int8, Int16BE, Int32BE, and I16RW and I32RW of i16.js and i32.js. *)
ReadInt(buffer, offset, width) ==
    Then(ReadBytes(buffer, offset, width),
         LAMBDA r : Read(r.offset, Integer(r.value)))

(* I8RW.poolReadFrom takes the byte as it is: 0 to 255.                    *)
ReadI8(buffer, offset) ==
    Then(ReadBytes(buffer, offset, 1), LAMBDA r : Read(r.offset, r.value[1]))

(* I8RW, I16RW, I32RW: what poolWriteInto accepts.                         *)
Limit(width) == CASE width = 1 -> 127 [] width = 2 -> 32767
                  [] width = 4 -> 2147483647
InRange(n, width) == -Limit(width) - 1 <= n /\ n <= Limit(width)

(* BooleanRW.                                                              *)
ReadBool(buffer, offset) ==
    Then(ReadBytes(buffer, offset, 1), LAMBDA r : Read(r.offset, r.value[1] # 0))

BoolBytes(bool) == IF bool THEN <<1>> ELSE <<0>>

(* StringRW and BinaryRW: a length of four bytes, then the bytes.          *)
ReadString(buffer, offset) ==
    Then(ReadInt(buffer, offset, 4),
         LAMBDA r : ReadBytes(buffer, r.offset, r.value))

StringBytes(string) == Bytes(Len(string), 4) \o string
=============================================================================
