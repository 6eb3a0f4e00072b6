------------------------------- MODULE Int64 -------------------------------
(***************************************************************************)
(* i64.js.  No number of JavaScript holds 64 bits, so a writer takes an    *)
(* i64 in many forms, and a reader gives it in one of three: I64BufferRW,  *)
(* I64LongRW or I64DateRW, by the annotation of the type.                  *)
(*                                                                         *)
(* An i64 is [form, of]:                                                   *)
(*   "Buffer"         its bytes, eight or more                             *)
(*   "Array"          the numbers in it                                    *)
(*   "Number"         one integer (bound: of 32 bits, as TLC has them)     *)
(*   "Long", "Pair"   {high, low} or {hi, lo}: two words.  A Long spells   *)
(*                    its number when it is asked for one, a Pair does not *)
(*   "Hex"            digits 0 to 15, or -1 for a character that is none   *)
(*   "Date", "Iso"    the bytes of its milliseconds: a Date, or the string *)
(*                    of one                                               *)
(* and a word is the bytes of a number: four of them if it is an i32, five *)
(* if it is not, none if it is missing.                                    *)
(***************************************************************************)
EXTENDS Wire

I64(form, of) == [form |-> form, of |-> of]
Zero == [i \in 1 .. 8 |-> 0]
SignExtended(n) == [i \in 1 .. 4 |-> IF n < 0 THEN 255 ELSE 0] \o Bytes(n, 4)

(* Date: milliseconds are within 8.64e15 of the epoch, or it is invalid.   *)
(* All that are exceed the integers of a double.                           *)
LastDate == <<0, 30, 178, 8, 194, 220, 0, 0>>
FirstDate == <<255, 225, 77, 247, 61, 36, 0, 0>>
Before(x, y) == \E i \in 1 .. 8 : x[i] < y[i] /\ \A j \in 1 .. i - 1 : x[j] = y[j]
InvalidDate == I64("Date", <<>>)
NewDate(ms) == IF \/ ms[1] < 128 /\ Before(LastDate, ms)
                  \/ ms[1] >= 128 /\ Before(ms, FirstDate)
               THEN InvalidDate ELSE I64("Date", ms)

(* Buffer.writeInt32BE throws if the number is none of an i32.             *)
WriteWords(words) ==
    IF \A i \in 1 .. 2 : Len(words[i]) = 4 THEN Wrote(words[1] \o words[2])
                                           ELSE Failed("throws")
-----------------------------------------------------------------------------
(* writeArrayInt64Into: signed and unsigned bytes alike.                   *)
WriteArray(numbers) ==
    IF Len(numbers) # 8 THEN Failed("expected")
    ELSE Wrote([i \in 1 .. 8 |-> numbers[i] % 256])

WriteObject(words) ==
    IF \E i \in 1 .. 2 : words[i] = <<>> THEN Failed("expected")
                                         ELSE WriteWords(words)

(* parseInt takes the digits there are, up to a character that is none.    *)
ParseHex(digits) ==
    LET taken == {n \in 1 .. 8 : \A i \in 1 .. n : digits[i] >= 0}
        count == IF taken = {} THEN 0
                 ELSE CHOOSE n \in taken : \A m \in taken : m <= n
        digit(i) == IF i <= 8 - count THEN 0 ELSE digits[i - (8 - count)]
        bytes == [i \in 1 .. 4 |-> 16 * digit(2 * i - 1) + digit(2 * i)]
    IN  CASE count = 0 -> <<>>
          [] bytes[1] >= 128 -> <<0>> \o bytes
          [] OTHER -> bytes

WriteString(digits) ==
    IF Len(digits) # 16 THEN Failed("expected")
    ELSE LET words == <<ParseHex(SubSeq(digits, 1, 8)), ParseHex(SubSeq(digits, 9, 16))>>
         IN  WriteObject(words)

(* I64RW.poolWriteInto.                                                    *)
WriteInt64(value) ==
    CASE value.form = "Buffer" -> Wrote(SubSeq(value.of, 1, 8))
      [] value.form = "Number" -> Wrote(SignExtended(value.of[1]))
      [] value.form = "Array" -> WriteArray(value.of)
      [] value.form = "Hex" -> WriteString(value.of)
      [] value.form = "Iso" -> Failed("expected")
      [] value.form = "Date" -> Failed("expected")
      [] value.form \in {"Long", "Pair"} -> WriteObject(value.of)

(* I64DateRW.poolWriteInto: what is no number is NaN, and Long.fromNumber  *)
(* makes zero of it.                                                       *)
WriteDate(value) ==
    CASE value.form \in {"Buffer", "Array", "Number"} -> WriteInt64(value)
      [] value.form = "Long" -> Wrote(value.of[1] \o value.of[2])
      [] value.form \in {"Date", "Iso"} /\ value.of # <<>> -> Wrote(value.of)
      [] OTHER -> Wrote(Zero)

WriteI64(form, value) == IF form = "Date" THEN WriteDate(value) ELSE WriteInt64(value)
-----------------------------------------------------------------------------
(* I64BufferRW copies what there is, without a bounds check; the rest of   *)
(* the value it allocated stays zero.                                      *)
(* Fault: one byte off.                                                    *)
ReadI64BufferLate(buffer, offset) ==
    Read(offset + 8, I64("Buffer", [i \in 1 .. 8 |-> IF offset + i < Len(buffer)
                                                     THEN buffer[offset + i + 1] ELSE 0]))
ReadI64Buffer(buffer, offset) ==
    Read(offset + 8, I64("Buffer", [i \in 1 .. 8 |-> IF offset + i <= Len(buffer)
                                                     THEN buffer[offset + i] ELSE 0]))

(* I64LongRW has no check of its own either: Buffer throws.                *)
ReadI64Long(buffer, offset) ==
    IF Remain(buffer, offset) < 8 THEN Failed("throws")
    ELSE Then(ReadBytes(buffer, offset, 8), LAMBDA r :
              Read(r.offset, I64("Long", <<SubSeq(r.value, 1, 4), SubSeq(r.value, 5, 8)>>)))

(* I64DateRW has one.                                                      *)
ReadI64Date(buffer, offset) ==
    Then(ReadBytes(buffer, offset, 8), LAMBDA r : Read(r.offset, NewDate(r.value)))

ReadI64(form, buffer, offset) ==
    CASE form = "Buffer" -> ReadI64Buffer(buffer, offset)
      [] form = "Long" -> ReadI64Long(buffer, offset)
      [] form = "Date" -> ReadI64Date(buffer, offset)
=============================================================================
