--------------------------- MODULE MCEnumNumbers ----------------------------
(***************************************************************************)
(* EnumNumbers on all enums of up to three members, with an i32 of three   *)
(* bits.                                                                   *)
(***************************************************************************)
EXTENDS EnumNumbers

Numbers == {-4, -1, 0, 1, 2, 3, 4}
Members(numbers) == [name : Name, value : {<<>>} \cup {<<n>> : n \in numbers}]
Lists(numbers) == UNION {[1 .. n -> Members(numbers)] : n \in 0 .. 3}
MCEnums == Lists(Numbers)
=============================================================================
