---------------------------- MODULE MCAsyncEach ----------------------------
(* Iterators of zero to four elements, handles that call back up to twice. *)
EXTENDS AsyncEach

MCLengths == 0 .. 4
=============================================================================
