----------------------------- MODULE MCExchange -----------------------------
(* Exchange on the schemas of MCSchemas.                                   *)
EXTENDS Exchange, MCSchemas
=============================================================================
