------------------------------- MODULE MCDpc -------------------------------
(* An instance of Dpc for TLC: two items of the highest priority and one of *)
(* the lowest, scheduled from other processors in any order.                *)
EXTENDS Dpc

CONSTANT low

MCPrio(w) == IF w = low THEN 2 ELSE 0
=============================================================================
