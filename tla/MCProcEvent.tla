---------------------------- MODULE MCProcEvent ----------------------------
(* An instance of ProcEvent for TLC: three subscribers from the start, the  *)
(* first of which may close, and one that attaches, acknowledges and closes *)
(* while the target runs.                                                   *)
EXTENDS ProcEvent

CONSTANTS s1, s2, s3

Three == <<s3, s1, s2>>
=============================================================================
