------------------------------- MODULE MCPipe -------------------------------
(* Instances of Pipe for TLC. *)
EXTENDS Pipe

CONSTANTS r1, w1, w2

\* w2 writes more than the buffer holds, r1 reads byte by byte.
Mixed(t) == CASE t = r1 -> 1 [] t = w1 -> 2 [] t = w2 -> 3
=============================================================================
