--------------------------- MODULE MCPthreadCond ---------------------------
(* An instance of PthreadCond for TLC: two waiters and a signaller.    *)
EXTENDS PthreadCond

CONSTANTS w1, w2, s1

MCBucket == [a \in CondAddrs |-> IF a = MutexWord THEN 1 ELSE 2]
=============================================================================
