------------------------------ MODULE MCRwLock ------------------------------
(* An instance of RwLock for TLC: two readers and two writers, the case     *)
(* rwlock_test runs, one writer interruptible.                              *)
EXTENDS RwLock
=============================================================================
