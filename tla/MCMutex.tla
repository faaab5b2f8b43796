------------------------------ MODULE MCMutex ------------------------------
(* Instances of Mutex for TLC.  The bounds: three threads, so that two wait *)
(* while one owns the mutex; two rounds, so that an owner comes back and    *)
(* takes the mutex ahead of a waiter that was woken.                        *)
EXTENDS Mutex
=============================================================================
