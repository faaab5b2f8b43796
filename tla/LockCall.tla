------------------------------ MODULE LockCall ------------------------------
(***************************************************************************)
(* The callers of a sleeping lock, which Mutex and RwLock share: where     *)
(* each thread is in the code of the lock, how many calls it has left, and *)
(* the signals sent to those in an interruptible call (kernel/signal.cpp). *)
(***************************************************************************)
EXTENDS ThreadState, WaitList

CONSTANTS
    Interruptible,  \* threads that use the _interruptible calls
    Rounds          \* bound: calls per thread

ASSUME LockCallAssumption ==
    /\ Interruptible \subseteq Threads
    /\ Rounds \in Nat

VARIABLES
    pc,             \* where each thread is
    rounds,         \* calls left
    signal_pending, \* threads with an unblocked signal pending
    signalling      \* where the sender of each thread's signal is

SleepState(t) == IF t \in Interruptible THEN "INTERRUPTIBLE" ELSE "UNINTERRUPTIBLE"

CallInit ==
    /\ status = [t \in Threads |-> "RUNNABLE"]
    /\ parked = [t \in Threads |-> FALSE]
    /\ pc = [t \in Threads |-> "idle"]
    /\ rounds = [t \in Threads |-> Rounds]
    /\ signal_pending = {}
    /\ signalling = [t \in Threads |-> "none"]

At(t, p) == pc[t] = p /\ ~parked[t]

Goto(t, p) == pc' = [pc EXCEPT ![t] = p]

\* All calls made and returned from.
Done == \A t \in Threads : pc[t] = "idle" /\ rounds[t] = 0

-----------------------------------------------------------------------------
(* A signal for an interruptible thread, at most one each.                 *)

\* kernel_tkill marks the signal pending, ...
Signal(t) ==
    /\ t \in Interruptible
    /\ signalling[t] = "none"
    /\ signal_pending' = signal_pending \cup {t}
    /\ signalling' = [signalling EXCEPT ![t] = "look"]
    /\ UNCHANGED <<status, parked, pc, rounds>>

\* ... looks at the status of the target ...
SignalLook(t) ==
    /\ signalling[t] = "look"
    /\ signalling' = [signalling EXCEPT ![t] =
                         IF status[t] = "INTERRUPTIBLE" THEN "wake" ELSE "done"]
    /\ UNCHANGED <<status, parked, pc, rounds, signal_pending>>

\* ... and wakes it.
SignalWake(t) ==
    /\ signalling[t] = "wake"
    /\ thread_wake_up(t)
    /\ signalling' = [signalling EXCEPT ![t] = "done"]
    /\ UNCHANGED <<pc, rounds, signal_pending>>
=============================================================================
