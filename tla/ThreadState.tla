---------------------------- MODULE ThreadState ----------------------------
(***************************************************************************)
(* The contract the scheduler offers to the sleeping primitives.           *)
(*                                                                         *)
(* A primitive (mutex, rwlock, semaphore, condition variable, wait queue,  *)
(* futex) never looks at run queues.  It sets its own status, queues       *)
(* itself on some list, gives up the processor with sched_yield and relies *)
(* on thread_wake_up to be made runnable again.  Two facts per thread are  *)
(* enough to say what that means:                                          *)
(*   status[t]  the thread's status field;                                 *)
(*   parked[t]  the thread is neither a current thread nor on a run queue: *)
(*              only thread_wake_up can make it run again.                 *)
(* Module Sched models the code that implements this contract.             *)
(***************************************************************************)
CONSTANT Threads

VARIABLES status, parked

tsVars == <<status, parked>>

Blocked == {"INTERRUPTIBLE", "UNINTERRUPTIBLE", "STOPPED"}

Statuses == {"RUNNABLE", "DEAD"} \cup Blocked

-----------------------------------------------------------------------------
(* The scheduler calls, as fragments for the actions of a primitive.       *)

\* set_current_state: a plain store to the caller's own status, no lock.
set_current_state(t, s) ==
    /\ status' = [status EXCEPT ![t] = s]
    /\ UNCHANGED parked

\* thread_wake_up: the target becomes runnable wherever it was.
thread_wake_up(t) ==
    /\ status' = [status EXCEPT ![t] = "RUNNABLE"]
    /\ parked' = [parked EXCEPT ![t] = FALSE]

\* thread_wake_up for every thread of a set, in one critical section.
wake_up_all(S) ==
    /\ status' = [t \in Threads |-> IF t \in S THEN "RUNNABLE" ELSE status[t]]
    /\ parked' = [t \in Threads |-> parked[t] /\ t \notin S]

\* sched_yield: a thread that is no longer runnable leaves the processor.
sched_yield(t) ==
    /\ parked' = [parked EXCEPT ![t] = status[t] # "RUNNABLE"]
    /\ UNCHANGED status

-----------------------------------------------------------------------------
TSInit ==
    /\ status = [t \in Threads |-> "RUNNABLE"]
    /\ parked \in [Threads -> BOOLEAN]

\* Only a thread that has the processor changes its own status.
TSSetState(t) ==
    /\ ~parked[t]
    /\ status[t] # "DEAD"
    /\ \E s \in Statuses : set_current_state(t, s)

\* A dead thread is never woken.
TSWake(t) ==
    /\ status[t] # "DEAD"
    /\ thread_wake_up(t)

TSYield(t) ==
    /\ ~parked[t]
    /\ sched_yield(t)

TSNext ==
    \E t \in Threads : TSSetState(t) \/ TSWake(t) \/ TSYield(t)

TSSpec == TSInit /\ [][TSNext]_tsVars
=============================================================================
