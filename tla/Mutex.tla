------------------------------- MODULE Mutex -------------------------------
(***************************************************************************)
(* The sleeping mutex of kernel/sched/mutex.cpp: an owner word taken by    *)
(* compare-and-swap, and a list of waiting threads under a spinlock.       *)
(*                                                                         *)
(* A section of the spinlock llock is one step: threads do not leave the   *)
(* processor inside it and no interrupt handler takes it.  What follows    *)
(* the section matters: spin_unlock ends with sched_enable_preempt, which  *)
(* gives up the processor if a reschedule was requested meanwhile, and in  *)
(* mutex_prepare_sleep the thread has already announced its sleep.         *)
(***************************************************************************)
EXTENDS LockCall

CONSTANTS
    ReschedAtUnlock,\* may a reschedule be requested inside llock?
    Nobody

ASSUME MutexAssumption ==
    /\ ReschedAtUnlock \in BOOLEAN
    /\ Nobody \notin Threads

VARIABLES
    counter,        \* the owner word
    thread_list     \* the waiting threads

mutexVars == <<status, parked, counter, thread_list, pc, rounds,
               signal_pending, signalling>>

(* pc[t]: "idle"   outside the lock        "prepare" mutex_prepare_sleep   *)
(*        "resched" the sched_yield at the end of mutex_prepare_sleep      *)
(*        "try"    mutex_trylock of the slow path                          *)
(*        "check"  the trylock failed      "sleep"   commit_sleep          *)
(*        "woken"  back from commit_sleep                                  *)
(*        "got", "eintr"  past the loop    "gotDq", "eintrDq"  dequeueing  *)
(*        "cs"     owns the mutex          "wake"    second half of unlock *)
Points == {"idle", "prepare", "resched", "try", "check", "sleep", "woken",
           "got", "eintr", "gotDq", "eintrDq", "cs", "wake"}

Init == CallInit /\ counter = Nobody /\ thread_list = <<>>

-----------------------------------------------------------------------------
\* Mutant: a store where the compare-and-swap was.
Trylock_Store(t, yes, no) ==
    \/ counter' = t /\ Goto(t, yes)
    \/ counter # Nobody /\ Goto(t, no) /\ UNCHANGED counter

\* mutex_trylock, with the optimistic spinning: it fails only if it sees an
\* owner.
mutex_trylock(t, yes, no) ==
    \/ counter = Nobody /\ counter' = t /\ Goto(t, yes)
    \/ counter # Nobody /\ Goto(t, no) /\ UNCHANGED counter

\* __mutex_lock: the fast path.
Lock(t) ==
    /\ At(t, "idle")
    /\ rounds[t] > 0
    /\ rounds' = [rounds EXCEPT ![t] = @ - 1]
    /\ mutex_trylock(t, "cs", "prepare")
    /\ UNCHANGED <<status, parked, thread_list, signal_pending, signalling>>

PrepareSleep(t) ==
    /\ At(t, "prepare")
    /\ set_current_state(t, SleepState(t))
    /\ thread_list' = list_add_tail(thread_list, t)
    /\ \/ Goto(t, "try")
       \/ ReschedAtUnlock /\ Goto(t, "resched")
    /\ UNCHANGED <<counter, rounds, signal_pending, signalling>>

\* The sched_yield that a pending reschedule request adds to spin_unlock.
Resched(t) ==
    /\ At(t, "resched")
    /\ sched_yield(t)
    /\ Goto(t, "try")
    /\ UNCHANGED <<counter, thread_list, rounds, signal_pending, signalling>>

\* Mutant: the owner word is not looked at again after queueing.
Try_Skipped(t) ==
    /\ At(t, "try")
    /\ Goto(t, "check")
    /\ UNCHANGED <<status, parked, counter, thread_list, rounds, signal_pending, signalling>>

\* The loop condition of mutex_lock_slow_path.
Try(t) ==
    /\ At(t, "try")
    /\ mutex_trylock(t, "got", "check")
    /\ UNCHANGED <<status, parked, thread_list, rounds, signal_pending, signalling>>

\* The loop body, up to commit_sleep.
Check(t) ==
    /\ At(t, "check")
    /\ Goto(t, IF t \in Interruptible \cap signal_pending THEN "eintr" ELSE "sleep")
    /\ UNCHANGED <<status, parked, counter, thread_list, rounds, signal_pending, signalling>>

\* commit_sleep.
Sleep(t) ==
    /\ At(t, "sleep")
    /\ sched_yield(t)
    /\ Goto(t, "woken")
    /\ UNCHANGED <<counter, thread_list, rounds, signal_pending, signalling>>

\* Mutant: the list is left to the waker.
Woken_NoDequeue(t) ==
    /\ At(t, "woken")
    /\ Goto(t, "prepare")
    /\ UNCHANGED <<status, parked, counter, thread_list, rounds, signal_pending, signalling>>

\* mutex_dequeue_thread after the sleep.
Woken(t) ==
    /\ At(t, "woken")
    /\ thread_list' = list_remove(thread_list, t)
    /\ Goto(t, "prepare")
    /\ UNCHANGED <<status, parked, counter, rounds, signal_pending, signalling>>

\* The end of the slow path: the status first, the list second.
LeaveLoop(t) ==
    /\ At(t, "got") \/ At(t, "eintr")
    /\ set_current_state(t, "RUNNABLE")
    /\ Goto(t, IF pc[t] = "got" THEN "gotDq" ELSE "eintrDq")
    /\ UNCHANGED <<counter, thread_list, rounds, signal_pending, signalling>>

\* Mutant: a thread that was interrupted returns as if it had the mutex.
Dequeue_Either(t) ==
    /\ At(t, "gotDq") \/ At(t, "eintrDq")
    /\ thread_list' = list_remove(thread_list, t)
    /\ Goto(t, "cs")
    /\ UNCHANGED <<status, parked, counter, rounds, signal_pending, signalling>>

Dequeue(t) ==
    /\ At(t, "gotDq") \/ At(t, "eintrDq")
    /\ thread_list' = list_remove(thread_list, t)
    /\ Goto(t, IF pc[t] = "gotDq" THEN "cs" ELSE "idle")
    /\ UNCHANGED <<status, parked, counter, rounds, signal_pending, signalling>>

\* mutex_unlock: the owner word is cleared before llock is taken.
Unlock(t) ==
    /\ At(t, "cs")
    /\ counter' = Nobody
    /\ Goto(t, "wake")
    /\ UNCHANGED <<status, parked, thread_list, rounds, signal_pending, signalling>>

\* The first waiter is woken; it stays on the list until it removes itself.
UnlockWake(t) ==
    /\ At(t, "wake")
    /\ IF thread_list # <<>> THEN thread_wake_up(Head(thread_list))
                             ELSE UNCHANGED <<status, parked>>
    /\ Goto(t, "idle")
    /\ UNCHANGED <<counter, thread_list, rounds, signal_pending, signalling>>

-----------------------------------------------------------------------------
MutexStep(t) ==
    \/ Lock(t) \/ PrepareSleep(t) \/ Resched(t) \/ Try(t) \/ Check(t)
    \/ Sleep(t) \/ Woken(t) \/ LeaveLoop(t) \/ Dequeue(t)
    \/ Unlock(t) \/ UnlockWake(t)

SignalStep(t) ==
    /\ Signal(t) \/ SignalLook(t) \/ SignalWake(t)
    /\ UNCHANGED <<counter, thread_list>>

\* What the sender has begun.
SignalRest(t) == signalling[t] # "none" /\ SignalStep(t)

Next == \E t \in Threads : MutexStep(t) \/ SignalStep(t)

Spec == Init /\ [][Next]_mutexVars

(* A runnable thread gets the processor (RoundRobin of Sched), and nobody  *)
(* keeps the mutex for ever.                                               *)
FairSpec ==
    /\ Spec
    /\ \A t \in Threads : WF_mutexVars(MutexStep(t)) /\ WF_mutexVars(SignalRest(t))

-----------------------------------------------------------------------------
(* Properties.                                                             *)

TypeOK ==
    /\ status \in [Threads -> Statuses]
    /\ parked \in [Threads -> BOOLEAN]
    /\ counter \in Threads \cup {Nobody}
    /\ thread_list \in Seq(Threads)
    /\ pc \in [Threads -> Points]
    /\ rounds \in [Threads -> 0 .. Rounds]
    /\ signal_pending \subseteq Threads
    /\ signalling \in [Threads -> {"none", "look", "wake", "done"}]

Owning == {"got", "gotDq", "cs"}

\* The mutex implements a lock asked for in write mode: it is never granted
\* while another thread holds it, and only mutex_unlock of its holder
\* releases it.
Want(t) == IF pc[t] \in {"prepare", "resched", "try", "check", "sleep", "woken"}
           THEN "write" ELSE "none"

Hold(t) == IF pc[t] \in {"got", "gotDq", "cs"} THEN "write" ELSE "none"

LS == INSTANCE LockSpec WITH Callers <- Threads,
                             want <- [t \in Threads |-> Want(t)],
                             hold <- [t \in Threads |-> Hold(t)]

ImplementsLock == LS!LSSpec

\* Mutual exclusion: the owner word names the one thread that is past its
\* trylock and before its unlock, so a waiter never finds itself the owner
\* (the assertion of mutex_lock_slow_path).
OwnerIsOwner == \A t \in Threads : pc[t] \in Owning <=> counter = t

Listed == {"resched", "try", "check", "sleep", "woken", "got", "eintr", "gotDq", "eintrDq"}

\* A thread is on the wait list exactly between mutex_prepare_sleep and
\* mutex_dequeue_thread, once: no node is added twice or removed twice.
WaitListExact ==
    /\ Distinct(thread_list)
    /\ Members(thread_list) = {t \in Threads : pc[t] \in Listed}

\* No wakeup is lost, although mutex_unlock looks at the list after it has
\* let go of the mutex and wakes one waiter only: if no signal comes and no
\* reschedule request falls into mutex_prepare_sleep, every call of
\* mutex_lock returns (what mutex_test waits for).
UndisturbedComplete ==
    [](signal_pending = {} /\ \A t \in Threads : pc[t] # "resched") => <>Done
=============================================================================
