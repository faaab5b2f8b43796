------------------------------- MODULE RwLock -------------------------------
(***************************************************************************)
(* The sleeping readers-writer lock of kernel/sched/rwlock.cpp: a word     *)
(* that counts readers or holds RDWR_LOCK_WRITE, and a list of waiting     *)
(* threads under the spinlock llock.                                       *)
(*                                                                         *)
(* A section of llock is one step, taken at its one access to the lock     *)
(* word: the word is the only thing in it that changes outside llock.      *)
(***************************************************************************)
EXTENDS LockCall

CONSTANTS
    Writers,         \* threads that call rw_lock_write; the others read
    RDWR_LOCK_WRITE  \* the value of the word that means "written"

ASSUME RwLockAssumption ==
    /\ Writers \subseteq Threads
    /\ RDWR_LOCK_WRITE \in Nat \ {0, 1}

VARIABLES lock, waiting_list

rwVars == <<status, parked, lock, waiting_list, pc, rounds, signal_pending, signalling>>

(* pc[t]: "idle"; "enter" the try of the fast path failed; "yield" queued  *)
(* and about to give up the processor; "again" back from sched_yield;      *)
(* "cs" holds the lock; "wake" the second half of an unlock.               *)
RwPoints == {"idle", "enter", "yield", "again", "cs", "wake"}

Mode(t) == IF t \in Writers THEN "write" ELSE "read"

RwInit == CallInit /\ lock = 0 /\ waiting_list = <<>>

-----------------------------------------------------------------------------
\* rw_lock_tryread refuses a writer, and the last value before it.
CanRead == lock < RDWR_LOCK_WRITE - 1

\* Mutant: a writer only looks for other writers.
CanTake_OverReaders(t) ==
    IF t \in Writers THEN lock # RDWR_LOCK_WRITE ELSE CanRead

CanTake(t) == IF t \in Writers THEN lock = 0 ELSE CanRead

Taken(t) == IF t \in Writers THEN RDWR_LOCK_WRITE ELSE lock + 1

\* The try of the fast path.
RwTry(t) ==
    /\ At(t, "idle")
    /\ rounds[t] > 0
    /\ rounds' = [rounds EXCEPT ![t] = @ - 1]
    /\ \/ CanTake(t) /\ lock' = Taken(t) /\ Goto(t, "cs")
       \/ ~CanTake(t) /\ UNCHANGED lock /\ Goto(t, "enter")
    /\ UNCHANGED <<status, parked, waiting_list, signal_pending, signalling>>

\* One turn of the loop, under llock, with t on the list: take the lock,
\* return -EINTR, or go to sleep.
Attempt(t, list) ==
    \/ /\ CanTake(t)
       /\ lock' = Taken(t)
       /\ waiting_list' = list_remove(list, t)
       /\ set_current_state(t, "RUNNABLE")
       /\ Goto(t, "cs")
    \/ /\ ~CanTake(t)
       /\ t \in Interruptible \cap signal_pending
       /\ waiting_list' = list_remove(list, t)
       /\ set_current_state(t, "RUNNABLE")
       /\ Goto(t, "idle")
       /\ UNCHANGED lock
    \/ /\ ~CanTake(t)
       /\ t \notin Interruptible \cap signal_pending
       /\ waiting_list' = list
       /\ set_current_state(t, SleepState(t))
       /\ Goto(t, "yield")
       /\ UNCHANGED lock

\* rwlock_prepare_sleep and the first turn.
Enter(t) ==
    /\ At(t, "enter")
    /\ Attempt(t, list_add_tail(waiting_list, t))
    /\ UNCHANGED <<rounds, signal_pending, signalling>>

\* The sched_yield of the loop, or the one inside the spin_unlock before it.
Yield(t) ==
    /\ At(t, "yield")
    /\ sched_yield(t)
    /\ Goto(t, "again")
    /\ UNCHANGED <<lock, waiting_list, rounds, signal_pending, signalling>>

\* set_current_state and the next turn.
Again(t) ==
    /\ At(t, "again")
    /\ Attempt(t, waiting_list)
    /\ UNCHANGED <<rounds, signal_pending, signalling>>

\* rw_unlock_read: the last reader wakes one thread.
UnlockRead(t) ==
    /\ At(t, "cs") /\ t \notin Writers
    /\ lock' = lock - 1
    /\ Goto(t, IF lock = 1 THEN "wake" ELSE "idle")
    /\ UNCHANGED <<status, parked, waiting_list, rounds, signal_pending, signalling>>

\* rw_unlock_write: the writer wakes them all.
UnlockWrite(t) ==
    /\ At(t, "cs") /\ t \in Writers
    /\ lock' = 0
    /\ Goto(t, "wake")
    /\ UNCHANGED <<status, parked, waiting_list, rounds, signal_pending, signalling>>

\* Mutant: a writer, too, wakes only one thread.
RwWoken_One(t) == {waiting_list[i] : i \in DOMAIN waiting_list \cap {1}}

\* rw_lock_wake_up_threads for a writer, rw_lock_wake_up_thread for a reader.
RwWoken(t) == IF t \in Writers THEN Members(waiting_list)
            ELSE {waiting_list[i] : i \in DOMAIN waiting_list \cap {1}}

\* Mutant: the wakeup is left out for readers.
RwUnlockWake_WritersOnly(t) ==
    /\ At(t, "wake")
    /\ wake_up_all(IF t \in Writers THEN RwWoken(t) ELSE {})
    /\ Goto(t, "idle")
    /\ UNCHANGED <<lock, waiting_list, rounds, signal_pending, signalling>>

\* The wakeups, under llock; the woken threads stay on the list.
RwUnlockWake(t) ==
    /\ At(t, "wake")
    /\ wake_up_all(RwWoken(t))
    /\ Goto(t, "idle")
    /\ UNCHANGED <<lock, waiting_list, rounds, signal_pending, signalling>>

-----------------------------------------------------------------------------
RwStep(t) ==
    \/ RwTry(t) \/ Enter(t) \/ Yield(t) \/ Again(t)
    \/ UnlockRead(t) \/ UnlockWrite(t) \/ RwUnlockWake(t)

RwSignalStep(t) ==
    /\ Signal(t) \/ SignalLook(t) \/ SignalWake(t)
    /\ UNCHANGED <<lock, waiting_list>>

\* What the sender has begun.
RwSignalRest(t) == signalling[t] # "none" /\ RwSignalStep(t)

RwNext == \E t \in Threads : RwStep(t) \/ RwSignalStep(t)

RwSpec == RwInit /\ [][RwNext]_rwVars

\* A runnable thread gets the processor, and nobody keeps the lock for ever.
RwFairSpec ==
    /\ RwSpec
    /\ \A t \in Threads : WF_rwVars(RwStep(t)) /\ WF_rwVars(RwSignalRest(t))

-----------------------------------------------------------------------------
(* Properties.                                                             *)

RwTypeOK ==
    /\ status \in [Threads -> Statuses]
    /\ parked \in [Threads -> BOOLEAN]
    /\ lock \in 0 .. RDWR_LOCK_WRITE
    /\ waiting_list \in Seq(Threads)
    /\ pc \in [Threads -> RwPoints]
    /\ rounds \in [Threads -> 0 .. Rounds]
    /\ signal_pending \subseteq Threads
    /\ signalling \in [Threads -> {"none", "look", "wake", "done"}]

RwWant(t) == IF pc[t] \in {"enter", "yield", "again"} THEN Mode(t) ELSE "none"

RwHold(t) == IF pc[t] = "cs" THEN Mode(t) ELSE "none"

\* Readers share, a writer is alone, and only the holder releases: the word
\* implements the contract of a lock.
RwLS == INSTANCE LockSpec WITH
        Callers <- Threads,
        want <- [t \in Threads |-> RwWant(t)],
        hold <- [t \in Threads |-> RwHold(t)]

RwImplementsLock == RwLS!LSSpec

\* A thread is on the list exactly while it waits, once.
RwListExact ==
    /\ Distinct(waiting_list)
    /\ Members(waiting_list) = {t \in Threads : pc[t] \in {"yield", "again"}}

\* A thread that holds the lock, is about to wake the list, or is awake and
\* about to try.
Active(u) ==
    \/ pc[u] \in {"cs", "wake"}
    \/ ~parked[u] /\ (pc[u] \in {"enter", "again"} \/ (pc[u] = "yield" /\ status[u] = "RUNNABLE"))

\* No wakeup is lost, although the last reader wakes one thread only: a thread
\* sleeps only while another one will look at the lock or the list.
NoStrandedWaiter ==
    \A t \in Threads : parked[t] => \E u \in Threads \ {t} : Active(u)

\* Readers do not wait for readers: a reader sleeps while the lock could be
\* read only until the writer that left has woken the list.  (It does not
\* hold when the count of readers has been at its limit: only the last
\* reader wakes anybody.)
ReadersShare ==
    \A t \in Threads \ Writers :
        parked[t] /\ CanRead => \E w \in Writers : pc[w] = "wake"

\* Every call returns.
AllComplete == <>Done
=============================================================================
