----------------------------- MODULE Semaphore -----------------------------
(***************************************************************************)
(* The counting semaphore of kernel/sched/scheduler.cpp: sem_wait,         *)
(* sem_signal and their wait queue, under a spinlock.                      *)
(*                                                                         *)
(* Steps of sem_wait that run with interrupts disabled (from sched_lock to *)
(* the end of sched_block_self) are one step.  Signallers run on other     *)
(* processors than the waiters.                                            *)
(***************************************************************************)
EXTENDS ThreadState, WaitList, FiniteSets

CONSTANTS
    Signallers,  \* callers of sem_signal
    Waits,       \* bound: calls of sem_wait per thread
    Signals,     \* bound: calls of sem_signal per signaller
    Nobody

ASSUME SemaphoreAssumption ==
    /\ IsFiniteSet(Threads) /\ IsFiniteSet(Signallers)
    /\ Nobody \notin Threads
    /\ Waits \in Nat /\ Signals \in Nat

VARIABLES
    counter,
    holder,      \* who holds sem->lock
    queue,       \* sem->head .. sem->tail
    pc,          \* where each waiter is
    spc,         \* where each signaller is
    waits,       \* calls of sem_wait that returned, per waiter
    signals      \* calls of sem_signal begun, per signaller

semVars == <<status, parked, counter, holder, queue, pc, spc, waits, signals>>

(* pc[t]: "idle", "locked" holding the spinlock, "taken" the counter is    *)
(* decremented, "yield" queued and blocked, "relock" back from sched_yield *)
Points == {"idle", "locked", "taken", "yield", "relock"}

SemInit ==
    /\ status = [t \in Threads |-> "RUNNABLE"]
    /\ parked = [t \in Threads |-> FALSE]
    /\ counter = 0
    /\ holder = Nobody
    /\ queue = <<>>
    /\ pc = [t \in Threads |-> "idle"]
    /\ spc = [s \in Signallers |-> "idle"]
    /\ waits = [t \in Threads |-> 0]
    /\ signals = [s \in Signallers |-> 0]

-----------------------------------------------------------------------------
At(t, p) == pc[t] = p /\ ~parked[t]

Goto(t, p) == pc' = [pc EXCEPT ![t] = p]

\* The spin_lock of sem_wait, at its start or after a sleep.
SpinLock(t) ==
    /\ \/ At(t, "idle") /\ waits[t] < Waits
       \/ At(t, "relock")
    /\ holder = Nobody
    /\ holder' = t
    /\ Goto(t, "locked")
    /\ UNCHANGED <<status, parked, counter, queue, spc, waits, signals>>

Take(t) ==
    /\ At(t, "locked")
    /\ counter > 0
    /\ counter' = counter - 1
    /\ Goto(t, "taken")
    /\ UNCHANGED <<status, parked, holder, queue, spc, waits, signals>>

\* The body of sem_do_slow_path: queue, unlock, announce the sleep.  A waker
\* that takes the spinlock meanwhile spins on scheduler_lock until the end.
Block(t) ==
    /\ At(t, "locked")
    /\ counter = 0
    /\ queue' = list_add_tail(queue, t)
    /\ holder' = Nobody
    /\ set_current_state(t, "UNINTERRUPTIBLE")
    /\ Goto(t, "yield")
    /\ UNCHANGED <<counter, spc, waits, signals>>

Yield(t) ==
    /\ At(t, "yield")
    /\ sched_yield(t)
    /\ Goto(t, "relock")
    /\ UNCHANGED <<counter, holder, queue, spc, waits, signals>>

\* The spin_unlock of sem_wait.
Return(t) ==
    /\ At(t, "taken")
    /\ holder' = Nobody
    /\ waits' = [waits EXCEPT ![t] = @ + 1]
    /\ Goto(t, "idle")
    /\ UNCHANGED <<status, parked, counter, queue, spc, signals>>

\* sem_signal adds to the counter first, ...
Add(s) ==
    /\ spc[s] = "idle" /\ signals[s] < Signals
    /\ counter' = counter + 1
    /\ signals' = [signals EXCEPT ![s] = @ + 1]
    /\ spc' = [spc EXCEPT ![s] = "lock"]
    /\ UNCHANGED <<status, parked, holder, queue, pc, waits>>

\* Mutant: only the first unit wakes somebody.
Wake_FirstUnitOnly(s) ==
    /\ spc[s] = "lock"
    /\ holder = Nobody
    /\ IF queue # <<>> /\ counter = 1 THEN thread_wake_up(Head(queue)) /\ queue' = Tail(queue)
       ELSE UNCHANGED <<status, parked, queue>>
    /\ spc' = [spc EXCEPT ![s] = "idle"]
    /\ UNCHANGED <<counter, holder, pc, waits, signals>>

\* ... and wakes the first waiter under the spinlock.
Wake(s) ==
    /\ spc[s] = "lock"
    /\ holder = Nobody
    /\ IF queue # <<>> THEN thread_wake_up(Head(queue)) /\ queue' = Tail(queue)
                       ELSE UNCHANGED <<status, parked, queue>>
    /\ spc' = [spc EXCEPT ![s] = "idle"]
    /\ UNCHANGED <<counter, holder, pc, waits, signals>>

WaitStep(t) == SpinLock(t) \/ Take(t) \/ Block(t) \/ Yield(t) \/ Return(t)

SemNext == (\E t \in Threads : WaitStep(t)) \/ (\E s \in Signallers : Add(s) \/ Wake(s))

SemSpec == SemInit /\ [][SemNext]_semVars

-----------------------------------------------------------------------------
(* Properties.                                                             *)

SemTypeOK ==
    /\ status \in [Threads -> Statuses]
    /\ parked \in [Threads -> BOOLEAN]
    /\ counter \in Nat
    /\ holder \in Threads \cup {Nobody}
    /\ queue \in Seq(Threads)
    /\ pc \in [Threads -> Points]
    /\ spc \in [Signallers -> {"idle", "lock"}]
    /\ waits \in [Threads -> Nat]
    /\ signals \in [Signallers -> Nat]

\* A thread is in the queue exactly while it is blocked and not woken, once.
QueueExact ==
    /\ Distinct(queue)
    /\ Members(queue) = {t \in Threads : pc[t] \in {"yield", "relock"} /\ status[t] # "RUNNABLE"}

\* The threads that will look at the counter, and the signals that have not
\* woken anybody yet.
Takers == {t \in Threads : \/ pc[t] \in {"relock", "yield"} /\ status[t] = "RUNNABLE"
                           \/ pc[t] = "locked"}

Wakers == {s \in Signallers : spc[s] = "lock"}

\* Every unit has a taker: while threads are queued, there are no more units
\* than threads awake in sem_wait and wakeups still to come.  One wakeup per
\* signal is enough although a third thread may take the unit first.
UnitsHaveTakers == queue # <<>> => counter <= Cardinality(Takers) + Cardinality(Wakers)
=============================================================================
