------------------------------- MODULE Futex -------------------------------
(***************************************************************************)
(* Futexes (kernel/futex.cpp): a thread sleeps until the word at an        *)
(* address is said to have changed.  Waiters hang on the list of a hash    *)
(* bucket, which has a lock of its own, and may be requeued to another     *)
(* address, and bucket, while they sleep.  A waiter's futex_queue is on    *)
(* its stack.                                                              *)
(*                                                                         *)
(* The words are private to one process, so a key is an address.  Signals  *)
(* are left out: a sleep ends by a wake or by its timeout.                 *)
(***************************************************************************)
EXTENDS ThreadState, WaitList, FiniteSets

CONSTANTS
    Addrs,     \* addresses of words of the process
    Bucket,    \* the index of the hash bucket of each
    Nobody

ASSUME FutexAssumption ==
    /\ Addrs # {} /\ Bucket \in [Addrs -> Nat]
    /\ Nobody \notin Threads

VARIABLES
    word,              \* the memory of the process
    list, lock,        \* of each bucket: its waiters, who holds its lock
    key, awaken, home, \* of each waiter: where it waits, was woken, hash_index
    kpc,               \* where a thread is in the kernel; "user" if it is not
    call,              \* the arguments of its call
    waking,            \* the waiter it is about to wake
    armed,             \* the clockevent of its sched_sleep is queued
    outcome,           \* what its last wait returned
    raced              \* a waiter left a bucket it had not locked (history)

queueVars == <<list, key, awaken, home>>
kernelVars == <<queueVars, lock, kpc, call, waking, armed, outcome, raced>>

Buckets == {Bucket[a] : a \in Addrs}

\* The variables of a function that has returned hold this.
AnAddr == CHOOSE a \in Addrs : TRUE
NoArgs == [addr |-> AnAddr, val |-> 0, dest |-> AnAddr, timed |-> FALSE]

FutexInit ==
    /\ status = [t \in Threads |-> "RUNNABLE"]
    /\ parked = [t \in Threads |-> FALSE]
    /\ list = [b \in Buckets |-> <<>>]
    /\ lock = [b \in Buckets |-> Nobody]
    /\ key = [t \in Threads |-> AnAddr]
    /\ awaken = [t \in Threads |-> FALSE]
    /\ home = [t \in Threads |-> Bucket[AnAddr]]
    /\ kpc = [t \in Threads |-> "user"]
    /\ call = [t \in Threads |-> NoArgs]
    /\ waking = [t \in Threads |-> Nobody]
    /\ armed = [t \in Threads |-> FALSE]
    /\ outcome = [t \in Threads |-> "OK"]
    /\ raced = FALSE

At(t, p) == kpc[t] = p /\ ~parked[t]

Goto(t, p) == kpc' = [kpc EXCEPT ![t] = p]

\* sys_futex: the call itself.
Call(t, where, args) ==
    /\ call' = [call EXCEPT ![t] = args]
    /\ Goto(t, where)
    /\ UNCHANGED <<status, parked, queueVars, lock, waking, armed, outcome, raced>>

CallWait(t, a, v, withTimeout) ==
    Call(t, "wait", [NoArgs EXCEPT !.addr = a, !.val = v, !.timed = withTimeout])

\* FUTEX_WAKE, for one waiter.
CallWake(t, a) == Call(t, "wake", [NoArgs EXCEPT !.addr = a])

\* FUTEX_REQUEUE of one waiter, waking none.
CallRequeue(t, a, b) == Call(t, "requeue_lock", [NoArgs EXCEPT !.addr = a, !.dest = b])

SysReturn(t) == Goto(t, "user") /\ call' = [call EXCEPT ![t] = NoArgs]

-----------------------------------------------------------------------------
(* wait.                                                                   *)

\* Mutant: the word was looked at before the lock was taken.
FutexWait_NoLook(t) ==
    LET b == Bucket[call[t].addr]
    IN  /\ At(t, "wait") /\ lock[b] = Nobody
        /\ list' = [list EXCEPT ![b] = list_add_tail(@, t)]
        /\ key' = [key EXCEPT ![t] = call[t].addr]
        /\ awaken' = [awaken EXCEPT ![t] = FALSE]
        /\ home' = [home EXCEPT ![t] = b]
        /\ set_current_state(t, "INTERRUPTIBLE")
        /\ Goto(t, "sleep")
        /\ UNCHANGED <<word, lock, call, waking, armed, outcome, raced>>

\* Under the lock of the bucket the word is compared and the thread queued.
\* It announces its sleep and lets go of the lock.
FutexWait(t) ==
    LET b == Bucket[call[t].addr]
        differs == word[call[t].addr] # call[t].val
    IN  /\ At(t, "wait") /\ lock[b] = Nobody
        /\ \/ /\ differs
              /\ SysReturn(t)
              /\ outcome' = [outcome EXCEPT ![t] = "OK"]  \* -EAGAIN, which musl takes for success
              /\ UNCHANGED <<status, parked, queueVars>>
           \/ /\ ~differs
              /\ list' = [list EXCEPT ![b] = list_add_tail(@, t)]
              /\ key' = [key EXCEPT ![t] = call[t].addr]
              /\ awaken' = [awaken EXCEPT ![t] = FALSE]
              /\ home' = [home EXCEPT ![t] = b]
              /\ set_current_state(t, "INTERRUPTIBLE")
              /\ Goto(t, "sleep")
              /\ UNCHANGED <<outcome, call>>
        /\ UNCHANGED <<word, lock, waking, armed, raced>>

\* A processor that has a reschedule due takes it when spin_unlock or
\* irq_restore lets it, and so puts the thread to sleep that has announced
\* it: before the sleep proper, and before or after the event is queued.
Resched(t) ==
    /\ kpc[t] \in {"sleep", "armed"} /\ ~parked[t] /\ status[t] # "RUNNABLE"
    /\ sched_yield(t)
    /\ UNCHANGED <<word, kernelVars>>

\* Without a timeout the thread yields.
FutexSleep(t) ==
    /\ At(t, "sleep") /\ ~call[t].timed
    /\ sched_yield(t)
    /\ Goto(t, "woken")
    /\ UNCHANGED <<word, queueVars, lock, call, waking, armed, outcome, raced>>

\* With one sched_sleep queues an event ...
QueueEvent(t) ==
    /\ At(t, "sleep") /\ call[t].timed
    /\ armed' = [armed EXCEPT ![t] = TRUE]
    /\ Goto(t, "armed")
    /\ UNCHANGED <<status, parked, word, queueVars, lock, call, waking, outcome, raced>>

\* ... and yields, announcing the sleep again if the thread was woken, by
\* a wake or by the event itself, in between.
SchedSleep(t) ==
    /\ At(t, "armed")
    /\ status' = [status EXCEPT ![t] = "INTERRUPTIBLE"]
    /\ parked' = [parked EXCEPT ![t] = TRUE]
    /\ Goto(t, "woken")
    /\ UNCHANGED <<word, queueVars, lock, call, waking, armed, outcome, raced>>

\* The event (sched_sleep_unblock) comes once, at any time after it is queued.
Timeout(t) ==
    /\ armed[t]
    /\ armed' = [armed EXCEPT ![t] = FALSE]
    /\ thread_wake_up(t)
    /\ UNCHANGED <<word, queueVars, lock, kpc, call, waking, outcome, raced>>

\* The thread runs again, cancels the event and takes the lock of the bucket
\* it started in.  The timeout is looked at first: it may have passed since a
\* wake, too.  Whoever was not woken takes itself off the list it is on by
\* now.
FutexReturn(t) ==
    /\ At(t, "woken") /\ lock[home[t]] = Nobody
    /\ \/ /\ awaken[t]
          /\ \E o \in {"OK", "TIMEDOUT"} :
                /\ o = "OK" => ~call[t].timed \/ armed[t]
                /\ o = "TIMEDOUT" => call[t].timed
                /\ outcome' = [outcome EXCEPT ![t] = o]
          /\ UNCHANGED list
       \/ /\ ~awaken[t]
          /\ outcome' = [outcome EXCEPT ![t] = "TIMEDOUT"]
          /\ list' = [list EXCEPT ![Bucket[key[t]]] = list_remove(@, t)]
    /\ raced' = (raced \/ (Bucket[key[t]] # home[t] /\ (call[t].timed \/ ~awaken[t])))
    /\ armed' = [armed EXCEPT ![t] = FALSE]
    /\ set_current_state(t, "RUNNABLE")
    /\ key' = [key EXCEPT ![t] = AnAddr]
    /\ awaken' = [awaken EXCEPT ![t] = FALSE]
    /\ home' = [home EXCEPT ![t] = Bucket[AnAddr]]
    /\ SysReturn(t)
    /\ UNCHANGED <<word, lock, waking>>

-----------------------------------------------------------------------------
(* wake and requeue, under the locks of their buckets.                     *)

\* The waiters of address a, in the order of their bucket.
WaitersOf(a) == {i \in DOMAIN list[Bucket[a]] : key[list[Bucket[a]][i]] = a}

FirstOf(a) == list[Bucket[a]][CHOOSE i \in WaitersOf(a) : \A j \in WaitersOf(a) : i <= j]

\* Mutant: the lock is dropped before the waiter is woken.
WakeMark_Unlocked(t) ==
    LET b == Bucket[call[t].addr]
        f == FirstOf(call[t].addr)
    IN  /\ At(t, "wake") /\ lock[b] = Nobody /\ WaitersOf(call[t].addr) # {}
        /\ list' = [list EXCEPT ![b] = list_remove(@, f)]
        /\ awaken' = [awaken EXCEPT ![f] = TRUE]
        /\ waking' = [waking EXCEPT ![t] = f]
        /\ Goto(t, "wake_up")
        /\ UNCHANGED <<status, parked, word, key, home, lock, call, armed, outcome, raced>>

\* wake takes the first waiter off the list and marks it, ...
WakeMark(t) ==
    LET b == Bucket[call[t].addr]
        f == FirstOf(call[t].addr)
    IN  /\ At(t, "wake") /\ lock[b] = Nobody
        /\ \/ /\ WaitersOf(call[t].addr) = {}
              /\ SysReturn(t)
              /\ UNCHANGED <<list, awaken, lock, waking>>
           \/ /\ WaitersOf(call[t].addr) # {}
              /\ lock' = [lock EXCEPT ![b] = t]
              /\ list' = [list EXCEPT ![b] = list_remove(@, f)]
              /\ awaken' = [awaken EXCEPT ![f] = TRUE]
              /\ waking' = [waking EXCEPT ![t] = f]
              /\ Goto(t, "wake_up")
              /\ UNCHANGED call
        /\ UNCHANGED <<status, parked, word, key, home, armed, outcome, raced>>

\* ... and wakes it through the wait queue on its stack.
WakeUp(t) ==
    /\ At(t, "wake_up")
    /\ thread_wake_up(waking[t])
    /\ waking' = [waking EXCEPT ![t] = Nobody]
    /\ lock' = [lock EXCEPT ![Bucket[call[t].addr]] = Nobody]
    /\ SysReturn(t)
    /\ UNCHANGED <<word, queueVars, armed, outcome, raced>>

\* lock_two_hashes: the lower index first, and a shared one only once.
Lower(a, b) == IF Bucket[a] <= Bucket[b] THEN Bucket[a] ELSE Bucket[b]
Upper(a, b) == IF Bucket[a] <= Bucket[b] THEN Bucket[b] ELSE Bucket[a]

RequeueLock(t) ==
    /\ At(t, "requeue_lock") /\ lock[Lower(call[t].addr, call[t].dest)] = Nobody
    /\ lock' = [lock EXCEPT ![Lower(call[t].addr, call[t].dest)] = t]
    /\ Goto(t, "requeue")
    /\ UNCHANGED <<status, parked, word, queueVars, call, waking, armed, outcome, raced>>

\* Mutant: the waiter moves to the new list with its old key.
Requeue_OldKey(t) ==
    LET a == call[t].addr
        f == FirstOf(a)
    IN  /\ At(t, "requeue")
        /\ lock[Upper(a, call[t].dest)] \in {Nobody, t}
        /\ list' = IF WaitersOf(a) = {} THEN list
                   ELSE [[list EXCEPT ![Bucket[a]] = list_remove(@, f)]
                            EXCEPT ![Bucket[call[t].dest]] = <<f>> \o @]
        /\ lock' = [lock EXCEPT ![Lower(a, call[t].dest)] = Nobody]
        /\ SysReturn(t)
        /\ UNCHANGED <<status, parked, word, key, awaken, home, waking, armed, outcome, raced>>

\* cmp_requeue: the first waiter gets the new key and the head of the new list.
Requeue(t) ==
    LET a == call[t].addr
        f == FirstOf(a)
    IN  /\ At(t, "requeue")
        /\ lock[Upper(a, call[t].dest)] \in {Nobody, t}
        /\ \/ WaitersOf(a) = {} /\ UNCHANGED <<list, key>>
           \/ /\ WaitersOf(a) # {}
              /\ key' = [key EXCEPT ![f] = call[t].dest]
              /\ list' = [[list EXCEPT ![Bucket[a]] = list_remove(@, f)]
                            EXCEPT ![Bucket[call[t].dest]] = <<f>> \o @]
        /\ lock' = [lock EXCEPT ![Lower(a, call[t].dest)] = Nobody]
        /\ SysReturn(t)
        /\ UNCHANGED <<status, parked, word, awaken, home, waking, armed, outcome, raced>>

FutexStep(t) ==
    \/ FutexWait(t) \/ FutexSleep(t) \/ QueueEvent(t) \/ SchedSleep(t) \/ FutexReturn(t)
    \/ WakeMark(t) \/ WakeUp(t) \/ RequeueLock(t) \/ Requeue(t)

-----------------------------------------------------------------------------
(* Properties.                                                             *)

\* Thread t is in wait, its futex_queue on its stack.
Waits(t) == kpc[t] \in {"sleep", "armed", "woken"}

\* It sleeps, and its timeout will not come: the event came before the sleep,
\* or a reschedule put it to sleep before the event was queued.
Overslept(t) == parked[t] /\ call[t].timed /\ ~armed[t]

\* A waiter that was not woken is on one list, once: the list of the address
\* it waits for by now; a woken one is on none.  So a wake at an address finds
\* its waiters wherever requeueing has left them.
ListsExact ==
    \A b \in Buckets :
        /\ Distinct(list[b])
        /\ \A t \in Threads :
              t \in Members(list[b]) <=>
                  Waits(t) /\ ~awaken[t] /\ Bucket[key[t]] = b

\* Whoever is about to wake a waiter holds the lock of its bucket, so that
\* the futex_queue on the waiter's stack is still there.  A waiter that was
\* requeued takes the lock of its old bucket, and is an exception when its
\* timeout lets it run early.
QueueInUse ==
    ~raced => \A t \in Threads : waking[t] # Nobody => Waits(waking[t])
=============================================================================
