----------------------------- MODULE ProcEvent -----------------------------
(***************************************************************************)
(* Process events (kernel/proc_event.cpp): a single-threaded target        *)
(* process stops at each system call until every subscriber has            *)
(* acknowledged the event, on a condition variable (scheduler.cpp).        *)
(*                                                                         *)
(* The mutex of the condition variable and the semaphores of the           *)
(* subscribers appear by what LockSpec and Semaphore establish of them: a  *)
(* holder, and a counter that blocks at zero.                              *)
(***************************************************************************)
EXTENDS ThreadState, WaitList, FiniteSets

CONSTANTS
    Target,
    Subs,       \* subscribers, each with a file descriptor
    Initially,  \* those attached from the start, in this order
    Closers,    \* those that may close their descriptor
    Syscalls,   \* bound: stops of the target
    Nobody

ASSUME ProcEventAssumption ==
    /\ Threads = {Target}
    /\ Initially \in Seq(Subs) /\ Distinct(Initially)
    /\ Closers \subseteq Subs
    /\ Syscalls \in Nat
    /\ Nobody \notin Subs \cup Threads

VARIABLES
    sub_queue, next, \* the list of subscribers: its head and its links
    nr_subs, nr_acks,
    event_semaphore, \* its counter, per subscriber
    seen,            \* stop number in event_buf, per subscriber
    cond,            \* the queue of syscall_cond
    mutex,           \* the holder of condvar_mutex
    pc, cursor,      \* the target: where it is, whom it notifies next
    stops,           \* stops begun by the target
    spc,             \* where each subscriber is
    acked,           \* the last stop each subscriber acknowledged (history)
    disturbed,       \* a signal woke nobody, the count went wrong or a stop met a change of it (history)
    deserted         \* somebody closed during a stop (history)

peVars == <<status, parked, sub_queue, next, nr_subs, nr_acks, event_semaphore, seen,
            cond, mutex, pc, cursor, stops, spc, acked, disturbed, deserted>>

subVars == <<sub_queue, next, nr_subs, nr_acks, event_semaphore, seen, spc, acked>>

Init ==
    /\ status = [t \in Threads |-> "RUNNABLE"]
    /\ parked = [t \in Threads |-> FALSE]
    /\ sub_queue = IF Initially = <<>> THEN Nobody ELSE Initially[1]
    /\ next = [s \in Subs |->
                 IF \E i \in 1 .. Len(Initially) - 1 : Initially[i] = s
                 THEN Initially[Position(Initially, s) + 1] ELSE Nobody]
    /\ nr_subs = Len(Initially)
    /\ nr_acks = 0
    /\ event_semaphore = [s \in Subs |-> 0]
    /\ seen = [s \in Subs |-> 0]
    /\ cond = <<>>
    /\ mutex = Nobody
    /\ pc = "user" /\ cursor = Nobody /\ stops = 0
    /\ spc = [s \in Subs |-> IF s \in Members(Initially) THEN "read" ELSE "out"]
    /\ acked = [s \in Subs |-> 0]
    /\ disturbed = FALSE /\ deserted = FALSE

-----------------------------------------------------------------------------
(* The target: proc_event_enter_syscall, proc_event_exit_syscall.          *)

At(p) == pc = p /\ ~parked[Target]

Stop ==
    /\ At("user") /\ stops < Syscalls
    /\ stops' = stops + 1
    /\ cursor' = sub_queue
    /\ pc' = "notify"
    /\ disturbed' = (disturbed \/ \E s \in Subs : spc[s] = "link")
    /\ UNCHANGED <<status, parked, cond, mutex, subVars, deserted>>

Notify ==
    /\ At("notify") /\ cursor # Nobody
    /\ seen' = [seen EXCEPT ![cursor] = stops]
    /\ event_semaphore' = [event_semaphore EXCEPT ![cursor] = @ + 1]
    /\ cursor' = next[cursor]
    /\ UNCHANGED <<status, parked, sub_queue, next, nr_subs, nr_acks, cond, mutex, pc, stops, spc, acked, disturbed, deserted>>

\* The list is walked without sub_queue_lock, nr_subs read after it.
LockMutex ==
    /\ At("notify") /\ cursor = Nobody
    /\ IF nr_subs = 0 THEN pc' = "user" /\ UNCHANGED mutex
       ELSE mutex = Nobody /\ mutex' = Target /\ pc' = "unlock"
    /\ UNCHANGED <<status, parked, cond, cursor, stops, subVars, disturbed, deserted>>

\* condvar_wait: the mutex is released ...
CondUnlock ==
    /\ At("unlock")
    /\ mutex' = Nobody
    /\ pc' = "enqueue"
    /\ UNCHANGED <<status, parked, cond, cursor, stops, subVars, disturbed, deserted>>

\* ... before the thread is queued (condvar_wait_unlocked).
CondEnqueue ==
    /\ At("enqueue")
    /\ cond' = list_add_tail(cond, Target)
    /\ set_current_state(Target, "UNINTERRUPTIBLE")
    /\ pc' = "yield"
    /\ UNCHANGED <<mutex, cursor, stops, subVars, disturbed, deserted>>

CondYield ==
    /\ At("yield")
    /\ sched_yield(Target)
    /\ pc' = "relock"
    /\ UNCHANGED <<cond, mutex, cursor, stops, subVars, disturbed, deserted>>

\* Mutant: the acknowledgements of this stop are counted for the next.
Resume_NoReset ==
    /\ At("relock") /\ mutex = Nobody
    /\ pc' = "user"
    /\ UNCHANGED <<status, parked, cond, mutex, cursor, stops, subVars, disturbed, deserted>>

\* mutex_lock, nr_acks = 0, mutex_unlock: nobody else stores to nr_acks
\* then, as all subscribers have acknowledged.
Resume ==
    /\ At("relock") /\ mutex = Nobody
    /\ nr_acks' = 0
    /\ pc' = "user"
    /\ UNCHANGED <<status, parked, cond, mutex, cursor, stops, sub_queue, next, nr_subs,
                   event_semaphore, seen, spc, acked, disturbed, deserted>>

-----------------------------------------------------------------------------
(* A subscriber.                                                           *)

targetVars == <<status, parked, cond, mutex, pc, cursor, stops>>

SubGoto(s, p) == spc' = [spc EXCEPT ![s] = p]

\* sys_proc_event_attach: the count, then the list.
AttachCount(s) ==
    /\ spc[s] = "out"
    /\ nr_subs' = nr_subs + 1
    /\ SubGoto(s, "link")
    /\ disturbed' = (disturbed \/ pc # "user")
    /\ UNCHANGED <<targetVars, sub_queue, next, nr_acks, event_semaphore, seen, acked, deserted>>

\* The node whose link is the end of the list.
Last == CHOOSE r \in Subs : spc[r] \notin {"out", "link", "closed"} /\ next[r] = Nobody

AttachLink(s) ==
    /\ spc[s] = "link"
    /\ IF sub_queue = Nobody THEN sub_queue' = s /\ UNCHANGED next
       ELSE next' = [next EXCEPT ![Last] = s] /\ UNCHANGED sub_queue
    /\ SubGoto(s, "read")
    /\ disturbed' = (disturbed \/ pc # "user")
    /\ UNCHANGED <<targetVars, nr_subs, nr_acks, event_semaphore, seen, acked, deserted>>

\* proc_event_read: sem_wait, ...
Read(s) ==
    /\ spc[s] = "read" /\ event_semaphore[s] > 0
    /\ event_semaphore' = [event_semaphore EXCEPT ![s] = @ - 1]
    /\ SubGoto(s, "reset")
    /\ UNCHANGED <<targetVars, sub_queue, next, nr_subs, nr_acks, seen, acked, disturbed, deserted>>

\* ... and a store of zero to the counter.
ReadReset(s) ==
    /\ spc[s] = "reset"
    /\ event_semaphore' = [event_semaphore EXCEPT ![s] = 0]
    /\ SubGoto(s, "ack")
    /\ UNCHANGED <<targetVars, sub_queue, next, nr_subs, nr_acks, seen, acked, disturbed, deserted>>

\* Mutant: the first acknowledgement is enough.
Ack_First(s) ==
    /\ spc[s] = "ack"
    /\ nr_acks' = nr_acks + 1
    /\ acked' = [acked EXCEPT ![s] = seen[s]]
    /\ SubGoto(s, IF nr_acks' = 1 THEN "signal" ELSE "read")
    /\ UNCHANGED <<targetVars, sub_queue, next, nr_subs, event_semaphore, seen, disturbed, deserted>>

\* Mutant: the count is compared before this one is added.
Ack_ComparedEarly(s) ==
    /\ spc[s] = "ack"
    /\ nr_acks' = nr_acks + 1
    /\ acked' = [acked EXCEPT ![s] = seen[s]]
    /\ SubGoto(s, IF nr_acks = nr_subs THEN "signal" ELSE "read")
    /\ UNCHANGED <<targetVars, sub_queue, next, nr_subs, event_semaphore, seen, disturbed, deserted>>

\* proc_event_do_ack: the last one signals.
Ack(s) ==
    /\ spc[s] = "ack"
    /\ nr_acks' = nr_acks + 1
    /\ acked' = [acked EXCEPT ![s] = seen[s]]
    /\ SubGoto(s, IF nr_acks' = nr_subs THEN "signal" ELSE "read")
    /\ UNCHANGED <<targetVars, sub_queue, next, nr_subs, event_semaphore, seen, disturbed, deserted>>

\* condvar_signal, under the mutex.
CondSignal(s) ==
    /\ spc[s] = "signal" /\ mutex = Nobody
    /\ IF cond # <<>> THEN thread_wake_up(Head(cond)) /\ cond' = Tail(cond)
                      ELSE UNCHANGED <<status, parked, cond>>
    /\ SubGoto(s, "read")
    /\ disturbed' = (disturbed \/ cond = <<>>)
    /\ UNCHANGED <<mutex, pc, cursor, stops, sub_queue, next, nr_subs, nr_acks, event_semaphore, seen, acked, deserted>>

\* proc_event_close: the first of the list is unlinked without being
\* discounted.
Close(s) ==
    /\ spc[s] = "read" /\ s \in Closers
    /\ IF sub_queue = s
       THEN sub_queue' = next[s] /\ UNCHANGED <<next, nr_subs>>
       ELSE /\ next' = [r \in Subs |-> IF next[r] = s /\ spc[r] # "closed" THEN next[s] ELSE next[r]]
            /\ nr_subs' = nr_subs - 1
            /\ UNCHANGED sub_queue
    /\ SubGoto(s, "closed")
    /\ disturbed' = (disturbed \/ pc # "user" \/ sub_queue = s)
    /\ deserted' = (deserted \/ pc # "user")
    /\ UNCHANGED <<targetVars, nr_acks, event_semaphore, seen, acked>>

-----------------------------------------------------------------------------
TargetStep == Stop \/ Notify \/ LockMutex \/ CondUnlock \/ CondEnqueue \/ CondYield \/ Resume

Listen(s) == Read(s) \/ ReadReset(s) \/ Ack(s) \/ CondSignal(s)

Next ==
    \/ TargetStep
    \/ \E s \in Subs : Listen(s) \/ AttachCount(s) \/ AttachLink(s) \/ Close(s)

Spec == Init /\ [][Next]_peVars

\* The target is scheduled, and subscribers read and acknowledge.
FairSpec ==
    /\ Spec
    /\ SF_peVars(TargetStep)
    /\ \A s \in Subs : SF_peVars(Listen(s))

-----------------------------------------------------------------------------
(* Properties.                                                             *)

\* The target is held until its event is acknowledged: when it runs again,
\* every subscriber that has been attached all along has acknowledged the
\* stop.  Somebody who acknowledges and closes during a stop is the exception:
\* its acknowledgement stays counted and it does not, so that the target goes
\* on although another subscriber has yet to acknowledge.
HeldUntilAcked ==
    ~deserted /\ pc = "user" => \A s \in Members(Initially) : spc[s] = "closed" \/ acked[s] = stops

\* An event is not overwritten, or its unit of the semaphore thrown away,
\* before the subscriber has read and acknowledged it, with the same
\* exception.
EventsDelivered ==
    ~deserted => \A s \in Members(Initially) : spc[s] # "closed" /\ seen[s] > acked[s] =>
        /\ seen[s] = acked[s] + 1
        /\ event_semaphore[s] = 1 \/ spc[s] \in {"reset", "ack"}

\* Acknowledging an event lets the target proceed, with three exceptions: the
\* last acknowledgement comes before the target is queued on the condition
\* variable, which has nothing to look at again; somebody attaches or closes
\* during a stop; or the first of the list closes, during a stop or between
\* two, and stays counted, so that there are never as many acknowledgements.
AcksLetProceed == [](~disturbed) => []<>(pc = "user")
=============================================================================
