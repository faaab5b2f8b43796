------------------------------- MODULE Timer -------------------------------
(***************************************************************************)
(* Clock events (kernel/timer.cpp) of one processor: a list of events with *)
(* deadlines, and a timer that interrupts when the first of them passes.   *)
(* Events that may run in interrupt context are run there, the others are  *)
(* left for a softirq, which takes them off the list and runs them with    *)
(* interrupts enabled.  Softirq.tla composes this with its callers.        *)
(*                                                                         *)
(* Time is relative: due[e] is how long it is until e's deadline, 0 once   *)
(* it has passed; an event that is out of use has 0 and no timer.  The     *)
(* order of the list makes no difference; it is a set.                     *)
(***************************************************************************)
EXTENDS WaitList, FiniteSetsExt

CONSTANTS
    Events, Atomic, Pulse,   \* CLOCKEVENT_FLAG_ATOMIC, CLOCKEVENT_FLAG_PULSE
    MaxDelay,                \* the longest an event is set to, in the future
    None

ASSUME TimerAssumption ==
    /\ MaxDelay \in Nat \ {0}
    /\ IsFiniteSet(Events) /\ None \notin Events
    /\ Atomic \subseteq Events /\ Pulse \subseteq Events

VARIABLES
    due, next_event,         \* times from now; next_event is what the timer is set to
    event_list,
    poison, pending,         \* the events with CLOCKEVENT_FLAG_POISON, _PENDING
    attached,                \* the events whose ev->timer is set
    to_handle, alone,        \* the softirq's list, and whether it had one event only
    expired,                 \* deadlines before the current_time of the softirq
    canceller,               \* the event a thread elsewhere holds the lock of
    cancelled,               \* events whose cancellation is over (history)
    broken                   \* the kernel has faulted or spins for ever

eventVars == <<due, next_event, event_list, poison, pending, attached>>
handlingVars == <<to_handle, alone, expired>>
timerVars == <<eventVars, handlingVars, canceller, cancelled>>

TIMER_NEXT_EVENT_NOT_PENDING == MaxDelay + 1

Handling == Members(to_handle)

TimerInit ==
    /\ event_list = Atomic \cap Pulse
    /\ due = [e \in Events |-> IF e \in event_list THEN 1 ELSE 0]
    /\ next_event = IF event_list = {} THEN TIMER_NEXT_EVENT_NOT_PENDING ELSE 1
    /\ poison = event_list /\ pending = {} /\ attached = event_list
    /\ to_handle = <<>> /\ alone = FALSE /\ expired = {}
    /\ canceller = None /\ cancelled = {} /\ broken = FALSE

\* The timer is set to the first deadline of S, or disabled.
set_oneshot(S, d) == next_event' = Min({d[e] : e \in S} \cup {TIMER_NEXT_EVENT_NOT_PENDING})

\* Time passes.
Tick ==
    /\ due' = [e \in Events |-> IF due[e] = 0 THEN 0 ELSE due[e] - 1]
    /\ next_event' = IF next_event \in 1..MaxDelay THEN next_event - 1 ELSE next_event
    /\ UNCHANGED <<event_list, poison, pending, attached, handlingVars, canceller, cancelled, broken>>

-----------------------------------------------------------------------------
(* timer_queue_clockevent and timer_cancel_event.                          *)

timer_queue_clockevent(e, d) ==
    /\ canceller # e
    /\ due' = [due EXCEPT ![e] = d]
    /\ event_list' = event_list \cup {e}
    /\ poison' = poison \cup {e}
    /\ attached' = attached \cup {e}
    /\ next_event' = IF next_event > d THEN d ELSE next_event
    /\ expired' = expired \ {e}
    /\ cancelled' = cancelled \ {e}

\* A thread of this processor, interrupts being disabled throughout.
CancelHere(e) ==
    /\ canceller # e /\ e \in event_list
    /\ event_list' = event_list \ {e}
    /\ poison' = poison \ {e}
    /\ cancelled' = cancelled \cup {e}
    /\ due' = [due EXCEPT ![e] = 0] /\ attached' = attached \ {e}
    /\ UNCHANGED <<next_event, pending, handlingVars, canceller, broken>>

\* A thread of another processor: it has locked the event, not yet the list.
\* An event the softirq has in hand has no timer, and is left alone.
CancelLook(e) ==
    /\ canceller = None /\ e \in event_list \cup Handling
    /\ \/ e \in attached /\ e \in poison /\ canceller' = e /\ UNCHANGED cancelled
       \/ /\ ~(e \in attached /\ e \in poison)
          /\ cancelled' = IF e \in Handling THEN cancelled ELSE cancelled \cup {e}
          /\ UNCHANGED canceller
    /\ UNCHANGED <<eventVars, handlingVars, broken>>

\* Mutant: an event that waits for the softirq is taken for one in its hands.
CancelRemove_NotPending(looping) ==
    /\ canceller # None
    /\ event_list' = event_list \ ({canceller} \ pending)
    /\ poison' = poison \ ({canceller} \ pending)
    /\ cancelled' = cancelled \cup {canceller}
    /\ canceller' = None
    /\ UNCHANGED <<due, next_event, pending, attached, handlingVars, broken>>

\* Now it has.  If the softirq has taken the event by now this takes it off the
\* list the softirq goes through: too late if its turn has come (the softirq
\* stands at the first of the list once looping), and a fault if it is next.
CancelRemove(looping) ==
    LET e == canceller
    IN  /\ e # None
        /\ poison' = poison \ {e}
        /\ event_list' = event_list \ {e}
        /\ \/ /\ e \notin poison \/ e \notin Handling
              /\ cancelled' = cancelled \cup {e}
              /\ due' = [due EXCEPT ![e] = 0] /\ attached' = attached \ {e}
              /\ UNCHANGED <<to_handle, broken>>
           \/ /\ e \in poison /\ e \in Handling
              /\ UNCHANGED <<due, attached>>
              /\ \/ ~looping /\ to_handle' = list_remove(to_handle, e) /\ cancelled' = cancelled \cup {e} /\ UNCHANGED broken
                 \/ looping /\ e = Head(to_handle) /\ UNCHANGED <<to_handle, cancelled, broken>>
                 \/ looping /\ e # Head(to_handle) /\ broken' = TRUE /\ UNCHANGED <<to_handle, cancelled>>
        /\ canceller' = None
        /\ UNCHANGED <<next_event, pending, alone, expired>>

-----------------------------------------------------------------------------
(* timer_handle_events.                                                    *)

\* Callbacks of events that repeat set a new deadline: the scheduler's the
\* next tick, others anything.
NewDeadlines(S) ==
    {[e \in Events |-> IF e \in S THEN f[e] ELSE due[e]] :
        f \in {g \in [S -> 1..MaxDelay] : \A e \in S \cap Atomic : g[e] = 1}}

\* Mutant: the deadlines the callbacks have set do not count.
HandleInIrq_NoPulse ==
    LET over == {e \in event_list : due[e] = 0}
        run == over \cap Atomic
    IN  /\ due' \in NewDeadlines(run \cap Pulse)
        /\ event_list' = event_list \ (run \ Pulse)
        /\ poison' = poison \ (run \ Pulse)
        /\ pending' = pending \cup (over \ Atomic)
        /\ set_oneshot(event_list' \ over, due')
        /\ expired' = expired \ run
        /\ attached' = attached \ (run \ Pulse)
        /\ UNCHANGED <<to_handle, alone, canceller, cancelled, broken>>

\* In the timer's interrupt: others than the atomic ones become pending.
HandleInIrq ==
    LET over == {e \in event_list : due[e] = 0}
        run == over \cap Atomic
    IN  /\ due' \in NewDeadlines(run \cap Pulse)
        /\ event_list' = event_list \ (run \ Pulse)
        /\ poison' = poison \ (run \ Pulse)
        /\ pending' = pending \cup (over \ Atomic)
        /\ set_oneshot(event_list' \ (over \ Atomic), due')
        /\ expired' = expired \ run
        /\ attached' = attached \ (run \ Pulse)
        /\ UNCHANGED <<to_handle, alone, canceller, cancelled, broken>>

\* In the softirq: current_time is read before the list is locked.
ReadTime ==
    /\ expired' = {e \in event_list : due[e] = 0}
    /\ UNCHANGED <<eventVars, to_handle, alone, canceller, cancelled, broken>>

\* The events of S as a list, in any order.
Orders(S) == {s \in [1..Cardinality(S) -> S] : Distinct(s)}

HandleInSoftirq ==
    LET over == event_list \cap expired
        run == over \cap Atomic
    IN  /\ due' \in NewDeadlines(run \cap Pulse)
        /\ event_list' = event_list \ (over \ (Atomic \cap Pulse))
        /\ poison' = poison \ (run \ Pulse)
        /\ attached' = attached \ (over \ (Atomic \cap Pulse))
        /\ to_handle' \in Orders(over \ Atomic)
        /\ set_oneshot(event_list', due')
        /\ expired' = {}
        /\ UNCHANGED <<pending, alone, canceller, cancelled, broken>>

\* The list is unlocked and gone through: the loop, ...
HandleLoop ==
    /\ alone' = (Len(to_handle) = 1)
    /\ UNCHANGED <<eventVars, to_handle, expired, canceller, cancelled, broken>>

\* ... a callback, ...
Callback ==
    /\ due' \in NewDeadlines({Head(to_handle)} \cap Pulse)
    /\ UNCHANGED <<next_event, event_list, poison, pending, attached, handlingVars, canceller, cancelled, broken>>

\* ... and what follows it.  An event that repeats is queued again.  For
\* another the head of the list, not the event, is taken off: with more events
\* than this one the list is no longer one.
CallbackDone ==
    LET e == Head(to_handle)
    IN  /\ pending' = pending \ {e}
        /\ to_handle' = Tail(to_handle)
        /\ \/ /\ e \in Pulse
              /\ timer_queue_clockevent(e, due[e])
              /\ UNCHANGED <<broken, alone>>
           \/ /\ e \notin Pulse
              /\ poison' = poison \ {e}
              /\ attached' = attached \ {e}
              /\ broken' = ~alone /\ UNCHANGED alone
              /\ UNCHANGED <<due, next_event, event_list, expired, cancelled>>
        /\ UNCHANGED canceller

-----------------------------------------------------------------------------
(* Properties.                                                             *)

\* The timer is set no later than the first deadline on the list, but for the
\* events that an interrupt has left for the softirq: no deadline passes
\* unnoticed, however queueing, cancelling, interrupts and the softirq, which
\* works with an old time, interleave.
EventsArmed == \A e \in event_list \ pending : next_event <= due[e]

\* After timer_cancel_event the event is neither on the list nor about to be
\* run, and may be freed; the softirq running it meanwhile is the exception
\* (cancelled leaves those out).
CancelledSilent == cancelled \cap (event_list \cup Handling) = {}
=============================================================================
