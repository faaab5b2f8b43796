---------------------------- MODULE EventProofs ----------------------------
(***************************************************************************)
(* Two ways the kernel has of telling somebody that something is due:      *)
(* clock events, which are armed while they wait and silent once they are  *)
(* cancelled, and the events of a traced process, which is held until they *)
(* are acknowledged.  For any number of clock events, subscribers, delays  *)
(* and stops.                                                              *)
(***************************************************************************)
EXTENDS Softirq, ProcEvent, WaitListProofs, FiniteSetTheorems, SequenceTheorems, WellFoundedInduction

-----------------------------------------------------------------------------
(* Clock events: the inductive invariant.                                  *)

TimerTypes ==
    /\ due \in [Events -> 0 .. MaxDelay]
    /\ next_event \in 0 .. TIMER_NEXT_EVENT_NOT_PENDING
    /\ event_list \subseteq Events
    /\ to_handle \in Seq(Events)

\* An event is on the list of the timer or on the one the softirq goes
\* through.  The first are marked and know their timer, and the others do not
\* know it: a thread that would cancel one of them leaves it alone, unless it
\* had looked before the softirq took the event, which was marked then.
EventPlaces ==
    /\ Distinct(to_handle)
    /\ event_list \cap Handling = {}
    /\ event_list \subseteq attached \cap poison
    /\ Handling \cap attached = {}
    /\ canceller \in Handling => canceller \in poison

\* Only timer_handle_events has a list of its own, and it has one as long as
\* it runs callbacks.
HandlingWhen ==
    /\ soft \notin {"loop", "call", "done"} => to_handle = <<>>
    /\ soft \in {"call", "done"} => to_handle # <<>>

TimerInv == TimerTypes /\ EventPlaces /\ HandlingWhen /\ EventsArmed /\ CancelledSilent

-----------------------------------------------------------------------------
(* Deadlines and lists.                                                    *)

\* A set of numbers has a least one.
LEMMA Least ==
    ASSUME NEW S, S \subseteq Nat, S # {}
    PROVE  \E i \in S : \A j \in S : i <= j
<1> DEFINE R == {p \in Nat \X Nat : p[1] < p[2]}
<1>1. IsWellFoundedOn(R, Nat)
    BY Zenon, NatLessThanWellFounded DEF OpToRel
<1>2. \E i \in S : \A j \in S : ~(<<j, i>> \in R)
  <2> HIDE DEF R
  <2> QED
      BY Zenon, <1>1, WFMin
<1>3. \A i, j \in S : ~(<<j, i>> \in R) => i <= j
    OBVIOUS
<1> QED
    BY Zenon, <1>2, <1>3

\* The timer is set no later than the deadlines it is set for.
LEMMA SetOneshot ==
    ASSUME NEW S, S \subseteq Events, NEW d \in [Events -> 0 .. MaxDelay], set_oneshot(S, d)
    PROVE  /\ next_event' \in 0 .. TIMER_NEXT_EVENT_NOT_PENDING
           /\ \A e \in S : next_event' <= d[e]
<1> DEFINE D == {d[e] : e \in S} \cup {TIMER_NEXT_EVENT_NOT_PENDING}
<1>1. D \subseteq Nat /\ D # {} /\ \A x \in D : x \in 0 .. TIMER_NEXT_EVENT_NOT_PENDING
    BY TimerAssumption DEF TIMER_NEXT_EVENT_NOT_PENDING
<1>2. \A e \in S : d[e] \in D
    BY Zenon
<1>3. next_event' = Min(D)
    BY Zenon DEF set_oneshot
<1> HIDE DEF D
<1>4. \E x \in D : \A y \in D : x <= y
    BY Zenon, <1>1, Least
<1>5. Min(D) \in D /\ \A y \in D : Min(D) <= y
    BY Zenon, <1>4 DEF Min
<1> QED
    BY Zenon, <1>1, <1>2, <1>3, <1>5

\* Callbacks set deadlines of the events they are for.
LEMMA Deadlines ==
    ASSUME TimerTypes, NEW S, S \subseteq Events, due' \in NewDeadlines(S)
    PROVE  /\ due' \in [Events -> 0 .. MaxDelay]
           /\ \A e \in Events \ S : due'[e] = due[e]
<1>1. PICK f \in [S -> 1 .. MaxDelay] : due' = [e \in Events |-> IF e \in S THEN f[e] ELSE due[e]]
    BY Zenon DEF NewDeadlines
<1>2. \A e \in S : f[e] \in 0 .. MaxDelay
    BY TimerAssumption
<1> QED
    BY Zenon, <1>1, <1>2 DEF TimerTypes

\* The softirq's list has the events it was made of, once each.
LEMMA OrdersSound ==
    ASSUME NEW S, S \subseteq Events, NEW s \in Orders(S)
    PROVE  s \in Seq(Events) /\ Distinct(s) /\ Members(s) \subseteq S
<1>1. Cardinality(S) \in Nat
    BY Zenon, TimerAssumption, FS_Subset, FS_CardinalityType
<1>2. s \in [1 .. Cardinality(S) -> S] /\ Distinct(s)
    BY Zenon DEF Orders
<1>3. s \in Seq(S)
    BY <1>1, <1>2
<1> QED
    BY <1>2, <1>3 DEF Members

\* The list is over after its last event.
LEMMA LastOne ==
    ASSUME NEW S, NEW s \in Seq(S), s # <<>>
    PROVE  Len(s) = 1 <=> Tail(s) = <<>>
<1> DEFINE r == Tail(s)
<1>1. r \in Seq(S) /\ Len(r) = Len(s) - 1 /\ Len(s) \in Nat
    OBVIOUS
<1> HIDE DEF r
<1>2. Len(r) = 0 <=> r = <<>>
    BY Zenon, <1>1, EmptySeq
<1>3. Len(s) = 1 <=> r = <<>>
    BY <1>1, <1>2
<1> QED BY Zenon, <1>3 DEF r

-----------------------------------------------------------------------------
(* The steps.                                                              *)

\* Where softirq_handle goes after the timer's vector, or at its start.
LEMMA AfterPlaces ==
    /\ After("read") \in {"time", "rx", "write"}
    /\ After("time") \in {"rx", "write"}
    BY Zenon DEF After

\* Only the place in softirq_handle changes, away from the callbacks.
LEMMA ElsewhereStep ==
    ASSUME TimerInv, UNCHANGED timerVars,
           \/ soft' = soft
           \/ soft \notin {"loop", "call", "done"} /\ soft' \notin {"loop", "call", "done"}
    PROVE  TimerInv'
<1> USE DEF timerVars, eventVars, handlingVars
<1>1. TimerTypes'
    BY Zenon DEF TimerInv, TimerTypes
<1>2. EventPlaces'
    BY Zenon DEF TimerInv, EventPlaces, Handling
<1>3. HandlingWhen'
    BY Zenon DEF TimerInv, HandlingWhen
<1>4. EventsArmed' /\ CancelledSilent'
    BY Zenon DEF TimerInv, EventsArmed, CancelledSilent, Handling
<1> QED
    BY Zenon, <1>1, <1>2, <1>3, <1>4 DEF TimerInv

\* Time passes: the deadlines and the timer come closer together.
LEMMA TickStep ==
    ASSUME TimerInv, TimePasses
    PROVE  TimerInv'
<1> USE DEF TimePasses, Tick, handlingVars, softVars
<1>1. TimerTypes'
    BY TimerAssumption DEF TimerInv, TimerTypes, TIMER_NEXT_EVENT_NOT_PENDING
<1>2. EventPlaces' /\ CancelledSilent'
    BY Zenon DEF TimerInv, EventPlaces, CancelledSilent, Handling
<1>3. HandlingWhen'
    BY Zenon DEF TimerInv, HandlingWhen
<1>4. ASSUME NEW e \in event_list' \ pending'
      PROVE  next_event' <= due'[e]
  <2>1. e \in Events /\ next_event <= due[e] /\ due[e] \in 0 .. MaxDelay
      BY Zenon DEF TimerInv, TimerTypes, EventsArmed
  <2>2. due'[e] = IF due[e] = 0 THEN 0 ELSE due[e] - 1
      BY Zenon, <2>1
  <2>3. next_event \in 0 .. MaxDelay
      BY <2>1, TimerAssumption DEF TimerInv, TimerTypes, TIMER_NEXT_EVENT_NOT_PENDING
  <2> QED
      BY <2>1, <2>2, <2>3, TimerAssumption
<1> QED
    BY Zenon, <1>1, <1>2, <1>3, <1>4 DEF TimerInv, EventsArmed

\* timer_queue_clockevent of an event that is on no list.
LEMMA QueueStep ==
    ASSUME TimerInv, NEW e \in Events, Queue(e)
    PROVE  TimerInv'
<1>1. PICK d \in 1 .. MaxDelay : timer_queue_clockevent(e, d)
    BY Zenon DEF Queue
<1> USE <1>1 DEF Queue, timer_queue_clockevent, softVars
<1>2. TimerTypes'
    BY TimerAssumption DEF TimerInv, TimerTypes, TIMER_NEXT_EVENT_NOT_PENDING
<1>3. to_handle = <<>> /\ Handling = {} /\ Handling' = {}
    BY DEF TimerInv, HandlingWhen, Handling, Members
<1>4. EventPlaces'
    BY Zenon, <1>3 DEF TimerInv, EventPlaces
<1>5. HandlingWhen' /\ CancelledSilent'
    BY Zenon, <1>3 DEF TimerInv, HandlingWhen, CancelledSilent
<1>6. ASSUME NEW x \in event_list' \ pending'
      PROVE  next_event' <= due'[x]
    BY TimerAssumption DEF TimerInv, TimerTypes, EventsArmed, TIMER_NEXT_EVENT_NOT_PENDING
<1> QED
    BY Zenon, <1>2, <1>4, <1>5, <1>6 DEF TimerInv, EventsArmed

\* timer_cancel_event, on the processor of the timer and on another.
LEMMA CancelStep ==
    ASSUME TimerInv, NEW e \in Events, Cancel(e)
    PROVE  TimerInv'
<1>1. CASE soft = "none" /\ CancelHere(e) /\ UNCHANGED <<softVars, netVars>>
  <2> USE <1>1 DEF CancelHere, softVars, handlingVars
  <2>1. TimerTypes'
      BY TimerAssumption DEF TimerInv, TimerTypes
  <2>2. to_handle = <<>> /\ Handling = {} /\ Handling' = {}
      BY DEF TimerInv, HandlingWhen, Handling, Members
  <2>3. EventPlaces' /\ HandlingWhen' /\ CancelledSilent'
      BY Zenon, <2>2 DEF TimerInv, EventPlaces, HandlingWhen, CancelledSilent
  <2>4. \A x \in event_list' \ pending' : x # e /\ x \in event_list \ pending /\ x \in Events
      BY Zenon DEF TimerInv, TimerTypes
  <2>5. EventsArmed'
      BY Zenon, <2>4 DEF TimerInv, TimerTypes, EventsArmed
  <2> QED
      BY Zenon, <2>1, <2>3, <2>5 DEF TimerInv
<1>2. CASE CancelLook(e) /\ UNCHANGED <<softVars, netVars>>
  <2> USE <1>2 DEF CancelLook, softVars, eventVars, handlingVars
  <2>1. TimerTypes' /\ HandlingWhen'
      BY Zenon DEF TimerInv, TimerTypes, HandlingWhen
  <2>2. EventsArmed' /\ Handling' = Handling
      BY Zenon DEF TimerInv, EventsArmed, Handling
  <2>3. canceller' \in Handling => canceller' \in poison
      BY Zenon DEF TimerInv, EventPlaces
  <2>4. EventPlaces'
      BY Zenon, <2>2, <2>3 DEF TimerInv, EventPlaces
  <2>5. CancelledSilent'
      BY Zenon, <2>2 DEF TimerInv, EventPlaces, CancelledSilent
  <2> QED
      BY Zenon, <2>1, <2>2, <2>4, <2>5 DEF TimerInv
<1> QED
    BY Zenon, <1>1, <1>2 DEF Cancel

\* The thread elsewhere has the lock of the list now.
LEMMA RemovedStep ==
    ASSUME TimerInv, Removed
    PROVE  TimerInv'
<1> DEFINE e == canceller
<1>1. /\ canceller' = None /\ UNCHANGED <<soft, next_event, pending>>
      /\ event_list' = event_list \ {e} /\ poison' = poison \ {e}
    BY Zenon DEF Removed, CancelRemove, softVars
<1>2. \A x \in event_list' \ pending' : x # e /\ x \in event_list \ pending /\ x \in Events
    BY Zenon, <1>1 DEF TimerInv, TimerTypes
<1>3. TimerTypes' => None \notin Handling'
    BY TimerAssumption DEF TimerTypes, Handling, Members
<1>4. CASE /\ e \notin poison \/ e \notin Handling
           /\ cancelled' = cancelled \cup {e}
           /\ due' = [due EXCEPT ![e] = 0] /\ attached' = attached \ {e}
           /\ UNCHANGED to_handle
  <2>1. TimerTypes'
    <3>1. due \in [Events -> 0 .. MaxDelay] /\ 0 \in 0 .. MaxDelay
        BY TimerAssumption DEF TimerInv, TimerTypes
    <3>2. due' \in [Events -> 0 .. MaxDelay]
        BY Zenon, <1>4, <3>1
    <3> QED BY Zenon, <1>1, <1>4, <3>2 DEF TimerInv, TimerTypes
  <2>2. Handling' = Handling /\ e \notin Handling
    <3>1. Handling' = Handling
        BY Zenon, <1>4 DEF Handling
    <3> QED BY Zenon, <1>4, <3>1 DEF TimerInv, EventPlaces
  <2>3. EventPlaces'
      BY Zenon, <1>1, <1>3, <1>4, <2>1, <2>2 DEF TimerInv, EventPlaces
  <2>4. HandlingWhen' /\ CancelledSilent'
      BY Zenon, <1>1, <1>4, <2>2 DEF TimerInv, HandlingWhen, CancelledSilent
  <2>5. EventsArmed'
      BY Zenon, <1>1, <1>2, <1>4 DEF TimerInv, TimerTypes, EventsArmed
  <2> QED
      BY Zenon, <2>1, <2>3, <2>4, <2>5 DEF TimerInv
\* The softirq has taken it, and not begun with its list.
<1>5. CASE /\ e \in Handling /\ soft \notin {"call", "done"}
           /\ UNCHANGED <<due, attached>>
           /\ to_handle' = list_remove(to_handle, e) /\ cancelled' = cancelled \cup {e}
  <2>1. to_handle' \in Seq(Events) /\ Distinct(to_handle') /\ Handling' = Handling \ {e}
      BY Zenon, <1>5, Remove DEF TimerInv, TimerTypes, EventPlaces, Handling
  <2>2. TimerTypes'
      BY Zenon, <1>1, <1>5, <2>1 DEF TimerInv, TimerTypes
  <2>3. EventPlaces'
      BY Zenon, <1>1, <1>3, <1>5, <2>1, <2>2 DEF TimerInv, EventPlaces
  <2>4. soft = "loop"
    <3>1. to_handle # <<>>
        BY <1>5 DEF Handling, Members
    <3> QED BY Zenon, <1>5, <3>1 DEF TimerInv, HandlingWhen
  <2>5. HandlingWhen'
      BY Zenon, <1>1, <2>4 DEF HandlingWhen
  <2>6. CancelledSilent'
      BY Zenon, <1>1, <1>5, <2>1 DEF TimerInv, CancelledSilent
  <2>7. EventsArmed'
      BY Zenon, <1>1, <1>2, <1>5 DEF TimerInv, EventsArmed
  <2> QED
      BY Zenon, <2>2, <2>3, <2>5, <2>6, <2>7 DEF TimerInv
\* It is too late.
<1>6. CASE UNCHANGED <<due, attached, to_handle, cancelled>>
  <2>1. TimerTypes'
      BY Zenon, <1>1, <1>6 DEF TimerInv, TimerTypes
  <2>2. Handling' = Handling
      BY Zenon, <1>6 DEF Handling
  <2>3. EventPlaces'
      BY Zenon, <1>1, <1>3, <1>6, <2>1, <2>2 DEF TimerInv, EventPlaces
  <2>4. HandlingWhen' /\ CancelledSilent' /\ EventsArmed'
      BY Zenon, <1>1, <1>2, <1>6, <2>2 DEF TimerInv, HandlingWhen, CancelledSilent, EventsArmed
  <2> QED
      BY Zenon, <2>1, <2>3, <2>4 DEF TimerInv
<1> QED
    BY Zenon, <1>4, <1>5, <1>6 DEF Removed, CancelRemove

\* The interrupt of the timer runs some of the events that are over.
LEMMA TimerIrqStep ==
    ASSUME TimerInv, TimerIrq
    PROVE  TimerInv'
<1> DEFINE over == {e \in event_list : due[e] = 0}
           run == over \cap Atomic
<1>1. /\ due' \in NewDeadlines(run \cap Pulse)
      /\ event_list' = event_list \ (run \ Pulse) /\ poison' = poison \ (run \ Pulse)
      /\ pending' = pending \cup (over \ Atomic)
      /\ set_oneshot(event_list' \ (over \ Atomic), due')
      /\ attached' = attached \ (run \ Pulse)
      /\ UNCHANGED <<to_handle, canceller, cancelled>>
    BY Zenon DEF TimerIrq, HandleInIrq
<1>2. soft' = soft \/ (soft = "none" /\ soft' = "read")
    BY Zenon DEF TimerIrq, IrqExit
<1>3. over \subseteq event_list /\ run \subseteq event_list
    BY Zenon
<1> HIDE DEF over, run
<1>4. event_list \subseteq Events /\ run \cap Pulse \subseteq Events /\ event_list' \ (over \ Atomic) \subseteq Events
    BY Zenon, <1>1, <1>3 DEF TimerInv, TimerTypes
<1>5. due' \in [Events -> 0 .. MaxDelay]
    BY Zenon, <1>1, <1>4, Deadlines DEF TimerInv
<1>6. /\ next_event' \in 0 .. TIMER_NEXT_EVENT_NOT_PENDING
      /\ \A e \in event_list' \ (over \ Atomic) : next_event' <= due'[e]
    BY Zenon, <1>1, <1>4, <1>5, SetOneshot
<1>7. TimerTypes'
    BY Zenon, <1>1, <1>4, <1>5, <1>6 DEF TimerInv, TimerTypes
<1>8. Handling' = Handling
    BY Zenon, <1>1 DEF Handling
<1>9. EventPlaces'
    BY Zenon, <1>1, <1>3, <1>8 DEF TimerInv, EventPlaces
<1>10. HandlingWhen'
    BY Zenon, <1>1, <1>2 DEF TimerInv, HandlingWhen
<1>11. CancelledSilent' /\ EventsArmed'
    BY Zenon, <1>1, <1>6, <1>8 DEF TimerInv, CancelledSilent, EventsArmed
<1> QED
    BY Zenon, <1>7, <1>9, <1>10, <1>11 DEF TimerInv

\* The softirq takes the events that were over when it read the time.
LEMMA HandleStep ==
    ASSUME TimerInv, soft = "handle", HandleInSoftirq, soft' = "loop"
    PROVE  TimerInv'
<1> DEFINE over == event_list \cap expired
           run == over \cap Atomic
           gone == over \ (Atomic \cap Pulse)
<1>1. /\ due' \in NewDeadlines(run \cap Pulse)
      /\ event_list' = event_list \ gone /\ poison' = poison \ (run \ Pulse)
      /\ attached' = attached \ gone
      /\ to_handle' \in Orders(over \ Atomic)
      /\ set_oneshot(event_list', due')
      /\ UNCHANGED <<pending, canceller, cancelled>>
    BY Zenon DEF HandleInSoftirq
<1>2. /\ over \subseteq event_list /\ run \subseteq over /\ gone \subseteq over
      /\ over \ Atomic \subseteq gone /\ run \ Pulse \subseteq gone
      /\ (run \ Pulse) \cap (over \ Atomic) = {}
    BY Zenon
<1> HIDE DEF over, run, gone
<1>3. /\ event_list \subseteq Events /\ run \cap Pulse \subseteq Events
      /\ event_list' \subseteq Events /\ over \ Atomic \subseteq Events
    BY Zenon, <1>1, <1>2 DEF TimerInv, TimerTypes
<1>4. due' \in [Events -> 0 .. MaxDelay]
    BY Zenon, <1>1, <1>3, Deadlines DEF TimerInv
<1>5. /\ next_event' \in 0 .. TIMER_NEXT_EVENT_NOT_PENDING
      /\ \A e \in event_list' : next_event' <= due'[e]
    BY Zenon, <1>1, <1>3, <1>4, SetOneshot
<1>6. to_handle' \in Seq(Events) /\ Distinct(to_handle') /\ Handling' \subseteq over \ Atomic
    BY Zenon, <1>1, <1>3, OrdersSound DEF Handling
<1>7. TimerTypes'
    BY Zenon, <1>3, <1>4, <1>5, <1>6 DEF TimerTypes
<1>8. EventPlaces'
    BY Zenon, <1>1, <1>2, <1>6 DEF TimerInv, EventPlaces
<1>9. HandlingWhen'
    BY Zenon DEF HandlingWhen
<1>10. CancelledSilent' /\ EventsArmed'
    BY Zenon, <1>1, <1>2, <1>5, <1>6 DEF TimerInv, CancelledSilent, EventsArmed
<1> QED
    BY Zenon, <1>7, <1>8, <1>9, <1>10 DEF TimerInv

\* A callback sets the next deadline of an event that repeats.  The event is
\* on no list of the timer meanwhile.
LEMMA CallbackStep ==
    ASSUME TimerInv, soft = "call", Callback, soft' = "done"
    PROVE  TimerInv'
<1>1. to_handle # <<>> /\ to_handle \in Seq(Events) /\ Distinct(to_handle)
    BY Zenon DEF TimerInv, TimerTypes, EventPlaces, HandlingWhen
<1>2. Head(to_handle) \in Handling /\ Head(to_handle) \in Events
    BY Zenon, <1>1, PopHead DEF Handling
<1> DEFINE S == {Head(to_handle)} \cap Pulse
<1>3. S \subseteq Events /\ S \cap event_list = {}
    BY Zenon, <1>2 DEF TimerInv, EventPlaces
<1>4. /\ due' \in NewDeadlines(S)
      /\ UNCHANGED <<next_event, event_list, poison, pending, attached, to_handle, canceller, cancelled>>
    BY Zenon DEF Callback, handlingVars
<1> HIDE DEF S
<1>5. due' \in [Events -> 0 .. MaxDelay] /\ \A e \in Events \ S : due'[e] = due[e]
    BY Zenon, <1>3, <1>4, Deadlines DEF TimerInv
<1>6. Handling' = Handling
    BY Zenon, <1>4 DEF Handling
<1>7. TimerTypes'
    BY Zenon, <1>4, <1>5 DEF TimerInv, TimerTypes
<1>8. EventPlaces' /\ CancelledSilent'
    BY Zenon, <1>4, <1>6 DEF TimerInv, EventPlaces, CancelledSilent
<1>9. HandlingWhen'
    BY Zenon, <1>1, <1>4 DEF HandlingWhen
<1>10. EventsArmed'
    BY Zenon, <1>3, <1>4, <1>5 DEF TimerInv, TimerTypes, EventsArmed
<1> QED
    BY Zenon, <1>7, <1>8, <1>9, <1>10 DEF TimerInv

\* What follows a callback: the event is queued again, or forgotten.
LEMMA CallbackDoneStep ==
    ASSUME TimerInv, soft = "done", CallbackDone,
           soft' = IF Len(to_handle) = 1 THEN After("time") ELSE "call"
    PROVE  TimerInv'
<1> DEFINE e == Head(to_handle)
<1>1. to_handle # <<>> /\ to_handle \in Seq(Events) /\ Distinct(to_handle)
    BY Zenon DEF TimerInv, TimerTypes, EventPlaces, HandlingWhen
<1>2. to_handle' = Tail(to_handle) /\ pending' = pending \ {e} /\ UNCHANGED canceller
    BY Zenon DEF CallbackDone
<1>3. /\ e \in Handling /\ e \in Events /\ to_handle' \in Seq(Events) /\ Distinct(to_handle')
      /\ Handling' = Handling \ {e}
    BY Zenon, <1>1, <1>2, PopHead DEF Handling
<1>4. e \notin event_list /\ e \notin attached
    BY Zenon, <1>3 DEF TimerInv, EventPlaces
<1>5. HandlingWhen'
  <2>1. Len(to_handle) = 1 <=> to_handle' = <<>>
      BY Zenon, <1>1, <1>2, LastOne
  <2> QED BY Zenon, <2>1, AfterPlaces DEF HandlingWhen
<1>6. CASE e \in Pulse /\ timer_queue_clockevent(e, due[e])
  <2> HIDE DEF e
  <2>1. /\ canceller # e /\ due' = [due EXCEPT ![e] = due[e]]
        /\ event_list' = event_list \cup {e} /\ poison' = poison \cup {e}
        /\ attached' = attached \cup {e} /\ cancelled' = cancelled \ {e}
        /\ next_event' = IF next_event > due[e] THEN due[e] ELSE next_event
      BY Zenon, <1>6 DEF timer_queue_clockevent
  <2>2. due \in [Events -> 0 .. MaxDelay] /\ due' = due
      BY Zenon, <1>3, <2>1 DEF TimerInv, TimerTypes
  <2>3. next_event' \in 0 .. TIMER_NEXT_EVENT_NOT_PENDING /\ next_event' <= due[e] /\ next_event' <= next_event
      BY <1>3, <2>1, <2>2, TimerAssumption DEF TimerInv, TimerTypes, TIMER_NEXT_EVENT_NOT_PENDING
  <2>4. TimerTypes'
      BY Zenon, <1>3, <2>1, <2>2, <2>3 DEF TimerInv, TimerTypes
  <2>5. EventPlaces' /\ CancelledSilent'
      BY Zenon, <1>2, <1>3, <1>4, <2>1 DEF TimerInv, EventPlaces, CancelledSilent
  <2>6. ASSUME NEW x \in event_list' \ pending'
        PROVE  next_event' <= due'[x]
    <3>1. CASE x = e
        BY Zenon, <3>1, <2>2, <2>3
    <3>2. CASE x # e
      <4>1. x \in event_list \ pending /\ x \in Events
          BY Zenon, <1>2, <2>1, <3>2 DEF TimerInv, TimerTypes
      <4>2. next_event <= due[x]
          BY Zenon, <4>1 DEF TimerInv, EventsArmed
      <4> QED BY <2>2, <2>3, <4>1, <4>2, TimerAssumption DEF TimerInv, TimerTypes, TIMER_NEXT_EVENT_NOT_PENDING
    <3> QED BY Zenon, <3>1, <3>2
  <2> QED
      BY Zenon, <1>5, <2>4, <2>5, <2>6 DEF TimerInv, EventsArmed
<1>7. CASE /\ poison' = poison \ {e} /\ attached' = attached \ {e}
           /\ UNCHANGED <<due, next_event, event_list, cancelled>>
  <2> HIDE DEF e
  <2>1. TimerTypes'
      BY Zenon, <1>3, <1>7 DEF TimerInv, TimerTypes
  <2>2. EventPlaces' /\ CancelledSilent'
      BY Zenon, <1>2, <1>3, <1>4, <1>7 DEF TimerInv, EventPlaces, CancelledSilent
  <2>3. EventsArmed'
      BY Zenon, <1>2, <1>4, <1>7 DEF TimerInv, EventsArmed
  <2> QED
      BY Zenon, <1>5, <2>1, <2>2, <2>3 DEF TimerInv
<1> QED
    BY Zenon, <1>6, <1>7 DEF CallbackDone

\* Every step of the softirq, its callers and the interrupts keeps the
\* invariant.
LEMMA TimerInvStep == TimerInv /\ [SoftirqNext]_vars => TimerInv'
<1> SUFFICES ASSUME TimerInv, [SoftirqNext]_vars
             PROVE  TimerInv'
    BY Zenon
<1>1. CASE TimePasses
    BY Zenon, <1>1, TickStep
<1>2. CASE TimerIrq
    BY Zenon, <1>2, TimerIrqStep
<1>3. CASE NicIrq
  <2>1. UNCHANGED timerVars /\ (soft' = soft \/ (soft = "none" /\ soft' = "read"))
      BY Zenon, <1>3 DEF NicIrq, IrqExit, softVars
  <2> QED BY Zenon, <2>1, ElsewhereStep
<1>4. CASE Arrive
    BY Zenon, <1>4, ElsewhereStep DEF Arrive, softVars
<1>5. CASE disable_preempt
    BY Zenon, <1>5, ElsewhereStep DEF disable_preempt
<1>6. CASE enable_preempt
    BY Zenon, <1>6, ElsewhereStep DEF enable_preempt
<1>7. CASE SoftRead
    BY Zenon, <1>7, AfterPlaces, ElsewhereStep DEF SoftRead
<1>8. CASE SoftTimer
  <2>1. CASE soft = "time" /\ ReadTime /\ soft' = "handle"
    <3> USE <2>1 DEF ReadTime, eventVars
    <3>1. TimerTypes' /\ HandlingWhen'
        BY Zenon DEF TimerInv, TimerTypes, HandlingWhen
    <3>2. EventPlaces' /\ CancelledSilent' /\ EventsArmed'
        BY Zenon DEF TimerInv, EventPlaces, CancelledSilent, EventsArmed, Handling
    <3> QED BY Zenon, <3>1, <3>2 DEF TimerInv
  <2>2. CASE soft = "handle" /\ HandleInSoftirq /\ soft' = "loop"
      BY Zenon, <2>2, HandleStep
  <2>3. CASE soft = "loop" /\ HandleLoop /\ soft' = IF to_handle = <<>> THEN After("time") ELSE "call"
    <3> USE <2>3 DEF HandleLoop, eventVars
    <3>1. TimerTypes' /\ HandlingWhen'
        BY Zenon, AfterPlaces DEF TimerInv, TimerTypes, HandlingWhen
    <3>2. EventPlaces' /\ CancelledSilent' /\ EventsArmed'
        BY Zenon DEF TimerInv, EventPlaces, CancelledSilent, EventsArmed, Handling
    <3> QED BY Zenon, <3>1, <3>2 DEF TimerInv
  <2>4. CASE soft = "call" /\ Callback /\ soft' = "done"
      BY Zenon, <2>4, CallbackStep
  <2>5. CASE soft = "done" /\ CallbackDone /\ soft' = IF Len(to_handle) = 1 THEN After("time") ELSE "call"
      BY Zenon, <2>5, CallbackDoneStep
  <2> QED BY Zenon, <1>8, <2>1, <2>2, <2>3, <2>4, <2>5 DEF SoftTimer
<1>9. CASE SoftRx
  <2>1. UNCHANGED timerVars
      BY Zenon, <1>9 DEF SoftRx
  <2>2. soft \notin {"loop", "call", "done"} /\ soft' \notin {"loop", "call", "done"}
      BY Zenon, <1>9 DEF SoftRx
  <2> QED BY Zenon, <2>1, <2>2, ElsewhereStep
<1>10. CASE SoftWrite
    BY Zenon, <1>10, ElsewhereStep DEF SoftWrite
<1>11. ASSUME NEW e \in Events, Queue(e) \/ Cancel(e)
       PROVE  TimerInv'
    BY Zenon, <1>11, QueueStep, CancelStep
<1>12. CASE Removed
    BY Zenon, <1>12, RemovedStep
<1>13. CASE UNCHANGED vars
    BY Zenon, <1>13, ElsewhereStep DEF vars, softVars
<1> QED
    BY Zenon, <1>1, <1>2, <1>3, <1>4, <1>5, <1>6, <1>7, <1>8, <1>9, <1>10, <1>11, <1>12, <1>13
    DEF SoftirqNext, SoftStep

\* It holds of the timer that has only the scheduler's event.
LEMMA TimerInvInit == SoftirqInit => TimerInv
<1> SUFFICES ASSUME SoftirqInit PROVE TimerInv
    BY Zenon
<1> USE DEF SoftirqInit, TimerInit
<1>1. Handling = {}
    BY DEF Handling, Members
<1>2. TimerTypes
    BY TimerAssumption DEF TimerTypes, TIMER_NEXT_EVENT_NOT_PENDING
<1>3. EventPlaces /\ CancelledSilent
    BY <1>1 DEF EventPlaces, Distinct, CancelledSilent
<1>4. HandlingWhen
    BY Zenon DEF HandlingWhen
<1>5. EventsArmed
    BY TimerAssumption DEF EventsArmed
<1> QED BY Zenon, <1>2, <1>3, <1>4, <1>5 DEF TimerInv

\* timer.cpp, with softirqs, interrupts and cancellation from elsewhere: the
\* timer is set no later than the first deadline on its list, but for the
\* events an interrupt has left for the softirq.
THEOREM ClockEventsArmed == SoftirqSpec => []EventsArmed
<1>1. TimerInv => EventsArmed
    BY Zenon DEF TimerInv
<1> QED BY <1>1, TimerInvInit, TimerInvStep, PTL DEF SoftirqSpec

\* timer_cancel_event: an event whose cancellation is over is neither on the
\* list of the timer nor on the one the softirq goes through.
THEOREM ClockEventsSilent == SoftirqSpec => []CancelledSilent
<1>1. TimerInv => CancelledSilent
    BY Zenon DEF TimerInv
<1> QED BY <1>1, TimerInvInit, TimerInvStep, PTL DEF SoftirqSpec

-----------------------------------------------------------------------------
(* Process events: the inductive invariant.                                *)

SubPoints == {"out", "link", "read", "reset", "ack", "signal", "closed"}

Counted == {s \in Subs : spc[s] \notin {"out", "closed"}}

Linked == {s \in Subs : spc[s] \notin {"out", "link", "closed"}}

PETypes ==
    /\ spc \in [Subs -> SubPoints]
    /\ next \in [Subs -> Subs \cup {Nobody}]
    /\ event_semaphore \in [Subs -> Nat] /\ seen \in [Subs -> Nat] /\ acked \in [Subs -> Nat]
    /\ nr_subs \in Nat /\ nr_acks \in Nat /\ stops \in Nat
    /\ \A s \in Subs : s \in Members(Initially) => s \in Linked \/ spc[s] = "closed"

\* L is the list of subscribers.
IsList(L) ==
    /\ L \in Seq(Subs) /\ Distinct(L) /\ Members(L) = Linked
    /\ sub_queue = IF L = <<>> THEN Nobody ELSE L[1]
    /\ \A i \in DOMAIN L : next[L[i]] = IF i = Len(L) THEN Nobody ELSE L[i + 1]

\* The target goes through it: those from its cursor on have not seen this stop.
WalkAt(L) ==
    pc = "notify" /\ cursor # Nobody =>
        \E k \in DOMAIN L : cursor = L[k] /\ \A i \in k .. Len(L) : seen[L[i]] # stops

ListInv == \E L \in Seq(Subs) : IsList(L) /\ WalkAt(L)

\* A subscriber has acknowledged all it has seen, or is about to acknowledge
\* the stop that the target is at.
SubInv(s) ==
    /\ acked[s] <= seen[s] /\ seen[s] <= stops
    /\ s \in Linked /\ s \in Members(Initially) => acked[s] <= stops /\ stops <= acked[s] + 1
    /\ spc[s] \in {"out", "link"} => next[s] = Nobody /\ event_semaphore[s] = 0 /\ seen[s] = 0
    /\ s \in Linked /\ seen[s] = acked[s] => event_semaphore[s] = 0 /\ spc[s] \in {"read", "signal"}
    /\ s \in Linked /\ seen[s] # acked[s] =>
          /\ seen[s] = stops /\ pc # "user"
          /\ \/ spc[s] = "read" /\ event_semaphore[s] = 1
             \/ spc[s] \in {"reset", "ack"} /\ event_semaphore[s] = 0

Ackers == {s \in Linked : acked[s] = stops}

\* Whoever is linked is counted, and the acknowledgements of this stop are.
Counts ==
    /\ IsFiniteSet(Counted) /\ Cardinality(Counted) <= nr_subs
    /\ nr_acks = IF pc = "user" THEN 0 ELSE Cardinality(Ackers)
    /\ pc # "user" => stops > 0

Complete ==
    \A s \in Linked : seen[s] = acked[s] /\ (s \in Members(Initially) => acked[s] = stops)

NoSignal == \A s \in Subs : spc[s] # "signal"

\* A signal has woken the target.
Released == pc \in {"yield", "relock"} /\ cond = <<>>

\* The target sleeps until the last acknowledgement, and whoever it came from
\* is the only one to signal.
TargetInv ==
    /\ pc \in {"user", "notify", "unlock", "enqueue", "yield", "relock"}
    /\ status \in [{Target} -> Statuses] /\ parked \in [{Target} -> BOOLEAN]
    /\ cond \in {<<>>, <<Target>>}
    /\ pc \notin {"yield", "relock"} => cond = <<>>
    /\ status[Target] = IF cond = <<>> THEN "RUNNABLE" ELSE "UNINTERRUPTIBLE"
    /\ parked[Target] <=> pc = "relock" /\ cond # <<>>
    /\ pc = "user" \/ Released => Complete /\ NoSignal
    /\ \A s \in Subs : spc[s] = "signal" =>
          /\ Complete /\ (pc = "notify" => cursor = Nobody)
          /\ \A r \in Subs : spc[r] = "signal" => r = s

EventInv == PETypes /\ ListInv /\ (\A s \in Subs : SubInv(s)) /\ Counts /\ TargetInv

\* All of this until somebody closes during a stop.
PEInv == deserted \in BOOLEAN /\ (~deserted => EventInv)

-----------------------------------------------------------------------------
(* The target's steps.                                                     *)

\* Steps that leave the list and what was seen alone, outside of the walk.
LEMMA KeepLists ==
    ASSUME ListInv, UNCHANGED <<sub_queue, next, seen, stops>>, Linked' = Linked,
           pc' # "notify" \/ UNCHANGED <<pc, cursor>>
    PROVE  ListInv'
<1>1. PICK L \in Seq(Subs) : IsList(L) /\ WalkAt(L)
    BY Zenon DEF ListInv
<1>2. IsList(L)'
    BY Zenon, <1>1 DEF IsList
<1>3. WalkAt(L)'
    BY Zenon, <1>1 DEF WalkAt
<1> QED
    BY Zenon, <1>2, <1>3 DEF ListInv

\* The target goes on in a stop, or ends it when everybody has acknowledged.
LEMMA TargetMoves ==
    ASSUME EventInv,
           UNCHANGED <<sub_queue, next, nr_subs, event_semaphore, seen, spc, acked, stops>>,
           pc # "user", pc' # "notify",
           IF pc' = "user" THEN Complete /\ nr_acks' = 0 ELSE nr_acks' = nr_acks
    PROVE  /\ PETypes' /\ ListInv' /\ Counts' /\ (\A s \in Subs : SubInv(s)')
           /\ (Complete => Complete') /\ (NoSignal => NoSignal')
<1>1. Linked' = Linked /\ Counted' = Counted
    BY Zenon DEF Linked, Counted
<1>2. Ackers' = Ackers
    BY Zenon, <1>1 DEF Ackers
<1>3. PETypes'
  <2>1. nr_acks' \in Nat
      BY DEF EventInv, PETypes
  <2> QED
      BY Zenon, <1>1, <2>1 DEF EventInv, PETypes
<1>4. ListInv'
    BY Zenon, <1>1, KeepLists DEF EventInv
<1>5. Counts'
    BY Zenon, <1>1, <1>2 DEF EventInv, Counts
<1>6. ASSUME NEW s \in Subs PROVE SubInv(s)'
  <2>1. SubInv(s)
      BY Zenon DEF EventInv
  <2>2. s \in Linked /\ seen[s] # acked[s] => pc' # "user"
      BY Zenon DEF Complete
  <2> QED
      BY Zenon, <1>1, <2>1, <2>2 DEF SubInv
<1>7. (Complete => Complete') /\ (NoSignal => NoSignal')
    BY Zenon, <1>1 DEF Complete, NoSignal
<1> QED
    BY Zenon, <1>3, <1>4, <1>5, <1>6, <1>7

\* Without subscribers the target does not wait, and there is nobody to
\* acknowledge the stop.
LEMMA LockMutexStep ==
    ASSUME EventInv, LockMutex
    PROVE  EventInv'
<1>1. /\ pc = "notify" /\ cursor = Nobody
      /\ IF nr_subs = 0 THEN pc' = "user" ELSE pc' = "unlock"
      /\ UNCHANGED <<status, parked, cond, cursor, stops>>
      /\ UNCHANGED <<sub_queue, next, nr_subs, nr_acks, event_semaphore, seen, spc, acked>>
    BY Zenon DEF LockMutex, At, subVars
<1>2. ASSUME nr_subs = 0 PROVE Complete /\ NoSignal /\ nr_acks = 0
  <2>1. Counted = {}
    <3>1. Cardinality(Counted) = 0
        BY <1>2, FS_CardinalityType DEF EventInv, Counts
    <3> QED
        BY Zenon, <3>1, FS_EmptySet DEF EventInv, Counts
  <2>2. Linked = {} /\ NoSignal
      BY Zenon, <2>1 DEF Counted, Linked, NoSignal
  <2>3. Ackers = {}
      BY Zenon, <2>2 DEF Ackers
  <2>4. nr_acks = 0
      BY Zenon, <1>1, <2>3, FS_EmptySet DEF EventInv, Counts
  <2> QED
      BY Zenon, <2>2, <2>4 DEF Complete
<1>3. /\ PETypes' /\ ListInv' /\ Counts' /\ (\A s \in Subs : SubInv(s)')
      /\ (Complete => Complete') /\ (NoSignal => NoSignal')
    BY Zenon, <1>1, <1>2, TargetMoves
<1>4. TargetInv'
  <2>1. TargetInv
      BY Zenon DEF EventInv
  <2>2. CASE nr_subs = 0
    <3>1. Complete' /\ NoSignal' /\ pc' = "user"
        BY Zenon, <1>1, <1>2, <1>3, <2>2
    <3> QED
        BY Zenon, <1>1, <2>1, <3>1 DEF TargetInv, NoSignal
  <2>3. CASE nr_subs # 0
      BY Zenon, <1>1, <1>3, <2>1, <2>3 DEF TargetInv, Released
  <2> QED
      BY Zenon, <2>2, <2>3
<1> QED
    BY Zenon, <1>3, <1>4 DEF EventInv

LEMMA CondUnlockStep ==
    ASSUME EventInv, CondUnlock
    PROVE  EventInv'
<1>1. /\ pc = "unlock" /\ pc' = "enqueue"
      /\ UNCHANGED <<status, parked, cond, cursor, stops>>
      /\ UNCHANGED <<sub_queue, next, nr_subs, nr_acks, event_semaphore, seen, spc, acked>>
    BY Zenon DEF CondUnlock, At, subVars
<1>2. /\ PETypes' /\ ListInv' /\ Counts' /\ (\A s \in Subs : SubInv(s)')
      /\ (Complete => Complete') /\ (NoSignal => NoSignal')
    BY Zenon, <1>1, TargetMoves
<1>3. TargetInv'
    BY Zenon, <1>1, <1>2 DEF EventInv, TargetInv, Released
<1> QED
    BY Zenon, <1>2, <1>3 DEF EventInv

\* A signal that comes before the target is queued wakes nobody: there is
\* none to come.
LEMMA CondEnqueueStep ==
    ASSUME EventInv, CondEnqueue
    PROVE  EventInv'
<1>1. /\ pc = "enqueue" /\ pc' = "yield" /\ ~parked[Target]
      /\ cond' = Append(cond, Target)
      /\ status' = [status EXCEPT ![Target] = "UNINTERRUPTIBLE"] /\ parked' = parked
      /\ UNCHANGED <<cursor, stops>>
      /\ UNCHANGED <<sub_queue, next, nr_subs, nr_acks, event_semaphore, seen, spc, acked>>
    BY Zenon DEF CondEnqueue, At, subVars, set_current_state, list_add_tail
<1>2. /\ PETypes' /\ ListInv' /\ Counts' /\ (\A s \in Subs : SubInv(s)')
      /\ (Complete => Complete') /\ (NoSignal => NoSignal')
    BY Zenon, <1>1, TargetMoves
<1>3. TargetInv'
  <2>1. TargetInv
      BY Zenon DEF EventInv
  <2>2. cond' = <<Target>> /\ cond' # <<>>
    <3>1. cond = <<>>
        BY Zenon, <1>1, <2>1 DEF TargetInv
    <3> QED
        BY <1>1, <3>1
  <2>3. /\ status' \in [{Target} -> Statuses]
        /\ status'[Target] = "UNINTERRUPTIBLE"
      BY Zenon, <1>1, <2>1 DEF TargetInv, Statuses, Blocked
  <2> QED
      BY Zenon, <1>1, <1>2, <2>1, <2>2, <2>3 DEF TargetInv, Released
<1> QED
    BY Zenon, <1>2, <1>3 DEF EventInv

\* A target that was signalled before it yields does not sleep.
LEMMA CondYieldStep ==
    ASSUME EventInv, CondYield
    PROVE  EventInv'
<1>1. /\ pc = "yield" /\ pc' = "relock"
      /\ parked' = [parked EXCEPT ![Target] = status[Target] # "RUNNABLE"]
      /\ UNCHANGED <<status, cond, cursor, stops>>
      /\ UNCHANGED <<sub_queue, next, nr_subs, nr_acks, event_semaphore, seen, spc, acked>>
    BY Zenon DEF CondYield, At, subVars, sched_yield
<1>2. /\ PETypes' /\ ListInv' /\ Counts' /\ (\A s \in Subs : SubInv(s)')
      /\ (Complete => Complete') /\ (NoSignal => NoSignal')
    BY Zenon, <1>1, TargetMoves
<1>3. TargetInv'
  <2>1. TargetInv
      BY Zenon DEF EventInv
  <2>2. /\ parked' \in [{Target} -> BOOLEAN]
        /\ parked'[Target] <=> status[Target] # "RUNNABLE"
      BY Zenon, <1>1, <2>1 DEF TargetInv
  <2>3. status[Target] # "RUNNABLE" <=> cond # <<>>
      BY Zenon, <2>1 DEF TargetInv
  <2>4. pc' # "user" /\ pc' # "notify" /\ (Released' <=> Released)
      BY Zenon, <1>1 DEF Released
  <2> QED
      BY Zenon, <1>1, <1>2, <2>1, <2>2, <2>3, <2>4 DEF TargetInv
<1> QED
    BY Zenon, <1>2, <1>3 DEF EventInv

\* Nobody resumes who was not signalled, and that was by the last to
\* acknowledge.
LEMMA ResumeStep ==
    ASSUME EventInv, Resume
    PROVE  EventInv'
<1>1. /\ pc = "relock" /\ pc' = "user" /\ ~parked[Target] /\ nr_acks' = 0
      /\ UNCHANGED <<status, parked, cond, cursor, stops>>
      /\ UNCHANGED <<sub_queue, next, nr_subs, event_semaphore, seen, spc, acked>>
    BY Zenon DEF Resume, At
<1>2. TargetInv
    BY Zenon DEF EventInv
<1>3. cond = <<>> /\ Complete /\ NoSignal
    BY Zenon, <1>1, <1>2 DEF TargetInv, Released
<1>4. /\ PETypes' /\ ListInv' /\ Counts' /\ (\A s \in Subs : SubInv(s)')
      /\ Complete' /\ NoSignal'
    BY Zenon, <1>1, <1>3, TargetMoves
<1>5. TargetInv'
    BY Zenon, <1>1, <1>2, <1>3, <1>4 DEF TargetInv, NoSignal
<1> QED
    BY Zenon, <1>4, <1>5 DEF EventInv

\* A stop begins when nothing is left of the one before.
LEMMA StopStep ==
    ASSUME EventInv, Stop
    PROVE  EventInv'
<1>1. /\ pc = "user" /\ pc' = "notify" /\ stops' = stops + 1 /\ cursor' = sub_queue
      /\ UNCHANGED <<status, parked, cond>>
      /\ UNCHANGED <<sub_queue, next, nr_subs, nr_acks, event_semaphore, seen, spc, acked>>
    BY Zenon DEF Stop, At, subVars
<1>2. TargetInv /\ Complete /\ NoSignal /\ PETypes
    BY Zenon, <1>1 DEF EventInv, TargetInv
<1>3. Linked' = Linked /\ Counted' = Counted /\ Complete
    BY Zenon, <1>1, <1>2 DEF Linked, Counted
<1>4. stops \in Nat /\ stops' \in Nat /\ stops' > 0 /\ stops < stops'
    BY <1>1, <1>2 DEF PETypes
<1>5. ASSUME NEW s \in Subs
      PROVE  /\ seen[s] \in Nat /\ acked[s] \in Nat /\ acked[s] <= seen[s] /\ seen[s] <= stops
             /\ acked[s] # stops' /\ seen[s] # stops'
  <2>1. seen[s] \in Nat /\ acked[s] \in Nat /\ acked[s] <= seen[s] /\ seen[s] <= stops
      BY Zenon, <1>2 DEF EventInv, SubInv, PETypes
  <2> QED
      BY <1>4, <2>1
<1>6. Ackers' = {}
    BY Zenon, <1>1, <1>3, <1>5 DEF Ackers, Linked
<1>7. PETypes'
    BY Zenon, <1>1, <1>2, <1>3, <1>4 DEF PETypes
<1>8. ListInv'
  <2>1. PICK L \in Seq(Subs) : IsList(L) /\ WalkAt(L)
      BY Zenon DEF EventInv, ListInv
  <2>2. IsList(L)'
      BY Zenon, <1>1, <1>3, <2>1 DEF IsList
  <2>3. CASE L = <<>>
      BY Zenon, <1>1, <2>1, <2>2, <2>3 DEF IsList, WalkAt, ListInv
  <2>4. CASE L # <<>>
    <3>1. 1 \in DOMAIN L /\ \A i \in 1 .. Len(L) : L[i] \in Subs
        BY <2>4
    <3>2. cursor' = L[1]
        BY Zenon, <1>1, <2>1, <2>4 DEF IsList
    <3>3. WalkAt(L)'
        BY Zenon, <1>1, <1>5, <3>1, <3>2 DEF WalkAt
    <3> QED
        BY Zenon, <2>2, <3>3 DEF ListInv
  <2> QED
      BY Zenon, <2>3, <2>4
<1>9. ASSUME NEW s \in Subs PROVE SubInv(s)'
  <2>1. SubInv(s)
      BY Zenon DEF EventInv
  <2>2. s \in Linked /\ s \in Members(Initially) => acked[s] = stops
      BY Zenon, <1>2 DEF Complete
  <2>3. acked'[s] <= seen'[s] /\ seen'[s] <= stops'
      BY <1>1, <1>4, <1>5
  <2>4. s \in Linked /\ s \in Members(Initially) => acked'[s] <= stops' /\ stops' <= acked'[s] + 1
      BY <1>1, <1>4, <1>5, <2>2
  <2>5. s \in Linked => seen[s] = acked[s]
      BY Zenon, <1>2 DEF Complete
  <2> QED
      BY Zenon, <1>1, <1>3, <2>1, <2>3, <2>4, <2>5 DEF SubInv
<1>10. Counts'
    BY Zenon, <1>1, <1>3, <1>4, <1>6, FS_EmptySet DEF EventInv, Counts
<1>11. TargetInv'
    BY Zenon, <1>1, <1>2 DEF TargetInv, Released, NoSignal
<1> QED
    BY Zenon, <1>7, <1>8, <1>9, <1>10, <1>11 DEF EventInv

\* The target notifies somebody who has acknowledged all before, and whom it
\* has not notified in this stop.
LEMMA NotifyStep ==
    ASSUME EventInv, Notify
    PROVE  EventInv'
<1> DEFINE c == cursor
<1>1. /\ pc = "notify" /\ c # Nobody /\ pc' = pc /\ cursor' = next[c]
      /\ seen' = [seen EXCEPT ![c] = stops]
      /\ event_semaphore' = [event_semaphore EXCEPT ![c] = event_semaphore[c] + 1]
      /\ UNCHANGED <<status, parked, sub_queue, next, nr_subs, nr_acks, cond, stops, spc, acked>>
    BY Zenon DEF Notify, At
<1>2. TargetInv /\ PETypes
    BY Zenon DEF EventInv
<1>3. Linked' = Linked /\ Counted' = Counted
    BY Zenon, <1>1 DEF Linked, Counted
<1>4. Ackers' = Ackers
    BY Zenon, <1>1, <1>3 DEF Ackers
<1>5. PICK L \in Seq(Subs) : IsList(L) /\ WalkAt(L)
    BY Zenon DEF EventInv, ListInv
<1>6. PICK k \in DOMAIN L : c = L[k] /\ \A i \in k .. Len(L) : seen[L[i]] # stops
    BY Zenon, <1>1, <1>5 DEF WalkAt
<1>7. /\ Len(L) \in Nat /\ DOMAIN L = 1 .. Len(L) /\ k \in 1 .. Len(L) /\ k \in k .. Len(L)
      /\ \A i \in 1 .. Len(L) : L[i] \in Subs
    BY <1>6
<1>8. c \in Linked /\ c \in Subs
    BY Zenon, <1>5, <1>6 DEF IsList, Members, Linked
<1>9. NoSignal
    BY Zenon, <1>1, <1>2 DEF TargetInv, NoSignal
<1>10. /\ seen[c] # stops /\ seen[c] = acked[c] /\ event_semaphore[c] = 0
       /\ spc[c] = "read" /\ acked[c] <= seen[c] /\ seen[c] <= stops
  <2>1. seen[c] # stops
      BY Zenon, <1>6, <1>7
  <2>2. SubInv(c)
      BY Zenon, <1>8 DEF EventInv
  <2> QED
      BY Zenon, <1>8, <1>9, <2>1, <2>2 DEF SubInv, NoSignal
<1> HIDE DEF c
<1>11. /\ seen' \in [Subs -> Nat] /\ event_semaphore' \in [Subs -> Nat]
       /\ seen'[c] = stops /\ event_semaphore'[c] = 1
       /\ \A s \in Subs \ {c} : seen'[s] = seen[s] /\ event_semaphore'[s] = event_semaphore[s]
    BY <1>1, <1>2, <1>8, <1>10 DEF PETypes
<1>12. PETypes'
    BY Zenon, <1>1, <1>2, <1>3, <1>11 DEF PETypes
<1>13. ListInv'
  <2>1. IsList(L)'
      BY Zenon, <1>1, <1>3, <1>5 DEF IsList
  <2>2. ASSUME cursor' # Nobody
        PROVE  \E j \in DOMAIN L : cursor' = L[j] /\ \A i \in j .. Len(L) : seen'[L[i]] # stops
    <3>1. next[c] = IF k = Len(L) THEN Nobody ELSE L[k + 1]
        BY Zenon, <1>5, <1>6 DEF IsList
    <3>2. k + 1 \in DOMAIN L /\ cursor' = L[k + 1]
        BY <1>1, <1>7, <2>2, <3>1
    <3>3. ASSUME NEW i \in (k + 1) .. Len(L) PROVE seen'[L[i]] # stops
      <4>1. i \in DOMAIN L /\ i # k /\ i \in k .. Len(L) /\ L[i] \in Subs
          BY <1>7
      <4>2. L[i] # c
          BY Zenon, <1>5, <1>6, <4>1 DEF IsList, Distinct
      <4> QED
          BY Zenon, <1>6, <1>11, <4>1, <4>2
    <3> QED
        BY Zenon, <3>2, <3>3
  <2>3. WalkAt(L)'
      BY Zenon, <1>1, <2>2 DEF WalkAt
  <2> QED
      BY Zenon, <2>1, <2>3 DEF ListInv
<1>14. ASSUME NEW s \in Subs PROVE SubInv(s)'
  <2>1. SubInv(s)
      BY Zenon DEF EventInv
  <2>2. CASE s # c
      BY Zenon, <1>1, <1>3, <1>11, <2>1, <2>2 DEF SubInv
  <2>3. CASE s = c
    <3>1. acked'[s] <= seen'[s] /\ seen'[s] <= stops' /\ seen'[s] # acked'[s]
        BY <1>1, <1>2, <1>8, <1>10, <1>11, <2>3 DEF PETypes
    <3>2. pc' # "user" /\ spc'[s] = "read" /\ event_semaphore'[s] = 1 /\ seen'[s] = stops'
        BY Zenon, <1>1, <1>10, <1>11, <2>3
    <3>3. spc'[s] \notin {"out", "link"}
        BY Zenon, <3>2
    <3> QED
        BY Zenon, <1>1, <1>3, <2>1, <3>1, <3>2, <3>3 DEF SubInv
  <2> QED
      BY Zenon, <2>2, <2>3
<1>15. Counts'
    BY Zenon, <1>1, <1>3, <1>4 DEF EventInv, Counts
<1>16. TargetInv'
    BY Zenon, <1>1, <1>2, <1>9 DEF TargetInv, Released, NoSignal
<1> QED
    BY Zenon, <1>12, <1>13, <1>14, <1>15, <1>16 DEF EventInv

-----------------------------------------------------------------------------
(* The subscribers' steps.                                                 *)

\* Steps of a linked subscriber that stays linked, other than acknowledging.
LEMMA ListenMoves ==
    ASSUME EventInv, NEW s \in Subs, NEW p \in {"read", "reset", "ack"},
           s \in Linked, spc' = [spc EXCEPT ![s] = p],
           UNCHANGED <<sub_queue, next, nr_subs, nr_acks, seen, acked, pc, cursor, stops>>,
           event_semaphore' \in [Subs -> Nat],
           \A r \in Subs \ {s} : event_semaphore'[r] = event_semaphore[r],
           SubInv(s)'
    PROVE  /\ PETypes' /\ ListInv' /\ Counts' /\ (\A r \in Subs : SubInv(r)')
           /\ (Complete => Complete')
           /\ \A r \in Subs : spc'[r] = "signal" <=> r # s /\ spc[r] = "signal"
<1>1. PETypes
    BY Zenon DEF EventInv
<1>2. /\ spc' \in [Subs -> SubPoints] /\ spc'[s] = p
      /\ \A r \in Subs \ {s} : spc'[r] = spc[r]
    BY Zenon, <1>1 DEF PETypes, SubPoints
<1>3. spc[s] \notin {"out", "link", "closed"} /\ spc'[s] \notin {"out", "link", "closed", "signal"}
    BY Zenon, <1>2 DEF Linked
<1>4. Linked' = Linked /\ Counted' = Counted
    BY Zenon, <1>2, <1>3 DEF Linked, Counted
<1>5. Ackers' = Ackers
    BY Zenon, <1>4 DEF Ackers
<1>6. PETypes'
    BY Zenon, <1>1, <1>2, <1>4 DEF PETypes
<1>7. ListInv'
    BY Zenon, <1>4, KeepLists DEF EventInv
<1>8. Counts'
    BY Zenon, <1>4, <1>5 DEF EventInv, Counts
<1>9. ASSUME NEW r \in Subs PROVE SubInv(r)'
  <2>1. SubInv(r)
      BY Zenon DEF EventInv
  <2>2. CASE r # s
      BY Zenon, <1>2, <1>4, <2>1, <2>2 DEF SubInv
  <2> QED
      BY Zenon, <2>2
<1>10. Complete => Complete'
    BY Zenon, <1>4 DEF Complete
<1>11. \A r \in Subs : spc'[r] = "signal" <=> r # s /\ spc[r] = "signal"
    BY Zenon, <1>2, <1>3
<1> QED
    BY Zenon, <1>6, <1>7, <1>8, <1>9, <1>10, <1>11

\* Nothing is signalled and what was complete stays so.
LEMMA TargetStays ==
    ASSUME TargetInv, UNCHANGED <<status, parked, cond, pc, cursor>>, Complete => Complete',
           \A r \in Subs : spc'[r] = "signal" => spc[r] = "signal"
    PROVE  TargetInv'
<1>1. NoSignal => NoSignal'
    BY Zenon DEF NoSignal
<1>2. Released' <=> Released
    BY Zenon DEF Released
<1> QED
    BY Zenon, <1>1, <1>2 DEF TargetInv

\* Only somebody who has not acknowledged its event gets past the semaphore.
LEMMA ReadStep ==
    ASSUME EventInv, NEW s \in Subs, Read(s)
    PROVE  EventInv'
<1>1. /\ spc[s] = "read" /\ event_semaphore[s] > 0
      /\ event_semaphore' = [event_semaphore EXCEPT ![s] = event_semaphore[s] - 1]
      /\ spc' = [spc EXCEPT ![s] = "reset"]
      /\ UNCHANGED <<status, parked, cond, pc, cursor, stops>>
      /\ UNCHANGED <<sub_queue, next, nr_subs, nr_acks, seen, acked>>
    BY Zenon DEF Read, SubGoto, targetVars
<1>2. PETypes /\ SubInv(s) /\ TargetInv
    BY Zenon DEF EventInv
<1>3. s \in Linked /\ spc[s] \notin {"out", "link", "closed"}
    BY Zenon, <1>1 DEF Linked
<1>4. seen[s] # acked[s] /\ event_semaphore[s] = 1
  <2>1. event_semaphore[s] # 0
      BY <1>1, <1>2 DEF PETypes
  <2>2. spc[s] \notin {"reset", "ack"}
      BY Zenon, <1>1
  <2> QED
      BY Zenon, <1>2, <1>3, <2>1, <2>2 DEF SubInv
<1>5. /\ event_semaphore' \in [Subs -> Nat] /\ event_semaphore'[s] = 0
      /\ \A r \in Subs \ {s} : event_semaphore'[r] = event_semaphore[r]
      /\ spc'[s] = "reset"
    BY <1>1, <1>2, <1>4 DEF PETypes
<1>6. SubInv(s)'
  <2>1. spc'[s] \in {"reset", "ack"} /\ spc'[s] \notin {"out", "link"}
      BY Zenon, <1>5
  <2> QED
      BY Zenon, <1>1, <1>2, <1>3, <1>4, <1>5, <2>1 DEF SubInv
<1>7. /\ PETypes' /\ ListInv' /\ Counts' /\ (\A r \in Subs : SubInv(r)')
      /\ (Complete => Complete')
      /\ \A r \in Subs : spc'[r] = "signal" <=> r # s /\ spc[r] = "signal"
    BY Zenon, <1>1, <1>3, <1>5, <1>6, ListenMoves
<1>8. TargetInv'
    BY Zenon, <1>1, <1>2, <1>7, TargetStays
<1> QED
    BY Zenon, <1>7, <1>8 DEF EventInv

\* The store of zero throws no event away: the one that was posted has been
\* taken, and there is no other before it is acknowledged.
LEMMA ReadResetStep ==
    ASSUME EventInv, NEW s \in Subs, ReadReset(s)
    PROVE  EventInv'
<1>1. /\ spc[s] = "reset"
      /\ event_semaphore' = [event_semaphore EXCEPT ![s] = 0]
      /\ spc' = [spc EXCEPT ![s] = "ack"]
      /\ UNCHANGED <<status, parked, cond, pc, cursor, stops>>
      /\ UNCHANGED <<sub_queue, next, nr_subs, nr_acks, seen, acked>>
    BY Zenon DEF ReadReset, SubGoto, targetVars
<1>2. PETypes /\ SubInv(s) /\ TargetInv
    BY Zenon DEF EventInv
<1>3. s \in Linked /\ spc[s] \notin {"out", "link", "closed"}
    BY Zenon, <1>1 DEF Linked
<1>4. seen[s] # acked[s]
  <2>1. spc[s] \notin {"read", "signal"}
      BY Zenon, <1>1
  <2> QED
      BY Zenon, <1>2, <1>3, <2>1 DEF SubInv
<1>5. /\ event_semaphore' \in [Subs -> Nat] /\ event_semaphore'[s] = 0
      /\ \A r \in Subs \ {s} : event_semaphore'[r] = event_semaphore[r]
      /\ spc'[s] = "ack"
    BY Zenon, <1>1, <1>2 DEF PETypes
<1>6. SubInv(s)'
  <2>1. spc'[s] \in {"reset", "ack"} /\ spc'[s] \notin {"out", "link"}
      BY Zenon, <1>5
  <2> QED
      BY Zenon, <1>1, <1>2, <1>3, <1>4, <1>5, <2>1 DEF SubInv
<1>7. /\ PETypes' /\ ListInv' /\ Counts' /\ (\A r \in Subs : SubInv(r)')
      /\ (Complete => Complete')
      /\ \A r \in Subs : spc'[r] = "signal" <=> r # s /\ spc[r] = "signal"
    BY Zenon, <1>1, <1>3, <1>5, <1>6, ListenMoves
<1>8. TargetInv'
    BY Zenon, <1>1, <1>2, <1>7, TargetStays
<1> QED
    BY Zenon, <1>7, <1>8 DEF EventInv

\* The target is woken by the one signal of this stop, when all is
\* acknowledged.
LEMMA CondSignalStep ==
    ASSUME EventInv, NEW s \in Subs, CondSignal(s)
    PROVE  EventInv'
<1>1. /\ spc[s] = "signal" /\ spc' = [spc EXCEPT ![s] = "read"]
      /\ IF cond # <<>> THEN thread_wake_up(Head(cond)) /\ cond' = Tail(cond)
                        ELSE UNCHANGED <<status, parked, cond>>
      /\ UNCHANGED <<pc, cursor, stops>>
      /\ UNCHANGED <<sub_queue, next, nr_subs, nr_acks, event_semaphore, seen, acked>>
    BY Zenon DEF CondSignal, SubGoto
<1>2. PETypes /\ SubInv(s) /\ TargetInv /\ Complete
    BY Zenon, <1>1 DEF EventInv, TargetInv
<1>3. s \in Linked /\ seen[s] = acked[s]
    BY Zenon, <1>1, <1>2 DEF Complete, Linked
<1>4. spc'[s] = "read" /\ spc'[s] \notin {"out", "link"} /\ event_semaphore' \in [Subs -> Nat]
    BY Zenon, <1>1, <1>2 DEF PETypes
<1>5. SubInv(s)'
    BY Zenon, <1>1, <1>2, <1>3, <1>4 DEF SubInv
<1>6. /\ PETypes' /\ ListInv' /\ Counts' /\ (\A r \in Subs : SubInv(r)')
      /\ Complete'
      /\ \A r \in Subs : spc'[r] = "signal" <=> r # s /\ spc[r] = "signal"
    BY Zenon, <1>1, <1>2, <1>3, <1>4, <1>5, ListenMoves
<1>7. NoSignal'
    BY Zenon, <1>1, <1>2, <1>6 DEF TargetInv, NoSignal
<1>8. TargetInv'
  <2>1. CASE cond = <<>>
      BY Zenon, <1>1, <1>2, <1>6, <2>1, TargetStays
  <2>2. CASE cond # <<>>
    <3>1. cond = <<Target>> /\ pc \in {"yield", "relock"}
        BY Zenon, <1>2, <2>2 DEF TargetInv
    <3>2. Head(cond) = Target /\ cond' = <<>>
        BY <1>1, <2>2, <3>1
    <3>3. /\ status' = [status EXCEPT ![Target] = "RUNNABLE"]
          /\ parked' = [parked EXCEPT ![Target] = FALSE]
        BY Zenon, <1>1, <2>2, <3>2 DEF thread_wake_up
    <3>4. /\ status' \in [{Target} -> Statuses] /\ status'[Target] = "RUNNABLE"
          /\ parked' \in [{Target} -> BOOLEAN] /\ ~parked'[Target]
        BY Zenon, <1>2, <3>3 DEF TargetInv, Statuses
    <3> QED
        BY Zenon, <1>1, <1>2, <1>6, <1>7, <3>1, <3>2, <3>4 DEF TargetInv, NoSignal
  <2> QED
      BY Zenon, <2>1, <2>2
<1> QED
    BY Zenon, <1>6, <1>8 DEF EventInv

\* The count of acknowledgements reaches that of subscribers when everybody
\* on the list has acknowledged this stop, and not before.
LEMMA AllAcked ==
    ASSUME PETypes, Counts, NEW A, A \subseteq Linked, Cardinality(A) = nr_subs
    PROVE  A = Linked
<1>1. Linked \subseteq Counted
    BY Zenon DEF Linked, Counted
<1>2. IsFiniteSet(Linked) /\ Cardinality(Linked) <= Cardinality(Counted)
    BY Zenon, <1>1, FS_Subset DEF Counts
<1>3. IsFiniteSet(A) /\ Cardinality(A) <= Cardinality(Linked)
    BY Zenon, <1>2, FS_Subset
<1>4. Cardinality(A) \in Nat /\ Cardinality(Linked) \in Nat /\ Cardinality(Counted) \in Nat
    BY Zenon, <1>2, <1>3, FS_CardinalityType DEF Counts
<1>5. Cardinality(Linked) = Cardinality(A)
    BY <1>2, <1>3, <1>4 DEF Counts, PETypes
<1> QED
    BY Zenon, <1>2, <1>5, FS_Subset

LEMMA AckStep ==
    ASSUME EventInv, NEW s \in Subs, Ack(s)
    PROVE  EventInv'
<1> DEFINE p == IF nr_acks' = nr_subs THEN "signal" ELSE "read"
<1>1. /\ spc[s] = "ack" /\ nr_acks' = nr_acks + 1
      /\ acked' = [acked EXCEPT ![s] = seen[s]]
      /\ spc' = [spc EXCEPT ![s] = p]
      /\ UNCHANGED <<status, parked, cond, pc, cursor, stops>>
      /\ UNCHANGED <<sub_queue, next, nr_subs, event_semaphore, seen>>
    BY Zenon DEF Ack, SubGoto, targetVars
<1>2. PETypes /\ SubInv(s) /\ TargetInv /\ Counts
    BY Zenon DEF EventInv
<1>3. s \in Linked /\ spc[s] \notin {"read", "signal"}
    BY Zenon, <1>1 DEF Linked
<1>4. seen[s] # acked[s] /\ seen[s] = stops /\ pc # "user" /\ event_semaphore[s] = 0
    BY Zenon, <1>2, <1>3 DEF SubInv
<1>5. ~Complete /\ NoSignal /\ ~Released
    BY Zenon, <1>2, <1>3, <1>4 DEF Complete, TargetInv, NoSignal
<1>6. p \in {"read", "signal"}
    BY Zenon
<1>7. /\ spc' \in [Subs -> SubPoints] /\ spc'[s] = p
      /\ \A r \in Subs \ {s} : spc'[r] = spc[r]
      /\ acked' \in [Subs -> Nat] /\ acked'[s] = stops
      /\ \A r \in Subs \ {s} : acked'[r] = acked[r]
      /\ nr_acks \in Nat /\ nr_acks' \in Nat
  <2> HIDE DEF p
  <2> QED
      BY <1>1, <1>2, <1>4, <1>6 DEF PETypes, SubPoints
<1>8. Linked' = Linked /\ Counted' = Counted
  <2>1. spc'[s] \notin {"out", "link", "closed"} /\ spc[s] \notin {"out", "link", "closed"}
      BY Zenon, <1>1, <1>6, <1>7
  <2> QED
      BY Zenon, <1>7, <2>1 DEF Linked, Counted
<1>9. Ackers' = Ackers \cup {s} /\ s \notin Ackers /\ Ackers \subseteq Linked
  <2>1. s \notin Ackers
      BY Zenon, <1>4 DEF Ackers
  <2>2. \A r : r \in Linked => r \in Subs
      BY Zenon DEF Linked
  <2>3. \A r : r \in Ackers' <=> r \in Ackers \/ r = s
      BY Zenon, <1>1, <1>3, <1>7, <1>8, <2>2 DEF Ackers
  <2> QED
      BY Zenon, <2>1, <2>3 DEF Ackers
<1>10. Cardinality(Ackers') = nr_acks'
  <2>1. IsFiniteSet(Ackers)
    <3>1. Ackers \subseteq Counted
        BY Zenon, <1>9 DEF Linked, Counted
    <3> QED
        BY Zenon, <1>2, <3>1, FS_Subset DEF Counts
  <2>2. Cardinality(Ackers \cup {s}) = Cardinality(Ackers) + 1
      BY Zenon, <1>9, <2>1, FS_AddElement
  <2> QED
      BY Zenon, <1>1, <1>2, <1>4, <1>9, <2>2 DEF Counts
<1> HIDE DEF p
<1>11. PETypes'
    BY Zenon, <1>1, <1>2, <1>7, <1>8 DEF PETypes
<1>12. ListInv'
    BY Zenon, <1>1, <1>8, KeepLists DEF EventInv
<1>13. ASSUME NEW r \in Subs PROVE SubInv(r)'
  <2>1. SubInv(r)
      BY Zenon DEF EventInv
  <2>2. CASE r # s
      BY Zenon, <1>1, <1>7, <1>8, <2>1, <2>2 DEF SubInv
  <2>3. CASE r = s
    <3>1. acked'[r] <= seen'[r] /\ seen'[r] <= stops' /\ acked'[r] = seen'[r]
        BY <1>1, <1>2, <1>4, <1>7, <2>3 DEF PETypes
    <3>2. acked'[r] <= stops' /\ stops' <= acked'[r] + 1
        BY <1>1, <1>2, <1>7, <2>3 DEF PETypes
    <3>3. spc'[r] \notin {"out", "link"} /\ spc'[r] \in {"read", "signal"}
        BY Zenon, <1>6, <1>7, <2>3
    <3> QED
        BY Zenon, <1>1, <1>4, <2>3, <3>1, <3>2, <3>3 DEF SubInv
  <2> QED
      BY Zenon, <2>2, <2>3
<1>14. Counts'
    BY Zenon, <1>1, <1>2, <1>4, <1>8, <1>10 DEF Counts
<1>15. TargetInv'
  <2>1. ASSUME nr_acks' = nr_subs
        PROVE  Complete' /\ (pc = "notify" => cursor = Nobody)
    <3>1. Ackers' = Linked
      <4>1. Ackers' \subseteq Linked
          BY Zenon, <1>3, <1>9
      <4> QED
          BY Zenon, <1>2, <1>10, <2>1, <4>1, AllAcked
    <3>2. ASSUME NEW r \in Linked PROVE acked'[r] = stops /\ seen'[r] = stops
      <4>1. acked'[r] = stops /\ r \in Subs
          BY Zenon, <1>1, <3>1 DEF Ackers, Linked
      <4>2. acked'[r] <= seen'[r] /\ seen'[r] <= stops
          BY Zenon, <1>1, <1>13, <4>1 DEF SubInv
      <4> QED
          BY <1>11, <1>2, <4>1, <4>2 DEF PETypes
    <3>3. Complete'
        BY Zenon, <1>1, <1>8, <3>2 DEF Complete
    <3>4. ASSUME pc = "notify", cursor # Nobody PROVE FALSE
      <4>1. PICK L \in Seq(Subs) : IsList(L) /\ WalkAt(L)
          BY Zenon DEF EventInv, ListInv
      <4>2. PICK k \in DOMAIN L : \A i \in k .. Len(L) : seen[L[i]] # stops
          BY Zenon, <3>4, <4>1 DEF WalkAt
      <4>3. k \in k .. Len(L)
          BY <4>2
      <4>4. L[k] \in Linked
          BY Zenon, <4>1, <4>2 DEF IsList, Members
      <4> QED
          BY Zenon, <1>1, <3>2, <4>2, <4>3, <4>4
    <3> QED
        BY Zenon, <3>3, <3>4
  <2>2. ASSUME NEW r \in Subs, spc'[r] = "signal" PROVE r = s /\ nr_acks' = nr_subs
    <3>1. r = s
        BY Zenon, <1>5, <1>7, <2>2 DEF NoSignal
    <3> QED
        BY Zenon, <1>7, <2>2, <3>1 DEF p
  <2>3. ~Released' /\ pc' # "user"
      BY Zenon, <1>1, <1>4, <1>5 DEF Released
  <2> QED
      BY Zenon, <1>1, <1>2, <2>1, <2>2, <2>3 DEF TargetInv
<1> QED
    BY Zenon, <1>11, <1>12, <1>13, <1>14, <1>15 DEF EventInv

\* Somebody is counted before it is linked.
LEMMA AttachCountStep ==
    ASSUME EventInv, NEW s \in Subs, AttachCount(s)
    PROVE  EventInv'
<1>1. /\ spc[s] = "out" /\ nr_subs' = nr_subs + 1
      /\ spc' = [spc EXCEPT ![s] = "link"]
      /\ UNCHANGED <<status, parked, cond, pc, cursor, stops>>
      /\ UNCHANGED <<sub_queue, next, nr_acks, event_semaphore, seen, acked>>
    BY Zenon DEF AttachCount, SubGoto, targetVars
<1>2. PETypes /\ TargetInv /\ Counts
    BY Zenon DEF EventInv
<1>3. /\ spc' \in [Subs -> SubPoints] /\ spc'[s] = "link"
      /\ \A r \in Subs \ {s} : spc'[r] = spc[r]
      /\ nr_subs' \in Nat
    BY <1>1, <1>2 DEF PETypes, SubPoints
<1>4. spc'[s] \notin {"out", "closed"} /\ spc[s] \notin {"link", "signal"} /\ spc'[s] # "signal"
    BY Zenon, <1>1, <1>3
<1>5. Linked' = Linked
    BY Zenon, <1>1, <1>3 DEF Linked
<1>6. Counted' = Counted \cup {s} /\ s \notin Counted
  <2>1. \A r : r \in Counted' <=> r \in Counted \/ r = s
      BY Zenon, <1>3, <1>4 DEF Counted
  <2> QED
      BY Zenon, <1>1, <2>1 DEF Counted
<1>7. Ackers' = Ackers
    BY Zenon, <1>1, <1>5 DEF Ackers
<1>8. PETypes'
    BY Zenon, <1>1, <1>2, <1>3, <1>5 DEF PETypes
<1>9. ListInv'
    BY Zenon, <1>1, <1>5, KeepLists DEF EventInv
<1>10. ASSUME NEW r \in Subs PROVE SubInv(r)'
  <2>1. SubInv(r)
      BY Zenon DEF EventInv
  <2>2. CASE r # s
      BY Zenon, <1>1, <1>3, <1>5, <2>1, <2>2 DEF SubInv
  <2>3. CASE r = s
    <3>1. s \notin Linked
        BY Zenon, <1>1 DEF Linked
    <3>2. spc[r] \in {"out", "link"}
        BY Zenon, <1>1, <2>3
    <3> QED
        BY Zenon, <1>1, <1>5, <2>1, <2>3, <3>1, <3>2 DEF SubInv
  <2> QED
      BY Zenon, <2>2, <2>3
<1>11. Counts'
  <2>1. /\ IsFiniteSet(Counted') /\ Cardinality(Counted') = Cardinality(Counted) + 1
        /\ Cardinality(Counted) \in Nat
      BY Zenon, <1>2, <1>6, FS_AddElement, FS_CardinalityType DEF Counts
  <2>2. Cardinality(Counted') <= nr_subs'
      BY <1>1, <1>2, <2>1 DEF Counts, PETypes
  <2> QED
      BY Zenon, <1>1, <1>2, <1>7, <2>1, <2>2 DEF Counts
<1>12. TargetInv'
  <2>1. Complete => Complete'
      BY Zenon, <1>1, <1>5 DEF Complete
  <2> QED
      BY Zenon, <1>1, <1>2, <1>3, <1>4, <2>1, TargetStays
<1> QED
    BY Zenon, <1>8, <1>9, <1>10, <1>11, <1>12 DEF EventInv

\* The head and the last node of the list.
LEMMA ListEnds ==
    ASSUME NEW L \in Seq(Subs), IsList(L)
    PROVE  /\ sub_queue = Nobody <=> L = <<>>
           /\ L # <<>> => Last = L[Len(L)]
<1>1. /\ Len(L) \in Nat /\ DOMAIN L = 1 .. Len(L) /\ \A i \in 1 .. Len(L) : L[i] \in Subs
      /\ L # <<>> => Len(L) > 0
    OBVIOUS
<1>2. Nobody \notin Subs
    BY Zenon, ProcEventAssumption
<1>3. ASSUME L # <<>> PROVE sub_queue # Nobody
  <2>1. L[1] \in Subs
      BY <1>1, <1>3
  <2> QED
      BY Zenon, <1>2, <1>3, <2>1 DEF IsList
<1>4. ASSUME L # <<>> PROVE Last = L[Len(L)]
  <2> DEFINE P(r) == spc[r] \notin {"out", "link", "closed"} /\ next[r] = Nobody
  <2>1. Len(L) \in DOMAIN L
      BY <1>1, <1>4
  <2>2. \A i \in DOMAIN L : L[i] \in Subs /\ spc[L[i]] \notin {"out", "link", "closed"}
      BY Zenon DEF IsList, Members, Linked
  <2>3. L[Len(L)] \in Subs /\ P(L[Len(L)])
      BY Zenon, <2>1, <2>2 DEF IsList
  <2>4. ASSUME NEW r \in Subs, P(r) PROVE r = L[Len(L)]
    <3>1. PICK i \in DOMAIN L : r = L[i]
        BY Zenon, <2>4 DEF IsList, Members, Linked
    <3>2. CASE i = Len(L)
        BY Zenon, <3>1, <3>2
    <3>3. CASE i # Len(L)
      <4>1. L[i + 1] \in Subs
          BY <1>1, <3>3
      <4> QED
          BY Zenon, <1>2, <2>4, <3>1, <3>3, <4>1 DEF IsList
    <3> QED
        BY Zenon, <3>2, <3>3
  <2>5. Last = CHOOSE r \in Subs : P(r)
      BY Zenon DEF Last
  <2> HIDE DEF P
  <2> QED
      BY Zenon, <2>3, <2>4, <2>5
<1> QED
    BY Zenon, <1>3, <1>4 DEF IsList

\* A node is linked behind the last one, which the walk has yet to reach or
\* is past.
LEMMA LinkList ==
    ASSUME EventInv, NEW s \in Subs, spc[s] = "link",
           IF sub_queue = Nobody THEN sub_queue' = s /\ UNCHANGED next
           ELSE next' = [next EXCEPT ![Last] = s] /\ UNCHANGED sub_queue,
           Linked' = Linked \cup {s}, UNCHANGED <<seen, stops, pc, cursor>>
    PROVE  ListInv' /\ next' \in [Subs -> Subs \cup {Nobody}]
           /\ \A r \in Subs \ Linked : next'[r] = next[r]
<1>1. PICK L \in Seq(Subs) : IsList(L) /\ WalkAt(L)
    BY Zenon DEF EventInv, ListInv
<1>2. PETypes /\ SubInv(s) /\ Counts
    BY Zenon DEF EventInv
<1>3. s \notin Linked /\ s \notin Members(L)
    BY Zenon, <1>1 DEF Linked, IsList
<1> DEFINE r == Append(L, s)
           n == Len(L)
<1>4. r \in Seq(Subs) /\ Distinct(r) /\ Members(r) = Linked'
  <2>1. r = list_add_tail(L, s) /\ Distinct(L) /\ Members(L) = Linked
      BY Zenon, <1>1 DEF IsList, list_add_tail
  <2> HIDE DEF r
  <2> QED
      BY Zenon, <1>3, <2>1, AddTail
<1>5. /\ n \in Nat /\ DOMAIN L = 1 .. n /\ DOMAIN r = 1 .. (n + 1) /\ Len(r) = n + 1
      /\ \A i \in 1 .. n : r[i] = L[i] /\ L[i] \in Subs
      /\ r[n + 1] = s /\ r # <<>> /\ (L # <<>> => n > 0)
    OBVIOUS
<1> HIDE DEF r
<1>6. next[s] = Nobody /\ seen[s] = 0
  <2>1. spc[s] \in {"out", "link"}
      BY Zenon
  <2> QED
      BY Zenon, <1>2, <2>1 DEF SubInv
<1>7. CASE L = <<>>
  <2>1. sub_queue' = s /\ next' = next
      BY Zenon, <1>1, <1>7, ListEnds
  <2>2. n = 0
      BY Zenon, <1>7
  <2>3. sub_queue' = r[1] /\ \A i \in DOMAIN r : i = Len(r) /\ r[i] = s
      BY <1>5, <2>1, <2>2
  <2>4. IsList(r)'
      BY Zenon, <1>4, <1>5, <1>6, <2>1, <2>3 DEF IsList
  <2>5. WalkAt(r)'
    <3>1. DOMAIN L = {}
        BY <1>5, <2>2
    <3> QED
        BY Zenon, <1>1, <3>1 DEF WalkAt
  <2> QED
      BY Zenon, <1>2, <1>4, <2>1, <2>4, <2>5 DEF PETypes, ListInv
<1>8. CASE L # <<>>
  <2> DEFINE l == L[n]
  <2>1. sub_queue' = sub_queue /\ next' = [next EXCEPT ![l] = s]
      BY Zenon, <1>1, <1>8, ListEnds
  <2>2. n \in DOMAIN L /\ l \in Subs /\ n > 0
      BY <1>5, <1>8
  <2>3. l \in Linked
      BY Zenon, <1>1, <2>2 DEF IsList, Members
  <2> HIDE DEF l
  <2>4. /\ next' \in [Subs -> Subs \cup {Nobody}] /\ next'[l] = s
        /\ \A q \in Subs \ {l} : next'[q] = next[q]
      BY Zenon, <1>2, <2>1, <2>2 DEF PETypes
  <2>5. sub_queue' = r[1]
    <3>1. r[1] = L[1]
        BY <1>5, <2>2
    <3> QED
        BY Zenon, <1>1, <1>8, <2>1, <3>1 DEF IsList
  <2>6. ASSUME NEW i \in DOMAIN r
        PROVE  next'[r[i]] = IF i = Len(r) THEN Nobody ELSE r[i + 1]
    <3>1. CASE i = n + 1
      <4>1. s # l
          BY Zenon, <1>3, <2>3
      <4> QED
          BY Zenon, <1>5, <1>6, <2>4, <3>1, <4>1
    <3>2. CASE i = n
      <4>1. n \in 1 .. n /\ n # n + 1
        <5>1. n \in Nat /\ n > 0
            BY Zenon, <1>5, <2>2
        <5> HIDE DEF n
        <5> QED
            BY <5>1
      <4>2. r[i] = l /\ r[i + 1] = s /\ i # Len(r)
          BY Zenon, <1>5, <3>2, <4>1 DEF l
      <4> QED
          BY Zenon, <2>4, <4>2
    <3>3. CASE i # n + 1 /\ i # n
      <4>1. i \in DOMAIN L /\ i # Len(r) /\ i # n /\ r[i] = L[i] /\ r[i + 1] = L[i + 1] /\ L[i] \in Subs
          BY <1>5, <3>3
      <4>2. L[i] # l
          BY Zenon, <1>1, <2>2, <4>1 DEF IsList, Distinct, l
      <4>3. next[L[i]] = L[i + 1]
          BY Zenon, <1>1, <4>1 DEF IsList
      <4> QED
          BY Zenon, <2>4, <4>1, <4>2, <4>3
    <3> QED
        BY Zenon, <3>1, <3>2, <3>3
  <2>7. IsList(r)'
      BY Zenon, <1>4, <1>5, <2>5, <2>6 DEF IsList
  <2>8. WalkAt(r)'
    <3> SUFFICES ASSUME pc = "notify", cursor # Nobody
                 PROVE  \E k \in DOMAIN r : cursor = r[k] /\ \A i \in k .. Len(r) : seen[r[i]] # stops
        BY Zenon DEF WalkAt
    <3>1. PICK k \in DOMAIN L : cursor = L[k] /\ \A i \in k .. n : seen[L[i]] # stops
        BY Zenon, <1>1 DEF WalkAt
    <3>2. k \in DOMAIN r /\ r[k] = L[k]
        BY <1>5
    <3>3. seen[s] # stops
        BY <1>2, <1>6 DEF Counts, PETypes
    <3>4. ASSUME NEW i \in k .. Len(r) PROVE seen[r[i]] # stops
      <4>1. CASE i = n + 1
          BY Zenon, <1>5, <3>3, <4>1
      <4>2. CASE i # n + 1
        <5>1. i \in k .. n /\ r[i] = L[i]
            BY <1>5, <4>2
        <5> QED
            BY Zenon, <3>1, <5>1
      <4> QED
          BY Zenon, <4>1, <4>2
    <3> QED
        BY Zenon, <3>1, <3>2, <3>4
  <2> QED
      BY Zenon, <1>4, <2>3, <2>4, <2>7, <2>8 DEF ListInv
<1> QED
    BY Zenon, <1>7, <1>8

\* Somebody who is linked during a stop is not told of it, and the target
\* does not wait for those it has not told.
LEMMA AttachLinkStep ==
    ASSUME EventInv, NEW s \in Subs, AttachLink(s)
    PROVE  EventInv'
<1>1. /\ spc[s] = "link" /\ spc' = [spc EXCEPT ![s] = "read"]
      /\ IF sub_queue = Nobody THEN sub_queue' = s /\ UNCHANGED next
         ELSE next' = [next EXCEPT ![Last] = s] /\ UNCHANGED sub_queue
      /\ UNCHANGED <<status, parked, cond, pc, cursor, stops>>
      /\ UNCHANGED <<nr_subs, nr_acks, event_semaphore, seen, acked>>
    BY Zenon DEF AttachLink, SubGoto, targetVars
<1>2. PETypes /\ TargetInv /\ Counts /\ SubInv(s)
    BY Zenon DEF EventInv
<1>3. /\ spc' \in [Subs -> SubPoints] /\ spc'[s] = "read"
      /\ \A r \in Subs \ {s} : spc'[r] = spc[r]
    BY Zenon, <1>1, <1>2 DEF PETypes, SubPoints
<1>4. /\ spc'[s] \notin {"out", "link", "closed", "signal"} /\ spc[s] \notin {"out", "closed"}
      /\ spc[s] \in {"out", "link"}
    BY Zenon, <1>1, <1>3
<1>5. Linked' = Linked \cup {s} /\ s \notin Linked
  <2>1. \A r : r \in Linked' <=> r \in Linked \/ r = s
      BY Zenon, <1>3, <1>4 DEF Linked
  <2> QED
      BY Zenon, <1>1, <2>1 DEF Linked
<1>6. Counted' = Counted
    BY Zenon, <1>3, <1>4 DEF Counted
<1>7. /\ seen[s] = 0 /\ acked[s] = 0 /\ event_semaphore[s] = 0
      /\ s \notin Members(Initially) /\ (pc # "user" => stops # 0)
  <2>1. seen[s] = 0 /\ event_semaphore[s] = 0 /\ acked[s] <= seen[s]
      BY Zenon, <1>2, <1>4 DEF SubInv
  <2>2. s \notin Members(Initially)
      BY Zenon, <1>2, <1>4, <1>5 DEF PETypes
  <2>3. acked[s] \in Nat /\ stops \in Nat /\ (pc # "user" => stops > 0)
      BY Zenon, <1>2 DEF PETypes, Counts
  <2> QED
      BY <2>1, <2>2, <2>3
<1>8. pc # "user" => Ackers' = Ackers
    BY Zenon, <1>1, <1>5, <1>7 DEF Ackers
<1>9. /\ ListInv' /\ next' \in [Subs -> Subs \cup {Nobody}]
      /\ \A r \in Subs \ Linked : next'[r] = next[r]
    BY Zenon, <1>1, <1>5, LinkList
<1>10. PETypes'
    BY Zenon, <1>1, <1>2, <1>3, <1>5, <1>9 DEF PETypes
<1>11. ASSUME NEW r \in Subs PROVE SubInv(r)'
  <2>1. SubInv(r)
      BY Zenon DEF EventInv
  <2>2. CASE r # s
    <3>1. r \in Linked' <=> r \in Linked
        BY Zenon, <1>5, <2>2
    <3>2. spc[r] \in {"out", "link"} => next'[r] = next[r]
        BY Zenon, <1>9 DEF Linked
    <3> QED
        BY Zenon, <1>1, <1>3, <2>1, <2>2, <3>1, <3>2 DEF SubInv
  <2>3. CASE r = s
      BY Zenon, <1>1, <1>3, <1>4, <1>7, <2>1, <2>3 DEF SubInv
  <2> QED
      BY Zenon, <2>2, <2>3
<1>12. Counts'
    BY Zenon, <1>1, <1>2, <1>6, <1>8 DEF Counts
<1>13. TargetInv'
  <2>1. Complete => Complete'
      BY Zenon, <1>1, <1>5, <1>7 DEF Complete
  <2> QED
      BY Zenon, <1>1, <1>2, <1>3, <1>4, <2>1, TargetStays
<1> QED
    BY Zenon, <1>9, <1>10, <1>11, <1>12, <1>13 DEF EventInv

\* The first of the list is unlinked.
LEMMA UnlinkHead ==
    ASSUME NEW L \in Seq(Subs), IsList(L), L # <<>>, sub_queue' = next[L[1]], UNCHANGED next,
           Linked' = Linked \ {L[1]}
    PROVE  IsList(Tail(L))'
<1> DEFINE r == Tail(L)
           n == Len(L)
<1>1. /\ n \in Nat /\ n > 0 /\ DOMAIN L = 1 .. n /\ Head(L) = L[1] /\ 1 \in DOMAIN L
      /\ r \in Seq(Subs) /\ Len(r) = n - 1 /\ DOMAIN r = 1 .. (n - 1)
      /\ \A i \in 1 .. (n - 1) : r[i] = L[i + 1]
      /\ r = <<>> <=> n = 1
  <2>1. r = <<>> <=> n = 1
      BY Zenon, LastOne
  <2> QED
      BY <2>1
<1>2. Distinct(r) /\ Members(r) = Linked'
    BY Zenon, <1>1, PopHead DEF IsList
<1> HIDE DEF r
<1>3. sub_queue' = IF r = <<>> THEN Nobody ELSE r[1]
  <2>1. next[L[1]] = IF 1 = n THEN Nobody ELSE L[1 + 1]
      BY Zenon, <1>1 DEF IsList
  <2> QED
      BY <1>1, <2>1
<1>4. ASSUME NEW i \in DOMAIN r PROVE next'[r[i]] = IF i = Len(r) THEN Nobody ELSE r[i + 1]
  <2>1. i + 1 \in DOMAIN L /\ r[i] = L[i + 1] /\ (i = Len(r) <=> i + 1 = n)
      BY <1>1
  <2>2. next[L[i + 1]] = IF i + 1 = n THEN Nobody ELSE L[(i + 1) + 1]
      BY Zenon, <2>1 DEF IsList
  <2>3. i # Len(r) => L[(i + 1) + 1] = r[i + 1]
      BY <1>1
  <2> QED
      BY Zenon, <2>1, <2>2, <2>3
<1>5. IsList(r)'
    BY Zenon, <1>1, <1>2, <1>3, <1>4 DEF IsList
<1> QED
    BY Zenon, <1>5 DEF r

\* Another one is: the node before it is linked to the one behind it.
LEMMA UnlinkOther ==
    ASSUME NEW L \in Seq(Subs), IsList(L), NEW s \in Linked, sub_queue # s, UNCHANGED sub_queue,
           next' = [r \in Subs |-> IF next[r] = s /\ spc[r] # "closed" THEN next[s] ELSE next[r]],
           Linked' = Linked \ {s}
    PROVE  IsList(list_remove(L, s))'
<1> DEFINE r == list_remove(L, s)
           n == Len(L)
           p == Position(L, s)
<1>1. r \in Seq(Subs) /\ Distinct(r) /\ Members(r) = Linked'
    BY Zenon, Remove DEF IsList
<1>2. p \in DOMAIN L /\ L[p] = s
    BY Zenon DEF IsList, Members, Position
<1>3. n \in Nat /\ DOMAIN L = 1 .. n /\ \A i \in 1 .. n : L[i] \in Subs
    OBVIOUS
<1>4. DOMAIN r = 1 .. (n - 1) /\ \A i \in 1 .. (n - 1) : r[i] = IF i < p THEN L[i] ELSE L[i + 1]
    BY Zenon DEF list_remove
<1>5. \A i \in DOMAIN L : L[i] = s <=> i = p
    BY Zenon, <1>2 DEF IsList, Distinct
<1> HIDE DEF r, p, n
<1>6. L # <<>> /\ 1 \in DOMAIN L /\ p # 1 /\ p \in 2 .. n
  <2>1. L # <<>> /\ 1 \in DOMAIN L
      BY <1>2, <1>3 DEF n
  <2>2. p # 1
      BY Zenon, <1>5, <2>1 DEF IsList
  <2> QED
      BY <1>2, <1>3, <2>1, <2>2
<1>7. Len(r) = n - 1 /\ r # <<>>
    BY <1>1, <1>3, <1>4, <1>6
<1>8. sub_queue' = r[1]
  <2>1. r[1] = L[1]
      BY <1>3, <1>4, <1>6
  <2> QED
      BY Zenon, <1>6, <2>1 DEF IsList
<1>9. ASSUME NEW i \in DOMAIN L
      PROVE  /\ i = n => next[L[i]] = Nobody
             /\ i # n => next[L[i]] = L[i + 1]
             /\ next'[L[i]] = IF next[L[i]] = s THEN next[s] ELSE next[L[i]]
  <2>1. L[i] \in Subs /\ spc[L[i]] # "closed"
      BY Zenon DEF IsList, Members, Linked
  <2> QED
      BY Zenon, <2>1 DEF IsList, n
<1>10. Nobody # s
    BY Zenon, ProcEventAssumption DEF Linked
<1>11. ASSUME NEW i \in DOMAIN L, i # p, i + 1 # p
       PROVE  next'[L[i]] = IF i = n THEN Nobody ELSE L[i + 1]
  <2>1. i # n => i + 1 \in DOMAIN L
      BY <1>3
  <2>2. next[L[i]] # s
      BY Zenon, <1>5, <1>9, <1>10, <1>11, <2>1
  <2> QED
      BY Zenon, <1>9, <2>2
<1>12. ASSUME NEW i \in DOMAIN r PROVE next'[r[i]] = IF i = Len(r) THEN Nobody ELSE r[i + 1]
  <2>1. i \in Nat /\ i \in DOMAIN L /\ i + 1 \in DOMAIN L
      BY <1>3, <1>4
  <2>2. CASE i + 1 < p
    <3>1. /\ r[i] = L[i] /\ i # Len(r) /\ r[i + 1] = L[i + 1]
          /\ i # p /\ i + 1 # p /\ i # n
        BY <1>3, <1>4, <1>6, <1>7, <2>1, <2>2
    <3> QED
        BY Zenon, <1>11, <2>1, <3>1
  <2>3. CASE i + 1 = p
    <3>1. r[i] = L[i] /\ i # n
        BY <1>3, <1>4, <1>6, <2>1, <2>3
    <3>2. next'[L[i]] = next[s]
        BY Zenon, <1>2, <1>9, <2>1, <2>3, <3>1
    <3>3. next[s] = IF p = n THEN Nobody ELSE L[p + 1]
        BY Zenon, <1>2, <1>9
    <3>4. p = n <=> i = Len(r)
        BY <1>3, <1>7, <2>1, <2>3
    <3>5. i # Len(r) => r[i + 1] = L[p + 1]
        BY <1>3, <1>4, <1>6, <1>7, <2>1, <2>3
    <3> QED
        BY Zenon, <3>1, <3>2, <3>3, <3>4, <3>5
  <2>4. CASE i + 1 > p
    <3>1. p \in Nat /\ i + 1 # p /\ (i + 1) + 1 # p /\ ~(i < p) /\ ~(i + 1 < p)
        BY <1>6, <2>1, <2>4
    <3>2. i \in 1 .. (n - 1) /\ (i + 1 = n <=> i = Len(r))
          /\ (i # Len(r) => i + 1 \in 1 .. (n - 1))
        BY <1>3, <1>4, <1>7
    <3>3. /\ r[i] = L[i + 1]
          /\ i # Len(r) => r[i + 1] = L[(i + 1) + 1]
        BY Zenon, <1>4, <3>1, <3>2
    <3> QED
        BY Zenon, <1>11, <2>1, <3>1, <3>2, <3>3
  <2> QED
      BY <1>6, <2>1, <2>2, <2>3, <2>4
<1>13. IsList(r)'
    BY Zenon, <1>1, <1>7, <1>8, <1>12 DEF IsList
<1> QED
    BY Zenon, <1>13 DEF r

\* Closing between two stops takes somebody off the list who has acknowledged
\* everything, or counts one too many when it is the first.
LEMMA CloseStep ==
    ASSUME EventInv, NEW s \in Subs, Close(s), pc = "user"
    PROVE  EventInv'
<1>1. /\ spc[s] = "read" /\ s \in Closers /\ spc' = [spc EXCEPT ![s] = "closed"]
      /\ IF sub_queue = s
         THEN sub_queue' = next[s] /\ UNCHANGED <<next, nr_subs>>
         ELSE /\ next' = [r \in Subs |-> IF next[r] = s /\ spc[r] # "closed" THEN next[s] ELSE next[r]]
              /\ nr_subs' = nr_subs - 1
              /\ UNCHANGED sub_queue
      /\ UNCHANGED <<status, parked, cond, pc, cursor, stops>>
      /\ UNCHANGED <<nr_acks, event_semaphore, seen, acked>>
    BY Zenon DEF Close, SubGoto, targetVars
<1>2. PETypes /\ TargetInv /\ Counts /\ SubInv(s)
    BY Zenon DEF EventInv
<1>3. /\ spc' \in [Subs -> SubPoints] /\ spc'[s] = "closed"
      /\ \A r \in Subs \ {s} : spc'[r] = spc[r]
    BY Zenon, <1>1, <1>2 DEF PETypes, SubPoints
<1>4. spc[s] \notin {"out", "link", "closed"} /\ spc'[s] \notin {"out", "link", "signal"}
    BY Zenon, <1>1, <1>3
<1>5. Linked' = Linked \ {s} /\ s \in Linked
  <2>1. \A r : r \in Linked' <=> r \in Linked /\ r # s
      BY Zenon, <1>3, <1>4 DEF Linked
  <2>2. s \in Linked
      BY Zenon, <1>4 DEF Linked
  <2> QED
      BY Zenon, <2>1, <2>2
<1>6. Counted' = Counted \ {s} /\ s \in Counted
  <2>1. \A r : r \in Counted' <=> r \in Counted /\ r # s
      BY Zenon, <1>3, <1>4 DEF Counted
  <2>2. s \in Counted
      BY Zenon, <1>4 DEF Counted
  <2> QED
      BY Zenon, <2>1, <2>2
<1>7. ListInv'
  <2>1. PICK L \in Seq(Subs) : IsList(L) /\ WalkAt(L)
      BY Zenon DEF EventInv, ListInv
  <2>2. Members(L) # {} /\ L # <<>>
    <3>1. Members(L) # {}
        BY Zenon, <1>5, <2>1 DEF IsList
    <3>2. L = <<>> => Members(L) = {}
        BY DEF Members
    <3> QED
        BY Zenon, <3>1, <3>2
  <2>3. CASE sub_queue = s
    <3>1. s = L[1]
        BY Zenon, <2>1, <2>2, <2>3 DEF IsList
    <3>2. IsList(Tail(L))'
        BY Zenon, <1>1, <1>5, <2>1, <2>2, <2>3, <3>1, UnlinkHead
    <3>3. Tail(L) \in Seq(Subs)
        BY <2>2
    <3> QED
        BY Zenon, <1>1, <3>2, <3>3 DEF ListInv, WalkAt
  <2>4. CASE sub_queue # s
    <3>1. IsList(list_remove(L, s))'
        BY Zenon, <1>1, <1>5, <2>1, <2>4, UnlinkOther
    <3>2. list_remove(L, s) \in Seq(Subs)
        BY Zenon, <3>1 DEF IsList
    <3> QED
        BY Zenon, <1>1, <3>1, <3>2 DEF ListInv, WalkAt
  <2> QED
      BY Zenon, <2>3, <2>4
<1>8. /\ next' \in [Subs -> Subs \cup {Nobody}]
      /\ \A r \in Subs : next[r] = Nobody => next'[r] = Nobody
  <2>1. CASE sub_queue = s
      BY Zenon, <1>1, <1>2, <2>1 DEF PETypes
  <2>2. CASE sub_queue # s
    <3>1. s # Nobody /\ next[s] \in Subs \cup {Nobody}
        BY Zenon, <1>2, ProcEventAssumption DEF PETypes
    <3> QED
        BY Zenon, <1>1, <1>2, <2>2, <3>1 DEF PETypes
  <2> QED
      BY Zenon, <2>1, <2>2
<1>9. /\ nr_subs' \in Nat /\ IsFiniteSet(Counted') /\ Cardinality(Counted') <= nr_subs'
  <2>1. /\ IsFiniteSet(Counted') /\ Cardinality(Counted') = Cardinality(Counted) - 1
        /\ Cardinality(Counted') \in Nat /\ Cardinality(Counted) \in Nat
      BY Zenon, <1>2, <1>6, FS_RemoveElement, FS_CardinalityType DEF Counts
  <2>2. nr_subs' = nr_subs \/ nr_subs' = nr_subs - 1
      BY Zenon, <1>1
  <2> QED
      BY <1>2, <2>1, <2>2 DEF Counts, PETypes
<1>10. PETypes'
    BY Zenon, <1>1, <1>2, <1>3, <1>5, <1>8, <1>9 DEF PETypes
<1>11. ASSUME NEW r \in Subs PROVE SubInv(r)'
  <2>1. SubInv(r)
      BY Zenon DEF EventInv
  <2>2. CASE r # s
    <3>1. r \in Linked' <=> r \in Linked
        BY Zenon, <1>5, <2>2
    <3> QED
        BY Zenon, <1>1, <1>3, <1>8, <2>1, <2>2, <3>1 DEF SubInv
  <2>3. CASE r = s
      BY Zenon, <1>1, <1>4, <1>5, <2>1, <2>3 DEF SubInv
  <2> QED
      BY Zenon, <2>2, <2>3
<1>12. Counts'
    BY Zenon, <1>1, <1>2, <1>9 DEF Counts
<1>13. TargetInv'
  <2>1. Complete => Complete'
      BY Zenon, <1>1, <1>5 DEF Complete
  <2> QED
      BY Zenon, <1>1, <1>2, <1>3, <1>4, <2>1, TargetStays
<1> QED
    BY Zenon, <1>7, <1>10, <1>11, <1>12, <1>13 DEF EventInv

-----------------------------------------------------------------------------
(* The target is held until its events are acknowledged.                   *)

\* The subscribers that are there from the start are on the list.
LEMMA PEInvInit ==
    Init => PEInv
<1> SUFFICES ASSUME Init PROVE PEInv
    BY Zenon
<1> DEFINE L == Initially
           M == Members(Initially)
<1>1. /\ L \in Seq(Subs) /\ Distinct(L) /\ M \subseteq Subs
      /\ Len(L) \in Nat /\ DOMAIN L = 1 .. Len(L) /\ \A i \in 1 .. Len(L) : L[i] \in Subs
    BY ProcEventAssumption DEF Members
<1>2. /\ status = [t \in {Target} |-> "RUNNABLE"] /\ parked = [t \in {Target} |-> FALSE]
      /\ sub_queue = IF L = <<>> THEN Nobody ELSE L[1]
      /\ next = [s \in Subs |-> IF \E i \in 1 .. Len(L) - 1 : L[i] = s
                                THEN L[Position(L, s) + 1] ELSE Nobody]
      /\ nr_subs = Len(L) /\ nr_acks = 0
      /\ event_semaphore = [s \in Subs |-> 0] /\ seen = [s \in Subs |-> 0]
      /\ acked = [s \in Subs |-> 0]
      /\ cond = <<>> /\ pc = "user" /\ stops = 0 /\ deserted = FALSE
      /\ spc = [s \in Subs |-> IF s \in M THEN "read" ELSE "out"]
    BY Zenon, ProcEventAssumption DEF Init
<1>3. /\ M \in SUBSET Subs /\ IsFiniteSet(M) /\ Cardinality(M) <= Len(L)
  <2>1. L \in Surjection(1 .. Len(L), M)
      BY <1>1 DEF Surjection, Members
  <2>2. IsFiniteSet(1 .. Len(L)) /\ Cardinality(1 .. Len(L)) = Len(L)
    <3> DEFINE n == Len(L)
    <3>1. n \in Nat
        BY Zenon, <1>1
    <3> HIDE DEF n
    <3>2. IsFiniteSet(1 .. n) /\ Cardinality(1 .. n) = IF 1 > n THEN 0 ELSE n - 1 + 1
        BY <3>1, FS_Interval
    <3>3. IsFiniteSet(1 .. n) /\ Cardinality(1 .. n) = n
        BY <3>1, <3>2
    <3> QED
        BY Zenon, <3>3 DEF n
  <2> QED
      BY <1>1, <2>1, <2>2, FS_Surjection
<1>4. \A i \in DOMAIN L : next[L[i]] = IF i = Len(L) THEN Nobody ELSE L[i + 1]
  <2> TAKE i \in DOMAIN L
  <2>1. L[i] \in Subs /\ \A j \in DOMAIN L : L[j] = L[i] => j = i
      BY Zenon, <1>1 DEF Distinct
  <2>2. Position(L, L[i]) = i
      BY Zenon, <2>1 DEF Position
  <2>3. (\E j \in 1 .. Len(L) - 1 : L[j] = L[i]) <=> i # Len(L)
      BY <1>1, <2>1
  <2> QED
      BY Zenon, <1>2, <2>1, <2>2, <2>3
<1>5. \A s \in Subs : s \notin M => next[s] = Nobody
  <2> SUFFICES ASSUME NEW s \in Subs, s \notin M PROVE next[s] = Nobody
      BY Zenon
  <2>1. \A i \in 1 .. Len(L) - 1 : i \in DOMAIN L
      BY <1>1
  <2>2. ~\E i \in 1 .. Len(L) - 1 : L[i] = s
      BY Zenon, <2>1 DEF Members
  <2> QED
      BY Zenon, <1>2, <2>2
<1>6. \A s \in Subs : next[s] \in Subs \cup {Nobody}
  <2> TAKE s \in Subs
  <2>1. CASE s \in M
    <3>1. PICK i \in DOMAIN L : s = L[i]
        BY Zenon, <2>1 DEF Members
    <3>2. i # Len(L) => L[i + 1] \in Subs
        BY <1>1
    <3> QED
        BY Zenon, <1>4, <3>1, <3>2
  <2> QED
      BY Zenon, <1>5, <2>1
<1> HIDE DEF L, M
<1>7. \A s \in Subs : /\ spc[s] = IF s \in M THEN "read" ELSE "out"
                      /\ event_semaphore[s] = 0 /\ seen[s] = 0 /\ acked[s] = 0
    BY Zenon, <1>2
<1>8. Linked = M /\ Counted = M /\ NoSignal
  <2>1. "read" \notin {"out", "link", "closed", "signal"} /\ "out" # "signal"
      BY Zenon
  <2>2. \A s \in Subs : /\ s \in M <=> spc[s] \notin {"out", "link", "closed"}
                        /\ s \in M <=> spc[s] \notin {"out", "closed"}
                        /\ spc[s] # "signal"
      BY Zenon, <1>7, <2>1
  <2> QED
      BY Zenon, <1>3, <2>2 DEF Linked, Counted, NoSignal
<1>9. PETypes
  <2>1. /\ spc \in [Subs -> SubPoints]
        /\ event_semaphore \in [Subs -> Nat] /\ seen \in [Subs -> Nat] /\ acked \in [Subs -> Nat]
        /\ nr_acks \in Nat /\ stops \in Nat
      BY Zenon, <1>2 DEF SubPoints
  <2>2. next \in [Subs -> Subs \cup {Nobody}]
      BY Zenon, <1>2, <1>6
  <2> QED
      BY Zenon, <1>1, <1>2, <1>8, <2>1, <2>2 DEF PETypes, M
<1>10. ListInv
  <2>1. IsList(L)
      BY Zenon, <1>1, <1>2, <1>4, <1>8 DEF IsList, M, L
  <2>2. WalkAt(L)
      BY Zenon, <1>2 DEF WalkAt
  <2> QED
      BY Zenon, <1>1, <2>1, <2>2 DEF ListInv
<1>11. ASSUME NEW s \in Subs PROVE SubInv(s)
  <2>1. spc[s] \in {"out", "link"} => s \notin M
      BY Zenon, <1>8 DEF Linked
  <2>2. s \in Linked => spc[s] = "read"
      BY Zenon, <1>7, <1>8
  <2>3. acked[s] <= seen[s] /\ seen[s] <= stops /\ acked[s] <= stops /\ stops <= acked[s] + 1
      BY <1>2, <1>7
  <2> QED
      BY Zenon, <1>5, <1>7, <2>1, <2>2, <2>3 DEF SubInv
<1>12. Counts
    BY Zenon, <1>2, <1>3, <1>8 DEF Counts
<1>13. TargetInv
  <2>1. Complete
      BY Zenon, <1>2, <1>7, <1>8 DEF Complete, Linked
  <2>2. /\ status \in [{Target} -> Statuses] /\ parked \in [{Target} -> BOOLEAN]
        /\ status[Target] = "RUNNABLE" /\ ~parked[Target]
      BY Zenon, <1>2 DEF Statuses
  <2> QED
      BY Zenon, <1>2, <1>8, <2>1, <2>2 DEF TargetInv, NoSignal
<1> QED
    BY Zenon, <1>2, <1>9, <1>10, <1>11, <1>12, <1>13 DEF PEInv, EventInv

\* Whoever is attached from the start is a subscriber.
LEMMA InitiallySubs ==
    \A s \in Members(Initially) : s \in Subs
    BY ProcEventAssumption DEF Members

\* Every step keeps the invariant until somebody closes during a stop.
LEMMA PEInvStep ==
    ASSUME PEInv, [Next]_peVars
    PROVE  PEInv'
<1>1. deserted' \in BOOLEAN /\ (deserted => deserted')
  <2>1. \/ UNCHANGED deserted
        \/ deserted' = (deserted \/ pc # "user")
      BY Zenon DEF Next, TargetStep, Listen, Stop, Notify, LockMutex, CondUnlock, CondEnqueue,
            CondYield, Resume, Read, ReadReset, Ack, CondSignal, AttachCount, AttachLink, Close, peVars
  <2> QED
      BY Zenon, <2>1 DEF PEInv
<1>2. ASSUME ~deserted' PROVE EventInv'
  <2>1. EventInv
      BY Zenon, <1>1, <1>2 DEF PEInv
  <2>2. CASE UNCHANGED peVars
    <3>1. UNCHANGED <<status, parked, sub_queue, next, nr_subs, nr_acks, event_semaphore, seen,
                      cond, pc, cursor, stops, spc, acked>>
        BY Zenon, <2>2 DEF peVars
    <3>2. Linked' = Linked /\ Counted' = Counted
        BY Zenon, <3>1 DEF Linked, Counted
    <3>3. Ackers' = Ackers
        BY Zenon, <3>1, <3>2 DEF Ackers
    <3>4. PETypes' /\ Counts'
        BY Zenon, <2>1, <3>1, <3>2, <3>3 DEF EventInv, PETypes, Counts
    <3>5. ListInv'
        BY Zenon, <2>1, <3>1, <3>2, KeepLists DEF EventInv
    <3>6. \A s \in Subs : SubInv(s)'
        BY Zenon, <2>1, <3>1, <3>2 DEF EventInv, SubInv
    <3>7. Complete => Complete'
        BY Zenon, <3>1, <3>2 DEF Complete
    <3>8. TargetInv'
        BY Zenon, <2>1, <3>1, <3>7, TargetStays DEF EventInv
    <3> QED
        BY Zenon, <3>4, <3>5, <3>6, <3>8 DEF EventInv
  <2>3. CASE TargetStep
      BY Zenon, <2>1, <2>3, StopStep, NotifyStep, LockMutexStep, CondUnlockStep, CondEnqueueStep,
         CondYieldStep, ResumeStep DEF TargetStep
  <2>4. ASSUME NEW s \in Subs, Listen(s) \/ AttachCount(s) \/ AttachLink(s) PROVE EventInv'
      BY Zenon, <2>1, <2>4, ReadStep, ReadResetStep, AckStep, CondSignalStep, AttachCountStep,
         AttachLinkStep DEF Listen
  <2>5. ASSUME NEW s \in Subs, Close(s) PROVE EventInv'
    <3>1. pc = "user"
        BY Zenon, <1>2, <2>5 DEF Close
    <3> QED
        BY Zenon, <2>1, <2>5, <3>1, CloseStep
  <2> QED
      BY Zenon, <2>2, <2>3, <2>4, <2>5 DEF Next
<1> QED
    BY Zenon, <1>1, <1>2 DEF PEInv

\* proc_event_enter_syscall and proc_event_exit_syscall return when every
\* subscriber that has been attached all along has acknowledged the stop, for
\* any number of subscribers that attach and close between the stops and
\* attach during them.
THEOREM TargetHeld == Spec => []HeldUntilAcked
<1>1. PEInv => HeldUntilAcked
  <2> SUFFICES ASSUME PEInv, ~deserted, pc = "user", NEW s \in Members(Initially), spc[s] # "closed"
               PROVE  acked[s] = stops
      BY Zenon DEF HeldUntilAcked
  <2>1. Complete /\ s \in Linked
      BY Zenon, InitiallySubs DEF PEInv, EventInv, TargetInv, PETypes
  <2> QED
      BY Zenon, <2>1 DEF Complete
<1> QED
    BY <1>1, PEInvInit, PEInvStep, PTL DEF Spec

\* proc_event_read and the acknowledgement meet every event: it is not
\* overwritten by the next one, and its unit of the semaphore is there until
\* the subscriber takes it.
THEOREM EventsKept == Spec => []EventsDelivered
<1>1. PEInv => EventsDelivered
  <2> SUFFICES ASSUME PEInv, ~deserted, NEW s \in Members(Initially), spc[s] # "closed",
                      seen[s] > acked[s]
               PROVE  /\ seen[s] = acked[s] + 1
                      /\ event_semaphore[s] = 1 \/ spc[s] \in {"reset", "ack"}
      BY Zenon DEF EventsDelivered
  <2>1. PETypes /\ s \in Linked /\ s \in Subs /\ SubInv(s)
    <3>1. PETypes /\ s \in Linked
        BY Zenon, InitiallySubs DEF PEInv, EventInv, PETypes
    <3>2. s \in Subs
        BY Zenon, <3>1 DEF Linked
    <3> QED
        BY Zenon, <3>1, <3>2 DEF PEInv, EventInv
  <2>2. seen[s] \in Nat /\ acked[s] \in Nat /\ stops \in Nat
      BY Zenon, <2>1 DEF PETypes
  <2>3. seen[s] # acked[s]
      BY <2>2
  <2>4. /\ seen[s] = stops /\ stops <= acked[s] + 1
        /\ event_semaphore[s] = 1 \/ spc[s] \in {"reset", "ack"}
      BY Zenon, <2>1, <2>3 DEF SubInv
  <2> QED
      BY <2>2, <2>4
<1> QED
    BY <1>1, PEInvInit, PEInvStep, PTL DEF Spec
=============================================================================
