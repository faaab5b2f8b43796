----------------------------- MODULE DpcProofs -----------------------------
(***************************************************************************)
(* The queue of Semaphore is exact and every unit has a taker, for any     *)
(* finite sets of waiters and signallers and any number of calls.          *)
(*                                                                         *)
(* Deferred procedure calls use the semaphore as it is meant to be used,   *)
(* run each item once, in order within a priority, and leave none behind a *)
(* sleeping worker, for any set of work items and any number of rounds.    *)
(***************************************************************************)
EXTENDS Dpc, WaitListProofs, FiniteSetTheorems

-----------------------------------------------------------------------------
(* The semaphore.                                                          *)

\* A thread is off the processor only in sem_do_slow_path, until it is woken.
SleepExact ==
    \A t \in Threads : parked[t] <=> pc[t] = "relock" /\ status[t] # "RUNNABLE"

\* The queue must be exact for a wakeup to find a thread that is no taker yet,
\* and the sleepers for the thread that comes back to be one already.
SemInv == SemTypeOK /\ SleepExact /\ QueueExact /\ UnitsHaveTakers

-----------------------------------------------------------------------------
(* Types, sleepers and the queue.                                          *)

\* What sem_wait and sem_signal do to the queue is what they do to the set of
\* threads blocked in it.
LEMMA SleepStep ==
    ASSUME SemTypeOK, SleepExact, QueueExact, SemNext
    PROVE  SemTypeOK' /\ SleepExact' /\ QueueExact'
<1> USE DEF Points, Statuses, Blocked
<1>1. ASSUME NEW t \in Threads, SpinLock(t)
      PROVE  SemTypeOK' /\ SleepExact' /\ QueueExact'
    BY Zenon, <1>1 DEF SpinLock, At, Goto, SemTypeOK, SleepExact, QueueExact
<1>2. ASSUME NEW t \in Threads, Take(t)
      PROVE  SemTypeOK' /\ SleepExact' /\ QueueExact'
    BY <1>2 DEF Take, At, Goto, SemTypeOK, SleepExact, QueueExact
<1>3. ASSUME NEW t \in Threads, Block(t)
      PROVE  SemTypeOK' /\ SleepExact' /\ QueueExact'
  <2>1. t \notin Members(queue)
      BY Zenon, <1>3 DEF Block, At, QueueExact
  <2>2. /\ queue' \in Seq(Threads)
        /\ Distinct(queue')
        /\ Members(queue') = Members(queue) \cup {t}
      BY <1>3, <2>1, AddTail DEF Block, SemTypeOK, QueueExact
  <2>3. SemTypeOK' /\ SleepExact'
      BY Zenon, <1>3, <2>2 DEF Block, At, Goto, set_current_state, SemTypeOK, SleepExact
  <2>4. \A u \in Threads : u # t => pc'[u] = pc[u] /\ status'[u] = status[u]
      BY Zenon, <1>3 DEF Block, Goto, set_current_state, SemTypeOK
  <2>5. pc'[t] = "yield" /\ status'[t] # "RUNNABLE"
      BY Zenon, <1>3 DEF Block, Goto, set_current_state, SemTypeOK
  <2> QED
      BY Zenon, <2>2, <2>3, <2>4, <2>5 DEF QueueExact
<1>4. ASSUME NEW t \in Threads, Yield(t)
      PROVE  SemTypeOK' /\ SleepExact' /\ QueueExact'
    BY Zenon, <1>4 DEF Yield, At, Goto, sched_yield, SemTypeOK, SleepExact, QueueExact
<1>5. ASSUME NEW t \in Threads, Return(t)
      PROVE  SemTypeOK' /\ SleepExact' /\ QueueExact'
    BY <1>5 DEF Return, At, Goto, SemTypeOK, SleepExact, QueueExact
<1>6. ASSUME NEW s \in Signallers, Add(s)
      PROVE  SemTypeOK' /\ SleepExact' /\ QueueExact'
    BY <1>6 DEF Add, SemTypeOK, SleepExact, QueueExact
<1>7. ASSUME NEW s \in Signallers, Wake(s)
      PROVE  SemTypeOK' /\ SleepExact' /\ QueueExact'
  <2>1. CASE queue = <<>>
      BY Zenon, <1>7, <2>1 DEF Wake, SemTypeOK, SleepExact, QueueExact
  <2>2. CASE queue # <<>>
    <3> DEFINE h == Head(queue)
    <3>0. queue \in Seq(Threads) /\ Distinct(queue) /\ queue' = Tail(queue)
        BY Zenon, <1>7, <2>2 DEF Wake, SemTypeOK, QueueExact
    <3>1. /\ queue' \in Seq(Threads)
          /\ h \in Threads /\ h \in Members(queue)
          /\ Distinct(queue')
          /\ Members(queue') = Members(queue) \ {h}
        BY Zenon, <2>2, <3>0, PopHead
    <3> HIDE DEF h
    <3>2. /\ status' = [status EXCEPT ![h] = "RUNNABLE"]
          /\ parked' = [parked EXCEPT ![h] = FALSE]
          /\ pc' = pc
        BY Zenon, <1>7, <2>2 DEF Wake, thread_wake_up, h
    <3>3. SemTypeOK'
        BY Zenon, <1>7, <3>1, <3>2 DEF Wake, SemTypeOK
    <3>4. SleepExact'
        BY Zenon, <3>1, <3>2 DEF SemTypeOK, SleepExact
    <3>5. QueueExact'
        BY Zenon, <3>1, <3>2 DEF SemTypeOK, QueueExact
    <3> QED
        BY Zenon, <3>3, <3>4, <3>5
  <2> QED
      BY Zenon, <2>1, <2>2
<1> QED
    BY Zenon, <1>1, <1>2, <1>3, <1>4, <1>5, <1>6, <1>7 DEF SemNext, WaitStep

-----------------------------------------------------------------------------
(* Units and takers.                                                       *)

\* Takers and wakers are finite, and counted by natural numbers.
LEMMA Counted ==
    ASSUME NEW S, NEW T \in SUBSET S, IsFiniteSet(S)
    PROVE  IsFiniteSet(T) /\ Cardinality(T) \in Nat
    BY Zenon, FS_Subset, FS_CardinalityType

\* A unit comes with a waker, a waker makes a taker, and a taker leaves with
\* a unit; who blocks has seen that there is none.
LEMMA TakersStep ==
    ASSUME SemTypeOK, SleepExact, QueueExact, UnitsHaveTakers, SemNext, SemTypeOK'
    PROVE  UnitsHaveTakers'
<1>1. /\ IsFiniteSet(Takers) /\ Cardinality(Takers) \in Nat
      /\ IsFiniteSet(Wakers) /\ Cardinality(Wakers) \in Nat
    BY Zenon, Counted, SemaphoreAssumption DEF Takers, Wakers
<1>2. /\ IsFiniteSet(Takers') /\ Cardinality(Takers') \in Nat
      /\ IsFiniteSet(Wakers') /\ Cardinality(Wakers') \in Nat
    BY Zenon, Counted, SemaphoreAssumption DEF Takers, Wakers
<1>3. counter \in Nat /\ counter' \in Nat
    BY Zenon DEF SemTypeOK
<1>4. ASSUME NEW t \in Threads, SpinLock(t)
      PROVE  UnitsHaveTakers'
  <2>1. Takers' = Takers \cup {t} /\ Wakers' = Wakers
      BY Zenon, <1>4 DEF SpinLock, At, Goto, Takers, Wakers, SemTypeOK, SleepExact
  <2>2. Cardinality(Takers') = IF t \in Takers THEN Cardinality(Takers) ELSE Cardinality(Takers) + 1
      BY Zenon, <1>1, <2>1, FS_AddElement
  <2> QED
      BY <1>1, <1>2, <1>3, <1>4, <2>1, <2>2 DEF SpinLock, UnitsHaveTakers
<1>5. ASSUME NEW t \in Threads, Take(t)
      PROVE  UnitsHaveTakers'
  <2>1. t \in Takers /\ Takers' = Takers \ {t} /\ Wakers' = Wakers
      BY Zenon, <1>5 DEF Take, At, Goto, Takers, Wakers, SemTypeOK
  <2>2. Cardinality(Takers') = Cardinality(Takers) - 1
      BY Zenon, <1>1, <2>1, FS_RemoveElement
  <2> QED
      BY <1>1, <1>2, <1>3, <1>5, <2>1, <2>2 DEF Take, UnitsHaveTakers
<1>6. ASSUME NEW t \in Threads, Block(t)
      PROVE  UnitsHaveTakers'
    BY <1>2, <1>3, <1>6 DEF Block, UnitsHaveTakers
<1>7. ASSUME NEW t \in Threads, Yield(t) \/ Return(t)
      PROVE  UnitsHaveTakers'
  <2>1. Takers' = Takers /\ Wakers' = Wakers /\ queue' = queue /\ counter' = counter
      BY Zenon, <1>7 DEF Yield, Return, sched_yield, At, Goto, Takers, Wakers, SemTypeOK
  <2> QED
      BY Zenon, <2>1 DEF UnitsHaveTakers
<1>8. ASSUME NEW s \in Signallers, Add(s)
      PROVE  UnitsHaveTakers'
  <2>1. s \notin Wakers /\ Wakers' = Wakers \cup {s} /\ Takers' = Takers
      BY Zenon, <1>8 DEF Add, Takers, Wakers, SemTypeOK
  <2>2. Cardinality(Wakers') = Cardinality(Wakers) + 1
      BY Zenon, <1>1, <2>1, FS_AddElement
  <2> QED
      BY <1>1, <1>2, <1>3, <1>8, <2>1, <2>2 DEF Add, UnitsHaveTakers
<1>9. ASSUME NEW s \in Signallers, Wake(s)
      PROVE  UnitsHaveTakers'
  <2>1. CASE queue = <<>>
      BY Zenon, <1>9, <2>1 DEF Wake, UnitsHaveTakers
  <2>2. CASE queue # <<>>
    <3> DEFINE h == Head(queue)
    <3>1. h \in Threads /\ h \in Members(queue)
        BY Zenon, <2>2, PopHead DEF SemTypeOK, QueueExact
    <3>2. h \notin Takers
        BY Zenon, <3>1 DEF QueueExact, Takers
    <3>3. pc[h] \in {"yield", "relock"}
        BY Zenon, <3>1 DEF QueueExact
    <3> HIDE DEF h
    <3>4. status' = [status EXCEPT ![h] = "RUNNABLE"] /\ pc' = pc
        BY Zenon, <1>9, <2>2 DEF Wake, thread_wake_up, h
    <3>5. Takers' = Takers \cup {h}
        BY Zenon, <3>1, <3>3, <3>4 DEF Takers, SemTypeOK
    <3>6. s \in Wakers /\ Wakers' = Wakers \ {s}
        BY Zenon, <1>9 DEF Wake, Wakers, SemTypeOK
    <3>7. /\ Cardinality(Takers') = Cardinality(Takers) + 1
          /\ Cardinality(Wakers') = Cardinality(Wakers) - 1
        BY Zenon, <1>1, <3>2, <3>5, <3>6, FS_AddElement, FS_RemoveElement
    <3> QED
        BY <1>1, <1>3, <1>9, <2>2, <3>7 DEF Wake, UnitsHaveTakers
  <2> QED
      BY Zenon, <2>1, <2>2
<1> QED
    BY Zenon, <1>4, <1>5, <1>6, <1>7, <1>8, <1>9 DEF SemNext, WaitStep

-----------------------------------------------------------------------------
\* sem_init leaves an empty queue and no units.
LEMMA SemInitInv == SemInit => SemInv
<1> SUFFICES ASSUME SemInit
             PROVE  SemInv
    BY Zenon
<1>1. SemTypeOK /\ SleepExact
    BY DEF SemInit, SemTypeOK, SleepExact, Points, Statuses, Blocked
<1>2. QueueExact
    BY DEF SemInit, QueueExact, Distinct, Members
<1>3. UnitsHaveTakers
    BY Zenon DEF SemInit, UnitsHaveTakers
<1> QED
    BY Zenon, <1>1, <1>2, <1>3 DEF SemInv

\* The invariant is kept by every step of the semaphore.
LEMMA SemInvStep == SemInv /\ [SemNext]_semVars => SemInv'
<1>1. SemInv /\ SemNext => SemInv'
    BY Zenon, SleepStep, TakersStep DEF SemInv
<1>2. SemInv /\ UNCHANGED semVars => SemInv'
    BY DEF SemInv, semVars, SemTypeOK, SleepExact, QueueExact, UnitsHaveTakers, Takers, Wakers
<1> QED
    BY Zenon, <1>1, <1>2

\* The queue of sem_wait holds exactly the threads that are blocked and not
\* woken, each once.
THEOREM QueueKept == SemSpec => []QueueExact
<1>1. SemInv => QueueExact
    BY Zenon DEF SemInv
<1> QED
    BY <1>1, SemInitInv, SemInvStep, PTL DEF SemSpec

\* One wakeup per sem_signal is enough: while anybody is queued, each unit has
\* a thread on its way to the counter or a wakeup to come.
THEOREM NoUnitStranded == SemSpec => []UnitsHaveTakers
<1>1. SemInv => UnitsHaveTakers
    BY Zenon DEF SemInv
<1> QED
    BY <1>1, SemInitInv, SemInvStep, PTL DEF SemSpec

-----------------------------------------------------------------------------
(* Deferred procedure calls.                                               *)

\* A queue holds work of its own priority only.
QueuesByPrio ==
    \A p \in 0 .. 2 : \A w \in Members(dpc_queues[p]) : Prio(w) = p

\* An item whose signal has been given and that the worker has already passed
\* has left a unit for another round.
PassedHasUnit ==
    \A w \in Signallers :
        stage[w] = "queued" /\ signals[w] # 0 /\ level > Prio(w) =>
            counter > 0 \/ pc[Worker] = "taken"

\* Outside sem_wait the worker has the processor, and has returned its unit.
WorkerOut == level < 3 => pc[Worker] = "idle"

\* The signal comes after the queueing.
QueuedFirst ==
    \A w \in Signallers : stage[w] \in {"new", "discarded"} => signals[w] = 0

DpcInv ==
    /\ DpcTypeOK /\ WorkOnce
    /\ QueuesByPrio /\ QueuedFirst /\ WorkerOut /\ PassedHasUnit

-----------------------------------------------------------------------------
(* The semaphore inside.                                                   *)

\* Every step of the worker and of dpc_schedule_work is a call the semaphore
\* allows, or leaves it alone.
LEMMA StepOfSemaphore == [Next]_dpcVars => [SemNext]_semVars
<1>1. Worker \in Threads
    BY Zenon, DpcAssumption
<1>2. Next => [SemNext]_semVars
    BY Zenon, <1>1 DEF Next, WorkerStep, SemWait, TakeWork, RunWork, NextQueue, ScheduleFails,
                AddWork, SignalWork, SemNext
<1>3. UNCHANGED dpcVars => UNCHANGED semVars
    BY Zenon DEF dpcVars
<1> QED
    BY Zenon, <1>2, <1>3

\* dpc.cpp uses its semaphore only through sem_wait and sem_signal: all that
\* is proved of the semaphore holds of the one inside.
THEOREM UsesSemaphore == Spec => SemSpec
<1>1. Init => SemInit
    BY Zenon DEF Init
<1> QED
    BY <1>1, StepOfSemaphore, PTL DEF Spec, SemSpec

-----------------------------------------------------------------------------
(* The invariant.                                                          *)

\* A step that leaves the queues, the work and the stages alone.
LEMMA OwnKept ==
    ASSUME WorkOnce, QueuesByPrio, UNCHANGED <<dpc_queues, work, stage, executed>>
    PROVE  WorkOnce' /\ QueuesByPrio'
    BY Zenon DEF WorkOnce, QueuesByPrio

\* dpc_queue::add appends an item that is nowhere yet.
LEMMA AddWorkStep ==
    ASSUME DpcInv, NEW w \in Signallers, AddWork(w)
    PROVE  DpcInv'
<1> DEFINE q == dpc_queues[Prio(w)]
<1>1. /\ Prio(w) \in 0 .. 2 /\ q \in Seq(Signallers) /\ Distinct(q)
      /\ w \notin Members(q) /\ work # w
    BY Zenon, DpcAssumption DEF AddWork, DpcInv, DpcTypeOK, WorkOnce
<1>2. /\ list_add_tail(q, w) \in Seq(Signallers)
      /\ Distinct(list_add_tail(q, w))
      /\ Members(list_add_tail(q, w)) = Members(q) \cup {w}
    BY <1>1, AddTail
<1>3. /\ dpc_queues' = [dpc_queues EXCEPT ![Prio(w)] = list_add_tail(q, w)]
      /\ stage' = [stage EXCEPT ![w] = "queued"]
      /\ stage[w] = "new"
      /\ UNCHANGED <<semVars, level, work, executed>>
    BY Zenon DEF AddWork
<1>4. arrival' \in Seq(Signallers)
    BY DEF AddWork, DpcInv, DpcTypeOK
<1> HIDE DEF q
<1>5. DpcTypeOK'
    BY Zenon, <1>1, <1>2, <1>3, <1>4 DEF DpcInv, DpcTypeOK, SemTypeOK, semVars
<1>6. /\ dpc_queues'[Prio(w)] = list_add_tail(q, w)
      /\ \A p \in 0 .. 2 : p # Prio(w) => dpc_queues'[p] = dpc_queues[p]
    BY Zenon, <1>1, <1>3 DEF DpcInv, DpcTypeOK
<1>7. \A v \in Signallers : v # w =>
          (v \in Members(dpc_queues'[Prio(v)]) <=> v \in Members(dpc_queues[Prio(v)]))
    BY Zenon, <1>2, <1>6, DpcAssumption DEF q
<1>8. w \in Members(dpc_queues'[Prio(w)]) /\ stage'[w] = "queued"
    BY Zenon, <1>2, <1>3, <1>6 DEF DpcInv, DpcTypeOK
<1>9. \A v \in Signallers : v # w => stage'[v] = stage[v]
    BY Zenon, <1>3 DEF DpcInv, DpcTypeOK
<1>10. WorkOnce'
  <2>1. \A p \in 0 .. 2 : Distinct(dpc_queues'[p])
      BY Zenon, <1>2, <1>6 DEF DpcInv, WorkOnce
  <2>2. w \notin Members(executed)
      BY Zenon, <1>3 DEF DpcInv, WorkOnce
  <2> QED
      BY Zenon, <1>1, <1>3, <1>7, <1>8, <1>9, <2>1, <2>2 DEF DpcInv, WorkOnce
<1>11. QueuesByPrio'
    BY Zenon, <1>2, <1>6 DEF DpcInv, QueuesByPrio, q
<1>12. WorkerOut'
    BY Zenon, <1>3 DEF DpcInv, WorkerOut, semVars
<1>13. signals[w] = 0
    BY Zenon, <1>3 DEF DpcInv, QueuedFirst
<1>14. PassedHasUnit' /\ QueuedFirst'
    BY Zenon, <1>3, <1>8, <1>9, <1>13 DEF DpcInv, PassedHasUnit, QueuedFirst, semVars
<1> QED
    BY Zenon, <1>5, <1>10, <1>11, <1>12, <1>14 DEF DpcInv

\* dpc_queue::do_work takes the first item off the queue it is at.
LEMMA TakeWorkStep ==
    ASSUME DpcInv, TakeWork
    PROVE  DpcInv'
<1> DEFINE q == dpc_queues[level]
           h == Head(q)
<1>1. /\ level \in 0 .. 2 /\ level # 3 /\ q \in Seq(Signallers) /\ Distinct(q) /\ q # <<>>
      /\ work = Nobody
    BY DEF TakeWork, DpcInv, DpcTypeOK, WorkOnce
<1>2. /\ Tail(q) \in Seq(Signallers)
      /\ h \in Members(q) /\ h \in Signallers
      /\ Distinct(Tail(q))
      /\ Members(Tail(q)) = Members(q) \ {h}
    BY Zenon, <1>1, PopHead
<1>3. /\ dpc_queues' = [dpc_queues EXCEPT ![level] = Tail(q)]
      /\ work' = h
      /\ UNCHANGED <<semVars, level, stage, executed, arrival>>
    BY Zenon DEF TakeWork
<1>4. Prio(h) = level
    BY Zenon, <1>1, <1>2 DEF DpcInv, QueuesByPrio
<1> HIDE DEF q, h
<1>5. DpcTypeOK'
    BY Zenon, <1>1, <1>2, <1>3 DEF DpcInv, DpcTypeOK, SemTypeOK, semVars
<1>6. /\ dpc_queues'[level] = Tail(q)
      /\ \A p \in 0 .. 2 : p # level => dpc_queues'[p] = dpc_queues[p]
    BY Zenon, <1>1, <1>3 DEF DpcInv, DpcTypeOK
<1>7. \A v \in Signallers : v # h =>
          (v \in Members(dpc_queues'[Prio(v)]) <=> v \in Members(dpc_queues[Prio(v)]))
    BY Zenon, <1>2, <1>6, DpcAssumption DEF q
<1>8. h \in Members(dpc_queues[Prio(h)]) /\ h \notin Members(dpc_queues'[Prio(h)])
    BY Zenon, <1>2, <1>4, <1>6 DEF q
<1>9. WorkOnce'
  <2>1. \A p \in 0 .. 2 : Distinct(dpc_queues'[p])
      BY Zenon, <1>2, <1>6 DEF DpcInv, WorkOnce
  <2>2. \A v \in Signallers : work # v
      BY Zenon, <1>1, DpcAssumption
  <2> QED
      BY Zenon, <1>2, <1>3, <1>7, <1>8, <2>1, <2>2 DEF DpcInv, WorkOnce
<1>10. QueuesByPrio'
    BY Zenon, <1>2, <1>6 DEF DpcInv, QueuesByPrio, q
<1>11. WorkerOut' /\ PassedHasUnit' /\ QueuedFirst'
    BY Zenon, <1>3 DEF DpcInv, WorkerOut, PassedHasUnit, QueuedFirst, semVars
<1> QED
    BY Zenon, <1>5, <1>9, <1>10, <1>11 DEF DpcInv

\* The item that ran is executed, for the first time.
LEMMA RunWorkStep ==
    ASSUME DpcInv, RunWork
    PROVE  DpcInv'
<1>1. /\ work \in Signallers /\ work # Nobody
      /\ executed' = Append(executed, work)
      /\ stage' = [stage EXCEPT ![work] = "executed"]
      /\ work' = Nobody
      /\ UNCHANGED <<semVars, dpc_queues, level, arrival>>
    BY Zenon DEF RunWork, DpcInv, DpcTypeOK
<1>2. stage[work] = "queued" /\ work \notin Members(executed)
      /\ work \notin Members(dpc_queues[Prio(work)])
    BY Zenon, <1>1 DEF DpcInv, WorkOnce
<1>3. /\ executed' \in Seq(Signallers)
      /\ Distinct(executed')
      /\ Members(executed') = Members(executed) \cup {work}
    BY <1>1, <1>2, AddTail DEF DpcInv, DpcTypeOK, WorkOnce, list_add_tail
<1>4. DpcTypeOK'
    BY Zenon, <1>1, <1>3 DEF DpcInv, DpcTypeOK, SemTypeOK, semVars
<1>5. /\ stage'[work] = "executed"
      /\ \A v \in Signallers : v # work => stage'[v] = stage[v]
    BY Zenon, <1>1 DEF DpcInv, DpcTypeOK
<1>6. WorkOnce'
  <2>1. \A v \in Signallers : work' # v
      BY Zenon, <1>1, DpcAssumption
  <2>2. \A v \in Signallers : v # work =>
            /\ stage'[v] = "queued" <=> v \in Members(dpc_queues'[Prio(v)])
            /\ stage'[v] = "executed" <=> v \in Members(executed')
      BY Zenon, <1>1, <1>3, <1>5 DEF DpcInv, WorkOnce
  <2> QED
      BY Zenon, <1>1, <1>2, <1>3, <1>5, <2>1, <2>2 DEF DpcInv, WorkOnce
<1>7. QueuesByPrio' /\ WorkerOut' /\ PassedHasUnit' /\ QueuedFirst'
    BY Zenon, <1>1, <1>5 DEF DpcInv, QueuesByPrio, WorkerOut, PassedHasUnit, QueuedFirst, semVars
<1> QED
    BY Zenon, <1>4, <1>6, <1>7 DEF DpcInv

\* The worker leaves a queue behind only when it is empty.
LEMMA NextQueueStep ==
    ASSUME DpcInv, NextQueue
    PROVE  DpcInv'
<1>1. /\ level \in 0 .. 2 /\ work = Nobody /\ dpc_queues[level] = <<>>
      /\ level' = level + 1
      /\ UNCHANGED <<semVars, dpc_queues, work, stage, executed, arrival>>
    BY DEF NextQueue, DpcInv, DpcTypeOK
<1>2. DpcTypeOK'
    BY <1>1 DEF DpcInv, DpcTypeOK, SemTypeOK, semVars
<1>3. WorkOnce' /\ QueuesByPrio' /\ QueuedFirst'
    BY Zenon, <1>1 DEF DpcInv, WorkOnce, QueuesByPrio, QueuedFirst, semVars
<1>4. WorkerOut'
    BY <1>1 DEF DpcInv, WorkerOut, semVars
<1>5. ASSUME NEW w \in Signallers, stage[w] = "queued"
      PROVE  Prio(w) \in 0 .. 2 /\ Prio(w) # level
  <2>1. work # w /\ Prio(w) \in 0 .. 2
      BY Zenon, <1>1, DpcAssumption
  <2>2. w \in Members(dpc_queues[Prio(w)])
      BY Zenon, <1>5, <2>1 DEF DpcInv, WorkOnce
  <2> QED
      BY <1>1, <2>1, <2>2 DEF Members
<1>6. PassedHasUnit'
    BY <1>1, <1>5 DEF DpcInv, PassedHasUnit, semVars
<1> QED
    BY Zenon, <1>2, <1>3, <1>4, <1>6 DEF DpcInv

\* In sem_wait the worker gives a unit back only by another round.
LEMMA SemWaitStep ==
    ASSUME DpcInv, SemTypeOK', SemWait
    PROVE  DpcInv'
<1>1. /\ level = 3 /\ WaitStep(Worker)
      /\ level' = (IF pc[Worker] = "taken" THEN 0 ELSE 3)
      /\ UNCHANGED <<dpc_queues, work, stage, executed, arrival>>
    BY Zenon DEF SemWait
<1>2. /\ Worker \in Threads /\ pc \in [Threads -> Points]
      /\ \A w \in Signallers : Prio(w) \in 0 .. 2
    BY Zenon, DpcAssumption DEF DpcInv, DpcTypeOK, SemTypeOK
<1>3. DpcTypeOK'
    BY <1>1 DEF DpcInv, DpcTypeOK
<1>4. WorkOnce' /\ QueuesByPrio'
    BY Zenon, <1>1, OwnKept DEF DpcInv
<1>5. QueuedFirst'
    BY Zenon, <1>1 DEF DpcInv, QueuedFirst, WaitStep, SpinLock, Take, Block, Yield, Return
<1>6. WorkerOut'
    BY <1>1, <1>2 DEF WorkerOut, WaitStep, SpinLock, Take, Block, Yield, Return, At, Goto
<1>7. PassedHasUnit'
  <2>1. CASE pc[Worker] = "taken"
      BY <1>1, <1>2, <2>1 DEF PassedHasUnit
  <2>2. CASE pc[Worker] # "taken"
    <3>1. pc'[Worker] = "taken" \/ counter' = counter
        BY Zenon, <1>1, <1>2 DEF WaitStep, SpinLock, Take, Block, Yield, Return, Goto
    <3>2. signals' = signals
        BY Zenon, <1>1 DEF WaitStep, SpinLock, Take, Block, Yield, Return
    <3> QED
        BY Zenon, <1>1, <1>2, <2>2, <3>1, <3>2 DEF DpcInv, PassedHasUnit
  <2> QED
      BY Zenon, <2>1, <2>2
<1> QED
    BY Zenon, <1>3, <1>4, <1>5, <1>6, <1>7 DEF DpcInv

\* dpc_schedule_work signals for an item that is queued or was executed.
LEMMA SignalWorkStep ==
    ASSUME DpcInv, SemTypeOK', NEW w \in Signallers, SignalWork(w)
    PROVE  DpcInv'
<1>1. UNCHANGED <<dpc_queues, level, work, stage, executed, arrival>>
    BY Zenon DEF SignalWork, own
<1>2. pc' = pc
    BY Zenon DEF SignalWork, Add, Wake
<1>3. /\ counter \in Nat
      /\ \/ counter' = counter + 1 /\ signals' = [signals EXCEPT ![w] = @ + 1]
         \/ counter' = counter /\ signals' = signals
    BY Zenon DEF SignalWork, Add, Wake, DpcInv, DpcTypeOK, SemTypeOK
<1>4. DpcTypeOK'
    BY Zenon, <1>1 DEF DpcInv, DpcTypeOK
<1>5. WorkOnce' /\ QueuesByPrio'
    BY Zenon, <1>1, OwnKept DEF DpcInv
<1>6. WorkerOut'
    BY Zenon, <1>1, <1>2 DEF DpcInv, WorkerOut
<1>7. PassedHasUnit'
    BY <1>1, <1>2, <1>3 DEF DpcInv, PassedHasUnit
<1>8. QueuedFirst'
    BY Zenon, <1>1, <1>3 DEF DpcInv, DpcTypeOK, SemTypeOK, QueuedFirst, SignalWork
<1> QED
    BY Zenon, <1>4, <1>5, <1>6, <1>7, <1>8 DEF DpcInv

\* Work that finds no room in the pool is discarded before anything happened.
LEMMA ScheduleFailsStep ==
    ASSUME DpcInv, NEW w \in Signallers, ScheduleFails(w)
    PROVE  DpcInv'
<1>1. /\ stage[w] = "new" /\ stage' = [stage EXCEPT ![w] = "discarded"]
      /\ UNCHANGED <<semVars, dpc_queues, level, work, executed, arrival>>
    BY Zenon DEF ScheduleFails
<1>2. DpcTypeOK'
    BY Zenon, <1>1 DEF DpcInv, DpcTypeOK, SemTypeOK, semVars
<1>3. /\ stage'[w] = "discarded"
      /\ \A v \in Signallers : v # w => stage'[v] = stage[v]
    BY Zenon, <1>1 DEF DpcInv, DpcTypeOK
<1>4. WorkOnce'
    BY Zenon, <1>1, <1>3 DEF DpcInv, WorkOnce
<1>5. QueuesByPrio' /\ WorkerOut' /\ PassedHasUnit' /\ QueuedFirst'
    BY Zenon, <1>1, <1>3 DEF DpcInv, QueuesByPrio, WorkerOut, PassedHasUnit, QueuedFirst, semVars
<1> QED
    BY Zenon, <1>2, <1>4, <1>5 DEF DpcInv

\* The invariant of the semaphore gives the types the rest needs.
LEMMA DpcInvStep == SemInv /\ SemInv' /\ DpcInv /\ [Next]_dpcVars => DpcInv'
<1>1. SemInv' => SemTypeOK'
    BY Zenon DEF SemInv
<1>2. SemInv' /\ DpcInv /\ Next => DpcInv'
    BY Zenon, <1>1, AddWorkStep, TakeWorkStep, RunWorkStep, NextQueueStep, SemWaitStep, SignalWorkStep,
       ScheduleFailsStep DEF Next, WorkerStep
<1>3. DpcInv /\ UNCHANGED dpcVars => DpcInv'
    BY DEF DpcInv, dpcVars, own, semVars, DpcTypeOK, SemTypeOK, WorkOnce, QueuesByPrio, QueuedFirst,
           WorkerOut, PassedHasUnit
<1> QED
    BY Zenon, <1>2, <1>3

\* dpc_init leaves three empty queues.
LEMMA DpcInitInv == Init => DpcInv
<1> SUFFICES ASSUME Init
             PROVE  DpcInv
    BY Zenon
<1>1. SemTypeOK
    BY Zenon, SemInitInv DEF Init, SemInv
<1>2. DpcTypeOK
    BY <1>1 DEF Init, DpcTypeOK
<1>3. \A p \in 0 .. 2 : Members(dpc_queues[p]) = {} /\ Distinct(dpc_queues[p])
    BY DEF Init, Members, Distinct
<1>4. Members(executed) = {} /\ Distinct(executed)
    BY DEF Init, Members, Distinct
<1>5. WorkOnce
    BY Zenon, <1>3, <1>4, DpcAssumption DEF Init, WorkOnce
<1>6. QueuesByPrio
    BY Zenon, <1>3 DEF QueuesByPrio
<1>7. WorkerOut /\ PassedHasUnit /\ QueuedFirst
    BY DEF Init, SemInit, WorkerOut, PassedHasUnit, QueuedFirst
<1> QED
    BY Zenon, <1>2, <1>5, <1>6, <1>7 DEF DpcInv

\* Both invariants hold together.
THEOREM DpcInvariance == Spec => [](SemInv /\ DpcInv)
<1>1. Init => SemInv /\ DpcInv
    BY Zenon, SemInitInv, DpcInitInv DEF Init
<1>2. SemInv /\ DpcInv /\ [Next]_dpcVars => SemInv' /\ DpcInv'
    BY Zenon, StepOfSemaphore, SemInvStep, DpcInvStep
<1> QED
    BY <1>1, <1>2, PTL DEF Spec

\* Work that dpc_schedule_work accepted is in its queue, running or executed:
\* never lost, never run twice.
THEOREM EachWorkOnce == Spec => []WorkOnce
<1>1. DpcInv => WorkOnce
    BY Zenon DEF DpcInv
<1> QED
    BY <1>1, DpcInvariance, PTL

\* dpc_do_work never sleeps over accepted work without a signal to come.
THEOREM WorkerNotAsleep == Spec => []NoWorkStranded
<1>1. SemInv /\ DpcInv => NoWorkStranded
  <2> SUFFICES ASSUME SemInv, DpcInv, parked[Worker],
                      NEW w \in Signallers, stage[w] = "queued", signals[w] # 0
               PROVE  \E v \in Signallers : spc[v] = "lock"
      BY Zenon DEF NoWorkStranded
  <2>1. Worker \in Threads /\ \A t \in Threads : t = Worker
      BY Zenon, DpcAssumption
  <2>2. pc[Worker] = "relock" /\ status[Worker] # "RUNNABLE"
      BY Zenon, <2>1 DEF SemInv, SleepExact
  <2>3. queue # <<>>
    <3>1. Worker \in Members(queue)
        BY Zenon, <2>1, <2>2 DEF SemInv, QueueExact
    <3> QED
        BY <3>1 DEF Members
  <2>4. level = 3
      BY <2>2 DEF DpcInv, DpcTypeOK, WorkerOut
  <2>5. counter > 0 /\ counter \in Nat
    <3>1. Prio(w) \in 0 .. 2 /\ level > Prio(w)
        BY <2>4, DpcAssumption
    <3>2. counter \in Nat
        BY Zenon DEF SemInv, SemTypeOK
    <3>3. counter > 0 \/ pc[Worker] = "taken"
        BY Zenon, <3>1 DEF DpcInv, PassedHasUnit
    <3> QED
        BY Zenon, <2>2, <3>2, <3>3
  <2>6. Takers = {}
      BY Zenon, <2>1, <2>2 DEF Takers
  <2>7. IsFiniteSet(Wakers) /\ Cardinality(Wakers) \in Nat
      BY Zenon, Counted, SemaphoreAssumption DEF Wakers
  <2>8. Cardinality(Takers) = 0
      BY Zenon, <2>6, FS_EmptySet
  <2>9. Cardinality(Wakers) # 0
      BY <2>3, <2>5, <2>7, <2>8 DEF SemInv, UnitsHaveTakers
  <2>10. Wakers # {}
      BY Zenon, <2>9, FS_EmptySet
  <2> QED
      BY Zenon, <2>10 DEF Wakers
<1> QED
    BY <1>1, DpcInvariance, PTL
-----------------------------------------------------------------------------
(* The order of the work.                                                  *)

\* Whatever queue v is in, w is behind it.
Ahead(q, v, w) ==
    \A k \in DOMAIN q : q[k] = v => \E m \in DOMAIN q : q[m] = w /\ k < m

\* Of two items of a priority, as long as the earlier one is queued the later
\* one is queued behind it.
InOrder ==
    \A i, j \in DOMAIN arrival :
        i < j /\ Prio(arrival[i]) = Prio(arrival[j]) =>
            Ahead(dpc_queues[Prio(arrival[i])], arrival[i], arrival[j])

\* The history holds the accepted work, once.
ArrivedOnce ==
    /\ Distinct(arrival)
    /\ \A w \in Members(arrival) : stage[w] \in {"queued", "executed"}

FifoInv == ArrivedOnce /\ InOrder /\ FifoWithinPriority

\* Appending keeps the order, and puts the new item last.
LEMMA AheadAppend ==
    ASSUME NEW S, NEW q \in Seq(S), NEW x \in S, NEW v, NEW w, v # x
    PROVE  /\ Ahead(q, v, w) => Ahead(Append(q, x), v, w)
           /\ Ahead(Append(q, x), v, x)
<1> DEFINE r == Append(q, x)
<1>1. /\ DOMAIN q = 1 .. Len(q) /\ Len(q) \in Nat
      /\ DOMAIN r = 1 .. (Len(q) + 1)
      /\ \A i \in 1 .. Len(q) : r[i] = q[i]
      /\ r[Len(q) + 1] = x
    OBVIOUS
<1> HIDE DEF r
<1>2. \A k \in DOMAIN r : r[k] = v => k \in DOMAIN q /\ q[k] = v /\ k < Len(q) + 1
    BY <1>1
<1>3. Ahead(q, v, w) => Ahead(r, v, w)
    BY <1>1, <1>2 DEF Ahead
<1>4. Ahead(r, v, x)
    BY <1>1, <1>2 DEF Ahead
<1> QED
    BY Zenon, <1>3, <1>4 DEF r

\* Taking the head keeps the order.
LEMMA AheadTail ==
    ASSUME NEW S, NEW q \in Seq(S), q # <<>>, NEW v, NEW w, Ahead(q, v, w)
    PROVE  Ahead(Tail(q), v, w)
<1> DEFINE r == Tail(q)
<1>1. /\ DOMAIN q = 1 .. Len(q) /\ Len(q) \in Nat
      /\ DOMAIN r = 1 .. (Len(q) - 1)
      /\ \A i \in 1 .. (Len(q) - 1) : r[i] = q[i + 1]
    OBVIOUS
<1> HIDE DEF r
<1>2. ASSUME NEW k \in DOMAIN r, r[k] = v
      PROVE  \E m \in DOMAIN r : r[m] = w /\ k < m
  <2>1. k + 1 \in DOMAIN q /\ q[k + 1] = v
      BY <1>1, <1>2
  <2>2. PICK m \in DOMAIN q : q[m] = w /\ k + 1 < m
      BY Zenon, <2>1 DEF Ahead
  <2>3. m - 1 \in DOMAIN r /\ r[m - 1] = w /\ k < m - 1
      BY <1>1, <1>2, <2>2
  <2> QED
      BY Zenon, <2>3
<1> QED
    BY Zenon, <1>2 DEF Ahead, r

\* A new item arrives last, and goes behind all others of its queue.
LEMMA AddWorkOrder ==
    ASSUME DpcInv, FifoInv, NEW w \in Signallers, AddWork(w)
    PROVE  FifoInv'
<1> DEFINE q == dpc_queues[Prio(w)]
<1>1. /\ arrival' = Append(arrival, w) /\ arrival \in Seq(Signallers)
      /\ Prio(w) \in 0 .. 2 /\ q \in Seq(Signallers)
      /\ dpc_queues'[Prio(w)] = Append(q, w)
      /\ \A p \in 0 .. 2 : p # Prio(w) => dpc_queues'[p] = dpc_queues[p]
      /\ UNCHANGED executed
    BY Zenon, DpcAssumption DEF AddWork, DpcInv, DpcTypeOK, list_add_tail
<1>2. /\ stage[w] = "new" /\ stage'[w] = "queued"
      /\ \A v \in Signallers : v # w => stage'[v] = stage[v]
    BY Zenon DEF AddWork, DpcInv, DpcTypeOK
<1>3. w \notin Members(arrival) /\ w \notin Members(executed)
    BY Zenon, <1>2 DEF FifoInv, ArrivedOnce, DpcInv, WorkOnce
<1>4. /\ DOMAIN arrival = 1 .. Len(arrival) /\ Len(arrival) \in Nat
      /\ DOMAIN arrival' = 1 .. (Len(arrival) + 1)
      /\ \A i \in DOMAIN arrival : arrival'[i] = arrival[i] /\ arrival[i] \in Signallers /\ arrival[i] # w
      /\ arrival'[Len(arrival) + 1] = w
    BY <1>1, <1>3 DEF Members
<1>5. /\ Distinct(arrival') /\ Members(arrival') = Members(arrival) \cup {w}
    BY <1>1, <1>3, AddTail DEF FifoInv, ArrivedOnce, list_add_tail
<1>6. ArrivedOnce'
  <2>1. Members(arrival) \subseteq Signallers
      BY Zenon, <1>4 DEF Members
  <2> QED
      BY Zenon, <1>2, <1>5, <2>1 DEF FifoInv, ArrivedOnce
<1> HIDE DEF q
<1>7. ASSUME NEW i \in DOMAIN arrival', NEW j \in DOMAIN arrival',
             i < j, Prio(arrival'[i]) = Prio(arrival'[j])
      PROVE  /\ i \in DOMAIN arrival /\ (j \in DOMAIN arrival \/ arrival'[j] = w)
             /\ Prio(arrival[i]) \in 0 .. 2
    BY <1>4, <1>7, DpcAssumption
<1>8. InOrder'
  <2> SUFFICES ASSUME NEW i \in DOMAIN arrival', NEW j \in DOMAIN arrival',
                      i < j, Prio(arrival'[i]) = Prio(arrival'[j])
               PROVE  Ahead(dpc_queues'[Prio(arrival'[i])], arrival'[i], arrival'[j])
      BY Zenon DEF InOrder, Ahead
  <2>1. CASE j \in DOMAIN arrival /\ Prio(arrival[i]) # Prio(w)
      BY <1>1, <1>4, <1>7, <2>1 DEF FifoInv, InOrder
  <2>2. CASE j \in DOMAIN arrival /\ Prio(arrival[i]) = Prio(w)
    <3>1. Ahead(q, arrival[i], arrival[j])
        BY Zenon, <1>4, <1>7, <2>2 DEF FifoInv, InOrder, q
    <3>2. Ahead(Append(q, w), arrival[i], arrival[j])
        BY Zenon, <1>1, <1>4, <1>7, <3>1, AheadAppend
    <3> QED
        BY Zenon, <1>1, <1>4, <1>7, <2>2, <3>2
  <2>3. CASE arrival'[j] = w
    <3>1. Ahead(Append(q, w), arrival[i], w)
        BY Zenon, <1>1, <1>4, <1>7, AheadAppend
    <3> QED
        BY Zenon, <1>1, <1>4, <1>7, <2>3, <3>1
  <2> QED
      BY Zenon, <1>7, <2>1, <2>2, <2>3
<1>9. FifoWithinPriority'
  <2> SUFFICES ASSUME NEW i \in DOMAIN arrival', NEW j \in DOMAIN arrival',
                      i < j, Prio(arrival'[i]) = Prio(arrival'[j]),
                      NEW k \in DOMAIN executed, executed[k] = arrival'[j]
               PROVE  \E l \in 1 .. k : executed[l] = arrival'[i]
      BY <1>1 DEF FifoWithinPriority
  <2>1. arrival'[j] # w
      BY Zenon, <1>3 DEF Members
  <2> QED
      BY <1>4, <1>7, <2>1 DEF FifoInv, FifoWithinPriority
<1> QED
    BY Zenon, <1>6, <1>8, <1>9 DEF FifoInv

\* The worker takes the first item of a queue.
LEMMA TakeWorkOrder ==
    ASSUME DpcInv, FifoInv, TakeWork
    PROVE  FifoInv'
<1>1. /\ level \in 0 .. 2 /\ dpc_queues[level] \in Seq(Signallers) /\ dpc_queues[level] # <<>>
      /\ dpc_queues'[level] = Tail(dpc_queues[level])
      /\ \A p \in 0 .. 2 : p # level => dpc_queues'[p] = dpc_queues[p]
      /\ arrival \in Seq(Signallers)
    BY DEF TakeWork, DpcInv, DpcTypeOK
<1>2. UNCHANGED <<stage, arrival, executed>>
    BY Zenon DEF TakeWork
<1>3. \A i \in DOMAIN arrival : Prio(arrival[i]) \in 0 .. 2
    BY <1>1, DpcAssumption
<1>4. InOrder'
  <2> SUFFICES ASSUME NEW i \in DOMAIN arrival, NEW j \in DOMAIN arrival,
                      i < j, Prio(arrival[i]) = Prio(arrival[j])
               PROVE  Ahead(dpc_queues'[Prio(arrival[i])], arrival[i], arrival[j])
      BY Zenon, <1>2 DEF InOrder, Ahead
  <2>1. Ahead(dpc_queues[Prio(arrival[i])], arrival[i], arrival[j])
      BY Zenon DEF FifoInv, InOrder
  <2>2. CASE Prio(arrival[i]) # level
      BY Zenon, <1>1, <1>3, <2>1, <2>2
  <2>3. CASE Prio(arrival[i]) = level
    <3>1. Ahead(Tail(dpc_queues[level]), arrival[i], arrival[j])
        BY Zenon, <1>1, <2>1, <2>3, AheadTail
    <3> QED
        BY Zenon, <1>1, <2>3, <3>1
  <2> QED
      BY Zenon, <2>2, <2>3
<1> QED
    BY <1>2, <1>4 DEF FifoInv, ArrivedOnce, FifoWithinPriority

\* The item run is the oldest of its priority that has not been executed.
LEMMA RunWorkOrder ==
    ASSUME DpcInv, FifoInv, RunWork
    PROVE  FifoInv'
<1>1. /\ work \in Signallers /\ executed \in Seq(Signallers) /\ arrival \in Seq(Signallers)
      /\ stage'[work] = "executed"
      /\ \A v \in Signallers : v # work => stage'[v] = stage[v]
    BY Zenon DEF RunWork, DpcInv, DpcTypeOK
<1>2. UNCHANGED <<arrival, dpc_queues>>
    BY Zenon DEF RunWork
<1>3. \A i \in DOMAIN arrival : arrival[i] \in Signallers
    BY <1>1
<1>4. ArrivedOnce'
  <2>1. Members(arrival) \subseteq Signallers
      BY Zenon, <1>3 DEF Members
  <2> QED
      BY Zenon, <1>1, <1>2, <2>1 DEF FifoInv, ArrivedOnce
<1>5. InOrder'
    BY <1>2 DEF FifoInv, InOrder, Ahead
<1>6. /\ DOMAIN executed = 1 .. Len(executed) /\ Len(executed) \in Nat
      /\ DOMAIN executed' = 1 .. (Len(executed) + 1)
      /\ \A k \in DOMAIN executed : executed'[k] = executed[k]
      /\ executed'[Len(executed) + 1] = work
    BY <1>1 DEF RunWork
<1>7. ASSUME NEW i \in DOMAIN arrival, NEW j \in DOMAIN arrival,
             i < j, Prio(arrival[i]) = Prio(arrival[j]), arrival[j] = work
      PROVE  arrival[i] \in Members(executed)
  <2> DEFINE q == dpc_queues[Prio(arrival[i])]
  <2>1. arrival[j] \notin Members(q)
      BY Zenon, <1>3, <1>7 DEF DpcInv, WorkOnce
  <2>2. arrival[i] \notin Members(q)
      BY Zenon, <1>7, <2>1 DEF FifoInv, InOrder, Ahead, Members
  <2>3. i \in Nat /\ j \in Nat
      BY <1>1
  <2>4. arrival[i] # work
      BY <1>7, <2>3 DEF FifoInv, ArrivedOnce, Distinct
  <2>5. arrival[i] \in Members(arrival)
      BY Zenon DEF Members
  <2>6. stage[arrival[i]] = "executed"
      BY Zenon, <1>3, <2>2, <2>4, <2>5 DEF FifoInv, ArrivedOnce, DpcInv, WorkOnce
  <2> QED
      BY Zenon, <1>3, <2>6 DEF DpcInv, WorkOnce
<1>8. FifoWithinPriority'
  <2> SUFFICES ASSUME NEW i \in DOMAIN arrival, NEW j \in DOMAIN arrival,
                      i < j, Prio(arrival[i]) = Prio(arrival[j]),
                      NEW k \in DOMAIN executed', executed'[k] = arrival[j]
               PROVE  \E l \in 1 .. k : executed'[l] = arrival[i]
      BY <1>2 DEF FifoWithinPriority
  <2>1. CASE k \in DOMAIN executed
    <3>1. PICK l \in 1 .. k : executed[l] = arrival[i]
        BY Zenon, <1>6, <2>1 DEF FifoInv, FifoWithinPriority
    <3> QED
        BY <1>6, <2>1, <3>1
  <2>2. CASE k = Len(executed) + 1
    <3>1. arrival[i] \in Members(executed)
        BY Zenon, <1>6, <1>7, <2>2
    <3>2. PICK l \in DOMAIN executed : executed[l] = arrival[i]
        BY Zenon, <3>1 DEF Members
    <3> QED
        BY <1>6, <2>2, <3>2
  <2> QED
      BY <1>6, <2>1, <2>2
<1> QED
    BY Zenon, <1>4, <1>5, <1>8 DEF FifoInv

\* Within a priority dpc_do_work runs the work in the order in which
\* dpc_schedule_work queued it.
THEOREM FifoOrder == Spec => []FifoWithinPriority
<1>1. Init => FifoInv
  <2> SUFFICES ASSUME Init PROVE FifoInv
      BY Zenon
  <2>1. arrival = <<>>
      BY Zenon DEF Init
  <2> QED
      BY <2>1 DEF FifoInv, ArrivedOnce, InOrder, FifoWithinPriority, Distinct, Members
<1>2. DpcInv /\ FifoInv /\ [Next]_dpcVars => FifoInv'
  <2> SUFFICES ASSUME DpcInv, FifoInv, [Next]_dpcVars PROVE FifoInv'
      BY Zenon
  <2>1. ASSUME UNCHANGED <<dpc_queues, stage, executed, arrival>> PROVE FifoInv'
      BY <2>1 DEF FifoInv, ArrivedOnce, InOrder, Ahead, FifoWithinPriority
  <2>2. ASSUME NEW w \in Signallers, ScheduleFails(w) PROVE FifoInv'
    <3>1. /\ UNCHANGED <<dpc_queues, executed, arrival>> /\ stage[w] = "new"
          /\ \A v \in Signallers : v # w => stage'[v] = stage[v]
        BY Zenon, <2>2 DEF ScheduleFails, DpcInv, DpcTypeOK
    <3>2. Members(arrival) \subseteq Signallers
        BY DEF Members, DpcInv, DpcTypeOK
    <3>3. ArrivedOnce'
        BY Zenon, <3>1, <3>2 DEF FifoInv, ArrivedOnce
    <3> QED
        BY <3>1, <3>3 DEF FifoInv, InOrder, Ahead, FifoWithinPriority
  <2>3. SemWait \/ NextQueue \/ (\E w \in Signallers : SignalWork(w)) \/ UNCHANGED dpcVars
            => UNCHANGED <<dpc_queues, stage, executed, arrival>>
      BY Zenon DEF SemWait, NextQueue, SignalWork, dpcVars, own
  <2> QED
      BY Zenon, <2>1, <2>2, <2>3, AddWorkOrder, TakeWorkOrder, RunWorkOrder DEF Next, WorkerStep
<1>3. FifoInv => FifoWithinPriority
    BY Zenon DEF FifoInv
<1> QED
    BY <1>1, <1>2, <1>3, DpcInvariance, PTL DEF Spec
=============================================================================
