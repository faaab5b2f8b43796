-------------------------------- MODULE Dpc --------------------------------
(***************************************************************************)
(* Deferred procedure calls (kernel/dpc.cpp), composed with Semaphore: one *)
(* worker thread, three queues, one semaphore.  Interrupt handlers and     *)
(* threads on other processors hand it work; every call of                 *)
(* dpc_schedule_work is a signaller of the semaphore with one unit.        *)
(***************************************************************************)
EXTENDS Semaphore

CONSTANTS
    Worker,
    Prio(_)     \* the priority of a work item, 0 the highest

ASSUME DpcAssumption ==
    /\ Threads = {Worker}
    /\ Nobody \notin Signallers
    /\ Signals = 1
    /\ \A w \in Signallers : Prio(w) \in 0 .. 2

VARIABLES
    dpc_queues,  \* the three queues
    level,       \* the queue the worker is at; 3 in sem_wait
    work,        \* the work it runs, or Nobody
    stage,       \* what became of each work item
    executed,    \* the work done, in order
    arrival      \* the work queued, in order (history)

own == <<dpc_queues, level, work, stage, executed, arrival>>

dpcVars == <<semVars, own>>

Init ==
    /\ SemInit
    /\ dpc_queues = [p \in 0 .. 2 |-> <<>>]
    /\ level = 3
    /\ work = Nobody
    /\ stage = [w \in Signallers |-> "new"]
    /\ executed = <<>>
    /\ arrival = <<>>

-----------------------------------------------------------------------------
\* The pool has no object: the work is discarded.
ScheduleFails(w) ==
    /\ stage[w] = "new"
    /\ stage' = [stage EXCEPT ![w] = "discarded"]
    /\ UNCHANGED <<semVars, dpc_queues, level, work, executed, arrival>>

\* dpc_schedule_work queues the work ...
AddWork(w) ==
    /\ stage[w] = "new"
    /\ dpc_queues' = [dpc_queues EXCEPT ![Prio(w)] = list_add_tail(@, w)]
    /\ stage' = [stage EXCEPT ![w] = "queued"]
    /\ arrival' = Append(arrival, w)
    /\ UNCHANGED <<semVars, level, work, executed>>

\* Mutant: the signal does not wait for the queueing.
Signal_Early(w) ==
    /\ stage[w] # "discarded"
    /\ Add(w) \/ Wake(w)
    /\ UNCHANGED own

\* ... and signals the semaphore.
SignalWork(w) ==
    /\ stage[w] \notin {"new", "discarded"}
    /\ Add(w) \/ Wake(w)
    /\ UNCHANGED own

\* The worker in sem_wait; when it returns, the queues are gone through.
SemWait ==
    /\ level = 3
    /\ WaitStep(Worker)
    /\ level' = IF pc[Worker] = "taken" THEN 0 ELSE 3
    /\ UNCHANGED <<dpc_queues, work, stage, executed, arrival>>

\* Mutant: the work stays in its queue while it runs.
TakeWork_NoRemove ==
    /\ level < 3 /\ work = Nobody
    /\ dpc_queues[level] # <<>>
    /\ work' = Head(dpc_queues[level])
    /\ UNCHANGED <<semVars, dpc_queues, level, stage, executed, arrival>>

\* Mutant: the newest work first.
TakeWork_Last ==
    /\ level < 3 /\ work = Nobody
    /\ dpc_queues[level] # <<>>
    /\ work' = dpc_queues[level][Len(dpc_queues[level])]
    /\ dpc_queues' = [dpc_queues EXCEPT ![level] = SubSeq(@, 1, Len(@) - 1)]
    /\ UNCHANGED <<semVars, level, stage, executed, arrival>>

\* dpc_queue::do_work takes the first work item off its queue, ...
TakeWork ==
    /\ level < 3 /\ work = Nobody
    /\ dpc_queues[level] # <<>>
    /\ work' = Head(dpc_queues[level])
    /\ dpc_queues' = [dpc_queues EXCEPT ![level] = Tail(@)]
    /\ UNCHANGED <<semVars, level, stage, executed, arrival>>

\* ... calls it ...
RunWork ==
    /\ work # Nobody
    /\ executed' = Append(executed, work)
    /\ stage' = [stage EXCEPT ![work] = "executed"]
    /\ work' = Nobody
    /\ UNCHANGED <<semVars, dpc_queues, level, arrival>>

\* ... and goes to the next queue when this one is empty.
NextQueue ==
    /\ level < 3 /\ work = Nobody
    /\ dpc_queues[level] = <<>>
    /\ level' = level + 1
    /\ UNCHANGED <<semVars, dpc_queues, work, stage, executed, arrival>>

WorkerStep == SemWait \/ TakeWork \/ RunWork \/ NextQueue

Next ==
    \/ WorkerStep
    \/ \E w \in Signallers : ScheduleFails(w) \/ AddWork(w) \/ SignalWork(w)

Spec == Init /\ [][Next]_dpcVars

\* The worker and the callers of dpc_schedule_work keep going.
FairSpec ==
    /\ Spec
    /\ SF_dpcVars(WorkerStep)
    /\ \A w \in Signallers : SF_dpcVars(SignalWork(w))

-----------------------------------------------------------------------------
(* Properties.                                                             *)

DpcTypeOK ==
    /\ SemTypeOK
    /\ dpc_queues \in [0 .. 2 -> Seq(Signallers)]
    /\ level \in 0 .. 3
    /\ work \in Signallers \cup {Nobody}
    /\ stage \in [Signallers -> {"new", "discarded", "queued", "executed"}]
    /\ executed \in Seq(Signallers) /\ arrival \in Seq(Signallers)

\* Work is never lost or run twice: an item that was queued is in its queue,
\* being run, or executed, and only one of these, once.
WorkOnce ==
    /\ Distinct(executed) /\ \A p \in 0 .. 2 : Distinct(dpc_queues[p])
    /\ \A w \in Signallers :
          /\ stage[w] = "queued" <=> (w \in Members(dpc_queues[Prio(w)]) \/ work = w)
          /\ stage[w] = "executed" <=> w \in Members(executed)
          /\ ~(w \in Members(dpc_queues[Prio(w)]) /\ work = w)

\* The worker sleeps over queued work only while a signal is still to come:
\* the queueing comes before the signal in dpc_schedule_work, and the worker
\* goes through all queues after each unit it takes.
NoWorkStranded ==
    parked[Worker] /\ (\E w \in Signallers : stage[w] = "queued") =>
        \E w \in Signallers : (stage[w] = "queued" /\ signals[w] = 0) \/ spc[w] = "lock"

\* Within a priority, work is executed in the order it was queued.
FifoWithinPriority ==
    \A i, j \in DOMAIN arrival :
        i < j /\ Prio(arrival[i]) = Prio(arrival[j]) =>
            \A k \in DOMAIN executed :
                executed[k] = arrival[j] => \E l \in 1 .. k : executed[l] = arrival[i]

\* All accepted work is executed in the end.
WorkGetsDone ==
    \A w \in Signallers : stage[w] = "queued" ~> stage[w] = "executed"
=============================================================================
