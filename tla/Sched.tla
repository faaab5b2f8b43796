------------------------------- MODULE Sched -------------------------------
(***************************************************************************)
(* The per-CPU scheduler: kernel/sched/scheduler.cpp, with the interrupt   *)
(* exit path of arch/x86_64/irq.cpp and the reschedule IPI of              *)
(* arch/x86_64/cpu.cpp.                                                    *)
(*                                                                         *)
(* Every CPU owns one run queue per priority, protected by its             *)
(* scheduler_lock.  A thread is bound to the CPU that thread_add chose.    *)
(* All critical sections of scheduler_lock but one run with interrupts     *)
(* disabled and are single steps here; the exception is the one of         *)
(* sched_append_to_queue, which thread_add runs with interrupts enabled,   *)
(* so "lock" records who is inside it.                                     *)
(*                                                                         *)
(* THREAD_ACTIVE is set, tested and cleared by one CPU with interrupts     *)
(* off, so it is the argument "active" of sched_schedule, not a variable.  *)
(***************************************************************************)
EXTENDS Integers, Sequences, FiniteSets

CONSTANTS
    Threads,        \* every thread, idle threads included
    Cpus,           \* 0..n-1
    IdleOf,         \* the idle thread of each CPU
    Priority,       \* thread->priority
    NumPrio,        \* NUM_PRIO
    Quantum,        \* SCHED_QUANTUM
    QuantumMod,     \* 2^32: sched_quantum is a uint32_t
    MaxQuantum,     \* bound: interrupts that extend the quantum
    MaxPreempt,     \* bound: nesting of preemption-disabled sections
    MaxDeaths,      \* bound: threads that exit
    InitCpu,        \* thread->cpu when the behaviour starts
    InitQueue,      \* the run queues when the behaviour starts
    SleepStates,    \* the sleep states threads of the instance use
    NestedTicks,    \* may a softirq last longer than one timer tick?
    NoThread

Idle == {IdleOf[c] : c \in Cpus}

Prios == 0 .. (NumPrio - 1)

ASSUME CpusAssumption == Cpus # {} /\ Cpus \subseteq Nat
ASSUME ThreadsAssumption ==
    /\ \A S \in SUBSET Threads : Cardinality(S) \in Nat
    /\ NoThread \notin Threads
    /\ IdleOf \in [Cpus -> Threads]
    /\ \A c, d \in Cpus : IdleOf[c] = IdleOf[d] => c = d
ASSUME PrioAssumption ==
    /\ NumPrio \in Nat \ {0}
    /\ Priority \in [Threads -> Prios]
ASSUME QuantumAssumption ==
    /\ Quantum \in Nat \ {0}
    /\ QuantumMod \in Nat
    /\ Quantum < QuantumMod
    /\ MaxQuantum \in Nat
    /\ MaxQuantum < QuantumMod
    /\ MaxPreempt \in Nat
    /\ MaxDeaths \in Nat
    /\ NestedTicks \in BOOLEAN
    /\ SleepStates \subseteq {"INTERRUPTIBLE", "UNINTERRUPTIBLE", "STOPPED"}

ASSUME InitAssumption ==
    /\ InitCpu \in [Threads -> Cpus]
    /\ \A c \in Cpus : InitCpu[IdleOf[c]] = c
    /\ InitQueue \in [Cpus -> [Prios -> Seq(Threads \ Idle)]]
    /\ \A c \in Cpus, p \in Prios :
          /\ \A i \in DOMAIN InitQueue[c][p] :
                /\ InitCpu[InitQueue[c][p][i]] = c
                /\ Priority[InitQueue[c][p][i]] = p
          /\ \A i, j \in DOMAIN InitQueue[c][p] :
                InitQueue[c][p][i] = InitQueue[c][p][j] => i = j

VARIABLES
    status,         \* thread->status
    cpu,            \* thread->cpu
    added,          \* threads thread_add has put on a run queue
    resched,        \* threads with THREAD_NEEDS_RESCHED set
    queue,          \* thread_queues_head[cpu][prio], front first
    current,        \* per-CPU current_thread
    lock,           \* scheduler_lock: the CPU inside sched_append_to_queue
    quantum,        \* per-CPU sched_quantum
    preempt,        \* per-CPU preemption_counter
    ipi,            \* CPUs with a reschedule IPI pending
    active_threads, \* per-CPU active_threads
    ctx,            \* what each CPU is executing
    wakee,          \* the thread a running interrupt handler will wake
    tpc,            \* where each thread is inside the scheduler's own code
    adding          \* the thread that thread_add is appending, per thread

vars == <<status, cpu, added, resched, queue, current, lock, quantum, preempt,
          ipi, active_threads, ctx, wakee, tpc, adding>>

(* ctx[c]: "thread"    the current thread, interrupts enabled              *)
(*         "irq"       an interrupt handler, interrupts disabled           *)
(*         "softirq"   softirq_handle called by the interrupt exit path,   *)
(*                     interrupts enabled, preemption disabled             *)
(*         "irq2"      an interrupt handler that interrupted "softirq"     *)
(*         "yielded"   sched_schedule, called by sched_yield, is about to  *)
(*                     take scheduler_lock                                 *)
(*         "preempted" the same, called by sched_preempt_thread            *)
Contexts == {"thread", "irq", "softirq", "irq2", "yielded", "preempted"}

(* tpc[t]: "run"      the thread's own code                                *)
(*         "add"      spinning on scheduler_lock in sched_append_to_queue  *)
(*         "adding"   inside sched_append_to_queue, holding "lock"         *)
(*         "softirq"  softirq_handle called by sched_enable_preempt        *)
(*         "enable0"  at the check of sched_enable_preempt_no_softirq      *)
(*         "enable"   at the check of sched_enable_preempt                 *)
(*         "clear0", "clear"  back from the sched_yield of that check      *)
ThreadPoints ==
    {"run", "add", "adding", "softirq", "enable0", "enable", "clear0", "clear"}

TS == INSTANCE ThreadState WITH
        parked <- [t \in Threads |->
                     /\ \A c \in Cpus : current[c] # t
                     /\ \A i \in DOMAIN queue[cpu[t]][Priority[t]] :
                            queue[cpu[t]][Priority[t]][i] # t]

Blocked == {"INTERRUPTIBLE", "UNINTERRUPTIBLE", "STOPPED"}

Statuses == {"RUNNABLE", "DEAD"} \cup Blocked

Queued(t) == \E i \in DOMAIN queue[cpu[t]][Priority[t]] :
                queue[cpu[t]][Priority[t]][i] = t

-----------------------------------------------------------------------------
(* Run queues.                                                             *)

AppendTo_AtHead(q, c, t) == [q EXCEPT ![c][Priority[t]] = <<t>> \o @]

\* __sched_append_to_queue: the thread goes to the tail of its priority.
AppendTo(q, c, t) == [q EXCEPT ![c][Priority[t]] = Append(@, t)]

\* Priorities of CPU c that have a queued thread.
Ready(q, c) == {p \in Prios : q[c][p] # <<>>}

\* The queue that __sched_find_next serves: the highest non-empty one.
Highest(q, c, p) == p \in Ready(q, c) /\ \A r \in Ready(q, c) : r <= p

Requeued_OnlyIfPreempted(c) ==
    IF ctx[c] = "preempted" THEN AppendTo(queue, c, current[c]) ELSE queue

\* thread_queues after __sched_find_next re-appended the current thread.
Requeued(c) ==
    IF status[current[c]] = "RUNNABLE" THEN AppendTo(queue, c, current[c])
                                       ELSE queue

-----------------------------------------------------------------------------
Init ==
    /\ status = [t \in Threads |-> "RUNNABLE"]
    /\ cpu = InitCpu
    /\ queue = InitQueue
    /\ current = IdleOf
    /\ added = Idle \cup {t \in Threads : Queued(t)}
    /\ resched = {}
    /\ lock = [c \in Cpus |-> 0]
    /\ quantum = [c \in Cpus |-> Quantum]
    /\ preempt = [c \in Cpus |-> 0]
    /\ ipi = {}
    /\ active_threads = [c \in Cpus |-> Cardinality({t \in added \ Idle : cpu[t] = c})]
    /\ ctx = [c \in Cpus |-> "thread"]
    /\ wakee = [c \in Cpus |-> NoThread]
    /\ tpc = [t \in Threads |-> "run"]
    /\ adding = [t \in Threads |-> NoThread]

-----------------------------------------------------------------------------
(* sched_schedule, up to the point where it takes scheduler_lock.          *)

Preempt_NoActive(c, count, back) ==
    \/ /\ count > 0
       /\ quantum' = [quantum EXCEPT ![c] = (@ + 1) % QuantumMod]
       /\ ctx' = [ctx EXCEPT ![c] = back]
    \/ /\ count = 0
       /\ ctx' = [ctx EXCEPT ![c] = "preempted"]
       /\ UNCHANGED quantum

Preempt_IgnoresCounter(c, count, back) ==
    /\ ctx' = [ctx EXCEPT ![c] = "preempted"]
    /\ UNCHANGED quantum

Preempt_NoExtension(c, count, back) ==
    /\ ctx' = [ctx EXCEPT ![c] = IF count > 0 THEN back ELSE "preempted"]
    /\ UNCHANGED quantum

\* The tail of an interrupt that wants to preempt CPU c, with preemption
\* counter "count": with preemption disabled, or with a current thread that has announced a sleep but has not
\* yielded yet, the thread keeps the processor and only the quantum changes.
sched_preempt_thread(c, count, back) ==
    \/ /\ count > 0
       /\ quantum' = [quantum EXCEPT ![c] = (@ + 1) % QuantumMod]
       /\ ctx' = [ctx EXCEPT ![c] = back]
    \/ /\ count = 0
       /\ status[current[c]] \in {"INTERRUPTIBLE", "UNINTERRUPTIBLE"}
       /\ quantum' = [quantum EXCEPT ![c] = 1]
       /\ ctx' = [ctx EXCEPT ![c] = back]
    \/ /\ count = 0
       /\ status[current[c]] \notin {"INTERRUPTIBLE", "UNINTERRUPTIBLE"}
       /\ ctx' = [ctx EXCEPT ![c] = "preempted"]
       /\ UNCHANGED quantum

\* The rest of sched_schedule, under scheduler_lock: requeue the current
\* thread if it is still runnable, take the first thread of the highest
\* priority, make it current and give it a fresh quantum.
Switch(c) ==
    /\ ctx[c] \in {"yielded", "preempted"}
    /\ lock[c] = 0
    /\ \E p \in Prios :
          /\ Highest(Requeued(c), c, p)
          /\ current' = [current EXCEPT ![c] = Head(Requeued(c)[c][p])]
          /\ queue' = [Requeued(c) EXCEPT ![c][p] = Tail(@)]
    /\ quantum' = [quantum EXCEPT ![c] = Quantum]
    /\ ctx' = [ctx EXCEPT ![c] = "thread"]
    /\ UNCHANGED <<status, cpu, added, resched, lock, preempt, ipi,
                   active_threads, wakee, tpc, adding>>

-----------------------------------------------------------------------------
(* What the current thread of CPU c does.                                  *)

Running(c, t, pc) ==
    /\ ctx[c] = "thread"
    /\ current[c] = t
    /\ tpc[t] = pc

\* set_current_state, and the store of sched_block_self.
SetState(c, t) ==
    /\ Running(c, t, "run")
    /\ t \notin Idle
    /\ status[t] # "DEAD"
    /\ \E s \in SleepStates \cup {"RUNNABLE"} :
          /\ s # status[t]
          /\ status' = [status EXCEPT ![t] = s]
    /\ UNCHANGED <<cpu, added, resched, queue, current, lock, quantum, preempt,
                   ipi, active_threads, ctx, wakee, tpc, adding>>

\* thread_exit and process_exit: the status that makes the next switch final.
\* A thread that exits has left every wait list, so nobody is waking it.
Die(c, t) ==
    /\ Running(c, t, "run")
    /\ t \notin Idle
    /\ status[t] = "RUNNABLE"
    /\ \A d \in Cpus : wakee[d] # t
    /\ Cardinality({d \in Threads : status[d] = "DEAD"}) < MaxDeaths
    /\ status' = [status EXCEPT ![t] = "DEAD"]
    /\ UNCHANGED <<cpu, added, resched, queue, current, lock, quantum, preempt,
                   ipi, active_threads, ctx, wakee, tpc, adding>>

\* sched_yield: not allowed with preemption disabled.
Yield(c, t) ==
    /\ Running(c, t, "run")
    /\ t \notin Idle
    /\ preempt[c] = 0
    /\ ctx' = [ctx EXCEPT ![c] = "yielded"]
    /\ UNCHANGED <<status, cpu, added, resched, queue, current, lock, quantum,
                   preempt, ipi, active_threads, wakee, tpc, adding>>

DisablePreempt(c, t) ==
    /\ Running(c, t, "run")
    /\ t \notin Idle
    /\ preempt[c] < MaxPreempt
    /\ preempt' = [preempt EXCEPT ![c] = @ + 1]
    /\ UNCHANGED <<status, cpu, added, resched, queue, current, lock, quantum,
                   ipi, active_threads, ctx, wakee, tpc, adding>>

\* sched_enable_preempt: the counter drops; at zero, pending softirqs are
\* handled with preemption disabled again, otherwise the check comes next.
sched_enable_preempt(c, t) ==
    \/ /\ preempt' = [preempt EXCEPT ![c] = @ - 1]
       /\ tpc' = [tpc EXCEPT ![t] = IF preempt[c] = 1 THEN "enable" ELSE "run"]
    \/ /\ preempt[c] = 1
       /\ tpc' = [tpc EXCEPT ![t] = "softirq"]
       /\ UNCHANGED preempt

EnablePreempt(c, t) ==
    /\ Running(c, t, "run")
    /\ preempt[c] > 0
    /\ sched_enable_preempt(c, t)
    /\ UNCHANGED <<status, cpu, added, resched, queue, current, lock, quantum,
                   ipi, active_threads, ctx, wakee, adding>>

\* The end of softirq_handle: sched_enable_preempt_no_softirq.
SoftirqEnd(c, t) ==
    /\ Running(c, t, "softirq")
    /\ preempt' = [preempt EXCEPT ![c] = @ - 1]
    /\ tpc' = [tpc EXCEPT ![t] = "enable0"]
    /\ UNCHANGED <<status, cpu, added, resched, queue, current, lock, quantum,
                   ipi, active_threads, ctx, wakee, adding>>

\* sched_try_to_resched_if_needed: a requested reschedule is a sched_yield.
ReschedIfNeeded(c, t) ==
    /\ Running(c, t, "enable0") \/ Running(c, t, "enable")
    /\ IF t \in resched
       THEN /\ ctx' = [ctx EXCEPT ![c] = "yielded"]
            /\ tpc' = [tpc EXCEPT ![t] = IF @ = "enable0" THEN "clear0" ELSE "clear"]
       ELSE /\ tpc' = [tpc EXCEPT ![t] = IF @ = "enable0" THEN "enable" ELSE "run"]
            /\ UNCHANGED ctx
    /\ UNCHANGED <<status, cpu, added, resched, queue, current, lock, quantum,
                   preempt, ipi, active_threads, wakee, adding>>

\* The store after that sched_yield, once the thread runs again.
ClearResched(c, t) ==
    /\ Running(c, t, "clear0") \/ Running(c, t, "clear")
    /\ resched' = resched \ {t}
    /\ tpc' = [tpc EXCEPT ![t] = IF @ = "clear0" THEN "enable" ELSE "run"]
    /\ UNCHANGED <<status, cpu, added, queue, current, lock, quantum, preempt,
                   ipi, active_threads, ctx, wakee, adding>>

-----------------------------------------------------------------------------
(* Waking a thread.                                                        *)

WakeUp_NoCurrentCheck(c, t) ==
    /\ lock[cpu[t]] = 0
    /\ status' = [status EXCEPT ![t] = "RUNNABLE"]
    /\ queue' = IF status[t] # "RUNNABLE" THEN AppendTo(queue, cpu[t], t) ELSE queue
    /\ UNCHANGED <<resched, ipi>>

\* __thread_wake_up, run by CPU c under the target's scheduler_lock: the
\* current thread of a CPU only has its status reset; a sleeping thread is
\* queued, and its CPU is asked to reschedule if the thread outranks the
\* current one (a flag on this CPU, an IPI on another).
thread_wake_up(c, t) ==
    /\ lock[cpu[t]] = 0
    /\ status' = [status EXCEPT ![t] = "RUNNABLE"]
    /\ LET curr == current[cpu[t]]
           sleeping == curr # t /\ status[t] # "RUNNABLE"
           outranks == sleeping /\ Priority[t] > Priority[curr]
       IN  /\ queue' = IF sleeping THEN AppendTo(queue, cpu[t], t) ELSE queue
           /\ resched' = IF outranks /\ cpu[t] = c THEN resched \cup {curr} ELSE resched
           /\ ipi' = IF outranks /\ cpu[t] # c THEN ipi \cup {cpu[t]} ELSE ipi

\* What a wait list, a timer or a signal may hold: threads that are alive.
Wakeable == {t \in added \ Idle : status[t] # "DEAD"}

\* A wake-up by the current thread, or by a softirq on this CPU.
WakeUp(c, t) ==
    /\ \/ Running(c, current[c], "run") /\ current[c] \notin Idle
       \/ Running(c, current[c], "softirq")
       \/ ctx[c] = "softirq"
    /\ t \in Wakeable
    /\ thread_wake_up(c, t)
    /\ UNCHANGED <<cpu, added, current, lock, quantum, preempt,
                   active_threads, ctx, wakee, tpc, adding>>

-----------------------------------------------------------------------------
(* thread_add.                                                             *)

\* sched_allocate_processor: the first CPU with the fewest active threads.
sched_allocate_processor(c) ==
    \A d \in Cpus :
        \/ active_threads[c] < active_threads[d]
        \/ active_threads[c] = active_threads[d] /\ c <= d

\* The CPU is chosen and counted; spin_lock has disabled preemption.
ThreadAdd(c, t, u) ==
    /\ Running(c, t, "run")
    /\ t \notin Idle
    /\ status[t] = "RUNNABLE"
    /\ preempt[c] < MaxPreempt
    /\ u \in Threads \ added
    /\ \A x \in Threads : adding[x] # u
    /\ \E dest \in Cpus :
          /\ sched_allocate_processor(dest)
          /\ cpu' = [cpu EXCEPT ![u] = dest]
          /\ active_threads' = [active_threads EXCEPT ![dest] = @ + 1]
    /\ preempt' = [preempt EXCEPT ![c] = @ + 1]
    /\ adding' = [adding EXCEPT ![t] = u]
    /\ tpc' = [tpc EXCEPT ![t] = "add"]
    /\ UNCHANGED <<status, added, resched, queue, current, lock, quantum, ipi,
                   ctx, wakee>>

\* sched_append_to_queue has taken scheduler_lock, interrupts still enabled.
AppendLock(c, t) ==
    /\ Running(c, t, "add")
    /\ lock[cpu[adding[t]]] = 0
    /\ lock' = [lock EXCEPT ![cpu[adding[t]]] = c + 1]
    /\ tpc' = [tpc EXCEPT ![t] = "adding"]
    /\ UNCHANGED <<status, cpu, added, resched, queue, current, quantum,
                   preempt, ipi, active_threads, ctx, wakee, adding>>

\* The append, and spin_unlock with the sched_enable_preempt it ends with.
AppendUnlock(c, t) ==
    /\ Running(c, t, "adding")
    /\ LET u == adding[t]
       IN  /\ queue' = AppendTo(queue, cpu[u], u)
           /\ added' = added \cup {u}
           /\ lock' = [lock EXCEPT ![cpu[u]] = 0]
    /\ adding' = [adding EXCEPT ![t] = NoThread]
    /\ sched_enable_preempt(c, t)
    /\ UNCHANGED <<status, cpu, resched, current, quantum, ipi,
                   active_threads, ctx, wakee>>

-----------------------------------------------------------------------------
(* Interrupts.                                                             *)

\* sched_decrease_quantum, run by the timer interrupt.
sched_decrease_quantum(c) ==
    /\ quantum' = [quantum EXCEPT ![c] = (@ + QuantumMod - 1) % QuantumMod]
    /\ resched' = IF quantum[c] = 1 THEN resched \cup {current[c]} ELSE resched

\* dispatch_irq: CPU c takes an interrupt whose handler may wake one thread.
IrqEnter(c, w) ==
    /\ ctx[c] \in {"thread", "softirq"}
    /\ ctx' = [ctx EXCEPT ![c] = IF @ = "thread" THEN "irq" ELSE "irq2"]
    /\ wakee' = [wakee EXCEPT ![c] = w]

Tick(c) ==
    /\ ctx[c] = "softirq" => NestedTicks
    /\ \E w \in Wakeable \cup {NoThread} : IrqEnter(c, w)
    /\ sched_decrease_quantum(c)
    /\ UNCHANGED <<status, cpu, added, queue, current, lock, preempt, ipi,
                   active_threads, tpc, adding>>

DeviceIrq(c) ==
    /\ quantum[c] < MaxQuantum
    /\ \E w \in Wakeable \cup {NoThread} : IrqEnter(c, w)
    /\ UNCHANGED <<status, cpu, added, resched, queue, current, lock, quantum,
                   preempt, ipi, active_threads, tpc, adding>>

\* The handler's thread_wake_up; it spins while scheduler_lock is taken.
IrqWakeUp(c) ==
    /\ wakee[c] # NoThread
    /\ thread_wake_up(c, wakee[c])
    /\ wakee' = [wakee EXCEPT ![c] = NoThread]
    /\ UNCHANGED <<cpu, added, current, lock, quantum, preempt,
                   active_threads, ctx, tpc, adding>>

\* The flag is cleared before the preemption is attempted.
check_for_resched(c, count, back) ==
    IF current[c] \in resched
    THEN /\ resched' = resched \ {current[c]}
         /\ sched_preempt_thread(c, count, back)
    ELSE /\ ctx' = [ctx EXCEPT ![c] = back]
         /\ UNCHANGED <<resched, quantum>>

\* irq_handler after dispatch_irq: softirqs first, if preemption allows.
IrqSoftirq(c) ==
    /\ ctx[c] = "irq"
    /\ wakee[c] = NoThread
    /\ preempt[c] = 0
    /\ preempt' = [preempt EXCEPT ![c] = 1]
    /\ ctx' = [ctx EXCEPT ![c] = "softirq"]
    /\ UNCHANGED <<status, cpu, added, resched, queue, current, lock, quantum,
                   ipi, active_threads, wakee, tpc, adding>>

IrqExit(c) ==
    /\ ctx[c] \in {"irq", "irq2"}
    /\ wakee[c] = NoThread
    /\ check_for_resched(c, preempt[c], IF ctx[c] = "irq" THEN "thread" ELSE "softirq")
    /\ UNCHANGED <<status, cpu, added, queue, current, lock, preempt, ipi,
                   active_threads, wakee, tpc, adding>>

\* softirq_handle is done and the interrupted irq_handler goes on.
IrqSoftirqEnd(c) ==
    /\ ctx[c] = "softirq"
    /\ preempt' = [preempt EXCEPT ![c] = 0]
    /\ check_for_resched(c, 0, "thread")
    /\ UNCHANGED <<status, cpu, added, queue, current, lock, ipi,
                   active_threads, wakee, tpc, adding>>

\* cpu_resched: the flag is set and stays set whatever the preemption does.
ReschedIpi(c) ==
    /\ c \in ipi
    /\ ctx[c] \in {"thread", "softirq"}
    /\ quantum[c] < MaxQuantum
    /\ ipi' = ipi \ {c}
    /\ resched' = resched \cup {current[c]}
    /\ sched_preempt_thread(c, preempt[c], ctx[c])
    /\ UNCHANGED <<status, cpu, added, queue, current, lock, preempt,
                   active_threads, wakee, tpc, adding>>

-----------------------------------------------------------------------------
ThreadStep(c, t) ==
    \/ SetState(c, t) \/ Die(c, t) \/ Yield(c, t)
    \/ DisablePreempt(c, t) \/ EnablePreempt(c, t)
    \/ SoftirqEnd(c, t) \/ ReschedIfNeeded(c, t) \/ ClearResched(c, t)
    \/ WakeUp(c, t)
    \/ \E u \in Threads : ThreadAdd(c, t, u)
    \/ AppendLock(c, t) \/ AppendUnlock(c, t)

CpuStep(c) ==
    \/ Switch(c)
    \/ Tick(c) \/ DeviceIrq(c) \/ IrqWakeUp(c)
    \/ IrqSoftirq(c) \/ IrqSoftirqEnd(c) \/ IrqExit(c)
    \/ ReschedIpi(c)

Next == \E c \in Cpus : CpuStep(c) \/ \E t \in Threads : ThreadStep(c, t)

Spec == Init /\ [][Next]_vars

\* CPU c runs a thread that the clock may preempt now.
Preemptible(c) ==
    /\ ctx[c] = "thread"
    /\ preempt[c] = 0
    /\ status[current[c]] \notin {"INTERRUPTIBLE", "UNINTERRUPTIBLE"}

(* The fairness of the hardware and of well-behaved kernel code.           *)
(*  - A CPU goes on with what it is doing: interrupt handlers, softirqs    *)
(*    and context switches end, spin-lock sections are left again, and a   *)
(*    thread that announced a sleep gets to its sched_yield.  Interrupts   *)
(*    may disable these steps for a while, hence strong fairness.          *)
(*  - The periodic timer keeps ticking, and it is not synchronised with    *)
(*    the spin-lock sections: it also hits a thread outside of them.       *)
(*  - Not every tick that asks for a reschedule finds softirqs pending: an *)
(*    interrupt that nests in their handling takes the request away.       *)
LeaveSection(c, t) ==
    \/ EnablePreempt(c, t) \/ SoftirqEnd(c, t)
    \/ ReschedIfNeeded(c, t) \/ ClearResched(c, t)
    \/ AppendLock(c, t) \/ AppendUnlock(c, t)

Fairness ==
    \A c \in Cpus :
        /\ WF_vars(Switch(c) \/ IrqWakeUp(c) \/ IrqExit(c))
        /\ SF_vars(IrqSoftirqEnd(c))
        /\ SF_vars(Preemptible(c) /\ Tick(c))
        /\ SF_vars(IrqExit(c) /\ ctx'[c] = "preempted")
        /\ SF_vars(\E t \in Threads : LeaveSection(c, t))
        /\ SF_vars(\E t \in Threads : status[t] # "RUNNABLE" /\ Yield(c, t))

FairSpec == Spec /\ Fairness

-----------------------------------------------------------------------------
(* Properties.                                                             *)

QueueType == [Cpus -> [Prios -> Seq(Threads)]]

Quanta == 0 .. (QuantumMod - 1)

TypeOK ==
    /\ status \in [Threads -> Statuses]
    /\ cpu \in [Threads -> Cpus]
    /\ added \subseteq Threads
    /\ resched \subseteq Threads
    /\ queue \in QueueType
    /\ current \in [Cpus -> Threads]
    /\ lock \in [Cpus -> Nat]
    /\ quantum \in [Cpus -> Quanta]
    /\ preempt \in [Cpus -> Nat]
    /\ ipi \subseteq Cpus
    /\ active_threads \in [Cpus -> Nat]
    /\ ctx \in [Cpus -> Contexts]
    /\ wakee \in [Cpus -> Threads \cup {NoThread}]
    /\ tpc \in [Threads -> ThreadPoints]
    /\ adding \in [Threads -> Threads \cup {NoThread}]

\* The run queues are sound: whatever the order of wake-ups, preemptions and
\* state changes, a queue holds only runnable threads of its own CPU and
\* priority, each of them once and none of them running (the assertions of
\* __sched_append_to_queue).
QueuesSound ==
    /\ \A c \in Cpus : \A p \in Prios : \A i \in DOMAIN queue[c][p] :
          LET t == queue[c][p][i]
          IN  /\ t \in added
              /\ cpu[t] = c
              /\ Priority[t] = p
              /\ status[t] = "RUNNABLE"
              /\ current[c] # t
              /\ \A j \in DOMAIN queue[c][p] : queue[c][p][j] = t => j = i
    /\ \A c \in Cpus : current[c] \in added /\ cpu[current[c]] = c

\* No thread is lost: a runnable thread that was added is running or queued.
\* A wake-up that races with the target's own sched_yield may not leave it
\* runnable and off every queue (the two cases of __thread_wake_up).
NoThreadLost ==
    \A t \in added :
        status[t] = "RUNNABLE" => Queued(t) \/ current[cpu[t]] = t

\* sched_find_runnable never panics: a CPU that gives up its thread finds one.
AlwaysSomeoneToRun ==
    \A c \in Cpus :
        ctx[c] \in {"yielded", "preempted"} => Ready(Requeued(c), c) # {}

\* An interrupt does not put a thread to sleep: a thread that has stored
\* INTERRUPTIBLE or UNINTERRUPTIBLE but has not called sched_yield keeps the
\* processor (THREAD_ACTIVE), so it still gets to re-check its condition.
PreemptionKeepsSleepers ==
    \A c \in Cpus :
        ctx[c] = "preempted" =>
            status[current[c]] \notin {"INTERRUPTIBLE", "UNINTERRUPTIBLE"}

\* The processor changes hands only with preemption enabled, and a thread
\* inside the critical section of sched_append_to_queue is on its processor:
\* nobody spins on scheduler_lock while its holder waits in a run queue.
LockHolderRuns ==
    \A c \in Cpus :
        /\ ctx[c] \in {"yielded", "preempted"} => preempt[c] = 0
        /\ \A d \in Cpus :
              lock[d] = c + 1 =>
                  /\ tpc[current[c]] = "adding"
                  /\ cpu[adding[current[c]]] = d
                  /\ preempt[c] > 0

\* The quantum of a thread that is executing is never exhausted, so the next
\* tick cannot wrap the uint32_t counter and disable preemption by the clock.
QuantumNeverWraps ==
    \A c \in Cpus :
        /\ ctx[c] = "thread" => quantum[c] > 0
        /\ quantum[c] # QuantumMod - 1

\* No interrupt handler spins on a scheduler_lock that the code it interrupted is
\* holding.  sched_append_to_queue, which takes the lock with interrupts enabled,
\* does not ensure it.
WakeUpIrqSafe ==
    \A c \in Cpus :
        wakee[c] # NoThread => lock[cpu[wakee[c]]] # c + 1

\* Round robin: a queued thread that nobody outranks gets the processor, even
\* when its equals never give it up, because the clock takes it from them;
\* unless a handler spins for ever on the lock of the thread_add it interrupted.
RoundRobin ==
    []WakeUpIrqSafe =>
        \A t \in Threads :
            (\A u \in Threads : Priority[u] <= Priority[t]) =>
                (Queued(t) ~> current[cpu[t]] = t)

\* The scheduler keeps its contract with the sleeping primitives.
ContractKept == TS!TSSpec
=============================================================================
