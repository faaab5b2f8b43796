# A TLA+ model of how the Onyx kernel sleeps, wakes, interrupts and exits

This directory models the part of the Onyx kernel on which everything else
sleeps and wakes (the per-CPU scheduler, the sleeping locks, semaphores, condition
variables and wait queues), what is built directly on it (deferred procedure
calls, process events, pipes, processes with `wait4` and signals, futexes with
musl's condition variables on top), and the interrupt side (softirqs, clock
events, the receive path of a network interface). TLC checks each model on small
instances. TLAPS proves the safety properties of the scheduler, the mutex, the
read/write lock, the semaphore, the deferred calls, the process events, the pipe, the
processes, the futexes and the clock events for every value of the constants.

`PROJECT.json` lists the components, the runs, the lines each definition
translates, the hazards and the theorems. To repeat a run:
`tlc -config MCMutex.cfg MCMutex`; to repeat proofs: `tlapm LockProofs.tla`, and
so on for every module whose name ends in `Proofs`.

## The system

Onyx is a POSIX-like kernel. Its parts, and how they lean on each other:

| Part | Source (under `src/kernel/kernel/`) | Sleeps on / calls | Here |
|---|---|---|---|
| Scheduler: run queues, preemption, quanta, reschedule IPI | `sched/scheduler.cpp`, `arch/x86_64/{irq,cpu,thread}.cpp` | the hardware | `Sched`, proofs |
| Mutex | `sched/mutex.cpp` | scheduler | `Mutex`, proofs |
| Read/write lock | `sched/rwlock.cpp` | scheduler | `RwLock`, proofs |
| Semaphore | `sched/scheduler.cpp` | scheduler | `Semaphore`, proofs |
| Condition variable | `sched/scheduler.cpp` | mutex, scheduler | `ProcEvent`, proofs |
| Wait queue, `wait_for_event` | `wait_queue.cpp`, `wait_queue.h` | scheduler | `Pipe`, `Process`, proofs |
| Deferred procedure calls | `dpc.cpp` | semaphore | `Dpc`, proofs |
| Process events (tracing) | `proc_event.cpp` | condition variable, semaphore | `ProcEvent`, proofs |
| Pipes | `fs/pipe.cpp` | mutex, wait queue, signals | `Pipe`, proofs |
| Processes: fork, vfork, exit, `wait4` | `process.cpp` | wait queue, signals | `Process`, proofs |
| Signals: stop, continue, kill | `signal.cpp` | scheduler | `Process`, proofs; the sender to a sleeper in `LockCall`, `Pipe` |
| Futexes | `futex.cpp` | scheduler, spinlocks | `Futex`, proofs |
| User-space mutexes, condition variables | `src/musl/src/thread/` | futexes | `PthreadCond`, proofs |
| Clock events | `timer.cpp` | interrupts, softirqs | `Timer`, proofs |
| Softirqs | `softirq.cpp` | interrupts, preemption counter | `Softirq`; their effect on preemption in `Sched` |
| Network interfaces, receive side | `net/netif.cpp` | softirqs | `Softirq` |
| Cross-CPU calls | `smp.cpp` | spinlocks, IPIs | not modelled |
| Memory, VFS, page cache, network, drivers | `mm/`, `fs/`, `net/`, `drivers/` | all of the above | not modelled |

## The modules

```
ThreadState   the contract of the scheduler: status, parked
   ^  implemented by Sched (ContractKept)
   |  used by
   +-- LockCall <--- Mutex, RwLock, which implement LockSpec
   +-- Semaphore <-- Dpc
   +-- ProcEvent     (condition variable; mutex and semaphore by contract)
   +-- Pipe          (wait queue; mutex by contract)
   +-- Process       (wait queue; exit, wait4, signals)
   +-- Futex <------ PthreadCond
Timer <- Softirq     (one processor: thread, softirq and interrupts)
Sched <- SchedProofs
WaitListProofs <- LockProofs (Mutex, RwLock), DpcProofs (Semaphore, Dpc), PipeProofs,
                  FutexProofs, ProcessProofs, EventProofs (ProcEvent, Timer)
```

**ThreadState** says what a primitive may assume of the scheduler. Two facts
per thread: its `status` field, and whether it is `parked`, that is off the
processor and off every run queue, so that only `thread_wake_up` brings it
back. `set_current_state`, `thread_wake_up` and `sched_yield` are fragments
that the primitives' actions use. `Sched` is shown to implement this contract
(`ContractKept`), with `parked` computed from its run queues; so the primitives
are checked against what the scheduler really does.

**LockSpec** is an abstract read/write lock: callers want, are granted, give up
and release. `Mutex` and `RwLock` implement it. `Pipe` and `ProcEvent`, which
use a mutex, have a holder and callers that wait for there to be none.

**WaitList** holds the operations of `list.h` on lists of waiting threads.

**Sched.** State: `status`, `cpu`, `queue[cpu][prio]`, `current`,
`quantum`, `preempt` (preemption counter), `resched` (THREAD_NEEDS_RESCHED),
`ipi`, `lock` (who is inside `sched_append_to_queue`, the one section of
`scheduler_lock` that runs with interrupts enabled), `ctx` (what each CPU is
executing) and `tpc` (where a thread is in the scheduler's code). Actions are
thread steps (sleep, die, yield, disable and enable preemption, wake another,
add a thread) and CPU steps (context switch, timer tick, device interrupt that
wakes, softirq section on the interrupt exit path, reschedule IPI). A section
that runs with interrupts disabled under `scheduler_lock` is one step.

**LockCall** is what the callers of both locks share: a program counter, the calls left,
and the signals sent to interruptible ones in the three steps of `kernel_tkill`: mark
pending, look at the status, wake.

**Mutex.** The owner word, the wait list, and program counters that
follow `mutex_lock_slow_path`. The steps of `mutex_prepare_sleep`, of the
second trylock, of `commit_sleep` and of the dequeueing interleave with the two
halves of `mutex_unlock`.

**RwLock.** The same for the word that counts readers; the last reader wakes
one waiter, a writer wakes all.

**Semaphore, Dpc.** `sem_signal` adds a unit before it takes the spinlock; a
waiter takes a unit, or queues and blocks. `Dpc` extends it with three queues
of work, schedulers of work that may fail to allocate, and the worker thread.

**ProcEvent.** The target's stop at a system call, notifying a linked list of
subscribers without the list's lock; `condvar_wait`, which lets go of the mutex
before it queues the thread; attaching, reading, acknowledging, closing.

**Pipe.** The loops of `pipe::read` and `pipe::write`, the macro
`wait_for_event_mutex_interruptible`, both ends closing without `pipe_lock`, and
signals. Looking at the condition, announcing the sleep, queueing, looking again,
leaving the queue and becoming RUNNABLE again are steps of their own. `wait_queue_add`
and `wait_queue_remove` end in `irq_restore`, which may take the processor from the
thread that has announced its sleep (`Resched`), here while it holds `pipe_lock`. Bytes
are named by the call that wrote them.

**Process.** Families of processes with their threads; `Elders` are there at the
start with pid 1, which never exits. `fork` and `vfork` with the completion on the
parent's stack, `clone`, `exec` (which kills the other threads), `exit`, `wait4`,
`pause` and `kill` are system calls; what follows is a program counter per thread.
A process is destroyed by whoever puts its last reference (`process_put`), that is
its parent in `wait4` or a `fork` or `kill` that held one. Only main threads exit
and exec. An exit is ten
steps (kill the other threads, wait to be alone, mark the group, three accesses
to the frame of a `vfork`, reparent, become DEAD, publish the status and wake
the parent, yield), a stop is six. `wait4` looks, announces, queues and looks
again as `wait_for_event` does; collecting a child and freeing it are separate
steps. After each unlock inside the macro, of the wait queue or of a lock that its
condition takes (`Unlocked`), a thread that has announced its sleep may lose the
processor (`Resched`). Signals go to the first thread of the target under its
`signal_lock`.

**Futex, PthreadCond.** Buckets with locks and lists, `futex_wait` from its look at
the word to its last look at the list, wake and requeue. A timed wait queues the clock
event of `sched_sleep` and then announces its sleep, again if it was woken meanwhile;
the event comes once (`armed`), at any time from then on. `PthreadCond` adds the user
side: the mutex and the condition variable of musl, whose nodes, barriers and
counters are on the stacks of their threads. A thread's remaining work is a
sequence of operations on words, each of which is a step or a system call.

**Timer, Softirq.** One processor with a thread, the softirq on top of it and
interrupts on top of both. A pass over the clock events splits into the interrupt
that runs the atomic ones and the softirq that takes the others; a second processor
cancels. Time is relative to now, so that it needs no bound. The softirq also
polls a network interface whose driver masks its interrupt meanwhile.

## What the runs check

| Run | Instance | Shows |
|---|---|---|
| `sched_one_cpu` | 1 CPU, idle thread, two equal threads, one added later | announced sleepers not preempted, lock holders on the processor, quantum never wraps, a queued thread nobody outranks gets the processor |
| `sched_two_cpus` | 2 CPUs, two threads of different priority on the first, woken from both | run queues sound, nobody lost and the contract kept with wakeups across CPUs, reschedule IPIs and preemption disabled and enabled |
| `mutex` | 3 threads, 2 calls each, one interruptible | exclusion, an exact wait list, refinement of `LockSpec`, and completion while neither signal nor reschedule disturbs |
| `rwlock` | 2 readers, 2 writers, one interruptible | refinement of `LockSpec`, no stranded waiter, readers share, completion |
| `dpc` | 3 items, 2 priorities, 1 worker | each item runs once and in order, all get done, every unit of the semaphore has a taker |
| `proc_event` | three subscribers, the first of which may close, and one that comes and goes | unless somebody closes during a stop, the target is held until those that stay have acknowledged and no event is lost; acknowledgements let it proceed |
| `pipe` | a reader, a small and a large writer, signals, either end closing | the stream is intact, small writes are atomic, no wakeup lost but to a thread put to sleep inside the macro, all complete unless a writer spins or such a thread stays asleep |
| `process_family` | pid 1, a parent, a child of two threads; vfork, exec, stop, continue, kill, exits of both generations | nothing freed in use, the family tree consistent, the vfork frame in use, no change of a child missed by a sleeping `wait4`, but for one put to sleep inside the macro |
| `process_signals` | the same with fork and two signals to the child at any time | `wait4` and `vfork` return and SIGKILL kills, unless a thread put to sleep inside the macro stays asleep |
| `pthread_cond` | two waiters, one with a timeout, a signaller | futex lists exact, futex queues and condition nodes on live stacks, everybody returns unless the timed wait sleeps past its event |
| `softirq` | three clock events, two packets | events are armed and fire, a cancelled one is silent, packets are received |

One run is expected to fail, because the code does not do what it says.
`process_status`: `SIGNAL_GROUP_EXIT` is set well before the exit code is stored
(`process.cpp:904` and `:929`), so `wait4` may report status 0 for a child that
asked for another.

### Windows left out of the properties

Some orders of steps do lose a wakeup in this code. The properties say what holds
outside of them, with a history variable or a state predicate that names the window;
without the exclusion TLC finds the behaviour that hangs or, for `ProcEvent`, a target
that goes on too early and, for `Futex`, the access to a frame that is gone.

* `WakeUpIrqSafe` (`Sched`): `thread_wake_up` is said to be safe in interrupts
  (`scheduler.cpp:576`), but `sched_append_to_queue` takes `scheduler_lock` with
  interrupts enabled; a handler on that CPU then spins on it.
* `UndisturbedComplete` (`Mutex`) excludes reschedules and signals: the `spin_unlock` that ends
  `mutex_prepare_sleep` may give up the processor when the thread's status is a
  sleep already, before the second trylock; the wakeup may have passed.
  A waiter that a signal and an unlock reach together leaves with `-EINTR`, and the
  next one is not woken.
* `disturbed` (`ProcEvent`): an acknowledgement that comes before the target is
  queued on its condition variable wakes nobody, against `doc/procevent.md:26`; and
  the count of acknowledgements is compared with the present number of subscribers,
  which attaching and closing change during a stop. It also covers the closing of the
  first subscriber of the list, at any time: `__remove_from_list` returns without the
  decrement then (`proc_event.cpp:44`), so that `nr_subs` stays too large and the next
  stop never ends. `AcksLetProceed` claims nothing after any of the three;
  `HeldUntilAcked` and `EventsDelivered` do cover the closing of the first between stops.
* `deserted` (`ProcEvent`): a subscriber that acknowledges a stop and closes during it
  is no longer counted, while its acknowledgement is (`proc_event.cpp:41`, `:197`). The
  count is complete before another subscriber has acknowledged, and the target goes on.
  `HeldUntilAcked` and `EventsDelivered` claim nothing after it.
* `Overslept` (`Pipe`, `Process`): a thread that has announced its sleep calls
  `wait_queue_add`, whose `irq_restore` (`platform/irq.h:66`) yields if a reschedule was
  requested; the request is still there because the scheduler does not preempt an
  announced sleeper (`scheduler.cpp:342`). The thread is parked before its second look
  at the condition and at its signals (`wait_queue.h:64`), or, in `wait_queue_remove`,
  when it is off the queue already. What happened before it was queued (the other end
  of a pipe closed, a child exited, SIGKILL was sent) then wakes nobody; and in a pipe
  the thread is parked with `pipe_lock`, so that everybody else waits for it. It is the
  window of `UndisturbedComplete` in other code. `NoStrandedSleeper` says of which
  threads and after which events it may happen, and the liveness properties
  (`AllComplete`, `WaitReturns`, `KillKills`) allow it as an outcome: such a thread that
  sleeps for ever. One that is woken after all is covered.
* `Overslept` (`Futex`): the event of `sched_sleep` comes once and may come before the
  sleep is announced again (`scheduler.cpp:587`), or a reschedule may park the thread
  before the event is queued (`wait_queue.h:129`). It then sleeps without a timeout, and
  for ever if its wake was used up as well. `AllReturn` allows that outcome; the safety
  properties hold in it.
* `Spins` (`Pipe`): a small write is woken by any room, and loops with `pipe_lock`
  held if there is too little. `AllComplete` allows a writer that does so for ever.
* `raced` (`Process`): a thread that is DEAD and preempted before it wakes its
  parent never runs again; `process_reparent_children` gives orphans to pid 1 and does
  not wake it, so that one that is dead already is seen only if its parent, by exiting,
  wakes pid 1 anyway; and a stop is decided outside of the locks under which
  SIGCONT and SIGKILL undo it, although the comment at `signal.cpp:496` says that
  they make it immune to races.
* Two more are left out of `Process` itself. `kill` of a zombie whose threads are gone
  takes the first thread of an empty list (`signal.cpp:404`, `list.h:121`), which is a
  null pointer less an offset; the model's `kill` needs a thread. And `process_exit`
  reads `current->parent` without a lock (`process.cpp:932`, `:954`) while
  `process_reparent_children` changes it; the model reads it once per step.
* `raced` (`Futex`): a requeued waiter that times out unlinks itself, and leaves its
  frame, under the lock of the bucket it started in, while a wake holds the lock of the
  bucket it is in by now. What such a wake then does is undefined, so `QueueInUse` and
  `AllReturn` claim nothing after it.
* `rx_lost`, `broken` (`Softirq`, `Timer`): `softirq_handle` writes back the vectors it
  read before it handled them, so that a raise in between is lost (the timer
  recovers at the next tick, the network does not); and the softirq's pass over
  clock events unlinks the head of its list instead of the event it handled. The list
  is corrupt then, and the model stops (`broken`).

### Bounds

Bounds cap calls per thread (`Rounds`, `Calls`, `Waits`, `Signals`, `Syscalls`),
nesting and deaths in `Sched` (`MaxPreempt`, `MaxDeaths`, `MaxQuantum`). Three
threads are the least with which a waiter, an owner and a third that overtakes
exist; two calls let a thread come back while its former waiter is still on its
way. The pipe's buffer holds two bytes, one write fills it and one exceeds it.
`QuantumMod` stands for 2^32; the quantum's wrap-around is modelled with it.
`NestedTicks = FALSE` says that a softirq ends within a tick: with longer ones
the nested tick does wrap the quantum, and `QuantumNeverWraps` fails.

`Process` has one child to fork and bounds `kill` and `wait4` calls (`MaxKills`,
`MaxWaits`): two signals are a stop and what undoes it. `process_family` forks by
`vfork` only, which is a fork once the child has called exec; `process_signals` has
both, `pause` by the child's second thread, and no exit of the parent. In `PthreadCond` the mutex and the other words are
in two buckets, so that requeueing changes the bucket. `MaxDelay` is the longest
delay of a clock event; with 2 one event is due before, with and after another.
In `ProcEvent` two subscribers that stay are the least for which one acknowledges while
the other has yet to; one before them may close, so that the head of the list goes, and
one may come and go behind them; `Syscalls` = 4 leaves stops before, during and after.

Deadlock checking is off where the bounded workload ends.

### Fairness

A runnable thread gets the processor: for the primitives this is weak fairness
of each thread's steps, justified by `RoundRobin`. In `Sched` itself handlers,
softirqs and context switches end, spinlock sections are left, and the periodic
timer goes on and also hits threads outside such sections. `Pipe` and `ProcEvent`
use strong fairness for a thread that waits for a mutex others take and release. This
is more than `mutex_lock` gives: it assumes that no reschedule falls into
`mutex_prepare_sleep`, the window of `UndisturbedComplete`; with that exclusion the
`mutex` run shows that every caller gets the lock. Reschedules inside the macros
(`Resched`) may happen and are never assumed to.
In `Process` a program that may exit does (strong fairness of `Exit`); `PthreadCond`
needs weak fairness of each thread and of its clock event, once it is queued. In `Softirq` time passes, interrupts that
are due are delivered, softirqs end and a thread enables preemption again.
Signals and closings of the read end are not assumed to happen.

## What is proved

`SchedProofs` proves, for all values of the constants satisfying the assumptions
in `Sched` (idle threads distinct and bound to their CPU, initial queues without
duplicates, quanta within their range):

* `TypeCorrect`, `RunQueuesSound`, `RunnableNotLost`, `SleepersKept`,
  `FindRunnable`, `HolderOnProcessor`: the invariants of the two `sched` runs.
* `QuantumKept`, that is `QuantumNeverWraps`, from `QuantumFits`: softirqs end before
  the next tick and the quanta given out are below the last value of the counter. A
  quantum that has run out is known to the interrupt or softirq that will act on it
  (`QuantumInv`); without the first condition the run shows that it does wrap.

They follow from `Invariance`: `Spec => []IInv`. `QueuesSound` and
`NoThreadLost` are not inductive alone. A woken thread is appended to a queue
only because it is off every queue, which needs the other direction of the
invariant; a thread being added must be known by one adder only (`AddingInv`);
the idle thread must be runnable for its CPU to find somebody (`IdleInv`);
handlers must not wake the dead (`WakeeInv`); and the holder of `scheduler_lock`
stays on its processor since the preemption counter is not zero, which needs the
counter to be related to where the thread is (`PreemptInv`, `LockInv`).

`ContractRefinement` is `Spec => ContractKept`: every step of the scheduler is a step of
the contract in `ThreadState`, or a stutter. The mapping computes `parked` from the
run queues; under `IInv` a thread is parked exactly when it has not been added yet,
or is neither runnable nor current (`ParkedForm`), so the queues drop out of the
argument. A switch is then the yield of the thread that leaves the processor, a
wake-up and the end of `thread_add` are wakes, and `set_current_state` is itself.

`LockProofs` proves of the mutex, for any finite or infinite set of threads and any number of
calls per thread, with signals and reschedules wherever the code allows them:

* `Exclusion` and `WaitListKept`: `OwnerIsOwner` and `WaitListExact`, which with
  `TypeOK` are inductive together. The owner word needs the types only; a list node
  is added or removed safely only because `WaitListExact` says who is on the list.
* `Refinement`: `Spec => ImplementsLock`. The lock is granted at the successful
  trylock, where `OwnerIsOwner` shows that nobody holds it; a waiter that returns
  `-EINTR` gives up at its last look at the signals; everything about the list
  and the scheduler is a stutter.

`WaitListProofs` holds what the other proofs need of lists of threads without
duplicates: appending, removing and popping change the members by one.

`DpcProofs` begins with the semaphore, for finite sets of waiters and signallers: `QueueKept`, the queue
holds exactly the threads that are blocked and not woken; and `NoUnitStranded`, that
is `UnitsHaveTakers`. The inequality between units, threads on their way to the
counter and wakeups to come is kept because `sem_signal` adds its unit and its wakeup
together, and the spinlock is held from the look at the counter to the queueing;
the proof counts with the cardinality theorems.

Then `UsesSemaphore` shows that a behaviour of `Dpc` is one of `Semaphore`, so
that the semaphore's invariant can be used; `EachWorkOnce` and `WorkerNotAsleep` (no
accepted work while the worker sleeps, unless a signal is still to come) follow
with an invariant that relates queues, units and the worker's place. `FifoOrder`, that is
`FifoWithinPriority`, needs besides that of two items of a priority the later one is
queued behind the earlier one for as long as that is queued (`InOrder`).

The second part of `LockProofs` is about the read/write lock, for any number of calls and
any limit of the count. The readers are counted, so its theorems have the hypothesis that
the set of threads is finite, which those of the mutex do not need. `WordCounts` (the
word is the number of readers, or the writer's value with exactly one writer) is what
both other theorems need: `RwRefinement`, the contract of `LockSpec`, and
`NobodyStranded`. The last reader wakes one waiter only,
which is enough because the woken thread is awake and about to try, or wakes
again when it unlocks.

`SharedReading`, that is `ReadersShare`, holds if there are fewer readers than the
count has values for them (`FewReaders`): a reader that finds the count full sleeps
because of readers.

`PipeProofs`, for any number of readers, writers, calls and signals and any sizes:
`Stream`, `Atomicity` and `NoLostWakeup`, that is `StreamIntact`, `SmallWritesAtomic`
and `NoStrandedSleeper`. The invariant says who holds `pipe_lock` (`LockInv`), who is on
a wait queue (`QueueInv`), how far each end is closed (`CloseInv`), for which condition
a sleeper sleeps and who will wake it if it holds (`SleepInv`), and that a small write
in progress has written nothing yet (`AtomicInv`). The two ends close
without the lock, so `SleepInv` must cover a sleeper from its look at the condition
to its yield, the steps between announcing, queueing and looking again included. The
exception for a thread that a reschedule parks inside the macro is part of
`NoStrandedSleeper`: it holds `pipe_lock` and has left the queue, or the other end was
closed before it was queued.

`FutexProofs` first proves the kernel's side for any program, one that stores what it
likes and makes any calls (`FutexSpec`): `AnyProgramLists` and `AnyProgramQueues`, that
is `ListsExact` and `QueueInUse`. Needed besides the types are who holds a bucket's lock
(`LocksHeld`), and that a waiter is woken by one thread, at the address it waits for,
and sleeps until then unless it has a timeout (`WakesSound`), and that a clock event is
queued only for a timed wait within its sleep (`EventsOwned`). Reschedules and early
timeouts are in; neither is an exception to these two. `MuslIsAProgram` shows that `PthreadCond` is such a program,
for any number of waiters, so that both hold of it (`CondLists`, `CondQueues`).

`EventProofs` has two parts, of which the first is about clock events, for any finite set
of them and any delays, with the packets of the network in the softirq between them:

* `ClockEventsArmed`, that is `EventsArmed`: no event on the timer's list is due before
  the timer goes off, but for those an interrupt has left to the softirq. Each step that
  sets the timer again takes the least deadline it leaves on the list, and queueing an event
  never sets it later.
* `ClockEventsSilent`, that is `CancelledSilent`: a cancelled event is on neither of the
  lists whose callbacks are still to run, unless the softirq had it in hand.

Their invariant `TimerInv` says where events can be (`EventPlaces`: on one of two lists,
marked and attached on the timer's, unattached on the softirq's) and that the softirq's
list exists only within its pass (`HandlingWhen`).

The second part is about process events, for any number of subscribers and stops, and any of
them attaching and closing: `TargetHeld` and `EventsKept`, that is `HeldUntilAcked` and
`EventsDelivered`. That the last acknowledgement is the last is a matter of counting, so
the invariant `PEInv` needs that every linked subscriber is counted in `nr_subs` and
the acknowledgements in `nr_acks` are those of this stop (`Counts`); that the links form
a list along which those from the cursor on have not been notified yet (`ListInv`); that
a subscriber has acknowledged all it has seen or is about to (`SubInv`); and that only the
one who completed the count signals, which wakes the target once (`TargetInv`). Attaching
changes the list while the target walks it, without the lock. All of it holds only while
nobody has closed during a stop; any subscriber may close between stops, and `nr_subs` is
then at least the number of those linked, not equal to it.

`ProcessProofs`, for any processes, threads and signals and any program of each
thread, in four inductive invariants:

* `ThreadsInv`: the list of a process holds exactly its threads that have started and
  not gone; only the main thread exits or execs, and it is alone from then on. It gives
  `Threading` and `NoEarlyFree`, that is `NothingFreedInUse`.
* `VforkInv`: as long as a child has a `vfork_completion`, its parent is in the loop
  that waits for it. It gives `VforkFrames`.
* `TreeInv`: who holds a reference of a child, who is on which list of children, and
  that a process that is past its reparenting has none. It gives `FamilyTree`, that is
  `TreeConsistent`.
* `SleepInv`: a thread that has announced its sleep is on the queue of its process, and
  each child with something to report has a thread on its way to the wakeup, unless a
  reschedule has parked the sleeper inside the macro. It gives `SleepersTold`, that is
  `SleeperMissesNothing`.

The last two have the hypothesis `OneFamilyThread`: one thread of each process forks,
kills and waits. It is needed. With two such threads and two children TLC finds
that `wait4` collects a child and takes its reference count to 0, a `kill` of the other
thread takes it to 1 and back, and `process_end` runs a second time; in the code
the second `process_remove_from_list` then fails its assertion at `process.cpp:779`.
The instance of the runs satisfies it.

The steps inside `ThreadsStep`, `VforkStep`, `TreeStep` and `SleepStep` that have names
are the lemmas of each invariant, kept where they are used; most leaves ask for `Zenon`
since they need no arithmetic.

Only model-checked: all liveness, which under fairness is out of the prover's reach,
with `RoundRobin` of `Sched`; and `NodesInUse` of `PthreadCond`, an invariant. Its proof
would need the shape of musl's doubly linked list of nodes as `pthread_cond_signal` cuts
it, with the place of every thread in the sequence of its remaining operations; the
kernel's side of the same hazard, `QueueInUse`, is proved.

## What is not modelled

* Processes: several waiters in one process, `WNOHANG`, `WNOWAIT`, waiting for a given
  child, process groups and sessions, resource usage. Signals: handlers, masks,
  real-time queues, job control by terminals.
* Futexes: `FUTEX_CMP_REQUEUE`, shared keys, several waiters per call, signals to
  sleepers. musl: shared, recursive and robust mutexes, cancellation.
* Clock events of several processors' timers, interval timers and sleeping on top
  of them; the removal of a network interface.
* The spinning `rwslock`; condition variable broadcast; tokens with callbacks;
  `O_NONBLOCK`, faults while copying, and `poll` in pipes; interrupts that signal a
  semaphore on the CPU of its waiter.
* The scheduler's FPU and address-space switching, CPU time accounting and `perf`
  hooks.
* Cross-CPU calls (`smp.cpp`, which runs the functions with the queue's lock held) and
  the guards of the C++ runtime (`cpprt.cpp`): small, next in line.
* Memory management, file systems, terminals, drivers and the rest of the network
  are listed in `PROJECT.json` with the reasons. The repository is a whole operating
  system, C library, user programs and imported projects included, of which the
  concurrent core modelled here is a small share of the lines.

## Plan

1. `SyncCall`: cross-CPU calls; `CxaGuard`.
2. The sessions and groups of `pid.cpp` over `Process`; several waiters.
3. Proof of `NodesInUse` of `PthreadCond`.
4. Later: TCP's connection states; the page cache and its flush thread.
