------------------------------ MODULE Process ------------------------------
(***************************************************************************)
(* The life of processes: fork and vfork, exit, wait4, and the signals     *)
(* that stop, continue and kill a whole thread group (kernel/process.cpp,  *)
(* kernel/signal.cpp), over the wait_for_event loop of wait_queue.h.       *)
(*                                                                         *)
(* All processes are in one session, in which no process group is ever     *)
(* orphaned, and SIGCHLD has its default action, which is to ignore it.    *)
(* SIGSTOP and SIGKILL cannot be blocked, so no mask appears.              *)
(*                                                                         *)
(* The macro announces a sleep before it queues its token, and each unlock *)
(* from there on may give up the processor to a reschedule that was        *)
(* requested, and so put the thread to sleep before its time.              *)
(***************************************************************************)
EXTENDS ThreadState, WaitList, FiniteSets

CONSTANTS
    Procs, InitProc,   \* the processes, and pid 1
    Elders,            \* the children of pid 1 at the start
    Owner,             \* the process of each thread
    Main,              \* the thread a process starts with
    Ops,               \* what each thread asks of the kernel
    Signals,           \* the signals that are sent
    MaxKills,          \* bound: calls of kill
    MaxWaits,          \* bound: calls of wait4 by one thread
    Nobody

ASSUME ProcessAssumption ==
    /\ InitProc \in Procs
    /\ Elders \in Seq(Procs \ {InitProc}) /\ Distinct(Elders)
    /\ Owner \in [Threads -> Procs]
    /\ Main \in [Procs -> Threads] /\ \A q \in Procs : Owner[Main[q]] = q
    /\ Ops \in [Threads -> SUBSET {"fork", "vfork", "clone", "kill", "wait", "pause", "exec", "exit", "stops"}]
    /\ \A t \in Threads : "exit" \in Ops[t] \/ "exec" \in Ops[t] => t = Main[Owner[t]]
    /\ Signals \subseteq {"STOP", "CONT", "KILL"}
    /\ MaxKills \in Nat /\ MaxWaits \in Nat
    /\ Nobody \notin Threads \cup Procs

VARIABLES
    life, refcount, parent, children, thread_list, \* of each process
    signal_lock, group, exit_code, \* its signal_group_flags and wait status
    vfork_compl, done, may_exit,   \* its vfork_completion, on its parent's stack
    sflags, pending, signal_pending, \* sinfo of each thread
    pc, waiting, queued,           \* what a thread waits for, its token is queued
    target, sig,                   \* the arguments of its kill; the child it collects
    asked,                         \* the status each process exits with
    returned,                      \* the status wait4 returned for each process
    kills, waits,                  \* calls made
    raced                          \* a wakeup or a signal may have been missed (history)

procVars == <<life, refcount, parent, children, thread_list>>
lockVars == <<signal_lock, group, exit_code>>
infoVars == <<sflags, pending, signal_pending>>
sigVars == <<lockVars, infoVars>>
vforkVars == <<vfork_compl, done, may_exit>>
histVars == <<asked, returned, kills, waits, raced>>
vars == <<status, parked, procVars, sigVars, vforkVars, pc, waiting, queued, target, sig, histVars>>

\* The processes that exist at the start.
Alive == {InitProc} \cup Members(Elders)

ThreadsOf(q) == Members(thread_list[q])

Init ==
    /\ status = [t \in Threads |-> "RUNNABLE"]
    /\ parked = [t \in Threads |-> FALSE]
    /\ life = [q \in Procs |-> IF q \in Alive THEN "live" ELSE "unborn"]
    /\ refcount = [q \in Procs |-> IF q \in Alive THEN 1 ELSE 0]
    /\ parent = [q \in Procs |-> IF q \in Members(Elders) THEN InitProc ELSE Nobody]
    /\ children = [q \in Procs |-> IF q = InitProc THEN Elders ELSE <<>>]
    /\ thread_list = [q \in Procs |-> IF q \in Alive THEN <<Main[q]>> ELSE <<>>]
    /\ signal_lock = [q \in Procs |-> Nobody]
    /\ group = [q \in Procs |-> {}]
    /\ exit_code = [q \in Procs |-> "0"]
    /\ vfork_compl = [q \in Procs |-> FALSE]
    /\ done = [q \in Procs |-> FALSE]
    /\ may_exit = [q \in Procs |-> FALSE]
    /\ sflags = [t \in Threads |-> {}]
    /\ pending = [t \in Threads |-> {}]
    /\ signal_pending = [t \in Threads |-> FALSE]
    /\ pc = [t \in Threads |-> IF \E q \in Alive : t = Main[q] THEN "user" ELSE "unborn"]
    /\ waiting = [t \in Threads |-> "nothing"]
    /\ queued = {}
    /\ target = [t \in Threads |-> Nobody]
    /\ sig = [t \in Threads |-> "none"]
    /\ asked = [q \in Procs |-> "0"]
    /\ returned = [q \in Procs |-> "none"]
    /\ kills = 0
    /\ waits = [t \in Threads |-> 0]
    /\ raced = FALSE

At(t, p) == pc[t] = p /\ ~parked[t]

Goto(t, p) == pc' = [pc EXCEPT ![t] = p]

\* The threads with a token on wait_child_event of process q.
Waiters(q) == {t \in queued : waiting[t] = "child" /\ Owner[t] = q}

-----------------------------------------------------------------------------
(* fork, vfork and clone.                                                  *)

\* sys_fork_internal up to sched_start_thread: the child has a reference of
\* its own and one of the caller's, and starts with one thread.
ForkChild(t, q, isVfork) ==
    /\ At(t, "user") /\ life[q] = "unborn"
    /\ life' = [life EXCEPT ![q] = "live"]
    /\ parent' = [parent EXCEPT ![q] = Owner[t]]
    /\ children' = [children EXCEPT ![Owner[t]] = Append(@, q)]
    /\ thread_list' = [thread_list EXCEPT ![q] = <<Main[q]>>]
    /\ refcount' = [refcount EXCEPT ![q] = 2]
    /\ vfork_compl' = [vfork_compl EXCEPT ![q] = isVfork]
    /\ target' = [target EXCEPT ![t] = q]
    /\ waiting' = [waiting EXCEPT ![t] = IF isVfork THEN "vfork" ELSE @]
    /\ pc' = [pc EXCEPT ![t] = IF isVfork THEN "wait_first" ELSE "fork_put",
                        ![Main[q]] = "user"]
    /\ UNCHANGED <<status, parked, sigVars, done, may_exit, queued, sig, histVars>>

Fork(t, q) == "fork" \in Ops[t] /\ ForkChild(t, q, FALSE)

Vfork(t, q) == "vfork" \in Ops[t] /\ ForkChild(t, q, TRUE)

\* vfork_completion::wait_to_exit: the child has finished with our frame.
WaitToExit(t) ==
    /\ At(t, "wait_to_exit") /\ may_exit[target[t]]
    /\ Goto(t, "fork_put")
    /\ UNCHANGED <<status, parked, procVars, sigVars, vforkVars, waiting, queued, target, sig, histVars>>

\* Where a thread goes on that has put the process it had a reference of.
AfterPut(t) == IF waiting[t] = "child" THEN "wait_out" ELSE "exit"

\* process_put: whoever drops the last reference goes on with process_end.
process_put(t, q) ==
    /\ refcount' = [refcount EXCEPT ![q] = @ - 1]
    /\ target' = [target EXCEPT ![t] = IF refcount[q] = 1 THEN q ELSE Nobody]
    /\ Goto(t, IF refcount[q] = 1 THEN "reap_unlink" ELSE AfterPut(t))

ForkPut(t) ==
    /\ At(t, "fork_put")
    /\ process_put(t, target[t])
    /\ UNCHANGED <<status, parked, life, parent, children, thread_list, sigVars, vforkVars,
                   waiting, queued, sig, histVars>>

\* sys_clone: process_add_thread, inherit_signal_flags, sched_start_thread.
Clone(t, u) ==
    /\ At(t, "user") /\ "clone" \in Ops[t]
    /\ pc[u] = "unborn" /\ Owner[u] = Owner[t]
    /\ thread_list' = [thread_list EXCEPT ![Owner[t]] = Append(@, u)]
    /\ sflags' = [sflags EXCEPT ![u] = sflags[t]]
    /\ signal_pending' = [signal_pending EXCEPT ![u] = sflags[t] # {}]
    /\ pc' = [pc EXCEPT ![u] = "user", ![t] = "exit"]
    /\ UNCHANGED <<status, parked, life, refcount, parent, children, lockVars, pending, vforkVars, waiting, queued, target, sig, histVars>>

-----------------------------------------------------------------------------
(* kill: kernel_raise_signal and kernel_tkill, which holds signal_lock.    *)

\* The window of signal_do_stop and process_exit in which a thread has
\* decided to give up the processor, and no lock keeps it from being told
\* otherwise.
Stopping(t) == pc[t] \in {"stop_all", "stop_group", "stop_code", "stop_wake", "stop_set", "stop_yield"}

\* Mutant: SIGKILL does not undo a stop.
Special_Cont(q, s) ==
    IF s # "CONT" THEN UNCHANGED <<status, parked, group, exit_code, infoVars>>
    ELSE /\ pending' = [pending EXCEPT ![Main[q]] = @ \ {"STOP"}]
         /\ sflags' = [u \in Threads |-> IF u \in ThreadsOf(q) THEN sflags[u] \ {"STOPPING"} ELSE sflags[u]]
         /\ UNCHANGED <<group, exit_code, signal_pending>>
         /\ wake_up_all(ThreadsOf(q))

\* signal_do_special_behaviour.  SIGCONT and SIGKILL undo a stop: SIGCONT
\* reports it to the parent (notify_process_stop_cont).
Special(q, s) ==
    LET stoppers == {u \in ThreadsOf(q) : "STOPPING" \in sflags[u]}
        reported == s = "CONT" /\ "STOPPED" \in group[q]
    IN  IF s = "STOP" THEN UNCHANGED <<status, parked, group, exit_code, infoVars>>
        ELSE /\ pending' = [pending EXCEPT ![Main[q]] = @ \ {"STOP"}]
             /\ sflags' = [u \in Threads |-> IF u \in ThreadsOf(q) THEN sflags[u] \ {"STOPPING"} ELSE sflags[u]]
             /\ signal_pending' = [u \in Threads |->
                    IF u \in ThreadsOf(q) THEN sflags'[u] # {} \/ pending'[u] # {} ELSE signal_pending[u]]
             /\ IF reported
                THEN /\ group' = [group EXCEPT ![q] = (@ \ {"STOPPED"}) \cup {"CONT"}]
                     /\ exit_code' = [exit_code EXCEPT ![q] = "CONT"]
                ELSE /\ group' = [group EXCEPT ![q] = IF s = "CONT" THEN @ \ {"STOPPED"} ELSE @]
                     /\ UNCHANGED exit_code
             /\ wake_up_all(stoppers \cup IF reported THEN Waiters(parent[q]) ELSE {})

\* A parent signals its child.  The signal goes to the first thread of the
\* process, its main thread.  Of a zombie whose threads are gone there is no
\* first thread, and what list_first_element returns is not checked: such a
\* call is left out.
RaiseSignal(t, q, s) ==
    /\ At(t, "user") /\ "kill" \in Ops[t] /\ kills < MaxKills
    /\ life[q] = "live" /\ parent[q] = Owner[t] /\ thread_list[q] # <<>>
    /\ signal_lock[q] = Nobody
    /\ kills' = kills + 1
    /\ refcount' = [refcount EXCEPT ![q] = @ + 1]
    /\ signal_lock' = [signal_lock EXCEPT ![q] = t]
    /\ target' = [target EXCEPT ![t] = q]
    /\ sig' = [sig EXCEPT ![t] = s]
    /\ Special(q, s)
    /\ queued' = queued \ (IF s = "CONT" /\ "STOPPED" \in group[q] THEN Waiters(parent[q]) ELSE {})
    /\ raced' = (raced \/ (s # "STOP" /\ \E u \in ThreadsOf(q) : Stopping(u)))
    /\ Goto(t, "tkill")
    /\ UNCHANGED <<life, parent, children, thread_list, vforkVars, waiting, asked, returned, waits>>

\* The rest of kernel_tkill: SIGCONT is ignored, another signal is queued
\* unless it is already, and the thread is woken if it can take it.
QueueSignal(t) ==
    LET q == target[t]
        u == Main[q]
        s == sig[t]
        new == s # "CONT" /\ s \notin pending[u]
    IN  /\ At(t, "tkill")
        /\ IF new
           THEN /\ pending' = [pending EXCEPT ![u] = @ \cup {s}]
                /\ signal_pending' = [signal_pending EXCEPT ![u] = TRUE]
                /\ wake_up_all(IF status[u] = "INTERRUPTIBLE" \/ (status[u] = "STOPPED" /\ s = "KILL")
                               THEN {u} ELSE {})
                /\ raced' = (raced \/ (s = "KILL" /\ Stopping(u)))
           ELSE UNCHANGED <<status, parked, pending, signal_pending, raced>>
        /\ signal_lock' = [signal_lock EXCEPT ![q] = Nobody]
        /\ process_put(t, q)
        /\ sig' = [sig EXCEPT ![t] = "none"]
        /\ UNCHANGED <<life, parent, children, thread_list, group, exit_code, sflags, vforkVars,
                       waiting, queued, asked, returned, kills, waits>>

-----------------------------------------------------------------------------
(* The return to user space: handle_signal.                                *)

ReturnToUser(t) ==
    /\ At(t, "exit") /\ ~signal_pending[t]
    /\ Goto(t, "user")
    /\ UNCHANGED <<status, parked, procVars, sigVars, vforkVars, waiting, queued, target, sig, histVars>>

\* One turn of the loop: a thread told to exit dies, one told to stop stops,
\* and of the pending signals the lowest is delivered.
HandleSignal(t) ==
    /\ At(t, "sigloop") \/ ((At(t, "exit") \/ At(t, "user")) /\ signal_pending[t])
    /\ signal_lock[Owner[t]] = Nobody
    /\ CASE "EXITING" \in sflags[t] -> Goto(t, "thread_exit") /\ UNCHANGED <<sig, asked>>
         [] "EXITING" \notin sflags[t] /\ "STOPPING" \in sflags[t] ->
                Goto(t, "stop_set") /\ UNCHANGED <<sig, asked>>
         [] sflags[t] = {} /\ "KILL" \in pending[t] ->
                /\ Goto(t, "exit_kill")
                /\ asked' = [asked EXCEPT ![Owner[t]] = "KILL"]
                /\ UNCHANGED sig
         [] sflags[t] = {} /\ pending[t] = {"STOP"} ->
                /\ Goto(t, "stop_all")
                /\ sig' = [sig EXCEPT ![t] = "STOP"]
                /\ UNCHANGED asked
         [] sflags[t] = {} /\ pending[t] = {} -> Goto(t, "user") /\ UNCHANGED <<sig, asked>>
    /\ UNCHANGED <<status, parked, procVars, sigVars, vforkVars, waiting, queued, target,
                   returned, kills, waits, raced>>

-----------------------------------------------------------------------------
(* signal_do_stop.  No lock is held from here to sched_yield.              *)

\* Every other thread is told to stop, ...
StopOthers(t) ==
    LET others == ThreadsOf(Owner[t]) \ {t}
    IN  /\ At(t, "stop_all")
        /\ sflags' = [u \in Threads |-> IF u \in others THEN sflags[u] \cup {"STOPPING"} ELSE sflags[u]]
        /\ signal_pending' = [u \in Threads |-> signal_pending[u] \/ u \in others]
        /\ wake_up_all({u \in others : status[u] = "INTERRUPTIBLE"})
        /\ Goto(t, "stop_group")
        /\ UNCHANGED <<procVars, lockVars, pending, vforkVars, waiting, queued, target, sig, histVars>>

\* ... the process is marked stopped, ...
StopGroup(t) ==
    /\ At(t, "stop_group")
    /\ sflags' = [sflags EXCEPT ![t] = @ \cup {"STOPPING"}]
    /\ group' = [group EXCEPT ![Owner[t]] = (@ \cup {"STOPPED"}) \ {"CONT"}]
    /\ Goto(t, "stop_code")
    /\ UNCHANGED <<status, parked, procVars, signal_lock, exit_code, pending, signal_pending, vforkVars,
                   waiting, queued, target, sig, histVars>>

\* ... and the parent is notified (notify_process_stop_cont) ...
StopCode(t) ==
    /\ At(t, "stop_code")
    /\ exit_code' = [exit_code EXCEPT ![Owner[t]] = "STOP"]
    /\ Goto(t, "stop_wake")
    /\ UNCHANGED <<status, parked, procVars, signal_lock, group, infoVars, vforkVars,
                   waiting, queued, target, sig, histVars>>

StopWake(t) ==
    /\ At(t, "stop_wake")
    /\ wake_up_all(Waiters(parent[Owner[t]]))
    /\ queued' = queued \ Waiters(parent[Owner[t]])
    /\ Goto(t, "stop_set")
    /\ UNCHANGED <<procVars, sigVars, vforkVars, waiting, target, sig, histVars>>

\* ... before this thread, or one that was told to, stops.
StopSet(t) ==
    /\ At(t, "stop_set")
    /\ set_current_state(t, "STOPPED")
    /\ Goto(t, "stop_yield")
    /\ UNCHANGED <<procVars, sigVars, vforkVars, waiting, queued, target, sig, histVars>>

StopYield(t) ==
    /\ At(t, "stop_yield")
    /\ sched_yield(t)
    /\ Goto(t, "stopped")
    /\ UNCHANGED <<procVars, sigVars, vforkVars, waiting, queued, target, sig, histVars>>

\* Woken.  The thread that took the signal forgets it (the end of
\* deliver_signal: signal_unqueue); both go on with handle_signal.
StopResume(t) ==
    /\ At(t, "stopped")
    /\ IF sig[t] = "STOP"
       THEN /\ pending' = [pending EXCEPT ![t] = @ \ {"STOP"}]
            /\ signal_pending' = [signal_pending EXCEPT ![t] = sflags[t] # {} \/ pending'[t] # {}]
       ELSE UNCHANGED <<pending, signal_pending>>
    /\ sig' = [sig EXCEPT ![t] = "none"]
    /\ Goto(t, "sigloop")
    /\ UNCHANGED <<status, parked, procVars, lockVars, sflags, vforkVars, waiting, queued, target, histVars>>

StopStep(t) ==
    \/ StopOthers(t) \/ StopGroup(t) \/ StopCode(t) \/ StopWake(t)
    \/ StopSet(t) \/ StopYield(t) \/ StopResume(t)

-----------------------------------------------------------------------------
(* Death.                                                                  *)

\* A dead thread that leaves the processor is destroyed (x86_context_switch,
\* thread_destroy): it is removed from its process.
Destroy(t) ==
    /\ status' = [status EXCEPT ![t] = "DEAD"]
    /\ parked' = [parked EXCEPT ![t] = TRUE]
    /\ thread_list' = [thread_list EXCEPT ![Owner[t]] = list_remove(@, t)]
    /\ Goto(t, "gone")

\* thread_exit, of a thread that process_kill_other_threads told to exit.
ThreadExit(t) ==
    /\ At(t, "thread_exit")
    /\ Destroy(t)
    /\ UNCHANGED <<life, refcount, parent, children, sigVars, vforkVars, waiting, queued, target, sig, histVars>>

\* sys_exit.  A process killed by a signal starts at exit_kill too.
Exit(t) ==
    /\ At(t, "user") /\ "exit" \in Ops[t]
    /\ asked' = [asked EXCEPT ![Owner[t]] = "EXIT"]
    /\ Goto(t, "exit_kill")
    /\ UNCHANGED <<status, parked, procVars, sigVars, vforkVars, waiting, queued, target, sig,
                   returned, kills, waits, raced>>

\* process_kill_other_threads, up to its loop.
KillOthers(t) ==
    LET others == ThreadsOf(Owner[t]) \ {t}
    IN  /\ sflags' = [u \in Threads |-> IF u \in others THEN sflags[u] \cup {"EXITING"} ELSE sflags[u]]
        /\ signal_pending' = [u \in Threads |-> signal_pending[u] \/ u \in others]
        /\ wake_up_all({u \in others : status[u] = "INTERRUPTIBLE"})
        /\ UNCHANGED <<procVars, lockVars, pending, vforkVars, waiting, queued, target, sig, histVars>>

\* process_exit: process_kill_other_threads, which pid 1 never gets to, ...
ExitKill(t) ==
    /\ At(t, "exit_kill") /\ Owner[t] # InitProc
    /\ KillOthers(t)
    /\ Goto(t, "exit_spin")

\* ... and once it is alone the process is marked as exiting.
ExitAlone(t) ==
    /\ At(t, "exit_spin") /\ Len(thread_list[Owner[t]]) = 1
    /\ group' = [group EXCEPT ![Owner[t]] = @ \cup {"EXIT"}]
    /\ Goto(t, IF vfork_compl[Owner[t]] THEN "vfork_done" ELSE "exit_reparent")
    /\ UNCHANGED <<status, parked, procVars, signal_lock, exit_code, infoVars, vforkVars,
                   waiting, queued, target, sig, histVars>>

\* Mutant: the parent is woken, but finds nothing done.
VforkDone_Unset(t) ==
    /\ At(t, "vfork_done")
    /\ Goto(t, "vfork_wake")
    /\ UNCHANGED <<status, parked, procVars, sigVars, vforkVars, waiting, queued, target, sig, histVars>>

\* vfork_completion::wake: three accesses to the frame of the parent.
VforkDone(t) ==
    /\ At(t, "vfork_done")
    /\ done' = [done EXCEPT ![Owner[t]] = TRUE]
    /\ Goto(t, "vfork_wake")
    /\ UNCHANGED <<status, parked, procVars, sigVars, vfork_compl, may_exit, waiting, queued, target, sig, histVars>>

VforkWaiters(q) == {u \in queued : waiting[u] = "vfork" /\ target[u] = q}

VforkWake(t) ==
    /\ At(t, "vfork_wake")
    /\ wake_up_all(VforkWaiters(Owner[t]))
    /\ queued' = queued \ VforkWaiters(Owner[t])
    /\ Goto(t, "vfork_may_exit")
    /\ UNCHANGED <<procVars, sigVars, vforkVars, waiting, target, sig, histVars>>

VforkMayExit(t) ==
    /\ At(t, "vfork_may_exit")
    /\ may_exit' = [may_exit EXCEPT ![Owner[t]] = TRUE]
    /\ vfork_compl' = [vfork_compl EXCEPT ![Owner[t]] = FALSE]
    /\ Goto(t, IF "EXIT" \in group[Owner[t]] THEN "exit_reparent" ELSE "exit")
    /\ UNCHANGED <<status, parked, procVars, sigVars, done, waiting, queued, target, sig, histVars>>

\* execve, of which two things show here: in flush_old_exec the other threads
\* are killed, ...
Exec(t) ==
    /\ At(t, "user") /\ "exec" \in Ops[t]
    /\ KillOthers(t)
    /\ Goto(t, "exec_spin")

\* ... and the parent may have its memory back.
ExecAlone(t) ==
    /\ At(t, "exec_spin") /\ Len(thread_list[Owner[t]]) = 1
    /\ Goto(t, IF vfork_compl[Owner[t]] THEN "vfork_done" ELSE "exit")
    /\ UNCHANGED <<status, parked, procVars, sigVars, vforkVars, waiting, queued, target, sig, histVars>>

\* Mutant: the orphans get a new parent, which does not know of them.
ExitReparent_NoAppend(t) ==
    /\ At(t, "exit_reparent")
    /\ parent' = [q \in Procs |-> IF q \in Members(children[Owner[t]]) THEN InitProc ELSE parent[q]]
    /\ Goto(t, "exit_dead")
    /\ UNCHANGED <<status, parked, life, refcount, children, thread_list, sigVars, vforkVars,
                   waiting, queued, target, sig, histVars>>

\* process_reparent_children, under children_lock.  It does not wake pid 1:
\* that is left to the exit of the parent, if pid 1 is the one it wakes.
ExitReparent(t) ==
    LET orphans == children[Owner[t]]
    IN  /\ At(t, "exit_reparent")
        /\ parent' = [q \in Procs |-> IF q \in Members(orphans) THEN InitProc ELSE parent[q]]
        /\ children' = [children EXCEPT ![InitProc] = @ \o orphans]
        /\ raced' = (raced \/ (orphans # <<>> /\ parent[Owner[t]] # InitProc))
        /\ Goto(t, "exit_dead")
        /\ UNCHANGED <<status, parked, life, refcount, thread_list, sigVars, vforkVars,
                       waiting, queued, target, sig, asked, returned, kills, waits>>

ExitDead(t) ==
    /\ At(t, "exit_dead")
    /\ set_current_state(t, "DEAD")
    /\ Goto(t, "exit_code")
    /\ UNCHANGED <<procVars, sigVars, vforkVars, waiting, queued, target, sig, histVars>>

\* The status is published and the parent woken, under signal_lock.  The
\* parent is read without the children_lock that process_reparent_children
\* holds, and again for SIGCHLD: here it does not change in between.
ExitCode(t) ==
    LET q == Owner[t]
    IN  /\ At(t, "exit_code") /\ signal_lock[q] = Nobody
        /\ exit_code' = [exit_code EXCEPT ![q] = asked[q]]
        /\ wake_up_all(Waiters(parent[q]))
        /\ queued' = queued \ Waiters(parent[q])
        /\ Goto(t, "exit_yield")
        /\ UNCHANGED <<procVars, signal_lock, group, infoVars, vforkVars, waiting, target, sig, histVars>>

\* SIGCHLD, which the parent ignores, and sched_yield.
ExitYield(t) ==
    /\ At(t, "exit_yield")
    /\ Destroy(t)
    /\ UNCHANGED <<life, refcount, parent, children, sigVars, vforkVars, waiting, queued, target, sig, histVars>>

\* A thread that is DEAD and is preempted does not come back.
Preempt(t) ==
    /\ At(t, "exit_code")
    /\ Destroy(t)
    /\ raced' = TRUE
    /\ UNCHANGED <<life, refcount, parent, children, sigVars, vforkVars, waiting, queued, target, sig,
                   asked, returned, kills, waits>>

ExitStep(t) ==
    \/ ThreadExit(t) \/ ExitKill(t) \/ ExitAlone(t) \/ ExecAlone(t)
    \/ VforkDone(t) \/ VforkWake(t) \/ VforkMayExit(t)
    \/ ExitReparent(t) \/ ExitDead(t) \/ ExitCode(t) \/ ExitYield(t)

-----------------------------------------------------------------------------
(* wait_for_event, for wait4, vfork and pause.                             *)

\* sys_wait4, with WSTOPPED and WCONTINUED if the caller is to see stops.
Wait4(t) ==
    /\ At(t, "user") /\ "wait" \in Ops[t] /\ waits[t] < MaxWaits
    /\ waits' = [waits EXCEPT ![t] = @ + 1]
    /\ waiting' = [waiting EXCEPT ![t] = "child"]
    /\ Goto(t, "wait_first")
    /\ UNCHANGED <<status, parked, procVars, sigVars, vforkVars, queued, target, sig,
                   asked, returned, kills, raced>>

\* sys_pause.
Pause(t) ==
    /\ At(t, "user") /\ "pause" \in Ops[t]
    /\ waiting' = [waiting EXCEPT ![t] = "signal"]
    /\ Goto(t, "wait_first")
    /\ UNCHANGED <<status, parked, procVars, sigVars, vforkVars, queued, target, sig, histVars>>

\* process_wait_exit, process_wait_stop and process_wait_cont: what caller t
\* may collect of child q.
Exited(q) == "EXIT" \in group[q]
Stopped(q) == "STOPPED" \in group[q] /\ ~Exited(q) /\ exit_code[q] # "0"
Continued(q) == "CONT" \in group[q] /\ ~Exited(q)
Collectable(t, q) == Exited(q) \/ ("stops" \in Ops[t] /\ (Stopped(q) \/ Continued(q)))

\* wait_handle_processes takes the first child it finds something about.
Found(t, q) ==
    LET c == children[Owner[t]]
    IN  /\ waiting[t] = "child"
        /\ \E i \in DOMAIN c :
              c[i] = q /\ Collectable(t, q) /\ \A j \in 1 .. i - 1 : ~Collectable(t, c[j])

\* It has looked at all of them in vain.
NothingFound(t) ==
    waiting[t] = "child" => \A q \in Members(children[Owner[t]]) : ~Collectable(t, q)

\* A dead child loses the reference of its parent, and is destroyed with its
\* last one; a stop or a continuation is reported once.
Collect(t, q) ==
    /\ At(t, "wait_first") \/ At(t, "wait_look")
    /\ Found(t, q) /\ signal_lock[q] = Nobody
    /\ IF Exited(q)
       THEN /\ process_put(t, q)
            /\ returned' = [returned EXCEPT ![q] = exit_code[q]]
            /\ UNCHANGED <<exit_code, group>>
       ELSE /\ IF Stopped(q) THEN exit_code' = [exit_code EXCEPT ![q] = "0"] /\ UNCHANGED group
                             ELSE group' = [group EXCEPT ![q] = @ \ {"CONT"}] /\ UNCHANGED exit_code
            /\ Goto(t, "wait_out")
            /\ UNCHANGED <<refcount, returned, target>>
    /\ UNCHANGED <<status, parked, life, parent, children, thread_list, signal_lock, infoVars, vforkVars,
                   waiting, queued, sig, asked, kills, waits, raced>>

\* process_end: off the list of its parent, ...
ReapUnlink(t) ==
    LET q == target[t]
    IN  /\ At(t, "reap_unlink")
        /\ children' = [children EXCEPT ![parent[q]] = list_remove(@, q)]
        /\ Goto(t, "reap_spin")
        /\ UNCHANGED <<status, parked, life, refcount, parent, thread_list, sigVars, vforkVars,
                       waiting, queued, target, sig, histVars>>

\* Mutant: it is freed at once.
ReapFree_NoWait(t) ==
    LET q == target[t]
    IN  /\ At(t, "reap_spin")
        /\ life' = [life EXCEPT ![q] = "freed"]
        /\ target' = [target EXCEPT ![t] = Nobody]
        /\ Goto(t, AfterPut(t))
        /\ UNCHANGED <<status, parked, refcount, parent, children, thread_list, sigVars, vforkVars,
                       waiting, queued, sig, histVars>>

\* ... and freed when its threads are gone (process_wait_for_dead_threads).
ReapFree(t) ==
    LET q == target[t]
    IN  /\ At(t, "reap_spin") /\ thread_list[q] = <<>>
        /\ life' = [life EXCEPT ![q] = "freed"]
        /\ target' = [target EXCEPT ![t] = Nobody]
        /\ Goto(t, AfterPut(t))
        /\ UNCHANGED <<status, parked, refcount, parent, children, thread_list, sigVars, vforkVars,
                       waiting, queued, sig, histVars>>

\* The condition holds; wait4 with no child to wait for fails.
CondHolds(t) ==
    CASE waiting[t] = "child" -> children[Owner[t]] = <<>>
      [] waiting[t] = "vfork" -> done[target[t]]
      [] waiting[t] = "signal" -> FALSE

SleepState(t) == IF waiting[t] = "vfork" THEN "UNINTERRUPTIBLE" ELSE "INTERRUPTIBLE"

\* The condition is looked at before the status changes, ...
WaitFirst(t) ==
    /\ At(t, "wait_first") /\ NothingFound(t)
    /\ IF CondHolds(t) THEN Goto(t, "wait_out") /\ UNCHANGED <<status, parked>>
                       ELSE Goto(t, "wait_add") /\ set_current_state(t, SleepState(t))
    /\ UNCHANGED <<procVars, sigVars, vforkVars, waiting, queued, target, sig, histVars>>

\* Mutant: the thread sleeps without looking again.
WaitAdd_NoLook(t) ==
    /\ At(t, "wait_add")
    /\ queued' = queued \cup {t}
    /\ Goto(t, "wait_sleep")
    /\ UNCHANGED <<status, parked, procVars, sigVars, vforkVars, waiting, target, sig, histVars>>

WaitAdd(t) ==
    /\ At(t, "wait_add")
    /\ queued' = queued \cup {t}
    /\ Goto(t, "wait_look")
    /\ UNCHANGED <<status, parked, procVars, sigVars, vforkVars, waiting, target, sig, histVars>>

\* ... and again with the token queued.
WaitLook(t) ==
    /\ At(t, "wait_look") /\ NothingFound(t)
    /\ Goto(t, IF CondHolds(t) \/ (waiting[t] # "vfork" /\ signal_pending[t]) THEN "wait_out" ELSE "wait_sleep")
    /\ UNCHANGED <<status, parked, procVars, sigVars, vforkVars, waiting, queued, target, sig, histVars>>

WaitSleep(t) ==
    /\ At(t, "wait_sleep")
    /\ sched_yield(t)
    /\ Goto(t, "wait_woken")
    /\ UNCHANGED <<procVars, sigVars, vforkVars, waiting, queued, target, sig, histVars>>

WaitWoken(t) ==
    /\ At(t, "wait_woken")
    /\ queued' = queued \ {t}
    /\ Goto(t, "wait_add")
    /\ UNCHANGED <<status, parked, procVars, sigVars, vforkVars, waiting, target, sig, histVars>>

\* The end of the macro: wait_queue_remove, and the status.
WaitOut(t) ==
    /\ At(t, "wait_out")
    /\ queued' = queued \ {t}
    /\ Goto(t, "wait_leave")
    /\ UNCHANGED <<status, parked, procVars, sigVars, vforkVars, waiting, target, sig, histVars>>

\* Mutant: vfork returns without waiting for the child to be done with it.
WaitLeave_NoWait(t) ==
    /\ At(t, "wait_leave")
    /\ set_current_state(t, "RUNNABLE")
    /\ waiting' = [waiting EXCEPT ![t] = "nothing"]
    /\ Goto(t, IF waiting[t] = "vfork" THEN "fork_put" ELSE "exit")
    /\ UNCHANGED <<procVars, sigVars, vforkVars, queued, target, sig, histVars>>

WaitLeave(t) ==
    /\ At(t, "wait_leave")
    /\ set_current_state(t, "RUNNABLE")
    /\ waiting' = [waiting EXCEPT ![t] = "nothing"]
    /\ Goto(t, IF waiting[t] = "vfork" THEN "wait_to_exit" ELSE "exit")
    /\ UNCHANGED <<procVars, sigVars, vforkVars, queued, target, sig, histVars>>

\* The points inside the macro that come after an unlock: of the wait queue,
\* or of the locks the condition and process_put take.
Unlocked == {"wait_look", "reap_unlink", "reap_spin", "wait_out", "wait_leave"}

\* The unlock gives up the processor: the thread has announced its sleep, and
\* a reschedule was requested meanwhile.
Resched(t) ==
    /\ pc[t] \in Unlocked /\ ~parked[t] /\ status[t] # "RUNNABLE"
    /\ sched_yield(t)
    /\ UNCHANGED <<procVars, sigVars, vforkVars, pc, waiting, queued, target, sig, histVars>>

WaitStep(t) ==
    \/ \E q \in Procs : Collect(t, q)
    \/ ReapUnlink(t) \/ ReapFree(t)
    \/ WaitFirst(t) \/ WaitAdd(t) \/ WaitLook(t) \/ WaitSleep(t) \/ WaitWoken(t) \/ WaitOut(t)
    \/ WaitLeave(t) \/ WaitToExit(t)

-----------------------------------------------------------------------------
\* What a thread does by itself once it is in the kernel.
KernelStep(t) ==
    \/ ForkPut(t) \/ QueueSignal(t) \/ ReturnToUser(t) \/ HandleSignal(t)
    \/ StopStep(t) \/ ExitStep(t) \/ WaitStep(t)

\* What it asks of the kernel.
Syscall(t) ==
    \/ \E q \in Procs : Fork(t, q) \/ Vfork(t, q)
    \/ \E u \in Threads : Clone(t, u)
    \/ \E q \in Procs, s \in Signals : RaiseSignal(t, q, s)
    \/ Exec(t) \/ Exit(t) \/ Wait4(t) \/ Pause(t)

Next == \E t \in Threads : KernelStep(t) \/ Syscall(t) \/ Preempt(t) \/ Resched(t)

Spec == Init /\ [][Next]_vars

\* Threads are scheduled, and programs that can end do.
FairSpec ==
    /\ Spec
    /\ \A t \in Threads : WF_vars(KernelStep(t)) /\ SF_vars(Exit(t))

-----------------------------------------------------------------------------
(* Properties.                                                             *)

\* Nothing is freed while it is in use: when wait4 frees a child all of its
\* threads are gone, even if it was collected before it had finished exiting.
NothingFreedInUse ==
    \A t \in Threads : pc[t] \notin {"unborn", "gone"} => life[Owner[t]] = "live"

\* The family tree: a process is once on the list of its parent until wait4
\* unlinks it, and its parent has not yet given its children to pid 1.
TreeConsistent ==
    \A q \in Procs : life[q] = "live" /\ q # InitProc =>
        /\ q \in Members(children[parent[q]]) \/ \E t \in Threads : target[t] = q /\ pc[t] = "reap_spin"
        /\ Distinct(children[parent[q]])
        /\ life[parent[q]] = "live"
        /\ \A t \in Threads : Owner[t] = parent[q] => pc[t] \notin {"exit_dead", "exit_code", "exit_yield"}

\* The thread was put to sleep by a reschedule inside the macro: before it has
\* looked at its condition again, or when it had already found it true.
Overslept(t) == parked[t] /\ pc[t] \in Unlocked

\* A process asleep in wait4 has nothing to collect, or somebody is about to
\* wake it: the child, or, as process_reparent_children wakes nobody, the exit
\* of the parent that an orphan was taken from.  The exceptions are threads
\* hit in an unlocked window, as when a child is preempted between becoming
\* DEAD and waking its parent, orphans whose parent was not itself a child of
\* pid 1, and a thread that a reschedule has put to sleep inside the macro.
SleeperMissesNothing ==
    ~raced => \A t \in Threads : parked[t] /\ ~Overslept(t) /\ waiting[t] = "child" =>
        \A q \in Members(children[Owner[t]]) : Collectable(t, q) =>
            \E u \in Threads :
                \/ Owner[u] = q /\ pc[u] \in {"vfork_done", "vfork_wake", "vfork_may_exit", "exit_reparent",
                                           "exit_dead", "exit_code", "stop_code", "stop_wake"}
                \/ parent[Owner[u]] = Owner[t] /\ pc[u] \in {"exit_dead", "exit_code"}

\* The completion of vfork is on the stack of the parent, which is still in
\* vfork whenever the child touches it.
VforkFrameInUse ==
    \A u \in Threads : pc[u] \in {"vfork_done", "vfork_wake", "vfork_may_exit"} =>
        \E t \in Threads : target[t] = Owner[u] /\ pc[t] \in {"wait_first", "wait_add", "wait_look",
            "wait_sleep", "wait_woken", "wait_out", "wait_leave", "wait_to_exit"}

\* wait4 and vfork return, unless the child is stopped, a thread was hit in
\* one of the windows in which no lock protects it, or one that a reschedule
\* has put to sleep inside the macro is never woken.
WaitReturns ==
    [](~raced) =>
    \/ \E u \in Threads : <>[]Overslept(u)
    \/ \A t \in Threads :
        waiting[t] \in {"child", "vfork"} ~>
            \/ waiting[t] = "nothing"
            \/ \E q \in Members(children[Owner[t]]) : "STOPPED" \in group[q]

\* SIGKILL ends the process, stopped or not, and all of its threads
\* (kernel_tkill, process_kill_other_threads), with the same exceptions: a
\* reschedule must have hit a thread of this process.
KillKills ==
    [](~raced) =>
    \A q \in Procs :
        \/ \E u \in Threads : Owner[u] = q /\ <>[]Overslept(u)
        \/ "KILL" \in pending[Main[q]] ~> \A t \in Threads : Owner[t] = q => pc[t] \in {"unborn", "gone"}

\* The status wait4 returns is the one the child exited with.
StatusTrue == \A q \in Procs : returned[q] # "none" => returned[q] = asked[q]
=============================================================================
