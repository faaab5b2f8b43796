--------------------------- MODULE ProcessProofs ---------------------------
(***************************************************************************)
(* Proofs about Process, for any number of processes and threads, whatever *)
(* they ask of the kernel.  Four inductive invariants build on each other: *)
(* which threads a process has (ThreadsInv), who is inside vfork           *)
(* (VforkInv), the tree of parents and children (TreeInv), and who sleeps  *)
(* in wait4 (SleepInv).                                                    *)
(***************************************************************************)
EXTENDS Process, WaitListProofs

\* The points of a wait_for_event loop.
WaitPoints == {"wait_first", "wait_add", "wait_look", "wait_sleep", "wait_woken", "wait_out", "wait_leave"}

\* The points at which a thread has taken a process from its parent for good
\* or has an exit or an exec to itself: its process has no other thread.
VforkPoints == {"vfork_done", "vfork_wake", "vfork_may_exit"}
LastPoints == {"exit_dead", "exit_code", "exit_yield"}
AlonePoints == VforkPoints \cup {"exit_reparent"} \cup LastPoints

\* Only the main thread exits or execs.
MainPoints == {"exit_kill", "exit_spin", "exec_spin"} \cup AlonePoints

\* The points at which a thread holds a reference of its target.
HolderPoints == {"fork_put", "wait_to_exit", "tkill", "reap_unlink", "reap_spin"}

StopPoints == {"stop_all", "stop_group", "stop_code", "stop_wake", "stop_set", "stop_yield", "stopped"}

RunPoints == {"user", "exit", "sigloop", "thread_exit"} \cup WaitPoints \cup MainPoints
                \cup HolderPoints \cup StopPoints

Types ==
    /\ life \in [Procs -> {"unborn", "live", "freed"}]
    /\ parent \in [Procs -> Procs \cup {Nobody}]
    /\ children \in [Procs -> Seq(Procs)]
    /\ thread_list \in [Procs -> Seq(Threads)]
    /\ vfork_compl \in [Procs -> BOOLEAN] /\ may_exit \in [Procs -> BOOLEAN]
    /\ sflags \in [Threads -> SUBSET {"STOPPING", "EXITING"}]
    /\ pending \in [Threads -> SUBSET {"STOP", "KILL"}]
    /\ pc \in [Threads -> RunPoints \cup {"unborn", "gone"}]
    /\ waiting \in [Threads -> {"nothing", "child", "vfork", "signal"}]
    /\ target \in [Threads -> Procs \cup {Nobody}]
    /\ sig \in [Threads -> {"none", "STOP", "CONT", "KILL"}]

Active(t) == pc[t] \in RunPoints

\* The threads of a process are those on its list.
Lists ==
    \A q \in Procs :
        /\ Distinct(thread_list[q])
        /\ \A t \in Threads : t \in Members(thread_list[q]) <=> (Owner[t] = q /\ Active(t))

\* A process with a thread is live, and the main thread is there from the
\* start to the end.
Lives ==
    /\ \A t \in Threads : Active(t) => life[Owner[t]] = "live" /\ Active(Main[Owner[t]])
    /\ \A q \in Procs : /\ life[q] = "unborn" => pc[Main[q]] = "unborn"
                        /\ life[q] = "live" => pc[Main[q]] # "unborn"

\* Signals go to the main thread, which alone exits or execs; the others are
\* told to exit.
MainThread ==
    \A t \in Threads :
        /\ pc[t] \in MainPoints => t = Main[Owner[t]]
        /\ pending[t] # {} => t = Main[Owner[t]]
        /\ "EXITING" \in sflags[t] \/ pc[t] = "thread_exit" => t # Main[Owner[t]]

Alone ==
    \A t, u \in Threads : pc[t] \in AlonePoints /\ Owner[u] = Owner[t] /\ Active(u) => u = t

\* kernel_tkill has a signal to send, and a process to send it to.
Argument ==
    \A t \in Threads : pc[t] = "tkill" => sig[t] \in {"STOP", "CONT", "KILL"} /\ target[t] \in Procs

ThreadsInv == Types /\ Lists /\ Lives /\ MainThread /\ Alone /\ Argument

-----------------------------------------------------------------------------
\* Thread t is in the vfork that made process q.
InVfork(t, q) ==
    target[t] = q /\ (pc[t] = "wait_to_exit" \/ (waiting[t] = "vfork" /\ pc[t] \in WaitPoints))

VforkInv ==
    /\ \A q \in Procs : vfork_compl[q] => ~may_exit[q] /\ \E t \in Threads : InVfork(t, q)
    /\ \A q \in Procs : life[q] = "unborn" => ~may_exit[q]
    /\ \A u \in Threads : pc[u] \in VforkPoints => vfork_compl[Owner[u]]

-----------------------------------------------------------------------------
\* Has thread t anything to do with the children of its process?
Family(t) == Ops[t] \cap {"fork", "vfork", "kill", "wait"} # {}

\* One thread of a process looks after its children.  The reference that
\* fork and kill take does not keep a wait4 of another thread from
\* collecting the child: a kill that finds a child being reaped takes its
\* count from 0 to 1 and back, and process_end runs a second time.
OneFamilyThread ==
    \A t, u \in Threads : Owner[t] = Owner[u] /\ Family(t) /\ Family(u) => t = u

\* The process has given its children away.
Past(p) == pc[Main[p]] \in LastPoints \cup {"gone"}

Holds(t) == pc[t] \in HolderPoints \/ (waiting[t] = "vfork" /\ pc[t] \in WaitPoints)

Holders ==
    \A t \in Threads : Holds(t) =>
        /\ target[t] \in Procs \ {InitProc} /\ life[target[t]] = "live"
        /\ parent[target[t]] = Owner[t] /\ Family(t)

Children ==
    \A p \in Procs : ~Past(p) =>
        /\ Distinct(children[p])
        /\ \A q \in Members(children[p]) : q # InitProc /\ life[q] = "live" /\ parent[q] = p

Parents ==
    \A q \in Procs : life[q] = "live" /\ q # InitProc =>
        /\ parent[q] \in Procs /\ life[parent[q]] = "live" /\ ~Past(parent[q])
        /\ q \in Members(children[parent[q]]) \/ \E t \in Threads : target[t] = q /\ pc[t] = "reap_spin"

Unlinked ==
    \A t \in Threads : pc[t] = "reap_spin" => target[t] \notin Members(children[parent[target[t]]])

\* pid 1 does not exit, and its parent is nobody.
First ==
    /\ life[InitProc] = "live" /\ parent[InitProc] = Nobody /\ ~vfork_compl[InitProc]
    /\ pc[Main[InitProc]] \notin {"exit_spin", "gone"} \cup AlonePoints

TreeInv ==
    /\ Holders /\ Children /\ Parents /\ Unlinked /\ First
    /\ \A t \in Threads : waiting[t] = "child" => "wait" \in Ops[t]

-----------------------------------------------------------------------------
(* Sleeping in wait4.                                                      *)

Codes == {"0", "STOP", "CONT", "EXIT", "KILL"}

SleepTypes ==
    /\ status \in [Threads -> Statuses] /\ parked \in [Threads -> BOOLEAN]
    /\ queued \subseteq Threads
    /\ group \in [Procs -> SUBSET {"STOPPED", "CONT", "EXIT"}]
    /\ exit_code \in [Procs -> Codes] /\ asked \in [Procs -> Codes]
    /\ raced \in BOOLEAN

\* Thread t has announced that it sleeps in wait4 and was not woken since.
Announced(t) ==
    waiting[t] = "child" /\ pc[t] \in {"wait_look", "wait_sleep", "wait_woken"} /\ status[t] # "RUNNABLE"

\* It has looked at the children for the last time.
Asleep(t) == Announced(t) /\ pc[t] # "wait_look"

\* Where a thread is that waits for a child, and where one that is off the
\* processor; the token of a thread that will sleep is queued.
SleepPoint(t) ==
    /\ waiting[t] = "child" => pc[t] \in WaitPoints \cup {"reap_unlink", "reap_spin"}
    /\ parked[t] => pc[t] \in {"wait_woken", "stopped", "gone"} \cup Unlocked /\ status[t] # "RUNNABLE"
    /\ Announced(t) => t \in queued

\* Thread u is about to wake thread t, which waits for child q: it is a
\* thread of the child, or it is the one the child was taken from.
Waker(u, t, q) ==
    \/ Owner[u] = q /\ pc[u] \in {"exit_reparent", "exit_dead", "exit_code", "stop_code", "stop_wake"}
    \/ Owner[u] = q /\ pc[u] \in VforkPoints /\ Exited(q)
    \/ parent[Owner[u]] = Owner[t] /\ pc[u] \in {"exit_dead", "exit_code"}

WakerPoints == VforkPoints \cup {"exit_reparent", "exit_dead", "exit_code", "stop_code", "stop_wake"}

Told ==
    ~raced => \A t \in Threads : Asleep(t) =>
        \A q \in Members(children[Owner[t]]) : Collectable(t, q) => \E u \in Threads : Waker(u, t, q)

SleepInv == SleepTypes /\ (\A t \in Threads : SleepPoint(t)) /\ Told

-----------------------------------------------------------------------------
(* The threads of a process.                                               *)

\* Taking a node off a list leaves a list of the same kind, whatever the node
\* (list_remove of process_end and thread_destroy).
LEMMA RemoveType ==
    ASSUME NEW S, NEW s \in Seq(S), NEW t
    PROVE  list_remove(s, t) \in Seq(S)
<1> DEFINE n == Len(s) - 1
           r == [i \in 1 .. n |-> IF i < Position(s, t) THEN s[i] ELSE s[i + 1]]
<1>1. \A i \in 1 .. n : r[i] \in S
  <2> SUFFICES ASSUME NEW i \in 1 .. n PROVE r[i] \in S
    BY Zenon
  <2>1. s[i] \in S /\ s[i + 1] \in S
    OBVIOUS
  <2>2. r[i] = s[i] \/ r[i] = s[i + 1]
    BY Zenon
  <2> QED BY Zenon, <2>1, <2>2
<1>2. r \in [1 .. n -> S]
  BY Zenon, <1>1
<1>3. CASE n \in Nat
  BY <1>2, <1>3 DEF list_remove
<1>4. CASE n \notin Nat
  <2>1. Len(s) = 0 /\ 1 .. n = 1 .. 0
    BY <1>4
  <2>2. r \in [1 .. 0 -> S]
    BY Zenon, <2>1, <1>2
  <2> QED BY <2>2 DEF list_remove
<1> QED BY Zenon, <1>3, <1>4

\* It leaves a part of the list.
LEMMA RemoveSubset ==
    ASSUME NEW S, NEW s \in Seq(S), NEW t
    PROVE  Members(list_remove(s, t)) \subseteq Members(s)
<1> PICK p : p = Position(s, t)
  BY Zenon
<1> PICK r : r = [i \in 1 .. (Len(s) - 1) |-> IF i < p THEN s[i] ELSE s[i + 1]]
  BY Zenon
<1>1. list_remove(s, t) = r
  BY Zenon DEF list_remove
<1>2. ASSUME NEW i \in DOMAIN r PROVE r[i] \in Members(s)
  <2>1. i \in DOMAIN s /\ i + 1 \in DOMAIN s
    BY <1>2
  <2>2. r[i] \in {s[i], s[i + 1]}
    BY Zenon, <1>2
  <2> QED BY Zenon, <2>1, <2>2 DEF Members
<1> QED BY ZenonT(30), <1>1, <1>2 DEF Members

\* An update of one entry of a table keeps its type.
LEMMA Update ==
    ASSUME NEW S, NEW T, NEW f \in [S -> T], NEW x, NEW v, x \in S => v \in T
    PROVE  [f EXCEPT ![x] = v] \in [S -> T]
BY Zenon

\* The lists of children hold processes.
LEMMA ChildrenAreProcs ==
    ASSUME Types
    PROVE  /\ \A p \in Procs : \A x \in Members(children[p]) : x \in Procs
           /\ \A u \in Threads : \A x \in Members(children[Owner[u]]) : x \in Procs
<1>1. \A p \in Procs : \A x \in Members(children[p]) : x \in Procs
  BY DEF Types, Members
<1>2. \A u \in Threads : Owner[u] \in Procs
  BY ProcessAssumption
<1> QED BY Zenon, <1>1, <1>2

\* wait_queue_wake_all wakes some threads and leaves the others alone.
LEMMA WakeUpAll ==
    ASSUME SleepTypes, NEW S, wake_up_all(S)
    PROVE  \A u \in Threads : IF u \in S THEN status'[u] = "RUNNABLE" /\ ~parked'[u]
                                         ELSE status'[u] = status[u] /\ parked'[u] = parked[u]
BY Zenon DEF SleepTypes, wake_up_all

\* handle_signal goes one of five ways, by the flags and the pending signals
\* of the thread.
LEMMA SignalWays ==
    ASSUME NEW f \in SUBSET {"STOPPING", "EXITING"}, NEW p \in SUBSET {"STOP", "KILL"}
    PROVE  \/ "EXITING" \in f
           \/ "EXITING" \notin f /\ "STOPPING" \in f
           \/ f = {} /\ "KILL" \in p
           \/ f = {} /\ p = {"STOP"}
           \/ f = {} /\ p = {}
BY Zenon

\* Every step of a thread that process_put ends leads to one of three points.
LEMMA AfterPutPoints ==
    ASSUME NEW t \in Threads
    PROVE  AfterPut(t) \in {"wait_out", "exit"} /\ (AfterPut(t) = "wait_out" => waiting[t] = "child")
BY Zenon DEF AfterPut

USE DEF WaitPoints, VforkPoints, LastPoints, AlonePoints, MainPoints, HolderPoints, StopPoints, RunPoints

\* Where handle_signal leads: a thread told to exit goes to thread_exit, one
\* that takes SIGKILL to process_exit.
LEMMA SignalChoice ==
    ASSUME Types, NEW t \in Threads, HandleSignal(t)
    PROVE  /\ \E b \in {"thread_exit", "stop_set", "exit_kill", "stop_all", "user"} :
                /\ Goto(t, b)
                /\ b = "thread_exit" => "EXITING" \in sflags[t]
                /\ b = "exit_kill" => pending[t] # {}
           /\ sig' = sig \/ sig' = [sig EXCEPT ![t] = "STOP"]
<1>1. sflags[t] \in SUBSET {"STOPPING", "EXITING"} /\ pending[t] \in SUBSET {"STOP", "KILL"}
  BY Zenon DEF Types
<1>2. CASE "EXITING" \in sflags[t]
  BY Zenon, <1>2 DEF HandleSignal
<1>3. CASE "EXITING" \notin sflags[t] /\ "STOPPING" \in sflags[t]
  <2>1. Goto(t, "stop_set") /\ sig' = sig
    BY Zenon, <1>3 DEF HandleSignal
  <2> QED BY Zenon, <2>1
<1>4. CASE sflags[t] = {} /\ "KILL" \in pending[t]
  <2>1. /\ pending[t] # {"STOP"} /\ pending[t] # {}
        /\ "EXITING" \notin sflags[t] /\ "STOPPING" \notin sflags[t]
    BY <1>4
  <2>2. Goto(t, "exit_kill") /\ sig' = sig
    BY Zenon, <1>4, <2>1 DEF HandleSignal
  <2> QED BY Zenon, <2>1, <2>2
<1>5. CASE sflags[t] = {} /\ pending[t] = {"STOP"}
  <2>1. Goto(t, "stop_all") /\ sig' = [sig EXCEPT ![t] = "STOP"]
    BY Zenon, <1>5 DEF HandleSignal
  <2> QED BY Zenon, <2>1
<1>6. CASE sflags[t] = {} /\ pending[t] = {}
  <2>1. Goto(t, "user") /\ sig' = sig
    BY Zenon, <1>6 DEF HandleSignal
  <2> QED BY Zenon, <2>1
<1> QED BY Zenon, <1>1, <1>2, <1>3, <1>4, <1>5, <1>6, SignalWays

\* A step that moves one thread to another point, and neither makes nor ends
\* a thread or a process.
Simple(t, b) ==
    /\ Active(t) /\ b \in RunPoints /\ Goto(t, b)
    /\ UNCHANGED <<life, thread_list>>
    /\ b \in MainPoints => t = Main[Owner[t]]
    /\ b = "thread_exit" => t # Main[Owner[t]]
    /\ b \in AlonePoints => pc[t] \in AlonePoints \/ Len(thread_list[Owner[t]]) = 1
    /\ \A u \in Threads : pending'[u] # {} => u = Main[Owner[u]]
    /\ \A u \in Threads : "EXITING" \in sflags'[u] => u # Main[Owner[u]]
    /\ \A u \in Threads \ {t} : sig'[u] = sig[u] /\ target'[u] = target[u]
    /\ b = "tkill" => sig'[t] \in {"STOP", "CONT", "KILL"} /\ target'[t] \in Procs

\* What is known of the threads holds at the start.
LEMMA ThreadsInitial == Init => ThreadsInv
<1> SUFFICES ASSUME Init PROVE ThreadsInv
  BY Zenon
<1>1. /\ Elders \in Seq(Procs) /\ Members(Elders) \subseteq Procs /\ InitProc \in Procs
      /\ \A p \in Procs : Main[p] \in Threads /\ Owner[Main[p]] = p
      /\ \A u \in Threads : Owner[u] \in Procs
  BY ProcessAssumption DEF Members
<1>2. Alive \subseteq Procs
  BY Zenon, <1>1 DEF Alive
<1>3. \A u \in Threads : pc[u] = IF \E q \in Alive : u = Main[q] THEN "user" ELSE "unborn"
  BY Zenon DEF Init
<1>4. \A u \in Threads : Active(u) <=> Owner[u] \in Alive /\ u = Main[Owner[u]]
  <2>1. ASSUME NEW u \in Threads
        PROVE  Active(u) <=> \E q \in Alive : u = Main[q]
    <3>1. CASE \E q \in Alive : u = Main[q]
      <4>1. pc[u] = "user"
        BY Zenon, <1>3, <3>1
      <4> QED BY Zenon, <3>1, <4>1 DEF Active
    <3>2. CASE ~\E q \in Alive : u = Main[q]
      <4>1. pc[u] = "unborn"
        BY Zenon, <1>3, <3>2
      <4>2. "unborn" \notin RunPoints
        BY Zenon
      <4> QED BY Zenon, <3>2, <4>1, <4>2 DEF Active
    <3> QED BY Zenon, <3>1, <3>2
  <2> QED BY Zenon, <1>1, <1>2, <2>1
<1>5. Types
  <2>1. children \in [Procs -> Seq(Procs)]
    BY <1>1 DEF Init
  <2>2. \A q \in Procs : <<Main[q]>> \in Seq(Threads) /\ <<>> \in Seq(Threads)
    BY <1>1
  <2>3. thread_list \in [Procs -> Seq(Threads)]
    BY Zenon, <2>2 DEF Init
  <2>4. pc \in [Threads -> RunPoints \cup {"unborn", "gone"}]
    BY Zenon DEF Init
  <2>5. parent \in [Procs -> Procs \cup {Nobody}] /\ life \in [Procs -> {"unborn", "live", "freed"}]
    BY Zenon, <1>1 DEF Init
  <2>6. /\ vfork_compl \in [Procs -> BOOLEAN] /\ may_exit \in [Procs -> BOOLEAN]
        /\ sflags \in [Threads -> SUBSET {"STOPPING", "EXITING"}]
        /\ pending \in [Threads -> SUBSET {"STOP", "KILL"}]
        /\ waiting \in [Threads -> {"nothing", "child", "vfork", "signal"}]
        /\ target \in [Threads -> Procs \cup {Nobody}]
        /\ sig \in [Threads -> {"none", "STOP", "CONT", "KILL"}]
    BY Zenon DEF Init
  <2> QED BY Zenon, <2>1, <2>3, <2>4, <2>5, <2>6 DEF Types
<1>6. Lists
  <2> SUFFICES ASSUME NEW p \in Procs
               PROVE  /\ Distinct(thread_list[p])
                      /\ \A u \in Threads : u \in Members(thread_list[p]) <=> Owner[u] = p /\ Active(u)
    BY Zenon DEF Lists
  <2>1. CASE p \in Alive
    <3>1. thread_list[p] = <<Main[p]>>
      BY Zenon, <2>1 DEF Init
    <3>2. Distinct(<<Main[p]>>) /\ Members(<<Main[p]>>) = {Main[p]}
      BY DEF Distinct, Members
    <3> QED BY ZenonT(30), <1>1, <1>4, <2>1, <3>1, <3>2
  <2>2. CASE p \notin Alive
    <3>1. thread_list[p] = <<>>
      BY Zenon, <2>2 DEF Init
    <3>2. Distinct(<<>>) /\ Members(<<>>) = {}
      BY DEF Distinct, Members
    <3> QED BY Zenon, <1>4, <2>2, <3>1, <3>2
  <2> QED BY Zenon, <2>1, <2>2
<1>7. Lives
  <2>1. \A q \in Procs : life[q] = IF q \in Alive THEN "live" ELSE "unborn"
    BY Zenon DEF Init
  <2>2. \A q \in Procs : q \notin Alive => pc[Main[q]] = "unborn"
    BY <1>1, <1>2, <1>3
  <2>3. \A q \in Procs : q \in Alive => pc[Main[q]] = "user"
    BY Zenon, <1>1, <1>2, <1>3
  <2> QED BY Zenon, <1>1, <1>4, <2>1, <2>2, <2>3 DEF Lives
<1>8. MainThread
  BY Zenon, <1>3 DEF MainThread, Init
<1>9. Alone
  BY Zenon, <1>3 DEF Alone
<1>10. Argument
  BY Zenon, <1>3 DEF Argument
<1> QED BY Zenon, <1>5, <1>6, <1>7, <1>8, <1>9, <1>10 DEF ThreadsInv

\* Every step keeps what is known of the threads.
LEMMA ThreadsStep == ThreadsInv /\ [Next]_vars => ThreadsInv'
<1> SUFFICES ASSUME ThreadsInv
             PROVE  [Next]_vars => ThreadsInv'
  BY Zenon

\* A list of one node has one member (the loops of process_kill_other_threads
\* end when the process has one thread).
<1>OneMember.
    ASSUME NEW S, NEW s \in Seq(S), Len(s) = 1, NEW t \in Members(s), NEW u \in Members(s)
    PROVE  t = u
  BY <1>OneMember DEF Members

\* signal_do_special_behaviour only takes flags and signals away from the
\* threads of the process.
<1>SpecialForgets.
    ASSUME Types, NEW q \in Procs, NEW s, Special(q, s)
    PROVE  /\ sflags' \in [Threads -> SUBSET {"STOPPING", "EXITING"}]
           /\ pending' \in [Threads -> SUBSET {"STOP", "KILL"}]
           /\ \A u \in Threads : sflags'[u] \subseteq sflags[u] /\ pending'[u] \subseteq pending[u]
  <2> USE <1>SpecialForgets
  <2>1. Main[q] \in Threads
    BY Zenon, ProcessAssumption
  <2>2. CASE s = "STOP"
    BY Zenon, <2>2 DEF Special, infoVars, Types
  <2>3. CASE s # "STOP"
    <3>1. /\ pending' = [pending EXCEPT ![Main[q]] = @ \ {"STOP"}]
          /\ sflags' = [u \in Threads |-> IF u \in ThreadsOf(q) THEN sflags[u] \ {"STOPPING"} ELSE sflags[u]]
      BY Zenon, <2>3 DEF Special
    <3>2. /\ sflags' \in [Threads -> SUBSET {"STOPPING", "EXITING"}]
          /\ \A u \in Threads : sflags'[u] \subseteq sflags[u]
      BY Zenon, <3>1 DEF Types
    <3>3. /\ pending' \in [Threads -> SUBSET {"STOP", "KILL"}]
          /\ \A u \in Threads : pending'[u] \subseteq pending[u]
      BY Zenon, <3>1, <2>1 DEF Types
    <3> QED BY Zenon, <3>2, <3>3
  <2> QED BY Zenon, <2>2, <2>3

\* Type correctness is kept by a system call (fork, vfork, clone, kill, exec,
\* exit, wait4, pause).
<1>SyscallTypes.
    ASSUME Types, NEW t \in Threads, Syscall(t)
    PROVE  Types'
  <2> USE <1>SyscallTypes
  <2>1. ASSUME NEW q \in Procs, NEW v \in BOOLEAN, ForkChild(t, q, v)
        PROVE  Types'
    <3>1. Owner[t] \in Procs /\ Main[q] \in Threads
      BY Zenon, ProcessAssumption
    <3>2. children' \in [Procs -> Seq(Procs)]
      BY <2>1, <3>1 DEF ForkChild, Types
    <3>3. <<Main[q]>> \in Seq(Threads)
      BY <3>1
    <3>4. thread_list' \in [Procs -> Seq(Threads)]
      BY Zenon, <2>1, <3>3 DEF ForkChild, Types
    <3>5. vfork_compl' \in [Procs -> BOOLEAN]
      BY Zenon, <2>1 DEF ForkChild, Types
    <3>6. /\ life' \in [Procs -> {"unborn", "live", "freed"}]
          /\ parent' \in [Procs -> Procs \cup {Nobody}]
          /\ target' \in [Threads -> Procs \cup {Nobody}]
          /\ waiting' \in [Threads -> {"nothing", "child", "vfork", "signal"}]
      BY Zenon, <2>1, <3>1 DEF ForkChild, Types
    <3>7. pc' \in [Threads -> RunPoints \cup {"unborn", "gone"}]
      BY Zenon, <2>1, <3>1 DEF ForkChild, Types
    <3>8. UNCHANGED <<may_exit, sflags, pending, sig>>
      BY Zenon, <2>1 DEF ForkChild, sigVars, infoVars
    <3> QED BY Zenon, <3>2, <3>4, <3>5, <3>6, <3>7, <3>8 DEF Types
  <2>2. ASSUME NEW u \in Threads, Clone(t, u)
        PROVE  Types'
    <3>1. Owner[t] \in Procs
      BY Zenon, ProcessAssumption
    <3>2. thread_list' \in [Procs -> Seq(Threads)]
      BY <2>2, <3>1 DEF Clone, Types
    <3>3. /\ sflags' \in [Threads -> SUBSET {"STOPPING", "EXITING"}]
          /\ pc' \in [Threads -> RunPoints \cup {"unborn", "gone"}]
      BY Zenon, <2>2 DEF Clone, Types
    <3>4. UNCHANGED <<life, parent, children, vfork_compl, may_exit, pending, waiting, target, sig>>
      BY Zenon, <2>2 DEF Clone, vforkVars
    <3> QED BY Zenon, <3>2, <3>3, <3>4 DEF Types
  <2>3. ASSUME NEW q \in Procs, NEW s \in Signals, RaiseSignal(t, q, s)
        PROVE  Types'
    <3>1. Special(q, s)
      BY Zenon, <2>3 DEF RaiseSignal
    <3>2. /\ sflags' \in [Threads -> SUBSET {"STOPPING", "EXITING"}]
          /\ pending' \in [Threads -> SUBSET {"STOP", "KILL"}]
      BY Zenon, <3>1, <1>SpecialForgets
    <3>3. /\ target' \in [Threads -> Procs \cup {Nobody}]
          /\ pc' \in [Threads -> RunPoints \cup {"unborn", "gone"}]
          /\ sig' \in [Threads -> {"none", "STOP", "CONT", "KILL"}]
      BY Zenon, <2>3, ProcessAssumption DEF RaiseSignal, Goto, Types
    <3>4. UNCHANGED <<life, parent, children, thread_list, vfork_compl, may_exit, waiting>>
      BY Zenon, <2>3 DEF RaiseSignal, vforkVars
    <3> QED BY Zenon, <3>2, <3>3, <3>4 DEF Types
  <2>4. CASE Exec(t)
    BY Zenon, <2>4 DEF Exec, KillOthers, Goto, Types, procVars, vforkVars
  <2>5. CASE Exit(t)
    BY Zenon, <2>5 DEF Exit, Goto, Types, procVars, sigVars, infoVars, vforkVars
  <2>6. CASE Wait4(t)
    BY Zenon, <2>6 DEF Wait4, Goto, Types, procVars, sigVars, infoVars, vforkVars
  <2>7. CASE Pause(t)
    BY Zenon, <2>7 DEF Pause, Goto, Types, procVars, sigVars, infoVars, vforkVars
  <2> QED BY Zenon, <2>1, <2>2, <2>3, <2>4, <2>5, <2>6, <2>7 DEF Syscall, Fork, Vfork

\* It is kept by the steps that stop a thread (signal_do_stop).
<1>StopTypes.
    ASSUME Types, NEW t \in Threads, StopStep(t)
    PROVE  Types'
  <2> USE <1>StopTypes
  <2> USE DEF Goto, Types, procVars, sigVars, infoVars, vforkVars
  <2>1. CASE StopOthers(t)
    BY Zenon, <2>1 DEF StopOthers
  <2>2. CASE StopGroup(t)
    BY Zenon, <2>2 DEF StopGroup
  <2>3. CASE StopCode(t)
    BY Zenon, <2>3 DEF StopCode
  <2>4. CASE StopWake(t)
    BY Zenon, <2>4 DEF StopWake
  <2>5. CASE StopSet(t)
    BY Zenon, <2>5 DEF StopSet
  <2>6. CASE StopYield(t)
    BY Zenon, <2>6 DEF StopYield
  <2>7. CASE StopResume(t)
    <3>1. pending' = [pending EXCEPT ![t] = @ \ {"STOP"}] \/ pending' = pending
      BY Zenon, <2>7 DEF StopResume
    <3>2. pending[t] \ {"STOP"} \in SUBSET {"STOP", "KILL"}
      BY Zenon
    <3>3. pending' \in [Threads -> SUBSET {"STOP", "KILL"}]
      <4>1. pending \in [Threads -> SUBSET {"STOP", "KILL"}]
        BY Zenon
      <4> HIDE DEF Types
      <4> QED BY Zenon, <3>1, <3>2, <4>1, Update
    <3> QED BY Zenon, <2>7, <3>3 DEF StopResume
  <2> QED BY ZenonT(30), <2>1, <2>2, <2>3, <2>4, <2>5, <2>6, <2>7 DEF StopStep

\* It is kept by the steps of thread_exit, process_exit and execve.
<1>ExitTypes.
    ASSUME Types, NEW t \in Threads, ExitStep(t) \/ Preempt(t)
    PROVE  Types'
  <2> USE <1>ExitTypes
  <2> USE DEF Goto, Types, procVars, sigVars, infoVars, vforkVars
  <2>0. Owner[t] \in Procs /\ InitProc \in Procs
    BY ProcessAssumption
  <2>1. ASSUME Destroy(t), UNCHANGED <<life, parent, children, sigVars, vforkVars, waiting, target, sig>>
        PROVE  Types'
    <3>1. list_remove(thread_list[Owner[t]], t) \in Seq(Threads)
      BY Zenon, <2>0, RemoveType
    <3>2. thread_list' \in [Procs -> Seq(Threads)]
      BY Zenon, <2>1, <3>1 DEF Destroy
    <3> QED BY Zenon, <2>1, <3>2 DEF Destroy
  <2>2. CASE ThreadExit(t) \/ ExitYield(t) \/ Preempt(t)
    BY Zenon, <2>1, <2>2 DEF ThreadExit, ExitYield, Preempt
  <2>3. CASE ExitKill(t)
    BY Zenon, <2>3 DEF ExitKill, KillOthers
  <2>4. CASE ExitAlone(t)
    BY Zenon, <2>4 DEF ExitAlone
  <2>5. CASE ExecAlone(t)
    BY Zenon, <2>5 DEF ExecAlone
  <2>6. CASE VforkDone(t)
    BY Zenon, <2>6 DEF VforkDone
  <2>7. CASE VforkWake(t)
    BY Zenon, <2>7 DEF VforkWake
  <2>8. CASE VforkMayExit(t)
    BY Zenon, <2>8 DEF VforkMayExit
  <2>9. CASE ExitReparent(t)
    <3>1. children[InitProc] \o children[Owner[t]] \in Seq(Procs)
      BY <2>0
    <3>2. children' \in [Procs -> Seq(Procs)]
      BY Zenon, <2>9, <2>0, <3>1 DEF ExitReparent
    <3>3. parent' \in [Procs -> Procs \cup {Nobody}]
      BY Zenon, <2>9, <2>0 DEF ExitReparent
    <3> QED BY Zenon, <2>9, <3>2, <3>3 DEF ExitReparent
  <2>10. CASE ExitDead(t)
    BY Zenon, <2>10 DEF ExitDead
  <2>11. CASE ExitCode(t)
    BY Zenon, <2>11 DEF ExitCode
  <2> QED BY Zenon, <2>2, <2>3, <2>4, <2>5, <2>6, <2>7, <2>8, <2>9, <2>10, <2>11 DEF ExitStep

\* It is kept by the steps of wait_for_event, wait4 and process_end.
<1>WaitTypes.
    ASSUME Types, NEW t \in Threads, WaitStep(t)
    PROVE  Types'
  <2> USE <1>WaitTypes
  <2> USE DEF Goto, Types, procVars, sigVars, infoVars, vforkVars
  <2>0. AfterPut(t) \in {"wait_out", "exit"}
    BY Zenon, AfterPutPoints
  <2>1. ASSUME NEW q \in Procs, Collect(t, q)
        PROVE  Types'
    <3>1. /\ UNCHANGED <<life, parent, children, thread_list, sflags, pending, vforkVars, waiting, sig>>
          /\ \/ process_put(t, q)
             \/ Goto(t, "wait_out") /\ UNCHANGED target
      BY Zenon, <2>1 DEF Collect
    <3>2. target' \in [Threads -> Procs \cup {Nobody}] /\ pc' \in [Threads -> RunPoints \cup {"unborn", "gone"}]
      <4>1. CASE process_put(t, q)
        BY Zenon, <4>1, <2>0 DEF process_put
      <4>2. CASE Goto(t, "wait_out") /\ UNCHANGED target
        BY Zenon, <4>2
      <4> QED BY Zenon, <3>1, <4>1, <4>2
    <3> QED BY Zenon, <3>1, <3>2
  <2>2. CASE ReapUnlink(t)
    <3>1. CASE parent[target[t]] \in Procs
      <4>1. list_remove(children[parent[target[t]]], target[t]) \in Seq(Procs)
        BY Zenon, <3>1, RemoveType
      <4>2. children' \in [Procs -> Seq(Procs)]
        BY Zenon, <2>2, <4>1 DEF ReapUnlink
      <4> QED BY Zenon, <2>2, <4>2 DEF ReapUnlink
    <3>2. CASE parent[target[t]] \notin Procs
      <4>1. children' = children
        BY <2>2, <3>2 DEF ReapUnlink
      <4> QED BY ZenonT(30), <2>2, <4>1 DEF ReapUnlink
    <3> QED BY Zenon, <3>1, <3>2
  <2>3. CASE ReapFree(t)
    BY Zenon, <2>3, <2>0 DEF ReapFree
  <2>4. CASE WaitFirst(t)
    <3>1. /\ UNCHANGED <<procVars, sigVars, vforkVars, waiting, target, sig>>
          /\ Goto(t, "wait_out") \/ Goto(t, "wait_add")
      BY Zenon, <2>4 DEF WaitFirst
    <3> QED BY ZenonT(30), <3>1
  <2>5. CASE WaitAdd(t)
    BY Zenon, <2>5 DEF WaitAdd
  <2>6. CASE WaitLook(t)
    BY Zenon, <2>6 DEF WaitLook
  <2>7. CASE WaitSleep(t)
    BY Zenon, <2>7 DEF WaitSleep
  <2>8. CASE WaitWoken(t)
    BY Zenon, <2>8 DEF WaitWoken
  <2>9. CASE WaitOut(t)
    BY Zenon, <2>9 DEF WaitOut
  <2>10. CASE WaitLeave(t)
    BY Zenon, <2>10 DEF WaitLeave
  <2>11. CASE WaitToExit(t)
    BY Zenon, <2>11 DEF WaitToExit
  <2> QED BY Zenon, <2>1, <2>2, <2>3, <2>4, <2>5, <2>6, <2>7, <2>8, <2>9, <2>10, <2>11 DEF WaitStep

\* It is kept by the rest of fork and kill, and on the way back to user space
\* (process_put, kernel_tkill, handle_signal).
<1>KernelTypes.
    ASSUME NEW t \in Threads,
           ForkPut(t) \/ QueueSignal(t) \/ ReturnToUser(t) \/ HandleSignal(t)
    PROVE  Types'
  <2> USE <1>KernelTypes
  <2> USE DEF Goto, Types, procVars, sigVars, infoVars, vforkVars
  <2>0. AfterPut(t) \in {"wait_out", "exit"} /\ Types
    BY Zenon, AfterPutPoints DEF ThreadsInv
  <2>1. CASE ForkPut(t)
    BY Zenon, <2>0, <2>1 DEF ForkPut, process_put
  <2>2. CASE QueueSignal(t)
    <3>1. /\ UNCHANGED <<life, parent, children, thread_list, sflags, vforkVars, waiting>>
          /\ process_put(t, target[t])
          /\ sig' = [sig EXCEPT ![t] = "none"]
      BY Zenon, <2>2 DEF QueueSignal
    <3>2. target' \in [Threads -> Procs \cup {Nobody}] /\ pc' \in [Threads -> RunPoints \cup {"unborn", "gone"}]
      BY Zenon, <2>0, <3>1 DEF process_put
    <3>3. sig[t] \in {"STOP", "CONT", "KILL"}
      BY Zenon, <2>2 DEF QueueSignal, At, ThreadsInv, Argument
    <3>4. \/ pending' = pending
          \/ sig[t] # "CONT" /\ pending' = [pending EXCEPT ![Main[target[t]]] = @ \cup {sig[t]}]
      BY Zenon, <2>2 DEF QueueSignal
    <3>5. Main[target[t]] \in Threads => pending[Main[target[t]]] \in SUBSET {"STOP", "KILL"}
      BY Zenon, <2>0
    <3>6. pending' \in [Threads -> SUBSET {"STOP", "KILL"}]
      <4>1. CASE pending' = pending
        BY Zenon, <2>0, <4>1
      <4>2. CASE sig[t] # "CONT" /\ pending' = [pending EXCEPT ![Main[target[t]]] = @ \cup {sig[t]}]
        <5>1. Main[target[t]] \in Threads => pending[Main[target[t]]] \cup {sig[t]} \in SUBSET {"STOP", "KILL"}
          BY Zenon, <3>3, <3>5, <4>2
        <5>2. pending \in [Threads -> SUBSET {"STOP", "KILL"}]
          BY Zenon, <2>0
        <5> HIDE DEF Types
        <5> DEFINE m == Main[target[t]]
        <5> DEFINE v == pending[m] \cup {sig[t]}
        <5>3. m \in Threads => v \in SUBSET {"STOP", "KILL"}
          BY Zenon, <5>1
        <5>4. pending' = [pending EXCEPT ![m] = v]
          BY Zenon, <4>2
        <5> HIDE DEF m, v
        <5> QED BY Zenon, <5>2, <5>3, <5>4, Update
      <4> QED BY Zenon, <3>4, <4>1, <4>2
    <3> QED BY ZenonT(30), <2>0, <3>1, <3>2, <3>6
  <2>3. CASE ReturnToUser(t)
    BY Zenon, <2>0, <2>3 DEF ReturnToUser
  <2>4. CASE HandleSignal(t)
    <3>1. UNCHANGED <<procVars, sigVars, vforkVars, waiting, target>>
      BY Zenon, <2>4 DEF HandleSignal
    <3>2. /\ \E b \in {"thread_exit", "stop_set", "exit_kill", "stop_all", "user"} : Goto(t, b)
          /\ sig' = sig \/ sig' = [sig EXCEPT ![t] = "STOP"]
      BY Zenon, <2>0, <2>4, SignalChoice
    <3>3. pc' \in [Threads -> RunPoints \cup {"unborn", "gone"}]
      BY ZenonT(30), <2>0, <3>2
    <3>4. sig' \in [Threads -> {"none", "STOP", "CONT", "KILL"}]
      BY Zenon, <2>0, <3>2, Update
    <3> QED BY Zenon, <2>0, <3>1, <3>3, <3>4
  <2> QED BY Zenon, <2>1, <2>2, <2>3, <2>4

\* Such a step keeps what is known of the threads.
<1>SimpleKeeps.
    ASSUME Types', NEW t \in Threads, NEW b, Simple(t, b)
    PROVE  ThreadsInv'
  <2> USE <1>SimpleKeeps
  <2>1. /\ pc[t] \in RunPoints /\ b \in RunPoints
        /\ pc'[t] = b /\ \A u \in Threads \ {t} : pc'[u] = pc[u]
    BY DEF ThreadsInv, Types, Simple, Goto, Active
  <2>2. \A u \in Threads : (Active(u))' <=> Active(u)
    BY ZenonT(30), <2>1 DEF Active
  <2>3. life' = life /\ thread_list' = thread_list
    BY Zenon DEF Simple
  <2>4. \A q \in Procs : Main[q] \in Threads
    BY Zenon, ProcessAssumption
  <2>5. \A u \in Threads : Owner[u] \in Procs
    BY Zenon, ProcessAssumption
  <2>6. Lists'
    BY Zenon, <2>2, <2>3 DEF ThreadsInv, Lists
  <2>7. Lives'
    <3>1. \A q \in Procs : pc'[Main[q]] = "unborn" <=> pc[Main[q]] = "unborn"
      BY Zenon, <2>1, <2>4
    <3>2. \A u \in Threads : (Active(Main[Owner[u]]))' <=> Active(Main[Owner[u]])
      BY Zenon, <2>2, <2>4, <2>5
    <3> QED BY Zenon, <2>2, <2>3, <3>1, <3>2 DEF ThreadsInv, Lives
  <2>8. MainThread'
    BY ZenonT(30), <2>1 DEF ThreadsInv, MainThread, Simple
  <2>9. Alone'
    <3> SUFFICES ASSUME NEW x \in Threads, NEW y \in Threads, pc'[x] \in AlonePoints,
                        Owner[y] = Owner[x], Active(y)
                 PROVE  y = x
      BY Zenon, <2>2 DEF Alone
    <3>1. CASE pc[x] \in AlonePoints
      BY Zenon, <3>1 DEF ThreadsInv, Alone
    <3>2. CASE pc[x] \notin AlonePoints
      <4>1. x = t /\ Len(thread_list[Owner[t]]) = 1
        BY Zenon, <2>1, <3>2 DEF Simple
      <4>2. x \in Members(thread_list[Owner[t]]) /\ y \in Members(thread_list[Owner[t]])
        BY Zenon, <2>5, <4>1 DEF ThreadsInv, Lists, Simple
      <4>3. thread_list[Owner[t]] \in Seq(Threads)
        BY Zenon, <2>5 DEF ThreadsInv, Types
      <4> QED BY ZenonT(30), <4>1, <4>2, <4>3, <1>OneMember
    <3> QED BY Zenon, <3>1, <3>2
  <2>10. Argument'
    BY Zenon, <2>1 DEF ThreadsInv, Argument, Simple
  <2> QED BY Zenon, <2>6, <2>7, <2>8, <2>9, <2>10 DEF ThreadsInv

\* A step is simple if it leaves signals alone and does not lead to a point
\* of process_exit or execve.
<1>PlainIsSimple.
    ASSUME NEW t \in Threads, Active(t),
           NEW b \in RunPoints \ (MainPoints \cup {"thread_exit", "tkill"}), Goto(t, b),
           UNCHANGED <<life, thread_list>>,
           \A u \in Threads : sflags'[u] \cap {"EXITING"} \subseteq sflags[u] /\ pending'[u] \subseteq pending[u],
           \A u \in Threads \ {t} : sig'[u] = sig[u] /\ target'[u] = target[u]
    PROVE  Simple(t, b)
  <2> USE <1>PlainIsSimple
  <2>1. b \notin MainPoints /\ b \notin AlonePoints /\ b \notin {"thread_exit", "tkill"}
    BY Zenon
  <2>2. \A u \in Threads : pending'[u] # {} => u = Main[Owner[u]]
    BY Zenon DEF ThreadsInv, MainThread
  <2>3. \A u \in Threads : "EXITING" \in sflags'[u] => u # Main[Owner[u]]
    BY Zenon DEF ThreadsInv, MainThread
  <2> QED BY Zenon, <2>1, <2>2, <2>3 DEF Simple

\* process_kill_other_threads, called by the main thread, tells only the
\* others to exit.
<1>OthersTold.
    ASSUME NEW t \in Threads, t = Main[Owner[t]], KillOthers(t)
    PROVE  /\ \A u \in Threads : "EXITING" \in sflags'[u] => u # Main[Owner[u]]
           /\ UNCHANGED <<life, thread_list, pending, sig, target>>
  <2> USE <1>OthersTold
  <2>1. UNCHANGED <<life, thread_list, pending, sig, target>>
    BY Zenon DEF KillOthers, procVars
  <2>2. ASSUME NEW u \in Threads, "EXITING" \in sflags'[u]
        PROVE  u # Main[Owner[u]]
    <3>1. CASE u \in ThreadsOf(Owner[t]) \ {t}
      <4>1. Owner[t] \in Procs
        BY Zenon, ProcessAssumption
      <4>2. Owner[u] = Owner[t]
        BY Zenon, <3>1, <4>1 DEF ThreadsInv, Lists, ThreadsOf
      <4> QED BY Zenon, <3>1, <4>2
    <3>2. CASE u \notin ThreadsOf(Owner[t]) \ {t}
      <4>1. sflags'[u] = sflags[u]
        BY Zenon, <3>2 DEF KillOthers
      <4> QED BY Zenon, <2>2, <4>1 DEF ThreadsInv, MainThread
    <3> QED BY Zenon, <3>1, <3>2
  <2> QED BY Zenon, <2>1, <2>2

\* kill, execve, exit, wait4 and pause move the caller.
<1>SimpleSyscalls.
    ASSUME NEW t \in Threads,
           \/ \E q \in Procs, s \in Signals : RaiseSignal(t, q, s)
           \/ Exec(t) \/ Exit(t) \/ Wait4(t) \/ Pause(t)
    PROVE  \E b \in RunPoints : Simple(t, b)
  <2> USE <1>SimpleSyscalls
  <2>0. Types
    BY Zenon DEF ThreadsInv
  <2>1. ASSUME NEW q \in Procs, NEW s \in Signals, RaiseSignal(t, q, s)
        PROVE  Simple(t, "tkill")
    <3>1. /\ Active(t) /\ Goto(t, "tkill") /\ UNCHANGED <<life, thread_list>>
          /\ sig' = [sig EXCEPT ![t] = s] /\ target' = [target EXCEPT ![t] = q] /\ Special(q, s)
      BY Zenon, <2>1 DEF RaiseSignal, At, Active
    <3>2. \A u \in Threads : sflags'[u] \subseteq sflags[u] /\ pending'[u] \subseteq pending[u]
      BY Zenon, <2>0, <3>1, <1>SpecialForgets
    <3>3. /\ \A u \in Threads : pending'[u] # {} => u = Main[Owner[u]]
          /\ \A u \in Threads : "EXITING" \in sflags'[u] => u # Main[Owner[u]]
      BY Zenon, <3>2 DEF ThreadsInv, MainThread
    <3>4. /\ sig'[t] = s /\ target'[t] = q
          /\ \A u \in Threads \ {t} : sig'[u] = sig[u] /\ target'[u] = target[u]
      BY Zenon, <2>0, <3>1 DEF Types
    <3>5. s \in {"STOP", "CONT", "KILL"}
      BY Zenon, ProcessAssumption
    <3> QED BY Zenon, <3>1, <3>3, <3>4, <3>5 DEF Simple
  <2>2. CASE Exec(t)
    <3>1. Active(t) /\ t = Main[Owner[t]] /\ KillOthers(t) /\ Goto(t, "exec_spin")
      BY Zenon, <2>2, ProcessAssumption DEF Exec, At, Active
    <3>2. /\ \A u \in Threads : "EXITING" \in sflags'[u] => u # Main[Owner[u]]
          /\ UNCHANGED <<life, thread_list, pending, sig, target>>
      BY Zenon, <3>1, <1>OthersTold
    <3>3. \A u \in Threads : pending'[u] # {} => u = Main[Owner[u]]
      BY Zenon, <3>2 DEF ThreadsInv, MainThread
    <3>4. Simple(t, "exec_spin")
      BY Zenon, <3>1, <3>2, <3>3 DEF Simple
    <3> QED BY Zenon, <3>4
  <2>3. CASE Exit(t)
    <3>1. /\ Active(t) /\ t = Main[Owner[t]] /\ Goto(t, "exit_kill")
          /\ UNCHANGED <<life, thread_list, pending, sflags, sig, target>>
      BY Zenon, <2>3, ProcessAssumption DEF Exit, At, Active, procVars, sigVars, infoVars
    <3>2. Simple(t, "exit_kill")
      BY Zenon, <3>1 DEF Simple, ThreadsInv, MainThread
    <3> QED BY Zenon, <3>2
  <2>4. CASE Wait4(t) \/ Pause(t)
    <3>1. /\ Active(t) /\ Goto(t, "wait_first")
          /\ UNCHANGED <<life, thread_list, pending, sflags, sig, target>>
      BY Zenon, <2>4 DEF Wait4, Pause, At, Active, procVars, sigVars, infoVars
    <3>2. Simple(t, "wait_first")
      BY Zenon, <3>1, <1>PlainIsSimple
    <3> QED BY Zenon, <3>2
  <2> QED BY Zenon, <2>1, <2>2, <2>3, <2>4

\* So do the steps of signal_do_stop.
<1>SimpleStops.
    ASSUME NEW t \in Threads, StopStep(t)
    PROVE  \E b \in RunPoints : Simple(t, b)
  <2> USE <1>SimpleStops
  <2>0. Types
    BY Zenon DEF ThreadsInv
  <2>1. CASE StopOthers(t)
    <3>1. Active(t) /\ Goto(t, "stop_group") /\ UNCHANGED <<life, thread_list, pending, sig, target>>
      BY Zenon, <2>1 DEF StopOthers, At, Active, procVars
    <3>2. \A u \in Threads : sflags'[u] \cap {"EXITING"} \subseteq sflags[u]
      BY Zenon, <2>1 DEF StopOthers
    <3>3. Simple(t, "stop_group")
      BY Zenon, <3>1, <3>2, <1>PlainIsSimple
    <3> QED BY Zenon, <3>3
  <2>2. CASE StopGroup(t)
    <3>1. Active(t) /\ Goto(t, "stop_code") /\ UNCHANGED <<life, thread_list, pending, sig, target>>
      BY Zenon, <2>2 DEF StopGroup, At, Active, procVars
    <3>2. \A u \in Threads : sflags'[u] \cap {"EXITING"} \subseteq sflags[u]
      BY Zenon, <2>0, <2>2 DEF StopGroup, Types
    <3>3. Simple(t, "stop_code")
      BY Zenon, <3>1, <3>2, <1>PlainIsSimple
    <3> QED BY Zenon, <3>3
  <2>3. ASSUME NEW b \in {"stop_wake", "stop_set", "stop_yield", "stopped"},
               \/ StopCode(t) /\ b = "stop_wake"
               \/ StopWake(t) /\ b = "stop_set"
               \/ StopSet(t) /\ b = "stop_yield"
               \/ StopYield(t) /\ b = "stopped"
        PROVE  Simple(t, b)
    <3>1. /\ Active(t) /\ Goto(t, b)
          /\ UNCHANGED <<life, thread_list, pending, sflags, sig, target>>
      BY Zenon, <2>3 DEF StopCode, StopWake, StopSet, StopYield, At, Active, procVars, sigVars, infoVars
    <3> QED BY Zenon, <3>1, <1>PlainIsSimple
  <2>4. CASE StopResume(t)
    <3>1. /\ Active(t) /\ Goto(t, "sigloop") /\ UNCHANGED <<life, thread_list, sflags, target>>
          /\ sig' = [sig EXCEPT ![t] = "none"]
          /\ pending' = [pending EXCEPT ![t] = @ \ {"STOP"}] \/ pending' = pending
      BY Zenon, <2>4 DEF StopResume, At, Active, procVars
    <3>2. \A u \in Threads : pending'[u] \subseteq pending[u]
      <4>1. pending \in [Threads -> SUBSET {"STOP", "KILL"}]
        BY Zenon, <2>0 DEF Types
      <4>2. CASE pending' = [pending EXCEPT ![t] = @ \ {"STOP"}]
        BY Zenon, <4>1, <4>2
      <4> QED BY Zenon, <3>1, <4>2
    <3>3. \A u \in Threads \ {t} : sig'[u] = sig[u] /\ target'[u] = target[u]
      BY Zenon, <2>0, <3>1 DEF Types
    <3>4. Simple(t, "sigloop")
      BY Zenon, <3>1, <3>2, <3>3, <1>PlainIsSimple
    <3> QED BY Zenon, <3>4
  <2>5. CASE StopCode(t) \/ StopWake(t) \/ StopSet(t) \/ StopYield(t)
    <3>1. \E b \in {"stop_wake", "stop_set", "stop_yield", "stopped"} : Simple(t, b)
      BY Zenon, <2>3, <2>5
    <3> QED BY Zenon, <3>1
  <2> QED BY Zenon, <2>1, <2>2, <2>4, <2>5 DEF StopStep

\* So do the steps of process_exit and execve, up to the last.
<1>SimpleExits.
    ASSUME NEW t \in Threads,
           \/ ExitKill(t) \/ ExitAlone(t) \/ ExecAlone(t) \/ VforkDone(t) \/ VforkWake(t)
           \/ VforkMayExit(t) \/ ExitReparent(t) \/ ExitDead(t) \/ ExitCode(t)
    PROVE  \E b \in RunPoints : Simple(t, b)
  <2> USE <1>SimpleExits
  <2>1. t = Main[Owner[t]] /\ Active(t)
    <3>1. pc[t] \in MainPoints
      BY Zenon DEF ExitKill, ExitAlone, ExecAlone, VforkDone, VforkWake, VforkMayExit, ExitReparent,
             ExitDead, ExitCode, At
    <3> QED BY Zenon, <3>1 DEF Active, ThreadsInv, MainThread
  <2>2. CASE ExitKill(t)
    <3>1. KillOthers(t) /\ Goto(t, "exit_spin")
      BY Zenon, <2>2 DEF ExitKill
    <3>2. /\ \A u \in Threads : "EXITING" \in sflags'[u] => u # Main[Owner[u]]
          /\ UNCHANGED <<life, thread_list, pending, sig, target>>
      BY Zenon, <2>1, <3>1, <1>OthersTold
    <3>3. \A u \in Threads : pending'[u] # {} => u = Main[Owner[u]]
      BY Zenon, <3>2 DEF ThreadsInv, MainThread
    <3>4. Simple(t, "exit_spin")
      BY Zenon, <2>1, <3>1, <3>2, <3>3 DEF Simple
    <3> QED BY Zenon, <3>4
  <2>3. ASSUME NEW b \in AlonePoints \cup {"exit"}, Goto(t, b),
               pc[t] \in AlonePoints \/ Len(thread_list[Owner[t]]) = 1,
               UNCHANGED <<life, thread_list, pending, sflags, sig, target>>
        PROVE  Simple(t, b)
    BY Zenon, <2>1, <2>3 DEF Simple, ThreadsInv, MainThread
  <2> USE DEF At, procVars, sigVars, infoVars
  <2>4. CASE ExitAlone(t)
    <3>1. /\ Len(thread_list[Owner[t]]) = 1
          /\ Goto(t, "vfork_done") \/ Goto(t, "exit_reparent")
          /\ UNCHANGED <<life, thread_list, pending, sflags, sig, target>>
      BY Zenon, <2>4 DEF ExitAlone
    <3> QED BY Zenon, <2>3, <3>1
  <2>5. CASE ExecAlone(t)
    <3>1. /\ Len(thread_list[Owner[t]]) = 1
          /\ Goto(t, "vfork_done") \/ Goto(t, "exit")
          /\ UNCHANGED <<life, thread_list, pending, sflags, sig, target>>
      BY Zenon, <2>5 DEF ExecAlone
    <3> QED BY Zenon, <2>3, <3>1
  <2>6. CASE VforkDone(t)
    <3>1. /\ pc[t] \in AlonePoints /\ Goto(t, "vfork_wake")
          /\ UNCHANGED <<life, thread_list, pending, sflags, sig, target>>
      BY Zenon, <2>6 DEF VforkDone
    <3> QED BY Zenon, <2>3, <3>1
  <2>7. CASE VforkWake(t)
    <3>1. /\ pc[t] \in AlonePoints /\ Goto(t, "vfork_may_exit")
          /\ UNCHANGED <<life, thread_list, pending, sflags, sig, target>>
      BY Zenon, <2>7 DEF VforkWake
    <3> QED BY Zenon, <2>3, <3>1
  <2>8. CASE VforkMayExit(t)
    <3>1. /\ pc[t] \in AlonePoints
          /\ Goto(t, "exit_reparent") \/ Goto(t, "exit")
          /\ UNCHANGED <<life, thread_list, pending, sflags, sig, target>>
      BY Zenon, <2>8 DEF VforkMayExit
    <3> QED BY Zenon, <2>3, <3>1
  <2>9. CASE ExitReparent(t)
    <3>1. /\ pc[t] \in AlonePoints /\ Goto(t, "exit_dead")
          /\ UNCHANGED <<life, thread_list, pending, sflags, sig, target>>
      BY Zenon, <2>9 DEF ExitReparent
    <3> QED BY Zenon, <2>3, <3>1
  <2>10. CASE ExitDead(t)
    <3>1. /\ pc[t] \in AlonePoints /\ Goto(t, "exit_code")
          /\ UNCHANGED <<life, thread_list, pending, sflags, sig, target>>
      BY Zenon, <2>10 DEF ExitDead
    <3> QED BY Zenon, <2>3, <3>1
  <2>11. CASE ExitCode(t)
    <3>1. /\ pc[t] \in AlonePoints /\ Goto(t, "exit_yield")
          /\ UNCHANGED <<life, thread_list, pending, sflags, sig, target>>
      BY Zenon, <2>11 DEF ExitCode
    <3> QED BY Zenon, <2>3, <3>1
  <2> QED BY Zenon, <2>2, <2>4, <2>5, <2>6, <2>7, <2>8, <2>9, <2>10, <2>11

\* So do the steps of wait_for_event and wait4, but for the end of
\* process_end.
<1>SimpleWaits.
    ASSUME NEW t \in Threads,
           \/ \E q \in Procs : Collect(t, q)
           \/ ReapUnlink(t) \/ WaitFirst(t) \/ WaitAdd(t) \/ WaitLook(t) \/ WaitSleep(t)
           \/ WaitWoken(t) \/ WaitOut(t) \/ WaitLeave(t) \/ WaitToExit(t)
    PROVE  \E b \in RunPoints : Simple(t, b)
  <2> USE <1>SimpleWaits
  <2>0. Types /\ AfterPut(t) \in {"wait_out", "exit"}
    BY Zenon, AfterPutPoints DEF ThreadsInv
  <2>1. Active(t)
    BY Zenon DEF Collect, ReapUnlink, WaitFirst, WaitAdd, WaitLook, WaitSleep, WaitWoken, WaitOut, WaitLeave,
                 WaitToExit, At, Active
  <2>2. ASSUME NEW b \in WaitPoints \cup {"reap_unlink", "reap_spin", "fork_put", "wait_to_exit", "exit"},
               Goto(t, b),
               \A u \in Threads \ {t} : target'[u] = target[u],
               UNCHANGED <<life, thread_list, pending, sflags, sig>>
        PROVE  Simple(t, b)
    BY Zenon, <2>1, <2>2, <1>PlainIsSimple
  <2>3. ASSUME NEW q \in Procs, Collect(t, q)
        PROVE  \E b \in RunPoints : Simple(t, b)
    <3>1. /\ UNCHANGED <<life, thread_list, pending, sflags, sig>>
          /\ process_put(t, q) \/ (Goto(t, "wait_out") /\ UNCHANGED target)
      BY Zenon, <2>3 DEF Collect, infoVars
    <3>2. CASE process_put(t, q)
      <4>1. /\ \A u \in Threads \ {t} : target'[u] = target[u]
            /\ Goto(t, "reap_unlink") \/ Goto(t, "wait_out") \/ Goto(t, "exit")
        BY Zenon, <2>0, <3>2 DEF process_put, Types
      <4> QED BY Zenon, <2>2, <3>1, <4>1
    <3>3. CASE Goto(t, "wait_out") /\ UNCHANGED target
      BY Zenon, <2>2, <3>1, <3>3
    <3> QED BY Zenon, <3>1, <3>2, <3>3
  <2> USE DEF procVars, sigVars, infoVars
  <2>5. CASE ReapUnlink(t)
    <3>1. Goto(t, "reap_spin") /\ UNCHANGED <<life, thread_list, pending, sflags, sig, target>>
      BY Zenon, <2>5 DEF ReapUnlink
    <3> QED BY Zenon, <2>2, <3>1
  <2>6. CASE WaitFirst(t)
    <3>1. /\ Goto(t, "wait_out") \/ Goto(t, "wait_add")
          /\ UNCHANGED <<life, thread_list, pending, sflags, sig, target>>
      BY Zenon, <2>6 DEF WaitFirst
    <3> QED BY Zenon, <2>2, <3>1
  <2>7. CASE WaitAdd(t)
    <3>1. Goto(t, "wait_look") /\ UNCHANGED <<life, thread_list, pending, sflags, sig, target>>
      BY Zenon, <2>7 DEF WaitAdd
    <3> QED BY Zenon, <2>2, <3>1
  <2>8. CASE WaitLook(t)
    <3>1. /\ Goto(t, "wait_out") \/ Goto(t, "wait_sleep")
          /\ UNCHANGED <<life, thread_list, pending, sflags, sig, target>>
      BY Zenon, <2>8 DEF WaitLook
    <3> QED BY Zenon, <2>2, <3>1
  <2>9. CASE WaitSleep(t)
    <3>1. Goto(t, "wait_woken") /\ UNCHANGED <<life, thread_list, pending, sflags, sig, target>>
      BY Zenon, <2>9 DEF WaitSleep
    <3> QED BY Zenon, <2>2, <3>1
  <2>10. CASE WaitWoken(t)
    <3>1. Goto(t, "wait_add") /\ UNCHANGED <<life, thread_list, pending, sflags, sig, target>>
      BY Zenon, <2>10 DEF WaitWoken
    <3> QED BY Zenon, <2>2, <3>1
  <2>11. CASE WaitOut(t) \/ WaitLeave(t)
    <3>1. /\ Goto(t, "wait_leave") \/ Goto(t, "wait_to_exit") \/ Goto(t, "exit")
          /\ UNCHANGED <<life, thread_list, pending, sflags, sig, target>>
      BY Zenon, <2>11 DEF WaitOut, WaitLeave
    <3> QED BY Zenon, <2>2, <3>1
  <2>12. CASE WaitToExit(t)
    <3>1. Goto(t, "fork_put") /\ UNCHANGED <<life, thread_list, pending, sflags, sig, target>>
      BY Zenon, <2>12 DEF WaitToExit
    <3> QED BY Zenon, <2>2, <3>1
  <2> QED BY Zenon, <2>3, <2>5, <2>6, <2>7, <2>8, <2>9, <2>10, <2>11, <2>12

\* So do process_put, kernel_tkill, which signals the main thread, and
\* handle_signal, which only sends a thread to process_exit or thread_exit
\* that was told to.
<1>SimpleKernel.
    ASSUME NEW t \in Threads,
           ForkPut(t) \/ QueueSignal(t) \/ ReturnToUser(t) \/ HandleSignal(t)
    PROVE  \E b \in RunPoints : Simple(t, b)
  <2> USE <1>SimpleKernel
  <2>0. Types /\ AfterPut(t) \in {"wait_out", "exit"}
    BY Zenon, AfterPutPoints DEF ThreadsInv
  <2>1. Active(t)
    BY Zenon DEF ForkPut, QueueSignal, ReturnToUser, HandleSignal, At, Active
  <2>2. ASSUME NEW q, process_put(t, q)
        PROVE  /\ \A u \in Threads \ {t} : target'[u] = target[u]
               /\ \E b \in {"reap_unlink", "wait_out", "exit"} : Goto(t, b)
    BY Zenon, <2>0, <2>2 DEF process_put, Types
  <2>3. CASE ForkPut(t)
    <3>1. process_put(t, target[t]) /\ UNCHANGED <<life, thread_list, pending, sflags, sig>>
      BY Zenon, <2>3 DEF ForkPut, sigVars, infoVars
    <3>2. PICK b \in {"reap_unlink", "wait_out", "exit"} : Goto(t, b)
      BY Zenon, <2>2, <3>1
    <3>3. \A u \in Threads \ {t} : target'[u] = target[u]
      BY Zenon, <2>2, <3>1
    <3>4. Simple(t, b)
      BY Zenon, <2>1, <3>1, <3>2, <3>3, <1>PlainIsSimple
    <3> QED BY Zenon, <3>4
  <2>4. CASE QueueSignal(t)
    <3>1. /\ process_put(t, target[t]) /\ UNCHANGED <<life, thread_list, sflags>>
          /\ sig' = [sig EXCEPT ![t] = "none"]
          /\ \/ pending' = pending
             \/ pending' = [pending EXCEPT ![Main[target[t]]] = @ \cup {sig[t]}]
      BY Zenon, <2>4 DEF QueueSignal
    <3>2. PICK b \in {"reap_unlink", "wait_out", "exit"} : Goto(t, b)
      BY Zenon, <2>2, <3>1
    <3>3. \A u \in Threads \ {t} : sig'[u] = sig[u] /\ target'[u] = target[u]
      BY Zenon, <2>0, <2>2, <3>1 DEF Types
    <3>4. target[t] \in Procs
      BY Zenon, <2>4 DEF QueueSignal, At, ThreadsInv, Argument
    <3>5. Owner[Main[target[t]]] = target[t]
      BY Zenon, <3>4, ProcessAssumption
    <3>6. \A u \in Threads : u # Main[target[t]] => pending'[u] = pending[u]
      BY Zenon, <2>0, <3>1 DEF Types
    <3>7. \A u \in Threads : pending'[u] # {} => u = Main[Owner[u]]
      BY Zenon, <3>5, <3>6 DEF ThreadsInv, MainThread
    <3>8. Simple(t, b)
      BY Zenon, <2>1, <3>1, <3>2, <3>3, <3>7 DEF Simple, ThreadsInv, MainThread
    <3> QED BY Zenon, <3>8
  <2>5. CASE ReturnToUser(t)
    <3>1. Goto(t, "user") /\ UNCHANGED <<life, thread_list, pending, sflags, sig, target>>
      BY Zenon, <2>5 DEF ReturnToUser, procVars, sigVars, infoVars
    <3>2. Simple(t, "user")
      BY Zenon, <2>1, <3>1, <1>PlainIsSimple
    <3> QED BY Zenon, <3>2
  <2>6. CASE HandleSignal(t)
    <3>1. UNCHANGED <<life, thread_list, pending, sflags, target>>
      BY Zenon, <2>6 DEF HandleSignal, procVars, sigVars, infoVars
    <3>2. PICK b \in {"thread_exit", "stop_set", "exit_kill", "stop_all", "user"} :
              /\ Goto(t, b)
              /\ b = "thread_exit" => "EXITING" \in sflags[t]
              /\ b = "exit_kill" => pending[t] # {}
      BY Zenon, <2>0, <2>6, SignalChoice
    <3>3. \A u \in Threads \ {t} : sig'[u] = sig[u]
      <4>1. sig' = sig \/ sig' = [sig EXCEPT ![t] = "STOP"]
        BY Zenon, <2>0, <2>6, SignalChoice
      <4> QED BY Zenon, <2>0, <4>1 DEF Types
    <3>4. /\ b = "thread_exit" => t # Main[Owner[t]]
          /\ b = "exit_kill" => t = Main[Owner[t]]
      BY Zenon, <3>2 DEF ThreadsInv, MainThread
    <3>5. Simple(t, b)
      BY Zenon, <2>1, <3>1, <3>2, <3>3, <3>4 DEF Simple, ThreadsInv, MainThread
    <3> QED BY Zenon, <3>5
  <2> QED BY Zenon, <2>3, <2>4, <2>5, <2>6

\* fork and vfork start a process with one thread.
<1>ForkThreads.
    ASSUME Types', NEW t \in Threads, NEW q \in Procs,
           NEW v \in BOOLEAN, ForkChild(t, q, v)
    PROVE  ThreadsInv'
  <2> USE <1>ForkThreads
  <2> DEFINE m == Main[q]
             b == IF v THEN "wait_first" ELSE "fork_put"
  <2>0. Types /\ Lists /\ Lives /\ MainThread /\ Alone /\ Argument
    BY Zenon DEF ThreadsInv
  <2>1. /\ m \in Threads /\ Owner[m] = q /\ \A p \in Procs : Main[p] \in Threads /\ Owner[Main[p]] = p
        /\ \A u \in Threads : Owner[u] \in Procs
    BY Zenon, ProcessAssumption
  <2>2. /\ pc[t] = "user" /\ life[q] = "unborn" /\ UNCHANGED <<sflags, pending, sig>>
        /\ life' = [life EXCEPT ![q] = "live"]
        /\ thread_list' = [thread_list EXCEPT ![q] = <<m>>]
        /\ target' = [target EXCEPT ![t] = q]
        /\ pc' = [pc EXCEPT ![t] = b, ![m] = "user"]
    BY Zenon DEF ForkChild, At, sigVars, infoVars
  <2>3. pc[m] = "unborn" /\ m # t /\ q # Owner[t]
    BY Zenon, <2>0, <2>1, <2>2 DEF Lives, Active
  <2>4. /\ pc'[t] = b /\ pc'[m] = "user" /\ b \in {"wait_first", "fork_put"}
        /\ \A u \in Threads \ {t, m} : pc'[u] = pc[u]
    BY <2>0, <2>1, <2>2, <2>3 DEF Types
  <2>5. \A u \in Threads : (Active(u))' <=> (Active(u) \/ u = m)
    BY ZenonT(30), <2>2, <2>4 DEF Active
  <2>6. \A u \in Threads : Active(u) => Owner[u] # q
    BY Zenon, <2>0, <2>2 DEF Lives
  <2>7. Lists'
    <3> SUFFICES ASSUME NEW p \in Procs
                 PROVE  /\ Distinct(thread_list'[p])
                        /\ \A u \in Threads : u \in Members(thread_list'[p]) <=> Owner[u] = p /\ (Active(u))'
      BY Zenon DEF Lists
    <3>1. CASE p = q
      <4>1. thread_list'[p] = <<m>>
        BY <2>0, <2>2, <3>1 DEF Types
      <4>2. Distinct(<<m>>) /\ Members(<<m>>) = {m}
        BY DEF Distinct, Members
      <4> QED BY Zenon, <2>1, <2>5, <2>6, <3>1, <4>1, <4>2
    <3>2. CASE p # q
      <4>1. thread_list'[p] = thread_list[p]
        BY <2>0, <2>2, <3>2 DEF Types
      <4> QED BY Zenon, <2>0, <2>1, <2>5, <3>2, <4>1 DEF Lists
    <3> QED BY Zenon, <3>1, <3>2
  <2>8. Lives'
    <3>1. \A p \in Procs : life'[p] = IF p = q THEN "live" ELSE life[p]
      BY ZenonT(30), <2>0, <2>2 DEF Types
    <3>2. ASSUME NEW p \in Procs
          PROVE  pc'[Main[p]] = "unborn" <=> pc[Main[p]] = "unborn" /\ p # q
      <4>1. CASE p = q
        BY Zenon, <2>4, <4>1
      <4>2. CASE p # q
        <5>1. Main[p] \in Threads /\ Main[p] # m
          BY Zenon, <2>1, <4>2
        <5> QED BY Zenon, <2>2, <2>4, <4>2, <5>1
      <4> QED BY Zenon, <4>1, <4>2
    <3>3. \A p \in Procs : /\ life'[p] = "unborn" => pc'[Main[p]] = "unborn"
                           /\ life'[p] = "live" => pc'[Main[p]] # "unborn"
      BY Zenon, <2>0, <3>1, <3>2 DEF Lives
    <3>4. ASSUME NEW u \in Threads, (Active(u))'
          PROVE  life'[Owner[u]] = "live" /\ (Active(Main[Owner[u]]))'
      BY <2>0, <2>1, <2>5, <3>1, <3>4 DEF Lives
    <3> QED BY Zenon, <3>3, <3>4 DEF Lives
  <2>9. MainThread'
    <3> SUFFICES ASSUME NEW u \in Threads
                 PROVE  /\ pc'[u] \in MainPoints => u = Main[Owner[u]]
                        /\ pending'[u] # {} => u = Main[Owner[u]]
                        /\ "EXITING" \in sflags'[u] \/ pc'[u] = "thread_exit" => u # Main[Owner[u]]
      BY Zenon DEF MainThread
    <3>1. pc'[u] \in MainPoints \/ pc'[u] = "thread_exit" => pc[u] = pc'[u]
      BY Zenon, <2>4
    <3> QED BY Zenon, <2>0, <2>2, <3>1 DEF MainThread
  <2>10. Alone'
    <3> SUFFICES ASSUME NEW x \in Threads, NEW y \in Threads, pc'[x] \in AlonePoints,
                        Owner[y] = Owner[x], (Active(y))'
                 PROVE  y = x
      BY Zenon DEF Alone
    <3>1. pc[x] \in AlonePoints /\ Active(x)
      BY Zenon, <2>4 DEF Active
    <3>2. Owner[x] # q
      BY Zenon, <2>6, <3>1
    <3>3. Active(y)
      BY Zenon, <2>1, <2>5, <3>2
    <3> QED BY Zenon, <2>0, <3>1, <3>3 DEF Alone
  <2>11. Argument'
    BY <2>0, <2>2, <2>4 DEF Argument, Types
  <2> QED BY Zenon, <2>7, <2>8, <2>9, <2>10, <2>11 DEF ThreadsInv

\* clone adds a thread to the process of the caller.
<1>CloneThreads.
    ASSUME Types', NEW t \in Threads, NEW w \in Threads, Clone(t, w)
    PROVE  ThreadsInv'
  <2> USE <1>CloneThreads
  <2> DEFINE o == Owner[t]
  <2>0. Types /\ Lists /\ Lives /\ MainThread /\ Alone /\ Argument
    BY Zenon DEF ThreadsInv
  <2>1. /\ o \in Procs /\ \A p \in Procs : Main[p] \in Threads /\ Owner[Main[p]] = p
        /\ \A u \in Threads : Owner[u] \in Procs
    BY Zenon, ProcessAssumption
  <2>2. /\ pc[t] = "user" /\ pc[w] = "unborn" /\ Owner[w] = o
        /\ thread_list' = [thread_list EXCEPT ![o] = Append(@, w)]
        /\ sflags' = [sflags EXCEPT ![w] = sflags[t]]
        /\ pc' = [pc EXCEPT ![w] = "user", ![t] = "exit"]
        /\ UNCHANGED <<life, pending, target, sig>>
    BY Zenon DEF Clone, At
  <2>3. Active(t) /\ ~Active(w) /\ w # t /\ life[o] = "live"
    BY Zenon, <2>0, <2>2 DEF Lives, Active
  <2>4. w # Main[o] /\ Main[Owner[w]] = Main[o]
    BY Zenon, <2>0, <2>1, <2>2, <2>3 DEF Lives
  <2>5. /\ pc'[t] = "exit" /\ pc'[w] = "user"
        /\ \A u \in Threads \ {t, w} : pc'[u] = pc[u]
    BY <2>0, <2>2, <2>3 DEF Types
  <2>6. \A u \in Threads : (Active(u))' <=> (Active(u) \/ u = w)
    BY Zenon, <2>3, <2>5 DEF Active
  <2>7. Lists'
    <3> SUFFICES ASSUME NEW p \in Procs
                 PROVE  /\ Distinct(thread_list'[p])
                        /\ \A u \in Threads : u \in Members(thread_list'[p]) <=> Owner[u] = p /\ (Active(u))'
      BY Zenon DEF Lists
    <3>1. CASE p = o
      <4>1. thread_list[o] \in Seq(Threads) /\ Distinct(thread_list[o]) /\ w \notin Members(thread_list[o])
        BY <2>0, <2>1, <2>3 DEF Types, Lists
      <4>2. thread_list'[p] = list_add_tail(thread_list[o], w)
        BY <2>0, <2>1, <2>2, <3>1 DEF Types, list_add_tail
      <4>3. /\ Distinct(thread_list'[p])
            /\ Members(thread_list'[p]) = Members(thread_list[o]) \cup {w}
        BY <4>1, <4>2, AddTail
      <4> QED BY Zenon, <2>0, <2>1, <2>2, <2>6, <3>1, <4>3 DEF Lists
    <3>2. CASE p # o
      <4>1. thread_list'[p] = thread_list[p]
        BY <2>0, <2>2, <3>2 DEF Types
      <4> QED BY Zenon, <2>0, <2>2, <2>6, <3>2, <4>1 DEF Lists
    <3> QED BY Zenon, <3>1, <3>2
  <2>8. Lives'
    <3>1. ASSUME NEW p \in Procs
          PROVE  /\ life'[p] = "unborn" => pc'[Main[p]] = "unborn"
                 /\ life'[p] = "live" => pc'[Main[p]] # "unborn"
      <4>1. Main[p] \in Threads /\ Main[p] # w
        BY Zenon, <2>1, <2>2, <2>4
      <4>2. pc'[Main[p]] = "unborn" <=> pc[Main[p]] = "unborn"
        BY Zenon, <2>2, <2>5, <4>1
      <4> QED BY Zenon, <2>0, <2>2, <4>2 DEF Lives
    <3>2. ASSUME NEW u \in Threads, (Active(u))'
          PROVE  life'[Owner[u]] = "live" /\ (Active(Main[Owner[u]]))'
      <4>1. life[Owner[u]] = "live" /\ Active(Main[Owner[u]])
        BY Zenon, <2>0, <2>2, <2>3, <2>6, <3>2 DEF Lives
      <4>2. Main[Owner[u]] \in Threads
        BY Zenon, <2>1
      <4> QED BY Zenon, <2>2, <2>6, <4>1, <4>2
    <3> QED BY Zenon, <3>1, <3>2 DEF Lives
  <2>9. MainThread'
    <3>1. \A u \in Threads : sflags'[u] = IF u = w THEN sflags[t] ELSE sflags[u]
      BY <2>0, <2>2 DEF Types
    <3>2. \A u \in Threads : "EXITING" \in sflags'[u] => u # Main[Owner[u]]
      BY Zenon, <2>0, <2>4, <3>1 DEF MainThread
    <3> SUFFICES ASSUME NEW u \in Threads
                 PROVE  /\ pc'[u] \in MainPoints => u = Main[Owner[u]]
                        /\ pending'[u] # {} => u = Main[Owner[u]]
                        /\ "EXITING" \in sflags'[u] \/ pc'[u] = "thread_exit" => u # Main[Owner[u]]
      BY Zenon DEF MainThread
    <3>3. pc'[u] \in MainPoints \/ pc'[u] = "thread_exit" => pc[u] = pc'[u]
      BY Zenon, <2>5
    <3> QED BY Zenon, <2>0, <2>2, <3>2, <3>3 DEF MainThread
  <2>10. Alone'
    <3> SUFFICES ASSUME NEW x \in Threads, NEW y \in Threads, pc'[x] \in AlonePoints,
                        Owner[y] = Owner[x], (Active(y))'
                 PROVE  y = x
      BY Zenon DEF Alone
    <3>1. pc[x] \in AlonePoints /\ x # t
      BY Zenon, <2>5
    <3>2. Owner[x] # o
      BY Zenon, <2>0, <2>3, <3>1 DEF Alone
    <3>3. Active(y)
      BY Zenon, <2>2, <2>6, <3>2
    <3> QED BY Zenon, <2>0, <3>1, <3>3 DEF Alone
  <2>11. Argument'
    BY Zenon, <2>0, <2>2, <2>5 DEF Argument
  <2> QED BY Zenon, <2>7, <2>8, <2>9, <2>10, <2>11 DEF ThreadsInv

\* A thread that leaves the processor DEAD leaves the list of its process
\* (thread_destroy): the last to do so is the main thread.
<1>DestroyThreads.
    ASSUME Types', NEW t \in Threads, Destroy(t),
           Active(t), pc[t] \in AlonePoints \/ t # Main[Owner[t]],
           UNCHANGED <<life, sflags, pending, target, sig>>
    PROVE  ThreadsInv'
  <2> USE <1>DestroyThreads
  <2> DEFINE o == Owner[t]
  <2>0. Types /\ Lists /\ Lives /\ MainThread /\ Alone /\ Argument
    BY Zenon DEF ThreadsInv
  <2>1. /\ o \in Procs /\ \A p \in Procs : Main[p] \in Threads /\ Owner[Main[p]] = p
        /\ \A u \in Threads : Owner[u] \in Procs
    BY Zenon, ProcessAssumption
  <2>2. /\ thread_list' = [thread_list EXCEPT ![o] = list_remove(@, t)]
        /\ pc'[t] = "gone" /\ \A u \in Threads \ {t} : pc'[u] = pc[u]
    BY <2>0 DEF Destroy, Goto, Types
  <2>3. \A u \in Threads : (Active(u))' <=> (Active(u) /\ u # t)
    BY ZenonT(30), <2>2 DEF Active
  <2>4. Lists'
    <3> SUFFICES ASSUME NEW p \in Procs
                 PROVE  /\ Distinct(thread_list'[p])
                        /\ \A u \in Threads : u \in Members(thread_list'[p]) <=> Owner[u] = p /\ (Active(u))'
      BY Zenon DEF Lists
    <3>1. CASE p = o
      <4>1. thread_list[o] \in Seq(Threads) /\ Distinct(thread_list[o]) /\ t \in Members(thread_list[o])
        BY <2>0, <2>1 DEF Types, Lists
      <4>2. thread_list'[p] = list_remove(thread_list[o], t)
        BY <2>0, <2>1, <2>2, <3>1 DEF Types
      <4>3. /\ Distinct(thread_list'[p])
            /\ Members(thread_list'[p]) = Members(thread_list[o]) \ {t}
        BY <4>1, <4>2, Remove
      <4> QED BY Zenon, <2>0, <2>1, <2>3, <3>1, <4>3 DEF Lists
    <3>2. CASE p # o
      <4>1. thread_list'[p] = thread_list[p]
        BY ZenonT(30), <2>0, <2>2, <3>2 DEF Types
      <4> QED BY <2>0, <2>3, <3>2, <4>1 DEF Lists
    <3> QED BY Zenon, <3>1, <3>2
  <2>5. Lives'
    <3>1. ASSUME NEW p \in Procs
          PROVE  /\ life'[p] = "unborn" => pc'[Main[p]] = "unborn"
                 /\ life'[p] = "live" => pc'[Main[p]] # "unborn"
      <4>1. pc[t] # "unborn"
        BY Zenon DEF Active
      <4>2. pc'[Main[p]] = "unborn" <=> pc[Main[p]] = "unborn"
        BY Zenon, <2>1, <2>2, <4>1
      <4> QED BY Zenon, <2>0, <4>2 DEF Lives
    <3>2. ASSUME NEW u \in Threads, (Active(u))'
          PROVE  life'[Owner[u]] = "live" /\ (Active(Main[Owner[u]]))'
      <4>1. life[Owner[u]] = "live" /\ Active(Main[Owner[u]]) /\ Active(u) /\ u # t
        BY Zenon, <2>0, <2>3, <3>2 DEF Lives
      <4>2. Main[Owner[u]] # t
        <5>1. CASE pc[t] \in AlonePoints
          BY Zenon, <2>0, <2>1, <4>1, <5>1 DEF Alone
        <5>2. CASE t # Main[Owner[t]]
          BY Zenon, <2>1, <5>2
        <5> QED BY Zenon, <5>1, <5>2
      <4> QED BY Zenon, <2>1, <2>3, <4>1, <4>2
    <3> QED BY Zenon, <3>1, <3>2 DEF Lives
  <2>6. MainThread'
    BY Zenon, <2>0, <2>2 DEF MainThread
  <2>7. Alone'
    BY Zenon, <2>0, <2>2, <2>3 DEF Alone
  <2>8. Argument'
    BY Zenon, <2>0, <2>2 DEF Argument
  <2> QED BY Zenon, <2>4, <2>5, <2>6, <2>7, <2>8 DEF ThreadsInv

\* process_end frees a process that has no thread left.
<1>ReapThreads.
    ASSUME Types', NEW t \in Threads, ReapFree(t)
    PROVE  ThreadsInv'
  <2> USE <1>ReapThreads
  <2>0. Types /\ Lists /\ Lives /\ MainThread /\ Alone /\ Argument
    BY Zenon DEF ThreadsInv
  <2>1. /\ \A p \in Procs : Main[p] \in Threads /\ Owner[Main[p]] = p
        /\ \A u \in Threads : Owner[u] \in Procs
    BY Zenon, ProcessAssumption
  <2>2. PICK q : q = target[t]
    BY Zenon
  <2>3. /\ pc[t] = "reap_spin" /\ thread_list[q] = <<>>
        /\ life' = [life EXCEPT ![q] = "freed"]
        /\ target' = [target EXCEPT ![t] = Nobody]
        /\ Goto(t, AfterPut(t)) /\ UNCHANGED <<thread_list, sflags, pending, sig>>
    BY Zenon, <2>2 DEF ReapFree, At, sigVars, infoVars
  <2>4. /\ pc'[t] \in {"wait_out", "exit"} /\ \A u \in Threads \ {t} : pc'[u] = pc[u] /\ target'[u] = target[u]
    BY <2>0, <2>3, AfterPutPoints DEF Goto, Types
  <2>5. \A u \in Threads : (Active(u))' <=> Active(u)
    BY Zenon, <2>3, <2>4 DEF Active
  <2>6. \A u \in Threads : Active(u) => Owner[u] # q
    <3>1. Members(<<>>) = {}
      BY DEF Members
    <3> QED BY Zenon, <2>0, <2>1, <2>3, <3>1 DEF Lists
  <2>7. Lists'
    BY Zenon, <2>0, <2>3, <2>5 DEF Lists
  <2>8. Lives'
    <3>1. ASSUME NEW u \in Threads, (Active(u))'
          PROVE  life'[Owner[u]] = "live" /\ (Active(Main[Owner[u]]))'
      <4>1. life[Owner[u]] = "live" /\ Active(Main[Owner[u]]) /\ Owner[u] # q
        BY Zenon, <2>0, <2>5, <2>6, <3>1 DEF Lives
      <4>2. life'[Owner[u]] = life[Owner[u]]
        BY <2>0, <2>1, <2>3, <4>1 DEF Types
      <4> QED BY Zenon, <2>1, <2>5, <4>1, <4>2
    <3>2. ASSUME NEW p \in Procs
          PROVE  /\ life'[p] = "unborn" => pc'[Main[p]] = "unborn"
                 /\ life'[p] = "live" => pc'[Main[p]] # "unborn"
      <4>1. pc'[Main[p]] = "unborn" <=> pc[Main[p]] = "unborn"
        BY Zenon, <2>1, <2>3, <2>4
      <4>2. CASE p = q
        <5>1. life'[p] = "freed"
          BY Zenon, <2>0, <2>3, <4>2 DEF Types
        <5> QED BY Zenon, <5>1
      <4>3. CASE p # q
        BY <2>0, <2>3, <4>1, <4>3 DEF Lives, Types
      <4> QED BY Zenon, <4>2, <4>3
    <3> QED BY Zenon, <3>1, <3>2 DEF Lives
  <2>9. MainThread'
    BY Zenon, <2>0, <2>3, <2>4 DEF MainThread
  <2>10. Alone'
    BY Zenon, <2>0, <2>3, <2>4, <2>5 DEF Alone
  <2>11. Argument'
    BY Zenon, <2>0, <2>3, <2>4 DEF Argument
  <2> QED BY Zenon, <2>7, <2>8, <2>9, <2>10, <2>11 DEF ThreadsInv

\* The steps of Next.
<1> SUFFICES ASSUME [Next]_vars PROVE ThreadsInv'
  BY Zenon
<1>0. Types
  BY ZenonT(30) DEF ThreadsInv
<1>1. CASE UNCHANGED vars \/ \E t \in Threads : Resched(t)
  <2>1. UNCHANGED <<life, parent, children, thread_list, vfork_compl, may_exit, sflags, pending, pc, waiting,
                    target, sig>>
    BY Zenon, <1>1 DEF Resched, vars, procVars, sigVars, infoVars, vforkVars
  <2>2. Types'
    BY Zenon, <1>0, <2>1 DEF Types
  <2>3. Lists' /\ Alone'
    BY Zenon, <2>1 DEF ThreadsInv, Lists, Alone, Active
  <2>4. Lives' /\ MainThread' /\ Argument'
    BY Zenon, <2>1 DEF ThreadsInv, Lives, MainThread, Argument, Active
  <2> QED BY Zenon, <2>2, <2>3, <2>4 DEF ThreadsInv
<1>2. ASSUME NEW t \in Threads, Syscall(t)
      PROVE  ThreadsInv'
  <2>1. Types'
    BY Zenon, <1>0, <1>2, <1>SyscallTypes
  <2>2. ASSUME NEW q \in Procs, Fork(t, q) \/ Vfork(t, q)
        PROVE  ThreadsInv'
    BY Zenon, <2>1, <2>2, <1>ForkThreads DEF Fork, Vfork
  <2>3. ASSUME NEW u \in Threads, Clone(t, u)
        PROVE  ThreadsInv'
    BY Zenon, <2>1, <2>3, <1>CloneThreads
  <2>4. CASE \/ \E q \in Procs, s \in Signals : RaiseSignal(t, q, s)
             \/ Exec(t) \/ Exit(t) \/ Wait4(t) \/ Pause(t)
    BY Zenon, <2>1, <2>4, <1>SimpleSyscalls, <1>SimpleKeeps
  <2> QED BY Zenon, <1>2, <2>2, <2>3, <2>4 DEF Syscall
<1>3. ASSUME NEW t \in Threads, StopStep(t)
      PROVE  ThreadsInv'
  BY Zenon, <1>0, <1>3, <1>StopTypes, <1>SimpleStops, <1>SimpleKeeps
<1>4. ASSUME NEW t \in Threads, ExitStep(t) \/ Preempt(t)
      PROVE  ThreadsInv'
  <2>1. Types'
    BY Zenon, <1>0, <1>4, <1>ExitTypes
  <2>2. CASE ThreadExit(t)
    <3>1. Destroy(t) /\ pc[t] = "thread_exit" /\ UNCHANGED <<life, sflags, pending, target, sig>>
      BY Zenon, <2>2 DEF ThreadExit, At, sigVars, infoVars
    <3>2. Active(t) /\ t # Main[Owner[t]]
      BY Zenon, <3>1 DEF ThreadsInv, MainThread, Active
    <3> QED BY Zenon, <2>1, <3>1, <3>2, <1>DestroyThreads
  <2>3. CASE ExitYield(t) \/ Preempt(t)
    <3>1. /\ Destroy(t) /\ pc[t] \in {"exit_yield", "exit_code"}
          /\ UNCHANGED <<life, sflags, pending, target, sig>>
      BY Zenon, <2>3 DEF ExitYield, Preempt, At, sigVars, infoVars
    <3>2. Active(t) /\ pc[t] \in AlonePoints
      BY Zenon, <3>1 DEF Active
    <3> QED BY Zenon, <2>1, <3>1, <3>2, <1>DestroyThreads
  <2>4. CASE \/ ExitKill(t) \/ ExitAlone(t) \/ ExecAlone(t) \/ VforkDone(t) \/ VforkWake(t)
             \/ VforkMayExit(t) \/ ExitReparent(t) \/ ExitDead(t) \/ ExitCode(t)
    BY Zenon, <2>1, <2>4, <1>SimpleExits, <1>SimpleKeeps
  <2> QED BY Zenon, <1>4, <2>2, <2>3, <2>4 DEF ExitStep
<1>5. ASSUME NEW t \in Threads, WaitStep(t)
      PROVE  ThreadsInv'
  <2>1. Types'
    BY Zenon, <1>0, <1>5, <1>WaitTypes
  <2>2. CASE ReapFree(t)
    BY Zenon, <2>1, <2>2, <1>ReapThreads
  <2>3. CASE ~ReapFree(t)
    BY Zenon, <1>5, <2>1, <2>3, <1>SimpleWaits, <1>SimpleKeeps DEF WaitStep
  <2> QED BY Zenon, <2>2, <2>3
<1>6. ASSUME NEW t \in Threads, ForkPut(t) \/ QueueSignal(t) \/ ReturnToUser(t) \/ HandleSignal(t)
      PROVE  ThreadsInv'
  BY Zenon, <1>6, <1>KernelTypes, <1>SimpleKernel, <1>SimpleKeeps
<1> QED BY Zenon, <1>1, <1>2, <1>3, <1>4, <1>5, <1>6 DEF Next, KernelStep

\* A process has the threads that are on its list, its main thread outlives
\* the others and alone exits or execs (process_kill_other_threads), and
\* signals go to it (kernel_raise_signal).
THEOREM Threading == Spec => []ThreadsInv
<1>1. Init => ThreadsInv
  BY Zenon, ThreadsInitial
<1>2. ThreadsInv /\ [Next]_vars => ThreadsInv'
  BY Zenon, ThreadsStep
<1> QED BY <1>1, <1>2, PTL DEF Spec

\* Nothing is freed while it is in use: the process of a thread that runs is
\* live, whoever collects it and whenever (process_wait_for_dead_threads).
THEOREM NoEarlyFree == Spec => []NothingFreedInUse
<1>1. ThreadsInv => NothingFreedInUse
  BY Zenon DEF ThreadsInv, Types, Lives, Active, NothingFreedInUse
<1> QED BY <1>1, Threading, PTL

-----------------------------------------------------------------------------
(* vfork.                                                                  *)

\* A step of thread t that leaves the other threads where they are.
OthersSame(t) ==
    \A u \in Threads \ {t} : pc'[u] = pc[u] /\ waiting'[u] = waiting[u] /\ target'[u] = target[u]

\* What moves one thread, with its own arguments, leaves the others alone.
LEMMA OneMoves ==
    ASSUME Types, NEW t \in Threads, NEW b, Goto(t, b),
           waiting' = waiting \/ (\E x : waiting' = [waiting EXCEPT ![t] = x]),
           target' = target \/ (\E x : target' = [target EXCEPT ![t] = x])
    PROVE  OthersSame(t) /\ pc'[t] = b
BY ZenonT(30) DEF OthersSame, Goto, Types

\* Every step but fork, vfork and clone moves one thread.
LEMMA StepMovesOne ==
    ASSUME Types, NEW t \in Threads,
           \/ KernelStep(t) \/ Preempt(t)
           \/ \E q \in Procs, s \in Signals : RaiseSignal(t, q, s)
           \/ Exec(t) \/ Exit(t) \/ Wait4(t) \/ Pause(t)
    PROVE  OthersSame(t)
<1>1. ASSUME NEW q \in Procs, NEW s \in Signals, RaiseSignal(t, q, s) PROVE OthersSame(t)
  BY Zenon, <1>1, OneMoves DEF RaiseSignal
<1>2. CASE Exec(t) \/ Exit(t)
  BY Zenon, <1>2, OneMoves DEF Exec, Exit, KillOthers
<1>3. CASE Wait4(t) \/ Pause(t)
  BY Zenon, <1>3, OneMoves DEF Wait4, Pause
<1>4. CASE StopStep(t)
  BY Zenon, <1>4, OneMoves DEF StopStep, StopOthers, StopGroup, StopCode, StopWake, StopSet, StopYield, StopResume
<1>5. CASE Preempt(t) \/ ThreadExit(t) \/ ExitYield(t)
  BY Zenon, <1>5, OneMoves DEF Preempt, ThreadExit, ExitYield, Destroy
<1>6. CASE ExitKill(t) \/ ExitAlone(t) \/ ExecAlone(t) \/ VforkDone(t) \/ VforkWake(t)
  BY Zenon, <1>6, OneMoves DEF ExitKill, KillOthers, ExitAlone, ExecAlone, VforkDone, VforkWake
<1>7. CASE VforkMayExit(t) \/ ExitReparent(t) \/ ExitDead(t) \/ ExitCode(t)
  BY Zenon, <1>7, OneMoves DEF VforkMayExit, ExitReparent, ExitDead, ExitCode
<1>8. CASE ForkPut(t) \/ QueueSignal(t)
  BY Zenon, <1>8, OneMoves DEF ForkPut, QueueSignal, process_put
<1>9. CASE ReturnToUser(t)
  BY Zenon, <1>9, OneMoves DEF ReturnToUser
<1>10. CASE HandleSignal(t)
  <2>1. waiting' = waiting /\ target' = target
    BY Zenon, <1>10 DEF HandleSignal
  <2> QED BY Zenon, <1>10, <2>1, SignalChoice, OneMoves
<1>11. ASSUME NEW q \in Procs, Collect(t, q) PROVE OthersSame(t)
  BY ZenonT(30), <1>11, OneMoves DEF Collect, process_put
<1>12. CASE ReapUnlink(t) \/ ReapFree(t)
  BY Zenon, <1>12, OneMoves DEF ReapUnlink, ReapFree
<1>13. CASE WaitFirst(t)
  <2>1. waiting' = waiting /\ target' = target /\ (Goto(t, "wait_out") \/ Goto(t, "wait_add"))
    BY ZenonT(30), <1>13 DEF WaitFirst
  <2> QED BY Zenon, <2>1, OneMoves
<1>14. CASE WaitAdd(t) \/ WaitLook(t) \/ WaitSleep(t) \/ WaitWoken(t)
  BY Zenon, <1>14, OneMoves DEF WaitAdd, WaitLook, WaitSleep, WaitWoken
<1>15. CASE WaitOut(t) \/ WaitLeave(t) \/ WaitToExit(t)
  BY Zenon, <1>15, OneMoves DEF WaitOut, WaitLeave, WaitToExit
<1> QED BY Zenon, <1>1, <1>2, <1>3, <1>4, <1>5, <1>6, <1>7, <1>8, <1>9, <1>10, <1>11, <1>12, <1>13, <1>14, <1>15
        DEF KernelStep, ExitStep, WaitStep

\* Who is in vfork is known of every reachable state.
LEMMA VforkStep == ThreadsInv /\ VforkInv /\ [Next]_vars => VforkInv'
<1> SUFFICES ASSUME ThreadsInv, VforkInv
             PROVE  [Next]_vars => VforkInv'
  BY Zenon

\* A step that has nothing to do with a completion: no thread leaves vfork,
\* and none gets to touch a completion that is not there.
<1>VforkFrame.
    ASSUME UNCHANGED <<vfork_compl, may_exit>>,
           \A q \in Procs : life'[q] = "unborn" => life[q] = "unborn",
           \A u \in Threads, q \in Procs : InVfork(u, q) /\ vfork_compl[q] => (InVfork(u, q))',
           \A u \in Threads : pc'[u] \in VforkPoints => vfork_compl[Owner[u]]
    PROVE  VforkInv'
  <2> USE <1>VforkFrame
  <2>1. \A q \in Procs : vfork_compl[q] => \E u \in Threads : (InVfork(u, q))'
    BY Zenon DEF VforkInv
  <2> QED BY Zenon, <2>1 DEF VforkInv

\* Such are the steps of a thread that is not in vfork.
<1>VforkQuiet.
    ASSUME UNCHANGED <<vfork_compl, may_exit>>, NEW t \in Threads, OthersSame(t),
           \A q \in Procs : life'[q] = "unborn" => life[q] = "unborn",
           \A q \in Procs : ~InVfork(t, q),
           pc'[t] \in VforkPoints => vfork_compl[Owner[t]]
    PROVE  VforkInv'
  <2> USE <1>VforkQuiet
  <2>1. \A u \in Threads, q \in Procs : InVfork(u, q) => (InVfork(u, q))'
    BY Zenon DEF InVfork, OthersSame
  <2>2. \A u \in Threads : pc'[u] \in VforkPoints => vfork_compl[Owner[u]]
    BY Zenon DEF VforkInv, OthersSame
  <2> QED BY Zenon, <2>1, <2>2, <1>VforkFrame

\* vfork makes a completion, and the caller waits on it.
<1>VforkForks.
    ASSUME NEW t \in Threads, NEW q \in Procs,
           NEW v \in BOOLEAN, ForkChild(t, q, v)
    PROVE  VforkInv'
  <2> USE <1>VforkForks
  <2> DEFINE m == Main[q]
  <2>0. Types /\ Lives
    BY Zenon DEF ThreadsInv
  <2>1. m \in Threads /\ \A u \in Threads : Owner[u] \in Procs
    BY Zenon, ProcessAssumption
  <2>2. /\ pc[t] = "user" /\ life[q] = "unborn" /\ UNCHANGED may_exit
        /\ life' = [life EXCEPT ![q] = "live"]
        /\ vfork_compl' = [vfork_compl EXCEPT ![q] = v]
        /\ target' = [target EXCEPT ![t] = q]
        /\ waiting' = [waiting EXCEPT ![t] = IF v THEN "vfork" ELSE @]
        /\ pc' = [pc EXCEPT ![t] = IF v THEN "wait_first" ELSE "fork_put", ![m] = "user"]
    BY Zenon DEF ForkChild, At
  <2>3. pc[m] = "unborn" /\ m # t
    BY Zenon, <2>0, <2>2 DEF Lives
  <2>4. /\ pc'[t] = (IF v THEN "wait_first" ELSE "fork_put") /\ pc'[m] = "user"
        /\ waiting'[t] = (IF v THEN "vfork" ELSE waiting[t]) /\ target'[t] = q
        /\ \A u \in Threads \ {t, m} : pc'[u] = pc[u]
        /\ \A u \in Threads \ {t} : waiting'[u] = waiting[u] /\ target'[u] = target[u]
    BY ZenonT(30), <2>0, <2>1, <2>2, <2>3 DEF Types
  <2>5. \A u \in Threads, p \in Procs : InVfork(u, p) => (InVfork(u, p))'
    <3> SUFFICES ASSUME NEW u \in Threads, NEW p \in Procs, InVfork(u, p) PROVE (InVfork(u, p))'
      BY Zenon
    <3>1. u # t /\ u # m
      BY Zenon, <2>2, <2>3 DEF InVfork
    <3> QED BY Zenon, <2>4, <3>1 DEF InVfork
  <2>6. /\ vfork_compl'[q] = v /\ life'[q] = "live"
        /\ \A p \in Procs \ {q} : vfork_compl'[p] = vfork_compl[p] /\ life'[p] = life[p]
    BY Zenon, <2>0, <2>2 DEF Types
  <2>7. ASSUME NEW p \in Procs, vfork_compl'[p]
        PROVE  ~may_exit'[p] /\ \E u \in Threads : (InVfork(u, p))'
    <3>1. CASE p = q
      <4>1. v = TRUE
        BY Zenon, <2>6, <2>7, <3>1
      <4>2. (InVfork(t, q))'
        BY Zenon, <2>4, <4>1 DEF InVfork
      <4> QED BY Zenon, <2>2, <3>1, <4>2 DEF VforkInv
    <3>2. CASE p # q
      <4>1. vfork_compl[p]
        BY Zenon, <2>6, <2>7, <3>2
      <4>2. ~may_exit[p] /\ \E u \in Threads : InVfork(u, p)
        BY Zenon, <4>1 DEF VforkInv
      <4> QED BY Zenon, <2>2, <2>5, <4>2
    <3> QED BY Zenon, <3>1, <3>2
  <2>8. ASSUME NEW p \in Procs, life'[p] = "unborn"
        PROVE  ~may_exit'[p]
    BY Zenon, <2>2, <2>6, <2>8 DEF VforkInv
  <2>9. ASSUME NEW u \in Threads, pc'[u] \in VforkPoints
        PROVE  vfork_compl'[Owner[u]]
    <3>1. pc[u] \in VforkPoints
      BY Zenon, <2>4, <2>9
    <3>2. Owner[u] # q
      BY ZenonT(30), <2>0, <2>2, <3>1 DEF Lives, Active
    <3> QED BY Zenon, <2>1, <2>6, <3>1, <3>2 DEF VforkInv
  <2> QED BY Zenon, <2>7, <2>8, <2>9 DEF VforkInv

\* vfork_completion::wake ends: the process has no completion any more.
<1>VforkEnds.
    ASSUME NEW t \in Threads, VforkMayExit(t)
    PROVE  VforkInv'
  <2> USE <1>VforkEnds
  <2>0. Types /\ Lives /\ Alone
    BY Zenon DEF ThreadsInv
  <2>1. \A u \in Threads : Owner[u] \in Procs
    BY Zenon, ProcessAssumption
  <2>2. /\ pc[t] = "vfork_may_exit" /\ UNCHANGED <<life, waiting, target>>
        /\ may_exit' = [may_exit EXCEPT ![Owner[t]] = TRUE]
        /\ vfork_compl' = [vfork_compl EXCEPT ![Owner[t]] = FALSE]
        /\ Goto(t, "exit_reparent") \/ Goto(t, "exit")
    BY Zenon DEF VforkMayExit, At, procVars
  <2>3. /\ pc'[t] \in {"exit_reparent", "exit"}
        /\ \A u \in Threads \ {t} : pc'[u] = pc[u]
    BY Zenon, <2>0, <2>2 DEF Types, Goto
  <2>4. life[Owner[t]] = "live"
    BY Zenon, <2>0, <2>2 DEF Lives, Active
  <2>5. /\ ~vfork_compl'[Owner[t]]
        /\ \A p \in Procs \ {Owner[t]} : vfork_compl'[p] = vfork_compl[p] /\ may_exit'[p] = may_exit[p]
    BY Zenon, <2>0, <2>1, <2>2 DEF Types
  <2>6. ASSUME NEW p \in Procs, vfork_compl'[p]
        PROVE  ~may_exit'[p] /\ \E u \in Threads : (InVfork(u, p))'
    <3>1. vfork_compl[p] /\ may_exit'[p] = may_exit[p]
      BY Zenon, <2>5, <2>6
    <3>2. PICK u \in Threads : InVfork(u, p)
      BY Zenon, <3>1 DEF VforkInv
    <3>3. u # t
      BY Zenon, <2>2, <3>2 DEF InVfork
    <3>4. (InVfork(u, p))'
      BY Zenon, <2>2, <2>3, <3>2, <3>3 DEF InVfork
    <3> QED BY Zenon, <3>1, <3>4 DEF VforkInv
  <2>7. ASSUME NEW p \in Procs, life'[p] = "unborn"
        PROVE  ~may_exit'[p]
    BY Zenon, <2>2, <2>4, <2>5, <2>7 DEF VforkInv
  <2>8. ASSUME NEW u \in Threads, pc'[u] \in VforkPoints
        PROVE  vfork_compl'[Owner[u]]
    <3>1. u # t /\ pc[u] \in VforkPoints
      BY Zenon, <2>3, <2>8
    <3>2. Owner[u] # Owner[t]
      BY Zenon, <2>0, <2>2, <3>1 DEF Alone, Active
    <3> QED BY Zenon, <2>1, <2>5, <3>1, <3>2 DEF VforkInv
  <2> QED BY Zenon, <2>6, <2>7, <2>8 DEF VforkInv

\* The steps of wait_for_event keep a thread in vfork, up to wait_to_exit,
\* which ends when the child has no more use for the completion.
<1>VforkWaits.
    ASSUME NEW t \in Threads,
           \/ WaitFirst(t) \/ WaitAdd(t) \/ WaitLook(t) \/ WaitSleep(t) \/ WaitWoken(t) \/ WaitOut(t)
           \/ WaitLeave(t) \/ WaitToExit(t)
    PROVE  VforkInv'
  <2> USE <1>VforkWaits
  <2>0. Types
    BY Zenon DEF ThreadsInv
  <2>1. UNCHANGED <<life, vfork_compl, may_exit, target>>
    BY Zenon DEF WaitFirst, WaitAdd, WaitLook, WaitSleep, WaitWoken, WaitOut, WaitLeave, WaitToExit,
                 procVars, vforkVars
  <2>2. OthersSame(t)
    BY Zenon, <2>0, StepMovesOne DEF KernelStep, WaitStep
  <2>3. pc'[t] \notin VforkPoints /\ \A q \in Procs : InVfork(t, q) /\ vfork_compl[q] => (InVfork(t, q))'
    <3>1. CASE WaitToExit(t)
      <4>1. may_exit[target[t]] /\ pc'[t] = "fork_put"
        BY ZenonT(30), <2>0, <3>1 DEF WaitToExit, Goto, Types
      <4>2. \A q \in Procs : InVfork(t, q) => ~vfork_compl[q]
        BY ZenonT(30), <4>1 DEF InVfork, VforkInv
      <4> QED BY Zenon, <4>1, <4>2
    <3>2. CASE WaitLeave(t)
      <4>1. /\ pc[t] = "wait_leave"
            /\ pc'[t] = IF waiting[t] = "vfork" THEN "wait_to_exit" ELSE "exit"
        BY Zenon, <2>0, <3>2 DEF WaitLeave, At, Goto, Types
      <4> QED BY Zenon, <2>1, <4>1 DEF InVfork
    <3>3. CASE WaitFirst(t) \/ WaitAdd(t) \/ WaitLook(t) \/ WaitSleep(t) \/ WaitWoken(t) \/ WaitOut(t)
      <4>1. /\ pc[t] \in WaitPoints /\ waiting' = waiting
            /\ \E b \in WaitPoints : Goto(t, b)
        BY Zenon, <3>3 DEF WaitFirst, WaitAdd, WaitLook, WaitSleep, WaitWoken, WaitOut, At
      <4>2. pc'[t] \in WaitPoints
        BY Zenon, <2>0, <4>1 DEF Goto, Types
      <4> QED BY Zenon, <2>1, <4>1, <4>2 DEF InVfork
    <3> QED BY Zenon, <3>1, <3>2, <3>3
  <2>4. \A u \in Threads, q \in Procs : InVfork(u, q) /\ vfork_compl[q] => (InVfork(u, q))'
    BY ZenonT(30), <2>2, <2>3 DEF InVfork, OthersSame
  <2>5. \A u \in Threads : pc'[u] \in VforkPoints => vfork_compl[Owner[u]]
    BY Zenon, <2>2, <2>3 DEF VforkInv, OthersSame
  <2> QED BY Zenon, <2>1, <2>4, <2>5, <1>VforkFrame

\* The steps of Next.
<1> SUFFICES ASSUME [Next]_vars PROVE VforkInv'
  BY Zenon
<1>0. Types
  BY Zenon DEF ThreadsInv
<1>1. CASE UNCHANGED vars \/ \E t \in Threads : Resched(t)
  <2>1. UNCHANGED <<life, vfork_compl, may_exit, pc, waiting, target>>
    BY Zenon, <1>1 DEF Resched, vars, procVars, vforkVars
  <2> QED BY <2>1 DEF VforkInv, InVfork
<1>2. ASSUME NEW t \in Threads, NEW q \in Procs, Fork(t, q) \/ Vfork(t, q)
      PROVE  VforkInv'
  BY Zenon, <1>2, <1>VforkForks DEF Fork, Vfork
<1>3. ASSUME NEW t \in Threads, NEW w \in Threads, Clone(t, w)
      PROVE  VforkInv'
  <2>1. /\ pc[t] = "user" /\ pc[w] = "unborn"
        /\ pc' = [pc EXCEPT ![w] = "user", ![t] = "exit"]
        /\ UNCHANGED <<life, vfork_compl, may_exit, waiting, target>>
    BY Zenon, <1>3 DEF Clone, At, vforkVars
  <2>2. pc'[t] = "exit" /\ pc'[w] = "user" /\ \A u \in Threads \ {t, w} : pc'[u] = pc[u]
    BY Zenon, <1>0, <2>1 DEF Types
  <2>3. \A u \in Threads, q \in Procs : InVfork(u, q) => (InVfork(u, q))'
    BY Zenon, <2>1, <2>2 DEF InVfork
  <2>4. \A u \in Threads : pc'[u] \in VforkPoints => vfork_compl[Owner[u]]
    BY Zenon, <2>2 DEF VforkInv
  <2> QED BY Zenon, <2>1, <2>3, <2>4, <1>VforkFrame
<1>4. ASSUME NEW t \in Threads, OthersSame(t), UNCHANGED <<life, vfork_compl, may_exit>>,
             pc[t] \notin WaitPoints \cup {"wait_to_exit"},
             pc'[t] \in VforkPoints => vfork_compl[Owner[t]]
      PROVE  VforkInv'
  <2>1. \A q \in Procs : ~InVfork(t, q)
    BY Zenon, <1>4 DEF InVfork
  <2> QED BY Zenon, <1>4, <2>1, <1>VforkQuiet
<1>5. ASSUME NEW t \in Threads,
             \/ \E q \in Procs, s \in Signals : RaiseSignal(t, q, s)
             \/ Exec(t) \/ Exit(t) \/ Wait4(t) \/ Pause(t)
      PROVE  VforkInv'
  <2>1. OthersSame(t)
    BY Zenon, <1>0, <1>5, StepMovesOne
  <2>2. /\ pc[t] = "user" /\ UNCHANGED <<life, vfork_compl, may_exit>>
        /\ \E b \in {"tkill", "exec_spin", "exit_kill", "wait_first"} : Goto(t, b)
    BY Zenon, <1>5 DEF RaiseSignal, Exec, KillOthers, Exit, Wait4, Pause, At, procVars, vforkVars
  <2>3. pc'[t] \notin VforkPoints
    BY Zenon, <1>0, <2>2 DEF Goto, Types
  <2> QED BY Zenon, <1>4, <2>1, <2>2, <2>3
<1>6. ASSUME NEW t \in Threads, StopStep(t)
      PROVE  VforkInv'
  <2>1. OthersSame(t)
    BY Zenon, <1>0, <1>6, StepMovesOne DEF KernelStep
  <2>2. /\ pc[t] \in StopPoints /\ UNCHANGED <<life, vfork_compl, may_exit>>
        /\ \E b \in StopPoints \cup {"sigloop"} : Goto(t, b)
    BY Zenon, <1>6 DEF StopStep, StopOthers, StopGroup, StopCode, StopWake, StopSet, StopYield, StopResume,
                At, procVars, vforkVars
  <2>3. pc'[t] \notin VforkPoints
    BY Zenon, <1>0, <2>2 DEF Goto, Types
  <2> QED BY Zenon, <1>4, <2>1, <2>2, <2>3
<1>7. ASSUME NEW t \in Threads, ExitStep(t) \/ Preempt(t)
      PROVE  VforkInv'
  <2>1. OthersSame(t)
    BY Zenon, <1>0, <1>7, StepMovesOne DEF KernelStep
  <2>2. CASE VforkMayExit(t)
    BY Zenon, <2>2, <1>VforkEnds
  <2>3. CASE ExitAlone(t) \/ ExecAlone(t)
    <3>1. /\ pc[t] \in {"exit_spin", "exec_spin"} /\ UNCHANGED <<life, vfork_compl, may_exit>>
          /\ \E b \in {"exit", "exit_reparent", "vfork_done"} :
                Goto(t, b) /\ (b = "vfork_done" => vfork_compl[Owner[t]])
      BY Zenon, <2>3 DEF ExitAlone, ExecAlone, At, procVars, vforkVars
    <3>2. pc'[t] \in VforkPoints => vfork_compl[Owner[t]]
      BY Zenon, <1>0, <3>1 DEF Goto, Types
    <3> QED BY Zenon, <1>4, <2>1, <3>1, <3>2
  <2>4. CASE VforkDone(t) \/ VforkWake(t)
    <3>1. pc[t] \in VforkPoints /\ UNCHANGED <<life, vfork_compl, may_exit>>
      BY Zenon, <2>4 DEF VforkDone, VforkWake, At, procVars, vforkVars
    <3>2. vfork_compl[Owner[t]]
      BY Zenon, <3>1 DEF VforkInv
    <3> QED BY Zenon, <1>4, <2>1, <3>1, <3>2
  <2>5. CASE \/ ThreadExit(t) \/ ExitYield(t) \/ Preempt(t)
             \/ ExitKill(t) \/ ExitReparent(t) \/ ExitDead(t) \/ ExitCode(t)
    <3>1. /\ pc[t] \in {"thread_exit", "exit_kill", "exit_reparent"} \cup LastPoints
          /\ UNCHANGED <<life, vfork_compl, may_exit>>
          /\ \E b \in {"gone", "exit_spin"} \cup LastPoints : Goto(t, b)
      BY Zenon, <2>5 DEF ThreadExit, ExitYield, Preempt, Destroy, ExitKill, KillOthers, ExitReparent, ExitDead,
                  ExitCode, At, procVars, vforkVars
    <3>2. pc'[t] \notin VforkPoints
      BY Zenon, <1>0, <3>1 DEF Goto, Types
    <3> QED BY ZenonT(30), <1>4, <2>1, <3>1, <3>2
  <2> QED BY Zenon, <1>7, <2>2, <2>3, <2>4, <2>5 DEF ExitStep
<1>8. ASSUME NEW t \in Threads, ForkPut(t) \/ QueueSignal(t) \/ ReturnToUser(t) \/ HandleSignal(t)
      PROVE  VforkInv'
  <2>1. OthersSame(t)
    BY Zenon, <1>0, <1>8, StepMovesOne DEF KernelStep
  <2>2. /\ pc[t] \in {"fork_put", "tkill", "exit", "sigloop", "user"}
        /\ UNCHANGED <<life, vfork_compl, may_exit>>
    BY Zenon, <1>8 DEF ForkPut, QueueSignal, ReturnToUser, HandleSignal, At, procVars, vforkVars
  <2>3. PICK b : Goto(t, b) /\ b \notin VforkPoints
    <3>1. CASE ForkPut(t) \/ QueueSignal(t)
      BY <3>1, AfterPutPoints DEF ForkPut, QueueSignal, process_put
    <3>2. CASE ReturnToUser(t)
      BY <3>2 DEF ReturnToUser
    <3>3. CASE HandleSignal(t)
      BY Zenon, <1>0, <3>3, SignalChoice
    <3> QED BY Zenon, <1>8, <3>1, <3>2, <3>3
  <2>4. pc'[t] \notin VforkPoints
    BY Zenon, <1>0, <2>3 DEF Goto, Types
  <2> QED BY Zenon, <1>4, <2>1, <2>2, <2>4
<1>9. ASSUME NEW t \in Threads, WaitStep(t)
      PROVE  VforkInv'
  <2>1. OthersSame(t)
    BY Zenon, <1>0, <1>9, StepMovesOne DEF KernelStep
  <2>2. ASSUME NEW q \in Procs, Collect(t, q)
        PROVE  VforkInv'
    <3>1. waiting[t] = "child" /\ pc[t] \in WaitPoints /\ UNCHANGED <<life, vfork_compl, may_exit>>
      BY Zenon, <2>2 DEF Collect, Found, At, vforkVars
    <3>2. PICK b : Goto(t, b) /\ b \notin VforkPoints
      BY SMTT(30), <2>2, AfterPutPoints DEF Collect, process_put
    <3>3. pc'[t] \notin VforkPoints
      BY Zenon, <1>0, <3>2 DEF Goto, Types
    <3>4. \A p \in Procs : ~InVfork(t, p)
      BY Zenon, <3>1 DEF InVfork
    <3> QED BY Zenon, <2>1, <3>1, <3>3, <3>4, <1>VforkQuiet
  <2>3. CASE ReapUnlink(t) \/ ReapFree(t)
    <3>1. /\ pc[t] \in {"reap_unlink", "reap_spin"} /\ UNCHANGED <<vfork_compl, may_exit>>
          /\ life' = life \/ life' = [life EXCEPT ![target[t]] = "freed"]
      BY Zenon, <2>3 DEF ReapUnlink, ReapFree, At, vforkVars
    <3>2. PICK b : Goto(t, b) /\ b \notin VforkPoints
      <4>1. CASE ReapUnlink(t)
        BY <4>1 DEF ReapUnlink
      <4>2. CASE ReapFree(t)
        BY Zenon, <4>2, AfterPutPoints DEF ReapFree
      <4> QED BY Zenon, <2>3, <4>1, <4>2
    <3>3. pc'[t] \notin VforkPoints
      BY Zenon, <1>0, <3>2 DEF Goto, Types
    <3>4. \A q \in Procs : life'[q] = "unborn" => life[q] = "unborn"
      BY Zenon, <1>0, <3>1 DEF Types
    <3>5. \A p \in Procs : ~InVfork(t, p)
      BY Zenon, <3>1 DEF InVfork
    <3> QED BY Zenon, <2>1, <3>1, <3>3, <3>4, <3>5, <1>VforkQuiet
  <2>4. CASE \/ WaitFirst(t) \/ WaitAdd(t) \/ WaitLook(t) \/ WaitSleep(t) \/ WaitWoken(t) \/ WaitOut(t)
             \/ WaitLeave(t) \/ WaitToExit(t)
    BY Zenon, <2>4, <1>VforkWaits
  <2> QED BY Zenon, <1>9, <2>2, <2>3, <2>4 DEF WaitStep
<1> QED BY Zenon, <1>1, <1>2, <1>3, <1>5, <1>6, <1>7, <1>8, <1>9 DEF Next, KernelStep, Syscall

\* A thread of a process made by vfork touches the completion only while its
\* parent is in vfork (sys_vfork, vfork_completion).
THEOREM VforkFrames == Spec => []VforkFrameInUse
<1>1. Init => VforkInv
  BY ZenonT(30) DEF Init, VforkInv
<1>2. ThreadsInv /\ VforkInv /\ [Next]_vars => VforkInv'
  BY Zenon, VforkStep
<1>3. VforkInv => VforkFrameInUse
  BY ProcessAssumption DEF VforkInv, InVfork, VforkFrameInUse
<1> QED BY <1>1, <1>2, <1>3, Threading, PTL DEF Spec

-----------------------------------------------------------------------------
(* The tree of parents and children.                                       *)

Wards(t, q) == q \in Procs \ {InitProc} /\ life[q] = "live" /\ parent[q] = Owner[t] /\ Family(t)

\* A process with a thread that is not at the end of process_exit has not
\* given its children away.
LEMMA NotPast ==
    ASSUME ThreadsInv, NEW t \in Threads, Active(t), pc[t] \notin LastPoints
    PROVE  ~Past(Owner[t]) /\ Owner[t] \in Procs /\ Main[Owner[t]] \in Threads
<1>1. Owner[t] \in Procs /\ Main[Owner[t]] \in Threads /\ Owner[Main[Owner[t]]] = Owner[t]
  BY Zenon, ProcessAssumption
<1>2. Active(Main[Owner[t]])
  BY Zenon DEF ThreadsInv, Lives
<1>3. pc[Main[Owner[t]]] # "gone"
  BY Zenon, <1>2 DEF Active
<1>4. pc[Main[Owner[t]]] \in LastPoints => t = Main[Owner[t]]
  BY Zenon, <1>1 DEF ThreadsInv, Alone
<1> QED BY Zenon, <1>1, <1>3, <1>4 DEF Past

\* A step of t that leaves the other threads where they are, or starts one.
OthersSameOrNew(t) ==
    \A u \in Threads \ {t} :
        /\ pc'[u] = pc[u] \/ (pc[u] = "unborn" /\ pc'[u] = "user")
        /\ waiting'[u] = waiting[u] /\ target'[u] = target[u]

\* The tree at the start: pid 1 and its children.
LEMMA TreeInitial == Init => TreeInv
<1> SUFFICES ASSUME Init PROVE TreeInv
  BY Zenon
<1>1. /\ Elders \in Seq(Procs \ {InitProc}) /\ Distinct(Elders)
      /\ Members(Elders) \subseteq Procs \ {InitProc} /\ InitProc \in Procs
      /\ \A p \in Procs : Main[p] \in Threads
  BY ProcessAssumption DEF Members
<1>2. \A u \in Threads : pc[u] \in {"user", "unborn"}
  BY Zenon DEF Init
<1>3. Distinct(<<>>) /\ Members(<<>>) = {}
  BY DEF Distinct, Members
<1>4. /\ \A q \in Procs : parent[q] = IF q \in Members(Elders) THEN InitProc ELSE Nobody
      /\ \A q \in Procs : children[q] = IF q = InitProc THEN Elders ELSE <<>>
      /\ \A q \in Procs : life[q] = IF q \in {InitProc} \cup Members(Elders) THEN "live" ELSE "unborn"
  BY Zenon DEF Init, Alive
<1>5. Holders
  BY Zenon, <1>2 DEF Holders, Holds
<1>6. Children
  <2> SUFFICES ASSUME NEW p \in Procs
               PROVE  /\ Distinct(children[p])
                      /\ \A q \in Members(children[p]) : q # InitProc /\ life[q] = "live" /\ parent[q] = p
    BY Zenon DEF Children
  <2>1. CASE p = InitProc
    BY Zenon, <1>1, <1>4, <2>1
  <2>2. CASE p # InitProc
    BY Zenon, <1>3, <1>4, <2>2
  <2> QED BY Zenon, <2>1, <2>2
<1>7. Parents
  <2> SUFFICES ASSUME NEW q \in Procs, life[q] = "live", q # InitProc
               PROVE  /\ parent[q] = InitProc /\ life[InitProc] = "live" /\ ~Past(InitProc)
                      /\ q \in Members(children[InitProc])
    BY Zenon, <1>1 DEF Parents
  <2>1. q \in Members(Elders)
    BY Zenon, <1>4
  <2>2. ~Past(InitProc)
    BY Zenon, <1>1, <1>2 DEF Past
  <2> QED BY Zenon, <1>1, <1>4, <2>1, <2>2
<1>8. Unlinked
  BY Zenon, <1>2 DEF Unlinked
<1>9. First
  <2>1. pc[Main[InitProc]] \in {"user", "unborn"}
    BY Zenon, <1>1, <1>2
  <2>2. ~vfork_compl[InitProc]
    BY Zenon, <1>1 DEF Init
  <2> QED BY Zenon, <1>1, <1>4, <2>1, <2>2 DEF First
<1>10. \A t \in Threads : waiting[t] = "child" => "wait" \in Ops[t]
  BY Zenon DEF Init
<1> QED BY Zenon, <1>5, <1>6, <1>7, <1>8, <1>9, <1>10 DEF TreeInv

\* Every step keeps the tree.
LEMMA TreeStep ==
    OneFamilyThread /\ ThreadsInv /\ TreeInv /\ [Next]_vars => TreeInv'
<1> SUFFICES ASSUME OneFamilyThread, ThreadsInv, TreeInv
             PROVE  [Next]_vars => TreeInv'
  BY Zenon

\* A step that leaves the tree alone.  If it gives a thread a process to
\* hold, it is a child of its own.
<1>TreeQuiet.
    ASSUME NEW t \in Threads, OthersSameOrNew(t),
           UNCHANGED <<life, parent, children>>, ~vfork_compl'[InitProc],
           (Holds(t))' => Wards(t, target'[t]),
           pc[t] # "reap_spin", pc'[t] # "reap_spin",
           t = Main[Owner[t]] => (pc'[t] \in LastPoints \cup {"gone"} <=> pc[t] \in LastPoints \cup {"gone"}),
           t = Main[InitProc] => pc'[t] \notin {"exit_spin", "gone"} \cup AlonePoints,
           waiting'[t] = "child" => "wait" \in Ops[t]
    PROVE  TreeInv'
  <2> USE <1>TreeQuiet
  <2>1. /\ \A p \in Procs : Main[p] \in Threads /\ Owner[Main[p]] = p
        /\ InitProc \in Procs
    BY Zenon, ProcessAssumption
  <2>2. \A u \in Threads \ {t} :
          /\ pc'[u] = pc[u] \/ (pc[u] = "unborn" /\ pc'[u] = "user")
          /\ waiting'[u] = waiting[u] /\ target'[u] = target[u]
    BY Zenon DEF OthersSameOrNew
  <2>3. \A p \in Procs : (Past(p))' <=> Past(p)
    <3> SUFFICES ASSUME NEW p \in Procs PROVE (Past(p))' <=> Past(p)
      BY Zenon
    <3>1. CASE Main[p] = t
      BY Zenon, <2>1, <3>1 DEF Past
    <3>2. CASE Main[p] # t
      BY Zenon, <2>1, <2>2, <3>2 DEF Past
    <3> QED BY Zenon, <3>1, <3>2
  <2>4. Holders'
    <3> SUFFICES ASSUME NEW u \in Threads, (Holds(u))'
                 PROVE  Wards(u, target'[u])
      BY Zenon DEF Holders, Wards
    <3>1. CASE u # t
      BY <2>2, <3>1 DEF TreeInv, Holders, Holds, Wards
    <3> QED BY Zenon, <3>1
  <2>5. Children'
    BY Zenon, <2>3 DEF TreeInv, Children
  <2>6. Parents'
    <3>1. \A u \in Threads, q \in Procs :
              target[u] = q /\ pc[u] = "reap_spin" => target'[u] = q /\ pc'[u] = "reap_spin"
      BY Zenon, <2>2
    <3> SUFFICES ASSUME NEW q \in Procs, life[q] = "live", q # InitProc
                 PROVE  /\ parent[q] \in Procs /\ life[parent[q]] = "live" /\ ~(Past(parent[q]))'
                        /\ \/ q \in Members(children[parent[q]])
                           \/ \E u \in Threads : target'[u] = q /\ pc'[u] = "reap_spin"
      BY Zenon DEF Parents
    <3>2. /\ parent[q] \in Procs /\ life[parent[q]] = "live" /\ ~Past(parent[q])
          /\ q \in Members(children[parent[q]]) \/ \E u \in Threads : target[u] = q /\ pc[u] = "reap_spin"
      BY Zenon DEF TreeInv, Parents
    <3> QED BY Zenon, <2>3, <3>1, <3>2
  <2>7. Unlinked'
    BY Zenon, <2>2 DEF TreeInv, Unlinked
  <2>8. First'
    BY Zenon, <2>1, <2>2 DEF TreeInv, First
  <2>9. \A u \in Threads : waiting'[u] = "child" => "wait" \in Ops[u]
    BY Zenon, <2>2 DEF TreeInv
  <2> QED BY Zenon, <2>4, <2>5, <2>6, <2>7, <2>8, <2>9 DEF TreeInv

\* Such is a step to a point at which nothing is held and that is not near
\* the end of process_exit.
<1>TreeIdle.
    ASSUME NEW t \in Threads, OthersSameOrNew(t),
           UNCHANGED <<life, parent, children>>, ~vfork_compl'[InitProc],
           pc[t] \in RunPoints \ (LastPoints \cup {"reap_spin"}),
           pc'[t] \in RunPoints \ (LastPoints \cup HolderPoints \cup WaitPoints),
           pc'[t] \in {"exit_spin"} \cup AlonePoints => Owner[t] # InitProc,
           UNCHANGED waiting
    PROVE  TreeInv'
  <2> USE <1>TreeIdle
  <2>1. ~(Holds(t))'
    BY Zenon DEF Holds
  <2>2. pc'[t] # "reap_spin" /\ pc[t] # "reap_spin"
    BY Zenon
  <2>3. pc'[t] \notin LastPoints \cup {"gone"} /\ pc[t] \notin LastPoints \cup {"gone"}
    BY Zenon
  <2>4. t = Main[InitProc] => pc'[t] \notin {"exit_spin", "gone"} \cup AlonePoints
    BY Zenon, ProcessAssumption
  <2>5. waiting'[t] = "child" => "wait" \in Ops[t]
    BY Zenon DEF TreeInv
  <2> QED BY Zenon, <2>1, <2>2, <2>3, <2>4, <2>5, <1>TreeQuiet

\* The system calls that leave the tree alone.  kill takes a reference of a
\* child of the caller.
<1>TreeSyscalls.
    ASSUME NEW t \in Threads,
           \/ \E w \in Threads : Clone(t, w)
           \/ \E q \in Procs, s \in Signals : RaiseSignal(t, q, s)
           \/ Exec(t) \/ Exit(t) \/ Wait4(t) \/ Pause(t)
    PROVE  TreeInv'
  <2> USE <1>TreeSyscalls
  <2>0. Types /\ ~vfork_compl[InitProc]
    BY Zenon DEF ThreadsInv, TreeInv, First
  <2>1. pc[t] = "user"
    BY Zenon DEF Clone, RaiseSignal, Exec, Exit, Wait4, Pause, At
  <2>2. UNCHANGED <<life, parent, children, vfork_compl>>
    BY Zenon DEF Clone, RaiseSignal, Exec, KillOthers, Exit, Wait4, Pause, procVars, vforkVars
  <2>3. ASSUME NEW w \in Threads, Clone(t, w)
        PROVE  TreeInv'
    <3>1. /\ pc[w] = "unborn" /\ pc' = [pc EXCEPT ![w] = "user", ![t] = "exit"]
          /\ UNCHANGED <<waiting, target>>
      BY Zenon, <2>3 DEF Clone
    <3>2. pc'[t] = "exit" /\ OthersSameOrNew(t)
      BY Zenon, <2>0, <3>1 DEF Types, OthersSameOrNew
    <3> QED BY Zenon, <2>0, <2>1, <2>2, <3>1, <3>2, <1>TreeIdle
  <2>4. CASE Exec(t) \/ Exit(t)
    <3>1. UNCHANGED waiting /\ (Goto(t, "exec_spin") \/ Goto(t, "exit_kill"))
      BY Zenon, <2>4 DEF Exec, KillOthers, Exit
    <3>2. OthersSameOrNew(t)
      BY Zenon, <2>0, <2>4, StepMovesOne DEF OthersSame, OthersSameOrNew
    <3>3. pc'[t] \in {"exec_spin", "exit_kill"}
      BY Zenon, <2>0, <3>1 DEF Goto, Types
    <3> QED BY Zenon, <2>0, <2>1, <2>2, <3>1, <3>2, <3>3, <1>TreeIdle
  <2>5. ASSUME OthersSameOrNew(t), pc'[t] \in {"tkill", "wait_first"},
               (Holds(t))' => Wards(t, target'[t]),
               waiting'[t] = "child" => "wait" \in Ops[t]
        PROVE  TreeInv'
    <3>1. pc'[t] \notin LastPoints \cup {"gone"} /\ pc[t] \notin LastPoints \cup {"gone"}
      BY Zenon, <2>1, <2>5
    <3>2. pc'[t] \notin {"exit_spin", "gone"} \cup AlonePoints /\ pc'[t] # "reap_spin" /\ pc[t] # "reap_spin"
      BY Zenon, <2>1, <2>5
    <3> QED BY Zenon, <2>0, <2>2, <2>5, <3>1, <3>2, <1>TreeQuiet
  <2>6. ASSUME NEW q \in Procs, NEW s \in Signals, RaiseSignal(t, q, s)
        PROVE  TreeInv'
    <3>1. /\ life[q] = "live" /\ parent[q] = Owner[t] /\ "kill" \in Ops[t] /\ Goto(t, "tkill")
          /\ target' = [target EXCEPT ![t] = q] /\ UNCHANGED waiting
      BY Zenon, <2>6 DEF RaiseSignal
    <3>2. q # InitProc
      BY <3>1, ProcessAssumption DEF TreeInv, First
    <3>3. OthersSameOrNew(t)
      BY Zenon, <2>0, <2>6, StepMovesOne DEF OthersSame, OthersSameOrNew
    <3>4. pc'[t] = "tkill" /\ target'[t] = q
      BY Zenon, <2>0, <3>1 DEF Goto, Types
    <3>5. Wards(t, target'[t])
      BY Zenon, <3>1, <3>2, <3>4 DEF Wards, Family
    <3>6. waiting'[t] = "child" => "wait" \in Ops[t]
      BY Zenon, <3>1 DEF TreeInv
    <3> QED BY Zenon, <2>5, <3>3, <3>4, <3>5, <3>6
  <2>7. CASE Wait4(t) \/ Pause(t)
    <3>1. /\ Goto(t, "wait_first")
          /\ \/ waiting' = [waiting EXCEPT ![t] = "child"] /\ "wait" \in Ops[t]
             \/ waiting' = [waiting EXCEPT ![t] = "signal"]
      BY Zenon, <2>7 DEF Wait4, Pause
    <3>2. OthersSameOrNew(t)
      BY Zenon, <2>0, <2>7, StepMovesOne DEF OthersSame, OthersSameOrNew
    <3>3. /\ pc'[t] = "wait_first"
          /\ (waiting'[t] = "child" /\ "wait" \in Ops[t]) \/ waiting'[t] = "signal"
      BY Zenon, <2>0, <3>1 DEF Goto, Types
    <3>4. ~(Holds(t))'
      BY Zenon, <3>3 DEF Holds
    <3> QED BY Zenon, <2>5, <3>2, <3>3, <3>4
  <2> QED BY Zenon, <2>3, <2>4, <2>6, <2>7

\* fork and vfork put the child on the list of the caller's process.
<1>TreeFork.
    ASSUME NEW t \in Threads, NEW q \in Procs,
           NEW v \in BOOLEAN, ForkChild(t, q, v), Family(t)
    PROVE  TreeInv'
  <2> USE <1>TreeFork
  <2> DEFINE m == Main[q]
             o == Owner[t]
             c == children[o]
  <2>0. Types /\ Lives
    BY Zenon DEF ThreadsInv
  <2>1. /\ m \in Threads /\ o \in Procs /\ InitProc \in Procs
        /\ \A p \in Procs : Main[p] \in Threads /\ Owner[Main[p]] = p
    BY Zenon, ProcessAssumption
  <2>2. /\ pc[t] = "user" /\ life[q] = "unborn"
        /\ life' = [life EXCEPT ![q] = "live"]
        /\ parent' = [parent EXCEPT ![q] = o]
        /\ children' = [children EXCEPT ![o] = Append(@, q)]
        /\ vfork_compl' = [vfork_compl EXCEPT ![q] = v]
        /\ target' = [target EXCEPT ![t] = q]
        /\ waiting' = [waiting EXCEPT ![t] = IF v THEN "vfork" ELSE @]
        /\ pc' = [pc EXCEPT ![t] = IF v THEN "wait_first" ELSE "fork_put", ![m] = "user"]
    BY Zenon DEF ForkChild, At
  <2>3. pc[m] = "unborn" /\ m # t /\ q # InitProc /\ q # o /\ life[o] = "live"
    <3>1. Active(t)
      BY Zenon, <2>2 DEF Active
    <3> QED BY Zenon, <2>0, <2>2, <3>1 DEF Lives, TreeInv, First
  <2>4. /\ pc'[t] = (IF v THEN "wait_first" ELSE "fork_put") /\ pc'[m] = "user"
        /\ waiting'[t] = (IF v THEN "vfork" ELSE waiting[t]) /\ target'[t] = q
        /\ \A u \in Threads \ {t, m} : pc'[u] = pc[u]
        /\ \A u \in Threads \ {t} : waiting'[u] = waiting[u] /\ target'[u] = target[u]
    BY <2>0, <2>1, <2>2, <2>3 DEF Types
  <2>5. /\ life'[q] = "live" /\ parent'[q] = o /\ children'[o] = list_add_tail(c, q)
        /\ \A p \in Procs \ {q} : life'[p] = life[p] /\ parent'[p] = parent[p]
        /\ \A p \in Procs \ {o} : children'[p] = children[p]
        /\ vfork_compl'[InitProc] = vfork_compl[InitProc]
    BY <2>0, <2>1, <2>2, <2>3 DEF Types, list_add_tail
  <2>6. ~Past(o)
    BY Zenon, <2>2, NotPast DEF Active
  <2>7. \A p \in Procs : (Past(p))' <=> Past(p)
    <3> SUFFICES ASSUME NEW p \in Procs PROVE (Past(p))' <=> Past(p)
      BY Zenon
    <3>1. CASE Main[p] \in {t, m}
      BY <2>2, <2>3, <2>4, <3>1, ProcessAssumption DEF Past
    <3>2. CASE Main[p] \notin {t, m}
      BY Zenon, <2>1, <2>4, <3>2 DEF Past
    <3> QED BY Zenon, <3>1, <3>2
  <2>8. /\ Distinct(children'[o]) /\ Members(children'[o]) = Members(c) \cup {q}
        /\ \A x \in Members(c) : x # InitProc /\ life[x] = "live" /\ parent[x] = o
    <3>1. /\ c \in Seq(Procs) /\ Distinct(c)
          /\ \A x \in Members(c) : x # InitProc /\ life[x] = "live" /\ parent[x] = o
      BY Zenon, <2>0, <2>1, <2>6 DEF Types, TreeInv, Children
    <3>2. q \notin Members(c)
      BY Zenon, <2>2, <3>1
    <3> QED BY <2>5, <3>1, <3>2, AddTail
  <2>9. Holders'
    <3> SUFFICES ASSUME NEW u \in Threads, (Holds(u))'
                 PROVE  /\ target'[u] \in Procs \ {InitProc} /\ life'[target'[u]] = "live"
                        /\ parent'[target'[u]] = Owner[u] /\ Family(u)
      BY Zenon DEF Holders
    <3>1. CASE u = t
      BY Zenon, <2>3, <2>4, <2>5, <3>1
    <3>2. CASE u # t
      <4>1. u # m /\ Holds(u)
        BY Zenon, <2>4, <3>2 DEF Holds
      <4>2. target[u] \in Procs \ {InitProc} /\ life[target[u]] = "live" /\ parent[target[u]] = Owner[u] /\ Family(u)
        BY Zenon, <4>1 DEF TreeInv, Holders
      <4>3. target[u] # q
        BY Zenon, <2>2, <4>2
      <4> QED BY <2>4, <2>5, <3>2, <4>2, <4>3
    <3> QED BY Zenon, <3>1, <3>2
  <2>10. Children'
    <3> SUFFICES ASSUME NEW p \in Procs, ~Past(p)
                 PROVE  /\ Distinct(children'[p])
                        /\ \A x \in Members(children'[p]) : x # InitProc /\ life'[x] = "live" /\ parent'[x] = p
      BY Zenon, <2>7 DEF Children
    <3>0. \A x : x \in Members(children[p]) => x \in Procs
      BY Zenon, <2>0, ChildrenAreProcs
    <3>1. CASE p = o
      BY Zenon, <2>3, <2>5, <2>8, <3>0, <3>1
    <3>2. CASE p # o
      <4>1. /\ Distinct(children[p])
            /\ \A x \in Members(children[p]) : x # InitProc /\ life[x] = "live" /\ parent[x] = p
        BY Zenon DEF TreeInv, Children
      <4>2. q \notin Members(children[p])
        BY Zenon, <2>2, <4>1
      <4> QED BY Zenon, <2>5, <3>0, <3>2, <4>1, <4>2
    <3> QED BY Zenon, <3>1, <3>2
  <2>11. Parents'
    <3> SUFFICES ASSUME NEW x \in Procs, life'[x] = "live", x # InitProc
                 PROVE  \E p \in Procs :
                          /\ parent'[x] = p /\ life'[p] = "live" /\ ~(Past(p))'
                          /\ \/ x \in Members(children'[p])
                             \/ \E u \in Threads : target'[u] = x /\ pc'[u] = "reap_spin"
      BY DEF Parents, Past
    <3>1. CASE x = q
      <4>1. parent'[x] = o /\ life'[o] = "live" /\ ~(Past(o))' /\ x \in Members(children'[o])
        BY Zenon, <2>1, <2>3, <2>5, <2>6, <2>7, <2>8, <3>1
      <4> QED BY Zenon, <2>1, <4>1
    <3>2. CASE x # q
      <4>1. /\ parent[x] \in Procs /\ life[parent[x]] = "live" /\ ~Past(parent[x])
            /\ x \in Members(children[parent[x]]) \/ \E u \in Threads : target[u] = x /\ pc[u] = "reap_spin"
        BY <2>5, <3>2 DEF TreeInv, Parents
      <4>2. parent'[x] = parent[x] /\ parent[x] # q /\ life'[parent[x]] = "live" /\ ~(Past(parent[x]))'
        BY Zenon, <2>2, <2>5, <2>7, <3>2, <4>1
      <4>3. x \in Members(children[parent[x]]) => x \in Members(children'[parent[x]])
        BY Zenon, <2>5, <2>8, <4>1
      <4>4. \A u \in Threads : target[u] = x /\ pc[u] = "reap_spin" => target'[u] = x /\ pc'[u] = "reap_spin"
        BY Zenon, <2>2, <2>3, <2>4
      <4> QED BY Zenon, <4>1, <4>2, <4>3, <4>4
    <3> QED BY Zenon, <3>1, <3>2
  <2>12. Unlinked'
    <3> SUFFICES ASSUME NEW u \in Threads, pc'[u] = "reap_spin"
                 PROVE  target'[u] \notin Members(children'[parent'[target'[u]]])
      BY Zenon DEF Unlinked
    <3>1. u # t /\ u # m /\ pc[u] = "reap_spin" /\ target'[u] = target[u]
      BY Zenon, <2>4
    <3>2. target[u] \in Procs /\ life[target[u]] = "live"
      BY Zenon, <3>1 DEF TreeInv, Holders, Holds
    <3>3. target[u] # q /\ parent'[target[u]] = parent[target[u]]
      BY Zenon, <2>2, <2>5, <3>2
    <3>4. target[u] \notin Members(children[parent[target[u]]]) /\ parent[target[u]] \in Procs
      <4>1. parent[target[u]] = Owner[u]
        BY Zenon, <3>1 DEF TreeInv, Holders, Holds
      <4> QED BY <3>1, <4>1, ProcessAssumption DEF TreeInv, Unlinked
    <3>5. target[u] \notin Members(children'[parent[target[u]]])
      <4>1. CASE parent[target[u]] = o
        BY Zenon, <2>8, <3>3, <3>4, <4>1
      <4>2. CASE parent[target[u]] # o
        BY Zenon, <2>5, <3>4, <4>2
      <4> QED BY Zenon, <4>1, <4>2
    <3> QED BY Zenon, <3>1, <3>3, <3>5
  <2>13. First'
    <3>1. life'[InitProc] = "live" /\ parent'[InitProc] = Nobody /\ ~vfork_compl'[InitProc]
      BY Zenon, <2>1, <2>3, <2>5 DEF TreeInv, First
    <3>2. pc'[Main[InitProc]] = pc[Main[InitProc]] \/ pc'[Main[InitProc]] \in {"wait_first", "fork_put", "user"}
      BY Zenon, <2>1, <2>4
    <3> QED BY Zenon, <3>1, <3>2 DEF TreeInv, First
  <2>14. \A u \in Threads : waiting'[u] = "child" => "wait" \in Ops[u]
    BY ZenonT(30), <2>4 DEF TreeInv
  <2> QED BY Zenon, <2>9, <2>10, <2>11, <2>12, <2>13, <2>14 DEF TreeInv

\* process_reparent_children: pid 1 becomes the parent of every child.
<1>TreeReparent.
    ASSUME NEW t \in Threads, ExitReparent(t)
    PROVE  TreeInv'
  <2> USE <1>TreeReparent
  <2> DEFINE o == Owner[t]
             c == children[o]
             d == children[InitProc]
  <2>0. Types /\ Alone
    BY Zenon DEF ThreadsInv
  <2>1. /\ o \in Procs /\ InitProc \in Procs
        /\ \A p \in Procs : Main[p] \in Threads /\ Owner[Main[p]] = p
    BY Zenon, ProcessAssumption
  <2>2. /\ pc[t] = "exit_reparent"
        /\ parent' = [q \in Procs |-> IF q \in Members(c) THEN InitProc ELSE parent[q]]
        /\ children' = [children EXCEPT ![InitProc] = @ \o c]
        /\ Goto(t, "exit_dead") /\ UNCHANGED <<life, vfork_compl, waiting, target>>
    BY Zenon DEF ExitReparent, At, vforkVars
  <2>3. t = Main[o] /\ o # InitProc
    BY Zenon, <2>2 DEF ThreadsInv, MainThread, TreeInv, First
  <2>4. pc'[t] = "exit_dead" /\ \A u \in Threads \ {t} : pc'[u] = pc[u]
    BY Zenon, <2>0, <2>2 DEF Goto, Types
  <2>5. ~Past(o) /\ ~Past(InitProc)
    BY Zenon, <2>2, <2>3 DEF Past, TreeInv, First
  <2>6. \A p \in Procs : (Past(p))' <=> Past(p) \/ p = o
    <3> SUFFICES ASSUME NEW p \in Procs PROVE (Past(p))' <=> Past(p) \/ p = o
      BY Zenon
    <3>1. CASE p = o
      BY Zenon, <2>3, <2>4, <3>1 DEF Past
    <3>2. CASE p # o
      <4>1. Main[p] # t
        BY Zenon, <2>1, <3>2
      <4> QED BY Zenon, <2>1, <2>4, <3>2, <4>1 DEF Past
    <3> QED BY Zenon, <3>1, <3>2
  <2>7. /\ c \in Seq(Procs) /\ Distinct(c) /\ d \in Seq(Procs) /\ Distinct(d)
        /\ \A x \in Members(c) : x # InitProc /\ life[x] = "live" /\ parent[x] = o
        /\ \A x \in Members(d) : x # InitProc /\ life[x] = "live" /\ parent[x] = InitProc
    BY ZenonT(30), <2>0, <2>1, <2>5 DEF Types, TreeInv, Children
  <2>8. /\ Distinct(children'[InitProc]) /\ Members(children'[InitProc]) = Members(d) \cup Members(c)
        /\ \A p \in Procs \ {InitProc} : children'[p] = children[p]
    <3>1. Members(d) \cap Members(c) = {}
      BY Zenon, <2>3, <2>7
    <3>2. children'[InitProc] = d \o c /\ \A p \in Procs \ {InitProc} : children'[p] = children[p]
      BY ZenonT(30), <2>0, <2>1, <2>2 DEF Types
    <3> QED BY <2>7, <3>1, <3>2, Splice
  <2>9. \A x \in Procs : parent'[x] = IF x \in Members(c) THEN InitProc ELSE parent[x]
    BY Zenon, <2>2
  <2>10. \A p \in Procs : \A x \in Members(children[p]) : x \in Procs
    BY Zenon, <2>0, ChildrenAreProcs
  <2>11. Holders'
    <3> SUFFICES ASSUME NEW u \in Threads, (Holds(u))'
                 PROVE  /\ target'[u] \in Procs \ {InitProc} /\ life'[target'[u]] = "live"
                        /\ parent'[target'[u]] = Owner[u] /\ Family(u)
      BY Zenon DEF Holders
    <3>1. u # t
      BY Zenon, <2>4 DEF Holds
    <3>2. Holds(u) /\ Active(u)
      BY Zenon, <2>2, <2>4, <3>1 DEF Holds, Active
    <3>3. Owner[u] # o
      BY Zenon, <2>0, <2>2, <3>1, <3>2 DEF Alone
    <3>4. target[u] \in Procs \ {InitProc} /\ life[target[u]] = "live" /\ parent[target[u]] = Owner[u] /\ Family(u)
      BY Zenon, <3>2 DEF TreeInv, Holders
    <3>5. target[u] \notin Members(c)
      BY Zenon, <2>7, <3>3, <3>4
    <3> QED BY Zenon, <2>2, <2>9, <3>4, <3>5
  <2>12. Children'
    <3> SUFFICES ASSUME NEW p \in Procs, ~Past(p), p # o
                 PROVE  /\ Distinct(children'[p])
                        /\ \A x \in Members(children'[p]) : x # InitProc /\ life'[x] = "live" /\ parent'[x] = p
      BY Zenon, <2>6 DEF Children
    <3>1. CASE p = InitProc
      <4>1. \A x \in Members(d) \cup Members(c) : x \in Procs /\ x # InitProc /\ life[x] = "live" /\ parent'[x] = p
        BY Zenon, <2>1, <2>7, <2>9, <2>10, <3>1
      <4> QED BY Zenon, <2>2, <2>8, <3>1, <4>1
    <3>2. CASE p # InitProc
      <4>1. /\ Distinct(children[p])
            /\ \A x \in Members(children[p]) : x # InitProc /\ life[x] = "live" /\ parent[x] = p
        BY Zenon DEF TreeInv, Children
      <4>2. ASSUME NEW x \in Members(children[p])
            PROVE  x \notin Members(c) /\ x \in Procs
        <5>1. x \in Procs /\ parent[x] # o
          BY Zenon, <2>10, <4>1
        <5> QED BY Zenon, <2>7, <5>1
      <4> QED BY Zenon, <2>2, <2>8, <2>9, <3>2, <4>1, <4>2
    <3> QED BY Zenon, <3>1, <3>2
  <2>13. Parents'
    <3> SUFFICES ASSUME NEW x \in Procs, life[x] = "live", x # InitProc
                 PROVE  \E p \in Procs :
                          /\ parent'[x] = p /\ life[p] = "live" /\ ~(Past(p))'
                          /\ \/ x \in Members(children'[p])
                             \/ \E u \in Threads : target'[u] = x /\ pc'[u] = "reap_spin"
      BY <2>2 DEF Parents, Past
    <3>1. CASE x \in Members(c)
      <4>1. /\ parent'[x] = InitProc /\ life[InitProc] = "live" /\ ~(Past(InitProc))'
            /\ x \in Members(children'[InitProc])
        BY Zenon, <2>1, <2>3, <2>5, <2>6, <2>8, <2>9, <3>1 DEF TreeInv, First
      <4> QED BY Zenon, <2>1, <4>1
    <3>2. CASE x \notin Members(c)
      <4>1. /\ parent[x] \in Procs /\ life[parent[x]] = "live" /\ ~Past(parent[x])
            /\ x \in Members(children[parent[x]]) \/ \E u \in Threads : target[u] = x /\ pc[u] = "reap_spin"
        BY Zenon DEF TreeInv, Parents
      <4>2. \A u \in Threads : target[u] = x /\ pc[u] = "reap_spin" =>
                  target'[u] = x /\ pc'[u] = "reap_spin" /\ Active(u) /\ parent[x] = Owner[u] /\ u # t
        BY Zenon, <2>2, <2>4 DEF TreeInv, Holders, Holds, Active
      <4>3. parent[x] # o
        BY Zenon, <2>0, <2>2, <3>2, <4>1, <4>2 DEF Alone
      <4>4. parent'[x] = parent[x] /\ ~(Past(parent[x]) \/ parent[x] = o)
        BY Zenon, <2>9, <3>2, <4>1, <4>3
      <4>5. x \in Members(children[parent[x]]) => x \in Members(children'[parent[x]])
        BY Zenon, <2>8, <4>1
      <4> QED BY Zenon, <2>6, <4>1, <4>2, <4>4, <4>5
    <3> QED BY Zenon, <3>1, <3>2
  <2>14. Unlinked'
    <3> SUFFICES ASSUME NEW u \in Threads, pc'[u] = "reap_spin"
                 PROVE  target'[u] \notin Members(children'[parent'[target'[u]]])
      BY Zenon DEF Unlinked
    <3>1. u # t /\ pc[u] = "reap_spin" /\ Active(u)
      BY Zenon, <2>2, <2>4 DEF Active
    <3>2. Owner[u] # o /\ Owner[u] \in Procs
      BY Zenon, <2>0, <2>2, <3>1, ProcessAssumption DEF Alone
    <3>3. /\ target[u] \in Procs /\ parent[target[u]] = Owner[u]
          /\ target[u] \notin Members(children[Owner[u]])
      BY Zenon, <3>1 DEF TreeInv, Holders, Holds, Unlinked
    <3>4. target[u] \notin Members(c)
      BY Zenon, <2>7, <3>2, <3>3
    <3>5. parent'[target[u]] = Owner[u] /\ target[u] \notin Members(children'[Owner[u]])
      BY Zenon, <2>8, <2>9, <3>2, <3>3, <3>4
    <3> QED BY Zenon, <2>2, <3>5
  <2>15. First'
    <3>1. InitProc \notin Members(c) /\ Main[InitProc] # t
      BY Zenon, <2>1, <2>3, <2>7
    <3> QED BY Zenon, <2>1, <2>2, <2>4, <2>9, <3>1 DEF TreeInv, First
  <2>16. \A u \in Threads : waiting'[u] = "child" => "wait" \in Ops[u]
    BY Zenon, <2>2 DEF TreeInv
  <2> QED BY Zenon, <2>11, <2>12, <2>13, <2>14, <2>15, <2>16 DEF TreeInv

\* process_end takes the process off the list of its parent, ...
<1>TreeUnlink.
    ASSUME NEW t \in Threads, ReapUnlink(t)
    PROVE  TreeInv'
  <2> USE <1>TreeUnlink
  <2>0. Types
    BY Zenon DEF ThreadsInv
  <2>1. PICK q : q = target[t]
    BY Zenon
  <2>2. PICK o : o = Owner[t]
    BY Zenon
  <2>3. pc[t] = "reap_unlink" /\ Holds(t) /\ Active(t)
    BY Zenon DEF ReapUnlink, At, Holds, Active
  <2>4. q \in Procs \ {InitProc} /\ life[q] = "live" /\ parent[q] = o /\ Family(t)
    BY Zenon, <2>1, <2>2, <2>3 DEF TreeInv, Holders
  <2>5. o \in Procs /\ ~Past(o)
    BY Zenon, <2>2, <2>3, NotPast
  <2>6. /\ children' = [children EXCEPT ![o] = list_remove(@, q)]
        /\ UNCHANGED <<life, parent, waiting, target, vfork_compl>>
        /\ Goto(t, "reap_spin")
    BY Zenon, <2>1, <2>4 DEF ReapUnlink, vforkVars
  <2>7. pc'[t] = "reap_spin" /\ \A u \in Threads \ {t} : pc'[u] = pc[u]
    BY Zenon, <2>0, <2>6 DEF Goto, Types
  <2>8. \A u \in Threads : Holds(u) /\ Owner[u] = o => u = t
    BY Zenon, <2>2, <2>4 DEF TreeInv, Holders, OneFamilyThread
  <2>9. /\ children[o] \in Seq(Procs) /\ Distinct(children[o])
        /\ \A x \in Members(children[o]) : x # InitProc /\ life[x] = "live" /\ parent[x] = o
    BY Zenon, <2>0, <2>5 DEF Types, TreeInv, Children
  <2>10. q \in Members(children[o])
    <3>1. \A u \in Threads : ~(target[u] = q /\ pc[u] = "reap_spin")
      <4> SUFFICES ASSUME NEW u \in Threads, target[u] = q, pc[u] = "reap_spin" PROVE FALSE
        BY Zenon
      <4>1. Holds(u) /\ Owner[u] = o
        BY Zenon, <2>4 DEF Holds, TreeInv, Holders
      <4> QED BY Zenon, <2>3, <2>8, <4>1
    <3> QED BY ZenonT(30), <2>4, <3>1 DEF TreeInv, Parents
  <2>11. /\ Distinct(children'[o]) /\ Members(children'[o]) = Members(children[o]) \ {q}
         /\ \A p \in Procs \ {o} : children'[p] = children[p]
    <3>1. children'[o] = list_remove(children[o], q) /\ \A p \in Procs \ {o} : children'[p] = children[p]
      BY Zenon, <2>0, <2>5, <2>6 DEF Types
    <3> QED BY <2>9, <2>10, <3>1, Remove
  <2>12. /\ \A p \in Procs : Main[p] \in Threads
         /\ InitProc \in Procs
    BY Zenon, ProcessAssumption
  <2>13. \A p \in Procs : (Past(p))' <=> Past(p)
    BY Zenon, <2>3, <2>7, <2>12 DEF Past
  <2>14. Holders'
    BY Zenon, <2>3, <2>6, <2>7 DEF TreeInv, Holders, Holds
  <2>15. Children'
    <3> SUFFICES ASSUME NEW p \in Procs, ~Past(p)
                 PROVE  /\ Distinct(children'[p])
                        /\ \A x \in Members(children'[p]) : x # InitProc /\ life[x] = "live" /\ parent[x] = p
      BY Zenon, <2>6, <2>13 DEF Children
    <3>1. CASE p = o
      BY Zenon, <2>9, <2>11, <3>1
    <3>2. CASE p # o
      BY Zenon, <2>11, <3>2 DEF TreeInv, Children
    <3> QED BY Zenon, <3>1, <3>2
  <2>16. Parents'
    <3> SUFFICES ASSUME NEW x \in Procs, life[x] = "live", x # InitProc
                 PROVE  \E p \in Procs :
                          /\ parent[x] = p /\ life[p] = "live" /\ ~(Past(p))'
                          /\ \/ x \in Members(children'[p])
                             \/ \E u \in Threads : target'[u] = x /\ pc'[u] = "reap_spin"
      BY <2>6 DEF Parents, Past
    <3>1. PICK p \in Procs : /\ parent[x] = p /\ life[p] = "live" /\ ~Past(p)
                             /\ \/ x \in Members(children[p])
                                \/ \E u \in Threads : target[u] = x /\ pc[u] = "reap_spin"
      BY Zenon DEF TreeInv, Parents
    <3>2. x \in Members(children[p]) => x \in Members(children'[p]) \/ x = q
      BY Zenon, <2>11
    <3>3. target'[t] = q /\ pc'[t] = "reap_spin"
      BY Zenon, <2>1, <2>6, <2>7
    <3>4. \A u \in Threads : target[u] = x /\ pc[u] = "reap_spin" => target'[u] = x /\ pc'[u] = "reap_spin"
      BY Zenon, <2>3, <2>6, <2>7
    <3> QED BY Zenon, <2>13, <3>1, <3>2, <3>3, <3>4
  <2>17. Unlinked'
    <3> SUFFICES ASSUME NEW u \in Threads, pc'[u] = "reap_spin"
                 PROVE  target[u] \notin Members(children'[parent[target[u]]])
      BY Zenon, <2>6 DEF Unlinked
    <3>1. CASE u = t
      BY Zenon, <2>1, <2>4, <2>11, <3>1
    <3>2. CASE u # t
      <4>1. pc[u] = "reap_spin"
        BY Zenon, <2>7, <3>2
      <4>2. parent[target[u]] = Owner[u] /\ target[u] \notin Members(children[Owner[u]]) /\ Holds(u)
        BY Zenon, <4>1 DEF TreeInv, Holders, Holds, Unlinked
      <4>3. Owner[u] # o /\ Owner[u] \in Procs
        BY Zenon, <2>8, <3>2, <4>2, ProcessAssumption
      <4> QED BY Zenon, <2>11, <4>2, <4>3
    <3> QED BY Zenon, <3>1, <3>2
  <2>18. First'
    BY Zenon, <2>6, <2>7, <2>12 DEF TreeInv, First
  <2>19. \A u \in Threads : waiting'[u] = "child" => "wait" \in Ops[u]
    BY Zenon, <2>6 DEF TreeInv
  <2> QED BY Zenon, <2>14, <2>15, <2>16, <2>17, <2>18, <2>19 DEF TreeInv

\* ... and frees it, when no process is a child of it any more.
<1>TreeFree.
    ASSUME NEW t \in Threads, ReapFree(t)
    PROVE  TreeInv'
  <2> USE <1>TreeFree
  <2>0. Types
    BY Zenon DEF ThreadsInv
  <2>1. PICK q : q = target[t]
    BY Zenon
  <2>2. PICK o : o = Owner[t]
    BY Zenon
  <2>3. pc[t] = "reap_spin" /\ Holds(t) /\ Active(t)
    BY Zenon DEF ReapFree, At, Holds, Active
  <2>4. /\ q \in Procs \ {InitProc} /\ life[q] = "live" /\ parent[q] = o /\ Family(t)
        /\ q \notin Members(children[o])
    BY Zenon, <2>1, <2>2, <2>3 DEF TreeInv, Holders, Unlinked
  <2>5. o \in Procs /\ ~Past(o)
    BY Zenon, <2>2, <2>3, NotPast
  <2>6. /\ thread_list[q] = <<>> /\ life' = [life EXCEPT ![q] = "freed"]
        /\ target' = [target EXCEPT ![t] = Nobody]
        /\ UNCHANGED <<parent, children, waiting, vfork_compl>>
        /\ Goto(t, AfterPut(t))
    BY Zenon, <2>1 DEF ReapFree, vforkVars
  <2>7. /\ pc'[t] \in {"wait_out", "exit"} /\ (pc'[t] = "wait_out" => waiting[t] = "child")
        /\ \A u \in Threads \ {t} : pc'[u] = pc[u] /\ target'[u] = target[u]
    BY ZenonT(30), <2>0, <2>6, AfterPutPoints DEF Goto, Types
  <2>8. /\ \A p \in Procs : Main[p] \in Threads /\ Owner[Main[p]] = p
        /\ InitProc \in Procs
    BY Zenon, ProcessAssumption
  <2>9. life'[q] = "freed" /\ \A x \in Procs \ {q} : life'[x] = life[x]
    BY Zenon, <2>0, <2>4, <2>6 DEF Types
  <2>10. Past(q)
    <3>1. ~Active(Main[q])
      <4>1. Members(<<>>) = {}
        BY DEF Members
      <4> QED BY Zenon, <2>4, <2>6, <2>8, <4>1 DEF ThreadsInv, Lists
    <3>2. pc[Main[q]] \in RunPoints \cup {"unborn", "gone"}
      BY Zenon, <2>0, <2>4, <2>8 DEF Types
    <3>3. pc[Main[q]] # "unborn"
      BY Zenon, <2>4 DEF ThreadsInv, Lives
    <3> QED BY Zenon, <3>1, <3>2, <3>3 DEF Past, Active
  <2>11. \A p \in Procs : (Past(p))' <=> Past(p)
    <3> SUFFICES ASSUME NEW p \in Procs PROVE (Past(p))' <=> Past(p)
      BY Zenon
    <3>1. CASE Main[p] = t
      BY Zenon, <2>3, <2>7, <3>1 DEF Past
    <3>2. CASE Main[p] # t
      BY Zenon, <2>7, <2>8, <3>2 DEF Past
    <3> QED BY Zenon, <3>1, <3>2
  <2>12. \A u \in Threads : Holds(u) /\ u # t => target[u] # q
    BY Zenon, <2>2, <2>4 DEF TreeInv, Holders, OneFamilyThread
  <2>13. Holders'
    <3> SUFFICES ASSUME NEW u \in Threads, (Holds(u))'
                 PROVE  /\ target'[u] \in Procs \ {InitProc} /\ life'[target'[u]] = "live"
                        /\ parent[target'[u]] = Owner[u] /\ Family(u)
      BY Zenon, <2>6 DEF Holders
    <3>1. u # t
      BY Zenon, <2>6, <2>7 DEF Holds
    <3>2. Holds(u) /\ target'[u] = target[u]
      BY Zenon, <2>6, <2>7, <3>1 DEF Holds
    <3>3. target[u] # q
      BY Zenon, <2>12, <3>1, <3>2
    <3> QED BY Zenon, <2>9, <3>2, <3>3 DEF TreeInv, Holders
  <2>14. Children'
    <3> SUFFICES ASSUME NEW p \in Procs, ~Past(p)
                 PROVE  /\ Distinct(children[p])
                        /\ \A x \in Members(children[p]) : x # InitProc /\ life'[x] = "live" /\ parent[x] = p
      BY Zenon, <2>6, <2>11 DEF Children
    <3>1. /\ Distinct(children[p])
          /\ \A x \in Members(children[p]) : x # InitProc /\ life[x] = "live" /\ parent[x] = p
      BY Zenon DEF TreeInv, Children
    <3>2. q \notin Members(children[p])
      BY Zenon, <2>4, <3>1
    <3>3. \A x \in Members(children[p]) : x \in Procs
      BY Zenon, <2>0, ChildrenAreProcs
    <3> QED BY Zenon, <2>9, <3>1, <3>2, <3>3
  <2>15. Parents'
    <3> SUFFICES ASSUME NEW x \in Procs, life'[x] = "live", x # InitProc
                 PROVE  \E p \in Procs :
                          /\ parent[x] = p /\ life'[p] = "live" /\ ~(Past(p))'
                          /\ \/ x \in Members(children[p])
                             \/ \E u \in Threads : target'[u] = x /\ pc'[u] = "reap_spin"
      BY <2>6 DEF Parents, Past
    <3>1. x # q /\ life[x] = "live"
      BY Zenon, <2>9
    <3>2. PICK p \in Procs : /\ parent[x] = p /\ life[p] = "live" /\ ~Past(p)
                             /\ \/ x \in Members(children[p])
                                \/ \E u \in Threads : target[u] = x /\ pc[u] = "reap_spin"
      BY Zenon, <3>1 DEF TreeInv, Parents
    <3>3. p # q
      BY Zenon, <2>10, <3>2
    <3>4. \A u \in Threads : target[u] = x /\ pc[u] = "reap_spin" => target'[u] = x /\ pc'[u] = "reap_spin"
      BY Zenon, <2>1, <2>7, <3>1
    <3> QED BY Zenon, <2>9, <2>11, <3>2, <3>3, <3>4
  <2>16. Unlinked'
    <3> SUFFICES ASSUME NEW u \in Threads, pc'[u] = "reap_spin"
                 PROVE  target'[u] \notin Members(children[parent[target'[u]]])
      BY Zenon, <2>6 DEF Unlinked
    <3>1. u # t
      BY Zenon, <2>7
    <3> QED BY Zenon, <2>7, <3>1 DEF TreeInv, Unlinked
  <2>17. First'
    <3>1. pc'[Main[InitProc]] = pc[Main[InitProc]] \/ pc'[Main[InitProc]] \in {"wait_out", "exit"}
      BY Zenon, <2>7, <2>8
    <3> QED BY Zenon, <2>4, <2>6, <2>8, <2>9, <3>1 DEF TreeInv, First
  <2>18. \A u \in Threads : waiting'[u] = "child" => "wait" \in Ops[u]
    BY Zenon, <2>6 DEF TreeInv
  <2> QED BY Zenon, <2>13, <2>14, <2>15, <2>16, <2>17, <2>18 DEF TreeInv

\* process_put, by a thread that holds the process or collects it: the last
\* reference leads to process_end.
<1>TreePut.
    ASSUME NEW t \in Threads, NEW q, process_put(t, q),
           Wards(t, q), pc[t] \in {"fork_put", "tkill", "wait_first", "wait_look"},
           UNCHANGED <<life, parent, children, vfork_compl, waiting>>
    PROVE  TreeInv'
  <2> USE <1>TreePut
  <2>0. Types
    BY Zenon DEF ThreadsInv
  <2>1. /\ OthersSameOrNew(t)
        /\ \/ pc'[t] = "reap_unlink" /\ target'[t] = q
           \/ pc'[t] \in {"wait_out", "exit"} /\ (pc'[t] = "wait_out" => waiting[t] = "child")
    BY Zenon, <2>0, AfterPutPoints DEF process_put, Goto, Types, OthersSameOrNew
  <2>2. (Holds(t))' => Wards(t, target'[t])
    BY Zenon, <2>1 DEF Holds
  <2>3. /\ pc'[t] \notin LastPoints \cup {"gone"} /\ pc[t] \notin LastPoints \cup {"gone"}
        /\ pc'[t] \notin {"exit_spin", "gone"} \cup AlonePoints
        /\ pc[t] # "reap_spin" /\ pc'[t] # "reap_spin"
    BY Zenon, <2>1
  <2>4. ~vfork_compl'[InitProc] /\ (waiting'[t] = "child" => "wait" \in Ops[t])
    BY Zenon DEF TreeInv, First
  <2> QED BY Zenon, <2>1, <2>2, <2>3, <2>4, <1>TreeQuiet

\* The rest of fork and kill, and the way back to user space.
<1>TreeKernel.
    ASSUME NEW t \in Threads,
           ForkPut(t) \/ QueueSignal(t) \/ ReturnToUser(t) \/ HandleSignal(t)
    PROVE  TreeInv'
  <2> USE <1>TreeKernel
  <2>0. Types /\ ~vfork_compl[InitProc]
    BY ZenonT(30) DEF ThreadsInv, TreeInv, First
  <2>1. CASE ForkPut(t) \/ QueueSignal(t)
    <3>1. /\ pc[t] \in {"fork_put", "tkill"} /\ process_put(t, target[t])
          /\ UNCHANGED <<life, parent, children, vfork_compl, waiting>>
      BY Zenon, <2>1 DEF ForkPut, QueueSignal, At, vforkVars
    <3>2. PICK q : q = target[t]
      BY Zenon
    <3>3. Wards(t, q)
      BY Zenon, <3>1, <3>2 DEF TreeInv, Holders, Holds, Wards
    <3>4. process_put(t, q)
      BY Zenon, <3>1, <3>2
    <3> QED BY Zenon, <3>1, <3>3, <3>4, <1>TreePut
  <2>2. CASE ReturnToUser(t) \/ HandleSignal(t)
    <3>1. pc[t] \in {"exit", "sigloop", "user"} /\ UNCHANGED <<life, parent, children, vfork_compl, waiting>>
      BY Zenon, <2>2 DEF ReturnToUser, HandleSignal, At, procVars, vforkVars
    <3>2. PICK b \in {"thread_exit", "stop_set", "exit_kill", "stop_all", "user"} : Goto(t, b)
      BY Zenon, <2>0, <2>2, SignalChoice DEF ReturnToUser
    <3>3. pc'[t] = b
      BY Zenon, <2>0, <3>2 DEF Goto, Types
    <3>4. OthersSameOrNew(t)
      BY Zenon, <2>0, <2>2, StepMovesOne DEF OthersSame, OthersSameOrNew, KernelStep
    <3> QED BY Zenon, <2>0, <3>1, <3>3, <3>4, <1>TreeIdle
  <2> QED BY Zenon, <2>1, <2>2

\* The steps of signal_do_stop.
<1>TreeStops.
    ASSUME NEW t \in Threads, StopStep(t)
    PROVE  TreeInv'
  <2> USE <1>TreeStops
  <2>0. Types /\ ~vfork_compl[InitProc]
    BY Zenon DEF ThreadsInv, TreeInv, First
  <2>1. OthersSameOrNew(t)
    BY Zenon, <2>0, StepMovesOne DEF OthersSame, OthersSameOrNew, KernelStep
  <2>2. /\ pc[t] \in StopPoints /\ UNCHANGED <<life, parent, children, vfork_compl, waiting>>
        /\ \E b \in StopPoints \cup {"sigloop"} : Goto(t, b)
    BY Zenon DEF StopStep, StopOthers, StopGroup, StopCode, StopWake, StopSet, StopYield, StopResume,
           At, procVars, vforkVars
  <2>3. pc'[t] \in StopPoints \cup {"sigloop"}
    BY Zenon, <2>0, <2>2 DEF Goto, Types
  <2> QED BY Zenon, <2>0, <2>1, <2>2, <2>3, <1>TreeIdle

\* The steps of process_exit and execve but for process_reparent_children.
\* pid 1 does not get beyond the first.
<1>TreeExits.
    ASSUME NEW t \in Threads,
           ExitStep(t) \/ Preempt(t), ~ExitReparent(t)
    PROVE  TreeInv'
  <2> USE <1>TreeExits
  <2>0. Types /\ ~vfork_compl[InitProc] /\ Owner[t] \in Procs /\ InitProc \in Procs
    BY Zenon, ProcessAssumption DEF ThreadsInv, TreeInv, First
  <2>1. OthersSameOrNew(t)
    BY Zenon, <2>0, StepMovesOne DEF OthersSame, OthersSameOrNew, KernelStep
  <2>2. UNCHANGED <<life, parent, children, waiting>> /\ ~vfork_compl'[InitProc]
    <3>1. UNCHANGED <<life, parent, children, waiting>>
      BY Zenon DEF ExitStep, ThreadExit, ExitKill, KillOthers, ExitAlone, ExecAlone, VforkDone, VforkWake,
             VforkMayExit, ExitDead, ExitCode, ExitYield, Preempt, procVars
    <3>2. vfork_compl' = vfork_compl \/ vfork_compl' = [vfork_compl EXCEPT ![Owner[t]] = FALSE]
      BY Zenon DEF ExitStep, ThreadExit, ExitKill, KillOthers, ExitAlone, ExecAlone, VforkDone, VforkWake,
             VforkMayExit, ExitDead, ExitCode, ExitYield, Preempt, vforkVars
    <3> QED BY ZenonT(30), <2>0, <3>1, <3>2 DEF Types
  <2>3. pc[t] \in {"exit_spin"} \cup AlonePoints => Owner[t] # InitProc /\ t # Main[InitProc]
    <3>1. pc[t] \in {"exit_spin"} \cup AlonePoints => t = Main[Owner[t]] /\ t # Main[InitProc]
      BY Zenon DEF ThreadsInv, MainThread, TreeInv, First
    <3> QED BY Zenon, <3>1
  <2>4. CASE ThreadExit(t)
    <3>1. pc[t] = "thread_exit" /\ Goto(t, "gone")
      BY Zenon, <2>4 DEF ThreadExit, At, Destroy
    <3>2. pc'[t] = "gone"
      BY Zenon, <2>0, <3>1 DEF Goto, Types
    <3>3. t # Main[Owner[t]] /\ t # Main[InitProc]
      BY <3>1, ProcessAssumption DEF ThreadsInv, MainThread
    <3>4. ~(Holds(t))' /\ (waiting'[t] = "child" => "wait" \in Ops[t])
      BY Zenon, <2>2, <3>2 DEF Holds, TreeInv
    <3> QED BY Zenon, <2>1, <2>2, <3>1, <3>2, <3>3, <3>4, <1>TreeQuiet
  <2>5. CASE \/ ExitKill(t) \/ ExitAlone(t) \/ ExecAlone(t) \/ VforkDone(t) \/ VforkWake(t) \/ VforkMayExit(t)
    <3>1. /\ pc[t] \in {"exit_kill", "exit_spin", "exec_spin"} \cup VforkPoints
          /\ \E b \in {"exit_spin", "exit", "exit_reparent"} \cup VforkPoints :
                Goto(t, b) /\ (b # "exit" /\ pc[t] \in {"exit_kill", "exec_spin"} => Owner[t] # InitProc)
      BY Zenon, <2>0, <2>5 DEF ExitKill, ExitAlone, ExecAlone, VforkDone, VforkWake, VforkMayExit, At
    <3>2. /\ pc'[t] \in {"exit_spin", "exit", "exit_reparent"} \cup VforkPoints
          /\ pc'[t] # "exit" => Owner[t] # InitProc
      BY ZenonT(30), <2>0, <2>3, <3>1 DEF Goto, Types
    <3> QED BY ZenonT(30), <2>1, <2>2, <3>1, <3>2, <1>TreeIdle
  <2>6. CASE ExitDead(t) \/ ExitCode(t) \/ ExitYield(t) \/ Preempt(t)
    <3>1. pc[t] \in LastPoints /\ \E b \in LastPoints \cup {"gone"} : Goto(t, b)
      BY Zenon, <2>6 DEF ExitDead, ExitCode, ExitYield, Preempt, Destroy, At
    <3>2. pc'[t] \in LastPoints \cup {"gone"}
      BY Zenon, <2>0, <3>1 DEF Goto, Types
    <3>3. t # Main[InitProc] /\ pc[t] # "reap_spin" /\ pc'[t] # "reap_spin"
      BY Zenon, <2>3, <3>1, <3>2
    <3>4. ~(Holds(t))' /\ (waiting'[t] = "child" => "wait" \in Ops[t])
      BY Zenon, <2>2, <3>2 DEF Holds, TreeInv
    <3> QED BY Zenon, <2>1, <2>2, <3>1, <3>2, <3>3, <3>4, <1>TreeQuiet
  <2> QED BY Zenon, <2>4, <2>5, <2>6 DEF ExitStep

\* The steps of wait_for_event and wait4.
<1>TreeWaits.
    ASSUME NEW t \in Threads, WaitStep(t)
    PROVE  TreeInv'
  <2> USE <1>TreeWaits
  <2>0. Types /\ ~vfork_compl[InitProc]
    BY Zenon DEF ThreadsInv, TreeInv, First
  <2>1. OthersSameOrNew(t)
    BY Zenon, <2>0, StepMovesOne DEF OthersSame, OthersSameOrNew, KernelStep
  <2>2. ASSUME UNCHANGED <<life, parent, children, vfork_compl, target>>,
               pc[t] \in WaitPoints \cup {"wait_to_exit"},
               pc'[t] \in WaitPoints \cup {"wait_to_exit", "fork_put", "exit"},
               (Holds(t))' => Holds(t),
               waiting'[t] = "child" => waiting[t] = "child"
        PROVE  TreeInv'
    <3>1. (Holds(t))' => Wards(t, target'[t])
      BY Zenon, <2>2 DEF TreeInv, Holders, Wards
    <3>2. /\ pc'[t] \notin LastPoints \cup {"gone"} /\ pc[t] \notin LastPoints \cup {"gone"}
          /\ pc'[t] \notin {"exit_spin", "gone"} \cup AlonePoints
          /\ pc[t] # "reap_spin" /\ pc'[t] # "reap_spin"
      BY Zenon, <2>2
    <3>3. ~vfork_compl'[InitProc] /\ (waiting'[t] = "child" => "wait" \in Ops[t])
      BY Zenon, <2>0, <2>2 DEF TreeInv
    <3> QED BY Zenon, <2>1, <2>2, <3>1, <3>2, <3>3, <1>TreeQuiet
  <2>3. ASSUME NEW q \in Procs, Collect(t, q)
        PROVE  TreeInv'
    <3>1. /\ pc[t] \in {"wait_first", "wait_look"} /\ waiting[t] = "child"
          /\ q \in Members(children[Owner[t]])
          /\ UNCHANGED <<life, parent, children, vfork_compl, waiting>>
      BY Zenon, <2>3 DEF Collect, Found, At, Members, vforkVars
    <3>2. ~Past(Owner[t]) /\ Owner[t] \in Procs
      BY Zenon, <3>1, NotPast DEF Active
    <3>3. Wards(t, q)
      BY Zenon, <3>1, <3>2 DEF TreeInv, Children, Wards, Family
    <3>4. CASE Exited(q)
      <4>1. process_put(t, q)
        BY Zenon, <2>3, <3>4 DEF Collect
      <4> QED BY Zenon, <3>1, <3>3, <4>1, <1>TreePut
    <3>5. CASE ~Exited(q)
      <4>1. Goto(t, "wait_out") /\ UNCHANGED target
        BY Zenon, <2>3, <3>5 DEF Collect
      <4>2. pc'[t] = "wait_out"
        BY Zenon, <2>0, <4>1 DEF Goto, Types
      <4>3. ~(Holds(t))'
        BY Zenon, <3>1, <4>2 DEF Holds
      <4> QED BY Zenon, <2>2, <3>1, <4>1, <4>2, <4>3
    <3> QED BY Zenon, <3>4, <3>5
  <2>4. CASE ReapUnlink(t)
    BY Zenon, <2>4, <1>TreeUnlink
  <2>5. CASE ReapFree(t)
    BY Zenon, <2>5, <1>TreeFree
  <2>6. CASE WaitFirst(t) \/ WaitAdd(t) \/ WaitLook(t) \/ WaitSleep(t) \/ WaitWoken(t) \/ WaitOut(t)
    <3>1. /\ pc[t] \in WaitPoints /\ UNCHANGED <<life, parent, children, vfork_compl, target, waiting>>
          /\ \E b \in WaitPoints : Goto(t, b)
      BY Zenon, <2>6 DEF WaitFirst, WaitAdd, WaitLook, WaitSleep, WaitWoken, WaitOut, At, procVars, vforkVars
    <3>2. pc'[t] \in WaitPoints
      BY Zenon, <2>0, <3>1 DEF Goto, Types
    <3>3. (Holds(t))' => Holds(t)
      BY Zenon, <3>1, <3>2 DEF Holds
    <3> QED BY Zenon, <2>2, <3>1, <3>2, <3>3
  <2>7. CASE WaitLeave(t)
    <3>1. /\ pc[t] = "wait_leave" /\ UNCHANGED <<life, parent, children, vfork_compl, target>>
          /\ waiting' = [waiting EXCEPT ![t] = "nothing"]
          /\ Goto(t, IF waiting[t] = "vfork" THEN "wait_to_exit" ELSE "exit")
      BY Zenon, <2>7 DEF WaitLeave, At, procVars, vforkVars
    <3>2. /\ waiting'[t] = "nothing"
          /\ pc'[t] = IF waiting[t] = "vfork" THEN "wait_to_exit" ELSE "exit"
      BY Zenon, <2>0, <3>1 DEF Goto, Types
    <3>3. (Holds(t))' => Holds(t)
      BY Zenon, <3>1, <3>2 DEF Holds
    <3> QED BY Zenon, <2>2, <3>1, <3>2, <3>3
  <2>8. CASE WaitToExit(t)
    <3>1. /\ pc[t] = "wait_to_exit" /\ UNCHANGED <<life, parent, children, vfork_compl, target, waiting>>
          /\ Goto(t, "fork_put")
      BY Zenon, <2>8 DEF WaitToExit, At, procVars, vforkVars
    <3>2. pc'[t] = "fork_put"
      BY Zenon, <2>0, <3>1 DEF Goto, Types
    <3>3. Holds(t)
      BY Zenon, <3>1 DEF Holds
    <3> QED BY Zenon, <2>2, <3>1, <3>2, <3>3
  <2> QED BY Zenon, <2>3, <2>4, <2>5, <2>6, <2>7, <2>8 DEF WaitStep

\* The steps of Next.
<1> SUFFICES ASSUME [Next]_vars PROVE TreeInv'
  BY Zenon
<1>1. CASE UNCHANGED vars \/ \E t \in Threads : Resched(t)
  <2>1. UNCHANGED <<life, parent, children, vfork_compl, pc, waiting, target>>
    BY Zenon, <1>1 DEF Resched, vars, procVars, vforkVars
  <2>2. Holders' /\ Unlinked' /\ First'
    BY Zenon, <2>1 DEF TreeInv, Holders, Unlinked, First, Holds
  <2>3. \A q \in Procs : (Past(q))' <=> Past(q)
    BY Zenon, <2>1 DEF Past
  <2>4. Children'
    BY Zenon, <2>1, <2>3 DEF TreeInv, Children
  <2>5. Parents'
    BY Zenon, <2>1 DEF TreeInv, Parents, Past
  <2> QED BY Zenon, <2>1, <2>2, <2>4, <2>5 DEF TreeInv
<1>2. ASSUME NEW t \in Threads, NEW q \in Procs, Fork(t, q) \/ Vfork(t, q)
      PROVE  TreeInv'
  <2>1. Family(t)
    BY Zenon, <1>2 DEF Fork, Vfork, Family
  <2> QED BY Zenon, <1>2, <2>1, <1>TreeFork DEF Fork, Vfork
<1>3. ASSUME NEW t \in Threads,
             \/ \E w \in Threads : Clone(t, w)
             \/ \E q \in Procs, s \in Signals : RaiseSignal(t, q, s)
             \/ Exec(t) \/ Exit(t) \/ Wait4(t) \/ Pause(t)
      PROVE  TreeInv'
  BY Zenon, <1>3, <1>TreeSyscalls
<1>4. ASSUME NEW t \in Threads, ForkPut(t) \/ QueueSignal(t) \/ ReturnToUser(t) \/ HandleSignal(t)
      PROVE  TreeInv'
  BY Zenon, <1>4, <1>TreeKernel
<1>5. ASSUME NEW t \in Threads, StopStep(t)
      PROVE  TreeInv'
  BY Zenon, <1>5, <1>TreeStops
<1>6. ASSUME NEW t \in Threads, ExitStep(t) \/ Preempt(t)
      PROVE  TreeInv'
  BY Zenon, <1>6, <1>TreeReparent, <1>TreeExits
<1>7. ASSUME NEW t \in Threads, WaitStep(t)
      PROVE  TreeInv'
  BY Zenon, <1>7, <1>TreeWaits
<1> QED BY Zenon, <1>1, <1>2, <1>3, <1>4, <1>5, <1>6, <1>7 DEF Next, KernelStep, Syscall

\* If one thread of each process looks after its children, the tree is
\* consistent: every live process is once on the list of its parent until
\* wait4 unlinks it, and its parent is live and has not given its children
\* away (sys_fork_internal, process_reparent_children, process_end).
THEOREM FamilyTree == OneFamilyThread /\ Spec => []TreeConsistent
<1> SUFFICES ASSUME OneFamilyThread PROVE Spec => []TreeConsistent
  BY Zenon DEF OneFamilyThread
<1>1. Init => TreeInv
  BY Zenon, TreeInitial
<1>2. ThreadsInv /\ TreeInv /\ [Next]_vars => TreeInv'
  BY Zenon, TreeStep
<1>3. ThreadsInv /\ TreeInv => TreeConsistent
  <2> SUFFICES ASSUME ThreadsInv, TreeInv, NEW q \in Procs, life[q] = "live", q # InitProc
               PROVE  /\ \/ q \in Members(children[parent[q]])
                         \/ \E t \in Threads : target[t] = q /\ pc[t] = "reap_spin"
                      /\ Distinct(children[parent[q]])
                      /\ life[parent[q]] = "live"
                      /\ \A t \in Threads : Owner[t] = parent[q] => pc[t] \notin LastPoints
    BY Zenon DEF TreeConsistent
  <2>1. /\ parent[q] \in Procs /\ life[parent[q]] = "live" /\ ~Past(parent[q])
        /\ q \in Members(children[parent[q]]) \/ \E t \in Threads : target[t] = q /\ pc[t] = "reap_spin"
    BY Zenon DEF TreeInv, Parents
  <2>2. Distinct(children[parent[q]])
    BY Zenon, <2>1 DEF TreeInv, Children
  <2>3. ASSUME NEW t \in Threads, Owner[t] = parent[q], pc[t] \in LastPoints
        PROVE  FALSE
    <3>1. t = Main[parent[q]]
      BY Zenon, <2>3 DEF ThreadsInv, MainThread
    <3> QED BY Zenon, <2>1, <2>3, <3>1 DEF Past
  <2> QED BY Zenon, <2>1, <2>2, <2>3
<1> QED BY <1>1, <1>2, <1>3, Threading, PTL DEF Spec

-----------------------------------------------------------------------------
(* Sleeping in wait4.                                                      *)

\* A step of t wakes other threads, or leaves their status and their tokens
\* alone.
OthersRest(t) ==
    \A u \in Threads \ {t} :
        \/ status'[u] = status[u] /\ parked'[u] = parked[u] /\ (u \in queued => u \in queued')
        \/ status'[u] = "RUNNABLE" /\ ~parked'[u]

\* At the start nobody sleeps.
LEMMA SleepInitial == Init => SleepInv
<1> SUFFICES ASSUME Init PROVE SleepInv
  BY Zenon
<1>1. SleepTypes
  BY Zenon DEF Init, SleepTypes, Statuses, Codes
<1>2. \A t \in Threads : waiting[t] = "nothing" /\ parked[t] = FALSE
  BY Zenon DEF Init
<1>3. \A t \in Threads : SleepPoint(t)
  BY Zenon, <1>2 DEF SleepPoint, Announced
<1>4. Told
  BY Zenon, <1>2 DEF Told, Asleep, Announced
<1> QED BY Zenon, <1>1, <1>3, <1>4 DEF SleepInv

\* Every step keeps what is known of those who sleep in wait4.
LEMMA SleepStep ==
    OneFamilyThread /\ ThreadsInv /\ TreeInv /\ SleepInv /\ [Next]_vars => SleepInv'
<1> SUFFICES ASSUME OneFamilyThread, ThreadsInv, TreeInv, SleepInv
             PROVE  [Next]_vars => SleepInv'
  BY Zenon

\* A step that changes nothing but the status of the thread itself.
<1>RestAlone.
    ASSUME SleepTypes, NEW t \in Threads,
           \/ UNCHANGED <<status, parked>>
           \/ \E s : set_current_state(t, s)
           \/ sched_yield(t)
           \/ Destroy(t),
           queued' \in {queued, queued \cup {t}, queued \ {t}}
    PROVE  OthersRest(t)
  <2> USE <1>RestAlone
  <2>1. \A u \in Threads \ {t} : status'[u] = status[u] /\ parked'[u] = parked[u]
    BY Zenon DEF SleepTypes, set_current_state, sched_yield, Destroy
  <2> QED BY Zenon, <2>1 DEF OthersRest

\* One that wakes threads, and takes no token off a queue but theirs.
<1>RestWake.
    ASSUME SleepTypes, NEW t \in Threads, NEW S, wake_up_all(S),
           \A u \in queued : u \in queued' \/ u \in S
    PROVE  /\ OthersRest(t)
           /\ \A u \in S \cap Threads : status'[u] = "RUNNABLE" /\ ~parked'[u]
           /\ t \notin S => status'[t] = status[t] /\ parked'[t] = parked[t]
           /\ status' \in [Threads -> Statuses] /\ parked' \in [Threads -> BOOLEAN]
  <2> USE <1>RestWake
  <2>1. \A u \in Threads : IF u \in S THEN status'[u] = "RUNNABLE" /\ ~parked'[u]
                                      ELSE status'[u] = status[u] /\ parked'[u] = parked[u]
    BY Zenon DEF SleepTypes, wake_up_all
  <2>2. OthersRest(t)
    <3> SUFFICES ASSUME NEW u \in Threads \ {t}
                 PROVE  \/ status'[u] = status[u] /\ parked'[u] = parked[u] /\ (u \in queued => u \in queued')
                        \/ status'[u] = "RUNNABLE" /\ ~parked'[u]
      BY Zenon DEF OthersRest
    <3> QED BY Zenon, <2>1
  <2>3. status' \in [Threads -> Statuses] /\ parked' \in [Threads -> BOOLEAN]
    BY Zenon DEF SleepTypes, wake_up_all, Statuses
  <2> QED BY Zenon, <2>1, <2>2, <2>3

\* A thread that is not moved stays where it may be.
<1>PointsKept.
    ASSUME \A u \in Threads : SleepPoint(u), NEW t \in Threads, OthersSameOrNew(t), OthersRest(t),
           (SleepPoint(t))'
    PROVE  \A u \in Threads : (SleepPoint(u))'
  <2> USE <1>PointsKept
  <2> SUFFICES ASSUME NEW u \in Threads \ {t} PROVE (SleepPoint(u))'
    BY Zenon
  <2>1. /\ SleepPoint(u)
        /\ pc'[u] = pc[u] \/ (pc[u] = "unborn" /\ pc'[u] = "user")
        /\ waiting'[u] = waiting[u]
        /\ \/ status'[u] = status[u] /\ parked'[u] = parked[u] /\ (u \in queued => u \in queued')
           \/ status'[u] = "RUNNABLE" /\ ~parked'[u]
    BY Zenon DEF OthersSameOrNew, OthersRest
  <2>2. CASE pc'[u] = pc[u]
    BY Zenon, <2>1, <2>2 DEF SleepPoint, Announced
  <2>3. CASE pc[u] = "unborn" /\ pc'[u] = "user"
    BY Zenon, <2>1, <2>3 DEF SleepPoint, Announced, Unlocked
  <2> QED BY Zenon, <2>1, <2>2, <2>3

\* Another thread does not fall asleep.
<1>NoNewSleeper.
    ASSUME NEW t \in Threads, OthersSameOrNew(t), OthersRest(t), NEW u \in Threads \ {t}, (Asleep(u))'
    PROVE  Asleep(u) /\ status'[u] # "RUNNABLE"
  <2> USE <1>NoNewSleeper
  <2>1. /\ pc'[u] = pc[u] \/ (pc[u] = "unborn" /\ pc'[u] = "user")
        /\ waiting'[u] = waiting[u]
        /\ \/ status'[u] = status[u]
           \/ status'[u] = "RUNNABLE"
    BY Zenon DEF OthersSameOrNew, OthersRest
  <2> QED BY Zenon, <2>1 DEF Asleep, Announced

\* What it takes to show that every sleeper will be woken after a step.
<1>ToldFrame.
    ASSUME Told, raced \in BOOLEAN, raced => raced',
           ASSUME NEW u \in Threads, (Asleep(u))', ~raced',
                  NEW q \in Members(children'[Owner[u]]), (Collectable(u, q))'
           PROVE  \/ \E w \in Threads : (Waker(w, u, q))'
                  \/ /\ Asleep(u) /\ q \in Members(children[Owner[u]]) /\ Collectable(u, q)
                     /\ \A v \in Threads : Waker(v, u, q) => \E w \in Threads : (Waker(w, u, q))'
    PROVE  Told'
  <2> USE <1>ToldFrame
  <2> SUFFICES ASSUME ~raced', NEW u \in Threads, (Asleep(u))',
                      NEW q \in Members(children'[Owner[u]]), (Collectable(u, q))'
               PROVE  \E w \in Threads : (Waker(w, u, q))'
    BY Zenon DEF Told
  <2>1. \/ \E w \in Threads : (Waker(w, u, q))'
        \/ /\ Asleep(u) /\ q \in Members(children[Owner[u]]) /\ Collectable(u, q)
           /\ \A v \in Threads : Waker(v, u, q) => \E w \in Threads : (Waker(w, u, q))'
    BY Zenon
  <2>2. ~raced
    BY Zenon
  <2> QED BY Zenon, <2>1, <2>2 DEF Told

\* A step of a thread that is nobody's waker, or stays one, and after which
\* there is no more to collect than before.
<1>ToldQuiet.
    ASSUME SleepTypes, Told, NEW t \in Threads, OthersSameOrNew(t), OthersRest(t),
           raced => raced', parent' = parent,
           \A p \in Procs : Members(children'[p]) \subseteq Members(children[p]),
           \A u \in Threads : \A q \in Members(children[Owner[u]]) : (Collectable(u, q))' => Collectable(u, q),
           \A u \in Threads : \A q \in Members(children[Owner[u]]) : Exited(q) => (Exited(q))',
           \A u \in Threads : \A q \in Members(children[Owner[u]]) : Waker(t, u, q) => (Waker(t, u, q))',
           (Asleep(t))' => Asleep(t)
    PROVE  Told'
  <2> USE <1>ToldQuiet
  <2>1. ASSUME NEW u \in Threads, (Asleep(u))', ~raced',
               NEW q \in Members(children'[Owner[u]]), (Collectable(u, q))'
        PROVE  /\ Asleep(u) /\ q \in Members(children[Owner[u]]) /\ Collectable(u, q)
               /\ \A v \in Threads : Waker(v, u, q) => \E w \in Threads : (Waker(w, u, q))'
    <3>1. Asleep(u)
      BY Zenon, <2>1, <1>NoNewSleeper
    <3>2. q \in Members(children[Owner[u]])
      BY Zenon, <2>1, ProcessAssumption
    <3>3. Collectable(u, q)
      BY Zenon, <2>1, <3>2
    <3>4. ASSUME NEW v \in Threads, Waker(v, u, q) PROVE (Waker(v, u, q))'
      <4>1. CASE v = t
        BY Zenon, <3>2, <3>4, <4>1
      <4>2. CASE v # t
        <5>1. pc'[v] = pc[v] \/ pc[v] = "unborn"
          BY Zenon, <4>2 DEF OthersSameOrNew
        <5>2. pc'[v] = pc[v]
          BY Zenon, <3>4, <5>1 DEF Waker
        <5>3. Exited(q) => (Exited(q))'
          BY Zenon, <3>2
        <5> QED BY Zenon, <3>4, <5>2, <5>3 DEF Waker
      <4> QED BY Zenon, <4>1, <4>2
    <3> QED BY Zenon, <3>1, <3>2, <3>3, <3>4
  <2>2. raced \in BOOLEAN
    BY Zenon DEF SleepTypes
  <2> QED BY Zenon, <2>1, <2>2, <1>ToldFrame

\* A step of a thread that is going to wake the parent of its process, which
\* may find something new about it.
<1>ToldWaker.
    ASSUME SleepTypes, Told, NEW t \in Threads, OthersSame(t), OthersRest(t),
           raced => raced', UNCHANGED <<parent, children>>,
           \A q \in Procs \ {Owner[t]} : group'[q] = group[q] /\ exit_code'[q] = exit_code[q],
           Exited(Owner[t]) => (Exited(Owner[t]))',
           \/ pc'[t] \in {"exit_reparent", "exit_dead", "exit_code", "stop_code", "stop_wake"}
           \/ pc'[t] \in VforkPoints /\ (Exited(Owner[t]))',
           pc[t] \in {"exit_dead", "exit_code"} => pc'[t] \in {"exit_dead", "exit_code"},
           Types
    PROVE  Told'
  <2> USE <1>ToldWaker
  <2>0. OthersSameOrNew(t) /\ raced \in BOOLEAN
    BY Zenon DEF OthersSame, OthersSameOrNew, SleepTypes
  <2>1. \A u \in Threads : (Waker(t, u, Owner[t]))'
    BY Zenon DEF Waker
  <2>2. ASSUME NEW u \in Threads, (Asleep(u))', ~raced',
               NEW q \in Members(children'[Owner[u]]), (Collectable(u, q))', q # Owner[t]
        PROVE  /\ Asleep(u) /\ q \in Members(children[Owner[u]]) /\ Collectable(u, q)
               /\ \A v \in Threads : Waker(v, u, q) => \E w \in Threads : (Waker(w, u, q))'
    <3>0. ~(Asleep(t))'
      BY Zenon DEF Asleep, Announced
    <3>1. Asleep(u)
      BY Zenon, <2>0, <2>2, <3>0, <1>NoNewSleeper
    <3>2. q \in Members(children[Owner[u]]) /\ q \in Procs
      BY Zenon, <2>2, ChildrenAreProcs
    <3>3. group'[q] = group[q] /\ exit_code'[q] = exit_code[q]
      BY Zenon, <2>2, <3>2
    <3>4. Collectable(u, q)
      BY Zenon, <2>2, <3>3 DEF Collectable, Exited, Stopped, Continued
    <3>5. ASSUME NEW v \in Threads, Waker(v, u, q) PROVE (Waker(v, u, q))'
      <4>1. CASE v = t
        BY Zenon, <2>2, <3>5, <4>1 DEF Waker
      <4>2. CASE v # t
        BY Zenon, <3>3, <3>5, <4>2 DEF Waker, OthersSame, Exited
      <4> QED BY Zenon, <4>1, <4>2
    <3> QED BY Zenon, <3>1, <3>2, <3>4, <3>5
  <2>3. ASSUME NEW u \in Threads, (Asleep(u))', ~raced',
               NEW q \in Members(children'[Owner[u]]), (Collectable(u, q))'
        PROVE  \/ \E w \in Threads : (Waker(w, u, q))'
               \/ /\ Asleep(u) /\ q \in Members(children[Owner[u]]) /\ Collectable(u, q)
                  /\ \A v \in Threads : Waker(v, u, q) => \E w \in Threads : (Waker(w, u, q))'
    <3>1. CASE q = Owner[t]
      BY Zenon, <2>1, <3>1
    <3>2. CASE q # Owner[t]
      BY Zenon, <2>2, <2>3, <3>2
    <3> QED BY Zenon, <3>1, <3>2
  <2> QED BY Zenon, <2>0, <2>3, <1>ToldFrame

\* A sleeper's children are its own.
<1>SleeperChild.
    ASSUME NEW u \in Threads, Asleep(u),
           NEW q \in Members(children[Owner[u]])
    PROVE  q \in Procs /\ parent[q] = Owner[u]
  <2> USE <1>SleeperChild
  <2>1. Active(u) /\ pc[u] \notin LastPoints
    BY Zenon DEF Asleep, Announced, Active
  <2>2. ~Past(Owner[u]) /\ Owner[u] \in Procs
    BY Zenon, <2>1, NotPast
  <2>3. q \in Procs
    BY Zenon, <2>2, ChildrenAreProcs DEF ThreadsInv
  <2> QED BY Zenon, <2>2, <2>3 DEF TreeInv, Children

\* A step that wakes whoever waits for a child of process p, and changes
\* what there is to collect of a child of p only.
<1>ToldWakes.
    ASSUME NEW t \in Threads, OthersSame(t), OthersRest(t),
           raced => raced', UNCHANGED <<parent, children>>, NEW p,
           \A q \in Procs : parent[q] # p => group'[q] = group[q] /\ exit_code'[q] = exit_code[q],
           \A u \in Waiters(p) : status'[u] = "RUNNABLE",
           \A u \in Threads, q \in Procs : Waker(t, u, q) => parent[q] = p \/ Owner[u] = p,
           ~(Asleep(t))'
    PROVE  Told'
  <2> USE <1>ToldWakes
  <2>0. OthersSameOrNew(t) /\ raced \in BOOLEAN
    BY Zenon DEF OthersSame, OthersSameOrNew, SleepInv, SleepTypes
  <2>1. ASSUME NEW u \in Threads, (Asleep(u))', ~raced',
               NEW q \in Members(children'[Owner[u]]), (Collectable(u, q))'
        PROVE  /\ Asleep(u) /\ q \in Members(children[Owner[u]]) /\ Collectable(u, q)
               /\ \A v \in Threads : Waker(v, u, q) => \E w \in Threads : (Waker(w, u, q))'
    <3>1. Asleep(u) /\ status'[u] # "RUNNABLE"
      BY Zenon, <2>0, <2>1, <1>NoNewSleeper
    <3>2. q \in Members(children[Owner[u]]) /\ q \in Procs /\ parent[q] = Owner[u]
      BY Zenon, <2>1, <3>1, <1>SleeperChild
    <3>3. Owner[u] # p
      <4>1. u \in queued /\ waiting[u] = "child"
        BY Zenon, <3>1 DEF SleepInv, SleepPoint, Asleep, Announced
      <4> QED BY Zenon, <3>1, <4>1 DEF Waiters
    <3>4. group'[q] = group[q] /\ exit_code'[q] = exit_code[q]
      BY Zenon, <3>2, <3>3
    <3>5. Collectable(u, q)
      BY Zenon, <2>1, <3>4 DEF Collectable, Exited, Stopped, Continued
    <3>6. ASSUME NEW v \in Threads, Waker(v, u, q) PROVE (Waker(v, u, q))'
      <4>1. v # t
        BY Zenon, <3>2, <3>3, <3>6
      <4> QED BY Zenon, <3>4, <3>6, <4>1 DEF Waker, OthersSame, Exited
    <3> QED BY Zenon, <3>1, <3>2, <3>5, <3>6
  <2> QED BY Zenon, <2>0, <2>1, <1>ToldFrame DEF SleepInv

\* The types are kept by a step that changes no status but that of the thread
\* itself, nor what is to be collected.
<1>SleepTypesAlone.
    ASSUME SleepTypes, NEW t \in Threads,
           \/ UNCHANGED <<status, parked>>
           \/ \E s \in Statuses : set_current_state(t, s)
           \/ sched_yield(t)
           \/ Destroy(t),
           queued' \in {queued, queued \cup {t}, queued \ {t}},
           UNCHANGED <<group, exit_code>>, asked' \in [Procs -> Codes], raced' \in BOOLEAN
    PROVE  SleepTypes'
  <2> USE <1>SleepTypesAlone
  <2>1. status' \in [Threads -> Statuses]
    BY Zenon DEF SleepTypes, set_current_state, sched_yield, Destroy, Statuses
  <2>2. parked' \in [Threads -> BOOLEAN]
    BY ZenonT(30) DEF SleepTypes, set_current_state, sched_yield, Destroy
  <2>3. queued' \subseteq Threads
    BY Zenon DEF SleepTypes
  <2> QED BY Zenon, <2>1, <2>2, <2>3 DEF SleepTypes

\* A step of a thread that does not concern sleepers: it does not itself
\* fall asleep, and wakes nobody.
<1>SleepIdle.
    ASSUME NEW t \in Threads, OthersSameOrNew(t),
           \/ UNCHANGED <<status, parked>>
           \/ \E s \in Statuses : set_current_state(t, s)
           \/ sched_yield(t)
           \/ Destroy(t),
           queued' \in {queued, queued \cup {t}, queued \ {t}},
           UNCHANGED <<group, exit_code, parent, children, raced>>, asked' \in [Procs -> Codes],
           pc[t] \in WakerPoints => pc[t] \in VforkPoints /\ ~Exited(Owner[t]),
           (SleepPoint(t))', (Asleep(t))' => Asleep(t)
    PROVE  SleepInv'
  <2> USE <1>SleepIdle
  <2>1. SleepTypes /\ Told /\ \A u \in Threads : SleepPoint(u)
    BY Zenon DEF SleepInv
  <2>2. SleepTypes'
    BY Zenon, <2>1, <1>SleepTypesAlone DEF SleepTypes
  <2>3. OthersRest(t)
    BY Zenon, <2>1, <1>RestAlone
  <2>4. \A u \in Threads : (SleepPoint(u))'
    BY Zenon, <2>1, <2>3, <1>PointsKept
  <2>5. \A u \in Threads : \A q : (Collectable(u, q))' = Collectable(u, q) /\ (Exited(q))' = Exited(q)
    BY Zenon DEF Collectable, Exited, Stopped, Continued
  <2>6. \A u \in Threads : \A q : ~Waker(t, u, q)
    BY Zenon DEF Waker, WakerPoints
  <2>7. Told'
    BY Zenon, <2>1, <2>3, <2>5, <2>6, <1>ToldQuiet
  <2> QED BY Zenon, <2>2, <2>4, <2>7 DEF SleepInv

\* So does one that wakes threads, with no more to collect afterwards.
<1>SleepWakes.
    ASSUME NEW t \in Threads, OthersSameOrNew(t), NEW S, wake_up_all(S),
           queued' \subseteq queued, \A u \in queued : u \in queued' \/ u \in S,
           UNCHANGED <<group, exit_code, asked, parent, children>>, raced' \in BOOLEAN, raced => raced',
           pc[t] \in WakerPoints => pc[t] \in VforkPoints /\ ~Exited(Owner[t]),
           waiting'[t] # "child", ~parked[t]
    PROVE  SleepInv'
  <2> USE <1>SleepWakes
  <2>1. SleepTypes /\ Told /\ \A u \in Threads : SleepPoint(u)
    BY Zenon DEF SleepInv
  <2>2. /\ OthersRest(t)
        /\ \A u \in S \cap Threads : status'[u] = "RUNNABLE" /\ ~parked'[u]
        /\ t \notin S => status'[t] = status[t] /\ parked'[t] = parked[t]
        /\ status' \in [Threads -> Statuses] /\ parked' \in [Threads -> BOOLEAN]
    BY Zenon, <2>1, <1>RestWake
  <2>3. SleepTypes'
    BY Zenon, <2>1, <2>2 DEF SleepTypes
  <2>4. ~parked'[t]
    BY Zenon, <2>2
  <2>5. (SleepPoint(t))' /\ ~(Asleep(t))'
    BY Zenon, <2>4 DEF SleepPoint, Asleep, Announced
  <2>6. \A u \in Threads : (SleepPoint(u))'
    BY Zenon, <2>1, <2>2, <2>5, <1>PointsKept
  <2>7. \A u \in Threads : \A q : (Collectable(u, q))' = Collectable(u, q) /\ (Exited(q))' = Exited(q)
    BY Zenon DEF Collectable, Exited, Stopped, Continued
  <2>8. \A u \in Threads : \A q : ~Waker(t, u, q)
    BY Zenon DEF Waker, WakerPoints
  <2>9. Told'
    BY Zenon, <2>1, <2>2, <2>5, <2>7, <2>8, <1>ToldQuiet
  <2> QED BY Zenon, <2>3, <2>6, <2>9 DEF SleepInv

\* A thread that does not wait for a child, or is not near its sleep, stays
\* on the processor.
<1>SleepElsewhere.
    ASSUME NEW t \in Threads, OthersSameOrNew(t), ~parked[t],
           UNCHANGED <<status, parked>> \/ \E s \in Statuses : set_current_state(t, s),
           queued' \in {queued, queued \cup {t}, queued \ {t}},
           UNCHANGED <<group, exit_code, parent, children, raced>>, asked' \in [Procs -> Codes],
           pc[t] \in WakerPoints => pc[t] \in VforkPoints /\ ~Exited(Owner[t]),
           waiting'[t] = "child" => pc'[t] \in {"wait_first", "wait_add", "wait_out", "wait_leave", "reap_unlink",
                                                "reap_spin"}
    PROVE  SleepInv'
  <2> USE <1>SleepElsewhere
  <2>1. ~parked'[t]
    BY Zenon DEF set_current_state
  <2>2. (SleepPoint(t))' /\ ~(Asleep(t))'
    BY Zenon, <2>1 DEF SleepPoint, Asleep, Announced
  <2> QED BY Zenon, <2>2, <1>SleepIdle

\* Where a thread does not wait for a child.
<1>NotWaiting.
    ASSUME NEW t \in Threads, pc[t] \notin WaitPoints \cup {"reap_unlink", "reap_spin"}
    PROVE  waiting[t] # "child"
  BY Zenon, <1>NotWaiting DEF SleepInv, SleepPoint

\* clone, execve, exit, wait4 and pause wake no sleeper in wait4 but for
\* those told to exit.
<1>SleepSyscalls.
    ASSUME NEW t \in Threads,
           \/ \E w \in Threads : Clone(t, w)
           \/ Exec(t) \/ Exit(t) \/ Wait4(t) \/ Pause(t)
    PROVE  SleepInv'
  <2> USE <1>SleepSyscalls
  <2>0. Types /\ SleepTypes
    BY Zenon DEF ThreadsInv, SleepInv
  <2>1. pc[t] = "user" /\ ~parked[t] /\ pc[t] \notin WakerPoints
    BY Zenon DEF Clone, Exec, Exit, Wait4, Pause, At, WakerPoints
  <2>2. waiting[t] # "child"
    BY Zenon, <2>1, <1>NotWaiting
  <2>3. UNCHANGED <<group, exit_code, parent, children, raced>>
    BY Zenon DEF Clone, Exec, KillOthers, Exit, Wait4, Pause, procVars, sigVars, lockVars, histVars
  <2>4. ASSUME NEW w \in Threads, Clone(t, w)
        PROVE  SleepInv'
    <3>1. /\ pc[w] = "unborn" /\ pc' = [pc EXCEPT ![w] = "user", ![t] = "exit"]
          /\ UNCHANGED <<status, parked, queued, waiting, target, asked>>
      BY Zenon, <2>4 DEF Clone, histVars
    <3>2. OthersSameOrNew(t)
      BY Zenon, <2>0, <3>1 DEF Types, OthersSameOrNew
    <3>3. asked' \in [Procs -> Codes]
      BY Zenon, <2>0, <3>1 DEF SleepTypes
    <3> QED BY Zenon, <2>1, <2>2, <2>3, <3>1, <3>2, <3>3, <1>SleepElsewhere
  <2>5. CASE Exec(t)
    <3>1. UNCHANGED <<queued, waiting, asked>> /\ \E S : wake_up_all(S)
      BY Zenon, <2>5 DEF Exec, KillOthers, histVars
    <3>2. OthersSameOrNew(t)
      BY Zenon, <2>0, <2>5, StepMovesOne DEF OthersSame, OthersSameOrNew
    <3>3. raced' \in BOOLEAN
      BY ZenonT(30), <2>0, <2>3 DEF SleepTypes
    <3> QED BY Zenon, <2>1, <2>2, <2>3, <3>1, <3>2, <3>3, <1>SleepWakes
  <2>6. CASE Exit(t) \/ Wait4(t) \/ Pause(t)
    <3>1. UNCHANGED <<status, parked, queued>>
      BY Zenon, <2>6 DEF Exit, Wait4, Pause
    <3>2. OthersSameOrNew(t)
      BY ZenonT(30), <2>0, <2>6, StepMovesOne DEF OthersSame, OthersSameOrNew
    <3>3. asked' \in [Procs -> Codes]
      BY Zenon, <2>0, <2>6 DEF Exit, Wait4, Pause, SleepTypes, Codes, histVars
    <3>4. waiting'[t] = "child" => pc'[t] = "wait_first"
      BY Zenon, <2>0, <2>2, <2>6 DEF Exit, Wait4, Pause, Goto, Types
    <3> QED BY Zenon, <2>1, <2>3, <3>1, <3>2, <3>3, <3>4, <1>SleepElsewhere
  <2> QED BY Zenon, <2>4, <2>5, <2>6

\* What signal_do_special_behaviour does: it may wake the stopped, and if it
\* continues a stopped process, it wakes those who wait for a child of the
\* parent; otherwise there is no more to collect than before.
<1>SpecialEffect.
    ASSUME Types, SleepTypes, NEW q \in Procs, NEW s \in Signals, Special(q, s),
           NEW r, r = (s = "CONT" /\ "STOPPED" \in group[q])
    PROVE  /\ group' \in [Procs -> SUBSET {"STOPPED", "CONT", "EXIT"}] /\ exit_code' \in [Procs -> Codes]
           /\ \A p \in Procs \ {q} : group'[p] = group[p] /\ exit_code'[p] = exit_code[p]
           /\ "EXIT" \in group'[q] <=> "EXIT" \in group[q]
           /\ ~r => group'[q] \subseteq group[q] /\ exit_code' = exit_code
           /\ status' \in [Threads -> Statuses] /\ parked' \in [Threads -> BOOLEAN]
           /\ \A u \in Threads : \/ status'[u] = status[u] /\ parked'[u] = parked[u]
                                 \/ status'[u] = "RUNNABLE" /\ ~parked'[u]
           /\ r => \A u \in Waiters(parent[q]) : status'[u] = "RUNNABLE" /\ ~parked'[u]
  <2> USE <1>SpecialEffect
  <2>1. CASE s = "STOP"
    <3>1. UNCHANGED <<status, parked, group, exit_code>> /\ ~r
      BY Zenon, <2>1 DEF Special
    <3> QED BY Zenon, <3>1 DEF SleepTypes
  <2>2. CASE s # "STOP"
    <3>1. /\ IF r
             THEN /\ group' = [group EXCEPT ![q] = (@ \ {"STOPPED"}) \cup {"CONT"}]
                  /\ exit_code' = [exit_code EXCEPT ![q] = "CONT"]
             ELSE /\ group' = [group EXCEPT ![q] = IF s = "CONT" THEN @ \ {"STOPPED"} ELSE @]
                  /\ UNCHANGED exit_code
          /\ wake_up_all({u \in ThreadsOf(q) : "STOPPING" \in sflags[u]}
                         \cup IF r THEN Waiters(parent[q]) ELSE {})
      BY Zenon, <2>2 DEF Special
    <3>2. group \in [Procs -> SUBSET {"STOPPED", "CONT", "EXIT"}] /\ exit_code \in [Procs -> Codes]
      BY Zenon DEF SleepTypes
    <3>3. /\ group' \in [Procs -> SUBSET {"STOPPED", "CONT", "EXIT"}]
          /\ \A p \in Procs \ {q} : group'[p] = group[p]
          /\ "EXIT" \in group'[q] <=> "EXIT" \in group[q]
          /\ ~r => group'[q] \subseteq group[q]
      <4>1. CASE r
        BY <3>1, <3>2, <4>1
      <4>2. CASE ~r
        BY Zenon, <3>1, <3>2, <4>2
      <4> QED BY Zenon, <4>1, <4>2
    <3>4. /\ exit_code' \in [Procs -> Codes]
          /\ \A p \in Procs \ {q} : exit_code'[p] = exit_code[p]
          /\ ~r => exit_code' = exit_code
      BY Zenon, <3>1, <3>2 DEF Codes
    <3>5. Waiters(parent[q]) \subseteq Threads
      BY Zenon DEF Waiters, SleepTypes
    <3> DEFINE S == {u \in ThreadsOf(q) : "STOPPING" \in sflags[u]}
                    \cup IF r THEN Waiters(parent[q]) ELSE {}
    <3>6. wake_up_all(S) /\ (r => Waiters(parent[q]) \subseteq S)
      <4>1. CASE r
        BY Zenon, <3>1, <4>1
      <4>2. CASE ~r
        BY Zenon, <3>1, <4>2
      <4> QED BY Zenon, <4>1, <4>2
    <3> HIDE DEF S
    <3>7. \A u \in Threads : IF u \in S THEN status'[u] = "RUNNABLE" /\ ~parked'[u]
                                        ELSE status'[u] = status[u] /\ parked'[u] = parked[u]
      BY Zenon, <3>6, WakeUpAll
    <3>8. status' \in [Threads -> Statuses] /\ parked' \in [Threads -> BOOLEAN]
      BY Zenon, <3>6 DEF SleepTypes, wake_up_all, Statuses
    <3> QED BY Zenon, <3>3, <3>4, <3>5, <3>6, <3>7, <3>8
  <2> QED BY Zenon, <2>1, <2>2

\* kill of a stopped child wakes its waiting parent if it continues it.
<1>SleepRaise.
    ASSUME NEW t \in Threads, NEW q \in Procs,
           NEW s \in Signals, RaiseSignal(t, q, s)
    PROVE  SleepInv'
  <2> USE <1>SleepRaise
  <2> PICK r : r = (s = "CONT" /\ "STOPPED" \in group[q])
    BY Zenon
  <2>0. Types /\ SleepTypes /\ Told /\ \A u \in Threads : SleepPoint(u)
    BY Zenon DEF ThreadsInv, SleepInv
  <2>1. /\ pc[t] = "user" /\ ~parked[t] /\ Goto(t, "tkill") /\ Special(q, s)
        /\ queued' = queued \ (IF r THEN Waiters(parent[q]) ELSE {})
        /\ raced' = (raced \/ (s # "STOP" /\ \E u \in ThreadsOf(q) : Stopping(u)))
        /\ UNCHANGED <<parent, children, waiting, asked>>
    BY Zenon DEF RaiseSignal, At
  <2>2. /\ group' \in [Procs -> SUBSET {"STOPPED", "CONT", "EXIT"}] /\ exit_code' \in [Procs -> Codes]
        /\ \A p \in Procs \ {q} : group'[p] = group[p] /\ exit_code'[p] = exit_code[p]
        /\ "EXIT" \in group'[q] <=> "EXIT" \in group[q]
        /\ ~r => group'[q] \subseteq group[q] /\ exit_code' = exit_code
        /\ status' \in [Threads -> Statuses] /\ parked' \in [Threads -> BOOLEAN]
        /\ \A u \in Threads : \/ status'[u] = status[u] /\ parked'[u] = parked[u]
                              \/ status'[u] = "RUNNABLE" /\ ~parked'[u]
        /\ r => \A u \in Waiters(parent[q]) : status'[u] = "RUNNABLE" /\ ~parked'[u]
    <3>1. Special(q, s)
      BY Zenon, <2>1
    <3> QED BY Zenon, <2>0, <3>1, <1>SpecialEffect
  <2>4. OthersSame(t) /\ OthersSameOrNew(t) /\ pc'[t] = "tkill"
    <3>1. OthersSame(t)
      BY Zenon, <2>0, StepMovesOne
    <3> QED BY Zenon, <2>0, <2>1, <3>1 DEF OthersSame, OthersSameOrNew, Goto, Types
  <2>5. queued' \subseteq queued /\ \A u \in queued \ queued' : status'[u] = "RUNNABLE" /\ ~parked'[u]
    BY Zenon, <2>1, <2>2
  <2>6. OthersRest(t)
    BY Zenon, <2>2, <2>5 DEF OthersRest
  <2>7. raced' \in BOOLEAN /\ (raced => raced')
    BY Zenon, <2>1
  <2>8. SleepTypes'
    BY Zenon, <2>0, <2>1, <2>2, <2>5, <2>7 DEF SleepTypes
  <2>9. waiting'[t] # "child" /\ ~parked'[t]
    BY Zenon, <2>1, <2>2, <1>NotWaiting
  <2>10. (SleepPoint(t))' /\ ~(Asleep(t))'
    BY Zenon, <2>9 DEF SleepPoint, Asleep, Announced
  <2>11. \A u \in Threads : (SleepPoint(u))'
    BY Zenon, <2>0, <2>4, <2>6, <2>10, <1>PointsKept
  <2>12. \A u \in Threads : \A p : ~Waker(t, u, p)
    BY Zenon, <2>1 DEF Waker
  <2>13. CASE r
    <3>1. \A u \in Waiters(parent[q]) : status'[u] = "RUNNABLE"
      BY Zenon, <2>2, <2>13
    <3>2. \A p \in Procs : parent[p] # parent[q] => group'[p] = group[p] /\ exit_code'[p] = exit_code[p]
      BY Zenon, <2>2
    <3>3. Told'
      BY ZenonT(30), <2>1, <2>4, <2>6, <2>7, <2>10, <2>12, <3>1, <3>2, <1>ToldWakes
    <3> QED BY Zenon, <2>8, <2>11, <3>3 DEF SleepInv
  <2>14. CASE ~r
    <3>1. \A p \in Procs : group'[p] \subseteq group[p] /\ ("EXIT" \in group[p] => "EXIT" \in group'[p])
                           /\ exit_code'[p] = exit_code[p]
      BY Zenon, <2>2, <2>14
    <3>2. \A u \in Threads : \A p \in Members(children[Owner[u]]) : p \in Procs
      BY Zenon, <2>0, ChildrenAreProcs
    <3>3. \A u \in Threads : \A p \in Procs : /\ (Collectable(u, p))' => Collectable(u, p)
                                              /\ Exited(p) => (Exited(p))'
      BY Zenon, <3>1 DEF Collectable, Exited, Stopped, Continued
    <3>4. \A p \in Procs : Members(children'[p]) \subseteq Members(children[p])
      BY ZenonT(30), <2>1
    <3>5. Told'
      BY Zenon, <2>0, <2>1, <2>4, <2>6, <2>7, <2>10, <2>12, <3>2, <3>3, <3>4, <1>ToldQuiet
    <3> QED BY Zenon, <2>8, <2>11, <3>5 DEF SleepInv
  <2> QED BY Zenon, <2>13, <2>14

\* fork and vfork: no other thread of the caller's process sleeps in wait4.
<1>SleepFork.
    ASSUME NEW t \in Threads,
           NEW q \in Procs, NEW v \in BOOLEAN, ForkChild(t, q, v), Family(t)
    PROVE  SleepInv'
  <2> USE <1>SleepFork
  <2>0. Types /\ SleepTypes /\ Told /\ \A u \in Threads : SleepPoint(u)
    BY Zenon DEF ThreadsInv, SleepInv
  <2>1. /\ pc[t] = "user" /\ ~parked[t] /\ life[q] = "unborn"
        /\ parent' = [parent EXCEPT ![q] = Owner[t]]
        /\ children' = [children EXCEPT ![Owner[t]] = Append(@, q)]
        /\ target' = [target EXCEPT ![t] = q]
        /\ waiting' = [waiting EXCEPT ![t] = IF v THEN "vfork" ELSE @]
        /\ pc' = [pc EXCEPT ![t] = IF v THEN "wait_first" ELSE "fork_put", ![Main[q]] = "user"]
        /\ UNCHANGED <<status, parked, queued, group, exit_code, asked, raced>>
    BY Zenon DEF ForkChild, At, sigVars, lockVars, histVars
  <2>2. Main[q] \in Threads /\ Owner[Main[q]] = q /\ pc[Main[q]] = "unborn" /\ \A u \in Threads : Owner[u] \in Procs
    BY Zenon, <2>1, ProcessAssumption DEF ThreadsInv, Lives
  <2>3. OthersSameOrNew(t) /\ pc'[t] \in {"wait_first", "fork_put"}
    BY Zenon, <2>0, <2>1, <2>2 DEF Types, OthersSameOrNew
  <2>4. OthersRest(t) /\ ~parked'[t]
    BY Zenon, <2>1 DEF OthersRest
  <2>5. waiting[t] # "child" /\ waiting'[t] # "child"
    <3>1. waiting[t] # "child"
      BY Zenon, <2>1, <1>NotWaiting
    <3> QED BY Zenon, <2>0, <2>1, <3>1 DEF Types
  <2>6. (SleepPoint(t))' /\ ~(Asleep(t))'
    BY Zenon, <2>4, <2>5 DEF SleepPoint, Asleep, Announced
  <2>7. \A u \in Threads : (SleepPoint(u))'
    BY Zenon, <2>0, <2>3, <2>4, <2>6, <1>PointsKept
  <2>8. ASSUME NEW u \in Threads, (Asleep(u))', ~raced',
               NEW c \in Members(children'[Owner[u]]), (Collectable(u, c))'
        PROVE  /\ Asleep(u) /\ c \in Members(children[Owner[u]]) /\ Collectable(u, c)
               /\ \A x \in Threads : Waker(x, u, c) => \E w \in Threads : (Waker(w, u, c))'
    <3>1. Asleep(u) /\ u # t
      BY Zenon, <2>3, <2>4, <2>6, <2>8, <1>NoNewSleeper
    <3>2. Owner[u] # Owner[t]
      <4>1. Family(u)
        BY Zenon, <3>1 DEF Asleep, Announced, TreeInv, Family
      <4> QED BY Zenon, <3>1, <4>1 DEF OneFamilyThread
    <3>3. children'[Owner[u]] = children[Owner[u]]
      BY Zenon, <2>0, <2>1, <2>2, <3>2 DEF Types
    <3>4. c \in Members(children[Owner[u]]) /\ Collectable(u, c)
      BY Zenon, <2>1, <2>8, <3>3 DEF Collectable, Exited, Stopped, Continued
    <3>5. ASSUME NEW x \in Threads, Waker(x, u, c) PROVE (Waker(x, u, c))'
      <4>1. Active(x)
        BY Zenon, <3>5 DEF Waker, Active
      <4>2. Owner[x] # q
        BY Zenon, <2>1, <4>1 DEF ThreadsInv, Lives
      <4>3. parent'[Owner[x]] = parent[Owner[x]]
        BY Zenon, <2>0, <2>1, <2>2, <4>2 DEF Types
      <4>4. x # t
        BY Zenon, <2>1, <3>5 DEF Waker
      <4>5. pc'[x] = pc[x]
        BY Zenon, <2>3, <3>5, <4>4 DEF OthersSameOrNew, Waker
      <4> QED BY Zenon, <2>1, <3>5, <4>3, <4>5 DEF Waker, Exited
    <3> QED BY Zenon, <3>1, <3>4, <3>5
  <2>9. Told'
    <3>1. raced \in BOOLEAN /\ (raced => raced')
      BY Zenon, <2>0, <2>1 DEF SleepTypes
    <3> QED BY ZenonT(30), <2>0, <2>8, <3>1, <1>ToldFrame
  <2>10. SleepTypes'
    BY Zenon, <2>0, <2>1 DEF SleepTypes
  <2> QED BY Zenon, <2>7, <2>9, <2>10 DEF SleepInv

\* A step of a thread that is going to wake the parent of its process keeps
\* the invariant.
<1>SleepWaker.
    ASSUME SleepTypes', NEW t \in Threads, OthersSame(t), ~parked[t],
           UNCHANGED <<status, parked>> \/ (\E s : set_current_state(t, s)) \/ \E S : wake_up_all(S),
           queued' \subseteq queued, \A u \in queued \ queued' : u # t => status'[u] = "RUNNABLE" /\ ~parked'[u],
           UNCHANGED <<parent, children, raced>>, waiting'[t] # "child",
           \A q \in Procs \ {Owner[t]} : group'[q] = group[q] /\ exit_code'[q] = exit_code[q],
           Exited(Owner[t]) => (Exited(Owner[t]))',
           \/ pc'[t] \in {"exit_reparent", "exit_dead", "exit_code", "stop_code", "stop_wake"}
           \/ pc'[t] \in VforkPoints /\ (Exited(Owner[t]))',
           pc[t] \in {"exit_dead", "exit_code"} => pc'[t] \in {"exit_dead", "exit_code"}
    PROVE  SleepInv'
  <2> USE <1>SleepWaker
  <2>0. SleepTypes /\ Types /\ Told /\ \A u \in Threads : SleepPoint(u)
    BY Zenon DEF SleepInv, ThreadsInv
  <2>1. /\ ~parked'[t]
        /\ \A u \in Threads \ {t} : \/ status'[u] = status[u] /\ parked'[u] = parked[u]
                                    \/ status'[u] = "RUNNABLE" /\ ~parked'[u]
    <3>1. CASE UNCHANGED <<status, parked>>
      BY Zenon, <3>1
    <3>2. ASSUME NEW s, set_current_state(t, s) PROVE <2>1!1 /\ <2>1!2
      BY Zenon, <2>0, <3>2 DEF set_current_state, SleepTypes
    <3>3. ASSUME NEW S, wake_up_all(S) PROVE <2>1!1 /\ <2>1!2
      BY Zenon, <2>0, <3>3, WakeUpAll
    <3> QED BY Zenon, <3>1, <3>2, <3>3
  <2>2. OthersRest(t) /\ OthersSameOrNew(t)
    BY Zenon, <2>1 DEF OthersRest, OthersSame, OthersSameOrNew
  <2>3. (SleepPoint(t))'
    BY Zenon, <2>1 DEF SleepPoint, Announced
  <2>4. \A u \in Threads : (SleepPoint(u))'
    BY Zenon, <2>0, <2>2, <2>3, <1>PointsKept
  <2>5. Told'
    BY Zenon, <2>0, <2>2, <1>ToldWaker
  <2> QED BY Zenon, <2>4, <2>5 DEF SleepInv

\* So does a step that wakes those who wait for a child of the parent.
<1>SleepTells.
    ASSUME NEW t \in Threads, OthersSame(t), ~parked[t],
           pc[t] \in {"stop_wake", "exit_code"}, wake_up_all(Waiters(parent[Owner[t]])),
           queued' = queued \ Waiters(parent[Owner[t]]), UNCHANGED <<parent, children, group, asked, raced>>,
           exit_code' \in [Procs -> Codes], \A q \in Procs \ {Owner[t]} : exit_code'[q] = exit_code[q],
           waiting'[t] # "child"
    PROVE  SleepInv'
  <2> USE <1>SleepTells
  <2>0. SleepTypes /\ Types /\ Told /\ \A u \in Threads : SleepPoint(u)
    BY Zenon DEF SleepInv, ThreadsInv
  <2> PICK p : p = parent[Owner[t]]
    BY Zenon
  <2>1. \A u \in queued : u \in queued' \/ u \in Waiters(p)
    BY Zenon
  <2>2. /\ OthersRest(t)
        /\ \A u \in Waiters(p) \cap Threads : status'[u] = "RUNNABLE" /\ ~parked'[u]
        /\ t \notin Waiters(p) => status'[t] = status[t] /\ parked'[t] = parked[t]
        /\ status' \in [Threads -> Statuses] /\ parked' \in [Threads -> BOOLEAN]
    BY Zenon, <2>0, <2>1, <1>RestWake
  <2>3. SleepTypes'
    BY Zenon, <2>0, <2>2 DEF SleepTypes
  <2>4. ~parked'[t]
    BY Zenon, <2>2
  <2>5. (SleepPoint(t))' /\ ~(Asleep(t))'
    BY Zenon, <2>4 DEF SleepPoint, Asleep, Announced
  <2>6. OthersSameOrNew(t)
    BY Zenon DEF OthersSame, OthersSameOrNew
  <2>7. \A u \in Threads : (SleepPoint(u))'
    BY Zenon, <2>0, <2>2, <2>5, <2>6, <1>PointsKept
  <2>8. \A u \in Waiters(p) : status'[u] = "RUNNABLE"
    BY Zenon, <2>0, <2>2 DEF Waiters, SleepTypes
  <2>9. \A q \in Procs : parent[q] # p => group'[q] = group[q] /\ exit_code'[q] = exit_code[q]
    BY Zenon
  <2>10. \A u \in Threads, q \in Procs : Waker(t, u, q) => parent[q] = p \/ Owner[u] = p
    BY Zenon DEF Waker
  <2>11. raced => raced'
    BY Zenon
  <2>12. OthersSame(t) /\ OthersRest(t) /\ UNCHANGED <<parent, children>> /\ ~(Asleep(t))'
    BY Zenon, <2>2, <2>5
  <2>13. Told'
    BY Zenon, <2>8, <2>9, <2>10, <2>11, <2>12, <1>ToldWakes
  <2> QED BY Zenon, <2>3, <2>7, <2>13 DEF SleepInv

\* The steps of signal_do_stop.
<1>SleepStops.
    ASSUME NEW t \in Threads, StopStep(t)
    PROVE  SleepInv'
  <2> USE <1>SleepStops
  <2>0. SleepTypes /\ Types /\ Owner[t] \in Procs
    BY Zenon, ProcessAssumption DEF SleepInv, ThreadsInv
  <2>1. OthersSame(t) /\ OthersSameOrNew(t)
    <3>1. OthersSame(t)
      BY Zenon, <2>0, StepMovesOne DEF KernelStep
    <3> QED BY Zenon, <3>1 DEF OthersSame, OthersSameOrNew
  <2>2. ~parked[t] /\ pc[t] \in StopPoints
    BY ZenonT(30) DEF StopStep, StopOthers, StopGroup, StopCode, StopWake, StopSet, StopYield, StopResume, At
  <2>3. UNCHANGED <<parent, children, waiting, asked, raced>>
    BY Zenon DEF StopStep, StopOthers, StopGroup, StopCode, StopWake, StopSet, StopYield, StopResume, procVars, histVars
  <2>4. waiting[t] # "child" /\ waiting'[t] # "child"
    BY Zenon, <2>2, <2>3, <1>NotWaiting
  <2>5. asked' \in [Procs -> Codes] /\ raced' \in BOOLEAN
    BY Zenon, <2>0, <2>3 DEF SleepTypes
  <2>6. CASE StopOthers(t)
    <3>1. /\ pc[t] \notin WakerPoints /\ UNCHANGED <<queued, group, exit_code>>
          /\ \E S : wake_up_all(S)
      BY Zenon, <2>6 DEF StopOthers, At, WakerPoints, lockVars
    <3> QED BY Zenon, <2>1, <2>2, <2>3, <2>4, <2>5, <3>1, <1>SleepWakes
  <2>7. CASE StopGroup(t)
    <3>1. /\ Goto(t, "stop_code") /\ pc[t] = "stop_group" /\ UNCHANGED <<status, parked, queued, exit_code>>
          /\ group' = [group EXCEPT ![Owner[t]] = (@ \cup {"STOPPED"}) \ {"CONT"}]
      BY Zenon, <2>7 DEF StopGroup, At
    <3>2. group' \in [Procs -> SUBSET {"STOPPED", "CONT", "EXIT"}]
      BY Zenon, <2>0, <3>1 DEF SleepTypes
    <3>3. SleepTypes'
      BY Zenon, <2>0, <2>5, <3>1, <3>2 DEF SleepTypes
    <3>4. /\ \A q \in Procs \ {Owner[t]} : group'[q] = group[q] /\ exit_code'[q] = exit_code[q]
          /\ Exited(Owner[t]) => (Exited(Owner[t]))'
      BY Zenon, <2>0, <3>1 DEF SleepTypes, Exited
    <3>5. pc'[t] = "stop_code"
      BY Zenon, <2>0, <3>1 DEF Goto, Types
    <3> QED BY ZenonT(30), <2>1, <2>2, <2>3, <2>4, <3>1, <3>3, <3>4, <3>5, <1>SleepWaker
  <2>8. CASE StopCode(t)
    <3>1. /\ Goto(t, "stop_wake") /\ pc[t] = "stop_code" /\ UNCHANGED <<status, parked, queued, group>>
          /\ exit_code' = [exit_code EXCEPT ![Owner[t]] = "STOP"]
      BY Zenon, <2>8 DEF StopCode, At
    <3>2. exit_code' \in [Procs -> Codes]
      BY Zenon, <2>0, <3>1 DEF SleepTypes, Codes
    <3>3. SleepTypes'
      BY Zenon, <2>0, <2>5, <3>1, <3>2 DEF SleepTypes
    <3>4. /\ \A q \in Procs \ {Owner[t]} : group'[q] = group[q] /\ exit_code'[q] = exit_code[q]
          /\ Exited(Owner[t]) => (Exited(Owner[t]))'
      BY Zenon, <2>0, <3>1 DEF SleepTypes, Exited
    <3>5. pc'[t] = "stop_wake"
      BY Zenon, <2>0, <3>1 DEF Goto, Types
    <3> QED BY Zenon, <2>1, <2>2, <2>3, <2>4, <3>1, <3>3, <3>4, <3>5, <1>SleepWaker
  <2>9. CASE StopWake(t)
    <3>1. /\ pc[t] = "stop_wake" /\ wake_up_all(Waiters(parent[Owner[t]]))
          /\ queued' = queued \ Waiters(parent[Owner[t]]) /\ UNCHANGED <<group, exit_code>>
      BY Zenon, <2>9 DEF StopWake, At, sigVars, lockVars
    <3>2. exit_code' \in [Procs -> Codes]
      BY Zenon, <2>0, <3>1 DEF SleepTypes
    <3> QED BY Zenon, <2>1, <2>2, <2>3, <2>4, <3>1, <3>2, <1>SleepTells
  <2>10. CASE StopSet(t) \/ StopResume(t)
    <3>1. /\ pc[t] \notin WakerPoints /\ UNCHANGED <<queued, group, exit_code>>
          /\ UNCHANGED <<status, parked>> \/ set_current_state(t, "STOPPED")
      BY Zenon, <2>10 DEF StopSet, StopResume, At, WakerPoints, sigVars, lockVars
    <3>2. "STOPPED" \in Statuses
      BY Zenon DEF Statuses, Blocked
    <3> QED BY Zenon, <2>1, <2>2, <2>3, <2>4, <2>5, <3>1, <3>2, <1>SleepElsewhere
  <2>11. CASE StopYield(t)
    <3>1. /\ pc[t] \notin WakerPoints /\ UNCHANGED <<queued, group, exit_code>>
          /\ sched_yield(t) /\ Goto(t, "stopped")
      BY Zenon, <2>11 DEF StopYield, At, WakerPoints, sigVars, lockVars
    <3>2. pc'[t] = "stopped" /\ (parked'[t] => status'[t] # "RUNNABLE")
      <4>1. pc'[t] = "stopped"
        BY Zenon, <2>0, <3>1 DEF Goto, Types
      <4>2. status' = status /\ parked'[t] = (status[t] # "RUNNABLE")
        BY Zenon, <2>0, <3>1 DEF sched_yield, SleepTypes
      <4> QED BY Zenon, <4>1, <4>2
    <3>3. (SleepPoint(t))' /\ ~(Asleep(t))'
      BY Zenon, <2>4, <3>2 DEF SleepPoint, Asleep, Announced
    <3> QED BY Zenon, <2>1, <2>3, <2>5, <3>1, <3>3, <1>SleepIdle
  <2> QED BY Zenon, <2>6, <2>7, <2>8, <2>9, <2>10, <2>11 DEF StopStep

\* process_reparent_children gives pid 1 children it was not told of.  If it
\* sleeps, the exit of their parent is going to wake it, as pid 1 is the
\* parent of that one too, or the step is one of the exceptions.
<1>SleepReparent.
    ASSUME NEW t \in Threads, ExitReparent(t)
    PROVE  SleepInv'
  <2> USE <1>SleepReparent
  <2> DEFINE o == Owner[t]
             c == children[o]
             d == children[InitProc]
  <2>0. Types /\ Alone /\ SleepTypes /\ Told /\ \A u \in Threads : SleepPoint(u)
    BY Zenon DEF ThreadsInv, SleepInv
  <2>1. /\ o \in Procs /\ InitProc \in Procs
        /\ \A p \in Procs : Main[p] \in Threads /\ Owner[Main[p]] = p
        /\ \A u \in Threads : Owner[u] \in Procs
    BY Zenon, ProcessAssumption
  <2>2. /\ pc[t] = "exit_reparent" /\ ~parked[t]
        /\ parent' = [q \in Procs |-> IF q \in Members(c) THEN InitProc ELSE parent[q]]
        /\ children' = [children EXCEPT ![InitProc] = @ \o c]
        /\ raced' = (raced \/ (c # <<>> /\ parent[o] # InitProc))
        /\ Goto(t, "exit_dead")
        /\ UNCHANGED <<status, parked, queued, group, exit_code, waiting, target, asked>>
    BY Zenon DEF ExitReparent, At, sigVars, lockVars
  <2>3. t = Main[o] /\ o # InitProc
    BY Zenon, <2>2 DEF ThreadsInv, MainThread, TreeInv, First
  <2>4. OthersSame(t) /\ OthersSameOrNew(t) /\ pc'[t] = "exit_dead"
    <3>1. OthersSame(t) /\ pc'[t] = "exit_dead"
      BY Zenon, <2>0, <2>2, OneMoves
    <3> QED BY Zenon, <3>1 DEF OthersSame, OthersSameOrNew
  <2>5. waiting[t] # "child"
    BY Zenon, <2>2, <1>NotWaiting
  <2>6. raced' \in BOOLEAN /\ (raced => raced')
    BY ZenonT(30), <2>2
  <2>7. SleepTypes' /\ OthersRest(t)
    <3>1. asked' \in [Procs -> Codes]
      BY Zenon, <2>0, <2>2 DEF SleepTypes
    <3> QED BY Zenon, <2>0, <2>2, <2>6, <3>1, <1>SleepTypesAlone, <1>RestAlone
  <2>8. (SleepPoint(t))' /\ ~(Asleep(t))'
    BY Zenon, <2>2, <2>5 DEF SleepPoint, Asleep, Announced
  <2>9. \A u \in Threads : (SleepPoint(u))'
    BY Zenon, <2>0, <2>4, <2>7, <2>8, <1>PointsKept
  <2>10. ~Past(o) /\ ~Past(InitProc)
    BY Zenon, <2>2, <2>3 DEF Past, TreeInv, First
  <2>11. /\ c \in Seq(Procs) /\ Distinct(c) /\ d \in Seq(Procs) /\ Distinct(d)
         /\ \A x \in Members(c) : parent[x] = o
         /\ \A x \in Members(d) : parent[x] = InitProc
    BY ZenonT(30), <2>0, <2>1, <2>10 DEF Types, TreeInv, Children
  <2>12. /\ Members(children'[InitProc]) = Members(d) \cup Members(c)
         /\ \A p \in Procs \ {InitProc} : children'[p] = children[p]
    <3>1. children'[InitProc] = d \o c /\ \A p \in Procs \ {InitProc} : children'[p] = children[p]
      BY ZenonT(30), <2>0, <2>1, <2>2 DEF Types
    <3>2. Members(d) \cap Members(c) = {}
      BY Zenon, <2>3, <2>11
    <3>3. Members(d \o c) = Members(d) \cup Members(c)
      BY SMTT(20), <2>11, <3>2, Splice
    <3> QED BY Zenon, <3>1, <3>3
  <2>13. ASSUME NEW u \in Threads, (Asleep(u))', ~raced',
                NEW q \in Members(children'[Owner[u]]), (Collectable(u, q))'
         PROVE  \/ \E w \in Threads : (Waker(w, u, q))'
                \/ /\ Asleep(u) /\ q \in Members(children[Owner[u]]) /\ Collectable(u, q)
                   /\ \A v \in Threads : Waker(v, u, q) => \E w \in Threads : (Waker(w, u, q))'
    <3>1. u # t /\ Asleep(u)
      BY Zenon, <2>4, <2>7, <2>8, <2>13, <1>NoNewSleeper
    <3>2. Owner[u] # o
      <4>1. Active(u)
        BY Zenon, <3>1 DEF Asleep, Announced, Active
      <4> QED BY Zenon, <2>0, <2>2, <3>1, <4>1 DEF Alone
    <3>3. Collectable(u, q)
      BY Zenon, <2>2, <2>13 DEF Collectable, Exited, Stopped, Continued
    <3>4. CASE q \in Members(children[Owner[u]])
      <4>1. ASSUME NEW v \in Threads, Waker(v, u, q)
            PROVE  (Waker(v, u, q))'
        <5>1. CASE v = t
          BY Zenon, <2>2, <2>4, <4>1, <5>1 DEF Waker
        <5>2. CASE v # t
          <6>1. pc'[v] = pc[v] /\ ((Exited(q))' = Exited(q))
            BY Zenon, <2>2, <2>4, <5>2 DEF OthersSame, Exited
          <6>2. parent[Owner[v]] = Owner[u] => parent'[Owner[v]] = Owner[u]
            BY Zenon, <2>1, <2>2, <2>11, <3>2
          <6> QED BY Zenon, <4>1, <6>1, <6>2 DEF Waker
        <5> QED BY Zenon, <5>1, <5>2
      <4> QED BY Zenon, <3>1, <3>3, <3>4, <4>1
    <3>5. CASE q \notin Members(children[Owner[u]])
      <4>1. Owner[u] = InitProc /\ q \in Members(c)
        BY Zenon, <2>1, <2>12, <2>13, <3>5
      <4>2. c # <<>>
        BY <4>1 DEF Members
      <4>3. parent[o] = InitProc
        BY Zenon, <2>2, <2>13, <4>2
      <4>4. parent'[o] = InitProc
        BY Zenon, <2>1, <2>2, <4>3
      <4>5. (Waker(t, u, q))'
        BY Zenon, <2>4, <4>1, <4>4 DEF Waker
      <4> QED BY Zenon, <4>5
    <3> QED BY Zenon, <3>4, <3>5
  <2>14. Told'
    <3>1. raced \in BOOLEAN
      BY Zenon, <2>0 DEF SleepTypes
    <3> QED BY Zenon, <2>0, <2>6, <2>13, <3>1, <1>ToldFrame
  <2> QED BY Zenon, <2>7, <2>9, <2>14 DEF SleepInv

\* A thread that leaves the processor DEAD does not wait for a child.
<1>SleepGone.
    ASSUME NEW t \in Threads, waiting[t] # "child", Destroy(t), UNCHANGED <<waiting, queued>>
    PROVE  (SleepPoint(t))' /\ ~(Asleep(t))'
  <2> USE <1>SleepGone
  <2>1. pc'[t] = "gone" /\ status'[t] = "DEAD"
    BY Zenon DEF Destroy, Goto, ThreadsInv, Types, SleepInv, SleepTypes
  <2> QED BY Zenon, <2>1 DEF SleepPoint, Asleep, Announced

\* A thread preempted before it wakes the parent is one of the exceptions.
<1>SleepPreempt.
    ASSUME NEW t \in Threads, Preempt(t)
    PROVE  SleepInv'
  <2> USE <1>SleepPreempt
  <2>0. Types /\ SleepTypes /\ \A u \in Threads : SleepPoint(u)
    BY Zenon DEF ThreadsInv, SleepInv
  <2>1. /\ pc[t] = "exit_code" /\ Destroy(t) /\ raced' = TRUE
        /\ UNCHANGED <<waiting, queued, group, exit_code, asked>>
    BY Zenon DEF Preempt, At, sigVars, lockVars
  <2>2. OthersSameOrNew(t)
    BY Zenon, <2>0, StepMovesOne DEF OthersSame, OthersSameOrNew
  <2>3. (SleepPoint(t))'
    BY Zenon, <2>1, <1>NotWaiting, <1>SleepGone
  <2>4. SleepTypes'
    <3>1. asked' \in [Procs -> Codes]
      BY Zenon, <2>0, <2>1 DEF SleepTypes
    <3> QED BY Zenon, <2>0, <2>1, <3>1, <1>SleepTypesAlone
  <2>5. OthersRest(t)
    BY Zenon, <2>0, <2>1, <1>RestAlone
  <2>6. \A u \in Threads : (SleepPoint(u))'
    BY Zenon, <2>0, <2>2, <2>3, <2>5, <1>PointsKept
  <2>7. Told'
    BY Zenon, <2>1 DEF Told
  <2> QED BY Zenon, <2>4, <2>6, <2>7 DEF SleepInv

\* The steps of thread_exit, process_exit and execve.
<1>SleepExits.
    ASSUME NEW t \in Threads, ExitStep(t)
    PROVE  SleepInv'
  <2> USE <1>SleepExits
  <2>0. SleepTypes /\ Types /\ Owner[t] \in Procs
    BY Zenon, ProcessAssumption DEF SleepInv, ThreadsInv
  <2>1. OthersSame(t) /\ OthersSameOrNew(t)
    <3>1. OthersSame(t)
      BY ZenonT(30), <2>0, StepMovesOne DEF KernelStep
    <3> QED BY Zenon, <3>1 DEF OthersSame, OthersSameOrNew
  <2>2. ~parked[t] /\ pc[t] \in MainPoints \cup {"thread_exit"}
    BY Zenon DEF ExitStep, ThreadExit, ExitKill, ExitAlone, ExecAlone, VforkDone, VforkWake, VforkMayExit,
           ExitReparent, ExitDead, ExitCode, ExitYield, At
  <2>3. ASSUME ~ExitReparent(t)
        PROVE  UNCHANGED <<parent, children, waiting, asked, raced>>
    BY Zenon, <2>3 DEF ExitStep, ThreadExit, ExitKill, KillOthers, ExitAlone, ExecAlone, VforkDone, VforkWake,
                VforkMayExit, ExitDead, ExitCode, ExitYield, procVars, histVars
  <2>4. waiting[t] # "child"
    BY Zenon, <2>2, <1>NotWaiting
  <2>5. ASSUME ~ExitReparent(t)
        PROVE  waiting'[t] # "child" /\ asked' \in [Procs -> Codes] /\ raced' \in BOOLEAN
    BY Zenon, <2>0, <2>3, <2>4, <2>5 DEF SleepTypes
  <2>6. CASE ThreadExit(t) \/ ExitYield(t)
    <3>1. /\ pc[t] \notin WakerPoints /\ Destroy(t) /\ UNCHANGED <<queued, group, exit_code>> /\ ~ExitReparent(t)
      BY ZenonT(30), <2>6 DEF ThreadExit, ExitYield, ExitReparent, At, WakerPoints, sigVars, lockVars
    <3>2. (SleepPoint(t))' /\ ~(Asleep(t))'
      BY Zenon, <2>3, <2>4, <3>1, <1>SleepGone
    <3> QED BY Zenon, <2>1, <2>3, <2>5, <3>1, <3>2, <1>SleepIdle
  <2>7. CASE ExitKill(t)
    <3>1. /\ pc[t] \notin WakerPoints /\ UNCHANGED <<queued, group, exit_code>> /\ ~ExitReparent(t)
          /\ \E S : wake_up_all(S)
      BY Zenon, <2>7 DEF ExitKill, KillOthers, ExitReparent, At, WakerPoints, lockVars
    <3> QED BY <2>1, <2>2, <2>3, <2>5, <3>1, <1>SleepWakes
  <2>8. CASE ExitAlone(t)
    <3>1. /\ pc[t] = "exit_spin" /\ UNCHANGED <<status, parked, queued, exit_code>> /\ ~ExitReparent(t)
          /\ group' = [group EXCEPT ![Owner[t]] = @ \cup {"EXIT"}]
          /\ Goto(t, IF vfork_compl[Owner[t]] THEN "vfork_done" ELSE "exit_reparent")
      BY Zenon, <2>8 DEF ExitAlone, ExitReparent, At
    <3>2. group' \in [Procs -> SUBSET {"STOPPED", "CONT", "EXIT"}]
      BY Zenon, <2>0, <3>1 DEF SleepTypes
    <3>3. SleepTypes'
      BY Zenon, <2>0, <2>5, <3>1, <3>2 DEF SleepTypes
    <3>4. /\ \A q \in Procs \ {Owner[t]} : group'[q] = group[q] /\ exit_code'[q] = exit_code[q]
          /\ (Exited(Owner[t]))'
      BY Zenon, <2>0, <3>1 DEF SleepTypes, Exited
    <3>5. pc'[t] \in {"vfork_done", "exit_reparent"}
      BY Zenon, <2>0, <3>1 DEF Goto, Types
    <3> QED BY Zenon, <2>1, <2>2, <2>3, <2>5, <3>1, <3>3, <3>4, <3>5, <1>SleepWaker
  <2>9. CASE ExecAlone(t)
    <3>1. pc[t] \notin WakerPoints /\ UNCHANGED <<status, parked, queued, group, exit_code>> /\ ~ExitReparent(t)
      BY ZenonT(30), <2>9 DEF ExecAlone, ExitReparent, At, WakerPoints, sigVars, lockVars
    <3> QED BY Zenon, <2>1, <2>2, <2>3, <2>5, <3>1, <1>SleepElsewhere
  <2>10. CASE VforkDone(t) \/ VforkWake(t) \/ VforkMayExit(t)
    <3>1. /\ pc[t] \in VforkPoints /\ ~ExitReparent(t) /\ UNCHANGED <<group, exit_code>>
          /\ pc'[t] \in {"vfork_wake", "vfork_may_exit"} \/ pc'[t] = IF Exited(Owner[t]) THEN "exit_reparent" ELSE "exit"
      BY ZenonT(30), <2>0, <2>10 DEF VforkDone, VforkWake, VforkMayExit, ExitReparent, At, Goto, Types, Exited, sigVars, lockVars
    <3>2. \/ UNCHANGED <<status, parked, queued>>
          \/ wake_up_all(VforkWaiters(Owner[t])) /\ queued' = queued \ VforkWaiters(Owner[t])
      BY Zenon, <2>10 DEF VforkDone, VforkWake, VforkMayExit
    <3>3. \/ UNCHANGED <<status, parked, queued>>
          \/ \E S : /\ wake_up_all(S) /\ queued' = queued \ S
                    /\ \A u \in queued \ queued' : status'[u] = "RUNNABLE" /\ ~parked'[u]
                    /\ status' \in [Threads -> Statuses] /\ parked' \in [Threads -> BOOLEAN]
      <4>1. ASSUME NEW S, wake_up_all(S), queued' = queued \ S
            PROVE  /\ \A u \in queued \ queued' : status'[u] = "RUNNABLE" /\ ~parked'[u]
                   /\ status' \in [Threads -> Statuses] /\ parked' \in [Threads -> BOOLEAN]
        <5>1. /\ \A u \in S \cap Threads : status'[u] = "RUNNABLE" /\ ~parked'[u]
              /\ status' \in [Threads -> Statuses] /\ parked' \in [Threads -> BOOLEAN]
          BY Zenon, <2>0, <4>1, <1>RestWake
        <5> QED BY Zenon, <2>0, <4>1, <5>1 DEF SleepTypes
      <4> QED BY Zenon, <3>2, <4>1
    <3>4. CASE Exited(Owner[t])
      <4>1. (Exited(Owner[t]))'
        BY Zenon, <3>1, <3>4 DEF Exited
      <4>2. SleepTypes'
        BY Zenon, <2>0, <2>5, <3>1, <3>3 DEF SleepTypes
      <4>3. /\ UNCHANGED <<status, parked>> \/ (\E s : set_current_state(t, s)) \/ \E S : wake_up_all(S)
            /\ queued' \subseteq queued
            /\ \A u \in queued \ queued' : u # t => status'[u] = "RUNNABLE" /\ ~parked'[u]
        BY Zenon, <3>3
      <4> QED BY Zenon, <2>1, <2>2, <2>3, <2>5, <3>1, <3>4, <4>1, <4>2, <4>3, <1>SleepWaker
    <3>5. CASE ~Exited(Owner[t]) /\ UNCHANGED <<status, parked, queued>>
      BY Zenon, <2>1, <2>2, <2>3, <2>5, <3>1, <3>5, <1>SleepElsewhere
    <3>6. ASSUME ~Exited(Owner[t]), NEW S, wake_up_all(S), queued' = queued \ S
          PROVE  SleepInv'
      <4>1. queued' \subseteq queued /\ \A u \in queued : u \in queued' \/ u \in S
        BY Zenon, <3>6
      <4> QED BY <2>1, <2>2, <2>3, <2>5, <3>1, <3>6, <4>1, <1>SleepWakes
    <3> QED BY Zenon, <3>3, <3>4, <3>5, <3>6
  <2>11. CASE ExitReparent(t)
    BY Zenon, <2>11, <1>SleepReparent
  <2>12. CASE ExitDead(t)
    <3>1. /\ pc[t] = "exit_dead" /\ UNCHANGED <<queued, group, exit_code>> /\ ~ExitReparent(t)
          /\ set_current_state(t, "DEAD") /\ Goto(t, "exit_code")
      BY Zenon, <2>12 DEF ExitDead, ExitReparent, At, sigVars, lockVars
    <3>2. SleepTypes'
      BY Zenon, <2>0, <2>5, <3>1, <1>SleepTypesAlone DEF Statuses
    <3>3. pc'[t] = "exit_code" /\ (Exited(Owner[t]) => (Exited(Owner[t]))')
      BY Zenon, <2>0, <3>1 DEF Goto, Types, Exited
    <3> QED BY Zenon, <2>1, <2>2, <2>3, <2>5, <3>1, <3>2, <3>3, <1>SleepWaker
  <2>13. CASE ExitCode(t)
    <3>1. /\ pc[t] = "exit_code" /\ wake_up_all(Waiters(parent[Owner[t]])) /\ ~ExitReparent(t)
          /\ queued' = queued \ Waiters(parent[Owner[t]]) /\ UNCHANGED group
          /\ exit_code' = [exit_code EXCEPT ![Owner[t]] = asked[Owner[t]]]
      BY Zenon, <2>13 DEF ExitCode, ExitReparent, At
    <3>2. exit_code' \in [Procs -> Codes] /\ \A q \in Procs \ {Owner[t]} : exit_code'[q] = exit_code[q]
      BY Zenon, <2>0, <3>1 DEF SleepTypes
    <3> QED BY Zenon, <2>1, <2>2, <2>3, <2>5, <3>1, <3>2, <1>SleepTells
  <2> QED BY Zenon, <2>6, <2>7, <2>8, <2>9, <2>10, <2>11, <2>12, <2>13 DEF ExitStep

\* wait4 collects: there is less to collect than before.
<1>SleepCollect.
    ASSUME NEW t \in Threads, NEW c \in Procs, Collect(t, c)
    PROVE  SleepInv'
  <2> USE <1>SleepCollect
  <2>0. SleepTypes /\ Types /\ Told /\ \A u \in Threads : SleepPoint(u)
    BY Zenon DEF SleepInv, ThreadsInv
  <2>1. /\ pc[t] \in {"wait_first", "wait_look"} /\ ~parked[t] /\ waiting[t] = "child"
        /\ UNCHANGED <<status, parked, queued, parent, children, waiting, asked, raced>>
    BY Zenon DEF Collect, At, Found
  <2>2. OthersSame(t) /\ OthersSameOrNew(t)
    <3>1. OthersSame(t)
      BY Zenon, <2>0, StepMovesOne DEF KernelStep, WaitStep
    <3> QED BY Zenon, <3>1 DEF OthersSame, OthersSameOrNew
  <2>3. pc'[t] \in {"wait_out", "reap_unlink"}
    <3>1. AfterPut(t) = "wait_out"
      BY Zenon, <2>1 DEF AfterPut
    <3> QED BY Zenon, <2>0, <3>1 DEF Collect, process_put, Goto, Types
  <2>4. /\ group' \in [Procs -> SUBSET {"STOPPED", "CONT", "EXIT"}] /\ exit_code' \in [Procs -> Codes]
        /\ \A q \in Procs : Exited(q) <=> (Exited(q))'
        /\ \A q \in Procs : group'[q] \subseteq group[q] /\ exit_code'[q] \in {exit_code[q], "0"}
    <3>1. CASE UNCHANGED <<group, exit_code>>
      BY Zenon, <2>0, <3>1 DEF SleepTypes, Exited
    <3>2. CASE exit_code' = [exit_code EXCEPT ![c] = "0"] /\ UNCHANGED group
      BY Zenon, <2>0, <3>2 DEF SleepTypes, Exited, Codes
    <3>3. CASE group' = [group EXCEPT ![c] = @ \ {"CONT"}] /\ UNCHANGED exit_code
      BY Zenon, <2>0, <3>3 DEF SleepTypes, Exited
    <3> QED BY Zenon, <3>1, <3>2, <3>3 DEF Collect
  <2>5. SleepTypes'
    BY Zenon, <2>0, <2>1, <2>4 DEF SleepTypes
  <2>6. (SleepPoint(t))' /\ ~(Asleep(t))'
    BY Zenon, <2>1, <2>3 DEF SleepPoint, Asleep, Announced
  <2>7. OthersRest(t)
    BY Zenon, <2>0, <2>1, <1>RestAlone
  <2>8. \A u \in Threads : (SleepPoint(u))'
    BY Zenon, <2>0, <2>2, <2>6, <2>7, <1>PointsKept
  <2>9. ASSUME NEW u \in Threads, NEW q \in Members(children[Owner[u]])
        PROVE  ((Collectable(u, q))' => Collectable(u, q)) /\ (Exited(q) => (Exited(q))') /\ ~Waker(t, u, q)
    <3>1. q \in Procs
      BY Zenon, <2>0, ChildrenAreProcs
    <3>2. (Collectable(u, q))' => Collectable(u, q)
      BY Zenon, <2>4, <3>1 DEF Collectable, Stopped, Continued
    <3>3. ~Waker(t, u, q)
      BY Zenon, <2>1 DEF Waker
    <3> QED BY Zenon, <2>4, <3>1, <3>2, <3>3
  <2>10. /\ \A p \in Procs : Members(children'[p]) \subseteq Members(children[p])
         /\ (raced => raced') /\ parent' = parent
    BY Zenon, <2>1
  <2>11. Told'
    BY Zenon, <2>0, <2>2, <2>6, <2>7, <2>9, <2>10, <1>ToldQuiet
  <2> QED BY Zenon, <2>5, <2>8, <2>11 DEF SleepInv

\* process_end leaves the parent fewer children.
<1>SleepUnlink.
    ASSUME NEW t \in Threads, ReapUnlink(t)
    PROVE  SleepInv'
  <2> USE <1>SleepUnlink
  <2>0. SleepTypes /\ Types /\ Told /\ \A u \in Threads : SleepPoint(u)
    BY Zenon DEF SleepInv, ThreadsInv
  <2>1. /\ pc[t] = "reap_unlink" /\ ~parked[t] /\ Goto(t, "reap_spin")
        /\ children' = [children EXCEPT ![parent[target[t]]] = list_remove(@, target[t])]
        /\ UNCHANGED <<status, parked, queued, parent, waiting, asked, raced, group, exit_code>>
    BY Zenon DEF ReapUnlink, At, sigVars, lockVars, histVars
  <2>2. OthersSameOrNew(t) /\ pc'[t] = "reap_spin"
    <3>1. OthersSame(t)
      BY Zenon, <2>0, StepMovesOne DEF KernelStep, WaitStep
    <3> QED BY Zenon, <2>0, <2>1, <3>1 DEF OthersSame, OthersSameOrNew, Goto, Types
  <2>3. SleepTypes'
    BY Zenon, <2>0, <2>1 DEF SleepTypes
  <2>4. (SleepPoint(t))' /\ ~(Asleep(t))'
    BY Zenon, <2>1, <2>2 DEF SleepPoint, Asleep, Announced
  <2>5. OthersRest(t)
    BY Zenon, <2>0, <2>1, <1>RestAlone
  <2>6. \A u \in Threads : (SleepPoint(u))'
    BY Zenon, <2>0, <2>2, <2>4, <2>5, <1>PointsKept
  <2>7. \A u \in Threads : \A q :
          (Collectable(u, q))' = Collectable(u, q) /\ (Exited(q))' = Exited(q) /\ ~Waker(t, u, q)
    BY Zenon, <2>1 DEF Collectable, Exited, Stopped, Continued, Waker
  <2>8. ASSUME NEW p \in Procs PROVE Members(children'[p]) \subseteq Members(children[p])
    <3>1. PICK q : q = target[t]
      BY Zenon
    <3>2. q \in Procs /\ parent[q] = Owner[t] /\ Owner[t] \in Procs /\ ~Past(Owner[t])
      <4>1. Holds(t) /\ Active(t)
        BY Zenon, <2>1 DEF Holds, Active
      <4>2. q \in Procs /\ parent[q] = Owner[t]
        BY Zenon, <3>1, <4>1 DEF TreeInv, Holders
      <4> QED BY Zenon, <2>1, <4>1, <4>2, NotPast
    <3>3. Distinct(children[Owner[t]]) /\ children[Owner[t]] \in Seq(Procs)
      BY ZenonT(30), <2>0, <3>2 DEF TreeInv, Children, Types
    <3>4. Members(list_remove(children[Owner[t]], q)) \subseteq Members(children[Owner[t]])
      BY Zenon, <3>3, RemoveSubset
    <3>5. children'[p] = IF p = Owner[t] THEN list_remove(children[p], q) ELSE children[p]
      BY ZenonT(30), <2>0, <2>1, <3>1, <3>2 DEF Types
    <3> QED BY Zenon, <3>4, <3>5
  <2>9. Told'
    BY ZenonT(30), <2>0, <2>1, <2>2, <2>4, <2>5, <2>7, <2>8, <1>ToldQuiet
  <2> QED BY Zenon, <2>3, <2>6, <2>9 DEF SleepInv

\* The last look of wait4 before it sleeps finds nothing.
<1>SleepLook.
    ASSUME NEW t \in Threads, WaitLook(t)
    PROVE  SleepInv'
  <2> USE <1>SleepLook
  <2>0. SleepTypes /\ Types /\ Told /\ \A u \in Threads : SleepPoint(u)
    BY Zenon DEF SleepInv, ThreadsInv
  <2>1. /\ pc[t] = "wait_look" /\ ~parked[t] /\ NothingFound(t)
        /\ UNCHANGED <<status, parked, queued, parent, children, waiting, asked, raced, group, exit_code>>
    BY Zenon DEF WaitLook, At, procVars, sigVars, lockVars, histVars
  <2>2. pc'[t] \in {"wait_out", "wait_sleep"}
    BY Zenon, <2>0 DEF WaitLook, Goto, Types
  <2>3. OthersSame(t) /\ OthersSameOrNew(t)
    <3>1. OthersSame(t)
      BY Zenon, <2>0, StepMovesOne DEF KernelStep, WaitStep
    <3> QED BY Zenon, <3>1 DEF OthersSame, OthersSameOrNew
  <2>4. SleepTypes'
    BY Zenon, <2>0, <2>1 DEF SleepTypes
  <2>5. OthersRest(t)
    BY Zenon, <2>0, <2>1, <1>RestAlone
  <2>6. (SleepPoint(t))'
    BY Zenon, <2>0, <2>1, <2>2 DEF SleepPoint, Announced
  <2>7. \A u \in Threads : (SleepPoint(u))'
    BY Zenon, <2>0, <2>3, <2>5, <2>6, <1>PointsKept
  <2>8. ASSUME NEW u \in Threads, (Asleep(u))', ~raced',
               NEW q \in Members(children'[Owner[u]]), (Collectable(u, q))'
        PROVE  /\ Asleep(u) /\ q \in Members(children[Owner[u]]) /\ Collectable(u, q)
               /\ \A v \in Threads : Waker(v, u, q) => \E w \in Threads : (Waker(w, u, q))'
    <3>1. q \in Members(children[Owner[u]]) /\ Collectable(u, q)
      BY Zenon, <2>1, <2>8 DEF Collectable, Exited, Stopped, Continued
    <3>2. u # t
      <4>1. ASSUME u = t PROVE FALSE
        <5>1. waiting[t] = "child"
          BY Zenon, <2>1, <2>8, <4>1 DEF Asleep, Announced
        <5> QED BY Zenon, <2>1, <3>1, <4>1, <5>1 DEF NothingFound
      <4> QED BY Zenon, <4>1
    <3>3. Asleep(u)
      BY Zenon, <2>3, <2>5, <2>8, <3>2, <1>NoNewSleeper
    <3>4. ASSUME NEW v \in Threads, Waker(v, u, q) PROVE (Waker(v, u, q))'
      <4>1. v # t
        BY Zenon, <2>1, <3>4 DEF Waker
      <4> QED BY Zenon, <2>1, <2>3, <3>4, <4>1 DEF Waker, OthersSame, Exited
    <3> QED BY Zenon, <3>1, <3>3, <3>4
  <2>9. Told'
    <3>1. raced \in BOOLEAN /\ (raced => raced')
      BY Zenon, <2>0, <2>1 DEF SleepTypes
    <3> QED BY ZenonT(30), <2>0, <2>8, <3>1, <1>ToldFrame
  <2> QED BY Zenon, <2>4, <2>7, <2>9 DEF SleepInv

\* The steps of wait_for_event, wait4 and process_end.
<1>SleepWaits.
    ASSUME NEW t \in Threads, WaitStep(t)
    PROVE  SleepInv'
  <2> USE <1>SleepWaits
  <2>0. SleepTypes /\ Types
    BY Zenon DEF SleepInv, ThreadsInv
  <2>1. OthersSameOrNew(t)
    BY Zenon, <2>0, StepMovesOne DEF KernelStep, OthersSame, OthersSameOrNew
  <2>2. ASSUME NEW q \in Procs, Collect(t, q) PROVE SleepInv'
    BY Zenon, <2>2, <1>SleepCollect
  <2>3. CASE ReapUnlink(t)
    BY Zenon, <2>3, <1>SleepUnlink
  <2>4. CASE WaitLook(t)
    BY ZenonT(30), <2>4, <1>SleepLook
  <2>5. ASSUME \/ ReapFree(t) \/ WaitFirst(t) \/ WaitAdd(t) \/ WaitSleep(t) \/ WaitWoken(t)
               \/ WaitOut(t) \/ WaitLeave(t) \/ WaitToExit(t)
        PROVE  /\ UNCHANGED <<group, exit_code, parent, children, raced>> /\ asked' \in [Procs -> Codes]
               /\ pc[t] \in WaitPoints \cup {"reap_spin", "wait_to_exit"} /\ ~parked[t]
               /\ pc[t] \notin WakerPoints
    BY ZenonT(30), <2>0, <2>5 DEF ReapFree, WaitFirst, WaitAdd, WaitSleep, WaitWoken, WaitOut, WaitLeave,
                      WaitToExit, At,
                      WakerPoints, SleepTypes, procVars, sigVars, lockVars, histVars
  <2>6. CASE ReapFree(t) \/ WaitToExit(t)
    <3>1. UNCHANGED <<status, parked, queued, waiting>>
      BY Zenon, <2>6 DEF ReapFree, WaitToExit
    <3>2. waiting'[t] = "child" => pc'[t] = "wait_out"
      <4>1. CASE ReapFree(t)
        BY Zenon, <2>0, <3>1, <4>1 DEF ReapFree, AfterPut, Goto, Types
      <4>2. CASE WaitToExit(t)
        <5>1. pc[t] = "wait_to_exit"
          BY Zenon, <4>2 DEF WaitToExit, At
        <5> QED BY Zenon, <3>1, <5>1, <1>NotWaiting
      <4> QED BY Zenon, <2>6, <4>1, <4>2
    <3> QED BY ZenonT(30), <2>1, <2>5, <2>6, <3>1, <3>2, <1>SleepElsewhere
  <2>7. CASE WaitFirst(t)
    <3>1. /\ pc'[t] \in {"wait_out", "wait_add"} /\ queued' = queued
          /\ UNCHANGED <<status, parked>> \/ set_current_state(t, SleepState(t))
      BY Zenon, <2>0, <2>7 DEF WaitFirst, Goto, Types
    <3>2. SleepState(t) \in Statuses
      BY Zenon DEF SleepState, Statuses, Blocked
    <3> QED BY Zenon, <2>1, <2>5, <2>7, <3>1, <3>2, <1>SleepElsewhere
  <2>8. CASE WaitAdd(t)
    <3>1. /\ pc'[t] = "wait_look" /\ queued' = queued \cup {t} /\ UNCHANGED <<status, parked>>
      BY Zenon, <2>0, <2>8 DEF WaitAdd, Goto, Types
    <3>2. (SleepPoint(t))' /\ ~(Asleep(t))'
      BY Zenon, <2>5, <2>8, <3>1 DEF SleepPoint, Asleep, Announced
    <3> QED BY Zenon, <2>1, <2>5, <2>8, <3>1, <3>2, <1>SleepIdle
  <2>9. CASE WaitSleep(t)
    <3>1. /\ pc[t] = "wait_sleep" /\ pc'[t] = "wait_woken" /\ sched_yield(t) /\ UNCHANGED <<queued, waiting>>
      BY Zenon, <2>0, <2>9 DEF WaitSleep, At, Goto, Types
    <3>2. status' = status /\ (parked'[t] = (status[t] # "RUNNABLE"))
      BY Zenon, <2>0, <3>1 DEF sched_yield, SleepTypes
    <3>3. Announced(t) => t \in queued
      BY Zenon DEF SleepInv, SleepPoint
    <3>4. parked'[t] => status'[t] # "RUNNABLE"
      BY Zenon, <3>2
    <3>5. (SleepPoint(t))' /\ ((Asleep(t))' => Asleep(t))
      BY Zenon, <3>1, <3>2, <3>3, <3>4 DEF SleepPoint, Asleep, Announced
    <3> QED BY Zenon, <2>1, <2>5, <2>9, <3>1, <3>5, <1>SleepIdle
  <2>10. CASE WaitWoken(t)
    <3>1. /\ pc'[t] = "wait_add" /\ queued' = queued \ {t} /\ UNCHANGED <<status, parked>>
      BY Zenon, <2>0, <2>10 DEF WaitWoken, Goto, Types
    <3> QED BY Zenon, <2>1, <2>5, <2>10, <3>1, <1>SleepElsewhere
  <2>11. CASE WaitOut(t)
    <3>1. /\ pc'[t] = "wait_leave" /\ queued' = queued \ {t} /\ UNCHANGED <<status, parked>>
      BY Zenon, <2>0, <2>11 DEF WaitOut, Goto, Types
    <3> QED BY Zenon, <2>1, <2>5, <2>11, <3>1, <1>SleepElsewhere
  <2>12. CASE WaitLeave(t)
    <3>1. /\ waiting'[t] = "nothing" /\ queued' = queued /\ set_current_state(t, "RUNNABLE")
      BY Zenon, <2>0, <2>12 DEF WaitLeave, Types
    <3>2. "RUNNABLE" \in Statuses
      BY Zenon DEF Statuses
    <3> QED BY Zenon, <2>1, <2>5, <2>12, <3>1, <3>2, <1>SleepElsewhere
  <2> QED BY Zenon, <2>2, <2>3, <2>4, <2>6, <2>7, <2>8, <2>9, <2>10, <2>11, <2>12 DEF WaitStep

\* A reschedule inside the macro puts a thread to sleep that has looked only
\* once, or needs not look again.
<1>SleepResched.
    ASSUME NEW t \in Threads, Resched(t)
    PROVE  SleepInv'
  <2> USE <1>SleepResched
  <2>0. SleepTypes /\ Types
    BY Zenon DEF SleepInv, ThreadsInv
  <2>1. /\ pc[t] \in Unlocked /\ ~parked[t] /\ status[t] # "RUNNABLE" /\ sched_yield(t)
        /\ UNCHANGED <<pc, waiting, queued, target, asked, group, exit_code, parent, children, raced>>
    BY Zenon DEF Resched, procVars, sigVars, lockVars, histVars
  <2>2. OthersSameOrNew(t) /\ status' = status /\ asked' \in [Procs -> Codes]
    BY Zenon, <2>0, <2>1 DEF OthersSameOrNew, sched_yield, SleepTypes
  <2>3. SleepPoint(t) /\ pc[t] \notin WakerPoints /\ ~Asleep(t)
    BY Zenon, <2>1 DEF SleepInv, Unlocked, WakerPoints, VforkPoints, Asleep, Announced
  <2>4. (SleepPoint(t))' /\ ~(Asleep(t))'
    BY Zenon, <2>1, <2>2, <2>3 DEF SleepPoint, Asleep, Announced
  <2> QED BY Zenon, <2>1, <2>2, <2>3, <2>4, <1>SleepIdle

\* process_put, kernel_tkill and handle_signal.
<1>SleepKernel.
    ASSUME NEW t \in Threads,
           ForkPut(t) \/ QueueSignal(t) \/ ReturnToUser(t) \/ HandleSignal(t)
    PROVE  SleepInv'
  <2> USE <1>SleepKernel
  <2>0. SleepTypes /\ Types
    BY Zenon DEF SleepInv, ThreadsInv
  <2>1. OthersSameOrNew(t)
    BY Zenon, <2>0, StepMovesOne DEF KernelStep, OthersSame, OthersSameOrNew
  <2>2. /\ pc[t] \in {"fork_put", "tkill", "exit", "sigloop", "user"} /\ ~parked[t]
        /\ UNCHANGED <<waiting, queued, group, exit_code, parent, children>>
    BY Zenon DEF ForkPut, QueueSignal, ReturnToUser, HandleSignal, At, procVars, sigVars, lockVars
  <2>3. pc[t] \notin WakerPoints /\ waiting'[t] # "child"
    BY Zenon, <2>2, <1>NotWaiting DEF WakerPoints
  <2>4. CASE ForkPut(t) \/ ReturnToUser(t) \/ HandleSignal(t)
    <3>1. UNCHANGED <<status, parked, raced>>
      BY Zenon, <2>4 DEF ForkPut, ReturnToUser, HandleSignal, histVars
    <3>2. asked' = asked \/ asked' = [asked EXCEPT ![Owner[t]] = "KILL"]
      <4>1. CASE ForkPut(t) \/ ReturnToUser(t)
        BY Zenon, <4>1 DEF ForkPut, ReturnToUser, histVars
      <4>2. CASE HandleSignal(t)
        <5>1. sflags[t] \in SUBSET {"STOPPING", "EXITING"} /\ pending[t] \in SUBSET {"STOP", "KILL"}
          BY Zenon, <2>0 DEF Types
        <5> QED BY ZenonT(30), <4>2, <5>1, SignalWays DEF HandleSignal
      <4> QED BY Zenon, <2>4, <4>1, <4>2
    <3>3. asked' \in [Procs -> Codes]
      BY Zenon, <2>0, <3>2 DEF SleepTypes, Codes
    <3> QED BY Zenon, <2>1, <2>2, <2>3, <3>1, <3>3, <1>SleepElsewhere
  <2>5. CASE QueueSignal(t)
    <3>1. UNCHANGED asked
      BY Zenon, <2>5 DEF QueueSignal
    <3>2. \/ UNCHANGED <<status, parked, raced>>
          \/ (\E S : wake_up_all(S)) /\ raced' \in BOOLEAN /\ (raced => raced')
      BY ZenonT(30), <2>5 DEF QueueSignal
    <3>3. asked' \in [Procs -> Codes]
      BY Zenon, <2>0, <3>1 DEF SleepTypes
    <3>4. CASE UNCHANGED <<status, parked, raced>>
      BY Zenon, <2>1, <2>2, <2>3, <3>3, <3>4, <1>SleepElsewhere
    <3>5. ASSUME NEW S, wake_up_all(S), raced' \in BOOLEAN, raced => raced' PROVE SleepInv'
      BY Zenon, <2>1, <2>2, <2>3, <3>1, <3>5, <1>SleepWakes
    <3> QED BY Zenon, <3>2, <3>4, <3>5
  <2> QED BY Zenon, <2>4, <2>5

\* The steps of Next.
<1> SUFFICES ASSUME [Next]_vars PROVE SleepInv'
  BY Zenon
<1>1. CASE UNCHANGED vars
  <2>1. UNCHANGED <<status, parked, queued, group, exit_code, asked, raced, waiting, pc, parent, children, life>>
    BY Zenon, <1>1 DEF vars, procVars, sigVars, lockVars, histVars
  <2>2. SleepTypes'
    BY Zenon, <2>1 DEF SleepInv, SleepTypes
  <2>3. \A t \in Threads : (SleepPoint(t))'
    BY Zenon, <2>1 DEF SleepInv, SleepPoint, Announced
  <2>4. Told'
    <3>1. \A t \in Threads : (Asleep(t))' <=> Asleep(t)
      BY Zenon, <2>1 DEF Asleep, Announced
    <3>2. \A t, q : (Collectable(t, q))' <=> Collectable(t, q)
      BY Zenon, <2>1 DEF Collectable, Exited, Stopped, Continued
    <3>3. \A u, t \in Threads : \A q : (Waker(u, t, q))' <=> Waker(u, t, q)
      BY Zenon, <2>1 DEF Waker, Exited
    <3> QED BY Zenon, <2>1, <3>1, <3>2, <3>3 DEF SleepInv, Told
  <2> QED BY Zenon, <2>2, <2>3, <2>4 DEF SleepInv
<1>2. ASSUME NEW t \in Threads, NEW q \in Procs, Fork(t, q) \/ Vfork(t, q)
      PROVE  SleepInv'
  <2>1. Family(t)
    BY Zenon, <1>2 DEF Fork, Vfork, Family
  <2> QED BY Zenon, <1>2, <2>1, <1>SleepFork DEF Fork, Vfork
<1>3. ASSUME NEW t \in Threads, NEW q \in Procs, NEW s \in Signals, RaiseSignal(t, q, s)
      PROVE  SleepInv'
  BY Zenon, <1>3, <1>SleepRaise
<1>4. ASSUME NEW t \in Threads,
             \/ \E w \in Threads : Clone(t, w)
             \/ Exec(t) \/ Exit(t) \/ Wait4(t) \/ Pause(t)
      PROVE  SleepInv'
  BY Zenon, <1>4, <1>SleepSyscalls
<1>5. ASSUME NEW t \in Threads, ForkPut(t) \/ QueueSignal(t) \/ ReturnToUser(t) \/ HandleSignal(t)
      PROVE  SleepInv'
  BY Zenon, <1>5, <1>SleepKernel
<1>6. ASSUME NEW t \in Threads, StopStep(t)
      PROVE  SleepInv'
  BY Zenon, <1>6, <1>SleepStops
<1>7. ASSUME NEW t \in Threads, ExitStep(t) \/ Preempt(t)
      PROVE  SleepInv'
  BY Zenon, <1>7, <1>SleepExits, <1>SleepPreempt
<1>8. ASSUME NEW t \in Threads, WaitStep(t)
      PROVE  SleepInv'
  BY Zenon, <1>8, <1>SleepWaits
<1>9. ASSUME NEW t \in Threads, Resched(t)
      PROVE  SleepInv'
  BY Zenon, <1>9, <1>SleepResched
<1> QED BY Zenon, <1>1, <1>2, <1>3, <1>4, <1>5, <1>6, <1>7, <1>8, <1>9 DEF Next, KernelStep, Syscall

\* A thread asleep in wait4 has nothing to collect, or somebody is about to
\* wake it (wait_handle_processes, process_exit, notify_process_stop_cont),
\* if one thread of each process looks after its children, none was hit in a
\* window in which no lock protects it, and no reschedule has put this one to
\* sleep inside the macro (wait_queue_add, spin_unlock).
THEOREM SleepersTold == OneFamilyThread /\ Spec => []SleeperMissesNothing
<1> SUFFICES ASSUME OneFamilyThread PROVE Spec => []SleeperMissesNothing
  BY Zenon DEF OneFamilyThread
<1>1. Init => TreeInv /\ SleepInv
  BY Zenon, TreeInitial, SleepInitial
<1>2. ThreadsInv /\ TreeInv /\ SleepInv /\ [Next]_vars => TreeInv' /\ SleepInv'
  BY Zenon, TreeStep, SleepStep
<1>3. SleepInv => SleeperMissesNothing
  <2> SUFFICES ASSUME SleepInv, ~raced, NEW t \in Threads, parked[t], ~Overslept(t), waiting[t] = "child",
                      NEW q \in Members(children[Owner[t]]), Collectable(t, q)
               PROVE  \E u \in Threads :
                        \/ /\ Owner[u] = q
                           /\ pc[u] \in {"vfork_done", "vfork_wake", "vfork_may_exit", "exit_reparent",
                                         "exit_dead", "exit_code", "stop_code", "stop_wake"}
                        \/ parent[Owner[u]] = Owner[t] /\ pc[u] \in {"exit_dead", "exit_code"}
    BY Zenon DEF SleeperMissesNothing
  <2>1. Asleep(t)
    BY Zenon DEF SleepInv, SleepPoint, Asleep, Announced, Overslept
  <2>2. \E u \in Threads : Waker(u, t, q)
    BY Zenon, <2>1 DEF SleepInv, Told
  <2> QED BY Zenon, <2>2 DEF Waker
<1> QED BY <1>1, <1>2, <1>3, Threading, PTL DEF Spec
=============================================================================
