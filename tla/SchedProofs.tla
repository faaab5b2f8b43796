---------------------------- MODULE SchedProofs ----------------------------
(***************************************************************************)
(* The theorems about Sched, for any number of CPUs, threads and           *)
(* priorities: the inductive invariant IInv, the proof that every step     *)
(* keeps each of its conjuncts, what follows from it, and the refinement   *)
(* of ThreadState.                                                         *)
(***************************************************************************)
EXTENDS Sched, TLAPS

Switching(c) == ctx[c] \in {"yielded", "preempted"}

\* Points at which a thread has preemption disabled by the scheduler's code.
Pinned == {"add", "adding", "softirq"}

\* Points at which it checks whether to give up the processor.
Checking == {"enable0", "enable", "clear0", "clear"}

\* Idle threads are always runnable, and bound to their CPU.
IdleInv ==
    \A c \in Cpus :
        /\ IdleOf[c] \in added
        /\ cpu[IdleOf[c]] = c
        /\ status[IdleOf[c]] = "RUNNABLE"

\* The handlers of interrupts wake threads that exist and are alive.
WakeeInv ==
    \A c \in Cpus :
        wakee[c] # NoThread =>
            /\ wakee[c] \in added \ Idle
            /\ status[wakee[c]] # "DEAD"

\* A thread being added belongs to one adder and is not added yet.
AddingInv ==
    /\ \A t \in Threads : adding[t] # NoThread <=> tpc[t] \in {"add", "adding"}
    /\ \A t \in Threads : adding[t] # NoThread => adding[t] \notin added
    /\ \A t, u \in Threads : adding[t] # NoThread /\ adding[t] = adding[u] => t = u
    /\ \A t \in Threads \ added : status[t] = "RUNNABLE" /\ tpc[t] = "run"

\* A pinned thread has its processor, with preemption disabled, and the
\* preemption counter is zero whenever the processor changes hands.
PreemptInv ==
    /\ \A c \in Cpus : Switching(c) => preempt[c] = 0
    /\ \A c \in Cpus :
          ctx[c] \in {"softirq", "irq2"} =>
              preempt[c] = 1 /\ tpc[current[c]] \notin Pinned
    /\ \A c \in Cpus :
          ctx[c] \notin {"softirq", "irq2"} /\ tpc[current[c]] \in Checking =>
              preempt[c] = 0
    /\ \A t \in Threads :
          tpc[t] \in Pinned =>
              /\ current[cpu[t]] = t
              /\ preempt[cpu[t]] > 0
              /\ tpc[t] = "softirq" => preempt[cpu[t]] = 1

\* The holder of a scheduler_lock is inside sched_append_to_queue.
LockInv ==
    /\ \A c, d \in Cpus :
          lock[d] = c + 1 =>
              tpc[current[c]] = "adding" /\ cpu[adding[current[c]]] = d
    /\ \A t \in Threads : tpc[t] = "adding" => lock[cpu[adding[t]]] = cpu[t] + 1

IInv ==
    /\ TypeOK
    /\ QueuesSound
    /\ NoThreadLost
    /\ IdleInv
    /\ WakeeInv
    /\ AddingInv
    /\ PreemptInv
    /\ PreemptionKeepsSleepers
    /\ LockInv

-----------------------------------------------------------------------------
(* Facts about the run queues.                                             *)

\* Appending touches one queue, at its tail.
LEMMA AppendToFacts ==
    ASSUME NEW q \in QueueType, NEW c \in Cpus, NEW t \in Threads
    PROVE  /\ AppendTo(q, c, t) \in QueueType
           /\ AppendTo(q, c, t)[c][Priority[t]] = Append(q[c][Priority[t]], t)
           /\ \A d \in Cpus, p \in Prios :
                 d # c \/ p # Priority[t] => AppendTo(q, c, t)[d][p] = q[d][p]
<1>1. Priority[t] \in Prios
    BY Zenon, PrioAssumption
<1>2. Append(q[c][Priority[t]], t) \in Seq(Threads)
    BY <1>1 DEF QueueType
<1> QED
    BY Zenon, <1>1, <1>2 DEF QueueType, AppendTo

\* The elements of an appended sequence.
LEMMA AppendElements ==
    ASSUME NEW S, NEW s \in Seq(S), NEW x \in S
    PROVE  /\ DOMAIN Append(s, x) = DOMAIN s \cup {Len(s) + 1}
           /\ \A i \in DOMAIN s : Append(s, x)[i] = s[i]
           /\ Append(s, x)[Len(s) + 1] = x
           /\ Len(s) + 1 \notin DOMAIN s
           /\ Append(s, x) # <<>>
    OBVIOUS

\* The elements of the tail of a sequence.
LEMMA TailElements ==
    ASSUME NEW S, NEW s \in Seq(S), s # <<>>
    PROVE  /\ Head(s) \in S
           /\ Head(s) = s[1]
           /\ 1 \in DOMAIN s
           /\ Tail(s) \in Seq(S)
           /\ \A i \in DOMAIN Tail(s) : i + 1 \in DOMAIN s /\ Tail(s)[i] = s[i + 1] /\ i \in Nat \ {0}
           /\ \A i \in DOMAIN s : i # 1 => i - 1 \in DOMAIN Tail(s) /\ Tail(s)[i - 1] = s[i]
    OBVIOUS

\* The queues that sched_find_runnable chooses from.
LEMMA RequeuedType ==
    ASSUME TypeOK, NEW c \in Cpus
    PROVE  Requeued(c) \in QueueType
BY Zenon, AppendToFacts DEF TypeOK, Requeued, QueueType

\* What a context switch does to the queues, in terms of their elements.
LEMMA SwitchFacts ==
    ASSUME TypeOK, NEW c \in Cpus, Switch(c)
    PROVE  \E p \in Prios :
              /\ Requeued(c)[c][p] \in Seq(Threads)
              /\ Requeued(c)[c][p] # <<>>
              /\ current' = [current EXCEPT ![c] = Head(Requeued(c)[c][p])]
              /\ queue' \in QueueType
              /\ queue'[c][p] = Tail(Requeued(c)[c][p])
              /\ \A d \in Cpus, r \in Prios :
                    d # c \/ r # p => queue'[d][r] = Requeued(c)[d][r]
<1>1. PICK p \in Prios :
          /\ Highest(Requeued(c), c, p)
          /\ current' = [current EXCEPT ![c] = Head(Requeued(c)[c][p])]
          /\ queue' = [Requeued(c) EXCEPT ![c][p] = Tail(@)]
    BY Zenon DEF Switch
<1>2. Requeued(c) \in QueueType
    BY Zenon, RequeuedType
<1>3. Requeued(c)[c][p] \in Seq(Threads) /\ Requeued(c)[c][p] # <<>>
    BY Zenon, <1>1, <1>2 DEF Highest, Ready, QueueType
<1>4. Tail(Requeued(c)[c][p]) \in Seq(Threads)
    BY <1>3
<1> QED
    BY Zenon, <1>1, <1>2, <1>3, <1>4 DEF QueueType

\* Type correctness is preserved by every step.
LEMMA TypeStep ==
    ASSUME IInv, [Next]_vars
    PROVE  TypeOK'
<1> USE DEF IInv, TypeOK
<1>1. CASE UNCHANGED vars
    BY Zenon, <1>1 DEF vars
<1>2. ASSUME NEW c \in Cpus, Switch(c)  PROVE TypeOK'
    <2>1. PICK p \in Prios :
              /\ Requeued(c)[c][p] \in Seq(Threads)
              /\ Requeued(c)[c][p] # <<>>
              /\ current' = [current EXCEPT ![c] = Head(Requeued(c)[c][p])]
              /\ queue' \in QueueType
        BY Zenon, <1>2, SwitchFacts
    <2>2. Head(Requeued(c)[c][p]) \in Threads
        BY Zenon, <2>1, TailElements
    <2>3. Quantum \in Quanta
        BY QuantumAssumption DEF Quanta
    <2> QED
        BY Zenon, <1>2, <2>1, <2>2, <2>3 DEF Switch, Contexts
<1>3. ASSUME NEW c \in Cpus, Tick(c)  PROVE TypeOK'
    BY <1>3, QuantumAssumption
       DEF Tick, IrqEnter, Wakeable, sched_decrease_quantum, Contexts, Quanta
<1>4. ASSUME NEW c \in Cpus, DeviceIrq(c)  PROVE TypeOK'
    BY <1>4 DEF DeviceIrq, IrqEnter, Wakeable, Contexts
<1>5. ASSUME NEW c \in Cpus, NEW t \in Threads, thread_wake_up(c, t)
      PROVE  /\ status' \in [Threads -> Statuses]
             /\ queue' \in QueueType
             /\ resched' \subseteq Threads
             /\ ipi' \subseteq Cpus
    <2>1. status' \in [Threads -> Statuses]
        BY Zenon, <1>5 DEF thread_wake_up, Statuses
    <2>2. AppendTo(queue, cpu[t], t) \in QueueType
        BY Zenon, AppendToFacts
    <2> QED
        BY Zenon, <1>5, <2>1, <2>2 DEF thread_wake_up
<1>6. ASSUME NEW c \in Cpus, IrqWakeUp(c)  PROVE TypeOK'
    BY Zenon, <1>5, <1>6 DEF IrqWakeUp
<1>7. ASSUME NEW c \in Cpus, NEW t \in Threads, WakeUp(c, t)  PROVE TypeOK'
    BY Zenon, <1>5, <1>7 DEF WakeUp
<1>8. ASSUME NEW c \in Cpus, IrqSoftirq(c)  PROVE TypeOK'
    BY Zenon, <1>8 DEF IrqSoftirq, Contexts
<1>9. ASSUME NEW c \in Cpus, NEW n \in Nat, NEW b \in Contexts,
             sched_preempt_thread(c, n, b)
      PROVE  quantum' \in [Cpus -> Quanta] /\ ctx' \in [Cpus -> Contexts]
    BY SMTT(30), <1>9, QuantumAssumption DEF sched_preempt_thread, Quanta, Contexts
<1>10. ASSUME NEW c \in Cpus, NEW n \in Nat, NEW b \in Contexts,
              check_for_resched(c, n, b)
       PROVE  /\ quantum' \in [Cpus -> Quanta]
              /\ ctx' \in [Cpus -> Contexts]
              /\ resched' \subseteq Threads
    BY Zenon, <1>9, <1>10 DEF check_for_resched
<1>11. ASSUME NEW c \in Cpus, IrqSoftirqEnd(c)  PROVE TypeOK'
    BY Zenon, <1>10, <1>11 DEF IrqSoftirqEnd, Contexts
<1>12. ASSUME NEW c \in Cpus, IrqExit(c)  PROVE TypeOK'
    BY Zenon, <1>10, <1>12 DEF IrqExit, Contexts
<1>13. ASSUME NEW c \in Cpus, ReschedIpi(c)  PROVE TypeOK'
    BY Zenon, <1>9, <1>13 DEF ReschedIpi
<1>14. ASSUME NEW c \in Cpus, NEW t \in Threads, SetState(c, t) \/ Die(c, t)
       PROVE  TypeOK'
    BY <1>14, QuantumAssumption DEF SetState, Die, Statuses, Blocked
<1>15. ASSUME NEW c \in Cpus, NEW t \in Threads, Yield(c, t) \/ DisablePreempt(c, t)
       PROVE  TypeOK'
    BY <1>15 DEF Yield, DisablePreempt, Contexts
<1>16. ASSUME NEW c \in Cpus, NEW t \in Threads, sched_enable_preempt(c, t), preempt[c] > 0
       PROVE  preempt' \in [Cpus -> Nat] /\ tpc' \in [Threads -> ThreadPoints]
    BY SMTT(30), <1>16 DEF sched_enable_preempt, ThreadPoints
<1>17. ASSUME NEW c \in Cpus, NEW t \in Threads, EnablePreempt(c, t)  PROVE TypeOK'
    BY Zenon, <1>16, <1>17 DEF EnablePreempt
<1>18. ASSUME NEW c \in Cpus, NEW t \in Threads, SoftirqEnd(c, t)  PROVE TypeOK'
    <2>1. preempt[c] > 0
        BY Zenon, <1>18 DEF SoftirqEnd, Running, PreemptInv, Pinned, QueuesSound
    <2> QED
        BY <1>18, <2>1 DEF SoftirqEnd, ThreadPoints
<1>19. ASSUME NEW c \in Cpus, NEW t \in Threads,
              ReschedIfNeeded(c, t) \/ ClearResched(c, t)
       PROVE  TypeOK'
    BY Zenon, <1>19 DEF ReschedIfNeeded, ClearResched, ThreadPoints, Contexts
<1>20. ASSUME NEW c \in Cpus, NEW t \in Threads, NEW u \in Threads, ThreadAdd(c, t, u)
       PROVE  TypeOK'
    BY <1>20 DEF ThreadAdd, ThreadPoints
<1>21. ASSUME NEW c \in Cpus, NEW t \in Threads, AppendLock(c, t)  PROVE TypeOK'
    <2>1. adding[t] \in Threads
        BY <1>21 DEF AppendLock, Running, AddingInv
    <2> QED
        BY <1>21, <2>1, CpusAssumption DEF AppendLock, ThreadPoints
<1>22. ASSUME NEW c \in Cpus, NEW t \in Threads, AppendUnlock(c, t)  PROVE TypeOK'
    <2>1. adding[t] \in Threads
        BY <1>22 DEF AppendUnlock, Running, AddingInv
    <2>2. preempt[c] > 0
        BY Zenon, <1>22 DEF AppendUnlock, Running, PreemptInv, Pinned, QueuesSound
    <2>3. queue' \in QueueType
        BY Zenon, <1>22, <2>1, AppendToFacts DEF AppendUnlock
    <2> QED
        BY Zenon, <1>16, <1>22, <2>1, <2>2, <2>3 DEF AppendUnlock
<1> QED
    BY Zenon, <1>1, <1>2, <1>3, <1>4, <1>6, <1>7, <1>8, <1>11, <1>12, <1>13, <1>14,
       <1>15, <1>17, <1>18, <1>19, <1>20, <1>21, <1>22
       DEF Next, CpuStep, ThreadStep

-----------------------------------------------------------------------------
(* The run queues.  QueueInv(q, st, ad, cp) is what QueuesSound says of the *)
(* elements of q, without the clause about the current thread.             *)

In(q, c, t) == \E i \in DOMAIN q[c][Priority[t]] : q[c][Priority[t]][i] = t

QueueInv(q, st, ad, cp) ==
    \A c \in Cpus, p \in Prios : \A i \in DOMAIN q[c][p] :
        /\ q[c][p][i] \in ad
        /\ cp[q[c][p][i]] = c
        /\ Priority[q[c][p][i]] = p
        /\ st[q[c][p][i]] = "RUNNABLE"
        /\ \A j \in DOMAIN q[c][p] : q[c][p][j] = q[c][p][i] => j = i

\* Appending a runnable thread that is not queued keeps the queues sound.
LEMMA AppendSound ==
    ASSUME NEW q \in QueueType, NEW st, NEW ad, NEW cp \in [Threads -> Cpus],
           NEW t \in Threads, QueueInv(q, st, ad, cp), ~ In(q, cp[t], t),
           t \in ad, st[t] = "RUNNABLE"
    PROVE  /\ QueueInv(AppendTo(q, cp[t], t), st, ad, cp)
           /\ \A u \in Threads, c \in Cpus :
                 In(AppendTo(q, cp[t], t), c, u) <=> In(q, c, u) \/ (u = t /\ c = cp[t])
<1> DEFINE c0 == cp[t]
           p0 == Priority[t]
           s  == q[c0][p0]
           r  == AppendTo(q, c0, t)
<1>1. c0 \in Cpus /\ p0 \in Prios /\ s \in Seq(Threads)
    BY Zenon, PrioAssumption DEF QueueType
<1>2. r[c0][p0] = Append(s, t) /\ \A d \in Cpus, p \in Prios : d # c0 \/ p # p0 => r[d][p] = q[d][p]
    BY Zenon, <1>1, AppendToFacts
<1>3. /\ DOMAIN r[c0][p0] = DOMAIN s \cup {Len(s) + 1}
      /\ \A i \in DOMAIN s : r[c0][p0][i] = s[i]
      /\ r[c0][p0][Len(s) + 1] = t
      /\ Len(s) + 1 \notin DOMAIN s
    BY SMTT(30), <1>1, <1>2, AppendElements
<1> HIDE DEF c0, p0, s, r
<1>4. \A i \in DOMAIN s : s[i] # t
    BY Zenon DEF In, c0, p0, s
<1>5. ASSUME NEW c \in Cpus, NEW p \in Prios, NEW i \in DOMAIN r[c][p]
      PROVE  /\ r[c][p][i] \in ad
             /\ cp[r[c][p][i]] = c
             /\ Priority[r[c][p][i]] = p
             /\ st[r[c][p][i]] = "RUNNABLE"
             /\ \A j \in DOMAIN r[c][p] : r[c][p][j] = r[c][p][i] => j = i
    <2>1. CASE c # c0 \/ p # p0
        BY <1>2, <2>1 DEF QueueInv
    <2>2. CASE c = c0 /\ p = p0 /\ i = Len(s) + 1
        BY Zenon, <1>1, <1>3, <1>4, <2>2 DEF c0, p0
    <2>3. CASE c = c0 /\ p = p0 /\ i \in DOMAIN s
        BY <1>1, <1>3, <1>4, <2>3 DEF QueueInv, s
    <2> QED
        BY Zenon, <1>3, <2>1, <2>2, <2>3
<1>6. QueueInv(r, st, ad, cp)
    BY Zenon, <1>5 DEF QueueInv
<1>7. ASSUME NEW u \in Threads, NEW c \in Cpus
      PROVE  In(r, c, u) <=> In(q, c, u) \/ (u = t /\ c = c0)
    <2>1. Priority[u] \in Prios
        BY Zenon, PrioAssumption
    <2>2. CASE c # c0 \/ Priority[u] # p0
        BY Zenon, <1>2, <2>1, <2>2 DEF In, p0
    <2>3. CASE c = c0 /\ Priority[u] = p0
        BY <1>1, <1>3, <1>4, <2>3 DEF In, s
    <2> QED
        BY Zenon, <2>2, <2>3
<1> QED
    BY Zenon, <1>6, <1>7 DEF r, c0

\* A queued thread is added and runnable.
LEMMA QueuedFacts ==
    ASSUME NEW q, NEW st, NEW ad, NEW cp, QueueInv(q, st, ad, cp),
           NEW t \in Threads, NEW c \in Cpus, In(q, c, t)
    PROVE  t \in ad /\ st[t] = "RUNNABLE" /\ cp[t] = c
<1>1. Priority[t] \in Prios
    BY Zenon, PrioAssumption
<1> QED
    BY <1>1 DEF In, QueueInv

SoundQ(q, st, ad, cp, cu) ==
    /\ QueueInv(q, st, ad, cp)
    /\ \A c \in Cpus : cu[c] \in ad /\ cp[cu[c]] = c /\ ~ In(q, c, cu[c])

FoundQ(q, st, ad, cp, cu) ==
    \A t \in ad : st[t] = "RUNNABLE" => In(q, cp[t], t) \/ cu[cp[t]] = t

\* QueuesSound and NoThreadLost in terms of QueueInv and In.
LEMMA QueuesSoundForm ==
    ASSUME TypeOK
    PROVE  /\ QueuesSound <=> SoundQ(queue, status, added, cpu, current)
           /\ NoThreadLost <=> FoundQ(queue, status, added, cpu, current)
<1> DEFINE NotRunning == \A c \in Cpus : \A p \in Prios : \A i \in DOMAIN queue[c][p] :
                             queue[c][p][i] # current[c]
<1>1. QueuesSound <=> /\ QueueInv(queue, status, added, cpu)
                      /\ NotRunning
                      /\ \A c \in Cpus : current[c] \in added /\ cpu[current[c]] = c
    BY DEF QueuesSound, QueueInv
<1>2. \A c \in Cpus : Priority[current[c]] \in Prios
    BY Zenon, PrioAssumption DEF TypeOK
<1>3. ASSUME QueueInv(queue, status, added, cpu)
      PROVE  NotRunning <=> \A c \in Cpus : ~ In(queue, c, current[c])
    BY <1>2, <1>3 DEF QueueInv, In
<1> QED
    BY Zenon, <1>1, <1>3 DEF NoThreadLost, FoundQ, SoundQ, In, Queued

\* The same for the next state.
LEMMA QueuesSoundFormNext ==
    ASSUME TypeOK', SoundQ(queue', status', added', cpu', current'),
           FoundQ(queue', status', added', cpu', current')
    PROVE  QueuesSound' /\ NoThreadLost'
<1>1. SoundQ(queue, status, added, cpu, current)'
    BY Zenon DEF SoundQ, QueueInv, In
<1>2. FoundQ(queue, status, added, cpu, current)'
    BY Zenon DEF FoundQ, In
<1> QED
    BY <1>1, <1>2, QueuesSoundForm, PTL

\* Taking the head of a queue keeps the queues sound.
LEMMA PopSound ==
    ASSUME NEW q \in QueueType, NEW r \in QueueType, NEW st, NEW ad, NEW cp,
           QueueInv(q, st, ad, cp),
           NEW c \in Cpus, NEW p \in Prios, q[c][p] # <<>>,
           r[c][p] = Tail(q[c][p]),
           \A d \in Cpus, x \in Prios : d # c \/ x # p => r[d][x] = q[d][x]
    PROVE  /\ QueueInv(r, st, ad, cp)
           /\ Head(q[c][p]) \in Threads \cap ad
           /\ cp[Head(q[c][p])] = c
           /\ st[Head(q[c][p])] = "RUNNABLE"
           /\ \A u \in Threads, d \in Cpus :
                 In(r, d, u) <=> In(q, d, u) /\ ~ (u = Head(q[c][p]) /\ d = c)
<1> DEFINE s == q[c][p]
           h == Head(s)
<1>1. s \in Seq(Threads)
    BY Zenon DEF QueueType
<1>2. /\ h \in Threads
      /\ h = s[1]
      /\ 1 \in DOMAIN s
      /\ \A i \in DOMAIN Tail(s) : i + 1 \in DOMAIN s /\ Tail(s)[i] = s[i + 1] /\ i \in Nat \ {0}
      /\ \A i \in DOMAIN s : i # 1 => i - 1 \in DOMAIN Tail(s) /\ Tail(s)[i - 1] = s[i]
    BY <1>1, TailElements
<1>3. \A i \in DOMAIN s : i # 1 => s[i] # h
    BY <1>2 DEF QueueInv
<1>4. h \in ad /\ cp[h] = c /\ Priority[h] = p /\ st[h] = "RUNNABLE"
    BY <1>2 DEF QueueInv
<1> HIDE DEF h
<1>5. ASSUME NEW d \in Cpus, NEW x \in Prios, NEW i \in DOMAIN r[d][x]
      PROVE  /\ r[d][x][i] \in ad
             /\ cp[r[d][x][i]] = d
             /\ Priority[r[d][x][i]] = x
             /\ st[r[d][x][i]] = "RUNNABLE"
             /\ \A j \in DOMAIN r[d][x] : r[d][x][j] = r[d][x][i] => j = i
    <2>1. CASE d # c \/ x # p
        BY <2>1 DEF QueueInv
    <2>2. CASE d = c /\ x = p
        <3>0. \A k \in DOMAIN r[d][x] :
                 k + 1 \in DOMAIN q[d][x] /\ r[d][x][k] = q[d][x][k + 1] /\ k \in Nat
            BY Zenon, <1>2, <2>2
        <3>1. i + 1 \in DOMAIN q[d][x] /\ r[d][x][i] = q[d][x][i + 1] /\ i \in Nat
            BY Zenon, <3>0
        <3>3. \A k, l \in DOMAIN q[d][x] : q[d][x][k] = q[d][x][l] => k = l
            BY DEF QueueInv
        <3>2. ASSUME NEW j \in DOMAIN r[d][x], r[d][x][j] = r[d][x][i]  PROVE j = i
            <4>1. j + 1 \in DOMAIN q[d][x] /\ r[d][x][j] = q[d][x][j + 1] /\ j \in Nat
                BY Zenon, <3>0
            <4>2. j + 1 = i + 1
                BY Zenon, <3>1, <3>2, <3>3, <4>1
            <4>3. j \in Nat /\ i \in Nat
                BY Zenon, <3>1, <4>1
            <4> QED
                BY <4>2, <4>3
        <3> QED
            BY <3>1, <3>2 DEF QueueInv
    <2> QED
        BY Zenon, <2>1, <2>2
<1>6. QueueInv(r, st, ad, cp)
    BY Zenon, <1>5 DEF QueueInv
<1>7. ASSUME NEW u \in Threads, NEW d \in Cpus
      PROVE  In(r, d, u) <=> In(q, d, u) /\ ~ (u = h /\ d = c)
    <2>1. Priority[u] \in Prios
        BY Zenon, PrioAssumption
    <2>2. CASE d # c \/ Priority[u] # p
        BY Zenon, <1>4, <2>1, <2>2 DEF In
    <2>3. CASE d = c /\ Priority[u] = p
        <3>1. ASSUME In(r, d, u)  PROVE In(q, d, u) /\ u # h
            <4>1. PICK i \in DOMAIN Tail(s) : Tail(s)[i] = u
                BY Zenon, <2>3, <3>1 DEF In
            <4> QED
                BY <1>2, <1>3, <2>3, <4>1 DEF In
        <3>2. ASSUME In(q, d, u), u # h  PROVE In(r, d, u)
            <4>1. PICK i \in DOMAIN s : s[i] = u
                BY Zenon, <2>3, <3>2 DEF In
            <4>2. i # 1
                BY Zenon, <1>2, <3>2, <4>1
            <4>3. i - 1 \in DOMAIN r[c][p] /\ r[c][p][i - 1] = u
                BY Zenon, <1>2, <4>1, <4>2
            <4> QED
                BY Zenon, <2>3, <4>3 DEF In
        <3> QED
            BY Zenon, <2>3, <3>1, <3>2
    <2> QED
        BY Zenon, <2>2, <2>3
<1> QED
    BY Zenon, <1>2, <1>4, <1>6, <1>7 DEF h

\* The run queues stay sound and no thread is lost, whatever step is taken.
LEMMA QueuesStep ==
    ASSUME IInv, [Next]_vars, TypeOK'
    PROVE  QueuesSound' /\ NoThreadLost'
<1> DEFINE Sound == SoundQ(queue, status, added, cpu, current)
           Found == FoundQ(queue, status, added, cpu, current)
           Sound1 == SoundQ(queue', status', added', cpu', current')
           Found1 == FoundQ(queue', status', added', cpu', current')
<1>1. TypeOK /\ Sound /\ Found
    BY Zenon, QueuesSoundForm DEF IInv
<1> SUFFICES Sound1 /\ Found1
    BY Zenon, QueuesSoundFormNext
<1>2. CASE UNCHANGED <<queue, added, cpu, status, current>>
    BY <1>1, <1>2 DEF SoundQ, FoundQ, QueueInv, In
<1>3. ASSUME NEW c \in Cpus, Switch(c)  PROVE Sound1 /\ Found1
    <2> DEFINE q == Requeued(c)
    <2>1. PICK p \in Prios :
              /\ q[c][p] # <<>>
              /\ current' = [current EXCEPT ![c] = Head(q[c][p])]
              /\ queue' \in QueueType
              /\ queue'[c][p] = Tail(q[c][p])
              /\ \A d \in Cpus, r \in Prios : d # c \/ r # p => queue'[d][r] = q[d][r]
        BY Zenon, <1>1, <1>3, SwitchFacts
    <2>2. q \in QueueType
        BY Zenon, <1>1, RequeuedType
    <2>3. /\ QueueInv(q, status, added, cpu)
          /\ \A u \in Threads, d \in Cpus :
                In(q, d, u) <=> \/ In(queue, d, u)
                                \/ u = current[c] /\ d = c /\ status[u] = "RUNNABLE"
        <3>1. CASE status[current[c]] = "RUNNABLE"
            <4>1. /\ current[c] \in Threads /\ current[c] \in added /\ cpu[current[c]] = c
                  /\ ~ In(queue, c, current[c]) /\ QueueInv(queue, status, added, cpu)
                  /\ cpu \in [Threads -> Cpus] /\ queue \in QueueType
                BY Zenon, <1>1 DEF SoundQ, TypeOK
            <4>2. q = AppendTo(queue, cpu[current[c]], current[c])
                BY Zenon, <3>1, <4>1 DEF Requeued
            <4> QED
                BY <3>1, <4>1, <4>2, AppendSound
        <3>2. CASE status[current[c]] # "RUNNABLE"
            BY Zenon, <1>1, <3>2 DEF SoundQ, Requeued
        <3> QED
            BY Zenon, <3>1, <3>2
    <2> HIDE DEF q
    <2> DEFINE h == Head(q[c][p])
    <2>4. /\ QueueInv(queue', status, added, cpu)
          /\ h \in Threads \cap added
          /\ cpu[h] = c
          /\ \A u \in Threads, d \in Cpus :
                In(queue', d, u) <=> In(q, d, u) /\ ~ (u = h /\ d = c)
        BY <2>1, <2>2, <2>3, PopSound
    <2> HIDE DEF h
    <2>5. current' = [current EXCEPT ![c] = h] /\ UNCHANGED <<status, added, cpu>>
        BY Zenon, <1>3, <2>1 DEF Switch, h
    <2>6. Sound1
        BY Zenon, <1>1, <2>3, <2>4, <2>5 DEF SoundQ, TypeOK
    <2>7. Found1
        BY Zenon, <1>1, <2>3, <2>4, <2>5 DEF FoundQ, TypeOK
    <2> QED
        BY Zenon, <2>6, <2>7
<1>4. ASSUME NEW c \in Cpus, NEW t \in Threads, SetState(c, t) \/ Die(c, t)
      PROVE  Sound1 /\ Found1
    <2>1. current[c] = t /\ UNCHANGED <<queue, added, cpu, current>>
        BY Zenon, <1>4 DEF SetState, Die, Running
    <2>2. \A u \in Threads : u # t => status'[u] = status[u]
        BY Zenon, <1>1, <1>4 DEF SetState, Die, TypeOK
    <2>3. \A d \in Cpus, p \in Prios : \A i \in DOMAIN queue[d][p] :
             queue[d][p][i] \in Threads /\ queue[d][p][i] # t
        <3>1. ~ In(queue, cpu[t], t) /\ QueueInv(queue, status, added, cpu)
            BY Zenon, <1>1, <2>1 DEF SoundQ
        <3>2. ASSUME NEW d \in Cpus, NEW p \in Prios, NEW i \in DOMAIN queue[d][p]
              PROVE  queue[d][p][i] \in Threads /\ queue[d][p][i] # t
            <4>1. /\ queue[d][p][i] \in added
                  /\ cpu[queue[d][p][i]] = d
                  /\ Priority[queue[d][p][i]] = p
                BY Zenon, <3>1 DEF QueueInv
            <4>2. queue[d][p][i] = t => In(queue, cpu[t], t)
                BY Zenon, <4>1 DEF In
            <4> QED
                BY Zenon, <1>1, <3>1, <4>1, <4>2 DEF TypeOK
        <3> QED
            BY Zenon, <3>2
    <2>4. QueueInv(queue, status', added, cpu)
        BY <1>1, <2>2, <2>3 DEF SoundQ, QueueInv
    <2>5. Sound1
        BY Zenon, <1>1, <2>1, <2>4 DEF SoundQ
    <2>6. Found1
        BY SMTT(30), <1>1, <2>1, <2>2 DEF SoundQ, FoundQ, TypeOK
    <2> QED
        BY Zenon, <2>5, <2>6
<1>5. ASSUME NEW c \in Cpus, NEW t \in added, thread_wake_up(c, t),
             UNCHANGED <<added, cpu, current>>
      PROVE  Sound1 /\ Found1
    <2>1. t \in Threads /\ status' = [status EXCEPT ![t] = "RUNNABLE"]
        BY Zenon, <1>1, <1>5 DEF thread_wake_up, TypeOK
    <2>2. QueueInv(queue, status', added, cpu)
        BY SMTT(30), <1>1, <2>1 DEF SoundQ, QueueInv, TypeOK
    <2>3. CASE current[cpu[t]] # t /\ status[t] # "RUNNABLE"
        <3>1. ~ In(queue, cpu[t], t)
            BY <1>1, <2>1, <2>3, QueuedFacts DEF SoundQ, TypeOK
        <3>2. queue' = AppendTo(queue, cpu[t], t)
            BY Zenon, <1>5, <2>3 DEF thread_wake_up
        <3>3. status'[t] = "RUNNABLE"
            BY Zenon, <1>1, <2>1 DEF TypeOK
        <3>4. /\ QueueInv(queue', status', added, cpu)
              /\ \A u \in Threads, d \in Cpus :
                    In(queue', d, u) <=> In(queue, d, u) \/ (u = t /\ d = cpu[t])
            BY ZenonT(30), <1>1, <2>1, <2>2, <3>1, <3>2, <3>3, AppendSound DEF TypeOK
        <3>5. Sound1
            BY SMTT(30), <1>1, <1>5, <2>3, <3>4 DEF SoundQ, TypeOK
        <3>6. Found1
            BY Zenon, <1>1, <1>5, <2>1, <3>4 DEF FoundQ, TypeOK
        <3> QED
            BY Zenon, <3>5, <3>6
    <2>4. CASE ~ (current[cpu[t]] # t /\ status[t] # "RUNNABLE")
        <3>1. queue' = queue
            BY Zenon, <1>5, <2>4 DEF thread_wake_up
        <3> QED
            BY Zenon, <1>1, <1>5, <2>1, <2>2, <2>4, <3>1 DEF SoundQ, FoundQ, TypeOK
    <2> QED
        BY Zenon, <2>3, <2>4
<1>6. ASSUME NEW c \in Cpus, NEW t \in Threads, WakeUp(c, t)  PROVE Sound1 /\ Found1
    BY ZenonT(30), <1>5, <1>6 DEF WakeUp, Wakeable
<1>7. ASSUME NEW c \in Cpus, IrqWakeUp(c)  PROVE Sound1 /\ Found1
    BY Zenon, <1>5, <1>7 DEF IrqWakeUp, IInv, WakeeInv
<1>8. ASSUME NEW c \in Cpus, NEW t \in Threads, NEW u \in Threads, ThreadAdd(c, t, u)
      PROVE  Sound1 /\ Found1
    <2>1. u \notin added /\ UNCHANGED <<queue, added, status, current>>
        BY Zenon, <1>8 DEF ThreadAdd
    <2>2. \A x \in added : cpu'[x] = cpu[x]
        BY Zenon, <1>1, <1>8 DEF ThreadAdd, TypeOK
    <2> QED
        BY <1>1, <2>1, <2>2 DEF SoundQ, FoundQ, QueueInv, In
<1>9. ASSUME NEW c \in Cpus, NEW t \in Threads, AppendUnlock(c, t)
      PROVE  Sound1 /\ Found1
    <2> DEFINE u == adding[t]
    <2>1. u \in Threads \ added /\ status[u] = "RUNNABLE"
        BY Zenon, <1>1, <1>9 DEF AppendUnlock, Running, IInv, AddingInv, TypeOK
    <2>2. queue' = AppendTo(queue, cpu[u], u) /\ added' = added \cup {u}
          /\ UNCHANGED <<status, cpu, current>>
        BY Zenon, <1>9 DEF AppendUnlock
    <2>3. ~ In(queue, cpu[u], u)
        BY Zenon, <1>1, <2>1, QueuedFacts DEF SoundQ, TypeOK
    <2>4. QueueInv(queue, status, added', cpu)
        BY <1>1, <2>2 DEF SoundQ, QueueInv
    <2>5. /\ QueueInv(queue', status, added', cpu)
          /\ \A x \in Threads, d \in Cpus :
                In(queue', d, x) <=> In(queue, d, x) \/ (x = u /\ d = cpu[u])
        <3>1. u \in added' /\ queue \in QueueType /\ cpu \in [Threads -> Cpus]
            BY Zenon, <1>1, <2>2 DEF TypeOK
        <3> HIDE DEF u
        <3> QED
            BY Zenon, <2>1, <2>2, <2>3, <2>4, <3>1, AppendSound
    <2> HIDE DEF u
    <2>6. \A d \in Cpus : current[d] \in Threads \cap added /\ current[d] # u
        BY Zenon, <1>1, <2>1 DEF SoundQ, TypeOK
    <2>8. Sound1
        BY Zenon, <1>1, <2>2, <2>5, <2>6 DEF SoundQ
    <2>7. Found1
        <3> SUFFICES ASSUME NEW x \in added', status'[x] = "RUNNABLE"
                     PROVE  In(queue', cpu'[x], x) \/ current'[cpu'[x]] = x
            BY Zenon  DEF FoundQ
        <3>1. x \in Threads /\ cpu[x] \in Cpus
            BY Zenon, <1>1, <2>1, <2>2 DEF TypeOK
        <3>2. CASE x = u
            BY Zenon, <2>2, <2>5, <3>1, <3>2
        <3>3. CASE x # u
            <4>1. In(queue, cpu[x], x) \/ current[cpu[x]] = x
                BY Zenon, <1>1, <2>2, <3>3 DEF FoundQ
            <4> QED
                BY Zenon, <2>2, <2>5, <3>1, <4>1
        <3> QED
            BY Zenon, <3>2, <3>3
    <2> QED
        BY Zenon, <2>7, <2>8
<1> HIDE DEF Sound, Found, Sound1, Found1
<1>10. ASSUME NEW c \in Cpus,
              Tick(c) \/ DeviceIrq(c) \/ IrqSoftirq(c) \/ IrqSoftirqEnd(c)
              \/ IrqExit(c) \/ ReschedIpi(c)
       PROVE  UNCHANGED <<queue, added, cpu, status, current>>
    BY ZenonT(30), <1>10 DEF Tick, DeviceIrq, IrqSoftirq, IrqSoftirqEnd, IrqExit, ReschedIpi
<1>11. ASSUME NEW c \in Cpus, NEW t \in Threads,
              Yield(c, t) \/ DisablePreempt(c, t) \/ EnablePreempt(c, t)
              \/ SoftirqEnd(c, t) \/ ReschedIfNeeded(c, t) \/ ClearResched(c, t)
              \/ AppendLock(c, t)
       PROVE  UNCHANGED <<queue, added, cpu, status, current>>
    BY ZenonT(30), <1>11 DEF Yield, DisablePreempt, EnablePreempt, SoftirqEnd,
                 ReschedIfNeeded, ClearResched, AppendLock
<1>12. CASE UNCHANGED vars
    BY Zenon, <1>2, <1>12 DEF vars
<1> QED
    BY Zenon, <1>2, <1>3, <1>4, <1>6, <1>7, <1>8, <1>9, <1>10, <1>11, <1>12
       DEF Next, CpuStep, ThreadStep

-----------------------------------------------------------------------------
(* The remaining conjuncts.                                                *)

\* Idle threads stay runnable on their own CPU, and the threads that pending
\* interrupts are about to wake stay alive.
LEMMA IdleWakeeStep ==
    ASSUME IInv, [Next]_vars
    PROVE  IdleInv' /\ WakeeInv'
<1>1. TypeOK /\ IdleInv /\ WakeeInv
    BY Zenon DEF IInv
<1>2. \A c \in Cpus : IdleOf[c] \in Threads /\ IdleOf[c] \in Idle
    BY Zenon, ThreadsAssumption DEF Idle
<1>3. CASE UNCHANGED <<added, cpu, status, wakee>>
    BY Zenon, <1>1, <1>3 DEF IdleInv, WakeeInv
<1>4. ASSUME NEW c \in Cpus, NEW t \in Threads, SetState(c, t) \/ Die(c, t)
      PROVE  IdleInv' /\ WakeeInv'
    <2>1. t \notin Idle /\ UNCHANGED <<added, cpu, wakee>>
        BY Zenon, <1>4 DEF SetState, Die
    <2>2. \A u \in Threads : u # t => status'[u] = status[u]
        BY Zenon, <1>1, <1>4 DEF SetState, Die, TypeOK
    <2>3. \A d \in Cpus : wakee[d] = t => status'[t] # "DEAD"
        BY Zenon, <1>1, <1>4, QuantumAssumption DEF SetState, Die, TypeOK
    <2> QED
        BY <1>1, <1>2, <2>1, <2>2, <2>3 DEF IdleInv, WakeeInv, TypeOK
<1>5. ASSUME NEW c \in Cpus, NEW t \in Threads, thread_wake_up(c, t),
             UNCHANGED <<added, cpu>>,
             wakee' = wakee \/ wakee' = [wakee EXCEPT ![c] = NoThread]
      PROVE  IdleInv' /\ WakeeInv'
    BY Zenon, <1>1, <1>2, <1>5 DEF thread_wake_up, IdleInv, WakeeInv, TypeOK
<1>6. ASSUME NEW c \in Cpus, NEW t \in Threads, WakeUp(c, t)
      PROVE  IdleInv' /\ WakeeInv'
    BY Zenon, <1>5, <1>6 DEF WakeUp
<1>7. ASSUME NEW c \in Cpus, IrqWakeUp(c)  PROVE IdleInv' /\ WakeeInv'
    BY Zenon, <1>1, <1>5, <1>7 DEF IrqWakeUp, TypeOK
<1>8. ASSUME NEW c \in Cpus, Tick(c) \/ DeviceIrq(c)  PROVE IdleInv' /\ WakeeInv'
    <2>1. PICK w \in Wakeable \cup {NoThread} : IrqEnter(c, w)
        BY Zenon, <1>8 DEF Tick, DeviceIrq
    <2> QED
        BY Zenon, <1>1, <1>8, <2>1 DEF Tick, DeviceIrq, IrqEnter, Wakeable, IdleInv, WakeeInv, TypeOK
<1>9. ASSUME NEW c \in Cpus, NEW t \in Threads, NEW u \in Threads, ThreadAdd(c, t, u)
      PROVE  IdleInv' /\ WakeeInv'
    BY <1>1, <1>2, <1>9 DEF ThreadAdd, IdleInv, WakeeInv, TypeOK
<1>10. ASSUME NEW c \in Cpus, NEW t \in Threads, AppendUnlock(c, t)
       PROVE  IdleInv' /\ WakeeInv'
    BY Zenon, <1>1, <1>10 DEF AppendUnlock, IdleInv, WakeeInv
<1>11. ASSUME NEW c \in Cpus,
              Switch(c) \/ IrqSoftirq(c) \/ IrqSoftirqEnd(c) \/ IrqExit(c) \/ ReschedIpi(c)
       PROVE  UNCHANGED <<added, cpu, status, wakee>>
    BY Zenon, <1>11 DEF Switch, IrqSoftirq, IrqSoftirqEnd, IrqExit, ReschedIpi
<1>12. ASSUME NEW c \in Cpus, NEW t \in Threads,
              Yield(c, t) \/ DisablePreempt(c, t) \/ EnablePreempt(c, t)
              \/ SoftirqEnd(c, t) \/ ReschedIfNeeded(c, t) \/ ClearResched(c, t)
              \/ AppendLock(c, t)
       PROVE  UNCHANGED <<added, cpu, status, wakee>>
    BY Zenon, <1>12 DEF Yield, DisablePreempt, EnablePreempt, SoftirqEnd,
                 ReschedIfNeeded, ClearResched, AppendLock
<1>13. CASE UNCHANGED vars
    BY Zenon, <1>3, <1>13 DEF vars
<1> QED
    BY Zenon, <1>3, <1>4, <1>6, <1>7, <1>8, <1>9, <1>10, <1>11, <1>12, <1>13
       DEF Next, CpuStep, ThreadStep

\* A thread that executes is added and bound to the CPU it executes on.
LEMMA RunningFacts ==
    ASSUME IInv, NEW c \in Cpus
    PROVE  current[c] \in Threads /\ current[c] \in added /\ cpu[current[c]] = c
BY Zenon DEF IInv, TypeOK, QueuesSound

\* A thread is appended to a run queue by one adder at a time, and only once.
LEMMA AddingStep ==
    ASSUME IInv, [Next]_vars
    PROVE  AddingInv'
<1>1. TypeOK /\ AddingInv
    BY Zenon DEF IInv
<1>2. NoThread \notin Threads
    BY Zenon, ThreadsAssumption
<1>3. CASE UNCHANGED <<adding, tpc, added, status>>
    BY Zenon, <1>1, <1>3 DEF AddingInv
<1>4. ASSUME NEW c \in Cpus, NEW t \in Threads, SetState(c, t) \/ Die(c, t)
      PROVE  AddingInv'
    <2>1. t \in added
        BY Zenon, <1>4, RunningFacts DEF SetState, Die, Running
    <2> QED
        BY <1>1, <1>4, <2>1 DEF SetState, Die, AddingInv, TypeOK
<1>5. ASSUME NEW c \in Cpus, NEW t \in Threads, thread_wake_up(c, t),
             UNCHANGED <<adding, tpc, added>>
      PROVE  AddingInv'
    BY Zenon, <1>1, <1>5 DEF thread_wake_up, AddingInv, TypeOK
<1>6. ASSUME NEW c \in Cpus, NEW t \in Threads, WakeUp(c, t)  PROVE AddingInv'
    BY Zenon, <1>5, <1>6 DEF WakeUp
<1>7. ASSUME NEW c \in Cpus, IrqWakeUp(c)  PROVE AddingInv'
    BY Zenon, <1>1, <1>5, <1>7 DEF IrqWakeUp, TypeOK
<1>8. ASSUME NEW c \in Cpus, NEW t \in Threads,
             EnablePreempt(c, t) \/ SoftirqEnd(c, t) \/ ReschedIfNeeded(c, t)
             \/ ClearResched(c, t)
      PROVE  AddingInv'
    <2>1. t \in added /\ tpc[t] \notin {"add", "adding"}
        BY Zenon, <1>8, RunningFacts
           DEF EnablePreempt, SoftirqEnd, ReschedIfNeeded, ClearResched, Running
    <2>2. UNCHANGED <<adding, added, status>>
        BY Zenon, <1>8 DEF EnablePreempt, SoftirqEnd, ReschedIfNeeded, ClearResched
    <2>3. \E pc \in ThreadPoints \ {"add", "adding"} : tpc' = [tpc EXCEPT ![t] = pc]
        BY Zenon, <1>8 DEF EnablePreempt, sched_enable_preempt, SoftirqEnd,
                    ReschedIfNeeded, ClearResched, ThreadPoints
    <2> QED
        BY <1>1, <2>1, <2>2, <2>3 DEF AddingInv, TypeOK
<1>9. ASSUME NEW c \in Cpus, NEW t \in Threads, NEW u \in Threads, ThreadAdd(c, t, u)
      PROVE  AddingInv'
    <2>1. t \in added
        BY Zenon, <1>9, RunningFacts DEF ThreadAdd, Running
    <2> QED
        BY <1>1, <1>2, <1>9, <2>1 DEF ThreadAdd, AddingInv, TypeOK
<1>10. ASSUME NEW c \in Cpus, NEW t \in Threads, AppendLock(c, t)  PROVE AddingInv'
    <2>1. t \in added
        BY Zenon, <1>10, RunningFacts DEF AppendLock, Running
    <2> QED
        BY Zenon, <1>1, <1>10, <2>1 DEF AppendLock, Running, AddingInv, TypeOK
<1>11. ASSUME NEW c \in Cpus, NEW t \in Threads, AppendUnlock(c, t)
       PROVE  AddingInv'
    <2>1. t \in added
        BY Zenon, <1>11, RunningFacts DEF AppendUnlock, Running
    <2>2. /\ adding' = [adding EXCEPT ![t] = NoThread]
          /\ added' = added \cup {adding[t]}
          /\ status' = status
          /\ \E pc \in ThreadPoints \ {"add", "adding"} : tpc' = [tpc EXCEPT ![t] = pc]
        BY Zenon, <1>11 DEF AppendUnlock, sched_enable_preempt, ThreadPoints
    <2>3. adding[t] # NoThread
        BY Zenon, <1>1, <1>11 DEF AppendUnlock, Running, AddingInv
    <2> QED
        BY <1>1, <2>1, <2>2, <2>3 DEF AddingInv, TypeOK
<1>12. ASSUME NEW c \in Cpus, CpuStep(c), ~ IrqWakeUp(c)
       PROVE  UNCHANGED <<adding, tpc, added, status>>
    BY Zenon, <1>12 DEF CpuStep, Switch, Tick, DeviceIrq, IrqSoftirq, IrqSoftirqEnd,
                 IrqExit, ReschedIpi
<1>13. ASSUME NEW c \in Cpus, NEW t \in Threads, Yield(c, t) \/ DisablePreempt(c, t)
       PROVE  UNCHANGED <<adding, tpc, added, status>>
    BY Zenon, <1>13 DEF Yield, DisablePreempt
<1>14. CASE UNCHANGED vars
    BY Zenon, <1>3, <1>14 DEF vars
<1> QED
    BY Zenon, <1>3, <1>4, <1>6, <1>7, <1>8, <1>9, <1>10, <1>11, <1>12, <1>13, <1>14
       DEF Next, ThreadStep

\* Preemption is disabled exactly where the scheduler's code relies on it.
LEMMA PreemptStep ==
    ASSUME IInv, [Next]_vars
    PROVE  PreemptInv'
<1>1. TypeOK /\ PreemptInv
    BY Zenon DEF IInv
<1>2. \A c \in Cpus : current[c] \in Threads /\ cpu[current[c]] = c
    BY Zenon, RunningFacts
<1>3. CASE UNCHANGED <<ctx, preempt, tpc, current, cpu>>
    BY Zenon, <1>1, <1>3 DEF PreemptInv, Switching
<1>4. ASSUME NEW c \in Cpus, Switch(c)  PROVE PreemptInv'
    <2>1. \A t \in Threads : tpc[t] \in Pinned => cpu[t] # c
        BY <1>1, <1>4 DEF Switch, PreemptInv, Switching
    <2>2. preempt[c] = 0
        BY Zenon, <1>1, <1>4 DEF Switch, PreemptInv, Switching
    <2>3. \A d \in Cpus : d # c => current'[d] = current[d] /\ ctx'[d] = ctx[d]
        BY Zenon, <1>1, <1>4 DEF Switch, TypeOK
    <2>4. ctx'[c] = "thread" /\ UNCHANGED <<preempt, tpc, cpu>>
        BY Zenon, <1>1, <1>4 DEF Switch, TypeOK
    <2> QED
        BY Zenon, <1>1, <2>1, <2>2, <2>3, <2>4 DEF PreemptInv, Switching, TypeOK
<1>5. ASSUME NEW c \in Cpus, Tick(c) \/ DeviceIrq(c)  PROVE PreemptInv'
    <2>1. /\ ctx[c] \in {"thread", "softirq"}
          /\ ctx' = [ctx EXCEPT ![c] = IF @ = "thread" THEN "irq" ELSE "irq2"]
          /\ UNCHANGED <<preempt, tpc, current, cpu>>
        BY Zenon, <1>5 DEF Tick, DeviceIrq, IrqEnter
    <2> QED
        BY Zenon, <1>1, <2>1 DEF PreemptInv, Switching, TypeOK
<1>6. ASSUME NEW c \in Cpus, IrqSoftirq(c)  PROVE PreemptInv'
    BY <1>1, <1>2, <1>6 DEF IrqSoftirq, PreemptInv, Switching, TypeOK
<1>7. ASSUME NEW c \in Cpus, IrqSoftirqEnd(c)  PROVE PreemptInv'
    <2>1. /\ ctx[c] = "softirq"
          /\ preempt' = [preempt EXCEPT ![c] = 0]
          /\ \E x \in {"thread", "preempted"} : ctx' = [ctx EXCEPT ![c] = x]
          /\ UNCHANGED <<tpc, current, cpu>>
        BY Zenon, <1>7 DEF IrqSoftirqEnd, check_for_resched, sched_preempt_thread
    <2> QED
        BY SMTT(30), <1>1, <1>2, <2>1 DEF PreemptInv, Switching, TypeOK
<1>8. ASSUME NEW c \in Cpus, IrqExit(c) \/ ReschedIpi(c)  PROVE PreemptInv'
    <2>1. /\ ctx[c] \notin {"yielded", "preempted"}
          /\ \/ /\ ctx[c] \in {"thread", "irq"}
                /\ ctx' = [ctx EXCEPT ![c] = "thread"]
             \/ /\ ctx[c] \in {"softirq", "irq2"}
                /\ ctx' = [ctx EXCEPT ![c] = "softirq"]
             \/ preempt[c] = 0 /\ ctx' = [ctx EXCEPT ![c] = "preempted"]
          /\ UNCHANGED <<preempt, tpc, current, cpu>>
        BY Zenon, <1>1, <1>8 DEF IrqExit, ReschedIpi, check_for_resched,
                          sched_preempt_thread, TypeOK
    <2> QED
        BY <1>1, <2>1 DEF PreemptInv, Switching, TypeOK
<1>9. ASSUME NEW c \in Cpus, NEW t \in Threads, Yield(c, t)  PROVE PreemptInv'
    BY Zenon, <1>1, <1>9 DEF Yield, Running, PreemptInv, Switching, TypeOK
<1>10. ASSUME NEW c \in Cpus, NEW t \in Threads, DisablePreempt(c, t)
       PROVE  PreemptInv'
    BY Zenon, <1>1, <1>10 DEF DisablePreempt, Running, PreemptInv, Switching, Pinned,
                       Checking, TypeOK
<1>11. ASSUME NEW c \in Cpus, NEW t \in Threads, Running(c, t, tpc[t]),
              preempt[c] > 0, tpc[t] \in Pinned \cup {"run"},
              sched_enable_preempt(c, t), UNCHANGED <<ctx, current, cpu>>
       PROVE  PreemptInv'
    BY SMTT(30), <1>1, <1>2, <1>11 DEF sched_enable_preempt, Running, PreemptInv,
                             Switching, Pinned, Checking, TypeOK
<1>12. ASSUME NEW c \in Cpus, NEW t \in Threads, EnablePreempt(c, t)
       PROVE  PreemptInv'
    BY Zenon, <1>11, <1>12 DEF EnablePreempt, Running
<1>13. ASSUME NEW c \in Cpus, NEW t \in Threads, SoftirqEnd(c, t)
       PROVE  PreemptInv'
    BY <1>1, <1>2, <1>13 DEF SoftirqEnd, Running, PreemptInv, Switching, Pinned,
                             Checking, TypeOK
<1>14. ASSUME NEW c \in Cpus, NEW t \in Threads, ReschedIfNeeded(c, t)
       PROVE  PreemptInv'
    BY <1>1, <1>2, <1>14 DEF ReschedIfNeeded, Running, PreemptInv, Switching,
                             Pinned, Checking, TypeOK
<1>15. ASSUME NEW c \in Cpus, NEW t \in Threads, ClearResched(c, t)
       PROVE  PreemptInv'
    BY <1>1, <1>2, <1>15 DEF ClearResched, Running, PreemptInv, Switching,
                             Pinned, Checking, TypeOK
<1>16. ASSUME NEW c \in Cpus, NEW t \in Threads, NEW u \in Threads, ThreadAdd(c, t, u)
       PROVE  PreemptInv'
    <2>1. u \notin added /\ tpc[u] = "run"
        BY Zenon, <1>16 DEF ThreadAdd, IInv, AddingInv
    <2>2. u # t
        BY Zenon, <1>16, <2>1, RunningFacts DEF ThreadAdd, Running
    <2> QED
        BY SMTT(30), <1>1, <1>2, <1>16, <2>1, <2>2
           DEF ThreadAdd, Running, PreemptInv, Switching, Pinned, Checking, TypeOK
<1>17. ASSUME NEW c \in Cpus, NEW t \in Threads, AppendLock(c, t)
       PROVE  PreemptInv'
    BY SMTT(30), <1>1, <1>2, <1>17 DEF AppendLock, Running, PreemptInv, Switching, Pinned,
                             Checking, TypeOK
<1>18. ASSUME NEW c \in Cpus, NEW t \in Threads, AppendUnlock(c, t)
       PROVE  PreemptInv'
    <2>1. preempt[c] > 0 /\ tpc[t] \in Pinned
        BY Zenon, <1>1, <1>2, <1>18 DEF AppendUnlock, Running, PreemptInv, Pinned
    <2> QED
        BY Zenon, <1>11, <1>18, <2>1 DEF AppendUnlock, Running
<1>19. ASSUME NEW c \in Cpus, NEW t \in Threads,
              SetState(c, t) \/ Die(c, t) \/ WakeUp(c, t) \/ IrqWakeUp(c)
       PROVE  UNCHANGED <<ctx, preempt, tpc, current, cpu>>
    BY Zenon, <1>19 DEF SetState, Die, WakeUp, IrqWakeUp
<1>20. CASE UNCHANGED vars
    BY Zenon, <1>3, <1>20 DEF vars
<1> QED
    BY Zenon, <1>2, <1>3, <1>4, <1>5, <1>6, <1>7, <1>8, <1>9, <1>10, <1>12, <1>13, <1>14,
       <1>15, <1>16, <1>17, <1>18, <1>19, <1>20
       DEF Next, CpuStep, ThreadStep

\* scheduler_lock has one holder, and the holder is on its processor.
LEMMA LockStep ==
    ASSUME IInv, [Next]_vars
    PROVE  LockInv'
<1>1. TypeOK /\ LockInv /\ AddingInv
    BY Zenon DEF IInv
<1>2. \A c \in Cpus : current[c] \in Threads /\ cpu[current[c]] = c
    BY Zenon, RunningFacts
<1>3. CASE UNCHANGED <<lock, tpc, current, cpu, adding>>
    BY Zenon, <1>1, <1>3 DEF LockInv
<1>4. ASSUME NEW c \in Cpus, Switch(c)  PROVE LockInv'
    <2>1. tpc[current[c]] # "adding"
        BY <1>2, <1>4 DEF Switch, IInv, PreemptInv, Switching, Pinned
    <2>2. \A d \in Cpus : lock[d] # c + 1
        BY Zenon, <1>1, <2>1 DEF LockInv
    <2>3. \A d \in Cpus : d # c => current'[d] = current[d]
        BY Zenon, <1>1, <1>4 DEF Switch, TypeOK
    <2>4. UNCHANGED <<lock, tpc, cpu, adding>>
        BY Zenon, <1>4 DEF Switch
    <2> QED
        BY <1>1, <2>2, <2>3, <2>4 DEF LockInv
<1>5. ASSUME NEW c \in Cpus, NEW t \in Threads,
             EnablePreempt(c, t) \/ SoftirqEnd(c, t) \/ ReschedIfNeeded(c, t)
             \/ ClearResched(c, t)
      PROVE  LockInv'
    <2>1. current[c] = t /\ tpc[t] # "adding"
        BY Zenon, <1>5 DEF EnablePreempt, SoftirqEnd, ReschedIfNeeded, ClearResched, Running
    <2>2. UNCHANGED <<lock, current, cpu, adding>>
        BY Zenon, <1>5 DEF EnablePreempt, SoftirqEnd, ReschedIfNeeded, ClearResched
    <2>3. \E pc \in ThreadPoints \ {"adding"} : tpc' = [tpc EXCEPT ![t] = pc]
        BY Zenon, <1>5 DEF EnablePreempt, sched_enable_preempt, SoftirqEnd,
                    ReschedIfNeeded, ClearResched, ThreadPoints
    <2> QED
        BY SMTT(30), <1>1, <1>2, <2>1, <2>2, <2>3 DEF LockInv, TypeOK
<1>6. ASSUME NEW c \in Cpus, NEW t \in Threads, NEW u \in Threads, ThreadAdd(c, t, u)
      PROVE  LockInv'
    <2>1. /\ current[c] = t /\ tpc[t] = "run" /\ u \notin added
          /\ tpc' = [tpc EXCEPT ![t] = "add"]
          /\ adding' = [adding EXCEPT ![t] = u]
          /\ \A x \in Threads : adding[x] # u
          /\ UNCHANGED <<lock, current>>
        BY Zenon, <1>6 DEF ThreadAdd, Running
    <2>2. \A x \in Threads : x # u => cpu'[x] = cpu[x]
        BY Zenon, <1>1, <1>6 DEF ThreadAdd, TypeOK
    <2>3. \A x \in Threads : tpc[x] = "adding" => x # u /\ x # t /\ adding[x] \in Threads
        BY SMTT(30), <1>1, <2>1 DEF AddingInv, TypeOK
    <2> QED
        BY <1>1, <1>2, <2>1, <2>2, <2>3 DEF LockInv, TypeOK
<1>7. ASSUME NEW c \in Cpus, NEW t \in Threads, AppendLock(c, t)  PROVE LockInv'
    <2>1. /\ current[c] = t /\ cpu[t] = c /\ tpc[t] = "add"
          /\ adding[t] \in Threads
          /\ cpu[adding[t]] \in Cpus
          /\ lock[cpu[adding[t]]] = 0
          /\ lock' = [lock EXCEPT ![cpu[adding[t]]] = c + 1]
          /\ tpc' = [tpc EXCEPT ![t] = "adding"]
          /\ UNCHANGED <<current, cpu, adding>>
        BY <1>1, <1>2, <1>7 DEF AppendLock, Running, AddingInv, TypeOK
    <2>2. \A x, y \in Cpus : x + 1 # 0 /\ (x + 1 = y + 1 => x = y)
        BY CpusAssumption
    <2>3. \A x \in Threads : tpc[x] = "adding" => x # t /\ adding[x] \in Threads
        BY <1>1, <2>1 DEF AddingInv, TypeOK
    <2>4. \A x \in Threads : cpu[x] \in Cpus
        BY Zenon, <1>1 DEF TypeOK
    <2>5. ASSUME NEW x \in Cpus, NEW d \in Cpus, lock'[d] = x + 1
          PROVE  tpc'[current[x]] = "adding" /\ cpu[adding[current[x]]] = d
        BY <1>1, <1>2, <2>1, <2>2, <2>3, <2>5 DEF LockInv, TypeOK
    <2>6. ASSUME NEW x \in Threads, tpc'[x] = "adding"
          PROVE  lock'[cpu[adding[x]]] = cpu[x] + 1
        BY <1>1, <1>2, <2>1, <2>2, <2>3, <2>4, <2>6 DEF LockInv, TypeOK
    <2> QED
        BY <2>1, <2>5, <2>6 DEF LockInv
<1>8. ASSUME NEW c \in Cpus, NEW t \in Threads, AppendUnlock(c, t)  PROVE LockInv'
    <2>1. /\ current[c] = t /\ cpu[t] = c /\ tpc[t] = "adding"
          /\ adding[t] \in Threads
          /\ cpu[adding[t]] \in Cpus
          /\ lock' = [lock EXCEPT ![cpu[adding[t]]] = 0]
          /\ adding' = [adding EXCEPT ![t] = NoThread]
          /\ UNCHANGED <<current, cpu>>
        BY <1>1, <1>2, <1>8 DEF AppendUnlock, Running, AddingInv, TypeOK
    <2>2. \E pc \in ThreadPoints \ {"adding"} : tpc' = [tpc EXCEPT ![t] = pc]
        BY Zenon, <1>8 DEF AppendUnlock, sched_enable_preempt, ThreadPoints
    <2>3. \A x, y \in Cpus : x + 1 # 0 /\ (x + 1 = y + 1 => x = y)
        BY CpusAssumption
    <2>4. \A x \in Threads : cpu[x] \in Cpus
        BY Zenon, <1>1 DEF TypeOK
    <2>5. ASSUME NEW x \in Cpus, NEW d \in Cpus, lock'[d] = x + 1
          PROVE  tpc'[current[x]] = "adding" /\ cpu[adding'[current[x]]] = d
        <3>1. d # cpu[adding[t]] /\ lock[d] = x + 1
            BY Zenon, <1>1, <2>1, <2>3, <2>5 DEF TypeOK
        <3>2. tpc[current[x]] = "adding" /\ cpu[adding[current[x]]] = d
            BY Zenon, <1>1, <3>1 DEF LockInv
        <3>3. current[x] # t /\ current[x] \in Threads
            BY Zenon, <1>2, <3>1, <3>2
        <3> QED
            BY Zenon, <1>1, <2>1, <2>2, <3>2, <3>3 DEF TypeOK
    <2>6. ASSUME NEW x \in Threads, tpc'[x] = "adding"
          PROVE  lock'[cpu[adding'[x]]] = cpu[x] + 1
        <3>1. x # t /\ tpc[x] = "adding" /\ adding'[x] = adding[x]
            BY Zenon, <1>1, <2>1, <2>2, <2>6 DEF TypeOK
        <3>2. lock[cpu[adding[x]]] = cpu[x] + 1 /\ adding[x] \in Threads
            BY SMTT(30), <1>1, <3>1 DEF LockInv, AddingInv, TypeOK
        <3>3. current[cpu[x]] = x
            BY Zenon, <3>1 DEF IInv, PreemptInv, Pinned
        <3>4. cpu[adding[x]] # cpu[adding[t]]
            <4>1. lock[cpu[adding[t]]] = cpu[t] + 1
                BY Zenon, <1>1, <2>1 DEF LockInv
            <4>2. cpu[x] # cpu[t]
                BY Zenon, <2>1, <3>1, <3>3
            <4> QED
                BY Zenon, <2>3, <2>4, <3>2, <4>1, <4>2
        <3> QED
            BY Zenon, <1>1, <2>1, <2>4, <3>1, <3>2, <3>4 DEF TypeOK
    <2> QED
        BY <2>1, <2>5, <2>6 DEF LockInv
<1>9. ASSUME NEW c \in Cpus, CpuStep(c), ~ Switch(c)
      PROVE  UNCHANGED <<lock, tpc, current, cpu, adding>>
    BY Zenon, <1>9 DEF CpuStep, Tick, DeviceIrq, IrqWakeUp, IrqSoftirq, IrqSoftirqEnd,
                IrqExit, ReschedIpi
<1>10. ASSUME NEW c \in Cpus, NEW t \in Threads,
              SetState(c, t) \/ Die(c, t) \/ Yield(c, t) \/ DisablePreempt(c, t)
              \/ WakeUp(c, t)
       PROVE  UNCHANGED <<lock, tpc, current, cpu, adding>>
    BY Zenon, <1>10 DEF SetState, Die, Yield, DisablePreempt, WakeUp
<1>11. CASE UNCHANGED vars
    BY Zenon, <1>3, <1>11 DEF vars
<1> QED
    BY Zenon, <1>3, <1>4, <1>5, <1>6, <1>7, <1>8, <1>9, <1>10, <1>11 DEF Next, ThreadStep

\* A thread that announced a sleep is not preempted before its sched_yield.
LEMMA SleepersStep ==
    ASSUME IInv, [Next]_vars
    PROVE  PreemptionKeepsSleepers'
<1> DEFINE Sleep == {"INTERRUPTIBLE", "UNINTERRUPTIBLE"}
<1>1. TypeOK /\ PreemptionKeepsSleepers
    BY Zenon DEF IInv
<1>2. \A c \in Cpus : current[c] \in Threads /\ cpu[current[c]] = c
    BY Zenon, RunningFacts
<1>3. CASE /\ UNCHANGED <<current, status>>
           /\ \A c \in Cpus : ctx'[c] = "preempted" =>
                  ctx[c] = "preempted" \/ status[current[c]] \notin Sleep
    BY Zenon, <1>1, <1>3 DEF PreemptionKeepsSleepers
<1>4. ASSUME NEW c \in Cpus, Switch(c)  PROVE PreemptionKeepsSleepers'
    <2>1. \A d \in Cpus : d # c => current'[d] = current[d] /\ ctx'[d] = ctx[d]
        BY Zenon, <1>1, <1>4 DEF Switch, TypeOK
    <2>2. ctx'[c] = "thread" /\ UNCHANGED status
        BY Zenon, <1>1, <1>4 DEF Switch, TypeOK
    <2> QED
        BY Zenon, <1>1, <2>1, <2>2 DEF PreemptionKeepsSleepers
<1>5. ASSUME NEW c \in Cpus, NEW t \in Threads, SetState(c, t) \/ Die(c, t)
      PROVE  PreemptionKeepsSleepers'
    <2>1. ctx[c] = "thread" /\ current[c] = t /\ UNCHANGED <<ctx, current>>
        BY Zenon, <1>5 DEF SetState, Die, Running
    <2>2. \A u \in Threads : u # t => status'[u] = status[u]
        BY Zenon, <1>1, <1>5 DEF SetState, Die, TypeOK
    <2> QED
        BY <1>1, <1>2, <2>1, <2>2 DEF PreemptionKeepsSleepers
<1>6. ASSUME NEW c \in Cpus, NEW t \in Threads, thread_wake_up(c, t),
             UNCHANGED <<ctx, current>>
      PROVE  PreemptionKeepsSleepers'
    BY Zenon, <1>1, <1>2, <1>6 DEF thread_wake_up, PreemptionKeepsSleepers, TypeOK
<1>7. ASSUME NEW c \in Cpus, NEW t \in Threads, WakeUp(c, t)
      PROVE  PreemptionKeepsSleepers'
    BY Zenon, <1>6, <1>7 DEF WakeUp
<1>8. ASSUME NEW c \in Cpus, IrqWakeUp(c)  PROVE PreemptionKeepsSleepers'
    BY Zenon, <1>1, <1>6, <1>8 DEF IrqWakeUp, TypeOK
<1>9. ASSUME NEW c \in Cpus, NEW n, NEW b \in Contexts \ {"preempted"},
             sched_preempt_thread(c, n, b)
      PROVE  \A d \in Cpus : ctx'[d] = "preempted" =>
                 ctx[d] = "preempted" \/ status[current[d]] \notin Sleep
    BY Zenon, <1>1, <1>9 DEF sched_preempt_thread, TypeOK
<1>10. ASSUME NEW c \in Cpus, IrqExit(c) \/ IrqSoftirqEnd(c) \/ ReschedIpi(c)
       PROVE  PreemptionKeepsSleepers'
    <2>1. UNCHANGED <<current, status>>
        BY ZenonT(30), <1>10 DEF IrqExit, IrqSoftirqEnd, ReschedIpi
    <2>2. \E n, b : /\ b \in Contexts \ {"preempted"}
                    /\ \/ sched_preempt_thread(c, n, b)
                       \/ ctx' = [ctx EXCEPT ![c] = b]
        BY Zenon, <1>10 DEF IrqExit, IrqSoftirqEnd, ReschedIpi, check_for_resched, Contexts
    <2> QED
        BY Zenon, <1>1, <1>3, <1>9, <2>1, <2>2 DEF TypeOK
<1>11. ASSUME NEW c \in Cpus, Tick(c) \/ DeviceIrq(c) \/ IrqSoftirq(c)
       PROVE  PreemptionKeepsSleepers'
    <2>1. UNCHANGED <<current, status>>
        BY Zenon, <1>11 DEF Tick, DeviceIrq, IrqSoftirq
    <2>2. \E x \in Contexts \ {"preempted"} : ctx' = [ctx EXCEPT ![c] = x]
        BY Zenon, <1>11 DEF Tick, DeviceIrq, IrqEnter, IrqSoftirq, Contexts
    <2> QED
        BY Zenon, <1>1, <1>3, <2>1, <2>2 DEF TypeOK
<1>12. ASSUME NEW c \in Cpus, NEW t \in Threads, NEW u \in Threads,
              Yield(c, t) \/ DisablePreempt(c, t) \/ EnablePreempt(c, t)
              \/ SoftirqEnd(c, t) \/ ReschedIfNeeded(c, t) \/ ClearResched(c, t)
              \/ ThreadAdd(c, t, u) \/ AppendLock(c, t) \/ AppendUnlock(c, t)
       PROVE  PreemptionKeepsSleepers'
    <2>1. UNCHANGED <<current, status>>
        BY Zenon, <1>12 DEF Yield, DisablePreempt, EnablePreempt, SoftirqEnd,
                     ReschedIfNeeded, ClearResched, ThreadAdd, AppendLock, AppendUnlock
    <2>2. UNCHANGED ctx \/ ctx' = [ctx EXCEPT ![c] = "yielded"]
        BY Zenon, <1>12 DEF Yield, DisablePreempt, EnablePreempt, SoftirqEnd,
                     ReschedIfNeeded, ClearResched, ThreadAdd, AppendLock, AppendUnlock
    <2> QED
        BY Zenon, <1>1, <1>3, <2>1, <2>2 DEF TypeOK
<1>13. CASE UNCHANGED vars
    BY Zenon, <1>3, <1>13 DEF vars
<1> QED
    BY Zenon, <1>4, <1>5, <1>7, <1>8, <1>10, <1>11, <1>12, <1>13
       DEF Next, CpuStep, ThreadStep

-----------------------------------------------------------------------------
LEMMA InitIInv ==
    ASSUME Init
    PROVE  IInv
<1>1. /\ InitCpu \in [Threads -> Cpus]
      /\ \A c \in Cpus : InitCpu[IdleOf[c]] = c
      /\ InitQueue \in QueueType
      /\ \A c \in Cpus, p \in Prios : \A i \in DOMAIN InitQueue[c][p] :
            InitQueue[c][p][i] \in Threads \ Idle
    BY SMTT(30), InitAssumption DEF QueueType
<1>2. \A t \in Threads : cpu[t] \in Cpus /\ Priority[t] \in Prios
    BY Zenon, <1>1, PrioAssumption DEF Init
<1>3. added \subseteq Threads
    BY Zenon, ThreadsAssumption DEF Init, Idle
<1>4. \A c \in Cpus : Cardinality({t \in added \ Idle : cpu[t] = c}) \in Nat
    BY Zenon, <1>3, ThreadsAssumption
<1>5. TypeOK
    BY <1>1, <1>3, <1>4, ThreadsAssumption, QuantumAssumption
       DEF Init, TypeOK, Statuses, Contexts, ThreadPoints, Quanta
<1>6. QueuesSound
    <2>1. \A c \in Cpus : current[c] \in added /\ cpu[current[c]] = c /\ current[c] \in Idle
        BY Zenon, <1>1, ThreadsAssumption DEF Init, Idle
    <2>2. ASSUME NEW c \in Cpus, NEW p \in Prios, NEW i \in DOMAIN queue[c][p]
          PROVE  /\ queue[c][p][i] \in Threads \ Idle
                 /\ cpu[queue[c][p][i]] = c
                 /\ Priority[queue[c][p][i]] = p
                 /\ \A j \in DOMAIN queue[c][p] : queue[c][p][j] = queue[c][p][i] => j = i
        BY Zenon, <1>1, InitAssumption DEF Init
    <2>3. ASSUME NEW c \in Cpus, NEW p \in Prios, NEW i \in DOMAIN queue[c][p]
          PROVE  queue[c][p][i] \in added
        <3> DEFINE t == queue[c][p][i]
        <3>2. cpu[t] = c /\ Priority[t] = p
            BY Zenon, <2>2
        <3>3. i \in DOMAIN queue[cpu[t]][Priority[t]] /\ queue[cpu[t]][Priority[t]][i] = t
            BY Zenon, <3>2
        <3>1. Queued(t)
            BY Zenon, <3>3 DEF Queued
        <3>4. t \in Threads
            BY Zenon, <2>2
        <3> HIDE DEF t
        <3>5. t \in added
            BY Zenon, <3>1, <3>4 DEF Init
        <3> QED
            BY Zenon, <3>5 DEF t
    <2>4. \A t \in Threads : status[t] = "RUNNABLE"
        BY Zenon DEF Init
    <2> QED
        BY <2>1, <2>2, <2>3, <2>4 DEF QueuesSound
<1>7. NoThreadLost
    BY <1>1, ThreadsAssumption DEF Init, NoThreadLost, Idle
<1>8. IdleInv /\ WakeeInv
    BY Zenon, <1>1, ThreadsAssumption DEF Init, IdleInv, WakeeInv, Idle
<1>9. AddingInv
    BY Zenon DEF Init, AddingInv
<1>10. PreemptInv /\ PreemptionKeepsSleepers
    BY Zenon, ThreadsAssumption
       DEF Init, PreemptInv, PreemptionKeepsSleepers, Switching, Pinned, Checking
<1>11. LockInv
    BY CpusAssumption, ThreadsAssumption DEF Init, LockInv
<1> QED
    BY Zenon, <1>5, <1>6, <1>7, <1>8, <1>9, <1>10, <1>11 DEF IInv

\* The inductive invariant holds in every reachable state, for any number of
\* CPUs, threads and priorities.
THEOREM Invariance == Spec => []IInv
<1>1. Init => IInv
    BY Zenon, InitIInv
<1>2. IInv /\ [Next]_vars => IInv'
    BY Zenon, TypeStep, QueuesStep, IdleWakeeStep, AddingStep, PreemptStep,
       SleepersStep, LockStep DEF IInv
<1> QED
    BY <1>1, <1>2, PTL DEF Spec

\* Every variable of the scheduler keeps its type: no counter of preemption
\* goes below zero and no quantum leaves the range of a uint32_t.
THEOREM TypeCorrect == Spec => []TypeOK
BY Invariance, PTL DEF IInv

\* The run queues only hold runnable threads of their CPU and priority, once,
\* and never the running one (the assertions of __sched_append_to_queue).
THEOREM RunQueuesSound == Spec => []QueuesSound
BY Invariance, PTL DEF IInv

\* A runnable thread is always running or queued: __thread_wake_up, racing
\* with sched_yield and with preemption, never loses a thread.
THEOREM RunnableNotLost == Spec => []NoThreadLost
BY Invariance, PTL DEF IInv

\* A thread that announced a sleep is never taken off the processor by an
\* interrupt (THREAD_ACTIVE in sched_schedule).
THEOREM SleepersKept == Spec => []PreemptionKeepsSleepers
BY Invariance, PTL DEF IInv

\* sched_find_runnable always finds a thread and never panics.
THEOREM FindRunnable == Spec => []AlwaysSomeoneToRun
<1>1. ASSUME IInv, NEW c \in Cpus  PROVE Ready(Requeued(c), c) # {}
    <2>1. /\ queue \in QueueType
          /\ current[c] \in Threads
          /\ IdleOf[c] \in Threads
          /\ \A t \in Threads : Priority[t] \in Prios
        BY Zenon, <1>1, ThreadsAssumption, PrioAssumption DEF IInv, TypeOK
    <2>2. CASE status[current[c]] = "RUNNABLE"
        <3>1. Requeued(c)[c][Priority[current[c]]] = Append(queue[c][Priority[current[c]]], current[c])
            BY SMTT(30), <2>1, <2>2, AppendToFacts DEF Requeued
        <3>2. queue[c][Priority[current[c]]] \in Seq(Threads)
            BY Zenon, <2>1 DEF QueueType
        <3>3. Requeued(c)[c][Priority[current[c]]] # <<>>
            <4>1. Append(queue[c][Priority[current[c]]], current[c]) # <<>>
                BY <2>1, <3>2, AppendElements
            <4> QED
                BY Zenon, <3>1, <4>1
        <3> QED
            BY Zenon, <2>1, <3>3 DEF Ready
    <2>3. CASE status[current[c]] # "RUNNABLE"
        <3>1. /\ IdleOf[c] \in added /\ cpu[IdleOf[c]] = c
              /\ status[IdleOf[c]] = "RUNNABLE"
            BY Zenon, <1>1 DEF IInv, IdleInv
        <3>2. Queued(IdleOf[c])
            BY Zenon, <1>1, <2>3, <3>1 DEF IInv, NoThreadLost
        <3>3. queue[c][Priority[IdleOf[c]]] # <<>>
            BY <3>1, <3>2 DEF Queued
        <3> QED
            BY Zenon, <2>1, <2>3, <3>3 DEF Ready, Requeued
    <2> QED
        BY Zenon, <2>2, <2>3
<1>2. IInv => AlwaysSomeoneToRun
    BY Zenon, <1>1 DEF AlwaysSomeoneToRun
<1> QED
    BY <1>2, Invariance, PTL

\* Whoever holds scheduler_lock in sched_append_to_queue is on a processor,
\* with preemption disabled.
THEOREM HolderOnProcessor == Spec => []LockHolderRuns
<1>1. ASSUME IInv, NEW c \in Cpus, NEW d \in Cpus, lock[d] = c + 1
      PROVE  /\ tpc[current[c]] = "adding"
             /\ cpu[adding[current[c]]] = d
             /\ preempt[c] > 0
    <2>1. tpc[current[c]] = "adding" /\ cpu[adding[current[c]]] = d
        BY Zenon, <1>1 DEF IInv, LockInv
    <2>2. current[c] \in Threads /\ cpu[current[c]] = c
        BY Zenon, <1>1, RunningFacts
    <2> QED
        BY Zenon, <1>1, <2>1, <2>2 DEF IInv, PreemptInv, Pinned
<1>2. IInv => LockHolderRuns
    BY Zenon, <1>1 DEF LockHolderRuns, IInv, PreemptInv, Switching
<1> QED
    BY <1>2, Invariance, PTL
-----------------------------------------------------------------------------
(* The contract with the sleeping primitives.                              *)

\* The refinement mapping of TS.
Parked == [t \in Threads |->
              /\ \A c \in Cpus : current[c] # t
              /\ \A i \in DOMAIN queue[cpu[t]][Priority[t]] :
                     queue[cpu[t]][Priority[t]][i] # t]

\* The same without the queues: a thread is parked if it was not added yet, or
\* sleeps and is not the current thread.
Off(t) == t \notin added \/ (status[t] # "RUNNABLE" /\ current[cpu[t]] # t)

\* Functions to BOOLEAN that are equivalent everywhere are equal.
LEMMA BooleanFunctions ==
    ASSUME NEW S, NEW f \in [S -> BOOLEAN], NEW g \in [S -> BOOLEAN],
           \A x \in S : f[x] <=> g[x]
    PROVE  f = g
<1>1. \A x \in S : f[x] = g[x]
    BY Zenon
<1> QED
    BY <1>1

\* The invariant makes the two descriptions agree.
LEMMA ParkedForm == IInv => \A t \in Threads : Parked[t] <=> Off(t)
<1> SUFFICES ASSUME IInv, NEW t \in Threads
             PROVE  Parked[t] <=> Off(t)
    BY Zenon
<1>1. TypeOK /\ QueuesSound /\ NoThreadLost
    BY Zenon DEF IInv
<1>2. Parked[t] <=> (\A c \in Cpus : current[c] # t) /\ ~Queued(t)
    BY Zenon DEF Parked, Queued
<1>3. cpu[t] \in Cpus /\ Priority[t] \in Prios
    BY Zenon, <1>1, PrioAssumption DEF TypeOK
<1>4. Queued(t) => t \in added /\ status[t] = "RUNNABLE"
    BY <1>1, <1>3 DEF QueuesSound, Queued
<1>5. \A c \in Cpus : current[c] = t => t \in added /\ cpu[t] = c
    BY <1>1 DEF QueuesSound
<1>6. t \in added /\ status[t] = "RUNNABLE" => Queued(t) \/ current[cpu[t]] = t
    BY Zenon, <1>1 DEF NoThreadLost
<1> QED
    BY Zenon, <1>2, <1>3, <1>4, <1>5, <1>6 DEF Off

\* What a step makes of the mapping.
LEMMA ParkedNext ==
    ASSUME IInv', NEW g \in [Threads -> BOOLEAN], \A t \in Threads : Off(t)' <=> g[t]
    PROVE  Parked' = g
<1>1. (\A t \in Threads : Parked[t] <=> Off(t))'
    BY ParkedForm, PTL
<1>2. Parked' \in [Threads -> BOOLEAN]
    BY Zenon DEF Parked
<1>3. \A t \in Threads : Parked'[t] <=> g[t]
    BY Zenon, <1>1
<1> QED
    BY Zenon, <1>2, <1>3, BooleanFunctions

\* A step that changes neither a status nor who is off the processor.
LEMMA ContractStutter ==
    ASSUME IInv, IInv', status' = status, \A t \in Threads : Off(t)' <=> Off(t)
    PROVE  UNCHANGED TS!tsVars
<1>1. Parked \in [Threads -> BOOLEAN]
    BY Zenon DEF Parked
<1>2. \A t \in Threads : Off(t)' <=> Parked[t]
    BY Zenon, ParkedForm
<1>3. Parked' = Parked
    BY Zenon, <1>1, <1>2, ParkedNext
<1> QED
    BY Zenon, <1>3 DEF Parked, TS!tsVars

\* One that wakes thread u, and one that puts it on a run queue at last.
LEMMA ContractWake ==
    ASSUME IInv, IInv', NEW u \in Threads, status[u] # "DEAD", u \in added',
           status' = [status EXCEPT ![u] = "RUNNABLE"],
           \A t \in Threads \ {u} : Off(t)' <=> Off(t)
    PROVE  TS!TSNext
<1> DEFINE g == [Parked EXCEPT ![u] = FALSE]
<1>1. Parked \in [Threads -> BOOLEAN]
    BY Zenon DEF Parked
<1>2. g \in [Threads -> BOOLEAN] /\ ~g[u] /\ \A t \in Threads \ {u} : g[t] = Parked[t]
    BY Zenon, <1>1
<1>3. ~Off(u)'
    BY Zenon DEF Off, IInv, TypeOK
<1>4. \A t \in Threads : Off(t)' <=> g[t]
    <2> HIDE DEF g
    <2>1. \A t \in Threads : Parked[t] <=> Off(t)
        BY Zenon, ParkedForm
    <2> QED
        BY Zenon, <1>2, <1>3, <2>1
<1>5. Parked' = g
    BY Zenon, <1>2, <1>4, ParkedNext
<1>6. TS!TSWake(u)
    BY Zenon, <1>5 DEF Parked, TS!TSWake, TS!thread_wake_up
<1> QED
    BY Zenon, <1>6 DEF TS!TSNext

\* One in which thread u, which has the processor, changes its status.
LEMMA ContractSetState ==
    ASSUME IInv, IInv', NEW u \in Threads, NEW s \in Statuses, status[u] # "DEAD", ~Off(u),
           status' = [status EXCEPT ![u] = s],
           \A t \in Threads : Off(t)' <=> Off(t)
    PROVE  TS!TSNext
<1>1. Parked \in [Threads -> BOOLEAN]
    BY Zenon DEF Parked
<1>2. \A t \in Threads : Parked[t] <=> Off(t)
    BY Zenon, ParkedForm
<1>3. Parked' = Parked
    <2>1. \A t \in Threads : Off(t)' <=> Parked[t]
        BY Zenon, <1>2
    <2> QED
        BY Zenon, <1>1, <2>1, ParkedNext
<1>4. ~Parked[u]
    BY Zenon, <1>2
<1>5. TS!TSSetState(u)
    BY Zenon, <1>3, <1>4 DEF Parked, TS!TSSetState, TS!set_current_state, TS!Statuses, TS!Blocked, Statuses, Blocked
<1> QED
    BY Zenon, <1>5 DEF TS!TSNext

\* One in which thread u leaves the processor, for a run queue if it can run.
LEMMA ContractYield ==
    ASSUME IInv, IInv', NEW u \in Threads, ~Off(u), status' = status,
           Off(u)' <=> status[u] # "RUNNABLE",
           \A t \in Threads \ {u} : Off(t)' <=> Off(t)
    PROVE  TS!TSNext
<1> DEFINE g == [Parked EXCEPT ![u] = status[u] # "RUNNABLE"]
<1>1. Parked \in [Threads -> BOOLEAN]
    BY Zenon DEF Parked
<1>2. /\ g \in [Threads -> BOOLEAN]
      /\ g[u] <=> status[u] # "RUNNABLE"
      /\ \A t \in Threads \ {u} : g[t] = Parked[t]
    BY Zenon, <1>1
<1>3. \A t \in Threads : Parked[t] <=> Off(t)
    BY Zenon, ParkedForm
<1>4. \A t \in Threads : Off(t)' <=> g[t]
    <2> HIDE DEF g
    <2> QED
        BY Zenon, <1>2, <1>3
<1>5. Parked' = g
    BY Zenon, <1>2, <1>4, ParkedNext
<1>6. ~Parked[u]
    BY Zenon, <1>3
<1>7. TS!TSYield(u)
    BY Zenon, <1>5, <1>6 DEF Parked, TS!TSYield, TS!sched_yield
<1> QED
    BY Zenon, <1>7 DEF TS!TSNext

\* Every step of the scheduler is a step of the contract or a stutter.
LEMMA ContractStep ==
    ASSUME IInv, IInv', [Next]_vars
    PROVE  [TS!TSNext]_(TS!tsVars)
<1>1. TypeOK /\ QueuesSound /\ AddingInv /\ WakeeInv
    BY Zenon DEF IInv
<1>2. CASE UNCHANGED <<status, added, current, cpu>>
    BY Zenon, <1>2, ContractStutter DEF Off
<1>3. ASSUME NEW c \in Cpus, Switch(c)  PROVE TS!TSNext
    <2>1. PICK o \in Threads : o = current[c] /\ o \in added /\ cpu[o] = c
        BY Zenon, <1>1 DEF TypeOK, QueuesSound
    <2> DEFINE n == current'[c]
    <2>2. UNCHANGED <<status, cpu, added>> /\ \A d \in Cpus \ {c} : current'[d] = current[d]
        BY Zenon, <1>1, <1>3, SwitchFacts DEF Switch, TypeOK
    <2>3. n \in Threads /\ n \in added /\ cpu[n] = c
        BY Zenon, <2>2 DEF IInv, TypeOK, QueuesSound
    <2>4. status[n] = "RUNNABLE"
        <3>1. PICK p \in Prios :
                  /\ Requeued(c)[c][p] \in Seq(Threads)
                  /\ Requeued(c)[c][p] # <<>>
                  /\ current' = [current EXCEPT ![c] = Head(Requeued(c)[c][p])]
            BY Zenon, <1>1, <1>3, SwitchFacts
        <3>2. 1 \in DOMAIN Requeued(c)[c][p] /\ n = Requeued(c)[c][p][1]
            BY Zenon, <1>1, <3>1, TailElements DEF TypeOK
        <3>3. CASE status[o] = "RUNNABLE" /\ p = Priority[o]
            <4>1. queue[c][p] \in Seq(Threads) /\ Requeued(c)[c][p] = Append(queue[c][p], o)
                <5>1. queue \in QueueType /\ queue[c][p] \in Seq(Threads)
                    BY Zenon, <1>1 DEF TypeOK, QueueType
                <5>2. Requeued(c) = AppendTo(queue, c, o)
                    BY Zenon, <2>1, <3>3 DEF Requeued
                <5>3. AppendTo(queue, c, o)[c][Priority[o]] = Append(queue[c][Priority[o]], o)
                    BY Zenon, <2>1, <5>1, AppendToFacts
                <5> QED
                    BY Zenon, <3>3, <5>1, <5>2, <5>3
            <4>2. n = o \/ (1 \in DOMAIN queue[c][p] /\ n = queue[c][p][1])
                BY <2>1, <3>2, <4>1, AppendElements
            <4>3. \A i \in DOMAIN queue[c][p] : status[queue[c][p][i]] = "RUNNABLE"
                BY Zenon, <1>1 DEF QueuesSound
            <4> HIDE DEF n
            <4> QED
                BY Zenon, <3>3, <4>2, <4>3
        <3>4. CASE status[o] # "RUNNABLE" \/ p # Priority[o]
            <4>1. Requeued(c)[c][p] = queue[c][p]
                BY Zenon, <1>1, <2>1, <3>4, AppendToFacts DEF Requeued, TypeOK
            <4>2. \A i \in DOMAIN queue[c][p] : status[queue[c][p][i]] = "RUNNABLE"
                BY Zenon, <1>1 DEF QueuesSound
            <4> HIDE DEF n
            <4> QED
                BY Zenon, <3>2, <4>1, <4>2
        <3> QED
            BY Zenon, <3>3, <3>4
    <2> HIDE DEF n
    <2>5. ~Off(o)
        BY Zenon, <2>1 DEF Off
    <2>6. Off(o)' <=> status[o] # "RUNNABLE"
        BY Zenon, <2>1, <2>2, <2>4 DEF Off, n
    <2>7. ASSUME NEW t \in Threads \ {o}  PROVE Off(t)' <=> Off(t)
        <3>1. cpu[t] \in Cpus
            BY Zenon, <1>1 DEF TypeOK
        <3> QED
            BY Zenon, <2>1, <2>2, <2>4, <2>7, <3>1 DEF Off, n
    <2> QED
        BY Zenon, <2>1, <2>2, <2>5, <2>6, <2>7, ContractYield
<1>4. ASSUME NEW c \in Cpus, NEW t \in Threads, SetState(c, t) \/ Die(c, t)
      PROVE  TS!TSNext
    <2>1. current[c] = t /\ cpu[t] = c /\ t \in added /\ status[t] # "DEAD" /\ UNCHANGED <<added, current, cpu>>
        BY <1>1, <1>4 DEF SetState, Die, Running, QueuesSound
    <2>2. PICK s \in Statuses : status' = [status EXCEPT ![t] = s]
        BY Zenon, <1>4, QuantumAssumption DEF SetState, Die, Statuses, Blocked
    <2>3. \A u \in Threads : Off(u)' <=> Off(u)
        BY Zenon, <1>1, <2>1, <2>2 DEF Off, TypeOK
    <2> QED
        BY Zenon, <2>1, <2>2, <2>3, ContractSetState DEF Off
<1>5. ASSUME NEW c \in Cpus, NEW t \in Threads, thread_wake_up(c, t), t \in added,
             status[t] # "DEAD", UNCHANGED <<added, current, cpu>>
      PROVE  TS!TSNext
    <2>1. status' = [status EXCEPT ![t] = "RUNNABLE"]
        BY Zenon, <1>5 DEF thread_wake_up
    <2>2. \A u \in Threads \ {t} : Off(u)' <=> Off(u)
        BY Zenon, <1>1, <1>5, <2>1 DEF Off, TypeOK
    <2> QED
        BY Zenon, <1>5, <2>1, <2>2, ContractWake
<1>6. ASSUME NEW c \in Cpus, NEW t \in Threads, WakeUp(c, t)  PROVE TS!TSNext
    BY Zenon, <1>5, <1>6 DEF WakeUp, Wakeable
<1>7. ASSUME NEW c \in Cpus, IrqWakeUp(c)  PROVE TS!TSNext
    BY Zenon, <1>1, <1>5, <1>7 DEF IrqWakeUp, WakeeInv, TypeOK
<1>8. ASSUME NEW c \in Cpus, NEW t \in Threads, NEW u \in Threads, ThreadAdd(c, t, u)
      PROVE  UNCHANGED TS!tsVars
    <2>1. \A x \in Threads : Off(x)' <=> Off(x)
        BY Zenon, <1>1, <1>8 DEF ThreadAdd, Off, TypeOK
    <2> QED
        BY Zenon, <1>8, <2>1, ContractStutter DEF ThreadAdd
<1>9. ASSUME NEW c \in Cpus, NEW t \in Threads, AppendUnlock(c, t)  PROVE TS!TSNext
    <2>1. PICK u \in Threads : u = adding[t] /\ status[u] = "RUNNABLE"
        BY <1>1, <1>9 DEF AppendUnlock, Running, AddingInv, TypeOK
    <2>2. added' = added \cup {u} /\ UNCHANGED <<status, current, cpu>>
        BY Zenon, <1>9, <2>1 DEF AppendUnlock
    <2>3. status' = [status EXCEPT ![u] = "RUNNABLE"]
        BY Zenon, <1>1, <2>1, <2>2 DEF TypeOK
    <2>4. \A x \in Threads \ {u} : Off(x)' <=> Off(x)
        BY Zenon, <2>2 DEF Off
    <2> QED
        BY Zenon, <2>1, <2>2, <2>3, <2>4, ContractWake
<1>10. ASSUME NEW c \in Cpus, NEW t \in Threads,
              \/ Tick(c) \/ DeviceIrq(c) \/ IrqSoftirq(c) \/ IrqSoftirqEnd(c)
              \/ IrqExit(c) \/ ReschedIpi(c)
              \/ Yield(c, t) \/ DisablePreempt(c, t) \/ EnablePreempt(c, t)
              \/ SoftirqEnd(c, t) \/ ReschedIfNeeded(c, t) \/ ClearResched(c, t) \/ AppendLock(c, t)
       PROVE  UNCHANGED <<status, added, current, cpu>>
    BY Zenon, <1>10 DEF Tick, DeviceIrq, IrqSoftirq, IrqSoftirqEnd, IrqExit, ReschedIpi, Yield,
       DisablePreempt, EnablePreempt, SoftirqEnd, ReschedIfNeeded, ClearResched, AppendLock
<1>11. CASE UNCHANGED vars
    BY Zenon, <1>2, <1>11 DEF vars
<1>12. \A c \in Cpus : IdleOf[c] \in Threads
    BY Zenon, ThreadsAssumption
<1> QED
    BY Zenon, <1>2, <1>3, <1>4, <1>6, <1>7, <1>8, <1>9, <1>10, <1>11, <1>12
       DEF Next, CpuStep, ThreadStep

\* The scheduler keeps its contract with the sleeping primitives, for any
\* number of CPUs, threads and priorities: a thread leaves the processor for
\* good only by giving it up in a sleep, and thread_wake_up brings it back
\* whatever it races with.
THEOREM ContractRefinement == Spec => ContractKept
<1>1. Init => TS!TSInit
    BY Zenon DEF Init, TS!TSInit
<1> QED
    BY <1>1, ContractStep, Invariance, PTL DEF Spec, ContractKept, TS!TSSpec
-----------------------------------------------------------------------------
(* The quantum.                                                            *)

\* What the theorem is about: softirqs end before the next tick but one, and
\* the counter is wide enough for the interrupts that extend a quantum.
QuantumFits ==
    /\ ~NestedTicks
    /\ Quantum < QuantumMod - 1 /\ MaxQuantum < QuantumMod - 1

\* A quantum that has run out is known to the interrupt, or the softirq, that
\* will act on it: the flag of the current thread is still set.
QuantumInv ==
    \A c \in Cpus :
        /\ quantum[c] <= Quantum \/ quantum[c] <= MaxQuantum
        /\ ctx[c] \in {"irq", "irq2"} => quantum[c] < Quantum \/ quantum[c] < MaxQuantum
        /\ ctx[c] = "thread" => quantum[c] > 0
        /\ ctx[c] \in {"irq", "softirq", "irq2"} /\ quantum[c] = 0 => current[c] \in resched

\* Arithmetic of a uint32_t that does not wrap.
LEMMA NoWrap ==
    ASSUME NEW m \in Nat, NEW q \in 0 .. (m - 1)
    PROVE  /\ q >= 1 => (q + m - 1) % m = q - 1
           /\ q + 1 < m => (q + 1) % m = q + 1
<1>1. ASSUME q >= 1 PROVE (q + m - 1) % m = q - 1
    BY <1>1
<1>2. ASSUME q + 1 < m PROVE (q + 1) % m = q + 1
    BY <1>2
<1> QED
    BY Zenon, <1>1, <1>2

\* The invariant of one CPU is kept by a step of another one that does not
\* clear its flag.
LEMMA OtherCpu ==
    ASSUME TypeOK, QuantumInv, NEW c \in Cpus,
           \A d \in Cpus \ {c} : /\ quantum'[d] = quantum[d] /\ ctx'[d] = ctx[d]
                                 /\ current'[d] = current[d]
                                 /\ current[d] \in resched => current[d] \in resched',
           quantum'[c] <= Quantum \/ quantum'[c] <= MaxQuantum,
           ctx'[c] \in {"irq", "irq2"} => quantum'[c] < Quantum \/ quantum'[c] < MaxQuantum,
           ctx'[c] = "thread" => quantum'[c] > 0,
           ctx'[c] \in {"irq", "softirq", "irq2"} /\ quantum'[c] = 0 => current'[c] \in resched'
    PROVE  QuantumInv'
<1> SUFFICES ASSUME NEW d \in Cpus
             PROVE  /\ quantum'[d] <= Quantum \/ quantum'[d] <= MaxQuantum
                    /\ ctx'[d] \in {"irq", "irq2"} => quantum'[d] < Quantum \/ quantum'[d] < MaxQuantum
                    /\ ctx'[d] = "thread" => quantum'[d] > 0
                    /\ ctx'[d] \in {"irq", "softirq", "irq2"} /\ quantum'[d] = 0
                          => current'[d] \in resched'
    BY Zenon DEF QuantumInv
<1>1. CASE d = c
    BY Zenon, <1>1
<1>2. CASE d # c
    BY Zenon, <1>2 DEF QuantumInv
<1> QED
    BY Zenon, <1>1, <1>2

\* The end of an interrupt leaves a quantum to whoever goes on: the flag has
\* been set whenever there is none left.
LEMMA PreemptQuantum ==
    ASSUME QuantumFits, TypeOK, NEW c \in Cpus, NEW n \in Nat, NEW b \in Contexts,
           quantum[c] < Quantum \/ quantum[c] < MaxQuantum \/ n = 0,
           quantum[c] <= Quantum \/ quantum[c] <= MaxQuantum,
           sched_preempt_thread(c, n, b)
    PROVE  /\ quantum'[c] <= Quantum \/ quantum'[c] <= MaxQuantum
           /\ (ctx'[c] = b /\ quantum'[c] > 0) \/ ctx'[c] = "preempted"
           /\ \A d \in Cpus \ {c} : quantum'[d] = quantum[d] /\ ctx'[d] = ctx[d]
<1>1. quantum[c] \in 0 .. (QuantumMod - 1) /\ QuantumMod \in Nat /\ Quantum \in Nat \ {0} /\ MaxQuantum \in Nat
    BY Zenon, QuantumAssumption DEF TypeOK, Quanta
<1>2. CASE n > 0
  <2>1. quantum[c] + 1 < QuantumMod
      BY <1>1, <1>2 DEF QuantumFits
  <2>2. (quantum[c] + 1) % QuantumMod = quantum[c] + 1
      BY Zenon, <1>1, <2>1, NoWrap
  <2>3. quantum' = [quantum EXCEPT ![c] = (quantum[c] + 1) % QuantumMod] /\ ctx' = [ctx EXCEPT ![c] = b]
      BY <1>2 DEF sched_preempt_thread
  <2> QED
      BY <1>1, <1>2, <2>2, <2>3 DEF TypeOK
<1>3. CASE n = 0
    BY <1>1, <1>3 DEF sched_preempt_thread, TypeOK
<1> QED
    BY <1>2, <1>3

\* The check at the end of an interrupt, with the flag cleared if it was set.
LEMMA CheckQuantum ==
    ASSUME QuantumFits, IInv, QuantumInv, NEW c \in Cpus, NEW n \in Nat, NEW b \in {"thread", "softirq"},
           ctx[c] \in {"irq", "irq2"} \/ (ctx[c] = "softirq" /\ n = 0),
           check_for_resched(c, n, b), UNCHANGED current
    PROVE  QuantumInv'
<1>1. TypeOK /\ b \in Contexts
    BY Zenon DEF IInv, Contexts
<1>2. \A d \in Cpus \ {c} : current[d] # current[c]
    BY DEF IInv, QueuesSound
<1>3. \A d \in Cpus \ {c} : current[d] \in resched => current[d] \in resched'
    BY Zenon, <1>2 DEF check_for_resched
<1>4. CASE current[c] \in resched
  <2>1. sched_preempt_thread(c, n, b)
      BY Zenon, <1>4 DEF check_for_resched
  <2>2. /\ quantum[c] < Quantum \/ quantum[c] < MaxQuantum \/ n = 0
        /\ quantum[c] <= Quantum \/ quantum[c] <= MaxQuantum
      BY Zenon DEF QuantumInv
  <2>3. /\ quantum'[c] <= Quantum \/ quantum'[c] <= MaxQuantum
        /\ (ctx'[c] = b /\ quantum'[c] > 0) \/ ctx'[c] = "preempted"
        /\ \A d \in Cpus \ {c} : quantum'[d] = quantum[d] /\ ctx'[d] = ctx[d]
      BY Zenon, <1>1, <2>1, <2>2, PreemptQuantum
  <2> QED
      BY <1>1, <1>3, <2>3, OtherCpu
<1>5. CASE current[c] \notin resched
  <2>1. ctx' = [ctx EXCEPT ![c] = b] /\ UNCHANGED <<resched, quantum>>
      BY Zenon, <1>5 DEF check_for_resched
  <2>2. quantum[c] > 0
      BY <1>1, <1>5 DEF QuantumInv, TypeOK, Quanta
  <2>3. ctx'[c] = b /\ \A d \in Cpus \ {c} : ctx'[d] = ctx[d]
      BY Zenon, <1>1, <2>1 DEF TypeOK
  <2>4. /\ quantum'[c] <= Quantum \/ quantum'[c] <= MaxQuantum
        /\ quantum'[c] > 0
      BY Zenon, <2>1, <2>2 DEF QuantumInv
  <2> QED
      BY <1>1, <2>1, <2>3, <2>4, OtherCpu
<1> QED
    BY Zenon, <1>4, <1>5

\* Every step keeps QuantumInv.
LEMMA QuantumStep ==
    ASSUME QuantumFits, IInv, QuantumInv, [Next]_vars
    PROVE  QuantumInv'
<1>1. TypeOK /\ PreemptInv
    BY Zenon DEF IInv
<1>2. \A c, d \in Cpus : c # d => current[d] # current[c]
    BY DEF IInv, QueuesSound
<1>3. Quantum \in Nat \ {0} /\ MaxQuantum \in Nat /\ QuantumMod \in Nat
    BY Zenon, QuantumAssumption
<1>4. \A c \in Cpus : quantum[c] \in 0 .. (QuantumMod - 1) /\ ctx[c] \in Contexts
    BY Zenon, <1>1 DEF TypeOK, Quanta
<1>5. ASSUME UNCHANGED <<quantum, ctx, current>>, resched \subseteq resched' PROVE QuantumInv'
    BY Zenon, <1>5 DEF QuantumInv
<1>6. ASSUME NEW c \in Cpus, Switch(c) PROVE QuantumInv'
  <2>1. /\ quantum'[c] = Quantum /\ ctx'[c] = "thread" /\ UNCHANGED resched
        /\ \A d \in Cpus \ {c} : quantum'[d] = quantum[d] /\ ctx'[d] = ctx[d] /\ current'[d] = current[d]
      BY Zenon, <1>1, <1>6 DEF Switch, TypeOK
  <2> QED
      BY <1>1, <1>3, <2>1, OtherCpu
<1>7. ASSUME NEW c \in Cpus, NEW t \in Threads, Yield(c, t) \/ ReschedIfNeeded(c, t)
      PROVE  QuantumInv'
  <2>1. /\ UNCHANGED <<quantum, current, resched>>
        /\ \A d \in Cpus \ {c} : ctx'[d] = ctx[d]
        /\ ctx'[c] = "yielded" \/ ctx'[c] = ctx[c]
      BY Zenon, <1>1, <1>7 DEF Yield, ReschedIfNeeded, TypeOK
  <2> QED
      BY Zenon, <1>1, <2>1, OtherCpu DEF QuantumInv
<1>8. ASSUME NEW c \in Cpus, NEW t \in Threads, ClearResched(c, t) PROVE QuantumInv'
  <2>1. /\ UNCHANGED <<quantum, current, ctx>> /\ ctx[c] = "thread" /\ t = current[c]
        /\ resched' = resched \ {t}
      BY Zenon, <1>8 DEF ClearResched, Running
  <2> QED
      BY Zenon, <1>1, <1>2, <2>1, OtherCpu DEF QuantumInv
<1>9. ASSUME NEW c \in Cpus, Tick(c) PROVE QuantumInv'
  <2>1. /\ ctx[c] = "thread" /\ ctx'[c] = "irq" /\ UNCHANGED current
        /\ \A d \in Cpus \ {c} : ctx'[d] = ctx[d]
      BY Zenon, <1>1, <1>9 DEF Tick, IrqEnter, QuantumFits, TypeOK
  <2>2. quantum[c] >= 1
      BY <1>4, <2>1 DEF QuantumInv
  <2>3. (quantum[c] + QuantumMod - 1) % QuantumMod = quantum[c] - 1
      BY Zenon, <1>3, <1>4, <2>2, NoWrap
  <2>4. /\ quantum'[c] = quantum[c] - 1 /\ \A d \in Cpus \ {c} : quantum'[d] = quantum[d]
        /\ resched' = IF quantum[c] = 1 THEN resched \cup {current[c]} ELSE resched
      BY Zenon, <1>1, <1>9, <2>3 DEF Tick, sched_decrease_quantum, TypeOK
  <2>5. /\ quantum'[c] < Quantum \/ quantum'[c] < MaxQuantum
        /\ quantum'[c] = 0 => quantum[c] = 1
      BY <1>3, <1>4, <2>2, <2>4 DEF QuantumInv
  <2> QED
      BY <1>1, <1>3, <1>4, <2>1, <2>4, <2>5, OtherCpu
<1>10. ASSUME NEW c \in Cpus, DeviceIrq(c) PROVE QuantumInv'
  <2>w. PICK w \in Wakeable \cup {NoThread} : IrqEnter(c, w)
      BY Zenon, <1>10 DEF DeviceIrq
  <2>a. quantum[c] < MaxQuantum /\ UNCHANGED <<quantum, current, resched>>
      BY Zenon, <1>10 DEF DeviceIrq
  <2>b. /\ \A d \in Cpus \ {c} : ctx'[d] = ctx[d]
        /\ \/ ctx[c] = "thread" /\ ctx'[c] = "irq"
           \/ ctx[c] = "softirq" /\ ctx'[c] = "irq2"
    <3>1. ctx \in [Cpus -> Contexts]
        BY Zenon, <1>1 DEF TypeOK
    <3>2. /\ ctx[c] \in {"thread", "softirq"}
          /\ ctx' = [ctx EXCEPT ![c] = IF ctx[c] = "thread" THEN "irq" ELSE "irq2"]
        BY Zenon, <2>w DEF IrqEnter
    <3> QED
        BY Zenon, <3>1, <3>2
  <2>1. /\ quantum[c] < MaxQuantum /\ UNCHANGED <<quantum, current, resched>>
        /\ \A d \in Cpus \ {c} : ctx'[d] = ctx[d]
        /\ \/ ctx[c] = "thread" /\ ctx'[c] = "irq"
           \/ ctx[c] = "softirq" /\ ctx'[c] = "irq2"
      BY Zenon, <2>a, <2>b
  <2>2. quantum'[c] = 0 => current'[c] \in resched'
      BY <1>4, <2>1 DEF QuantumInv
  <2> QED
      BY <1>1, <1>3, <1>4, <2>1, <2>2, OtherCpu
<1>11. ASSUME NEW c \in Cpus, NEW t \in Threads, WakeUp(c, t) PROVE QuantumInv'
    BY Zenon, <1>5, <1>11 DEF WakeUp, thread_wake_up
<1>12. ASSUME NEW c \in Cpus, IrqSoftirq(c) PROVE QuantumInv'
  <2>1. /\ UNCHANGED <<quantum, current, resched>> /\ ctx[c] = "irq" /\ ctx'[c] = "softirq"
        /\ \A d \in Cpus \ {c} : ctx'[d] = ctx[d]
      BY Zenon, <1>1, <1>12 DEF IrqSoftirq, TypeOK
  <2> QED
      BY Zenon, <1>1, <2>1, OtherCpu DEF QuantumInv
<1>13. ASSUME NEW c \in Cpus, IrqExit(c) PROVE QuantumInv'
  <2>1. /\ ctx[c] \in {"irq", "irq2"} /\ UNCHANGED current /\ preempt[c] \in Nat
        /\ check_for_resched(c, preempt[c], IF ctx[c] = "irq" THEN "thread" ELSE "softirq")
      BY Zenon, <1>1, <1>13 DEF IrqExit, TypeOK
  <2> QED
      BY Zenon, <2>1, CheckQuantum
<1>14. ASSUME NEW c \in Cpus, IrqSoftirqEnd(c) PROVE QuantumInv'
    BY Zenon, <1>14, CheckQuantum DEF IrqSoftirqEnd
<1>15. ASSUME NEW c \in Cpus, ReschedIpi(c) PROVE QuantumInv'
  <2>1. /\ ctx[c] \in {"thread", "softirq"} /\ quantum[c] < MaxQuantum /\ UNCHANGED current
        /\ resched' = resched \cup {current[c]} /\ preempt[c] \in Nat
        /\ sched_preempt_thread(c, preempt[c], ctx[c])
      BY Zenon, <1>1, <1>15 DEF ReschedIpi, TypeOK
  <2>2. /\ quantum'[c] <= Quantum \/ quantum'[c] <= MaxQuantum
        /\ (ctx'[c] = ctx[c] /\ quantum'[c] > 0) \/ ctx'[c] = "preempted"
        /\ \A d \in Cpus \ {c} : quantum'[d] = quantum[d] /\ ctx'[d] = ctx[d]
      BY Zenon, <1>1, <1>4, <2>1, PreemptQuantum DEF QuantumInv
  <2> QED
      BY Zenon, <1>1, <2>1, <2>2, OtherCpu
<1>16. ASSUME NEW c \in Cpus, NEW t \in Threads,
              \/ SetState(c, t) \/ Die(c, t) \/ DisablePreempt(c, t) \/ EnablePreempt(c, t)
              \/ SoftirqEnd(c, t) \/ AppendLock(c, t) \/ AppendUnlock(c, t)
              \/ \E u \in Threads : ThreadAdd(c, t, u)
       PROVE  QuantumInv'
    BY Zenon, <1>5, <1>16 DEF SetState, Die, DisablePreempt, EnablePreempt, SoftirqEnd, AppendLock,
                       AppendUnlock, ThreadAdd
<1>17. CASE UNCHANGED vars
    BY Zenon, <1>5, <1>17 DEF vars
<1>18. ASSUME NEW c \in Cpus, NEW t \in Threads, ThreadStep(c, t) PROVE QuantumInv'
    BY Zenon, <1>7, <1>8, <1>11, <1>16, <1>18 DEF ThreadStep
<1>19. ASSUME NEW c \in Cpus, IrqWakeUp(c) PROVE QuantumInv'
    BY Zenon, <1>5, <1>19 DEF IrqWakeUp, thread_wake_up
<1>20. ASSUME NEW c \in Cpus, CpuStep(c) PROVE QuantumInv'
    BY Zenon, <1>6, <1>9, <1>10, <1>12, <1>13, <1>14, <1>15, <1>19, <1>20 DEF CpuStep
<1> QED
    BY Zenon, <1>17, <1>18, <1>20 DEF Next

\* The clock never finds the quantum of a running thread used up, so that
\* sched_decrease_quantum does not wrap sched_quantum: whatever interrupts,
\* softirqs and reschedule IPIs come between the tick that uses it up and the
\* switch that refills it.
THEOREM QuantumKept == QuantumFits /\ Spec => []QuantumNeverWraps
<1> SUFFICES ASSUME QuantumFits PROVE Spec => []QuantumNeverWraps
    BY Zenon DEF QuantumFits
<1>1. Init => QuantumInv
    BY QuantumAssumption DEF Init, QuantumInv
<1>2. IInv /\ QuantumInv /\ [Next]_vars => QuantumInv'
    BY Zenon, QuantumStep
<1>3. IInv /\ QuantumInv => QuantumNeverWraps
    BY QuantumAssumption DEF QuantumFits, QuantumInv, QuantumNeverWraps, IInv, TypeOK, Quanta
<1> QED
    BY <1>1, <1>2, <1>3, Invariance, PTL DEF Spec

=============================================================================
