---------------------------- MODULE PthreadCond ----------------------------
(***************************************************************************)
(* musl's mutexes and condition variables (musl/src/thread) over the       *)
(* kernel's futexes: the composition every threaded program relies on.     *)
(*                                                                         *)
(* Waiters take the mutex, wait until a flag is set, perhaps for a limited *)
(* time, and release the mutex.  The others set the flag and signal.       *)
(* Mutexes are normal and private, nobody is cancelled, and the short      *)
(* spins before a sleep are left out.                                      *)
(***************************************************************************)
EXTENDS Futex

CONSTANTS Waiters, Timed   \* the threads that wait; those that do with a timeout

ASSUME CondAssumption == Timed \subseteq Waiters /\ Waiters \subseteq Threads

VARIABLES
    todo,                        \* what each thread has yet to do
    ready,                       \* the flag
    m_waiters,                   \* of the mutex
    c_head, c_tail,              \* of the condition variable
    state, prev, next, notify,   \* the node of each waiter; "GONE" off its stack
    cursor, first, left,         \* locals of __private_cond_signal
    seen                         \* a value a thread has read from the mutex

condVars == <<c_head, c_tail, state, prev, next, notify>>
signalVars == <<cursor, first, left>>
userVars == <<word, todo, ready, m_waiters, condVars, signalVars, seen>>
vars == <<status, parked, kernelVars, userVars>>

MutexWord == <<"mutex", Nobody>>   \* _m_lock: 0, 1 (EBUSY), 2 (EBUSY and the sign bit)
CondLock == <<"cond", Nobody>>     \* _c_lock: 0, 1, 2 (locked, and waited for)
Barrier(t) == <<"barrier", t>>     \* node.barrier: the same
Ref(t) == <<"ref", t>>             \* ref: nodes that are leaving

CondAddrs == {MutexWord, CondLock} \cup {Barrier(t) : t \in Waiters} \cup {Ref(t) : t \in Threads \ Waiters}

ASSUME WordsAssumption == CondAddrs \subseteq Addrs

\* What a thread does next, on which word.
Do(what, a) == <<what, a>>

\* __private_cond_signal, for n waiters.
Signal(t, n) ==
    <<Do("lock", CondLock), Do("tail", n), Do("scan", CondLock), Do("unlock", CondLock),
      Do("await", Ref(t)), Do("first", CondLock)>>

\* A waiter waits for the flag.  Another sets it and signals all waiters with
\* the mutex held, or one of them, and the others after it let the mutex go.
Programs(t) ==
    IF t \in Waiters THEN {<<Do("mutex_lock", MutexWord), Do("test", CondLock)>>}
    ELSE {<<Do("mutex_lock", MutexWord), Do("set", CondLock)>> \o p :
            p \in {Signal(t, -1) \o <<Do("mutex_unlock", MutexWord)>>,
                   Signal(t, 1) \o <<Do("mutex_unlock", MutexWord)>> \o Signal(t, -1)}}

Init ==
    /\ FutexInit
    /\ word = [a \in Addrs |-> 0]
    /\ todo \in {f \in [Threads -> UNION {Programs(t) : t \in Threads}] : \A t \in Threads : f[t] \in Programs(t)}
    /\ ready = FALSE
    /\ m_waiters = 0
    /\ c_head = Nobody /\ c_tail = Nobody
    /\ state = [t \in Threads |-> "GONE"]
    /\ prev = [t \in Threads |-> Nobody]
    /\ next = [t \in Threads |-> Nobody]
    /\ notify = [t \in Threads |-> Nobody]
    /\ cursor = [t \in Threads |-> Nobody]
    /\ first = [t \in Threads |-> Nobody]
    /\ left = [t \in Threads |-> 0]
    /\ seen = [t \in Threads |-> 0]

\* Thread t is in user space and about to do this.
Now(t, what) == kpc[t] = "user" /\ todo[t] # <<>> /\ Head(todo[t])[1] = what
On(t) == Head(todo[t])[2]

\* It goes on with s, and then with the rest.
Then(t, s) == todo' = [todo EXCEPT ![t] = s \o Tail(@)]
Return(t) == Then(t, <<>>)

Store(a, v) == word' = [word EXCEPT ![a] = v]

NoCall == UNCHANGED <<status, parked, kernelVars>>

-----------------------------------------------------------------------------
(* lock and unlock of pthread_cond_timedwait.c, with __wait.               *)

Lock(t) ==
    /\ Now(t, "lock")
    /\ \/ word[On(t)] = 0 /\ Store(On(t), 1) /\ Return(t)
       \/ word[On(t)] # 0 /\ UNCHANGED word /\ Then(t, <<Do("lock_mark", On(t))>>)
    /\ NoCall /\ UNCHANGED <<ready, m_waiters, condVars, signalVars, seen>>

LockMark(t) ==
    /\ Now(t, "lock_mark")
    /\ Store(On(t), IF word[On(t)] = 1 THEN 2 ELSE word[On(t)])
    /\ Then(t, <<Do("lock_wait", On(t))>>)
    /\ NoCall /\ UNCHANGED <<ready, m_waiters, condVars, signalVars, seen>>

LockWait(t) ==
    /\ Now(t, "lock_wait")
    /\ \/ word[On(t)] = 2 /\ CallWait(t, On(t), 2, FALSE) /\ UNCHANGED todo
       \/ word[On(t)] # 2 /\ NoCall /\ Then(t, <<Do("lock_again", On(t))>>)
    /\ UNCHANGED <<word, ready, m_waiters, condVars, signalVars, seen>>

LockAgain(t) ==
    /\ Now(t, "lock_again")
    /\ \/ word[On(t)] = 0 /\ Store(On(t), 2) /\ Return(t)
       \/ word[On(t)] # 0 /\ UNCHANGED word /\ Then(t, <<Do("lock_wait", On(t))>>)
    /\ NoCall /\ UNCHANGED <<ready, m_waiters, condVars, signalVars, seen>>

\* The word is cleared, and one waiter woken if there may be any.
ClearAndWake(t, a, waiters) ==
    /\ Store(a, 0)
    /\ Return(t)
    /\ IF waiters THEN CallWake(t, a) ELSE NoCall

Unlock(t) ==
    /\ Now(t, "unlock")
    /\ ClearAndWake(t, On(t), word[On(t)] = 2)
    /\ UNCHANGED <<ready, m_waiters, condVars, signalVars, seen>>

-----------------------------------------------------------------------------
(* pthread_mutex_lock and pthread_mutex_unlock.                            *)

MutexLock(t) ==
    /\ Now(t, "mutex_lock")
    /\ \/ word[On(t)] = 0 /\ Store(On(t), 1) /\ Return(t)
       \/ word[On(t)] # 0 /\ UNCHANGED word /\ Then(t, <<Do("mutex_read", On(t))>>)
    /\ NoCall /\ UNCHANGED <<ready, m_waiters, condVars, signalVars, seen>>

MutexRead(t) ==
    /\ Now(t, "mutex_read")
    /\ seen' = [seen EXCEPT ![t] = word[On(t)]]
    /\ Then(t, <<Do(IF word[On(t)] = 0 THEN "mutex_lock" ELSE "mutex_count", On(t))>>)
    /\ NoCall /\ UNCHANGED <<word, ready, m_waiters, condVars, signalVars>>

MutexCount(t) ==
    /\ Now(t, "mutex_count")
    /\ m_waiters' = m_waiters + 1
    /\ Then(t, <<Do("mutex_mark", On(t))>>)
    /\ NoCall /\ UNCHANGED <<word, ready, condVars, signalVars, seen>>

MutexMark(t) ==
    /\ Now(t, "mutex_mark")
    /\ Store(On(t), IF word[On(t)] = seen[t] THEN 2 ELSE word[On(t)])
    /\ seen' = [seen EXCEPT ![t] = 0]
    /\ Then(t, <<Do("mutex_wait", On(t))>>)
    /\ NoCall /\ UNCHANGED <<ready, m_waiters, condVars, signalVars>>

MutexWait(t) ==
    /\ Now(t, "mutex_wait")
    /\ CallWait(t, On(t), 2, FALSE)
    /\ Then(t, <<Do("mutex_uncount", On(t))>>)
    /\ UNCHANGED <<word, ready, m_waiters, condVars, signalVars, seen>>

MutexUncount(t) ==
    /\ Now(t, "mutex_uncount")
    /\ m_waiters' = m_waiters - 1
    /\ Then(t, <<Do("mutex_lock", On(t))>>)
    /\ NoCall /\ UNCHANGED <<word, ready, condVars, signalVars, seen>>

\* The count of waiters is read before the mutex is released.
MutexUnlock(t) ==
    /\ Now(t, "mutex_unlock")
    /\ seen' = [seen EXCEPT ![t] = m_waiters]
    /\ Then(t, <<Do("mutex_swap", On(t))>>)
    /\ NoCall /\ UNCHANGED <<word, ready, m_waiters, condVars, signalVars>>

MutexSwap(t) ==
    /\ Now(t, "mutex_swap")
    /\ ClearAndWake(t, On(t), seen[t] # 0 \/ word[On(t)] = 2)
    /\ seen' = [seen EXCEPT ![t] = 0]
    /\ UNCHANGED <<ready, m_waiters, condVars, signalVars>>

-----------------------------------------------------------------------------
(* pthread_cond_timedwait.                                                 *)

\* The function returns, and with it goes the node on its stack.
PopNode(t) ==
    /\ state' = [state EXCEPT ![t] = "GONE"]
    /\ prev' = [prev EXCEPT ![t] = Nobody]
    /\ next' = [next EXCEPT ![t] = Nobody]
    /\ notify' = [notify EXCEPT ![t] = Nobody]

\* The program: wait until the flag is set, with the mutex held.
Test(t) ==
    /\ Now(t, "test")
    /\ Then(t, IF ready THEN <<Do("mutex_unlock", MutexWord)>>
               ELSE <<Do("lock", CondLock), Do("link", CondLock), Do("unlock", CondLock),
                      Do("mutex_unlock", MutexWord), Do("sleep", Barrier(t))>>)
    /\ NoCall /\ UNCHANGED <<word, ready, m_waiters, condVars, signalVars, seen>>

\* The node becomes the head of the list.
Link(t) ==
    /\ Now(t, "link")
    /\ Store(Barrier(t), 2)
    /\ state' = [state EXCEPT ![t] = "WAITING"]
    /\ next' = [next EXCEPT ![t] = c_head]
    /\ prev' = [q \in Threads |-> IF q = t THEN Nobody ELSE IF q = c_head /\ c_tail # Nobody THEN t ELSE prev[q]]
    /\ notify' = [notify EXCEPT ![t] = Nobody]
    /\ c_head' = t
    /\ c_tail' = IF c_tail = Nobody THEN t ELSE c_tail
    /\ Return(t)
    /\ NoCall /\ UNCHANGED <<ready, m_waiters, signalVars, seen>>

Sleep(t) ==
    /\ Now(t, "sleep")
    /\ CallWait(t, On(t), 2, t \in Timed)
    /\ Then(t, <<Do("slept", On(t))>>)
    /\ UNCHANGED <<word, ready, m_waiters, condVars, signalVars, seen>>

Slept(t) ==
    /\ Now(t, "slept")
    /\ Then(t, <<Do(IF word[On(t)] = 2 /\ outcome[t] = "OK" THEN "sleep" ELSE "leave", On(t))>>)
    /\ NoCall /\ UNCHANGED <<word, ready, m_waiters, condVars, signalVars, seen>>

\* Who was not signalled is leaving: it takes its node off the list.  Who was
\* waits for its turn, which the barrier gives it.
Leave(t) ==
    /\ Now(t, "leave")
    /\ \/ /\ state[t] = "WAITING"
          /\ state' = [state EXCEPT ![t] = "LEAVING"]
          /\ Then(t, <<Do("lock", CondLock), Do("unlink", CondLock), Do("unlock", CondLock), Do("notify", CondLock),
                       Do("mutex_lock", MutexWord), Do("give_up", CondLock)>>)
       \/ /\ state[t] # "WAITING"
          /\ UNCHANGED state
          /\ Then(t, <<Do("lock", Barrier(t)), Do("mutex_lock", MutexWord), Do("join", CondLock), Do("pass", CondLock),
                       Do("test", CondLock)>>)
    /\ NoCall /\ UNCHANGED <<word, ready, m_waiters, c_head, c_tail, prev, next, notify, signalVars, seen>>

Unlink(t) ==
    /\ Now(t, "unlink")
    /\ c_head' = IF c_head = t THEN next[t] ELSE c_head
    /\ next' = [q \in Threads |-> IF c_head # t /\ q = prev[t] THEN next[t] ELSE next[q]]
    /\ c_tail' = IF c_tail = t THEN prev[t] ELSE c_tail
    /\ prev' = [q \in Threads |-> IF c_tail # t /\ q = next[t] THEN prev[t] ELSE prev[q]]
    /\ Return(t)
    /\ NoCall /\ UNCHANGED <<word, ready, m_waiters, state, notify, signalVars, seen>>

\* The signaller that saw it leaving waits for this.
Notify(t) ==
    LET r == Ref(notify[t])
    IN  /\ Now(t, "notify")
        /\ Return(t)
        /\ \/ notify[t] = Nobody /\ UNCHANGED word /\ NoCall
           \/ /\ notify[t] # Nobody
              /\ Store(r, word[r] - 1)
              /\ IF word[r] = 1 THEN CallWake(t, r) ELSE NoCall
        /\ UNCHANGED <<ready, m_waiters, condVars, signalVars, seen>>

\* The wait timed out; the program gives up.
GiveUp(t) ==
    /\ Now(t, "give_up")
    /\ PopNode(t)
    /\ Then(t, <<Do("mutex_unlock", MutexWord)>>)
    /\ NoCall /\ UNCHANGED <<word, ready, m_waiters, c_head, c_tail, signalVars, seen>>

\* The first of a group counts a waiter of the mutex for all of it, ...
Join(t) ==
    /\ Now(t, "join")
    /\ m_waiters' = IF next[t] = Nobody THEN m_waiters + 1 ELSE m_waiters
    /\ Return(t)
    /\ NoCall /\ UNCHANGED <<word, ready, condVars, signalVars, seen>>

\* ... each one but the last marks the mutex ...
Pass(t) ==
    /\ Now(t, "pass")
    /\ \/ /\ prev[t] # Nobody
          /\ Store(MutexWord, 2)
          /\ Then(t, <<Do("requeue", Barrier(prev[t]))>>)
          /\ UNCHANGED <<m_waiters, state, prev, next, notify>>
       \/ /\ prev[t] = Nobody
          /\ m_waiters' = m_waiters - 1
          /\ PopNode(t)
          /\ Return(t)
          /\ UNCHANGED word
    /\ NoCall /\ UNCHANGED <<ready, c_head, c_tail, signalVars, seen>>

\* ... and moves the next one, whose turn it is, to the mutex.
UnlockRequeue(t) ==
    /\ Now(t, "requeue")
    /\ Store(On(t), 0)
    /\ CallRequeue(t, On(t), MutexWord)
    /\ PopNode(t)
    /\ Return(t)
    /\ UNCHANGED <<ready, m_waiters, c_head, c_tail, signalVars, seen>>

-----------------------------------------------------------------------------
(* __private_cond_signal.                                                  *)

\* The program: set the flag, with the mutex held, and signal.
SetReady(t) ==
    /\ Now(t, "set")
    /\ ready' = TRUE
    /\ Return(t)
    /\ NoCall /\ UNCHANGED <<word, m_waiters, condVars, signalVars, seen>>

ScanStart(t) ==
    /\ Now(t, "tail")
    /\ cursor' = [cursor EXCEPT ![t] = c_tail]
    /\ left' = [left EXCEPT ![t] = On(t)]
    /\ Return(t)
    /\ NoCall /\ UNCHANGED <<word, ready, m_waiters, condVars, first, seen>>

\* Waiters are signalled from the oldest on; those that are leaving are asked
\* to tell when they have left.
Scan(t) ==
    LET p == cursor[t]
    IN  /\ Now(t, "scan") /\ p # Nobody /\ left[t] # 0
        /\ \/ /\ state[p] = "WAITING"
              /\ state' = [state EXCEPT ![p] = "SIGNALED"]
              /\ left' = [left EXCEPT ![t] = @ - 1]
              /\ first' = [first EXCEPT ![t] = IF @ = Nobody THEN p ELSE @]
              /\ UNCHANGED <<word, notify>>
           \/ /\ state[p] # "WAITING"
              /\ Store(Ref(t), word[Ref(t)] + 1)
              /\ notify' = [notify EXCEPT ![p] = t]
              /\ UNCHANGED <<state, left, first>>
        /\ cursor' = [cursor EXCEPT ![t] = prev[p]]
        /\ NoCall /\ UNCHANGED <<todo, ready, m_waiters, c_head, c_tail, prev, next, seen>>

\* The list is split; the rest stays with the condition variable.
Split(t) ==
    LET p == cursor[t]
    IN  /\ Now(t, "scan") /\ (p = Nobody \/ left[t] = 0)
        /\ \/ /\ p # Nobody
              /\ prev' = [q \in Threads |-> IF q = next[p] THEN Nobody ELSE prev[q]]
              /\ next' = [next EXCEPT ![p] = Nobody]
              /\ UNCHANGED c_head
           \/ p = Nobody /\ c_head' = Nobody /\ UNCHANGED <<prev, next>>
        /\ c_tail' = p
        /\ cursor' = [cursor EXCEPT ![t] = Nobody]
        /\ left' = [left EXCEPT ![t] = 0]
        /\ Return(t)
        /\ NoCall /\ UNCHANGED <<word, ready, m_waiters, state, notify, first, seen>>

\* Mutant: the signaller does not wait for the nodes that are leaving.
Await_Not(t) ==
    /\ Now(t, "await") /\ NoCall /\ Return(t)
    /\ UNCHANGED <<word, ready, m_waiters, condVars, signalVars, seen>>

Await(t) ==
    /\ Now(t, "await")
    /\ \/ word[On(t)] # 0 /\ CallWait(t, On(t), word[On(t)], FALSE) /\ UNCHANGED todo
       \/ word[On(t)] = 0 /\ NoCall /\ Return(t)
    /\ UNCHANGED <<word, ready, m_waiters, condVars, signalVars, seen>>

\* The first of the group may go on.
ReleaseFirst(t) ==
    /\ Now(t, "first")
    /\ \/ first[t] = Nobody /\ NoCall /\ Return(t) /\ UNCHANGED word
       \/ first[t] # Nobody /\ ClearAndWake(t, Barrier(first[t]), word[Barrier(first[t])] = 2)
    /\ first' = [first EXCEPT ![t] = Nobody]
    /\ UNCHANGED <<ready, m_waiters, condVars, cursor, left, seen>>

-----------------------------------------------------------------------------
UserStep(t) ==
    \/ Lock(t) \/ LockMark(t) \/ LockWait(t) \/ LockAgain(t) \/ Unlock(t)
    \/ MutexLock(t) \/ MutexRead(t) \/ MutexCount(t) \/ MutexMark(t)
    \/ MutexWait(t) \/ MutexUncount(t) \/ MutexUnlock(t) \/ MutexSwap(t)
    \/ Test(t) \/ Link(t) \/ Sleep(t) \/ Slept(t) \/ Leave(t) \/ Unlink(t) \/ Notify(t) \/ GiveUp(t)
    \/ Join(t) \/ Pass(t) \/ UnlockRequeue(t)
    \/ SetReady(t) \/ ScanStart(t) \/ Scan(t) \/ Split(t) \/ Await(t) \/ ReleaseFirst(t)

KernelStep(t) == FutexStep(t) /\ UNCHANGED <<todo, ready, m_waiters, condVars, signalVars, seen>>

TimerStep(t) == Timeout(t) /\ UNCHANGED <<todo, ready, m_waiters, condVars, signalVars, seen>>

ReschedStep(t) == Resched(t) /\ UNCHANGED <<todo, ready, m_waiters, condVars, signalVars, seen>>

Next == \E t \in Threads : UserStep(t) \/ KernelStep(t) \/ TimerStep(t) \/ ReschedStep(t)

Spec == Init /\ [][Next]_vars

\* Threads are scheduled and events come.  Nothing makes a reschedule due.
FairSpec ==
    /\ Spec
    /\ \A t \in Threads : WF_vars(UserStep(t) \/ KernelStep(t)) /\ WF_vars(TimerStep(t))

-----------------------------------------------------------------------------
(* Properties.                                                             *)

\* Thread t has yet to do this in the call it is in.
Pending(t, what, before) ==
    \E i \in DOMAIN todo[t] : todo[t][i][1] = what /\ \A j \in 1..(i - 1) : todo[t][j][1] # before

\* A waiter's node is on its stack: whoever can reach it, the condition
\* variable, a signaller or the waiter whose turn comes before, finds its
\* owner still in pthread_cond_timedwait.  A signaller's ref is on its stack
\* too: a waiter that has yet to count itself down finds the signaller still
\* in __private_cond_signal.
NodesInUse ==
    LET reached == {c_head, c_tail}
                   \cup {cursor[t] : t \in {u \in Threads : Now(u, "scan")}} \cup {first[t] : t \in Threads}
                   \cup {prev[t] : t \in {u \in Threads : state[u] \in {"WAITING", "SIGNALED"}}}
    IN  /\ \A t \in reached \ {Nobody} : state[t] # "GONE"
        /\ \A t \in Threads :
              notify[t] # Nobody /\ Pending(t, "notify", "give_up") => Pending(notify[t], "await", "tail")

\* Nobody sleeps for ever: with the flag set and signalled every waiter
\* returns and gets the mutex, whether its wait timed out or not.  There are
\* two exceptions: a requeued waiter times out under the lock of its old
\* bucket; or a wait with a timeout sleeps for ever, because its event came
\* before sched_sleep announced the sleep again, or was not queued when a
\* reschedule took the processor.
AllReturn ==
    [](~raced) =>
        \/ \E t \in Threads : <>[]Overslept(t)
        \/ <>(\A t \in Threads : todo[t] = <<>> /\ kpc[t] = "user")
=============================================================================
