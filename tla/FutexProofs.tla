---------------------------- MODULE FutexProofs ----------------------------
(***************************************************************************)
(* The lists of the futex buckets are exact and a waiter that is woken is  *)
(* still there: for any number of threads, addresses and buckets, and for  *)
(* any program that makes the calls.  musl's condition variables are such  *)
(* a program.                                                              *)
(***************************************************************************)
EXTENDS PthreadCond, WaitListProofs, WellFoundedInduction

-----------------------------------------------------------------------------
(* The kernel and any program.                                             *)

Args == [addr : Addrs, val : Int, dest : Addrs, timed : BOOLEAN]

KPoints == {"user", "wait", "sleep", "armed", "woken", "wake", "wake_up", "requeue_lock", "requeue"}

futexVars == <<status, parked, word, kernelVars>>

\* A thread in user space stores whatever it likes to the words and makes any
\* of the calls, or none.
AnyUser(t) ==
    /\ kpc[t] = "user"
    /\ word' \in [Addrs -> Int]
    /\ \/ UNCHANGED <<status, parked, kernelVars>>
       \/ \E where \in {"wait", "wake", "requeue_lock"}, args \in Args : Call(t, where, args)

FutexNext == \E t \in Threads : AnyUser(t) \/ FutexStep(t) \/ Timeout(t) \/ Resched(t)

FutexSpec == FutexInit /\ word \in [Addrs -> Int] /\ [][FutexNext]_futexVars

-----------------------------------------------------------------------------
(* The inductive invariant.                                                *)

FutexTypes ==
    /\ status \in [Threads -> Statuses] /\ parked \in [Threads -> BOOLEAN]
    /\ list \in [Buckets -> Seq(Threads)] /\ lock \in [Buckets -> Threads \cup {Nobody}]
    /\ key \in [Threads -> Addrs] /\ awaken \in [Threads -> BOOLEAN]
    /\ home \in [Threads -> Buckets]
    /\ kpc \in [Threads -> KPoints] /\ call \in [Threads -> Args]
    /\ waking \in [Threads -> Threads \cup {Nobody}]
    /\ armed \in [Threads -> BOOLEAN] /\ raced \in BOOLEAN

\* Events are queued by sched_sleep alone, which cancels its own.
EventsOwned == \A t \in Threads : armed[t] => kpc[t] \in {"armed", "woken"} /\ call[t].timed

\* wake holds the lock of its bucket from the mark to the wakeup, and requeue
\* that of the lower bucket.
LocksHeld ==
    \A t \in Threads :
        /\ waking[t] # Nobody <=> kpc[t] = "wake_up"
        /\ kpc[t] = "wake_up" => lock[Bucket[call[t].addr]] = t
        /\ kpc[t] = "requeue" => lock[Lower(call[t].addr, call[t].dest)] = t

\* A waiter is being woken by one thread, at the address it waits for.  One
\* without a timeout sleeps until the wakeup that follows the mark.
WakesSound ==
    ~raced =>
        /\ \A t, w \in Threads : waking[t] = w =>
              Waits(w) /\ awaken[w] /\ key[w] = call[t].addr /\ \A u \in Threads : waking[u] = w => u = t
        /\ \A w \in Threads :
              Waits(w) /\ ~call[w].timed /\ (awaken[w] => \E t \in Threads : waking[t] = w) =>
                  status[w] = "INTERRUPTIBLE" /\ (kpc[w] = "woken" => parked[w])

FutexInv == FutexTypes /\ EventsOwned /\ ListsExact /\ LocksHeld /\ WakesSound
-----------------------------------------------------------------------------
(* Addresses, buckets and the waiters on a list.                           *)

\* A set of numbers has a least one: a walk along a list comes to a first
\* node of any kind that is on it.
LEMMA Least ==
    ASSUME NEW S, S \subseteq Nat, S # {}
    PROVE  \E i \in S : \A j \in S : i <= j
<1> DEFINE R == {p \in Nat \X Nat : p[1] < p[2]}
<1>1. IsWellFoundedOn(R, Nat)
    BY Zenon, NatLessThanWellFounded DEF OpToRel
<1>2. \E i \in S : \A j \in S : ~(<<j, i>> \in R)
  <2> HIDE DEF R
  <2> QED
      BY Zenon, <1>1, WFMin
<1>3. \A i, j \in S : ~(<<j, i>> \in R) => i <= j
    OBVIOUS
<1> QED
    BY Zenon, <1>2, <1>3

\* An address has a bucket, and there is an address.
LEMMA AddrFacts ==
    /\ AnAddr \in Addrs
    /\ \A a \in Addrs : Bucket[a] \in Buckets
    /\ \A a, b \in Addrs : Lower(a, b) \in Buckets
    /\ NoArgs \in Args
<1>1. AnAddr \in Addrs
    BY Zenon, FutexAssumption DEF AnAddr
<1>2. \A a \in Addrs : Bucket[a] \in Buckets
    BY Zenon DEF Buckets
<1> QED
    BY <1>1, <1>2 DEF Lower, NoArgs, Args

\* The first waiter of an address is on the list of its bucket.
LEMMA FirstWaiter ==
    ASSUME FutexTypes, NEW a \in Addrs, WaitersOf(a) # {}
    PROVE  /\ FirstOf(a) \in Members(list[Bucket[a]])
           /\ FirstOf(a) \in Threads
           /\ key[FirstOf(a)] = a
<1> DEFINE l == list[Bucket[a]]
<1>1. l \in Seq(Threads)
    BY Zenon, AddrFacts DEF FutexTypes
<1>2. WaitersOf(a) \subseteq Nat /\ \A i \in WaitersOf(a) : i \in DOMAIN l /\ key[l[i]] = a
    BY <1>1 DEF WaitersOf
<1>3. PICK i \in WaitersOf(a) : FirstOf(a) = l[i]
    BY Zenon, <1>2, Least DEF FirstOf
<1> HIDE DEF l
<1>4. l[i] \in Members(l) /\ l[i] \in Threads /\ key[l[i]] = a
    BY <1>1, <1>2, <1>3 DEF Members
<1> QED
    BY Zenon, <1>3, <1>4 DEF l

\* Whoever is on a list waits and was not woken.
LEMMA OnListWaits ==
    ASSUME FutexTypes, ListsExact, NEW a \in Addrs, WaitersOf(a) # {}
    PROVE  Waits(FirstOf(a)) /\ ~awaken[FirstOf(a)]
    BY Zenon, FirstWaiter, AddrFacts DEF ListsExact, Waits

-----------------------------------------------------------------------------
(* Every step keeps the invariant.                                         *)

LEMMA FutexTypesStep ==
    ASSUME FutexInv, [FutexNext]_futexVars
    PROVE  FutexTypes'
<1> USE AddrFacts DEF FutexInv
<1>1. ASSUME NEW t \in Threads, AnyUser(t) PROVE FutexTypes'
  <2>1. CASE UNCHANGED <<status, parked, kernelVars>>
      BY Zenon, <2>1 DEF FutexTypes, kernelVars, queueVars
  <2>2. ASSUME NEW where \in {"wait", "wake", "requeue_lock"}, NEW args \in Args, Call(t, where, args)
        PROVE  FutexTypes'
      BY Zenon, <2>2 DEF Call, Goto, FutexTypes, KPoints, queueVars
  <2> QED
      BY Zenon, <1>1, <2>1, <2>2 DEF AnyUser
<1>2. ASSUME NEW t \in Threads, FutexWait(t) PROVE FutexTypes'
  <2>1. call[t].addr \in Addrs /\ list[Bucket[call[t].addr]] \in Seq(Threads)
      BY Zenon DEF FutexTypes, Args
  <2>2. list_add_tail(list[Bucket[call[t].addr]], t) \in Seq(Threads)
      BY <2>1 DEF list_add_tail
  <2>3. list' \in [Buckets -> Seq(Threads)]
      BY Zenon, <1>2, <2>1, <2>2 DEF FutexWait, FutexTypes, queueVars
  <2>4. /\ status' \in [Threads -> Statuses] /\ parked' \in [Threads -> BOOLEAN]
        /\ key' \in [Threads -> Addrs] /\ awaken' \in [Threads -> BOOLEAN]
        /\ home' \in [Threads -> Buckets]
      BY Zenon, <1>2, <2>1 DEF FutexWait, set_current_state, FutexTypes, Statuses, Blocked, queueVars
  <2>5. kpc' \in [Threads -> KPoints] /\ call' \in [Threads -> Args]
    <3>1. \/ kpc' = [kpc EXCEPT ![t] = "user"] /\ call' = [call EXCEPT ![t] = NoArgs]
          \/ kpc' = [kpc EXCEPT ![t] = "sleep"] /\ UNCHANGED call
        BY Zenon, <1>2 DEF FutexWait, SysReturn, Goto
    <3>2. kpc \in [Threads -> KPoints] /\ call \in [Threads -> Args] /\ NoArgs \in Args
        BY Zenon DEF FutexTypes
    <3>3. "user" \in KPoints /\ "sleep" \in KPoints
        BY Zenon DEF KPoints
    <3> QED
        BY Zenon, <3>1, <3>2, <3>3
  <2> QED
      BY Zenon, <1>2, <2>3, <2>4, <2>5 DEF FutexWait, FutexTypes
<1>3. ASSUME NEW t \in Threads, FutexSleep(t) \/ QueueEvent(t) \/ SchedSleep(t) PROVE FutexTypes'
  <2>1. CASE FutexSleep(t)
      BY Zenon, <2>1 DEF FutexSleep, sched_yield, Goto, FutexTypes, KPoints, queueVars
  <2>2. CASE QueueEvent(t)
      BY Zenon, <2>2 DEF QueueEvent, Goto, FutexTypes, KPoints, queueVars
  <2>3. CASE SchedSleep(t)
      BY Zenon, <2>3 DEF SchedSleep, Goto, FutexTypes, KPoints, Statuses, Blocked, queueVars
  <2> QED
      BY Zenon, <1>3, <2>1, <2>2, <2>3
<1>4. ASSUME NEW t \in Threads, Timeout(t) \/ Resched(t) PROVE FutexTypes'
  <2>1. CASE Timeout(t)
      BY Zenon, <2>1 DEF Timeout, thread_wake_up, FutexTypes, Statuses, queueVars
  <2>2. CASE Resched(t)
      BY Zenon, <2>2 DEF Resched, sched_yield, FutexTypes, kernelVars, queueVars
  <2> QED
      BY Zenon, <1>4, <2>1, <2>2
<1>5. ASSUME NEW t \in Threads, FutexReturn(t) PROVE FutexTypes'
  <2>1. key[t] \in Addrs /\ list[Bucket[key[t]]] \in Seq(Threads)
      BY Zenon DEF FutexTypes
  <2>2. At(t, "woken")
      BY Zenon, <1>5 DEF FutexReturn
  <2>3. ~awaken[t] => list_remove(list[Bucket[key[t]]], t) \in Seq(Threads)
      BY Zenon, <2>1, <2>2, Remove DEF ListsExact, At, Waits
  <2>4. list' \in [Buckets -> Seq(Threads)]
      BY Zenon, <1>5, <2>1, <2>3 DEF FutexReturn, FutexTypes
  <2>5. raced' \in BOOLEAN
      BY Zenon, <1>5 DEF FutexReturn
  <2> QED
      BY Zenon, <1>5, <2>4, <2>5 DEF FutexReturn, SysReturn, Goto, set_current_state, FutexTypes, KPoints,
                              Statuses
<1>6. ASSUME NEW t \in Threads, WakeMark(t) PROVE FutexTypes'
  <2>1. call[t].addr \in Addrs /\ list[Bucket[call[t].addr]] \in Seq(Threads)
      BY Zenon DEF FutexTypes, Args
  <2>2. CASE WaitersOf(call[t].addr) = {}
    <3>1. /\ kpc' = [kpc EXCEPT ![t] = "user"] /\ call' = [call EXCEPT ![t] = NoArgs]
          /\ UNCHANGED <<status, parked, list, lock, key, awaken, home, waking, armed, raced>>
        BY Zenon, <1>6, <2>2 DEF WakeMark, SysReturn, Goto
    <3> QED
        BY Zenon, <3>1 DEF FutexTypes, KPoints
  <2>3. CASE WaitersOf(call[t].addr) # {}
    <3>1. FirstOf(call[t].addr) \in Threads
        BY Zenon, <2>1, <2>3, FirstWaiter
    <3>2. list_remove(list[Bucket[call[t].addr]], FirstOf(call[t].addr)) \in Seq(Threads)
        BY <2>1, <2>3, FirstWaiter, Remove DEF ListsExact
    <3>3. list' \in [Buckets -> Seq(Threads)]
      <4>1. list' = [list EXCEPT ![Bucket[call[t].addr]] =
                        list_remove(list[Bucket[call[t].addr]], FirstOf(call[t].addr))]
          BY Zenon, <1>6, <2>3 DEF WakeMark
      <4> QED
          BY Zenon, <2>1, <3>2, <4>1 DEF FutexTypes
    <3>4. /\ lock' = [lock EXCEPT ![Bucket[call[t].addr]] = t]
          /\ awaken' = [awaken EXCEPT ![FirstOf(call[t].addr)] = TRUE]
          /\ waking' = [waking EXCEPT ![t] = FirstOf(call[t].addr)]
          /\ kpc' = [kpc EXCEPT ![t] = "wake_up"]
          /\ UNCHANGED <<status, parked, key, home, call, armed, raced>>
        BY Zenon, <1>6, <2>3 DEF WakeMark, Goto
    <3> QED
        BY Zenon, <2>1, <3>1, <3>3, <3>4 DEF FutexTypes, KPoints
  <2> QED
      BY Zenon, <2>2, <2>3
<1>7. ASSUME NEW t \in Threads, WakeUp(t) PROVE FutexTypes'
    BY Zenon, <1>7 DEF WakeUp, thread_wake_up, SysReturn, Goto, FutexTypes, Args, KPoints, Statuses, queueVars
<1>8. ASSUME NEW t \in Threads, RequeueLock(t) PROVE FutexTypes'
    BY Zenon, <1>8 DEF RequeueLock, Goto, FutexTypes, Args, KPoints, queueVars
<1>9. ASSUME NEW t \in Threads, Requeue(t) PROVE FutexTypes'
  <2>1. /\ call[t].addr \in Addrs /\ call[t].dest \in Addrs
        /\ list[Bucket[call[t].addr]] \in Seq(Threads)
      BY Zenon DEF FutexTypes, Args
  <2>2. CASE WaitersOf(call[t].addr) = {}
      BY Zenon, <1>9, <2>1, <2>2 DEF Requeue, SysReturn, Goto, FutexTypes, KPoints
  <2>3. CASE WaitersOf(call[t].addr) # {}
    <3> DEFINE f == FirstOf(call[t].addr)
               l == [list EXCEPT ![Bucket[call[t].addr]] = list_remove(list[Bucket[call[t].addr]], f)]
    <3>1. f \in Threads
        BY Zenon, <2>1, <2>3, FirstWaiter
    <3>2. list_remove(list[Bucket[call[t].addr]], f) \in Seq(Threads)
        BY <2>1, <2>3, FirstWaiter, Remove DEF ListsExact
    <3>3. /\ list' = [l EXCEPT ![Bucket[call[t].dest]] = <<f>> \o l[Bucket[call[t].dest]]]
          /\ key' = [key EXCEPT ![f] = call[t].dest]
        BY Zenon, <1>9, <2>3 DEF Requeue
    <3> HIDE DEF f
    <3>4. l \in [Buckets -> Seq(Threads)]
        BY Zenon, <2>1, <3>2 DEF FutexTypes
    <3> HIDE DEF l
    <3>5. l[Bucket[call[t].dest]] \in Seq(Threads)
        BY Zenon, <2>1, <3>4
    <3>6. <<f>> \o l[Bucket[call[t].dest]] \in Seq(Threads)
        BY <3>1, <3>5
    <3>7. list' \in [Buckets -> Seq(Threads)] /\ key' \in [Threads -> Addrs]
        BY Zenon, <2>1, <3>3, <3>4, <3>6 DEF FutexTypes
    <3> QED
        BY Zenon, <1>9, <2>1, <3>7 DEF Requeue, SysReturn, Goto, FutexTypes, KPoints
  <2> QED
      BY Zenon, <2>2, <2>3
<1>10. CASE UNCHANGED futexVars
    BY Zenon, <1>10 DEF futexVars, kernelVars, queueVars, FutexTypes
<1> QED
    BY Zenon, <1>1, <1>2, <1>3, <1>4, <1>5, <1>6, <1>7, <1>8, <1>9, <1>10 DEF FutexNext, FutexStep

\* A thread's own steps are all that happens to its event.
LEMMA EventsStep ==
    ASSUME FutexInv, [FutexNext]_futexVars
    PROVE  EventsOwned'
<1> USE DEF FutexInv
<1>0. /\ kpc \in [Threads -> KPoints] /\ call \in [Threads -> Args] /\ armed \in [Threads -> BOOLEAN]
    BY Zenon DEF FutexTypes
<1>1. ASSUME NEW t \in Threads, kpc[t] \notin {"armed", "woken"}, UNCHANGED armed,
             \A u \in Threads \ {t} : kpc'[u] = kpc[u] /\ call'[u] = call[u]
      PROVE  EventsOwned'
    BY Zenon, <1>1 DEF EventsOwned
<1>2. ASSUME NEW t \in Threads, NEW p, kpc' = [kpc EXCEPT ![t] = p]
      PROVE  \A u \in Threads \ {t} : kpc'[u] = kpc[u]
    BY Zenon, <1>0, <1>2
<1>3. ASSUME NEW t \in Threads, NEW args, call' = [call EXCEPT ![t] = args] \/ UNCHANGED call
      PROVE  \A u \in Threads \ {t} : call'[u] = call[u]
    BY Zenon, <1>0, <1>3
<1>4. ASSUME NEW t \in Threads, AnyUser(t) PROVE EventsOwned'
  <2>1. CASE UNCHANGED <<status, parked, kernelVars>>
      BY Zenon, <2>1 DEF kernelVars, EventsOwned
  <2>2. ASSUME NEW where \in {"wait", "wake", "requeue_lock"}, NEW args \in Args, Call(t, where, args)
        PROVE  EventsOwned'
    <3>1. /\ kpc[t] = "user" /\ kpc' = [kpc EXCEPT ![t] = where] /\ call' = [call EXCEPT ![t] = args]
          /\ UNCHANGED armed
        BY Zenon, <1>4, <2>2 DEF AnyUser, Call, Goto
    <3>2. \A u \in Threads \ {t} : kpc'[u] = kpc[u] /\ call'[u] = call[u]
        BY Zenon, <1>2, <1>3, <3>1
    <3> QED
        BY Zenon, <1>1, <3>1, <3>2
  <2> QED
      BY Zenon, <1>4, <2>1, <2>2 DEF AnyUser
<1>5. ASSUME NEW t \in Threads, kpc[t] \notin {"armed", "woken"}, UNCHANGED armed,
             NEW p, kpc' = [kpc EXCEPT ![t] = p],
             NEW args, call' = [call EXCEPT ![t] = args] \/ UNCHANGED call
      PROVE  EventsOwned'
    BY Zenon, <1>1, <1>2, <1>3, <1>5
<1>6. ASSUME NEW t \in Threads,
             FutexWait(t) \/ FutexSleep(t) \/ WakeMark(t) \/ WakeUp(t) \/ RequeueLock(t) \/ Requeue(t)
      PROVE  EventsOwned'
  <2>1. kpc[t] \in {"wait", "sleep", "wake", "wake_up", "requeue_lock", "requeue"} /\ UNCHANGED armed
      BY Zenon, <1>6 DEF FutexWait, FutexSleep, WakeMark, WakeUp, RequeueLock, Requeue, At
  <2>2. \E p : kpc' = [kpc EXCEPT ![t] = p]
      BY Zenon, <1>6 DEF FutexWait, FutexSleep, WakeMark, WakeUp, RequeueLock, Requeue, SysReturn, Goto
  <2>3. \E args : call' = [call EXCEPT ![t] = args] \/ UNCHANGED call
      BY Zenon, <1>6 DEF FutexWait, FutexSleep, WakeMark, WakeUp, RequeueLock, Requeue, SysReturn
  <2>4. kpc[t] \notin {"armed", "woken"}
      BY Zenon, <2>1
  <2> QED
      BY Zenon, <1>5, <2>1, <2>2, <2>3, <2>4
<1>7. ASSUME NEW t \in Threads, QueueEvent(t) PROVE EventsOwned'
    BY Zenon, <1>0, <1>7 DEF QueueEvent, At, Goto, EventsOwned
<1>8. ASSUME NEW t \in Threads, SchedSleep(t) PROVE EventsOwned'
    BY Zenon, <1>0, <1>8 DEF SchedSleep, At, Goto, EventsOwned
<1>9. ASSUME NEW t \in Threads, FutexReturn(t) PROVE EventsOwned'
    BY Zenon, <1>0, <1>9 DEF FutexReturn, SysReturn, Goto, EventsOwned
<1>10. ASSUME NEW t \in Threads, Timeout(t) PROVE EventsOwned'
    BY Zenon, <1>0, <1>10 DEF Timeout, EventsOwned
<1>11. CASE UNCHANGED futexVars \/ \E t \in Threads : Resched(t)
    BY Zenon, <1>11 DEF futexVars, Resched, kernelVars, EventsOwned
<1> QED
    BY Zenon, <1>4, <1>6, <1>7, <1>8, <1>9, <1>10, <1>11 DEF FutexNext, FutexStep

\* Nothing happens to the lists, and nobody gets on or off one.
LEMMA ListsKept ==
    ASSUME ListsExact, UNCHANGED list,
           \A t \in Threads :
              /\ Waits(t) /\ ~awaken[t] <=> Waits(t)' /\ ~awaken'[t]
              /\ Waits(t) /\ ~awaken[t] => key'[t] = key[t]
    PROVE  ListsExact'
    BY Zenon DEF ListsExact, Waits

\* One thread gets off its list.
LEMMA ListsShrink ==
    ASSUME FutexTypes, ListsExact, NEW f \in Threads, Waits(f), ~awaken[f],
           list' = [list EXCEPT ![Bucket[key[f]]] = list_remove(list[Bucket[key[f]]], f)],
           ~Waits(f)' \/ awaken'[f],
           \A t \in Threads \ {f} :
              /\ Waits(t) /\ ~awaken[t] <=> Waits(t)' /\ ~awaken'[t]
              /\ Waits(t) /\ ~awaken[t] => key'[t] = key[t]
    PROVE  ListsExact'
<1>1. Bucket[key[f]] \in Buckets /\ list[Bucket[key[f]]] \in Seq(Threads)
    BY Zenon, AddrFacts DEF FutexTypes
<1>2. f \in Members(list[Bucket[key[f]]]) /\ Distinct(list[Bucket[key[f]]])
    BY Zenon, <1>1 DEF ListsExact, Waits
<1> DEFINE r == list_remove(list[Bucket[key[f]]], f)
<1>3. Distinct(r) /\ Members(r) = Members(list[Bucket[key[f]]]) \ {f}
    BY Zenon, <1>1, <1>2, Remove
<1>4. list'[Bucket[key[f]]] = r /\ \A b \in Buckets : b # Bucket[key[f]] => list'[b] = list[b]
    BY Zenon, <1>1 DEF FutexTypes
<1> HIDE DEF r
<1> SUFFICES ASSUME NEW b \in Buckets
             PROVE  /\ Distinct(list'[b])
                    /\ \A t \in Threads : t \in Members(list'[b]) <=>
                          Waits(t)' /\ ~awaken'[t] /\ Bucket[key'[t]] = b
    BY Zenon DEF ListsExact, Waits
<1>5. CASE b = Bucket[key[f]]
    BY <1>3, <1>4, <1>5 DEF ListsExact, Waits
<1>6. CASE b # Bucket[key[f]]
    BY <1>4, <1>6 DEF ListsExact, Waits
<1> QED
    BY Zenon, <1>5, <1>6

\* One thread gets on the list of the address it waits for now, at one end or
\* the other.
LEMMA ListsGrow ==
    ASSUME FutexTypes, NEW f \in Threads, NEW a \in Addrs,
           NEW old \in [Buckets -> Seq(Threads)],
           \A b \in Buckets : /\ Distinct(old[b])
                              /\ \A t \in Threads : t \in Members(old[b]) <=>
                                    t # f /\ Waits(t)' /\ ~awaken'[t] /\ Bucket[key'[t]] = b,
           NEW l, l = list_add_tail(old[Bucket[a]], f) \/ l = <<f>> \o old[Bucket[a]],
           list' = [old EXCEPT ![Bucket[a]] = l],
           Waits(f)', ~awaken'[f], key'[f] = a
    PROVE  ListsExact'
<1>1. Bucket[a] \in Buckets /\ old[Bucket[a]] \in Seq(Threads)
    BY Zenon, AddrFacts
<1>2. f \notin Members(old[Bucket[a]]) /\ Distinct(old[Bucket[a]])
    BY Zenon, <1>1
<1>3. Distinct(l) /\ Members(l) = Members(old[Bucket[a]]) \cup {f}
  <2>1. CASE l = list_add_tail(old[Bucket[a]], f)
      BY <1>1, <1>2, <2>1, AddTail
  <2>2. CASE l = <<f>> \o old[Bucket[a]]
    <3>1. /\ Distinct(<<f>> \o old[Bucket[a]])
          /\ Members(<<f>> \o old[Bucket[a]]) = Members(old[Bucket[a]]) \cup {f}
        BY <1>1, <1>2, AddHead
    <3> QED
        BY Zenon, <2>2, <3>1
  <2> QED
      BY Zenon, <2>1, <2>2
<1>4. list'[Bucket[a]] = l /\ \A b \in Buckets : b # Bucket[a] => list'[b] = old[b]
    BY Zenon, <1>1
<1> SUFFICES ASSUME NEW b \in Buckets
             PROVE  /\ Distinct(list'[b])
                    /\ \A t \in Threads : t \in Members(list'[b]) <=>
                          Waits(t)' /\ ~awaken'[t] /\ Bucket[key'[t]] = b
    BY Zenon DEF ListsExact, Waits
<1>5. CASE b = Bucket[a]
    BY Zenon, <1>3, <1>4, <1>5
<1>6. CASE b # Bucket[a]
    BY Zenon, <1>4, <1>6
<1> QED
    BY Zenon, <1>5, <1>6

\* Who is on a list is who waits and was not woken, through every step.
LEMMA ListsStep ==
    ASSUME FutexInv, [FutexNext]_futexVars
    PROVE  ListsExact'
<1> USE DEF FutexInv
<1>0. /\ kpc \in [Threads -> KPoints] /\ key \in [Threads -> Addrs] /\ awaken \in [Threads -> BOOLEAN]
      /\ list \in [Buckets -> Seq(Threads)]
      /\ \A t \in Threads : call[t].addr \in Addrs /\ call[t].dest \in Addrs
    BY Zenon DEF FutexTypes, Args
<1>1. ASSUME NEW t \in Threads, NEW p \in KPoints, kpc' = [kpc EXCEPT ![t] = p],
             Waits(t) <=> p \in {"sleep", "armed", "woken"}, UNCHANGED queueVars
      PROVE  ListsExact'
  <2>1. \A u \in Threads : Waits(u)' <=> Waits(u)
      BY Zenon, <1>0, <1>1 DEF Waits
  <2> QED
      BY Zenon, <1>1, <2>1, ListsKept DEF queueVars
<1>2. ASSUME NEW t \in Threads, AnyUser(t) PROVE ListsExact'
  <2>1. CASE UNCHANGED <<status, parked, kernelVars>>
      BY Zenon, <2>1 DEF kernelVars, queueVars, ListsExact, Waits
  <2>2. ASSUME NEW where \in {"wait", "wake", "requeue_lock"}, NEW args \in Args, Call(t, where, args)
        PROVE  ListsExact'
    <3>1. where \in KPoints \ {"sleep", "armed", "woken"} /\ ~Waits(t)
        BY Zenon, <1>2 DEF KPoints, AnyUser, Waits
    <3> QED
        BY Zenon, <1>1, <2>2, <3>1 DEF Call, Goto
  <2> QED
      BY Zenon, <1>2, <2>1, <2>2 DEF AnyUser
<1>3. ASSUME NEW t \in Threads, FutexWait(t) PROVE ListsExact'
  <2>1. kpc[t] = "wait" /\ call[t].addr \in Addrs
      BY Zenon, <1>0, <1>3 DEF FutexWait, At
  <2>2. CASE kpc' = [kpc EXCEPT ![t] = "user"] /\ UNCHANGED queueVars
      BY Zenon, <1>1, <2>1, <2>2 DEF KPoints, Waits
  <2>3. CASE /\ list' = [list EXCEPT ![Bucket[call[t].addr]] = list_add_tail(list[Bucket[call[t].addr]], t)]
             /\ key' = [key EXCEPT ![t] = call[t].addr]
             /\ awaken' = [awaken EXCEPT ![t] = FALSE]
             /\ kpc' = [kpc EXCEPT ![t] = "sleep"]
    <3>1. Waits(t)' /\ ~awaken'[t] /\ key'[t] = call[t].addr
        BY Zenon, <1>0, <2>3 DEF Waits
    <3>2. \A u \in Threads \ {t} : (Waits(u)' <=> Waits(u)) /\ awaken'[u] = awaken[u] /\ key'[u] = key[u]
        BY Zenon, <1>0, <2>3 DEF Waits
    <3>3. \A b \in Buckets : t \notin Members(list[b])
        BY Zenon, <2>1 DEF ListsExact, Waits
    <3>4. \A b \in Buckets : /\ Distinct(list[b])
                             /\ \A u \in Threads : u \in Members(list[b]) <=>
                                   u # t /\ Waits(u)' /\ ~awaken'[u] /\ Bucket[key'[u]] = b
        BY <3>2, <3>3 DEF ListsExact, Waits
    <3>5. PICK l, a, old : l = list_add_tail(old[Bucket[a]], t) /\ a = call[t].addr /\ old = list
        BY Zenon
    <3>6. list' = [old EXCEPT ![Bucket[a]] = l] /\ old \in [Buckets -> Seq(Threads)] /\ a \in Addrs
        BY Zenon, <1>0, <2>1, <2>3, <3>5
    <3>7. \A b \in Buckets : /\ Distinct(old[b])
                             /\ \A u \in Threads : u \in Members(old[b]) <=>
                                   u # t /\ Waits(u)' /\ ~awaken'[u] /\ Bucket[key'[u]] = b
        BY Zenon, <3>4, <3>5
    <3>8. Waits(t)' /\ ~awaken'[t] /\ key'[t] = a /\ l = list_add_tail(old[Bucket[a]], t)
        BY Zenon, <3>1, <3>5
    <3> QED
        BY Zenon, <3>6, <3>7, <3>8, ListsGrow
  <2> QED
      BY Zenon, <1>3, <2>2, <2>3 DEF FutexWait, SysReturn, Goto
<1>4. ASSUME NEW t \in Threads, FutexSleep(t) \/ QueueEvent(t) \/ SchedSleep(t) PROVE ListsExact'
    BY Zenon, <1>1, <1>4 DEF FutexSleep, QueueEvent, SchedSleep, At, Goto, KPoints, Waits
<1>5. ASSUME NEW t \in Threads, Timeout(t) \/ Resched(t) PROVE ListsExact'
  <2>1. UNCHANGED <<queueVars, kpc>>
      BY Zenon, <1>5 DEF Timeout, Resched, kernelVars
  <2> QED
      BY Zenon, <2>1 DEF queueVars, ListsExact, Waits
<1>6. ASSUME NEW t \in Threads, FutexReturn(t) PROVE ListsExact'
  <2>1. /\ Waits(t) /\ ~Waits(t)'
        /\ \A u \in Threads \ {t} : (Waits(u)' <=> Waits(u)) /\ awaken'[u] = awaken[u] /\ key'[u] = key[u]
      BY Zenon, <1>0, <1>6 DEF FutexReturn, At, SysReturn, Goto, Waits
  <2>2. CASE awaken[t]
    <3>1. UNCHANGED list
        BY Zenon, <1>6, <2>2 DEF FutexReturn
    <3> QED
        BY Zenon, <2>1, <2>2, <3>1, ListsKept
  <2>3. CASE ~awaken[t]
    <3>1. list' = [list EXCEPT ![Bucket[key[t]]] = list_remove(list[Bucket[key[t]]], t)]
        BY Zenon, <1>6, <2>3 DEF FutexReturn
    <3> QED
        BY Zenon, <2>1, <2>3, <3>1, ListsShrink
  <2> QED
      BY Zenon, <2>2, <2>3
<1>7. ASSUME NEW t \in Threads, WakeMark(t) PROVE ListsExact'
  <2>1. kpc[t] = "wake" /\ call[t].addr \in Addrs
      BY Zenon, <1>0, <1>7 DEF WakeMark, At
  <2>2. CASE WaitersOf(call[t].addr) = {}
      BY Zenon, <1>1, <1>7, <2>1, <2>2 DEF WakeMark, SysReturn, Goto, KPoints, queueVars, Waits
  <2>3. CASE WaitersOf(call[t].addr) # {}
    <3>0. PICK f : f = FirstOf(call[t].addr)
        BY Zenon
    <3>1. f \in Threads /\ key[f] = call[t].addr /\ Waits(f) /\ ~awaken[f]
        BY Zenon, <2>1, <2>3, <3>0, FirstWaiter, OnListWaits
    <3>2. /\ list' = [list EXCEPT ![Bucket[call[t].addr]] = list_remove(list[Bucket[call[t].addr]], f)]
          /\ awaken' = [awaken EXCEPT ![f] = TRUE] /\ UNCHANGED key
          /\ kpc' = [kpc EXCEPT ![t] = "wake_up"]
        BY Zenon, <1>7, <2>3, <3>0 DEF WakeMark, Goto
    <3>3. awaken'[f] /\ \A u \in Threads \ {f} : awaken'[u] = awaken[u]
        BY Zenon, <1>0, <3>1, <3>2
    <3>4. \A u \in Threads : Waits(u)' <=> Waits(u)
        BY Zenon, <1>0, <2>1, <3>2 DEF Waits
    <3> QED
        BY Zenon, <3>1, <3>2, <3>3, <3>4, ListsShrink
  <2> QED
      BY Zenon, <2>2, <2>3
<1>8. ASSUME NEW t \in Threads, WakeUp(t) \/ RequeueLock(t) PROVE ListsExact'
    BY Zenon, <1>1, <1>8 DEF WakeUp, RequeueLock, At, SysReturn, Goto, KPoints, Waits
<1>9. ASSUME NEW t \in Threads, Requeue(t) PROVE ListsExact'
  <2>1. kpc[t] = "requeue" /\ call[t].addr \in Addrs /\ call[t].dest \in Addrs
      BY Zenon, <1>0, <1>9 DEF Requeue, At
  <2>2. CASE WaitersOf(call[t].addr) = {}
      BY Zenon, <1>1, <1>9, <2>1, <2>2 DEF Requeue, SysReturn, Goto, KPoints, queueVars, Waits
  <2>3. CASE WaitersOf(call[t].addr) # {}
    <3>0. PICK f, a, d, old, l : /\ f = FirstOf(call[t].addr) /\ a = call[t].addr /\ d = call[t].dest
                                 /\ old = [list EXCEPT ![Bucket[a]] = list_remove(list[Bucket[a]], f)]
                                 /\ l = <<f>> \o old[Bucket[d]]
        BY Zenon
    <3>1. f \in Threads /\ key[f] = a /\ Waits(f) /\ ~awaken[f] /\ a \in Addrs /\ d \in Addrs
        BY Zenon, <2>1, <2>3, <3>0, FirstWaiter, OnListWaits
    <3>2. /\ list' = [old EXCEPT ![Bucket[d]] = l]
          /\ key' = [key EXCEPT ![f] = d] /\ UNCHANGED awaken
          /\ kpc' = [kpc EXCEPT ![t] = "user"]
        BY Zenon, <1>9, <2>3, <3>0 DEF Requeue, SysReturn, Goto
    <3>3. key'[f] = d /\ \A u \in Threads \ {f} : key'[u] = key[u]
        BY Zenon, <1>0, <3>1, <3>2
    <3>4. \A u \in Threads : Waits(u)' <=> Waits(u)
        BY Zenon, <1>0, <2>1, <3>2 DEF Waits
    <3>5. /\ list[Bucket[a]] \in Seq(Threads) /\ Distinct(list[Bucket[a]])
          /\ f \in Members(list[Bucket[a]]) /\ Bucket[a] \in Buckets
        BY Zenon, <1>0, <3>1, AddrFacts DEF ListsExact, Waits
    <3>6. /\ list_remove(list[Bucket[a]], f) \in Seq(Threads)
          /\ Distinct(list_remove(list[Bucket[a]], f))
          /\ Members(list_remove(list[Bucket[a]], f)) = Members(list[Bucket[a]]) \ {f}
        BY Zenon, <3>5, Remove
    <3>7. /\ old \in [Buckets -> Seq(Threads)]
          /\ old[Bucket[a]] = list_remove(list[Bucket[a]], f)
          /\ \A b \in Buckets : b # Bucket[a] => old[b] = list[b]
        BY Zenon, <1>0, <3>0, <3>5, <3>6
    <3>8. \A b \in Buckets : Distinct(old[b]) /\ Members(old[b]) = Members(list[b]) \ {f}
      <4> TAKE b \in Buckets
      <4>1. CASE b = Bucket[a]
          BY Zenon, <3>6, <3>7, <4>1
      <4>2. CASE b # Bucket[a]
        <5>1. f \notin Members(list[b])
            BY Zenon, <3>1, <4>2 DEF ListsExact
        <5> QED
            BY <3>7, <4>2, <5>1 DEF ListsExact
      <4> QED
          BY Zenon, <4>1, <4>2
    <3>9. \A b \in Buckets : /\ Distinct(old[b])
                             /\ \A u \in Threads : u \in Members(old[b]) <=>
                                   u # f /\ Waits(u)' /\ ~awaken'[u] /\ Bucket[key'[u]] = b
        BY <3>2, <3>3, <3>4, <3>8 DEF ListsExact, Waits
    <3>10. Waits(f)' /\ ~awaken'[f]
        BY Zenon, <3>1, <3>2, <3>4
    <3>11. l = <<f>> \o old[Bucket[d]]
        BY Zenon, <3>0
    <3> QED
        BY Zenon, <3>1, <3>2, <3>3, <3>7, <3>9, <3>10, <3>11, ListsGrow
  <2> QED
      BY Zenon, <2>2, <2>3
<1>10. CASE UNCHANGED futexVars
    BY Zenon, <1>10 DEF futexVars, kernelVars, queueVars, ListsExact, Waits
<1> QED
    BY Zenon, <1>2, <1>3, <1>4, <1>5, <1>6, <1>7, <1>8, <1>9, <1>10 DEF FutexNext, FutexStep

\* A thread takes a free lock or lets its own go, and no other thread notices.
LEMMA LocksByOne ==
    ASSUME FutexTypes, LocksHeld, NEW t \in Threads,
           \A u \in Threads \ {t} : kpc'[u] = kpc[u] /\ call'[u] = call[u] /\ waking'[u] = waking[u],
           \A b \in Buckets : lock[b] \in Threads \ {t} => lock'[b] = lock[b],
           waking'[t] # Nobody <=> kpc'[t] = "wake_up",
           kpc'[t] = "wake_up" => lock'[Bucket[call'[t].addr]] = t,
           kpc'[t] = "requeue" => lock'[Lower(call'[t].addr, call'[t].dest)] = t
    PROVE  LocksHeld'
<1>1. \A u \in Threads : call[u].addr \in Addrs /\ call[u].dest \in Addrs
    BY Zenon DEF FutexTypes, Args
<1>2. \A u \in Threads : Bucket[call[u].addr] \in Buckets /\ Lower(call[u].addr, call[u].dest) \in Buckets
    BY Zenon, <1>1, AddrFacts
<1> SUFFICES ASSUME NEW u \in Threads
             PROVE  /\ waking'[u] # Nobody <=> kpc'[u] = "wake_up"
                    /\ kpc'[u] = "wake_up" => lock'[Bucket[call'[u].addr]] = u
                    /\ kpc'[u] = "requeue" => lock'[Lower(call'[u].addr, call'[u].dest)] = u
    BY Zenon DEF LocksHeld, Lower
<1>3. CASE u = t
    BY Zenon, <1>3
<1>4. CASE u # t
    BY <1>2, <1>4 DEF LocksHeld
<1> QED
    BY Zenon, <1>3, <1>4

\* The locks are held through every step.
LEMMA LocksStep ==
    ASSUME FutexInv, [FutexNext]_futexVars
    PROVE  LocksHeld'
<1> USE DEF FutexInv
<1>0. /\ kpc \in [Threads -> KPoints] /\ call \in [Threads -> Args] /\ lock \in [Buckets -> Threads \cup {Nobody}]
      /\ waking \in [Threads -> Threads \cup {Nobody}] /\ Nobody \notin Threads
      /\ \A t \in Threads : call[t].addr \in Addrs /\ call[t].dest \in Addrs
    BY Zenon, FutexAssumption DEF FutexTypes, Args
<1>1. ASSUME NEW t \in Threads, NEW p \in KPoints \ {"wake_up", "requeue"}, NEW args \in Args,
             kpc[t] # "wake_up",
             kpc' = [kpc EXCEPT ![t] = p], call' = [call EXCEPT ![t] = args], UNCHANGED <<lock, waking>>
      PROVE  LocksHeld'
  <2>1. \A u \in Threads \ {t} : kpc'[u] = kpc[u] /\ call'[u] = call[u] /\ waking'[u] = waking[u]
      BY Zenon, <1>0, <1>1
  <2>2. waking'[t] = Nobody /\ kpc'[t] \notin {"wake_up", "requeue"}
      BY Zenon, <1>0, <1>1 DEF LocksHeld
  <2> QED
      BY Zenon, <1>1, <2>1, <2>2, LocksByOne
<1>2. ASSUME NEW t \in Threads, AnyUser(t) PROVE LocksHeld'
  <2>1. CASE UNCHANGED <<status, parked, kernelVars>>
      BY Zenon, <2>1 DEF kernelVars, LocksHeld, Lower
  <2>2. ASSUME NEW where \in {"wait", "wake", "requeue_lock"}, NEW args \in Args, Call(t, where, args)
        PROVE  LocksHeld'
      BY Zenon, <1>1, <1>2, <2>2 DEF AnyUser, Call, Goto, KPoints
  <2> QED
      BY Zenon, <1>2, <2>1, <2>2 DEF AnyUser
<1>3. ASSUME NEW t \in Threads, FutexWait(t) \/ FutexSleep(t) \/ QueueEvent(t) \/ SchedSleep(t) \/ FutexReturn(t)
      PROVE  LocksHeld'
  <2>1. /\ kpc[t] # "wake_up" /\ UNCHANGED <<lock, waking>>
        /\ \E p \in {"user", "sleep", "armed", "woken"}, args \in {NoArgs, call[t]} :
              kpc' = [kpc EXCEPT ![t] = p] /\ call' = [call EXCEPT ![t] = args]
    <3>1. call = [call EXCEPT ![t] = call[t]]
        BY Zenon, <1>0
    <3> QED
        BY Zenon, <1>3, <3>1 DEF FutexWait, FutexSleep, QueueEvent, SchedSleep, FutexReturn, At, SysReturn, Goto
  <2>2. {NoArgs, call[t]} \subseteq Args /\ {"user", "sleep", "armed", "woken"} \subseteq KPoints
      BY <1>0, AddrFacts DEF KPoints
  <2> QED
      BY Zenon, <1>1, <2>1, <2>2
<1>4. ASSUME NEW t \in Threads, Timeout(t) \/ Resched(t) PROVE LocksHeld'
    BY Zenon, <1>4 DEF Timeout, Resched, kernelVars, LocksHeld, Lower
<1>5. ASSUME NEW t \in Threads, WakeMark(t) PROVE LocksHeld'
  <2>1. kpc[t] = "wake" /\ lock[Bucket[call[t].addr]] = Nobody /\ Bucket[call[t].addr] \in Buckets
      BY Zenon, <1>0, <1>5, AddrFacts DEF WakeMark, At
  <2>2. CASE WaitersOf(call[t].addr) = {}
    <3>1. /\ kpc' = [kpc EXCEPT ![t] = "user"] /\ call' = [call EXCEPT ![t] = NoArgs]
          /\ UNCHANGED <<lock, waking>>
        BY Zenon, <1>5, <2>2 DEF WakeMark, SysReturn, Goto
    <3> QED
        BY Zenon, <1>1, <2>1, <3>1, AddrFacts DEF KPoints
  <2>3. CASE WaitersOf(call[t].addr) # {}
    <3>1. /\ lock' = [lock EXCEPT ![Bucket[call[t].addr]] = t]
          /\ waking' = [waking EXCEPT ![t] = FirstOf(call[t].addr)]
          /\ kpc' = [kpc EXCEPT ![t] = "wake_up"]
          /\ UNCHANGED call
        BY Zenon, <1>5, <2>3 DEF WakeMark, Goto
    <3>2. FirstOf(call[t].addr) \in Threads
        BY Zenon, <1>0, <2>3, FirstWaiter
    <3>3. \A u \in Threads \ {t} : kpc'[u] = kpc[u] /\ call'[u] = call[u] /\ waking'[u] = waking[u]
        BY Zenon, <1>0, <3>1
    <3>4. kpc'[t] = "wake_up" /\ waking'[t] # Nobody /\ lock'[Bucket[call'[t].addr]] = t
        BY Zenon, <1>0, <2>1, <3>1, <3>2
    <3>5. \A b \in Buckets : lock[b] \in Threads \ {t} => lock'[b] = lock[b]
        BY Zenon, <1>0, <2>1, <3>1
    <3> QED
        BY Zenon, <3>3, <3>4, <3>5, LocksByOne
  <2> QED
      BY Zenon, <2>2, <2>3
<1>6. ASSUME NEW t \in Threads, WakeUp(t) PROVE LocksHeld'
  <2>1. /\ waking' = [waking EXCEPT ![t] = Nobody]
        /\ lock' = [lock EXCEPT ![Bucket[call[t].addr]] = Nobody]
        /\ kpc' = [kpc EXCEPT ![t] = "user"] /\ call' = [call EXCEPT ![t] = NoArgs]
      BY Zenon, <1>6 DEF WakeUp, SysReturn, Goto
  <2>2. lock[Bucket[call[t].addr]] = t
      BY Zenon, <1>6 DEF WakeUp, At, LocksHeld
  <2>3. \A u \in Threads \ {t} : kpc'[u] = kpc[u] /\ call'[u] = call[u] /\ waking'[u] = waking[u]
      BY Zenon, <1>0, <2>1
  <2>4. kpc'[t] = "user" /\ waking'[t] = Nobody
      BY Zenon, <1>0, <2>1
  <2>5. \A b \in Buckets : lock[b] \in Threads \ {t} => lock'[b] = lock[b]
      BY Zenon, <1>0, <2>1, <2>2
  <2> QED
      BY Zenon, <2>3, <2>4, <2>5, LocksByOne
<1>7. ASSUME NEW t \in Threads, RequeueLock(t) PROVE LocksHeld'
  <2> DEFINE b0 == Lower(call[t].addr, call[t].dest)
  <2>1. /\ kpc[t] = "requeue_lock" /\ lock[b0] = Nobody
        /\ lock' = [lock EXCEPT ![b0] = t]
        /\ kpc' = [kpc EXCEPT ![t] = "requeue"] /\ UNCHANGED <<call, waking>>
      BY Zenon, <1>7 DEF RequeueLock, At, Goto
  <2>2. b0 \in Buckets
      BY Zenon, <1>0, AddrFacts
  <2>3. Lower(call'[t].addr, call'[t].dest) = b0
      BY Zenon, <2>1
  <2> HIDE DEF b0
  <2>4. \A u \in Threads \ {t} : kpc'[u] = kpc[u] /\ call'[u] = call[u] /\ waking'[u] = waking[u]
      BY Zenon, <1>0, <2>1
  <2>5. kpc'[t] = "requeue" /\ waking'[t] = Nobody /\ lock'[b0] = t
      BY Zenon, <1>0, <2>1, <2>2 DEF LocksHeld
  <2>6. \A b \in Buckets : lock[b] \in Threads \ {t} => lock'[b] = lock[b]
      BY Zenon, <1>0, <2>1
  <2> QED
      BY Zenon, <2>3, <2>4, <2>5, <2>6, LocksByOne
<1>8. ASSUME NEW t \in Threads, Requeue(t) PROVE LocksHeld'
  <2> DEFINE b0 == Lower(call[t].addr, call[t].dest)
  <2>1. /\ kpc[t] = "requeue" /\ lock[b0] = t
        /\ lock' = [lock EXCEPT ![b0] = Nobody]
        /\ kpc' = [kpc EXCEPT ![t] = "user"] /\ call' = [call EXCEPT ![t] = NoArgs] /\ UNCHANGED waking
      BY Zenon, <1>8 DEF Requeue, At, SysReturn, Goto, LocksHeld
  <2> HIDE DEF b0
  <2>2. \A u \in Threads \ {t} : kpc'[u] = kpc[u] /\ call'[u] = call[u] /\ waking'[u] = waking[u]
      BY Zenon, <1>0, <2>1
  <2>3. kpc'[t] = "user" /\ waking'[t] = Nobody
      BY Zenon, <1>0, <2>1 DEF LocksHeld
  <2>4. \A b \in Buckets : lock[b] \in Threads \ {t} => lock'[b] = lock[b]
      BY Zenon, <1>0, <2>1
  <2> QED
      BY Zenon, <2>2, <2>3, <2>4, LocksByOne
<1>9. CASE UNCHANGED futexVars
    BY Zenon, <1>9 DEF futexVars, kernelVars, LocksHeld, Lower
<1> QED
    BY Zenon, <1>2, <1>3, <1>4, <1>5, <1>6, <1>7, <1>8, <1>9 DEF FutexNext, FutexStep

\* A step of a thread that neither waits nor wakes, and of no one who waits.
LEMMA WakesKept ==
    ASSUME FutexTypes, LocksHeld, WakesSound, NEW t \in Threads,
           ~Waits(t), kpc[t] # "wake_up", ~Waits(t)',
           \A u \in Threads \ {t} : kpc'[u] = kpc[u] /\ call'[u] = call[u],
           \A u \in Threads : Waits(u) /\ awaken[u] => key'[u] = key[u],
           UNCHANGED <<status, parked, awaken, waking, raced>>
    PROVE  WakesSound'
<1>1. waking[t] = Nobody /\ Nobody \notin Threads
    BY Zenon, FutexAssumption DEF LocksHeld, FutexTypes
<1>2. \A u \in Threads : Waits(u)' <=> Waits(u)
    BY Zenon DEF Waits
<1> SUFFICES ASSUME ~raced PROVE WakesSound'
    BY Zenon DEF WakesSound
<1>3. ASSUME NEW u \in Threads, NEW w \in Threads, waking[u] = w
      PROVE  Waits(w)' /\ awaken'[w] /\ key'[w] = call'[u].addr /\ \A v \in Threads : waking[v] = w => v = u
    BY <1>1, <1>2, <1>3 DEF WakesSound
<1>4. ASSUME NEW w \in Threads, Waits(w)', ~call'[w].timed, awaken[w] => \E v \in Threads : waking[v] = w
      PROVE  status[w] = "INTERRUPTIBLE" /\ (kpc'[w] = "woken" => parked[w])
    BY Zenon, <1>2, <1>4 DEF WakesSound
<1> QED
    BY <1>3, <1>4 DEF WakesSound

\* The wakes are sound through every step.
LEMMA WakesStep ==
    ASSUME FutexInv, [FutexNext]_futexVars
    PROVE  WakesSound'
<1> USE DEF FutexInv
<1>0. /\ kpc \in [Threads -> KPoints] /\ call \in [Threads -> Args] /\ lock \in [Buckets -> Threads \cup {Nobody}]
      /\ waking \in [Threads -> Threads \cup {Nobody}] /\ Nobody \notin Threads
      /\ status \in [Threads -> Statuses] /\ parked \in [Threads -> BOOLEAN]
      /\ key \in [Threads -> Addrs] /\ awaken \in [Threads -> BOOLEAN]
      /\ \A t \in Threads : call[t].addr \in Addrs /\ call[t].dest \in Addrs
    BY Zenon, FutexAssumption DEF FutexTypes, Args
<1>1. ASSUME NEW t \in Threads, NEW p \in KPoints \ {"sleep", "armed", "woken"}, NEW args,
             ~Waits(t), kpc[t] # "wake_up",
             kpc' = [kpc EXCEPT ![t] = p], call' = [call EXCEPT ![t] = args],
             UNCHANGED <<status, parked, key, awaken, waking, raced>>
      PROVE  WakesSound'
  <2>1. /\ ~Waits(t)' /\ \A u \in Threads \ {t} : kpc'[u] = kpc[u] /\ call'[u] = call[u]
        /\ \A u \in Threads : key'[u] = key[u]
      BY Zenon, <1>0, <1>1 DEF Waits
  <2> QED
      BY Zenon, <1>1, <2>1, WakesKept
<1>2. ASSUME NEW t \in Threads, AnyUser(t) PROVE WakesSound'
  <2>1. CASE UNCHANGED <<status, parked, kernelVars>>
      BY <2>1 DEF kernelVars, queueVars, WakesSound, Waits
  <2>2. ASSUME NEW where \in {"wait", "wake", "requeue_lock"}, NEW args \in Args, Call(t, where, args)
        PROVE  WakesSound'
      BY Zenon, <1>1, <1>2, <2>2 DEF AnyUser, Call, Goto, KPoints, queueVars, Waits
  <2> QED
      BY Zenon, <1>2, <2>1, <2>2 DEF AnyUser
<1>3. ASSUME NEW t \in Threads, FutexWait(t) PROVE WakesSound'
  <2>1. kpc[t] = "wait" /\ ~Waits(t)
      BY Zenon, <1>3 DEF FutexWait, At, Waits
  <2>2. CASE UNCHANGED <<status, parked, queueVars>> /\ SysReturn(t)
      BY Zenon, <1>1, <1>3, <2>1, <2>2 DEF FutexWait, SysReturn, Goto, KPoints, queueVars
  <2>3. CASE /\ key' = [key EXCEPT ![t] = call[t].addr] /\ awaken' = [awaken EXCEPT ![t] = FALSE]
             /\ status' = [status EXCEPT ![t] = "INTERRUPTIBLE"] /\ UNCHANGED <<parked, call, waking, raced>>
             /\ kpc' = [kpc EXCEPT ![t] = "sleep"]
    <3> SUFFICES ASSUME ~raced PROVE WakesSound'
        BY Zenon, <2>3 DEF WakesSound
    <3>1. \A u \in Threads : waking[u] # t
        BY Zenon, <2>1 DEF WakesSound
    <3>2. /\ \A u \in Threads \ {t} : /\ kpc'[u] = kpc[u] /\ status'[u] = status[u] /\ awaken'[u] = awaken[u]
                                      /\ key'[u] = key[u]
          /\ kpc'[t] = "sleep" /\ status'[t] = "INTERRUPTIBLE"
        BY Zenon, <1>0, <2>3
    <3>3. \A u \in Threads \ {t} : Waits(u)' <=> Waits(u)
        BY Zenon, <3>2 DEF Waits
    <3>4. ASSUME NEW u \in Threads, NEW w \in Threads, waking'[u] = w
          PROVE  /\ Waits(w)' /\ awaken'[w] /\ key'[w] = call'[u].addr
                 /\ \A v \in Threads : waking'[v] = w => v = u
        BY <2>3, <3>1, <3>2, <3>3, <3>4 DEF WakesSound
    <3>5. ASSUME NEW w \in Threads, Waits(w)', ~call'[w].timed,
                 awaken'[w] => \E v \in Threads : waking'[v] = w
          PROVE  status'[w] = "INTERRUPTIBLE" /\ (kpc'[w] = "woken" => parked'[w])
        BY <2>3, <3>2, <3>3, <3>5 DEF WakesSound
    <3> QED
        BY Zenon, <3>4, <3>5 DEF WakesSound
  <2> QED
      BY Zenon, <1>3, <2>2, <2>3 DEF FutexWait, set_current_state, Goto
\* A step within wait, or of the clock or the scheduler, that leaves a sleep
\* without a timeout as it is.
<1>Sleeps.
      ASSUME NEW t \in Threads, UNCHANGED <<key, awaken, call, waking, raced>>,
             \A u \in Threads : Waits(u)' <=> Waits(u),
             \A u \in Threads \ {t} : kpc'[u] = kpc[u] /\ status'[u] = status[u] /\ parked'[u] = parked[u],
             status[t] = "INTERRUPTIBLE" /\ ~call[t].timed =>
                status'[t] = "INTERRUPTIBLE" /\ (kpc'[t] = "woken" => parked'[t])
      PROVE  WakesSound'
  <2> USE <1>Sleeps
  <2> SUFFICES ASSUME ~raced PROVE WakesSound'
      BY Zenon DEF WakesSound
  <2>1. ASSUME NEW u \in Threads, NEW w \in Threads, waking'[u] = w
        PROVE  /\ Waits(w)' /\ awaken'[w] /\ key'[w] = call'[u].addr
               /\ \A v \in Threads : waking'[v] = w => v = u
      BY Zenon, <2>1 DEF WakesSound
  <2>2. ASSUME NEW w \in Threads, Waits(w)', ~call'[w].timed,
               awaken'[w] => \E v \in Threads : waking'[v] = w
        PROVE  status'[w] = "INTERRUPTIBLE" /\ (kpc'[w] = "woken" => parked'[w])
    <3>1. status[w] = "INTERRUPTIBLE" /\ (kpc[w] = "woken" => parked[w]) /\ ~call[w].timed
        BY Zenon, <2>2 DEF WakesSound
    <3> QED
        BY Zenon, <3>1
  <2> QED
      BY Zenon, <2>1, <2>2 DEF WakesSound
<1>4. ASSUME NEW t \in Threads, FutexSleep(t) \/ QueueEvent(t) \/ SchedSleep(t) PROVE WakesSound'
  <2>1. /\ kpc[t] \in {"sleep", "armed"} /\ ~parked[t]
        /\ kpc' = [kpc EXCEPT ![t] = "armed"] \/ kpc' = [kpc EXCEPT ![t] = "woken"]
        /\ UNCHANGED <<key, awaken, call, waking, raced>>
      BY Zenon, <1>4 DEF FutexSleep, QueueEvent, SchedSleep, At, Goto, queueVars
  <2>2. \A u \in Threads : Waits(u)' <=> Waits(u)
      BY Zenon, <1>0, <2>1 DEF Waits
  <2>3. /\ \A u \in Threads \ {t} : kpc'[u] = kpc[u] /\ status'[u] = status[u] /\ parked'[u] = parked[u]
        /\ status[t] = "INTERRUPTIBLE" => status'[t] = "INTERRUPTIBLE" /\ (kpc'[t] = "woken" => parked'[t])
    <3>1. CASE FutexSleep(t)
        BY Zenon, <1>0, <3>1 DEF FutexSleep, Goto, sched_yield
    <3>2. CASE QueueEvent(t)
        BY Zenon, <1>0, <3>2 DEF QueueEvent, Goto
    <3>3. CASE SchedSleep(t)
        BY Zenon, <1>0, <3>3 DEF SchedSleep, Goto
    <3> QED
        BY Zenon, <1>4, <3>1, <3>2, <3>3
  <2> QED
      BY Zenon, <2>1, <2>2, <2>3, <1>Sleeps
<1>5. ASSUME NEW t \in Threads, Timeout(t) \/ Resched(t) PROVE WakesSound'
  <2>1. UNCHANGED <<kpc, key, awaken, call, waking, raced>>
      BY Zenon, <1>5 DEF Timeout, Resched, kernelVars, queueVars
  <2>2. \A u \in Threads : Waits(u)' <=> Waits(u)
      BY Zenon, <2>1 DEF Waits
  <2>3. CASE Timeout(t)
    <3>1. call[t].timed /\ \A u \in Threads \ {t} : status'[u] = status[u] /\ parked'[u] = parked[u]
        BY Zenon, <1>0, <2>3 DEF Timeout, thread_wake_up, EventsOwned
    <3> QED
        BY Zenon, <2>1, <2>2, <3>1, <1>Sleeps
  <2>4. CASE Resched(t)
    <3>1. /\ kpc'[t] # "woken" /\ status' = status
          /\ \A u \in Threads \ {t} : parked'[u] = parked[u]
        BY Zenon, <1>0, <2>1, <2>4 DEF Resched, sched_yield
    <3> QED
        BY Zenon, <2>1, <2>2, <3>1, <1>Sleeps
  <2> QED
      BY Zenon, <1>5, <2>3, <2>4
<1>6. ASSUME NEW t \in Threads, FutexReturn(t) PROVE WakesSound'
  <2> SUFFICES ASSUME ~raced' PROVE WakesSound'
      BY Zenon DEF WakesSound
  <2>1. /\ kpc[t] = "woken" /\ ~parked[t] /\ lock[home[t]] = Nobody /\ UNCHANGED <<parked, waking>>
        /\ ~raced /\ (Bucket[key[t]] = home[t] \/ (~call[t].timed /\ awaken[t]))
        /\ key' = [key EXCEPT ![t] = AnAddr] /\ awaken' = [awaken EXCEPT ![t] = FALSE]
        /\ status' = [status EXCEPT ![t] = "RUNNABLE"]
        /\ kpc' = [kpc EXCEPT ![t] = "user"] /\ call' = [call EXCEPT ![t] = NoArgs]
      BY Zenon, <1>6 DEF FutexReturn, At, set_current_state, SysReturn, Goto
  <2>2. ASSUME NEW u \in Threads, waking[u] = t PROVE FALSE
    <3>1. Waits(t) /\ awaken[t] /\ key[t] = call[u].addr
        BY Zenon, <2>1, <2>2 DEF WakesSound
    <3>2. lock[Bucket[key[t]]] = u
        BY Zenon, <1>0, <2>2, <3>1 DEF LocksHeld
    <3>3. ~call[t].timed
        BY Zenon, <1>0, <2>1, <3>2
    <3>4. parked[t]
        BY Zenon, <2>1, <2>2, <3>1, <3>3 DEF WakesSound
    <3> QED
        BY Zenon, <2>1, <3>4
  <2>3. /\ \A u \in Threads \ {t} : /\ kpc'[u] = kpc[u] /\ call'[u] = call[u] /\ status'[u] = status[u]
                                    /\ awaken'[u] = awaken[u] /\ key'[u] = key[u]
        /\ ~Waits(t)'
      BY Zenon, <1>0, <2>1 DEF Waits
  <2>4. \A u \in Threads \ {t} : Waits(u)' <=> Waits(u)
      BY Zenon, <2>3 DEF Waits
  <2>5. waking[t] = Nobody
      BY Zenon, <2>1 DEF LocksHeld
  <2>6. ASSUME NEW u \in Threads, NEW w \in Threads, waking'[u] = w
        PROVE  /\ Waits(w)' /\ awaken'[w] /\ key'[w] = call'[u].addr
               /\ \A v \in Threads : waking'[v] = w => v = u
    <3>1. w # t /\ u # t
        BY Zenon, <1>0, <2>1, <2>2, <2>5, <2>6
    <3> QED
        BY <2>1, <2>3, <2>4, <2>6, <3>1 DEF WakesSound
  <2>7. ASSUME NEW w \in Threads, Waits(w)', ~call'[w].timed,
               awaken'[w] => \E v \in Threads : waking'[v] = w
        PROVE  status'[w] = "INTERRUPTIBLE" /\ (kpc'[w] = "woken" => parked'[w])
    <3>1. w # t
        BY Zenon, <2>3, <2>7
    <3> QED
        BY <2>1, <2>3, <2>4, <2>7, <3>1 DEF WakesSound
  <2> QED
      BY Zenon, <2>6, <2>7 DEF WakesSound
<1>7. ASSUME NEW t \in Threads, WakeMark(t) PROVE WakesSound'
  <2>1. kpc[t] = "wake" /\ ~Waits(t) /\ UNCHANGED <<status, parked, key, raced>>
      BY Zenon, <1>7 DEF WakeMark, At, Waits
  <2>2. CASE WaitersOf(call[t].addr) = {}
      BY Zenon, <1>1, <1>7, <2>1, <2>2 DEF WakeMark, SysReturn, Goto, KPoints
  <2>3. CASE WaitersOf(call[t].addr) # {}
    <3> SUFFICES ASSUME ~raced PROVE WakesSound'
        BY Zenon, <2>1 DEF WakesSound
    <3>1. PICK f : f = FirstOf(call[t].addr)
        BY Zenon
    <3>2. f \in Threads /\ key[f] = call[t].addr /\ Waits(f) /\ ~awaken[f]
        BY Zenon, <1>0, <2>3, <3>1, FirstWaiter, OnListWaits
    <3>3. /\ awaken' = [awaken EXCEPT ![f] = TRUE] /\ waking' = [waking EXCEPT ![t] = f]
          /\ kpc' = [kpc EXCEPT ![t] = "wake_up"] /\ UNCHANGED call
        BY Zenon, <1>7, <2>3, <3>1 DEF WakeMark, Goto
    <3>4. /\ awaken'[f] /\ \A u \in Threads \ {f} : awaken'[u] = awaken[u]
          /\ waking'[t] = f /\ \A u \in Threads \ {t} : waking'[u] = waking[u]
          /\ \A u \in Threads \ {t} : kpc'[u] = kpc[u]
        BY Zenon, <1>0, <3>2, <3>3
    <3>5. \A u \in Threads : Waits(u)' <=> Waits(u)
        BY Zenon, <1>0, <2>1, <3>3 DEF Waits
    <3>6. \A u \in Threads : waking[u] # f
        BY Zenon, <3>2 DEF WakesSound
    <3>7. ASSUME NEW u \in Threads, NEW w \in Threads, waking'[u] = w
          PROVE  /\ Waits(w)' /\ awaken'[w] /\ key'[w] = call'[u].addr
                 /\ \A v \in Threads : waking'[v] = w => v = u
      <4>1. CASE u = t
          BY Zenon, <2>1, <3>2, <3>3, <3>4, <3>5, <3>6, <3>7, <4>1
      <4>2. CASE u # t
          BY <2>1, <3>3, <3>4, <3>5, <3>6, <3>7, <4>2 DEF WakesSound
      <4> QED
          BY Zenon, <4>1, <4>2
    <3>8. ASSUME NEW w \in Threads, Waits(w)', ~call'[w].timed,
                 awaken'[w] => \E v \in Threads : waking'[v] = w
          PROVE  status'[w] = "INTERRUPTIBLE" /\ (kpc'[w] = "woken" => parked'[w])
      <4>1. Waits(w) /\ ~call[w].timed /\ w # t
          BY Zenon, <2>1, <3>3, <3>5, <3>8
      <4>2. awaken[w] => \E v \in Threads : waking[v] = w
          BY Zenon, <3>2, <3>4, <3>8
      <4> QED
          BY Zenon, <2>1, <3>4, <4>1, <4>2 DEF WakesSound
    <3> QED
        BY Zenon, <3>7, <3>8 DEF WakesSound
  <2> QED
      BY Zenon, <2>2, <2>3
<1>8. ASSUME NEW t \in Threads, WakeUp(t) PROVE WakesSound'
  <2> SUFFICES ASSUME ~raced PROVE WakesSound'
      BY Zenon, <1>8 DEF WakeUp, WakesSound
  <2>1. PICK f : f = waking[t]
      BY Zenon
  <2>2. /\ kpc[t] = "wake_up" /\ UNCHANGED <<key, awaken, raced>>
        /\ status' = [status EXCEPT ![f] = "RUNNABLE"] /\ parked' = [parked EXCEPT ![f] = FALSE]
        /\ waking' = [waking EXCEPT ![t] = Nobody]
        /\ kpc' = [kpc EXCEPT ![t] = "user"] /\ call' = [call EXCEPT ![t] = NoArgs]
      BY Zenon, <1>8, <2>1 DEF WakeUp, At, thread_wake_up, SysReturn, Goto, queueVars
  <2>3. f \in Threads /\ awaken[f] /\ \A u \in Threads : waking[u] = f => u = t
      BY <1>0, <2>1, <2>2 DEF WakesSound, LocksHeld
  <2>4. /\ waking'[t] = Nobody
        /\ \A u \in Threads \ {t} : waking'[u] = waking[u] /\ kpc'[u] = kpc[u] /\ call'[u] = call[u]
        /\ \A u \in Threads \ {f} : status'[u] = status[u] /\ parked'[u] = parked[u]
      BY Zenon, <1>0, <2>2
  <2>5. \A u \in Threads : Waits(u)' <=> Waits(u)
      BY Zenon, <1>0, <2>2 DEF Waits
  <2>6. ASSUME NEW u \in Threads, NEW w \in Threads, waking'[u] = w
        PROVE  /\ Waits(w)' /\ awaken'[w] /\ key'[w] = call'[u].addr
               /\ \A v \in Threads : waking'[v] = w => v = u
    <3>1. u # t
        BY Zenon, <1>0, <2>4, <2>6
    <3>2. \A v \in Threads : waking'[v] = w => v # t /\ waking[v] = w
        BY Zenon, <1>0, <2>4
    <3> QED
        BY <2>2, <2>4, <2>5, <2>6, <3>1, <3>2 DEF WakesSound
  <2>7. ASSUME NEW w \in Threads, Waits(w)', ~call'[w].timed,
               awaken'[w] => \E v \in Threads : waking'[v] = w
        PROVE  status'[w] = "INTERRUPTIBLE" /\ (kpc'[w] = "woken" => parked'[w])
    <3>1. w # t
        BY Zenon, <2>2, <2>5, <2>7 DEF Waits
    <3>2. \A v \in Threads : waking'[v] = w => v # t /\ waking[v] = w
        BY Zenon, <1>0, <2>4
    <3>3. w # f
        BY Zenon, <2>2, <2>3, <2>7, <3>2
    <3>4. Waits(w) /\ ~call[w].timed /\ (awaken[w] => \E v \in Threads : waking[v] = w)
        BY Zenon, <2>2, <2>4, <2>5, <2>7, <3>1, <3>2
    <3> QED
        BY Zenon, <2>4, <3>1, <3>3, <3>4 DEF WakesSound
  <2> QED
      BY Zenon, <2>6, <2>7 DEF WakesSound
<1>9. ASSUME NEW t \in Threads, RequeueLock(t) PROVE WakesSound'
  <2>1. call = [call EXCEPT ![t] = call[t]]
      BY Zenon, <1>0
  <2>2. /\ kpc[t] = "requeue_lock" /\ kpc' = [kpc EXCEPT ![t] = "requeue"]
        /\ UNCHANGED <<status, parked, key, awaken, call, waking, raced>>
      BY Zenon, <1>9 DEF RequeueLock, At, Goto, queueVars
  <2>3. ~Waits(t) /\ "requeue" \in KPoints \ {"sleep", "armed", "woken"}
      BY Zenon, <2>2 DEF Waits, KPoints
  <2> QED
      BY Zenon, <1>1, <2>1, <2>2, <2>3
<1>10. ASSUME NEW t \in Threads, Requeue(t) PROVE WakesSound'
  <2>1. /\ kpc[t] = "requeue" /\ kpc' = [kpc EXCEPT ![t] = "user"] /\ call' = [call EXCEPT ![t] = NoArgs]
        /\ UNCHANGED <<status, parked, awaken, waking, raced>>
      BY Zenon, <1>10 DEF Requeue, At, SysReturn, Goto
  <2>2. /\ ~Waits(t) /\ ~Waits(t)'
        /\ \A u \in Threads \ {t} : kpc'[u] = kpc[u] /\ call'[u] = call[u]
      BY Zenon, <1>0, <2>1 DEF Waits
  <2>3. \A u \in Threads : Waits(u) /\ awaken[u] => key'[u] = key[u]
    <3>1. CASE WaitersOf(call[t].addr) = {}
        BY Zenon, <1>10, <3>1 DEF Requeue
    <3>2. CASE WaitersOf(call[t].addr) # {}
      <4>1. key' = [key EXCEPT ![FirstOf(call[t].addr)] = call[t].dest]
          BY Zenon, <1>10, <3>2 DEF Requeue
      <4>2. ~awaken[FirstOf(call[t].addr)]
          BY Zenon, <1>0, <3>2, OnListWaits
      <4> QED
          BY Zenon, <1>0, <4>1, <4>2
    <3> QED
        BY Zenon, <3>1, <3>2
  <2> QED
      BY Zenon, <2>1, <2>2, <2>3, WakesKept
<1>11. CASE UNCHANGED futexVars
    BY <1>11 DEF futexVars, kernelVars, queueVars, WakesSound, Waits
<1> QED
    BY Zenon, <1>2, <1>3, <1>4, <1>5, <1>6, <1>7, <1>8, <1>9, <1>10, <1>11 DEF FutexNext, FutexStep

-----------------------------------------------------------------------------
(* The kernel keeps its promises to every program.                         *)

LEMMA FutexInitial ==
    FutexInit => FutexInv
<1> SUFFICES ASSUME FutexInit PROVE FutexInv
    BY Zenon
<1> USE AddrFacts, FutexAssumption
<1>1. FutexTypes
  <2>1. list \in [Buckets -> Seq(Threads)] /\ lock \in [Buckets -> Threads \cup {Nobody}]
      BY DEF FutexInit
  <2>2. kpc \in [Threads -> KPoints] /\ call \in [Threads -> Args]
      BY Zenon DEF FutexInit, KPoints
  <2> QED
      BY Zenon, <2>1, <2>2 DEF FutexInit, FutexTypes, Statuses
<1>2. ListsExact
  <2>1. Distinct(<<>>) /\ \A t : t \notin Members(<<>>)
      BY DEF Distinct, Members
  <2> QED
      BY Zenon, <2>1 DEF FutexInit, ListsExact, Waits
<1>3. LocksHeld /\ WakesSound /\ EventsOwned
    BY Zenon DEF FutexInit, LocksHeld, WakesSound, EventsOwned, Waits
<1> QED
    BY Zenon, <1>1, <1>2, <1>3 DEF FutexInv

LEMMA FutexStepKeeps ==
    FutexInv /\ [FutexNext]_futexVars => FutexInv'
    BY Zenon, FutexTypesStep, EventsStep, ListsStep, LocksStep, WakesStep DEF FutexInv

LEMMA InvGivesQueues ==
    FutexInv => QueueInUse
<1> SUFFICES ASSUME FutexInv, ~raced, NEW t \in Threads, waking[t] # Nobody
             PROVE  Waits(waking[t])
    BY Zenon DEF QueueInUse
<1>1. waking[t] \in Threads
    BY Zenon DEF FutexInv, FutexTypes
<1> QED
    BY Zenon, <1>1 DEF FutexInv, WakesSound

\* The inductive invariant holds whatever the program does.
THEOREM FutexInvariance == FutexSpec => []FutexInv
<1>1. FutexInit => FutexInv
    BY Zenon, FutexInitial
<1>2. FutexInv /\ [FutexNext]_futexVars => FutexInv'
    BY Zenon, FutexStepKeeps
<1> QED
    BY <1>1, <1>2, PTL DEF FutexSpec

\* A waiter hangs on the list of the bucket of the address it waits for until
\* it is woken, wherever it is requeued to and whatever the program does.
THEOREM AnyProgramLists == FutexSpec => []ListsExact
<1>1. FutexInv => ListsExact
    BY Zenon DEF FutexInv
<1> QED
    BY <1>1, FutexInvariance, PTL

\* wake finds the futex_queue of the waiter on its stack, whatever the program
\* does, unless a requeued waiter has left under the lock of its old bucket.
THEOREM AnyProgramQueues == FutexSpec => []QueueInUse
    BY InvGivesQueues, FutexInvariance, PTL

-----------------------------------------------------------------------------
(* musl's mutexes and condition variables are such a program: what they    *)
(* pass to the kernel is always the address of one of their words.         *)

MutexOps == {"mutex_lock", "mutex_read", "mutex_count", "mutex_mark", "mutex_wait", "mutex_uncount",
             "mutex_unlock", "mutex_swap"}
LockOps == {"lock", "lock_mark", "lock_wait", "lock_again", "unlock"}
WaitOps == {"test", "link", "sleep", "slept", "leave", "unlink", "notify", "give_up", "join", "pass",
            "requeue"}
SignalOps == {"set", "scan", "await", "first"}

\* What a thread may have to do.
Items(t) ==
    IF t \in Waiters THEN (MutexOps \cup LockOps \cup WaitOps) \X CondAddrs
    ELSE ((MutexOps \cup LockOps \cup SignalOps) \X CondAddrs) \cup ({"tail"} \X {-1, 1})

TodoTypes ==
    /\ todo \in [Threads -> UNION {Seq(Items(t)) : t \in Threads}]
    /\ \A t \in Threads : todo[t] \in Seq(Items(t))

Node == Waiters \cup {Nobody}

CondTypes ==
    /\ word \in [Addrs -> Int]
    /\ TodoTypes
    /\ c_head \in Node /\ c_tail \in Node
    /\ prev \in [Threads -> Node] /\ next \in [Threads -> Node]
    /\ notify \in [Threads -> (Threads \ Waiters) \cup {Nobody}]
    /\ cursor \in [Threads -> Node] /\ first \in [Threads -> Node]

\* The words of the mutex, the condition variable and the nodes.
LEMMA WordFacts ==
    /\ MutexWord \in CondAddrs /\ CondLock \in CondAddrs
    /\ \A t \in Waiters : Barrier(t) \in CondAddrs
    /\ \A t \in Threads \ Waiters : Ref(t) \in CondAddrs
    /\ \A a \in CondAddrs : a \in Addrs
    BY Zenon, WordsAssumption DEF CondAddrs

\* What a thread does next is one of its operations.
LEMMA NowFacts ==
    ASSUME TodoTypes, NEW t \in Threads, NEW what, Now(t, what)
    PROVE  /\ kpc[t] = "user" /\ todo[t] \in Seq(Items(t)) /\ todo[t] # <<>>
           /\ what # "tail" => On(t) \in CondAddrs
           /\ what \in WaitOps => t \in Waiters
           /\ what \in SignalOps \cup {"tail"} => t \notin Waiters
<1>1. todo[t] \in Seq(Items(t)) /\ todo[t] # <<>> /\ kpc[t] = "user" /\ Head(todo[t])[1] = what
    BY Zenon DEF TodoTypes, Now
<1>2. Head(todo[t]) \in Items(t)
    BY <1>1
<1>3. PICK i : i = Head(todo[t])
    BY Zenon
<1>4. i \in Items(t) /\ i[1] = what /\ On(t) = i[2]
    BY Zenon, <1>1, <1>2, <1>3 DEF On
<1>5. what # "tail" => i[2] \in CondAddrs
    BY Zenon, <1>4 DEF Items
<1>6. /\ what \in WaitOps => t \in Waiters
      /\ what \in SignalOps \cup {"tail"} => t \notin Waiters
    BY Zenon, <1>4 DEF Items, MutexOps, LockOps, WaitOps, SignalOps
<1> QED
    BY Zenon, <1>1, <1>4, <1>5, <1>6

\* A thread goes on with operations of its own.
LEMMA ThenTypes ==
    ASSUME TodoTypes, NEW t \in Threads, todo[t] # <<>>, NEW s \in Seq(Items(t)), Then(t, s)
    PROVE  TodoTypes'
<1>1. todo[t] \in Seq(Items(t))
    BY Zenon DEF TodoTypes
<1>2. Tail(todo[t]) \in Seq(Items(t))
    BY <1>1
<1>3. s \o Tail(todo[t]) \in Seq(Items(t))
    BY <1>2
<1>4. todo' = [todo EXCEPT ![t] = s \o Tail(todo[t])]
    BY Zenon DEF Then
<1> HIDE DEF Items
<1>5. s \o Tail(todo[t]) \in UNION {Seq(Items(u)) : u \in Threads}
    BY Zenon, <1>3
<1> QED
    BY Zenon, <1>3, <1>4, <1>5 DEF TodoTypes

\* The sequences of operations a thread goes on with are its own.
LEMMA Sequences ==
    ASSUME NEW t \in Threads
    PROVE  /\ <<>> \in Seq(Items(t))
           /\ \A op \in MutexOps \cup LockOps, a \in CondAddrs : <<Do(op, a)>> \in Seq(Items(t))
           /\ t \in Waiters => \A op \in WaitOps, a \in CondAddrs : <<Do(op, a)>> \in Seq(Items(t))
<1>1. \A op \in MutexOps \cup LockOps, a \in CondAddrs : Do(op, a) \in Items(t)
    BY Zenon DEF Do, Items
<1>2. t \in Waiters => \A op \in WaitOps, a \in CondAddrs : Do(op, a) \in Items(t)
    BY Zenon DEF Do, Items
<1> QED
    BY <1>1, <1>2

\* Most steps touch one word and make a call on it, or none.
Plain(t, a) ==
    /\ \/ UNCHANGED todo
       \/ Then(t, <<>>)
       \/ \E op \in MutexOps \cup LockOps : Then(t, <<Do(op, a)>>)
       \/ t \in Waiters /\ \E op \in WaitOps : Then(t, <<Do(op, a)>>)
    /\ UNCHANGED word \/ \E v \in Int : Store(a, v)
    /\ NoCall \/ CallWake(t, a) \/ \E v \in Int, w \in BOOLEAN : CallWait(t, a, v, w)

\* A call with words of the program is one any program may make.
LEMMA CallsAllowed ==
    ASSUME NEW t \in Threads, kpc[t] = "user", word' \in [Addrs -> Int],
           NEW a \in CondAddrs, NEW b \in CondAddrs,
           \/ NoCall \/ CallWake(t, a) \/ CallRequeue(t, a, b)
           \/ \E v \in Int, w \in BOOLEAN : CallWait(t, a, v, w)
    PROVE  AnyUser(t)
<1>1. a \in Addrs /\ b \in Addrs /\ NoArgs \in Args
    BY Zenon, WordFacts, AddrFacts
<1>2. CASE NoCall
    BY Zenon, <1>2 DEF NoCall, AnyUser
<1>3. CASE CallWake(t, a)
  <2>1. [NoArgs EXCEPT !.addr = a] \in Args
      BY Zenon, <1>1 DEF Args
  <2> QED
      BY Zenon, <1>3, <2>1 DEF CallWake, AnyUser
<1>4. CASE CallRequeue(t, a, b)
  <2>1. [NoArgs EXCEPT !.addr = a, !.dest = b] \in Args
      BY Zenon, <1>1 DEF Args
  <2> QED
      BY Zenon, <1>4, <2>1 DEF CallRequeue, AnyUser
<1>5. ASSUME NEW v \in Int, NEW w \in BOOLEAN, CallWait(t, a, v, w) PROVE AnyUser(t)
  <2>1. [NoArgs EXCEPT !.addr = a, !.val = v, !.timed = w] \in Args
      BY Zenon, <1>1 DEF Args
  <2> QED
      BY Zenon, <1>5, <2>1 DEF CallWait, AnyUser
<1> QED
    BY Zenon, <1>2, <1>3, <1>4, <1>5

LEMMA PlainStep ==
    ASSUME CondTypes, NEW t \in Threads, NEW what, Now(t, what), NEW a \in CondAddrs, Plain(t, a)
    PROVE  TodoTypes' /\ word' \in [Addrs -> Int] /\ AnyUser(t)
<1>1. kpc[t] = "user" /\ todo[t] # <<>>
    BY Zenon, NowFacts DEF CondTypes
<1>2. TodoTypes'
  <2>1. CASE UNCHANGED todo
      BY Zenon, <2>1 DEF CondTypes, TodoTypes
  <2>2. CASE Then(t, <<>>)
      BY Zenon, <1>1, <2>2, ThenTypes, Sequences DEF CondTypes
  <2>3. ASSUME NEW op \in MutexOps \cup LockOps, Then(t, <<Do(op, a)>>) PROVE TodoTypes'
      BY Zenon, <1>1, <2>3, ThenTypes, Sequences DEF CondTypes
  <2>4. ASSUME NEW op \in WaitOps, t \in Waiters, Then(t, <<Do(op, a)>>) PROVE TodoTypes'
      BY Zenon, <1>1, <2>4, ThenTypes, Sequences DEF CondTypes
  <2> QED
      BY Zenon, <2>1, <2>2, <2>3, <2>4 DEF Plain
<1>3. word' \in [Addrs -> Int]
    BY Zenon, WordFacts DEF Plain, Store, CondTypes
<1>4. AnyUser(t)
    BY Zenon, <1>1, <1>3, CallsAllowed DEF Plain
<1> QED
    BY Zenon, <1>2, <1>3, <1>4

\* The steps on locks and mutexes.
LEMMA LockSteps ==
    ASSUME CondTypes, NEW t \in Threads,
           \/ Lock(t) \/ LockMark(t) \/ LockWait(t) \/ LockAgain(t) \/ Unlock(t)
           \/ MutexLock(t) \/ MutexRead(t) \/ MutexCount(t) \/ MutexMark(t)
           \/ MutexWait(t) \/ MutexUncount(t) \/ MutexUnlock(t) \/ MutexSwap(t)
    PROVE  CondTypes' /\ AnyUser(t)
<1>0. \A a \in CondAddrs : word[a] \in Int
    BY Zenon, WordFacts DEF CondTypes
<1>1. ASSUME NEW what \in MutexOps \cup LockOps, Now(t, what), Plain(t, On(t)), UNCHANGED <<condVars, signalVars>>
      PROVE  CondTypes' /\ AnyUser(t)
  <2>1. PICK a : a = On(t)
      BY Zenon
  <2>2. a \in CondAddrs
      BY Zenon, <1>1, <2>1, NowFacts DEF CondTypes, MutexOps, LockOps
  <2>3. TodoTypes' /\ word' \in [Addrs -> Int] /\ AnyUser(t)
      BY Zenon, <1>1, <2>1, <2>2, PlainStep
  <2> QED
      BY Zenon, <1>1, <2>3 DEF CondTypes, condVars, signalVars
<1>2. \A what \in MutexOps \cup LockOps : Now(t, what) => On(t) \in CondAddrs
    BY Zenon, NowFacts DEF CondTypes, MutexOps, LockOps
<1> 2 \in Int /\ FALSE \in BOOLEAN
    OBVIOUS
<1>2a. CallWait(t, On(t), 2, FALSE) => \E v \in Int, w \in BOOLEAN : CallWait(t, On(t), v, w)
    BY Zenon
<1> USE DEF Return, MutexOps, LockOps
<1>3. CASE Lock(t)
  <2>1. Now(t, "lock") /\ UNCHANGED <<condVars, signalVars>> /\ Plain(t, On(t))
      BY <1>3 DEF Lock, Plain
  <2> QED
      BY Zenon, <1>1, <2>1
<1>4. CASE LockMark(t)
  <2>1. Now(t, "lock_mark") /\ UNCHANGED <<condVars, signalVars>> /\ word[On(t)] \in Int
      BY Zenon, <1>0, <1>2, <1>4 DEF LockMark
  <2>2. Plain(t, On(t))
      BY Zenon, <1>4, <2>1 DEF LockMark, Plain
  <2> QED
      BY Zenon, <1>1, <2>1, <2>2
<1>5. CASE LockWait(t)
  <2>1. Now(t, "lock_wait") /\ UNCHANGED <<condVars, signalVars>> /\ Plain(t, On(t))
      BY Zenon, <1>5, <1>2a DEF LockWait, Plain
  <2> QED
      BY Zenon, <1>1, <2>1
<1>6. CASE LockAgain(t)
  <2>1. Now(t, "lock_again") /\ UNCHANGED <<condVars, signalVars>> /\ Plain(t, On(t))
      BY Zenon, <1>6 DEF LockAgain, Plain
  <2> QED
      BY Zenon, <1>1, <2>1
<1>7. CASE Unlock(t)
  <2>1. Now(t, "unlock") /\ UNCHANGED <<condVars, signalVars>> /\ Plain(t, On(t))
      BY <1>7 DEF Unlock, ClearAndWake, Plain
  <2> QED
      BY Zenon, <1>1, <2>1
<1>8. CASE MutexLock(t)
  <2>1. Now(t, "mutex_lock") /\ UNCHANGED <<condVars, signalVars>> /\ Plain(t, On(t))
      BY <1>8 DEF MutexLock, Plain
  <2> QED
      BY Zenon, <1>1, <2>1
<1>9. CASE MutexRead(t)
  <2>1. Now(t, "mutex_read") /\ UNCHANGED <<condVars, signalVars>> /\ Plain(t, On(t))
      BY Zenon, <1>9 DEF MutexRead, Plain
  <2> QED
      BY Zenon, <1>1, <2>1
<1>10. CASE MutexCount(t)
  <2>1. Now(t, "mutex_count") /\ UNCHANGED <<condVars, signalVars>> /\ Plain(t, On(t))
      BY Zenon, <1>10 DEF MutexCount, Plain
  <2> QED
      BY Zenon, <1>1, <2>1
<1>11. CASE MutexMark(t)
  <2>1. Now(t, "mutex_mark") /\ UNCHANGED <<condVars, signalVars>> /\ word[On(t)] \in Int
      BY Zenon, <1>0, <1>2, <1>11 DEF MutexMark
  <2>2. Plain(t, On(t))
      BY Zenon, <1>11, <2>1 DEF MutexMark, Plain
  <2> QED
      BY Zenon, <1>1, <2>1, <2>2
<1>12. CASE MutexWait(t)
  <2>1. Now(t, "mutex_wait") /\ UNCHANGED <<condVars, signalVars>> /\ Plain(t, On(t))
      BY Zenon, <1>12, <1>2a DEF MutexWait, Plain
  <2> QED
      BY Zenon, <1>1, <2>1
<1>13. CASE MutexUncount(t)
  <2>1. Now(t, "mutex_uncount") /\ UNCHANGED <<condVars, signalVars>> /\ Plain(t, On(t))
      BY Zenon, <1>13 DEF MutexUncount, Plain
  <2> QED
      BY Zenon, <1>1, <2>1
<1>14. CASE MutexUnlock(t)
  <2>1. Now(t, "mutex_unlock") /\ UNCHANGED <<condVars, signalVars>> /\ Plain(t, On(t))
      BY Zenon, <1>14 DEF MutexUnlock, Plain
  <2> QED
      BY Zenon, <1>1, <2>1
<1>15. CASE MutexSwap(t)
  <2>1. Now(t, "mutex_swap") /\ UNCHANGED <<condVars, signalVars>> /\ Plain(t, On(t))
      BY <1>15 DEF MutexSwap, ClearAndWake, Plain
  <2> QED
      BY Zenon, <1>1, <2>1
<1> QED
    BY Zenon, <1>3, <1>4, <1>5, <1>6, <1>7, <1>8, <1>9, <1>10, <1>11, <1>12, <1>13, <1>14, <1>15

\* The steps of pthread_cond_timedwait.
LEMMA WaiterSteps ==
    ASSUME CondTypes, NEW t \in Threads,
           \/ Test(t) \/ Link(t) \/ Sleep(t) \/ Slept(t) \/ Leave(t) \/ Unlink(t) \/ Notify(t) \/ GiveUp(t)
           \/ Join(t) \/ Pass(t) \/ UnlockRequeue(t)
    PROVE  CondTypes' /\ AnyUser(t)
<1>0. /\ \A a \in CondAddrs : word[a] \in Int
      /\ t \in Waiters => Barrier(t) \in CondAddrs
      /\ prev \in [Threads -> Node] /\ next \in [Threads -> Node] /\ c_head \in Node /\ c_tail \in Node
      /\ notify \in [Threads -> (Threads \ Waiters) \cup {Nobody}] /\ Nobody \in Node
      /\ Waiters \subseteq Threads /\ Waiters \subseteq Node
      /\ TodoTypes /\ word \in [Addrs -> Int]
    BY Zenon, WordFacts, CondAssumption DEF CondTypes, Node
<1>1. ASSUME NEW what \in WaitOps, Now(t, what), NEW a \in CondAddrs, Plain(t, a),
             c_head' \in Node, c_tail' \in Node, prev' \in [Threads -> Node], next' \in [Threads -> Node],
             notify' \in [Threads -> (Threads \ Waiters) \cup {Nobody}], UNCHANGED signalVars
      PROVE  CondTypes' /\ AnyUser(t)
    BY Zenon, <1>1, PlainStep DEF CondTypes, signalVars
<1>2. \A what \in WaitOps : Now(t, what) => On(t) \in CondAddrs /\ t \in Waiters /\ kpc[t] = "user" /\ todo[t] # <<>>
    BY Zenon, <1>0, NowFacts DEF WaitOps
<1>3. PopNode(t) => /\ prev' \in [Threads -> Node] /\ next' \in [Threads -> Node]
                    /\ notify' \in [Threads -> (Threads \ Waiters) \cup {Nobody}]
    BY Zenon, <1>0 DEF PopNode
<1>4. UNCHANGED condVars => /\ c_head' \in Node /\ c_tail' \in Node
                            /\ prev' \in [Threads -> Node] /\ next' \in [Threads -> Node]
                            /\ notify' \in [Threads -> (Threads \ Waiters) \cup {Nobody}]
    BY Zenon, <1>0 DEF condVars
<1>5. \A op \in MutexOps \cup LockOps \cup WaitOps, a \in CondAddrs : t \in Waiters => Do(op, a) \in Items(t)
    BY Zenon DEF Do, Items
<1>6. ASSUME NEW what \in WaitOps, Now(t, what), NEW s \in Seq(Items(t)), Then(t, s),
             NoCall, UNCHANGED <<word, c_head, c_tail, prev, next, notify, signalVars>>
      PROVE  CondTypes' /\ AnyUser(t)
  <2>1. TodoTypes'
      BY Zenon, <1>0, <1>2, <1>6, ThenTypes
  <2>2. AnyUser(t)
      BY Zenon, <1>0, <1>2, <1>6 DEF AnyUser, NoCall
  <2> QED
      BY Zenon, <1>6, <2>1, <2>2 DEF CondTypes, signalVars
<1> USE WordFacts DEF Return
<1>7. CASE Test(t)
  <2>1. Now(t, "test") /\ NoCall /\ UNCHANGED <<word, condVars, signalVars>>
      BY Zenon, <1>7 DEF Test
  <2> DEFINE p == <<Do("lock", CondLock), Do("link", CondLock), Do("unlock", CondLock),
                    Do("mutex_unlock", MutexWord), Do("sleep", Barrier(t))>>
  <2>2. t \in Waiters
      BY Zenon, <1>2, <2>1 DEF WaitOps
  <2>3. p \in Seq(Items(t)) /\ <<Do("mutex_unlock", MutexWord)>> \in Seq(Items(t))
      BY <1>0, <1>5, <2>2 DEF MutexOps, LockOps, WaitOps
  <2>4. Then(t, p) \/ Then(t, <<Do("mutex_unlock", MutexWord)>>)
      BY Zenon, <1>7 DEF Test
  <2> HIDE DEF p
  <2> QED
      BY Zenon, <1>6, <2>1, <2>3, <2>4 DEF WaitOps, condVars
<1>8. CASE Link(t)
  <2>1. Now(t, "link") /\ UNCHANGED signalVars /\ t \in Waiters
      BY Zenon, <1>2, <1>8 DEF Link, WaitOps
  <2>2. Plain(t, Barrier(t)) /\ Barrier(t) \in CondAddrs
      BY <1>0, <1>8, <2>1 DEF Link, Plain
  <2>3. /\ c_head' \in Node /\ c_tail' \in Node /\ prev' \in [Threads -> Node] /\ next' \in [Threads -> Node]
        /\ notify' \in [Threads -> (Threads \ Waiters) \cup {Nobody}]
      BY Zenon, <1>0, <1>8, <2>1 DEF Link
  <2> QED
      BY Zenon, <1>1, <2>1, <2>2, <2>3 DEF WaitOps
<1>9. CASE Sleep(t)
  <2>1. Now(t, "sleep") /\ UNCHANGED <<condVars, signalVars>> /\ t \in Waiters /\ On(t) \in CondAddrs
      BY Zenon, <1>2, <1>9 DEF Sleep, WaitOps
  <2>2. \E v \in Int, w \in BOOLEAN : CallWait(t, On(t), v, w)
    <3>1. CallWait(t, On(t), 2, t \in Timed) /\ 2 \in Int /\ (t \in Timed) \in BOOLEAN
        BY <1>9 DEF Sleep
    <3> QED
        BY <3>1, Zenon
  <2>3. Plain(t, On(t))
      BY Zenon, <1>9, <2>1, <2>2 DEF Sleep, Plain, WaitOps
  <2>4. PICK a : a = On(t)
      BY Zenon
  <2> QED
      BY Zenon, <1>1, <1>4, <2>1, <2>3, <2>4 DEF WaitOps
<1>10. CASE Slept(t)
  <2>1. Now(t, "slept") /\ UNCHANGED <<condVars, signalVars>> /\ t \in Waiters /\ On(t) \in CondAddrs
      BY Zenon, <1>2, <1>10 DEF Slept, WaitOps
  <2>2. Plain(t, On(t))
      BY Zenon, <1>10, <2>1 DEF Slept, Plain, WaitOps
  <2>3. PICK a : a = On(t)
      BY Zenon
  <2> QED
      BY Zenon, <1>1, <1>4, <2>1, <2>2, <2>3 DEF WaitOps
<1>11. CASE Leave(t)
  <2>1. Now(t, "leave") /\ NoCall /\ UNCHANGED <<word, c_head, c_tail, prev, next, notify, signalVars>> /\ t \in Waiters
      BY Zenon, <1>2, <1>11 DEF Leave, WaitOps
  <2> DEFINE p == <<Do("lock", CondLock), Do("unlink", CondLock), Do("unlock", CondLock), Do("notify", CondLock),
                    Do("mutex_lock", MutexWord), Do("give_up", CondLock)>>
             q == <<Do("lock", Barrier(t)), Do("mutex_lock", MutexWord), Do("join", CondLock), Do("pass", CondLock),
                    Do("test", CondLock)>>
  <2>2. p \in Seq(Items(t)) /\ q \in Seq(Items(t))
      BY <1>0, <1>5, <2>1 DEF MutexOps, LockOps, WaitOps
  <2>3. Then(t, p) \/ Then(t, q)
      BY Zenon, <1>11 DEF Leave
  <2> HIDE DEF p, q
  <2> QED
      BY Zenon, <1>6, <2>1, <2>2, <2>3 DEF WaitOps
<1>12. CASE Unlink(t)
  <2>1. Now(t, "unlink") /\ UNCHANGED <<word, notify, signalVars>> /\ t \in Waiters
      BY Zenon, <1>2, <1>12 DEF Unlink, WaitOps
  <2>2. Plain(t, CondLock)
      BY Zenon, <1>12 DEF Unlink, Plain
  <2>3. c_head' \in Node /\ c_tail' \in Node /\ prev' \in [Threads -> Node] /\ next' \in [Threads -> Node]
      BY Zenon, <1>0, <1>12 DEF Unlink
  <2> QED
      BY Zenon, <1>0, <1>1, <2>1, <2>2, <2>3 DEF WaitOps
<1>13. CASE Notify(t)
  <2>1. Now(t, "notify") /\ UNCHANGED <<condVars, signalVars>>
      BY Zenon, <1>13 DEF Notify
  <2>2. CASE notify[t] = Nobody
    <3>1. Plain(t, CondLock)
        BY Zenon, <1>13, <2>2 DEF Notify, Plain
    <3> QED
        BY Zenon, <1>1, <1>4, <2>1, <3>1 DEF WaitOps
  <2>3. CASE notify[t] # Nobody
    <3>1. PICK r : r = Ref(notify[t])
        BY Zenon
    <3>2. r \in CondAddrs
        BY Zenon, <1>0, <2>3, <3>1
    <3>3. word[r] \in Int
        BY Zenon, <1>0, <3>2
    <3>4. Plain(t, r)
        BY <1>13, <2>3, <3>1, <3>3 DEF Notify, Plain
    <3> QED
        BY Zenon, <1>1, <1>4, <2>1, <3>2, <3>4 DEF WaitOps
  <2> QED
      BY Zenon, <2>2, <2>3
<1>14. CASE GiveUp(t)
  <2>1. Now(t, "give_up") /\ UNCHANGED <<c_head, c_tail, signalVars>> /\ PopNode(t)
      BY Zenon, <1>14 DEF GiveUp
  <2>2. Plain(t, MutexWord)
      BY Zenon, <1>14 DEF GiveUp, Plain, MutexOps
  <2> QED
      BY Zenon, <1>0, <1>1, <1>3, <2>1, <2>2 DEF WaitOps
<1>15. CASE Join(t)
  <2>1. Now(t, "join") /\ UNCHANGED <<condVars, signalVars>> /\ Plain(t, CondLock)
      BY Zenon, <1>15 DEF Join, Plain
  <2> QED
      BY Zenon, <1>1, <1>4, <2>1 DEF WaitOps
<1>16. CASE Pass(t)
  <2>1. Now(t, "pass") /\ NoCall /\ UNCHANGED <<c_head, c_tail, signalVars>> /\ t \in Waiters
      BY Zenon, <1>2, <1>16 DEF Pass, WaitOps
  <2>2. CASE prev[t] = Nobody
    <3>1. Plain(t, CondLock) /\ PopNode(t)
        BY Zenon, <1>16, <2>2 DEF Pass, Plain
    <3> QED
        BY Zenon, <1>0, <1>1, <1>3, <2>1, <3>1 DEF WaitOps
  <2>3. CASE prev[t] # Nobody
    <3>1. Barrier(prev[t]) \in CondAddrs
        BY Zenon, <1>0, <2>3 DEF Node
    <3>2. PICK s : s = <<Do("requeue", Barrier(prev[t]))>>
        BY Zenon
    <3>3. s \in Seq(Items(t))
      <4>1. Do("requeue", Barrier(prev[t])) \in Items(t)
          BY Zenon, <1>5, <2>1, <3>1 DEF WaitOps
      <4> QED
          BY <3>2, <4>1
    <3>4. Then(t, s) /\ Store(MutexWord, 2) /\ UNCHANGED <<prev, next, notify>>
        BY Zenon, <1>16, <2>3, <3>2 DEF Pass
    <3>5. TodoTypes'
        BY Zenon, <1>0, <1>2, <2>1, <3>3, <3>4, ThenTypes DEF WaitOps
    <3>6. word' \in [Addrs -> Int]
        BY <1>0, <3>4 DEF Store
    <3>7. AnyUser(t)
        BY Zenon, <1>2, <2>1, <3>6 DEF AnyUser, NoCall, WaitOps
    <3> QED
        BY Zenon, <2>1, <3>4, <3>5, <3>6, <3>7 DEF CondTypes, signalVars
  <2> QED
      BY Zenon, <2>2, <2>3
<1>17. CASE UnlockRequeue(t)
  <2>1. /\ Now(t, "requeue") /\ PopNode(t) /\ Then(t, <<>>)
        /\ UNCHANGED <<c_head, c_tail, signalVars>>
      BY Zenon, <1>17 DEF UnlockRequeue
  <2>2. PICK a : a = On(t)
      BY Zenon
  <2>3. a \in CondAddrs /\ Store(a, 0) /\ CallRequeue(t, a, MutexWord) /\ kpc[t] = "user" /\ todo[t] # <<>>
      BY Zenon, <1>2, <1>17, <2>1, <2>2 DEF UnlockRequeue, WaitOps
  <2>4. word' \in [Addrs -> Int]
      BY <1>0, <2>3 DEF Store
  <2>5. AnyUser(t)
      BY Zenon, <2>3, <2>4, CallsAllowed
  <2>6. TodoTypes'
      BY Zenon, <1>0, <2>1, <2>3, ThenTypes, Sequences
  <2> QED
      BY Zenon, <1>3, <2>1, <2>4, <2>5, <2>6 DEF CondTypes, signalVars
<1> QED
    BY Zenon, <1>7, <1>8, <1>9, <1>10, <1>11, <1>12, <1>13, <1>14, <1>15, <1>16, <1>17

\* The steps of __private_cond_signal, and of the program that calls it.
LEMMA SignalSteps ==
    ASSUME CondTypes, NEW t \in Threads,
           SetReady(t) \/ ScanStart(t) \/ Scan(t) \/ Split(t) \/ Await(t) \/ ReleaseFirst(t)
    PROVE  CondTypes' /\ AnyUser(t)
<1>0. /\ \A a \in CondAddrs : word[a] \in Int
      /\ prev \in [Threads -> Node] /\ next \in [Threads -> Node] /\ c_head \in Node /\ c_tail \in Node
      /\ notify \in [Threads -> (Threads \ Waiters) \cup {Nobody}] /\ Nobody \in Node
      /\ cursor \in [Threads -> Node] /\ first \in [Threads -> Node]
      /\ Waiters \subseteq Threads /\ TodoTypes
    BY Zenon, WordFacts, CondAssumption DEF CondTypes, Node
<1>1. ASSUME NEW what \in SignalOps \cup {"tail"}, Now(t, what), NEW a \in CondAddrs, Plain(t, a),
             c_head' \in Node, c_tail' \in Node, prev' \in [Threads -> Node], next' \in [Threads -> Node],
             notify' \in [Threads -> (Threads \ Waiters) \cup {Nobody}],
             cursor' \in [Threads -> Node], first' \in [Threads -> Node]
      PROVE  CondTypes' /\ AnyUser(t)
    BY Zenon, <1>1, PlainStep DEF CondTypes
<1>2. /\ \A what \in SignalOps : Now(t, what) => On(t) \in CondAddrs
      /\ \A what \in SignalOps \cup {"tail"} : Now(t, what) => t \notin Waiters
    BY Zenon, <1>0, NowFacts DEF SignalOps
<1>3. UNCHANGED condVars => /\ c_head' \in Node /\ c_tail' \in Node
                            /\ prev' \in [Threads -> Node] /\ next' \in [Threads -> Node]
                            /\ notify' \in [Threads -> (Threads \ Waiters) \cup {Nobody}]
    BY Zenon, <1>0 DEF condVars
<1>4. UNCHANGED signalVars => cursor' \in [Threads -> Node] /\ first' \in [Threads -> Node]
    BY Zenon, <1>0 DEF signalVars
<1> USE WordFacts DEF Return
<1>5. CASE SetReady(t)
  <2>1. Now(t, "set") /\ Plain(t, CondLock) /\ UNCHANGED <<condVars, signalVars>>
      BY Zenon, <1>5 DEF SetReady, Plain
  <2> QED
      BY Zenon, <1>1, <1>3, <1>4, <2>1 DEF SignalOps
<1>6. CASE ScanStart(t)
  <2>1. /\ Now(t, "tail") /\ Plain(t, CondLock) /\ UNCHANGED <<condVars, first>>
        /\ cursor' = [cursor EXCEPT ![t] = c_tail]
      BY Zenon, <1>6 DEF ScanStart, Plain
  <2>2. cursor' \in [Threads -> Node] /\ first' \in [Threads -> Node]
      BY Zenon, <1>0, <2>1
  <2> QED
      BY Zenon, <1>1, <1>3, <2>1, <2>2
<1>7. CASE Scan(t)
  <2>1. /\ Now(t, "scan") /\ t \notin Waiters /\ cursor[t] # Nobody
        /\ UNCHANGED <<c_head, c_tail, prev, next>>
        /\ cursor' = [cursor EXCEPT ![t] = prev[cursor[t]]]
      BY Zenon, <1>2, <1>7 DEF Scan, SignalOps
  <2>2. PICK a : a = Ref(t)
      BY Zenon
  <2>3. a \in CondAddrs /\ word[a] \in Int /\ cursor[t] \in Waiters
      BY Zenon, <1>0, <2>1, <2>2 DEF Node
  <2>4. Plain(t, a)
    <3>1. /\ UNCHANGED todo /\ NoCall
          /\ UNCHANGED word \/ Store(a, word[a] + 1)
        BY Zenon, <1>7, <2>2 DEF Scan
    <3>2. word[a] + 1 \in Int
        BY <2>3
    <3> QED
        BY Zenon, <3>1, <3>2 DEF Plain
  <2>5. cursor' \in [Threads -> Node]
      BY Zenon, <1>0, <2>1, <2>3
  <2>6. first' \in [Threads -> Node]
    <3>1. first' = first \/ first' = [first EXCEPT ![t] = IF first[t] = Nobody THEN cursor[t] ELSE first[t]]
        BY Zenon, <1>7 DEF Scan
    <3>2. (IF first[t] = Nobody THEN cursor[t] ELSE first[t]) \in Node
        BY Zenon, <1>0
    <3> QED
        BY Zenon, <1>0, <3>1, <3>2
  <2>7. notify' \in [Threads -> (Threads \ Waiters) \cup {Nobody}]
      BY Zenon, <1>0, <1>7, <2>1 DEF Scan
  <2> QED
      BY Zenon, <1>0, <1>1, <2>1, <2>3, <2>4, <2>5, <2>6, <2>7 DEF SignalOps
<1>8. CASE Split(t)
  <2>1. /\ Now(t, "scan") /\ Plain(t, CondLock) /\ UNCHANGED <<notify, first>>
        /\ cursor' = [cursor EXCEPT ![t] = Nobody] /\ c_tail' = cursor[t]
        /\ c_head' \in {c_head, Nobody}
      BY Zenon, <1>8 DEF Split, Plain
  <2>2. prev' \in [Threads -> Node] /\ next' \in [Threads -> Node]
      BY Zenon, <1>0, <1>8 DEF Split
  <2>3. /\ cursor' \in [Threads -> Node] /\ first' \in [Threads -> Node] /\ c_head' \in Node /\ c_tail' \in Node
        /\ notify' \in [Threads -> (Threads \ Waiters) \cup {Nobody}]
      BY Zenon, <1>0, <2>1
  <2> QED
      BY Zenon, <1>1, <2>1, <2>2, <2>3 DEF SignalOps
<1>9. CASE Await(t)
  <2>1. PICK a : a = On(t)
      BY Zenon
  <2>2. /\ Now(t, "await") /\ UNCHANGED <<word, condVars, signalVars>> /\ a \in CondAddrs
        /\ UNCHANGED todo \/ Then(t, <<>>)
        /\ CallWait(t, a, word[a], FALSE) \/ NoCall
      BY Zenon, <1>2, <1>9, <2>1 DEF Await, SignalOps
  <2>3. word[a] \in Int /\ FALSE \in BOOLEAN
      BY Zenon, <1>0, <2>2
  <2>4. CallWait(t, a, word[a], FALSE) => \E v \in Int, w \in BOOLEAN : CallWait(t, a, v, w)
      BY <2>3, Zenon
  <2>5. Plain(t, a)
      BY Zenon, <2>2, <2>4 DEF Plain
  <2> QED
      BY Zenon, <1>1, <1>3, <1>4, <2>2, <2>5 DEF SignalOps
<1>10. CASE ReleaseFirst(t)
  <2>1. Now(t, "first") /\ UNCHANGED <<condVars, cursor>> /\ first' = [first EXCEPT ![t] = Nobody]
      BY Zenon, <1>10 DEF ReleaseFirst
  <2>2. cursor' \in [Threads -> Node] /\ first' \in [Threads -> Node]
      BY Zenon, <1>0, <2>1
  <2>3. CASE first[t] = Nobody
    <3>1. Plain(t, CondLock)
        BY Zenon, <1>10, <2>3 DEF ReleaseFirst, ClearAndWake, Plain
    <3> QED
        BY Zenon, <1>1, <1>3, <2>1, <2>2, <3>1 DEF SignalOps
  <2>4. CASE first[t] # Nobody
    <3>1. PICK a : a = Barrier(first[t])
        BY Zenon
    <3>2. a \in CondAddrs
        BY Zenon, <1>0, <2>4, <3>1 DEF Node
    <3>3. Plain(t, a)
        BY <1>10, <2>4, <3>1 DEF ReleaseFirst, ClearAndWake, Plain
    <3> QED
        BY Zenon, <1>1, <1>3, <2>1, <2>2, <3>2, <3>3 DEF SignalOps
  <2> QED
      BY Zenon, <2>3, <2>4
<1> QED
    BY Zenon, <1>5, <1>6, <1>7, <1>8, <1>9, <1>10

\* The programs are made of the operations of their threads.
LEMMA CondInitial ==
    Init => CondTypes
<1> SUFFICES ASSUME Init PROVE CondTypes
    BY Zenon
<1>1. \A t \in Threads : Programs(t) \subseteq Seq(Items(t))
  <2> SUFFICES ASSUME NEW t \in Threads PROVE Programs(t) \subseteq Seq(Items(t))
      BY Zenon
  <2>1. CASE t \in Waiters
    <3>1. Do("mutex_lock", MutexWord) \in Items(t) /\ Do("test", CondLock) \in Items(t)
        BY Zenon, <2>1, WordFacts DEF Do, Items, MutexOps, WaitOps
    <3> QED
        BY <2>1, <3>1 DEF Programs
  <2>2. CASE t \notin Waiters
    <3>1. \A op \in MutexOps \cup LockOps \cup SignalOps, a \in CondAddrs : Do(op, a) \in Items(t)
        BY Zenon, <2>2 DEF Do, Items
    <3>2. Do("tail", 1) \in Items(t) /\ Do("tail", -1) \in Items(t)
        BY Zenon, <2>2 DEF Do, Items
    <3>3. Signal(t, 1) \in Seq(Items(t)) /\ Signal(t, -1) \in Seq(Items(t))
      <4>1. /\ Do("lock", CondLock) \in Items(t) /\ Do("scan", CondLock) \in Items(t)
            /\ Do("unlock", CondLock) \in Items(t) /\ Do("await", Ref(t)) \in Items(t)
            /\ Do("first", CondLock) \in Items(t)
          BY Zenon, <2>2, <3>1, WordFacts DEF LockOps, SignalOps
      <4> QED
          BY <3>2, <4>1 DEF Signal
    <3>4. /\ <<Do("mutex_lock", MutexWord), Do("set", CondLock)>> \in Seq(Items(t))
          /\ <<Do("mutex_unlock", MutexWord)>> \in Seq(Items(t))
        BY <3>1, WordFacts DEF MutexOps, SignalOps
    <3>5. \A p, q \in Seq(Items(t)) : p \o q \in Seq(Items(t))
        OBVIOUS
    <3> HIDE DEF Signal
    <3>6. /\ Signal(t, -1) \o <<Do("mutex_unlock", MutexWord)>> \in Seq(Items(t))
          /\ Signal(t, 1) \o <<Do("mutex_unlock", MutexWord)>> \o Signal(t, -1) \in Seq(Items(t))
        BY <3>3, <3>4, <3>5, Zenon
    <3> QED
        BY <2>2, <3>4, <3>5, <3>6, Zenon DEF Programs
  <2> QED
      BY Zenon, <2>1, <2>2
<1>2. TodoTypes
  <2>1. /\ \A t \in Threads : todo[t] \in Programs(t)
        /\ todo \in [Threads -> UNION {Programs(t) : t \in Threads}]
      BY Zenon DEF Init
  <2>2. \A t \in Threads : todo[t] \in Seq(Items(t))
      BY Zenon, <1>1, <2>1
  <2>3. \A t \in Threads : todo[t] \in UNION {Seq(Items(u)) : u \in Threads}
      BY Zenon, <2>2
  <2> QED
      BY Zenon, <2>1, <2>2, <2>3 DEF TodoTypes
<1> QED
    BY <1>2 DEF Init, CondTypes, Node

LEMMA CondStep ==
    ASSUME CondTypes, [Next]_vars
    PROVE  CondTypes' /\ [FutexNext]_futexVars
<1>1. ASSUME NEW t \in Threads, UserStep(t) PROVE CondTypes' /\ FutexNext
  <2>1. CondTypes' /\ AnyUser(t)
      BY Zenon, <1>1, LockSteps, WaiterSteps, SignalSteps DEF UserStep
  <2> QED
      BY Zenon, <2>1 DEF FutexNext
<1>2. ASSUME NEW t \in Threads, KernelStep(t) \/ TimerStep(t) \/ ReschedStep(t) PROVE CondTypes' /\ FutexNext
  <2>1. /\ FutexStep(t) \/ Timeout(t) \/ Resched(t)
        /\ UNCHANGED <<todo, ready, m_waiters, condVars, signalVars, seen>>
      BY Zenon, <1>2 DEF KernelStep, TimerStep, ReschedStep
  <2>2. UNCHANGED word
      BY Zenon, <2>1 DEF FutexStep, FutexWait, FutexSleep, QueueEvent, SchedSleep, FutexReturn, WakeMark, WakeUp,
                  RequeueLock, Requeue, Timeout, Resched
  <2>3. CondTypes'
      BY Zenon, <2>1, <2>2 DEF CondTypes, TodoTypes, condVars, signalVars
  <2> QED
      BY Zenon, <2>1, <2>3 DEF FutexNext
<1>3. CASE UNCHANGED vars
    BY Zenon, <1>3 DEF vars, userVars, condVars, signalVars, CondTypes, TodoTypes, futexVars
<1> QED
    BY Zenon, <1>1, <1>2, <1>3 DEF Next

\* musl's mutexes and condition variables are a program in the sense of
\* FutexSpec: all they do to the kernel is to call it on words of their own.
THEOREM MuslIsAProgram == Spec => FutexSpec
<1>1. Init => CondTypes /\ FutexInit /\ word \in [Addrs -> Int]
    BY Zenon, CondInitial DEF Init, CondTypes
<1>2. CondTypes /\ [Next]_vars => CondTypes' /\ [FutexNext]_futexVars
    BY Zenon, CondStep
<1> QED
    BY <1>1, <1>2, PTL DEF Spec, FutexSpec

\* A waiter of a mutex or a condition variable hangs on the list of the bucket
\* of the word it waits for until it is woken, also when it was requeued.
THEOREM CondLists == Spec => []ListsExact
    BY MuslIsAProgram, AnyProgramLists, PTL

\* Whoever unlocks or signals finds the futex_queue on the stack of the waiter
\* it wakes, unless a requeued waiter has left early.
THEOREM CondQueues == Spec => []QueueInUse
    BY MuslIsAProgram, AnyProgramQueues, PTL

=============================================================================
