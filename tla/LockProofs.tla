---------------------------- MODULE LockProofs ----------------------------
(***************************************************************************)
(* The two sleeping locks.  Mutual exclusion of Mutex, the exactness of    *)
(* its wait list and its refinement of LockSpec, for any set of threads    *)
(* and any number of calls.  The word of RwLock counts its holders, its    *)
(* wait list is exact, no wakeup is lost and it implements LockSpec, for   *)
(* any finite set of threads, any number of calls and any limit of the     *)
(* count.                                                                  *)
(***************************************************************************)
EXTENDS Mutex, RwLock, WaitListProofs, FiniteSetTheorems

-----------------------------------------------------------------------------
(* The mutex.                                                              *)

\* Nothing has to be added to the three invariants: together they are
\* inductive.
IInv == TypeOK /\ OwnerIsOwner /\ WaitListExact

-----------------------------------------------------------------------------
(* The invariant.                                                          *)

\* A step of one thread that leaves the wait list alone keeps it exact, if
\* the thread stays on its side of Listed.
LEMMA ListKept ==
    ASSUME IInv, NEW t \in Threads, NEW p \in Points,
           pc' = [pc EXCEPT ![t] = p], UNCHANGED thread_list,
           pc[t] \in Listed <=> p \in Listed
    PROVE  WaitListExact'
<1>1. \A u \in Threads : pc'[u] \in Listed <=> pc[u] \in Listed
    BY Zenon DEF IInv, TypeOK
<1> QED
    BY Zenon, <1>1 DEF IInv, WaitListExact

\* mutex_prepare_sleep puts the caller on the list.
LEMMA ListGrows ==
    ASSUME IInv, NEW t \in Threads, NEW p \in Points,
           pc' = [pc EXCEPT ![t] = p],
           thread_list' = list_add_tail(thread_list, t),
           pc[t] \notin Listed, p \in Listed
    PROVE  WaitListExact' /\ thread_list' \in Seq(Threads)
<1>1. thread_list \in Seq(Threads) /\ Distinct(thread_list) /\ t \notin Members(thread_list)
    BY Zenon DEF IInv, TypeOK, WaitListExact
<1>2. /\ thread_list' \in Seq(Threads)
      /\ Distinct(thread_list')
      /\ Members(thread_list') = Members(thread_list) \cup {t}
    BY Zenon, <1>1, AddTail
<1>3. {u \in Threads : pc'[u] \in Listed} = {u \in Threads : pc[u] \in Listed} \cup {t}
    BY Zenon DEF IInv, TypeOK
<1> QED
    BY Zenon, <1>2, <1>3 DEF IInv, WaitListExact, Distinct, Members

\* mutex_dequeue_thread takes it off.
LEMMA ListShrinks ==
    ASSUME IInv, NEW t \in Threads, NEW p \in Points,
           pc' = [pc EXCEPT ![t] = p],
           thread_list' = list_remove(thread_list, t),
           pc[t] \in Listed, p \notin Listed
    PROVE  WaitListExact' /\ thread_list' \in Seq(Threads)
<1>1. thread_list \in Seq(Threads) /\ Distinct(thread_list) /\ t \in Members(thread_list)
    BY Zenon DEF IInv, TypeOK, WaitListExact
<1>2. /\ thread_list' \in Seq(Threads)
      /\ Distinct(thread_list')
      /\ Members(thread_list') = Members(thread_list) \ {t}
    BY Zenon, <1>1, Remove
<1>3. {u \in Threads : pc'[u] \in Listed} = {u \in Threads : pc[u] \in Listed} \ {t}
    BY Zenon DEF IInv, TypeOK
<1> QED
    BY Zenon, <1>2, <1>3 DEF IInv, WaitListExact, Distinct, Members

\* The owner word keeps naming the owner when a thread moves between points
\* on one side of Owning.
LEMMA OwnerKept ==
    ASSUME IInv, NEW t \in Threads, NEW p \in Points,
           pc' = [pc EXCEPT ![t] = p], UNCHANGED counter,
           pc[t] \in Owning <=> p \in Owning
    PROVE  OwnerIsOwner'
    BY Zenon DEF IInv, TypeOK, OwnerIsOwner

\* mutex_trylock: the compare-and-swap makes the caller the only owner.
LEMMA TrylockOwner ==
    ASSUME IInv, NEW t \in Threads, NEW yes \in Owning, NEW no \in Points \ Owning,
           pc[t] \notin Owning, mutex_trylock(t, yes, no)
    PROVE  OwnerIsOwner' /\ counter' \in Threads \cup {Nobody}
    BY Zenon, MutexAssumption, LockCallAssumption DEF IInv, TypeOK, OwnerIsOwner, mutex_trylock, Goto

\* Every step keeps the three invariants.
LEMMA InvStep == IInv /\ [Next]_mutexVars => IInv'
<1> SUFFICES ASSUME IInv, [Next]_mutexVars PROVE IInv'
    BY Zenon
<1> USE MutexAssumption, LockCallAssumption
<1>1. ASSUME NEW t \in Threads, Lock(t) PROVE IInv'
  <2>1. PICK p \in {"cs", "prepare"} : pc' = [pc EXCEPT ![t] = p]
      BY Zenon, <1>1 DEF Lock, mutex_trylock, Goto
  <2>2. pc[t] = "idle" /\ UNCHANGED thread_list
      BY Zenon, <1>1 DEF Lock, At
  <2>3. OwnerIsOwner' /\ counter' \in Threads \cup {Nobody}
      BY ZenonT(30), <1>1, TrylockOwner DEF Lock, At, Owning, Points
  <2>4. WaitListExact'
      BY Zenon, <2>1, <2>2, ListKept DEF Listed, Points
  <2>5. TypeOK'
      BY <1>1, <2>1, <2>2, <2>3 DEF IInv, TypeOK, Lock, Points
  <2> QED
      BY Zenon, <2>3, <2>4, <2>5 DEF IInv
<1>2. ASSUME NEW t \in Threads, PrepareSleep(t) PROVE IInv'
  <2>1. PICK p \in {"try", "resched"} : pc' = [pc EXCEPT ![t] = p]
      BY Zenon, <1>2 DEF PrepareSleep, Goto
  <2>2. pc[t] = "prepare" /\ UNCHANGED counter
      BY ZenonT(30), <1>2 DEF PrepareSleep, At
  <2>3. WaitListExact' /\ thread_list' \in Seq(Threads)
      BY ZenonT(30), <1>2, <2>1, <2>2, ListGrows DEF PrepareSleep, Listed, Points
  <2>4. OwnerIsOwner'
      BY Zenon, <2>1, <2>2, OwnerKept DEF Owning, Points
  <2>5. TypeOK'
      BY Zenon, <1>2, <2>1, <2>3 DEF IInv, TypeOK, PrepareSleep, set_current_state, SleepState,
                              Statuses, Blocked, Points
  <2> QED
      BY Zenon, <2>3, <2>4, <2>5 DEF IInv
<1>3. ASSUME NEW t \in Threads, Resched(t) \/ Sleep(t) PROVE IInv'
  <2>1. PICK p \in {"try", "woken"} : pc' = [pc EXCEPT ![t] = p]
      BY Zenon, <1>3 DEF Resched, Sleep, Goto
  <2>2. pc[t] \in {"resched", "sleep"} /\ UNCHANGED <<counter, thread_list>>
      BY ZenonT(30), <1>3 DEF Resched, Sleep, At
  <2>3. OwnerIsOwner' /\ WaitListExact'
      BY Zenon, <2>1, <2>2, OwnerKept, ListKept DEF Owning, Listed, Points
  <2>4. TypeOK'
      BY Zenon, <1>3, <2>1, <2>2 DEF IInv, TypeOK, Resched, Sleep, sched_yield, Points
  <2> QED
      BY Zenon, <2>3, <2>4 DEF IInv
<1>4. ASSUME NEW t \in Threads, Try(t) PROVE IInv'
  <2>1. PICK p \in {"got", "check"} : pc' = [pc EXCEPT ![t] = p]
      BY Zenon, <1>4 DEF Try, mutex_trylock, Goto
  <2>2. pc[t] = "try" /\ UNCHANGED thread_list
      BY Zenon, <1>4 DEF Try, At
  <2>3. OwnerIsOwner' /\ counter' \in Threads \cup {Nobody}
      BY Zenon, <1>4, TrylockOwner DEF Try, At, Owning, Points
  <2>4. WaitListExact'
      BY Zenon, <2>1, <2>2, ListKept DEF Listed, Points
  <2>5. TypeOK'
      BY Zenon, <1>4, <2>1, <2>2, <2>3 DEF IInv, TypeOK, Try, Points
  <2> QED
      BY Zenon, <2>3, <2>4, <2>5 DEF IInv
<1>5. ASSUME NEW t \in Threads, Check(t) PROVE IInv'
  <2>1. PICK p \in {"eintr", "sleep"} : pc' = [pc EXCEPT ![t] = p]
      BY Zenon, <1>5 DEF Check, Goto
  <2>2. pc[t] = "check" /\ UNCHANGED <<counter, thread_list>>
      BY Zenon, <1>5 DEF Check, At
  <2>3. OwnerIsOwner' /\ WaitListExact'
      BY Zenon, <2>1, <2>2, OwnerKept, ListKept DEF Owning, Listed, Points
  <2>4. TypeOK'
      BY Zenon, <1>5, <2>1 DEF IInv, TypeOK, Check, Points
  <2> QED
      BY Zenon, <2>3, <2>4 DEF IInv
<1>6. ASSUME NEW t \in Threads, Woken(t) PROVE IInv'
  <2>1. pc' = [pc EXCEPT ![t] = "prepare"] /\ pc[t] = "woken" /\ UNCHANGED counter
      BY Zenon, <1>6 DEF Woken, Goto, At
  <2>2. WaitListExact' /\ thread_list' \in Seq(Threads)
      BY Zenon, <1>6, <2>1, ListShrinks DEF Woken, Listed, Points
  <2>3. OwnerIsOwner'
      BY Zenon, <2>1, OwnerKept DEF Owning, Points
  <2>4. TypeOK'
      BY Zenon, <1>6, <2>1, <2>2 DEF IInv, TypeOK, Woken, Points
  <2> QED
      BY Zenon, <2>2, <2>3, <2>4 DEF IInv
<1>7. ASSUME NEW t \in Threads, LeaveLoop(t) PROVE IInv'
  <2>1. PICK p \in {"gotDq", "eintrDq"} :
            pc' = [pc EXCEPT ![t] = p] /\ (p = "gotDq" <=> pc[t] = "got")
      BY ZenonT(30), <1>7 DEF LeaveLoop, Goto
  <2>2. pc[t] \in {"got", "eintr"} /\ UNCHANGED <<counter, thread_list>>
      BY Zenon, <1>7 DEF LeaveLoop, At
  <2>3. OwnerIsOwner'
      BY Zenon, <2>1, <2>2, OwnerKept DEF Owning, Points
  <2>4. WaitListExact'
      BY Zenon, <2>1, <2>2, ListKept DEF Listed, Points
  <2>5. TypeOK'
      BY Zenon, <1>7, <2>1 DEF IInv, TypeOK, LeaveLoop, set_current_state, Statuses, Points
  <2> QED
      BY Zenon, <2>3, <2>4, <2>5 DEF IInv
<1>8. ASSUME NEW t \in Threads, Dequeue(t) PROVE IInv'
  <2>1. PICK p \in {"cs", "idle"} :
            pc' = [pc EXCEPT ![t] = p] /\ (p = "cs" <=> pc[t] = "gotDq")
      BY Zenon, <1>8 DEF Dequeue, Goto
  <2>2. pc[t] \in {"gotDq", "eintrDq"} /\ UNCHANGED counter
      BY Zenon, <1>8 DEF Dequeue, At
  <2>3. OwnerIsOwner'
      BY Zenon, <2>1, <2>2, OwnerKept DEF Owning, Points
  <2>4. WaitListExact' /\ thread_list' \in Seq(Threads)
      BY Zenon, <1>8, <2>1, <2>2, ListShrinks DEF Dequeue, Listed, Points
  <2>5. TypeOK'
      BY Zenon, <1>8, <2>1, <2>4 DEF IInv, TypeOK, Dequeue, Points
  <2> QED
      BY Zenon, <2>3, <2>4, <2>5 DEF IInv
<1>9. ASSUME NEW t \in Threads, Unlock(t) PROVE IInv'
  <2>1. /\ pc' = [pc EXCEPT ![t] = "wake"] /\ pc[t] = "cs"
        /\ counter' = Nobody /\ UNCHANGED thread_list
      BY Zenon, <1>9 DEF Unlock, Goto, At
  <2>2. OwnerIsOwner'
      BY Zenon, <2>1 DEF IInv, TypeOK, OwnerIsOwner, Owning
  <2>3. WaitListExact'
      BY Zenon, <2>1, ListKept DEF Listed, Points
  <2>4. TypeOK'
      BY Zenon, <1>9, <2>1 DEF IInv, TypeOK, Unlock, Points
  <2> QED
      BY Zenon, <2>2, <2>3, <2>4 DEF IInv
<1>10. ASSUME NEW t \in Threads, UnlockWake(t) PROVE IInv'
  <2>1. /\ pc' = [pc EXCEPT ![t] = "idle"] /\ pc[t] = "wake"
        /\ UNCHANGED <<counter, thread_list>>
      BY ZenonT(30), <1>10 DEF UnlockWake, Goto, At
  <2>2. OwnerIsOwner' /\ WaitListExact'
      BY Zenon, <2>1, OwnerKept, ListKept DEF Owning, Listed, Points
  <2>3. status' \in [Threads -> Statuses] /\ parked' \in [Threads -> BOOLEAN]
      BY Zenon, <1>10 DEF IInv, TypeOK, UnlockWake, thread_wake_up, Statuses
  <2>4. TypeOK'
      BY Zenon, <1>10, <2>1, <2>3 DEF IInv, TypeOK, UnlockWake, Points
  <2> QED
      BY Zenon, <2>2, <2>4 DEF IInv
<1>11. ASSUME NEW t \in Threads, SignalStep(t) PROVE IInv'
  <2>1. UNCHANGED <<counter, thread_list, pc, rounds>>
      BY Zenon, <1>11 DEF SignalStep, Signal, SignalLook, SignalWake
  <2>2. OwnerIsOwner' /\ WaitListExact'
      BY Zenon, <2>1 DEF IInv, OwnerIsOwner, WaitListExact
  <2>3. TypeOK'
      BY Zenon, <1>11, <2>1 DEF IInv, TypeOK, SignalStep, Signal, SignalLook, SignalWake,
                         thread_wake_up, Statuses
  <2> QED
      BY Zenon, <2>2, <2>3 DEF IInv
<1>12. CASE UNCHANGED mutexVars
    BY Zenon, <1>12 DEF mutexVars, IInv, TypeOK, OwnerIsOwner, WaitListExact
<1> QED
    BY Zenon, <1>1, <1>2, <1>3, <1>4, <1>5, <1>6, <1>7, <1>8, <1>9, <1>10, <1>11, <1>12
       DEF Next, MutexStep

\* Nobody owns the mutex or waits for it at the start.
LEMMA InitInv == Init => IInv
<1> SUFFICES ASSUME Init PROVE IInv
    BY Zenon
<1>1. TypeOK
    BY MutexAssumption, LockCallAssumption DEF Init, CallInit, TypeOK, Statuses, Points
<1>2. OwnerIsOwner
    BY Zenon, MutexAssumption, LockCallAssumption DEF Init, CallInit, OwnerIsOwner, Owning
<1>3. WaitListExact
    BY DEF Init, CallInit, WaitListExact, Listed, Distinct, Members
<1> QED
    BY Zenon, <1>1, <1>2, <1>3 DEF IInv

\* The three invariants hold in every reachable state.
THEOREM Invariance == Spec => []IInv
    BY InitInv, InvStep, PTL DEF Spec

\* Every variable keeps its type, for any number of threads and calls.
THEOREM TypeCorrect == Spec => []TypeOK
<1>1. IInv => TypeOK
    BY Zenon DEF IInv
<1> QED
    BY <1>1, Invariance, PTL

\* Mutual exclusion: the owner word names the one thread between its trylock
\* and its unlock.
THEOREM Exclusion == Spec => []OwnerIsOwner
<1>1. IInv => OwnerIsOwner
    BY Zenon DEF IInv
<1> QED
    BY <1>1, Invariance, PTL

\* The wait list holds the threads between mutex_prepare_sleep and
\* mutex_dequeue_thread, each once, however signals and wakeups interleave.
THEOREM WaitListKept == Spec => []WaitListExact
<1>1. IInv => WaitListExact
    BY Zenon DEF IInv
<1> QED
    BY <1>1, Invariance, PTL

-----------------------------------------------------------------------------
(* The mutex implements a lock.                                            *)

\* What a step of one thread does to the mapped state.
LEMMA Mapped ==
    ASSUME IInv, NEW t \in Threads, NEW p \in Points, pc' = [pc EXCEPT ![t] = p]
    PROVE  /\ pc'[t] = p
           /\ \A u \in Threads \ {t} : pc'[u] = pc[u]
    BY Zenon DEF IInv, TypeOK

\* A step whose thread keeps its place in the lock is a stutter.
LEMMA Stutter ==
    ASSUME IInv, NEW t \in Threads, NEW p \in Points, pc' = [pc EXCEPT ![t] = p],
           Want(t)' = Want(t), Hold(t)' = Hold(t)
    PROVE  UNCHANGED LS!lockVars
<1>1. \A u \in Threads : Want(u)' = Want(u) /\ Hold(u)' = Hold(u)
    BY Zenon, Mapped DEF Want, Hold
<1> QED
    BY Zenon, <1>1 DEF LS!lockVars

\* A trylock that succeeds is a grant, one that fails asks for the lock.
LEMMA TrylockGrants ==
    ASSUME IInv, NEW t \in Threads, NEW yes \in {"cs", "got"}, pc[t] \in {"idle", "try"},
           counter = Nobody, pc' = [pc EXCEPT ![t] = yes]
    PROVE  LS!Grant(t, "write")
<1>1. yes \in Points
    BY Zenon DEF Points
<1>2. \A u \in Threads : Hold(u) = "none"
    BY Zenon, MutexAssumption, LockCallAssumption DEF IInv, OwnerIsOwner, Owning, Hold
<1>3. Want(t) \in {"none", "write"} /\ Want(t)' = "none" /\ Hold(t)' = "write"
    BY Zenon, <1>1, Mapped DEF Want, Hold
<1>4. \A u \in Threads \ {t} : Want(u)' = Want(u) /\ Hold(u)' = Hold(u)
    BY Zenon, <1>1, Mapped DEF Want, Hold
<1> QED
    BY Zenon, <1>2, <1>3, <1>4 DEF LS!Grant, LS!Compatible

\* Every step of the mutex is a step of the lock, or a stutter.
LEMMA StepMaps == IInv /\ [Next]_mutexVars => [LS!LSNext]_(LS!lockVars)
<1> SUFFICES ASSUME IInv, [Next]_mutexVars PROVE [LS!LSNext]_(LS!lockVars)
    BY Zenon
<1>1. ASSUME NEW t \in Threads, Lock(t) PROVE LS!LSNext
  <2>1. pc[t] = "idle"
      BY Zenon, <1>1 DEF Lock, At
  <2>2. CASE counter = Nobody /\ pc' = [pc EXCEPT ![t] = "cs"]
      BY Zenon, <2>1, <2>2, TrylockGrants DEF LS!LSNext, LS!Modes
  <2>3. CASE pc' = [pc EXCEPT ![t] = "prepare"]
    <3>1. "prepare" \in Points
        BY Zenon DEF Points
    <3>2. Want(t) = "none" /\ Hold(t) = "none" /\ Want(t)' = "write" /\ Hold(t)' = "none"
        BY Zenon, <2>1, <2>3, <3>1, Mapped DEF Want, Hold
    <3>3. \A u \in Threads \ {t} : Want(u)' = Want(u) /\ Hold(u)' = Hold(u)
        BY Zenon, <2>3, <3>1, Mapped DEF Want, Hold
    <3>4. LS!Ask(t, "write")
        BY Zenon, <3>2, <3>3 DEF LS!Ask
    <3> QED
        BY Zenon, <3>4 DEF LS!LSNext, LS!Modes
  <2> QED
      BY Zenon, <1>1, <2>2, <2>3 DEF Lock, mutex_trylock, Goto
<1>2. ASSUME NEW t \in Threads,
             PrepareSleep(t) \/ Resched(t) \/ Sleep(t) \/ Woken(t)
      PROVE  UNCHANGED LS!lockVars
  <2>1. PICK p \in {"prepare", "resched", "try", "woken"} : pc' = [pc EXCEPT ![t] = p]
      BY Zenon, <1>2 DEF PrepareSleep, Resched, Sleep, Woken, Goto
  <2>2. pc[t] \in {"prepare", "resched", "sleep", "woken"} /\ p \in Points
      BY Zenon, <1>2, <2>1 DEF PrepareSleep, Resched, Sleep, Woken, At, Points
  <2>3. Want(t)' = Want(t) /\ Hold(t)' = Hold(t)
      BY Zenon, <2>1, <2>2, Mapped DEF Want, Hold
  <2> QED
      BY Zenon, <2>1, <2>2, <2>3, Stutter
<1>3. ASSUME NEW t \in Threads, Try(t) PROVE LS!LSNext \/ UNCHANGED LS!lockVars
  <2>1. pc[t] = "try" /\ "check" \in Points
      BY Zenon, <1>3 DEF Try, At, Points
  <2>2. CASE counter = Nobody /\ pc' = [pc EXCEPT ![t] = "got"]
      BY Zenon, <2>1, <2>2, TrylockGrants DEF LS!LSNext, LS!Modes
  <2>3. CASE pc' = [pc EXCEPT ![t] = "check"]
    <3>1. Want(t)' = Want(t) /\ Hold(t)' = Hold(t)
        BY Zenon, <2>1, <2>3, Mapped DEF Want, Hold
    <3> QED
        BY Zenon, <2>1, <2>3, <3>1, Stutter
  <2> QED
      BY Zenon, <1>3, <2>2, <2>3 DEF Try, mutex_trylock, Goto
<1>4. ASSUME NEW t \in Threads, Check(t) PROVE LS!LSNext \/ UNCHANGED LS!lockVars
  <2>1. pc[t] = "check" /\ "sleep" \in Points /\ "eintr" \in Points
      BY Zenon, <1>4 DEF Check, At, Points
  <2>2. CASE pc' = [pc EXCEPT ![t] = "sleep"]
    <3>1. Want(t)' = Want(t) /\ Hold(t)' = Hold(t)
        BY Zenon, <2>1, <2>2, Mapped DEF Want, Hold
    <3> QED
        BY Zenon, <2>1, <2>2, <3>1, Stutter
  <2>3. CASE pc' = [pc EXCEPT ![t] = "eintr"]
    <3>1. Want(t) = "write" /\ Want(t)' = "none" /\ Hold(t)' = Hold(t)
        BY Zenon, <2>1, <2>3, Mapped DEF Want, Hold
    <3>2. \A u \in Threads \ {t} : Want(u)' = Want(u) /\ Hold(u)' = Hold(u)
        BY Zenon, <2>1, <2>3, Mapped DEF Want, Hold
    <3>3. LS!GiveUp(t)
        BY Zenon, <3>1, <3>2 DEF LS!GiveUp
    <3> QED
        BY Zenon, <3>3 DEF LS!LSNext
  <2> QED
      BY Zenon, <1>4, <2>2, <2>3 DEF Check, Goto
<1>5. ASSUME NEW t \in Threads, LeaveLoop(t) \/ Dequeue(t) \/ UnlockWake(t)
      PROVE  UNCHANGED LS!lockVars
  <2>1. PICK p \in {"gotDq", "eintrDq", "cs", "idle"} :
            /\ pc' = [pc EXCEPT ![t] = p]
            /\ p \in {"gotDq", "cs"} <=> pc[t] \in {"got", "gotDq"}
      BY Zenon, <1>5 DEF LeaveLoop, Dequeue, UnlockWake, Goto, At
  <2>2. pc[t] \in {"got", "eintr", "gotDq", "eintrDq", "wake"} /\ p \in Points
      BY Zenon, <1>5, <2>1 DEF LeaveLoop, Dequeue, UnlockWake, At, Points
  <2>3. Want(t)' = Want(t) /\ Hold(t)' = Hold(t)
      BY Zenon, <2>1, <2>2, Mapped DEF Want, Hold
  <2> QED
      BY Zenon, <2>1, <2>2, <2>3, Stutter
<1>6. ASSUME NEW t \in Threads, Unlock(t) PROVE LS!LSNext
  <2>1. pc[t] = "cs" /\ "wake" \in Points /\ pc' = [pc EXCEPT ![t] = "wake"]
      BY Zenon, <1>6 DEF Unlock, At, Goto, Points
  <2>2. Hold(t) = "write" /\ Hold(t)' = "none" /\ Want(t)' = Want(t)
      BY Zenon, <2>1, Mapped DEF Want, Hold
  <2>3. \A u \in Threads \ {t} : Want(u)' = Want(u) /\ Hold(u)' = Hold(u)
      BY Zenon, <2>1, Mapped DEF Want, Hold
  <2>4. LS!Release(t)
      BY Zenon, <2>2, <2>3 DEF LS!Release
  <2> QED
      BY Zenon, <2>4 DEF LS!LSNext
<1>7. ASSUME NEW t \in Threads, SignalStep(t) PROVE UNCHANGED LS!lockVars
    BY Zenon, <1>7 DEF SignalStep, Signal, SignalLook, SignalWake, LS!lockVars, Want, Hold
<1>8. CASE UNCHANGED mutexVars
    BY Zenon, <1>8 DEF mutexVars, LS!lockVars, Want, Hold
<1> QED
    BY Zenon, <1>1, <1>2, <1>3, <1>4, <1>5, <1>6, <1>7, <1>8 DEF Next, MutexStep

\* The mutex implements a lock asked for in write mode, whatever signals,
\* reschedules and wakeups do: it is granted when nobody holds it, and only
\* mutex_unlock of its holder releases it.
THEOREM Refinement == Spec => ImplementsLock
<1>1. Init => LS!LSInit
    BY Zenon DEF Init, CallInit, LS!LSInit, Want, Hold
<1>2. QED
    BY <1>1, StepMaps, Invariance, PTL DEF Spec, ImplementsLock, LS!LSSpec

-----------------------------------------------------------------------------
(* The readers-writer lock, with the threads, calls and signals of its own *)
(* behaviours under the names they have above.                             *)

Holders == {t \in Threads : pc[t] = "cs"}

\* The word is RDWR_LOCK_WRITE for one writer, and counts the readers otherwise.
WordExact ==
    /\ lock = RDWR_LOCK_WRITE => \E w \in Writers : Holders = {w}
    /\ lock # RDWR_LOCK_WRITE => Holders \cap Writers = {} /\ lock = Cardinality(Holders)

Waiting == {"yield", "again"}

\* A thread is off the processor only in the loop, until it is woken.
SleepExact ==
    \A t \in Threads : parked[t] <=> pc[t] = "again" /\ status[t] # "RUNNABLE"

\* Announced its sleep and not woken since.
Asleep(t) == pc[t] \in Waiting /\ status[t] # "RUNNABLE"

\* NoStrandedWaiter must also hold of those who have not left the processor.
Watched == (\E t \in Threads : Asleep(t)) => \E u \in Threads : Active(u)

RwInv == RwTypeOK /\ SleepExact /\ RwListExact /\ WordExact /\ Watched

-----------------------------------------------------------------------------
(* The lock word.                                                          *)

\* The holders can be counted.
LEMMA HoldersFinite ==
    ASSUME IsFiniteSet(Threads)
    PROVE  IsFiniteSet(Holders) /\ Cardinality(Holders) \in Nat
<1>1. Holders \in SUBSET Threads
    BY Zenon DEF Holders
<1> QED
    BY Zenon, <1>1, FS_Subset, FS_CardinalityType, RwLockAssumption, LockCallAssumption

\* A try that fails has seen a holder.
LEMMA FailedTry ==
    ASSUME IsFiniteSet(Threads), RwTypeOK, WordExact, NEW t \in Threads, ~CanTake(t)
    PROVE  \E u \in Threads : pc[u] = "cs"
<1>1. lock # 0 /\ RDWR_LOCK_WRITE \in Nat \ {0, 1}
    BY RwLockAssumption, LockCallAssumption DEF RwTypeOK, CanTake, CanRead
<1>2. Holders # {}
    BY Zenon, <1>1, FS_EmptySet DEF WordExact
<1> QED
    BY Zenon, <1>2 DEF Holders

\* A try that succeeds is compatible with whoever holds the lock.
LEMMA TryCompatible ==
    ASSUME IsFiniteSet(Threads), RwTypeOK, WordExact, NEW t \in Threads, CanTake(t)
    PROVE  \A u \in Holders : t \notin Writers /\ u \notin Writers
<1>1. lock # RDWR_LOCK_WRITE
    BY RwLockAssumption, LockCallAssumption DEF RwTypeOK, CanTake, CanRead
<1>2. CASE t \in Writers
  <2>1. Cardinality(Holders) = 0
      BY Zenon, <1>1, <1>2 DEF WordExact, CanTake
  <2> QED
      BY Zenon, <2>1, HoldersFinite, FS_EmptySet
<1>3. CASE t \notin Writers
    BY Zenon, <1>1, <1>3 DEF WordExact
<1> QED
    BY Zenon, <1>2, <1>3

\* rw_lock_trywrite and rw_lock_tryread make the caller a holder.
LEMMA WordTaken ==
    ASSUME IsFiniteSet(Threads), RwTypeOK, WordExact, NEW t \in Threads, pc[t] # "cs", CanTake(t),
           lock' = Taken(t), pc' = [pc EXCEPT ![t] = "cs"]
    PROVE  WordExact' /\ lock' \in 0 .. RDWR_LOCK_WRITE
<1>1. Holders' = Holders \cup {t} /\ t \notin Holders
    BY Zenon DEF Holders, RwTypeOK
<1>2. \A u \in Holders : t \notin Writers /\ u \notin Writers
    BY Zenon, TryCompatible
<1>3. RDWR_LOCK_WRITE \in Nat \ {0, 1} /\ lock \in 0 .. RDWR_LOCK_WRITE
    BY Zenon, RwLockAssumption, LockCallAssumption DEF RwTypeOK
<1>4. CASE t \in Writers
  <2>1. Holders' = {t} /\ lock' = RDWR_LOCK_WRITE
      BY Zenon, <1>1, <1>2, <1>4 DEF Taken
  <2> QED
      BY <1>3, <1>4, <2>1 DEF WordExact
<1>5. CASE t \notin Writers
  <2>1. lock < RDWR_LOCK_WRITE - 1 /\ lock' = lock + 1
      BY Zenon, <1>5 DEF CanTake, CanRead, Taken
  <2>2. lock = Cardinality(Holders)
      BY <1>3, <2>1 DEF WordExact
  <2>3. Cardinality(Holders') = Cardinality(Holders) + 1
      BY Zenon, <1>1, HoldersFinite, FS_AddElement
  <2>4. Holders' \cap Writers = {}
      BY Zenon, <1>1, <1>2, <1>3, <1>5, <2>1 DEF WordExact
  <2> QED
      BY <1>3, <2>1, <2>2, <2>3, <2>4 DEF WordExact
<1> QED
    BY Zenon, <1>4, <1>5

\* A step between points outside the lock leaves the word exact.
LEMMA WordKept ==
    ASSUME RwTypeOK, WordExact, NEW t \in Threads, NEW p \in RwPoints \ {"cs"}, pc[t] # "cs",
           UNCHANGED lock, pc' = [pc EXCEPT ![t] = p]
    PROVE  WordExact'
<1>1. Holders' = Holders
    BY Zenon DEF Holders, RwTypeOK
<1> QED
    BY Zenon, <1>1 DEF WordExact

\* rw_unlock_read discounts its caller.
LEMMA WordDropped ==
    ASSUME IsFiniteSet(Threads), RwTypeOK, WordExact, NEW t \in Threads, NEW p \in RwPoints \ {"cs"}, pc[t] = "cs",
           t \notin Writers, lock' = lock - 1, pc' = [pc EXCEPT ![t] = p]
    PROVE  /\ WordExact' /\ lock' \in 0 .. RDWR_LOCK_WRITE
           /\ lock # 1 => \E u \in Threads : u # t /\ pc[u] = "cs"
<1>1. Holders' = Holders \ {t} /\ t \in Holders
    BY Zenon DEF Holders, RwTypeOK
<1>2. RDWR_LOCK_WRITE \in Nat \ {0, 1} /\ lock \in 0 .. RDWR_LOCK_WRITE
    BY Zenon, RwLockAssumption, LockCallAssumption DEF RwTypeOK
<1>3. lock # RDWR_LOCK_WRITE
    BY <1>1 DEF WordExact
<1>4. Holders \cap Writers = {} /\ lock = Cardinality(Holders)
    BY Zenon, <1>3 DEF WordExact
<1>5. Cardinality(Holders') = lock - 1 /\ IsFiniteSet(Holders') /\ Cardinality(Holders') \in Nat
    BY Zenon, <1>1, <1>4, HoldersFinite, FS_RemoveElement, FS_CardinalityType
<1>6. WordExact' /\ lock' \in 0 .. RDWR_LOCK_WRITE
    BY <1>1, <1>2, <1>3, <1>4, <1>5 DEF WordExact
<1>7. ASSUME lock # 1 PROVE \E u \in Threads : u # t /\ pc[u] = "cs"
  <2>1. Cardinality(Holders') # 0
      BY <1>2, <1>5, <1>7
  <2>2. Holders' # {}
      BY Zenon, <2>1, FS_EmptySet
  <2> QED
      BY Zenon, <1>1, <2>2 DEF Holders
<1> QED
    BY Zenon, <1>6, <1>7

\* rw_unlock_write leaves no holder.
LEMMA WordCleared ==
    ASSUME IsFiniteSet(Threads), RwTypeOK, WordExact, NEW t \in Writers, NEW p \in RwPoints \ {"cs"}, pc[t] = "cs",
           lock' = 0, pc' = [pc EXCEPT ![t] = p]
    PROVE  WordExact' /\ lock' \in 0 .. RDWR_LOCK_WRITE
<1>1. Holders' = Holders \ {t} /\ t \in Holders
    BY Zenon, RwLockAssumption, LockCallAssumption DEF Holders, RwTypeOK
<1>2. Holders = {t}
    BY Zenon, <1>1 DEF WordExact
<1>3. Cardinality(Holders') = 0
    BY Zenon, <1>1, <1>2, FS_EmptySet
<1> QED
    BY <1>1, <1>2, <1>3, RwLockAssumption, LockCallAssumption DEF WordExact

-----------------------------------------------------------------------------
(* The invariant.                                                          *)

\* A step that leaves the wait list alone keeps it exact, if its thread stays
\* on its side of Waiting.
LEMMA RwListKept ==
    ASSUME RwTypeOK, RwListExact, NEW t \in Threads, NEW p \in RwPoints,
           pc' = [pc EXCEPT ![t] = p], UNCHANGED waiting_list,
           pc[t] \in Waiting <=> p \in Waiting
    PROVE  RwListExact'
<1>1. \A u \in Threads : pc'[u] \in Waiting <=> pc[u] \in Waiting
    BY Zenon DEF RwTypeOK
<1> QED
    BY Zenon, <1>1 DEF RwListExact, Waiting

\* One turn of the loop with the caller on the list.
LEMMA AttemptStep ==
    ASSUME IsFiniteSet(Threads), RwInv, NEW t \in Threads, NEW list \in Seq(Threads), Distinct(list),
           Members(list) = {u \in Threads : pc[u] \in Waiting} \cup {t},
           pc[t] \in {"enter", "again"}, ~parked[t], Attempt(t, list),
           UNCHANGED <<rounds, signal_pending, signalling>>
    PROVE  RwInv'
<1> USE DEF RwPoints, Waiting
<1>1. /\ t \in Members(list) /\ list_remove(list, t) \in Seq(Threads)
      /\ Distinct(list_remove(list, t))
      /\ Members(list_remove(list, t)) = Members(list) \ {t}
    BY Zenon, Remove
<1>2. PICK p \in {"cs", "idle", "yield"}, s \in Statuses :
          /\ pc' = [pc EXCEPT ![t] = p] /\ status' = [status EXCEPT ![t] = s] /\ parked' = parked
          /\ waiting_list' = IF p = "yield" THEN list ELSE list_remove(list, t)
          /\ IF p = "cs" THEN CanTake(t) /\ lock' = Taken(t) ELSE ~CanTake(t) /\ lock' = lock
    BY Zenon DEF Attempt, Goto, set_current_state, SleepState, Statuses, Blocked, Position, list_remove
<1>3. /\ pc'[t] = p /\ \A u \in Threads : u # t => pc'[u] = pc[u] /\ status'[u] = status[u]
      /\ waiting_list' \in Seq(Threads) /\ Distinct(waiting_list')
    BY Zenon, <1>1, <1>2 DEF RwInv, RwTypeOK
<1>4. WordExact' /\ lock' \in 0 .. RDWR_LOCK_WRITE
  <2>1. CASE p = "cs"
      BY Zenon, <1>2, <2>1, WordTaken DEF RwInv
  <2>2. CASE p # "cs"
    <3>1. UNCHANGED lock /\ pc[t] # "cs"
        BY Zenon, <1>2, <2>2
    <3> QED
        BY Zenon, <1>2, <2>2, <3>1, WordKept DEF RwInv, RwTypeOK
  <2> QED
      BY Zenon, <2>1, <2>2
<1>5. RwTypeOK'
    BY Zenon, <1>2, <1>3, <1>4 DEF RwInv, RwTypeOK, Blocked, Statuses
<1>6. SleepExact'
    BY Zenon, <1>2, <1>3 DEF RwInv, SleepExact
<1>7. RwListExact'
  <2>1. CASE p = "yield"
    <3>1. Members(waiting_list') = {u \in Threads : pc'[u] \in Waiting}
        BY Zenon, <1>2, <1>3, <2>1
    <3> QED
        BY Zenon, <1>3, <3>1 DEF RwListExact, Distinct, Members
  <2>2. CASE p # "yield"
    <3>1. Members(waiting_list') = {u \in Threads : pc'[u] \in Waiting}
        BY Zenon, <1>1, <1>2, <1>3, <2>2
    <3> QED
        BY Zenon, <1>3, <3>1 DEF RwListExact, Distinct, Members
  <2> QED
      BY Zenon, <2>1, <2>2
<1>8. Watched'
  <2>1. CASE p = "cs"
      BY Zenon, <1>3, <2>1 DEF Watched, Active
  <2>2. CASE p # "cs"
    <3>1. PICK u \in Threads : pc[u] = "cs"
        BY Zenon, <1>2, <2>2, FailedTry DEF RwInv
    <3>2. pc'[u] = "cs"
        BY Zenon, <1>3, <3>1
    <3> QED
        BY Zenon, <3>2 DEF Watched, Active
  <2> QED
      BY Zenon, <2>1, <2>2
<1> QED
    BY Zenon, <1>4, <1>5, <1>6, <1>7, <1>8 DEF RwInv

\* What is the same in every step outside the loop: a move of one thread that
\* leaves status and list alone.
LEMMA MoveStep ==
    ASSUME RwInv, NEW t \in Threads, NEW p \in RwPoints \ Waiting, pc[t] \notin Waiting,
           pc' = [pc EXCEPT ![t] = p], UNCHANGED <<status, parked, waiting_list>>
    PROVE  SleepExact' /\ RwListExact'
<1>1. pc'[t] = p /\ \A u \in Threads : u # t => pc'[u] = pc[u]
    BY Zenon DEF RwInv, RwTypeOK
<1>2. SleepExact'
    BY Zenon, <1>1 DEF RwInv, SleepExact, Waiting
<1>3. RwListExact'
    BY Zenon, RwListKept DEF RwInv
<1> QED
    BY Zenon, <1>2, <1>3

\* Every step keeps the invariant.
LEMMA RwInvStep ==
    ASSUME IsFiniteSet(Threads)
    PROVE  RwInv /\ [RwNext]_rwVars => RwInv'
<1> SUFFICES ASSUME RwInv, [RwNext]_rwVars PROVE RwInv'
    BY Zenon
<1> USE DEF RwPoints, Waiting
<1>1. ASSUME NEW t \in Threads, RwTry(t) PROVE RwInv'
  <2>1. PICK p \in {"cs", "enter"} :
            /\ pc' = [pc EXCEPT ![t] = p]
            /\ IF p = "cs" THEN CanTake(t) /\ lock' = Taken(t) ELSE lock' = lock
      BY Zenon, <1>1 DEF RwTry, Goto
  <2>2. /\ pc[t] = "idle" /\ ~parked[t] /\ rounds[t] > 0
        /\ rounds' = [rounds EXCEPT ![t] = @ - 1]
        /\ UNCHANGED <<status, parked, waiting_list, signal_pending, signalling>>
      BY Zenon, <1>1 DEF RwTry, At
  <2>3. WordExact' /\ lock' \in 0 .. RDWR_LOCK_WRITE
    <3>1. CASE p = "cs"
        BY Zenon, <2>1, <2>2, <3>1, WordTaken DEF RwInv
    <3>2. CASE p = "enter"
      <4>1. UNCHANGED lock /\ pc[t] # "cs"
          BY Zenon, <2>1, <2>2, <3>2
      <4> QED
          BY Zenon, <2>1, <3>2, <4>1, WordKept DEF RwInv, RwTypeOK
    <3> QED
        BY Zenon, <3>1, <3>2
  <2>4. SleepExact' /\ RwListExact'
      BY Zenon, <2>1, <2>2, MoveStep
  <2>5. rounds' \in [Threads -> 0 .. Rounds]
      BY <2>2, RwLockAssumption, LockCallAssumption DEF RwInv, RwTypeOK
  <2>6. RwTypeOK'
      BY Zenon, <2>1, <2>2, <2>3, <2>5 DEF RwInv, RwTypeOK
  <2>7. pc'[t] = p /\ ~parked'[t]
      BY Zenon, <2>1, <2>2 DEF RwInv, RwTypeOK
  <2>8. Watched'
      BY Zenon, <2>7 DEF Watched, Active
  <2> QED
      BY Zenon, <2>3, <2>4, <2>6, <2>8 DEF RwInv
<1>2. ASSUME NEW t \in Threads, Enter(t) PROVE RwInv'
  <2> DEFINE list == list_add_tail(waiting_list, t)
  <2>1. pc[t] = "enter" /\ ~parked[t] /\ UNCHANGED <<rounds, signal_pending, signalling>>
      BY Zenon, <1>2 DEF Enter, At
  <2>2. waiting_list \in Seq(Threads) /\ Distinct(waiting_list) /\ t \notin Members(waiting_list)
      BY Zenon, <2>1 DEF RwInv, RwTypeOK, RwListExact, Blocked, Distinct, Members, Statuses
  <2>3. /\ list \in Seq(Threads) /\ Distinct(list)
        /\ Members(list) = Members(waiting_list) \cup {t}
      BY <2>2, AddTail
  <2>4. Attempt(t, list)
      BY Zenon, <1>2 DEF Enter, list_add_tail
  <2> HIDE DEF list
  <2>5. Members(list) = {u \in Threads : pc[u] \in Waiting} \cup {t}
      BY Zenon, <2>3 DEF RwInv, RwListExact, Distinct, Members
  <2> QED
      BY Zenon, <2>1, <2>3, <2>4, <2>5, AttemptStep
<1>3. ASSUME NEW t \in Threads, Again(t) PROVE RwInv'
  <2>1. /\ pc[t] = "again" /\ ~parked[t] /\ UNCHANGED <<rounds, signal_pending, signalling>>
        /\ Attempt(t, waiting_list)
      BY Zenon, <1>3 DEF Again, At
  <2>2. /\ waiting_list \in Seq(Threads) /\ Distinct(waiting_list)
        /\ Members(waiting_list) = {u \in Threads : pc[u] \in Waiting} \cup {t}
      BY <2>1 DEF RwInv, RwTypeOK, RwListExact, Blocked, Distinct, Members, Statuses
  <2> QED
      BY Zenon, <2>1, <2>2, AttemptStep
<1>4. ASSUME NEW t \in Threads, Yield(t) PROVE RwInv'
  <2>1. /\ pc[t] = "yield" /\ ~parked[t] /\ pc' = [pc EXCEPT ![t] = "again"]
        /\ parked' = [parked EXCEPT ![t] = status[t] # "RUNNABLE"]
        /\ UNCHANGED <<status, lock, waiting_list, rounds, signal_pending, signalling>>
      BY Zenon, <1>4 DEF Yield, At, Goto, sched_yield
  <2>2. /\ pc'[t] = "again" /\ (parked'[t] <=> status[t] # "RUNNABLE")
        /\ \A u \in Threads : u # t => pc'[u] = pc[u] /\ parked'[u] = parked[u]
      BY Zenon, <2>1 DEF RwInv, RwTypeOK
  <2>3. RwTypeOK'
      BY Zenon, <2>1 DEF RwInv, RwTypeOK
  <2>4. WordExact' /\ RwListExact'
      BY Zenon, <2>1, WordKept, RwListKept DEF RwInv
  <2>5. SleepExact'
      BY Zenon, <2>1, <2>2 DEF RwInv, SleepExact
  <2>6. Watched'
    <3>1. CASE status[t] = "RUNNABLE"
        BY Zenon, <2>2, <3>1 DEF Watched, Active
    <3>2. CASE status[t] # "RUNNABLE"
      <4>1. PICK u \in Threads : Active(u)
          BY Zenon, <2>1, <3>2 DEF RwInv, Watched, Asleep
      <4>2. u # t
          BY Zenon, <2>1, <3>2, <4>1 DEF Active
      <4>3. Active(u)'
          BY Zenon, <2>1, <2>2, <4>1, <4>2 DEF Active
      <4> QED
          BY Zenon, <4>3 DEF Watched
    <3> QED
        BY Zenon, <3>1, <3>2
  <2> QED
      BY Zenon, <2>3, <2>4, <2>5, <2>6 DEF RwInv
<1>5. ASSUME NEW t \in Threads, UnlockRead(t) PROVE RwInv'
  <2>1. PICK p \in {"wake", "idle"} :
            pc' = [pc EXCEPT ![t] = p] /\ (p = "idle" => lock # 1)
      BY Zenon, <1>5 DEF UnlockRead, Goto
  <2>2. /\ pc[t] = "cs" /\ t \notin Writers /\ lock' = lock - 1
        /\ UNCHANGED <<status, parked, waiting_list, rounds, signal_pending, signalling>>
      BY Zenon, <1>5 DEF UnlockRead, At
  <2>3. /\ WordExact' /\ lock' \in 0 .. RDWR_LOCK_WRITE
        /\ lock # 1 => \E u \in Threads : u # t /\ pc[u] = "cs"
      BY Zenon, <2>1, <2>2, WordDropped DEF RwInv
  <2>4. SleepExact' /\ RwListExact'
      BY Zenon, <2>1, <2>2, MoveStep
  <2>5. RwTypeOK'
      BY Zenon, <2>1, <2>2, <2>3 DEF RwInv, RwTypeOK
  <2>6. pc'[t] = p /\ \A u \in Threads : u # t => pc'[u] = pc[u]
      BY Zenon, <2>1 DEF RwInv, RwTypeOK
  <2>7. Watched'
      BY Zenon, <2>1, <2>3, <2>6 DEF Watched, Active
  <2> QED
      BY Zenon, <2>3, <2>4, <2>5, <2>7 DEF RwInv
<1>6. ASSUME NEW t \in Threads, UnlockWrite(t) PROVE RwInv'
  <2>1. /\ pc[t] = "cs" /\ t \in Writers /\ lock' = 0 /\ pc' = [pc EXCEPT ![t] = "wake"]
        /\ UNCHANGED <<status, parked, waiting_list, rounds, signal_pending, signalling>>
      BY Zenon, <1>6 DEF UnlockWrite, At, Goto
  <2>2. WordExact' /\ lock' \in 0 .. RDWR_LOCK_WRITE
      BY Zenon, <2>1, WordCleared DEF RwInv
  <2>3. SleepExact' /\ RwListExact'
      BY Zenon, <2>1, MoveStep
  <2>4. RwTypeOK'
      BY Zenon, <2>1, <2>2 DEF RwInv, RwTypeOK
  <2>5. pc'[t] = "wake"
      BY Zenon, <2>1 DEF RwInv, RwTypeOK
  <2>6. Watched'
      BY Zenon, <2>5 DEF Watched, Active
  <2> QED
      BY Zenon, <2>2, <2>3, <2>4, <2>6 DEF RwInv
<1>7. ASSUME NEW t \in Threads, RwUnlockWake(t) PROVE RwInv'
  <2>1. /\ pc[t] = "wake" /\ pc' = [pc EXCEPT ![t] = "idle"]
        /\ status' = [u \in Threads |-> IF u \in RwWoken(t) THEN "RUNNABLE" ELSE status[u]]
        /\ parked' = [u \in Threads |-> parked[u] /\ u \notin RwWoken(t)]
        /\ UNCHANGED <<lock, waiting_list, rounds, signal_pending, signalling>>
      BY Zenon, <1>7 DEF RwUnlockWake, At, Goto, wake_up_all
  <2>2. pc'[t] = "idle" /\ \A u \in Threads : u # t => pc'[u] = pc[u]
      BY Zenon, <2>1 DEF RwInv, RwTypeOK
  <2>3. RwTypeOK'
      BY Zenon, <2>1 DEF RwInv, RwTypeOK, Statuses, Blocked
  <2>4. WordExact' /\ RwListExact'
      BY Zenon, <2>1, WordKept, RwListKept DEF RwInv
  <2>5. SleepExact'
      BY Zenon, <2>1, <2>2 DEF RwInv, SleepExact
  <2>6. Watched'
    <3>1. CASE t \in Writers
      <4>1. \A u \in Threads : pc'[u] \in Waiting => u \in RwWoken(t)
          BY Zenon, <2>2, <3>1 DEF RwInv, RwListExact, RwWoken
      <4> QED
          BY Zenon, <2>1, <4>1 DEF Watched, Asleep
    <3>2. CASE t \notin Writers /\ waiting_list = <<>>
      <4>1. \A u \in Threads : pc'[u] \notin Waiting
          BY <2>2, <3>2 DEF RwInv, RwListExact, Members, Distinct
      <4> QED
          BY Zenon, <4>1 DEF Watched, Asleep
    <3>3. CASE t \notin Writers /\ waiting_list # <<>>
      <4> DEFINE h == waiting_list[1]
      <4>1. 1 \in DOMAIN waiting_list
          BY <3>3 DEF RwInv, RwTypeOK
      <4>2. h \in Members(waiting_list) /\ h \in RwWoken(t)
          BY Zenon, <3>3, <4>1 DEF Members, RwWoken
      <4>3. h \in Threads /\ pc[h] \in Waiting
          BY Zenon, <4>2 DEF RwInv, RwListExact, Distinct, Members
      <4> HIDE DEF h
      <4>4. pc'[h] \in Waiting /\ status'[h] = "RUNNABLE" /\ ~parked'[h]
          BY Zenon, <2>1, <2>2, <4>2, <4>3
      <4> QED
          BY Zenon, <4>3, <4>4 DEF Watched, Active
    <3> QED
        BY Zenon, <3>1, <3>2, <3>3
  <2> QED
      BY Zenon, <2>3, <2>4, <2>5, <2>6 DEF RwInv
<1>8. ASSUME NEW t \in Threads, RwSignalStep(t) PROVE RwInv'
  <2>1. UNCHANGED <<lock, waiting_list, pc, rounds>>
      BY Zenon, <1>8 DEF RwSignalStep, Signal, SignalLook, SignalWake
  <2>2. WordExact' /\ RwListExact'
      BY Zenon, <2>1 DEF RwInv, WordExact, RwListExact, Holders
  <2>3. \/ UNCHANGED <<status, parked>>
        \/ /\ status' = [status EXCEPT ![t] = "RUNNABLE"]
           /\ parked' = [parked EXCEPT ![t] = FALSE]
      BY Zenon, <1>8 DEF RwSignalStep, Signal, SignalLook, SignalWake, thread_wake_up
  <2>4. RwTypeOK'
    <3>1. status' \in [Threads -> Statuses] /\ parked' \in [Threads -> BOOLEAN]
        BY Zenon, <2>3 DEF RwInv, RwTypeOK, Statuses, Blocked
    <3>2. /\ signal_pending' \subseteq Threads
          /\ signalling' \in [Threads -> {"none", "look", "wake", "done"}]
        BY Zenon, <1>8 DEF RwInv, RwTypeOK, RwSignalStep, Signal, SignalLook, SignalWake
    <3> QED
        BY Zenon, <2>1, <3>1, <3>2 DEF RwInv, RwTypeOK, Blocked, Statuses
  <2>5. SleepExact'
      BY Zenon, <2>1, <2>3 DEF RwInv, RwTypeOK, SleepExact
  <2>6. \A u \in Threads : (Active(u) => Active(u)') /\ (Asleep(u)' => Asleep(u))
      BY Zenon, <2>1, <2>3 DEF RwInv, RwTypeOK, Active, Asleep
  <2>7. Watched'
      BY Zenon, <2>6 DEF RwInv, Watched
  <2> QED
      BY Zenon, <2>2, <2>4, <2>5, <2>7 DEF RwInv
<1>9. CASE UNCHANGED rwVars
    BY Zenon, <1>9 DEF rwVars, RwInv, RwTypeOK, SleepExact, RwListExact, WordExact, Holders, Watched, Active, Asleep
<1> QED
    BY Zenon, <1>1, <1>2, <1>3, <1>4, <1>5, <1>6, <1>7, <1>8, <1>9 DEF RwNext, RwStep

\* The lock starts free, with nobody waiting.
LEMMA RwInitInv ==
    ASSUME IsFiniteSet(Threads)
    PROVE  RwInit => RwInv
<1> SUFFICES ASSUME RwInit PROVE RwInv
    BY Zenon
<1>1. RwTypeOK /\ SleepExact
    BY RwLockAssumption, LockCallAssumption DEF RwInit, CallInit, RwTypeOK, SleepExact, Statuses, RwPoints, Blocked
<1>2. RwListExact
    BY DEF RwInit, CallInit, RwListExact, Distinct, Members
<1>3. Holders = {} /\ lock # RDWR_LOCK_WRITE
    BY Zenon, RwLockAssumption, LockCallAssumption DEF RwInit, CallInit, Holders
<1>4. WordExact
    BY Zenon, <1>3, FS_EmptySet DEF RwInit, CallInit, WordExact
<1>5. Watched
    BY Zenon DEF RwInit, CallInit, Watched, Asleep, Waiting
<1> QED
    BY Zenon, <1>1, <1>2, <1>4, <1>5 DEF RwInv

\* The invariant holds in every reachable state.
THEOREM RwInvariance ==
    ASSUME IsFiniteSet(Threads)
    PROVE  RwSpec => []RwInv
<1>1. RwInit => RwInv
    BY Zenon, RwInitInv
<1>2. RwInv /\ [RwNext]_rwVars => RwInv'
    BY Zenon, RwInvStep
<1> QED
    BY <1>1, <1>2, PTL DEF RwSpec

\* The word of the lock is RDWR_LOCK_WRITE while one writer holds it and the
\* number of readers otherwise, at its limit too.
THEOREM WordCounts ==
    ASSUME IsFiniteSet(Threads)
    PROVE  RwSpec => []WordExact
<1>1. RwInv => WordExact
    BY Zenon DEF RwInv
<1>2. RwSpec => []RwInv
    BY Zenon, RwInvariance
<1> QED
    BY <1>1, <1>2, PTL

\* A thread sleeps in rw_lock_write or rw_lock_read only while another one
\* holds the lock, is about to wake the list, or is awake and about to try.
THEOREM NobodyStranded ==
    ASSUME IsFiniteSet(Threads)
    PROVE  RwSpec => []NoStrandedWaiter
<1>1. RwInv => NoStrandedWaiter
  <2> SUFFICES ASSUME RwInv, NEW t \in Threads, parked[t]
               PROVE  \E u \in Threads \ {t} : Active(u)
      BY Zenon DEF NoStrandedWaiter
  <2>1. pc[t] = "again" /\ status[t] # "RUNNABLE"
      BY Zenon DEF RwInv, SleepExact
  <2>2. PICK u \in Threads : Active(u)
      BY Zenon, <2>1 DEF RwInv, Watched, Asleep, Waiting
  <2>3. u # t
      BY Zenon, <2>1, <2>2 DEF Active
  <2> QED
      BY Zenon, <2>2, <2>3
<1>2. RwSpec => []RwInv
    BY Zenon, RwInvariance
<1> QED
    BY <1>1, <1>2, PTL

-----------------------------------------------------------------------------
(* Readers do not wait for readers.                                        *)

\* There are not enough readers to bring the count to its limit.
FewReaders == Cardinality(Threads \ Writers) < RDWR_LOCK_WRITE - 1

\* A reader announces its sleep only under a writer, and the writer that left
\* will wake it.
ReadersWatched ==
    \A t \in Threads \ Writers :
        Asleep(t) => lock = RDWR_LOCK_WRITE \/ \E w \in Writers : pc[w] = "wake"

\* A reader is refused by a writer only.
LEMMA RefusedReader ==
    ASSUME IsFiniteSet(Threads), FewReaders, RwTypeOK, WordExact, NEW t \in Threads \ Writers, ~CanTake(t)
    PROVE  lock = RDWR_LOCK_WRITE
<1> SUFFICES ASSUME lock # RDWR_LOCK_WRITE PROVE FALSE
    BY Zenon
<1>1. RDWR_LOCK_WRITE \in Nat /\ lock \in Nat /\ lock >= RDWR_LOCK_WRITE - 1
    BY RwLockAssumption, LockCallAssumption DEF RwTypeOK, CanTake, CanRead
<1>2. lock = Cardinality(Holders) /\ Holders \in SUBSET (Threads \ Writers)
    BY Zenon DEF WordExact, Holders
<1>3. IsFiniteSet(Threads \ Writers)
    BY Zenon, FS_Subset, RwLockAssumption, LockCallAssumption
<1>4. /\ Cardinality(Holders) <= Cardinality(Threads \ Writers)
      /\ Cardinality(Threads \ Writers) \in Nat
    BY Zenon, <1>2, <1>3, FS_Subset, FS_CardinalityType
<1> QED
    BY <1>1, <1>2, <1>4 DEF FewReaders

\* One turn of the loop.
LEMMA AttemptShares ==
    ASSUME IsFiniteSet(Threads), FewReaders, RwInv, ReadersWatched, NEW t \in Threads, NEW list, Attempt(t, list),
           pc[t] \in {"enter", "again"}
    PROVE  ReadersWatched'
<1>1. /\ \A u \in Threads : u # t => pc'[u] = pc[u] /\ status'[u] = status[u]
      /\ Asleep(t)' => ~CanTake(t) /\ UNCHANGED lock
      /\ lock' # lock => CanTake(t)
    BY Zenon DEF RwInv, RwTypeOK, Attempt, Goto, set_current_state, Asleep, Waiting, Blocked, Position, Statuses, list_remove
<1>2. \A w \in Writers : pc[w] = "wake" => pc'[w] = "wake"
    BY Zenon, <1>1, RwLockAssumption, LockCallAssumption
<1>3. lock' # lock => lock # RDWR_LOCK_WRITE
    BY <1>1, RwLockAssumption, LockCallAssumption DEF RwInv, RwTypeOK, CanTake, CanRead
<1> SUFFICES ASSUME NEW u \in Threads \ Writers, Asleep(u)'
             PROVE  lock' = RDWR_LOCK_WRITE \/ \E w \in Writers : pc'[w] = "wake"
    BY Zenon DEF ReadersWatched
<1>4. CASE u = t
    BY Zenon, <1>1, <1>4, RefusedReader DEF RwInv
<1>5. CASE u # t
  <2>1. Asleep(u)
      BY Zenon, <1>1, <1>5 DEF Asleep
  <2> QED
      BY Zenon, <1>2, <1>3, <2>1 DEF ReadersWatched
<1> QED
    BY Zenon, <1>4, <1>5

\* Every step keeps ReadersWatched.
LEMMA ReadersWatchedStep ==
    ASSUME IsFiniteSet(Threads), FewReaders, RwInv, ReadersWatched, [RwNext]_rwVars
    PROVE  ReadersWatched'
<1> USE DEF Waiting
<1>1. ASSUME NEW t \in Threads, RwTry(t) PROVE ReadersWatched'
  <2>1. /\ \A u \in Threads : u # t => pc'[u] = pc[u]
        /\ pc[t] = "idle" /\ pc'[t] \notin Waiting /\ UNCHANGED status
        /\ lock' # lock => lock # RDWR_LOCK_WRITE
      BY <1>1, RwLockAssumption, LockCallAssumption DEF RwInv, RwTypeOK, RwTry, At, Goto, CanTake, CanRead
  <2>2. /\ \A u \in Threads : Asleep(u)' => Asleep(u)
        /\ \A w \in Threads : pc[w] = "wake" => pc'[w] = "wake"
      BY Zenon, <2>1 DEF Asleep
  <2> QED
      BY Zenon, <2>1, <2>2, RwLockAssumption, LockCallAssumption DEF ReadersWatched
<1>2. ASSUME NEW t \in Threads, Enter(t) \/ Again(t) PROVE ReadersWatched'
    BY Zenon, <1>2, AttemptShares DEF Enter, Again, At
<1>3. ASSUME NEW t \in Threads, Yield(t) PROVE ReadersWatched'
  <2>1. /\ \A u \in Threads : u # t => pc'[u] = pc[u]
        /\ pc[t] = "yield" /\ UNCHANGED <<status, lock>>
      BY Zenon, <1>3 DEF RwInv, RwTypeOK, Yield, At, Goto, sched_yield, Blocked, Statuses
  <2>2. /\ \A u \in Threads : Asleep(u)' => Asleep(u)
        /\ \A w \in Threads : pc[w] = "wake" => pc'[w] = "wake"
      BY Zenon, <2>1 DEF Asleep
  <2> QED
      BY Zenon, <2>1, <2>2, RwLockAssumption, LockCallAssumption DEF ReadersWatched
<1>4. ASSUME NEW t \in Threads, UnlockRead(t) PROVE ReadersWatched'
  <2>1. /\ \A u \in Threads : u # t => pc'[u] = pc[u]
        /\ pc[t] = "cs" /\ pc'[t] \notin Waiting /\ UNCHANGED status /\ t \notin Writers
      BY Zenon, <1>4 DEF RwInv, RwTypeOK, UnlockRead, At, Goto
  <2>2. /\ \A u \in Threads : Asleep(u)' => Asleep(u)
        /\ \A w \in Threads : pc[w] = "wake" => pc'[w] = "wake"
      BY Zenon, <2>1 DEF Asleep
  <2>3. t \in Holders
      BY Zenon, <2>1 DEF Holders
  <2>4. lock # RDWR_LOCK_WRITE
      BY Zenon, <2>1, <2>3 DEF RwInv, WordExact
  <2> QED
      BY Zenon, <2>2, <2>4, RwLockAssumption, LockCallAssumption DEF ReadersWatched
<1>5. ASSUME NEW t \in Threads, UnlockWrite(t) PROVE ReadersWatched'
    BY Zenon, <1>5 DEF RwInv, RwTypeOK, UnlockWrite, At, Goto, ReadersWatched
<1>6. ASSUME NEW t \in Threads, RwUnlockWake(t) PROVE ReadersWatched'
  <2>1. /\ \A u \in Threads : u # t => pc'[u] = pc[u]
        /\ pc[t] = "wake" /\ pc'[t] = "idle" /\ UNCHANGED lock
        /\ \A u \in Threads : status'[u] = IF u \in RwWoken(t) THEN "RUNNABLE" ELSE status[u]
      BY Zenon, <1>6 DEF RwInv, RwTypeOK, RwUnlockWake, At, Goto, wake_up_all, Blocked, Statuses
  <2>2. \A u \in Threads : Asleep(u)' => Asleep(u) /\ u \notin RwWoken(t)
      BY Zenon, <2>1 DEF Asleep
  <2>3. CASE t \in Writers
    <3>1. \A u \in Threads : Asleep(u) => u \in RwWoken(t)
        BY Zenon, <2>3 DEF Asleep, RwWoken, RwInv, RwListExact
    <3> QED
        BY Zenon, <2>2, <3>1 DEF ReadersWatched
  <2>4. CASE t \notin Writers
      BY Zenon, <2>1, <2>2, <2>4, RwLockAssumption, LockCallAssumption DEF ReadersWatched
  <2> QED
      BY Zenon, <2>3, <2>4
<1>7. ASSUME NEW t \in Threads, RwSignalStep(t) PROVE ReadersWatched'
  <2>1. UNCHANGED <<lock, pc>>
      BY Zenon, <1>7 DEF RwSignalStep, Signal, SignalLook, SignalWake
  <2>2. \A u \in Threads : Asleep(u)' => Asleep(u)
      BY Zenon, <1>7, <2>1 DEF RwInv, RwTypeOK, RwSignalStep, Signal, SignalLook, SignalWake, thread_wake_up, Asleep, Blocked, Statuses
  <2> QED
      BY Zenon, <2>1, <2>2 DEF ReadersWatched
<1>8. CASE UNCHANGED rwVars
    BY Zenon, <1>8 DEF rwVars, ReadersWatched, Asleep
<1> QED
    BY Zenon, <1>1, <1>2, <1>3, <1>4, <1>5, <1>6, <1>7, <1>8 DEF RwNext, RwStep

\* Unless there are as many readers as the count can hold, a reader sleeps in
\* rw_lock_read while the lock could be read only until the writer that left
\* has woken the list, although a reader that leaves wakes one thread at most.
THEOREM SharedReading ==
    ASSUME IsFiniteSet(Threads)
    PROVE  FewReaders /\ RwSpec => []ReadersShare
<1> SUFFICES ASSUME FewReaders PROVE RwSpec => []ReadersShare
    BY Zenon DEF FewReaders
<1>1. RwInit => ReadersWatched
    BY Zenon DEF RwInit, CallInit, ReadersWatched, Asleep
<1>2. RwInv /\ ReadersWatched /\ [RwNext]_rwVars => ReadersWatched'
    BY Zenon, ReadersWatchedStep
<1>3. RwInv /\ ReadersWatched => ReadersShare
    BY RwLockAssumption, LockCallAssumption DEF RwInv, RwTypeOK, SleepExact, ReadersWatched, ReadersShare, Asleep, Waiting, CanRead
<1>4. RwSpec => []RwInv
    BY Zenon, RwInvariance
<1> QED
    BY <1>1, <1>2, <1>3, <1>4, PTL DEF RwSpec

-----------------------------------------------------------------------------
(* The rwlock implements a lock.                                           *)

\* What a step of one thread does to the mapped state.
LEMMA RwMapped ==
    ASSUME RwInv, NEW t \in Threads, NEW p \in RwPoints, pc' = [pc EXCEPT ![t] = p]
    PROVE  /\ pc'[t] = p
           /\ \A u \in Threads \ {t} : RwWant(u)' = RwWant(u) /\ RwHold(u)' = RwHold(u)
<1>1. pc'[t] = p /\ \A u \in Threads \ {t} : pc'[u] = pc[u]
    BY Zenon DEF RwInv, RwTypeOK
<1> QED
    BY Zenon, <1>1 DEF RwWant, RwHold, Mode

\* A try that succeeds is a grant in the caller's mode.
LEMMA RwTryGrants ==
    ASSUME IsFiniteSet(Threads), RwInv, NEW t \in Threads, pc[t] \notin {"cs", "wake"}, CanTake(t),
           pc' = [pc EXCEPT ![t] = "cs"]
    PROVE  RwLS!LSNext
<1>1. "cs" \in RwPoints /\ Mode(t) \in RwLS!Modes
    BY Zenon DEF RwPoints, Mode, RwLS!Modes
<1>2. \A u \in Threads \ {t} : RwWant(u)' = RwWant(u) /\ RwHold(u)' = RwHold(u)
    BY Zenon, <1>1, RwMapped
<1>3. /\ RwWant(t) \in {"none", Mode(t)} /\ RwHold(t) = "none"
      /\ RwWant(t)' = "none" /\ RwHold(t)' = Mode(t)
    BY Zenon, <1>1, RwMapped DEF RwWant, RwHold, Mode
<1>4. \A u \in Threads \ {t} : RwHold(u) = "none" \/ (RwHold(u) = "read" /\ Mode(t) = "read")
    BY Zenon, TryCompatible DEF RwInv, Holders, RwHold, Mode
<1>5. RwLS!Grant(t, Mode(t))
    BY Zenon, <1>2, <1>3, <1>4 DEF RwLS!Grant, RwLS!Compatible
<1> QED
    BY Zenon, <1>1, <1>5 DEF RwLS!LSNext

\* The loop grants the lock, gives it up, or goes on waiting.
LEMMA AttemptMaps ==
    ASSUME IsFiniteSet(Threads), RwInv, NEW t \in Threads, NEW list, pc[t] \in {"enter", "again"}, Attempt(t, list)
    PROVE  RwLS!LSNext \/ UNCHANGED RwLS!lockVars
<1>1. CASE CanTake(t) /\ pc' = [pc EXCEPT ![t] = "cs"]
    BY Zenon, <1>1, RwTryGrants
<1>2. CASE pc' = [pc EXCEPT ![t] = "idle"]
  <2>1. "idle" \in RwPoints
      BY Zenon DEF RwPoints
  <2>2. \A u \in Threads \ {t} : RwWant(u)' = RwWant(u) /\ RwHold(u)' = RwHold(u)
      BY Zenon, <1>2, <2>1, RwMapped
  <2>3. RwWant(t) # "none" /\ RwWant(t)' = "none" /\ RwHold(t)' = RwHold(t)
    <3>1. pc'[t] = "idle"
        BY Zenon, <1>2, <2>1, RwMapped
    <3> QED
        BY Zenon, <3>1 DEF RwWant, RwHold, Mode
  <2>4. RwLS!GiveUp(t)
      BY Zenon, <2>2, <2>3 DEF RwLS!GiveUp
  <2> QED
      BY Zenon, <2>4 DEF RwLS!LSNext
<1>3. CASE pc' = [pc EXCEPT ![t] = "yield"]
  <2>1. "yield" \in RwPoints
      BY Zenon DEF RwPoints
  <2>2. \A u \in Threads \ {t} : RwWant(u)' = RwWant(u) /\ RwHold(u)' = RwHold(u)
      BY Zenon, <1>3, <2>1, RwMapped
  <2>3. pc'[t] = "yield"
      BY Zenon, <1>3, <2>1, RwMapped
  <2>4. RwWant(t)' = RwWant(t) /\ RwHold(t)' = RwHold(t)
      BY Zenon, <2>3 DEF RwWant, RwHold, Mode
  <2> QED
      BY Zenon, <2>2, <2>4 DEF RwLS!lockVars
<1> QED
    BY Zenon, <1>1, <1>2, <1>3 DEF Attempt, Goto

\* Every step of the rwlock is a step of the lock, or a stutter.
LEMMA RwStepMaps ==
    ASSUME IsFiniteSet(Threads)
    PROVE  RwInv /\ [RwNext]_rwVars => [RwLS!LSNext]_(RwLS!lockVars)
<1> SUFFICES ASSUME RwInv, [RwNext]_rwVars PROVE [RwLS!LSNext]_(RwLS!lockVars)
    BY Zenon
<1>1. ASSUME NEW t \in Threads, RwTry(t) PROVE RwLS!LSNext
  <2>1. pc[t] = "idle" /\ "enter" \in RwPoints /\ Mode(t) \in RwLS!Modes
      BY Zenon, <1>1 DEF RwTry, At, RwPoints, Mode, RwLS!Modes
  <2>2. CASE CanTake(t) /\ pc' = [pc EXCEPT ![t] = "cs"]
      BY Zenon, <2>1, <2>2, RwTryGrants
  <2>3. CASE pc' = [pc EXCEPT ![t] = "enter"]
    <3>1. \A u \in Threads \ {t} : RwWant(u)' = RwWant(u) /\ RwHold(u)' = RwHold(u)
        BY Zenon, <2>1, <2>3, RwMapped
    <3>2. RwWant(t) = "none" /\ RwHold(t) = "none" /\ RwWant(t)' = Mode(t) /\ RwHold(t)' = "none"
        BY Zenon, <2>1, <2>3, RwMapped DEF RwWant, RwHold, Mode
    <3>3. RwLS!Ask(t, Mode(t))
        BY Zenon, <3>1, <3>2 DEF RwLS!Ask
    <3> QED
        BY Zenon, <2>1, <3>3 DEF RwLS!LSNext
  <2> QED
      BY Zenon, <1>1, <2>2, <2>3 DEF RwTry, Goto
<1>2. ASSUME NEW t \in Threads, Enter(t) \/ Again(t)
      PROVE  RwLS!LSNext \/ UNCHANGED RwLS!lockVars
    BY <1>2, AttemptMaps DEF Enter, Again, At
<1>3. ASSUME NEW t \in Threads, Yield(t) \/ RwUnlockWake(t) PROVE UNCHANGED RwLS!lockVars
  <2>1. PICK p \in {"again", "idle"} :
            pc' = [pc EXCEPT ![t] = p] /\ pc[t] = IF p = "again" THEN "yield" ELSE "wake"
      BY Zenon, <1>3 DEF Yield, RwUnlockWake, Goto, At
  <2>2. p \in RwPoints
      BY Zenon DEF RwPoints
  <2>3. \A u \in Threads \ {t} : RwWant(u)' = RwWant(u) /\ RwHold(u)' = RwHold(u)
      BY Zenon, <2>1, <2>2, RwMapped
  <2>4. pc'[t] = p
      BY Zenon, <2>1, <2>2, RwMapped
  <2>5. RwWant(t)' = RwWant(t) /\ RwHold(t)' = RwHold(t)
      BY Zenon, <2>1, <2>4 DEF RwWant, RwHold, Mode
  <2> QED
      BY Zenon, <2>3, <2>5 DEF RwLS!lockVars
<1>4. ASSUME NEW t \in Threads, UnlockRead(t) \/ UnlockWrite(t) PROVE RwLS!LSNext
  <2>1. PICK p \in {"wake", "idle"} : pc' = [pc EXCEPT ![t] = p] /\ pc[t] = "cs"
      BY Zenon, <1>4 DEF UnlockRead, UnlockWrite, Goto, At
  <2>2. p \in RwPoints
      BY Zenon DEF RwPoints
  <2>3. \A u \in Threads \ {t} : RwWant(u)' = RwWant(u) /\ RwHold(u)' = RwHold(u)
      BY Zenon, <2>1, <2>2, RwMapped
  <2>4. pc'[t] = p
      BY Zenon, <2>1, <2>2, RwMapped
  <2>5. RwWant(t)' = RwWant(t) /\ RwHold(t) # "none" /\ RwHold(t)' = "none"
      BY Zenon, <2>1, <2>4 DEF RwWant, RwHold, Mode
  <2>6. RwLS!Release(t)
      BY Zenon, <2>3, <2>5 DEF RwLS!Release
  <2> QED
      BY Zenon, <2>6 DEF RwLS!LSNext
<1>5. ASSUME NEW t \in Threads, RwSignalStep(t) PROVE UNCHANGED RwLS!lockVars
    BY Zenon, <1>5 DEF RwSignalStep, Signal, SignalLook, SignalWake, RwLS!lockVars, RwWant, RwHold
<1>6. CASE UNCHANGED rwVars
    BY Zenon, <1>6 DEF rwVars, RwLS!lockVars, RwWant, RwHold
<1> QED
    BY Zenon, <1>1, <1>2, <1>3, <1>4, <1>5, <1>6 DEF RwNext, RwStep

\* rw_lock_read and rw_lock_write keep the contract of a lock: readers share,
\* a writer is alone, an interrupted caller gives up, only holders release.
THEOREM RwRefinement ==
    ASSUME IsFiniteSet(Threads)
    PROVE  RwSpec => RwImplementsLock
<1>1. RwInit => RwLS!LSInit
    BY Zenon DEF RwInit, CallInit, RwLS!LSInit, RwWant, RwHold
<1>2. RwInv /\ [RwNext]_rwVars => [RwLS!LSNext]_(RwLS!lockVars)
    BY Zenon, RwStepMaps
<1>3. RwSpec => []RwInv
    BY Zenon, RwInvariance
<1> QED
    BY <1>1, <1>2, <1>3, PTL DEF RwSpec, RwImplementsLock, RwLS!LSSpec
=============================================================================
