----------------------------- MODULE PipeProofs -----------------------------
(***************************************************************************)
(* The pipe is an intact stream, its small writes are not interleaved and  *)
(* no sleeper is stranded: for any number of readers, writers, signals and *)
(* calls, and any sizes.                                                   *)
(***************************************************************************)
EXTENDS Pipe, WaitListProofs, SequenceTheorems

-----------------------------------------------------------------------------
(* The inductive invariant.                                                *)

\* A byte is named by its writer and the number of the writer's call.
Bytes == Writers \X Nat

Types ==
    /\ status \in [Threads -> Statuses] /\ parked \in [Threads -> BOOLEAN]
    /\ buffer \in Seq(Bytes) /\ Len(buffer) <= BufSize
    /\ sent \in Seq(Bytes) /\ received \in Seq(Bytes)
    /\ eof \in BOOLEAN /\ broken \in BOOLEAN
    /\ queue \in [Ends -> Seq(Threads)]
    /\ mutex \in Threads \cup {Nobody}
    /\ pc \in [Threads -> Points]
    /\ moved \in [Threads -> Nat] /\ calls \in [Threads -> Nat]
    /\ signal_pending \subseteq Signalled
    /\ signalling \in [Threads -> {"none", "look", "wake", "done"}]
    /\ closing \in [Ends -> {"open", "marked", "closed"}]

\* Thread t is in a call of read or write.
InCall(t) == pc[t] \notin {"out", "done"}

\* It holds pipe_lock.
Holds(t) == pc[t] \in {"loop", "announce", "add", "queued", "leave", "eintr", "remove"}

\* Who holds pipe_lock, and that a call has something left to do.
LockInv ==
    \A t \in Threads :
        /\ Holds(t) <=> mutex = t
        /\ moved[t] <= LenOf(t)
        /\ InCall(t) => moved[t] < LenOf(t)

\* The points at which the token of a thread may be on a queue, and at which
\* it is if the thread has announced its sleep and was not woken.
MayQueue == {"queued", "yield", "relock", "remove"}
Queued == {"queued", "yield", "relock"}

\* A queue holds threads of its end that are waiting, each of them once.  A
\* thread with an announced sleep is on it, or not yet, or not any more; it
\* leaves the processor in sched_yield or by a reschedule.
OnQueue(e) ==
    /\ Distinct(queue[e])
    /\ \A t \in Members(queue[e]) : QueueOf(t) = e /\ pc[t] \in MayQueue

Announced(t) ==
    /\ status[t] # "RUNNABLE" => pc[t] \in Queued \cup {"add", "leave", "eintr"}
    /\ status[t] # "RUNNABLE" /\ pc[t] \in Queued => t \in Members(queue[QueueOf(t)])
    /\ parked[t] => status[t] # "RUNNABLE" /\ pc[t] \in {"relock", "queued", "leave", "eintr"}
    /\ pc[t] = "relock" /\ status[t] # "RUNNABLE" => parked[t]

QueueInv == (\A e \in Ends : OnQueue(e)) /\ \A t \in Threads : Announced(t)

\* An end that is closed has nobody in a call on it, and its flag says so.
CloseInv ==
    /\ eof <=> closing["write"] # "open"
    /\ broken <=> closing["read"] # "open"
    /\ \A t \in Threads : InCall(t) => closing[QueueOf(t)] = "open"

\* Thread t released pipe_lock to sleep and was not woken since.
Asleep(t) == status[t] # "RUNNABLE" /\ pc[t] \in {"yield", "relock"}

\* Why a sleeper's condition may hold: a writer has put bytes into the buffer
\* and will wake the readers before it lets go of pipe_lock, or an end was
\* closed and its queue will be woken.
SleepInv ==
    \A t \in Threads : Asleep(t) =>
        IF t \in Writers
        THEN is_full /\ (broken => closing["read"] = "marked")
        ELSE /\ buffer # <<>> => mutex \in Writers /\ pc[mutex] = "loop" /\ moved[mutex] > 0
             /\ eof => closing["write"] = "marked"

\* Thread t has looked at its condition once, with pipe_lock, and has been
\* told nothing since.
Looked(t) == pc[t] = "announce" \/ (pc[t] \in {"add", "queued"} /\ status[t] # "RUNNABLE")

\* The buffer is as it saw it: only an end may have been closed.
LookInv == \A t \in Threads : Looked(t) => IF t \in Writers THEN is_full ELSE buffer = <<>>

\* The steps inside the macro, before it ends the call.
Waiting(t) ==
    \/ Wait(t) \/ Announce(t) \/ QueueAdd(t) \/ Resched(t) \/ CondTrue(t) \/ Interrupt(t)
    \/ Leave(t) \/ Release(t) \/ Yield(t) \/ Relock(t) \/ QueueRemove(t)

\* A small write has written nothing while it is in progress, and bytes carry
\* numbers of calls that were made.
AtomicInv ==
    /\ \A i \in DOMAIN sent : sent[i][2] <= calls[sent[i][1]]
    /\ \A t \in Writers : LenOf(t) <= PIPE_BUF /\ InCall(t) =>
        moved[t] = 0 /\ \A i \in DOMAIN sent : sent[i] # <<t, calls[t]>>

IInv ==
    /\ Types /\ LockInv /\ QueueInv /\ CloseInv /\ SleepInv /\ LookInv /\ AtomicInv
    /\ StreamIntact /\ SmallWritesAtomic
-----------------------------------------------------------------------------
(* The queues.                                                             *)

\* The empty list.
LEMMA EmptyList == <<>> \in Seq(Threads) /\ Distinct(<<>>) /\ Members(<<>>) = {}
    BY DEF Distinct, Members

\* A list without members is the empty list.
LEMMA NoMembers ==
    ASSUME NEW q \in Seq(Threads), Members(q) = {}
    PROVE  q = <<>>
<1>1. 1 \notin DOMAIN q
    BY Zenon DEF Members
<1> QED
    BY <1>1

\* wait_queue_remove, of a token that may be off the queue already.
LEMMA Dequeue ==
    ASSUME NEW q \in Seq(Threads), NEW t \in Threads, Distinct(q),
           NEW r, r = IF t \in Members(q) THEN list_remove(q, t) ELSE q
    PROVE  r \in Seq(Threads) /\ Distinct(r) /\ Members(r) = Members(q) \ {t}
<1>1. CASE t \in Members(q)
    BY Zenon, <1>1, Remove
<1>2. CASE t \notin Members(q)
    BY Zenon, <1>2
<1> QED
    BY Zenon, <1>1, <1>2

\* wait_queue_wake_all: the queue is empty, and no thread of that end with its
\* token queued is asleep; the other end is not touched.
LEMMA WakeAll ==
    ASSUME Types, QueueInv, NEW e \in Ends, wake_all(e)
    PROVE  /\ status' \in [Threads -> Statuses] /\ parked' \in [Threads -> BOOLEAN]
           /\ queue' \in [Ends -> Seq(Threads)]
           /\ queue'[e] = <<>> /\ \A d \in Ends : d # e => queue'[d] = queue[d]
           /\ \A t \in Threads : \/ status'[t] = "RUNNABLE" /\ ~parked'[t]
                                 \/ status'[t] = status[t] /\ parked'[t] = parked[t]
           /\ \A t \in Threads : QueueOf(t) = e /\ pc[t] \in Queued => status'[t] = "RUNNABLE"
           /\ \A t \in Threads : QueueOf(t) # e => status'[t] = status[t] /\ parked'[t] = parked[t]
<1>1. /\ status' \in [Threads -> Statuses] /\ parked' \in [Threads -> BOOLEAN]
      /\ \A t \in Threads : IF t \in Members(queue[e])
                            THEN status'[t] = "RUNNABLE" /\ ~parked'[t]
                            ELSE status'[t] = status[t] /\ parked'[t] = parked[t]
    BY Zenon DEF Types, wake_all, wake_up_all, Statuses
<1>2. \A t \in Threads : /\ QueueOf(t) # e => t \notin Members(queue[e])
                         /\ QueueOf(t) = e /\ t \notin Members(queue[e]) /\ pc[t] \in Queued
                               => status[t] = "RUNNABLE"
    BY Zenon DEF QueueInv, OnQueue, Announced
<1>3. /\ queue' \in [Ends -> Seq(Threads)]
      /\ queue'[e] = <<>> /\ \A d \in Ends : d # e => queue'[d] = queue[d]
    BY Zenon, EmptyList DEF Types, wake_all
<1> QED
    BY Zenon, <1>1, <1>2, <1>3

\* The two ends.
LEMMA TwoEnds ==
    /\ "read" \in Ends /\ "write" \in Ends
    /\ \A t : QueueOf(t) \in Ends
    /\ \A t : QueueOf(t) = "write" <=> t \in Writers
    /\ \A e \in Ends : e # "write" => e = "read"
    BY Zenon DEF Ends, QueueOf

\* wait_queue_add.
LEMMA AddEffect ==
    ASSUME Types, QueueInv, NEW t \in Threads, QueueAdd(t)
    PROVE  /\ queue' \in [Ends -> Seq(Threads)]
           /\ \A e \in Ends : Distinct(queue'[e])
           /\ Members(queue'[QueueOf(t)]) = Members(queue[QueueOf(t)]) \cup {t}
           /\ \A e \in Ends : e # QueueOf(t) => queue'[e] = queue[e]
<1> DEFINE q == queue[QueueOf(t)]
           r == list_add_tail(q, t)
<1>1. pc[t] = "add" /\ queue' = [queue EXCEPT ![QueueOf(t)] = r]
    BY Zenon DEF QueueAdd, At
<1>2. t \notin Members(q)
    BY Zenon, <1>1, TwoEnds DEF QueueInv, OnQueue, MayQueue
<1>3. r \in Seq(Threads) /\ Distinct(r) /\ Members(r) = Members(q) \cup {t}
    BY <1>2, TwoEnds, AddTail DEF Types, QueueInv, OnQueue
<1> HIDE DEF r
<1>4. queue'[QueueOf(t)] = r /\ \A e \in Ends : e # QueueOf(t) => queue'[e] = queue[e]
    BY Zenon, <1>1, TwoEnds DEF Types
<1> QED
    BY <1>1, <1>3, <1>4, TwoEnds DEF Types, QueueInv, OnQueue

\* CondTrue, Interrupt and QueueRemove take the token off the queue.
LEMMA UnqueueEffect ==
    ASSUME Types, QueueInv, NEW t \in Threads, Unqueue(t)
    PROVE  /\ queue' \in [Ends -> Seq(Threads)]
           /\ \A e \in Ends : Distinct(queue'[e])
           /\ Members(queue'[QueueOf(t)]) = Members(queue[QueueOf(t)]) \ {t}
           /\ \A e \in Ends : e # QueueOf(t) => queue'[e] = queue[e]
<1> DEFINE q == queue[QueueOf(t)]
           r == IF t \in Members(q) THEN list_remove(q, t) ELSE q
<1>1. r \in Seq(Threads) /\ Distinct(r) /\ Members(r) = Members(q) \ {t}
    BY TwoEnds, Dequeue DEF Types, QueueInv, OnQueue
<1>2. queue' = [queue EXCEPT ![QueueOf(t)] = r]
    BY Zenon DEF Unqueue
<1> HIDE DEF r
<1>3. queue'[QueueOf(t)] = r /\ \A e \in Ends : e # QueueOf(t) => queue'[e] = queue[e]
    BY Zenon, <1>2, TwoEnds DEF Types
<1> QED
    BY Zenon, <1>1, <1>2, <1>3, TwoEnds DEF Types, QueueInv, OnQueue

-----------------------------------------------------------------------------
(* The bytes.                                                              *)

\* The bytes of one write, a sequence of equal bytes.
LEMMA EqualBytes ==
    ASSUME NEW S, NEW x \in S, NEW n \in Nat
    PROVE  /\ [i \in 1 .. n |-> x] \in Seq(S)
           /\ Len([i \in 1 .. n |-> x]) = n
    OBVIOUS

\* min(been_read, pos) bytes leave the buffer at its front.
LEMMA ReadEffect ==
    ASSUME Types, LockInv, NEW t \in Threads, ReadSome(t)
    PROVE  \E n \in Nat : /\ n > 0 /\ n <= LenOf(t) - moved[t] /\ n <= Len(buffer)
                          /\ received' = received \o SubSeq(buffer, 1, n)
                          /\ buffer' = SubSeq(buffer, n + 1, Len(buffer))
                          /\ moved' = [moved EXCEPT ![t] = moved[t] + n]
                          /\ buffer' \in Seq(Bytes) /\ Len(buffer') < Len(buffer)
                          /\ received' \in Seq(Bytes)
<1>1. Len(buffer) \in Nat /\ Len(buffer) > 0 /\ buffer \in Seq(Bytes) /\ received \in Seq(Bytes)
    BY DEF Types, ReadSome
<1>2. LenOf(t) - moved[t] \in Nat /\ LenOf(t) - moved[t] > 0
  <2>1. InCall(t) /\ moved[t] \in Nat /\ LenOf(t) \in Nat
      BY Zenon, PipeAssumption DEF Types, ReadSome, At, InCall
  <2>2. moved[t] < LenOf(t)
      BY Zenon, <2>1 DEF LockInv
  <2> QED
      BY <2>1, <2>2
<1>3. PICK n \in {LenOf(t) - moved[t], Len(buffer)} :
         /\ n <= LenOf(t) - moved[t] /\ n <= Len(buffer)
         /\ received' = received \o SubSeq(buffer, 1, n)
         /\ buffer' = SubSeq(buffer, n + 1, Len(buffer))
         /\ moved' = [moved EXCEPT ![t] = moved[t] + n]
    BY Zenon DEF ReadSome
<1>4. n \in Nat /\ n > 0
    BY Zenon, <1>1, <1>2, <1>3
<1>5. SubSeq(buffer, 1, n) \in Seq(Bytes)
    BY <1>1, <1>3, <1>4
<1>6. received' \in Seq(Bytes)
    BY <1>1, <1>3, <1>5
<1>7. buffer' \in Seq(Bytes) /\ Len(buffer') = Len(buffer) - n
    BY <1>1, <1>3, <1>4
<1>8. Len(buffer') < Len(buffer)
    BY <1>1, <1>4, <1>7
<1> QED
    BY Zenon, <1>3, <1>4, <1>6, <1>7, <1>8

\* min(len - written, available_space) bytes enter it at its end; a write of
\* at most PIPE_BUF bytes that may go on finds room for all it has left.
LEMMA WriteEffect ==
    ASSUME Types, LockInv, NEW t \in Threads, WriteSome(t)
    PROVE  \E n \in Nat : /\ n > 0 /\ n <= LenOf(t) - moved[t]
                          /\ LenOf(t) <= PIPE_BUF => n = LenOf(t) - moved[t]
                          /\ buffer' = buffer \o [i \in 1 .. n |-> <<t, calls[t]>>]
                          /\ sent' = sent \o [i \in 1 .. n |-> <<t, calls[t]>>]
                          /\ moved' = [moved EXCEPT ![t] = moved[t] + n]
                          /\ [i \in 1 .. n |-> <<t, calls[t]>>] \in Seq(Bytes)
                          /\ buffer' \in Seq(Bytes) /\ Len(buffer') <= BufSize
                          /\ sent' \in Seq(Bytes)
<1>1. /\ Len(buffer) \in Nat /\ Len(buffer) <= BufSize /\ BufSize \in Nat
      /\ buffer \in Seq(Bytes) /\ sent \in Seq(Bytes)
    BY PipeAssumption DEF Types
<1>2. LenOf(t) - moved[t] \in Nat /\ LenOf(t) - moved[t] > 0
  <2>1. InCall(t) /\ moved[t] \in Nat /\ LenOf(t) \in Nat
      BY Zenon, PipeAssumption DEF Types, WriteSome, At, InCall
  <2>2. moved[t] < LenOf(t)
      BY Zenon, <2>1 DEF LockInv
  <2> QED
      BY <2>1, <2>2
<1>3. <<t, calls[t]>> \in Bytes
    BY Zenon DEF Types, Bytes, WriteSome
<1>4. /\ available_space \in Nat /\ available_space > 0
      /\ LenOf(t) <= PIPE_BUF => available_space >= LenOf(t) - moved[t]
    BY <1>1, <1>2 DEF WriteSome, MustWait, is_full, available_space
<1>5. PICK n \in {LenOf(t) - moved[t], available_space} :
         /\ n <= LenOf(t) - moved[t] /\ n <= available_space
         /\ buffer' = buffer \o [i \in 1 .. n |-> <<t, calls[t]>>]
         /\ sent' = sent \o [i \in 1 .. n |-> <<t, calls[t]>>]
         /\ moved' = [moved EXCEPT ![t] = moved[t] + n]
    BY Zenon DEF WriteSome
<1>6. n \in Nat /\ n > 0 /\ (LenOf(t) <= PIPE_BUF => n = LenOf(t) - moved[t])
    BY <1>2, <1>4, <1>5
<1> DEFINE bytes == [i \in 1 .. n |-> <<t, calls[t]>>]
<1>7. bytes \in Seq(Bytes) /\ Len(bytes) = n
    BY Zenon, <1>3, <1>6, EqualBytes
<1> HIDE DEF bytes
<1>8. sent' \in Seq(Bytes)
  <2>1. sent' = sent \o bytes
      BY Zenon, <1>5 DEF bytes
  <2> QED
      BY Zenon, <1>1, <1>7, <2>1, ConcatProperties
<1>9. buffer' \in Seq(Bytes) /\ Len(buffer') = Len(buffer) + n
  <2>1. buffer' = buffer \o bytes
      BY Zenon, <1>5 DEF bytes
  <2> QED
      BY Zenon, <1>1, <1>7, <2>1, ConcatProperties
<1>10. Len(buffer') <= BufSize
    BY <1>1, <1>5, <1>6, <1>9 DEF available_space
<1> QED
    BY Zenon, <1>5, <1>6, <1>7, <1>8, <1>9, <1>10 DEF bytes

-----------------------------------------------------------------------------
(* Every step keeps the invariant, conjunct by conjunct.                   *)

LEMMA TypesStep ==
    ASSUME IInv, [Next]_pipeVars
    PROVE  Types'
<1> USE DEF IInv
<1>1. ASSUME NEW t \in Threads, Call(t) PROVE Types'
    BY <1>1 DEF Call, Goto, Types, Points, io, sigVars
<1>2. ASSUME NEW t \in Threads, ReadSome(t) PROVE Types'
  <2>1. PICK n \in Nat : /\ n <= LenOf(t) - moved[t]
                         /\ moved' = [moved EXCEPT ![t] = moved[t] + n]
                         /\ buffer' \in Seq(Bytes) /\ Len(buffer') < Len(buffer)
                         /\ received' \in Seq(Bytes)
      BY Zenon, <1>2, ReadEffect
  <2>2. /\ status' \in [Threads -> Statuses] /\ parked' \in [Threads -> BOOLEAN]
        /\ queue' \in [Ends -> Seq(Threads)]
      BY Zenon, <1>2, WakeAll, TwoEnds DEF ReadSome
  <2>3. moved' \in [Threads -> Nat]
      BY <2>1 DEF Types
  <2>4. Len(buffer) \in Nat /\ Len(buffer') \in Nat /\ Len(buffer) <= BufSize /\ BufSize \in Nat
      BY <2>1, PipeAssumption DEF Types
  <2>5. Len(buffer') <= BufSize
      BY <2>1, <2>4
  <2> QED
      BY Zenon, <1>2, <2>1, <2>2, <2>3, <2>5 DEF ReadSome, TurnOrReturn, Return, Goto, Types, Points, sigVars
<1>3. ASSUME NEW t \in Threads, ReadReturn(t) \/ WriteBroken(t) PROVE Types'
    BY Zenon, <1>3 DEF ReadReturn, WriteBroken, Return, Goto, Types, Points, io
<1>4. ASSUME NEW t \in Threads, WriteSome(t) PROVE Types'
  <2>1. PICK n \in Nat : /\ n <= LenOf(t) - moved[t]
                         /\ moved' = [moved EXCEPT ![t] = moved[t] + n]
                         /\ buffer' \in Seq(Bytes) /\ Len(buffer') <= BufSize
                         /\ sent' \in Seq(Bytes)
      BY Zenon, <1>4, WriteEffect
  <2>2. /\ status' \in [Threads -> Statuses] /\ parked' \in [Threads -> BOOLEAN]
        /\ queue' \in [Ends -> Seq(Threads)]
      BY Zenon, <1>4, WakeAll, TwoEnds DEF WriteSome, Types
  <2>3. moved' \in [Threads -> Nat]
      BY <2>1 DEF Types
  <2> QED
      BY Zenon, <1>4, <2>1, <2>2, <2>3 DEF WriteSome, TurnOrReturn, Return, Goto, Types, Points, sigVars
<1>5. ASSUME NEW t \in Threads, Wait(t) PROVE Types'
  <2>1. /\ status' \in [Threads -> Statuses] /\ parked' \in [Threads -> BOOLEAN]
        /\ queue' \in [Ends -> Seq(Threads)]
      BY Zenon, <1>5, WakeAll, TwoEnds DEF Wait, Types
  <2> QED
      BY Zenon, <1>5, <2>1 DEF Wait, Goto, Types, Points, io, sigVars
<1>6. ASSUME NEW t \in Threads, CondTrue(t) \/ Interrupt(t) \/ QueueAdd(t) \/ QueueRemove(t) PROVE Types'
  <2>1. queue' \in [Ends -> Seq(Threads)]
      BY Zenon, <1>6, UnqueueEffect, AddEffect DEF CondTrue, Interrupt, QueueRemove
  <2> QED
      BY Zenon, <1>6, <2>1 DEF CondTrue, Interrupt, QueueAdd, QueueRemove, Goto, Types, Points, io, sigVars
<1>7. ASSUME NEW t \in Threads, Release(t) \/ Yield(t) \/ Relock(t) \/ Resched(t) PROVE Types'
    BY Zenon, <1>7 DEF Release, Yield, Relock, Resched, sched_yield, Goto, Types, Points, io, sigVars
<1>8. ASSUME NEW t \in Threads, Announce(t) \/ Leave(t) \/ LeaveInterrupted(t) PROVE Types'
    BY Zenon, <1>8 DEF Announce, Leave, LeaveInterrupted, Return, set_current_state, Goto, Types, Points,
                       Statuses, Blocked, io, sigVars
<1>9. ASSUME NEW t \in Threads, SignalStep(t) PROVE Types'
    BY Zenon, <1>9 DEF SignalStep, Signal, SignalLook, SignalWake, thread_wake_up, Types, Statuses, io
<1>10. ASSUME NEW e \in Ends, CloseMark(e) PROVE Types'
    BY Zenon, <1>10 DEF CloseMark, Types, sigVars
<1>11. ASSUME NEW e \in Ends, CloseWake(e) PROVE Types'
  <2>1. /\ status' \in [Threads -> Statuses] /\ parked' \in [Threads -> BOOLEAN]
        /\ queue' \in [Ends -> Seq(Threads)]
      BY Zenon, <1>11, WakeAll, TwoEnds DEF CloseWake
  <2> QED
      BY Zenon, <1>11, <2>1 DEF CloseWake, Types, io, sigVars
<1>12. CASE UNCHANGED pipeVars
    BY Zenon, <1>12 DEF pipeVars, Types
<1> QED
    BY Zenon, <1>1, <1>2, <1>3, <1>4, <1>5, <1>6, <1>7, <1>8, <1>9, <1>10, <1>11, <1>12
       DEF Next, ThreadStep, CloseStep

\* Inside the macro a thread is in its call, and moves alone.
LEMMA WaitingMoves ==
    ASSUME Types, NEW t \in Threads, Waiting(t)
    PROVE  /\ InCall(t) /\ InCall(t)' /\ UNCHANGED <<moved, calls, sent>>
           /\ \A u \in Threads \ {t} : pc'[u] = pc[u]
<1>1. pc \in [Threads -> Points]
    BY Zenon DEF Types
<1> QED
    BY Zenon, <1>1 DEF Waiting, Wait, Announce, QueueAdd, Resched, CondTrue, Interrupt, Leave, Release, Yield,
                       Relock, QueueRemove, At, Goto, InCall

\* pipe_lock has one holder, and a call that goes on has bytes left to move.
LEMMA LockStep ==
    ASSUME IInv, [Next]_pipeVars
    PROVE  LockInv'
<1> USE DEF IInv
<1>0. /\ \A t \in Threads : LenOf(t) \in Nat \ {0} /\ t # Nobody
      /\ moved \in [Threads -> Nat] /\ pc \in [Threads -> Points] /\ mutex \in Threads \cup {Nobody}
    BY Zenon, PipeAssumption DEF Types
<1>1. ASSUME NEW t \in Threads, Call(t) PROVE LockInv'
    BY <1>0, <1>1 DEF Call, At, Goto, LockInv, InCall, Holds
<1>2. ASSUME NEW t \in Threads, NEW n \in Nat, n <= LenOf(t) - moved[t], At(t, "loop"),
             moved' = [moved EXCEPT ![t] = moved[t] + n], TurnOrReturn(t)
      PROVE  LockInv'
  <2>1. /\ moved'[t] \in Nat /\ moved'[t] <= LenOf(t)
        /\ \A u \in Threads \ {t} : moved'[u] = moved[u]
      BY <1>0, <1>2
  <2> QED
      BY <1>0, <1>2, <2>1 DEF At, TurnOrReturn, Return, Goto, LockInv, InCall, Holds
<1>3. ASSUME NEW t \in Threads, ReadSome(t) \/ WriteSome(t) PROVE LockInv'
    BY Zenon, <1>2, <1>3, ReadEffect, WriteEffect DEF ReadSome, WriteSome
<1>4. ASSUME NEW t \in Threads, ReadReturn(t) \/ WriteBroken(t) \/ LeaveInterrupted(t) PROVE LockInv'
    BY Zenon, <1>0, <1>4 DEF ReadReturn, WriteBroken, LeaveInterrupted, Return, At, Goto, LockInv, InCall, Holds
<1>5. ASSUME NEW t \in Threads, Waiting(t) PROVE LockInv'
  <2>1. CASE Release(t)
      BY Zenon, <1>0, <2>1 DEF Release, At, Goto, LockInv, InCall, Holds
  <2>2. CASE Relock(t)
      BY Zenon, <1>0, <2>2 DEF Relock, At, Goto, LockInv, InCall, Holds
  <2>3. CASE ~Release(t) /\ ~Relock(t)
    <3>1. /\ UNCHANGED <<mutex, moved>> /\ \A u \in Threads \ {t} : pc'[u] = pc[u]
          /\ InCall(t) /\ (Holds(t)' <=> Holds(t))
        BY Zenon, <1>0, <1>5, <2>3 DEF Waiting, Wait, Announce, QueueAdd, CondTrue, Interrupt, Leave, Yield,
                                       QueueRemove, Resched, At, Goto, InCall, Holds
    <3> QED
        BY Zenon, <3>1 DEF LockInv, InCall, Holds
  <2> QED
      BY Zenon, <2>1, <2>2, <2>3
<1>6. ASSUME NEW t \in Threads, SignalStep(t) PROVE LockInv'
    BY Zenon, <1>6 DEF SignalStep, Signal, SignalLook, SignalWake, LockInv, InCall, Holds
<1>7. ASSUME NEW e \in Ends, CloseStep(e) PROVE LockInv'
    BY Zenon, <1>7 DEF CloseStep, CloseMark, CloseWake, LockInv, InCall, Holds
<1>8. CASE UNCHANGED pipeVars
    BY Zenon, <1>8 DEF pipeVars, LockInv, InCall, Holds
<1> QED
    BY Zenon, <1>1, <1>3, <1>4, <1>5, <1>6, <1>7, <1>8 DEF Next, ThreadStep, Waiting

\* The queues hold the waiting threads of their ends.
LEMMA QueueStep ==
    ASSUME IInv, [Next]_pipeVars
    PROVE  QueueInv'
<1> USE DEF IInv
<1>0. /\ pc \in [Threads -> Points] /\ status \in [Threads -> Statuses]
      /\ parked \in [Threads -> BOOLEAN] /\ queue \in [Ends -> Seq(Threads)]
    BY Zenon DEF Types
<1>a. \A e \in Ends : \A u \in Members(queue[e]) : u \in Threads
    BY <1>0 DEF Members
<1>b. \A u \in Threads : pc[u] \in {"out", "loop", "announce"} =>
         /\ status[u] = "RUNNABLE" /\ ~parked[u]
         /\ \A e \in Ends : u \notin Members(queue[e])
    BY Zenon DEF QueueInv, OnQueue, Announced, Queued, MayQueue
<1>1. ASSUME \A u \in Threads : pc'[u] = pc[u] \/ pc[u] \in {"out", "loop"},
             UNCHANGED <<status, parked, queue>>
      PROVE  QueueInv'
  <2>1. ASSUME NEW e \in Ends PROVE OnQueue(e)'
      BY Zenon, <1>1, <1>a, <1>b DEF QueueInv, OnQueue
  <2>2. ASSUME NEW u \in Threads PROVE Announced(u)'
      BY Zenon, <1>1, <1>b DEF QueueInv, Announced
  <2> QED
      BY Zenon, <2>1, <2>2 DEF QueueInv
<1>2. ASSUME \A u \in Threads : pc'[u] = pc[u] \/ pc[u] \in {"out", "loop"},
             NEW d \in Ends, wake_all(d)
      PROVE  QueueInv'
  <2>0. /\ queue'[d] = <<>> /\ \A e \in Ends : e # d => queue'[e] = queue[e]
        /\ \A u \in Threads : \/ status'[u] = "RUNNABLE" /\ ~parked'[u]
                              \/ status'[u] = status[u] /\ parked'[u] = parked[u]
        /\ \A u \in Threads : QueueOf(u) = d /\ pc[u] \in Queued => status'[u] = "RUNNABLE"
      BY Zenon, <1>2, WakeAll
  <2>1. ASSUME NEW e \in Ends PROVE OnQueue(e)'
    <3>1. CASE e = d
        BY Zenon, <2>0, <3>1, EmptyList DEF OnQueue
    <3>2. CASE e # d
        BY Zenon, <1>2, <1>a, <1>b, <2>0, <3>2 DEF QueueInv, OnQueue
    <3> QED
        BY Zenon, <3>1, <3>2
  <2>2. ASSUME NEW u \in Threads PROVE Announced(u)'
    <3>1. CASE status'[u] = "RUNNABLE" /\ ~parked'[u]
        BY Zenon, <3>1 DEF Announced
    <3>2. CASE status'[u] = status[u] /\ parked'[u] = parked[u] /\ pc'[u] # pc[u]
        BY Zenon, <1>2, <1>b, <3>2 DEF Announced
    <3>3. CASE status'[u] = status[u] /\ parked'[u] = parked[u] /\ pc'[u] = pc[u]
        BY Zenon, <2>0, <3>3, TwoEnds DEF QueueInv, Announced
    <3> QED
        BY Zenon, <2>0, <3>1, <3>2, <3>3
  <2> QED
      BY Zenon, <2>1, <2>2 DEF QueueInv
<1>3. ASSUME NEW t \in Threads, Call(t) \/ ReadReturn(t) \/ WriteBroken(t) PROVE QueueInv'
    BY Zenon, <1>0, <1>1, <1>3 DEF Call, ReadReturn, WriteBroken, Return, At, Goto
<1>4. ASSUME NEW t \in Threads, At(t, "loop"), TurnOrReturn(t) \/ Goto(t, "announce")
      PROVE  \A u \in Threads : pc'[u] = pc[u] \/ pc[u] \in {"out", "loop"}
    BY Zenon, <1>0, <1>4 DEF TurnOrReturn, Return, Goto, At
<1>5. ASSUME NEW t \in Threads, ReadSome(t) \/ WriteSome(t) \/ Wait(t) PROVE QueueInv'
  <2>1. At(t, "loop") /\ (TurnOrReturn(t) \/ Goto(t, "announce"))
      BY Zenon, <1>5 DEF ReadSome, WriteSome, Wait
  <2>2. (\E e \in Ends : wake_all(e)) \/ UNCHANGED <<status, parked, queue>>
      BY Zenon, <1>5, TwoEnds DEF ReadSome, WriteSome, Wait
  <2> QED
      BY Zenon, <1>1, <1>2, <1>4, <2>1, <2>2
<1>6. ASSUME NEW t \in Threads, ~parked[t], parked'[t] => pc'[t] \in {"relock", "queued", "leave", "eintr"},
             \A u \in Threads \ {t} : pc'[u] = pc[u] /\ status'[u] = status[u] /\ parked'[u] = parked[u],
             UNCHANGED queue,
             pc[t] \in MayQueue => pc'[t] \in MayQueue,
             status'[t] # "RUNNABLE" => pc'[t] \in Queued \cup {"add", "leave", "eintr"},
             status'[t] # "RUNNABLE" /\ pc'[t] \in Queued => status[t] # "RUNNABLE" /\ pc[t] \in Queued,
             parked'[t] => status'[t] # "RUNNABLE",
             pc'[t] = "relock" /\ status'[t] # "RUNNABLE" => parked'[t]
      PROVE  QueueInv'
  <2>1. ASSUME NEW e \in Ends PROVE OnQueue(e)'
      BY Zenon, <1>6, <1>a DEF QueueInv, OnQueue
  <2>2. ASSUME NEW u \in Threads PROVE Announced(u)'
    <3>1. CASE u = t
        BY Zenon, <1>6, <3>1 DEF QueueInv, Announced
    <3>2. CASE u # t
        BY Zenon, <1>6, <3>2 DEF QueueInv, Announced
    <3> QED
        BY Zenon, <3>1, <3>2
  <2> QED
      BY Zenon, <2>1, <2>2 DEF QueueInv
<1>7. ASSUME NEW t \in Threads, Announce(t) PROVE QueueInv'
  <2>1. /\ pc[t] = "announce" /\ pc'[t] = "add" /\ ~parked[t] /\ ~parked'[t] /\ UNCHANGED queue
        /\ \A u \in Threads \ {t} : pc'[u] = pc[u] /\ status'[u] = status[u] /\ parked'[u] = parked[u]
      BY Zenon, <1>0, <1>7 DEF Announce, set_current_state, At, Goto
  <2> QED
      BY Zenon, <1>6, <2>1 DEF Queued, MayQueue
<1>8. ASSUME NEW t \in Threads, Leave(t) \/ LeaveInterrupted(t) PROVE QueueInv'
  <2>1. /\ pc[t] \in {"leave", "eintr"} /\ status'[t] = "RUNNABLE"
        /\ ~parked[t] /\ ~parked'[t] /\ UNCHANGED queue
        /\ \A u \in Threads \ {t} : pc'[u] = pc[u] /\ status'[u] = status[u] /\ parked'[u] = parked[u]
      BY Zenon, <1>0, <1>8 DEF Leave, LeaveInterrupted, Return, set_current_state, At, Goto
  <2> QED
      BY Zenon, <1>6, <2>1 DEF Queued, MayQueue
<1>9. ASSUME NEW t \in Threads, Release(t) PROVE QueueInv'
  <2>1. /\ pc[t] = "queued" /\ pc'[t] = "yield" /\ ~parked[t] /\ UNCHANGED <<queue, status, parked>>
        /\ \A u \in Threads \ {t} : pc'[u] = pc[u]
      BY Zenon, <1>0, <1>9 DEF Release, At, Goto
  <2> QED
      BY Zenon, <1>6, <2>1 DEF Queued, MayQueue
<1>10. ASSUME NEW t \in Threads, Yield(t) PROVE QueueInv'
  <2>1. /\ pc[t] = "yield" /\ pc'[t] = "relock" /\ ~parked[t] /\ UNCHANGED <<queue, status>>
        /\ parked'[t] <=> status[t] # "RUNNABLE"
        /\ \A u \in Threads \ {t} : pc'[u] = pc[u] /\ parked'[u] = parked[u]
      BY Zenon, <1>0, <1>10 DEF Yield, sched_yield, At, Goto
  <2> QED
      BY Zenon, <1>6, <2>1 DEF Queued, MayQueue
<1>11. ASSUME NEW t \in Threads, Resched(t) PROVE QueueInv'
  <2>1. /\ pc[t] \in {"queued", "leave", "eintr"} /\ ~parked[t] /\ status[t] # "RUNNABLE"
        /\ UNCHANGED <<queue, status, pc>>
        /\ \A u \in Threads \ {t} : parked'[u] = parked[u]
      BY Zenon, <1>0, <1>11 DEF Resched, sched_yield, At
  <2> QED
      BY Zenon, <1>6, <2>1 DEF Queued, MayQueue
<1>12. ASSUME NEW t \in Threads, Relock(t) PROVE QueueInv'
  <2>1. /\ pc[t] = "relock" /\ pc'[t] = "remove" /\ ~parked[t] /\ UNCHANGED <<queue, status, parked>>
        /\ \A u \in Threads \ {t} : pc'[u] = pc[u]
      BY Zenon, <1>0, <1>12 DEF Relock, At, Goto
  <2>2. status[t] = "RUNNABLE"
      BY Zenon, <2>1 DEF QueueInv, Announced
  <2> QED
      BY Zenon, <1>6, <2>1, <2>2 DEF Queued, MayQueue
<1>13. ASSUME NEW t \in Threads, QueueAdd(t) PROVE QueueInv'
  <2>0. /\ \A e \in Ends : Distinct(queue'[e])
        /\ Members(queue'[QueueOf(t)]) = Members(queue[QueueOf(t)]) \cup {t}
        /\ \A e \in Ends : e # QueueOf(t) => queue'[e] = queue[e]
      BY Zenon, <1>13, AddEffect
  <2>1. /\ pc[t] = "add" /\ pc'[t] = "queued" /\ ~parked[t] /\ UNCHANGED <<status, parked>>
        /\ \A u \in Threads \ {t} : pc'[u] = pc[u]
      BY Zenon, <1>0, <1>13 DEF QueueAdd, At, Goto
  <2>2. ASSUME NEW e \in Ends PROVE OnQueue(e)'
    <3>1. CASE e = QueueOf(t)
        BY Zenon, <1>a, <2>0, <2>1, <3>1 DEF QueueInv, OnQueue, MayQueue
    <3>2. CASE e # QueueOf(t)
      <4>1. t \notin Members(queue[e])
          BY Zenon, <3>2 DEF QueueInv, OnQueue
      <4> QED
          BY Zenon, <1>a, <2>0, <2>1, <3>2, <4>1 DEF QueueInv, OnQueue
    <3> QED
        BY Zenon, <3>1, <3>2
  <2>3. ASSUME NEW u \in Threads PROVE Announced(u)'
    <3>1. CASE u = t
        BY Zenon, <2>0, <2>1, <3>1 DEF Announced, Queued
    <3>2. CASE u # t
        BY Zenon, <2>0, <2>1, <3>2, TwoEnds DEF QueueInv, Announced
    <3> QED
        BY Zenon, <3>1, <3>2
  <2> QED
      BY Zenon, <2>2, <2>3 DEF QueueInv
<1>14. ASSUME NEW t \in Threads, CondTrue(t) \/ Interrupt(t) \/ QueueRemove(t) PROVE QueueInv'
  <2>0. /\ \A e \in Ends : Distinct(queue'[e])
        /\ Members(queue'[QueueOf(t)]) = Members(queue[QueueOf(t)]) \ {t}
        /\ \A e \in Ends : e # QueueOf(t) => queue'[e] = queue[e]
      BY Zenon, <1>14, UnqueueEffect DEF CondTrue, Interrupt, QueueRemove
  <2>1. /\ pc'[t] \in {"leave", "eintr", "add"} /\ ~parked[t] /\ UNCHANGED <<status, parked>>
        /\ \A u \in Threads \ {t} : pc'[u] = pc[u]
      BY Zenon, <1>0, <1>14 DEF CondTrue, Interrupt, QueueRemove, At, Goto
  <2>2. ASSUME NEW e \in Ends PROVE OnQueue(e)'
    <3>1. CASE e = QueueOf(t)
        BY Zenon, <1>a, <2>0, <2>1, <3>1 DEF QueueInv, OnQueue
    <3>2. CASE e # QueueOf(t)
      <4>1. t \notin Members(queue[e])
          BY Zenon, <3>2 DEF QueueInv, OnQueue
      <4> QED
          BY Zenon, <1>a, <2>0, <2>1, <3>2, <4>1 DEF QueueInv, OnQueue
    <3> QED
        BY Zenon, <3>1, <3>2
  <2>3. ASSUME NEW u \in Threads PROVE Announced(u)'
    <3>1. CASE u = t
        BY Zenon, <2>1, <3>1 DEF Announced, Queued
    <3>2. CASE u # t
        BY Zenon, <2>0, <2>1, <3>2, TwoEnds DEF QueueInv, Announced
    <3> QED
        BY Zenon, <3>1, <3>2
  <2> QED
      BY Zenon, <2>2, <2>3 DEF QueueInv
<1>15. ASSUME NEW t \in Threads, SignalStep(t) PROVE QueueInv'
  <2>1. CASE Signal(t) \/ SignalLook(t)
      BY Zenon, <1>1, <2>1 DEF Signal, SignalLook
  <2>2. CASE SignalWake(t)
    <3>1. /\ UNCHANGED <<pc, queue>> /\ status'[t] = "RUNNABLE" /\ ~parked'[t]
          /\ \A u \in Threads \ {t} : status'[u] = status[u] /\ parked'[u] = parked[u]
        BY Zenon, <1>0, <2>2 DEF SignalWake, thread_wake_up
    <3>2. ASSUME NEW u \in Threads PROVE Announced(u)'
      <4>1. CASE u = t
          BY Zenon, <3>1, <4>1 DEF Announced
      <4>2. CASE u # t
          BY Zenon, <3>1, <4>2 DEF QueueInv, Announced
      <4> QED
          BY Zenon, <4>1, <4>2
    <3> QED
        BY Zenon, <3>1, <3>2 DEF QueueInv, OnQueue
  <2> QED
      BY Zenon, <1>15, <2>1, <2>2 DEF SignalStep
<1>16. ASSUME NEW e \in Ends, CloseStep(e) PROVE QueueInv'
    BY Zenon, <1>1, <1>2, <1>16, TwoEnds DEF CloseStep, CloseMark, CloseWake
<1>17. CASE UNCHANGED pipeVars
    BY Zenon, <1>1, <1>17 DEF pipeVars
<1> QED
    BY Zenon, <1>3, <1>5, <1>7, <1>8, <1>9, <1>10, <1>11, <1>12, <1>13, <1>14, <1>15, <1>16, <1>17
       DEF Next, ThreadStep

\* Nobody enters a call on an end that is closed.
LEMMA CloseInvStep ==
    ASSUME IInv, [Next]_pipeVars
    PROVE  CloseInv'
<1> USE DEF IInv
<1>0. pc \in [Threads -> Points] /\ closing \in [Ends -> {"open", "marked", "closed"}]
    BY Zenon DEF Types
<1>1. ASSUME UNCHANGED <<eof, broken, closing>>,
             \A t \in Threads : InCall(t)' => InCall(t) \/ closing[QueueOf(t)] = "open"
      PROVE  CloseInv'
    BY Zenon, <1>1 DEF CloseInv
<1>2. ASSUME NEW t \in Threads, Call(t) PROVE CloseInv'
    BY Zenon, <1>0, <1>1, <1>2 DEF Call, io, Goto, InCall
<1>3. ASSUME NEW t \in Threads, ReadSome(t) \/ WriteSome(t) PROVE CloseInv'
    BY Zenon, <1>0, <1>1, <1>3 DEF ReadSome, WriteSome, TurnOrReturn, Return, At, Goto, InCall
<1>4. ASSUME NEW t \in Threads, ReadReturn(t) \/ WriteBroken(t) \/ LeaveInterrupted(t) PROVE CloseInv'
    BY Zenon, <1>0, <1>1, <1>4 DEF ReadReturn, WriteBroken, LeaveInterrupted, Return, io, At, Goto, InCall
<1>5. ASSUME NEW t \in Threads, Waiting(t) PROVE CloseInv'
  <2>1. UNCHANGED <<eof, broken, closing>>
      BY Zenon, <1>5 DEF Waiting, Wait, Announce, QueueAdd, Resched, CondTrue, Interrupt, Leave, Release, Yield,
                         Relock, QueueRemove, io
  <2> QED
      BY Zenon, <1>1, <1>5, <2>1, WaitingMoves DEF InCall
<1>6. ASSUME NEW t \in Threads, SignalStep(t) PROVE CloseInv'
    BY Zenon, <1>1, <1>6 DEF SignalStep, Signal, SignalLook, SignalWake, io, InCall
<1>7. ASSUME NEW e \in Ends, CloseMark(e) PROVE CloseInv'
  <2>1. /\ closing'[e] = "marked" /\ \A d \in Ends : d # e => closing'[d] = closing[d]
        /\ eof' = (eof \/ e = "write") /\ broken' = (broken \/ e = "read") /\ UNCHANGED pc
      BY Zenon, <1>0, <1>7 DEF CloseMark
  <2>2. \A t \in Threads : QueueOf(t) = e => ~InCall(t)
      BY Zenon, <1>7 DEF CloseMark, InCall
  <2>3. (eof' <=> closing'["write"] # "open") /\ (broken' <=> closing'["read"] # "open")
      BY Zenon, <2>1, TwoEnds DEF CloseInv
  <2> QED
      BY Zenon, <2>1, <2>2, <2>3, TwoEnds DEF CloseInv, InCall
<1>8. ASSUME NEW e \in Ends, CloseWake(e) PROVE CloseInv'
  <2>1. /\ closing[e] = "marked" /\ closing'[e] = "closed"
        /\ \A d \in Ends : d # e => closing'[d] = closing[d]
        /\ UNCHANGED <<eof, broken, pc>>
      BY Zenon, <1>0, <1>8 DEF CloseWake, io
  <2> QED
      BY Zenon, <2>1, TwoEnds DEF CloseInv, InCall
<1>9. CASE UNCHANGED pipeVars
    BY Zenon, <1>1, <1>9 DEF pipeVars, InCall
<1> QED
    BY Zenon, <1>2, <1>3, <1>4, <1>5, <1>6, <1>7, <1>8, <1>9 DEF Next, ThreadStep, Waiting, CloseStep

\* A sleeper's condition holds only while somebody is about to wake it.
LEMMA SleepStep ==
    ASSUME IInv, [Next]_pipeVars
    PROVE  SleepInv'
<1> USE DEF IInv
<1>0. /\ pc \in [Threads -> Points] /\ closing \in [Ends -> {"open", "marked", "closed"}]
      /\ status \in [Threads -> Statuses] /\ moved \in [Threads -> Nat]
      /\ Writers \subseteq Threads /\ Nobody \notin Threads
    BY Zenon, PipeAssumption DEF Types
<1>a. ASSUME mutex \notin Writers \/ pc[mutex] # "loop" \/ ~(moved[mutex] > 0)
      PROVE  \A u \in Threads : Asleep(u) /\ u \notin Writers => buffer = <<>>
    BY Zenon, <1>a DEF SleepInv
<1>1. ASSUME NEW t \in Threads, Call(t) PROVE SleepInv'
  <2>1. /\ UNCHANGED <<status, buffer, eof, broken, closing>> /\ mutex = Nobody
        /\ pc'[t] = "loop" /\ \A u \in Threads \ {t} : pc'[u] = pc[u]
      BY Zenon, <1>0, <1>1 DEF Call, Goto, io
  <2> QED
      BY Zenon, <1>0, <1>a, <2>1 DEF SleepInv, Asleep, is_full, available_space
<1>2. ASSUME NEW t \in Threads, ReadSome(t) PROVE SleepInv'
  <2>1. \A u \in Threads : /\ QueueOf(u) = "write" /\ pc[u] \in Queued => status'[u] = "RUNNABLE"
                           /\ QueueOf(u) # "write" => status'[u] = status[u]
      BY Zenon, <1>2, WakeAll, TwoEnds DEF ReadSome
  <2>2. /\ \A u \in Threads : u # t => pc'[u] = pc[u]
        /\ pc'[t] \in {"loop", "out"} /\ UNCHANGED <<eof, closing>>
        /\ mutex = t /\ t \notin Writers /\ buffer # <<>>
      BY Zenon, <1>0, <1>2 DEF ReadSome, At, TurnOrReturn, Return, Goto, LockInv, Holds
  <2>3. \A u \in Threads \ Writers : ~Asleep(u)
      BY Zenon, <1>a, <2>2
  <2>4. \A u \in Writers : ~Asleep(u)'
      BY Zenon, <1>0, <2>1, <2>2, TwoEnds DEF Asleep, Queued
  <2>5. \A u \in Threads \ Writers : ~Asleep(u)'
      BY Zenon, <2>1, <2>2, <2>3, TwoEnds DEF Asleep
  <2> QED
      BY Zenon, <2>4, <2>5 DEF SleepInv
<1>3. ASSUME NEW t \in Threads, ReadReturn(t) PROVE SleepInv'
  <2>1. /\ UNCHANGED <<status, buffer, eof, broken, closing>> /\ buffer = <<>>
        /\ pc'[t] \in {"out", "done"} /\ \A u \in Threads \ {t} : pc'[u] = pc[u]
      BY Zenon, <1>0, <1>3 DEF ReadReturn, Return, Goto, io
  <2> QED
      BY Zenon, <2>1 DEF SleepInv, Asleep, is_full, available_space
<1>4. ASSUME NEW t \in Threads, WriteBroken(t) PROVE SleepInv'
  <2>1. /\ UNCHANGED <<status, buffer, eof, broken, closing>> /\ broken
        /\ pc'[t] = "done" /\ \A u \in Threads \ {t} : pc'[u] = pc[u]
      BY Zenon, <1>0, <1>4 DEF WriteBroken, Return, Goto, io
  <2>2. \A u \in Threads \ Writers : ~Asleep(u)
      BY Zenon, <2>1, TwoEnds DEF CloseInv, Asleep, InCall
  <2> QED
      BY Zenon, <2>1, <2>2 DEF SleepInv, Asleep, is_full, available_space
<1>5. ASSUME NEW t \in Threads, WriteSome(t) PROVE SleepInv'
  <2>1. /\ \A u \in Threads : u # t => pc'[u] = pc[u]
        /\ pc'[t] \in {"loop", "out"} /\ UNCHANGED <<eof, closing>>
        /\ mutex = t /\ t \in Writers /\ ~is_full
      BY Zenon, <1>0, <1>5 DEF WriteSome, MustWait, At, TurnOrReturn, Return, Goto, LockInv, Holds
  <2>2. \A u \in Writers : ~Asleep(u)
      BY Zenon, <1>0, <2>1 DEF SleepInv
  <2>3. moved'[t] > 0
    <3>1. PICK n \in Nat : n > 0 /\ moved' = [moved EXCEPT ![t] = moved[t] + n]
        BY Zenon, <1>5, WriteEffect
    <3>2. moved'[t] = moved[t] + n /\ moved[t] \in Nat
        BY Zenon, <1>0, <3>1
    <3> QED
        BY <3>1, <3>2
  <2>4. CASE moved'[t] = LenOf(t)
    <3>1. \A u \in Threads : /\ QueueOf(u) = "read" /\ pc[u] \in Queued => status'[u] = "RUNNABLE"
                             /\ QueueOf(u) # "read" => status'[u] = status[u]
        BY <1>5, <2>4, WakeAll, TwoEnds DEF WriteSome
    <3> QED
        BY Zenon, <2>1, <2>2, <3>1, TwoEnds DEF SleepInv, Asleep, Queued
  <2>5. CASE moved'[t] # LenOf(t)
    <3>1. UNCHANGED <<status, pc, mutex>>
        BY Zenon, <1>5, <2>5 DEF WriteSome, TurnOrReturn
    <3>2. pc[t] = "loop"
        BY Zenon, <1>5 DEF WriteSome, At
    <3> QED
        BY Zenon, <2>1, <2>2, <2>3, <3>1, <3>2 DEF SleepInv, Asleep
  <2> QED
      BY Zenon, <2>4, <2>5
<1>6. ASSUME NEW t \in Threads, Wait(t) PROVE SleepInv'
  <2>1. /\ UNCHANGED <<buffer, eof, broken, closing, mutex>> /\ mutex = t
        /\ pc'[t] = "announce" /\ \A u \in Threads \ {t} : pc'[u] = pc[u]
      BY Zenon, <1>0, <1>6 DEF Wait, Goto, At, io, LockInv, Holds
  <2>2. \A u \in Threads \ {t} : Asleep(u)' => Asleep(u) /\ (u \notin Writers => buffer = <<>>)
    <3>1. CASE t \in Writers /\ moved[t] > 0
      <4>1. \A u \in Threads : /\ QueueOf(u) = "read" /\ pc[u] \in Queued => status'[u] = "RUNNABLE"
                               /\ QueueOf(u) # "read" => status'[u] = status[u]
        <5>1. wake_all("read")
            BY Zenon, <1>6, <3>1 DEF Wait
        <5> QED
            BY <5>1, WakeAll, TwoEnds
      <4> QED
          BY Zenon, <2>1, <4>1, TwoEnds DEF Asleep, Queued
    <3>2. CASE ~(t \in Writers /\ moved[t] > 0)
      <4>1. UNCHANGED status
          BY Zenon, <1>6, <3>2 DEF Wait
      <4> QED
          BY Zenon, <1>a, <2>1, <3>2, <4>1 DEF Asleep
    <3> QED
        BY Zenon, <3>1, <3>2
  <2> QED
      BY Zenon, <2>1, <2>2 DEF SleepInv, Asleep, is_full, available_space
<1>7. ASSUME NEW t \in Threads, \/ Announce(t) \/ QueueAdd(t) \/ CondTrue(t) \/ Interrupt(t)
                               \/ Leave(t) \/ LeaveInterrupted(t) \/ QueueRemove(t)
      PROVE  SleepInv'
  <2>1. /\ UNCHANGED <<buffer, eof, broken, closing>> /\ mutex = t /\ pc[t] # "loop"
        /\ pc'[t] \in {"add", "queued", "leave", "eintr", "loop", "out"}
        /\ \A u \in Threads \ {t} : pc'[u] = pc[u] /\ status'[u] = status[u]
      BY Zenon, <1>0, <1>7 DEF Announce, QueueAdd, CondTrue, Interrupt, Leave, LeaveInterrupted, QueueRemove,
                               Return, set_current_state, Goto, At, io, LockInv, Holds
  <2>2. \A u \in Threads : Asleep(u) /\ u \notin Writers => buffer = <<>>
      BY Zenon, <1>a, <2>1
  <2> QED
      BY Zenon, <2>1, <2>2 DEF SleepInv, Asleep, is_full, available_space
<1>8. ASSUME NEW t \in Threads, Release(t) PROVE SleepInv'
  <2>1. /\ UNCHANGED <<status, buffer, eof, broken, closing>> /\ mutex = t /\ pc[t] = "queued"
        /\ ~Cond(t) /\ \A u \in Threads \ {t} : pc'[u] = pc[u]
      BY Zenon, <1>0, <1>8 DEF Release, Goto, At, io, LockInv, Holds
  <2>2. \A u \in Threads : Asleep(u) /\ u \notin Writers => buffer = <<>>
      BY Zenon, <1>a, <2>1
  <2>3. IF t \in Writers THEN is_full /\ ~broken ELSE buffer = <<>> /\ ~eof
      BY Zenon, <2>1 DEF Cond
  <2> QED
      BY Zenon, <2>1, <2>2, <2>3 DEF SleepInv, Asleep, is_full, available_space
<1>r. ASSUME NEW t \in Threads, Resched(t) PROVE SleepInv'
    BY Zenon, <1>r DEF Resched, sched_yield, io, SleepInv, Asleep, is_full, available_space
<1>9. ASSUME NEW t \in Threads, Yield(t) PROVE SleepInv'
  <2>1. /\ UNCHANGED <<status, buffer, eof, broken, closing, mutex, moved>> /\ pc[t] = "yield"
        /\ pc'[t] = "relock" /\ \A u \in Threads \ {t} : pc'[u] = pc[u]
      BY Zenon, <1>0, <1>9 DEF Yield, sched_yield, Goto, At, io
  <2>2. mutex \in Writers /\ pc[mutex] = "loop" => mutex # t
      BY Zenon, <2>1
  <2> QED
      BY Zenon, <1>0, <2>1, <2>2 DEF SleepInv, Asleep, is_full, available_space
<1>10. ASSUME NEW t \in Threads, Relock(t) PROVE SleepInv'
  <2>1. /\ UNCHANGED <<status, buffer, eof, broken, closing>> /\ mutex = Nobody
        /\ pc'[t] = "remove" /\ \A u \in Threads \ {t} : pc'[u] = pc[u]
      BY Zenon, <1>0, <1>10 DEF Relock, Goto, io
  <2>2. \A u \in Threads : Asleep(u) /\ u \notin Writers => buffer = <<>>
      BY Zenon, <1>0, <1>a, <2>1
  <2> QED
      BY Zenon, <2>1, <2>2 DEF SleepInv, Asleep, is_full, available_space
<1>11. ASSUME NEW t \in Threads, SignalStep(t) PROVE SleepInv'
  <2>1. /\ UNCHANGED <<buffer, eof, broken, closing, mutex, moved, pc>>
        /\ \A u \in Threads : status'[u] = status[u] \/ status'[u] = "RUNNABLE"
      BY Zenon, <1>0, <1>11 DEF SignalStep, Signal, SignalLook, SignalWake, thread_wake_up, io
  <2> QED
      BY Zenon, <2>1 DEF SleepInv, Asleep, is_full, available_space
<1>12. ASSUME NEW e \in Ends, CloseMark(e) PROVE SleepInv'
  <2>1. /\ UNCHANGED <<status, buffer, mutex, moved, pc>>
        /\ closing'[e] = "marked" /\ \A d \in Ends : d # e => closing'[d] = closing[d]
        /\ eof' = (eof \/ e = "write") /\ broken' = (broken \/ e = "read")
      BY Zenon, <1>0, <1>12 DEF CloseMark
  <2> QED
      BY Zenon, <2>1, TwoEnds DEF SleepInv, Asleep, is_full, available_space
<1>13. ASSUME NEW e \in Ends, CloseWake(e) PROVE SleepInv'
  <2>1. /\ UNCHANGED <<buffer, eof, broken, mutex, moved, pc>>
        /\ \A d \in Ends : d # e => closing'[d] = closing[d]
      BY Zenon, <1>0, <1>13 DEF CloseWake, io
  <2>2. \A u \in Threads : /\ QueueOf(u) # e /\ pc[u] \in Queued => status'[u] = "RUNNABLE"
                           /\ QueueOf(u) = e => status'[u] = status[u]
    <3>1. PICK d \in Ends : wake_all(d) /\ d # e
        BY Zenon, <1>13, TwoEnds DEF CloseWake
    <3> QED
        BY <3>1, WakeAll, TwoEnds
  <2> QED
      BY Zenon, <2>1, <2>2, TwoEnds DEF SleepInv, Asleep, Queued, is_full, available_space
<1>14. CASE UNCHANGED pipeVars
    BY Zenon, <1>14 DEF pipeVars, SleepInv, Asleep, is_full, available_space
<1> QED
    BY Zenon, <1>1, <1>2, <1>3, <1>4, <1>5, <1>6, <1>7, <1>8, <1>r, <1>9, <1>10, <1>11, <1>12, <1>13, <1>14
       DEF Next, ThreadStep, CloseStep

\* Between its first and its second look at the condition a thread holds
\* pipe_lock, and the buffer is as it saw it.
LEMMA LookStep ==
    ASSUME IInv, [Next]_pipeVars
    PROVE  LookInv'
<1> USE DEF IInv
<1>0. pc \in [Threads -> Points] /\ status \in [Threads -> Statuses]
    BY Zenon DEF Types
<1>1. ASSUME \A u \in Threads : Looked(u)' => Looked(u) /\ UNCHANGED buffer
      PROVE  LookInv'
    BY Zenon, <1>1 DEF LookInv, is_full, available_space
<1>2. ASSUME NEW t \in Threads, ReadSome(t) \/ WriteSome(t) PROVE LookInv'
  <2>1. mutex = t /\ pc'[t] \in {"loop", "out"} /\ \A u \in Threads \ {t} : pc'[u] = pc[u]
      BY Zenon, <1>0, <1>2 DEF ReadSome, WriteSome, TurnOrReturn, Return, Goto, At, LockInv, Holds
  <2>2. \A u \in Threads \ {t} : pc[u] \notin {"announce", "add", "queued"}
      BY Zenon, <2>1 DEF LockInv, Holds
  <2> QED
      BY Zenon, <2>1, <2>2 DEF LookInv, Looked
<1>3. ASSUME NEW t \in Threads, Call(t) \/ ReadReturn(t) \/ WriteBroken(t) \/ LeaveInterrupted(t) PROVE LookInv'
    BY Zenon, <1>0, <1>1, <1>3 DEF Call, ReadReturn, WriteBroken, LeaveInterrupted, Return, set_current_state,
                                   Goto, io, Looked
<1>4. ASSUME NEW t \in Threads, Wait(t) PROVE LookInv'
  <2>1. /\ UNCHANGED buffer /\ mutex = t /\ ~Cond(t)
        /\ \A u \in Threads \ {t} : pc'[u] = pc[u]
      BY Zenon, <1>0, <1>4 DEF Wait, Goto, At, io, LockInv, Holds
  <2>2. \A u \in Threads \ {t} : pc[u] \notin {"announce", "add", "queued"}
      BY Zenon, <2>1 DEF LockInv, Holds
  <2>3. IF t \in Writers THEN is_full ELSE buffer = <<>>
      BY Zenon, <2>1 DEF Cond
  <2> QED
      BY Zenon, <2>1, <2>2, <2>3 DEF LookInv, Looked, is_full, available_space
<1>5. ASSUME NEW t \in Threads, \/ Announce(t) \/ QueueAdd(t) \/ CondTrue(t) \/ Interrupt(t) \/ Leave(t)
                               \/ Release(t) \/ Yield(t) \/ Resched(t)
      PROVE  LookInv'
    BY Zenon, <1>0, <1>1, <1>5 DEF Announce, QueueAdd, CondTrue, Interrupt, Leave, Release, Yield, Resched,
                                   sched_yield, set_current_state, Goto, At, io, Looked
<1>6. ASSUME NEW t \in Threads, Relock(t) \/ QueueRemove(t) PROVE LookInv'
  <2>1. status[t] = "RUNNABLE"
      BY Zenon, <1>6 DEF Relock, QueueRemove, At, QueueInv, Announced, Queued
  <2> QED
      BY Zenon, <1>0, <1>1, <1>6, <2>1 DEF Relock, QueueRemove, Goto, io, Looked
<1>7. ASSUME NEW t \in Threads, SignalStep(t) PROVE LookInv'
    BY Zenon, <1>0, <1>1, <1>7 DEF SignalStep, Signal, SignalLook, SignalWake, thread_wake_up, io, Looked
<1>8. ASSUME NEW e \in Ends, CloseStep(e) PROVE LookInv'
  <2>1. UNCHANGED <<pc, buffer>> /\ \A u \in Threads : status'[u] = status[u] \/ status'[u] = "RUNNABLE"
      BY Zenon, <1>8, WakeAll, TwoEnds DEF CloseStep, CloseMark, CloseWake, io
  <2> QED
      BY Zenon, <1>1, <2>1 DEF Looked
<1>9. CASE UNCHANGED pipeVars
    BY Zenon, <1>1, <1>9 DEF pipeVars, Looked
<1> QED
    BY Zenon, <1>2, <1>3, <1>4, <1>5, <1>6, <1>7, <1>8, <1>9 DEF Next, ThreadStep

\* The stream: what leaves the buffer at its front is appended to what was
\* received, what enters it at its end to what was sent.
LEMMA StreamStep ==
    ASSUME IInv, [Next]_pipeVars
    PROVE  StreamIntact'
<1> USE DEF IInv
<1>0. buffer \in Seq(Bytes) /\ received \in Seq(Bytes)
    BY Zenon DEF Types
<1>1. ASSUME NEW t \in Threads, ReadSome(t) PROVE StreamIntact'
  <2>1. PICK n \in Nat : /\ n > 0 /\ n <= Len(buffer)
                         /\ received' = received \o SubSeq(buffer, 1, n)
                         /\ buffer' = SubSeq(buffer, n + 1, Len(buffer))
                         /\ buffer' \in Seq(Bytes)
      BY Zenon, <1>1, ReadEffect
  <2>2. Len(buffer) \in Nat
      BY <1>0
  <2>3. SubSeq(buffer, 1, n) \o SubSeq(buffer, n + 1, Len(buffer)) = buffer
    <3>1. 1 \in 1 .. Len(buffer) + 1 /\ n \in 1 - 1 .. Len(buffer) /\ Len(buffer) \in n .. Len(buffer)
        BY <2>1, <2>2
    <3>2. SubSeq(buffer, 1, n) \o SubSeq(buffer, n + 1, Len(buffer)) = SubSeq(buffer, 1, Len(buffer))
        BY Zenon, <1>0, <3>1, ConcatAdjacentSubSeq
    <3> QED
        BY Zenon, <1>0, <3>2, SubSeqFull
  <2>4. SubSeq(buffer, 1, n) \in Seq(Bytes)
      BY <1>0, <2>1, <2>2
  <2>5. received' \o buffer' = received \o (SubSeq(buffer, 1, n) \o buffer')
    <3>1. \A u, v \in Seq(Bytes) : (received \o u) \o v = received \o (u \o v)
        BY <1>0, ConcatAssociative
    <3> QED
        BY Zenon, <2>1, <2>4, <3>1
  <2> QED
      BY Zenon, <1>1, <2>1, <2>3, <2>5 DEF ReadSome, StreamIntact
<1>2. ASSUME NEW t \in Threads, WriteSome(t) PROVE StreamIntact'
  <2>1. PICK n \in Nat : /\ buffer' = buffer \o [i \in 1 .. n |-> <<t, calls[t]>>]
                         /\ sent' = sent \o [i \in 1 .. n |-> <<t, calls[t]>>]
                         /\ [i \in 1 .. n |-> <<t, calls[t]>>] \in Seq(Bytes)
      BY Zenon, <1>2, WriteEffect
  <2>2. \A b \in Seq(Bytes) : (received \o buffer) \o b = received \o (buffer \o b)
      BY <1>0, ConcatAssociative
  <2>3. sent = received \o buffer /\ UNCHANGED received
      BY Zenon, <1>2 DEF StreamIntact, WriteSome
  <2> QED
      BY Zenon, <2>1, <2>2, <2>3 DEF StreamIntact
<1>3. ASSUME UNCHANGED <<buffer, sent, received>> PROVE StreamIntact'
    BY Zenon, <1>3 DEF StreamIntact
<1>4. ASSUME NEW t \in Threads, ThreadStep(t) PROVE StreamIntact'
    BY Zenon, <1>1, <1>2, <1>3, <1>4 DEF ThreadStep, Call, ReadReturn, WriteBroken, Wait, Announce, QueueAdd, CondTrue,
                                 Interrupt, Leave, LeaveInterrupted, Release, Yield, Relock, QueueRemove, io
<1>r. ASSUME NEW t \in Threads, Resched(t) PROVE StreamIntact'
    BY Zenon, <1>3, <1>r DEF Resched, io
<1>5. ASSUME NEW t \in Threads, SignalStep(t) PROVE StreamIntact'
    BY Zenon, <1>3, <1>5 DEF SignalStep, Signal, SignalLook, SignalWake, io
<1>6. ASSUME NEW e \in Ends, CloseStep(e) PROVE StreamIntact'
    BY Zenon, <1>3, <1>6 DEF CloseStep, CloseMark, CloseWake, io
<1>7. CASE UNCHANGED pipeVars
    BY Zenon, <1>3, <1>7 DEF pipeVars
<1> QED
    BY Zenon, <1>4, <1>r, <1>5, <1>6, <1>7 DEF Next

\* Bytes are not interleaved: a small write puts all its bytes in at once, and
\* there are none with its number before.
LEMMA AtomicStep ==
    ASSUME IInv, [Next]_pipeVars
    PROVE  AtomicInv' /\ SmallWritesAtomic'
<1> USE DEF IInv
<1>0. /\ pc \in [Threads -> Points] /\ moved \in [Threads -> Nat] /\ calls \in [Threads -> Nat]
      /\ Writers \subseteq Threads /\ sent \in Seq(Bytes)
    BY Zenon, PipeAssumption DEF Types
<1>a. \A i \in DOMAIN sent : /\ sent[i] = <<sent[i][1], sent[i][2]>>
                             /\ sent[i][1] \in Writers /\ sent[i][2] \in Nat
    BY <1>0 DEF Bytes
<1>1. ASSUME UNCHANGED <<sent, calls>>,
             \A t \in Writers : InCall(t)' => InCall(t) /\ moved'[t] = moved[t]
      PROVE  AtomicInv' /\ SmallWritesAtomic'
    BY <1>1 DEF AtomicInv, SmallWritesAtomic
<1>2. ASSUME NEW t \in Threads, Call(t) PROVE AtomicInv' /\ SmallWritesAtomic'
  <2>1. /\ UNCHANGED sent /\ moved'[t] = 0
        /\ \A u \in Threads \ {t} : pc'[u] = pc[u] /\ moved'[u] = moved[u] /\ calls'[u] = calls[u]
        /\ IF t \in Writers THEN calls'[t] = calls[t] + 1 ELSE calls'[t] = calls[t]
      BY Zenon, <1>0, <1>2 DEF Call, Goto
  <2>2. SmallWritesAtomic'
      BY <2>1 DEF SmallWritesAtomic
  <2>3. \A i \in DOMAIN sent : sent[i][2] <= calls'[sent[i][1]]
    <3> TAKE i \in DOMAIN sent
    <3>1. sent[i][1] \in Threads /\ sent[i][2] \in Nat /\ sent[i][2] <= calls[sent[i][1]]
        BY Zenon, <1>0, <1>a DEF AtomicInv
    <3>2. calls[sent[i][1]] \in Nat /\ (calls'[sent[i][1]] = calls[sent[i][1]] \/ calls'[sent[i][1]] = calls[sent[i][1]] + 1)
        BY Zenon, <1>0, <2>1, <3>1
    <3> QED
        BY <3>1, <3>2
  <2>4. t \in Writers => \A i \in DOMAIN sent : sent[i] # <<t, calls'[t]>>
    <3> SUFFICES ASSUME t \in Writers, NEW i \in DOMAIN sent, sent[i] = <<t, calls'[t]>>
                 PROVE  FALSE
        BY Zenon
    <3>1. calls'[t] <= calls[t] /\ calls[t] \in Nat /\ calls'[t] = calls[t] + 1
        BY <1>0, <2>1 DEF AtomicInv
    <3> QED
        BY <3>1
  <2>5. \A u \in Writers : LenOf(u) <= PIPE_BUF /\ InCall(u)' =>
           moved'[u] = 0 /\ \A i \in DOMAIN sent : sent[i] # <<u, calls'[u]>>
    <3> TAKE u \in Writers
    <3>1. CASE u = t
        BY Zenon, <2>1, <2>4, <3>1
    <3>2. CASE u # t
        BY Zenon, <1>0, <2>1, <3>2 DEF AtomicInv, InCall
    <3> QED
        BY Zenon, <3>1, <3>2
  <2> QED
      BY Zenon, <2>1, <2>2, <2>3, <2>5 DEF AtomicInv
<1>3. ASSUME NEW t \in Threads, ReadSome(t) PROVE AtomicInv' /\ SmallWritesAtomic'
  <2>1. \A u \in Threads \ {t} : pc'[u] = pc[u] /\ moved'[u] = moved[u]
      BY Zenon, <1>0, <1>3, ReadEffect DEF ReadSome, TurnOrReturn, Return, Goto
  <2>2. UNCHANGED <<sent, calls>> /\ t \notin Writers
      BY Zenon, <1>3 DEF ReadSome, TurnOrReturn, Return
  <2> QED
      BY Zenon, <1>0, <1>1, <2>1, <2>2 DEF InCall
<1>4. ASSUME NEW t \in Threads, WriteSome(t) PROVE AtomicInv' /\ SmallWritesAtomic'
  <2>1. PICK n \in Nat : /\ n > 0 /\ n <= LenOf(t) - moved[t]
                         /\ LenOf(t) <= PIPE_BUF => n = LenOf(t) - moved[t]
                         /\ sent' = sent \o [i \in 1 .. n |-> <<t, calls[t]>>]
                         /\ moved' = [moved EXCEPT ![t] = moved[t] + n]
                         /\ [i \in 1 .. n |-> <<t, calls[t]>>] \in Seq(Bytes)
      BY Zenon, <1>4, WriteEffect
  <2> DEFINE bytes == [i \in 1 .. n |-> <<t, calls[t]>>]
             old == Len(sent)
  <2>2. old \in Nat /\ DOMAIN sent = 1 .. old
      BY <1>0
  <2>3. /\ sent' \in Seq(Bytes) /\ Len(sent') = old + n
        /\ \A i \in 1 .. old + n : sent'[i] = IF i <= old THEN sent[i] ELSE bytes[i - old]
    <3>1. bytes \in Seq(Bytes) /\ Len(bytes) = n
      <4>1. <<t, calls[t]>> \in Bytes
          BY Zenon, <1>0, <1>4 DEF Bytes, WriteSome
      <4> QED
          BY Zenon, <4>1, EqualBytes
    <3>2. sent' = sent \o bytes
        BY Zenon, <2>1
    <3> HIDE DEF bytes
    <3> QED
        BY Zenon, <1>0, <3>1, <3>2, ConcatProperties
  <2> HIDE DEF old
  <2>4. DOMAIN sent' = 1 .. old + n
      BY <2>3
  <2>5. \A i \in DOMAIN sent' : IF i <= old THEN i \in DOMAIN sent /\ sent'[i] = sent[i]
                                             ELSE sent'[i] = <<t, calls[t]>>
    <3> TAKE i \in DOMAIN sent'
    <3>1. i \in 1 .. old + n
        BY Zenon, <2>4
    <3>2. sent'[i] = IF i <= old THEN sent[i] ELSE bytes[i - old]
        BY Zenon, <2>3, <3>1
    <3>3. CASE i <= old
      <4>1. i \in DOMAIN sent
          BY <2>2, <3>1, <3>3
      <4> QED
          BY Zenon, <3>2, <3>3, <4>1
    <3>4. CASE ~(i <= old)
      <4>1. i - old \in 1 .. n
          BY <2>1, <2>2, <3>1, <3>4
      <4>2. bytes[i - old] = <<t, calls[t]>>
          BY Zenon, <4>1
      <4> QED
          BY Zenon, <3>2, <3>4, <4>2
    <3> QED
        BY Zenon, <3>3, <3>4
  <2>6. /\ UNCHANGED calls /\ t \in Writers /\ InCall(t)
        /\ \A u \in Threads \ {t} : pc'[u] = pc[u] /\ moved'[u] = moved[u]
      BY Zenon, <1>0, <1>4, <2>1 DEF WriteSome, TurnOrReturn, Return, Goto, At, InCall
  <2>7. LenOf(t) <= PIPE_BUF => ~InCall(t)'
    <3> HAVE LenOf(t) <= PIPE_BUF
    <3>1. moved'[t] = LenOf(t)
        BY <1>0, <2>1, PipeAssumption
    <3> QED
        BY Zenon, <1>0, <1>4, <3>1 DEF WriteSome, TurnOrReturn, Return, Goto, InCall
  <2>8. LenOf(t) <= PIPE_BUF => \A i \in DOMAIN sent : sent[i] # <<t, calls[t]>>
      BY Zenon, <2>6 DEF AtomicInv
  <2>9. \A i \in DOMAIN sent' : sent'[i][2] <= calls'[sent'[i][1]]
    <3> TAKE i \in DOMAIN sent'
    <3>1. CASE i <= old
        BY Zenon, <2>5, <2>6, <3>1 DEF AtomicInv
    <3>2. CASE ~(i <= old)
        BY <1>0, <2>5, <2>6, <3>2
    <3> QED
        BY Zenon, <3>1, <3>2
  <2>10. ASSUME NEW u \in Writers, LenOf(u) <= PIPE_BUF, InCall(u)'
         PROVE  moved'[u] = 0 /\ \A i \in DOMAIN sent' : sent'[i] # <<u, calls'[u]>>
    <3>1. u # t /\ InCall(u)
        BY Zenon, <1>0, <2>6, <2>7, <2>10 DEF InCall
    <3>2. moved'[u] = 0 /\ \A i \in DOMAIN sent : sent[i] # <<u, calls[u]>>
        BY Zenon, <1>0, <2>6, <2>10, <3>1 DEF AtomicInv
    <3> QED
        BY <2>5, <2>6, <3>1, <3>2
  <2>11. ASSUME NEW i \in DOMAIN sent', NEW j \in DOMAIN sent', NEW k \in DOMAIN sent',
                i < j, j < k, sent'[i] = sent'[k], LenOf(sent'[i][1]) <= PIPE_BUF
         PROVE  sent'[j] = sent'[i]
    <3>0. i \in Nat /\ j \in Nat /\ k \in Nat
        BY <2>2, <2>4
    <3>1. CASE k <= old
      <4>1. i <= old /\ j <= old
          BY <2>2, <2>11, <3>0, <3>1
      <4> QED
          BY Zenon, <2>5, <2>11, <3>1, <4>1 DEF SmallWritesAtomic
    <3>2. CASE ~(k <= old) /\ i <= old
      <4>1. sent[i] = <<t, calls[t]>> /\ i \in DOMAIN sent /\ LenOf(t) <= PIPE_BUF
          BY <2>5, <2>11, <3>2
      <4> QED
          BY Zenon, <2>8, <4>1
    <3>3. CASE ~(k <= old) /\ ~(i <= old)
      <4>1. ~(j <= old)
          BY <2>2, <2>11, <3>0, <3>3
      <4> QED
          BY Zenon, <2>5, <3>3, <4>1
    <3> QED
        BY Zenon, <3>1, <3>2, <3>3
  <2> QED
      BY Zenon, <2>9, <2>10, <2>11 DEF AtomicInv, SmallWritesAtomic
<1>5. ASSUME NEW t \in Threads, ReadReturn(t) \/ WriteBroken(t) \/ LeaveInterrupted(t)
      PROVE  AtomicInv' /\ SmallWritesAtomic'
    BY Zenon, <1>0, <1>1, <1>5 DEF ReadReturn, WriteBroken, LeaveInterrupted, Return, Goto, InCall
<1>6. ASSUME NEW t \in Threads, Waiting(t) PROVE AtomicInv' /\ SmallWritesAtomic'
    BY Zenon, <1>0, <1>1, <1>6, WaitingMoves DEF InCall
<1>7. ASSUME NEW t \in Threads, SignalStep(t) PROVE AtomicInv' /\ SmallWritesAtomic'
    BY Zenon, <1>1, <1>7 DEF SignalStep, Signal, SignalLook, SignalWake, InCall
<1>8. ASSUME NEW e \in Ends, CloseStep(e) PROVE AtomicInv' /\ SmallWritesAtomic'
    BY Zenon, <1>1, <1>8 DEF CloseStep, CloseMark, CloseWake, InCall
<1>9. CASE UNCHANGED pipeVars
    BY Zenon, <1>1, <1>9 DEF pipeVars, InCall
<1> QED
    BY Zenon, <1>2, <1>3, <1>4, <1>5, <1>6, <1>7, <1>8, <1>9 DEF Next, ThreadStep, Waiting

-----------------------------------------------------------------------------
(* The theorems.                                                           *)

\* The pipe starts with nobody in a call and nothing in its buffer.
LEMMA InitInv == Init => IInv
<1> SUFFICES ASSUME Init PROVE IInv
    BY Zenon
<1>1. <<>> \in Seq(Bytes) /\ Len(<<>>) = 0 /\ DOMAIN <<>> = {}
    OBVIOUS
<1>2. Types
  <2>1. BufSize \in Nat
      BY Zenon, PipeAssumption
  <2>2. buffer \in Seq(Bytes) /\ Len(buffer) <= BufSize /\ sent \in Seq(Bytes) /\ received \in Seq(Bytes)
      BY <1>1, <2>1 DEF Init
  <2>3. queue \in [Ends -> Seq(Threads)]
      BY Zenon, EmptyList DEF Init
  <2> QED
      BY Zenon, <2>2, <2>3 DEF Init, Types, Statuses, Points
<1>3. LockInv
  <2> SUFFICES ASSUME NEW t \in Threads
               PROVE  pc[t] = "out" /\ mutex # t /\ moved[t] <= LenOf(t)
      BY Zenon DEF LockInv, InCall, Holds
  <2>1. pc[t] = "out" /\ mutex = Nobody /\ moved[t] = 0
      BY Zenon DEF Init
  <2>2. LenOf(t) \in Nat /\ t # Nobody
      BY Zenon, PipeAssumption
  <2> QED
      BY <2>1, <2>2
<1>4. QueueInv
    BY Zenon, EmptyList, TwoEnds DEF Init, QueueInv, OnQueue, Announced
<1>5. CloseInv /\ SleepInv /\ LookInv
    BY Zenon, TwoEnds DEF Init, CloseInv, SleepInv, LookInv, Looked, Asleep, InCall
<1>6. AtomicInv /\ SmallWritesAtomic
  <2>1. DOMAIN sent = {} /\ \A t \in Writers : ~InCall(t)
      BY Zenon, <1>1, PipeAssumption DEF Init, InCall
  <2> QED
      BY Zenon, <2>1 DEF AtomicInv, SmallWritesAtomic
<1>7. StreamIntact
    BY Zenon, <1>1, ConcatEmptySeq DEF Init, StreamIntact
<1> QED
    BY Zenon, <1>2, <1>3, <1>4, <1>5, <1>6, <1>7 DEF IInv

\* The strengthened invariant holds of every reachable state of the pipe.
THEOREM Invariance == Spec => []IInv
<1>1. IInv /\ [Next]_pipeVars => IInv'
    BY Zenon, TypesStep, LockStep, QueueStep, CloseInvStep, SleepStep, LookStep, AtomicStep, StreamStep DEF IInv
<1> QED
    BY <1>1, InitInv, PTL DEF Spec

\* pipe::read returns the bytes of pipe::write, none lost, repeated or out of
\* order, whatever the sizes of the calls and of the buffer.
THEOREM Stream == Spec => []StreamIntact
<1>1. IInv => StreamIntact
    BY Zenon DEF IInv
<1> QED
    BY <1>1, Invariance, PTL

\* Writes of at most PIPE_BUF bytes are atomic, whoever else writes.
THEOREM Atomicity == Spec => []SmallWritesAtomic
<1>1. IInv => SmallWritesAtomic
    BY Zenon DEF IInv
<1> QED
    BY <1>1, Invariance, PTL

\* No wakeup is lost between the check of the condition under pipe_lock, the
\* release of the lock and sched_yield; and a thread that a reschedule puts to
\* sleep before its second look can only have missed the close of an end.
THEOREM NoLostWakeup == Spec => []NoStrandedSleeper
<1> DEFINE Told(t) == \/ mutex # Nobody /\ ~parked[mutex] /\ QueueOf(mutex) # QueueOf(t)
                      \/ \E e \in Ends : closing[e] = "marked" /\ e # QueueOf(t)
           Missed(t) == /\ Overslept(t) /\ mutex = t
                        /\ pc[t] = "queued" => \E e \in Ends : closing[e] = "closed" /\ e # QueueOf(t)
<1>1. IInv => NoStrandedSleeper
  <2> SUFFICES ASSUME IInv, NEW t \in Threads, parked[t], Cond(t)
               PROVE  Told(t) \/ Missed(t)
      BY Zenon DEF NoStrandedSleeper
  <2>1. /\ status[t] # "RUNNABLE" /\ InCall(t)
        /\ pc[t] \in {"relock", "queued", "leave", "eintr"}
      BY Zenon DEF IInv, QueueInv, Announced, InCall
  <2>2. t \in Writers /\ is_full => broken
    <3> HAVE t \in Writers /\ is_full
    <3>1. moved[t] < LenOf(t) /\ moved[t] \in Nat /\ LenOf(t) \in Nat
        BY Zenon, <2>1, PipeAssumption DEF IInv, LockInv, Types
    <3> QED
        BY <3>1 DEF Cond, is_full
  <2>3. CASE pc[t] = "relock" /\ t \in Writers
    <3>1. is_full /\ (broken => closing["read"] = "marked")
        BY Zenon, <2>1, <2>3 DEF IInv, SleepInv, Asleep
    <3> QED
        BY Zenon, <2>2, <2>3, <3>1, TwoEnds
  <2>4. CASE pc[t] = "relock" /\ t \notin Writers
    <3>1. /\ buffer # <<>> => mutex \in Writers /\ pc[mutex] = "loop"
          /\ eof => closing["write"] = "marked"
        BY Zenon, <2>1, <2>4 DEF IInv, SleepInv, Asleep
    <3>2. CASE buffer # <<>>
      <4>1. mutex \in Threads /\ mutex # Nobody
          BY Zenon, <3>1, <3>2, PipeAssumption
      <4>2. ~parked[mutex]
          BY Zenon, <3>1, <3>2, <4>1 DEF IInv, QueueInv, Announced
      <4> QED
          BY Zenon, <2>4, <3>1, <3>2, <4>1, <4>2, TwoEnds
    <3>3. CASE eof
        BY Zenon, <2>4, <3>1, <3>3, TwoEnds
    <3> QED
        BY Zenon, <2>4, <3>2, <3>3 DEF Cond
  <2>5. CASE pc[t] \in {"leave", "eintr"}
      BY Zenon, <2>5 DEF IInv, LockInv, Holds, Overslept
  <2>6. CASE pc[t] = "queued"
    <3>1. Overslept(t) /\ mutex = t
        BY Zenon, <2>6 DEF IInv, LockInv, Holds, Overslept
    <3>2. IF t \in Writers THEN is_full ELSE buffer = <<>>
        BY Zenon, <2>1, <2>6 DEF IInv, LookInv, Looked
    <3>3. \E e \in Ends : closing[e] # "open" /\ e # QueueOf(t)
      <4>1. CASE t \in Writers
          BY Zenon, <2>2, <3>2, <4>1, TwoEnds DEF IInv, CloseInv
      <4>2. CASE t \notin Writers
          BY Zenon, <3>2, <4>2, TwoEnds DEF IInv, CloseInv, Cond
      <4> QED
          BY Zenon, <4>1, <4>2
    <3>4. \A e \in Ends : closing[e] \in {"open", "marked", "closed"}
        BY Zenon DEF IInv, Types
    <3> QED
        BY Zenon, <3>1, <3>3, <3>4
  <2> QED
      BY Zenon, <2>1, <2>3, <2>4, <2>5, <2>6
<1> QED
    BY <1>1, Invariance, PTL

=============================================================================
