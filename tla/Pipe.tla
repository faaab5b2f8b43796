-------------------------------- MODULE Pipe --------------------------------
(***************************************************************************)
(* The pipe of kernel/fs/pipe.cpp, and the wait queues and the macro       *)
(* wait_for_event_mutex_interruptible it sleeps with (wait_queue.cpp,      *)
(* wait_queue.h).                                                          *)
(*                                                                         *)
(* pipe_lock appears by its contract (LockSpec): a holder, and callers     *)
(* that wait until there is none.  What runs without it interleaves:       *)
(* closing an end, waking its queue, and signals.  So do the steps of the  *)
(* macro: wait_queue_add and wait_queue_remove end with irq_restore, which *)
(* gives up the processor if a reschedule was requested, also that of a    *)
(* thread that has announced its sleep and still holds pipe_lock.  A byte  *)
(* is named by the call that writes it.                                    *)
(***************************************************************************)
EXTENDS ThreadState, WaitList, FiniteSets

CONSTANTS
    Writers,     \* threads that write; the others read until end of file
    LenOf(_),    \* bytes per call, of each thread
    Calls,       \* bound: calls of write per writer
    BufSize, PIPE_BUF,
    Signalled,   \* threads that are sent a signal once
    MayBreak,    \* may the read end be closed while there are writers?
    Nobody

ASSUME PipeAssumption ==
    /\ Writers \subseteq Threads /\ Signalled \subseteq Threads
    /\ \A t \in Threads : LenOf(t) \in Nat \ {0}
    /\ Calls \in Nat /\ BufSize \in Nat \ {0} /\ PIPE_BUF \in Nat
    /\ Nobody \notin Threads

VARIABLES
    buffer,         \* its first pos bytes
    eof, broken,
    queue,          \* read_queue and write_queue
    mutex,          \* the holder of pipe_lock
    pc, moved,      \* per thread: where it is, bytes read or written by its call
    calls,          \* calls begun, per thread
    signal_pending, signalling,
    closing,        \* per end: is it open, marked closed, or closed and its queue woken?
    sent, received  \* the bytes that went in and came out (history)

io == <<buffer, eof, broken>>
pipeVars == <<status, parked, buffer, eof, broken, queue, mutex, pc, moved, calls,
              signal_pending, signalling, closing, sent, received>>
sigVars == <<signal_pending, signalling>>

(* pc[t]: "out"; "loop" at the top of the loop of read or write;           *)
(* "announce" about to set its status, "add" to be queued; "queued" about  *)
(* to look again; "leave", "eintr" off the queue, about to be RUNNABLE     *)
(* again; "remove" about to leave the queue to be queued again: all with   *)
(* pipe_lock held.  "yield" released it; "relock" back from sched_yield;   *)
(* "done" will not call again                                              *)
Points == {"out", "loop", "announce", "add", "queued", "leave", "eintr", "yield", "relock", "remove", "done"}

Ends == {"read", "write"}

QueueOf(t) == IF t \in Writers THEN "write" ELSE "read"

Init ==
    /\ status = [t \in Threads |-> "RUNNABLE"]
    /\ parked = [t \in Threads |-> FALSE]
    /\ buffer = <<>> /\ eof = FALSE /\ broken = FALSE
    /\ queue = [e \in Ends |-> <<>>]
    /\ mutex = Nobody
    /\ pc = [t \in Threads |-> "out"]
    /\ moved = [t \in Threads |-> 0]
    /\ calls = [t \in Threads |-> 0]
    /\ signal_pending = {} /\ signalling = [t \in Threads |-> "none"]
    /\ closing = [e \in Ends |-> "open"]
    /\ sent = <<>> /\ received = <<>>

-----------------------------------------------------------------------------
At(t, p) == pc[t] = p /\ ~parked[t]

Goto(t, p) == pc' = [pc EXCEPT ![t] = p]

available_space == BufSize - Len(buffer)

is_full == available_space = 0

\* wait_queue_wake_all: every token is taken off the queue, its thread woken.
wake_all(e) ==
    /\ wake_up_all(Members(queue[e]))
    /\ queue' = [queue EXCEPT ![e] = <<>>]

\* A system call begins: the scoped_mutex of read and write.
Call(t) ==
    /\ At(t, "out") /\ mutex = Nobody
    /\ closing[QueueOf(t)] = "open"
    /\ t \in Writers => calls[t] < Calls
    /\ mutex' = t
    /\ moved' = [moved EXCEPT ![t] = 0]
    /\ calls' = IF t \in Writers THEN [calls EXCEPT ![t] = @ + 1] ELSE calls
    /\ Goto(t, "loop")
    /\ UNCHANGED <<status, parked, io, queue, sigVars, closing, sent, received>>

\* The call returns, pipe_lock is released and a pending signal handled.
Return(t, p) ==
    /\ mutex' = Nobody
    /\ Goto(t, p)
    /\ signal_pending' = signal_pending \ {t}
    /\ UNCHANGED <<calls, signalling, closing>>

\* Another turn of the loop, or the end of the call.
TurnOrReturn(t) ==
    IF moved'[t] = LenOf(t) THEN Return(t, "out")
    ELSE UNCHANGED <<mutex, pc, calls, sigVars, closing>>

\* Mutant: the rest of the buffer is not moved to its beginning.
ReadSome_NoMove(t) ==
    /\ At(t, "loop") /\ t \notin Writers
    /\ buffer # <<>>
    /\ \E n \in {LenOf(t) - moved[t], Len(buffer)} :
        /\ n <= LenOf(t) - moved[t] /\ n <= Len(buffer)
        /\ received' = received \o SubSeq(buffer, 1, n)
        /\ buffer' = SubSeq(buffer, 1, Len(buffer) - n)
        /\ moved' = [moved EXCEPT ![t] = @ + n]
    /\ wake_all("write")
    /\ TurnOrReturn(t)
    /\ UNCHANGED <<eof, broken, sent>>

\* can_read: min(len - been_read, pos) bytes, and the writers are woken.
ReadSome(t) ==
    /\ At(t, "loop") /\ t \notin Writers
    /\ buffer # <<>>
    /\ \E n \in {LenOf(t) - moved[t], Len(buffer)} :
        /\ n <= LenOf(t) - moved[t] /\ n <= Len(buffer)
        /\ received' = received \o SubSeq(buffer, 1, n)
        /\ buffer' = SubSeq(buffer, n + 1, Len(buffer))
        /\ moved' = [moved EXCEPT ![t] = @ + n]
    /\ wake_all("write")
    /\ TurnOrReturn(t)
    /\ UNCHANGED <<eof, broken, sent>>

\* Nothing more to read: what was read, or zero at the end of the file.
ReadReturn(t) ==
    /\ At(t, "loop") /\ t \notin Writers
    /\ buffer = <<>> /\ (moved[t] > 0 \/ eof)
    /\ Return(t, IF moved[t] = 0 THEN "done" ELSE "out")
    /\ UNCHANGED <<status, parked, io, queue, moved, sent, received>>

\* -EPIPE.
WriteBroken(t) ==
    /\ At(t, "loop") /\ t \in Writers
    /\ broken
    /\ Return(t, "done")
    /\ UNCHANGED <<status, parked, io, queue, moved, sent, received>>

\* Mutant: small writes are split like any other.
MustWait_NotAtomic(t) == is_full

\* A write of at most PIPE_BUF bytes waits until there is room for all of it.
MustWait(t) ==
    \/ LenOf(t) <= PIPE_BUF /\ available_space < LenOf(t) - moved[t]
    \/ is_full

\* min(len - written, available_space) bytes; the readers are woken at the end.
WriteSome(t) ==
    /\ At(t, "loop") /\ t \in Writers
    /\ ~broken /\ ~MustWait(t)
    /\ \E n \in {LenOf(t) - moved[t], available_space} :
        LET bytes == [i \in 1 .. n |-> <<t, calls[t]>>] IN
        /\ n <= LenOf(t) - moved[t] /\ n <= available_space
        /\ buffer' = buffer \o bytes
        /\ sent' = sent \o bytes
        /\ moved' = [moved EXCEPT ![t] = @ + n]
    /\ IF moved'[t] = LenOf(t) THEN wake_all("read") ELSE UNCHANGED <<status, parked, queue>>
    /\ TurnOrReturn(t)
    /\ UNCHANGED <<eof, broken, received>>

-----------------------------------------------------------------------------
(* wait_for_event_mutex_interruptible.                                     *)

\* The condition of each caller.
Cond(t) ==
    IF t \in Writers
    THEN (LenOf(t) <= PIPE_BUF /\ available_space >= LenOf(t) - moved[t]) \/ ~is_full \/ broken
    ELSE buffer # <<>> \/ eof

\* The caller cannot go on: a writer that has written something wakes the
\* readers.  If the condition holds the macro returns at once; else ...
Wait(t) ==
    /\ At(t, "loop")
    /\ IF t \in Writers THEN ~broken /\ MustWait(t) ELSE buffer = <<>> /\ moved[t] = 0 /\ ~eof
    /\ ~Cond(t)
    /\ IF t \in Writers /\ moved[t] > 0 THEN wake_all("read") ELSE UNCHANGED <<status, parked, queue>>
    /\ Goto(t, "announce")
    /\ UNCHANGED <<io, mutex, moved, calls, sigVars, closing, sent, received>>

\* ... the thread announces its sleep, once for all turns of the loop, ...
Announce(t) ==
    /\ At(t, "announce")
    /\ set_current_state(t, "INTERRUPTIBLE")
    /\ Goto(t, "add")
    /\ UNCHANGED <<io, queue, mutex, moved, calls, sigVars, closing, sent, received>>

\* ... and is queued: wait_queue_add.
QueueAdd(t) ==
    /\ At(t, "add")
    /\ queue' = [queue EXCEPT ![QueueOf(t)] = list_add_tail(@, t)]
    /\ Goto(t, "queued")
    /\ UNCHANGED <<status, parked, io, mutex, moved, calls, sigVars, closing, sent, received>>

\* The irq_restore of wait_queue_add and wait_queue_remove: a reschedule was
\* requested.  (That of mutex_unlock, at "yield", is the sleep itself.)
Resched(t) ==
    /\ At(t, "queued") \/ At(t, "leave") \/ At(t, "eintr")
    /\ status[t] # "RUNNABLE"
    /\ sched_yield(t)
    /\ UNCHANGED <<io, queue, mutex, pc, moved, calls, sigVars, closing, sent, received>>

\* wait_queue_remove: a token that was woken is off the queue already.
Unqueue(t) ==
    queue' = [queue EXCEPT ![QueueOf(t)] =
                 IF t \in Members(@) THEN list_remove(@, t) ELSE @]

\* The condition is looked at again with the token on the queue.
CondTrue(t) ==
    /\ At(t, "queued") /\ Cond(t)
    /\ Unqueue(t)
    /\ Goto(t, "leave")
    /\ UNCHANGED <<status, parked, io, mutex, moved, calls, sigVars, closing, sent, received>>

\* -EINTR, whatever was written before.
Interrupt(t) ==
    /\ At(t, "queued") /\ ~Cond(t) /\ t \in signal_pending
    /\ Unqueue(t)
    /\ Goto(t, "eintr")
    /\ UNCHANGED <<status, parked, io, mutex, moved, calls, sigVars, closing, sent, received>>

\* The end of the macro: another turn of the loop of read or write, ...
Leave(t) ==
    /\ At(t, "leave")
    /\ set_current_state(t, "RUNNABLE")
    /\ Goto(t, "loop")
    /\ UNCHANGED <<io, queue, mutex, moved, calls, sigVars, closing, sent, received>>

\* ... or the end of the call.
LeaveInterrupted(t) ==
    /\ At(t, "eintr")
    /\ set_current_state(t, "RUNNABLE")
    /\ Return(t, "out")
    /\ UNCHANGED <<io, queue, moved, sent, received>>

\* The mutex_unlock before the sched_yield.
Release(t) ==
    /\ At(t, "queued") /\ ~Cond(t) /\ t \notin signal_pending
    /\ mutex' = Nobody
    /\ Goto(t, "yield")
    /\ UNCHANGED <<status, parked, io, queue, moved, calls, sigVars, closing, sent, received>>

Yield(t) ==
    /\ At(t, "yield")
    /\ sched_yield(t)
    /\ Goto(t, "relock")
    /\ UNCHANGED <<io, queue, mutex, moved, calls, sigVars, closing, sent, received>>

\* The mutex_lock after it, ...
Relock(t) ==
    /\ At(t, "relock") /\ mutex = Nobody
    /\ mutex' = t
    /\ Goto(t, "remove")
    /\ UNCHANGED <<status, parked, io, queue, moved, calls, sigVars, closing, sent, received>>

\* ... and wait_queue_remove; the token is then queued again.  The status is
\* not set again.
QueueRemove(t) ==
    /\ At(t, "remove")
    /\ Unqueue(t)
    /\ Goto(t, "add")
    /\ UNCHANGED <<status, parked, io, mutex, moved, calls, sigVars, closing, sent, received>>

-----------------------------------------------------------------------------
(* Closing the ends, and signals.                                          *)

\* The last descriptor of an end goes when nobody is in a call on it.  The
\* flag is set without pipe_lock ...
CloseMark(e) ==
    /\ closing[e] = "open"
    /\ \A t \in Threads : QueueOf(t) = e =>
        \/ pc[t] = "done"
        \/ pc[t] = "out" /\ IF e = "write" THEN calls[t] = Calls ELSE MayBreak
    /\ closing' = [closing EXCEPT ![e] = "marked"]
    /\ eof' = (eof \/ e = "write")
    /\ broken' = (broken \/ e = "read")
    /\ UNCHANGED <<status, parked, buffer, queue, mutex, pc, moved, calls, sigVars, sent, received>>

\* Mutant: closing the write end wakes the writers.
CloseWake_WrongQueue(e) ==
    /\ closing[e] = "marked"
    /\ closing' = [closing EXCEPT ![e] = "closed"]
    /\ wake_all(e)
    /\ UNCHANGED <<io, mutex, pc, moved, calls, sigVars, sent, received>>

\* ... and then the other end's queue is woken.
CloseWake(e) ==
    /\ closing[e] = "marked"
    /\ closing' = [closing EXCEPT ![e] = "closed"]
    /\ wake_all(IF e = "write" THEN "read" ELSE "write")
    /\ UNCHANGED <<io, mutex, pc, moved, calls, sigVars, sent, received>>

\* kernel_tkill: pending first, then a look at the status, then the wakeup.
Signal(t) ==
    /\ t \in Signalled /\ signalling[t] = "none" /\ pc[t] \notin {"out", "done"}
    /\ signal_pending' = signal_pending \cup {t}
    /\ signalling' = [signalling EXCEPT ![t] = "look"]
    /\ UNCHANGED <<status, parked, io, queue, mutex, pc, moved, calls, closing, sent, received>>

SignalLook(t) ==
    /\ signalling[t] = "look"
    /\ signalling' = [signalling EXCEPT ![t] =
                         IF status[t] = "INTERRUPTIBLE" THEN "wake" ELSE "done"]
    /\ UNCHANGED <<status, parked, io, queue, mutex, pc, moved, calls, signal_pending, closing, sent, received>>

SignalWake(t) ==
    /\ signalling[t] = "wake"
    /\ thread_wake_up(t)
    /\ signalling' = [signalling EXCEPT ![t] = "done"]
    /\ UNCHANGED <<io, queue, mutex, pc, moved, calls, signal_pending, closing, sent, received>>

-----------------------------------------------------------------------------
ThreadStep(t) ==
    \/ Call(t) \/ ReadSome(t) \/ ReadReturn(t) \/ WriteBroken(t) \/ WriteSome(t)
    \/ Wait(t) \/ Announce(t) \/ QueueAdd(t) \/ CondTrue(t) \/ Interrupt(t) \/ Leave(t)
    \/ LeaveInterrupted(t) \/ Release(t) \/ Yield(t) \/ Relock(t) \/ QueueRemove(t)

SignalStep(t) == Signal(t) \/ SignalLook(t) \/ SignalWake(t)

CloseStep(e) == CloseMark(e) \/ CloseWake(e)

Next ==
    \/ \E t \in Threads : ThreadStep(t) \/ Resched(t) \/ SignalStep(t)
    \/ \E e \in Ends : CloseStep(e)

Spec == Init /\ [][Next]_pipeVars

(* Runnable threads run; writers that are done close their end.  pipe_lock *)
(* is got in the end by whoever waits for it, its locks not being          *)
(* interruptible, as long as no reschedule falls into mutex_prepare_sleep  *)
(* (UndisturbedComplete of Mutex).                                         *)
FairSpec ==
    /\ Spec
    /\ \A t \in Threads : SF_pipeVars(ThreadStep(t)) /\ WF_pipeVars(SignalLook(t) \/ SignalWake(t))
    /\ WF_pipeVars(CloseStep("write"))
    /\ WF_pipeVars(CloseWake("read"))

-----------------------------------------------------------------------------
(* Properties.                                                             *)

TypeOK ==
    /\ status \in [Threads -> Statuses] /\ parked \in [Threads -> BOOLEAN]
    /\ Len(buffer) \in 0 .. BufSize
    /\ mutex \in Threads \cup {Nobody}
    /\ pc \in [Threads -> Points]
    /\ \A t \in Threads : moved[t] \in 0 .. LenOf(t)
    /\ signal_pending \subseteq Signalled

\* The pipe is a stream: what was written is what was read followed by what
\* is in the buffer.
StreamIntact == sent = received \o buffer

\* The bytes of a write of at most PIPE_BUF bytes are not interleaved with
\* those of another, even if the writer had to wait for room.
SmallWritesAtomic ==
    \A i, j, k \in DOMAIN sent :
        (/\ i < j /\ j < k
         /\ sent[i] = sent[k]
         /\ LenOf(sent[i][1]) <= PIPE_BUF) => sent[j] = sent[i]

\* The thread was put to sleep by a reschedule inside the macro, before it
\* has looked at its condition again or after it has left the queue, and
\* with pipe_lock.
Overslept(t) == parked[t] /\ pc[t] \in {"queued", "leave", "eintr"}

\* No wakeup is lost: a thread sleeps while its condition holds only until
\* the one who made it true has woken its queue: it is about to, with
\* pipe_lock and the processor, or is closing the other end.  A thread that
\* a reschedule has put to sleep inside the macro is the exception: the end
\* was closed before it was queued, or it is not on the queue any more.
NoStrandedSleeper ==
    \A t \in Threads : parked[t] /\ Cond(t) =>
        \/ mutex # Nobody /\ ~parked[mutex] /\ QueueOf(mutex) # QueueOf(t)
        \/ \E e \in Ends : closing[e] = "marked" /\ e # QueueOf(t)
        \/ /\ Overslept(t) /\ mutex = t
           /\ pc[t] = "queued" => \E e \in Ends : closing[e] = "closed" /\ e # QueueOf(t)

\* A small write that finds some room but not enough waits for a condition
\* that holds already: it goes round its loop with pipe_lock held.
Spins(t) == At(t, "loop") /\ t \in Writers /\ ~broken /\ MustWait(t) /\ Cond(t)

\* Readers reach the end of the file, and writers finish or break.  There are
\* two ways not to: a writer spins with pipe_lock held for ever, or a thread
\* that a reschedule has put to sleep inside the macro, with pipe_lock, is
\* never woken.
AllComplete ==
    \/ <>(\A t \in Threads : pc[t] = "done" \/ (t \in Writers /\ pc[t] = "out" /\ calls[t] = Calls)
                              \/ closing[QueueOf(t)] = "closed")
    \/ \E t \in Writers : <>[]Spins(t)
    \/ \E t \in Threads : <>[](Overslept(t) /\ mutex = t)
=============================================================================
