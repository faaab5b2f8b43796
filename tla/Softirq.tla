------------------------------ MODULE Softirq ------------------------------
(***************************************************************************)
(* Softirqs (kernel/softirq.cpp) of one processor, with what they run: the *)
(* clock events of Timer.tla and the receive side of a network interface   *)
(* (kernel/net/netif.cpp).  A thread, the softirq on top of it and         *)
(* interrupts on top of both share the processor; a thread of another one  *)
(* may cancel an event.  An interrupt is one step, a softirq is not.       *)
(***************************************************************************)
EXTENDS Timer

CONSTANT MaxPackets   \* packets that arrive

VARIABLES
    soft,                      \* where softirq_handle is; "none" when it does not run
    pending_vectors, local,    \* what was raised; softirq_handle's copy of it
    no_preempt,                \* the thread has disabled preemption
    has_rx, doing, missed,     \* NETIF_HAS_RX_AVAILABLE, _DOING_RX_POLL, _MISSED_RX
    to_rx, og_missed,          \* the interface is on to_rx_list; og_flags & NETIF_MISSED_RX
    ring, cause, unmasked,     \* of the device: it has packets; interrupt cause and mask
    arrived,
    rx_lost                    \* a raise of NETRX was overwritten (history)

softVars == <<soft, pending_vectors, local, no_preempt>>
flagVars == <<has_rx, doing, missed>>
deviceVars == <<ring, cause, unmasked, arrived>>
netVars == <<flagVars, to_rx, og_missed, deviceVars, rx_lost>>
vars == <<timerVars, broken, softVars, netVars>>

SoftirqInit ==
    /\ TimerInit
    /\ soft = "none" /\ pending_vectors = {} /\ local = {} /\ no_preempt = FALSE
    /\ has_rx = FALSE /\ doing = FALSE /\ missed = FALSE /\ to_rx = FALSE /\ og_missed = FALSE
    /\ ring = FALSE /\ cause = FALSE /\ unmasked = TRUE /\ arrived = 0 /\ rx_lost = FALSE

\* netif_do_rx holds the lock of the queue, interrupts being enabled.
QueueLocked == soft \in {"poll", "end", "cas", "reset"}

-----------------------------------------------------------------------------
(* Raising and handling.                                                   *)

\* The end of irq_handler, with these vectors raised: softirq_handle is called
\* unless preemption is disabled, as it is in a softirq.
IrqExit(raised) ==
    /\ pending_vectors' = pending_vectors \cup raised
    /\ soft' = IF soft = "none" /\ ~no_preempt /\ pending_vectors' # {} THEN "read" ELSE soft
    /\ UNCHANGED <<local, no_preempt>>

\* Mutant: an event that is pending already raises no softirq.
TimerIrq_Once ==
    /\ next_event = 0
    /\ HandleInIrq
    /\ IrqExit(IF {e \in event_list \ (Atomic \cup pending) : due[e] = 0} = {} THEN {} ELSE {"TIMER"})
    /\ UNCHANGED netVars

\* apic_timer_irq.
TimerIrq ==
    /\ next_event = 0
    /\ HandleInIrq
    /\ IrqExit(IF {e \in event_list \ Atomic : due[e] = 0} = {} THEN {} ELSE {"TIMER"})
    /\ UNCHANGED netVars

disable_preempt ==
    /\ soft = "none" /\ ~no_preempt
    /\ no_preempt' = TRUE
    /\ UNCHANGED <<timerVars, broken, soft, pending_vectors, local, netVars>>

\* sched_enable_preempt.
enable_preempt ==
    /\ soft = "none" /\ no_preempt
    /\ no_preempt' = FALSE
    /\ soft' = IF pending_vectors = {} THEN "none" ELSE "read"
    /\ UNCHANGED <<timerVars, broken, pending_vectors, local, netVars>>

\* The part of softirq_handle after p.
After(p) ==
    CASE p = "read" /\ "TIMER" \in local' -> "time"
      [] p \in {"read", "time"} /\ "NETRX" \in local' -> "rx"
      [] OTHER -> "write"

SoftRead ==
    /\ soft = "read"
    /\ local' = pending_vectors
    /\ soft' = After("read")
    /\ UNCHANGED <<timerVars, broken, pending_vectors, no_preempt, netVars>>

\* timer_handle_events of the softirq, step by step.
SoftTimer ==
    /\ UNCHANGED <<local, pending_vectors, no_preempt, netVars>>
    /\ \/ soft = "time" /\ ReadTime /\ soft' = "handle"
       \/ soft = "handle" /\ HandleInSoftirq /\ soft' = "loop"
       \/ soft = "loop" /\ HandleLoop /\ soft' = IF to_handle = <<>> THEN After("time") ELSE "call"
       \/ soft = "call" /\ Callback /\ soft' = "done"
       \/ soft = "done" /\ CallbackDone /\ soft' = IF Len(to_handle) = 1 THEN After("time") ELSE "call"

\* The copy is written back, whatever was raised since it was taken.
SoftWrite ==
    /\ soft = "write"
    /\ pending_vectors' = local \ {"TIMER", "NETRX"}
    /\ local' = {}
    /\ soft' = "none"
    /\ rx_lost' = (rx_lost \/ to_rx)
    /\ UNCHANGED <<timerVars, broken, no_preempt, flagVars, to_rx, og_missed, deviceVars>>

-----------------------------------------------------------------------------
(* The network interface.                                                  *)

\* External: a packet is received by the device.
Arrive ==
    /\ arrived < MaxPackets
    /\ arrived' = arrived + 1
    /\ ring' = TRUE
    /\ cause' = TRUE
    /\ UNCHANGED <<timerVars, broken, softVars, flagVars, to_rx, og_missed, unmasked, rx_lost>>

\* Mutant: a packet that comes while the interface is polled is not noted.
NicIrq_NotMissed ==
    /\ cause /\ unmasked /\ cause' = FALSE /\ unmasked' = FALSE
    /\ has_rx' = TRUE /\ UNCHANGED <<doing, missed>>
    /\ to_rx' = (to_rx \/ ~has_rx)
    /\ broken' = (QueueLocked /\ ~has_rx)
    /\ IrqExit(IF has_rx THEN {} ELSE {"NETRX"})
    /\ UNCHANGED <<timerVars, ring, arrived, og_missed, rx_lost>>

\* The interrupt of the device: netif_signal_rx, and the mask of the driver.
\* With the lock of the queue taken below it, it spins for ever.
NicIrq ==
    /\ cause /\ unmasked
    /\ cause' = FALSE /\ unmasked' = FALSE
    /\ has_rx' = TRUE
    /\ missed' = (missed \/ doing)
    /\ \/ has_rx /\ IrqExit({}) /\ UNCHANGED <<to_rx, broken>>
       \/ ~has_rx /\ ~QueueLocked /\ to_rx' = TRUE /\ IrqExit({"NETRX"}) /\ UNCHANGED broken
       \/ ~has_rx /\ QueueLocked /\ broken' = TRUE /\ UNCHANGED <<to_rx, softVars>>
    /\ UNCHANGED <<timerVars, doing, ring, arrived, og_missed, rx_lost>>

\* netif_do_rx and netif_do_rxpoll, from the lock of the queue to the list
\* being reset.  Interrupts are unmasked before the flags are changed, which
\* fails if they were meanwhile.
SoftRx ==
    /\ UNCHANGED <<timerVars, broken, pending_vectors, local, no_preempt, cause, arrived, rx_lost>>
    /\ \/ /\ soft = "rx"
          /\ doing' = to_rx
          /\ soft' = IF to_rx THEN "poll" ELSE "write"
          /\ UNCHANGED <<has_rx, missed, to_rx, og_missed, ring, unmasked>>
       \/ /\ soft = "poll"
          /\ ring' = FALSE
          /\ soft' = "end"
          /\ UNCHANGED <<flagVars, to_rx, og_missed, unmasked>>
       \/ /\ soft = "end"
          /\ og_missed' = missed
          /\ unmasked' = (unmasked \/ ~missed)
          /\ soft' = "cas"
          /\ UNCHANGED <<flagVars, to_rx, ring>>
       \/ /\ soft = "cas"
          /\ \/ missed # og_missed /\ soft' = "end" /\ UNCHANGED flagVars
             \/ missed = og_missed /\ missed /\ missed' = FALSE /\ soft' = "poll" /\ UNCHANGED <<has_rx, doing>>
             \/ missed = og_missed /\ ~missed /\ has_rx' = FALSE /\ doing' = FALSE /\ soft' = "reset" /\ UNCHANGED missed
          /\ og_missed' = FALSE
          /\ UNCHANGED <<to_rx, ring, unmasked>>
       \/ /\ soft = "reset"
          /\ to_rx' = FALSE
          /\ soft' = "write"
          /\ UNCHANGED <<flagVars, og_missed, ring, unmasked>>

-----------------------------------------------------------------------------
\* The thread below: it queues and cancels events, as sched_sleep does.
Queue(e) ==
    /\ soft = "none" /\ e \notin event_list \cup Handling
    /\ \E d \in 1..MaxDelay : timer_queue_clockevent(e, d)
    /\ UNCHANGED <<pending, to_handle, alone, canceller, broken, softVars, netVars>>

Cancel(e) ==
    \/ soft = "none" /\ CancelHere(e) /\ UNCHANGED <<softVars, netVars>>
    \/ CancelLook(e) /\ UNCHANGED <<softVars, netVars>>

Removed == CancelRemove(soft \in {"call", "done"}) /\ UNCHANGED <<softVars, netVars>>

TimePasses == Tick /\ UNCHANGED <<softVars, netVars>>

SoftStep == SoftRead \/ SoftTimer \/ SoftRx \/ SoftWrite

SoftirqNext ==
    /\ ~broken
    /\ \/ TimePasses \/ TimerIrq \/ NicIrq \/ Arrive
       \/ disable_preempt \/ enable_preempt \/ SoftStep
       \/ \E e \in Events \ (Atomic \cap Pulse) : Queue(e) \/ Cancel(e)
       \/ Removed

SoftirqSpec == SoftirqInit /\ [][SoftirqNext]_vars

\* Time passes, interrupts that are not masked come, and the softirq and the
\* thread below it, which disables preemption for a while only, are run.
SoftirqFairSpec ==
    /\ SoftirqSpec
    /\ WF_vars(~broken /\ TimePasses) /\ WF_vars(~broken /\ TimerIrq) /\ WF_vars(~broken /\ NicIrq)
    /\ WF_vars(~broken /\ SoftStep) /\ WF_vars(~broken /\ enable_preempt) /\ WF_vars(~broken /\ Removed)

-----------------------------------------------------------------------------
(* Properties.                                                             *)

\* An event on the list is run or cancelled: one left for the softirq is not
\* forgotten although softirq_handle may overwrite the raise, because the
\* scheduler's event brings the next interrupt, which raises it again.
TimersFire == [](~broken) => \A e \in Events \ (Atomic \cap Pulse) : e \in event_list ~> e \notin event_list

\* What the device has received is polled: masking its interrupt and noting
\* what was missed lose nothing, unless the raise of the softirq is lost.
PacketsReceived == [](~broken /\ ~rx_lost) => (ring ~> ~ring)
=============================================================================
