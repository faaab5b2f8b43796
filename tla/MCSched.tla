------------------------------ MODULE MCSched ------------------------------
(* Instances of Sched for TLC: one idle thread per CPU, a few workers of    *)
(* normal priority and one thread of higher priority (as the dpc threads). *)
EXTENDS Sched

CONSTANTS idle0, idle1, ta, tb, td

MCIdle1 == [c \in {0} |-> idle0]
MCIdle2 == [c \in {0, 1} |-> IF c = 0 THEN idle0 ELSE idle1]
MCPriority == [t \in Threads |-> IF t \in {idle0, idle1} THEN 0 ELSE IF t = td THEN 2 ELSE 1]

\* One CPU: ta is queued, its equal tb is still to be added.
MCCpu1 == [t \in Threads |-> 0]
MCQueue1 == [c \in {0} |-> [p \in 0 .. 2 |-> IF p = 1 THEN <<ta>> ELSE <<>>]]
\* Two CPUs: ta and td, which outranks it, on the first; the second only has
\* its idle thread, whose interrupts and softirqs wake them.
MCCpu2 == [t \in Threads |-> IF t = idle1 THEN 1 ELSE 0]
MCQueue2 == [c \in {0, 1} |-> [p \in 0 .. 2 |->
                IF c = 1 \/ p = 0 THEN <<>> ELSE IF p = 1 THEN <<ta>> ELSE <<td>>]]
=============================================================================
