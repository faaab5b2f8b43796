------------------------------ MODULE LockSpec ------------------------------
(***************************************************************************)
(* What a sleeping lock promises: callers ask, are granted the lock in     *)
(* read or write mode, give up or release it; a writer is alone.  A mutex  *)
(* is a lock that is only ever asked for in write mode.                    *)
(***************************************************************************)
CONSTANT Callers

VARIABLES want, hold

lockVars == <<want, hold>>

Modes == {"read", "write"}

LSInit ==
    /\ want = [t \in Callers |-> "none"]
    /\ hold = [t \in Callers |-> "none"]

Ask(t, m) ==
    /\ want[t] = "none" /\ hold[t] = "none"
    /\ want' = [want EXCEPT ![t] = m]
    /\ UNCHANGED hold

Compatible(t, m) ==
    \A u \in Callers \ {t} : hold[u] = "none" \/ (hold[u] = "read" /\ m = "read")

\* At once, or after having asked for this mode.
Grant(t, m) ==
    /\ hold[t] = "none"
    /\ want[t] \in {"none", m}
    /\ Compatible(t, m)
    /\ hold' = [hold EXCEPT ![t] = m]
    /\ want' = [want EXCEPT ![t] = "none"]

GiveUp(t) ==
    /\ want[t] # "none"
    /\ want' = [want EXCEPT ![t] = "none"]
    /\ UNCHANGED hold

Release(t) ==
    /\ hold[t] # "none"
    /\ hold' = [hold EXCEPT ![t] = "none"]
    /\ UNCHANGED want

LSNext ==
    \E t \in Callers :
        \/ \E m \in Modes : Ask(t, m) \/ Grant(t, m)
        \/ GiveUp(t) \/ Release(t)

LSSpec == LSInit /\ [][LSNext]_lockVars
=============================================================================
