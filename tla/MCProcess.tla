----------------------------- MODULE MCProcess -----------------------------
(* Instances of Process for TLC: pid 1, a parent and a child of two threads. *)
EXTENDS Process

CONSTANTS init, par, kid, i1, p1, k1, k2

MCElders == <<par>>
MCOwner == [t \in Threads |-> CASE t = i1 -> init [] t = p1 -> par [] OTHER -> kid]
MCMain == [q \in Procs |-> CASE q = init -> i1 [] q = par -> p1 [] OTHER -> k1]
MCOpsFamily == [t \in Threads |->
    CASE t = i1 -> {"wait"}
      [] t = p1 -> {"vfork", "kill", "wait", "exit", "stops"}
      [] t = k1 -> {"clone", "exec", "exit"}
      [] t = k2 -> {}]
MCOpsSignals == [t \in Threads |->
    CASE t = i1 -> {}
      [] t = p1 -> {"fork", "vfork", "kill", "wait", "stops"}
      [] t = k1 -> {"clone", "exec", "exit"}
      [] t = k2 -> {"pause"}]
MCOpsStatus == [t \in Threads |->
    CASE t = p1 -> {"fork", "wait"}
      [] t = k1 -> {"exit"}
      [] OTHER -> {}]
=============================================================================
