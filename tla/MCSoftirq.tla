----------------------------- MODULE MCSoftirq -----------------------------
(* An instance of Softirq for TLC.                                         *)
EXTENDS Softirq

CONSTANTS tick, rto, alarm
=============================================================================
