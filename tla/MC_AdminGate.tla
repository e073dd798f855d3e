---------------------------- MODULE MC_AdminGate ----------------------------
(* Instances of AdminGate for TLC: two requests, each in its own process.  *)
EXTENDS AdminGate, TLC

MCWorkerOf == [r \in Requests |-> r]
=============================================================================
