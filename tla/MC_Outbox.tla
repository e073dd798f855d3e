------------------------------ MODULE MC_Outbox ------------------------------
(* The instance of Outbox for TLC: the cfg file gives the constants.       *)
EXTENDS Outbox, TLC
=============================================================================
