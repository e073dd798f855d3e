---------------------------- MODULE MC_Envelope ----------------------------
(* Instances of Envelope for TLC.                                          *)
EXTENDS Envelope
=============================================================================
