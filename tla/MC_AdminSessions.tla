-------------------------- MODULE MC_AdminSessions --------------------------
(* Instances of AdminSessions for TLC.                                     *)
EXTENDS AdminSessions, TLC

Symmetry ==
    Permutations(Tokens) \cup Permutations(Requests) \cup Permutations(Workers)
        \cup Permutations(Versions)
=============================================================================
