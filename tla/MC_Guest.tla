------------------------------ MODULE MC_Guest ------------------------------
(* Instances of Guest for TLC.                                             *)
EXTENDS Guest, TLC

Symmetry ==
    Permutations(Pages) \cup Permutations(Flights)
        \cup Permutations(Tokens) \cup Permutations(Scopes)
=============================================================================
