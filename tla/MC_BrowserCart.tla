--------------------------- MODULE MC_BrowserCart ---------------------------
(* Instances of BrowserCart for TLC.                                       *)
EXTENDS BrowserCart, TLC

Symmetry == Permutations(Products) \cup Permutations(Tabs)
=============================================================================
