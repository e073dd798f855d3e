----------------------------- MODULE MC_Imports -----------------------------
(* Instances of Imports for TLC.                                           *)
EXTENDS Imports, TLC

CONSTANTS
    pen, cap,       \* barcodes
    acme, zeta,     \* brands
    red, blue       \* pictures

MCBarcodes == {pen, cap}
MCBrands == {acme, zeta}
MCImages == {red, blue}

Of(brand, price, images) == [brand |-> brand, price |-> price, images |-> images]

(* Both products with their pictures; one of them, with the other picture; *)
(* the other one under another brand, without a picture.                   *)
Both == [b \in {pen, cap} |-> IF b = pen THEN Of(acme, 1, {red}) ELSE Of(acme, 1, {red, blue})]
Pen  == [b \in {pen} |-> Of(acme, 2, {blue})]
Cap  == [b \in {cap} |-> Of(zeta, 1, {})]

(* Lists of one brand, with pictures that they share or replace.           *)
MCFewUploads == {[book |-> Both, size |-> 2], [book |-> Pen, size |-> 1]}

(* Lists of two brands, which a product may change.                       *)
MCMovedUploads == {[book |-> Both, size |-> 2], [book |-> Cap, size |-> 1]}

Symmetry == Permutations(Servers) \cup Permutations(Scripts)
=============================================================================
