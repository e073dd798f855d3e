----------------------------- MODULE MC_Checkout -----------------------------
(* Instances of Checkout for TLC.                                          *)
EXTENDS Checkout, TLC

CONSTANTS pen, ghost  \* a product, and an id that the table lacks

Line(p, n) == [id |-> p, quantity |-> n]

(* Two forms for one product; and what must be refused: a quantity of zero,*)
(* a product named twice, a second line with an id that is not for sale.   *)
MCRawCarts == {<<Line(pen, 1)>>,
               <<Line(pen, 2)>>,
               <<Line(pen, 0)>>,
               <<Line(pen, 1), Line(pen, 1)>>,
               <<Line(pen, 1), Line(ghost, 1)>>}

MCIds == {pen, ghost}
=============================================================================
