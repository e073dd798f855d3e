---------------------------- MODULE BrowserCart ----------------------------
(***************************************************************************)
(* The cart in the browser (static/js/shop.js).  All pages of the shop     *)
(* that are open share one cart in localStorage.  What a page does in one  *)
(* go is a step here; syncCart is two, for it reads the cart, awaits an    *)
(* answer of /api/products, and writes the cart.  A page renders what it   *)
(* has just read or written, and hears nothing of other pages; a checkout  *)
(* page submits the list that it rendered last.  Titles, pictures and      *)
(* prices, which the server decides again, are left out.                   *)
(***************************************************************************)
EXTENDS Integers, FiniteSets, Functions

CONSTANTS
    Products,
    Tabs,          \* bound: tabs of the browser
    MaxQuantity     \* MAX_QUANTITY, 999 in the code

ASSUME QuantityAssumption == MaxQuantity \in Nat \ {0}

VARIABLES
    active,     \* the products that the shop offers
    ordered,    \* whether an order was placed, so that there is a page of it
    cart,       \* the cart in localStorage: quantities, by product
    page,       \* the pages
    asked,      \* history: what the customer wanted last of each product
    chosen      \* history: the quantities that the customer has set

cartVars == <<active, ordered, cart, page, asked, chosen>>

Quantities == 1..MaxQuantity

Carts == UNION {[s -> Quantities] : s \in SUBSET Products}

EmptyCart == [x \in {} |-> 0]

(* Pages with product cards, the checkout, and the page of an order.       *)
PageKinds == {"shop", "checkout", "order"}

(* sync is where syncCart of that page is, and snapshot what it has read,  *)
(* or what the answer leaves of that.                                      *)
Page == [kind : PageKinds, shown : Carts, sync : {"idle", "asked", "answered"}, snapshot : Carts]

Closed == [kind |-> "closed"]

IsOpen(p) == page[p] # Closed

CartInit ==
    /\ active = Products
    /\ ordered = FALSE
    /\ cart = EmptyCart
    /\ page = [p \in Tabs |-> Closed]
    /\ asked = [x \in Products |-> "nothing"]
    /\ chosen = {}

-----------------------------------------------------------------------------
(* The cart with another quantity of a product; with 0 it is deleted.      *)
With(x, q) ==
    IF q = 0 THEN Restrict(cart, DOMAIN cart \ {x})
             ELSE [y \in DOMAIN cart \cup {x} |-> IF y = x THEN q ELSE cart[y]]

(* renderAll, which every handler that writes the cart ends with.          *)
Rendered(p) == page' = [page EXCEPT ![p].shown = cart']

(* A page is loaded, or loaded again: the page of an order empties the     *)
(* cart; then it renders, and syncCart asks unless the cart is empty.      *)
Open(p, kind) ==
    /\ kind = "order" => ordered
    /\ cart' = IF kind = "order" THEN EmptyCart ELSE cart
    /\ page' = [page EXCEPT ![p] =
          [kind |-> kind, shown |-> cart', snapshot |-> cart',
           sync |-> IF cart' = EmptyCart THEN "idle" ELSE "asked"]]
    /\ UNCHANGED <<active, ordered, asked, chosen>>

Close(p) ==
    /\ IsOpen(p)
    /\ page' = [page EXCEPT ![p] = Closed]
    /\ UNCHANGED <<active, ordered, cart, asked, chosen>>

(* /api/products keeps of the identifiers those of products on offer.      *)
AnswerSync(p) ==
    /\ IsOpen(p) /\ page[p].sync = "asked"
    /\ page' = [page EXCEPT ![p].sync = "answered",
                            ![p].snapshot = Restrict(@, DOMAIN @ \cap active)]
    /\ UNCHANGED <<active, ordered, cart, asked, chosen>>

(* Mutant of Sync: the quantities are those of productFromQuantityControl. *)
SyncOnes(p) ==
    /\ IsOpen(p) /\ page[p].sync = "answered"
    /\ cart' = [x \in DOMAIN page[p].snapshot |-> 1]
    /\ page' = [page EXCEPT ![p].shown = cart', ![p].sync = "idle", ![p].snapshot = EmptyCart]
    /\ UNCHANGED <<active, ordered, asked, chosen>>

(* The answer is there: the cart becomes what was read, as far as it is    *)
(* still on offer.                                                         *)
Sync(p) ==
    /\ IsOpen(p) /\ page[p].sync = "answered"
    /\ cart' = page[p].snapshot
    /\ page' = [page EXCEPT ![p].shown = cart', ![p].sync = "idle", ![p].snapshot = EmptyCart]
    /\ UNCHANGED <<active, ordered, asked, chosen>>

(* No answer, or an error: the cart is kept, and rendered.                 *)
SyncFails(p) ==
    /\ IsOpen(p) /\ page[p].sync # "idle"
    /\ page' = [page EXCEPT ![p].shown = cart, ![p].sync = "idle", ![p].snapshot = EmptyCart]
    /\ UNCHANGED <<active, ordered, cart, asked, chosen>>

Wants(x, q) ==
    /\ asked' = [asked EXCEPT ![x] = IF q = 0 THEN "out" ELSE "in"]
    /\ chosen' = IF q = 0 THEN chosen ELSE chosen \cup {<<x, q>>}

(* Mutant of SetProductQuantity: the page is not rendered again.           *)
SetProductQuantityUnseen(p, x, q) ==
    /\ IsOpen(p) /\ page[p].kind = "shop"
    /\ cart' = With(x, q)
    /\ Wants(x, q)
    /\ UNCHANGED <<active, ordered, page>>

(* On a card, with its buttons or by a number.                             *)
SetProductQuantity(p, x, q) ==
    /\ IsOpen(p) /\ page[p].kind = "shop"
    /\ cart' = With(x, q)
    /\ Rendered(p)
    /\ Wants(x, q)
    /\ UNCHANGED <<active, ordered>>

(* In the drawer, which any page has, on a product that it shows; nothing  *)
(* happens when that has left the cart meanwhile.                          *)
SetQuantity(p, x, q) ==
    /\ IsOpen(p)
    /\ x \in DOMAIN page[p].shown /\ x \in DOMAIN cart
    /\ cart' = With(x, q)
    /\ Rendered(p)
    /\ Wants(x, q)
    /\ UNCHANGED <<active, ordered>>

Clear(p) ==
    /\ IsOpen(p)
    /\ page[p].shown # EmptyCart        \* the footer with the button is hidden
    /\ cart' = EmptyCart
    /\ Rendered(p)
    /\ asked' = [x \in Products |-> "out"]
    /\ UNCHANGED <<active, ordered, chosen>>

(* The form is submitted while neither list nor cart is empty; the server  *)
(* takes an order of products on offer, and leads to its page.             *)
SubmitCart(p) ==
    /\ IsOpen(p) /\ page[p].kind = "checkout"
    /\ page[p].shown # EmptyCart /\ cart # EmptyCart
    /\ DOMAIN page[p].shown \subseteq active
    /\ ordered' = TRUE
    /\ asked' = [x \in Products |-> IF x \in DOMAIN page[p].shown THEN "nothing" ELSE asked[x]]
    /\ page' = [page EXCEPT ![p] = Closed]
    /\ UNCHANGED <<active, cart, chosen>>

(* A product is withdrawn, or offered again.                               *)
Offer(x) ==
    /\ active' = IF x \in active THEN active \ {x} ELSE active \cup {x}
    /\ UNCHANGED <<ordered, cart, page, asked, chosen>>

CartNext ==
    \/ \E x \in Products : Offer(x)
    \/ \E p \in Tabs :
          \/ \E kind \in PageKinds : Open(p, kind)
          \/ \E x \in Products, q \in 0..MaxQuantity :
                SetProductQuantity(p, x, q) \/ SetQuantity(p, x, q)
          \/ AnswerSync(p) \/ Sync(p) \/ SyncFails(p)
          \/ Clear(p) \/ SubmitCart(p) \/ Close(p)

CartSpec == CartInit /\ [][CartNext]_cartVars

-----------------------------------------------------------------------------
(* The variables have their types; no quantity of 0 is kept.               *)
CartTypeOK ==
    /\ active \subseteq Products
    /\ ordered \in BOOLEAN
    /\ cart \in Carts
    /\ \A p \in Tabs : IsOpen(p) => page[p] \in Page
    /\ asked \in [Products -> {"nothing", "in", "out"}]
    /\ chosen \subseteq Products \X Quantities

(* However the pages interfere, no page shows, and so no checkout submits, *)
(* a quantity of a product that the customer has not set.                  *)
ChosenOnly ==
    \A p \in Tabs : IsOpen(p) =>
        \A x \in DOMAIN page[p].shown : <<x, page[p].shown[x]>> \in chosen

(* While a page is the only one, what it shows, and its checkout submits,  *)
(* stays the cart that is stored, whatever handler or answer comes in.     *)
ShownStaysStored ==
    [][\A p \in Tabs :
          /\ IsOpen(p) /\ IsOpen(p)'
          /\ \A q \in Tabs \ {p} : ~IsOpen(q) /\ ~IsOpen(q)'
          /\ page[p].shown = cart
          => page'[p].shown = cart']_cartVars

(* docs/TEST_REPORT.md: a quantity of 0 removes the product from the cart, *)
(* and it stays away until the customer wants it again.                    *)
ZeroRemoves == \A x \in Products : asked[x] = "out" => x \notin DOMAIN cart
=============================================================================
