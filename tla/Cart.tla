-------------------------------- MODULE Cart --------------------------------
(***************************************************************************)
(* The cart of a checkout form (normalize_checkout in shop/orders.py) and  *)
(* what create_checkout makes of it with a catalog.  The customer's fields *)
(* are validated and hashed like the cart, which stands for all of them.   *)
(***************************************************************************)
EXTENDS Integers, Sequences, FiniteSets, FiniteSetsExt

CONSTANTS
    Ids,            \* the product ids that browsers name
    Products,       \* ids of the table products, whose rows are never deleted
    Prices,         \* prices that an edit or an import may set
    MaxPrice,       \* MAX_PRICE_CENTS, 10^10 in the code
    MaxTotal,       \* MAX_TOTAL_CENTS, 10^12 in the code
    MaxLines,       \* MAX_LINES, 50 in the code
    MaxQuantity     \* MAX_QUANTITY, 999 in the code

ASSUME LimitsAssumption ==
    /\ MaxPrice \in Nat /\ MaxTotal \in Nat
    /\ MaxLines \in Nat /\ MaxQuantity \in Nat
ASSUME CatalogAssumption == Products \subseteq Ids /\ Prices \subseteq Nat

ProductRow == [active : BOOLEAN, price : Prices]

Catalogs == [Products -> ProductRow]

(* A normal cart names each product once, in no order that matters.        *)
Carts == UNION {[P -> 1..MaxQuantity] : P \in SUBSET Ids}

Item == [price : 0..MaxPrice, quantity : 1..MaxQuantity]

ItemSets == UNION {[P -> Item] : P \in SUBSET Products}

(* Mutant of Valid: quantities are not checked.                            *)
ValidAnyQuantity(raw) ==
    /\ Len(raw) \in 1..MaxLines
    /\ \A i, k \in DOMAIN raw : raw[i].id = raw[k].id => i = k

(* normalize_checkout refuses a cart with no line or too many lines, with  *)
(* a quantity out of range or with a product named twice.                  *)
Valid(raw) ==
    /\ Len(raw) \in 1..MaxLines
    /\ \A i \in DOMAIN raw : raw[i].quantity \in 1..MaxQuantity
    /\ \A i, k \in DOMAIN raw : raw[i].id = raw[k].id => i = k

(* The cart that is hashed and stored: the lines sorted by product, here   *)
(* the function from the products to their quantities.                     *)
Normal(raw) ==
    [p \in {raw[i].id : i \in DOMAIN raw} |->
        raw[CHOOSE i \in DOMAIN raw : raw[i].id = p].quantity]

(* The item rows that a cart gives with a catalog, and their sum.          *)
Priced(catalog, cart) ==
    [p \in DOMAIN cart |-> [price |-> catalog[p].price, quantity |-> cart[p]]]

Quantities(items) == [p \in DOMAIN items |-> items[p].quantity]

Total(items) ==
    MapThenSumSet(LAMBDA p : items[p].price * items[p].quantity, DOMAIN items)

(* Mutant of Orderable: the query forgets `active = 1'.                    *)
OrderableInactive(catalog, cart) ==
    /\ \A p \in DOMAIN cart : p \in Products /\ catalog[p].price \in 0..MaxPrice
    /\ Total(Priced(catalog, cart)) \in 0..MaxTotal

(* Every product is active, its price in range, and the sum within bounds. *)
Orderable(catalog, cart) ==
    /\ \A p \in DOMAIN cart :
          p \in Products /\ catalog[p].active /\ catalog[p].price \in 0..MaxPrice
    /\ Total(Priced(catalog, cart)) \in 0..MaxTotal
=============================================================================
