----------------------------- MODULE Storefront -----------------------------
(***************************************************************************)
(* What imports promise, without slots, transactions, temporary files and  *)
(* failures: the catalog changes by one whole price list at a time, or by  *)
(* an edit of one product, and every picture that it shows is on disk.     *)
(***************************************************************************)
CONSTANTS
    Barcodes, Brands, Prices, Images,
    Workbooks       \* the price lists there are

VARIABLES
    catalog,    \* the table products, by barcode
    media       \* the pictures on disk

(* A price list in force: its products are on sale as it says; products it *)
(* does not name stay as they were, unless it is the full list of their    *)
(* brand, and then they are off sale.                                      *)
InForce(old, new, book, full) ==
    /\ DOMAIN new = DOMAIN old \cup DOMAIN book
    /\ \A b \in DOMAIN book :
          new[b] = [brand |-> book[b].brand, price |-> book[b].price,
                    images |-> book[b].images, active |-> TRUE]
    /\ \A b \in DOMAIN old \ DOMAIN book :
          IF full /\ \E x \in DOMAIN book : book[x].brand = old[b].brand
          THEN new[b] = [old[b] EXCEPT !.active = FALSE]
          ELSE new[b] = old[b]

Pictures(table) == UNION {table[b].images : b \in DOMAIN table}

Init ==
    /\ DOMAIN catalog = {}
    /\ media = {}

Import(book, full) ==
    /\ InForce(catalog, catalog', book, full)
    /\ Pictures(catalog) \cup Pictures(catalog') \subseteq media'

Edit(b, price, active) ==
    /\ b \in DOMAIN catalog
    /\ catalog' = [catalog EXCEPT ![b].price = price, ![b].active = active]
    /\ UNCHANGED media

(* Pictures of price lists that are being written, or were not.            *)
Files ==
    /\ Pictures(catalog) \subseteq media'
    /\ UNCHANGED catalog

Next ==
    \/ \E book \in Workbooks, full \in BOOLEAN : Import(book, full)
    \/ \E b \in Barcodes, price \in Prices, active \in BOOLEAN : Edit(b, price, active)
    \/ Files

Spec == Init /\ [][Next]_<<catalog, media>>
=============================================================================
