------------------------------- MODULE Ledger -------------------------------
(***************************************************************************)
(* What placing orders promises, without calls, locks and transactions: a  *)
(* book with at most one entry for each checkout identity, written once,   *)
(* whole and at the prices of that moment, and told to the browser only    *)
(* for the cart it was written for.                                        *)
(***************************************************************************)
CONSTANTS
    Identities,         \* of checkouts: a session's scope and a page's key
    Catalogs,           \* what may be for sale
    Orderable(_, _),    \* whether a catalog allows an order of a cart
    Priced(_, _),       \* the items that a cart means in a catalog
    Total(_)            \* what items cost

VARIABLES
    catalog,    \* what is for sale
    book,       \* the orders, by identity
    told        \* the entries that browsers were told of

Told(identity, cart, number) ==
    [identity |-> identity, payload |-> cart, order |-> number]

Init ==
    /\ catalog \in Catalogs
    /\ DOMAIN book = {}
    /\ told = {}

(* An entry with a number of its own, priced as the catalog says.          *)
Entered(entry) ==
    /\ entry.order \notin {book[i].order : i \in DOMAIN book}
    /\ Orderable(catalog, entry.payload)
    /\ entry.items = Priced(catalog, entry.payload)
    /\ entry.total = Total(entry.items)
    /\ entry.notice \in {"pending", "disabled"}

Place(identity) ==
    /\ identity \notin DOMAIN book
    /\ DOMAIN book' = DOMAIN book \cup {identity}
    /\ \A i \in DOMAIN book : book'[i] = book[i]
    /\ Entered(book'[identity])
    /\ UNCHANGED <<catalog, told>>

Tell(identity) ==
    /\ identity \in DOMAIN book
    /\ told' = told \cup
                 {Told(identity, book[identity].payload, book[identity].order)}
    /\ UNCHANGED <<catalog, book>>

Edit ==
    /\ catalog' \in Catalogs
    /\ UNCHANGED <<book, told>>

Next == Edit \/ \E identity \in Identities : Place(identity) \/ Tell(identity)

Spec == Init /\ [][Next]_<<catalog, book, told>>
=============================================================================
