------------------------------ MODULE Checkout ------------------------------
(***************************************************************************)
(* Placing an order (shop/orders.py create_checkout, called by the POST    *)
(* handler of shop/app.py in a worker thread of some server process).      *)
(*                                                                         *)
(* A checkout is identified by the guest session's scope and the           *)
(* idempotency key of the rendered page.  A browser may submit the same    *)
(* identity any number of times, at once or one after the other, with the  *)
(* same cart or another: double clicks, reloads and retries after a lost   *)
(* answer.  The writers of the database, here the calls and the catalog    *)
(* (an administrator's edit or a price import), exclude each other by      *)
(* BEGIN IMMEDIATE; a transaction that does not commit leaves no trace.    *)
(***************************************************************************)
EXTENDS Cart

CONSTANTS
    Calls,          \* the server threads that run create_checkout
    Scopes,         \* guest sessions
    Keys,           \* idempotency keys
    RawCarts        \* the cart_json values that browsers submit

ASSUME FormsAssumption == RawCarts \subseteq Seq([id : Ids, quantity : Int])
ASSUME WritersAssumption == "free" \notin Calls /\ "catalog" \notin Calls

VARIABLES
    products,   \* the table products
    orders,     \* the tables orders and order_items, in id order
    requests,   \* the table checkout_requests
    outbox,     \* the rows that checkouts put in notification_outbox
    lock,       \* who holds SQLite's write lock
    call,       \* the local variables of each call
    answers     \* history: the successful answers that calls returned

vars == <<products, orders, requests, outbox, lock, call, answers>>

Identity == Scopes \X Keys

Order == [identity : Identity, items : ItemSets, total : 0..MaxTotal]

Request == [identity : Identity, payload : Carts, order : Nat \ {0}]

OutboxRow == [order : Nat \ {0}, status : {"pending", "disabled"}]

NoIdentity == <<"none", "none">>

EmptyCart == [p \in {} |-> 0]

PCs == {"idle", "begin", "lookup", "commit", "answer"}

Local == [pc : PCs, identity : Identity \cup {NoIdentity}, payload : Carts,
          items : ItemSets, order : Nat]

Idle == [pc |-> "idle", identity |-> NoIdentity, payload |-> EmptyCart,
         items |-> EmptyCart, order |-> 0]

-----------------------------------------------------------------------------
(* The row of checkout_requests for an identity, if there is one.          *)
Recorded(identity) == {r \in requests : r.identity = identity}

(* The order with its items that a call inserts.                           *)
Ordering(c) ==
    [identity |-> call[c].identity, items |-> call[c].items,
     total |-> Total(call[c].items)]

(* The row of checkout_requests that a call inserts, and the answer that   *)
(* it gives, which stands for the redirection to the order's page.         *)
Recording(c, id) ==
    [identity |-> call[c].identity, payload |-> call[c].payload, order |-> id]

Answered(c) == Recording(c, call[c].order)

(* The locals of a call: with its arguments, with the lock, with the rows  *)
(* it has inserted, with the order it answers.                             *)
Called(identity, payload) ==
    [Idle EXCEPT !.pc = "begin", !.identity = identity, !.payload = payload]

Locked(c) == [call[c] EXCEPT !.pc = "lookup"]

Inserting(c) ==
    [call[c] EXCEPT !.pc = "commit", !.items = Priced(products, call[c].payload)]

Answering(c, id) == [call[c] EXCEPT !.pc = "answer", !.order = id]

-----------------------------------------------------------------------------
Init ==
    /\ products \in Catalogs
    /\ orders = << >>
    /\ requests = {}
    /\ outbox = << >>
    /\ lock = "free"
    /\ call = [c \in Calls |-> Idle]
    /\ answers = {}

(* A form arrives; an invalid cart is answered with 400 at once.           *)
Submit(c, identity, raw) ==
    /\ call[c].pc = "idle"
    /\ Valid(raw)
    /\ call' = [call EXCEPT ![c] = Called(identity, Normal(raw))]
    /\ UNCHANGED <<products, orders, requests, outbox, lock, answers>>

(* Mutant of Begin: BEGIN DEFERRED does not wait for the lock.             *)
BeginDeferred(c) ==
    /\ call[c].pc = "begin"
    /\ lock' = c
    /\ call' = [call EXCEPT ![c] = Locked(c)]
    /\ UNCHANGED <<products, orders, requests, outbox, answers>>

(* BEGIN IMMEDIATE                                                         *)
Begin(c) ==
    /\ call[c].pc = "begin"
    /\ lock = "free"
    /\ lock' = c
    /\ call' = [call EXCEPT ![c] = Locked(c)]
    /\ UNCHANGED <<products, orders, requests, outbox, answers>>

(* The lock was not free for 3 seconds: the answer is 503.                 *)
Busy(c) ==
    /\ call[c].pc = "begin"
    /\ lock # "free"
    /\ call' = [call EXCEPT ![c] = Idle]
    /\ UNCHANGED <<products, orders, requests, outbox, lock, answers>>

(* Mutant of Replay: the payload is not compared.                          *)
ReplayAnyPayload(c) ==
    /\ call[c].pc = "lookup"
    /\ \E r \in Recorded(call[c].identity) :
          call' = [call EXCEPT ![c] = Answering(c, r.order)]
    /\ lock' = "free"
    /\ UNCHANGED <<products, orders, requests, outbox, answers>>

(* The identity is recorded with this payload: the same order again.       *)
Replay(c) ==
    /\ call[c].pc = "lookup"
    /\ \E r \in Recorded(call[c].identity) :
          /\ r.payload = call[c].payload
          /\ call' = [call EXCEPT ![c] = Answering(c, r.order)]
    /\ lock' = "free"
    /\ UNCHANGED <<products, orders, requests, outbox, answers>>

(* The identity is recorded with another payload: the answer is 409.       *)
Conflict(c) ==
    /\ call[c].pc = "lookup"
    /\ \E r \in Recorded(call[c].identity) : r.payload # call[c].payload
    /\ lock' = "free"
    /\ call' = [call EXCEPT ![c] = Idle]
    /\ UNCHANGED <<products, orders, requests, outbox, answers>>

(* Mutant of Refuse: the exception leaves the transaction open.            *)
RefuseLocked(c) ==
    /\ call[c].pc = "lookup"
    /\ Recorded(call[c].identity) = {}
    /\ ~Orderable(products, call[c].payload)
    /\ call' = [call EXCEPT ![c] = Idle]
    /\ UNCHANGED <<products, orders, requests, outbox, lock, answers>>

(* A product is gone or dear: the transaction rolls back, with 400.        *)
Refuse(c) ==
    /\ call[c].pc = "lookup"
    /\ Recorded(call[c].identity) = {}
    /\ ~Orderable(products, call[c].payload)
    /\ lock' = "free"
    /\ call' = [call EXCEPT ![c] = Idle]
    /\ UNCHANGED <<products, orders, requests, outbox, answers>>

(* The prices are read and the rows inserted, in the open transaction.     *)
Insert(c) ==
    /\ call[c].pc = "lookup"
    /\ Recorded(call[c].identity) = {}
    /\ Orderable(products, call[c].payload)
    /\ call' = [call EXCEPT ![c] = Inserting(c)]
    /\ UNCHANGED <<products, orders, requests, outbox, lock, answers>>

(* Mutant of Commit: no outbox row when notifications are off.             *)
CommitSilent(c, status) ==
    LET id == Len(orders) + 1
    IN  /\ call[c].pc = "commit"
        /\ orders' = Append(orders, Ordering(c))
        /\ requests' = requests \cup {Recording(c, id)}
        /\ outbox' = IF status = "disabled" THEN outbox
                     ELSE Append(outbox, [order |-> id, status |-> status])
        /\ lock' = "free"
        /\ call' = [call EXCEPT ![c] = Answering(c, id)]
        /\ UNCHANGED <<products, answers>>

(* The transaction commits: the order with its items, the identity of the  *)
(* checkout and the outbox row appear together.                            *)
Commit(c, status) ==
    LET id == Len(orders) + 1
    IN  /\ call[c].pc = "commit"
        /\ orders' = Append(orders, Ordering(c))
        /\ requests' = requests \cup {Recording(c, id)}
        /\ outbox' = Append(outbox, [order |-> id, status |-> status])
        /\ lock' = "free"
        /\ call' = [call EXCEPT ![c] = Answering(c, id)]
        /\ UNCHANGED <<products, answers>>

(* The browser is redirected to the order's page.                          *)
Answer(c) ==
    /\ call[c].pc = "answer"
    /\ answers' = answers \cup {Answered(c)}
    /\ call' = [call EXCEPT ![c] = Idle]
    /\ UNCHANGED <<products, orders, requests, outbox, lock>>

(* A database error, or the death of the process: an open transaction is   *)
(* rolled back; the browser does not learn what became of its order.       *)
Fail(c) ==
    /\ call[c].pc # "idle"
    /\ lock' = IF lock = c THEN "free" ELSE lock
    /\ call' = [call EXCEPT ![c] = Idle]
    /\ UNCHANGED <<products, orders, requests, outbox, answers>>

(* An edit or an import takes the lock, and commits any new catalog.       *)
CatalogBegin ==
    /\ lock = "free"
    /\ lock' = "catalog"
    /\ UNCHANGED <<products, orders, requests, outbox, call, answers>>

CatalogCommit(catalog) ==
    /\ lock = "catalog"
    /\ products' = catalog
    /\ lock' = "free"
    /\ UNCHANGED <<orders, requests, outbox, call, answers>>

CallStep(c) ==
    \/ Begin(c) \/ Busy(c)
    \/ Replay(c) \/ Conflict(c) \/ Refuse(c) \/ Insert(c)
    \/ \E status \in {"pending", "disabled"} : Commit(c, status)
    \/ Answer(c)

Next ==
    \/ \E c \in Calls :
          \/ \E identity \in Identity, raw \in RawCarts : Submit(c, identity, raw)
          \/ CallStep(c)
          \/ Fail(c)
    \/ CatalogBegin
    \/ \E catalog \in Catalogs : CatalogCommit(catalog)

Spec == Init /\ [][Next]_vars

(* A thread that runs a call goes on until the call has returned.          *)
FairSpec == Spec /\ \A c \in Calls : WF_vars(CallStep(c))

-----------------------------------------------------------------------------
(* The variables have their types.                                         *)
TypeOK ==
    /\ products \in Catalogs
    /\ orders \in Seq(Order)
    /\ requests \subseteq Request
    /\ outbox \in Seq(OutboxRow)
    /\ lock \in Calls \cup {"free", "catalog"}
    /\ call \in [Calls -> Local]
    /\ answers \subseteq Request

(* Double clicks, reloads and retries make one order: no two orders have   *)
(* the same scope and key.                                                 *)
OneOrderPerIdentity ==
    \A i, k \in DOMAIN orders : orders[i].identity = orders[k].identity => i = k

(* Nothing of an order is ever visible without the rest: each order has    *)
(* one record of its identity, with the quantities that were ordered, and  *)
(* one outbox row; no record and no outbox row stands without its order.   *)
CommittedTogether ==
    /\ DOMAIN outbox = DOMAIN orders
    /\ \A i \in DOMAIN outbox : outbox[i].order = i
    /\ \A r \in requests : r.order \in DOMAIN orders
    /\ \A i \in DOMAIN orders :
          {r \in requests : r.order = i} =
             {[identity |-> orders[i].identity,
               payload  |-> Quantities(orders[i].items),
               order    |-> i]}

(* Whoever is told that a checkout succeeded is told of an order that      *)
(* exists, has that identity and holds what this very form asked for; two  *)
(* answers to the same identity name the same order.                       *)
AnswersAgree ==
    /\ \A a \in answers :
          /\ a.order \in DOMAIN orders
          /\ orders[a.order].identity = a.identity
          /\ a.payload = Quantities(orders[a.order].items)
    /\ \A a, b \in answers : a.identity = b.identity => a.order = b.order

(* An order is charged what the catalog says at the moment it commits:     *)
(* every product active, every price current, the total their sum; no edit *)
(* or import comes between reading the prices and storing them.            *)
PricedAtCommit ==
    [][\A i \in DOMAIN orders' \ DOMAIN orders :
          LET items == orders'[i].items
          IN  /\ \A p \in DOMAIN items :
                    products[p] = [active |-> TRUE, price |-> items[p].price]
              /\ orders'[i].total = Total(items)
              /\ orders'[i].total <= MaxTotal]_vars

(* Orders are kept: nothing that comes later, a replay after a change of   *)
(* price included, changes or removes an order or its identity.            *)
OrdersKept ==
    [][/\ \A i \in DOMAIN orders : i \in DOMAIN orders' /\ orders'[i] = orders[i]
       /\ requests \subseteq requests']_vars

(* The locals of a call inside its transaction are what the database says: *)
(* nothing that it has read can have changed.                              *)
Current(c) ==
    /\ call[c].pc \in {"lookup", "commit"} <=> lock = c
    /\ call[c].pc # "idle" => call[c].identity \in Identity
    /\ call[c].pc = "commit"
         => /\ Recorded(call[c].identity) = {}
            /\ Orderable(products, call[c].payload)
            /\ call[c].items = Priced(products, call[c].payload)
    /\ call[c].pc = "answer" => Answered(c) \in requests

(* The invariant that is inductive.                                        *)
IInv ==
    /\ TypeOK
    /\ \A c \in Calls : Current(c)
    /\ answers \subseteq requests
    /\ OneOrderPerIdentity
    /\ CommittedTogether

(* No call keeps the database locked: every transaction that a call opens  *)
(* is ended, by a replay, a conflict, a refusal, a failure or a commit.    *)
LockReleased == \A c \in Calls : lock = c ~> lock # c

(* Checkouts implement the book of orders: each appears at once and whole. *)
Book ==
    [identity \in {r.identity : r \in requests} |->
        LET r == CHOOSE r \in requests : r.identity = identity
        IN  [order |-> r.order, payload |-> r.payload,
             items |-> orders[r.order].items, total |-> orders[r.order].total,
             notice |-> outbox[r.order].status]]

Promise ==
    INSTANCE Ledger WITH Identities <- Identity, catalog <- products,
                         book <- Book, told <- answers
                         \* and the operators of Cart for those of Ledger

ImplementsLedger == Promise!Spec
=============================================================================
