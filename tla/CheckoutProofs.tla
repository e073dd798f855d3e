--------------------------- MODULE CheckoutProofs ---------------------------
(***************************************************************************)
(* Theorems about Checkout: the invariants, what a step may never do, and  *)
(* that checkouts implement the book of orders of module Ledger.  The sum  *)
(* Total is never expanded: the proofs use only that it was checked.       *)
(***************************************************************************)
EXTENDS Checkout, SequenceTheorems, TLAPS

-----------------------------------------------------------------------------
(* A form that normalize_checkout accepts has a normal cart.               *)
LEMMA NormalType ==
    ASSUME NEW raw \in RawCarts, Valid(raw) PROVE Normal(raw) \in Carts
<1> DEFINE P == {raw[i].id : i \in DOMAIN raw}
           line(p) == CHOOSE i \in DOMAIN raw : raw[i].id = p
<1>1. raw \in Seq([id : Ids, quantity : Int])
  BY FormsAssumption
<1>2. ASSUME NEW i \in DOMAIN raw
      PROVE  raw[i].id \in Ids /\ raw[i].quantity \in 1..MaxQuantity
  <2>1. raw[i] \in [id : Ids, quantity : Int]
    BY <1>1, ElementOfSeq, LenProperties
  <2> QED
    BY <2>1 DEF Valid
<1>3. P \in SUBSET Ids
  BY <1>2
<1>4. ASSUME NEW p \in P PROVE line(p) \in DOMAIN raw
  OBVIOUS
<1>5. ASSUME NEW p \in P PROVE raw[line(p)].quantity \in 1..MaxQuantity
  BY <1>2, <1>4
<1>6. Normal(raw) \in [P -> 1..MaxQuantity]
  BY <1>5 DEF Normal
<1> QED
  BY <1>3, <1>6 DEF Carts

(* The item rows of an orderable cart, and their sum, are within bounds.   *)
LEMMA PricedType ==
    ASSUME NEW catalog \in Catalogs, NEW cart \in Carts, Orderable(catalog, cart)
    PROVE  /\ Priced(catalog, cart) \in ItemSets
           /\ Total(Priced(catalog, cart)) \in 0..MaxTotal
<1>1. PICK P \in SUBSET Ids : cart \in [P -> 1..MaxQuantity]
  BY DEF Carts
<1>2. DOMAIN cart = P /\ P \in SUBSET Products
  BY <1>1 DEF Orderable
<1>3. ASSUME NEW p \in P
      PROVE  [price |-> catalog[p].price, quantity |-> cart[p]] \in Item
  BY <1>1, <1>2 DEF Orderable, Item
<1>4. Priced(catalog, cart) \in [P -> Item]
  BY <1>2, <1>3 DEF Priced
<1> QED
  BY <1>2, <1>4 DEF ItemSets, Orderable

(* The stored quantities are those of the cart.                            *)
LEMMA QuantitiesOfPriced ==
    ASSUME NEW catalog, NEW cart \in Carts
    PROVE  Quantities(Priced(catalog, cart)) = cart
<1>1. PICK P \in SUBSET Ids : cart \in [P -> 1..MaxQuantity]
  BY DEF Carts
<1>2. DOMAIN Priced(catalog, cart) = P
  BY <1>1 DEF Priced
<1>3. \A p \in P : Priced(catalog, cart)[p].quantity = cart[p]
  BY <1>1 DEF Priced
<1>4. Quantities(Priced(catalog, cart)) = [p \in P |-> cart[p]]
  BY <1>2, <1>3 DEF Quantities
<1> QED
  BY <1>1, <1>4

(* An idle call is a call.                                                 *)
LEMMA IdleType == Idle \in Local
<1>1. EmptyCart \in Carts
  BY DEF EmptyCart, Carts
<1>2. EmptyCart \in ItemSets
  BY DEF EmptyCart, ItemSets
<1> QED
  BY <1>1, <1>2 DEF Idle, Local, PCs

(* What a call's locals become when it moves on.                           *)
LEMMA CalledFields ==
    ASSUME NEW identity \in Identity, NEW cart \in Carts
    PROVE  /\ Called(identity, cart) \in Local
           /\ Called(identity, cart).pc = "begin"
           /\ Called(identity, cart).identity = identity
  BY IdleType DEF Called, Local, PCs

(* A call that has the lock keeps its arguments.                           *)
LEMMA LockedFields ==
    ASSUME NEW c \in Calls, call[c] \in Local
    PROVE  /\ Locked(c) \in Local
           /\ Locked(c).pc = "lookup"
           /\ Locked(c).identity = call[c].identity
           /\ Locked(c).payload = call[c].payload
  BY DEF Locked, Local, PCs

(* A call that has read the prices keeps its arguments and the item rows.  *)
LEMMA InsertingFields ==
    ASSUME NEW c \in Calls, call[c] \in Local,
           Priced(products, call[c].payload) \in ItemSets
    PROVE  /\ Inserting(c) \in Local
           /\ Inserting(c).pc = "commit"
           /\ Inserting(c).identity = call[c].identity
           /\ Inserting(c).payload = call[c].payload
           /\ Inserting(c).items = Priced(products, call[c].payload)
  BY DEF Inserting, Local, PCs

(* A call that has its answer keeps its arguments and the order's id.      *)
LEMMA AnsweringFields ==
    ASSUME NEW c \in Calls, call[c] \in Local, NEW id \in Nat
    PROVE  /\ Answering(c, id) \in Local
           /\ Answering(c, id).pc = "answer"
           /\ Answering(c, id).identity = call[c].identity
           /\ Answering(c, id).payload = call[c].payload
           /\ Answering(c, id).order = id
  BY DEF Answering, Local, PCs

-----------------------------------------------------------------------------
(* The initial states satisfy the invariant.                               *)
LEMMA InitInv == Init => IInv
<1> SUFFICES ASSUME Init PROVE IInv
  OBVIOUS
<1>1. TypeOK
  BY IdleType, EmptySeq DEF Init, TypeOK
<1>2. ASSUME NEW c \in Calls PROVE Current(c)
  BY WritersAssumption DEF Init, Current, Idle
<1>3. OneOrderPerIdentity /\ CommittedTogether
  BY DEF Init, OneOrderPerIdentity, CommittedTogether
<1> QED
  BY <1>1, <1>2, <1>3 DEF IInv, Init

(* A call that another one's step does not touch stays as it is, if the    *)
(* step leaves alone what a holder of the lock has read.                   *)
LEMMA OthersCurrent ==
    ASSUME NEW d \in Calls, Current(d), call'[d] = call[d],
           lock' = d <=> lock = d,
           requests \subseteq requests',
           lock = d => products' = products /\ requests' = requests
    PROVE  Current(d)'
<1>1. Answered(d) = Answered(d)'
  BY DEF Answered, Recording
<1>2. CASE call[d].pc = "commit"
  <2>1. lock = d /\ products' = products /\ requests' = requests
    BY <1>2 DEF Current
  <2>2. Recorded(call[d].identity)' = Recorded(call[d].identity)
    BY <2>1 DEF Recorded
  <2> QED
    BY <1>2, <2>1, <2>2 DEF Current
<1>3. CASE call[d].pc # "commit"
  BY <1>1, <1>3 DEF Current
<1> QED
  BY <1>2, <1>3

(* A step that changes the locals of one call, and at most the lock and    *)
(* the answers, preserves the invariant if that call is well afterwards.   *)
LEMMA CallStepInv ==
    ASSUME IInv, NEW c \in Calls, NEW l \in Local,
           call' = [call EXCEPT ![c] = l],
           UNCHANGED <<products, orders, requests, outbox>>,
           lock' = lock \/ (lock \in {"free", c} /\ lock' \in {"free", c}),
           answers' \subseteq requests,
           Current(c)'
    PROVE  IInv'
<1>1. TypeOK'
  BY DEF IInv, TypeOK
<1>2. ASSUME NEW d \in Calls PROVE Current(d)'
  <2>1. CASE d = c
    BY <2>1
  <2>2. CASE d # c
    <3>1. call'[d] = call[d]
      BY <2>2 DEF IInv, TypeOK
    <3>2. lock' = d <=> lock = d
      BY <2>2, WritersAssumption
    <3> QED
      BY <3>1, <3>2, OthersCurrent DEF IInv
  <2> QED
    BY <2>1, <2>2
<1>3. OneOrderPerIdentity' /\ CommittedTogether'
  BY DEF IInv, OneOrderPerIdentity, CommittedTogether
<1> QED
  BY <1>1, <1>2, <1>3 DEF IInv
(* A form that arrives, the lock taken or missed, a failure.               *)
LEMMA SubmitInv ==
    ASSUME IInv, NEW c \in Calls, NEW identity \in Identity,
           NEW raw \in RawCarts, Submit(c, identity, raw)
    PROVE  IInv'
<1> DEFINE l == Called(identity, Normal(raw))
<1>1. Normal(raw) \in Carts
  BY NormalType DEF Submit
<1>2. l \in Local /\ l.pc = "begin" /\ l.identity = identity
  BY <1>1, CalledFields
<1>3. call'[c] = l
  BY DEF Submit, IInv, TypeOK
<1>4. lock # c
  BY DEF Submit, IInv, Current
<1>5. Current(c)'
  BY <1>2, <1>3, <1>4 DEF Submit, Current
<1> HIDE DEF l
<1> QED
  BY <1>2, <1>5, CallStepInv DEF Submit, l, IInv

(* A call whose locals are dropped, with the lock if it has it.            *)
LEMMA DroppedInv ==
    ASSUME IInv, NEW c \in Calls,
           call' = [call EXCEPT ![c] = Idle],
           UNCHANGED <<products, orders, requests, outbox>>,
           lock' = IF lock = c THEN "free" ELSE lock,
           answers' \subseteq requests
    PROVE  IInv'
<1>1. call'[c] = Idle /\ Idle.pc = "idle"
  BY DEF IInv, TypeOK, Idle
<1>2. lock' # c
  BY WritersAssumption
<1>3. Current(c)'
  BY <1>1, <1>2 DEF Current
<1> QED
  BY <1>3, IdleType, CallStepInv

(* BEGIN IMMEDIATE takes the free lock.                                    *)
LEMMA BeginInv ==
    ASSUME IInv, NEW c \in Calls, Begin(c) PROVE IInv'
<1>1. call[c] \in Local /\ call[c].identity \in Identity
  BY DEF IInv, TypeOK, Current, Begin
<1>2. call'[c] = Locked(c)
  BY DEF IInv, TypeOK, Begin
<1>3. Current(c)'
  BY <1>1, <1>2, LockedFields DEF Current, Begin
<1> QED
  BY <1>1, <1>3, LockedFields, CallStepInv DEF Begin, IInv

(* A replay answers with the order of the recorded request.                *)
LEMMA ReplayInv ==
    ASSUME IInv, NEW c \in Calls, Replay(c) PROVE IInv'
<1>1. PICK r \in Recorded(call[c].identity) :
         r.payload = call[c].payload /\ call' = [call EXCEPT ![c] = Answering(c, r.order)]
  BY DEF Replay
<1> DEFINE l == Answering(c, r.order)
<1>2. call[c] \in Local /\ call[c].identity \in Identity /\ lock = c
  BY DEF IInv, TypeOK, Current, Replay
<1>3. r \in requests /\ r \in Request /\ r.identity = call[c].identity /\ r.order \in Nat
  BY DEF Recorded, IInv, TypeOK, Request
<1>4. /\ l \in Local /\ l.pc = "answer" /\ l.identity = call[c].identity
      /\ l.payload = call[c].payload /\ l.order = r.order
  BY <1>2, <1>3, AnsweringFields
<1>5. call'[c] = l
  BY <1>1 DEF IInv, TypeOK
<1> HIDE DEF l
<1>6. Answered(c)' = r
  BY <1>1, <1>3, <1>4, <1>5 DEF Answered, Recording, Request
<1>7. lock' = "free" /\ lock' # c /\ requests' = requests
  BY WritersAssumption DEF Replay
<1>8. Current(c)'
  BY <1>2, <1>3, <1>4, <1>5, <1>6, <1>7 DEF Current
<1> QED
  BY <1>1, <1>2, <1>4, <1>7, <1>8, CallStepInv DEF Replay, IInv, l

(* Prices are read: until the commit, nobody else has the lock.            *)
LEMMA InsertInv ==
    ASSUME IInv, NEW c \in Calls, Insert(c) PROVE IInv'
<1>1. /\ call[c] \in Local /\ call[c].identity \in Identity /\ lock = c
      /\ call[c].payload \in Carts /\ products \in Catalogs
  BY DEF IInv, TypeOK, Current, Insert, Local
<1>2. Priced(products, call[c].payload) \in ItemSets
  BY <1>1, PricedType DEF Insert
<1> DEFINE l == Inserting(c)
<1>3. /\ l \in Local /\ l.pc = "commit" /\ l.identity = call[c].identity
      /\ l.payload = call[c].payload /\ l.items = Priced(products, call[c].payload)
  BY <1>1, <1>2, InsertingFields
<1>4. call'[c] = l /\ call' = [call EXCEPT ![c] = l]
  BY DEF IInv, TypeOK, Insert
<1> HIDE DEF l
<1>5. UNCHANGED <<products, orders, requests, outbox, lock, answers>>
  BY DEF Insert
<1>6. Recorded(call[c].identity)' = {}
  <2>1. {r \in requests : r.identity = call[c].identity} = {}
    BY DEF Insert, Recorded
  <2> QED
    BY <1>3, <1>4, <1>5, <2>1 DEF Recorded
<1>7. Current(c)'
  <2>1. Orderable(products, call[c].payload)
    BY DEF Insert
  <2> QED
    BY <1>1, <1>3, <1>4, <1>5, <1>6, <2>1 DEF Current
<1> QED
  BY <1>3, <1>4, <1>5, <1>7, CallStepInv DEF IInv
(* What a commit appends, row by row.                                      *)
LEMMA CommitEffect ==
    ASSUME IInv, NEW c \in Calls, NEW status \in {"pending", "disabled"},
           Commit(c, status)
    PROVE  LET id    == Len(orders) + 1
               order == Ordering(c)
           IN
           /\ orders' \in Seq(Order) /\ outbox' \in Seq(OutboxRow)
           /\ id \in Nat \ {0} /\ id \notin DOMAIN orders
           /\ DOMAIN orders' = DOMAIN orders \cup {id}
           /\ DOMAIN outbox' = DOMAIN orders'
           /\ orders'[id] = order
           /\ outbox'[id] = [order |-> id, status |-> status]
           /\ \A i \in DOMAIN orders : orders'[i] = orders[i] /\ outbox'[i] = outbox[i]
           /\ requests' = requests \cup {Recording(c, id)}
           /\ Recording(c, id) \in Request
           /\ Quantities(order.items) = call[c].payload
           /\ Orderable(products, call[c].payload)
           /\ call[c].items = Priced(products, call[c].payload)
<1> DEFINE id == Len(orders) + 1
           order == Ordering(c)
<1>1. /\ orders \in Seq(Order) /\ outbox \in Seq(OutboxRow) /\ products \in Catalogs
      /\ call[c] \in Local /\ call[c].identity \in Identity /\ call[c].payload \in Carts
  BY DEF IInv, TypeOK, Current, Commit, Local
<1>2. Orderable(products, call[c].payload) /\ call[c].items = Priced(products, call[c].payload)
  BY DEF IInv, Current, Commit
<1>3. call[c].items \in ItemSets /\ Total(call[c].items) \in 0..MaxTotal
  BY <1>1, <1>2, PricedType
<1>4. order \in Order
  BY <1>1, <1>3 DEF Order, Ordering
<1>5. Len(orders) \in Nat /\ Len(outbox) \in Nat
      /\ DOMAIN orders = 1..Len(orders) /\ DOMAIN outbox = 1..Len(outbox)
  BY <1>1, LenProperties
<1>6. DOMAIN outbox = DOMAIN orders
  BY DEF IInv, CommittedTogether
<1>7. Len(outbox) = Len(orders)
  <2>1. ASSUME NEW m \in Nat, NEW n \in Nat, 1..m = 1..n PROVE ~(m < n)
    <3>1. ASSUME m < n PROVE FALSE
      <4>1. n \in 1..n /\ n \notin 1..m
        BY <3>1
      <4> QED
        BY <2>1, <4>1
    <3> QED
      BY <3>1
  <2> DEFINE a == Len(orders)
             b == Len(outbox)
  <2>2. a \in Nat /\ b \in Nat /\ 1..a = 1..b
    BY <1>5, <1>6
  <2> HIDE DEF a, b
  <2>3. ~(a < b) /\ ~(b < a)
    BY <2>1, <2>2
  <2>4. a = b
    BY <2>2, <2>3
  <2> QED
    BY <2>4 DEF a, b
<1> DEFINE row == [order |-> id, status |-> status]
<1>8. row \in OutboxRow
  BY <1>5 DEF OutboxRow
<1>9. orders' = Append(orders, order) /\ outbox' = Append(outbox, row)
  BY DEF Commit
<1> HIDE DEF row
<1>10. /\ orders' \in Seq(Order) /\ Len(orders') = id /\ orders'[id] = order
       /\ \A i \in 1..Len(orders) : orders'[i] = orders[i]
  BY <1>1, <1>4, <1>9, AppendProperties
<1>11. /\ outbox' \in Seq(OutboxRow) /\ Len(outbox') = id /\ outbox'[id] = row
       /\ \A i \in 1..Len(outbox) : outbox'[i] = outbox[i]
  BY <1>1, <1>7, <1>8, <1>9, AppendProperties
<1>12. DOMAIN orders' = 1..id /\ DOMAIN outbox' = 1..id
  BY <1>10, <1>11, LenProperties
<1>13. id \in Nat \ {0} /\ id \notin DOMAIN orders /\ 1..id = DOMAIN orders \cup {id}
  BY <1>5
<1>14. Recording(c, id) \in Request
  BY <1>1, <1>13 DEF Recording, Request
<1>15. Quantities(order.items) = call[c].payload
  BY <1>1, <1>2, QuantitiesOfPriced DEF Ordering
<1>16. requests' = requests \cup {Recording(c, id)}
  BY DEF Commit
<1> QED
  BY <1>2, <1>5, <1>7, <1>10, <1>11, <1>12, <1>13, <1>14, <1>15, <1>16 DEF row

(* An order and its request have the same identity.                        *)
LEMMA RequestOfOrder ==
    ASSUME CommittedTogether, NEW i \in DOMAIN orders
    PROVE  \E r \in requests : r.order = i /\ r.identity = orders[i].identity
<1> DEFINE s == [identity |-> orders[i].identity,
                 payload  |-> Quantities(orders[i].items),
                 order    |-> i]
<1>1. {r \in requests : r.order = i} = {s}
  BY DEF CommittedTogether
<1>2. s \in requests /\ s.order = i
  BY <1>1
<1> QED
  BY <1>2

(* The commit of an order preserves the invariant.                         *)
LEMMA CommitInv ==
    ASSUME IInv, NEW c \in Calls, NEW status \in {"pending", "disabled"}, Commit(c, status)
    PROVE  IInv'
<1> DEFINE id    == Len(orders) + 1
           order == Ordering(c)
           rec   == Recording(c, id)
<1>1. /\ orders' \in Seq(Order) /\ outbox' \in Seq(OutboxRow)
      /\ id \in Nat \ {0} /\ id \notin DOMAIN orders
      /\ DOMAIN orders' = DOMAIN orders \cup {id}
      /\ DOMAIN outbox' = DOMAIN orders'
      /\ orders'[id] = order
      /\ outbox'[id] = [order |-> id, status |-> status]
      /\ \A i \in DOMAIN orders : orders'[i] = orders[i] /\ outbox'[i] = outbox[i]
      /\ requests' = requests \cup {rec}
      /\ rec \in Request
      /\ Quantities(order.items) = call[c].payload
  BY CommitEffect
<1>2. /\ rec.identity = call[c].identity /\ rec.payload = call[c].payload
      /\ rec.order = id /\ order.identity = call[c].identity
      /\ rec = [identity |-> order.identity, payload |-> Quantities(order.items), order |-> id]
  BY <1>1 DEF Recording, Ordering
<1>3. call[c] \in Local /\ call[c].identity \in Identity /\ lock = c
      /\ Recorded(call[c].identity) = {}
  BY DEF IInv, TypeOK, Current, Commit
<1> DEFINE l == Answering(c, id)
<1>4. /\ l \in Local /\ l.pc = "answer" /\ l.identity = call[c].identity
      /\ l.payload = call[c].payload /\ l.order = id
  BY <1>1, <1>3, AnsweringFields
<1>5. call'[c] = l /\ call' = [call EXCEPT ![c] = l]
  BY DEF IInv, TypeOK, Commit
<1>6. lock' = "free" /\ answers' = answers /\ products' = products
  BY DEF Commit
<1> HIDE DEF id, order, rec, l
<1>7. TypeOK'
  BY <1>1, <1>4, <1>5, <1>6 DEF IInv, TypeOK
<1>8. ASSUME NEW d \in Calls PROVE Current(d)'
  <2>1. CASE d = c
    <3>1. Answered(c)' = rec
      BY <1>2, <1>4, <1>5 DEF Answered, Recording, rec
    <3> QED
      BY <1>1, <1>3, <1>4, <1>5, <1>6, <2>1, <3>1, WritersAssumption DEF Current
  <2>2. CASE d # c
    <3>1. call'[d] = call[d] /\ lock # d /\ lock' # d
      BY <1>3, <1>5, <1>6, <2>2, WritersAssumption DEF IInv, TypeOK
    <3> QED
      BY <1>1, <3>1, OthersCurrent DEF IInv
  <2> QED
    BY <2>1, <2>2
<1>9. ASSUME NEW i \in DOMAIN orders PROVE orders[i].identity # order.identity
  BY <1>2, <1>3, RequestOfOrder DEF IInv, Recorded
<1>10. OneOrderPerIdentity'
  BY <1>1, <1>9 DEF IInv, OneOrderPerIdentity
<1>11. CommittedTogether'
  <2>1. \A i \in DOMAIN outbox' : outbox'[i].order = i
    BY <1>1 DEF IInv, CommittedTogether
  <2>2. \A r \in requests' : r.order \in DOMAIN orders'
    BY <1>1, <1>2 DEF IInv, CommittedTogether
  <2>3. ASSUME NEW i \in DOMAIN orders'
        PROVE  {r \in requests' : r.order = i} =
                 {[identity |-> orders'[i].identity,
                   payload  |-> Quantities(orders'[i].items),
                   order    |-> i]}
    <3>1. CASE i = id
      <4>1. \A r \in requests : r.order # id
        BY <1>1 DEF IInv, CommittedTogether
      <4>2. {r \in requests' : r.order = i} = {rec}
        BY <1>1, <1>2, <3>1, <4>1
      <4> QED
        BY <1>1, <1>2, <3>1, <4>2
    <3>2. CASE i # id
      <4>1. i \in DOMAIN orders /\ orders'[i] = orders[i]
        BY <1>1, <3>2
      <4>2. {r \in requests' : r.order = i} = {r \in requests : r.order = i}
        BY <1>1, <1>2, <3>2
      <4> QED
        BY <4>1, <4>2 DEF IInv, CommittedTogether
    <3> QED
      BY <3>1, <3>2
  <2> QED
    BY <1>1, <2>1, <2>2, <2>3 DEF CommittedTogether
<1> QED
  BY <1>1, <1>6, <1>7, <1>8, <1>10, <1>11 DEF IInv
(* An answer tells of a recorded request.                                  *)
LEMMA AnswerInv ==
    ASSUME IInv, NEW c \in Calls, Answer(c) PROVE IInv'
<1>1. Answered(c) \in requests /\ lock # c
  BY DEF IInv, Current, Answer
<1>2. answers' \subseteq requests
  BY <1>1 DEF IInv, Answer
<1> QED
  BY <1>1, <1>2, DroppedInv DEF Answer

(* A new catalog finds no call inside a transaction.                       *)
LEMMA CatalogInv ==
    ASSUME IInv, CatalogBegin \/ \E catalog \in Catalogs : CatalogCommit(catalog)
    PROVE  IInv'
<1>1. /\ UNCHANGED <<orders, requests, outbox, call, answers>>
      /\ products' \in Catalogs /\ lock' \in {"free", "catalog"}
      /\ lock \in {"free", "catalog"}
  BY DEF CatalogBegin, CatalogCommit, IInv, TypeOK
<1>2. TypeOK'
  BY <1>1 DEF IInv, TypeOK
<1>3. ASSUME NEW d \in Calls PROVE Current(d)'
  BY <1>1, OthersCurrent, WritersAssumption DEF IInv
<1>4. OneOrderPerIdentity' /\ CommittedTogether'
  BY <1>1 DEF IInv, OneOrderPerIdentity, CommittedTogether
<1> QED
  BY <1>1, <1>2, <1>3, <1>4 DEF IInv

(* Every step preserves the invariant.                                     *)
LEMMA NextInv == IInv /\ [Next]_vars => IInv'
<1> SUFFICES ASSUME IInv, [Next]_vars PROVE IInv'
  OBVIOUS
<1>1. CASE UNCHANGED vars
  <2>1. TypeOK' /\ OneOrderPerIdentity' /\ CommittedTogether'
    BY <1>1 DEF vars, IInv, TypeOK, OneOrderPerIdentity, CommittedTogether
  <2>2. ASSUME NEW d \in Calls PROVE Current(d)'
    BY <1>1, OthersCurrent DEF vars, IInv
  <2> QED
    BY <1>1, <2>1, <2>2 DEF vars, IInv
<1>2. ASSUME NEW c \in Calls, NEW identity \in Identity, NEW raw \in RawCarts,
             Submit(c, identity, raw)
      PROVE  IInv'
  BY <1>2, SubmitInv
<1>3. ASSUME NEW c \in Calls, Busy(c) \/ Conflict(c) \/ Refuse(c) \/ Fail(c)
      PROVE  IInv'
  <2>1. answers' \subseteq requests
    BY <1>3 DEF IInv, Busy, Conflict, Refuse, Fail
  <2>2. CASE Busy(c)
    <3>1. lock # c
      BY <2>2 DEF Busy, IInv, Current
    <3> QED
      BY <2>1, <2>2, <3>1, DroppedInv DEF Busy
  <2>3. CASE Conflict(c) \/ Refuse(c)
    <3>1. lock = c
      BY <2>3 DEF Conflict, Refuse, IInv, Current
    <3> QED
      BY <2>1, <2>3, <3>1, DroppedInv DEF Conflict, Refuse
  <2>4. CASE Fail(c)
    BY <2>1, <2>4, DroppedInv DEF Fail
  <2> QED
    BY <1>3, <2>2, <2>3, <2>4
<1>4. ASSUME NEW c \in Calls, CallStep(c) PROVE IInv'
  <2>1. CASE Begin(c)
    BY <2>1, BeginInv
  <2>2. CASE Replay(c)
    BY <2>2, ReplayInv
  <2>3. CASE Insert(c)
    BY <2>3, InsertInv
  <2>4. CASE \E status \in {"pending", "disabled"} : Commit(c, status)
    BY <2>4, CommitInv
  <2>5. CASE Answer(c)
    BY <2>5, AnswerInv
  <2> QED
    BY <1>3, <1>4, <2>1, <2>2, <2>3, <2>4, <2>5 DEF CallStep
<1>5. CASE CatalogBegin \/ \E catalog \in Catalogs : CatalogCommit(catalog)
  BY <1>5, CatalogInv
<1> QED
  BY <1>1, <1>2, <1>3, <1>4, <1>5 DEF Next

(* The inductive invariant holds in every reachable state: what a call has *)
(* read inside its transaction stays true, and the tables belong together. *)
THEOREM CheckoutInvariant == Spec => []IInv
<1>1. Init => IInv
  BY InitInv
<1>2. IInv /\ [Next]_vars => IInv'
  BY NextInv
<1> QED
  BY <1>1, <1>2, PTL DEF Spec

(* Types, one order for each identity of a checkout, and each order        *)
(* visible only with its request and its outbox row, in every reachable    *)
(* state of create_checkout, for any number of calls, sessions and keys.   *)
THEOREM OrdersAreWhole == Spec => [](TypeOK /\ OneOrderPerIdentity /\ CommittedTogether)
<1>1. IInv => TypeOK /\ OneOrderPerIdentity /\ CommittedTogether
  BY DEF IInv
<1> QED
  BY <1>1, CheckoutInvariant, PTL

(* An identity has one order at most, however many calls submit it at once *)
(* or again (the lookup and the insertion of _create_order).               *)
THEOREM OneOrder == Spec => []OneOrderPerIdentity
<1>1. IInv => OneOrderPerIdentity
  BY DEF IInv
<1> QED BY <1>1, CheckoutInvariant, PTL

-----------------------------------------------------------------------------
(* A recorded request says what its order says.                            *)
LEMMA OrderOfRequest ==
    ASSUME CommittedTogether, NEW r \in requests
    PROVE  /\ r.order \in DOMAIN orders
           /\ r.identity = orders[r.order].identity
           /\ r.payload = Quantities(orders[r.order].items)
<1>1. r.order \in DOMAIN orders
  BY DEF CommittedTogether
<1> DEFINE i == r.order
           s == [identity |-> orders[i].identity,
                 payload  |-> Quantities(orders[i].items),
                 order    |-> i]
<1>2. {q \in requests : q.order = i} = {s}
  BY <1>1 DEF CommittedTogether
<1>3. r = s
  BY <1>2
<1> QED
  BY <1>1, <1>3

(* An identity is recorded once.                                           *)
LEMMA RequestsUnique ==
    ASSUME CommittedTogether, OneOrderPerIdentity,
           NEW q \in requests, NEW r \in requests, q.identity = r.identity
    PROVE  q.order = r.order
  BY OrderOfRequest DEF OneOrderPerIdentity

(* Who is told that a checkout succeeded is told of the order that its own *)
(* form asked for, and every repetition is told of the same one.           *)
THEOREM AnswersAreTrue == Spec => []AnswersAgree
<1>1. IInv => AnswersAgree
  <2> SUFFICES ASSUME IInv PROVE AnswersAgree
    OBVIOUS
  <2>1. answers \subseteq requests /\ CommittedTogether /\ OneOrderPerIdentity
    BY DEF IInv
  <2> QED
    BY <2>1, OrderOfRequest, RequestsUnique DEF AnswersAgree
<1> QED
  BY <1>1, CheckoutInvariant, PTL

(* Only a commit changes the orders, the requests or the outbox.           *)
LEMMA OnlyCommits ==
    ASSUME [Next]_vars,
           \A c \in Calls : \A status \in {"pending", "disabled"} : ~Commit(c, status)
    PROVE  UNCHANGED <<orders, requests, outbox>>
  BY DEF Next, vars, Submit, CallStep, Begin, Busy, Replay, Conflict, Refuse, Insert,
         Answer, Fail, CatalogBegin, CatalogCommit

(* An order is charged the catalog's prices of the moment it commits.      *)
THEOREM PricesAreCurrent == Spec => PricedAtCommit
<1> DEFINE Right(i) ==
        LET items == orders'[i].items
        IN  /\ \A p \in DOMAIN items :
                  products[p] = [active |-> TRUE, price |-> items[p].price]
            /\ orders'[i].total = Total(items)
            /\ orders'[i].total <= MaxTotal
<1>1. ASSUME IInv, NEW c \in Calls, NEW status \in {"pending", "disabled"},
             Commit(c, status), NEW i \in DOMAIN orders' \ DOMAIN orders
      PROVE  Right(i)
  <2> DEFINE items == Priced(products, call[c].payload)
  <2>1. /\ i = Len(orders) + 1 /\ orders'[i] = Ordering(c) /\ call[c].items = items
        /\ Orderable(products, call[c].payload)
    BY <1>1, CommitEffect
  <2>2. orders'[i].items = items /\ orders'[i].total = Total(items)
    BY <2>1 DEF Ordering
  <2>3. call[c].payload \in Carts /\ products \in Catalogs
    BY <1>1 DEF IInv, TypeOK, Local
  <2>4. Total(items) \in 0..MaxTotal
    BY <2>1, <2>3, PricedType
  <2>5. ASSUME NEW p \in DOMAIN items
        PROVE  products[p] = [active |-> TRUE, price |-> items[p].price]
    <3>1. p \in DOMAIN call[c].payload /\ items[p].price = products[p].price
      BY DEF Priced
    <3>2. p \in Products /\ products[p].active
      BY <2>1, <3>1 DEF Orderable
    <3>3. products[p] \in ProductRow
      BY <2>3, <3>2 DEF Catalogs
    <3>4. products[p] = [active |-> products[p].active, price |-> products[p].price]
      BY <3>3 DEF ProductRow
    <3>5. products[p].active = TRUE
      BY <3>2, <3>3 DEF ProductRow
    <3> QED
      BY <3>1, <3>4, <3>5
  <2> HIDE DEF items
  <2> QED
    BY <2>2, <2>4, <2>5, LimitsAssumption
<1>2. ASSUME IInv, [Next]_vars, NEW i \in DOMAIN orders' \ DOMAIN orders
      PROVE  Right(i)
  BY <1>1, <1>2, OnlyCommits
<1> HIDE DEF Right
<1>3. IInv /\ [Next]_vars => [\A i \in DOMAIN orders' \ DOMAIN orders : Right(i)]_vars
  BY <1>2
<1>4. Spec => [][\A i \in DOMAIN orders' \ DOMAIN orders : Right(i)]_vars
  BY <1>3, CheckoutInvariant, PTL DEF Spec
<1> QED
  BY <1>4 DEF PricedAtCommit, Right

(* No step changes or removes an order, or forgets an identity.            *)
THEOREM OrdersAreKept == Spec => OrdersKept
<1> DEFINE Kept ==
        /\ \A i \in DOMAIN orders : i \in DOMAIN orders' /\ orders'[i] = orders[i]
        /\ requests \subseteq requests'
<1>1. ASSUME IInv, [Next]_vars PROVE Kept
  <2>1. ASSUME NEW c \in Calls, NEW status \in {"pending", "disabled"}, Commit(c, status)
        PROVE  Kept
    BY <1>1, <2>1, CommitEffect
  <2> QED
    BY <1>1, <2>1, OnlyCommits
<1> HIDE DEF Kept
<1>2. IInv /\ [Next]_vars => [Kept]_vars
  BY <1>1
<1>3. Spec => [][Kept]_vars
  BY <1>2, CheckoutInvariant, PTL DEF Spec
<1> QED
  BY <1>3 DEF OrdersKept, Kept
-----------------------------------------------------------------------------
(* What the book says of a recorded request.                               *)
Entry(r) ==
    [order |-> r.order, payload |-> r.payload,
     items |-> orders[r.order].items, total |-> orders[r.order].total,
     notice |-> outbox[r.order].status]

(* The book has an entry for each recorded identity: its request's.        *)
Entries ==
    /\ DOMAIN Book = {r.identity : r \in requests}
    /\ \A r \in requests : Book[r.identity] = Entry(r)

LEMMA BookEntries == IInv => Entries
<1> SUFFICES ASSUME IInv PROVE Entries
  OBVIOUS
<1>1. DOMAIN Book = {r.identity : r \in requests}
  BY DEF Book
<1>2. ASSUME NEW r \in requests PROVE Book[r.identity] = Entry(r)
  <2> DEFINE s == CHOOSE q \in requests : q.identity = r.identity
  <2>1. s \in requests /\ s.identity = r.identity
    OBVIOUS
  <2>2. s.order = r.order /\ s.payload = r.payload
    BY <2>1, RequestsUnique, OrderOfRequest DEF IInv
  <2>3. Book[r.identity] = Entry(s)
    BY <1>1 DEF Book, Entry
  <2> HIDE DEF s
  <2> QED
    BY <2>2, <2>3 DEF Entry
<1> QED
  BY <1>1, <1>2 DEF Entries

(* The same holds after a step.                                            *)
LEMMA BookEntriesAfter == IInv' => Entries'
<1>1. IInv => Entries
  BY BookEntries
<1> QED
  BY <1>1, PTL

(* A commit places one entry.                                              *)
LEMMA CommitPlaces ==
    ASSUME IInv, IInv', NEW c \in Calls, NEW status \in {"pending", "disabled"},
           Commit(c, status)
    PROVE  Promise!Place(call[c].identity)
<1> DEFINE identity == call[c].identity
           id  == Len(orders) + 1
<1> PICK rec : rec = Recording(c, id)
  OBVIOUS
<1>1. /\ id \notin DOMAIN orders
      /\ orders'[id] = Ordering(c)
      /\ outbox'[id] = [order |-> id, status |-> status]
      /\ \A i \in DOMAIN orders : orders'[i] = orders[i] /\ outbox'[i] = outbox[i]
      /\ requests' = requests \cup {rec}
      /\ Orderable(products, call[c].payload)
      /\ call[c].items = Priced(products, call[c].payload)
  BY CommitEffect
<1>2. rec.identity = identity /\ rec.order = id /\ rec.payload = call[c].payload
  BY DEF Recording
<1>3. Recorded(identity) = {}
  BY DEF IInv, Current, Commit
<1> HIDE DEF id
<1>4. /\ DOMAIN Book = {r.identity : r \in requests}
      /\ \A r \in requests : Book[r.identity] = Entry(r)
  BY BookEntries DEF Entries
<1>5. /\ DOMAIN Book' = {r.identity : r \in requests'}
      /\ \A r \in requests' : Book'[r.identity] = Entry(r)'
  BY BookEntriesAfter DEF Entries
<1>6. identity \notin DOMAIN Book
  BY <1>3, <1>4 DEF Recorded
<1>7. DOMAIN Book' = DOMAIN Book \cup {identity}
  BY <1>1, <1>2, <1>4, <1>5
<1>8. ASSUME NEW i \in DOMAIN Book PROVE Book'[i] = Book[i]
  <2>1. PICK r \in requests : r.identity = i
    BY <1>4
  <2>2. r.order \in DOMAIN orders
    BY DEF IInv, CommittedTogether
  <2>3. Entry(r)' = Entry(r)
    BY <1>1, <2>2 DEF Entry
  <2>4. Book'[i] = Entry(r)' /\ Book[i] = Entry(r)
    BY <1>1, <1>4, <1>5, <2>1
  <2> QED
    BY <2>3, <2>4
<1>9. Book'[identity] = Entry(rec)'
  BY <1>1, <1>2, <1>5
<1> DEFINE e == Entry(rec)'
<1>10. /\ e.order = id /\ e.payload = call[c].payload
       /\ e.items = Ordering(c).items /\ e.total = Ordering(c).total
       /\ e.notice = status
  BY <1>1, <1>2 DEF Entry
<1>11. e.items = Priced(products, e.payload) /\ e.total = Total(e.items)
  BY <1>1, <1>10 DEF Ordering
<1>12. ASSUME NEW i \in DOMAIN Book PROVE Book[i].order \in DOMAIN orders
  <2>1. PICK r \in requests : r.identity = i
    BY <1>4
  <2>2. r.order \in DOMAIN orders
    BY DEF IInv, CommittedTogether
  <2>3. Book[i] = Entry(r)
    BY <1>4, <2>1
  <2> QED
    BY <2>2, <2>3 DEF Entry
<1> HIDE DEF e
<1>13. Promise!Entered(e)
  BY <1>1, <1>10, <1>11, <1>12 DEF Promise!Entered
<1>14. products' = products /\ answers' = answers
  BY DEF Commit
<1> QED
  BY <1>6, <1>7, <1>8, <1>9, <1>13, <1>14 DEF Promise!Place, e

(* An answer tells an entry.                                               *)
LEMMA AnswerTells ==
    ASSUME IInv, NEW c \in Calls, Answer(c)
    PROVE  Promise!Tell(call[c].identity)
<1>1. Answered(c) \in requests
  BY DEF IInv, Current, Answer
<1>2. /\ Answered(c).identity = call[c].identity
      /\ Answered(c).payload = call[c].payload
      /\ Answered(c).order = call[c].order
  BY DEF Answered, Recording
<1>3. /\ call[c].identity \in DOMAIN Book
      /\ Book[call[c].identity] = Entry(Answered(c))
  BY <1>1, <1>2, BookEntries DEF Entries
<1>4. /\ Book[call[c].identity].payload = call[c].payload
      /\ Book[call[c].identity].order = call[c].order
  BY <1>2, <1>3 DEF Entry
<1>5. Answered(c) = Promise!Told(call[c].identity, call[c].payload, call[c].order)
  BY DEF Answered, Recording, Promise!Told
<1>6. UNCHANGED <<products, Book>>
  BY DEF Answer, Book
<1> QED
  BY <1>3, <1>4, <1>5, <1>6 DEF Answer, Promise!Tell

(* The checkouts of any number of calls, sessions and keys implement the   *)
(* book of orders: each identity is entered at most once, at one instant,  *)
(* at that instant's prices, and only what is entered is told.             *)
THEOREM CheckoutImplementsLedger == Spec => ImplementsLedger
<1>1. Init => Promise!Init
  BY DEF Init, Promise!Init, Book
<1>2. IInv /\ IInv' /\ [Next]_vars => [Promise!Next]_<<products, Book, answers>>
  <2> SUFFICES ASSUME IInv, IInv', [Next]_vars
               PROVE  Promise!Next \/ UNCHANGED <<products, Book, answers>>
    OBVIOUS
  <2>1. ASSUME NEW c \in Calls, NEW status \in {"pending", "disabled"}, Commit(c, status)
        PROVE  Promise!Next
    <3>1. call[c].identity \in Identity
      BY <2>1 DEF IInv, Current, Commit
    <3> QED
      BY <2>1, <3>1, CommitPlaces DEF Promise!Next
  <2>2. ASSUME NEW c \in Calls, Answer(c) PROVE Promise!Next
    <3>1. call[c].identity \in Identity
      BY <2>2 DEF IInv, Current, Answer
    <3> QED
      BY <2>2, <3>1, AnswerTells DEF Promise!Next
  <2>3. ASSUME NEW catalog \in Catalogs, CatalogCommit(catalog) PROVE Promise!Next
    BY <2>3 DEF CatalogCommit, Promise!Next, Promise!Edit, Book
  <2>4. ASSUME UNCHANGED <<products, orders, requests, outbox, answers>>
        PROVE  UNCHANGED <<products, Book, answers>>
    BY <2>4 DEF Book
  <2> QED
    BY <2>1, <2>2, <2>3, <2>4
       DEF Next, vars, Submit, CallStep, Begin, Busy, Replay, Conflict, Refuse,
           Insert, Fail, CatalogBegin
<1> QED
  BY <1>1, <1>2, CheckoutInvariant, PTL DEF Spec, ImplementsLedger, Promise!Spec
=============================================================================
