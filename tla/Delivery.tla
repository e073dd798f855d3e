------------------------------ MODULE Delivery ------------------------------
(***************************************************************************)
(* What the notification outbox promises for each order, without threads,  *)
(* clocks or leases: a notice is claimed at most MaxAttempts times, each   *)
(* claim delivers at most one message, a notice is closed as sent only     *)
(* when a message arrived and as failed only when every claim was used,    *)
(* and it is closed in the end.  Delivery is at least once: messages may   *)
(* still arrive after the notice is closed.                                *)
(***************************************************************************)
EXTENDS Integers, Sequences

CONSTANTS
    MaxAttempts,    \* claims an order may use up
    Jobs            \* the orders whose notices are promised to close

VARIABLE notice     \* the life of each order's notification, in id order

Notice == [status : {"open", "sent", "failed", "disabled"},
           claims : Nat, delivered : Nat]

NewNotice(status) == [status |-> status, claims |-> 0, delivered |-> 0]

Claimed(a, b) ==
    /\ a.status = "open"
    /\ a.claims < MaxAttempts
    /\ b = [a EXCEPT !.claims = @ + 1]

Delivered(a, b) ==
    /\ a.delivered < a.claims
    /\ b = [a EXCEPT !.delivered = @ + 1]

Confirmed(a, b) ==
    /\ a.status = "open"
    /\ a.delivered > 0
    /\ b = [a EXCEPT !.status = "sent"]

GivenUp(a, b) ==
    /\ a.status = "open"
    /\ a.claims = MaxAttempts
    /\ b = [a EXCEPT !.status = "failed"]

Init == notice = << >>

Submit ==
    \E status \in {"open", "disabled"} :
        notice' = Append(notice, NewNotice(status))

Life(a, b) ==
    b = a \/ Claimed(a, b) \/ Delivered(a, b) \/ Confirmed(a, b) \/ GivenUp(a, b)

(* Any number of notices advance together, each by one step of its life.   *)
Advance ==
    /\ DOMAIN notice' = DOMAIN notice
    /\ \A j \in DOMAIN notice : Life(notice[j], notice'[j])

Next == Submit \/ Advance

SafeSpec == Init /\ [][Next]_notice

Open(j) == j \in DOMAIN notice /\ notice[j].status = "open"

Closed(j) == j \in DOMAIN notice /\ notice[j].status \in {"sent", "failed"}

Spec == SafeSpec /\ \A j \in Jobs : Open(j) ~> Closed(j)
=============================================================================
