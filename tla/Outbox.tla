------------------------------- MODULE Outbox -------------------------------
(***************************************************************************)
(* The notification outbox of the shop (shop/orders.py).  Every committed  *)
(* order leaves one row in the table notification_outbox.  Each server     *)
(* process runs one delivery thread that claims a row under a lease, sends *)
(* the message outside the database transaction and then acknowledges the  *)
(* row by the lease token it drew.                                         *)
(*                                                                         *)
(* A row is identified by its position in the sequence `outbox', which is  *)
(* its INTEGER PRIMARY KEY.  The clock `now' is the wall clock that        *)
(* time.time() reads, the same for all processes of the host.              *)
(***************************************************************************)
EXTENDS Integers, Sequences, FiniteSets

CONSTANTS
    Workers,        \* the delivery threads, one per server process
    MaxAttempts,    \* MAX_OUTBOX_ATTEMPTS, 8 in the code
    LeaseSeconds,   \* OUTBOX_LEASE_SECONDS, 60 in the code
    BaseDelay,      \* the first retry delay, 30 in the code
    MaxDelay,       \* the cap of the retry delay, 3600 in the code
    MaxJobs,        \* bound of the model: rows ever inserted
    Horizon         \* bound of the model: until then time passes for no
                    \* reason, afterwards only towards a stored instant

ASSUME WorkersAssumption == IsFiniteSet(Workers)
ASSUME AttemptsAssumption == MaxAttempts \in Nat \ {0}
ASSUME TimesAssumption ==
    LeaseSeconds \in Nat /\ BaseDelay \in Nat /\ MaxDelay \in Nat

VARIABLES
    now,        \* the wall clock
    outbox,     \* the table notification_outbox
    drawn,      \* lease tokens drawn so far (secrets.token_hex never repeats)
    worker,     \* the local variables of process_outbox_once, per thread
    delivered,  \* history: messages that reached the chat, per row
    lastClaim   \* history: the clock value of the last claim, per row

vars == <<now, outbox, drawn, worker, delivered, lastClaim>>

NULL == 0

Statuses == {"pending", "processing", "sent", "failed", "disabled"}

(* A row of the table; leaseUntil and leaseToken are NULL outside a claim. *)
Row == [status      : Statuses,
        attempts    : 0..MaxAttempts,
        availableAt : Nat,
        leaseUntil  : Nat,
        leaseToken  : Nat]

NewRow(status, t) ==
    [status |-> status, attempts |-> 0, availableAt |-> t,
     leaseUntil |-> NULL, leaseToken |-> NULL]

(* Where a thread is: between two calls; with the clock read; with a claim *)
(* committed; with the sender's result in hand.                            *)
PCs == {"idle", "ready", "sending", "ackSent", "ackError"}

Local == [pc : PCs, current : Nat, job : Nat, attempt : Nat, lease : Nat]

At(pc) == [pc |-> pc, current |-> 0, job |-> NULL, attempt |-> 0, lease |-> NULL]

-----------------------------------------------------------------------------
(* min(3600, 30 * 2 ** (attempt - 1)): the power is never negative, so it  *)
(* is the minimum exactly when it is at most the cap.                      *)
Delay(attempt) ==
    LET doubled == BaseDelay * 2^(attempt - 1)
    IN  IF doubled \in 0..MaxDelay THEN doubled ELSE MaxDelay

(* Mutant of Take: only acknowledged attempts are counted.                 *)
TakeUncounted(row, until, token) ==
    [row EXCEPT !.status = "processing", !.leaseUntil = until, !.leaseToken = token]

(* The UPDATE of a claim, and the one that ends it.                        *)
Take(row, until, token) ==
    [row EXCEPT !.status = "processing", !.attempts = @ + 1,
                !.leaseUntil = until, !.leaseToken = token]

Release(row, status) ==
    [row EXCEPT !.status = status, !.leaseUntil = NULL, !.leaseToken = NULL]

(* Mutant of LeaseOver: a claim is open to everyone.                       *)
LeaseIgnored(row, t) == row.status = "processing"

LeaseOver(row, t) == row.status = "processing" /\ row.leaseUntil <= t

(* The first UPDATE of a claim: rows whose attempts are used up.           *)
Exhausted(row, t) ==
    row.attempts >= MaxAttempts /\ (row.status = "pending" \/ LeaseOver(row, t))

Expire(rows, t) ==
    [j \in DOMAIN rows |->
        IF Exhausted(rows[j], t)
        THEN Release(rows[j], "failed")
        ELSE rows[j]]

(* The WHERE of the SELECT that picks the job.                             *)
Due(row, t) ==
    /\ row.attempts < MaxAttempts
    /\ \/ row.status = "pending" /\ row.availableAt <= t
       \/ LeaseOver(row, t)

(* The thread has a claim that it has not acknowledged.                    *)
InCall(w) == worker[w].pc \in {"sending", "ackSent", "ackError"}

(* The WHERE of both acknowledgements.                                     *)
Holds(w) ==
    LET row == outbox[worker[w].job]
    IN  row.leaseToken = worker[w].lease /\ row.status = "processing"

-----------------------------------------------------------------------------
Init ==
    /\ now = 0
    /\ outbox = << >>
    /\ drawn = 0
    /\ worker = [w \in Workers |-> At("idle")]
    /\ delivered = << >>
    /\ lastClaim = << >>

(* A checkout transaction commits an order with its outbox row.            *)
Enqueue(status) ==
    /\ Len(outbox) < MaxJobs
    /\ outbox' = Append(outbox, NewRow(status, now))
    /\ delivered' = Append(delivered, 0)
    /\ lastClaim' = Append(lastClaim, 0)
    /\ UNCHANGED <<now, drawn, worker>>

(* The process dies, or ends while stop() has joined its daemon thread for *)
(* 6 seconds in vain, and is started again: the locals of the call are     *)
(* lost.  A process that stays down is an idle thread that takes no step.  *)
Restart(w) ==
    /\ worker[w].pc # "idle"
    /\ worker' = [worker EXCEPT ![w] = At("idle")]
    /\ UNCHANGED <<now, outbox, drawn, delivered, lastClaim>>

(* current = time.time(), before the database is locked.                   *)
ReadClock(w) ==
    /\ worker[w].pc = "idle"
    /\ worker' = [worker EXCEPT ![w] = [At("ready") EXCEPT !.current = now]]
    /\ UNCHANGED <<now, outbox, drawn, delivered, lastClaim>>

(* sqlite3.Error in the claim: BEGIN IMMEDIATE found the database busy.    *)
ClaimBusy(w) ==
    /\ worker[w].pc = "ready"
    /\ worker' = [worker EXCEPT ![w] = At("idle")]
    /\ UNCHANGED <<now, outbox, drawn, delivered, lastClaim>>

(* Mutant of ClaimNone: its transaction is rolled back.                    *)
ClaimNoneRolledBack(w) ==
    /\ worker[w].pc = "ready"
    /\ \A j \in DOMAIN outbox : ~Due(Expire(outbox, worker[w].current)[j], worker[w].current)
    /\ worker' = [worker EXCEPT ![w] = At("idle")]
    /\ UNCHANGED <<now, outbox, drawn, delivered, lastClaim>>

(* The claim transaction finds no job; it still commits its first UPDATE.  *)
ClaimNone(w) ==
    LET rows == Expire(outbox, worker[w].current)
    IN  /\ worker[w].pc = "ready"
        /\ \A j \in DOMAIN rows : ~Due(rows[j], worker[w].current)
        /\ outbox' = rows
        /\ worker' = [worker EXCEPT ![w] = At("idle")]
        /\ UNCHANGED <<now, drawn, delivered, lastClaim>>

(* The claim transaction takes the due row with the lowest id.             *)
ClaimJob(w, j) ==
    LET t    == worker[w].current
        rows == Expire(outbox, t)
    IN  /\ worker[w].pc = "ready"
        /\ Due(rows[j], t)
        /\ \A k \in 1..(j - 1) : ~Due(rows[k], t)
        /\ drawn' = drawn + 1
        /\ outbox' = [rows EXCEPT ![j] = Take(@, t + LeaseSeconds, drawn + 1)]
        /\ worker' = [worker EXCEPT ![w] =
                        [pc |-> "sending", current |-> t, job |-> j,
                         attempt |-> rows[j].attempts + 1, lease |-> drawn + 1]]
        /\ lastClaim' = [lastClaim EXCEPT ![j] = t]
        /\ UNCHANGED <<now, delivered>>

Claim(w) == ClaimNone(w) \/ \E j \in DOMAIN outbox : ClaimJob(w, j)

(* The sender returns: Telegram answered that it has the message.          *)
SendReturns(w) ==
    /\ worker[w].pc = "sending"
    /\ delivered' = [delivered EXCEPT ![worker[w].job] = @ + 1]
    /\ worker' = [worker EXCEPT ![w].pc = "ackSent"]
    /\ UNCHANGED <<now, outbox, drawn, lastClaim>>

(* Mutant of SendRaises: the sender swallows its errors.                   *)
SendSwallows(w, arrived) ==
    /\ worker[w].pc = "sending"
    /\ delivered' = [delivered EXCEPT ![worker[w].job] = @ + arrived]
    /\ worker' = [worker EXCEPT ![w].pc = "ackSent"]
    /\ UNCHANGED <<now, outbox, drawn, lastClaim>>

(* The sender raises: the request failed, or its answer did, and then the  *)
(* message has arrived all the same.                                       *)
SendRaises(w, arrived) ==
    /\ worker[w].pc = "sending"
    /\ delivered' = [delivered EXCEPT ![worker[w].job] = @ + arrived]
    /\ worker' = [worker EXCEPT ![w].pc = "ackError"]
    /\ UNCHANGED <<now, outbox, drawn, lastClaim>>

Send(w) == SendReturns(w) \/ \E arrived \in 0..1 : SendRaises(w, arrived)

(* The row that a thread still holds becomes `sent'.                       *)
AckSent(w) ==
    /\ worker[w].pc = "ackSent"
    /\ outbox' = IF Holds(w)
                 THEN [outbox EXCEPT ![worker[w].job] = Release(@, "sent")]
                 ELSE outbox
    /\ worker' = [worker EXCEPT ![w] = At("idle")]
    /\ UNCHANGED <<now, drawn, delivered, lastClaim>>

(* Mutant of AckError: the row is due again at once.                       *)
AckErrorAtOnce(w) ==
    LET status == IF worker[w].attempt >= MaxAttempts THEN "failed" ELSE "pending"
    IN  /\ worker[w].pc = "ackError"
        /\ outbox' = IF Holds(w)
                     THEN [outbox EXCEPT ![worker[w].job] = Release(@, status)]
                     ELSE outbox
        /\ worker' = [worker EXCEPT ![w] = At("idle")]
        /\ UNCHANGED <<now, drawn, delivered, lastClaim>>

(* The row that a thread still holds goes back for a later attempt, or is  *)
(* given up.  The delay counts from the clock value read before the claim. *)
AckError(w) ==
    LET status == IF worker[w].attempt >= MaxAttempts THEN "failed" ELSE "pending"
        later  == worker[w].current + Delay(worker[w].attempt)
    IN  /\ worker[w].pc = "ackError"
        /\ outbox' = IF Holds(w)
                     THEN [outbox EXCEPT ![worker[w].job] =
                             Release([@ EXCEPT !.availableAt = later], status)]
                     ELSE outbox
        /\ worker' = [worker EXCEPT ![w] = At("idle")]
        /\ UNCHANGED <<now, drawn, delivered, lastClaim>>

(* sqlite3.Error in an acknowledgement: _run drops the job, whose row is   *)
(* left `processing' until its lease is over.                              *)
AckBusy(w) ==
    /\ worker[w].pc \in {"ackSent", "ackError"}
    /\ worker' = [worker EXCEPT ![w] = At("idle")]
    /\ UNCHANGED <<now, outbox, drawn, delivered, lastClaim>>

(* Some thread waits for an instant that the table holds.                  *)
Waiting ==
    \E j \in DOMAIN outbox :
        \/ outbox[j].status = "pending" /\ outbox[j].availableAt > now
        \/ outbox[j].status = "processing" /\ outbox[j].leaseUntil > now

Tick ==
    /\ now < Horizon \/ Waiting
    /\ now' = now + 1
    /\ UNCHANGED <<outbox, drawn, worker, delivered, lastClaim>>

Next ==
    \/ \E status \in {"pending", "disabled"} : Enqueue(status)
    \/ \E w \in Workers :
          \/ Restart(w) \/ ReadClock(w) \/ ClaimBusy(w) \/ Claim(w)
          \/ Send(w) \/ AckSent(w) \/ AckError(w) \/ AckBusy(w)
    \/ Tick

(* A thread keeps looping between its restarts, which nothing bounds; the  *)
(* sender's socket timeout ends every call; BEGIN IMMEDIATE waits up to 3  *)
(* seconds for the lock, so a claim that is tried again and again gets     *)
(* through.  An acknowledgement need never get through.                    *)
Fairness ==
    /\ WF_vars(Tick)
    /\ \A w \in Workers :
          /\ WF_vars(ReadClock(w))
          /\ SF_vars(Claim(w))
          /\ WF_vars(Send(w))
          /\ WF_vars(AckSent(w) \/ AckError(w) \/ AckBusy(w))

Spec == Init /\ [][Next]_vars

FairSpec == Spec /\ Fairness

-----------------------------------------------------------------------------
(* The variables have their types; ids of claimed jobs are ids of rows.    *)
TypeOK ==
    /\ now \in Nat
    /\ outbox \in Seq(Row)
    /\ drawn \in Nat
    /\ worker \in [Workers -> Local]
    /\ delivered \in Seq(Nat)
    /\ lastClaim \in Seq(Nat)
    /\ DOMAIN delivered = DOMAIN outbox
    /\ DOMAIN lastClaim = DOMAIN outbox
    /\ \A w \in Workers : InCall(w) => worker[w].job \in DOMAIN outbox

(* The chat gets an order at most MaxAttempts times, however threads,      *)
(* lost acknowledgements and crashes interleave.                           *)
DeliveriesBounded ==
    \A j \in DOMAIN outbox : delivered[j] <= MaxAttempts

(* A row the operator sees as `sent' has been delivered: no crash and no   *)
(* acknowledgement of another claim marks an undelivered order as sent.    *)
SentIsDelivered ==
    \A j \in DOMAIN outbox : outbox[j].status = "sent" => delivered[j] > 0

(* Giving up is the last resort: a `failed' row has used every attempt.    *)
FailedIsExhausted ==
    \A j \in DOMAIN outbox :
        outbox[j].status = "failed" => outbox[j].attempts = MaxAttempts

(* A row is taken from a thread that still works on it only after that     *)
(* thread's lease is over, whatever stale clock value the taker used.      *)
LeaseHonoured ==
    \A w \in Workers :
        InCall(w) /\ ~Holds(w) => now >= worker[w].current + LeaseSeconds

(* No two threads hold the same row: of the threads that work on it, at    *)
(* most one can still acknowledge it.                                      *)
OneHolder ==
    \A v, w \in Workers :
        /\ InCall(v) /\ Holds(v)
        /\ InCall(w) /\ Holds(w)
        /\ worker[v].job = worker[w].job
        => v = w

(* The threads whose message for a row may still go out.                   *)
Sending(j) == {w \in Workers : worker[w].pc = "sending" /\ worker[w].job = j}

(* The invariant that is inductive: clock values are old, leases differ,   *)
(* the row of a holder is as its claim left it, the instants in a row go   *)
(* back to its last claim, and every message was paid for by an attempt.   *)
ClocksBehind == \A w \in Workers : worker[w].current <= now

LeasesUnique ==
    /\ \A j \in DOMAIN outbox : outbox[j].leaseToken <= drawn
    /\ \A w \in Workers : InCall(w) => worker[w].lease \in 1..drawn
    /\ \A v, w \in Workers :
          InCall(v) /\ InCall(w) /\ worker[v].lease = worker[w].lease => v = w

HoldersAgree ==
    \A w \in Workers :
        InCall(w) /\ Holds(w)
        => LET row == outbox[worker[w].job]
           IN  /\ row.attempts = worker[w].attempt
               /\ row.leaseUntil = worker[w].current + LeaseSeconds

RowsTimed ==
    \A j \in DOMAIN outbox :
        LET row == outbox[j]
        IN  /\ row.status = "processing"
                 => row.leaseUntil = lastClaim[j] + LeaseSeconds
            /\ row.status = "pending" /\ row.attempts > 0
                 => row.availableAt = lastClaim[j] + Delay(row.attempts)

DeliveriesPaid ==
    \A j \in DOMAIN outbox :
        delivered[j] + Cardinality(Sending(j)) <= outbox[j].attempts

ArrivalsKnown ==
    \A w \in Workers : worker[w].pc = "ackSent" => delivered[worker[w].job] > 0

IInv ==
    /\ TypeOK
    /\ ClocksBehind
    /\ LeasesUnique
    /\ HoldersAgree
    /\ RowsTimed
    /\ DeliveriesPaid
    /\ ArrivalsKnown
    /\ LeaseHonoured
    /\ SentIsDelivered
    /\ FailedIsExhausted

(* What is settled stays settled: a late acknowledgement, a late sender or *)
(* the sweep of exhausted rows never changes a sent, failed or disabled    *)
(* row, nor lets one be claimed again.                                     *)
SettledForever ==
    [][\A j \in DOMAIN outbox :
          outbox[j].status \in {"sent", "failed", "disabled"}
             => outbox'[j] = outbox[j]]_vars

(* Retries are spaced: an order is claimed again no sooner than the delay  *)
(* of the failed attempt, or the lease of the lost one, after the clock    *)
(* value of the earlier claim: neither a lost acknowledgement nor a stale  *)
(* clock value nor another thread's acknowledgement shortens the wait.     *)
RetriesSpaced ==
    [][\A w \in Workers, j \in DOMAIN outbox :
          ClaimJob(w, j) /\ outbox[j].attempts > 0
          => \/ worker[w].current >= lastClaim[j] + LeaseSeconds
             \/ worker[w].current >= lastClaim[j] + Delay(outbox[j].attempts)]_vars

(* The outbox implements what Delivery promises, and so every order's      *)
(* notification ends as sent or failed, through busy databases, lost       *)
(* acknowledgements, restarts and stale clock values.                      *)
Progress(row) ==
    IF row.status \in {"pending", "processing"} THEN "open" ELSE row.status

Notice(row, arrivals) ==
    [status |-> Progress(row), claims |-> row.attempts, delivered |-> arrivals]

Notices == [j \in DOMAIN outbox |-> Notice(outbox[j], delivered[j])]

Promise == INSTANCE Delivery WITH Jobs <- 1..MaxJobs, notice <- Notices

ImplementsDelivery == Promise!Spec
=============================================================================
