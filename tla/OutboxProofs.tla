---------------------------- MODULE OutboxProofs ----------------------------
(***************************************************************************)
(* Theorems about Outbox, for any set of threads, any lease and delays.    *)
(***************************************************************************)
EXTENDS Outbox, FiniteSetTheorems, SequenceTheorems, TLAPS

(* A sequence stays one when an element is replaced by another of the set. *)
LEMMA ReplaceInSeq ==
    ASSUME NEW S, NEW s \in Seq(S), NEW f,
           DOMAIN f = DOMAIN s, f = [i \in DOMAIN f |-> f[i]],
           \A i \in DOMAIN s : f[i] \in S
    PROVE  f \in Seq(S)
<1>1. DOMAIN s = 1..Len(s) /\ Len(s) \in Nat
  BY LenProperties
<1>2. f \in [1..Len(s) -> S]
  BY <1>1
<1> QED
  BY <1>1, <1>2, SeqDef

(* Backoff times are natural numbers below the cap.                        *)
LEMMA DelayType == ASSUME NEW a PROVE Delay(a) \in Nat
  BY TimesAssumption DEF Delay

(* The fields of a row that is taken, released or put off.                 *)
LEMMA TakeFields ==
    ASSUME NEW row \in Row, NEW until \in Nat, NEW token \in Nat,
           row.attempts < MaxAttempts
    PROVE  /\ Take(row, until, token) \in Row
           /\ Take(row, until, token).status = "processing"
           /\ Take(row, until, token).attempts = row.attempts + 1
           /\ Take(row, until, token).availableAt = row.availableAt
           /\ Take(row, until, token).leaseUntil = until
           /\ Take(row, until, token).leaseToken = token
<1>1. row.attempts + 1 \in 0..MaxAttempts
  BY AttemptsAssumption DEF Row
<1> QED
  BY <1>1 DEF Take, Row, Statuses

(* Only status and lease of a released row change.                         *)
LEMMA ReleaseFields ==
    ASSUME NEW row \in Row, NEW status \in Statuses
    PROVE  /\ Release(row, status) \in Row
           /\ Release(row, status).status = status
           /\ Release(row, status).attempts = row.attempts
           /\ Release(row, status).availableAt = row.availableAt
           /\ Release(row, status).leaseToken = NULL
  BY DEF Release, Row, NULL

(* Putting a row off changes the instant it is due, nothing else.          *)
LEMMA PostponeFields ==
    ASSUME NEW row \in Row, NEW later \in Nat
    PROVE  /\ [row EXCEPT !.availableAt = later] \in Row
           /\ [row EXCEPT !.availableAt = later].attempts = row.attempts
           /\ [row EXCEPT !.availableAt = later].availableAt = later
  BY DEF Row

(* The sweep of exhausted rows keeps the rows' types and their ids.        *)
LEMMA ExpireType ==
    ASSUME NEW rows \in Seq(Row), NEW t \in Nat
    PROVE  /\ Expire(rows, t) \in Seq(Row)
           /\ DOMAIN Expire(rows, t) = DOMAIN rows
<1>1. DOMAIN Expire(rows, t) = DOMAIN rows
  BY DEF Expire
<1>2. \A j \in DOMAIN rows : rows[j] \in Row
  BY ElementOfSeq, LenProperties
<1>3. \A j \in DOMAIN rows : Expire(rows, t)[j] \in Row
  BY <1>2, ReleaseFields DEF Expire, Statuses
<1> QED
  BY <1>1, <1>3, ReplaceInSeq DEF Expire

(* The empty table has the types.                                          *)
LEMMA InitType == Init => TypeOK
  BY DEF Init, TypeOK, At, Local, PCs, InCall, NULL

(* The rows, ids and histories as functions of their ids.                  *)
LEMMA TypeFacts ==
    ASSUME TypeOK
    PROVE  /\ Len(outbox) \in Nat /\ DOMAIN outbox = 1..Len(outbox)
           /\ \A j \in DOMAIN outbox : /\ outbox[j] \in Row
                                       /\ delivered[j] \in Nat
                                       /\ lastClaim[j] \in Nat
           /\ \A w \in Workers : worker[w] \in Local
  BY LenProperties, ElementOfSeq DEF TypeOK

(* A new row, with its two history entries, keeps the types.               *)
LEMMA EnqueueType ==
    ASSUME TypeOK, NEW status \in {"pending", "disabled"}, Enqueue(status)
    PROVE  TypeOK'
<1>1. NewRow(status, now) \in Row
  BY AttemptsAssumption DEF TypeOK, NewRow, Row, Statuses, NULL
<1>2. /\ outbox' \in Seq(Row) /\ Len(outbox') = Len(outbox) + 1
      /\ delivered' \in Seq(Nat) /\ Len(delivered') = Len(delivered) + 1
      /\ lastClaim' \in Seq(Nat) /\ Len(lastClaim') = Len(lastClaim) + 1
  BY <1>1, AppendProperties DEF TypeOK, Enqueue
<1>3. /\ DOMAIN outbox = 1..Len(outbox) /\ DOMAIN outbox' = 1..Len(outbox')
      /\ DOMAIN delivered = 1..Len(delivered) /\ DOMAIN delivered' = 1..Len(delivered')
      /\ DOMAIN lastClaim = 1..Len(lastClaim) /\ DOMAIN lastClaim' = 1..Len(lastClaim')
      /\ Len(outbox) \in Nat /\ Len(delivered) \in Nat /\ Len(lastClaim) \in Nat
  BY <1>2, LenProperties DEF TypeOK
<1>4. Len(delivered) = Len(outbox) /\ Len(lastClaim) = Len(outbox)
  BY <1>3 DEF TypeOK
<1>5. /\ DOMAIN delivered' = DOMAIN outbox'
      /\ DOMAIN lastClaim' = DOMAIN outbox'
      /\ DOMAIN outbox \subseteq DOMAIN outbox'
  BY <1>2, <1>3, <1>4
<1> QED
  BY <1>2, <1>5 DEF TypeOK, Enqueue, InCall

(* A thread that gives up its call, or reads the clock, changes no table.  *)
LEMMA LocalStepType ==
    ASSUME TypeOK, NEW w \in Workers,
           Restart(w) \/ ReadClock(w) \/ ClaimBusy(w) \/ AckBusy(w)
    PROVE  TypeOK'
<1>1. PICK t \in Nat, pc \in {"idle", "ready"} :
          worker' = [worker EXCEPT ![w] = [At(pc) EXCEPT !.current = t]]
  <2>1. At("idle") = [At("idle") EXCEPT !.current = 0]
    BY DEF At
  <2> QED
    BY <2>1 DEF TypeOK, Restart, ReadClock, ClaimBusy, AckBusy
<1>2. /\ [At(pc) EXCEPT !.current = t] \in Local
      /\ [At(pc) EXCEPT !.current = t].pc = pc
  BY DEF At, Local, PCs, NULL
<1>3. UNCHANGED <<now, outbox, drawn, delivered, lastClaim>>
  BY DEF Restart, ReadClock, ClaimBusy, AckBusy
<1> QED
  BY <1>1, <1>2, <1>3 DEF TypeOK, InCall

(* The sweep keeps the types when no job is found.                         *)
LEMMA ClaimNoneType ==
    ASSUME TypeOK, NEW w \in Workers, ClaimNone(w)
    PROVE  TypeOK'
<1>1. worker[w].current \in Nat
  BY DEF TypeOK, Local
<1>2. outbox' \in Seq(Row) /\ DOMAIN outbox' = DOMAIN outbox
  BY <1>1, ExpireType DEF TypeOK, ClaimNone
<1>3. worker' \in [Workers -> Local]
  BY DEF TypeOK, ClaimNone, At, Local, PCs, NULL
<1> QED
  BY <1>2, <1>3 DEF TypeOK, ClaimNone, At, InCall

(* A claim keeps the types: its row has an attempt left.                   *)
LEMMA ClaimJobType ==
    ASSUME TypeOK, NEW w \in Workers, NEW j \in DOMAIN outbox, ClaimJob(w, j)
    PROVE  TypeOK'
<1> DEFINE t == worker[w].current
           rows == Expire(outbox, t)
<1>1. t \in Nat /\ drawn \in Nat /\ drawn' = drawn + 1
  BY DEF TypeOK, Local, ClaimJob
<1>2. rows \in Seq(Row) /\ DOMAIN rows = DOMAIN outbox
  BY <1>1, ExpireType DEF TypeOK
<1>3. rows[j] \in Row /\ rows[j].attempts < MaxAttempts
  BY <1>2, ElementOfSeq, LenProperties DEF ClaimJob, Due
<1>4. Take(rows[j], t + LeaseSeconds, drawn + 1) \in Row
  <2>1. t + LeaseSeconds \in Nat /\ drawn + 1 \in Nat
    BY <1>1, TimesAssumption
  <2> QED
    BY <2>1, <1>3, TakeFields
<1>5. outbox' \in Seq(Row) /\ DOMAIN outbox' = DOMAIN outbox
  BY <1>2, <1>4, ExceptSeq DEF ClaimJob
<1>6. lastClaim' \in Seq(Nat) /\ DOMAIN lastClaim' = DOMAIN outbox
  BY <1>1, ExceptSeq DEF TypeOK, ClaimJob
<1>7. worker' \in [Workers -> Local]
  <2>1. j \in Nat
    BY LenProperties DEF TypeOK
  <2>2. rows[j].attempts + 1 \in Nat
    BY <1>3 DEF Row
  <2> QED
    BY <1>1, <2>1, <2>2 DEF TypeOK, ClaimJob, Local, PCs
<1>8. \A v \in Workers : InCall(v)' => worker'[v].job \in DOMAIN outbox'
  BY <1>5 DEF TypeOK, ClaimJob, InCall
<1> QED
  BY <1>1, <1>5, <1>6, <1>7, <1>8 DEF TypeOK, ClaimJob

(* What both ends of the sender's call change.                             *)
LEMMA SendEffect ==
    ASSUME TypeOK, NEW w \in Workers, Send(w)
    PROVE  /\ UNCHANGED <<now, outbox, drawn, lastClaim>>
           /\ worker[w].pc = "sending" /\ worker[w].job \in DOMAIN delivered
           /\ \E pc \in {"ackSent", "ackError"}, n \in {0, 1} :
                 /\ pc = "ackSent" => n = 1
                 /\ worker' = [worker EXCEPT ![w].pc = pc]
                 /\ delivered' = [delivered EXCEPT ![worker[w].job] = @ + n]
<1>1. worker[w].pc = "sending" /\ UNCHANGED <<now, outbox, drawn, lastClaim>>
  BY DEF Send, SendReturns, SendRaises
<1>2. worker[w].job \in DOMAIN delivered
  BY <1>1 DEF TypeOK, InCall
<1>3. CASE SendReturns(w)
  BY <1>1, <1>2, <1>3 DEF SendReturns
<1>4. ASSUME NEW arrived \in 0..1, SendRaises(w, arrived)
      PROVE  \E n \in {0, 1} :
                 /\ worker' = [worker EXCEPT ![w].pc = "ackError"]
                 /\ delivered' = [delivered EXCEPT ![worker[w].job] = @ + n]
  <2>1. arrived \in {0, 1}
    OBVIOUS
  <2> QED
    BY <1>4, <2>1 DEF SendRaises
<1> QED
  BY <1>1, <1>2, <1>3, <1>4 DEF Send

(* The end of a send keeps the types.                                      *)
LEMMA SendType ==
    ASSUME TypeOK, NEW w \in Workers, Send(w)
    PROVE  TypeOK'
<1>1. PICK pc \in {"ackSent", "ackError"}, n \in {0, 1} :
          /\ worker' = [worker EXCEPT ![w].pc = pc]
          /\ delivered' = [delivered EXCEPT ![worker[w].job] = @ + n]
  BY SendEffect
<1>2. /\ UNCHANGED <<now, outbox, drawn, lastClaim>>
      /\ worker[w].pc = "sending" /\ worker[w].job \in DOMAIN delivered
  BY SendEffect
<1>3. delivered' \in Seq(Nat) /\ DOMAIN delivered' = DOMAIN delivered
  <2>1. delivered[worker[w].job] + n \in Nat
    BY <1>2, TypeFacts DEF TypeOK
  <2> QED
    BY <1>1, <1>2, <2>1, ExceptSeq, LenProperties DEF TypeOK
<1>4. worker' \in [Workers -> Local]
  BY <1>1 DEF TypeOK, Local, PCs
<1>5. \A v \in Workers : InCall(v)' => InCall(v) /\ worker'[v].job = worker[v].job
  BY <1>1, <1>2 DEF TypeOK, InCall, Local
<1> QED
  BY <1>2, <1>3, <1>4, <1>5 DEF TypeOK

(* Both acknowledgements rewrite one row, or none, and end the call.       *)
LEMMA AckType ==
    ASSUME TypeOK, NEW w \in Workers, AckSent(w) \/ AckError(w)
    PROVE  TypeOK'
<1> DEFINE job == worker[w].job
           row == outbox[job]
<1>1. job \in DOMAIN outbox /\ row \in Row
  BY TypeFacts DEF TypeOK, AckSent, AckError, InCall
<1>2. /\ worker' = [worker EXCEPT ![w] = At("idle")]
      /\ UNCHANGED <<now, drawn, delivered, lastClaim>>
      /\ At("idle") \in Local /\ At("idle").pc = "idle"
  BY DEF AckSent, AckError, At, Local, PCs, NULL
<1>3. ASSUME outbox' = outbox \/ \E new \in Row : outbox' = [outbox EXCEPT ![job] = new]
      PROVE  TypeOK'
  <2>1. outbox \in Seq(Row) /\ job \in 1..Len(outbox)
    BY <1>1, LenProperties DEF TypeOK
  <2>2. ASSUME NEW new \in Row, outbox' = [outbox EXCEPT ![job] = new]
        PROVE  outbox' \in Seq(Row) /\ DOMAIN outbox' = DOMAIN outbox
    BY <2>1, <2>2, ExceptSeq
  <2>3. outbox' \in Seq(Row) /\ DOMAIN outbox' = DOMAIN outbox
    BY <1>3, <2>1, <2>2
  <2> QED
    BY <1>2, <2>3 DEF TypeOK, InCall
<1>4. ASSUME AckSent(w), outbox' # outbox
      PROVE  \E new \in Row : outbox' = [outbox EXCEPT ![job] = new]
  BY <1>1, <1>4, ReleaseFields DEF AckSent, Statuses
<1>5. ASSUME AckError(w), outbox' # outbox
      PROVE  \E new \in Row : outbox' = [outbox EXCEPT ![job] = new]
  <2>1. worker[w].current + Delay(worker[w].attempt) \in Nat
    BY DelayType DEF TypeOK, Local
  <2> QED
    BY <1>1, <1>5, <2>1, PostponeFields, ReleaseFields DEF AckError, Statuses
<1> QED
  BY <1>3, <1>4, <1>5

(* Every step keeps the types.                                             *)
LEMMA NextType == TypeOK /\ [Next]_vars => TypeOK'
<1> SUFFICES ASSUME TypeOK, [Next]_vars PROVE TypeOK'
  OBVIOUS
<1>1. CASE \E status \in {"pending", "disabled"} : Enqueue(status)
  BY <1>1, EnqueueType
<1>2. ASSUME NEW w \in Workers,
             Restart(w) \/ ReadClock(w) \/ ClaimBusy(w) \/ AckBusy(w)
      PROVE  TypeOK'
  BY <1>2, LocalStepType
<1>3. ASSUME NEW w \in Workers, Claim(w) PROVE TypeOK'
  BY <1>3, ClaimNoneType, ClaimJobType DEF Claim
<1>4. ASSUME NEW w \in Workers, Send(w) PROVE TypeOK'
  BY <1>4, SendType
<1>5. ASSUME NEW w \in Workers, AckSent(w) \/ AckError(w) PROVE TypeOK'
  BY <1>5, AckType
<1>6. CASE Tick
  BY <1>6 DEF TypeOK, Tick, InCall
<1>7. CASE UNCHANGED vars
  BY <1>7 DEF TypeOK, vars, InCall
<1> QED
  BY <1>1, <1>2, <1>3, <1>4, <1>5, <1>6, <1>7 DEF Next

(* The variables of the outbox always have their types, and a claimed job  *)
(* is always a row of the table.                                           *)
THEOREM OutboxType == Spec => []TypeOK
<1>1. Init => TypeOK
  BY InitType
<1>2. TypeOK /\ [Next]_vars => TypeOK'
  BY NextType
<1> QED
  BY <1>1, <1>2, PTL DEF Spec

-----------------------------------------------------------------------------
(* The inductive invariant.                                                *)

(* The initial states satisfy the invariant.                               *)
LEMMA InitInv == Init => IInv
<1> SUFFICES ASSUME Init PROVE IInv
  OBVIOUS
<1>1. TypeOK
  BY InitType
<1>2. DOMAIN outbox = {} /\ \A w \in Workers : worker[w] = At("idle") /\ ~InCall(w)
  BY DEF Init, At, InCall
<1>3. ClocksBehind /\ ArrivalsKnown
  BY <1>2 DEF Init, At, ClocksBehind, ArrivalsKnown
<1> QED
  BY <1>1, <1>2, <1>3
     DEF IInv, LeasesUnique, HoldersAgree, RowsTimed, DeliveriesPaid,
         LeaseHonoured, SentIsDelivered, FailedIsExhausted

(* The set of senders of a row is finite, and loses or gains one thread.   *)
LEMMA SendingFinite ==
    ASSUME NEW j
    PROVE  IsFiniteSet(Sending(j)) /\ Cardinality(Sending(j)) \in Nat
<1>1. Sending(j) \subseteq Workers
  BY DEF Sending
<1> QED
  BY <1>1, WorkersAssumption, FS_Subset, FS_CardinalityType

(* A thread that leaves its call no longer counts as a sender.             *)
LEMMA SendingShrinks ==
    ASSUME NEW j, Sending(j)' \subseteq Sending(j)
    PROVE  /\ Cardinality(Sending(j)') \in Nat
           /\ Cardinality(Sending(j)') <= Cardinality(Sending(j))
  BY SendingFinite, FS_Subset, FS_CardinalityType

(* A row that the sweep changes has used its attempts, and is not held     *)
(* within its lease.                                                       *)
LEMMA ExpireRow ==
    ASSUME TypeOK, NEW t \in Nat, NEW j \in DOMAIN outbox
    PROVE  /\ Expire(outbox, t)[j].attempts = outbox[j].attempts
           /\ \/ Expire(outbox, t)[j] = outbox[j]
              \/ /\ outbox[j].status = "pending" \/ LeaseOver(outbox[j], t)
                 /\ outbox[j].attempts = MaxAttempts
                 /\ Expire(outbox, t)[j].status = "failed"
                 /\ Expire(outbox, t)[j].leaseToken = NULL
<1>1. outbox[j] \in Row
  BY TypeFacts
<1>2. CASE Exhausted(outbox[j], t)
  <2>1. outbox[j].attempts = MaxAttempts
    BY <1>1, <1>2, AttemptsAssumption DEF Exhausted, Row
  <2>2. Expire(outbox, t)[j] = Release(outbox[j], "failed")
    BY <1>2 DEF Expire
  <2> QED
    BY <1>1, <1>2, <2>1, <2>2, ReleaseFields DEF Exhausted, Statuses
<1>3. CASE ~Exhausted(outbox[j], t)
  BY <1>3 DEF Expire
<1> QED
  BY <1>2, <1>3

(* A new row preserves the invariant: nobody has claimed it.               *)
LEMMA EnqueueInv ==
    ASSUME IInv, NEW status \in {"pending", "disabled"}, Enqueue(status)
    PROVE  IInv'
<1> DEFINE n == Len(outbox) + 1
<1>1. TypeOK /\ TypeOK'
  BY EnqueueType DEF IInv
<1>2. /\ n \in Nat /\ n \notin DOMAIN outbox
      /\ DOMAIN outbox' = DOMAIN outbox \cup {n}
      /\ \A j \in DOMAIN outbox : /\ outbox'[j] = outbox[j]
                                  /\ delivered'[j] = delivered[j]
                                  /\ lastClaim'[j] = lastClaim[j]
      /\ outbox'[n] = NewRow(status, now)
      /\ delivered'[n] = 0
  <2>1. Len(outbox) \in Nat /\ DOMAIN outbox = 1..Len(outbox)
    BY <1>1, TypeFacts
  <2>2. Len(delivered) = Len(outbox) /\ Len(lastClaim) = Len(outbox)
    BY <1>1, <2>1, LenProperties DEF TypeOK
  <2>3. DOMAIN outbox' = 1..n
    BY <2>1 DEF Enqueue
  <2> QED
    BY <1>1, <2>1, <2>2, <2>3, AppendProperties DEF TypeOK, Enqueue
<1>3. \A w \in Workers : worker'[w] = worker[w] /\ (InCall(w)' <=> InCall(w))
  BY DEF Enqueue, InCall
<1>4. \A w \in Workers : InCall(w) => (Holds(w)' <=> Holds(w))
  BY <1>1, <1>2, <1>3 DEF TypeOK, Holds
<1>5. \A j : Sending(j)' = Sending(j)
  BY <1>3 DEF Sending
<1>6. Sending(n) = {}
  BY <1>1, <1>2 DEF TypeOK, Sending, InCall
<1>7. UNCHANGED <<now, drawn>>
  BY DEF Enqueue
<1>8. ClocksBehind' /\ LeasesUnique'
  BY <1>1, <1>2, <1>3, <1>7 DEF IInv, TypeOK, ClocksBehind, LeasesUnique, NewRow, NULL
<1>9. HoldersAgree' /\ LeaseHonoured' /\ ArrivalsKnown'
  BY <1>1, <1>2, <1>3, <1>4, <1>7
     DEF IInv, TypeOK, HoldersAgree, LeaseHonoured, ArrivalsKnown, InCall
<1>10. RowsTimed' /\ SentIsDelivered' /\ FailedIsExhausted'
  BY <1>2 DEF IInv, RowsTimed, SentIsDelivered, FailedIsExhausted, NewRow
<1>11. DeliveriesPaid'
  <2> SUFFICES ASSUME NEW j \in DOMAIN outbox'
               PROVE  delivered'[j] + Cardinality(Sending(j)') <= outbox'[j].attempts
    BY DEF DeliveriesPaid
  <2>1. CASE j \in DOMAIN outbox
    BY <1>2, <1>5, <2>1 DEF IInv, DeliveriesPaid
  <2>2. CASE j = n
    <3>1. Cardinality(Sending(j)') = 0
      BY <1>5, <1>6, <2>2, FS_EmptySet
    <3> QED
      BY <1>2, <2>2, <3>1 DEF NewRow
  <2> QED
    BY <1>2, <2>1, <2>2
<1> QED
  BY <1>1, <1>8, <1>9, <1>10, <1>11 DEF IInv

(* A step that touches no table, after which no more threads are in a call *)
(* than before, preserves the invariant.                                   *)
LEMMA QuietInv ==
    ASSUME IInv, TypeOK',
           UNCHANGED <<outbox, drawn, delivered, lastClaim>>,
           now' >= now,
           ClocksBehind',
           \A w \in Workers : InCall(w)' => worker'[w] = worker[w]
    PROVE  IInv'
<1>1. \A w \in Workers :
         InCall(w)' => worker'[w] = worker[w] /\ InCall(w) /\ (Holds(w)' <=> Holds(w))
  BY DEF InCall, Holds
<1>2. LeasesUnique' /\ HoldersAgree' /\ ArrivalsKnown'
  BY <1>1 DEF IInv, LeasesUnique, HoldersAgree, ArrivalsKnown, InCall
<1>3. LeaseHonoured'
  BY <1>1, TimesAssumption DEF IInv, TypeOK, Local, LeaseHonoured
<1>4. RowsTimed' /\ SentIsDelivered' /\ FailedIsExhausted'
  BY DEF IInv, RowsTimed, SentIsDelivered, FailedIsExhausted
<1>5. \A j : Sending(j)' \subseteq Sending(j)
  BY <1>1 DEF Sending, InCall
<1>6. DeliveriesPaid'
  <2>0. outbox' = outbox /\ delivered' = delivered
    OBVIOUS
  <2> SUFFICES ASSUME NEW j \in DOMAIN outbox
               PROVE  delivered[j] + Cardinality(Sending(j)') <= outbox[j].attempts
    BY <2>0 DEF DeliveriesPaid
  <2>1. /\ Cardinality(Sending(j)') \in Nat /\ Cardinality(Sending(j)) \in Nat
        /\ Cardinality(Sending(j)') <= Cardinality(Sending(j))
    BY <1>5, SendingShrinks, SendingFinite
  <2>2. delivered[j] \in Nat /\ outbox[j].attempts \in Nat
    BY TypeFacts DEF IInv, Row
  <2>3. delivered[j] + Cardinality(Sending(j)) <= outbox[j].attempts
    BY DEF IInv, DeliveriesPaid
  <2> QED
    BY <2>1, <2>2, <2>3
<1> QED
  BY <1>2, <1>3, <1>4, <1>6 DEF IInv

(* A thread that reads the clock or drops its call preserves it.           *)
LEMMA LocalStepInv ==
    ASSUME IInv, NEW w \in Workers,
           Restart(w) \/ ReadClock(w) \/ ClaimBusy(w) \/ AckBusy(w)
    PROVE  IInv'
<1>1. TypeOK'
  BY LocalStepType DEF IInv
<1>2. /\ UNCHANGED <<now, outbox, drawn, delivered, lastClaim>>
      /\ \A v \in Workers : v # w => worker'[v] = worker[v]
      /\ worker'[w].current <= now
      /\ worker'[w].pc \in {"idle", "ready"}
  BY DEF IInv, TypeOK, Restart, ReadClock, ClaimBusy, AckBusy, At
<1>3. ClocksBehind'
  BY <1>2 DEF IInv, ClocksBehind
<1>4. \A v \in Workers : InCall(v)' => worker'[v] = worker[v]
  BY <1>2 DEF InCall
<1>5. now' >= now
  BY <1>2 DEF IInv, TypeOK
<1> QED
  BY <1>1, <1>2, <1>3, <1>4, <1>5, QuietInv

(* The passing of time preserves the invariant.                            *)
LEMMA TickInv == ASSUME IInv, Tick PROVE IInv'
<1>1. TypeOK' /\ now' >= now
  BY DEF IInv, TypeOK, Tick, InCall
<1>2. ClocksBehind'
  BY DEF IInv, TypeOK, Local, ClocksBehind, Tick
<1> QED
  BY <1>1, <1>2, QuietInv DEF Tick

(* A send preserves it: its attempt pays for the message.                  *)
LEMMA SendInv ==
    ASSUME IInv, NEW w \in Workers, Send(w)
    PROVE  IInv'
<1> DEFINE job == worker[w].job
<1>1. TypeOK /\ TypeOK'
  BY SendType DEF IInv
<1>2. PICK pc \in {"ackSent", "ackError"}, n \in {0, 1} :
          /\ pc = "ackSent" => n = 1
          /\ worker' = [worker EXCEPT ![w].pc = pc]
          /\ delivered' = [delivered EXCEPT ![job] = @ + n]
  BY <1>1, SendEffect
<1>3. /\ UNCHANGED <<now, outbox, drawn, lastClaim>>
      /\ worker[w].pc = "sending" /\ job \in DOMAIN outbox
  BY <1>1, SendEffect DEF TypeOK
<1>4. \A v \in Workers : /\ InCall(v)' <=> InCall(v)
                         /\ worker'[v].job = worker[v].job
                         /\ worker'[v].lease = worker[v].lease
                         /\ worker'[v].current = worker[v].current
                         /\ worker'[v].attempt = worker[v].attempt
                         /\ Holds(v)' <=> Holds(v)
                         /\ worker'[v].pc = IF v = w THEN pc ELSE worker[v].pc
  BY <1>1, <1>2, <1>3 DEF TypeOK, Local, InCall, Holds
<1>5. ClocksBehind' /\ LeasesUnique'
  BY <1>3, <1>4 DEF IInv, ClocksBehind, LeasesUnique
<1>6. HoldersAgree' /\ LeaseHonoured'
  BY <1>3, <1>4 DEF IInv, HoldersAgree, LeaseHonoured
<1>7. RowsTimed' /\ FailedIsExhausted'
  BY <1>3 DEF IInv, RowsTimed, FailedIsExhausted
<1>8. \A j \in DOMAIN outbox :
         /\ delivered[j] \in Nat
         /\ delivered'[j] = IF j = job THEN delivered[j] + n ELSE delivered[j]
  BY <1>1, <1>2, <1>3, TypeFacts DEF TypeOK
<1>9. SentIsDelivered'
  BY <1>3, <1>8 DEF IInv, SentIsDelivered
<1>10. ArrivalsKnown'
  BY <1>1, <1>2, <1>3, <1>4, <1>8 DEF IInv, TypeOK, ArrivalsKnown, InCall
<1>11. DeliveriesPaid'
  <2> SUFFICES ASSUME NEW j \in DOMAIN outbox
               PROVE  delivered'[j] + Cardinality(Sending(j)') <= outbox[j].attempts
    BY <1>3 DEF DeliveriesPaid
  <2>1. /\ delivered[j] \in Nat /\ outbox[j].attempts \in Nat
        /\ delivered[j] + Cardinality(Sending(j)) <= outbox[j].attempts
    BY TypeFacts DEF IInv, DeliveriesPaid, Row
  <2>2. Cardinality(Sending(j)) \in Nat
    BY SendingFinite
  <2>3. CASE j # job
    <3>1. Sending(j)' = Sending(j)
      BY <1>2, <1>3, <1>4, <2>3 DEF Sending
    <3> QED
      BY <1>8, <2>1, <2>3, <3>1
  <2>4. CASE j = job
    <3>1. w \in Sending(j) /\ Sending(j)' = Sending(j) \ {w}
      BY <1>2, <1>3, <1>4, <2>4 DEF Sending
    <3>2. Cardinality(Sending(j)') = Cardinality(Sending(j)) - 1
      BY <3>1, SendingFinite, FS_RemoveElement
    <3>3. delivered'[j] = delivered[j] + n
      BY <1>8, <2>4
    <3> QED
      BY <2>1, <2>2, <3>2, <3>3
  <2> QED
    BY <2>3, <2>4
<1> QED
  BY <1>1, <1>5, <1>6, <1>7, <1>9, <1>10, <1>11 DEF IInv

(* Both acknowledgements: the row, if it is still held, is released.       *)
LEMMA AckInv ==
    ASSUME IInv, NEW w \in Workers, AckSent(w) \/ AckError(w)
    PROVE  IInv'
<1> DEFINE job == worker[w].job
           row == outbox[job]
<1>1. TypeOK /\ TypeOK'
  BY AckType DEF IInv
<1>2. /\ UNCHANGED <<now, drawn, delivered, lastClaim>>
      /\ worker' = [worker EXCEPT ![w] = At("idle")]
      /\ At("idle").pc = "idle" /\ At("idle").current = 0
      /\ InCall(w)
  BY DEF AckSent, AckError, At, InCall
<1>3. job \in DOMAIN outbox /\ row \in Row
  BY <1>1, <1>2, TypeFacts DEF TypeOK
<1>4. \A v \in Workers : InCall(v)' => v # w /\ worker'[v] = worker[v] /\ InCall(v)
  BY <1>1, <1>2 DEF TypeOK, InCall
<1>5. ClocksBehind'
  BY <1>1, <1>2 DEF IInv, TypeOK, ClocksBehind
<1>6. CASE outbox' = outbox
  <2>1. \A v \in Workers : InCall(v)' => worker'[v] = worker[v]
    BY <1>4
  <2>2. now' >= now
    BY <1>1, <1>2 DEF TypeOK
  <2> QED
    BY <1>1, <1>2, <1>5, <1>6, <2>1, <2>2, QuietInv
<1>7. CASE outbox' # outbox
  <2>1. Holds(w)
    BY <1>7 DEF AckSent, AckError
  <2>2. /\ row.attempts = worker[w].attempt
        /\ row.leaseUntil = worker[w].current + LeaseSeconds
        /\ row.status = "processing"
        /\ row.leaseUntil = lastClaim[job] + LeaseSeconds
    BY <1>2, <1>3, <2>1 DEF IInv, HoldersAgree, RowsTimed, Holds
  <2>3. worker[w].current = lastClaim[job]
    <3>1. worker[w].current \in Nat /\ lastClaim[job] \in Nat
      BY <1>1, <1>3, TypeFacts DEF Local
    <3> QED
      BY <2>2, <3>1, TimesAssumption
  <2>4. /\ DOMAIN outbox' = DOMAIN outbox
        /\ \A j \in DOMAIN outbox : j # job => outbox'[j] = outbox[j]
        /\ outbox'[job].attempts = row.attempts
        /\ outbox'[job].leaseToken = NULL
        /\ \/ outbox'[job].status = "sent" /\ worker[w].pc = "ackSent"
           \/ outbox'[job].status = "failed" /\ row.attempts >= MaxAttempts
           \/ /\ outbox'[job].status = "pending"
              /\ outbox'[job].availableAt = worker[w].current + Delay(row.attempts)
    <3>1. CASE AckSent(w)
      <4>1. outbox' = [outbox EXCEPT ![job] = Release(row, "sent")]
        BY <2>1, <3>1 DEF AckSent
      <4> QED
        BY <1>3, <3>1, <4>1, ReleaseFields DEF Statuses, AckSent
    <3>2. CASE AckError(w)
      <4> DEFINE later  == worker[w].current + Delay(worker[w].attempt)
                 put    == [row EXCEPT !.availableAt = later]
                 status == IF worker[w].attempt >= MaxAttempts THEN "failed" ELSE "pending"
      <4>1. outbox' = [outbox EXCEPT ![job] = Release(put, status)]
        BY <2>1, <3>2 DEF AckError
      <4>2. later \in Nat
        BY <1>1, DelayType DEF TypeOK, Local
      <4>3. put \in Row /\ put.attempts = row.attempts /\ put.availableAt = later
        BY <1>3, <4>2, PostponeFields
      <4> status \in Statuses
        BY DEF Statuses
      <4> HIDE DEF put, status
      <4>4. /\ Release(put, status).status = status
            /\ Release(put, status).attempts = row.attempts
            /\ Release(put, status).availableAt = later
            /\ Release(put, status).leaseToken = NULL
        BY <4>3, ReleaseFields
      <4> QED
        BY <1>3, <2>2, <4>1, <4>4 DEF status
    <3> QED
      BY <3>1, <3>2
  <2>5. \A v \in Workers : InCall(v)' => (Holds(v)' <=> Holds(v))
    <3> SUFFICES ASSUME NEW v \in Workers, InCall(v)' PROVE Holds(v)' <=> Holds(v)
      OBVIOUS
    <3>1. InCall(v) /\ v # w /\ worker'[v] = worker[v]
      BY <1>4
    <3>2. CASE worker[v].job = job
      <4>1. ~Holds(v)
        BY <1>2, <2>1, <3>1, <3>2 DEF IInv, LeasesUnique, Holds
      <4>2. ~Holds(v)'
        BY <2>4, <3>1, <3>2, <1>1 DEF IInv, LeasesUnique, Holds, NULL
      <4> QED
        BY <4>1, <4>2
    <3>3. CASE worker[v].job # job
      BY <1>1, <2>4, <3>1, <3>3 DEF TypeOK, Holds
    <3> QED
      BY <3>2, <3>3
  <2>6. LeasesUnique'
    <3>1. ASSUME NEW j \in DOMAIN outbox' PROVE outbox'[j].leaseToken <= drawn
      <4>1. drawn >= NULL
        BY <1>1 DEF TypeOK, NULL
      <4>2. j # job => outbox'[j] = outbox[j] /\ outbox[j].leaseToken <= drawn
        BY <2>4 DEF IInv, LeasesUnique
      <4>3. j = job => outbox'[j].leaseToken = NULL
        BY <2>4
      <4> QED
        BY <4>1, <4>2, <4>3
    <3>2. \A v \in Workers : InCall(v)' => worker'[v].lease \in 1..drawn
      BY <1>4 DEF IInv, LeasesUnique
    <3>3. \A u, v \in Workers :
             InCall(u)' /\ InCall(v)' /\ worker'[u].lease = worker'[v].lease => u = v
      BY <1>4 DEF IInv, LeasesUnique
    <3> QED
      BY <1>2, <3>1, <3>2, <3>3 DEF LeasesUnique
  <2>7. HoldersAgree' /\ LeaseHonoured'
    <3>1. \A v \in Workers : Holds(v)' /\ InCall(v)' => outbox'[worker[v].job] = outbox[worker[v].job]
      BY <1>1, <1>2, <1>4, <2>1, <2>4, <2>5 DEF IInv, TypeOK, LeasesUnique, Holds
    <3> QED
      BY <1>2, <1>4, <2>5, <3>1 DEF IInv, HoldersAgree, LeaseHonoured
  <2>8. RowsTimed'
    BY <1>2, <2>3, <2>4 DEF IInv, RowsTimed
  <2>9. SentIsDelivered'
    BY <1>2, <2>4 DEF IInv, SentIsDelivered, ArrivalsKnown
  <2>10. FailedIsExhausted'
    BY <1>3, <2>4, AttemptsAssumption DEF IInv, FailedIsExhausted, Row
  <2>11. ArrivalsKnown'
    BY <1>2, <1>4 DEF IInv, ArrivalsKnown, InCall
  <2>12. DeliveriesPaid'
    <3> SUFFICES ASSUME NEW j \in DOMAIN outbox
                 PROVE  delivered[j] + Cardinality(Sending(j)') <= outbox'[j].attempts
      BY <1>2, <2>4 DEF DeliveriesPaid
    <3>1. Sending(j)' \subseteq Sending(j)
      BY <1>4 DEF Sending, InCall
    <3>2. /\ Cardinality(Sending(j)') \in Nat /\ Cardinality(Sending(j)) \in Nat
          /\ Cardinality(Sending(j)') <= Cardinality(Sending(j))
      BY <3>1, SendingShrinks, SendingFinite
    <3>3. /\ delivered[j] \in Nat /\ outbox[j].attempts \in Nat
          /\ outbox'[j].attempts = outbox[j].attempts
      BY <2>4, TypeFacts DEF IInv, Row
    <3>4. delivered[j] + Cardinality(Sending(j)) <= outbox[j].attempts
      BY DEF IInv, DeliveriesPaid
    <3> QED
      BY <3>2, <3>3, <3>4
  <2> QED
    BY <1>1, <1>5, <2>6, <2>7, <2>8, <2>9, <2>10, <2>11, <2>12 DEF IInv
<1> QED
  BY <1>6, <1>7

(* What the claim transaction does to the rows: the sweep, and for a claim *)
(* the lease of one row that was due.                                      *)
LEMMA ClaimEffect ==
    ASSUME TypeOK, NEW w \in Workers, NEW j \in DOMAIN outbox, ClaimJob(w, j)
    PROVE  LET t == worker[w].current IN
           /\ Due(outbox[j], t)
           /\ outbox'[j] = Take(outbox[j], t + LeaseSeconds, drawn + 1)
           /\ \A k \in DOMAIN outbox : k # j => outbox'[k] = Expire(outbox, t)[k]
           /\ DOMAIN outbox' = DOMAIN outbox
           /\ worker' = [worker EXCEPT ![w] =
                           [pc |-> "sending", current |-> t, job |-> j,
                            attempt |-> outbox[j].attempts + 1, lease |-> drawn + 1]]
<1> DEFINE t == worker[w].current
           rows == Expire(outbox, t)
<1>1. t \in Nat
  BY DEF TypeOK, Local
<1>2. DOMAIN rows = DOMAIN outbox
  BY DEF Expire
<1>3. Due(rows[j], t) /\ rows[j].attempts = outbox[j].attempts
  BY <1>1, ExpireRow DEF ClaimJob
<1>4. rows[j] = outbox[j]
  BY <1>1, <1>3, ExpireRow, AttemptsAssumption DEF Due
<1> QED
  BY <1>2, <1>3, <1>4 DEF ClaimJob

(* A thread that loses its row to the sweep or to another claim has had    *)
(* its whole lease.                                                        *)
LEMMA TakenAfterLease ==
    ASSUME IInv, NEW t \in Nat, t <= now,
           NEW v \in Workers, InCall(v), Holds(v),
           \/ LeaseOver(outbox[worker[v].job], t)
           \/ Due(outbox[worker[v].job], t)
    PROVE  now >= worker[v].current + LeaseSeconds
<1>1. outbox[worker[v].job].leaseUntil = worker[v].current + LeaseSeconds
  BY DEF IInv, HoldersAgree
<1>2. outbox[worker[v].job].leaseUntil <= t
  BY DEF Holds, LeaseOver, Due
<1>3. now \in Nat /\ worker[v].current + LeaseSeconds \in Nat
  BY TimesAssumption DEF IInv, TypeOK, Local
<1> QED
  BY <1>1, <1>2, <1>3

(* A sweep without a claim preserves the invariant.                        *)
LEMMA ClaimNoneInv ==
    ASSUME IInv, NEW w \in Workers, ClaimNone(w)
    PROVE  IInv'
<1> DEFINE t == worker[w].current
<1>1. TypeOK /\ TypeOK'
  BY ClaimNoneType DEF IInv
<1>2. /\ UNCHANGED <<now, drawn, delivered, lastClaim>>
      /\ outbox' = Expire(outbox, t) /\ DOMAIN outbox' = DOMAIN outbox
      /\ worker' = [worker EXCEPT ![w] = At("idle")]
      /\ At("idle").pc = "idle" /\ At("idle").current = 0
  BY DEF ClaimNone, Expire, At
<1>3. t \in Nat /\ t <= now
  BY <1>1 DEF IInv, TypeOK, Local, ClocksBehind
<1>4. \A v \in Workers : InCall(v)' => /\ worker'[v] = worker[v] /\ InCall(v)
                                      /\ worker[v].job \in DOMAIN outbox
  BY <1>1, <1>2 DEF TypeOK, InCall
<1>5. \A k \in DOMAIN outbox :
         /\ outbox'[k].attempts = outbox[k].attempts
         /\ \/ outbox'[k] = outbox[k]
            \/ /\ outbox[k].status = "pending" \/ LeaseOver(outbox[k], t)
               /\ outbox'[k].attempts = MaxAttempts
               /\ outbox'[k].status = "failed"
               /\ outbox'[k].leaseToken = NULL
  BY <1>1, <1>2, <1>3, ExpireRow
<1>6. ClocksBehind'
  BY <1>1, <1>2 DEF IInv, TypeOK, ClocksBehind
<1>7. LeasesUnique'
  BY <1>1, <1>2, <1>4, <1>5 DEF IInv, TypeOK, LeasesUnique, NULL
<1>8. \A v \in Workers :
         InCall(v)' /\ Holds(v)' => Holds(v) /\ outbox'[worker[v].job] = outbox[worker[v].job]
  BY <1>4, <1>5 DEF Holds
<1>9. HoldersAgree'
  BY <1>4, <1>8 DEF IInv, HoldersAgree
<1>10. LeaseHonoured'
  <2> SUFFICES ASSUME NEW v \in Workers, InCall(v)', ~Holds(v)'
               PROVE  now >= worker[v].current + LeaseSeconds
    BY <1>2, <1>4 DEF LeaseHonoured
  <2>1. CASE ~Holds(v)
    BY <1>4, <2>1 DEF IInv, LeaseHonoured
  <2>2. CASE Holds(v)
    <3>1. LeaseOver(outbox[worker[v].job], t)
      BY <1>4, <1>5, <2>2 DEF Holds
    <3> QED
      BY <1>3, <1>4, <2>2, <3>1, TakenAfterLease
  <2> QED
    BY <2>1, <2>2
<1>11. RowsTimed' /\ SentIsDelivered' /\ FailedIsExhausted'
  BY <1>2, <1>5 DEF IInv, RowsTimed, SentIsDelivered, FailedIsExhausted
<1>12. ArrivalsKnown'
  BY <1>2, <1>4 DEF IInv, ArrivalsKnown, InCall
<1>13. DeliveriesPaid'
  <2> SUFFICES ASSUME NEW j \in DOMAIN outbox
               PROVE  delivered[j] + Cardinality(Sending(j)') <= outbox'[j].attempts
    BY <1>2 DEF DeliveriesPaid
  <2>1. Sending(j)' \subseteq Sending(j)
    BY <1>4 DEF Sending, InCall
  <2>2. /\ Cardinality(Sending(j)') \in Nat /\ Cardinality(Sending(j)) \in Nat
        /\ Cardinality(Sending(j)') <= Cardinality(Sending(j))
    BY <2>1, SendingShrinks, SendingFinite
  <2>3. /\ delivered[j] \in Nat /\ outbox[j].attempts \in Nat
        /\ outbox'[j].attempts = outbox[j].attempts
        /\ delivered[j] + Cardinality(Sending(j)) <= outbox[j].attempts
    BY <1>5, TypeFacts DEF IInv, DeliveriesPaid, Row
  <2> QED
    BY <2>2, <2>3
<1> QED
  BY <1>1, <1>6, <1>7, <1>9, <1>10, <1>11, <1>12, <1>13 DEF IInv

(* A claim preserves the invariant: the row was due.                       *)
LEMMA ClaimJobInv ==
    ASSUME IInv, NEW w \in Workers, NEW j \in DOMAIN outbox, ClaimJob(w, j)
    PROVE  IInv'
<1> DEFINE t == worker[w].current
<1>1. TypeOK /\ TypeOK'
  BY ClaimJobType DEF IInv
<1>2. t \in Nat /\ t <= now /\ drawn \in Nat
  BY <1>1 DEF IInv, TypeOK, Local, ClocksBehind
<1>3. /\ UNCHANGED <<now, delivered>> /\ drawn' = drawn + 1
      /\ lastClaim' = [lastClaim EXCEPT ![j] = t]
      /\ worker[w].pc = "ready"
  BY DEF ClaimJob
<1>4. /\ Due(outbox[j], t)
      /\ outbox'[j] = Take(outbox[j], t + LeaseSeconds, drawn + 1)
      /\ \A k \in DOMAIN outbox : k # j => outbox'[k] = Expire(outbox, t)[k]
      /\ DOMAIN outbox' = DOMAIN outbox
      /\ worker' = [worker EXCEPT ![w] =
                      [pc |-> "sending", current |-> t, job |-> j,
                       attempt |-> outbox[j].attempts + 1, lease |-> drawn + 1]]
  BY <1>1, ClaimEffect
<1>5. /\ outbox'[j].status = "processing"
      /\ outbox'[j].attempts = outbox[j].attempts + 1
      /\ outbox'[j].leaseUntil = t + LeaseSeconds
      /\ outbox'[j].leaseToken = drawn + 1
  <2>1. outbox[j] \in Row /\ outbox[j].attempts < MaxAttempts
    BY <1>1, <1>4, TypeFacts DEF Due
  <2>2. t + LeaseSeconds \in Nat /\ drawn + 1 \in Nat
    BY <1>2, TimesAssumption
  <2> QED
    BY <1>4, <2>1, <2>2, TakeFields
<1>6. \A k \in DOMAIN outbox : k # j =>
         /\ outbox'[k].attempts = outbox[k].attempts
         /\ \/ outbox'[k] = outbox[k]
            \/ /\ outbox[k].status = "pending" \/ LeaseOver(outbox[k], t)
               /\ outbox'[k].attempts = MaxAttempts
               /\ outbox'[k].status = "failed"
               /\ outbox'[k].leaseToken = NULL
  BY <1>1, <1>2, <1>4, ExpireRow
<1>7. /\ worker'[w].pc = "sending" /\ worker'[w].job = j /\ worker'[w].current = t
      /\ worker'[w].lease = drawn + 1 /\ worker'[w].attempt = outbox[j].attempts + 1
      /\ InCall(w)' /\ ~InCall(w)
      /\ \A v \in Workers : v # w =>
            /\ worker'[v] = worker[v]
            /\ InCall(v)' <=> InCall(v)
            /\ InCall(v) => worker[v].job \in DOMAIN outbox
  BY <1>1, <1>3, <1>4 DEF TypeOK, InCall
<1>8. ClocksBehind'
  BY <1>2, <1>3, <1>7 DEF IInv, ClocksBehind
<1>9. \A v \in Workers : InCall(v) => worker[v].lease \in 1..drawn
  BY DEF IInv, LeasesUnique
<1>10. LeasesUnique'
  <2>1. \A k \in DOMAIN outbox' : outbox'[k].leaseToken <= drawn'
    <3>1. \A k \in DOMAIN outbox : outbox[k].leaseToken \in Nat /\ outbox[k].leaseToken <= drawn
      BY <1>1, TypeFacts DEF IInv, LeasesUnique, Row
    <3> QED
      BY <1>2, <1>3, <1>4, <1>5, <1>6, <3>1 DEF NULL
  <2>2. \A v \in Workers : InCall(v)' => worker'[v].lease \in 1..drawn'
    BY <1>2, <1>3, <1>7, <1>9
  <2>3. ASSUME NEW u \in Workers, NEW v \in Workers, InCall(u)', InCall(v)',
               worker'[u].lease = worker'[v].lease
        PROVE  u = v
    BY <1>2, <1>7, <1>9, <2>3 DEF IInv, LeasesUnique
  <2> QED
    BY <2>1, <2>2, <2>3 DEF LeasesUnique
<1>11. \A v \in Workers :
          v # w /\ InCall(v)' /\ Holds(v)'
          => Holds(v) /\ worker[v].job # j /\ outbox'[worker[v].job] = outbox[worker[v].job]
  <2> SUFFICES ASSUME NEW v \in Workers, v # w, InCall(v)', Holds(v)'
               PROVE  Holds(v) /\ worker[v].job # j
                      /\ outbox'[worker[v].job] = outbox[worker[v].job]
    OBVIOUS
  <2>1. worker[v].job # j
    BY <1>2, <1>5, <1>7, <1>9 DEF Holds
  <2> QED
    BY <1>6, <1>7, <2>1 DEF Holds
<1>12. HoldersAgree'
  <2> SUFFICES ASSUME NEW v \in Workers, InCall(v)', Holds(v)'
               PROVE  /\ outbox'[worker'[v].job].attempts = worker'[v].attempt
                      /\ outbox'[worker'[v].job].leaseUntil = worker'[v].current + LeaseSeconds
    BY DEF HoldersAgree
  <2>1. CASE v = w
    BY <1>5, <1>7, <2>1
  <2>2. CASE v # w
    BY <1>7, <1>11, <2>2 DEF IInv, HoldersAgree
  <2> QED
    BY <2>1, <2>2
<1>13. LeaseHonoured'
  <2> SUFFICES ASSUME NEW v \in Workers, InCall(v)', ~Holds(v)'
               PROVE  now >= worker'[v].current + LeaseSeconds
    BY <1>3 DEF LeaseHonoured
  <2>1. v # w
    BY <1>5, <1>7 DEF Holds
  <2>2. CASE ~Holds(v)
    BY <1>7, <2>1, <2>2 DEF IInv, LeaseHonoured
  <2>3. CASE Holds(v)
    <3>1. \/ LeaseOver(outbox[worker[v].job], t)
          \/ Due(outbox[worker[v].job], t)
      BY <1>4, <1>6, <1>7, <2>1, <2>3 DEF Holds
    <3> QED
      BY <1>2, <1>7, <2>1, <2>3, <3>1, TakenAfterLease
  <2> QED
    BY <2>2, <2>3
<1>14. RowsTimed'
  <2>1. /\ lastClaim'[j] = t
        /\ \A k \in DOMAIN outbox : k # j => lastClaim'[k] = lastClaim[k]
    BY <1>1, <1>3 DEF TypeOK
  <2> QED
    BY <1>4, <1>5, <1>6, <2>1 DEF IInv, RowsTimed
<1>15. SentIsDelivered' /\ FailedIsExhausted'
  BY <1>3, <1>4, <1>5, <1>6 DEF IInv, SentIsDelivered, FailedIsExhausted
<1>16. ArrivalsKnown'
  BY <1>3, <1>7 DEF IInv, ArrivalsKnown
<1>17. DeliveriesPaid'
  <2> SUFFICES ASSUME NEW k \in DOMAIN outbox
               PROVE  delivered[k] + Cardinality(Sending(k)') <= outbox'[k].attempts
    BY <1>3, <1>4 DEF DeliveriesPaid
  <2>1. /\ delivered[k] \in Nat /\ outbox[k].attempts \in Nat
        /\ delivered[k] + Cardinality(Sending(k)) <= outbox[k].attempts
    BY <1>1, TypeFacts DEF IInv, DeliveriesPaid, Row
  <2>2. Cardinality(Sending(k)) \in Nat
    BY SendingFinite
  <2>3. CASE k # j
    <3>1. Sending(k)' = Sending(k)
      BY <1>3, <1>7, <2>3 DEF Sending
    <3> QED
      BY <1>6, <2>1, <2>3, <3>1
  <2>4. CASE k = j
    <3>1. w \notin Sending(j) /\ Sending(j)' = Sending(j) \cup {w}
      BY <1>3, <1>7 DEF Sending
    <3>2. Cardinality(Sending(j)') = Cardinality(Sending(j)) + 1
      BY <3>1, SendingFinite, FS_AddElement
    <3> QED
      BY <1>5, <2>1, <2>2, <2>4, <3>2
  <2> QED
    BY <2>3, <2>4
<1> QED
  BY <1>1, <1>8, <1>10, <1>12, <1>13, <1>14, <1>15, <1>16, <1>17 DEF IInv

(* Every step preserves the invariant.                                     *)
LEMMA NextInv == IInv /\ [Next]_vars => IInv'
<1> SUFFICES ASSUME IInv, [Next]_vars PROVE IInv'
  OBVIOUS
<1>1. CASE \E status \in {"pending", "disabled"} : Enqueue(status)
  BY <1>1, EnqueueInv
<1>2. ASSUME NEW w \in Workers,
             Restart(w) \/ ReadClock(w) \/ ClaimBusy(w) \/ AckBusy(w)
      PROVE  IInv'
  BY <1>2, LocalStepInv
<1>3. ASSUME NEW w \in Workers, Claim(w) PROVE IInv'
  BY <1>3, ClaimNoneInv, ClaimJobInv DEF Claim
<1>4. ASSUME NEW w \in Workers, Send(w) PROVE IInv'
  BY <1>4, SendInv
<1>5. ASSUME NEW w \in Workers, AckSent(w) \/ AckError(w) PROVE IInv'
  BY <1>5, AckInv
<1>6. CASE Tick
  BY <1>6, TickInv
<1>7. CASE UNCHANGED vars
  <2>1. TypeOK' /\ ClocksBehind' /\ now' >= now
    BY <1>7 DEF IInv, TypeOK, vars, InCall, ClocksBehind
  <2> QED
    BY <1>7, <2>1, QuietInv DEF vars
<1> QED
  BY <1>1, <1>2, <1>3, <1>4, <1>5, <1>6, <1>7 DEF Next

(* The inductive invariant holds in every reachable state.                 *)
THEOREM OutboxInvariant == Spec => []IInv
<1>1. Init => IInv
  BY InitInv
<1>2. IInv /\ [Next]_vars => IInv'
  BY NextInv
<1> QED
  BY <1>1, <1>2, PTL DEF Spec

-----------------------------------------------------------------------------
(* What follows from it.                                                   *)

(* No order is announced more than MaxAttempts times.                      *)
THEOREM DeliveriesAreBounded == Spec => []DeliveriesBounded
<1>1. IInv => DeliveriesBounded
  <2> SUFFICES ASSUME IInv, NEW j \in DOMAIN outbox PROVE delivered[j] <= MaxAttempts
    BY DEF DeliveriesBounded
  <2>1. /\ delivered[j] \in Nat /\ outbox[j].attempts \in 0..MaxAttempts
        /\ delivered[j] + Cardinality(Sending(j)) <= outbox[j].attempts
        /\ Cardinality(Sending(j)) \in Nat
    BY TypeFacts, SendingFinite DEF IInv, DeliveriesPaid, Row
  <2> QED
    BY <2>1, AttemptsAssumption
<1> QED
  BY <1>1, OutboxInvariant, PTL

(* A row is `sent' only after a message arrived, and `failed' only after   *)
(* every attempt was used.                                                 *)
THEOREM StatusIsHonest == Spec => [](SentIsDelivered /\ FailedIsExhausted)
<1>1. IInv => SentIsDelivered /\ FailedIsExhausted
  BY DEF IInv
<1> QED
  BY <1>1, OutboxInvariant, PTL

(* A thread loses its row only when its lease is over, and of the threads  *)
(* at work on a row at most one can acknowledge it.                        *)
THEOREM LeasesAreHonoured == Spec => [](LeaseHonoured /\ OneHolder)
<1>1. IInv => LeaseHonoured /\ OneHolder
  BY DEF IInv, LeasesUnique, OneHolder, Holds
<1> QED
  BY <1>1, OutboxInvariant, PTL

-----------------------------------------------------------------------------
(* What no step may do.                                                    *)

(* What a step of the threads does to one row, and to its deliveries.      *)
Untouched(j) == outbox'[j] = outbox[j] /\ delivered'[j] = delivered[j]

Swept(j) ==
    /\ outbox[j].status \in {"pending", "processing"}
    /\ outbox[j].attempts = MaxAttempts
    /\ outbox'[j].status = "failed"
    /\ outbox'[j].attempts = outbox[j].attempts
    /\ delivered'[j] = delivered[j]

Taken(j) ==
    /\ outbox[j].status \in {"pending", "processing"}
    /\ outbox[j].attempts < MaxAttempts
    /\ outbox'[j].status = "processing"
    /\ outbox'[j].attempts = outbox[j].attempts + 1
    /\ delivered'[j] = delivered[j]

Acknowledged(j) ==
    /\ outbox[j].status = "processing"
    /\ outbox'[j].attempts = outbox[j].attempts
    /\ delivered'[j] = delivered[j]
    /\ \/ outbox'[j].status = "sent" /\ delivered[j] > 0
       \/ outbox'[j].status = "pending"
       \/ outbox'[j].status = "failed" /\ outbox[j].attempts = MaxAttempts

Arrived(j) ==
    /\ outbox'[j] = outbox[j]
    /\ delivered[j] < outbox[j].attempts
    /\ delivered'[j] = delivered[j] + 1

RowStep(j) == Untouched(j) \/ Swept(j) \/ Taken(j) \/ Acknowledged(j) \/ Arrived(j)

(* The sweep leaves a row alone or gives it up for good.                   *)
LEMMA SweepStep ==
    ASSUME TypeOK, NEW t \in Nat, NEW j \in DOMAIN outbox,
           outbox'[j] = Expire(outbox, t)[j], delivered' = delivered
    PROVE  Untouched(j) \/ Swept(j)
  BY ExpireRow DEF Untouched, Swept, LeaseOver

(* A claim advances one row, the sweep some of the others.                 *)
LEMMA ClaimStep ==
    ASSUME IInv, NEW w \in Workers, Claim(w)
    PROVE  DOMAIN outbox' = DOMAIN outbox /\ \A j \in DOMAIN outbox : RowStep(j)
<1> DEFINE t == worker[w].current
<1>1. TypeOK /\ t \in Nat
  BY DEF IInv, TypeOK, Local
<1>2. CASE ClaimNone(w)
  <2>1. outbox' = Expire(outbox, t) /\ delivered' = delivered
    BY <1>2 DEF ClaimNone
  <2> QED
    BY <1>1, <2>1, SweepStep DEF RowStep, Expire
<1>3. ASSUME NEW k \in DOMAIN outbox, ClaimJob(w, k)
      PROVE  DOMAIN outbox' = DOMAIN outbox /\ \A j \in DOMAIN outbox : RowStep(j)
  <2>1. /\ Due(outbox[k], t)
        /\ outbox'[k] = Take(outbox[k], t + LeaseSeconds, drawn + 1)
        /\ \A j \in DOMAIN outbox : j # k => outbox'[j] = Expire(outbox, t)[j]
        /\ DOMAIN outbox' = DOMAIN outbox
    BY <1>1, <1>3, ClaimEffect
  <2>2. delivered' = delivered
    BY <1>3 DEF ClaimJob
  <2>3. outbox[k] \in Row /\ t + LeaseSeconds \in Nat /\ drawn + 1 \in Nat
    BY <1>1, TypeFacts, TimesAssumption DEF TypeOK
  <2>4. Taken(k)
    BY <2>1, <2>2, <2>3, TakeFields DEF Taken, Due, LeaseOver
  <2> QED
    BY <1>1, <2>1, <2>2, <2>4, SweepStep DEF RowStep
<1> QED
  BY <1>2, <1>3 DEF Claim

(* An acknowledgement changes at most a row in processing.                 *)
LEMMA AckStep ==
    ASSUME IInv, NEW w \in Workers, AckSent(w) \/ AckError(w)
    PROVE  DOMAIN outbox' = DOMAIN outbox /\ \A j \in DOMAIN outbox : RowStep(j)
<1> DEFINE job == worker[w].job
           row == outbox[job]
<1>1. TypeOK /\ delivered' = delivered /\ InCall(w)
  BY DEF IInv, AckSent, AckError, InCall
<1>2. job \in DOMAIN outbox /\ row \in Row
  BY <1>1, TypeFacts DEF TypeOK
<1>3. CASE outbox' = outbox
  BY <1>1, <1>3 DEF RowStep, Untouched
<1>4. CASE outbox' # outbox /\ AckSent(w)
  <2>1. Holds(w) /\ outbox' = [outbox EXCEPT ![job] = Release(row, "sent")]
    BY <1>4 DEF AckSent
  <2>2. Release(row, "sent").status = "sent" /\ Release(row, "sent").attempts = row.attempts
    BY <1>2, ReleaseFields DEF Statuses
  <2>3. delivered[job] > 0
    BY <1>4 DEF IInv, ArrivalsKnown, AckSent
  <2>4. Acknowledged(job)
    BY <1>1, <1>2, <2>1, <2>2, <2>3 DEF Acknowledged, Holds
  <2> QED
    BY <1>1, <2>1, <2>4 DEF RowStep, Untouched
<1>5. CASE outbox' # outbox /\ AckError(w)
  <2> DEFINE put    == [row EXCEPT !.availableAt = worker[w].current + Delay(worker[w].attempt)]
             status == IF worker[w].attempt >= MaxAttempts THEN "failed" ELSE "pending"
  <2>1. Holds(w) /\ outbox' = [outbox EXCEPT ![job] = Release(put, status)]
    BY <1>5 DEF AckError
  <2>2. put \in Row /\ put.attempts = row.attempts
    <3>1. worker[w].current + Delay(worker[w].attempt) \in Nat
      BY <1>1, DelayType DEF TypeOK, Local
    <3> QED
      BY <1>2, <3>1, PostponeFields
  <2>3. status \in Statuses
    BY DEF Statuses
  <2> HIDE DEF put, status
  <2>4. Release(put, status).status = status /\ Release(put, status).attempts = row.attempts
    BY <2>2, <2>3, ReleaseFields
  <2>5. status = "pending" \/ (status = "failed" /\ row.attempts = MaxAttempts)
    <3>1. row.attempts = worker[w].attempt /\ row.attempts \in 0..MaxAttempts
      BY <1>1, <1>2, <2>1 DEF IInv, HoldersAgree, Row
    <3> QED
      BY <3>1, AttemptsAssumption DEF status
  <2>6. Acknowledged(job)
    BY <1>1, <1>2, <2>1, <2>4, <2>5 DEF Acknowledged, Holds
  <2> QED
    BY <1>1, <2>1, <2>6 DEF RowStep, Untouched
<1> QED
  BY <1>3, <1>4, <1>5

(* A send changes no row, and adds at most one arrival to one.             *)
LEMMA SendStep ==
    ASSUME IInv, NEW w \in Workers, Send(w)
    PROVE  DOMAIN outbox' = DOMAIN outbox /\ \A j \in DOMAIN outbox : RowStep(j)
<1> DEFINE job == worker[w].job
<1>1. TypeOK
  BY DEF IInv
<1>2. PICK n \in {0, 1} : delivered' = [delivered EXCEPT ![job] = @ + n]
  BY <1>1, SendEffect
<1>3. outbox' = outbox /\ worker[w].pc = "sending" /\ job \in DOMAIN outbox
  BY <1>1, SendEffect DEF TypeOK
<1>4. delivered[job] < outbox[job].attempts
  <2>1. w \in Sending(job)
    BY <1>3 DEF Sending
  <2>2. Cardinality(Sending(job)) \in Nat \ {0}
    BY <2>1, SendingFinite, FS_EmptySet
  <2>3. delivered[job] \in Nat /\ outbox[job].attempts \in Nat
    BY <1>1, <1>3, TypeFacts DEF Row
  <2> QED
    BY <1>3, <2>2, <2>3 DEF IInv, DeliveriesPaid
<1>5. \A j \in DOMAIN outbox :
         /\ delivered[j] \in Nat
         /\ delivered'[j] = IF j = job THEN delivered[j] + n ELSE delivered[j]
  BY <1>1, <1>2, <1>3, TypeFacts DEF TypeOK
<1> QED
  BY <1>3, <1>4, <1>5 DEF RowStep, Untouched, Arrived

(* Every step adds a row or advances each row by one step of its life.     *)
LEMMA NextRows ==
    ASSUME IInv, [Next]_vars
    PROVE  \/ \E status \in {"pending", "disabled"} : Enqueue(status)
           \/ /\ DOMAIN outbox' = DOMAIN outbox
              /\ \A j \in DOMAIN outbox : RowStep(j)
<1>1. CASE \E w \in Workers : Claim(w)
  BY <1>1, ClaimStep
<1>2. CASE \E w \in Workers : Send(w)
  BY <1>2, SendStep
<1>3. CASE \E w \in Workers : AckSent(w) \/ AckError(w)
  BY <1>3, AckStep
<1>4. CASE outbox' = outbox /\ delivered' = delivered
  BY <1>4 DEF RowStep, Untouched
<1> QED
  BY <1>1, <1>2, <1>3, <1>4
     DEF Next, vars, Restart, ReadClock, ClaimBusy, AckBusy, Tick

(* No step changes a row that is sent, failed or disabled.                 *)
THEOREM OutboxSettles == Spec => SettledForever
<1>1. IInv /\ [Next]_vars
      => [\A j \in DOMAIN outbox :
            outbox[j].status \in {"sent", "failed", "disabled"}
               => outbox'[j] = outbox[j]]_vars
  <2> SUFFICES ASSUME IInv, [Next]_vars, NEW j \in DOMAIN outbox,
                      outbox[j].status \in {"sent", "failed", "disabled"}
               PROVE  outbox'[j] = outbox[j]
    OBVIOUS
  <2>1. CASE \E status \in {"pending", "disabled"} : Enqueue(status)
    <3>1. TypeOK
      BY DEF IInv
    <3>2. j \in 1..Len(outbox)
      BY <3>1, TypeFacts
    <3> QED
      BY <2>1, <3>1, <3>2, AppendProperties DEF TypeOK, Enqueue
  <2>2. CASE RowStep(j)
    BY <2>2 DEF RowStep, Untouched, Swept, Taken, Acknowledged, Arrived
  <2> QED
    BY <2>1, <2>2, NextRows
<1> QED
  BY <1>1, OutboxInvariant, PTL DEF Spec, SettledForever

(* A row is claimed again only when the delay of its last failed attempt,  *)
(* or the lease of its last claim, has gone by.                            *)
THEOREM OutboxSpacesRetries == Spec => RetriesSpaced
<1>1. IInv /\ [Next]_vars
      => [\A w \in Workers, j \in DOMAIN outbox :
            ClaimJob(w, j) /\ outbox[j].attempts > 0
            => \/ worker[w].current >= lastClaim[j] + LeaseSeconds
               \/ worker[w].current >= lastClaim[j] + Delay(outbox[j].attempts)]_vars
  <2> SUFFICES ASSUME IInv, NEW w \in Workers, NEW j \in DOMAIN outbox,
                      ClaimJob(w, j), outbox[j].attempts > 0
               PROVE  \/ worker[w].current >= lastClaim[j] + LeaseSeconds
                      \/ worker[w].current >= lastClaim[j] + Delay(outbox[j].attempts)
    OBVIOUS
  <2>1. Due(outbox[j], worker[w].current)
    BY ClaimEffect DEF IInv
  <2>2. CASE outbox[j].status = "pending"
    <3>1. outbox[j].availableAt = lastClaim[j] + Delay(outbox[j].attempts)
      BY <2>2 DEF IInv, RowsTimed
    <3>2. worker[w].current \in Nat /\ outbox[j].availableAt \in Nat
      BY TypeFacts DEF IInv, Local, Row
    <3>3. outbox[j].availableAt <= worker[w].current
      BY <2>1, <2>2 DEF Due, LeaseOver
    <3> QED
      BY <3>1, <3>2, <3>3
  <2>3. CASE LeaseOver(outbox[j], worker[w].current)
    <3>1. outbox[j].leaseUntil = lastClaim[j] + LeaseSeconds
      BY <2>3 DEF IInv, RowsTimed, LeaseOver
    <3>2. worker[w].current \in Nat /\ outbox[j].leaseUntil \in Nat
      BY TypeFacts DEF IInv, Local, Row
    <3> QED
      BY <2>3, <3>1, <3>2 DEF LeaseOver
  <2> QED
    BY <2>1, <2>2, <2>3 DEF Due
<1> QED
  BY <1>1, OutboxInvariant, PTL DEF Spec, RetriesSpaced

-----------------------------------------------------------------------------
(* The outbox implements Delivery.                                         *)

(* The notices have the ids and the values of their rows.                  *)
LEMMA NoticesFacts ==
    ASSUME NEW rows \in Seq(Row), NEW arrivals \in Seq(Nat), DOMAIN arrivals = DOMAIN rows
    PROVE  LET s == [j \in DOMAIN rows |-> Notice(rows[j], arrivals[j])]
           IN  s \in Seq(Promise!Notice) /\ Len(s) = Len(rows)
<1> DEFINE s == [j \in DOMAIN rows |-> Notice(rows[j], arrivals[j])]
<1>1. Len(rows) \in Nat /\ DOMAIN rows = 1..Len(rows)
  BY LenProperties
<1>2. \A j \in DOMAIN rows : rows[j] \in Row /\ arrivals[j] \in Nat
  BY ElementOfSeq, LenProperties
<1>3. s \in [1..Len(rows) -> Promise!Notice]
  BY <1>1, <1>2 DEF Notice, Promise!Notice, Progress, Row, Statuses
<1>4. s \in Seq(Promise!Notice)
  BY <1>1, <1>3, SeqDef
<1> QED
  BY <1>1, <1>3, <1>4, LenProperties

(* A step of a row is a step of its notice.                                *)
LEMMA RowStepLife ==
    ASSUME NEW j, RowStep(j)
    PROVE  Promise!Life(Notice(outbox[j], delivered[j]), Notice(outbox'[j], delivered'[j]))
<1>1. CASE Untouched(j)
  BY <1>1 DEF Untouched, Promise!Life
<1>2. CASE Swept(j)
  BY <1>2 DEF Swept, Notice, Progress, Promise!Life, Promise!GivenUp
<1>3. CASE Taken(j)
  BY <1>3 DEF Taken, Notice, Progress, Promise!Life, Promise!Claimed
<1>4. CASE Acknowledged(j)
  BY <1>4 DEF Acknowledged, Notice, Progress,
              Promise!Life, Promise!GivenUp, Promise!Confirmed
<1>5. CASE Arrived(j)
  BY <1>5 DEF Arrived, Notice, Promise!Life, Promise!Delivered
<1> QED
  BY <1>1, <1>2, <1>3, <1>4, <1>5 DEF RowStep

(* A new row is a new notice.                                              *)
LEMMA EnqueueSubmits ==
    ASSUME TypeOK, TypeOK', NEW status \in {"pending", "disabled"}, Enqueue(status)
    PROVE  Promise!Submit
<1> DEFINE new == Promise!NewNotice(IF status = "pending" THEN "open" ELSE "disabled")
           n   == Len(outbox) + 1
<1>1. new \in Promise!Notice
  BY DEF Promise!NewNotice, Promise!Notice
<1>2. /\ Len(outbox) \in Nat /\ DOMAIN outbox = 1..Len(outbox)
      /\ Len(delivered) = Len(outbox)
  BY LenProperties DEF TypeOK
<1>3. /\ Len(outbox') = n /\ DOMAIN outbox' = 1..n
      /\ \A j \in 1..Len(outbox) : outbox'[j] = outbox[j] /\ delivered'[j] = delivered[j]
      /\ outbox'[n] = NewRow(status, now) /\ delivered'[n] = 0
  BY <1>2, AppendProperties, LenProperties DEF TypeOK, Enqueue
<1>4. /\ Notices \in Seq(Promise!Notice) /\ Len(Notices) = Len(outbox)
      /\ Notices' \in Seq(Promise!Notice) /\ Len(Notices') = n
  BY <1>3, NoticesFacts DEF TypeOK, Notices
<1>5. /\ Append(Notices, new) \in Seq(Promise!Notice)
      /\ Len(Append(Notices, new)) = n
      /\ \A j \in 1..Len(outbox) : Append(Notices, new)[j] = Notices[j]
      /\ Append(Notices, new)[n] = new
  BY <1>1, <1>4, AppendProperties
<1>6. ASSUME NEW j \in 1..n PROVE Notices'[j] = Append(Notices, new)[j]
  <2>1. Notices'[j] = Notice(outbox'[j], delivered'[j])
    BY <1>3 DEF Notices
  <2>2. CASE j \in 1..Len(outbox)
    BY <1>2, <1>3, <1>5, <2>1, <2>2 DEF Notices
  <2>3. CASE j = n
    BY <1>3, <1>5, <2>1, <2>3 DEF Notice, Progress, NewRow, Promise!NewNotice
  <2>4. j \in 1..Len(outbox) \/ j = n
    BY <1>2
  <2> QED
    BY <2>2, <2>3, <2>4
<1>7. Notices' = Append(Notices, new)
  BY <1>4, <1>5, <1>6, SeqEqual
<1> QED
  BY <1>7 DEF Promise!Submit

(* Every behaviour of the outbox is one that Delivery allows: at most      *)
(* MaxAttempts claims, at most one message for each, sent only after one.  *)
THEOREM OutboxImplementsDelivery == Spec => Promise!SafeSpec
<1>1. Init => Promise!Init
  BY DEF Init, Promise!Init, Notices
<1>2. IInv /\ [Next]_vars => [Promise!Next]_Notices
  <2> SUFFICES ASSUME IInv, [Next]_vars PROVE Promise!Next
    OBVIOUS
  <2>1. TypeOK /\ TypeOK'
    BY NextType DEF IInv
  <2>2. CASE \E status \in {"pending", "disabled"} : Enqueue(status)
    BY <2>1, <2>2, EnqueueSubmits DEF Promise!Next
  <2>3. CASE /\ DOMAIN outbox' = DOMAIN outbox
             /\ \A j \in DOMAIN outbox : RowStep(j)
    BY <2>3, RowStepLife DEF Notices, Promise!Advance, Promise!Next
  <2> QED
    BY <2>2, <2>3, NextRows
<1> QED
  BY <1>1, <1>2, OutboxInvariant, PTL DEF Spec, Promise!SafeSpec
=============================================================================
