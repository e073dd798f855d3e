--------------------------- MODULE RequestProofs ---------------------------
(***************************************************************************)
(* Proofs about what every request passes and about the longest answer:    *)
(* the gate (AdminGate), the envelope (Envelope) and the export of the     *)
(* order history (CsvExport).  Each has an invariant of its own; the parts *)
(* share no variable.                                                      *)
(***************************************************************************)
EXTENDS AdminGate, Envelope, CsvExport, SequenceTheorems, Sums, TLAPS


-----------------------------------------------------------------------------
(***************************************************************************)
(* Proofs about the gate in front of the application (module AdminGate),   *)
(* for any number of requests, processes and files.  The invariant says    *)
(* that the upload slot goes with the stages of a request in which it may  *)
(* have files, whatever stage it fails at and whichever process dies.      *)
(***************************************************************************)
Where == {Free} \cup [at : Stages] \cup [at : {"limit"}, bucket : Buckets, now : Times]

(* The stages of an upload that was admitted.                              *)
Admitted == {"parsing", "checking", "ready", "importing", "closing"}

At(r) == request[r].at

GateTypes ==
    /\ clock \in Times
    /\ request \in [Requests -> Where]
    /\ upload \in Requests \cup {Nobody}
    /\ importing \in Requests \cup {Nobody, Script}
    /\ parts \in [Requests -> 0..MaxFiles] /\ open \in [Requests -> 0..MaxFiles]

(* What holds of one request.                                              *)
Kept(r) ==
    /\ At(r) \in Admitted => upload = r
    /\ At(r) \notin Admitted => parts[r] = 0 /\ open[r] = 0
    /\ At(r) \in Admitted \ {"closing"} => open[r] = parts[r]
    /\ At(r) = "importing" => parts[r] > 0
    /\ importing = r => At(r) = "importing"

GateInv == GateTypes /\ \A r \in Requests : Kept(r)

LEMMA GateInitInv == GateInit => GateInv
<1> SUFFICES ASSUME GateInit PROVE GateInv
  OBVIOUS
<1>1. GateTypes
  <2>1. 0 \in Times /\ 0 \in 0..MaxFiles /\ Free \in Where
    BY LimitsAssumption DEF Times, Where
  <2> QED BY <2>1 DEF GateInit, GateTypes
<1>2. \A r \in Requests : request[r].at = "free" /\ parts[r] = 0 /\ open[r] = 0 /\ importing # r
  BY LimitsAssumption DEF GateInit, Free
<1> QED BY <1>1, <1>2 DEF GateInv, Kept, At, Admitted

LEMMA GoesAt ==
    ASSUME GateTypes, NEW r \in Requests, NEW from, NEW to \in Stages \cup {"free"},
           Goes(r, from, to)
    PROVE  /\ At(r) = from /\ At(r)' = to
           /\ \A q \in Requests \ {r} : At(q)' = At(q)
           /\ request' \in [Requests -> Where]
<1>1. [at |-> to] \in Where /\ [at |-> to].at = to
  BY DEF Where, Free
<1> QED BY <1>1 DEF GateTypes, Goes, At

(* What is left to show of a step of one upload.                           *)
LEMMA UploadStep ==
    ASSUME GateInv, NEW r \in Requests, GateTypes', Kept(r)',
           \A q \in Requests \ {r} : At(q)' = At(q) /\ parts'[q] = parts[q] /\ open'[q] = open[q],
           \A q \in Requests \ {r} : upload = q => upload' = q,
           \A q \in Requests \ {r} : importing' = q => importing = q
    PROVE  GateInv'
<1> SUFFICES ASSUME NEW q \in Requests PROVE Kept(q)'
  BY DEF GateInv
<1>1. CASE q # r
  BY <1>1 DEF GateInv, Kept
<1> QED BY <1>1

LEMMA LimitsInv ==
    ASSUME GateInv, NEW r \in Requests, Limits(r)
    PROVE  GateInv'
<1>1. ASSUME NEW y \in Where, request[r].at \in {"free", "limit"}, y.at \in {"free", "limit"},
             request' = [request EXCEPT ![r] = y], UNCHANGED slots, UNCHANGED files,
             clock' = clock
      PROVE  GateInv'
  <2>1. /\ At(r) \in {"free", "limit"} /\ At(r)' \in {"free", "limit"}
        /\ \A q \in Requests \ {r} : At(q)' = At(q)
        /\ request' \in [Requests -> Where]
    BY <1>1 DEF GateInv, GateTypes, At
  <2>2. GateTypes'
    BY <1>1, <2>1 DEF GateInv, GateTypes, slots, files
  <2>3. Kept(r)'
    BY <1>1, <2>1 DEF GateInv, Kept, Admitted, slots, files
  <2> QED BY <1>1, <2>1, <2>2, <2>3, UploadStep DEF slots, files
<1>2. Free \in Where /\ Free.at = "free"
  BY DEF Where, Free
<1>3. ASSUME NEW b \in Buckets, Ask(r, b) PROVE GateInv'
  <2>1. /\ [at |-> "limit", bucket |-> b, now |-> clock] \in Where
        /\ [at |-> "limit", bucket |-> b, now |-> clock].at = "limit"
    BY <1>3 DEF Where, GateInv, GateTypes
  <2> QED BY <1>1, <1>2, <1>3, <2>1 DEF Ask, table
<1>4. CASE ConsumeRate(r) \/ Busy(r)
  BY <1>1, <1>2, <1>4 DEF ConsumeRate, Busy, table
<1> QED BY <1>3, <1>4 DEF Limits

(* A request asks for the slot, and gets it or not.                        *)
LEMMA SlotInv ==
    ASSUME GateInv, NEW r \in Requests, Upload(r) \/ Enter(r) \/ TurnAway(r)
    PROVE  GateInv'
<1>1. Goes(r, "free", "slot") \/ Goes(r, "slot", "parsing") \/ Goes(r, "slot", "free")
  BY DEF Upload, Enter, TurnAway
<1>2. /\ At(r) \in {"free", "slot"} /\ At(r)' \in {"free", "slot", "parsing"}
      /\ \A q \in Requests \ {r} : At(q)' = At(q)
      /\ request' \in [Requests -> Where]
      /\ At(r)' = "parsing" => Enter(r)
  <2>1. CASE Goes(r, "free", "slot") /\ Upload(r)
    BY <2>1, GoesAt DEF GateInv, Stages
  <2>2. CASE Goes(r, "slot", "parsing") /\ Enter(r)
    BY <2>2, GoesAt DEF GateInv, Stages
  <2>3. CASE Goes(r, "slot", "free") /\ TurnAway(r)
    BY <2>3, GoesAt DEF GateInv, Stages
  <2> QED BY <2>1, <2>2, <2>3 DEF Upload, Enter, TurnAway
<1>3. /\ UNCHANGED <<clock, importing, parts, open>>
      /\ upload' = upload \/ (upload = Nobody /\ upload' = r)
      /\ Enter(r) => upload' = r
  BY DEF Upload, Enter, TurnAway, table, slots, files
<1>4. GateTypes'
  BY <1>2, <1>3 DEF GateInv, GateTypes
<1>5. Kept(r)'
  BY <1>2, <1>3 DEF GateInv, Kept, Admitted
<1>6. \A q \in Requests \ {r} : upload = q => upload' = q
  BY <1>3, LimitsAssumption
<1> QED BY <1>2, <1>3, <1>4, <1>5, <1>6, UploadStep

LEMMA SpoolInv == ASSUME GateInv, NEW r \in Requests, Spool(r) PROVE GateInv'
<1>1. /\ UNCHANGED <<clock, request, upload, importing>> /\ At(r) = "parsing"
      /\ parts' = [parts EXCEPT ![r] = @ + 1] /\ open' = [open EXCEPT ![r] = @ + 1]
      /\ parts[r] < MaxFiles
  BY DEF Spool, table, slots, At
<1>2. open[r] = parts[r] /\ parts[r] + 1 \in 0..MaxFiles
  BY <1>1, LimitsAssumption DEF GateInv, GateTypes, Kept, Admitted
<1>3. GateTypes'
  BY <1>1, <1>2 DEF GateInv, GateTypes
<1>4. parts'[r] = open'[r] /\ \A q \in Requests : At(q)' = At(q)
  BY <1>1, <1>2 DEF GateInv, GateTypes, At
<1>5. Kept(r)'
  BY <1>1, <1>4 DEF GateInv, Kept, Admitted
<1>6. \A q \in Requests \ {r} : parts'[q] = parts[q] /\ open'[q] = open[q]
  BY <1>1 DEF GateInv, GateTypes
<1> QED BY <1>1, <1>3, <1>4, <1>5, <1>6, UploadStep

(* From stage to stage, with slot and files as they are.                   *)
LEMMA StageInv ==
    ASSUME GateInv, NEW r \in Requests,
           ParseFails(r) \/ Parsed(r) \/ Verify(r) \/ RefuseImport(r)
    PROVE  GateInv'
<1>1. /\ UNCHANGED <<clock, upload, importing, parts, open>>
      /\ \/ Goes(r, "parsing", "closing") \/ Goes(r, "parsing", "checking")
         \/ Goes(r, "checking", "ready") \/ Goes(r, "checking", "closing")
         \/ Goes(r, "ready", "closing")
  BY DEF ParseFails, Parsed, Verify, RefuseImport, table, slots, files
<1>2. /\ At(r) \in {"parsing", "checking", "ready"}
      /\ At(r)' \in {"checking", "ready", "closing"}
      /\ \A q \in Requests \ {r} : At(q)' = At(q)
      /\ request' \in [Requests -> Where]
  BY <1>1, GoesAt DEF GateInv, Stages
<1>3. GateTypes'
  BY <1>1, <1>2 DEF GateInv, GateTypes
<1>4. Kept(r)'
  BY <1>1, <1>2 DEF GateInv, Kept, Admitted
<1> QED BY <1>1, <1>2, <1>3, <1>4, UploadStep

LEMMA ImportInv ==
    ASSUME GateInv, NEW r \in Requests, StartImport(r) \/ FinishImport(r)
    PROVE  GateInv'
<1>1. CASE StartImport(r)
  <2>1. /\ UNCHANGED <<clock, upload, parts, open>> /\ parts[r] > 0
        /\ importing = Nobody /\ importing' = r /\ Goes(r, "ready", "importing")
    BY <1>1 DEF StartImport, table, files
  <2>2. /\ At(r) = "ready" /\ At(r)' = "importing"
        /\ \A q \in Requests \ {r} : At(q)' = At(q)
        /\ request' \in [Requests -> Where]
    BY <2>1, GoesAt DEF GateInv, Stages
  <2>3. GateTypes' /\ Kept(r)'
    BY <2>1, <2>2 DEF GateInv, GateTypes, Kept, Admitted
  <2> QED BY <2>1, <2>2, <2>3, UploadStep
<1>2. CASE FinishImport(r)
  <2>1. /\ UNCHANGED <<clock, upload, parts, open>> /\ importing' = Nobody
        /\ Goes(r, "importing", "closing")
    BY <1>2 DEF FinishImport, table, files
  <2>2. /\ At(r) = "importing" /\ At(r)' = "closing"
        /\ \A q \in Requests \ {r} : At(q)' = At(q)
        /\ request' \in [Requests -> Where]
    BY <2>1, GoesAt DEF GateInv, Stages
  <2>3. GateTypes' /\ Kept(r)'
    BY <2>1, <2>2, LimitsAssumption DEF GateInv, GateTypes, Kept, Admitted
  <2> QED BY <2>1, <2>2, <2>3, LimitsAssumption, UploadStep
<1> QED BY <1>1, <1>2

LEMMA GateCloseInv == ASSUME GateInv, NEW r \in Requests, CloseFile(r) PROVE GateInv'
<1>1. /\ UNCHANGED <<clock, request, upload, importing, parts>> /\ At(r) = "closing"
      /\ open' = [open EXCEPT ![r] = @ - 1] /\ open[r] > 0
  BY DEF CloseFile, table, slots, At
<1>2. open[r] - 1 \in 0..MaxFiles
  BY <1>1, LimitsAssumption DEF GateInv, GateTypes
<1>3. GateTypes'
  BY <1>1, <1>2 DEF GateInv, GateTypes
<1>4. \A q \in Requests : At(q)' = At(q)
  BY <1>1 DEF At
<1>5. Kept(r)'
  BY <1>1, <1>4 DEF GateInv, Kept, Admitted
<1>6. \A q \in Requests \ {r} : open'[q] = open[q]
  BY <1>1 DEF GateInv, GateTypes
<1> QED BY <1>1, <1>3, <1>4, <1>5, <1>6, UploadStep

LEMMA GateLeaveInv == ASSUME GateInv, NEW r \in Requests, LeaveGate(r) PROVE GateInv'
<1>1. /\ UNCHANGED <<clock, importing, open>> /\ open[r] = 0 /\ upload' = Nobody
      /\ parts' = [parts EXCEPT ![r] = 0] /\ Goes(r, "closing", "free")
  BY DEF LeaveGate, table
<1>2. /\ At(r) = "closing" /\ At(r)' = "free"
      /\ \A q \in Requests \ {r} : At(q)' = At(q)
      /\ request' \in [Requests -> Where]
  BY <1>1, GoesAt DEF GateInv
<1>3. GateTypes'
  BY <1>1, <1>2, LimitsAssumption DEF GateInv, GateTypes
<1>4. parts'[r] = 0 /\ open'[r] = 0 /\ \A q \in Requests \ {r} : parts'[q] = parts[q]
  BY <1>1 DEF GateInv, GateTypes
<1>5. Kept(r)'
  BY <1>1, <1>2, <1>4 DEF GateInv, Kept, Admitted
<1>6. upload = r
  BY <1>2 DEF GateInv, Kept, Admitted
<1> QED BY <1>1, <1>2, <1>3, <1>4, <1>5, <1>6, UploadStep

(* Time, the script, and a step that changes nothing.                      *)
LEMMA GateAsideInv ==
    ASSUME GateInv, Tick \/ ScriptImport \/ UNCHANGED gateVars
    PROVE  GateInv'
<1>1. /\ clock' \in Times /\ UNCHANGED <<request, upload, parts, open>>
      /\ importing' \in {importing, Nobody, Script}
  BY LimitsAssumption DEF GateInv, GateTypes, Times, Tick, ScriptImport, gateVars, table, slots, files
<1>2. GateTypes'
  BY <1>1 DEF GateInv, GateTypes
<1>3. \A r \in Requests : Kept(r)'
  BY <1>1, LimitsAssumption DEF GateInv, Kept, At
<1> QED BY <1>2, <1>3 DEF GateInv

(* A process dies, and all that its requests held is free.                 *)
LEMMA DieInv == ASSUME GateInv, NEW w, Die(w) PROVE GateInv'
<1> DEFINE gone == {r \in Requests : WorkerOf[r] = w}
<1>1. /\ request' = [r \in Requests |-> IF r \in gone THEN Free ELSE request[r]]
      /\ upload' = IF upload \in gone THEN Nobody ELSE upload
      /\ importing' = IF importing \in gone THEN Nobody ELSE importing
      /\ parts' = [r \in Requests |-> IF r \in gone THEN 0 ELSE parts[r]]
      /\ open' = [r \in Requests |-> IF r \in gone THEN 0 ELSE open[r]]
      /\ clock' = clock
  BY DEF Die, table
<1>2. gone \subseteq Requests /\ Free \in Where /\ Free.at = "free"
  BY DEF Where, Free
<1> HIDE DEF gone
<1>3. GateTypes'
  BY <1>1, <1>2, LimitsAssumption DEF GateInv, GateTypes
<1>4. ASSUME NEW r \in Requests PROVE Kept(r)'
  <2>1. CASE r \in gone
    <3>1. At(r)' = "free" /\ parts'[r] = 0 /\ open'[r] = 0
      BY <1>1, <1>2, <2>1 DEF At
    <3>2. importing' # r
      BY <1>1, <2>1, LimitsAssumption
    <3> QED BY <3>1, <3>2 DEF Kept, Admitted
  <2>2. CASE r \notin gone
    <3>1. At(r)' = At(r) /\ parts'[r] = parts[r] /\ open'[r] = open[r]
      BY <1>1, <2>2 DEF At
    <3>2. (upload = r => upload' = r) /\ (importing' = r => importing = r)
      BY <1>1, <2>2, LimitsAssumption
    <3> QED BY <3>1, <3>2 DEF GateInv, Kept
  <2> QED BY <2>1, <2>2
<1> QED BY <1>3, <1>4 DEF GateInv

-----------------------------------------------------------------------------
(* The invariant of the upload slot, for any number of requests, processes *)
(* and files.                                                              *)
THEOREM GateInvariant == GateSpec => []GateInv
<1>1. GateInv /\ [GateNext]_gateVars => GateInv'
  BY LimitsInv, SlotInv, SpoolInv, StageInv, ImportInv, GateCloseInv, GateLeaveInv, GateAsideInv, DieInv
     DEF GateNext, Serves
<1> QED BY GateInitInv, <1>1, PTL DEF GateSpec

(* Only the upload that was admitted has temporary files, over all         *)
(* processes and until the last of its files is closed.                    *)
THEOREM OneUploadSpools == GateSpec => []OneSpool
<1>1. GateInv => OneSpool
  BY DEF GateInv, GateTypes, Kept, OneSpool
<1> QED BY GateInvariant, <1>1, PTL

(* An import that was started from a form finds all of its files open, and *)
(* its request still holds the upload slot.                                *)
THEOREM ImportsHaveFiles == GateSpec => []ImportHasFiles
<1>1. GateInv => ImportHasFiles
  BY DEF GateInv, Kept, Admitted, ImportHasFiles
<1> QED BY GateInvariant, <1>1, PTL

-----------------------------------------------------------------------------
(* The rate limits.  A window begins at the time of a request, but up to   *)
(* the lag later by the clock, and ends by the clock no earlier than by    *)
(* the time of the request; so what has passed since a recent time passed  *)
(* in the window that is open and in at most one before it, and what has   *)
(* passed since this window must have begun is what its row counts.        *)
Since(p, b, time) == SumFunctionOnSet(p[b], time..MaxClock)

RatesOf(t, p, now, b) ==
    /\ \A x \in Times : x > now => p[b][x] = 0
    /\ \A x \in Times : x > now - (Window - Lag) =>
          Since(p, b, x) <= RateLimit + (IF b \in DOMAIN t THEN t[b].count ELSE 0)
    /\ b \in DOMAIN t => \A x \in Times : x > t[b].expires - Window + Lag =>
          Since(p, b, x) <= t[b].count

IsTable(t) ==
    /\ DOMAIN t \subseteq Buckets
    /\ IsFiniteSet(DOMAIN t) /\ Cardinality(DOMAIN t) <= MaxRows
    /\ \A b \in DOMAIN t : t[b] \in Row

IsHistory(p) == p \in [Buckets -> [Times -> Nat]]

OneMore(p, b, c) == [p EXCEPT ![b][c] = @ + 1]

(* Requests wait for the lock no longer than the lag.                      *)
Recent ==
    \A r \in Requests : At(r) = "limit" =>
        /\ request[r].bucket \in Buckets /\ request[r].now \in Times
        /\ request[r].now <= clock /\ clock <= request[r].now + Lag

RatesInv ==
    /\ IsTable(rows) /\ IsHistory(passed)
    /\ Recent
    /\ \A b \in Buckets : RatesOf(rows, passed, clock, b)
    /\ TwiceTheLimit

LEMMA SinceNat ==
    ASSUME NEW p, IsHistory(p), NEW b \in Buckets, NEW x \in Times
    PROVE  /\ IsFiniteSet(x..MaxClock) /\ x..MaxClock \subseteq Times
           /\ \A y \in x..MaxClock : p[b][y] \in Nat
           /\ Since(p, b, x) \in Nat
<1>1. x \in Int /\ MaxClock \in Int /\ x..MaxClock \subseteq Times
  BY LimitsAssumption DEF Times
<1>2. IsFiniteSet(x..MaxClock)
  BY <1>1, FS_Interval
<1>3. \A y \in x..MaxClock : p[b][y] \in Nat
  BY <1>1 DEF IsHistory
<1> QED BY <1>1, <1>2, <1>3, SumNat DEF Since

LEMMA RowNumbers ==
    ASSUME NEW t, IsTable(t), NEW b \in DOMAIN t
    PROVE  /\ t[b].count \in 1..RateLimit /\ t[b].count \in Nat
           /\ t[b].expires \in Nat
           /\ t[b] = [count |-> t[b].count, expires |-> t[b].expires]
BY LimitsAssumption DEF IsTable, Row

(* A window that ends leaves no more than its limit in the recent past.    *)
LEMMA LiveRates ==
    ASSUME NEW now \in Times, NEW c \in Times, now <= c, IsTable(rows), NEW p, IsHistory(p),
           NEW b \in Buckets, RatesOf(rows, p, c, b)
    PROVE  RatesOf(Live(now), p, c, b)
<1> DEFINE t == Live(now)
<1>1. /\ DOMAIN t = {x \in DOMAIN rows : rows[x].expires > now}
      /\ \A x \in DOMAIN t : t[x] = rows[x]
  BY DEF Live
<1> HIDE DEF t
<1>2. CASE b \in DOMAIN rows /\ b \notin DOMAIN t
  <2>1. /\ rows[b].expires <= now /\ rows[b].count <= RateLimit
        /\ rows[b].expires \in Nat /\ rows[b].count \in Nat
    BY <1>1, <1>2, RowNumbers, LimitsAssumption DEF Times
  <2>2. ASSUME NEW x \in Times, x > c - (Window - Lag)
        PROVE  Since(p, b, x) <= RateLimit
    <3>1. x > rows[b].expires - Window + Lag
      BY <2>1, <2>2, LimitsAssumption DEF Times
    <3>2. Since(p, b, x) <= rows[b].count
      BY <1>2, <3>1 DEF RatesOf
    <3> QED BY <2>1, <3>2, SinceNat, LimitsAssumption
  <2> QED BY <1>2, <2>2, LimitsAssumption DEF RatesOf, t
<1>3. CASE ~(b \in DOMAIN rows /\ b \notin DOMAIN t)
  <2>1. b \in DOMAIN t <=> b \in DOMAIN rows
    BY <1>1, <1>3
  <2> QED BY <1>1, <2>1 DEF RatesOf, t
<1> QED BY <1>2, <1>3

LEMMA LiveTable ==
    ASSUME NEW now, IsTable(rows)
    PROVE  IsTable(Live(now))
<1>1. /\ DOMAIN Live(now) \subseteq DOMAIN rows
      /\ \A b \in DOMAIN Live(now) : Live(now)[b] = rows[b]
  BY DEF Live
<1>2. /\ IsFiniteSet(DOMAIN Live(now))
      /\ Cardinality(DOMAIN Live(now)) <= Cardinality(DOMAIN rows)
      /\ Cardinality(DOMAIN Live(now)) \in Nat /\ Cardinality(DOMAIN rows) \in Nat
  BY <1>1, FS_Subset, FS_CardinalityType DEF IsTable
<1>3. Cardinality(DOMAIN Live(now)) <= MaxRows
  BY <1>2, LimitsAssumption DEF IsTable
<1> HIDE DEF Live
<1> QED BY <1>1, <1>2, <1>3 DEF IsTable

(* What has passed since a time, when one more passes.                     *)
LEMMA SinceOneMore ==
    ASSUME NEW p, IsHistory(p), NEW b \in Buckets, NEW c \in Times, NEW q,
           q = OneMore(p, b, c), NEW x \in Times
    PROVE  /\ Since(p, b, x) \in Nat /\ Since(q, b, x) \in Nat
           /\ Since(q, b, x) <= Since(p, b, x) + 1
           /\ x > c => Since(q, b, x) = Since(p, b, x)
<1>1. \A y \in Times : q[b][y] = IF y = c THEN p[b][y] + 1 ELSE p[b][y]
  BY DEF IsHistory, OneMore
<1> DEFINE f == p[b]
           h == q[b]
           A == x..MaxClock
<1>2. /\ IsFiniteSet(A) /\ \A y \in A : f[y] \in Nat
      /\ \A y \in A : h[y] = IF y = c THEN f[y] + 1 ELSE f[y]
  BY <1>1, SinceNat
<1>3. x > c => c \notin A
  BY LimitsAssumption DEF Times
<1> HIDE DEF f, h, A
<1> DEFINE n == SumFunctionOnSet(f, A)
           m == SumFunctionOnSet(h, A)
<1>4. m = IF c \in A THEN n + 1 ELSE n
  BY <1>2, SumOneMore
<1>5. n \in Nat
  BY <1>2, SumNat
<1>6. n = Since(p, b, x) /\ m = Since(q, b, x)
  BY DEF Since, f, h, A
<1> HIDE DEF n, m
<1>7. m \in Nat /\ m <= n + 1 /\ (x > c => m = n)
  BY <1>3, <1>4, <1>5
<1> QED BY <1>5, <1>6, <1>7

(* A request passes in the window of its client, or begins one.            *)
LEMMA PassRates ==
    ASSUME NEW t, IsTable(t), NEW p, IsHistory(p), NEW b \in Buckets,
           NEW now \in Times, NEW c \in Times, now <= c, c <= now + Lag,
           RatesOf(t, p, c, b), NEW row,
           \/ b \in DOMAIN t /\ t[b].count < RateLimit /\ row = [t[b] EXCEPT !.count = @ + 1]
           \/ b \notin DOMAIN t /\ row = [count |-> 1, expires |-> now + Window],
           NEW q, q = OneMore(p, b, c)
    PROVE  RatesOf(SetRow(t, b, row), q, c, b) /\ row \in Row
<1> DEFINE u == SetRow(t, b, row)
<1>1. b \in DOMAIN u /\ u[b] = row
  BY DEF SetRow
<1> HIDE DEF u
<1>2. ASSUME NEW x \in Times
      PROVE  /\ Since(p, b, x) \in Nat /\ Since(q, b, x) \in Nat
             /\ Since(q, b, x) <= Since(p, b, x) + 1
             /\ x > c => Since(q, b, x) = Since(p, b, x)
  BY SinceOneMore
<1>3. \A x \in Times : x > c => q[b][x] = 0
  <2>1. \A x \in Times : q[b][x] = IF x = c THEN p[b][x] + 1 ELSE p[b][x]
    BY DEF IsHistory, OneMore
  <2> QED BY <2>1 DEF RatesOf, Times
<1>4. CASE b \in DOMAIN t
  <2> DEFINE n == t[b].count
             e == t[b].expires
  <2>1. /\ n \in 1..RateLimit /\ n \in Nat /\ e \in 0..(MaxClock + Window)
        /\ n < RateLimit /\ row.count = n + 1 /\ row.expires = e /\ row \in Row
    BY <1>4, LimitsAssumption DEF IsTable, Row
  <2>2. /\ \A x \in Times : x > c - (Window - Lag) => Since(p, b, x) <= RateLimit + n
        /\ \A x \in Times : x > e - Window + Lag => Since(p, b, x) <= n
    BY <1>4 DEF RatesOf
  <2> HIDE DEF n, e
  <2>3. ASSUME NEW x \in Times, x > c - (Window - Lag) PROVE Since(q, b, x) <= RateLimit + (n + 1)
    BY <1>2, <2>1, <2>2, <2>3, LimitsAssumption
  <2>4. ASSUME NEW x \in Times, x > e - Window + Lag PROVE Since(q, b, x) <= n + 1
    BY <1>2, <2>1, <2>2, <2>4
  <2> QED BY <1>1, <1>3, <2>1, <2>3, <2>4 DEF RatesOf, u
<1>5. CASE b \notin DOMAIN t
  <2>1. row.count = 1 /\ row.expires = now + Window /\ row \in Row
    BY <1>5, LimitsAssumption DEF Row, Times
  <2>2. ASSUME NEW x \in Times, x > c - (Window - Lag) PROVE Since(q, b, x) <= RateLimit + 1
    <3>1. Since(p, b, x) <= RateLimit
      BY <1>5, <2>2, LimitsAssumption DEF RatesOf
    <3> QED BY <1>2, <3>1, LimitsAssumption
  <2>3. ASSUME NEW x \in Times, x > (now + Window) - Window + Lag PROVE Since(q, b, x) <= 1
    <3>1. x > c
      BY <2>3, LimitsAssumption DEF Times
    <3>2. \A y \in x..MaxClock : p[b][y] = 0
      BY <3>1, LimitsAssumption DEF RatesOf, Times
    <3>3. Since(p, b, x) = 0
      BY <3>2, SinceNat, SumZero DEF Since
    <3> QED BY <1>2, <3>1, <3>3 DEF Times
  <2> QED BY <1>1, <1>3, <2>1, <2>2, <2>3 DEF RatesOf, u
<1> QED BY <1>4, <1>5

(* The other clients are not concerned.                                    *)
LEMMA PassRatesOthers ==
    ASSUME NEW t, NEW p, IsHistory(p), NEW b \in Buckets, NEW a \in Buckets \ {b},
           NEW c \in Times, RatesOf(t, p, c, a), NEW row, NEW q, q = OneMore(p, b, c)
    PROVE  RatesOf(SetRow(t, b, row), q, c, a)
<1>1. q[a] = p[a]
  BY DEF IsHistory, OneMore
<1>2. \A x : Since(q, a, x) = Since(p, a, x)
  BY <1>1 DEF Since
<1>3. (a \in DOMAIN SetRow(t, b, row) <=> a \in DOMAIN t)
      /\ (a \in DOMAIN t => SetRow(t, b, row)[a] = t[a])
  BY DEF SetRow
<1> QED BY <1>1, <1>2, <1>3 DEF RatesOf

LEMMA PassTable ==
    ASSUME NEW t, IsTable(t), NEW b \in Buckets, NEW row \in Row,
           b \in DOMAIN t \/ ~Full(t)
    PROVE  IsTable(SetRow(t, b, row))
<1>1. /\ DOMAIN SetRow(t, b, row) = DOMAIN t \cup {b}
      /\ \A x \in DOMAIN t \cup {b} : SetRow(t, b, row)[x] = IF x = b THEN row ELSE t[x]
  BY DEF SetRow
<1>2. /\ IsFiniteSet(DOMAIN t \cup {b})
      /\ Cardinality(DOMAIN t \cup {b}) =
            IF b \in DOMAIN t THEN Cardinality(DOMAIN t) ELSE Cardinality(DOMAIN t) + 1
      /\ Cardinality(DOMAIN t) \in Nat
  BY FS_AddElement, FS_CardinalityType DEF IsTable
<1>3. Cardinality(DOMAIN t \cup {b}) <= MaxRows
  BY <1>2, LimitsAssumption DEF IsTable, Full
<1> HIDE DEF SetRow
<1> QED BY <1>1, <1>2, <1>3 DEF IsTable

(* A stretch of time in which a request passes now is recent; any other    *)
(* has what it had.                                                        *)
LEMMA PassTwice ==
    ASSUME IsHistory(passed), TwiceTheLimit, NEW b \in Buckets,
           NEW c \in Times, passed' = OneMore(passed, b, c), NEW n \in 0..RateLimit,
           \A x \in Times : x > c - (Window - Lag) => Since(passed', b, x) <= RateLimit + n
    PROVE  TwiceTheLimit'
<1>1. IsHistory(passed')
  BY DEF IsHistory, OneMore
<1>2. /\ \A x \in Times : passed'[b][x] = IF x = c THEN passed[b][x] + 1 ELSE passed[b][x]
      /\ \A a \in Buckets \ {b} : passed'[a] = passed[a]
  BY DEF IsHistory, OneMore
<1> DEFINE I(x) == {y \in x..(x + Window - Lag - 1) : y <= MaxClock}
<1>3. ASSUME NEW x \in Times
      PROVE  SumFunctionOnSet(passed'[b], I(x)) <= 2 * RateLimit
  <2> DEFINE A == I(x)
             f == passed[b]
             h == passed'[b]
  <2>1. A \subseteq x..MaxClock /\ x..MaxClock \subseteq Times /\ IsFiniteSet(x..MaxClock)
    BY SinceNat, LimitsAssumption DEF Times
  <2>2. IsFiniteSet(A) /\ A \subseteq Times
    BY <2>1, FS_Subset
  <2>3. CASE c \in A
    <3>1. x > c - (Window - Lag)
      BY <2>3, LimitsAssumption DEF Times
    <3>2. Since(passed', b, x) <= RateLimit + n
      BY <3>1
    <3>3. \A y \in x..MaxClock : h[y] \in Nat
      BY <1>1, <2>1 DEF IsHistory
    <3> HIDE DEF A, h
    <3>4. SumFunctionOnSet(h, A) <= SumFunctionOnSet(h, x..MaxClock)
      BY <2>1, <3>3, SumPart
    <3>5. /\ SumFunctionOnSet(h, A) \in Nat /\ SumFunctionOnSet(h, x..MaxClock) \in Nat
      BY <2>1, <2>2, <3>3, SumNat
    <3>6. SumFunctionOnSet(h, x..MaxClock) <= RateLimit + n
      BY <3>2 DEF Since, h
    <3>7. SumFunctionOnSet(h, A) <= 2 * RateLimit
      BY <3>4, <3>5, <3>6, LimitsAssumption
    <3> QED BY <3>7 DEF A, h
  <2>4. CASE c \notin A
    <3>1. \A y \in A : f[y] = h[y]
      BY <1>2, <2>2, <2>4
    <3> HIDE DEF A, f, h
    <3>2. SumFunctionOnSet(f, A) = SumFunctionOnSet(h, A)
      BY <2>2, <3>1, SumSame
    <3> QED BY <3>2 DEF A, f, h, TwiceTheLimit
  <2> QED BY <2>3, <2>4
<1>4. ASSUME NEW a \in Buckets, NEW x \in Times
      PROVE  SumFunctionOnSet(passed'[a], I(x)) <= 2 * RateLimit
  <2>1. CASE a = b
    BY <1>3, <2>1
  <2>2. CASE a # b
    BY <1>2, <2>2 DEF TwiceTheLimit
  <2> QED BY <2>1, <2>2
<1> QED BY <1>4 DEF TwiceTheLimit

LEMMA RatesInitInv == GateInit => RatesInv
<1> SUFFICES ASSUME GateInit PROVE RatesInv
  OBVIOUS
<1>1. DOMAIN rows = {} /\ clock \in Times /\ clock = 0
  BY LimitsAssumption DEF GateInit, Times
<1>2. IsTable(rows)
  BY <1>1, FS_EmptySet, LimitsAssumption DEF IsTable
<1>3. IsHistory(passed) /\ \A b \in Buckets : \A x \in Times : passed[b][x] = 0
  BY DEF GateInit, IsHistory
<1>4. Recent
  BY DEF GateInit, Free, Recent, At
<1>5. ASSUME NEW b \in Buckets, NEW A, IsFiniteSet(A), A \subseteq Times
      PROVE  SumFunctionOnSet(passed[b], A) = 0
  BY <1>3, <1>5, SumZero
<1>6. ASSUME NEW b \in Buckets PROVE RatesOf(rows, passed, clock, b)
  <2>1. \A x \in Times : Since(passed, b, x) = 0
    BY <1>3, <1>5, SinceNat DEF Since
  <2> QED BY <1>1, <1>3, <2>1, LimitsAssumption DEF RatesOf
<1>7. ASSUME NEW b \in Buckets, NEW t \in Times
      PROVE  SumFunctionOnSet(passed[b], {x \in t..(t + Window - Lag - 1) : x <= MaxClock})
                <= 2 * RateLimit
  <2> DEFINE A == {x \in t..(t + Window - Lag - 1) : x <= MaxClock}
  <2>1. A \subseteq t..MaxClock /\ t..MaxClock \subseteq Times /\ IsFiniteSet(t..MaxClock)
    BY <1>3, SinceNat, LimitsAssumption DEF Times
  <2>2. IsFiniteSet(A) /\ A \subseteq Times
    BY <2>1, FS_Subset
  <2> HIDE DEF A
  <2>3. SumFunctionOnSet(passed[b], A) <= 2 * RateLimit
    BY <1>5, <2>2, LimitsAssumption
  <2> QED BY <2>3 DEF A
<1> QED BY <1>2, <1>3, <1>4, <1>6, <1>7 DEF RatesInv, TwiceTheLimit

LEMMA ConsumeRates ==
    ASSUME GateInv, RatesInv, NEW r \in Requests, ConsumeRate(r)
    PROVE  RatesInv'
<1> DEFINE b    == request[r].bucket
           now  == request[r].now
           live == Live(now)
           row  == IF b \in DOMAIN live
                   THEN [live[b] EXCEPT !.count = @ + 1]
                   ELSE [count |-> 1, expires |-> now + Window]
           pass == IF b \in DOMAIN live THEN ~Spent(live[b]) ELSE ~Full(live)
<1>1. /\ b \in Buckets /\ now \in Times /\ clock \in Times
      /\ now <= clock /\ clock <= now + Lag
  BY DEF ConsumeRate, RatesInv, Recent, At, GateInv, GateTypes
<1>2. /\ rows' = IF pass THEN SetRow(live, b, row) ELSE live
      /\ passed' = IF pass THEN OneMore(passed, b, clock) ELSE passed
      /\ clock' = clock /\ request' = [request EXCEPT ![r] = Free]
  BY DEF ConsumeRate, OneMore
<1>3. Recent'
  <2>1. \A q \in Requests : At(q)' = "limit" => At(q) = "limit" /\ request'[q] = request[q]
    BY <1>2 DEF GateInv, GateTypes, At, Free
  <2> QED BY <1>2, <2>1 DEF RatesInv, Recent
<1>4. IsTable(live) /\ \A a \in Buckets : RatesOf(live, passed, clock, a)
  BY <1>1, LiveTable, LiveRates DEF RatesInv
<1>5. pass /\ b \in DOMAIN live => live[b].count < RateLimit
  <2>1. b \in DOMAIN live => live[b].count \in Nat
    BY <1>4, RowNumbers
  <2> HIDE DEF live
  <2> QED BY <2>1, LimitsAssumption DEF Spent
<1>6. pass => b \in DOMAIN live \/ ~Full(live)
  OBVIOUS
<1>7. \/ ~(b \in DOMAIN live) /\ row = [count |-> 1, expires |-> now + Window]
      \/ b \in DOMAIN live /\ row = [live[b] EXCEPT !.count = @ + 1]
  OBVIOUS
<1> HIDE DEF b, now, live, row, pass
<1>8. CASE ~pass
  <2>1. rows' = live /\ passed' = passed
    BY <1>2, <1>8
  <2> QED BY <1>2, <1>3, <1>4, <2>1 DEF RatesInv, TwiceTheLimit
<1>9. CASE pass
  <2>1. rows' = SetRow(live, b, row) /\ passed' = OneMore(passed, b, clock) /\ IsHistory(passed)
    BY <1>2, <1>9 DEF RatesInv
  <2>2. RatesOf(SetRow(live, b, row), OneMore(passed, b, clock), clock, b) /\ row \in Row
    BY <1>1, <1>4, <1>5, <1>7, <1>9, <2>1, PassRates
  <2>3. \A a \in Buckets \ {b} :
           RatesOf(SetRow(live, b, row), OneMore(passed, b, clock), clock, a)
    BY <1>1, <1>4, <2>1, PassRatesOthers
  <2>4. IsTable(rows')
    BY <1>1, <1>4, <1>6, <1>9, <2>1, <2>2, PassTable
  <2>5. IsHistory(passed')
    BY <1>1, <2>1 DEF IsHistory, OneMore
  <2>6. \A a \in Buckets : RatesOf(rows', passed', clock', a)
    BY <1>2, <2>1, <2>2, <2>3
  <2>7. b \in DOMAIN rows' /\ rows'[b].count \in 0..RateLimit
    <3>1. b \in DOMAIN rows'
      BY <2>1 DEF SetRow
    <3> QED BY <2>4, <3>1, RowNumbers, LimitsAssumption
  <2>8. \A x \in Times : x > clock - (Window - Lag)
           => Since(passed', b, x) <= RateLimit + rows'[b].count
    BY <1>1, <1>2, <2>6, <2>7 DEF RatesOf
  <2>9. TwiceTheLimit'
    <3> DEFINE n == rows'[b].count
    <3>1. n \in 0..RateLimit /\ \A x \in Times : x > clock - (Window - Lag)
             => Since(passed', b, x) <= RateLimit + n
      BY <2>7, <2>8
    <3> HIDE DEF n
    <3> QED BY <1>1, <2>1, <3>1, PassTwice DEF RatesInv
  <2> QED BY <1>3, <2>4, <2>5, <2>6, <2>9 DEF RatesInv
<1> QED BY <1>8, <1>9

LEMMA Nearer ==
    ASSUME NEW a \in Int, NEW b \in Int, NEW w \in Int, NEW x \in Int, a <= b, x > b - w
    PROVE  x > a - w
OBVIOUS

(* Steps that leave the table alone.                                       *)
LEMMA TableRates ==
    ASSUME GateInv, RatesInv, UNCHANGED <<rows, passed>>,
           \/ clock' = clock
           \/ clock' \in Times /\ clock' = clock + 1
              /\ \A r \in Requests : At(r) = "limit" => request[r].now + Lag > clock,
           \A r \in Requests : At(r)' = "limit" =>
              \/ request'[r] = request[r]
              \/ clock' = clock /\ request'[r].bucket \in Buckets /\ request'[r].now = clock
    PROVE  RatesInv'
<1>1. clock \in Times /\ clock \in Int /\ clock' \in Int /\ clock' >= clock
  BY DEF GateInv, GateTypes, Times
<1>2. ASSUME NEW r \in Requests, At(r)' = "limit"
      PROVE  /\ request'[r].bucket \in Buckets /\ request'[r].now \in Times
             /\ request'[r].now <= clock' /\ clock' <= request'[r].now + Lag
  <2>1. CASE request'[r] = request[r]
    <3> DEFINE now == request[r].now
    <3>1. /\ request[r].bucket \in Buckets /\ now \in Times
          /\ now <= clock /\ clock <= now + Lag /\ At(r) = "limit"
      BY <1>2, <2>1 DEF At, RatesInv, Recent
    <3>2. now <= clock' /\ clock' <= now + Lag
      <4> HIDE DEF now
      <4>1. now \in Int
        BY <3>1 DEF Times
      <4>2. clock' = clock + 1 => now + Lag > clock
        BY <1>1, <3>1 DEF now
      <4> QED BY <1>1, <3>1, <4>1, <4>2, LimitsAssumption
    <3> QED BY <2>1, <3>1, <3>2
  <2>2. CASE clock' = clock /\ request'[r].bucket \in Buckets /\ request'[r].now = clock
    BY <1>1, <2>2, LimitsAssumption
  <2> QED BY <1>2, <2>1, <2>2
<1>3. Recent'
  BY <1>2 DEF Recent
<1>4. ASSUME NEW b \in Buckets PROVE RatesOf(rows, passed, clock', b)
  <2>1. RatesOf(rows, passed, clock, b)
    BY DEF RatesInv
  <2>2. \A x \in Times : x > clock' => x > clock
    BY <1>1 DEF Times
  <2>3. \A x \in Times : x > clock' - (Window - Lag) => x > clock - (Window - Lag)
    <3>1. Window - Lag \in Int /\ \A x \in Times : x \in Int
      BY LimitsAssumption DEF Times
    <3> DEFINE w == Window - Lag
    <3>2. w \in Int
      BY <3>1
    <3> HIDE DEF w
    <3>3. ASSUME NEW x \in Int, x > clock' - w PROVE x > clock - w
      BY <1>1, <3>2, <3>3, Nearer
    <3> QED BY <3>1, <3>3 DEF w
  <2> QED BY <2>1, <2>2, <2>3 DEF RatesOf
<1> QED BY <1>3, <1>4 DEF RatesInv, TwiceTheLimit

LEMMA NextRates == GateInv /\ RatesInv /\ [GateNext]_gateVars => RatesInv'
<1> SUFFICES ASSUME GateInv, RatesInv, [GateNext]_gateVars PROVE RatesInv'
  OBVIOUS
<1>1. CASE Tick
  <2>1. clock \in Times /\ clock < MaxClock /\ clock' = clock + 1
        /\ UNCHANGED <<rows, passed, request>>
    BY <1>1 DEF Tick, GateInv, GateTypes
  <2>2. clock' \in Times
    BY <2>1, LimitsAssumption DEF Times
  <2>3. \A r \in Requests : At(r) = "limit" => request[r].now + Lag > clock
    BY <1>1 DEF Tick, At
  <2> QED BY <2>1, <2>2, <2>3, TableRates
<1>2. ASSUME NEW r \in Requests, ConsumeRate(r) PROVE RatesInv'
  BY <1>2, ConsumeRates
<1>3. ASSUME NEW r \in Requests, NEW b \in Buckets, Ask(r, b) PROVE RatesInv'
  <2>1. request' = [request EXCEPT ![r] = [at |-> "limit", bucket |-> b, now |-> clock]]
        /\ clock' = clock /\ UNCHANGED <<rows, passed>>
    BY <1>3 DEF Ask, table
  <2>2. ASSUME NEW q \in Requests
        PROVE  \/ request'[q] = request[q]
               \/ clock' = clock /\ request'[q].bucket \in Buckets /\ request'[q].now = clock
    <3>1. CASE q = r
      <4>1. request'[q] = [at |-> "limit", bucket |-> b, now |-> clock]
        BY <2>1, <3>1 DEF GateInv, GateTypes
      <4> QED BY <2>1, <4>1
    <3>2. CASE q # r
      BY <2>1, <3>2 DEF GateInv, GateTypes
    <3> QED BY <3>1, <3>2
  <2> QED BY <2>1, <2>2, TableRates
<1>4. ASSUME NEW r \in Requests, Busy(r) \/ Upload(r) \/ Serves(r) PROVE RatesInv'
  <2> DEFINE Moves == \/ request' = request
                     \/ request' = [request EXCEPT ![r] = Free]
                     \/ \E to \in Stages \cup {"free"} :
                           request' = [request EXCEPT ![r] = [at |-> to]]
             Stays == UNCHANGED <<clock, rows, passed>>
  <2>1. ASSUME Busy(r)
        PROVE  Stays /\ Moves
    BY <2>1 DEF Busy, table
  <2>2. ASSUME Upload(r) \/ Enter(r) \/ TurnAway(r) \/ ParseFails(r) \/ Parsed(r)
        PROVE  Stays /\ Moves
    BY <2>2 DEF Upload, Enter, TurnAway, ParseFails, Parsed, Goes, Stages, table
  <2>3. ASSUME Spool(r) \/ CloseFile(r)
        PROVE  Stays /\ Moves
    BY <2>3 DEF Spool, CloseFile, table
  <2>4. ASSUME Verify(r) \/ RefuseImport(r) \/ StartImport(r) \/ FinishImport(r) \/ LeaveGate(r)
        PROVE  Stays /\ Moves
    BY <2>4 DEF Verify, RefuseImport, StartImport, FinishImport, LeaveGate, Goes, Stages, table
  <2>5. Stays /\ Moves
    BY <1>4, <2>1, <2>2, <2>3, <2>4 DEF Serves
  <2>6. \A q \in Requests : At(q)' = "limit" => request'[q] = request[q]
    <3> SUFFICES ASSUME NEW q \in Requests, request'[q] # request[q] PROVE At(q)' # "limit"
      OBVIOUS
    <3>1. q = r /\ (request'[q] = Free \/ \E to \in Stages \cup {"free"} : request'[q] = [at |-> to])
      BY <2>5 DEF GateInv, GateTypes
    <3> QED BY <3>1 DEF At, Free, Stages
  <2> QED BY <2>5, <2>6, TableRates
<1>5. CASE ScriptImport \/ UNCHANGED gateVars
  <2>1. UNCHANGED <<clock, rows, passed, request>>
    BY <1>5 DEF ScriptImport, gateVars, table
  <2> QED BY <2>1, TableRates
<1>6. ASSUME NEW w, Die(w) PROVE RatesInv'
  <2>1. UNCHANGED <<clock, rows, passed>>
        /\ \A q \in Requests : request'[q] \in {request[q], Free}
    BY <1>6 DEF Die, table
  <2>2. \A q \in Requests : At(q)' = "limit" => request'[q] = request[q]
    BY <2>1 DEF At, Free
  <2> QED BY <2>1, <2>2, TableRates
<1> QED BY <1>1, <1>2, <1>3, <1>4, <1>5, <1>6 DEF GateNext, Limits

(* The invariant of the rate limits, for any limit, window, lag and any    *)
(* number of clients and requests.                                         *)
THEOREM RatesInvariant == GateSpec => []RatesInv
BY RatesInitInv, NextRates, GateInvariant, PTL DEF GateSpec

(* The variables of the gate have their types, and the table of the rate   *)
(* limits never has more rows than its limit (consume_rate).               *)
THEOREM GateIsTyped == GateSpec => []GateTypeOK
<1>1. GateInv /\ RatesInv => GateTypeOK
  BY DEF GateInv, GateTypes, Where, RatesInv, IsTable, IsHistory, GateTypeOK
<1> QED BY <1>1, GateInvariant, RatesInvariant, PTL

(* In any stretch of time shorter than a window by the lag of requests at  *)
(* most twice the limit passes, however requests are reordered on their    *)
(* way to the table (consume_rate).                                        *)
THEOREM TwiceTheLimitPasses == GateSpec => []TwiceTheLimit
<1>1. RatesInv => TwiceTheLimit
  BY DEF RatesInv
<1> QED BY <1>1, RatesInvariant, PTL

-----------------------------------------------------------------------------
(***************************************************************************)
(* Proofs about the envelope of a request (module Envelope), for every     *)
(* limit and any bounds of the messages.  The invariant relates where the  *)
(* application is to what was sent and to what went wrong: an answer that  *)
(* can still go on has no last part yet, and an error that is still to be  *)
(* answered is the one that receiving met.                                 *)
(***************************************************************************)
(* Everything sent so far announces more.                                  *)
OpenEnded == \A i \in DOMAIN messages : messages[i].more

EnvelopeTypes ==
    /\ length \in {"none", "invalid", "over", "fits"}
    /\ exceeded \in BOOLEAN /\ timedOut \in BOOLEAN /\ started \in BOOLEAN
    /\ app \in PCs
    /\ messages \in Seq(Message)
    /\ early \in {"none", "limit", "time"}

(* What went wrong, and where the application is with that.                *)
Errors ==
    /\ app \in {"arrive", "run", "stream"} => early = "none" /\ ~exceeded /\ ~timedOut
    /\ app = "errored" => early # "none"
    /\ app = "raise" /\ ~started => early # "none"
    /\ early = "limit" => exceeded
    /\ early = "time" => timedOut /\ ~exceeded

(* What was sent, and where the application is with that.                  *)
Sending ==
    /\ started <=> messages # << >>
    /\ app \in {"arrive", "run", "errored"} => ~started
    /\ app \in {"stream", "apology"} => started /\ OpenEnded

EnvelopeInv == EnvelopeTypes /\ Errors /\ Sending /\ OneAnswer /\ RightStatus

LEMMA EnvelopeInitInv == EnvelopeInit => EnvelopeInv
<1> SUFFICES ASSUME EnvelopeInit PROVE EnvelopeInv
  OBVIOUS
<1>1. EnvelopeTypes
  <2>1. messages \in Seq(Message)
    BY EmptySeq DEF EnvelopeInit
  <2> QED BY <2>1 DEF EnvelopeInit, EnvelopeTypes, PCs
<1>2. Errors /\ Sending
  BY DEF EnvelopeInit, Errors, Sending
<1>3. OneAnswer /\ RightStatus
  BY DEF EnvelopeInit, OneAnswer, RightStatus
<1> QED BY <1>1, <1>2, <1>3 DEF EnvelopeInv

(* The messages of secure_send.                                            *)
LEMMA SentMessages ==
    ASSUME EnvelopeTypes
    PROVE  /\ \A status \in Statuses :
                /\ SentStart(status) \in Message /\ SentStart(status).kind = "start"
                /\ SentStart(status).more
                /\ SentStart(status).status =
                      IF exceeded THEN "413" ELSE IF timedOut THEN "408" ELSE status
           /\ \A more \in BOOLEAN :
                /\ SentBody(more) \in Message /\ SentBody(more).kind = "body"
                /\ ~exceeded /\ ~timedOut /\ more => SentBody(more).more
<1>1. \A status \in Statuses :
        /\ Start(status) \in Message /\ Start(status).kind = "start"
        /\ Start(status).more = TRUE /\ Start(status).status = status
  BY DEF Start, Message
<1>2. \A text \in Texts, more \in BOOLEAN :
        /\ Body(text, more) \in Message /\ Body(text, more).kind = "body"
        /\ Body(text, more).more = more
  BY DEF Body, Message
<1>3. ASSUME NEW status \in Statuses
      PROVE  /\ SentStart(status) \in Message /\ SentStart(status).kind = "start"
             /\ SentStart(status).more
             /\ SentStart(status).status =
                   IF exceeded THEN "413" ELSE IF timedOut THEN "408" ELSE status
  <2> DEFINE s == IF exceeded THEN "413" ELSE IF timedOut THEN "408" ELSE status
  <2>1. s \in Statuses
    BY DEF Statuses
  <2>2. SentStart(status) = Start(s)
    BY DEF SentStart
  <2> HIDE DEF s
  <2>3. /\ SentStart(status) \in Message /\ SentStart(status).kind = "start"
        /\ SentStart(status).more /\ SentStart(status).status = s
    BY <1>1, <2>1, <2>2
  <2> QED BY <2>3 DEF s
<1>4. ASSUME NEW more \in BOOLEAN
      PROVE  /\ SentBody(more) \in Message /\ SentBody(more).kind = "body"
             /\ ~exceeded /\ ~timedOut /\ more => SentBody(more).more
  <2>1. CASE exceeded
    BY <1>2, <2>1 DEF SentBody, Texts
  <2>2. CASE ~exceeded /\ timedOut
    BY <1>2, <2>2 DEF SentBody, Texts
  <2>3. CASE ~exceeded /\ ~timedOut
    <3>1. SentBody(more) = Body("own", more) /\ "own" \in Texts
      BY <2>3 DEF SentBody, Texts
    <3>2. /\ SentBody(more) \in Message /\ SentBody(more).kind = "body"
          /\ SentBody(more).more = more
      BY <1>2, <3>1
    <3> QED BY <3>2
  <2> QED BY <2>1, <2>2, <2>3 DEF EnvelopeTypes
<1> QED BY <1>3, <1>4

(* A message after others that all announce more.                          *)
LEMMA SendMore ==
    ASSUME EnvelopeTypes, OneAnswer, OpenEnded, NEW m \in Message,
           (m.kind = "start") = (messages = << >>), messages' = Append(messages, m)
    PROVE  /\ messages' \in Seq(Message) /\ messages' # << >> /\ OneAnswer'
           /\ m.more => OpenEnded'
           /\ messages # << >> => messages'[1] = messages[1]
           /\ messages = << >> => messages'[1] = m
<1>1. /\ messages \in Seq(Message) /\ Len(messages) \in Nat /\ DOMAIN messages = 1..Len(messages)
      /\ messages = << >> <=> Len(messages) = 0
  BY EmptySeq DEF EnvelopeTypes
<1>2. /\ messages' \in Seq(Message) /\ Len(messages') = Len(messages) + 1 /\ DOMAIN messages' = 1..(Len(messages) + 1)
      /\ messages'[Len(messages) + 1] = m
      /\ \A i \in 1..Len(messages) : messages'[i] = messages[i]
  BY <1>1
<1>3. messages' # << >>
  BY <1>1, <1>2
<1>4. ASSUME NEW i \in 1..(Len(messages) + 1)
      PROVE  /\ (messages'[i].kind = "start") = (i = 1)
             /\ i < Len(messages) + 1 => messages'[i].more
             /\ m.more => messages'[i].more
  <2>1. CASE i \in 1..Len(messages)
    BY <1>1, <1>2, <2>1 DEF OneAnswer, OpenEnded
  <2>2. CASE i = Len(messages) + 1
    <3>1. messages'[i] = m /\ ((i = 1) = (messages = << >>)) /\ ~(i < Len(messages) + 1)
      BY <1>1, <1>2, <2>2
    <3> QED BY <3>1
  <2> QED BY <1>1, <2>1, <2>2
<1>5. OneAnswer'
  BY <1>2, <1>4 DEF OneAnswer
<1>6. m.more => OpenEnded'
  BY <1>2, <1>4 DEF OpenEnded
<1>7. (messages # << >> => messages'[1] = messages[1]) /\ (messages = << >> => messages'[1] = m)
  BY <1>1, <1>2
<1> QED BY <1>2, <1>3, <1>5, <1>6, <1>7

(* A whole answer of the envelope.                                         *)
LEMMA SendAnswer ==
    ASSUME EnvelopeTypes, NEW status \in Statuses, messages' = Answer(status)
    PROVE  /\ messages' \in Seq(Message) /\ messages' # << >> /\ OneAnswer'
           /\ messages'[1].status = IF exceeded THEN "413" ELSE IF timedOut THEN "408" ELSE status
<1>1. /\ SentStart(status) \in Message /\ SentStart(status).kind = "start"
      /\ SentStart(status).more
      /\ SentStart(status).status =
            IF exceeded THEN "413" ELSE IF timedOut THEN "408" ELSE status
      /\ SentBody(FALSE) \in Message /\ SentBody(FALSE).kind = "body"
  BY SentMessages
<1>2. /\ messages' = <<SentStart(status), SentBody(FALSE)>> /\ Len(messages') = 2 /\ DOMAIN messages' = 1..2
      /\ messages'[1] = SentStart(status) /\ messages'[2] = SentBody(FALSE)
  BY DEF Answer
<1>3. messages' \in Seq(Message) /\ messages' # << >>
  <2>1. \A x, y \in Message : <<x, y>> \in Seq(Message) /\ <<x, y>> # << >>
    OBVIOUS
  <2> QED BY <1>1, <1>2, <2>1
<1>4. \A i \in 1..2 : i = 1 \/ i = 2
  OBVIOUS
<1>5. ASSUME NEW i \in 1..2
      PROVE  (messages'[i].kind = "start") = (i = 1) /\ (i < 2 => messages'[i].more)
  <2>1. CASE i = 1
    BY <1>1, <1>2, <2>1
  <2>2. CASE i = 2
    <3>1. messages'[i] = SentBody(FALSE)
      BY <1>2, <2>2
    <3>2. messages'[i].kind # "start"
      BY <1>1, <3>1
    <3> QED BY <2>2, <3>2
  <2> QED BY <1>4, <2>1, <2>2
<1>6. OneAnswer'
  BY <1>2, <1>5 DEF OneAnswer
<1> QED BY <1>1, <1>2, <1>3, <1>6

LEMMA ArriveInv == EnvelopeInv /\ Arrive => EnvelopeInv'
<1> SUFFICES ASSUME EnvelopeInv, Arrive PROVE EnvelopeInv'
  OBVIOUS
<1>1. /\ early = "none" /\ ~exceeded /\ ~timedOut /\ ~started /\ messages = << >> /\ EnvelopeTypes
      /\ UNCHANGED <<length, exceeded, timedOut, early>>
  BY DEF EnvelopeInv, Errors, Sending, Arrive
<1>2. CASE length \in {"none", "fits"} /\ app' = "run" /\ UNCHANGED <<messages, started>>
  <2>1. EnvelopeTypes' /\ Errors' /\ Sending'
    BY <1>1, <1>2 DEF EnvelopeTypes, PCs, Errors, Sending
  <2> QED BY <1>1, <1>2, <2>1 DEF EnvelopeInv, OneAnswer, RightStatus
<1>3. CASE /\ length \in {"invalid", "over"}
           /\ messages' = Answer(IF length = "over" THEN "413" ELSE "400")
           /\ started' = TRUE /\ app' = "done"
  <2>1. /\ messages' \in Seq(Message) /\ messages' # << >> /\ OneAnswer'
        /\ messages'[1].status \in {"413", "400"}
    <3>1. ASSUME NEW status \in {"413", "400"}, messages' = Answer(status)
          PROVE  /\ messages' \in Seq(Message) /\ messages' # << >> /\ OneAnswer'
                 /\ messages'[1].status \in {"413", "400"}
      BY <1>1, <3>1, SendAnswer DEF Statuses
    <3> QED BY <1>3, <3>1
  <2>2. EnvelopeTypes' /\ Errors' /\ Sending'
    BY <1>1, <1>3, <2>1 DEF EnvelopeTypes, PCs, Errors, Sending
  <2>3. RightStatus'
    BY <1>1, <2>1 DEF RightStatus
  <2> QED BY <2>1, <2>2, <2>3 DEF EnvelopeInv
<1> QED BY <1>2, <1>3 DEF Arrive

(* A message comes, or does not come in time, or is too much.              *)
LEMMA ReceiveInv == EnvelopeInv /\ Receive => EnvelopeInv'
<1> SUFFICES ASSUME EnvelopeInv, Receive PROVE EnvelopeInv'
  OBVIOUS
<1>1. /\ app \in {"run", "stream"} /\ early = "none" /\ ~exceeded /\ ~timedOut
      /\ UNCHANGED <<length, started, messages>>
      /\ EnvelopeTypes /\ Errors /\ Sending
      /\ app = "run" => ~started
      /\ app = "stream" => started
  BY DEF EnvelopeInv, Errors, Sending, Receive, ReceiveTimeout, ReceiveDisconnect, ReceivePiece,
         Receiving, Raise
<1>2. OneAnswer' /\ (RightStatus \/ messages = << >>)
  BY <1>1 DEF EnvelopeInv, OneAnswer
<1>3. ASSUME NEW why \in {"limit", "time"}, Raise(why),
             why = "limit" => exceeded' = TRUE /\ timedOut' = timedOut,
             why = "time" => timedOut' = TRUE /\ exceeded' = exceeded
      PROVE  EnvelopeInv'
  <2>1. /\ app' = IF app = "run" THEN "errored" ELSE "raise"
        /\ early' = IF started THEN early ELSE why
    BY <1>3 DEF Raise
  <2>2. EnvelopeTypes' /\ Errors' /\ Sending'
    BY <1>1, <1>3, <2>1 DEF EnvelopeTypes, PCs, Errors, Sending
  <2>3. RightStatus'
    BY <1>1, <2>1 DEF EnvelopeInv, RightStatus, Sending
  <2> QED BY <1>2, <2>2, <2>3 DEF EnvelopeInv
<1>4. ASSUME app' \in {app, "done"}, UNCHANGED <<exceeded, timedOut, early>> PROVE EnvelopeInv'
  <2>1. EnvelopeTypes' /\ Errors' /\ Sending'
    BY <1>1, <1>4 DEF EnvelopeTypes, PCs, Errors, Sending, OpenEnded
  <2>2. RightStatus'
    BY <1>1, <1>4 DEF EnvelopeInv, RightStatus
  <2> QED BY <1>2, <2>1, <2>2 DEF EnvelopeInv
<1>5. CASE ReceiveTimeout
  BY <1>3, <1>5 DEF ReceiveTimeout
<1>6. CASE ReceiveDisconnect
  BY <1>3, <1>4, <1>6 DEF ReceiveDisconnect
<1>7. ASSUME NEW n \in 0..MaxPiece, NEW more \in BOOLEAN, ReceivePiece(n, more)
      PROVE  EnvelopeInv'
  BY <1>3, <1>4, <1>7 DEF ReceivePiece
<1> QED BY <1>5, <1>6, <1>7 DEF Receive

LEMMA AppStartInv == EnvelopeInv /\ AppStart => EnvelopeInv'
<1> SUFFICES ASSUME EnvelopeInv, AppStart PROVE EnvelopeInv'
  OBVIOUS
<1> DEFINE m == SentStart(IF app = "run" THEN "200" ELSE "500")
<1>1. /\ app \in {"run", "errored"} /\ messages' = Append(messages, m) /\ started' = TRUE
      /\ app' = IF app = "run" THEN "stream" ELSE "apology"
      /\ UNCHANGED <<length, exceeded, timedOut, early>>
  BY DEF AppStart
<1>2. /\ m \in Message /\ m.kind = "start" /\ m.more
      /\ m.status = IF exceeded THEN "413" ELSE IF timedOut THEN "408"
                    ELSE IF app = "run" THEN "200" ELSE "500"
  <2>1. CASE app = "run"
    BY <2>1, SentMessages DEF EnvelopeInv, Statuses
  <2>2. CASE app # "run"
    BY <2>2, SentMessages DEF EnvelopeInv, Statuses
  <2> QED BY <2>1, <2>2
<1> HIDE DEF m
<1>3. messages = << >> /\ OpenEnded /\ EnvelopeTypes /\ OneAnswer
  BY <1>1 DEF EnvelopeInv, Sending, OpenEnded
<1>4. /\ messages' \in Seq(Message) /\ messages' # << >> /\ OneAnswer' /\ OpenEnded' /\ messages'[1] = m
  BY <1>1, <1>2, <1>3, SendMore
<1>5. EnvelopeTypes' /\ Errors' /\ Sending'
  BY <1>1, <1>3, <1>4 DEF EnvelopeInv, EnvelopeTypes, PCs, Errors, Sending
<1>6. RightStatus'
  BY <1>1, <1>2, <1>4 DEF EnvelopeInv, Errors, RightStatus, EnvelopeTypes
<1> QED BY <1>4, <1>5, <1>6 DEF EnvelopeInv

LEMMA AppBodyInv ==
    ASSUME EnvelopeInv, NEW more \in BOOLEAN, AppBody(more) PROVE EnvelopeInv'
<1> DEFINE m == SentBody(more)
<1>1. /\ app \in {"stream", "apology"} /\ messages' = Append(messages, m)
      /\ app = "stream" => app' = IF more THEN "stream" ELSE "done"
      /\ app = "apology" => ~more /\ app' \in {"raise", "done"}
      /\ UNCHANGED <<length, exceeded, timedOut, started, early>>
  BY DEF AppBody, Same
<1>2. m \in Message /\ m.kind = "body" /\ (~exceeded /\ ~timedOut /\ more => m.more)
  BY SentMessages DEF EnvelopeInv
<1> HIDE DEF m
<1>3. messages # << >> /\ started /\ OpenEnded /\ EnvelopeTypes /\ OneAnswer
  BY <1>1 DEF EnvelopeInv, Sending
<1>4. /\ messages' \in Seq(Message) /\ messages' # << >> /\ OneAnswer' /\ messages'[1] = messages[1]
      /\ m.more => OpenEnded'
  BY <1>1, <1>2, <1>3, SendMore
<1>5. app' = "stream" => OpenEnded'
  BY <1>1, <1>2, <1>4 DEF EnvelopeInv, Errors
<1>6. EnvelopeTypes' /\ Errors' /\ Sending'
  BY <1>1, <1>3, <1>4, <1>5 DEF EnvelopeInv, EnvelopeTypes, PCs, Errors, Sending
<1>7. RightStatus'
  BY <1>1, <1>3, <1>4 DEF EnvelopeInv, RightStatus
<1> QED BY <1>4, <1>6, <1>7 DEF EnvelopeInv

LEMMA OutermostInv == EnvelopeInv /\ Outermost => EnvelopeInv'
<1> SUFFICES ASSUME EnvelopeInv, Outermost PROVE EnvelopeInv'
  OBVIOUS
<1>1. /\ app = "raise" /\ app' = "done" /\ started' = TRUE
      /\ UNCHANGED <<length, exceeded, timedOut, early>>
      /\ messages' = IF started THEN messages ELSE Answer(IF exceeded THEN "413" ELSE "408")
  BY DEF Outermost
<1>2. CASE started
  <2>1. EnvelopeTypes' /\ Errors' /\ Sending'
    BY <1>1, <1>2 DEF EnvelopeInv, EnvelopeTypes, PCs, Errors, Sending
  <2> QED BY <1>1, <1>2, <2>1 DEF EnvelopeInv, OneAnswer, RightStatus
<1>3. CASE ~started
  <2>1. early # "none" /\ EnvelopeTypes
    BY <1>1, <1>3 DEF EnvelopeInv, Errors
  <2>2. /\ messages' \in Seq(Message) /\ messages' # << >> /\ OneAnswer'
        /\ messages'[1].status = IF exceeded THEN "413" ELSE "408"
    <3>1. ASSUME NEW status \in {"413", "408"}, messages' = Answer(status),
                 status = IF exceeded THEN "413" ELSE "408"
          PROVE  /\ messages' \in Seq(Message) /\ messages' # << >> /\ OneAnswer'
                 /\ messages'[1].status = IF exceeded THEN "413" ELSE "408"
      BY <2>1, <3>1, SendAnswer DEF Statuses
    <3> QED BY <1>1, <1>3, <3>1
  <2>3. EnvelopeTypes' /\ Errors' /\ Sending'
    BY <1>1, <2>1, <2>2 DEF EnvelopeInv, EnvelopeTypes, PCs, Errors, Sending
  <2>4. RightStatus'
    BY <1>1, <2>1, <2>2 DEF EnvelopeInv, Errors, RightStatus, EnvelopeTypes
  <2> QED BY <2>2, <2>3, <2>4 DEF EnvelopeInv
<1> QED BY <1>2, <1>3 DEF EnvelopeTypes

(* The error is let through, time passes, or nothing happens.              *)
LEMMA EnvelopeAsideInv ==
    EnvelopeInv /\ (AppRaise \/ DeadlinePasses \/ UNCHANGED envelopeVars) => EnvelopeInv'
<1> SUFFICES ASSUME EnvelopeInv, AppRaise \/ DeadlinePasses \/ UNCHANGED envelopeVars
             PROVE  EnvelopeInv'
  OBVIOUS
<1>1. /\ UNCHANGED <<length, exceeded, timedOut, started, messages, early>>
      /\ app' = app \/ (app = "errored" /\ app' = "raise")
  BY DEF AppRaise, DeadlinePasses, Same, envelopeVars
<1>2. EnvelopeTypes' /\ Errors' /\ Sending'
  BY <1>1 DEF EnvelopeInv, EnvelopeTypes, PCs, Errors, Sending, OpenEnded
<1> QED BY <1>1, <1>2 DEF EnvelopeInv, OneAnswer, RightStatus

-----------------------------------------------------------------------------
(* The invariant of the envelope, for every limit.                         *)
THEOREM EnvelopeInvariant == EnvelopeSpec => []EnvelopeInv
<1>1. EnvelopeInv /\ [EnvelopeNext]_envelopeVars => EnvelopeInv'
  BY ArriveInv, ReceiveInv, AppStartInv, AppBodyInv, OutermostInv, EnvelopeAsideInv DEF EnvelopeNext, Respond
<1> QED BY EnvelopeInitInv, <1>1, PTL DEF EnvelopeSpec

(* The peer gets one answer, with one beginning and one end, whatever the  *)
(* application makes of the errors of the body (secure_send, __call__).    *)
THEOREM AnswersOnce == EnvelopeSpec => []OneAnswer
<1>1. EnvelopeInv => OneAnswer
  BY DEF EnvelopeInv
<1> QED BY EnvelopeInvariant, <1>1, PTL

(* A body over its limit is answered with 413, and one that does not come  *)
(* in time with 408, when no answer had begun.                             *)
THEOREM StatusIsRight == EnvelopeSpec => []RightStatus
<1>1. EnvelopeInv => RightStatus
  BY DEF EnvelopeInv
<1> QED BY EnvelopeInvariant, <1>1, PTL

-----------------------------------------------------------------------------
(***************************************************************************)
(* Proofs about the export of the order history (module CsvExport), for    *)
(* any number of batches and any size of the queue.  The invariant says    *)
(* which chunk is at each place between the two threads; an end or a       *)
(* failure is always the last thing in the queue, and an end is put there  *)
(* only when every batch was read.                                         *)
(***************************************************************************)
(* How many chunks the body has, sent or taken; how many the queue has.    *)
Passed == Len(sent) + (IF consumer = "answer" THEN 1 ELSE 0)

Chunked == IF items # << >> /\ items[Len(items)].kind # "chunk"
           THEN Len(items) - 1 ELSE Len(items)

HeldCount == IF producer \in {"check", "put"} /\ item.kind = "chunk" THEN 1 ELSE 0

LastEnds ==
    \A i \in 1..Len(items) :
        items[i].kind # "chunk" => i = Len(items) /\ producer \in {"close", "done"}

EndKnows ==
    /\ producer # "connect" => fetched <= batches + 1
    /\ producer = "connect" => fetched = 0 /\ items = << >>
    /\ producer \in {"check", "put"} /\ item.kind = "end" => fetched = batches + 1
    /\ \A i \in 1..Len(items) : items[i].kind = "end" => fetched = batches + 1

Begun == consumer \in {"start", "answer"} => sent = << >>

InOrder ==
    ~stop /\ consumer # "dropped" =>
        /\ \A i \in 1..Len(sent) : sent[i] = i - 1
        /\ \A i \in 1..Len(items) : items[i].kind = "chunk" => items[i].n = Passed + i - 1
        /\ HeldCount = 1 => item.n = fetched - 1
        /\ fetched = Passed + Chunked + HeldCount

Ended == outcome = "whole" => WholeOrBroken /\ consumer \in {"closing", "ended"}

Stopped ==
    /\ consumer \in {"closing", "ended"} => stop
    /\ stop => consumer \in {"closing", "ended"}

ExportInv == ExportTypeOK /\ LastEnds /\ EndKnows /\ Begun /\ InOrder /\ Ended /\ Stopped

LEMMA ItemTypes ==
    /\ \A n \in Chunks : Chunk(n) \in Item /\ Chunk(n).kind = "chunk" /\ Chunk(n).n = n
    /\ End \in Item /\ End.kind = "end"
    /\ Failure \in Item /\ Failure.kind = "failure"
    /\ \A x \in Item : x.kind \in {"chunk", "end", "failure"} /\ x.n \in Chunks /\ x.n \in Nat
BY SizesAssumption DEF Item, Chunk, End, Failure, Chunks

LEMMA ExportInitInv == ExportInit => ExportInv
<1> SUFFICES ASSUME ExportInit PROVE ExportInv
  OBVIOUS
<1>1. ExportTypeOK
  <2>1. items \in Seq(Item) /\ Len(items) = 0 /\ sent \in Seq(Chunks)
    BY DEF ExportInit
  <2>2. 0 <= QueueSize /\ fetched \in 0..(MaxBatches + 1) /\ item \in Item
    BY ItemTypes, SizesAssumption DEF ExportInit
  <2> QED BY <2>1, <2>2 DEF ExportInit, ExportTypeOK, ProducerPCs, ConsumerPCs
<1>2. LastEnds /\ EndKnows /\ Begun /\ Ended /\ Stopped
  BY SizesAssumption DEF ExportInit, LastEnds, EndKnows, Begun, Ended, Stopped
<1>3. InOrder
  BY DEF ExportInit, InOrder, Passed, Chunked, HeldCount
<1> QED BY <1>1, <1>2, <1>3 DEF ExportInv

(* What holds of the body alone outlasts the steps of the producer.        *)
LEMMA BodyFrame ==
    ASSUME ExportInv, UNCHANGED <<consumer, sent, outcome, stop, batches>>
    PROVE  Begun' /\ Ended' /\ Stopped'
<1>1. Begun' /\ Stopped'
  BY DEF ExportInv, Begun, Stopped
<1>2. WholeOrBroken => WholeOrBroken'
  BY DEF WholeOrBroken
<1> QED BY <1>1, <1>2 DEF ExportInv, Ended

LEMMA Counts ==
    ASSUME ExportInv
    PROVE  /\ Passed \in Nat /\ HeldCount \in {0, 1} /\ Chunked \in Int
           /\ Len(sent) \in Nat /\ Len(items) \in Nat /\ fetched \in Nat
BY SizesAssumption DEF ExportInv, ExportTypeOK, Passed, HeldCount, Chunked

(* A step that sends, puts and takes nothing keeps the order, if what is   *)
(* read and not yet put is the same.                                       *)
LEMMA OrderFrame ==
    ASSUME ExportInv, UNCHANGED <<consumer, sent, stop, items, fetched, item>>,
           ~stop => HeldCount' = HeldCount
    PROVE  InOrder'
<1>1. Passed' = Passed /\ Chunked' = Chunked
  BY DEF Passed, Chunked
<1> QED BY <1>1 DEF ExportInv, InOrder

(* While the producer has not put its last item, the queue is all chunks.  *)
LEMMA AllChunks ==
    ASSUME ExportInv, producer \notin {"close", "done"}
    PROVE  /\ \A i \in 1..Len(items) : items[i].kind = "chunk"
           /\ Chunked = Len(items)
<1>1. \A i \in 1..Len(items) : items[i].kind = "chunk"
  BY DEF ExportInv, LastEnds
<1>2. Len(items) \in Nat /\ (items # << >> => Len(items) \in 1..Len(items))
  BY DEF ExportInv, ExportTypeOK
<1> QED BY <1>1, <1>2 DEF Chunked

LEMMA ConnectInv == ExportInv /\ Connect => ExportInv'
<1> SUFFICES ASSUME ExportInv, Connect PROVE ExportInv'
  OBVIOUS
<1>1. item' = Chunk(0) /\ item' \in Item /\ item'.kind = "chunk" /\ item'.n = 0
  BY ItemTypes, SizesAssumption DEF Connect, Chunks
<1>2. ExportTypeOK'
  BY <1>1, SizesAssumption DEF ExportInv, ExportTypeOK, Connect, answering, ProducerPCs
<1>3. LastEnds' /\ EndKnows'
  BY <1>1 DEF ExportInv, ExportTypeOK, LastEnds, EndKnows, Connect, answering
<1>4. Begun' /\ Ended' /\ Stopped'
  BY BodyFrame DEF Connect, answering
<1>5. InOrder'
  BY <1>1 DEF ExportInv, ExportTypeOK, EndKnows, InOrder, Passed, Chunked, HeldCount, Connect, answering
<1> QED BY <1>2, <1>3, <1>4, <1>5 DEF ExportInv

LEMMA FetchInv == ExportInv /\ Fetch => ExportInv'
<1> SUFFICES ASSUME ExportInv, Fetch PROVE ExportInv'
  OBVIOUS
<1>1. /\ \A i \in 1..Len(items) : items[i].kind = "chunk"
      /\ Chunked = Len(items) /\ Chunked' = Chunked
  BY AllChunks DEF Fetch, Chunked
<1>2. fetched \in Nat /\ batches \in Nat /\ fetched <= batches + 1 /\ batches <= MaxBatches
  BY SizesAssumption DEF ExportInv, ExportTypeOK, EndKnows, Fetch
<1>3. CASE stop
  <2>1. ExportTypeOK'
    BY <1>3 DEF ExportInv, ExportTypeOK, Fetch, answering, ProducerPCs
  <2>2. LastEnds' /\ EndKnows' /\ InOrder'
    BY <1>1, <1>2, <1>3 DEF ExportInv, LastEnds, EndKnows, InOrder, Fetch, answering
  <2>3. Begun' /\ Ended' /\ Stopped'
    BY BodyFrame DEF Fetch, answering
  <2> QED BY <2>1, <2>2, <2>3 DEF ExportInv
<1>4. CASE ~stop /\ fetched > batches
  <2>1. item' = End /\ item' \in Item /\ item'.kind = "end" /\ fetched' = fetched
    BY <1>4, ItemTypes DEF Fetch
  <2>2. ExportTypeOK'
    BY <1>4, <2>1 DEF ExportInv, ExportTypeOK, Fetch, answering, ProducerPCs
  <2>3. LastEnds' /\ EndKnows'
    BY <1>1, <1>2, <1>4, <2>1 DEF ExportInv, LastEnds, EndKnows, Fetch
  <2>4. HeldCount = 0 /\ HeldCount' = 0
    BY <1>4, <2>1 DEF HeldCount, Fetch
  <2>5. InOrder'
    BY <1>1, <1>2, <1>4, <2>1, <2>4 DEF ExportInv, InOrder, Passed, Fetch, answering
  <2>6. Begun' /\ Ended' /\ Stopped'
    BY BodyFrame DEF Fetch, answering
  <2> QED BY <2>2, <2>3, <2>5, <2>6 DEF ExportInv
<1>5. CASE ~stop /\ ~(fetched > batches)
  <2>1. fetched \in Chunks
    BY <1>2, <1>5, SizesAssumption DEF Chunks
  <2>2. /\ item' = Chunk(fetched) /\ item' \in Item /\ item'.kind = "chunk"
        /\ item'.n = fetched /\ fetched' = fetched + 1
    BY <1>5, <2>1, ItemTypes DEF Fetch
  <2>3. ExportTypeOK'
    BY <1>2, <1>5, <2>2, SizesAssumption DEF ExportInv, ExportTypeOK, Fetch, answering, ProducerPCs
  <2>4. LastEnds' /\ EndKnows'
    BY <1>1, <1>2, <1>5, <2>2 DEF ExportInv, LastEnds, EndKnows, Fetch
  <2>5. HeldCount = 0 /\ HeldCount' = 1
    BY <1>5, <2>2 DEF HeldCount, Fetch
  <2>6. InOrder'
    <3>1. Passed' = Passed /\ sent' = sent /\ items' = items /\ consumer' = consumer /\ stop' = stop
      BY DEF Passed, Fetch, answering
    <3> QED BY <1>1, <1>2, <2>2, <2>5, <3>1, Counts DEF ExportInv, InOrder
  <2>7. Begun' /\ Ended' /\ Stopped'
    BY BodyFrame DEF Fetch, answering
  <2> QED BY <2>3, <2>4, <2>6, <2>7 DEF ExportInv
<1> QED BY <1>3, <1>4, <1>5

LEMMA ReadFailsInv == ExportInv /\ ReadFails => ExportInv'
<1> SUFFICES ASSUME ExportInv, ReadFails PROVE ExportInv'
  OBVIOUS
<1>1. item' = Failure /\ item' \in Item /\ item'.kind = "failure"
  BY ItemTypes DEF ReadFails
<1>2. HeldCount = 0 /\ HeldCount' = 0
  BY <1>1 DEF HeldCount, ReadFails
<1>3. ExportTypeOK'
  BY <1>1 DEF ExportInv, ExportTypeOK, ReadFails, answering, ProducerPCs
<1>4. LastEnds' /\ EndKnows'
  BY <1>1 DEF ExportInv, ExportTypeOK, LastEnds, EndKnows, ReadFails
<1>5. InOrder'
  BY <1>2 DEF ExportInv, InOrder, Passed, Chunked, ReadFails, answering
<1>6. Begun' /\ Ended' /\ Stopped'
  BY BodyFrame DEF ReadFails, answering
<1> QED BY <1>3, <1>4, <1>5, <1>6 DEF ExportInv

LEMMA WaitInv == ExportInv /\ (Check \/ PutTimeout) => ExportInv'
<1> SUFFICES ASSUME ExportInv, Check \/ PutTimeout PROVE ExportInv'
  OBVIOUS
<1> USE DEF Check, PutTimeout
<1>1. ExportTypeOK' /\ LastEnds' /\ EndKnows'
  BY DEF ExportInv, ExportTypeOK, LastEnds, EndKnows, answering, ProducerPCs
<1>2. ~stop => HeldCount' = HeldCount
  BY DEF HeldCount
<1>3. InOrder'
  BY <1>2, OrderFrame DEF answering
<1>4. Begun' /\ Ended' /\ Stopped'
  BY BodyFrame DEF answering
<1> QED BY <1>1, <1>3, <1>4 DEF ExportInv

LEMMA PutInv == ExportInv /\ Put => ExportInv'
<1> SUFFICES ASSUME ExportInv, Put PROVE ExportInv'
  OBVIOUS
<1>1. /\ \A i \in 1..Len(items) : items[i].kind = "chunk"
      /\ Chunked = Len(items)
  BY AllChunks DEF Put
<1>2. /\ items \in Seq(Item) /\ Len(items) \in Nat /\ item \in Item
      /\ QueueSize \in Nat /\ Len(items) < QueueSize
  BY SizesAssumption DEF ExportInv, ExportTypeOK, Put
<1>3. /\ items' \in Seq(Item) /\ Len(items') = Len(items) + 1 /\ items' # << >>
      /\ \A i \in 1..Len(items) : items'[i] = items[i]
      /\ items'[Len(items')] = item
  BY <1>2 DEF Put
<1>4. ExportTypeOK'
  BY <1>2, <1>3 DEF ExportInv, ExportTypeOK, Put, answering, ProducerPCs
<1>5. \A i \in 1..Len(items') : i \in 1..Len(items) \/ i = Len(items')
  BY <1>2, <1>3
<1>6. LastEnds'
  BY <1>1, <1>3, <1>5 DEF LastEnds, Put
<1>7. EndKnows'
  BY <1>1, <1>3, <1>5 DEF ExportInv, EndKnows, Put
<1>8. Chunked' = Chunked + HeldCount /\ HeldCount' = 0
  <2>1. item.kind = "chunk" => Chunked' = Len(items) + 1 /\ HeldCount = 1
    BY <1>3 DEF Chunked, HeldCount, Put
  <2>2. item.kind # "chunk" => Chunked' = Len(items) /\ HeldCount = 0
    BY <1>2, <1>3 DEF Chunked, HeldCount, Put
  <2>3. HeldCount' = 0
    BY DEF HeldCount, Put
  <2> QED BY <1>1, <1>2, <2>1, <2>2, <2>3
<1>9. InOrder'
  <2> SUFFICES ASSUME ~stop', consumer' # "dropped" PROVE InOrder'
    BY DEF InOrder
  <2>1. /\ ~stop /\ consumer # "dropped" /\ Passed' = Passed /\ sent' = sent
        /\ fetched' = fetched
    BY DEF Put, answering, Passed
  <2>2. Passed \in Nat /\ HeldCount \in {0, 1} /\ fetched \in Nat
    BY SizesAssumption DEF ExportInv, ExportTypeOK, Passed, HeldCount
  <2>3. item.kind = "chunk" => item.n = Passed + Len(items)
    BY <1>1, <1>2, <2>1, <2>2 DEF ExportInv, InOrder, HeldCount, Put
  <2>4. \A i \in 1..Len(items') : items'[i].kind = "chunk" => items'[i].n = Passed + i - 1
    <3> SUFFICES ASSUME NEW i \in 1..Len(items'), items'[i].kind = "chunk"
                 PROVE  items'[i].n = Passed + i - 1
      OBVIOUS
    <3>1. CASE i \in 1..Len(items)
      BY <1>3, <2>1, <3>1 DEF ExportInv, InOrder
    <3>2. CASE i = Len(items')
      BY <1>2, <1>3, <2>2, <2>3, <3>2
    <3> QED BY <1>5, <3>1, <3>2
  <2>5. fetched' = Passed' + Chunked' + HeldCount'
    BY <1>1, <1>2, <1>8, <2>1, <2>2 DEF ExportInv, InOrder
  <2> QED BY <1>8, <2>1, <2>4, <2>5 DEF ExportInv, InOrder
<1>10. Begun' /\ Ended' /\ Stopped'
  BY BodyFrame DEF Put, answering
<1> QED BY <1>4, <1>6, <1>7, <1>9, <1>10 DEF ExportInv

LEMMA CloseInv == ExportInv /\ Close => ExportInv'
<1> SUFFICES ASSUME ExportInv, Close PROVE ExportInv'
  OBVIOUS
<1>1. ExportTypeOK' /\ LastEnds' /\ EndKnows'
  BY DEF ExportInv, ExportTypeOK, LastEnds, EndKnows, Close, answering, ProducerPCs
<1>2. HeldCount = 0 /\ HeldCount' = 0
  BY DEF HeldCount, Close
<1>3. InOrder'
  BY <1>2 DEF ExportInv, InOrder, Passed, Chunked, Close, answering
<1>4. Begun' /\ Ended' /\ Stopped'
  BY BodyFrame DEF Close, answering
<1> QED BY <1>1, <1>3, <1>4 DEF ExportInv

-----------------------------------------------------------------------------
(* What is left of the queue when its first item is taken out.             *)
LEMMA QueueTail ==
    ASSUME ExportInv, items # << >>, items' = Tail(items), UNCHANGED reading
    PROVE  /\ Head(items) = items[1] /\ Head(items) \in Item /\ Len(items) >= 1
           /\ items' \in Seq(Item) /\ Len(items') = Len(items) - 1
           /\ Len(items') <= QueueSize
           /\ \A i \in 1..Len(items') : i + 1 \in 1..Len(items) /\ items'[i] = items[i + 1]
           /\ LastEnds' /\ EndKnows'
           /\ Head(items).kind = "chunk" => Chunked' = Chunked - 1
<1>1. items \in Seq(Item) /\ Len(items) \in Nat /\ Len(items) <= QueueSize /\ QueueSize \in Nat
  BY SizesAssumption DEF ExportInv, ExportTypeOK
<1>2. /\ Head(items) = items[1] /\ Head(items) \in Item /\ Len(items) >= 1
      /\ items' \in Seq(Item) /\ Len(items') = Len(items) - 1
  BY <1>1
<1>3. \A i \in 1..Len(items') : i + 1 \in 1..Len(items) /\ items'[i] = items[i + 1]
  BY <1>1, <1>2
<1>4. /\ producer' = producer /\ item' = item /\ fetched' = fetched /\ batches' = batches
      /\ producer # "connect"
  BY DEF ExportInv, EndKnows, reading
<1>5. LastEnds'
  <2> SUFFICES ASSUME NEW i \in 1..Len(items'), items'[i].kind # "chunk"
               PROVE  i = Len(items') /\ producer' \in {"close", "done"}
    BY DEF LastEnds
  <2>1. i + 1 = Len(items) /\ producer \in {"close", "done"}
    BY <1>3 DEF ExportInv, LastEnds
  <2>2. i \in Int /\ Len(items) \in Int /\ Len(items') = Len(items) - 1
    BY <1>1, <1>2
  <2> QED BY <1>4, <2>1, <2>2
<1>6. EndKnows'
  BY <1>3, <1>4 DEF ExportInv, EndKnows
<1>7. ASSUME Head(items).kind = "chunk" PROVE Chunked' = Chunked - 1
  <2>1. CASE Len(items) = 1
    <3>1. items' = << >> /\ Len(items') = 0
      BY <1>1, <1>2, <2>1
    <3>2. Chunked = 1
      BY <1>2, <1>7, <2>1 DEF Chunked
    <3> QED BY <3>1, <3>2 DEF Chunked
  <2>2. CASE Len(items) # 1
    <3>0. Len(items') \in Nat /\ Len(items') # 0
      BY <1>1, <1>2, <2>2
    <3>1. Len(items') \in 1..Len(items') /\ items' # << >>
      <4>1. \A n \in Nat : n # 0 => n \in 1..n
        OBVIOUS
      <4>2. Len(items') \in 1..Len(items')
        BY <3>0, <4>1
      <4>3. items' = << >> => Len(items') = 0
        OBVIOUS
      <4> QED BY <3>0, <4>2, <4>3
    <3>2. Len(items') + 1 = Len(items)
      BY <1>1, <1>2
    <3>3. items'[Len(items')] = items[Len(items)]
      BY <1>3, <3>1, <3>2
    <3> QED BY <1>1, <1>2, <3>1, <3>3 DEF Chunked
  <2> QED BY <2>1, <2>2
<1> QED BY <1>1, <1>2, <1>3, <1>5, <1>6, <1>7

(* A step of the body that stops the producer, and does not say that the   *)
(* response is whole, leaves the rest in order whatever it takes out.      *)
LEMMA StoppedFrame ==
    ASSUME ExportInv, stop', consumer' = "closing", sent' = sent, outcome' # "whole"
    PROVE  InOrder' /\ Begun' /\ Ended' /\ Stopped'
BY DEF InOrder, Begun, Ended, Stopped

LEMMA FirstInv == ExportInv /\ First => ExportInv'
<1> SUFFICES ASSUME ExportInv, First PROVE ExportInv'
  OBVIOUS
<1>1. /\ consumer = "start" /\ items # << >> /\ items' = Tail(items) /\ UNCHANGED reading
      /\ sent' = sent /\ client' = client
  BY DEF First
<1>2. /\ Head(items) = items[1] /\ Head(items) \in Item /\ Len(items) >= 1
      /\ items' \in Seq(Item) /\ Len(items') = Len(items) - 1
      /\ Len(items') <= QueueSize
      /\ \A i \in 1..Len(items') : i + 1 \in 1..Len(items) /\ items'[i] = items[i + 1]
      /\ LastEnds' /\ EndKnows'
      /\ Head(items).kind = "chunk" => Chunked' = Chunked - 1
  BY <1>1, QueueTail
<1>3. ExportTypeOK'
  BY <1>1, <1>2 DEF ExportInv, ExportTypeOK, First, reading, ConsumerPCs
<1>4. CASE Head(items).kind = "chunk" /\ consumer' = "answer" /\ UNCHANGED <<stop, outcome>>
  <2>1. ~stop /\ sent = << >>
    BY <1>1 DEF ExportInv, Stopped, Begun
  <2>2. Passed = 0 /\ Passed' = 1
    BY <1>1, <1>4, <2>1 DEF Passed
  <2>3. HeldCount' = HeldCount /\ item' = item /\ fetched' = fetched
    BY <1>1 DEF HeldCount, reading
  <2>4. InOrder
    BY DEF ExportInv
  <2>5. ASSUME NEW i \in 1..Len(items'), items'[i].kind = "chunk"
        PROVE  items'[i].n = Passed' + i - 1
    <3>1. i + 1 \in 1..Len(items) /\ items'[i] = items[i + 1] /\ i \in Int
      BY <1>2
    <3>2. items[i + 1].n = Passed + (i + 1) - 1
      BY <1>1, <2>1, <2>4, <2>5, <3>1 DEF InOrder
    <3> QED BY <2>2, <3>1, <3>2
  <2>6. fetched' = Passed' + Chunked' + HeldCount'
    BY <1>1, <1>2, <1>4, <2>1, <2>2, <2>3, <2>4, Counts DEF InOrder
  <2>7. InOrder'
    BY <1>1, <2>1, <2>3, <2>4, <2>5, <2>6 DEF InOrder
  <2>8. Begun' /\ Stopped' /\ Ended'
    BY <1>1, <1>4, <2>1 DEF ExportInv, Begun, Stopped, Ended
  <2> QED BY <1>2, <1>3, <2>7, <2>8 DEF ExportInv
<1>5. CASE consumer' = "closing" /\ stop' = TRUE /\ outcome' = "error"
  BY <1>1, <1>2, <1>3, <1>5, StoppedFrame DEF ExportInv
<1> QED BY <1>4, <1>5 DEF First

LEMMA BeginInv == ExportInv /\ Begin => ExportInv'
<1> SUFFICES ASSUME ExportInv, Begin PROVE ExportInv'
  OBVIOUS
<1>1. /\ sent = << >> /\ sent' = <<0>> /\ ~stop
      /\ UNCHANGED <<items, stop, outcome, client>> /\ UNCHANGED reading
      /\ consumer = "answer" /\ consumer' = "yield"
  BY DEF ExportInv, Begun, Stopped, Begin
<1>2. 0 \in Chunks
  BY SizesAssumption DEF Chunks
<1>3. ExportTypeOK'
  BY <1>1, <1>2 DEF ExportInv, ExportTypeOK, reading, ConsumerPCs
<1>4. LastEnds' /\ EndKnows'
  BY <1>1 DEF ExportInv, LastEnds, EndKnows, reading
<1>5. Passed' = Passed /\ Chunked' = Chunked /\ HeldCount' = HeldCount
  BY <1>1 DEF Passed, Chunked, HeldCount, reading
<1>6. InOrder'
  BY <1>1, <1>5 DEF ExportInv, InOrder, reading
<1>7. outcome # "whole"
  BY <1>1 DEF ExportInv, Ended
<1>8. Begun' /\ Ended' /\ Stopped'
  BY <1>1, <1>7 DEF Begun, Ended, Stopped
<1> QED BY <1>3, <1>4, <1>6, <1>8 DEF ExportInv

LEMMA DropInv == ExportInv /\ Drop => ExportInv'
<1> SUFFICES ASSUME ExportInv, Drop PROVE ExportInv'
  OBVIOUS
<1>1. ExportTypeOK' /\ LastEnds' /\ EndKnows'
  BY DEF ExportInv, ExportTypeOK, LastEnds, EndKnows, Drop, reading, ConsumerPCs
<1> QED BY <1>1 DEF ExportInv, InOrder, Begun, Ended, Stopped, Drop

LEMMA ResumeInv == ExportInv /\ Resume => ExportInv'
<1> SUFFICES ASSUME ExportInv, Resume PROVE ExportInv'
  OBVIOUS
<1>1. ExportTypeOK' /\ LastEnds' /\ EndKnows'
  BY DEF ExportInv, ExportTypeOK, LastEnds, EndKnows, Resume, reading, ConsumerPCs
<1>2. Passed' = Passed /\ Chunked' = Chunked /\ HeldCount' = HeldCount
  BY DEF Passed, Chunked, HeldCount, Resume, reading
<1>3. InOrder'
  BY <1>2 DEF ExportInv, InOrder, Resume, reading
<1> QED BY <1>1, <1>3 DEF ExportInv, Begun, Ended, Stopped, Resume

LEMMA GetInv == ExportInv /\ Get => ExportInv'
<1> SUFFICES ASSUME ExportInv, Get PROVE ExportInv'
  OBVIOUS
<1>1. /\ consumer = "get" /\ items # << >> /\ items' = Tail(items) /\ UNCHANGED reading
      /\ client' = client /\ ~stop /\ outcome # "whole"
  BY DEF ExportInv, Stopped, Ended, Get
<1>2. /\ Head(items) = items[1] /\ Head(items) \in Item /\ Len(items) >= 1
      /\ items' \in Seq(Item) /\ Len(items') = Len(items) - 1
      /\ Len(items') <= QueueSize
      /\ \A i \in 1..Len(items') : i + 1 \in 1..Len(items) /\ items'[i] = items[i + 1]
      /\ LastEnds' /\ EndKnows'
      /\ Head(items).kind = "chunk" => Chunked' = Chunked - 1
  BY <1>1, QueueTail
<1>3. Head(items).n \in Chunks /\ Head(items).n \in Nat /\ sent \in Seq(Chunks)
  BY <1>2, ItemTypes DEF ExportInv, ExportTypeOK
<1>4. ExportTypeOK'
  <2>1. sent' = sent \/ sent' = Append(sent, Head(items).n)
    BY DEF Get
  <2>2. sent' \in Seq(Chunks)
    BY <1>3, <2>1
  <2>3. consumer' \in ConsumerPCs /\ stop' \in BOOLEAN /\ outcome' \in {"none", "whole", "error"}
    BY <1>1 DEF ExportInv, ExportTypeOK, Get, ConsumerPCs
  <2> QED BY <1>1, <1>2, <2>2, <2>3 DEF ExportInv, ExportTypeOK, reading
<1>5. InOrder /\ Passed = Len(sent) /\ 1 \in 1..Len(items)
  BY <1>1, <1>2, Counts DEF ExportInv, Passed
<1>6. CASE Head(items).kind = "chunk"
  <2>1. sent' = Append(sent, Head(items).n) /\ consumer' = "yield" /\ UNCHANGED <<stop, outcome>>
    BY <1>6 DEF Get
  <2>2. Head(items).n = Len(sent)
    BY <1>1, <1>2, <1>5, <1>6, Counts DEF InOrder
  <2>3. /\ Len(sent') = Len(sent) + 1 /\ sent'[Len(sent) + 1] = Len(sent)
        /\ \A i \in 1..Len(sent) : sent'[i] = sent[i]
    BY <1>3, <2>1, <2>2
  <2>4. Passed' = Passed + 1
    BY <1>5, <2>1, <2>3 DEF Passed
  <2>5. HeldCount' = HeldCount /\ item' = item /\ fetched' = fetched
    BY <1>1 DEF HeldCount, reading
  <2>6. \A i \in 1..Len(sent') : sent'[i] = i - 1
    <3> SUFFICES ASSUME NEW i \in 1..Len(sent') PROVE sent'[i] = i - 1
      OBVIOUS
    <3>1. i \in 1..Len(sent) \/ i = Len(sent) + 1
      BY <2>3, Counts
    <3>2. CASE i \in 1..Len(sent)
      BY <1>1, <1>5, <2>3, <3>2 DEF InOrder
    <3>3. CASE i = Len(sent) + 1
      BY <2>3, <3>3, Counts
    <3> QED BY <3>1, <3>2, <3>3
  <2>7. \A i \in 1..Len(items') : items'[i].kind = "chunk" => items'[i].n = Passed' + i - 1
    BY <1>1, <1>2, <1>5, <2>4, Counts DEF InOrder
  <2>8. fetched' = Passed' + Chunked' + HeldCount'
    BY <1>1, <1>2, <1>5, <1>6, <2>4, <2>5, Counts DEF InOrder
  <2>9. InOrder'
    BY <1>1, <1>5, <2>5, <2>6, <2>7, <2>8 DEF InOrder
  <2>10. Begun' /\ Stopped' /\ Ended'
    BY <1>1, <2>1 DEF Begun, Stopped, Ended
  <2> QED BY <1>2, <1>4, <2>9, <2>10 DEF ExportInv
<1>7. CASE Head(items).kind # "chunk"
  <2>1. /\ consumer' = "closing" /\ stop' /\ sent' = sent
        /\ outcome' = IF Head(items).kind = "end" THEN "whole" ELSE "error"
    BY <1>7 DEF Get
  <2>2. Len(items) = 1 /\ producer \in {"close", "done"}
    BY <1>2, <1>5, <1>7 DEF ExportInv, LastEnds
  <2>3. Chunked = 0 /\ HeldCount = 0
    BY <1>1, <1>2, <1>7, <2>2 DEF Chunked, HeldCount
  <2>4. ASSUME Head(items).kind = "end" PROVE WholeOrBroken'
    <3>1. fetched = batches + 1 /\ batches' = batches
      BY <1>1, <1>2, <1>5, <2>4 DEF ExportInv, EndKnows, reading
    <3>2. Len(sent) = batches + 1 /\ \A i \in 1..Len(sent) : sent[i] = i - 1
      BY <1>1, <1>5, <2>3, <3>1, Counts DEF InOrder
    <3>3. sent = [i \in 1..Len(sent) |-> sent[i]]
      BY <1>3
    <3>4. sent = [i \in 1..(batches + 1) |-> i - 1]
      BY <3>2, <3>3
    <3> QED BY <2>1, <3>1, <3>4 DEF WholeOrBroken
  <2>5. InOrder' /\ Begun' /\ Stopped'
    BY <2>1 DEF InOrder, Begun, Stopped
  <2>6. Ended'
    BY <2>1, <2>4 DEF Ended
  <2> QED BY <1>2, <1>4, <2>5, <2>6 DEF ExportInv
<1> QED BY <1>6, <1>7

LEMMA CancelInv == ExportInv /\ Cancel => ExportInv'
<1> SUFFICES ASSUME ExportInv, Cancel PROVE ExportInv'
  OBVIOUS
<1>1. /\ consumer' = "closing" /\ stop' /\ sent' = sent /\ outcome' = "error"
      /\ client' = client /\ UNCHANGED reading
  BY DEF Cancel
<1>2. InOrder' /\ Begun' /\ Ended' /\ Stopped'
  BY <1>1, StoppedFrame
<1>3. CASE items' = items
  <2>1. ExportTypeOK' /\ LastEnds' /\ EndKnows'
    BY <1>1, <1>3 DEF ExportInv, ExportTypeOK, LastEnds, EndKnows, reading, ConsumerPCs, Cancel
  <2> QED BY <1>2, <2>1 DEF ExportInv
<1>4. CASE items # << >> /\ items' = Tail(items)
  <2>1. items' \in Seq(Item) /\ Len(items') <= QueueSize /\ LastEnds' /\ EndKnows'
    BY <1>1, <1>4, QueueTail
  <2>2. ExportTypeOK'
    BY <1>1, <2>1 DEF ExportInv, ExportTypeOK, reading, ConsumerPCs, Cancel
  <2> QED BY <1>2, <2>1, <2>2 DEF ExportInv
<1> QED BY <1>3, <1>4 DEF Cancel

LEMMA JoinInv == ExportInv /\ Join => ExportInv'
<1> SUFFICES ASSUME ExportInv, Join PROVE ExportInv'
  OBVIOUS
<1>1. ExportTypeOK' /\ LastEnds' /\ EndKnows'
  BY DEF ExportInv, ExportTypeOK, LastEnds, EndKnows, Join, reading, ConsumerPCs
<1>2. stop /\ stop'
  BY DEF ExportInv, Stopped, Join
<1>3. WholeOrBroken => WholeOrBroken'
  BY DEF WholeOrBroken, Join, reading
<1>4. Begun' /\ Ended' /\ Stopped' /\ InOrder'
  BY <1>2, <1>3 DEF ExportInv, Begun, Ended, Stopped, InOrder, Join
<1> QED BY <1>1, <1>4 DEF ExportInv

(* The client leaves, or nothing happens.                                  *)
LEMMA LeaveInv == ExportInv /\ (Leave \/ UNCHANGED exportVars) => ExportInv'
<1> SUFFICES ASSUME ExportInv, Leave \/ UNCHANGED exportVars PROVE ExportInv'
  OBVIOUS
<1>1. /\ UNCHANGED <<batches, fetched, producer, item, database, items, stop, consumer,
                     sent, outcome>>
      /\ client' \in {"there", "gone"}
  BY DEF ExportInv, ExportTypeOK, Leave, exportVars, reading
<1>2. ExportTypeOK' /\ LastEnds' /\ EndKnows'
  BY <1>1 DEF ExportInv, ExportTypeOK, LastEnds, EndKnows
<1>3. HeldCount' = HeldCount
  BY <1>1 DEF HeldCount
<1>4. InOrder' /\ Begun' /\ Ended' /\ Stopped'
  BY <1>1, <1>3, OrderFrame, BodyFrame
<1> QED BY <1>2, <1>4 DEF ExportInv

-----------------------------------------------------------------------------
(* The invariant of the export, for every number of batches and every size *)
(* of the queue.                                                           *)
THEOREM ExportInvariant == ExportSpec => []ExportInv
<1>1. ExportInv /\ [ExportNext]_exportVars => ExportInv'
  BY ConnectInv, FetchInv, WaitInv, PutInv, CloseInv, ReadFailsInv, FirstInv, BeginInv,
     DropInv, ResumeInv, GetInv, CancelInv, JoinInv, LeaveInv DEF ExportNext, Produce, Consume
<1> QED BY ExportInitInv, <1>1, PTL DEF ExportSpec

(* The numbers from a on, n of them.                                       *)
From(a, n) == [i \in 1..n |-> a + i - 1]

LEMMA FromJoins ==
    ASSUME NEW a \in Nat, NEW m \in Nat, NEW n \in Nat
    PROVE  From(a, m) \o From(a + m, n) = From(a, m + n)
<1>1. From(a, m) \in Seq(Int) /\ From(a + m, n) \in Seq(Int) /\ From(a, m + n) \in Seq(Int)
  BY DEF From
<1>2. Len(From(a, m)) = m /\ Len(From(a + m, n)) = n /\ Len(From(a, m + n)) = m + n
  BY DEF From
<1> DEFINE joined == From(a, m) \o From(a + m, n)
<1>3. /\ joined \in Seq(Int) /\ Len(joined) = m + n
      /\ \A i \in 1..(m + n) : joined[i] = IF i <= m THEN From(a, m)[i] ELSE From(a + m, n)[i - m]
  <2>1. /\ joined \in Seq(Int) /\ Len(joined) = Len(From(a, m)) + Len(From(a + m, n))
        /\ \A i \in 1..(Len(From(a, m)) + Len(From(a + m, n))) :
              joined[i] = IF i <= Len(From(a, m)) THEN From(a, m)[i]
                          ELSE From(a + m, n)[i - Len(From(a, m))]
    BY <1>1, ConcatProperties, Zenon
  <2> HIDE DEF joined
  <2> QED BY <1>2, <2>1
<1>4. ASSUME NEW i \in 1..(m + n) PROVE joined[i] = From(a, m + n)[i]
  <2>1. From(a, m + n)[i] = a + i - 1
    BY DEF From
  <2>2. i <= m => From(a, m)[i] = a + i - 1
    BY DEF From
  <2>3. ~(i <= m) => From(a + m, n)[i - m] = a + i - 1
    BY DEF From
  <2> HIDE DEF joined
  <2> QED BY <1>3, <2>1, <2>2, <2>3
<1> HIDE DEF joined
<1>5. joined = From(a, m + n)
  BY <1>1, <1>2, <1>3, <1>4, SeqEqual
<1> QED BY <1>5 DEF joined

(* Two sequences of naturals that count on from the same number.           *)
LEMMA Counting ==
    ASSUME NEW S, NEW s \in Seq(S), NEW a, \A i \in 1..Len(s) : s[i] = a + i - 1
    PROVE  s = From(a, Len(s))
<1>1. s = [i \in 1..Len(s) |-> s[i]]
  OBVIOUS
<1> QED BY <1>1 DEF From

LEMMA OrderIsNothingLost == ExportInv => NothingLost
<1> SUFFICES ASSUME ExportInv, ~stop, consumer # "dropped"
             PROVE  sent \o Taken \o Queued \o Held = [i \in 1..fetched |-> i - 1]
  BY DEF NothingLost
<1> DEFINE took == IF consumer = "answer" THEN 1 ELSE 0
<1>1. InOrder /\ Begun /\ LastEnds /\ sent \in Seq(Chunks) /\ items \in Seq(Item)
  BY DEF ExportInv, ExportTypeOK
<1>2. sent = From(0, Len(sent))
  BY <1>1, Counting, Counts DEF InOrder
<1>3. Taken = From(Len(sent), took)
  BY <1>1 DEF Taken, From, Begun
<1>4. Passed = Len(sent) + took /\ took \in Nat
  BY DEF Passed
<1>5. Chunked \in Nat /\ Chunked <= Len(items)
  BY <1>1, Counts DEF Chunked
<1>6. \A i \in 1..Chunked : items[i].n = Passed + i - 1
  <2> SUFFICES ASSUME NEW i \in 1..Chunked PROVE items[i].n = Passed + i - 1
    OBVIOUS
  <2>1. i \in 1..Len(items)
    BY <1>5, Counts
  <2>2. items[i].kind = "chunk"
    BY <1>1, <2>1, Counts DEF LastEnds, Chunked
  <2> QED BY <1>1, <2>1, <2>2 DEF InOrder
<1>7. Queued = [i \in 1..Chunked |-> items[i].n]
  BY DEF Queued, Chunked
<1>8. Queued = From(Passed, Chunked)
  BY <1>6, <1>7 DEF From
<1>9. Held = From(Passed + Chunked, HeldCount)
  <2>1. CASE producer \in {"check", "put"} /\ item.kind = "chunk"
    <3>1. Held = <<item.n>> /\ HeldCount = 1
      BY <2>1 DEF Held, HeldCount
    <3>2. item.n = Passed + Chunked
      BY <1>1, <1>5, <3>1, Counts DEF InOrder
    <3> QED BY <1>5, <3>1, <3>2, Counts DEF From
  <2>2. CASE ~(producer \in {"check", "put"} /\ item.kind = "chunk")
    BY <2>2 DEF Held, HeldCount, From
  <2> QED BY <2>1, <2>2
<1> HIDE DEF took
<1>10. sent \o Taken = From(0, Passed)
  <2>1. From(0, Len(sent)) \o From(0 + Len(sent), took) = From(0, Len(sent) + took)
    BY <1>4, FromJoins, Counts
  <2>2. 0 + Len(sent) = Len(sent)
    BY Counts
  <2> QED BY <1>2, <1>3, <1>4, <2>1, <2>2
<1>11. From(0, Passed) \o Queued = From(0, Passed + Chunked)
  <2>1. From(0, Passed) \o From(0 + Passed, Chunked) = From(0, Passed + Chunked)
    BY <1>5, FromJoins, Counts
  <2>2. 0 + Passed = Passed
    BY Counts
  <2> QED BY <1>8, <2>1, <2>2
<1>12. From(0, Passed + Chunked) \o Held = From(0, Passed + Chunked + HeldCount)
  <2>1. Passed + Chunked \in Nat /\ HeldCount \in Nat
    BY <1>5, Counts
  <2>2. From(0, Passed + Chunked) \o From(0 + (Passed + Chunked), HeldCount)
        = From(0, (Passed + Chunked) + HeldCount)
    BY <2>1, FromJoins
  <2>3. 0 + (Passed + Chunked) = Passed + Chunked
    BY <2>1
  <2> QED BY <1>9, <2>2, <2>3
<1>13. fetched = Passed + Chunked + HeldCount /\ fetched \in Nat
  BY <1>1, Counts DEF InOrder
<1>14. From(0, fetched) = [i \in 1..fetched |-> i - 1]
  BY <1>13 DEF From
<1> QED BY <1>10, <1>11, <1>12, <1>13, <1>14

(* Until an export is stopped, what was sent and what is on the way from   *)
(* the producer thread to the body is everything read so far, in order.    *)
THEOREM NothingIsLost == ExportSpec => []NothingLost
BY ExportInvariant, OrderIsNothingLost, PTL

(* A response that ends regularly is the whole history: body takes the end *)
(* only after every chunk, and _produce puts it only after every batch.    *)
THEOREM ExportsAreWhole == ExportSpec => []WholeOrBroken
<1>1. ExportInv => WholeOrBroken
  BY DEF ExportInv, Ended, WholeOrBroken
<1> QED BY ExportInvariant, <1>1, PTL
=============================================================================
