----------------------------- MODULE AdminGate -----------------------------
(***************************************************************************)
(* The gate in front of the application (AdminGate and consume_rate in     *)
(* shop/security.py, the slots of shop/import_service.py).  Logins and     *)
(* checkouts are limited by fixed windows in a table that all server       *)
(* processes share: a request reads the clock and then waits for the write *)
(* lock, so requests reach the table with times out of order.  Uploads of  *)
(* price lists are admitted one at a time over all processes, before the   *)
(* form is read into temporary files; the import itself also excludes the  *)
(* script that imports from the command line.                              *)
(***************************************************************************)
EXTENDS Integers, FiniteSets, Functions

CONSTANTS
    Buckets,        \* clients, each for one action
    Requests,       \* requests that are served
    WorkerOf,       \* by request: the process that serves it
    RateLimit,      \* LOGIN_RATE_LIMIT, CHECKOUT_RATE_LIMIT
    Window,         \* LOGIN_RATE_WINDOW, CHECKOUT_RATE_WINDOW
    MaxRows,        \* 10000 in the code
    MaxFiles,       \* max_files, 10 in the code
    Nobody, Script, \* who may hold a slot but a request
    Lag,            \* bound: how long a request waits for the write lock
    MaxClock        \* bound: the time that passes

ASSUME LimitsAssumption ==
    /\ RateLimit \in Nat \ {0} /\ Window \in Nat \ {0} /\ MaxRows \in Nat \ {0}
    /\ Lag \in Nat /\ Lag < Window /\ MaxClock \in Nat
    /\ MaxFiles \in Nat \ {0}
    /\ Nobody \notin Requests /\ Script \notin Requests /\ Script # Nobody

VARIABLES
    clock,
    rows,       \* the table rate_limits, by bucket
    request,    \* where each request is, with what it has read
    passed,     \* history: how many requests of each bucket passed, and when
    upload,     \* who holds .upload.lock
    importing,  \* who holds .import.lock
    parts,      \* the files of each request's form
    open        \* how many of them are open temporary files

table == <<clock, rows, passed>>
slots == <<upload, importing>>
files == <<parts, open>>
gateVars == <<clock, rows, request, passed, upload, importing, parts, open>>

Times == 0..MaxClock

Row == [count : 1..RateLimit, expires : 0..(MaxClock + Window)]

Free == [at |-> "free"]

Stages == {"slot", "parsing", "checking", "ready", "importing", "closing"}

GateInit ==
    /\ clock = 0
    /\ rows = [b \in {} |-> 0]
    /\ request = [r \in Requests |-> Free]
    /\ passed = [b \in Buckets |-> [t \in Times |-> 0]]
    /\ upload = Nobody /\ importing = Nobody
    /\ parts = [r \in Requests |-> 0] /\ open = [r \in Requests |-> 0]

-----------------------------------------------------------------------------
(* The rows whose window has not ended by that time.                       *)
Live(now) == [b \in {x \in DOMAIN rows : rows[x].expires > now} |-> rows[b]]

SetRow(t, b, row) == [x \in DOMAIN t \cup {b} |-> IF x = b THEN row ELSE t[x]]

Full(t) == Cardinality(DOMAIN t) >= MaxRows

(* Mutant of Spent: the request that reaches the limit passes.             *)
SpentLate(row) == row.count > RateLimit

Spent(row) == row.count >= RateLimit

Ask(r, b) ==
    /\ request[r] = Free
    /\ request' = [request EXCEPT ![r] = [at |-> "limit", bucket |-> b, now |-> clock]]
    /\ UNCHANGED <<table, slots, files>>

(* Old windows are removed; then the request counts in its own, or begins  *)
(* one.  It passes, or is answered with 429.                               *)
ConsumeRate(r) ==
    LET b    == request[r].bucket
        live == Live(request[r].now)
        pass == IF b \in DOMAIN live THEN ~Spent(live[b]) ELSE ~Full(live)
        row  == IF b \in DOMAIN live
                THEN [live[b] EXCEPT !.count = @ + 1]
                ELSE [count |-> 1, expires |-> request[r].now + Window]
    IN  /\ request[r].at = "limit"
        /\ rows' = IF pass THEN SetRow(live, b, row) ELSE live
        /\ passed' = IF pass THEN [passed EXCEPT ![b][clock] = @ + 1] ELSE passed
        /\ request' = [request EXCEPT ![r] = Free]
        /\ UNCHANGED <<clock, slots, files>>

(* The database stays busy: the answer is 503.                             *)
Busy(r) ==
    /\ request[r].at = "limit"
    /\ request' = [request EXCEPT ![r] = Free]
    /\ UNCHANGED <<table, slots, files>>

(* Time passes, but not while a request is overdue.                        *)
Tick ==
    /\ clock < MaxClock
    /\ \A r \in Requests : request[r].at = "limit" => request[r].now + Lag > clock
    /\ clock' = clock + 1
    /\ UNCHANGED <<rows, passed, request, slots, files>>

-----------------------------------------------------------------------------
Goes(r, from, to) ==
    /\ request[r].at = from
    /\ request' = [request EXCEPT ![r] = [at |-> to]]

(* POST /admin/import by an administrator.                                 *)
Upload(r) ==
    /\ Goes(r, "free", "slot")
    /\ UNCHANGED <<table, slots, files>>

Enter(r) ==
    /\ upload = Nobody /\ upload' = r
    /\ Goes(r, "slot", "parsing")
    /\ UNCHANGED <<table, importing, files>>

(* ImportBusyError: the answer is 429.                                     *)
TurnAway(r) ==
    /\ upload # Nobody
    /\ Goes(r, "slot", "free")
    /\ UNCHANGED <<table, slots, files>>

Spool(r) ==
    /\ request[r].at = "parsing" /\ parts[r] < MaxFiles
    /\ parts' = [parts EXCEPT ![r] = @ + 1]
    /\ open' = [open EXCEPT ![r] = @ + 1]
    /\ UNCHANGED <<table, request, slots>>

(* Mutant of ParseFails: the error leaves the gate without its finally.    *)
ParseFailsOut(r) ==
    /\ Goes(r, "parsing", "free")
    /\ parts' = [parts EXCEPT ![r] = 0] /\ open' = [open EXCEPT ![r] = 0]
    /\ UNCHANGED <<table, slots>>

(* A wrong token or media type, a file too many, a body over its budget or *)
(* deadline, a peer that is gone, a form that does not end.                *)
ParseFails(r) ==
    /\ Goes(r, "parsing", "closing")
    /\ UNCHANGED <<table, slots, files>>

Parsed(r) ==
    /\ Goes(r, "parsing", "checking")
    /\ UNCHANGED <<table, slots, files>>

(* Mutant of Verify: the files are closed, as for the other forms.         *)
VerifyCloses(r) ==
    /\ \/ Goes(r, "checking", "ready")
       \/ Goes(r, "checking", "closing")
    /\ open' = [open EXCEPT ![r] = 0]
    /\ UNCHANGED <<table, slots, parts>>

(* _verified_form after parsing: duplicate or long fields, the token.      *)
Verify(r) ==
    /\ \/ Goes(r, "checking", "ready")
       \/ Goes(r, "checking", "closing")
    /\ UNCHANGED <<table, slots, files>>

(* No file, or a wrong multiplier; or another import runs.                 *)
RefuseImport(r) ==
    /\ Goes(r, "ready", "closing")
    /\ UNCHANGED <<table, slots, files>>

(* run_imports in a thread.                                                *)
StartImport(r) ==
    /\ parts[r] > 0
    /\ importing = Nobody /\ importing' = r
    /\ Goes(r, "ready", "importing")
    /\ UNCHANGED <<table, upload, files>>

FinishImport(r) ==
    /\ Goes(r, "importing", "closing")
    /\ importing' = Nobody
    /\ UNCHANGED <<table, upload, files>>

(* form.close, one file after another.                                     *)
CloseFile(r) ==
    /\ request[r].at = "closing" /\ open[r] > 0
    /\ open' = [open EXCEPT ![r] = @ - 1]
    /\ UNCHANGED <<table, request, slots, parts>>

(* Mutant of LeaveGate: the slot goes back before the files are closed.    *)
LeaveEarly(r) ==
    /\ request[r].at = "closing" /\ upload = r
    /\ upload' = Nobody
    /\ UNCHANGED <<table, request, importing, files>>

LeaveGate(r) ==
    /\ open[r] = 0
    /\ Goes(r, "closing", "free")
    /\ upload' = Nobody
    /\ parts' = [parts EXCEPT ![r] = 0]
    /\ UNCHANGED <<table, importing, open>>

ScriptImport ==
    /\ \/ importing = Nobody /\ importing' = Script
       \/ importing = Script /\ importing' = Nobody
    /\ UNCHANGED <<table, request, upload, files>>

(* A process is gone with its requests, its files and its locks.           *)
Die(w) ==
    LET gone   == {r \in Requests : WorkerOf[r] = w}
        Kept(f) == [r \in Requests |-> IF r \in gone THEN 0 ELSE f[r]]
    IN  /\ request' = [r \in Requests |-> IF r \in gone THEN Free ELSE request[r]]
        /\ upload' = IF upload \in gone THEN Nobody ELSE upload
        /\ importing' = IF importing \in gone THEN Nobody ELSE importing
        /\ parts' = Kept(parts) /\ open' = Kept(open)
        /\ UNCHANGED table

-----------------------------------------------------------------------------
Limits(r) == ConsumeRate(r) \/ Busy(r) \/ \E b \in Buckets : Ask(r, b)

(* What a request does by itself once it asked for the slot.               *)
Serves(r) ==
    \/ Enter(r) \/ TurnAway(r)
    \/ Spool(r) \/ ParseFails(r) \/ Parsed(r)
    \/ Verify(r) \/ RefuseImport(r) \/ StartImport(r) \/ FinishImport(r)
    \/ CloseFile(r) \/ LeaveGate(r)

GateNext ==
    \/ Tick
    \/ \E r \in Requests : Limits(r) \/ Upload(r) \/ Serves(r)
    \/ ScriptImport
    \/ \E r \in Requests : Die(WorkerOf[r])

(* The deadlines of the body end the parsing, those of the reader the      *)
(* import; nothing waits for a lock.                                       *)
Fairness == \A r \in Requests : WF_gateVars(Serves(r))

GateSpec == GateInit /\ [][GateNext]_gateVars /\ Fairness

-----------------------------------------------------------------------------
GateTypeOK ==
    /\ clock \in Times
    /\ DOMAIN rows \subseteq Buckets /\ Cardinality(DOMAIN rows) <= MaxRows
    /\ \A b \in DOMAIN rows : rows[b] \in Row
    /\ request \in [Requests -> {Free} \cup [at : Stages] \cup
                                [at : {"limit"}, bucket : Buckets, now : Times]]
    /\ passed \in [Buckets -> [Times -> Nat]]
    /\ upload \in Requests \cup {Nobody}
    /\ importing \in Requests \cup {Nobody, Script}
    /\ parts \in [Requests -> 0..MaxFiles] /\ open \in [Requests -> 0..MaxFiles]

(* In any stretch of time shorter than a window by the lag of requests, no *)
(* more than two windows are opened for a client, however its requests are *)
(* reordered: at most twice the limit passes (consume_rate).               *)
TwiceTheLimit ==
    \A b \in Buckets, t \in Times :
        SumFunctionOnSet(passed[b], {x \in t..(t + Window - Lag - 1) : x <= MaxClock})
            <= 2 * RateLimit

(* Only the one upload that was admitted has files on the disk, over all   *)
(* processes and until the last of them is closed (AdminGate, upload_slot, *)
(* BoundedMultiPartParser).                                                *)
OneSpool ==
    \A r \in Requests : open[r] > 0 => upload = r

(* While an import reads the files of a form, they are open, and its       *)
(* request holds the upload slot (admin_import, run_imports).              *)
ImportHasFiles ==
    \A r \in Requests : importing = r =>
        upload = r /\ parts[r] > 0 /\ open[r] = parts[r]

(* An upload that was admitted gives the slot back, whatever happens to it *)
(* (AdminGate's finally).                                                  *)
SlotGivenBack ==
    \A r \in Requests : (upload = r) ~> (upload # r)
=============================================================================
