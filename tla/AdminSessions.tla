--------------------------- MODULE AdminSessions ---------------------------
(***************************************************************************)
(* The sessions of administrators (shop/security.py, AdminGate there, and  *)
(* the handlers of /admin/login, /admin/logout and /admin/sessions/revoke  *)
(* in shop/app.py).  Server processes share the table admin_sessions and   *)
(* the version of the credentials in security_state, while each keeps the  *)
(* version that it was started with.  A request reads the clock once, and  *)
(* looks a session up and touches it in two transactions.                  *)
(***************************************************************************)
EXTENDS Integers, FiniteSets, FiniteSetsExt

CONSTANTS
    Workers,        \* server processes
    Requests,       \* threads that serve requests
    Tokens,         \* bound: the sessions that may be opened
    Versions,       \* of the administrator's credentials
    MaxSessions,    \* 100 in the code
    Idle,           \* ADMIN_IDLE_SECONDS
    Absolute,       \* ADMIN_ABSOLUTE_SECONDS
    Touch,          \* touch_interval: a quarter of Idle, at most a minute
    Lag,            \* bound: how long a request lives after reading the clock
    MaxClock        \* bound: the time that passes

ASSUME TimesAssumption ==
    /\ Idle \in Nat \ {0} /\ Absolute \in Nat \ {0} /\ Touch \in Nat /\ Touch < Idle
    /\ Lag \in Nat /\ MaxClock \in Nat /\ MaxSessions \in Nat \ {0}
    /\ "none" \notin Tokens

VARIABLES
    clock,
    stored,     \* security_state: the version of the credentials in force
    version,    \* CREDENTIAL_VERSION of each process
    sessions,   \* the table admin_sessions, by token
    request,    \* the local variables of each request
    opened,     \* history: what every session ever opened was opened with
    used        \* history: when each of them was last let through

vars == <<clock, stored, version, sessions, request, opened, used>>

Times == 0..MaxClock

Session == [created : Times, seen : Times, version : Versions]

Kinds == {"page", "login", "logout", "revoke"}

(* Looking the session up, touching it, in the handler, opening a session. *)
PCs == {"free", "check", "touch", "handler", "create"}

Free == [pc |-> "free"]

Local == {Free} \cup
    [pc : PCs \ {"free"}, worker : Workers, kind : Kinds, token : Tokens \cup {"none"},
     now : Times, admitted : BOOLEAN, gone : SUBSET Tokens]

Signed == DOMAIN sessions

Opened == DOMAIN opened

Init ==
    /\ clock = 0
    /\ stored \in Versions
    /\ version = [w \in Workers |-> stored]
    /\ sessions = [t \in {} |-> 0]
    /\ request = [r \in Requests |-> Free]
    /\ opened = [t \in {} |-> 0]
    /\ used = [t \in {} |-> 0]

-----------------------------------------------------------------------------
Keep(tokens) == [t \in Signed \cap tokens |-> sessions[t]]

(* What a request's statements ask of the row of its session.              *)
Valid(r) ==
    LET q == request[r]
    IN  /\ q.token \in Signed
        /\ sessions[q.token].created + Absolute > q.now
        /\ sessions[q.token].seen > q.now - Idle
        /\ sessions[q.token].version = version[q.worker]
        /\ stored = version[q.worker]

Stale(r) == sessions[request[r].token].seen <= request[r].now - Touch

(* A request gets past the gate, or is sent to the login; a login needs no *)
(* session to get to its handler.                                          *)
Pass(r, ok) ==
    request' = [request EXCEPT ![r] =
        IF ok \/ @.kind = "login"
        THEN [@ EXCEPT !.pc = "handler", !.admitted = ok]
        ELSE Free]

Use(r, ok) ==
    used' = IF ok /\ request[r].now > used[request[r].token]
            THEN [used EXCEPT ![request[r].token] = request[r].now]
            ELSE used

(* A process starts, with the credentials that its settings now have; its  *)
(* requests died with the one before.  sync_credentials ends all sessions  *)
(* when these are not the credentials in force.                            *)
Restart(w, v) ==
    /\ version' = [version EXCEPT ![w] = v]
    /\ stored' = v
    /\ sessions' = IF stored = v THEN sessions ELSE Keep({})
    /\ request' = [r \in Requests |->
          IF request[r] # Free /\ request[r].worker = w THEN Free ELSE request[r]]
    /\ UNCHANGED <<clock, opened, used>>

(* A request comes in, with the token of a session that was opened once,   *)
(* or without.                                                             *)
Ask(r, w, kind, token) ==
    /\ request[r] = Free
    /\ token \in Opened \cup {"none"}
    /\ request' = [request EXCEPT ![r] =
          [pc |-> "check", worker |-> w, kind |-> kind, token |-> token, now |-> clock,
           admitted |-> FALSE, gone |-> Opened \ Signed]]
    /\ UNCHANGED <<clock, stored, version, sessions, opened, used>>

(* authenticated: the session is looked up; one that was seen recently is  *)
(* not written.                                                            *)
Check(r) ==
    /\ request[r].pc = "check"
    /\ IF Valid(r) /\ Stale(r)
       THEN /\ request' = [request EXCEPT ![r].pc = "touch"]
            /\ UNCHANGED used
       ELSE Pass(r, Valid(r)) /\ Use(r, Valid(r))
    /\ UNCHANGED <<clock, stored, version, sessions, opened>>

(* Mutant of TouchSession: what was looked up is written back.             *)
TouchSessionBack(r) ==
    LET t == request[r].token
    IN  /\ request[r].pc = "touch"
        /\ sessions' = [x \in Signed \cup {t} |->
              IF x = t THEN [opened[t] EXCEPT !.seen = request[r].now] ELSE sessions[x]]
        /\ Pass(r, TRUE) /\ Use(r, TRUE)
        /\ UNCHANGED <<clock, stored, version, opened>>

(* The UPDATE asks again for all that the SELECT asked for, and its row    *)
(* count decides.                                                          *)
TouchSession(r) ==
    /\ request[r].pc = "touch"
    /\ sessions' = IF Valid(r)
                   THEN [sessions EXCEPT ![request[r].token].seen = request[r].now]
                   ELSE sessions
    /\ Pass(r, Valid(r)) /\ Use(r, Valid(r))
    /\ UNCHANGED <<clock, stored, version, opened>>

(* The handler of a page answers; logging out ends the session of the      *)
(* cookie, and signing out everywhere all sessions.                        *)
Handle(r) ==
    /\ request[r].pc = "handler"
    /\ request[r].kind # "login"
    /\ sessions' = CASE request[r].kind = "page"   -> sessions
                     [] request[r].kind = "logout" -> Keep(Tokens \ {request[r].token})
                     [] request[r].kind = "revoke" -> Keep({})
    /\ request' = [request EXCEPT ![r] = Free]
    /\ UNCHANGED <<clock, stored, version, opened, used>>

(* With the right password, a login ends the session of its cookie, and    *)
(* then, in another transaction and by the clock of that, opens one.       *)
LogIn(r) ==
    /\ request[r].pc = "handler"
    /\ request[r].kind = "login"
    /\ sessions' = Keep(Tokens \ {request[r].token})
    /\ request' = [request EXCEPT ![r].pc = "create", ![r].now = clock]
    /\ UNCHANGED <<clock, stored, version, opened, used>>

(* Mutant of Newest: one more is kept.                                     *)
NewestOneMore(kept, live) ==
    /\ kept \subseteq live
    /\ Cardinality(kept) = IF Cardinality(live) <= MaxSessions
                           THEN Cardinality(live) ELSE MaxSessions
    /\ \A t \in kept, u \in live \ kept : sessions[t].created >= sessions[u].created

(* The newest sessions of a set, one fewer than there may be.              *)
Newest(kept, live) ==
    /\ kept \subseteq live
    /\ Cardinality(kept) = IF Cardinality(live) <= MaxSessions - 1
                           THEN Cardinality(live) ELSE MaxSessions - 1
    /\ \A t \in kept, u \in live \ kept : sessions[t].created >= sessions[u].created

(* Mutant of Create: any process may open sessions.                        *)
CreateUnchecked(r, t, now) ==
    LET live == {x \in Signed : sessions[x].created + Absolute > now
                                /\ sessions[x].seen > now - Idle}
        new  == [created |-> now, seen |-> now, version |-> version[request[r].worker]]
    IN  /\ request[r].pc = "create"
        /\ now \in request[r].now..clock
        /\ t \notin Opened
        /\ \E kept \in SUBSET live :
              /\ Newest(kept, live)
              /\ sessions' = [x \in kept \cup {t} |-> IF x = t THEN new ELSE sessions[x]]
        /\ opened' = [x \in Opened \cup {t} |-> IF x = t THEN new ELSE opened[x]]
        /\ used' = [x \in Opened \cup {t} |-> IF x = t THEN now ELSE used[x]]
        /\ request' = [request EXCEPT ![r] = Free]
        /\ UNCHANGED <<clock, stored, version>>

(* create_admin_session, in a process that has the credentials in force.   *)
Create(r, t, now) ==
    LET live == {x \in Signed : sessions[x].created + Absolute > now
                                /\ sessions[x].seen > now - Idle}
        new  == [created |-> now, seen |-> now, version |-> version[request[r].worker]]
    IN  /\ request[r].pc = "create"
        /\ version[request[r].worker] = stored
        /\ now \in request[r].now..clock
        /\ t \notin Opened
        /\ \E kept \in SUBSET live :
              /\ Newest(kept, live)
              /\ sessions' = [x \in kept \cup {t} |-> IF x = t THEN new ELSE sessions[x]]
        /\ opened' = [x \in Opened \cup {t} |-> IF x = t THEN new ELSE opened[x]]
        /\ used' = [x \in Opened \cup {t} |-> IF x = t THEN now ELSE used[x]]
        /\ request' = [request EXCEPT ![r] = Free]
        /\ UNCHANGED <<clock, stored, version>>

(* The database stays busy, the password or the form is wrong, or the      *)
(* credentials are not in force: the request ends where it is.             *)
Fail(r) ==
    /\ request[r] # Free
    /\ request' = [request EXCEPT ![r] = Free]
    /\ UNCHANGED <<clock, stored, version, sessions, opened, used>>

(* Time passes, but not while a request is overdue.                        *)
Tick ==
    /\ clock < MaxClock
    /\ \A r \in Requests : request[r] # Free => request[r].now + Lag > clock
    /\ clock' = clock + 1
    /\ UNCHANGED <<stored, version, sessions, request, opened, used>>

Next ==
    \/ Tick
    \/ \E w \in Workers, v \in Versions : Restart(w, v)
    \/ \E r \in Requests :
          \/ \E w \in Workers, kind \in Kinds, token \in Tokens \cup {"none"} :
                Ask(r, w, kind, token)
          \/ Check(r) \/ TouchSession(r) \/ Handle(r) \/ LogIn(r) \/ Fail(r)
          \/ \E t \in Tokens, now \in Times : Create(r, t, now)

Spec == Init /\ [][Next]_vars

-----------------------------------------------------------------------------
(* The variables have their types, and the table its limit.                *)
TypeOK ==
    /\ clock \in Times
    /\ stored \in Versions
    /\ version \in [Workers -> Versions]
    /\ Cardinality(Signed) <= MaxSessions
    /\ Signed \subseteq Opened /\ Opened \subseteq Tokens /\ DOMAIN used = Opened
    /\ \A t \in Signed : sessions[t] \in Session
    /\ \A t \in Opened : opened[t] \in Session /\ used[t] \in Times
    /\ request \in [Requests -> Local]

(* No session outlives a change of the credentials, and none is opened     *)
(* under the old ones by a process that has not restarted yet.             *)
SessionsCurrent == \A t \in Signed : sessions[t].version = stored

(* A request is let through only with a session that was not ended before  *)
(* the request came in, that is within its absolute time, and that was     *)
(* opened under the credentials of the process.                            *)
EndedRefused ==
    \A r \in Requests :
        request[r].pc = "handler" /\ request[r].admitted
        => LET q == request[r]
           IN  /\ q.token \in Opened \ q.gone
               /\ opened[q.token].created + Absolute > q.now
               /\ opened[q.token].version = version[q.worker]

(* A session that is in use is not taken for idle: what is recorded of its *)
(* use lags behind by the touch interval, or by what a slow request wrote, *)
(* and no more.                                                            *)
UseRecorded ==
    \A t \in Signed :
        \/ sessions[t].seen > used[t] - Touch
        \/ sessions[t].seen >= used[t] - Lag

(* The inductive invariant of the proofs: rows are as they were opened,    *)
(* requests are no older than they may be and know of no ended session     *)
(* that came back, and no use lies in the future.                          *)
RowsTrue ==
    \A t \in Signed : sessions[t].created = opened[t].created
                    /\ sessions[t].version = opened[t].version

RequestsFresh ==
    \A r \in Requests :
        request[r] # Free => /\ request[r].now <= clock
                             /\ clock <= request[r].now + Lag
                             /\ request[r].gone \subseteq Opened \ Signed

UsesPast == \A t \in Opened : used[t] <= clock

IInv ==
    /\ TypeOK /\ IsFiniteSet(Signed)
    /\ RowsTrue /\ RequestsFresh /\ UsesPast
    /\ SessionsCurrent /\ EndedRefused /\ UseRecorded
=============================================================================
