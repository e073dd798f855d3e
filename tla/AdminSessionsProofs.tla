------------------------- MODULE AdminSessionsProofs -------------------------
(***************************************************************************)
(* Proofs about AdminSessions, for any number of server processes and      *)
(* requests, any credentials and any limits.                               *)
(***************************************************************************)
EXTENDS AdminSessions, FiniteSetTheorems, TLAPS

USE DEF Times

(* A request that is under way is a record, and no other is free.          *)
LEMMA BusyRequest ==
    ASSUME TypeOK, NEW r \in Requests, request[r] # Free
    PROVE  /\ request[r] \in [pc : PCs \ {"free"}, worker : Workers, kind : Kinds,
                              token : Tokens \cup {"none"}, now : Times,
                              admitted : BOOLEAN, gone : SUBSET Tokens]
           /\ request[r].pc \in PCs \ {"free"} /\ request[r].worker \in Workers
           /\ request[r].token \in Tokens \cup {"none"} /\ request[r].now \in Nat
           /\ request[r].now \in Times /\ request[r].gone \subseteq Tokens
<1>1. request[r] \in Local
  BY DEF TypeOK
<1> QED BY <1>1, TimesAssumption DEF Local

LEMMA FreePC == Free.pc = "free"
BY DEF Free

THEOREM SessionsInit == Init => IInv
<1> SUFFICES ASSUME Init PROVE IInv
  OBVIOUS
<1>1. Signed = {} /\ Opened = {} /\ DOMAIN used = {}
  BY DEF Init, Signed, Opened
<1>2. IsFiniteSet(Signed) /\ Cardinality(Signed) = 0
  BY <1>1, FS_EmptySet
<1>3. \A r \in Requests : request[r] = Free
  BY DEF Init
<1>4. TypeOK
  <2>1. request \in [Requests -> Local]
    BY DEF Init, Local
  <2>2. clock \in Times /\ stored \in Versions /\ version \in [Workers -> Versions]
    BY TimesAssumption DEF Init
  <2> QED BY <2>1, <2>2, <1>1, <1>2, TimesAssumption DEF TypeOK
<1>5. RowsTrue /\ SessionsCurrent /\ UseRecorded /\ UsesPast
  BY <1>1 DEF RowsTrue, SessionsCurrent, UseRecorded, UsesPast
<1>6. RequestsFresh /\ EndedRefused
  BY <1>3, FreePC DEF RequestsFresh, EndedRefused
<1> QED BY <1>2, <1>4, <1>5, <1>6 DEF IInv

(* What letting a request through, or not, makes of it.                    *)
LEMMA PassEffect ==
    ASSUME TypeOK, NEW r \in Requests, request[r] # Free, NEW ok \in BOOLEAN, Pass(r, ok)
    PROVE  /\ request' \in [Requests -> Local]
           /\ \A s \in Requests \ {r} : request'[s] = request[s]
           /\ request'[r] # Free =>
                 /\ request'[r].admitted = ok /\ request'[r].now = request[r].now
                 /\ request'[r].token = request[r].token
                 /\ request'[r].worker = request[r].worker
                 /\ request'[r].gone = request[r].gone
<1> DEFINE q == request[r]
           n == [q EXCEPT !.pc = "handler", !.admitted = ok]
<1>1. q \in [pc : PCs \ {"free"}, worker : Workers, kind : Kinds, token : Tokens \cup {"none"},
             now : Times, admitted : BOOLEAN, gone : SUBSET Tokens]
  BY BusyRequest
<1>2. n \in [pc : PCs \ {"free"}, worker : Workers, kind : Kinds, token : Tokens \cup {"none"},
             now : Times, admitted : BOOLEAN, gone : SUBSET Tokens]
      /\ n.admitted = ok /\ n.now = q.now /\ n.token = q.token /\ n.worker = q.worker
      /\ n.gone = q.gone
  BY <1>1 DEF PCs
<1>3. request' = [request EXCEPT ![r] = IF ok \/ q.kind = "login" THEN n ELSE Free]
  BY DEF Pass
<1>4. n \in Local /\ Free \in Local
  BY <1>2 DEF Local
<1>5. request \in [Requests -> Local]
  BY DEF TypeOK
<1> HIDE DEF q, n
<1>6. request'[r] \in {n, Free}
  BY <1>3, <1>5
<1>7. request' \in [Requests -> Local] /\ \A s \in Requests \ {r} : request'[s] = request[s]
  BY <1>3, <1>4, <1>5
<1> QED BY <1>2, <1>6, <1>7 DEF q

(* Removing sessions disturbs nothing that is said of the others.          *)
LEMMA FewerSessions ==
    ASSUME IInv, Signed' \subseteq Signed, \A t \in Signed' : sessions'[t] = sessions[t],
           UNCHANGED <<stored, opened, used>>
    PROVE  /\ IsFiniteSet(Signed') /\ Cardinality(Signed') <= MaxSessions
           /\ Signed' \subseteq Opened' /\ \A t \in Signed' : sessions'[t] \in Session
           /\ RowsTrue' /\ SessionsCurrent' /\ UseRecorded'
<1>1. IsFiniteSet(Signed) /\ Cardinality(Signed) <= MaxSessions /\ Signed \subseteq Opened
      /\ (\A t \in Signed : sessions[t] \in Session)
      /\ RowsTrue /\ SessionsCurrent /\ UseRecorded
  BY DEF IInv, TypeOK
<1>2. IsFiniteSet(Signed') /\ Cardinality(Signed') <= Cardinality(Signed)
  BY <1>1, FS_Subset
<1>3. IsFiniteSet(Signed') /\ Cardinality(Signed') <= MaxSessions
  BY <1>1, <1>2, FS_CardinalityType, TimesAssumption
<1>4. Opened' = Opened
  BY DEF Opened
<1>5. Signed' \subseteq Opened' /\ \A t \in Signed' : sessions'[t] \in Session
  BY <1>1, <1>4
<1>6. RowsTrue' /\ SessionsCurrent' /\ UseRecorded'
  BY <1>1 DEF RowsTrue, SessionsCurrent, UseRecorded
<1> QED BY <1>3, <1>5, <1>6

LEMMA KeepEffect ==
    ASSUME NEW tokens, sessions' = Keep(tokens)
    PROVE  Signed' \subseteq Signed /\ \A t \in Signed' : sessions'[t] = sessions[t]
BY DEF Keep, Signed

(* While time and the sessions opened stay, a request that stays as it was *)
(* or ends, or is let nowhere, needs no more than it had.                  *)
LEMMA RequestsStay ==
    ASSUME IInv, UNCHANGED <<clock, version, opened>>, Signed' \subseteq Signed,
           \A s \in Requests :
              \/ request'[s] = request[s]
              \/ request'[s] = Free
              \/ /\ request[s] # Free
                 /\ request'[s].gone = request[s].gone
                 /\ request'[s].now \in {request[s].now, clock}
                 /\ ~(request'[s].pc = "handler" /\ request'[s].admitted)
    PROVE  RequestsFresh' /\ EndedRefused'
<1>1. RequestsFresh /\ EndedRefused /\ clock \in Nat
  BY TimesAssumption DEF IInv, TypeOK
<1>2. Opened' = Opened
  BY DEF Opened
<1>3. RequestsFresh'
  BY <1>1, <1>2, TimesAssumption DEF RequestsFresh
<1>4. EndedRefused'
  BY <1>1, <1>2, FreePC DEF EndedRefused
<1> QED BY <1>3, <1>4

(* One session fewer than there may be, and one more.                      *)
LEMMA NewestEffect ==
    ASSUME IsFiniteSet(Signed), NEW live \in SUBSET Signed, NEW kept, Newest(kept, live)
    PROVE  /\ kept \subseteq live /\ IsFiniteSet(kept)
           /\ Cardinality(kept) \in Nat /\ Cardinality(kept) <= MaxSessions - 1
<1>1. kept \subseteq live
  BY DEF Newest
<1>2. IsFiniteSet(kept) /\ Cardinality(kept) \in Nat
  BY <1>1, FS_Subset, FS_CardinalityType
<1>3. IsFiniteSet(live) /\ Cardinality(live) \in Nat
  BY FS_Subset, FS_CardinalityType
<1>4. Cardinality(kept) <= MaxSessions - 1
  BY <1>3, TimesAssumption DEF Newest
<1> QED BY <1>1, <1>2, <1>4
-----------------------------------------------------------------------------
(* Every step keeps the inductive invariant.                               *)

LEMMA TickKeeps == ASSUME IInv, Tick PROVE IInv'
<1>1. TypeOK /\ RequestsFresh /\ UsesPast /\ clock \in Times
  BY DEF IInv, TypeOK
<1>2. clock' = clock + 1 /\ clock' \in Times
  BY <1>1, TimesAssumption DEF Tick
<1>3. UNCHANGED <<stored, version, sessions, request, opened, used>>
      /\ Signed' = Signed /\ Opened' = Opened
  BY DEF Tick, Signed, Opened
<1>4. TypeOK'
  BY <1>1, <1>2, <1>3 DEF TypeOK
<1>5. UsesPast'
  <2>1. \A t \in Opened : used[t] \in Nat
    BY <1>1, TimesAssumption DEF TypeOK
  <2> QED BY <1>1, <1>2, <1>3, <2>1, TimesAssumption DEF UsesPast
<1>6. RequestsFresh'
  <2> SUFFICES ASSUME NEW r \in Requests, request[r] # Free
               PROVE  /\ request[r].now <= clock + 1 /\ clock + 1 <= request[r].now + Lag
                      /\ request[r].gone \subseteq Opened \ Signed
    BY <1>2, <1>3 DEF RequestsFresh
  <2>1. request[r].now \in Nat
    BY <1>1, BusyRequest
  <2>2. request[r].now + Lag > clock
    BY DEF Tick
  <2> QED BY <1>1, <2>1, <2>2, TimesAssumption DEF RequestsFresh
<1>7. IsFiniteSet(Signed) /\ RowsTrue /\ SessionsCurrent /\ EndedRefused /\ UseRecorded
  BY DEF IInv
<1>8. IsFiniteSet(Signed') /\ RowsTrue' /\ SessionsCurrent' /\ EndedRefused' /\ UseRecorded'
  BY <1>3, <1>7 DEF RowsTrue, SessionsCurrent, EndedRefused, UseRecorded
<1> QED BY <1>4, <1>5, <1>6, <1>8 DEF IInv

LEMMA RestartKeeps ==
    ASSUME IInv, NEW w \in Workers, NEW v \in Versions, Restart(w, v)
    PROVE  IInv'
<1>1. TypeOK /\ EndedRefused /\ RequestsFresh /\ IsFiniteSet(Signed)
  BY DEF IInv
<1>2. Opened' = Opened /\ UNCHANGED <<clock, opened, used>>
  BY DEF Restart, Opened
<1>3. version' \in [Workers -> Versions] /\ \A x \in Workers \ {w} : version'[x] = version[x]
  BY <1>1 DEF Restart, TypeOK
<1>4. request' \in [Requests -> Local]
      /\ \A r \in Requests :
            \/ request'[r] = Free
            \/ request[r].worker # w /\ request'[r] = request[r]
  BY <1>1 DEF Restart, TypeOK, Local
<1>5. /\ IsFiniteSet(Signed') /\ Cardinality(Signed') <= MaxSessions
      /\ Signed' \subseteq Opened' /\ \A t \in Signed' : sessions'[t] \in Session
      /\ RowsTrue' /\ SessionsCurrent' /\ UseRecorded' /\ Signed' \subseteq Signed
  <2>1. CASE stored = v
    <3>1. Signed' = Signed /\ sessions' = sessions /\ stored' = stored
      BY <2>1 DEF Restart, Signed
    <3> QED BY <3>1, <1>2, FewerSessions
  <2>2. CASE stored # v
    <3>1. Signed' = {}
      BY <2>2 DEF Restart, Keep, Signed
    <3> QED BY <3>1, FS_EmptySet, TimesAssumption
        DEF RowsTrue, SessionsCurrent, UseRecorded
  <2> QED BY <2>1, <2>2
<1>6. TypeOK'
  <2>1. clock' \in Times /\ stored' \in Versions /\ Opened' \subseteq Tokens /\ DOMAIN used' = Opened'
        /\ \A t \in Opened' : opened'[t] \in Session /\ used'[t] \in Times
    BY <1>1, <1>2 DEF Restart, TypeOK
  <2> QED BY <2>1, <1>3, <1>4, <1>5 DEF TypeOK
<1>7. EndedRefused'
  <2> SUFFICES ASSUME NEW r \in Requests, request'[r].pc = "handler", request'[r].admitted
               PROVE  /\ request'[r].token \in Opened' \ request'[r].gone
                      /\ opened'[request'[r].token].created + Absolute > request'[r].now
                      /\ opened'[request'[r].token].version = version'[request'[r].worker]
    BY DEF EndedRefused
  <2>1. request'[r] = request[r] /\ request[r].worker # w /\ request[r] # Free
    BY <1>4, FreePC
  <2>2. request[r].worker \in Workers
    BY <1>1, <2>1, BusyRequest
  <2> QED BY <1>1, <1>2, <1>3, <2>1, <2>2 DEF EndedRefused
<1>8. RequestsFresh' /\ UsesPast'
  <2>1. UsesPast
    BY DEF IInv
  <2> QED BY <1>1, <1>2, <1>4, <1>5, <2>1 DEF RequestsFresh, UsesPast
<1> QED BY <1>5, <1>6, <1>7, <1>8 DEF IInv

LEMMA AskKeeps ==
    ASSUME IInv, NEW r \in Requests, NEW w \in Workers, NEW kind \in Kinds,
           NEW token \in Tokens \cup {"none"}, Ask(r, w, kind, token)
    PROVE  IInv'
<1> DEFINE n == [pc |-> "check", worker |-> w, kind |-> kind, token |-> token, now |-> clock,
                 admitted |-> FALSE, gone |-> Opened \ Signed]
<1>1. TypeOK /\ RequestsFresh /\ EndedRefused /\ request \in [Requests -> Local] /\ clock \in Times
      /\ Opened \subseteq Tokens
  BY DEF IInv, TypeOK
<1>2. UNCHANGED <<clock, stored, version, sessions, opened, used>>
      /\ Opened' = Opened /\ Signed' = Signed
  BY DEF Ask, Opened, Signed
<1>3. n \in Local
  BY <1>1 DEF Local, PCs
<1>4. request' = [request EXCEPT ![r] = n]
  BY DEF Ask
<1>5. n.now = clock /\ n.gone = Opened \ Signed /\ n.pc = "check"
  OBVIOUS
<1> HIDE DEF n
<1>6. request' \in [Requests -> Local] /\ request'[r] = n
      /\ \A s \in Requests \ {r} : request'[s] = request[s]
  BY <1>1, <1>3, <1>4
<1>7. TypeOK'
  BY <1>1, <1>2, <1>6 DEF TypeOK
<1>8. RequestsFresh'
  BY <1>1, <1>2, <1>5, <1>6, TimesAssumption DEF RequestsFresh
<1>9. EndedRefused'
  BY <1>1, <1>2, <1>5, <1>6 DEF EndedRefused
<1>10. IsFiniteSet(Signed) /\ RowsTrue /\ SessionsCurrent /\ UsesPast /\ UseRecorded
  BY DEF IInv
<1>11. IsFiniteSet(Signed') /\ RowsTrue' /\ SessionsCurrent' /\ UsesPast' /\ UseRecorded'
  BY <1>2, <1>10 DEF RowsTrue, SessionsCurrent, UsesPast, UseRecorded
<1> QED BY <1>7, <1>8, <1>9, <1>11 DEF IInv
(* What the statements of a request ask of its row is what EndedRefused    *)
(* promises of it.                                                         *)
LEMMA ValidIsGood ==
    ASSUME IInv, NEW r \in Requests, request[r] # Free, Valid(r)
    PROVE  /\ request[r].token \in Signed /\ request[r].token \in Opened \ request[r].gone
           /\ opened[request[r].token].created + Absolute > request[r].now
           /\ opened[request[r].token].version = version[request[r].worker]
<1>1. request[r].token \in Signed /\ Signed \subseteq Opened /\ RowsTrue /\ RequestsFresh
  BY DEF IInv, TypeOK, Valid
<1> QED BY <1>1 DEF RowsTrue, RequestsFresh, Valid

(* A request that is let through with a valid session, or is not: what is  *)
(* said of requests, and of the history of uses.                           *)
LEMMA PassKeeps ==
    ASSUME IInv, NEW r \in Requests, request[r] # Free, Pass(r, Valid(r)), Use(r, Valid(r)),
           UNCHANGED <<clock, stored, version, opened>>, Signed' = Signed
    PROVE  /\ request' \in [Requests -> Local] /\ RequestsFresh' /\ EndedRefused' /\ UsesPast'
           /\ DOMAIN used' = Opened /\ \A t \in Opened : used'[t] \in Times
           /\ \A t \in Opened :
                 \/ used'[t] = used[t]
                 \/ Valid(r) /\ t = request[r].token /\ used'[t] = request[r].now
<1>1. TypeOK /\ RequestsFresh /\ EndedRefused /\ UsesPast
  BY DEF IInv
<1>2. Valid(r) \in BOOLEAN
  BY DEF Valid
<1>3. Opened' = Opened
  BY DEF Opened
<1>4. /\ request' \in [Requests -> Local]
      /\ \A s \in Requests \ {r} : request'[s] = request[s]
      /\ request'[r] # Free =>
            /\ request'[r].admitted = Valid(r) /\ request'[r].now = request[r].now
            /\ request'[r].token = request[r].token
            /\ request'[r].worker = request[r].worker
            /\ request'[r].gone = request[r].gone
  BY <1>1, <1>2, PassEffect
<1>5. RequestsFresh'
  BY <1>1, <1>3, <1>4 DEF RequestsFresh
<1>6. EndedRefused'
  <2> SUFFICES ASSUME NEW s \in Requests, request'[s].pc = "handler", request'[s].admitted
               PROVE  /\ request'[s].token \in Opened \ request'[s].gone
                      /\ opened[request'[s].token].created + Absolute > request'[s].now
                      /\ opened[request'[s].token].version = version[request'[s].worker]
    BY <1>3 DEF EndedRefused
  <2>1. CASE s # r
    BY <2>1, <1>1, <1>4 DEF EndedRefused
  <2>2. CASE s = r
    <3>1. request'[r] # Free
      BY <2>2, FreePC
    <3>2. Valid(r)
      BY <2>2, <3>1, <1>4
    <3> QED BY <2>2, <3>1, <3>2, <1>4, ValidIsGood
  <2> QED BY <2>1, <2>2
<1>7. request[r].now \in Times /\ request[r].now <= clock
  BY <1>1, BusyRequest DEF RequestsFresh
<1>8. DOMAIN used = Opened /\ \A t \in Opened : used[t] \in Times
  BY <1>1 DEF TypeOK
<1>9. /\ DOMAIN used' = Opened
      /\ \A t \in Opened :
            \/ used'[t] = used[t]
            \/ Valid(r) /\ t = request[r].token /\ used'[t] = request[r].now
  <2>1. CASE Valid(r) /\ request[r].now > used[request[r].token]
    BY <2>1, <1>8 DEF Use
  <2>2. CASE ~(Valid(r) /\ request[r].now > used[request[r].token])
    BY <2>2, <1>8 DEF Use
  <2> QED BY <2>1, <2>2
<1>10. (\A t \in Opened : used'[t] \in Times) /\ UsesPast'
  BY <1>1, <1>3, <1>7, <1>8, <1>9 DEF UsesPast
<1> QED BY <1>4, <1>5, <1>6, <1>9, <1>10

LEMMA CheckKeeps == ASSUME IInv, NEW r \in Requests, Check(r) PROVE IInv'
<1>1. TypeOK /\ IsFiniteSet(Signed) /\ RowsTrue /\ SessionsCurrent /\ UseRecorded /\ UsesPast
  BY DEF IInv
<1>2. request[r] # Free
  BY FreePC DEF Check
<1>3. UNCHANGED <<clock, stored, version, sessions, opened>> /\ Opened' = Opened /\ Signed' = Signed
  BY DEF Check, Opened, Signed
<1>4. RowsTrue' /\ SessionsCurrent' /\ IsFiniteSet(Signed')
  BY <1>1, <1>3 DEF RowsTrue, SessionsCurrent
<1>5. CASE Valid(r) /\ Stale(r)
  <2>1. request' = [request EXCEPT ![r].pc = "touch"] /\ used' = used
    BY <1>5 DEF Check
  <2>2. request[r] \in [pc : PCs \ {"free"}, worker : Workers, kind : Kinds,
                        token : Tokens \cup {"none"}, now : Times, admitted : BOOLEAN,
                        gone : SUBSET Tokens]
    BY <1>1, <1>2, BusyRequest
  <2> DEFINE n == [request[r] EXCEPT !.pc = "touch"]
  <2>3. n \in Local /\ n.pc = "touch" /\ n.now = request[r].now /\ n.gone = request[r].gone
    BY <2>2 DEF Local, PCs
  <2>4. request' = [request EXCEPT ![r] = n] /\ request \in [Requests -> Local]
    BY <2>1, <1>1 DEF TypeOK
  <2> HIDE DEF n
  <2>5. request' \in [Requests -> Local] /\ request'[r] = n
        /\ \A s \in Requests \ {r} : request'[s] = request[s]
    BY <2>3, <2>4
  <2>6. RequestsFresh' /\ EndedRefused'
    BY <2>3, <2>5, <1>2, <1>3, RequestsStay
  <2>7. TypeOK' /\ UsesPast' /\ UseRecorded'
    BY <1>1, <1>3, <2>1, <2>5 DEF TypeOK, UsesPast, UseRecorded
  <2> QED BY <1>4, <2>6, <2>7 DEF IInv
<1>6. CASE ~(Valid(r) /\ Stale(r))
  <2>1. Pass(r, Valid(r)) /\ Use(r, Valid(r))
    BY <1>6 DEF Check
  <2>2. /\ request' \in [Requests -> Local] /\ RequestsFresh' /\ EndedRefused' /\ UsesPast'
        /\ DOMAIN used' = Opened /\ \A t \in Opened : used'[t] \in Times
        /\ \A t \in Opened :
              \/ used'[t] = used[t]
              \/ Valid(r) /\ t = request[r].token /\ used'[t] = request[r].now
    BY <1>2, <1>3, <2>1, PassKeeps
  <2>3. TypeOK'
    BY <1>1, <1>3, <2>2 DEF TypeOK
  <2>4. UseRecorded'
    <3> SUFFICES ASSUME NEW t \in Signed
                 PROVE  \/ sessions[t].seen > used'[t] - Touch
                        \/ sessions[t].seen >= used'[t] - Lag
      BY <1>3 DEF UseRecorded
    <3>1. t \in Opened
      BY <1>1 DEF TypeOK
    <3>2. CASE used'[t] = used[t]
      BY <3>2, <1>1 DEF UseRecorded
    <3>3. CASE Valid(r) /\ t = request[r].token /\ used'[t] = request[r].now
      <4>1. ~(sessions[t].seen <= request[r].now - Touch)
        BY <3>3, <1>6 DEF Stale
      <4>2. sessions[t].seen \in Nat /\ request[r].now \in Nat
        BY <1>1, <1>2, BusyRequest, TimesAssumption DEF TypeOK, Session
      <4> QED BY <3>3, <4>1, <4>2, TimesAssumption
    <3> QED BY <2>2, <3>1, <3>2, <3>3
  <2> QED BY <1>4, <2>2, <2>3, <2>4 DEF IInv
<1> QED BY <1>5, <1>6

LEMMA TouchKeeps == ASSUME IInv, NEW r \in Requests, TouchSession(r) PROVE IInv'
<1>1. TypeOK /\ IsFiniteSet(Signed) /\ RowsTrue /\ SessionsCurrent /\ UseRecorded /\ UsesPast
      /\ RequestsFresh
  BY DEF IInv
<1>2. request[r] # Free
  BY FreePC DEF TouchSession
<1>3. UNCHANGED <<clock, stored, version, opened>> /\ Opened' = Opened
  BY DEF TouchSession, Opened
<1>4. request[r].now \in Times /\ request[r].now \in Nat /\ clock <= request[r].now + Lag
  BY <1>1, <1>2, BusyRequest DEF RequestsFresh
<1>5. /\ Signed' = Signed
      /\ \A t \in Signed :
            \/ sessions'[t] = sessions[t] /\ ~(Valid(r) /\ t = request[r].token)
            \/ /\ Valid(r) /\ t = request[r].token
               /\ sessions'[t] = [sessions[t] EXCEPT !.seen = request[r].now]
  BY DEF TouchSession, Signed
<1>6. \A t \in Signed :
          /\ sessions'[t] \in Session
          /\ sessions'[t].created = sessions[t].created
          /\ sessions'[t].version = sessions[t].version
          /\ \/ sessions'[t].seen = sessions[t].seen /\ ~(Valid(r) /\ t = request[r].token)
             \/ Valid(r) /\ t = request[r].token /\ sessions'[t].seen = request[r].now
  <2> TAKE t \in Signed
  <2>1. sessions[t] \in Session
    BY <1>1 DEF TypeOK
  <2> QED BY <1>4, <1>5, <2>1 DEF Session
<1>7. Pass(r, Valid(r)) /\ Use(r, Valid(r))
  BY DEF TouchSession
<1>8. /\ request' \in [Requests -> Local] /\ RequestsFresh' /\ EndedRefused' /\ UsesPast'
      /\ DOMAIN used' = Opened /\ \A t \in Opened : used'[t] \in Times
      /\ \A t \in Opened :
            \/ used'[t] = used[t]
            \/ Valid(r) /\ t = request[r].token /\ used'[t] = request[r].now
  BY <1>2, <1>3, <1>5, <1>7, PassKeeps
<1>9. TypeOK'
  BY <1>1, <1>3, <1>5, <1>6, <1>8 DEF TypeOK
<1>10. RowsTrue' /\ SessionsCurrent' /\ IsFiniteSet(Signed')
  BY <1>1, <1>3, <1>5, <1>6 DEF RowsTrue, SessionsCurrent
<1>11. UseRecorded'
  <2> SUFFICES ASSUME NEW t \in Signed
               PROVE  \/ sessions'[t].seen > used'[t] - Touch
                      \/ sessions'[t].seen >= used'[t] - Lag
    BY <1>5 DEF UseRecorded
  <2>1. t \in Opened /\ used'[t] \in Nat /\ clock \in Nat
    BY <1>1, <1>8, TimesAssumption DEF TypeOK
  <2>2. used'[t] <= clock
    BY <1>3, <1>8, <2>1 DEF UsesPast
  <2>3. CASE sessions'[t].seen = sessions[t].seen /\ ~(Valid(r) /\ t = request[r].token)
    <3>1. used'[t] = used[t]
      BY <2>1, <2>3, <1>8
    <3> QED BY <2>3, <3>1, <1>1 DEF UseRecorded
  <2>4. CASE sessions'[t].seen = request[r].now
    BY <2>1, <2>2, <2>4, <1>4, TimesAssumption
  <2> QED BY <1>6, <2>3, <2>4
<1> QED BY <1>8, <1>9, <1>10, <1>11 DEF IInv
(* A handler, or a request that fails, only removes sessions, and ends or  *)
(* goes on to open one.                                                    *)
LEMMA EndingKeeps ==
    ASSUME IInv, UNCHANGED <<clock, stored, version, opened, used>>,
           Signed' \subseteq Signed, \A t \in Signed' : sessions'[t] = sessions[t],
           request' \in [Requests -> Local], RequestsFresh', EndedRefused'
    PROVE  IInv'
<1>1. TypeOK /\ UsesPast
  BY DEF IInv
<1>2. Opened' = Opened
  BY DEF Opened
<1>3. /\ IsFiniteSet(Signed') /\ Cardinality(Signed') <= MaxSessions
      /\ Signed' \subseteq Opened' /\ \A t \in Signed' : sessions'[t] \in Session
      /\ RowsTrue' /\ SessionsCurrent' /\ UseRecorded'
  BY FewerSessions
<1>4. TypeOK'
  BY <1>1, <1>2, <1>3 DEF TypeOK
<1>5. UsesPast'
  BY <1>1, <1>2 DEF UsesPast
<1> QED BY <1>3, <1>4, <1>5 DEF IInv

LEMMA HandleKeeps == ASSUME IInv, NEW r \in Requests, Handle(r) PROVE IInv'
<1>1. Signed' \subseteq Signed /\ \A t \in Signed' : sessions'[t] = sessions[t]
  <2>1. request[r] # Free
    BY FreePC DEF Handle
  <2>2. request[r].kind \in {"page", "logout", "revoke"}
    <3>1. request[r].kind \in Kinds
      BY <2>1, BusyRequest DEF IInv
    <3> QED BY <3>1 DEF Handle, Kinds
  <2>3. \/ sessions' = sessions
        \/ sessions' = Keep(Tokens \ {request[r].token})
        \/ sessions' = Keep({})
    BY <2>2 DEF Handle
  <2> QED BY <2>3, KeepEffect DEF Signed
<1>2. request \in [Requests -> Local] /\ Free \in Local
  BY DEF IInv, TypeOK, Local
<1>3. request' \in [Requests -> Local]
      /\ \A s \in Requests : request'[s] \in {request[s], Free}
  BY <1>2 DEF Handle
<1>4. UNCHANGED <<clock, stored, version, opened, used>>
  BY DEF Handle
<1>5. RequestsFresh' /\ EndedRefused'
  BY <1>1, <1>3, <1>4, RequestsStay
<1> QED BY <1>1, <1>3, <1>4, <1>5, EndingKeeps

LEMMA FailKeeps == ASSUME IInv, NEW r \in Requests, Fail(r) PROVE IInv'
<1>1. request \in [Requests -> Local] /\ Free \in Local
  BY DEF IInv, TypeOK, Local
<1>2. request' \in [Requests -> Local]
      /\ \A s \in Requests : request'[s] \in {request[s], Free}
  BY <1>1 DEF Fail
<1>3. UNCHANGED <<clock, stored, version, opened, used>>
      /\ Signed' = Signed /\ sessions' = sessions
  BY DEF Fail, Signed
<1>4. RequestsFresh' /\ EndedRefused'
  BY <1>2, <1>3, RequestsStay
<1> QED BY <1>2, <1>3, <1>4, EndingKeeps

LEMMA LogInKeeps == ASSUME IInv, NEW r \in Requests, LogIn(r) PROVE IInv'
<1> DEFINE n == [request[r] EXCEPT !.pc = "create", !.now = clock]
<1>1. request[r] # Free /\ request \in [Requests -> Local] /\ clock \in Times
  BY FreePC DEF LogIn, IInv, TypeOK
<1>2. request[r] \in [pc : PCs \ {"free"}, worker : Workers, kind : Kinds,
                      token : Tokens \cup {"none"}, now : Times, admitted : BOOLEAN,
                      gone : SUBSET Tokens]
  BY <1>1, BusyRequest DEF IInv
<1>3. n \in Local /\ n.pc = "create" /\ n.now = clock /\ n.gone = request[r].gone
  BY <1>1, <1>2 DEF Local, PCs
<1>4. request' = [request EXCEPT ![r] = n]
  BY DEF LogIn
<1> HIDE DEF n
<1>5. request' \in [Requests -> Local] /\ request'[r] = n
      /\ \A s \in Requests \ {r} : request'[s] = request[s]
  BY <1>1, <1>3, <1>4
<1>6. UNCHANGED <<clock, stored, version, opened, used>>
      /\ Signed' \subseteq Signed /\ \A t \in Signed' : sessions'[t] = sessions[t]
  BY KeepEffect DEF LogIn
<1>7. RequestsFresh' /\ EndedRefused'
  BY <1>1, <1>3, <1>5, <1>6, RequestsStay
<1> QED BY <1>5, <1>6, <1>7, EndingKeeps

LEMMA CreateKeeps ==
    ASSUME IInv, NEW r \in Requests, NEW t \in Tokens, NEW now \in Times, Create(r, t, now)
    PROVE  IInv'
<1> DEFINE live == {x \in Signed : sessions[x].created + Absolute > now
                                   /\ sessions[x].seen > now - Idle}
           new == [created |-> now, seen |-> now, version |-> version[request[r].worker]]
<1>1. TypeOK /\ IsFiniteSet(Signed) /\ RowsTrue /\ SessionsCurrent /\ UsesPast /\ UseRecorded
      /\ RequestsFresh /\ EndedRefused
  BY DEF IInv
<1>2. request[r] # Free /\ version[request[r].worker] = stored /\ stored \in Versions
      /\ t \notin Opened /\ now <= clock /\ Signed \subseteq Opened /\ DOMAIN used = Opened
  BY <1>1, FreePC DEF Create, TypeOK
<1>3. new \in Session /\ new.created = now /\ new.seen = now /\ new.version = stored
  BY <1>2 DEF Session
<1>4. PICK kept : /\ Newest(kept, live)
                  /\ sessions' = [x \in kept \cup {t} |-> IF x = t THEN new ELSE sessions[x]]
  BY DEF Create
<1>5. /\ opened' = [x \in Opened \cup {t} |-> IF x = t THEN new ELSE opened[x]]
      /\ used' = [x \in Opened \cup {t} |-> IF x = t THEN now ELSE used[x]]
      /\ request' = [request EXCEPT ![r] = Free]
      /\ UNCHANGED <<clock, stored, version>>
  BY DEF Create
<1>6. live \in SUBSET Signed
  OBVIOUS
<1> HIDE DEF live, new
<1>7. /\ kept \subseteq Signed /\ IsFiniteSet(kept)
      /\ Cardinality(kept) \in Nat /\ Cardinality(kept) <= MaxSessions - 1
  BY <1>1, <1>4, <1>6, NewestEffect
<1>8. t \notin Signed /\ t \notin kept
  BY <1>2, <1>7
<1>9. Opened' = Opened \cup {t} /\ Signed' = kept \cup {t} /\ DOMAIN used' = Opened \cup {t}
  BY <1>4, <1>5 DEF Opened, Signed
<1>10. IsFiniteSet(Signed') /\ Cardinality(Signed') <= MaxSessions
  <2>1. IsFiniteSet(kept \cup {t}) /\ Cardinality(kept \cup {t}) = Cardinality(kept) + 1
    BY <1>7, <1>8, FS_AddElement
  <2>2. Cardinality(kept) + 1 <= MaxSessions
    BY <1>7, TimesAssumption
  <2> QED BY <1>9, <2>1, <2>2
<1>11. /\ sessions'[t] = new /\ opened'[t] = new /\ used'[t] = now
       /\ \A x \in kept : sessions'[x] = sessions[x] /\ x # t /\ x \in Signed /\ x \in Opened
       /\ \A x \in Opened : opened'[x] = opened[x] /\ used'[x] = used[x]
  BY <1>2, <1>4, <1>5, <1>7, <1>8
<1>12. request' \in [Requests -> Local]
       /\ \A s \in Requests : request'[s] \in {request[s], Free}
  <2>1. request \in [Requests -> Local] /\ Free \in Local
    BY <1>1 DEF TypeOK, Local
  <2> QED BY <1>5, <2>1
<1>13. TypeOK'
  <2>1. \A x \in Signed' : sessions'[x] \in Session
    BY <1>1, <1>3, <1>9, <1>11 DEF TypeOK
  <2>2. \A x \in Opened' : opened'[x] \in Session /\ used'[x] \in Times
    BY <1>1, <1>3, <1>9, <1>11 DEF TypeOK
  <2>3. Signed' \subseteq Opened' /\ Opened' \subseteq Tokens
    BY <1>1, <1>9, <1>11 DEF TypeOK
  <2>4. clock' \in Times /\ stored' \in Versions /\ version' \in [Workers -> Versions]
    BY <1>1, <1>5 DEF TypeOK
  <2> QED BY <1>9, <1>10, <1>12, <2>1, <2>2, <2>3, <2>4 DEF TypeOK
<1>14. RowsTrue' /\ SessionsCurrent'
  BY <1>1, <1>3, <1>5, <1>9, <1>11 DEF RowsTrue, SessionsCurrent
<1>15. UsesPast'
  BY <1>1, <1>2, <1>5, <1>9, <1>11 DEF UsesPast
<1>16. UseRecorded'
  <2>1. now >= now - Lag
    BY TimesAssumption
  <2> QED BY <1>1, <1>3, <1>9, <1>11, <2>1 DEF UseRecorded
<1>17. RequestsFresh'
  <2> SUFFICES ASSUME NEW s \in Requests, request'[s] # Free
               PROVE  /\ request'[s].now <= clock /\ clock <= request'[s].now + Lag
                      /\ request'[s].gone \subseteq Opened' \ Signed'
    BY <1>5 DEF RequestsFresh
  <2>1. request'[s] = request[s]
    BY <1>12
  <2> QED BY <1>1, <1>2, <1>7, <1>9, <2>1 DEF RequestsFresh
<1>18. EndedRefused'
  <2> SUFFICES ASSUME NEW s \in Requests, request'[s].pc = "handler", request'[s].admitted
               PROVE  /\ request'[s].token \in Opened' \ request'[s].gone
                      /\ opened'[request'[s].token].created + Absolute > request'[s].now
                      /\ opened'[request'[s].token].version = version[request'[s].worker]
    BY <1>5 DEF EndedRefused
  <2>1. request'[s] = request[s]
    BY <1>12, FreePC
  <2> QED BY <1>1, <1>9, <1>11, <2>1 DEF EndedRefused
<1> QED BY <1>10, <1>13, <1>14, <1>15, <1>16, <1>17, <1>18 DEF IInv

-----------------------------------------------------------------------------
LEMMA SessionsStep == IInv /\ [Next]_vars => IInv'
<1> SUFFICES ASSUME IInv, [Next]_vars PROVE IInv'
  OBVIOUS
<1>1. CASE Tick
  BY <1>1, TickKeeps
<1>2. CASE \E w \in Workers, v \in Versions : Restart(w, v)
  BY <1>2, RestartKeeps
<1>3. CASE \E r \in Requests, w \in Workers, kind \in Kinds, token \in Tokens \cup {"none"} :
              Ask(r, w, kind, token)
  BY <1>3, AskKeeps
<1>4. CASE \E r \in Requests : Check(r)
  BY <1>4, CheckKeeps
<1>5. CASE \E r \in Requests : TouchSession(r)
  BY <1>5, TouchKeeps
<1>6. CASE \E r \in Requests : Handle(r)
  BY <1>6, HandleKeeps
<1>7. CASE \E r \in Requests : LogIn(r)
  BY <1>7, LogInKeeps
<1>8. CASE \E r \in Requests : Fail(r)
  BY <1>8, FailKeeps
<1>9. CASE \E r \in Requests, t \in Tokens, now \in Times : Create(r, t, now)
  BY <1>9, CreateKeeps
<1>10. CASE UNCHANGED vars
  BY <1>10 DEF vars, IInv, TypeOK, RowsTrue, RequestsFresh, UsesPast, SessionsCurrent,
               EndedRefused, UseRecorded, Signed, Opened
<1> QED BY <1>1, <1>2, <1>3, <1>4, <1>5, <1>6, <1>7, <1>8, <1>9, <1>10 DEF Next

(* The rows of the table are as they were opened and of the credentials in *)
(* force, requests are recent, and what is recorded of uses is true.       *)
THEOREM SessionsInvariant == Spec => []IInv
BY SessionsInit, SessionsStep, PTL DEF Spec

(* The variables have their types, and the table its limit.                *)
THEOREM SessionsTypes == Spec => []TypeOK
<1>1. IInv => TypeOK
  BY DEF IInv
<1> QED BY <1>1, SessionsInvariant, PTL

(* No session outlives a change of the credentials, and no server that     *)
(* missed it opens one.                                                    *)
THEOREM SessionsAreCurrent == Spec => []SessionsCurrent
<1>1. IInv => SessionsCurrent
  BY DEF IInv
<1> QED BY <1>1, SessionsInvariant, PTL

(* Whoever is let through has a session that was not ended before the      *)
(* request, is within its absolute time, and was opened under the          *)
(* credentials of the server.                                              *)
THEOREM EndedAreRefused == Spec => []EndedRefused
<1>1. IInv => EndedRefused
  BY DEF IInv
<1> QED BY <1>1, SessionsInvariant, PTL

(* A session in use is not taken for idle because two of its requests      *)
(* wrote the time of their arrival in the wrong order.                     *)
THEOREM UsesAreRecorded == Spec => []UseRecorded
<1>1. IInv => UseRecorded
  BY DEF IInv
<1> QED BY <1>1, SessionsInvariant, PTL
=============================================================================
