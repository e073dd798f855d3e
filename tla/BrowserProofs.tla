--------------------------- MODULE BrowserProofs ---------------------------
(***************************************************************************)
(* Proofs about what a browser keeps: the cookie of a guest (Guest) and    *)
(* the cart in localStorage (BrowserCart).  The parts share no variable.   *)
(***************************************************************************)
EXTENDS Guest, BrowserCart, TLAPS


-----------------------------------------------------------------------------
(***************************************************************************)
(* Proofs about the cookie of a guest (module Guest), for any number of    *)
(* pages, requests at a time, tokens and scopes.  The invariant follows    *)
(* the tokens: whichever session a token is found in has the scope that    *)
(* the token was made with, if it had one, so a form that is accepted with *)
(* a token is accepted under the scope of that token.                      *)
(***************************************************************************)
Flying == [kind : Kinds, page : Pages \cup {None}, token : Tokens \cup {None},
           cookie : Session, answer : Session]

(* A session has a token that was made, and with it the token's scope.     *)
Good(m, x) ==
    x.csrf # None => /\ m[x.csrf] # Unused
                     /\ m[x.csrf] # None => x.scope = m[x.csrf]

(* A request or an answer, when the tokens and the pages are these.        *)
Sound(m, p, x) ==
    x # Idle =>
        /\ Good(m, x.cookie) /\ Good(m, x.answer)
        /\ x.kind = "checkout" => x.page \in Pages
        /\ x.kind \in {"admin", "rotate"} => x.page = None
        /\ x.kind = "order" => x.page \in Pages /\ x.token \in Tokens /\ p[x.page] = x.token
        /\ x.kind = "answer" /\ x.page # None => x.token \in Tokens /\ m[x.token] # Unused

Placed(m, p, o) == p[o[2]] \in Tokens /\ m[p[o[2]]] \in {None, o[1]}

GuestInv ==
    /\ GuestTypeOK
    /\ Good(minted, jar)
    /\ \A f \in Flights : Sound(minted, pages, flight[f])
    /\ \A p \in Pages : pages[p] \in Tokens => minted[pages[p]] # Unused
    /\ \A o \in orders : Placed(minted, pages, o)

(* Tokens keep the scope they were made with, and pages their tokens.      *)
Grown ==
    /\ minted' \in [Tokens -> Scopes \cup {None, Unused}]
    /\ \A t \in Tokens : minted[t] # Unused => minted'[t] = minted[t]
    /\ pages' \in [Pages -> Tokens \cup {None, Unused}]
    /\ \A p \in Pages : pages[p] \in Tokens => pages'[p] = pages[p]

LEMMA InitInv == GuestInit => GuestInv
<1> SUFFICES ASSUME GuestInit PROVE GuestInv
  OBVIOUS
<1>1. Empty \in Session /\ Empty.csrf = None
  BY DEF Empty, Session
<1>2. GuestTypeOK
  BY <1>1 DEF GuestInit, GuestTypeOK
<1>3. Good(minted, jar)
  BY <1>1 DEF GuestInit, Good
<1>4. \A f \in Flights : Sound(minted, pages, flight[f])
  BY DEF GuestInit, Sound
<1>5. \A p \in Pages : pages[p] \notin Tokens
  BY ValuesAssumption DEF GuestInit
<1> QED BY <1>2, <1>3, <1>4, <1>5 DEF GuestInv, GuestInit

LEMMA Types ==
    ASSUME GuestInv
    PROVE  /\ jar \in Session
           /\ flight \in [Flights -> {Idle} \cup Flying]
           /\ pages \in [Pages -> Tokens \cup {None, Unused}]
           /\ minted \in [Tokens -> Scopes \cup {None, Unused}]
           /\ \A x \in Session : x.csrf \in Tokens \cup {None} /\ x.scope \in Scopes \cup {None}
           /\ \A x \in Flying : x # Idle
           /\ \A x \in {Idle} \cup Flying : x.kind # "idle" => x \in Flying
BY DEF GuestInv, GuestTypeOK, Flying, Session, Idle, Kinds

LEMMA GoodStays ==
    ASSUME GuestInv, Grown, NEW x \in Session, Good(minted, x)
    PROVE  Good(minted', x)
BY Types DEF Good, Grown

LEMMA SoundStays ==
    ASSUME GuestInv, Grown, NEW x \in {Idle} \cup Flying, Sound(minted, pages, x)
    PROVE  Sound(minted', pages', x)
<1> SUFFICES ASSUME x # Idle
             PROVE  /\ Good(minted', x.cookie) /\ Good(minted', x.answer)
                    /\ x.kind = "checkout" => x.page \in Pages
                    /\ x.kind \in {"admin", "rotate"} => x.page = None
                    /\ x.kind = "order" => x.page \in Pages /\ x.token \in Tokens
                                           /\ pages'[x.page] = x.token
                    /\ x.kind = "answer" /\ x.page # None =>
                          x.token \in Tokens /\ minted'[x.token] # Unused
  BY DEF Sound
<1>1. x.cookie \in Session /\ x.answer \in Session
  BY DEF Flying
<1>2. Good(minted', x.cookie) /\ Good(minted', x.answer)
  BY <1>1, GoodStays DEF Sound
<1> QED BY <1>2 DEF Sound, Grown

LEMMA PlacedStays ==
    ASSUME GuestInv, Grown, NEW o \in orders
    PROVE  Placed(minted', pages', o)
<1>1. o[2] \in Pages /\ o \in Scopes \X Pages
  BY DEF GuestInv, GuestTypeOK
<1>2. Placed(minted, pages, o) /\ minted[pages[o[2]]] # Unused
  BY <1>1 DEF GuestInv, Placed
<1> QED BY <1>1, <1>2 DEF Placed, Grown

(* What is left to show of a step that changes one request or answer.      *)
LEMMA FlightStep ==
    ASSUME GuestInv, Grown, NEW f \in Flights, NEW y \in {Idle} \cup Flying,
           flight' = [flight EXCEPT ![f] = y],
           Sound(minted', pages', y),
           jar' \in Session, Good(minted', jar'),
           \A p \in Pages : pages'[p] \in Tokens => minted'[pages'[p]] # Unused,
           spent' \subseteq Scopes,
           orders' \subseteq Scopes \X Pages,
           \A o \in orders' : o \in orders \/ Placed(minted', pages', o)
    PROVE  GuestInv'
<1>1. GuestTypeOK'
  BY Types DEF GuestTypeOK, Grown, Flying
<1>2. \A g \in Flights : Sound(minted', pages', flight'[g])
  <2> SUFFICES ASSUME NEW g \in Flights PROVE Sound(minted', pages', flight'[g])
    OBVIOUS
  <2>1. flight'[g] = IF g = f THEN y ELSE flight[g]
    BY Types
  <2>2. Sound(minted', pages', flight[g])
    BY Types, SoundStays DEF GuestInv
  <2> QED BY <2>1, <2>2
<1>3. \A o \in orders' : Placed(minted', pages', o)
  BY PlacedStays
<1> QED BY <1>1, <1>2, <1>3 DEF GuestInv

(* A page that has a token keeps it, and the token was made.               *)
LEMMA PagesKept ==
    ASSUME GuestInv, pages' = pages, Grown
    PROVE  \A p \in Pages : pages'[p] \in Tokens => minted'[pages'[p]] # Unused
BY DEF GuestInv, Grown

(* The browser sends the cookie that it has.                               *)
LEMMA SendInv ==
    ASSUME GuestInv, NEW f \in Flights, NEW kind \in Kinds \ {"answer"},
           NEW sender \in Pages \cup {None}, NEW token \in Tokens \cup {None},
           Send(f, kind, sender, token), Grown,
           \A p \in Pages : pages'[p] \in Tokens => pages[p] = pages'[p],
           kind = "checkout" => sender \in Pages,
           kind \in {"admin", "rotate"} => sender = None,
           kind = "order" => sender \in Pages /\ token \in Tokens /\ pages[sender] = token
    PROVE  GuestInv'
<1> DEFINE y == Request(kind, sender, token)
<1>1. /\ y \in Flying /\ y.kind = kind /\ y.page = sender /\ y.token = token
      /\ y.cookie = jar /\ y.answer = jar
  BY Types DEF Request, Flying
<1>2. flight' = [flight EXCEPT ![f] = y] /\ UNCHANGED <<jar, minted, spent, orders>>
  BY DEF Send, server
<1> HIDE DEF y
<1>3. Good(minted', jar')
  BY <1>2 DEF GuestInv
<1>4. Sound(minted', pages', y)
  BY <1>1, <1>2 DEF Sound, GuestInv, Grown
<1>5. \A p \in Pages : pages'[p] \in Tokens => minted'[pages'[p]] # Unused
  BY <1>2 DEF GuestInv
<1>6. jar' \in Session /\ spent' \subseteq Scopes /\ orders' \subseteq Scopes \X Pages
  BY <1>2 DEF GuestInv, GuestTypeOK
<1> QED BY <1>1, <1>2, <1>3, <1>4, <1>5, <1>6, FlightStep

LEMMA BrowserSends ==
    ASSUME GuestInv, NEW f \in Flights,
           \/ \E p \in Pages : OpenCheckout(f, p) \/ Submit(f, p)
           \/ OpenAdmin(f) \/ SubmitAdmin(f)
    PROVE  GuestInv'
<1>1. ASSUME NEW p \in Pages, OpenCheckout(f, p) PROVE GuestInv'
  <2>1. Grown /\ \A q \in Pages : pages'[q] \in Tokens => pages[q] = pages'[q]
    BY <1>1, Types, ValuesAssumption DEF OpenCheckout, Send, server, Grown
  <2> QED BY <1>1, <2>1, SendInv DEF OpenCheckout, Kinds
<1>2. ASSUME NEW p \in Pages, Submit(f, p) PROVE GuestInv'
  <2>1. Grown /\ pages' = pages
    BY <1>2, Types DEF Submit, Send, server, Grown
  <2> QED BY <1>2, <2>1, SendInv DEF Submit, Kinds
<1>3. CASE OpenAdmin(f)
  <2>1. Grown /\ pages' = pages
    BY <1>3, Types DEF OpenAdmin, Send, server, Grown
  <2> QED BY <1>3, <2>1, SendInv DEF OpenAdmin, Kinds
<1>4. CASE SubmitAdmin(f)
  <2>1. Grown /\ pages' = pages /\ jar.csrf \in Tokens \cup {None}
    BY <1>4, Types DEF SubmitAdmin, Send, server, Grown
  <2> QED BY <1>4, <2>1, SendInv DEF SubmitAdmin, Kinds
<1> QED BY <1>1, <1>2, <1>3, <1>4

LEMMA ArriveInv == ASSUME GuestInv, NEW f \in Flights, Arrive(f) PROVE GuestInv'
<1> DEFINE x == flight[f]
<1>1. x \in Flying /\ x # Idle /\ Sound(minted, pages, x) /\ x.kind = "answer"
  BY Types DEF Arrive, GuestInv, Idle
<1>2. x.answer \in Session /\ x.page \in Pages \cup {None} /\ x.token \in Tokens \cup {None}
  BY <1>1 DEF Flying
<1>3. /\ flight' = [flight EXCEPT ![f] = Idle] /\ UNCHANGED <<minted, spent, orders>>
      /\ jar' \in {x.answer, jar}
  BY DEF Arrive, server
<1>4. jar' \in Session /\ Good(minted', jar')
  BY <1>1, <1>2, <1>3, Types DEF Sound, GuestInv
<1>5. pages' = IF x.page # None /\ pages[x.page] = None
               THEN [pages EXCEPT ![x.page] = x.token] ELSE pages
  BY DEF Arrive
<1> HIDE DEF x
<1>6. Grown
  BY <1>2, <1>3, <1>5, Types, ValuesAssumption DEF Grown
<1>7. \A p \in Pages : pages'[p] \in Tokens => minted'[pages'[p]] # Unused
  <2>1. CASE x.page # None /\ pages[x.page] = None
    <3>1. x.token \in Tokens /\ minted[x.token] # Unused
      BY <1>1, <2>1 DEF Sound
    <3> QED BY <1>3, <1>5, <2>1, <3>1, Types DEF GuestInv
  <2>2. CASE ~(x.page # None /\ pages[x.page] = None)
    BY <1>3, <1>5, <2>2 DEF GuestInv
  <2> QED BY <2>1, <2>2
<1>8. Sound(minted', pages', Idle)
  BY DEF Sound
<1>9. spent' \subseteq Scopes /\ orders' \subseteq Scopes \X Pages /\ orders' = orders
  BY <1>3 DEF GuestInv, GuestTypeOK
<1> QED BY <1>3, <1>4, <1>6, <1>7, <1>8, <1>9, FlightStep

LEMMA LoseInv == ASSUME GuestInv, NEW f \in Flights, Lose(f) PROVE GuestInv'
<1>1. /\ flight' = [flight EXCEPT ![f] = Idle]
      /\ UNCHANGED <<jar, pages, minted, spent, orders>>
  BY DEF Lose, server
<1>2. Grown /\ Sound(minted', pages', Idle)
  BY <1>1, Types DEF Grown, Sound
<1> QED BY <1>1, <1>2, FlightStep DEF GuestInv, GuestTypeOK

(* The cookie is gone, or nothing happens.                                 *)
LEMMA ExpireInv == GuestInv /\ (Expire \/ UNCHANGED guestVars) => GuestInv'
<1> SUFFICES ASSUME GuestInv, Expire \/ UNCHANGED guestVars PROVE GuestInv'
  OBVIOUS
<1>1. jar' \in {jar, Empty} /\ UNCHANGED <<flight, pages, minted, spent, orders>>
  BY DEF Expire, guestVars, server
<1>2. Empty \in Session /\ Empty.csrf = None
  BY DEF Empty, Session
<1>3. jar' \in Session /\ Good(minted, jar')
  BY <1>1, <1>2 DEF GuestInv, GuestTypeOK, Good
<1> QED BY <1>1, <1>3 DEF GuestInv, GuestTypeOK

-----------------------------------------------------------------------------
(* The server answers a request with a session of its making.              *)
LEMMA AnswerInv ==
    ASSUME GuestInv, Grown, NEW f \in Flights, flight[f].kind \in Kinds,
           NEW session \in Session, NEW token \in Tokens \cup {None},
           Answer(f, session, token), Good(minted', session),
           flight[f].page # None => token \in Tokens /\ minted'[token] # Unused,
           jar' = jar, pages' = pages, spent' \subseteq Scopes,
           orders' \subseteq Scopes \X Pages,
           \A o \in orders' : o \in orders \/ Placed(minted', pages', o)
    PROVE  GuestInv'
<1> DEFINE x == flight[f]
           y == [x EXCEPT !.kind = "answer", !.answer = session, !.token = token]
<1>1. x \in Flying /\ x # Idle /\ Sound(minted', pages', x)
  BY Types, SoundStays DEF GuestInv, Kinds, Idle
<1>2. /\ y \in Flying /\ y.kind = "answer" /\ y.page = x.page /\ y.token = token
      /\ y.cookie = x.cookie /\ y.answer = session
  BY <1>1 DEF Flying, Kinds
<1>3. flight' = [flight EXCEPT ![f] = y]
  BY DEF Answer
<1>4. flight[f].page = x.page
  OBVIOUS
<1> HIDE DEF x, y
<1>5. Sound(minted', pages', y)
  BY <1>1, <1>2, <1>4 DEF Sound
<1>6. jar' \in Session /\ Good(minted', jar')
  BY Types, GoodStays DEF GuestInv
<1> QED BY <1>2, <1>3, <1>5, <1>6, PagesKept, FlightStep

(* _ensure_csrf for a session with that scope: the token it is left with.  *)
LEMMA EnsureGood ==
    ASSUME GuestInv, pages' = pages,
           NEW cookie \in Session, NEW s \in Scopes \cup {None}, NEW t \in Tokens,
           Good(minted, cookie), cookie.scope # None => s = cookie.scope,
           Ensure([cookie EXCEPT !.scope = s], t)
    PROVE  /\ Grown /\ minted'[t] # Unused
           /\ [cookie EXCEPT !.scope = s, !.csrf = t] \in Session
           /\ Good(minted', [cookie EXCEPT !.scope = s, !.csrf = t])
<1> DEFINE x == [cookie EXCEPT !.scope = s]
           y == [cookie EXCEPT !.scope = s, !.csrf = t]
<1>1. /\ x.csrf = cookie.csrf /\ x.scope = s
      /\ y \in Session /\ y.csrf = t /\ y.scope = s
  BY DEF Session
<1>2. t # None /\ s # Unused
  BY ValuesAssumption
<1>3. CASE cookie.csrf = None
  <2>1. minted[t] = Unused /\ minted' = [minted EXCEPT ![t] = s]
    BY <1>1, <1>3 DEF Ensure, Mint
  <2>2. Grown /\ minted'[t] = s
    BY <2>1, Types DEF Grown
  <2> QED BY <1>1, <1>2, <2>2 DEF Good
<1>4. CASE cookie.csrf # None
  <2>1. t = cookie.csrf /\ minted' = minted
    BY <1>1, <1>4 DEF Ensure
  <2>2. minted[t] # Unused /\ (minted[t] # None => cookie.scope = minted[t])
    BY <1>4, <2>1 DEF Good
  <2>3. Grown
    BY <2>1, Types DEF Grown
  <2> QED BY <1>1, <2>1, <2>2, <2>3 DEF Good
<1> QED BY <1>3, <1>4

LEMMA Served ==
    ASSUME GuestInv, NEW f \in Flights, flight[f].kind \in Kinds
    PROVE  /\ flight[f] \in Flying /\ flight[f].cookie \in Session
           /\ Good(minted, flight[f].cookie) /\ Sound(minted, pages, flight[f])
           /\ flight[f] # Idle
BY Types DEF GuestInv, Kinds, Idle, Sound, Flying

LEMMA ServeCheckoutInv ==
    ASSUME GuestInv, NEW f \in Flights, ServeCheckout(f) PROVE GuestInv'
<1> DEFINE cookie == flight[f].cookie
<1>1. flight[f].kind \in Kinds /\ UNCHANGED <<jar, pages, orders>>
  BY DEF ServeCheckout, Kinds
<1>2. cookie \in Session /\ Good(minted, cookie)
  BY <1>1, Served
<1>3. PICK s \in Scopes, t \in Tokens :
        /\ IF cookie.scope = None
           THEN s \notin spent /\ spent' = spent \cup {s}
           ELSE s = cookie.scope /\ UNCHANGED spent
        /\ Ensure([cookie EXCEPT !.scope = s], t)
        /\ Answer(f, [[cookie EXCEPT !.scope = s] EXCEPT !.csrf = t], t)
  BY DEF ServeCheckout
<1> DEFINE y == [cookie EXCEPT !.scope = s, !.csrf = t]
<1>4. y = [[cookie EXCEPT !.scope = s] EXCEPT !.csrf = t]
  OBVIOUS
<1> HIDE DEF cookie
<1>5. Grown /\ minted'[t] # Unused /\ y \in Session /\ Good(minted', y)
  BY <1>1, <1>2, <1>3, EnsureGood
<1>6. Answer(f, y, t)
  BY <1>3, <1>4
<1>7. spent' \subseteq Scopes /\ orders' \subseteq Scopes \X Pages /\ orders' = orders
  BY <1>1, <1>3 DEF GuestInv, GuestTypeOK
<1> HIDE DEF y
<1> QED BY <1>1, <1>5, <1>6, <1>7, AnswerInv

LEMMA ServeOrderInv ==
    ASSUME GuestInv, NEW f \in Flights, ServeOrder(f) PROVE GuestInv'
<1> DEFINE x == flight[f]
<1>1. /\ x.kind = "order" /\ x.kind \in Kinds /\ UNCHANGED <<jar, pages, minted, spent>>
      /\ Answer(f, x.cookie, x.token)
      /\ orders' = IF x.cookie.csrf = x.token /\ x.cookie.scope # None
                   THEN orders \cup {<<x.cookie.scope, x.page>>}
                   ELSE orders
  BY DEF ServeOrder, Kinds
<1>2. /\ x.cookie \in Session /\ Good(minted, x.cookie)
      /\ x.page \in Pages /\ x.token \in Tokens /\ pages[x.page] = x.token
  BY <1>1, Served DEF Sound
<1>3. minted[x.token] # Unused /\ x.token # None
  BY <1>2, ValuesAssumption DEF GuestInv
<1>4. Grown
  BY <1>1, Types DEF Grown
<1>5. orders' \subseteq Scopes \X Pages /\ spent' \subseteq Scopes
  BY <1>1, <1>2, Types DEF GuestInv, GuestTypeOK
<1>6. ASSUME NEW o \in orders' PROVE o \in orders \/ Placed(minted', pages', o)
  <2> SUFFICES ASSUME o \notin orders PROVE Placed(minted', pages', o)
    OBVIOUS
  <2>1. x.cookie.csrf = x.token /\ o = <<x.cookie.scope, x.page>>
    BY <1>1, <1>6
  <2>2. o[1] = x.cookie.scope /\ o[2] = x.page
    BY <2>1
  <2>3. minted[x.token] # None => x.cookie.scope = minted[x.token]
    BY <1>2, <1>3, <2>1 DEF Good
  <2> QED BY <1>1, <1>2, <2>2, <2>3 DEF Placed
<1>7. Good(minted', x.cookie) /\ minted'[x.token] # Unused
  BY <1>1, <1>2, <1>3
<1> QED BY <1>1, <1>2, <1>4, <1>5, <1>6, <1>7, AnswerInv

LEMMA ServeAdminInv ==
    ASSUME GuestInv, NEW f \in Flights, ServeAdmin(f) PROVE GuestInv'
<1> DEFINE cookie == flight[f].cookie
<1>1. flight[f].kind \in Kinds /\ UNCHANGED <<jar, pages, spent, orders>>
  BY DEF ServeAdmin, Kinds
<1>2. cookie \in Session /\ Good(minted, cookie) /\ cookie.scope \in Scopes \cup {None}
  BY <1>1, Served, Types
<1>3. PICK t \in Tokens : Ensure(cookie, t) /\ Answer(f, [cookie EXCEPT !.csrf = t], t)
  BY DEF ServeAdmin
<1> HIDE DEF cookie
<1> DEFINE y == [cookie EXCEPT !.scope = cookie.scope, !.csrf = t]
<1>4. cookie = [cookie EXCEPT !.scope = cookie.scope] /\ y = [cookie EXCEPT !.csrf = t]
  BY <1>2 DEF Session
<1>5. Grown /\ minted'[t] # Unused /\ y \in Session /\ Good(minted', y)
  BY <1>1, <1>2, <1>3, <1>4, EnsureGood
<1>6. Answer(f, y, t)
  BY <1>3, <1>4
<1>7. spent' \subseteq Scopes /\ orders' \subseteq Scopes \X Pages /\ orders' = orders
  BY <1>1 DEF GuestInv, GuestTypeOK
<1> HIDE DEF y
<1> QED BY <1>1, <1>5, <1>6, <1>7, AnswerInv

LEMMA ServeRotationInv ==
    ASSUME GuestInv, NEW f \in Flights, ServeRotation(f) PROVE GuestInv'
<1> DEFINE cookie == flight[f].cookie
<1>1. flight[f].kind \in Kinds /\ UNCHANGED <<jar, pages, spent, orders>>
  BY DEF ServeRotation, Kinds
<1>2. cookie \in Session /\ Good(minted, cookie) /\ cookie.scope \in Scopes \cup {None}
  BY <1>1, Served, Types
<1>3. spent' \subseteq Scopes /\ orders' \subseteq Scopes \X Pages /\ orders' = orders
  BY <1>1 DEF GuestInv, GuestTypeOK
<1>4. ASSUME NEW t \in Tokens, Mint(t, cookie.scope), Answer(f, [cookie EXCEPT !.csrf = t], t)
      PROVE  GuestInv'
  <2> DEFINE y == [cookie EXCEPT !.csrf = t]
  <2>1. y \in Session /\ y.csrf = t /\ y.scope = cookie.scope
    BY <1>2 DEF Session
  <2>2. minted[t] = Unused /\ minted' = [minted EXCEPT ![t] = cookie.scope]
    BY <1>4 DEF Mint
  <2>3. Grown /\ minted'[t] = cookie.scope /\ cookie.scope # Unused
    BY <1>1, <1>2, <2>2, Types, ValuesAssumption DEF Grown
  <2>4. Good(minted', y)
    BY <2>1, <2>3 DEF Good
  <2>5. Answer(f, y, t)
    BY <1>4
  <2> HIDE DEF y
  <2> QED BY <1>1, <1>3, <2>1, <2>3, <2>4, <2>5, AnswerInv
<1>5. ASSUME Answer(f, cookie, flight[f].token), minted' = minted PROVE GuestInv'
  <2>1. Grown /\ Good(minted', cookie)
    BY <1>1, <1>2, <1>5, Types DEF Grown
  <2>2. flight[f].token \in Tokens \cup {None} /\ flight[f].page = None
    BY <1>1, Served DEF Flying, Sound, ServeRotation
  <2> QED BY <1>1, <1>2, <1>3, <1>5, <2>1, <2>2, AnswerInv
<1> QED BY <1>4, <1>5 DEF ServeRotation

-----------------------------------------------------------------------------
(* The invariant of the cookie, for any number of pages and requests.      *)
THEOREM GuestInvariant == GuestSpec => []GuestInv
<1>1. GuestInv /\ [GuestNext]_guestVars => GuestInv'
  BY BrowserSends, ArriveInv, LoseInv, ExpireInv, ServeCheckoutInv, ServeOrderInv,
     ServeAdminInv, ServeRotationInv DEF GuestNext
<1> QED BY InitInv, <1>1, PTL DEF GuestSpec

(* A page of the checkout whose token was made with a scope places at most *)
(* one order, whatever answers, logins and logouts come in between.        *)
THEOREM PagesOrderOnce == GuestSpec => []PageOrdersOnce
<1>1. GuestInv => PageOrdersOnce
  <2> SUFFICES ASSUME GuestInv, NEW x \in orders, NEW y \in orders, x[2] = y[2],
                      minted[pages[x[2]]] # None
               PROVE  x[1] = y[1]
    BY DEF PageOrdersOnce
  <2> QED BY DEF GuestInv, Placed
<1> QED BY GuestInvariant, <1>1, PTL

-----------------------------------------------------------------------------
(***************************************************************************)
(* Proofs about the cart in the browser (module BrowserCart), for any      *)
(* number of products and tabs and any greatest quantity.  A quantity is   *)
(* in three places: in the cart, on a page, and in what a page is about to *)
(* write back; the invariant says of each that the customer has set it.    *)
(***************************************************************************)
(* A cart of which the customer has set every quantity.                    *)
Wanted(c, all) == \A x \in DOMAIN c : <<x, c[x]>> \in all

CartTypes ==
    /\ CartTypeOK
    /\ page \in [Tabs -> Page \cup {Closed}]

CartInv ==
    /\ CartTypes
    /\ Wanted(cart, chosen)
    /\ \A p \in Tabs : IsOpen(p) => Wanted(page[p].shown, chosen) /\ Wanted(page[p].snapshot, chosen)

LEMMA OpenPage ==
    ASSUME CartTypes, NEW p \in Tabs, IsOpen(p)
    PROVE  page[p] \in Page
BY DEF CartTypes, CartTypeOK

LEMMA ClosedIsNoPage == Closed \notin Page
BY DEF Closed, Page, PageKinds

LEMMA CartsAre ==
    ASSUME NEW c
    PROVE  c \in Carts <=> \E s \in SUBSET Products : c \in [s -> Quantities]
BY DEF Carts

LEMMA EmptyCartType == EmptyCart \in Carts /\ DOMAIN EmptyCart = {}
<1>1. EmptyCart \in [{} -> Quantities] /\ {} \in SUBSET Products
  BY DEF EmptyCart
<1> QED BY <1>1, CartsAre

(* Fewer products: a cart still, with the same quantities.                 *)
LEMMA FewerProducts ==
    ASSUME NEW c \in Carts, NEW s \in SUBSET DOMAIN c
    PROVE  /\ Restrict(c, s) \in Carts /\ DOMAIN Restrict(c, s) = s
           /\ \A x \in s : Restrict(c, s)[x] = c[x]
<1>1. PICK t \in SUBSET Products : c \in [t -> Quantities]
  BY CartsAre
<1>2. s \in SUBSET Products /\ Restrict(c, s) \in [s -> Quantities]
  BY <1>1 DEF Restrict
<1> QED BY <1>2, CartsAre DEF Restrict

(* What With returns is a cart, and differs in that product only.          *)
LEMMA WithCart ==
    ASSUME cart \in Carts, NEW x \in Products, NEW q \in 0..MaxQuantity
    PROVE  /\ With(x, q) \in Carts
           /\ \A y \in DOMAIN With(x, q) :
                 \/ y \in DOMAIN cart /\ With(x, q)[y] = cart[y]
                 \/ y = x /\ With(x, q)[y] = q /\ q # 0
<1>1. CASE q = 0
  <2>1. With(x, q) = Restrict(cart, DOMAIN cart \ {x})
    BY <1>1 DEF With
  <2> QED BY <2>1, FewerProducts
<1>2. CASE q # 0
  <2>1. With(x, q) = [y \in DOMAIN cart \cup {x} |-> IF y = x THEN q ELSE cart[y]]
    BY <1>2 DEF With
  <2>2. q \in Quantities
    BY <1>2, QuantityAssumption DEF Quantities
  <2>3. PICK s \in SUBSET Products : cart \in [s -> Quantities]
    BY CartsAre
  <2>4. s \cup {x} \in SUBSET Products /\ With(x, q) \in [s \cup {x} -> Quantities]
    BY <2>1, <2>2, <2>3
  <2>5. With(x, q) \in Carts
    BY <2>4, CartsAre
  <2> QED BY <1>2, <2>1, <2>5
<1> QED BY <1>1, <1>2

LEMMA CartInitInv == CartInit => CartInv
<1> SUFFICES ASSUME CartInit PROVE CartInv
  OBVIOUS
<1>1. \A p \in Tabs : ~IsOpen(p)
  BY DEF CartInit, IsOpen
<1>2. CartTypes
  BY <1>1, EmptyCartType DEF CartInit, CartTypes, CartTypeOK
<1> QED BY <1>1, <1>2, EmptyCartType DEF CartInit, CartInv, Wanted

(* What is left to show of a step of one page, which renders the new cart  *)
(* or leaves what it showed, and has read what is wanted.                  *)
LEMMA PageStep ==
    ASSUME CartInv, NEW p \in Tabs, NEW next,
           page' = [page EXCEPT ![p] = next], next \in Page \cup {Closed},
           next # Closed => Wanted(next.shown, chosen') /\ Wanted(next.snapshot, chosen'),
           active' \subseteq Products, ordered' \in BOOLEAN, cart' \in Carts,
           asked' \in [Products -> {"nothing", "in", "out"}],
           chosen \subseteq chosen', chosen' \subseteq Products \X Quantities,
           Wanted(cart', chosen')
    PROVE  CartInv'
<1>1. page' \in [Tabs -> Page \cup {Closed}] /\ page'[p] = next
      /\ \A q \in Tabs \ {p} : page'[q] = page[q]
  BY DEF CartInv, CartTypes
<1>2. CartTypes'
  BY <1>1 DEF CartTypes, CartTypeOK, IsOpen
<1>3. \A q \in Tabs \ {p} : IsOpen(q)' => Wanted(page[q].shown, chosen') /\ Wanted(page[q].snapshot, chosen')
  BY <1>1 DEF CartInv, IsOpen, Wanted
<1> QED BY <1>1, <1>2, <1>3 DEF CartInv, IsOpen

LEMMA OpenInv ==
    ASSUME CartInv, NEW p \in Tabs, NEW kind \in PageKinds, Open(p, kind)
    PROVE  CartInv'
<1> DEFINE next == [kind |-> kind, shown |-> cart', snapshot |-> cart',
                    sync |-> IF cart' = EmptyCart THEN "idle" ELSE "asked"]
<1>1. cart' \in Carts /\ Wanted(cart', chosen')
  BY EmptyCartType DEF Open, CartInv, CartTypes, CartTypeOK, Wanted
<1>2. next \in Page
  BY <1>1 DEF Page
<1>3. /\ page' = [page EXCEPT ![p] = next] /\ UNCHANGED <<active, ordered, asked, chosen>>
      /\ next.shown = cart' /\ next.snapshot = cart'
  BY DEF Open
<1> HIDE DEF next
<1>4. Wanted(next.shown, chosen') /\ Wanted(next.snapshot, chosen')
  BY <1>1, <1>3
<1> QED BY <1>1, <1>2, <1>3, <1>4, PageStep DEF CartInv, CartTypes, CartTypeOK

LEMMA LeavePageInv ==
    ASSUME CartInv, NEW p \in Tabs, Close(p) \/ SubmitCart(p)
    PROVE  CartInv'
<1>1. /\ page' = [page EXCEPT ![p] = Closed] /\ UNCHANGED <<active, cart, chosen>>
      /\ ordered' \in BOOLEAN /\ asked' \in [Products -> {"nothing", "in", "out"}]
  BY DEF Close, SubmitCart, CartInv, CartTypes, CartTypeOK
<1> QED BY <1>1, PageStep DEF CartInv, CartTypes, CartTypeOK, Wanted

LEMMA AnswerSyncInv ==
    ASSUME CartInv, NEW p \in Tabs, AnswerSync(p)
    PROVE  CartInv'
<1> DEFINE kept == Restrict(page[p].snapshot, DOMAIN page[p].snapshot \cap active)
           next == [page[p] EXCEPT !.sync = "answered", !.snapshot = kept]
<1>1. page[p] \in Page /\ page[p].shown \in Carts /\ page[p].snapshot \in Carts
  BY OpenPage DEF AnswerSync, CartInv, Page
<1>2. kept \in Carts /\ Wanted(kept, chosen)
  BY <1>1, FewerProducts DEF AnswerSync, CartInv, Wanted
<1>3. next \in Page /\ next.shown = page[p].shown /\ next.snapshot = kept
  BY <1>1, <1>2 DEF Page
<1>4. page' = [page EXCEPT ![p] = next] /\ UNCHANGED <<active, ordered, cart, asked, chosen>>
  BY DEF AnswerSync
<1> HIDE DEF kept, next
<1>5. Wanted(next.shown, chosen) /\ Wanted(next.snapshot, chosen)
  BY <1>2, <1>3 DEF AnswerSync, CartInv
<1> QED BY <1>3, <1>4, <1>5, PageStep DEF CartInv, CartTypes, CartTypeOK, Wanted

(* What the page had read is written, or the cart is shown as it is.       *)
LEMMA SyncInv ==
    ASSUME CartInv, NEW p \in Tabs, Sync(p) \/ SyncFails(p)
    PROVE  CartInv'
<1> DEFINE next == [page[p] EXCEPT !.shown = cart', !.sync = "idle", !.snapshot = EmptyCart]
<1>1. page[p] \in Page /\ page[p].snapshot \in Carts
  BY OpenPage DEF Sync, SyncFails, CartInv, Page
<1>2. /\ page' = [page EXCEPT ![p] = next] /\ cart' \in {cart, page[p].snapshot}
      /\ UNCHANGED <<active, ordered, asked, chosen>>
  BY DEF Sync, SyncFails
<1>3. cart' \in Carts /\ Wanted(cart', chosen')
  BY <1>1, <1>2 DEF Sync, SyncFails, CartInv, CartTypes, CartTypeOK, Wanted
<1>4. next \in Page /\ next.shown = cart' /\ next.snapshot = EmptyCart
  BY <1>1, <1>3, EmptyCartType DEF Page
<1> HIDE DEF next
<1>5. Wanted(next.shown, chosen') /\ Wanted(next.snapshot, chosen')
  BY <1>2, <1>3, <1>4, EmptyCartType DEF Wanted
<1> QED BY <1>2, <1>3, <1>4, <1>5, PageStep DEF CartInv, CartTypes, CartTypeOK

(* A handler writes the cart and renders it.                               *)
LEMMA RenderedInv ==
    ASSUME CartInv, NEW p \in Tabs, IsOpen(p), Rendered(p), cart' \in Carts, Wanted(cart', chosen'),
           active' = active, ordered' = ordered,
           asked' \in [Products -> {"nothing", "in", "out"}],
           chosen \subseteq chosen', chosen' \subseteq Products \X Quantities
    PROVE  CartInv'
<1> DEFINE next == [page[p] EXCEPT !.shown = cart']
<1>1. page[p] \in Page
  BY OpenPage DEF CartInv
<1>2. next \in Page /\ next.shown = cart' /\ next.snapshot = page[p].snapshot
  BY <1>1 DEF Page
<1>3. page' = [page EXCEPT ![p] = next]
  BY DEF Rendered
<1> HIDE DEF next
<1>4. Wanted(next.shown, chosen') /\ Wanted(next.snapshot, chosen')
  BY <1>2 DEF CartInv, Wanted
<1> QED BY <1>2, <1>3, <1>4, PageStep DEF CartInv, CartTypes, CartTypeOK

LEMMA SetInv ==
    ASSUME CartInv, NEW p \in Tabs, NEW x \in Products, NEW q \in 0..MaxQuantity,
           SetProductQuantity(p, x, q) \/ SetQuantity(p, x, q)
    PROVE  CartInv'
<1>1. /\ IsOpen(p) /\ Rendered(p) /\ cart' = With(x, q) /\ UNCHANGED <<active, ordered>>
      /\ asked' = [asked EXCEPT ![x] = IF q = 0 THEN "out" ELSE "in"]
      /\ chosen' = IF q = 0 THEN chosen ELSE chosen \cup {<<x, q>>}
  BY DEF SetProductQuantity, SetQuantity, Wants
<1>2. asked' \in [Products -> {"nothing", "in", "out"}]
  BY <1>1 DEF CartInv, CartTypes, CartTypeOK
<1>3. chosen \subseteq chosen' /\ chosen' \subseteq Products \X Quantities
  BY <1>1, QuantityAssumption DEF CartInv, CartTypes, CartTypeOK, Quantities
<1>4. cart \in Carts /\ Wanted(cart, chosen)
  BY DEF CartInv, CartTypes, CartTypeOK
<1>5. cart' \in Carts /\ Wanted(cart', chosen')
  <2>1. \A y \in DOMAIN cart' :
           \/ y \in DOMAIN cart /\ cart'[y] = cart[y]
           \/ y = x /\ cart'[y] = q /\ q # 0
    BY <1>1, <1>4, WithCart
  <2>2. cart' \in Carts
    BY <1>1, <1>4, WithCart
  <2> QED BY <1>1, <1>4, <2>1, <2>2 DEF Wanted
<1> QED BY <1>1, <1>2, <1>3, <1>5, RenderedInv

LEMMA ClearInv ==
    ASSUME CartInv, NEW p \in Tabs, Clear(p)
    PROVE  CartInv'
<1>1. cart' \in Carts /\ Wanted(cart', chosen')
  BY EmptyCartType DEF Clear, Wanted
<1> QED BY <1>1, RenderedInv DEF Clear, CartInv, CartTypes, CartTypeOK

LEMMA ApartInv ==
    ASSUME CartInv, (\E x \in Products : Offer(x)) \/ UNCHANGED cartVars
    PROVE  CartInv'
<1>1. active' \subseteq Products /\ UNCHANGED <<ordered, cart, page, asked, chosen>>
  BY DEF Offer, cartVars, CartInv, CartTypes, CartTypeOK
<1> QED BY <1>1 DEF CartInv, CartTypes, CartTypeOK, Wanted, IsOpen

(* The inductive invariant of the cart in the browser: in each of the      *)
(* places where a quantity is between a handler and an answer it is one    *)
(* that the customer has set (readCart, syncCart, renderAll).              *)
THEOREM CartInvariant == CartSpec => []CartInv
<1>1. CartInv /\ [CartNext]_cartVars => CartInv'
  <2> SUFFICES ASSUME CartInv, [CartNext]_cartVars PROVE CartInv'
    OBVIOUS
  <2>1. ASSUME NEW p \in Tabs, NEW kind \in PageKinds, Open(p, kind) PROVE CartInv'
    BY <2>1, OpenInv
  <2>2. ASSUME NEW p \in Tabs, NEW x \in Products, NEW q \in 0..MaxQuantity,
               SetProductQuantity(p, x, q) \/ SetQuantity(p, x, q)
        PROVE  CartInv'
    BY <2>2, SetInv
  <2>3. ASSUME NEW p \in Tabs,
               AnswerSync(p) \/ Sync(p) \/ SyncFails(p) \/ Clear(p) \/ SubmitCart(p) \/ Close(p)
        PROVE  CartInv'
    BY <2>3, AnswerSyncInv, SyncInv, ClearInv, LeavePageInv
  <2>4. CASE (\E x \in Products : Offer(x)) \/ UNCHANGED cartVars
    BY <2>4, ApartInv
  <2> QED BY <2>1, <2>2, <2>3, <2>4 DEF CartNext
<1> QED BY <1>1, CartInitInv, PTL DEF CartSpec

(* However the pages interfere, no page shows, and so no checkout submits, *)
(* a quantity of a product that the customer has not set.                  *)
THEOREM ShownWasChosen == CartSpec => []ChosenOnly
<1>1. CartInv => ChosenOnly
  BY DEF CartInv, ChosenOnly, Wanted
<1> QED BY <1>1, CartInvariant, PTL

(* A step of another page is that page's being open.                       *)
LEMMA OthersAreOpen ==
    ASSUME CartTypes, NEW p \in Tabs, NEW q \in Tabs \ {p},
           \/ \E kind \in PageKinds : Open(q, kind)
           \/ \E x \in Products, n \in 0..MaxQuantity :
                 SetProductQuantity(q, x, n) \/ SetQuantity(q, x, n)
           \/ AnswerSync(q) \/ Sync(q) \/ SyncFails(q)
           \/ Clear(q) \/ SubmitCart(q) \/ Close(q)
    PROVE  IsOpen(q) \/ IsOpen(q)'
<1>1. ASSUME NEW kind \in PageKinds, Open(q, kind) PROVE IsOpen(q)'
  <2>1. page'[q] = [kind |-> kind, shown |-> cart', snapshot |-> cart',
                    sync |-> IF cart' = EmptyCart THEN "idle" ELSE "asked"]
    BY <1>1 DEF Open, CartTypes
  <2>2. page'[q].kind # "closed" /\ Closed.kind = "closed"
    BY <2>1 DEF PageKinds, Closed
  <2> QED BY <2>2 DEF IsOpen, Closed
<1> QED BY <1>1 DEF SetProductQuantity, SetQuantity, AnswerSync, Sync, SyncFails,
           Clear, SubmitCart, Close

(* While a page is the only one, what it shows, and its checkout submits,  *)
(* stays the cart that is stored, whatever handler or answer comes in.     *)
THEOREM AloneShowsStored == CartSpec => ShownStaysStored
<1> DEFINE Stays ==
      \A p \in Tabs :
          /\ IsOpen(p) /\ IsOpen(p)'
          /\ \A q \in Tabs \ {p} : ~IsOpen(q) /\ ~IsOpen(q)'
          /\ page[p].shown = cart
          => page'[p].shown = cart'
<1>1. CartInv /\ [CartNext]_cartVars => [Stays]_cartVars
  <2> SUFFICES ASSUME CartInv, CartNext, NEW p \in Tabs, IsOpen(p), IsOpen(p)',
                      \A q \in Tabs \ {p} : ~IsOpen(q) /\ ~IsOpen(q)',
                      page[p].shown = cart
               PROVE  page'[p].shown = cart'
    BY DEF cartVars
  <2>1. page[p] \in Page /\ page \in [Tabs -> Page \cup {Closed}]
    BY OpenPage DEF CartInv, CartTypes
  <2>2. \/ \E x \in Products : Offer(x)
        \/ \E kind \in PageKinds : Open(p, kind)
        \/ \E x \in Products, q \in 0..MaxQuantity :
              SetProductQuantity(p, x, q) \/ SetQuantity(p, x, q)
        \/ AnswerSync(p) \/ Sync(p) \/ SyncFails(p)
        \/ Clear(p) \/ SubmitCart(p) \/ Close(p)
    BY OthersAreOpen DEF CartNext, CartInv
  <2>3. CASE \E x \in Products : Offer(x)
    BY <2>3 DEF Offer
  <2>4. CASE \E kind \in PageKinds : Open(p, kind)
    BY <2>1, <2>4 DEF Open
  <2>5. CASE Rendered(p)
    BY <2>1, <2>5 DEF Rendered, Page
  <2>6. CASE AnswerSync(p)
    BY <2>1, <2>6 DEF AnswerSync, Page
  <2>7. CASE Sync(p) \/ SyncFails(p)
    BY <2>1, <2>7 DEF Sync, SyncFails, Page
  <2>8. CASE SubmitCart(p) \/ Close(p)
    BY <2>1, <2>8 DEF SubmitCart, Close, IsOpen
  <2> QED BY <2>2, <2>3, <2>4, <2>5, <2>6, <2>7, <2>8
           DEF SetProductQuantity, SetQuantity, Clear
<1> QED BY <1>1, CartInvariant, PTL DEF CartSpec, ShownStaysStored
=============================================================================
