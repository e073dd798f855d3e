------------------------------- MODULE Guest -------------------------------
(***************************************************************************)
(* The cookie of a guest (shop/app.py).  The session of a browser is a     *)
(* signed cookie with the token of its forms and the scope of its orders.  *)
(* A request carries the cookie of the moment it is sent, and its answer   *)
(* puts back the whole cookie as the server made it of that one, so        *)
(* answers that come late undo each other's changes.  An order is          *)
(* identified by the scope in the cookie and the key in the page           *)
(* (Checkout): one page must not get two orders because the cookie changed *)
(* between a form and its repetition.                                      *)
(***************************************************************************)
EXTENDS Naturals, FiniteSets

CONSTANTS
    Pages,      \* pages of the checkout, each with a key of its own
    Flights,    \* bound: requests of one browser at a time
    Tokens,     \* what token_urlsafe returns for csrf_token
    Scopes,     \* what it returns for checkout_scope
    None,       \* neither a token nor a scope: the field is absent
    Unused      \* a token that was not made yet; a page that is not open

ASSUME ValuesAssumption ==
    /\ None \notin Tokens \cup Scopes \cup Pages
    /\ Unused \notin Tokens \cup Scopes \cup {None}

VARIABLES
    jar,        \* the cookie in the browser
    flight,     \* the requests and answers under way
    pages,      \* by page: the token in its form, None while it is loading
    minted,     \* by token: the scope of the session it was made in
    spent,      \* the scopes that were made
    orders      \* the orders: scope and key

guestVars == <<jar, flight, pages, minted, spent, orders>>
server == <<minted, spent, orders>>

Session == [csrf : Tokens \cup {None}, scope : Scopes \cup {None}]

Empty == [csrf |-> None, scope |-> None]

Idle == [kind |-> "idle"]

Request(kind, page, token) ==
    [kind |-> kind, page |-> page, token |-> token, cookie |-> jar, answer |-> jar]

GuestInit ==
    /\ jar = Empty
    /\ flight = [f \in Flights |-> Idle]
    /\ pages = [p \in Pages |-> Unused]
    /\ minted = [t \in Tokens |-> Unused]
    /\ spent = {} /\ orders = {}

-----------------------------------------------------------------------------
(* The browser.                                                            *)
Send(f, kind, page, token) ==
    /\ flight[f] = Idle
    /\ flight' = [flight EXCEPT ![f] = Request(kind, page, token)]
    /\ UNCHANGED <<jar, server>>

OpenCheckout(f, p) ==
    /\ pages[p] = Unused
    /\ pages' = [pages EXCEPT ![p] = None]
    /\ Send(f, "checkout", p, None)

(* The form of a page, for the first time or again.                        *)
Submit(f, p) ==
    /\ pages[p] \in Tokens
    /\ Send(f, "order", p, pages[p])
    /\ UNCHANGED pages

(* The page of the login, with a form; its login, logout or revocation.    *)
OpenAdmin(f) == Send(f, "admin", None, None) /\ UNCHANGED pages

SubmitAdmin(f) == Send(f, "rotate", None, jar.csrf) /\ UNCHANGED pages

(* An answer comes; one that leaves the session as it was may leave the    *)
(* cookie alone.                                                           *)
Arrive(f) ==
    /\ flight[f].kind = "answer"
    /\ \/ jar' = flight[f].answer
       \/ flight[f].answer = flight[f].cookie /\ UNCHANGED jar
    /\ pages' = IF flight[f].page # None /\ pages[flight[f].page] = None
                THEN [pages EXCEPT ![flight[f].page] = flight[f].token]
                ELSE pages
    /\ flight' = [flight EXCEPT ![f] = Idle]
    /\ UNCHANGED server

(* A request or an answer is lost.                                         *)
Lose(f) ==
    /\ flight[f] # Idle
    /\ flight' = [flight EXCEPT ![f] = Idle]
    /\ UNCHANGED <<jar, pages, server>>

(* The cookie expires after 14 days, or is cleared.                        *)
Expire ==
    /\ jar # Empty /\ jar' = Empty
    /\ UNCHANGED <<flight, pages, server>>

-----------------------------------------------------------------------------
(* The server.                                                             *)
Answer(f, session, token) ==
    flight' = [flight EXCEPT ![f] = [@ EXCEPT !.kind = "answer", !.answer = session,
                                              !.token = token]]

(* A new token, for a session with that scope.                             *)
Mint(t, scope) ==
    /\ minted[t] = Unused
    /\ minted' = [minted EXCEPT ![t] = scope]

(* _ensure_csrf.                                                           *)
Ensure(session, t) ==
    IF session.csrf = None
    THEN Mint(t, session.scope)
    ELSE t = session.csrf /\ UNCHANGED minted

(* Mutant of ServeCheckout: each page begins a scope of its own.           *)
ServeCheckoutAnew(f) ==
    /\ flight[f].kind = "checkout"
    /\ \E s \in Scopes, t \in Tokens :
          LET session == [flight[f].cookie EXCEPT !.scope = s]
          IN  /\ s \notin spent
              /\ spent' = spent \cup {s}
              /\ Ensure(session, t)
              /\ Answer(f, [session EXCEPT !.csrf = t], t)
    /\ UNCHANGED <<jar, pages, orders>>

(* The page of the checkout keeps the scope, or begins one, and its form   *)
(* has the token of the session.                                           *)
ServeCheckout(f) ==
    /\ flight[f].kind = "checkout"
    /\ \E s \in Scopes, t \in Tokens :
          LET cookie  == flight[f].cookie
              session == [cookie EXCEPT !.scope = s]
          IN  /\ IF cookie.scope = None
                 THEN s \notin spent /\ spent' = spent \cup {s}
                 ELSE s = cookie.scope /\ UNCHANGED spent
              /\ Ensure(session, t)
              /\ Answer(f, [session EXCEPT !.csrf = t], t)
    /\ UNCHANGED <<jar, pages, orders>>

(* The token of the form must be the session's; a repetition finds its     *)
(* order.  Otherwise the answer is 400.                                    *)
ServeOrder(f) ==
    /\ flight[f].kind = "order"
    /\ LET cookie == flight[f].cookie
       IN  /\ orders' = IF cookie.csrf = flight[f].token /\ cookie.scope # None
                        THEN orders \cup {<<cookie.scope, flight[f].page>>}
                        ELSE orders
           /\ Answer(f, cookie, flight[f].token)
    /\ UNCHANGED <<jar, pages, minted, spent>>

(* A page with a form that is not the checkout's: the session may get a    *)
(* token before it has a scope.                                            *)
ServeAdmin(f) ==
    /\ flight[f].kind = "admin"
    /\ \E t \in Tokens :
          /\ Ensure(flight[f].cookie, t)
          /\ Answer(f, [flight[f].cookie EXCEPT !.csrf = t], t)
    /\ UNCHANGED <<jar, pages, spent, orders>>

(* Login, logout and the revocation of sessions: a new token, the scope    *)
(* stays.  A wrong token or password changes nothing.                      *)
ServeRotation(f) ==
    /\ flight[f].kind = "rotate"
    /\ LET cookie == flight[f].cookie
       IN  \/ /\ cookie.csrf # None /\ cookie.csrf = flight[f].token
              /\ \E t \in Tokens :
                    /\ Mint(t, cookie.scope)
                    /\ Answer(f, [cookie EXCEPT !.csrf = t], t)
           \/ Answer(f, cookie, flight[f].token) /\ UNCHANGED minted
    /\ UNCHANGED <<jar, pages, spent, orders>>

GuestNext ==
    \/ \E f \in Flights :
          \/ \E p \in Pages : OpenCheckout(f, p) \/ Submit(f, p)
          \/ OpenAdmin(f) \/ SubmitAdmin(f)
          \/ Arrive(f) \/ Lose(f)
          \/ ServeCheckout(f) \/ ServeOrder(f) \/ ServeAdmin(f) \/ ServeRotation(f)
    \/ Expire

GuestSpec == GuestInit /\ [][GuestNext]_guestVars

-----------------------------------------------------------------------------
Kinds == {"checkout", "order", "admin", "rotate", "answer"}

GuestTypeOK ==
    /\ jar \in Session
    /\ flight \in [Flights -> {Idle} \cup
                      [kind : Kinds, page : Pages \cup {None},
                       token : Tokens \cup {None}, cookie : Session, answer : Session]]
    /\ pages \in [Pages -> Tokens \cup {None, Unused}]
    /\ minted \in [Tokens -> Scopes \cup {None, Unused}]
    /\ spent \subseteq Scopes
    /\ orders \subseteq Scopes \X Pages

(* One page places one order, however often and however late its form is   *)
(* repeated, whatever other pages, logins and logouts the browser has had  *)
(* meanwhile (checkout, create_order) - if the token in its form was made  *)
(* in a session that had a scope, which only the page of the login, opened *)
(* first, does otherwise.                                                  *)
PageOrdersOnce ==
    \A x, y \in orders :
        x[2] = y[2] /\ minted[pages[x[2]]] # None => x[1] = y[1]
=============================================================================
