------------------------------ MODULE Envelope ------------------------------
(***************************************************************************)
(* One request inside SecurityEnvelope (shop/security.py), the outermost   *)
(* layer of the application: it counts and times what the application      *)
(* receives of the body, and rewrites what the application sends once a    *)
(* limit was exceeded.  The peer and the application inside are external:  *)
(* the peer sends a body in pieces, stalls or disconnects; the application *)
(* receives, answers, and may go on receiving while it streams an answer,  *)
(* to learn of a disconnect.                                               *)
(***************************************************************************)
EXTENDS Integers, Sequences

CONSTANTS
    BodyLimit,          \* the budget of the path, in pieces of the body
    MaxPiece,       \* bound: the size of one message of the body
    MaxBodies       \* bound: the messages of one answer

ASSUME BoundsAssumption ==
    BodyLimit \in Nat /\ MaxPiece \in Nat \ {0} /\ MaxBodies \in Nat \ {0}

VARIABLES
    length,     \* Content-Length: "none", "invalid", "over" the limit or "fits"
    total,      \* bytes received so far
    exceeded,
    timedOut,
    started,
    complete,   \* body_complete
    late,       \* whether the deadline of the request has passed
    app,        \* where the application, and the envelope around it, is
    messages,       \* the messages that the peer gets
    early       \* history: why receiving failed before an answer had begun

envelopeVars == <<length, total, exceeded, timedOut, started, complete, late, app, messages, early>>

(* Before the application; running; streaming its answer; with an error    *)
(* that receiving met; sending an answer to that; raising it; ended.       *)
PCs == {"arrive", "run", "stream", "errored", "apology", "raise", "done"}

Start(status) == [kind |-> "start", status |-> status, more |-> TRUE]

Body(text, more) == [kind |-> "body", status |-> text, more |-> more]

EnvelopeInit ==
    /\ length \in {"none", "invalid", "over", "fits"}
    /\ total = 0
    /\ exceeded = FALSE
    /\ timedOut = FALSE
    /\ started = FALSE
    /\ complete = FALSE
    /\ late = FALSE
    /\ app = "arrive"
    /\ messages = << >>
    /\ early = "none"

-----------------------------------------------------------------------------
(* Mutant of SentStart: the application's own status goes out.             *)
SentStartAsIs(status) == Start(status)

(* secure_send, for the beginning of an answer and for a part of its body. *)
SentStart(status) ==
    Start(IF exceeded THEN "413" ELSE IF timedOut THEN "408" ELSE status)

SentBody(more) ==
    IF exceeded THEN Body("Request body too large", FALSE)
    ELSE IF timedOut THEN Body("Request timeout", FALSE)
    ELSE Body("own", more)

(* An answer of the envelope itself, which goes through secure_send, too.  *)
Answer(status) == <<SentStart(status), SentBody(FALSE)>>

Same == UNCHANGED <<length, total, exceeded, timedOut, started, complete, late, early>>

(* Content-Length is checked before the application runs.                  *)
Arrive ==
    /\ app = "arrive"
    /\ \/ length \in {"none", "fits"} /\ app' = "run" /\ UNCHANGED <<messages, started>>
       \/ /\ length \in {"invalid", "over"}
          /\ messages' = Answer(IF length = "over" THEN "413" ELSE "400")
          /\ started' = TRUE
          /\ app' = "done"
    /\ UNCHANGED <<length, total, exceeded, timedOut, complete, late, early>>

(* The deadline of the request passes; once only, whatever is received.    *)
DeadlinePasses ==
    /\ ~late
    /\ late' = TRUE
    /\ UNCHANGED <<length, total, exceeded, timedOut, started, complete, app, messages, early>>

-----------------------------------------------------------------------------
(* bounded_receive.  It is called by an application that reads the body,   *)
(* until it is complete, and by one that streams its answer and waits for  *)
(* a disconnect.                                                           *)
Receiving == app = "stream" \/ (app = "run" /\ ~complete)

Raise(why) ==
    /\ app' = IF app = "run" THEN "errored" ELSE "raise"
    /\ early' = IF started THEN early ELSE why
    /\ UNCHANGED <<length, started, late, messages>>

(* Mutant of ReceiveTimeout: only the first message is timed.              *)
ReceiveTimeoutFirst ==
    /\ Receiving
    /\ total = 0
    /\ timedOut' = TRUE
    /\ Raise("time")
    /\ UNCHANGED <<total, exceeded, complete>>

(* Nothing comes in time: within the idle time, or before the deadline.    *)
ReceiveTimeout ==
    /\ Receiving
    /\ timedOut' = TRUE
    /\ Raise("time")
    /\ UNCHANGED <<total, exceeded, complete>>

(* A disconnect is an error while the body is incomplete; after that it is *)
(* what a streaming application waits for, and it stops.                   *)
ReceiveDisconnect ==
    /\ Receiving
    /\ ~late
    /\ IF complete
       THEN /\ app' = "done"
            /\ UNCHANGED <<length, started, late, messages, early, timedOut>>
       ELSE timedOut' = TRUE /\ Raise("time")
    /\ UNCHANGED <<total, exceeded, complete>>

(* A piece of the body comes in time.  (That a body is beyond its limit is *)
(* all that is kept of how far.)                                           *)
ReceivePiece(n, more) ==
    /\ Receiving
    /\ ~late
    /\ ~complete
    /\ total' = IF total + n > BodyLimit THEN BodyLimit + 1 ELSE total + n
    /\ IF total + n > BodyLimit
       THEN exceeded' = TRUE /\ Raise("limit") /\ UNCHANGED complete
       ELSE /\ complete' = ~more
            /\ UNCHANGED <<length, started, late, messages, early, exceeded, app>>
    /\ UNCHANGED timedOut

-----------------------------------------------------------------------------
(* The application begins its answer, to the request or to the error.      *)
AppStart ==
    /\ app \in {"run", "errored"}
    /\ messages' = Append(messages, SentStart(IF app = "run" THEN "200" ELSE "500"))
    /\ started' = TRUE
    /\ app' = IF app = "run" THEN "stream" ELSE "apology"
    /\ UNCHANGED <<length, total, exceeded, timedOut, complete, late, early>>

(* It sends a part of the body of its answer, and raises the error again   *)
(* or not when it has answered that.                                       *)
AppBody(more) ==
    /\ \/ app = "stream" /\ app' = IF more THEN "stream" ELSE "done"
       \/ app = "apology" /\ ~more /\ app' \in {"raise", "done"}
    /\ more => Len(messages) < MaxBodies
    /\ messages' = Append(messages, SentBody(more))
    /\ Same

(* It lets the error through.                                              *)
AppRaise ==
    /\ app = "errored"
    /\ app' = "raise"
    /\ UNCHANGED messages
    /\ Same

(* Mutant of Outermost: an answer is sent whatever was sent before.        *)
OutermostAlways ==
    /\ app = "raise"
    /\ messages' = messages \o Answer(IF exceeded THEN "413" ELSE "408")
    /\ started' = TRUE
    /\ app' = "done"
    /\ UNCHANGED <<length, total, exceeded, timedOut, complete, late, early>>

(* The envelope answers what the application did not.                      *)
Outermost ==
    /\ app = "raise"
    /\ messages' = IF started THEN messages ELSE Answer(IF exceeded THEN "413" ELSE "408")
    /\ started' = TRUE
    /\ app' = "done"
    /\ UNCHANGED <<length, total, exceeded, timedOut, complete, late, early>>

Receive ==
    \/ ReceiveTimeout \/ ReceiveDisconnect
    \/ \E n \in 0..MaxPiece, more \in BOOLEAN : ReceivePiece(n, more)

Respond == AppStart \/ (\E more \in BOOLEAN : AppBody(more)) \/ AppRaise

EnvelopeNext == Arrive \/ DeadlinePasses \/ Receive \/ Respond \/ Outermost

EnvelopeSpec == EnvelopeInit /\ [][EnvelopeNext]_envelopeVars

(* Time passes, after the deadline a call to receive raises, and an        *)
(* application that has its request, or an error, answers.  Nothing is     *)
(* expected of the peer.                                                   *)
EnvelopeFairSpec ==
    /\ EnvelopeSpec
    /\ WF_envelopeVars(Arrive) /\ WF_envelopeVars(DeadlinePasses) /\ WF_envelopeVars(Outermost)
    /\ WF_envelopeVars(late /\ Receive)
    /\ WF_envelopeVars((app # "run" \/ complete) /\ Respond)

-----------------------------------------------------------------------------
Statuses == {"200", "400", "408", "413", "500"}

Texts == {"own", "Request body too large", "Request timeout"}

Message == [kind : {"start", "body"}, status : Statuses \cup Texts, more : BOOLEAN]

(* The variables have their types.                                         *)
EnvelopeTypeOK ==
    /\ length \in {"none", "invalid", "over", "fits"}
    /\ total \in 0..(BodyLimit + 1)
    /\ {exceeded, timedOut, started, complete, late} \subseteq BOOLEAN
    /\ app \in PCs
    /\ messages \in Seq(Message)
    /\ early \in {"none", "limit", "time"}

(* The peer gets one answer: its beginning first and once, and nothing     *)
(* after its last part, whoever of application and envelope sends it.      *)
OneAnswer ==
    \A i \in DOMAIN messages :
        /\ (messages[i].kind = "start") = (i = 1)
        /\ i < Len(messages) => messages[i].more

(* What went wrong with the body before the answer is what the answer says,*)
(* even when the application took it for another error and answered that.  *)
RightStatus ==
    messages # << >> =>
        /\ early = "limit" => messages[1].status = "413"
        /\ early = "time" => messages[1].status = "408"
        /\ early = "none" => messages[1].status \in {"200", "400", "413"}

(* A peer that stalls, or sends its body a byte at a time, does not hold   *)
(* a request for ever.                                                     *)
NoHold == app = "run" ~> app # "run"
=============================================================================
