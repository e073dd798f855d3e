----------------------------- MODULE CsvExport -----------------------------
(***************************************************************************)
(* The export of the order history (shop/csv_export.py, and admin_orders_  *)
(* csv in shop/app.py).  A producer thread reads the orders in batches     *)
(* from a connection of its own and puts each, encoded, into a queue of    *)
(* two; the body of the response is an asynchronous generator that takes   *)
(* them out again.  Nothing but the flag _stop ends a producer that nobody *)
(* takes from.                                                             *)
(***************************************************************************)
EXTENDS Integers, Sequences

CONSTANTS
    MaxBatches,     \* bound: batches of orders that there may be
    QueueSize       \* maxsize of _items, 2 in the code

ASSUME SizesAssumption == MaxBatches \in Nat /\ QueueSize \in Nat \ {0}

(* Chunk 0 is the header, chunk k the k-th batch of orders.                *)
Chunks == 0..MaxBatches

Item == [kind : {"chunk"}, n : Chunks] \cup [kind : {"end", "failure"}, n : {0}]

Chunk(n) == [kind |-> "chunk", n |-> n]

End == [kind |-> "end", n |-> 0]

Failure == [kind |-> "failure", n |-> 0]

VARIABLES
    batches,    \* the batches that the cursor has, a snapshot
    fetched,    \* chunks that the producer has encoded, the header included
    producer,   \* where the producer thread is
    item,       \* what it is about to put
    database,   \* its connection and cursor: "open" or "closed"
    items,      \* _items
    stop,       \* _stop
    consumer,   \* where the handler, and then the body of its response, is
    sent,       \* the chunks that the body has yielded
    outcome,    \* what the client can tell of the end of the response
    client      \* "there" or "gone"

exportVars == <<batches, fetched, producer, item, database, items, stop, consumer, sent,
          outcome, client>>

reading == <<batches, fetched, producer, item, database>>
answering == <<consumer, sent, outcome, client>>

(* Before connecting; in the loop over the batches; asking for _stop and   *)
(* waiting for room, in _put; closing the connection; ended.               *)
ProducerPCs == {"connect", "fetch", "check", "put", "close", "done"}

(* In start(); with the response in the framework's hands, its body not    *)
(* begun; waiting in the body for an item; at a yield; in aclose(); ended; *)
(* dropped by the framework before the body began.                         *)
ConsumerPCs == {"start", "answer", "get", "yield", "closing", "ended", "dropped"}

ExportInit ==
    /\ batches \in 0..MaxBatches
    /\ fetched = 0
    /\ producer = "connect"
    /\ item = End
    /\ database = "closed"
    /\ items = << >>
    /\ stop = FALSE
    /\ consumer = "start"
    /\ sent = << >>
    /\ outcome = "none"
    /\ client = "there"

-----------------------------------------------------------------------------
(* _produce                                                                *)

(* The connection is opened, the query run, and the header is next.        *)
Connect ==
    /\ producer = "connect"
    /\ database' = "open"
    /\ item' = Chunk(0)
    /\ fetched' = 1
    /\ producer' = "check"
    /\ UNCHANGED <<batches, items, stop>> /\ UNCHANGED answering

(* The next batch, or the end.                                             *)
Fetch ==
    /\ producer = "fetch"
    /\ IF stop
       THEN /\ producer' = "close"
            /\ UNCHANGED <<item, fetched>>
       ELSE /\ producer' = "check"
            /\ item' = IF fetched > batches THEN End ELSE Chunk(fetched)
            /\ fetched' = IF fetched > batches THEN fetched ELSE fetched + 1
    /\ UNCHANGED <<batches, database, items, stop>> /\ UNCHANGED answering

(* Mutant of ReadFails: the exception ends the thread and nobody is told.  *)
ReadFailsSilent ==
    /\ producer \in {"connect", "fetch"}
    /\ database' = "closed"
    /\ producer' = "done"
    /\ UNCHANGED <<batches, fetched, item, items, stop>> /\ UNCHANGED answering

(* The database is busy, or anything else: the connection is closed on the *)
(* way to the handler of the exception, which reports it.                  *)
ReadFails ==
    /\ producer \in {"connect", "fetch"}
    /\ database' = "closed"
    /\ item' = Failure
    /\ producer' = "check"
    /\ UNCHANGED <<batches, fetched, items, stop>> /\ UNCHANGED answering

(* Mutant of Check: _put does not ask for _stop.                           *)
CheckNothing ==
    /\ producer = "check"
    /\ producer' = "put"
    /\ UNCHANGED <<batches, fetched, item, database, items, stop>> /\ UNCHANGED answering

(* _put asks for _stop before each attempt, and gives up when it is set.   *)
Check ==
    /\ producer = "check"
    /\ producer' = IF stop THEN "close" ELSE "put"
    /\ UNCHANGED <<batches, fetched, item, database, items, stop>> /\ UNCHANGED answering

(* Mutant of Put: when the queue is full, its oldest item gives way.       *)
PutOver ==
    /\ producer = "put"
    /\ items' = Append(IF Len(items) = QueueSize THEN Tail(items) ELSE items, item)
    /\ producer' = IF item.kind = "chunk" THEN "fetch" ELSE "close"
    /\ UNCHANGED <<batches, fetched, item, database, stop>> /\ UNCHANGED answering

(* There is room in the queue: the thread goes on, or ends after its last  *)
(* item.                                                                   *)
Put ==
    /\ producer = "put"
    /\ Len(items) < QueueSize
    /\ items' = Append(items, item)
    /\ producer' = IF item.kind = "chunk" THEN "fetch" ELSE "close"
    /\ UNCHANGED <<batches, fetched, item, database, stop>> /\ UNCHANGED answering

(* queue.Full, after a tenth of a second.                                  *)
PutTimeout ==
    /\ producer = "put"
    /\ Len(items) = QueueSize
    /\ producer' = "check"
    /\ UNCHANGED <<batches, fetched, item, database, items, stop>> /\ UNCHANGED answering

(* Cursor and connection are closed on this thread, and it ends.           *)
Close ==
    /\ producer = "close"
    /\ database' = "closed"
    /\ producer' = "done"
    /\ UNCHANGED <<batches, fetched, item, items, stop>> /\ UNCHANGED answering

Produce == Connect \/ Fetch \/ Check \/ Put \/ PutTimeout \/ Close

-----------------------------------------------------------------------------
(* start, body and aclose                                                  *)

(* The first item: the response can begin, or the error is the answer.  A  *)
(* cancelled call gets it, too, and stops the producer.                    *)
First ==
    /\ consumer = "start"
    /\ items # << >>
    /\ items' = Tail(items)
    /\ \/ Head(items).kind = "chunk" /\ consumer' = "answer" /\ UNCHANGED <<stop, outcome>>
       \/ /\ Head(items).kind # "chunk" \/ client = "gone"
          /\ consumer' = "closing"
          /\ stop' = TRUE
          /\ outcome' = "error"
    /\ UNCHANGED <<sent, client>> /\ UNCHANGED reading

(* The framework begins the body, which yields the first chunk.            *)
Begin ==
    /\ consumer = "answer"
    /\ consumer' = "yield"
    /\ sent' = <<0>>
    /\ UNCHANGED <<items, stop, outcome, client>> /\ UNCHANGED reading

(* The client has gone before that: the framework drops the response, and  *)
(* a generator that was never begun runs no `finally'.                     *)
Drop ==
    /\ consumer = "answer"
    /\ client = "gone"
    /\ consumer' = "dropped"
    /\ UNCHANGED <<items, stop, sent, outcome, client>> /\ UNCHANGED reading

(* The chunk was sent, and the body goes on.                               *)
Resume ==
    /\ consumer = "yield"
    /\ consumer' = "get"
    /\ UNCHANGED <<items, stop, sent, outcome, client>> /\ UNCHANGED reading

(* Mutant of Get: a failure ends the response as the end does.             *)
GetQuietly ==
    /\ consumer = "get"
    /\ items # << >>
    /\ items' = Tail(items)
    /\ IF Head(items).kind = "chunk"
       THEN /\ consumer' = "yield"
            /\ sent' = Append(sent, Head(items).n)
            /\ UNCHANGED <<stop, outcome>>
       ELSE /\ consumer' = "closing"
            /\ stop' = TRUE
            /\ outcome' = "whole"
            /\ UNCHANGED sent
    /\ UNCHANGED client /\ UNCHANGED reading

(* The next item is yielded, or ends the response: regularly, or by the    *)
(* exception that the producer met.                                        *)
Get ==
    /\ consumer = "get"
    /\ items # << >>
    /\ items' = Tail(items)
    /\ IF Head(items).kind = "chunk"
       THEN /\ consumer' = "yield"
            /\ sent' = Append(sent, Head(items).n)
            /\ UNCHANGED <<stop, outcome>>
       ELSE /\ consumer' = "closing"
            /\ stop' = TRUE
            /\ outcome' = IF Head(items).kind = "end" THEN "whole" ELSE "error"
            /\ UNCHANGED sent
    /\ UNCHANGED client /\ UNCHANGED reading

(* The client has gone: the body is cancelled where it is, or when the     *)
(* item it waits for has come, and its `finally' stops the producer.       *)
Cancel ==
    /\ client = "gone"
    /\ \/ consumer = "yield" /\ UNCHANGED items
       \/ consumer = "get" /\ items # << >> /\ items' = Tail(items)
    /\ consumer' = "closing"
    /\ stop' = TRUE
    /\ outcome' = "error"
    /\ UNCHANGED <<sent, client>> /\ UNCHANGED reading

(* join returns when the thread has ended, or after five seconds.          *)
Join ==
    /\ consumer = "closing"
    /\ consumer' = "ended"
    /\ UNCHANGED <<items, stop, sent, outcome, client>> /\ UNCHANGED reading

Leave ==
    /\ client = "there"
    /\ client' = "gone"
    /\ UNCHANGED <<items, stop, consumer, sent, outcome>> /\ UNCHANGED reading

Consume == First \/ Begin \/ Drop \/ Resume \/ Get \/ Cancel \/ Join

ExportNext == Produce \/ ReadFails \/ Consume \/ Leave

ExportSpec == ExportInit /\ [][ExportNext]_exportVars

(* Both threads go on.  A body that can be cancelled may also go on, but   *)
(* not for ever, for it meets the end; a client need not leave.            *)
ExportFairSpec == ExportSpec /\ WF_exportVars(Produce \/ ReadFails) /\ WF_exportVars(Consume)

-----------------------------------------------------------------------------
(* The variables have their types.                                         *)
ExportTypeOK ==
    /\ batches \in 0..MaxBatches
    /\ fetched \in 0..(MaxBatches + 1)
    /\ producer \in ProducerPCs
    /\ item \in Item
    /\ database \in {"open", "closed"}
    /\ items \in Seq(Item) /\ Len(items) <= QueueSize
    /\ stop \in BOOLEAN
    /\ consumer \in ConsumerPCs
    /\ sent \in Seq(Chunks)
    /\ outcome \in {"none", "whole", "error"}
    /\ client \in {"there", "gone"}

(* The chunks in the queue: all of its items, but for an end or a failure  *)
(* that is the last.                                                       *)
Queued ==
    LET count == IF items # << >> /\ items[Len(items)].kind # "chunk"
                 THEN Len(items) - 1 ELSE Len(items)
    IN  [i \in 1..count |-> items[i].n]

(* The chunk that is taken out but not sent; the one not yet put in.       *)
Taken == IF consumer = "answer" THEN <<0>> ELSE << >>

Held == IF producer \in {"check", "put"} /\ item.kind = "chunk"
        THEN <<item.n>> ELSE << >>

(* Nothing is lost, doubled or reordered between the threads: what was     *)
(* sent and what is on the way is everything read so far, in order, until  *)
(* the export is stopped.                                                  *)
NothingLost ==
    ~stop /\ consumer # "dropped" =>
        sent \o Taken \o Queued \o Held = [i \in 1..fetched |-> i - 1]

(* A response that ends regularly is the whole history: an error on the    *)
(* way never looks like the end of the file.                               *)
WholeOrBroken ==
    outcome = "whole" => sent = [i \in 1..(batches + 1) |-> i - 1]

(* Whoever waits for an item gets one: the producer never ends silently.   *)
GetReturns == consumer \in {"start", "get"} ~> consumer \notin {"start", "get"}

(* An export that is stopped closes its cursor and connection, even when   *)
(* its producer waits for room in a queue that nobody empties.             *)
StopCloses == stop ~> (producer = "done" /\ database = "closed")
=============================================================================
