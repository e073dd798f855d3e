# TLA+ models of the ХОКО catalog shop

These modules model the parts of the shop whose correctness depends on order,
failure and concurrency. The shop is a FastAPI application with an SQLite
database, run as one or more server processes (`README.md`,
`docker-compose.prod.yml`), a command-line importer, and a cart that lives in
the browser. TLC checks the models on small instances; TLAPS proves their main
properties for every value of the constants.

`PROJECT.json` lists components, runs, mutants, theorems, hazards and
disagreements between code and documents, and maps every definition to the
lines it models.

## Inventory

| Component | State | Operations | Hard behaviour | What makes it correct |
| --- | --- | --- | --- | --- |
| Checkout (`shop/orders.py` `normalize_checkout`, `create_checkout`; POST `/checkout`) | tables `orders`, `order_items`, `checkout_requests`, `notification_outbox`; the scope in the session cookie, the key in the page | submit, replay, refuse, commit | double clicks, retries after a lost answer, edits and imports in between, busy database | one order for each (scope, key), whole, at the prices of its commit; true answers; the write lock given back |
| Outbox (`shop/orders.py` `process_outbox_once`, `OutboxWorker`; `shop/telegram.py`) | table `notification_outbox`; leases and attempts | claim, sweep, send, acknowledge, back off | crash between sending and acknowledging, leases that run out, stale clock values, several processes | bounded repetitions, no false `sent` or early `failed`, every notice closed in the end |
| Catalog import (`shop/import_service.py`, `import_xlsx`; `/admin/import`, `scripts/import_price.py`) | tables `products`, `import_runs`; pictures, staged files and archives on disk; the import slot | stage, parse, publish pictures, upsert, hide, commit, archive, undo | failure or crash at every step, files that no transaction protects, competing importers | price lists in force whole or not at all, no picture on a page lost, no litter, a true report, a bounded archive |
| Order export (`shop/csv_export.py`; `/admin/export/orders.csv`) | a thread, a connection, a queue of two, `_stop` | produce, take, stop, join | thread and event loop, errors in the middle, clients that leave | nothing lost or reordered, an error never looks like the end, everything closed |
| Request envelope (`SecurityEnvelope` in `shop/security.py`) | counters and flags of one request | receive, send, answer | peers that stall or disconnect, applications that catch the errors or stream | one answer with the right status, in bounded time |
| Administrative sessions (`shop/security.py`; login, logout, revoke in `shop/app.py`) | tables `admin_sessions`, `security_state`; the credential version of each process | login, look up, touch, log out, revoke, restart | look-up and touch are two transactions, stale clocks, processes with old credentials | an ended session lets nobody in; sessions in use do not expire; a bounded table |
| Rate limits (`consume_rate`) | table `rate_limits` | consume | times that reach the table out of order, a full table | at most twice the limit in any window |
| Browser cart (`static/js/shop.js`, `/api/products`, `/order/{token}`) | `localStorage`, what each page shows, updates under way | load, update, set, clear, submit | several tabs, an update that awaits the network | the page shows and submits what the customer chose |
| Checkout session cookie (`_ensure_csrf`, `/checkout`, `/order`, login and logout in `shop/app.py`) | the signed cookie: token and scope | open a page, submit, repeat, rotate | every answer puts back the whole cookie as its request carried it, so late answers undo newer ones | one page places one order |
| Upload admission (`AdminGate`, `upload_slot`, `BoundedMultiPartParser` in `shop/security.py`; `import_slot`) | two file locks, temporary files | enter, spool, verify, import, close, leave | forms that fail at every stage, a script that imports too, processes that die | one upload on the disk at a time, an import reads open files, the slot comes back |
| XLSX parsing (`shop/xlsx_importer.py` `parse_workbook`) | the reader's place and counters | archive, sheet, header, row, pictures | faults and budgets in any order, headers and columns that change from sheet to sheet, pictures shown by many rows | all products of the file or a true verdict, each picture decoded and charged once |
| Forms, pages, API and media, Telegram texts, settings, schema and migrations, backup, check scripts, deployment | configuration | | mostly sequential | see "Not modelled" |

How the parts interact. A checkout, a catalog edit, an import and an outbox
thread are all writers of one SQLite database; `BEGIN IMMEDIATE` lets one of
them in at a time, and a writer that waits more than three seconds fails
(`translate_database_busy`), which becomes a 503. A checkout leaves a row in
the outbox in its own transaction; the delivery threads find it there. An
import changes the prices that a checkout reads. Importers of all processes
exclude each other by a file lock. The browser's cart meets the server three
times: `/api/products` updates it, the checkout form submits it, and the page
of the order empties it. Every request runs inside the envelope and the gate.

## Modules

| Module | Role |
| --- | --- |
| `Delivery` | abstract: what the outbox promises for each order |
| `Outbox` | the outbox; `OutboxProofs` its theorems |
| `Cart` | normalising a cart and pricing it in a catalog (operators, used by `Checkout`) |
| `Ledger` | abstract: a book with one entry for each checkout identity |
| `Checkout` | calls of `create_checkout` and writers of the catalog; `CheckoutProofs` its theorems |
| `Pricelist` | what one price list does to the table of products (operators, used by `Imports`) |
| `Storefront` | abstract: a catalog that changes by whole price lists, with its pictures |
| `Imports` | importers, slot, files and transactions; `ImportsProofs` its theorems |
| `Workbook` | reading one price list: archive, sheets, headers, rows, pictures, budgets; `WorkbookProofs` its theorems |
| `CsvExport` | producer thread, queue, body of the response, client; theorems in `RequestProofs` |
| `Envelope` | one request: peer, envelope, application; theorems in `RequestProofs` |
| `AdminSessions` | requests, server processes, the table of sessions; `AdminSessionsProofs` its theorems |
| `AdminGate` | requests at the rate limits and uploads of price lists, over all processes; theorems in `RequestProofs` |
| `Guest` | the cookie of a guest, its requests and answers under way; theorems in `BrowserProofs` |
| `BrowserCart` | tabs, `localStorage`, the shop's answers; theorems in `BrowserProofs` |
| `Sums` | lemmas about sums over finite sets, for the proofs about budgets, rates and the archive |
| `MC_*` | instances for TLC: values for the constants and symmetry |

Conventions. One action for each step that the code performs without giving
way: a transaction that starts with `BEGIN IMMEDIATE` is one action where only
its effect matters (`Outbox`, `AdminSessions`, `AdminGate`) and several,
between which everybody else may act, where what it has read could be stale
(`Checkout`, `Imports`). Actions have the names of functions, or say what the
step does. Time is a counter; a request that reads `time.time()` before it
waits for the lock keeps the value that it read. A process crash loses the
locals of its threads, and what the operating system gives back with it (file
locks, open transactions). History variables (marked in the declarations)
record what properties need and no action reads. Definitions whose comment
begins with "Mutant of" are changed versions of another definition; no
specification uses them. For each property of a passing run there is one
with which TLC finds it violated, so that every property says something about the code.

### Outbox and Delivery

`outbox` is the table, by row id; `worker[w]` holds the locals of a delivery
thread: the time it read, the job, the attempt and the lease that it drew.
`Claim` is the transaction of `process_outbox_once`: the sweep of exhausted
rows, the selection of the due row with the lowest id, and the lease. It
commits even if there is no job, which is what closes a row whose last
attempt crashed. `Send` delivers or not, and returns or raises,
independently: a timeout may hide a delivery. `AckSent` and `AckError` do
nothing unless the row still has this thread's lease. `AckBusy` is the
acknowledgement that finds the database locked. `Restart` may come anywhere.

The abstract `Delivery` knows notices, claims and messages, no threads, clocks
or leases: a notice is claimed at most `MaxAttempts` times, closed as sent only
when a message arrived, as failed only after every claim, and it is closed in
the end. `ImplementsDelivery` is a refinement with `pending` and `processing`
both mapped to `open`.

### Checkout, Cart and Ledger

`call[c]` is a thread in `create_checkout`: it begins (`Begin`, with the lock),
looks its identity up (`Replay`, `Conflict`), reads the catalog (`Refuse`,
`Insert`), and commits orders, request and outbox row together (`Commit`).
`Fail` is a transaction that ends otherwise. `CatalogBegin` and
`CatalogCommit` are an administrator's edit or an import. `Answer` is the
redirect that the browser gets, or not. The customer's fields are validated and
hashed together with the cart, so the cart stands for all of the payload.

`Ledger` is a book with at most one entry for each identity, written once, at
the prices of that moment, and told of only for the cart it was written for.

### Imports, Pricelist and Storefront

`imp[i]` is an importer: a server's batch or a run of the script. `Acquire`
takes the slot (`SlotBusy` is the refusal), removes stale staged files and
prunes the archive; `Stage` copies one file of the batch and checks the budget;
`Parse` reads the workbook and writes its pictures to temporary files; `Begin`
opens the transaction; `Publish` renames a picture into place, unless it is
there; `Upsert` writes one product; `Commit` hides what is missing and commits;
`Archive` keeps the file. `Reject` is a file that is refused, `Abort` an
exception, which takes back the pictures that no row shows, `Crash` the end of
the process. `Pricelist` has the effect of a price list on the table as
operators, and `Storefront` says independently what it should be. A brand's
products are hidden by comparing with the catalog after the upserts, so the
declarative `InForce` in `Storefront` is a check of `Missing` and `Hidden`.

### CsvExport

The producer's `_put` is `Check` (of `_stop`), `Put` and `PutTimeout`, as it
polls; `ReadFails` may come at any fetch. The consumer is `start`, then the
framework with the response in its hands, then `body`, whose `finally` is
`Cancel` and the end of `Get`. `Drop` is the framework discarding a response
whose body it has not begun to iterate; a Python generator that was never begun
runs no `finally`.

### Envelope

One request. `ReceivePiece`, `ReceiveTimeout` and `ReceiveDisconnect` are the
outcomes of `bounded_receive`; `SentStart` and `SentBody` are `secure_send`;
`Outermost` is the `except` around the application. The application is
external: it reads, answers, lets errors through or answers them, or streams
while it waits for a disconnect.

### AdminSessions

`Check` is the `SELECT` of `authenticated`, `TouchSession` its `UPDATE`;
`Handle` is what a page, logout or revocation does after the gate; `LogIn` and
`Create` are the two transactions of a login. `Restart` gives a process the
credentials that its settings now have (`sync_credentials`); the other processes
keep theirs, so that `version[w]` and `stored` differ for a while.

### AdminGate

At the limits, `Ask` reads the clock and `ConsumeRate` is the transaction of
`consume_rate`, with the value read; `Busy` is the 503. An upload asks for the
slot (`Upload`, then `Enter` or `TurnAway`), spools its parts into temporary
files, is checked, and either imports (`StartImport` takes the second lock,
which the script also takes) or is refused. Every way out goes through
`closing`, where `CloseFile` closes one file after another and `LeaveGate` gives the
slot back: the `finally` of `AdminGate`. `Die` ends a process with all its
requests; the operating system returns its locks and its temporary files.

### Guest

A request carries the cookie of the moment it is sent (`cookie`), and its answer
the whole cookie that the server made of that one (`answer`). Answers arrive in
any order or are lost; each replaces the jar. `ServeCheckout` keeps the scope or
begins one, `ServeOrder` asks that the token of the form is the session's and
books (scope, key), `ServeRotation` is login, logout and revocation. An order is
here only its identity; what `Checkout` does with it is the other half.

### Workbook

One action for each thing read: the archive, a sheet, a row, a picture. A
workbook is an input, and what a cell means (`match_header`,
`normalize_barcode`, `parse_price_cents`) is a constant, so that the model is
about the order in which the reader meets things. `rest` is the set of rows of
the sheet that are still to be read, and `anchored` the set of pictures of the row
that are still to be taken; the reader takes the least row and the leftmost
picture. Verdicts are `parsed`, `refused` (the file fails alone) and `limit` (the
batch ends). The properties compare the reader with `Goods(b)`, `Faulty(b)` and
`Oversize(b)`, which say what a file contains without reading it in steps. A
result has the rows of the file in order, each with its pictures from left to
right, the first of which is the cover, and of pictures with the same content the
first only. The optional fields are read when a row has turned out to be a
product: a text over their budget condemns a product, and is not noticed in a row
without one. The counters for rows, cells, XML and text are charged at the same
places, and the one for rows stands for them.

### BrowserCart

A page's `sync` says where its `syncCart` is: `Open` reads the cart and asks,
`AnswerSync` is the server, `Sync` writes. `shown` is what the page rendered last,
and what a checkout form submits. `asked` and `chosen` are histories of what the
customer did.

## Runs

| Run | Instance | Shows |
| --- | --- | --- |
| `outbox` | 2 fair threads, 2 rows, 2 attempts, leases and delays of 1 | no message too many, leases honoured, retries spaced; the inductive invariant (types, `sent` means delivered, `failed` that all attempts were used); refinement of `Delivery`, its liveness included: a row that keeps failing does not starve the next |
| `checkout` | 2 fair calls, 2 sessions, 1 key, a catalog of 1 product at 2 prices, five carts | one order for each identity, tables together, true answers, prices of the commit, the inductive invariant, refinement of `Ledger`; no path keeps the write lock |
| `imports_batch` | 1 fair server, batches of up to 2 files, 2 products, 2 brands, 2 pictures, archive of 2 files and 3 bytes | refinement of `Storefront`; true report; budget first; bounded archive; the slot is given back |
| `imports_shared` | 2 servers and a script | pictures kept, failures traceless, staged files live |
| `export_stream` | up to 4 batches, queue of 2 | nothing lost or reordered, whole or visibly broken, nobody waits in vain, a stopped export closes its connection |
| `envelope_request` | limit of 3, pieces of up to 2 | one answer, the right status, no request held for ever |
| `sessions` | 2 servers, 2 credentials, 2 requests, room for 1 session | only current sessions; ended and expired ones refused; the inductive invariant (types, the cap) |
| `gate` | 2 requests, each in a process, and the script; 2 clients, room for 1 row, forms of up to 2 files | at most twice the limit; one upload spools; imports have their files; the slot is given back |
| `guest` | 2 pages, 2 requests at a time, 3 tokens, 2 scopes | one page places one order |
| `workbook` | every sheet of four rows of up to nine kinds, pairs of 8 sheets, 125 placings of pictures, damaged archives; budgets of 5 rows, 2 pictures, 4 bytes | true verdicts, whole results, each picture charged once |
| `browser_tabs` | 2 tabs, 1 product, quantities to 3 | nothing is shown or submitted that was not chosen; a page that is alone shows the cart that is stored |

One run ends with a counterexample to a sentence in the repository.
`browser_removed`: `docs/TEST_REPORT.md` says that a quantity of 0 removes a
product. `syncCart` writes back a cart that it read before it awaited the network,
so a change in between, even on the same page, is undone.

The models also contain steps after which a text of the repository is not true;
no run claims what they break, and the properties are stated around them:

* `CsvExport`, `Drop`: the README says that a client's disconnect closes cursor
  and connection. If the client leaves after `start()` and before the body has
  begun, nothing sets `_stop`; with more chunks than the queue holds the thread
  polls for ever with its connection open. `StopCloses` therefore speaks of an
  export that was told to stop.
* `Envelope`, `ReceiveTimeout`: the README describes the deadlines as limits on
  receiving the body. `bounded_receive` applies them also to calls made when the
  body is complete, by which frameworks learn of a disconnect while they stream; a
  long download can so be cut off. Whether it is depends on the framework's
  version, which is external here.
* `BrowserCart`, `Open`: the privacy page says that products do not vanish when a
  page is loaded again. Loading the page of an order again empties the new cart.
* `Guest`, `ServeAdmin`: the page of the login gives a session a token before it
  has a scope. If that page comes first and two pages of the checkout are then
  loaded at once, both get that token and each a scope of its own; the cookie that
  arrives last wins, and a form sent before and repeated after that makes two
  orders. `PageOrdersOnce` is stated for tokens made in a session with a scope.
* `Workbook`: the header is the row with the most known headers among the first
  twenty, and only then is it asked for the required ones; a row that names more
  optional columns can so hide a valid header, and the sheet is left out with a
  warning. `detect_header` takes the column left of the model as the category even where
  that column has another header. Both are modelled as they are, and `Goods`
  follows them.
* `ImportResult.skipped` counts warnings by a word that no warning of the importer
  contains, so it is always 0; the report of `Imports` leaves it out.

### Bounds

Each bound is a constant marked "bound" where it is declared. Two of each actor
are enough for every pairwise race, and the slots, leases and locks are all
about pairs; `imports_shared` has three importers, so that one can act between
two steps of another while a third waits. The limits that the code has
(attempts, archive, queue, sessions, rows, quantities) are constants set to one,
two or three, so that runs reach and try to pass them. `Horizon` lets the
clock of `Outbox` go on without reason for a while, and later only towards an
instant that a row waits for; so leases and delays always run out, although the
state space is finite. `Lag` in `AdminSessions` and `AdminGate` bounds how long a
request may hold a clock value: without a bound, nothing about time would hold;
in the code the three-second wait for the database bounds it. `MaxBatches` is
larger than the queue by two: one chunk held by the producer, one with the
consumer. `Horizon` is 0 in `outbox`, so clocks there move only towards an instant
that matters; what is safe at every other time is proved. Two tokens would do for
the races in `guest`; a third lets the cookie be rotated between two pages. The
workbooks have `HeaderRows` of 3 with sheets of 4, so that headers come just inside
and just outside the area where they are sought. `sessions` lets the clock pass one
idle time and one absolute time; `UseRecorded`, which only says something when an
idle time is longer than several touch intervals, is there a part of the inductive
invariant, and proved. Symmetry is used only in runs without liveness.

Runs disable the check for deadlock where the system may rest: threads that have
served all rows or calls that the bounds allow, a request that is over, a clock
at its bound. That waiting ends is stated by liveness instead
(`ImplementsDelivery`, `LockReleased`, `SlotReleased`, `GetReturns`,
`StopCloses`, `NoHold`, `SlotGivenBack`).

### Fairness

* `Outbox`: threads keep looping (`while not stop`), sending ends (socket
  timeout of five seconds), and time passes. `Claim` is strongly fair: a claim
  waits up to three seconds for the lock and is tried again for ever.
  Acknowledgements are not strongly fair: each may find the database busy, and
  the promise must hold although all of them do. Restarts are not bounded.
* `Checkout`, `Imports`: a thread that has begun a call goes on; failing is one
  way to go on. Nothing makes a browser submit or an administrator import.
* `CsvExport`: both threads go on; a client need not leave.
* `Envelope`: time passes, a call to receive after the deadline raises, and an
  application that has its request, or an error, answers. The peer owes nothing.
* `AdminGate`: an upload that asked for the slot goes on: the deadlines of
  `Envelope` end its parsing, those of the reader its import, and neither lock is
  waited for. Failing is one way to go on; a request that never ends is not.
* `Workbook`, `Guest`, `AdminSessions`, `BrowserCart`: none; their properties are safety.

## Proofs

Each theorem is about the specification of its module, for any sets of actors and
any limits that satisfy the named assumptions (`ASSUME`) of the modules. Those say
that limits are numbers, that special values such as `"free"` are not actors, and
that inputs have their types; they are evaluated by TLC in every run. Every
invariant and every action property that a passing run checks is also proved, and
the three refinements as far as their safety goes. The inductive invariants were
checked with TLC on the instances of the runs before they were proved.

**`OutboxProofs`.** The invariant `IInv` adds to the types: the clock value of a
thread is not in the future; leases are drawn once; a row held by a thread is as
its claim left it; the instants in a row go back to its last claim; and messages
delivered plus messages about to be sent are no more than attempts counted
(`DeliveriesPaid`). The last is what makes `DeliveriesBounded` inductive, since a
message leaves long after its attempt was counted. `OneHolder`,
`SettledForever`, `RetriesSpaced` follow, and `OutboxImplementsDelivery` shows
that initial states and steps map to those of `Delivery`.

**`CheckoutProofs`.** `Current(c)` says that what a call has read inside its
transaction is still true, because it holds the lock. With it
`CommittedTogether`, `OneOrderPerIdentity`, `AnswersAgree`, `PricedAtCommit`,
`OrdersKept` and the refinement of `Ledger` are proved.

**`ImportsProofs`.** `IInv` says where slot and write lock are, that the pictures
of a file that may still commit are on disk or in temporary files of its importer
(`PicturesReady`), and that the table of an open transaction is the catalog with
the part of the price list that is done (`WrittenSoFar`). That an importer may
rely on a picture it found on disk is an argument about all importers: only the
holder of the slot publishes or takes back pictures. Proved: `PicturesKept`,
`FailuresTraceless`, `ReportTrue`, `StagesLive`, `BudgetFirst`, and
the refinement of `Storefront`. The last needs that the operators of `Pricelist`
satisfy the declarative `InForce`. `ArchiveBounded` needs two more facts, that only
a server archives (`ServersArchive`) and that what pruning leaves has room for one
file of the largest size; its sum of sizes is over the positions of a list, and the
lemmas of `Sums` say how it changes when the list does.

**`AdminSessionsProofs`.** `IInv` says that rows are as they were opened
(`RowsTrue`), that a request's clock value is recent and that no session that had
ended when it came in is back (`RequestsFresh`). `EndedRefused` follows because the
`UPDATE` asks again for everything that the `SELECT` asked for. Proved: types
and the cap, `SessionsCurrent`, `EndedRefused`, `UseRecorded`.

**`RequestProofs`, the gate.** `Kept(r)` ties the stages of an upload to the slot
and to its files: it has files only in the stages in which it holds the slot, and up
to the closing all of them are open. `OneSpool` and `ImportHasFiles` follow, for any
number of processes and files.

**`RequestProofs`, the rates.** `TwiceTheLimit` is about every stretch of time
shorter than the window by `Lag`, while the table keeps one count and one expiry
for each bucket, written by requests whose clock values are up to `Lag` old.
`RatesInv` follows the history of what passed (`Since`, a sum): what passed after
the row of a bucket must have begun is no more than its count; what passed in
the recent past is no more than that count and one limit, for the window before;
and the clock values that requests hold are recent (`Recent`). It holds for any
limit, window, lag and size of the table.

**`RequestProofs`, the envelope.** The invariant relates where the application is to
what went wrong (`Errors`) and to what was sent (`Sending`): an answer that can still
go on has no last part yet, and an error that is still to be answered is the one that
receiving met. `OneAnswer` and `RightStatus` are part of it.

**`RequestProofs`, the export.** The invariant says which chunk is at each place
between the threads: what was sent, the one that the body holds, those in the queue
and the one that the producer holds are consecutive (`InOrder`); an end or a failure is
the last item of the queue (`LastEnds`), and an end is made only after every batch
(`EndKnows`). `NothingLost` and `WholeOrBroken` follow, for any number of batches
and any size of the queue.

**`BrowserProofs`, the cookie.** The invariant follows the tokens: whichever session a
token is found in (in the browser, in a request, in an answer) has the scope that the
token was made with, if it had one, since a scope is never changed and only rotation
makes a new token. A form that is accepted is so accepted under the scope of
its token, which gives `PageOrdersOnce`, however late which cookie comes back.

**`BrowserProofs`, the cart.** `CartInv` says of three places (`localStorage`, what a
page shows, and what a page read before it asked the shop) that every quantity there
is one that the customer once set for that product. The third is what makes
`ChosenOnly` inductive: an update writes back what was read before it. The action
property `ShownStaysStored` follows step by step: a page that is alone and shows the
cart that is stored still does after each handler and each answer.

**`WorkbookProofs`.** `WorkbookInv` says what the reader has met of the file so far:
`SheetsRead`, `LinesRead` and `GoodsMet` are functions of its place, all lines read
are without a fault and within the budgets, their barcodes are the ones it has seen,
and their pictures are the ones it has decoded and charged (`Decoded`). Its
steps add one element to these sets; the sums over them follow by `Sums`. A verdict
`refused` or `limit` carries its reason (`Refusals`). At the end nothing is left to
read, so the sets are those of the whole file, which gives `VerdictTrue`,
`ParsedWhole` and `PicturesBudgeted` for any files and budgets. That two rows cannot
both be the header of a sheet is a lemma about `HeaderRow`.

**`Sums`.** A sum of the community modules is a recursive function on the subsets of
a set. The library's induction theorems cannot be used by the installed provers,
so the lemmas are proved by a minimal counterexample: strict inclusion of finite sets
is well-founded.

Only model-checked: liveness under fairness (`ImplementsDelivery` beyond its
safety part, `LockReleased`, `SlotReleased`, `GetReturns`, `StopCloses`,
`NoHold`, `SlotGivenBack`), which the prover does not reach. The conversions of
cells are constants of `Workbook` and so neither checked nor proved.

## Not modelled, and why

* Inside XLSX parsing: ZIP and XML, the shared strings, and the conversions of cells
  (`match_header`, `normalize_barcode`, `parse_price_cents`, the multiplier) are
  constants or inputs; they are pure functions with unit tests.
* The field rules of `_verified_form` are one outcome, and flash messages are left
  out: they decide what a page says.
* Cancellation of a request's task inside a process that lives on: the server is run
  without a graceful timeout, and a peer that leaves is an error of `receive`,
  which is modelled.
* Setting the status of an order: one `UPDATE`; the last writer wins.
* Pages, search, media: they change nothing. `/api/products` is in `BrowserCart`.
* `init_db` and its migrations: they run under one `BEGIN IMMEDIATE` before a process
  serves, so that other processes see them as one step.
* Settings, `setup_security.py`, `backup_data.py`, check scripts, deployment:
  sequential tools and configuration.
* Formatting of money, cells and messages, response headers, layout.

Hazards without a property are listed in `PROJECT.json` with the reason. In each of
them the model has the step, and the code does something that a property could only
describe, not rule out.

## Order of work, and what could follow

Outbox and checkout came first, because an order that is lost, doubled or charged
wrongly cannot be repaired; then imports, which change what is sold; then what
surrounds a request; then the browser and the price lists themselves.

1. A composition of `BrowserCart`, `Guest` and `Checkout`: the order that the customer
   sees against the order that is stored.
2. A composition of `Checkout` with `Outbox` through the table that they share, and of
   `AdminGate` with `Envelope` for the time that a form may take.
3. An abstract specification for `AdminSessions`: a set of live sessions, ended once and
   for ever; and one for the reader of `Imports`, of which `Workbook` is the detail.
