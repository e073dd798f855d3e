------------------------------ MODULE Imports ------------------------------
(***************************************************************************)
(* Importing price lists (run_imports in shop/import_service.py and        *)
(* import_xlsx in shop/xlsx_importer.py).  An administrator's upload is a  *)
(* batch of files, run in a worker thread of some server process; the      *)
(* script import_price.py imports one file.  All importers exclude each    *)
(* other by a file lock, the import slot.  Each file is a transaction of   *)
(* its own, while its pictures are files, which no transaction protects:   *)
(* they are written aside, renamed into place inside the transaction, and  *)
(* removed again when it fails.                                            *)
(***************************************************************************)
EXTENDS Pricelist, Integers, Sequences, FiniteSetsExt, SequencesExt

CONSTANTS
    Servers,            \* threads that import uploads
    Scripts,            \* runs of import_price.py
    Uploads,            \* the files that may be imported
    MaxFiles,           \* MAX_IMPORT_FILES, 10 in the code
    MaxUploadBytes,     \* MAX_UPLOAD_TOTAL_BYTES, 127 MiB in the code
    MaxArchiveFiles,    \* MAX_ARCHIVE_FILES, 10 in the code
    MaxArchiveBytes     \* MAX_ARCHIVE_BYTES, 256 MiB in the code

Importers == Servers \cup Scripts

Workbooks == {upload.book : upload \in Uploads}

ASSUME ImportersAssumption == Servers \cap Scripts = {} /\ "free" \notin Importers
ASSUME UploadsAssumption ==
    Uploads \subseteq [book : {b \in Books : DOMAIN b # {}}, size : Nat \ {0}]
ASSUME FilesAssumption ==
    /\ MaxFiles \in Nat \ {0} /\ MaxUploadBytes \in Nat
    /\ MaxArchiveFiles \in Nat \ {0} /\ MaxArchiveBytes \in Nat
    /\ MaxUploadBytes <= MaxArchiveBytes

VARIABLES
    catalog,    \* the table products, by barcode
    lock,       \* the importer that holds SQLite's write lock, or "free"
    slot,       \* the importer that holds .import.lock, or "free"
    media,      \* the pictures on disk, under their final names
    temps,      \* pictures in temporary files, by the importer that will move or
                \* remove them: nobody finds those that a crash leaves
    stages,     \* the staged files, by importer and place in its batch
    archives,   \* the sizes of the archived files, oldest first
    imp,        \* the local variables of each importer
    shown,      \* history: pictures that the catalog ever showed
    strays      \* history: pictures that a crash may have left behind

vars == <<catalog, lock, slot, media, temps, stages, archives, imp, shown, strays>>

Batches == UNION {[1..n -> Uploads] : n \in 1..MaxFiles}

(* Where an importer is: outside; before the slot; copying its uploads;    *)
(* before the next file; with its pictures written aside; inside its       *)
(* transaction; with the file to be archived.                              *)
PCs == {"idle", "slot", "stage", "file", "begin", "write", "archive"}

Numbers == 1..MaxFiles

Local == [pc : PCs, batch : Batches \cup {<< >>}, full : BOOLEAN,
          staged : 0..MaxFiles, next : 1..(MaxFiles + 1),
          todo : SUBSET Barcodes, table : Tables, created : SUBSET Images,
          committed : SUBSET Numbers, completed : SUBSET Numbers,
          failed : SUBSET Numbers]

EmptyTable == [b \in {} |-> 0]

Idle == [pc |-> "idle", batch |-> << >>, full |-> FALSE, staged |-> 0, next |-> 1,
         todo |-> {}, table |-> EmptyTable, created |-> {},
         committed |-> {}, completed |-> {}, failed |-> {}]

-----------------------------------------------------------------------------
Bytes(sizes) == FoldSeq(+, 0, sizes)

(* The bytes that the first k files of a batch are together.               *)
BatchBytes(batch, k) == Bytes([n \in 1..k |-> batch[n].size])

(* The file that an importer is at.                                        *)
Book(i) == imp[i].batch[imp[i].next].book

Size(i) == imp[i].batch[imp[i].next].size

(* Mutant of Fits: the room for the new archive is not reserved.           *)
FitsUnreserved(sizes, bytes, files) ==
    Bytes(sizes) <= MaxArchiveBytes /\ Len(sizes) <= MaxArchiveFiles

Fits(sizes, bytes, files) ==
    Bytes(sizes) + bytes <= MaxArchiveBytes /\ Len(sizes) + files <= MaxArchiveFiles

(* _prune_archives unlinks the oldest archives until those that are left   *)
(* leave room for the reserve; how many more are over age is the clock's   *)
(* choice.                                                                 *)
Kept(k) == SubSeq(archives, k + 1, Len(archives))

Prunable(bytes, files) ==
    {k \in 0..Len(archives) : k = Len(archives) \/ Fits(Kept(k), bytes, files)}

Temps(i) == {img \in Images : <<i, img>> \in temps}

Stages(i) == {<<i, k>> : k \in Numbers}

(* Mutant of Unused: what the failed file itself refers to is kept.        *)
UnusedInDraft(i) == imp[i].created \ Shown(imp[i].table)

(* The pictures that a failed transaction takes back: those that it put in *)
(* place itself and that the catalog, rolled back, does not refer to.      *)
Unused(i) == imp[i].created \ Shown(catalog)

(* import_xlsx has returned, and the loop over the batch goes on.          *)
Returned(i) == [imp[i] EXCEPT !.todo = {}, !.table = EmptyTable, !.created = {}]

Advanced(i) == [Returned(i) EXCEPT !.pc = "file", !.next = @ + 1]

-----------------------------------------------------------------------------
Init ==
    /\ catalog = EmptyTable
    /\ lock = "free"
    /\ slot = "free"
    /\ media = {}
    /\ temps = {}
    /\ stages = {}
    /\ archives = << >>
    /\ imp = [i \in Importers |-> Idle]
    /\ shown = {}
    /\ strays = {}

(* An upload, or a run of the script, with the files to import.  Hiding    *)
(* what is missing takes exactly one file.                                 *)
Start(i, batch, full) ==
    /\ imp[i].pc = "idle"
    /\ i \in Scripts \/ full => Len(batch) = 1
    /\ imp' = [imp EXCEPT ![i] = [Idle EXCEPT !.pc = "slot", !.batch = batch, !.full = full]]
    /\ UNCHANGED <<catalog, lock, slot, media, temps, stages, archives, shown, strays>>

(* Another importer has the slot: the answer is 429.                       *)
SlotBusy(i) ==
    /\ imp[i].pc = "slot"
    /\ slot # "free"
    /\ imp' = [imp EXCEPT ![i] = Idle]
    /\ UNCHANGED <<catalog, lock, slot, media, temps, stages, archives, shown, strays>>

(* Mutant of Acquire: the lock is not exclusive.                           *)
AcquireShared(i) ==
    /\ imp[i].pc = "slot"
    /\ slot' = i
    /\ imp' = [imp EXCEPT ![i].pc = IF i \in Servers THEN "stage" ELSE "file"]
    /\ stages' = IF i \in Servers THEN {} ELSE stages
    /\ UNCHANGED <<catalog, lock, media, temps, archives, shown, strays>>

(* The slot is taken.  A server then deletes every staged file, for there  *)
(* can be no live one, and prunes the archives.                            *)
Acquire(i) ==
    /\ imp[i].pc = "slot"
    /\ slot = "free"
    /\ slot' = i
    /\ imp' = [imp EXCEPT ![i].pc = IF i \in Servers THEN "stage" ELSE "file"]
    /\ IF i \in Servers
       THEN /\ stages' = {}
            /\ \E k \in Prunable(0, 0) : archives' = Kept(k)
       ELSE UNCHANGED <<stages, archives>>
    /\ UNCHANGED <<catalog, lock, media, temps, shown, strays>>

(* Mutant of Stage: importing starts with the first staged file.           *)
StageOne(i) ==
    LET k == imp[i].staged + 1
    IN  /\ imp[i].pc = "stage"
        /\ BatchBytes(imp[i].batch, k) <= MaxUploadBytes
        /\ stages' = stages \cup {<<i, k>>}
        /\ imp' = [imp EXCEPT ![i].staged = k, ![i].pc = "file"]
        /\ UNCHANGED <<catalog, lock, slot, media, temps, archives, shown, strays>>

(* The next upload is copied, within the budget of the batch.              *)
Stage(i) ==
    LET k == imp[i].staged + 1
    IN  /\ imp[i].pc = "stage"
        /\ BatchBytes(imp[i].batch, k) <= MaxUploadBytes
        /\ stages' = stages \cup {<<i, k>>}
        /\ imp' = [imp EXCEPT ![i].staged = k,
                              ![i].pc = IF k = Len(imp[i].batch) THEN "file" ELSE "stage"]
        /\ UNCHANGED <<catalog, lock, slot, media, temps, archives, shown, strays>>

(* The file is parsed, and its pictures that are not on disk are written   *)
(* to temporary files, all before the transaction.                         *)
Parse(i) ==
    /\ imp[i].pc = "file"
    /\ imp[i].next <= Len(imp[i].batch)
    /\ temps' = temps \cup {<<i, img>> : img \in Shown(Book(i)) \ media}
    /\ imp' = [imp EXCEPT ![i].pc = "begin"]
    /\ UNCHANGED <<catalog, lock, slot, media, stages, archives, shown, strays>>

(* BEGIN IMMEDIATE                                                         *)
Begin(i) ==
    /\ imp[i].pc = "begin"
    /\ lock = "free"
    /\ lock' = i
    /\ imp' = [imp EXCEPT ![i].pc = "write", ![i].todo = DOMAIN Book(i),
                          ![i].table = catalog]
    /\ UNCHANGED <<catalog, slot, media, temps, stages, archives, shown, strays>>

(* A temporary file is renamed into place, or removed when the picture has *)
(* appeared in the meantime.                                               *)
Publish(i, img) ==
    /\ imp[i].pc = "write"
    /\ img \in Temps(i)
    /\ temps' = temps \ {<<i, img>>}
    /\ media' = media \cup {img}
    /\ imp' = [imp EXCEPT ![i].created = IF img \in media THEN @ ELSE @ \cup {img}]
    /\ UNCHANGED <<catalog, lock, slot, stages, archives, shown, strays>>

(* When all are in place, the products are written one by one.             *)
Upsert(i, b) ==
    /\ imp[i].pc = "write"
    /\ Temps(i) = {}
    /\ b \in imp[i].todo
    /\ imp' = [imp EXCEPT ![i].todo = @ \ {b}, ![i].table = Upserted(@, Book(i), b)]
    /\ UNCHANGED <<catalog, lock, slot, media, temps, stages, archives, shown, strays>>

(* The transaction commits; a server goes on to archive the file.          *)
Commit(i) ==
    LET done  == imp[i].committed \cup {imp[i].next}
        table == IF imp[i].full THEN Hidden(imp[i].table, Book(i)) ELSE imp[i].table
    IN  /\ imp[i].pc = "write"
        /\ Temps(i) = {}
        /\ imp[i].todo = {}
        /\ catalog' = table
        /\ shown' = shown \cup Shown(table)
        /\ lock' = "free"
        /\ imp' = [imp EXCEPT ![i] =
                      IF i \in Servers
                      THEN [Returned(i) EXCEPT !.pc = "archive", !.committed = done]
                      ELSE [Advanced(i) EXCEPT !.committed = done, !.completed = done]]
        /\ UNCHANGED <<slot, media, temps, stages, archives, strays>>

(* Room is made in the archive, and the staged file is moved there.        *)
Archive(i) ==
    /\ imp[i].pc = "archive"
    /\ \E k \in Prunable(Size(i), 1) : archives' = Append(Kept(k), Size(i))
    /\ stages' = stages \ {<<i, imp[i].next>>}
    /\ imp' = [imp EXCEPT ![i] = [Advanced(i) EXCEPT !.completed = @ \cup {imp[i].next}]]
    /\ UNCHANGED <<catalog, lock, slot, media, temps, shown, strays>>

(* Mutant of ArchiveFails: the file is reported as failed.                 *)
ArchiveFailsFile(i) ==
    /\ imp[i].pc = "archive"
    /\ imp' = [imp EXCEPT ![i] = [Advanced(i) EXCEPT !.failed = @ \cup {imp[i].next}]]
    /\ UNCHANGED <<catalog, lock, slot, media, temps, stages, archives, shown, strays>>

(* OSError there, after removing some of the old archives or none, is a    *)
(* warning: the import of the file stands.                                 *)
ArchiveFails(i) ==
    /\ imp[i].pc = "archive"
    /\ \E k \in 0..Len(archives) : archives' = Kept(k)
    /\ imp' = [imp EXCEPT ![i] = [Advanced(i) EXCEPT !.completed = @ \cup {imp[i].next}]]
    /\ UNCHANGED <<catalog, lock, slot, media, temps, stages, shown, strays>>

(* ValueError: the file is malformed, or a price leaves its range.  An     *)
(* open transaction is rolled back and the batch goes on.                  *)
Reject(i) ==
    /\ i \in Servers
    /\ \/ imp[i].pc = "file" /\ imp[i].next <= Len(imp[i].batch)
       \/ imp[i].pc = "write" /\ Temps(i) = {} /\ imp[i].todo # {}
    /\ media' = media \ Unused(i)
    /\ lock' = IF lock = i THEN "free" ELSE lock
    /\ imp' = [imp EXCEPT ![i] = [Advanced(i) EXCEPT !.failed = @ \cup {imp[i].next}]]
    /\ UNCHANGED <<catalog, slot, temps, stages, archives, shown, strays>>

(* Mutant of Abort: the slot is kept.                                      *)
AbortInSlot(i) ==
    /\ imp[i].pc \in {"stage", "file", "begin", "write"}
    /\ media' = media \ Unused(i)
    /\ temps' = temps \ ({i} \X Images)
    /\ stages' = stages \ Stages(i)
    /\ lock' = IF lock = i THEN "free" ELSE lock
    /\ imp' = [imp EXCEPT ![i] = Idle]
    /\ UNCHANGED <<catalog, slot, archives, shown, strays>>

(* Any other exception ends the batch: an upload is empty or over budget,  *)
(* a limit or the deadline is exceeded, the database is busy or refuses, a *)
(* picture cannot be written.  Files that have committed stay so.          *)
Abort(i) ==
    /\ imp[i].pc \in {"stage", "file", "begin", "write"}
    /\ media' = media \ Unused(i)
    /\ temps' = temps \ ({i} \X Images)
    /\ stages' = stages \ Stages(i)
    /\ lock' = IF lock = i THEN "free" ELSE lock
    /\ slot' = "free"
    /\ imp' = [imp EXCEPT ![i] = Idle]
    /\ UNCHANGED <<catalog, archives, shown, strays>>

(* The last file is done: what remains staged is deleted, the slot given   *)
(* back, and the lists of completed and failed files are the answer.       *)
Finish(i) ==
    /\ imp[i].pc = "file"
    /\ imp[i].next > Len(imp[i].batch)
    /\ stages' = stages \ Stages(i)
    /\ slot' = "free"
    /\ imp' = [imp EXCEPT ![i] = Idle]
    /\ UNCHANGED <<catalog, lock, media, temps, archives, shown, strays>>

(* The process dies: the system frees its locks and SQLite rolls back, but *)
(* files stay where they are.                                              *)
Crash(i) ==
    /\ imp[i].pc # "idle"
    /\ temps' = temps \ ({i} \X Images)
    /\ strays' = strays \cup imp[i].created
    /\ lock' = IF lock = i THEN "free" ELSE lock
    /\ slot' = IF slot = i THEN "free" ELSE slot
    /\ imp' = [imp EXCEPT ![i] = Idle]
    /\ UNCHANGED <<catalog, media, stages, archives, shown>>

(* admin_product_update sets a product's price and availability.           *)
Edit(b, price, active) ==
    /\ lock = "free"
    /\ b \in DOMAIN catalog
    /\ catalog' = [catalog EXCEPT ![b].price = price, ![b].active = active]
    /\ UNCHANGED <<lock, slot, media, temps, stages, archives, imp, shown, strays>>

Step(i) ==
    \/ SlotBusy(i) \/ Acquire(i) \/ Stage(i) \/ Parse(i) \/ Begin(i)
    \/ \E img \in Images : Publish(i, img)
    \/ \E b \in Barcodes : Upsert(i, b)
    \/ Commit(i) \/ Archive(i) \/ ArchiveFails(i)
    \/ Reject(i) \/ Abort(i) \/ Finish(i)

Next ==
    \/ \E i \in Importers :
          \/ \E batch \in Batches, full \in BOOLEAN : Start(i, batch, full)
          \/ Step(i)
          \/ Crash(i)
    \/ \E b \in Barcodes, price \in Prices, active \in BOOLEAN : Edit(b, price, active)

Spec == Init /\ [][Next]_vars

(* An importer that has started goes on, or fails, until it has ended: the *)
(* wait for the write lock and the work on a file are limited in time.     *)
FairSpec == Spec /\ \A i \in Importers : WF_vars(Step(i))

-----------------------------------------------------------------------------
(* The variables have their types.                                         *)
TypeOK ==
    /\ catalog \in Tables
    /\ lock \in Importers \cup {"free"}
    /\ slot \in Importers \cup {"free"}
    /\ media \subseteq Images
    /\ temps \subseteq Importers \X Images
    /\ stages \subseteq Servers \X Numbers
    /\ archives \in Seq(Nat)
    /\ imp \in [Importers -> Local]
    /\ shown \subseteq Images
    /\ strays \subseteq Images

(* Every picture that the catalog shows, or ever showed, is on disk: a     *)
(* page that was rendered before an import finds its pictures after it,    *)
(* and no failed import, crash or other importer takes one away.           *)
PicturesKept ==
    /\ Shown(catalog) \subseteq shown
    /\ shown \subseteq media

(* Failed imports leave nothing: a picture on disk was once in the catalog,*)
(* or is being published, or its importer crashed; temporary files belong  *)
(* to an importer that will still move or remove them.                     *)
FailuresTraceless ==
    /\ media \subseteq shown \cup strays \cup UNION {imp[i].created : i \in Importers}
    /\ \A i \in Importers :
          /\ imp[i].created # {} => lock = i
          /\ Temps(i) # {} => imp[i].pc \in {"begin", "write"}

(* No importer deletes what another one has staged and will still read.    *)
StagesLive ==
    \A i \in Servers :
        /\ imp[i].pc = "stage" => \A k \in 1..imp[i].staged : <<i, k>> \in stages
        /\ imp[i].pc \in {"file", "begin", "write", "archive"}
             => \A k \in imp[i].next..Len(imp[i].batch) : <<i, k>> \in stages

(* The archive keeps within its limits, the new file included.             *)
ArchiveBounded ==
    Len(archives) <= MaxArchiveFiles /\ Bytes(archives) <= MaxArchiveBytes

(* The report is true: a file is called imported exactly when its          *)
(* transaction has committed, whatever became of its archive, and every    *)
(* file is called one or the other.                                        *)
ReportTrue ==
    \A i \in Importers :
        imp[i].pc = "file"
        => /\ imp[i].completed = imp[i].committed
           /\ imp[i].failed \cap imp[i].committed = {}
           /\ imp[i].failed \cup imp[i].completed = 1..(imp[i].next - 1)

(* The budget of an upload is checked before any change: a server that     *)
(* writes to the catalog has staged the whole batch within the budget.     *)
BudgetFirst ==
    \A i \in Servers :
        lock = i => /\ imp[i].staged = Len(imp[i].batch)
                    /\ BatchBytes(imp[i].batch, Len(imp[i].batch)) <= MaxUploadBytes

(* The invariant that is inductive: both locks are where the importers     *)
(* are, pictures are where they are needed, and the table of an open       *)
(* transaction is the catalog with the part of the file done so far.       *)
InSlot(i) == imp[i].pc \in {"stage", "file", "begin", "write", "archive"}

AtFile(i) == imp[i].pc \in {"begin", "write", "archive"}

LocksHeld ==
    \A i \in Importers :
        /\ InSlot(i) <=> slot = i
        /\ imp[i].pc = "write" <=> lock = i
        /\ imp[i].pc # "idle" => imp[i].batch \in Batches
        /\ imp[i].pc = "stage" => i \in Servers
        /\ imp[i].pc \in {"slot", "stage"} => imp[i].staged < Len(imp[i].batch)
        /\ AtFile(i) => imp[i].next <= Len(imp[i].batch)

PicturesReady ==
    \A i \in Importers :
        /\ imp[i].pc \in {"begin", "write"}
             => /\ Shown(Book(i)) \subseteq media \cup Temps(i)
                /\ Temps(i) \cup imp[i].created \subseteq Shown(Book(i))
        /\ imp[i].created \subseteq media
        /\ imp[i].created \cap shown = {}

WrittenSoFar ==
    \A i \in Importers :
        LET done == DOMAIN Book(i) \ imp[i].todo
        IN  imp[i].pc = "write"
            => /\ imp[i].todo \subseteq DOMAIN Book(i)
               /\ DOMAIN imp[i].table = DOMAIN catalog \cup done
               /\ \A x \in DOMAIN imp[i].table :
                     imp[i].table[x] = IF x \in done THEN Listed(Book(i)[x]) ELSE catalog[x]

IInv ==
    /\ TypeOK
    /\ LocksHeld
    /\ PicturesKept
    /\ PicturesReady
    /\ FailuresTraceless
    /\ WrittenSoFar

(* The slot is given back: every import ends, by success or failure.       *)
SlotReleased == \A i \in Importers : slot = i ~> slot # i

(* Imports implement the storefront: a price list comes into force whole   *)
(* or not at all, with its pictures.                                       *)
Promise == INSTANCE Storefront

ImplementsStorefront == Promise!Spec
=============================================================================
