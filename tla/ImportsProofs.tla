--------------------------- MODULE ImportsProofs ---------------------------
(***************************************************************************)
(* Theorems about Imports: the invariants, and that imports implement the  *)
(* storefront.                                                             *)
(***************************************************************************)
EXTENDS Imports, SequenceTheorems, Sums, TLAPS

(* What the invariant says of one importer.                                *)
Well(i) ==
    /\ InSlot(i) <=> slot = i
    /\ imp[i].pc = "write" <=> lock = i
    /\ imp[i].pc # "idle" => imp[i].batch \in Batches
    /\ imp[i].pc = "stage" => i \in Servers
    /\ imp[i].pc \in {"slot", "stage"} => imp[i].staged < Len(imp[i].batch)
    /\ AtFile(i) => imp[i].next <= Len(imp[i].batch)
    /\ imp[i].pc \in {"begin", "write"}
         => /\ Shown(Book(i)) \subseteq media \cup Temps(i)
            /\ Temps(i) \cup imp[i].created \subseteq Shown(Book(i))
    /\ imp[i].created \subseteq media
    /\ imp[i].created \cap shown = {}
    /\ imp[i].created # {} => lock = i
    /\ Temps(i) # {} => imp[i].pc \in {"begin", "write"}
    /\ imp[i].pc = "write"
         => /\ imp[i].todo \subseteq DOMAIN Book(i)
            /\ DOMAIN imp[i].table = DOMAIN catalog \cup (DOMAIN Book(i) \ imp[i].todo)
            /\ \A x \in DOMAIN imp[i].table :
                  imp[i].table[x] = IF x \in DOMAIN Book(i) \ imp[i].todo
                                    THEN Listed(Book(i)[x]) ELSE catalog[x]

(* What it says of all together.                                           *)
Accounted ==
    media \subseteq shown \cup strays \cup UNION {imp[i].created : i \in Importers}

AllWell == \A i \in Importers : Well(i)

LEMMA IInvSplit == IInv <=> TypeOK /\ PicturesKept /\ Accounted /\ AllWell
BY DEF IInv, LocksHeld, PicturesReady, FailuresTraceless, WrittenSoFar, Well, AllWell,
       Accounted

LEMMA IInvSplitAfter == IInv' <=> TypeOK' /\ PicturesKept' /\ Accounted' /\ AllWell'
BY IInvSplit, PTL

LEMMA IInvParts ==
    IInv <=> TypeOK /\ PicturesKept /\ Accounted /\ \A i \in Importers : Well(i)
BY IInvSplit DEF AllWell

LEMMA IInvPartsAfter ==
    IInv' <=> TypeOK' /\ PicturesKept' /\ Accounted' /\ \A i \in Importers : Well(i)'
BY IInvSplitAfter DEF AllWell

-----------------------------------------------------------------------------
(* A batch is a sequence of uploads.                                       *)
LEMMA BatchType ==
    ASSUME NEW batch \in Batches
    PROVE  /\ batch \in Seq(Uploads)
           /\ Len(batch) \in Numbers
           /\ \A n \in 1..Len(batch) :
                 batch[n].book \in Books /\ batch[n].book \in Workbooks /\ batch[n].size \in Nat
<1>1. PICK n \in 1..MaxFiles : batch \in [1..n -> Uploads]
  BY DEF Batches
<1>2. n \in Nat
  BY <1>1, FilesAssumption
<1>3. batch \in Seq(Uploads)
  BY <1>1, <1>2, SeqDef
<1>4. Len(batch) = n
  <2>1. ASSUME NEW k \in Nat, NEW l \in Nat, 1..k = 1..l PROVE ~(k < l)
    <3>1. ASSUME k < l PROVE FALSE
      <4>1. l \in 1..l /\ l \notin 1..k
        BY <3>1
      <4> QED
        BY <2>1, <4>1
    <3> QED
      BY <3>1
  <2>2. DOMAIN batch = 1..Len(batch) /\ Len(batch) \in Nat
    BY <1>3, LenProperties
  <2> DEFINE l == Len(batch)
  <2>3. l \in Nat /\ 1..l = 1..n
    BY <1>1, <2>2
  <2> HIDE DEF l
  <2>4. ~(l < n) /\ ~(n < l)
    BY <1>2, <2>1, <2>3
  <2>5. l = n
    BY <1>2, <2>3, <2>4
  <2> QED
    BY <2>5 DEF l
<1>5. ASSUME NEW k \in 1..n
      PROVE  batch[k].book \in Books /\ batch[k].book \in Workbooks /\ batch[k].size \in Nat
  BY <1>1, UploadsAssumption DEF Workbooks
<1> QED
  BY <1>1, <1>2, <1>3, <1>4, <1>5 DEF Numbers

(* What an importer that is at a file reads of it.                         *)
LEMMA BookType ==
    ASSUME NEW i \in Importers, imp[i] \in Local, imp[i].batch \in Batches,
           imp[i].next <= Len(imp[i].batch)
    PROVE  /\ Book(i) \in Books
           /\ Book(i) \in Workbooks
           /\ Size(i) \in Nat
           /\ imp[i].next \in Numbers
<1>1. imp[i].next \in 1..(MaxFiles + 1) /\ Len(imp[i].batch) \in Numbers
  BY BatchType DEF Local
<1>2. imp[i].next \in 1..Len(imp[i].batch)
  BY <1>1, FilesAssumption DEF Numbers
<1> QED
  BY <1>1, <1>2, BatchType, FilesAssumption DEF Book, Size, Numbers

(* The rows of a price list, and of a table.                               *)
LEMMA EntryType ==
    ASSUME NEW book \in Books, NEW b \in DOMAIN book
    PROVE  book[b] \in Entry /\ Listed(book[b]) \in Row /\ b \in Barcodes
<1>1. PICK B \in SUBSET Barcodes : book \in [B -> Entry]
  BY DEF Books
<1>2. book[b] \in Entry /\ b \in Barcodes
  BY <1>1
<1> QED
  BY <1>2 DEF Entry, Row, Listed

LEMMA TableType ==
    ASSUME NEW table,
           DOMAIN table \subseteq Barcodes,
           table = [b \in DOMAIN table |-> table[b]],
           \A b \in DOMAIN table : table[b] \in Row
    PROVE  table \in Tables
BY DEF Tables

LEMMA RowType ==
    ASSUME NEW table \in Tables
    PROVE  /\ DOMAIN table \subseteq Barcodes
           /\ table = [b \in DOMAIN table |-> table[b]]
           /\ \A b \in DOMAIN table : table[b] \in Row
BY DEF Tables

(* The pictures of tables and price lists.                                 *)
LEMMA ShownType ==
    /\ \A table \in Tables : Shown(table) \subseteq Images
    /\ \A book \in Books : Shown(book) \subseteq Images
<1>1. ASSUME NEW table \in Tables PROVE Shown(table) \subseteq Images
  BY RowType DEF Shown, Row
<1>2. ASSUME NEW book \in Books PROVE Shown(book) \subseteq Images
  BY EntryType DEF Shown, Entry
<1> QED
  BY <1>1, <1>2

LEMMA UpsertedType ==
    ASSUME NEW table \in Tables, NEW book \in Books, NEW b \in DOMAIN book
    PROVE  Upserted(table, book, b) \in Tables
<1> DEFINE t == Upserted(table, book, b)
<1>1. DOMAIN t = DOMAIN table \cup {b} /\ t = [x \in DOMAIN t |-> t[x]]
  BY DEF Upserted
<1>2. \A x \in DOMAIN t : t[x] \in Row
  BY RowType, EntryType DEF Upserted
<1> QED
  BY <1>1, <1>2, RowType, EntryType, TableType

LEMMA HiddenType ==
    ASSUME NEW table \in Tables, NEW book
    PROVE  /\ Hidden(table, book) \in Tables
           /\ DOMAIN Hidden(table, book) = DOMAIN table
           /\ \A x \in DOMAIN table :
                 /\ Hidden(table, book)[x].images = table[x].images
                 /\ Hidden(table, book)[x]
                      = IF x \in Missing(table, book)
                        THEN [table[x] EXCEPT !.active = FALSE] ELSE table[x]
           /\ Shown(Hidden(table, book)) = Shown(table)
<1> DEFINE t == Hidden(table, book)
<1>1. DOMAIN t = DOMAIN table /\ t = [x \in DOMAIN t |-> t[x]]
  BY DEF Hidden
<1>2. ASSUME NEW x \in DOMAIN table
      PROVE  /\ t[x] = IF x \in Missing(table, book)
                       THEN [table[x] EXCEPT !.active = FALSE] ELSE table[x]
             /\ t[x] \in Row
             /\ t[x].images = table[x].images
  <2>1. table[x] \in Row
    BY RowType
  <2>2. t[x] = IF x \in Missing(table, book)
               THEN [table[x] EXCEPT !.active = FALSE] ELSE table[x]
    BY DEF Hidden
  <2> HIDE DEF t
  <2> QED
    BY <2>1, <2>2 DEF Row
<1>3. t \in Tables
  <2> HIDE DEF t
  <2> QED
    BY <1>1, <1>2, RowType, TableType
<1>4. Shown(t) = Shown(table)
  <2> HIDE DEF t
  <2> QED
    BY <1>1, <1>2 DEF Shown
<1> QED
  BY <1>1, <1>2, <1>3, <1>4

(* What editing a product leaves alone.                                    *)
Edited(table, b, price, active) == [table EXCEPT ![b].price = price, ![b].active = active]

LEMMA EditedType ==
    ASSUME NEW table \in Tables, NEW b \in DOMAIN table,
           NEW price \in Prices, NEW active \in BOOLEAN
    PROVE  /\ Edited(table, b, price, active) \in Tables
           /\ Shown(Edited(table, b, price, active)) = Shown(table)
<1> DEFINE t == Edited(table, b, price, active)
<1>1. DOMAIN t = DOMAIN table /\ t = [x \in DOMAIN t |-> t[x]]
  BY DEF Edited
<1>2. ASSUME NEW x \in DOMAIN table
      PROVE  t[x] \in Row /\ t[x].images = table[x].images
  <2>1. table[x] \in Row
    BY RowType
  <2>2. CASE x = b
    BY <2>1, <2>2 DEF Row, Edited
  <2>3. CASE x # b
    BY <2>1, <2>3 DEF Edited
  <2> QED
    BY <2>2, <2>3
<1> HIDE DEF t
<1>3. t \in Tables
  BY <1>1, <1>2, RowType, TableType
<1>4. Shown(t) = Shown(table)
  BY <1>1, <1>2 DEF Shown
<1> QED
  BY <1>3, <1>4 DEF t

(* An importer outside, and one that goes on to its next file.             *)
LEMMA IdleType == Idle \in Local /\ EmptyTable \in Tables /\ Shown(EmptyTable) = {}
<1>1. EmptyTable \in Tables /\ Shown(EmptyTable) = {}
  BY DEF EmptyTable, Tables, Shown
<1> QED
  BY <1>1, FilesAssumption DEF Idle, Local, PCs

LEMMA ReturnedFields ==
    ASSUME NEW i \in Importers, imp[i] \in Local
    PROVE  /\ Returned(i) \in Local
           /\ Returned(i).pc = imp[i].pc
           /\ Returned(i).batch = imp[i].batch
           /\ Returned(i).staged = imp[i].staged
           /\ Returned(i).next = imp[i].next
           /\ Returned(i).created = {}
           /\ Returned(i).committed = imp[i].committed
           /\ Returned(i).completed = imp[i].completed
           /\ Returned(i).failed = imp[i].failed
BY IdleType DEF Returned, Local

LEMMA AdvancedFields ==
    ASSUME NEW i \in Importers, imp[i] \in Local, imp[i].next \in Numbers
    PROVE  /\ Advanced(i) \in Local
           /\ Advanced(i).pc = "file"
           /\ Advanced(i).batch = imp[i].batch
           /\ Advanced(i).staged = imp[i].staged
           /\ Advanced(i).next = imp[i].next + 1
           /\ Advanced(i).created = {}
           /\ Advanced(i).committed = imp[i].committed
           /\ Advanced(i).completed = imp[i].completed
           /\ Advanced(i).failed = imp[i].failed
<1> DEFINE r == Returned(i)
           n == imp[i].next + 1
<1>1. n \in 1..(MaxFiles + 1)
  BY FilesAssumption DEF Numbers
<1>2. /\ r \in Local /\ r.next + 1 = n
      /\ r.batch = imp[i].batch /\ r.staged = imp[i].staged /\ r.created = {}
      /\ r.committed = imp[i].committed /\ r.completed = imp[i].completed
      /\ r.failed = imp[i].failed
  BY ReturnedFields
<1>3. Advanced(i) = [r EXCEPT !.pc = "file", !.next = n]
  BY <1>2 DEF Advanced
<1>4. /\ Advanced(i).pc = "file" /\ Advanced(i).next = n
      /\ Advanced(i).batch = imp[i].batch /\ Advanced(i).staged = imp[i].staged
      /\ Advanced(i).created = {} /\ Advanced(i).committed = imp[i].committed
      /\ Advanced(i).completed = imp[i].completed /\ Advanced(i).failed = imp[i].failed
  <2> HIDE DEF r, n
  <2> QED
    BY <1>2, <1>3 DEF Local
<1>5. Advanced(i) \in Local
  <2> HIDE DEF r, n
  <2> QED
    BY <1>1, <1>2, <1>3 DEF Local, PCs
<1> QED
  BY <1>4, <1>5

(* What remains of the archives is a sequence.                             *)
LEMMA KeptType ==
    ASSUME archives \in Seq(Nat), NEW k \in 0..Len(archives)
    PROVE  Kept(k) \in Seq(Nat)
<1>1. Len(archives) \in Nat
  BY LenProperties
<1>2. \A x \in (k + 1)..Len(archives) : archives[x] \in Nat
  BY <1>1, ElementOfSeq
<1> QED
  BY <1>1, <1>2, SubSeqProperties DEF Kept

-----------------------------------------------------------------------------
LEMMA InitInv == Init => IInv
<1> SUFFICES ASSUME Init PROVE IInv
  OBVIOUS
<1>1. TypeOK
  BY IdleType, EmptySeq DEF Init, TypeOK
<1>2. Shown(catalog) = {} /\ PicturesKept /\ Accounted
  BY IdleType DEF Init, PicturesKept, Accounted
<1>3. ASSUME NEW i \in Importers PROVE Well(i)
  <2>1. imp[i] = Idle /\ lock # i /\ slot # i /\ Temps(i) = {} /\ media = {}
    BY ImportersAssumption DEF Init, Temps
  <2>2. /\ imp[i].pc = "idle" /\ imp[i].created = {}
        /\ ~InSlot(i) /\ ~AtFile(i)
    BY <2>1 DEF Idle, InSlot, AtFile
  <2> QED
    BY <2>1, <2>2 DEF Well
<1> QED
  BY <1>1, <1>2, <1>3, IInvParts

(* Where an importer outside the slot is, and that there is at most one in *)
(* the slot.                                                               *)
LEMMA Outside ==
    ASSUME NEW i \in Importers, Well(i), ~InSlot(i)
    PROVE  /\ slot # i /\ lock # i
           /\ imp[i].created = {} /\ Temps(i) = {}
           /\ ~AtFile(i) /\ imp[i].pc \notin {"stage", "begin", "write"}
BY DEF Well, InSlot, AtFile

LEMMA Alone ==
    ASSUME IInv, NEW i \in Importers, slot \in {i, "free"}
    PROVE  /\ \A j \in Importers \ {i} :
                 ~InSlot(j) /\ imp[j].created = {} /\ Temps(j) = {} /\ lock # j
           /\ lock \in {i, "free"}
           /\ media \subseteq shown \cup strays \cup imp[i].created
<1>1. ASSUME NEW j \in Importers \ {i}
      PROVE  ~InSlot(j) /\ imp[j].created = {} /\ Temps(j) = {} /\ lock # j
  <2>1. slot # j
    BY ImportersAssumption
  <2> QED
    BY <2>1, IInvParts, Outside DEF Well
<1>2. lock \in {i, "free"}
  BY <1>1, IInvParts DEF TypeOK
<1>3. media \subseteq shown \cup strays \cup imp[i].created
  BY <1>1, IInvParts DEF Accounted
<1> QED
  BY <1>1, <1>2, <1>3

(* An importer outside the slot is well whatever the one in it does.       *)
LEMMA OutsideStaysWell ==
    ASSUME NEW j \in Importers, Well(j), ~InSlot(j), imp'[j] = imp[j],
           slot' # j, lock' # j, Temps(j)' = Temps(j)
    PROVE  Well(j)'
<1>1. /\ imp[j].created = {} /\ Temps(j) = {}
      /\ ~AtFile(j) /\ imp[j].pc \notin {"stage", "begin", "write"}
  BY Outside
<1>2. ~InSlot(j)' /\ ~AtFile(j)'
  BY <1>1 DEF InSlot, AtFile
<1>3. /\ imp[j].pc # "idle" => imp[j].batch \in Batches
      /\ imp[j].pc = "slot" => imp[j].staged < Len(imp[j].batch)
  BY DEF Well
<1> QED
  BY <1>1, <1>2, <1>3 DEF Well

(* And it disturbs nobody while it is outside.                             *)
LEMMA UndisturbedStaysWell ==
    ASSUME NEW j \in Importers, Well(j), imp'[j] = imp[j],
           slot' = slot, lock' = lock, Temps(j)' = Temps(j),
           UNCHANGED <<catalog, media, shown>>
    PROVE  Well(j)'
<1>1. InSlot(j)' = InSlot(j) /\ AtFile(j)' = AtFile(j) /\ Book(j)' = Book(j)
  BY DEF InSlot, AtFile, Book
<1> QED
  BY <1>1 DEF Well

(* A step of an importer while no other one is in the slot.                *)
LEMMA StepAlone ==
    ASSUME IInv, NEW i \in Importers, slot \in {i, "free"},
           slot' \in {i, "free"}, lock' \in {i, "free"},
           \A j \in Importers \ {i} : imp'[j] = imp[j] /\ Temps(j)' = Temps(j),
           TypeOK', PicturesKept', Well(i)',
           media' \subseteq shown' \cup strays' \cup imp'[i].created
    PROVE  IInv'
<1>1. ASSUME NEW j \in Importers \ {i} PROVE Well(j)'
  BY Alone, IInvParts, OutsideStaysWell, ImportersAssumption
<1>2. \A j \in Importers : Well(j)'
  BY <1>1
<1>3. Accounted'
  BY DEF Accounted
<1> QED
  BY <1>2, <1>3, IInvPartsAfter

(* A step of an importer outside the slot.                                 *)
LEMMA StepOutside ==
    ASSUME IInv, NEW i \in Importers,
           \A j \in Importers \ {i} : imp'[j] = imp[j],
           imp'[i].created = imp[i].created,
           UNCHANGED <<catalog, lock, slot, media, temps, shown, strays>>,
           TypeOK', Well(i)'
    PROVE  IInv'
<1>1. ASSUME NEW j \in Importers \ {i} PROVE Well(j)'
  <2>1. Temps(j)' = Temps(j)
    BY DEF Temps
  <2> QED
    BY <2>1, IInvParts, UndisturbedStaysWell
<1>2. \A j \in Importers : Well(j)'
  BY <1>1
<1>3. PicturesKept' /\ Accounted'
  <2>1. \A j \in Importers : imp'[j].created = imp[j].created
    OBVIOUS
  <2> QED
    BY <2>1, IInvParts DEF PicturesKept, Accounted
<1> QED
  BY <1>2, <1>3, IInvPartsAfter

-----------------------------------------------------------------------------
(* The locals of one importer change.                                      *)
LEMMA Changed ==
    ASSUME imp \in [Importers -> Local], NEW i \in Importers, NEW r \in Local,
           imp' = [imp EXCEPT ![i] = r]
    PROVE  /\ imp' \in [Importers -> Local]
           /\ imp'[i] = r
           /\ \A j \in Importers \ {i} : imp'[j] = imp[j]
OBVIOUS

(* What holds of an importer in a state that satisfies the invariant.      *)
LEMMA Typed ==
    ASSUME IInv, NEW i \in Importers
    PROVE  /\ imp[i] \in Local /\ imp \in [Importers -> Local]
           /\ Well(i)
           /\ AtFile(i) => /\ Book(i) \in Books
                           /\ Book(i) \in Workbooks
                           /\ Size(i) \in Nat
                           /\ imp[i].next \in Numbers
<1>1. imp[i] \in Local /\ imp \in [Importers -> Local] /\ Well(i)
  BY IInvParts DEF TypeOK
<1>2. AtFile(i) => imp[i].batch \in Batches /\ imp[i].next <= Len(imp[i].batch)
  BY <1>1 DEF Well, AtFile
<1> QED
  BY <1>1, <1>2, BookType

(* Steps outside the slot.                                                 *)
LEMMA StartInv ==
    ASSUME IInv, NEW i \in Importers, NEW batch \in Batches, NEW full \in BOOLEAN,
           Start(i, batch, full)
    PROVE  IInv'
<1> DEFINE r == [Idle EXCEPT !.pc = "slot", !.batch = batch, !.full = full]
<1>1. r \in Local /\ r.pc = "slot" /\ r.batch = batch /\ r.created = {} /\ r.staged = 0
  BY IdleType DEF Local, PCs, Idle
<1>2. 0 < Len(batch)
  BY BatchType, FilesAssumption DEF Numbers
<1>3. imp' = [imp EXCEPT ![i] = r] /\ imp[i].pc = "idle"
      /\ UNCHANGED <<catalog, lock, slot, media, temps, stages, archives, shown, strays>>
  BY DEF Start
<1> HIDE DEF r
<1>4. /\ imp' \in [Importers -> Local] /\ imp'[i] = r
      /\ \A j \in Importers \ {i} : imp'[j] = imp[j]
  BY <1>1, <1>3, Typed, Changed
<1>5. TypeOK'
  BY <1>3, <1>4, IInvParts DEF TypeOK
<1>6. slot # i /\ lock # i /\ Temps(i) = {} /\ imp[i].created = {}
  BY <1>3, Typed, Outside DEF InSlot
<1>7. Temps(i)' = {} /\ ~InSlot(i)' /\ ~AtFile(i)'
  BY <1>1, <1>3, <1>4, <1>6 DEF Temps, InSlot, AtFile
<1>8. Well(i)'
  BY <1>1, <1>3, <1>4, <1>6, <1>7, <1>2 DEF Well
<1> QED
  BY <1>1, <1>3, <1>4, <1>5, <1>6, <1>8, StepOutside

(* An importer that ends, its temporary files gone and its locks free, is  *)
(* well.                                                                   *)
LEMMA IdleIsWell ==
    ASSUME NEW i \in Importers, imp'[i] = Idle, slot' # i, lock' # i, Temps(i)' = {}
    PROVE  Well(i)'
<1>1. imp'[i].pc = "idle" /\ imp'[i].created = {}
  BY DEF Idle
<1>2. ~InSlot(i)' /\ ~AtFile(i)'
  BY <1>1 DEF InSlot, AtFile
<1> QED
  BY <1>1, <1>2 DEF Well

LEMMA SlotBusyInv ==
    ASSUME IInv, NEW i \in Importers, SlotBusy(i) PROVE IInv'
<1>1. imp' = [imp EXCEPT ![i] = Idle] /\ imp[i].pc = "slot"
      /\ UNCHANGED <<catalog, lock, slot, media, temps, stages, archives, shown, strays>>
  BY DEF SlotBusy
<1>2. /\ imp' \in [Importers -> Local] /\ imp'[i] = Idle
      /\ \A j \in Importers \ {i} : imp'[j] = imp[j]
  BY <1>1, Typed, Changed, IdleType
<1>3. TypeOK'
  BY <1>1, <1>2, IInvParts DEF TypeOK
<1>4. slot # i /\ lock # i /\ Temps(i) = {} /\ imp[i].created = {}
  BY <1>1, Typed, Outside DEF InSlot
<1>5. Well(i)'
  BY <1>1, <1>2, <1>4, IdleIsWell DEF Temps
<1>6. imp'[i].created = imp[i].created
  BY <1>2, <1>4 DEF Idle
<1> QED
  BY <1>1, <1>2, <1>3, <1>5, <1>6, StepOutside

(* The slot is taken, and uploads are staged.                              *)
LEMMA AcquireInv ==
    ASSUME IInv, NEW i \in Importers, Acquire(i) PROVE IInv'
<1> DEFINE r == [imp[i] EXCEPT !.pc = IF i \in Servers THEN "stage" ELSE "file"]
<1>1. imp[i] \in Local /\ imp[i].pc = "slot" /\ Well(i) /\ slot = "free"
  BY Typed DEF Acquire
<1>2. /\ r \in Local /\ r.pc \in {"stage", "file"} /\ r.batch = imp[i].batch
      /\ r.created = imp[i].created /\ r.staged = imp[i].staged
      /\ r.pc = "stage" => i \in Servers
  BY <1>1 DEF Local, PCs
<1>3. imp' = [imp EXCEPT ![i] = r] /\ slot' = i
      /\ UNCHANGED <<catalog, lock, media, temps, shown, strays>>
      /\ stages' \in {{}, stages}
      /\ \/ archives' = archives
         \/ \E k \in Prunable(0, 0) : archives' = Kept(k)
  BY DEF Acquire
<1> HIDE DEF r
<1>4. /\ imp' \in [Importers -> Local] /\ imp'[i] = r
      /\ \A j \in Importers \ {i} : imp'[j] = imp[j]
  BY <1>2, <1>3, Typed, Changed
<1>5. archives' \in Seq(Nat)
  BY <1>3, IInvParts, KeptType DEF TypeOK, Prunable
<1>6. TypeOK'
  BY <1>3, <1>4, <1>5, IInvParts DEF TypeOK
<1>7. lock # i /\ Temps(i) = {} /\ imp[i].created = {}
  BY <1>1, Outside DEF InSlot
<1>8. InSlot(i)' /\ ~AtFile(i)' /\ Temps(i)' = {}
  BY <1>2, <1>3, <1>4, <1>7 DEF Temps, InSlot, AtFile
<1>9. r.batch \in Batches /\ r.staged < Len(r.batch)
  BY <1>1, <1>2 DEF Well
<1>10. Well(i)'
  BY <1>2, <1>3, <1>4, <1>7, <1>8, <1>9 DEF Well
<1> QED
  BY <1>1, <1>2, <1>3, <1>4, <1>6, <1>7, <1>10, StepAlone, Alone, IInvParts
     DEF Temps, PicturesKept

LEMMA StageInv ==
    ASSUME IInv, NEW i \in Importers, Stage(i) PROVE IInv'
<1> DEFINE k == imp[i].staged + 1
           pc == IF k = Len(imp[i].batch) THEN "file" ELSE "stage"
           r == [imp[i] EXCEPT !.staged = k, !.pc = pc]
<1>1. /\ imp[i] \in Local /\ imp[i].pc = "stage" /\ Well(i)
      /\ slot = i /\ i \in Servers /\ InSlot(i) /\ lock # i
      /\ imp[i].batch \in Batches /\ imp[i].staged < Len(imp[i].batch)
      /\ imp[i].created = {} /\ Temps(i) = {}
  BY Typed DEF Stage, Well, InSlot
<1>2. k \in Numbers /\ k <= Len(imp[i].batch) /\ (pc = "stage" => k < Len(imp[i].batch))
  BY <1>1, BatchType, FilesAssumption DEF Numbers, Local
<1>3. /\ stages' = stages \cup {<<i, k>>}
      /\ imp' = [imp EXCEPT ![i] = r]
      /\ UNCHANGED <<catalog, lock, slot, media, temps, archives, shown, strays>>
  BY DEF Stage
<1>4. k \in 0..MaxFiles /\ pc \in {"stage", "file"}
  BY <1>2, FilesAssumption DEF Numbers
<1> HIDE DEF k, pc
<1>5. /\ r \in Local /\ r.pc = pc /\ r.staged = k /\ r.batch = imp[i].batch
      /\ r.created = imp[i].created
  BY <1>1, <1>4 DEF Local, PCs
<1> HIDE DEF r
<1>6. /\ imp' \in [Importers -> Local] /\ imp'[i] = r
      /\ \A j \in Importers \ {i} : imp'[j] = imp[j]
  BY <1>3, <1>5, Typed, Changed
<1>7. TypeOK'
  BY <1>1, <1>2, <1>3, <1>6, IInvParts DEF TypeOK
<1>8. InSlot(i)' /\ ~AtFile(i)' /\ Temps(i)' = {}
  BY <1>1, <1>3, <1>4, <1>5, <1>6 DEF Temps, InSlot, AtFile
<1>9. Well(i)'
  BY <1>1, <1>2, <1>3, <1>4, <1>5, <1>6, <1>8 DEF Well
<1> QED
  BY <1>1, <1>3, <1>5, <1>6, <1>7, <1>9, StepAlone, Alone, IInvParts
     DEF Temps, PicturesKept

(* A file is parsed, and its transaction begins.                           *)
LEMMA ParseInv ==
    ASSUME IInv, NEW i \in Importers, Parse(i) PROVE IInv'
<1> DEFINE r == [imp[i] EXCEPT !.pc = "begin"]
           new == {<<i, img>> : img \in Shown(Book(i)) \ media}
<1>1. /\ imp[i] \in Local /\ imp[i].pc = "file" /\ Well(i)
      /\ slot = i /\ InSlot(i) /\ lock # i
      /\ imp[i].batch \in Batches /\ imp[i].next <= Len(imp[i].batch)
      /\ imp[i].created = {} /\ Temps(i) = {}
  BY Typed DEF Parse, Well, InSlot
<1>2. Book(i) \in Books /\ Shown(Book(i)) \subseteq Images
  BY <1>1, BookType, ShownType
<1>3. /\ temps' = temps \cup new
      /\ imp' = [imp EXCEPT ![i] = r]
      /\ UNCHANGED <<catalog, lock, slot, media, stages, archives, shown, strays>>
  BY DEF Parse
<1>4. /\ r \in Local /\ r.pc = "begin" /\ r.batch = imp[i].batch /\ r.next = imp[i].next
      /\ r.created = imp[i].created
  BY <1>1 DEF Local, PCs
<1> HIDE DEF r
<1>5. /\ imp' \in [Importers -> Local] /\ imp'[i] = r
      /\ \A j \in Importers \ {i} : imp'[j] = imp[j]
  BY <1>3, <1>4, Typed, Changed
<1>6. TypeOK'
  <2>1. new \subseteq Importers \X Images
    BY <1>2
  <2> HIDE DEF new
  <2> QED
    BY <1>3, <1>5, <2>1, IInvParts DEF TypeOK
<1>7. Temps(i)' = Shown(Book(i)) \ media /\ \A j \in Importers \ {i} : Temps(j)' = Temps(j)
  BY <1>1, <1>2, <1>3 DEF Temps
<1>8. Book(i)' = Book(i) /\ InSlot(i)' /\ AtFile(i)'
  BY <1>4, <1>5 DEF Book, InSlot, AtFile
<1>9. Well(i)'
  BY <1>1, <1>3, <1>4, <1>5, <1>7, <1>8 DEF Well
<1> QED
  BY <1>1, <1>3, <1>4, <1>5, <1>6, <1>7, <1>9, StepAlone, Alone, IInvParts
     DEF PicturesKept

LEMMA BeginInv ==
    ASSUME IInv, NEW i \in Importers, Begin(i) PROVE IInv'
<1> DEFINE r == [imp[i] EXCEPT !.pc = "write", !.todo = DOMAIN Book(i), !.table = catalog]
<1>1. /\ imp[i] \in Local /\ imp[i].pc = "begin" /\ Well(i) /\ lock = "free"
      /\ slot = i /\ InSlot(i) /\ AtFile(i) /\ lock # i
      /\ imp[i].batch \in Batches /\ imp[i].next <= Len(imp[i].batch)
      /\ imp[i].created = {}
      /\ Shown(Book(i)) \subseteq media \cup Temps(i)
      /\ Temps(i) \subseteq Shown(Book(i))
  BY Typed, ImportersAssumption DEF Begin, Well, InSlot, AtFile
<1>2. Book(i) \in Books /\ DOMAIN Book(i) \subseteq Barcodes /\ catalog \in Tables
  BY <1>1, BookType, EntryType, IInvParts DEF TypeOK
<1>3. /\ lock' = i
      /\ imp' = [imp EXCEPT ![i] = r]
      /\ UNCHANGED <<catalog, slot, media, temps, stages, archives, shown, strays>>
  BY DEF Begin
<1>4. /\ r \in Local /\ r.pc = "write" /\ r.batch = imp[i].batch /\ r.next = imp[i].next
      /\ r.created = imp[i].created /\ r.todo = DOMAIN Book(i) /\ r.table = catalog
  BY <1>1, <1>2 DEF Local, PCs
<1> HIDE DEF r
<1>5. /\ imp' \in [Importers -> Local] /\ imp'[i] = r
      /\ \A j \in Importers \ {i} : imp'[j] = imp[j]
  BY <1>3, <1>4, Typed, Changed
<1>6. TypeOK'
  BY <1>3, <1>5, IInvParts DEF TypeOK
<1>7. \A j \in Importers : Temps(j)' = Temps(j)
  BY <1>3 DEF Temps
<1>8. Book(i)' = Book(i) /\ InSlot(i)' /\ AtFile(i)'
  BY <1>4, <1>5 DEF Book, InSlot, AtFile
<1>9. Well(i)'
  BY <1>1, <1>3, <1>4, <1>5, <1>7, <1>8 DEF Well
<1> QED
  BY <1>1, <1>3, <1>4, <1>5, <1>6, <1>7, <1>9, StepAlone, Alone, IInvParts
     DEF PicturesKept

-----------------------------------------------------------------------------
(* What is known of an importer inside its transaction.                    *)
LEMMA Writing ==
    ASSUME IInv, NEW i \in Importers, imp[i].pc = "write"
    PROVE  /\ imp[i] \in Local /\ Well(i)
           /\ slot = i /\ lock = i /\ InSlot(i) /\ AtFile(i)
           /\ imp[i].batch \in Batches /\ imp[i].next <= Len(imp[i].batch)
           /\ imp[i].next \in Numbers
           /\ Book(i) \in Books /\ Book(i) \in Workbooks
           /\ imp[i].table \in Tables /\ catalog \in Tables
           /\ Shown(Book(i)) \subseteq media \cup Temps(i)
           /\ Temps(i) \cup imp[i].created \subseteq Shown(Book(i))
           /\ imp[i].created \subseteq media /\ imp[i].created \cap shown = {}
           /\ imp[i].todo \subseteq DOMAIN Book(i)
           /\ DOMAIN imp[i].table = DOMAIN catalog \cup (DOMAIN Book(i) \ imp[i].todo)
           /\ \A x \in DOMAIN imp[i].table :
                 imp[i].table[x] = IF x \in DOMAIN Book(i) \ imp[i].todo
                                   THEN Listed(Book(i)[x]) ELSE catalog[x]
<1>1. imp[i] \in Local /\ Well(i) /\ catalog \in Tables /\ AtFile(i) /\ InSlot(i)
  BY Typed, IInvParts DEF TypeOK, AtFile, InSlot
<1>2. imp[i].table \in Tables
  BY <1>1 DEF Local
<1>3. imp[i].batch \in Batches /\ imp[i].next <= Len(imp[i].batch)
  BY <1>1 DEF Well
<1>4. /\ Book(i) \in Books /\ Book(i) \in Workbooks /\ imp[i].next \in Numbers
  BY <1>1, <1>3, BookType
<1> QED
  BY <1>1, <1>2, <1>3, <1>4 DEF Well

(* A picture is put in place.                                              *)
LEMMA PublishInv ==
    ASSUME IInv, NEW i \in Importers, NEW img \in Images, Publish(i, img) PROVE IInv'
<1> DEFINE new == IF img \in media THEN imp[i].created ELSE imp[i].created \cup {img}
           r == [imp[i] EXCEPT !.created = new]
<1>1. /\ imp[i].pc = "write" /\ img \in Temps(i)
      /\ temps' = temps \ {<<i, img>>} /\ media' = media \cup {img}
      /\ UNCHANGED <<catalog, lock, slot, stages, archives, shown, strays>>
  BY DEF Publish
<1>2. imp' = [imp EXCEPT ![i] = r]
  BY DEF Publish
<1>3. /\ new \subseteq Images /\ new \subseteq media' /\ new \cap shown = {}
      /\ new \subseteq Shown(Book(i))
      /\ media' \subseteq shown \cup strays \cup new
  <2>1. imp[i].created \subseteq Images /\ imp[i].created \subseteq media
    BY <1>1, Writing DEF Local
  <2>2. shown \subseteq media
    BY IInvParts DEF PicturesKept
  <2>3. media \subseteq shown \cup strays \cup imp[i].created
    BY <1>1, Alone, Writing
  <2> QED
    BY <1>1, <2>1, <2>2, <2>3, Writing
<1> HIDE DEF new
<1>4. /\ r \in Local /\ r.pc = "write" /\ r.batch = imp[i].batch /\ r.next = imp[i].next
      /\ r.created = new /\ r.todo = imp[i].todo /\ r.table = imp[i].table
  BY <1>1, <1>3, Writing DEF Local
<1> HIDE DEF r
<1>5. /\ imp' \in [Importers -> Local] /\ imp'[i] = r
      /\ \A j \in Importers \ {i} : imp'[j] = imp[j]
  BY <1>2, <1>4, Typed, Changed
<1>6. TypeOK'
  BY <1>1, <1>5, IInvParts DEF TypeOK
<1>7. Temps(i)' = Temps(i) \ {img} /\ \A j \in Importers \ {i} : Temps(j)' = Temps(j)
  BY <1>1 DEF Temps
<1>8. Book(i)' = Book(i) /\ InSlot(i)' /\ AtFile(i)'
  BY <1>4, <1>5 DEF Book, InSlot, AtFile
<1>9. Well(i)'
  BY <1>1, <1>3, <1>4, <1>5, <1>7, <1>8, Writing DEF Well
<1>10. PicturesKept'
  BY <1>1, IInvParts DEF PicturesKept
<1> QED
  BY <1>1, <1>3, <1>4, <1>5, <1>6, <1>7, <1>9, <1>10, StepAlone, Writing

(* A product is written.                                                   *)
LEMMA UpsertInv ==
    ASSUME IInv, NEW i \in Importers, NEW b \in Barcodes, Upsert(i, b) PROVE IInv'
<1> DEFINE todo == imp[i].todo \ {b}
           table == Upserted(imp[i].table, Book(i), b)
           r == [imp[i] EXCEPT !.todo = todo, !.table = table]
<1>1. /\ imp[i].pc = "write" /\ Temps(i) = {} /\ b \in imp[i].todo
      /\ imp' = [imp EXCEPT ![i] = r]
      /\ UNCHANGED <<catalog, lock, slot, media, temps, stages, archives, shown, strays>>
  BY DEF Upsert
<1>2. table \in Tables /\ todo \subseteq Barcodes /\ todo \subseteq DOMAIN Book(i)
  BY <1>1, Writing, UpsertedType, EntryType
<1>3. DOMAIN table = DOMAIN imp[i].table \cup {b}
      /\ \A x \in DOMAIN table :
            table[x] = IF x = b THEN Listed(Book(i)[b]) ELSE imp[i].table[x]
  BY DEF Upserted
<1> HIDE DEF table
<1>4. DOMAIN table = DOMAIN catalog \cup (DOMAIN Book(i) \ todo)
      /\ \A x \in DOMAIN table :
            table[x] = IF x \in DOMAIN Book(i) \ todo THEN Listed(Book(i)[x]) ELSE catalog[x]
  BY <1>1, <1>3, Writing
<1> HIDE DEF todo
<1>5. /\ r \in Local /\ r.pc = "write" /\ r.batch = imp[i].batch /\ r.next = imp[i].next
      /\ r.created = imp[i].created /\ r.todo = todo /\ r.table = table
  BY <1>1, <1>2, Writing DEF Local
<1> HIDE DEF r
<1>6. /\ imp' \in [Importers -> Local] /\ imp'[i] = r
      /\ \A j \in Importers \ {i} : imp'[j] = imp[j]
  BY <1>1, <1>5, Typed, Changed
<1>7. TypeOK'
  BY <1>1, <1>6, IInvParts DEF TypeOK
<1>8. \A j \in Importers : Temps(j)' = Temps(j)
  BY <1>1 DEF Temps
<1>9. Book(i)' = Book(i) /\ InSlot(i)' /\ AtFile(i)'
  BY <1>5, <1>6 DEF Book, InSlot, AtFile
<1>10. Well(i)'
  BY <1>1, <1>2, <1>4, <1>5, <1>6, <1>8, <1>9, Writing DEF Well
<1> QED
  BY <1>1, <1>5, <1>6, <1>7, <1>8, <1>10, StepAlone, Alone, Writing, IInvParts
     DEF PicturesKept

(* The catalog that a transaction leaves is the price list in force.       *)
LEMMA InForceAtCommit ==
    ASSUME IInv, NEW i \in Importers, imp[i].pc = "write", imp[i].todo = {},
           Temps(i) = {},
           NEW table,
           table = IF imp[i].full THEN Hidden(imp[i].table, Book(i)) ELSE imp[i].table
    PROVE  /\ table \in Tables
           /\ Promise!InForce(catalog, table, Book(i), imp[i].full)
           /\ Shown(table) \subseteq Shown(catalog) \cup Shown(Book(i))
           /\ Shown(Book(i)) \subseteq Shown(table)
<1> DEFINE old == imp[i].table
           book == Book(i)
<1>1. /\ old \in Tables /\ book \in Books /\ catalog \in Tables
      /\ DOMAIN old = DOMAIN catalog \cup DOMAIN book
      /\ \A x \in DOMAIN old :
            old[x] = IF x \in DOMAIN book THEN Listed(book[x]) ELSE catalog[x]
  BY Writing
<1> HIDE DEF old, book
<1>2. \A x \in DOMAIN book : x \in DOMAIN old /\ old[x] = Listed(book[x])
  BY <1>1
<1>3. \A x \in DOMAIN old : x \notin DOMAIN book => x \in DOMAIN catalog /\ old[x] = catalog[x]
  BY <1>1
<1>4. \A x \in DOMAIN book : Listed(book[x]).images = book[x].images
  BY DEF Listed
<1>5. Shown(old) \subseteq Shown(catalog) \cup Shown(book)
  <2>1. ASSUME NEW x \in DOMAIN old
        PROVE  \/ x \in DOMAIN book /\ old[x].images = book[x].images
               \/ x \in DOMAIN catalog /\ old[x].images = catalog[x].images
    BY <1>2, <1>3, <1>4
  <2> QED
    BY <2>1 DEF Shown
<1>6. Shown(book) \subseteq Shown(old)
  <2>1. ASSUME NEW x \in DOMAIN book
        PROVE  x \in DOMAIN old /\ old[x].images = book[x].images
    BY <1>2, <1>4
  <2> QED
    BY <2>1 DEF Shown
<1>7. Shown(table) = Shown(old) /\ table \in Tables /\ DOMAIN table = DOMAIN old
  BY <1>1, HiddenType DEF old, book
<1>8. \A b \in DOMAIN book : table[b] = Listed(book[b])
  <2> SUFFICES ASSUME NEW b \in DOMAIN book PROVE table[b] = Listed(book[b])
    OBVIOUS
  <2>1. b \in DOMAIN old /\ old[b] = Listed(book[b]) /\ b \notin Missing(old, book)
    BY <1>2 DEF Missing
  <2>2. table = IF imp[i].full THEN Hidden(old, book) ELSE old
    BY DEF old, book
  <2>3. Hidden(old, book)[b] = old[b]
    BY <2>1 DEF Hidden
  <2> QED
    BY <2>1, <2>2, <2>3
<1>9. ASSUME NEW b \in DOMAIN catalog \ DOMAIN book
      PROVE  IF imp[i].full /\ \E x \in DOMAIN book : book[x].brand = catalog[b].brand
             THEN table[b] = [catalog[b] EXCEPT !.active = FALSE]
             ELSE table[b] = catalog[b]
  <2>1. b \in DOMAIN old /\ old[b] = catalog[b] /\ catalog[b] \in Row
    BY <1>1, RowType
  <2>2. table = IF imp[i].full THEN Hidden(old, book) ELSE old
    BY DEF old, book
  <2>3. catalog[b].brand \in Seen(book)
          <=> \E x \in DOMAIN book : book[x].brand = catalog[b].brand
    BY DEF Seen
  <2>4. b \in Missing(old, book)
          <=> catalog[b].active /\ catalog[b].brand \in Seen(book)
    BY <2>1 DEF Missing
  <2>5. ~catalog[b].active => catalog[b] = [catalog[b] EXCEPT !.active = FALSE]
    BY <2>1 DEF Row
  <2>6. CASE ~imp[i].full
    BY <2>1, <2>2, <2>6
  <2>7. CASE imp[i].full
    <3>1. table[b] = IF b \in Missing(old, book)
                     THEN [catalog[b] EXCEPT !.active = FALSE] ELSE catalog[b]
      BY <1>1, <2>1, <2>2, <2>7, HiddenType
    <3> QED
      BY <2>3, <2>4, <2>5, <2>7, <3>1
  <2> QED
    BY <2>6, <2>7
<1>10. Promise!InForce(catalog, table, book, imp[i].full)
  BY <1>1, <1>7, <1>8, <1>9 DEF Promise!InForce, Listed
<1> QED
  BY <1>5, <1>6, <1>7, <1>10 DEF book

(* The file commits.                                                       *)
LEMMA CommitInv ==
    ASSUME IInv, NEW i \in Importers, Commit(i) PROVE IInv'
<1> DEFINE done == imp[i].committed \cup {imp[i].next}
           table == IF imp[i].full THEN Hidden(imp[i].table, Book(i)) ELSE imp[i].table
           r == IF i \in Servers
                THEN [Returned(i) EXCEPT !.pc = "archive", !.committed = done]
                ELSE [Advanced(i) EXCEPT !.committed = done, !.completed = done]
<1>1. /\ imp[i].pc = "write" /\ Temps(i) = {} /\ imp[i].todo = {}
      /\ catalog' = table /\ shown' = shown \cup Shown(table) /\ lock' = "free"
      /\ imp' = [imp EXCEPT ![i] = r]
      /\ UNCHANGED <<slot, media, temps, stages, archives, strays>>
  BY DEF Commit
<1>2. /\ table \in Tables
      /\ Shown(table) \subseteq Shown(catalog) \cup Shown(Book(i))
      /\ Shown(Book(i)) \subseteq Shown(table)
      /\ Shown(table) \subseteq Images
  BY <1>1, InForceAtCommit, ShownType
<1>3. done \in SUBSET Numbers
  BY <1>1, Writing DEF Local
<1> HIDE DEF table, done
<1>4. /\ r \in Local /\ r.pc \in {"archive", "file"}
      /\ r.pc = "archive" => r.next = imp[i].next
      /\ r.batch = imp[i].batch /\ r.created = {}
  <2> DEFINE a == Returned(i)
             b == Advanced(i)
  <2>1. /\ a \in Local /\ a.next = imp[i].next /\ a.batch = imp[i].batch /\ a.created = {}
        /\ b \in Local /\ b.pc = "file" /\ b.batch = imp[i].batch /\ b.created = {}
    BY <1>1, Writing, ReturnedFields, AdvancedFields
  <2>2. r = IF i \in Servers THEN [a EXCEPT !.pc = "archive", !.committed = done]
                             ELSE [b EXCEPT !.committed = done, !.completed = done]
    OBVIOUS
  <2> HIDE DEF a, b, r
  <2>3. CASE i \in Servers
    BY <1>3, <2>1, <2>2, <2>3 DEF Local, PCs
  <2>4. CASE i \notin Servers
    BY <1>3, <2>1, <2>2, <2>4 DEF Local, PCs
  <2> QED
    BY <2>3, <2>4
<1> HIDE DEF r
<1>5. /\ imp' \in [Importers -> Local] /\ imp'[i] = r
      /\ \A j \in Importers \ {i} : imp'[j] = imp[j]
  BY <1>1, <1>4, Typed, Changed
<1>6. TypeOK'
  BY <1>1, <1>2, <1>5, IInvParts DEF TypeOK
<1>7. \A j \in Importers : Temps(j)' = Temps(j)
  BY <1>1 DEF Temps
<1>8. InSlot(i)' /\ lock' # i
  BY <1>1, <1>4, <1>5, ImportersAssumption DEF InSlot
<1>9. Well(i)'
  BY <1>1, <1>4, <1>5, <1>7, <1>8, Writing DEF Well, AtFile
<1>10. PicturesKept'
  BY <1>1, <1>2, IInvParts, Writing DEF PicturesKept
<1>11. media' \subseteq shown' \cup strays' \cup imp'[i].created
  BY <1>1, <1>2, Alone, Writing
<1> QED
  BY <1>1, <1>5, <1>6, <1>7, <1>9, <1>10, <1>11, StepAlone, Writing

(* A file is archived, or is not.                                          *)
LEMMA ArchivedInv ==
    ASSUME IInv, NEW i \in Importers, imp[i].pc = "archive",
           archives' \in Seq(Nat), stages' \subseteq stages,
           imp' = [imp EXCEPT ![i] =
                      [Advanced(i) EXCEPT !.completed = @ \cup {imp[i].next}]],
           UNCHANGED <<catalog, lock, slot, media, temps, shown, strays>>
    PROVE  IInv'
<1> DEFINE r == [Advanced(i) EXCEPT !.completed = @ \cup {imp[i].next}]
<1>1. /\ imp[i] \in Local /\ Well(i) /\ slot = i /\ InSlot(i) /\ AtFile(i) /\ lock # i
      /\ imp[i].batch \in Batches /\ imp[i].next \in Numbers
      /\ imp[i].created = {} /\ Temps(i) = {}
  BY Typed DEF Well, InSlot, AtFile
<1>2. r \in Local /\ r.pc = "file" /\ r.batch = imp[i].batch /\ r.created = {}
  BY <1>1, AdvancedFields DEF Local
<1>3. imp' = [imp EXCEPT ![i] = r]
  OBVIOUS
<1> HIDE DEF r
<1>4. /\ imp' \in [Importers -> Local] /\ imp'[i] = r
      /\ \A j \in Importers \ {i} : imp'[j] = imp[j]
  BY <1>2, <1>3, Typed, Changed
<1>5. TypeOK'
  BY <1>4, IInvParts DEF TypeOK
<1>6. \A j \in Importers : Temps(j)' = Temps(j)
  BY DEF Temps
<1>7. InSlot(i)' /\ ~AtFile(i)'
  BY <1>2, <1>4 DEF InSlot, AtFile
<1>8. Well(i)'
  BY <1>1, <1>2, <1>4, <1>6, <1>7 DEF Well
<1> QED
  BY <1>1, <1>2, <1>4, <1>5, <1>6, <1>8, StepAlone, Alone, IInvParts DEF PicturesKept

LEMMA ArchiveInv ==
    ASSUME IInv, NEW i \in Importers, Archive(i) PROVE IInv'
<1>1. archives \in Seq(Nat) /\ Size(i) \in Nat
  BY IInvParts, Typed DEF Archive, TypeOK, AtFile
<1>2. PICK k \in 0..Len(archives) : archives' = Append(Kept(k), Size(i))
  BY DEF Archive, Prunable
<1>3. archives' \in Seq(Nat)
  BY <1>1, <1>2, KeptType, AppendProperties
<1> QED
  BY <1>3, ArchivedInv DEF Archive

LEMMA ArchiveFailsInv ==
    ASSUME IInv, NEW i \in Importers, ArchiveFails(i) PROVE IInv'
<1>1. archives' \in Seq(Nat)
  BY IInvParts, KeptType DEF ArchiveFails, TypeOK
<1> QED
  BY <1>1, ArchivedInv DEF ArchiveFails

-----------------------------------------------------------------------------
(* A file that fails takes back the pictures that the catalog does not     *)
(* show, and leaves no other.                                              *)
LEMMA TakenBack ==
    ASSUME IInv, NEW i \in Importers, slot = i, media' = media \ Unused(i),
           UNCHANGED <<catalog, shown, strays>>
    PROVE  /\ PicturesKept'
           /\ media' \subseteq shown' \cup strays'
<1>1. shown \subseteq media /\ Shown(catalog) \subseteq shown
  BY IInvParts DEF PicturesKept
<1>2. imp[i].created \cap shown = {}
  BY Typed DEF Well
<1>3. media \subseteq shown \cup strays \cup imp[i].created
  BY Alone
<1>4. Unused(i) = imp[i].created
  BY <1>1, <1>2 DEF Unused
<1> QED
  BY <1>1, <1>2, <1>3, <1>4 DEF PicturesKept

LEMMA RejectInv ==
    ASSUME IInv, NEW i \in Importers, Reject(i) PROVE IInv'
<1> DEFINE r == [Advanced(i) EXCEPT !.failed = @ \cup {imp[i].next}]
<1>1. /\ imp[i].pc \in {"file", "write"} /\ Temps(i) = {}
      /\ media' = media \ Unused(i)
      /\ lock' = IF lock = i THEN "free" ELSE lock
      /\ imp' = [imp EXCEPT ![i] = r]
      /\ UNCHANGED <<catalog, slot, temps, stages, archives, shown, strays>>
  BY Typed DEF Reject, Well
<1>2. /\ imp[i] \in Local /\ Well(i) /\ slot = i /\ InSlot(i)
      /\ imp[i].batch \in Batches /\ imp[i].next <= Len(imp[i].batch)
  BY <1>1, Typed DEF Reject, Well, InSlot, AtFile
<1>3. imp[i].next \in Numbers
  BY <1>2, BookType
<1>4. r \in Local /\ r.pc = "file" /\ r.batch = imp[i].batch /\ r.created = {}
  BY <1>2, <1>3, AdvancedFields DEF Local
<1> HIDE DEF r
<1>5. /\ imp' \in [Importers -> Local] /\ imp'[i] = r
      /\ \A j \in Importers \ {i} : imp'[j] = imp[j]
  BY <1>1, <1>4, Typed, Changed
<1>6. lock' = "free"
  BY <1>1, <1>2, Alone
<1>7. TypeOK'
  BY <1>1, <1>5, <1>6, IInvParts DEF TypeOK
<1>8. \A j \in Importers : Temps(j)' = Temps(j)
  BY <1>1 DEF Temps
<1>9. InSlot(i)' /\ ~AtFile(i)' /\ lock' # i
  BY <1>4, <1>5, <1>6, ImportersAssumption DEF InSlot, AtFile
<1>10. Well(i)'
  BY <1>1, <1>2, <1>4, <1>5, <1>8, <1>9 DEF Well
<1> QED
  BY <1>1, <1>2, <1>5, <1>6, <1>7, <1>8, <1>10, StepAlone, TakenBack

(* A batch that ends, by itself, by an exception or by a crash.            *)
LEMMA EndedInv ==
    ASSUME IInv, NEW i \in Importers,
           imp' = [imp EXCEPT ![i] = Idle],
           slot = i, slot' = "free", lock' \in {"free", lock} \ {i},
           \A j \in Importers \ {i} : Temps(j)' = Temps(j),
           Temps(i)' = {}, temps' \subseteq temps,
           stages' \subseteq stages, media' \subseteq media, strays' \subseteq Images,
           media' \subseteq shown' \cup strays',
           PicturesKept',
           UNCHANGED <<catalog, archives, shown>>
    PROVE  IInv'
<1>1. /\ imp' \in [Importers -> Local] /\ imp'[i] = Idle
      /\ \A j \in Importers \ {i} : imp'[j] = imp[j]
  BY Typed, Changed, IdleType
<1>2. lock' = "free" /\ slot' # i /\ lock' # i
  BY Alone, ImportersAssumption
<1>3. TypeOK'
  BY <1>1, <1>2, IInvParts DEF TypeOK
<1>4. Well(i)'
  BY <1>1, <1>2, IdleIsWell
<1> QED
  BY <1>1, <1>2, <1>3, <1>4, StepAlone

LEMMA AbortInv ==
    ASSUME IInv, NEW i \in Importers, Abort(i) PROVE IInv'
<1>1. slot = i
  BY Typed DEF Abort, Well, InSlot
<1>2. lock' \in {"free", lock} \ {i}
  BY ImportersAssumption DEF Abort
<1>3. Temps(i)' = {} /\ \A j \in Importers \ {i} : Temps(j)' = Temps(j)
  BY DEF Abort, Temps
<1>4. strays' \subseteq Images
  BY IInvParts DEF Abort, TypeOK
<1> QED
  BY <1>1, <1>2, <1>3, <1>4, TakenBack, EndedInv DEF Abort

LEMMA FinishInv ==
    ASSUME IInv, NEW i \in Importers, Finish(i) PROVE IInv'
<1>1. slot = i /\ lock # i /\ Temps(i) = {} /\ imp[i].created = {}
  BY Typed DEF Finish, Well, InSlot
<1>2. \A j \in Importers : Temps(j)' = Temps(j)
  BY DEF Finish, Temps
<1>3. PicturesKept' /\ media' \subseteq shown' \cup strays' /\ strays' \subseteq Images
  BY <1>1, Alone, IInvParts DEF Finish, TypeOK, PicturesKept
<1> QED
  BY <1>1, <1>2, <1>3, EndedInv DEF Finish

LEMMA CrashInv ==
    ASSUME IInv, NEW i \in Importers, Crash(i) PROVE IInv'
<1>1. Temps(i)' = {} /\ \A j \in Importers \ {i} : Temps(j)' = Temps(j)
  BY DEF Crash, Temps
<1>2. imp[i].created \subseteq Images
  BY Typed DEF Local
<1>3. PicturesKept'
  BY IInvParts DEF Crash, PicturesKept
<1>4. CASE slot = i
  <2>1. media' \subseteq shown' \cup strays' /\ strays' \subseteq Images
    BY <1>2, <1>4, Alone, IInvParts DEF Crash, TypeOK
  <2>2. lock' \in {"free", lock} \ {i}
    BY ImportersAssumption DEF Crash
  <2> QED
    BY <1>1, <1>3, <1>4, <2>1, <2>2, EndedInv DEF Crash
<1>5. CASE slot # i
  <2>1. lock # i /\ imp[i].created = {} /\ Temps(i) = {} /\ ~InSlot(i)
    BY <1>5, Typed, Outside DEF Well
  <2>2. /\ imp' = [imp EXCEPT ![i] = Idle]
        /\ UNCHANGED <<catalog, lock, slot, media, stages, archives, shown, strays>>
    BY <1>5, <2>1 DEF Crash
  <2>3. temps' = temps
    BY <2>1, IInvParts DEF Crash, TypeOK, Temps
  <2>4. /\ imp' \in [Importers -> Local] /\ imp'[i] = Idle
        /\ \A j \in Importers \ {i} : imp'[j] = imp[j]
    BY <2>2, Typed, Changed, IdleType
  <2>5. TypeOK'
    BY <2>2, <2>3, <2>4, IInvParts DEF TypeOK
  <2>6. Well(i)'
    BY <1>1, <1>5, <2>1, <2>2, <2>4, IdleIsWell
  <2>7. imp'[i].created = imp[i].created
    BY <2>1, <2>4 DEF Idle
  <2> QED
    BY <2>2, <2>3, <2>4, <2>5, <2>6, <2>7, StepOutside
<1> QED
  BY <1>4, <1>5

(* A product is edited.                                                    *)
LEMMA EditInv ==
    ASSUME IInv, NEW b \in Barcodes, NEW price \in Prices, NEW active \in BOOLEAN,
           Edit(b, price, active)
    PROVE  IInv'
<1>1. /\ lock = "free" /\ b \in DOMAIN catalog
      /\ catalog' = [catalog EXCEPT ![b].price = price, ![b].active = active]
      /\ UNCHANGED <<lock, slot, media, temps, stages, archives, imp, shown, strays>>
  BY DEF Edit
<1>2. catalog \in Tables
  BY IInvParts DEF TypeOK
<1>3. catalog' = Edited(catalog, b, price, active)
  BY <1>1 DEF Edited
<1>4. PICK t : t = Edited(catalog, b, price, active)
  OBVIOUS
<1>5. b \in DOMAIN catalog
  BY <1>1
<1>6. catalog' \in Tables /\ Shown(catalog)' = Shown(catalog)
  <2>1. t \in Tables /\ Shown(t) = Shown(catalog)
    BY <1>2, <1>4, <1>5, EditedType
  <2>2. catalog' = t /\ Shown(catalog)' = Shown(t)
    BY <1>3, <1>4
  <2> QED
    BY <2>1, <2>2
<1>7. TypeOK'
  BY <1>1, <1>6, IInvParts DEF TypeOK
<1>8. ASSUME NEW i \in Importers PROVE Well(i)'
  <2>1. Well(i) /\ imp[i].pc # "write"
    BY <1>1, IInvParts, ImportersAssumption DEF Well
  <2>2. /\ InSlot(i)' = InSlot(i) /\ AtFile(i)' = AtFile(i)
        /\ Book(i)' = Book(i) /\ Temps(i)' = Temps(i)
    BY <1>1 DEF InSlot, AtFile, Book, Temps
  <2> QED
    BY <1>1, <2>1, <2>2 DEF Well
<1>9. PicturesKept' /\ Accounted'
  BY <1>1, <1>6, IInvParts DEF PicturesKept, Accounted
<1> QED
  BY <1>7, <1>8, <1>9, IInvPartsAfter

-----------------------------------------------------------------------------
LEMMA NextInv == IInv /\ [Next]_vars => IInv'
<1> SUFFICES ASSUME IInv, [Next]_vars PROVE IInv'
  OBVIOUS
<1>1. CASE UNCHANGED vars
  <2>1. TypeOK' /\ PicturesKept' /\ Accounted'
    BY <1>1, IInvParts DEF vars, TypeOK, PicturesKept, Accounted
  <2>2. ASSUME NEW i \in Importers PROVE Well(i)'
    BY <1>1, IInvParts, UndisturbedStaysWell DEF vars, Temps
  <2> QED
    BY <2>1, <2>2, IInvPartsAfter
<1>2. ASSUME NEW i \in Importers, Step(i) PROVE IInv'
  BY <1>2, SlotBusyInv, AcquireInv, StageInv, ParseInv, BeginInv, PublishInv, UpsertInv,
     CommitInv, ArchiveInv, ArchiveFailsInv, RejectInv, AbortInv, FinishInv DEF Step
<1> QED
  BY <1>1, <1>2, StartInv, CrashInv, EditInv DEF Next

(* The invariant holds in every state: the locks are where the importers   *)
(* are, and a transaction has written just its part of the price list.     *)
THEOREM ImportsInvariant == Spec => []IInv
BY InitInv, NextInv, PTL DEF Spec

(* Every picture that the catalog ever showed stays on disk.               *)
THEOREM PicturesAreKept == Spec => []PicturesKept
<1>1. IInv => PicturesKept
  BY DEF IInv
<1> QED
  BY <1>1, ImportsInvariant, PTL

(* Failed imports leave no picture and no temporary file behind.           *)
THEOREM FailuresAreTraceless == Spec => []FailuresTraceless
<1>1. IInv => FailuresTraceless
  BY DEF IInv
<1> QED
  BY <1>1, ImportsInvariant, PTL

-----------------------------------------------------------------------------
(* The part of the pictures in a step of the storefront.                   *)
LEMMA CatalogAfter == IInv' => PicturesKept'
<1>1. IInv => PicturesKept
  BY DEF IInv
<1> QED
  BY <1>1, PTL

LEMMA StepImplements ==
    ASSUME IInv, Next, IInv' PROVE [Promise!Next]_<<catalog, media>>
<1>1. Shown(catalog)' \subseteq media' /\ Shown(catalog) \subseteq media
  BY CatalogAfter, IInvParts DEF PicturesKept
<1>2. CASE catalog' = catalog
  <2>1. Promise!Files
    BY <1>1, <1>2 DEF Promise!Files, Promise!Pictures, Shown
  <2> QED
    BY <2>1 DEF Promise!Next
<1>3. ASSUME NEW b \in Barcodes, NEW price \in Prices, NEW active \in BOOLEAN,
             Edit(b, price, active)
      PROVE  Promise!Next
  <2>1. Promise!Edit(b, price, active)
    BY <1>3 DEF Edit, Promise!Edit
  <2> QED
    BY <2>1 DEF Promise!Next
<1>4. ASSUME NEW i \in Importers, Commit(i) PROVE Promise!Next
  <2>1. /\ imp[i].pc = "write" /\ Temps(i) = {} /\ imp[i].todo = {}
        /\ catalog' = IF imp[i].full THEN Hidden(imp[i].table, Book(i)) ELSE imp[i].table
    BY <1>4 DEF Commit
  <2>2. PICK table :
            table = IF imp[i].full THEN Hidden(imp[i].table, Book(i)) ELSE imp[i].table
    OBVIOUS
  <2>3. Promise!InForce(catalog, table, Book(i), imp[i].full) /\ catalog' = table
    BY <2>1, <2>2, InForceAtCommit
  <2>4. Book(i) \in Workbooks /\ imp[i].full \in BOOLEAN /\ media' = media
    BY <1>4, <2>1, Writing DEF Local, Commit
  <2>5. PICK book \in Workbooks, full \in BOOLEAN : book = Book(i) /\ full = imp[i].full
    BY <2>4
  <2>6. Promise!InForce(catalog, catalog', book, full)
    BY <2>3, <2>5
  <2>7. Promise!Pictures(catalog) \cup Promise!Pictures(catalog') \subseteq media'
    BY <1>1, <2>4 DEF Promise!Pictures, Shown
  <2>8. Promise!Import(book, full)
    BY <2>6, <2>7 DEF Promise!Import
  <2> QED
    BY <2>8 DEF Promise!Next
<1>5. ASSUME NEW i \in Importers, Step(i), ~Commit(i) PROVE catalog' = catalog
  BY <1>5 DEF Step, SlotBusy, Acquire, Stage, Parse, Begin, Publish, Upsert, Archive,
              ArchiveFails, Reject, Abort, Finish
<1>6. ASSUME NEW i \in Importers,
             \/ \E batch \in Batches, full \in BOOLEAN : Start(i, batch, full)
             \/ Crash(i)
      PROVE  catalog' = catalog
  BY <1>6 DEF Start, Crash
<1> QED
  BY <1>2, <1>3, <1>4, <1>5, <1>6 DEF Next

(* Imports implement the storefront: a price list comes into force whole   *)
(* or not at all, and its pictures with it.                                *)
THEOREM ImportsImplementStorefront == Spec => ImplementsStorefront
<1>1. Init => Promise!Init
  BY DEF Init, EmptyTable, Promise!Init
<1>2. IInv /\ [Next]_vars /\ IInv' => [Promise!Next]_<<catalog, media>>
  BY StepImplements DEF vars
<1> QED
  BY <1>1, <1>2, ImportsInvariant, PTL DEF Spec, ImplementsStorefront, Promise!Spec

-----------------------------------------------------------------------------
(* How far an importer is: what its report says of the files so far, and   *)
(* which of its files are staged.  The lengths of batches and the bytes of *)
(* a batch are compared, never computed.                                   *)
Reported(i) ==
    /\ imp[i].pc \in {"slot", "stage"}
         => /\ imp[i].next = 1 /\ imp[i].staged \in Nat
            /\ imp[i].committed = {} /\ imp[i].completed = {} /\ imp[i].failed = {}
    /\ imp[i].pc \in {"file", "begin", "write"} => imp[i].completed = imp[i].committed
    /\ imp[i].pc = "archive" => imp[i].committed = imp[i].completed \cup {imp[i].next}
    /\ imp[i].pc \in {"file", "begin", "write", "archive"}
         => /\ imp[i].failed \cap imp[i].committed = {}
            /\ imp[i].failed \cup imp[i].completed = 1..(imp[i].next - 1)

Ready(i) == imp[i].pc \in {"file", "begin", "write", "archive"}

Staged(i) ==
    i \in Servers
    => /\ imp[i].pc = "slot" => imp[i].staged = 0
       /\ imp[i].pc = "stage" => \A k \in 1..imp[i].staged : <<i, k>> \in stages
       /\ Ready(i)
            => /\ imp[i].staged = Len(imp[i].batch)
               /\ BatchBytes(imp[i].batch, Len(imp[i].batch)) <= MaxUploadBytes
               /\ \A k \in imp[i].next..Len(imp[i].batch) : <<i, k>> \in stages

Progress == \A i \in Importers : Reported(i) /\ Staged(i)

(* A step of another importer, which keeps what this one has staged.       *)
LEMMA OthersProgress ==
    ASSUME NEW j \in Importers, Reported(j), Staged(j), imp'[j] = imp[j],
           InSlot(j) => \A k : <<j, k>> \in stages => <<j, k>> \in stages'
    PROVE  Reported(j)' /\ Staged(j)'
BY DEF Reported, Staged, Ready, InSlot

(* A step of an importer that only moves on inside one file.               *)
LEMMA SameFileProgress ==
    ASSUME IInv, Progress, NEW i \in Importers,
           imp[i].pc \in {"file", "begin", "write"},
           imp'[i].pc \in {"file", "begin", "write"},
           imp'[i].next = imp[i].next, imp'[i].batch = imp[i].batch,
           imp'[i].staged = imp[i].staged, imp'[i].failed = imp[i].failed,
           imp'[i].committed = imp[i].committed, imp'[i].completed = imp[i].completed,
           stages' = stages
    PROVE  Reported(i)' /\ Staged(i)'
BY DEF Progress, Reported, Staged, Ready

(* A step of an importer that goes on to the next file.                    *)
LEMMA NextFileProgress ==
    ASSUME IInv, Progress, NEW i \in Importers, Ready(i), imp[i].next \in Numbers,
           imp'[i].pc = "file",
           imp'[i].next = imp[i].next + 1, imp'[i].batch = imp[i].batch,
           imp'[i].staged = imp[i].staged,
           imp'[i].completed = imp'[i].committed,
           imp'[i].failed \cap imp'[i].committed = {},
           imp'[i].failed \cup imp'[i].completed
             = imp[i].failed \cup imp[i].completed \cup {imp[i].next},
           \A k : k # imp[i].next /\ <<i, k>> \in stages => <<i, k>> \in stages'
    PROVE  Reported(i)' /\ Staged(i)'
<1>1. imp[i].next \in Nat /\ imp[i].next > 0
  BY FilesAssumption DEF Numbers
<1> DEFINE n == imp[i].next
<1>2. 1..((n + 1) - 1) = 1..(n - 1) \cup {n}
  BY <1>1
<1>3. imp[i].failed \cup imp[i].completed = 1..(n - 1)
  BY DEF Progress, Reported, Ready
<1>4. Reported(i)'
  BY <1>2, <1>3 DEF Reported
<1>5. ASSUME i \in Servers
      PROVE  /\ imp[i].staged = Len(imp[i].batch)
             /\ BatchBytes(imp[i].batch, Len(imp[i].batch)) <= MaxUploadBytes
             /\ \A k \in (n + 1)..Len(imp[i].batch) : <<i, k>> \in stages'
  <2>1. /\ imp[i].staged = Len(imp[i].batch)
        /\ BatchBytes(imp[i].batch, Len(imp[i].batch)) <= MaxUploadBytes
        /\ \A k \in n..Len(imp[i].batch) : <<i, k>> \in stages
    BY <1>5 DEF Progress, Staged
  <2>2. Len(imp[i].batch) \in Nat
    <3>1. imp[i].batch \in Batches
      BY Typed DEF Ready, Well
    <3> QED
      BY <3>1, BatchType, LenProperties
  <2>3. ASSUME NEW k \in (n + 1)..Len(imp[i].batch)
        PROVE  k \in n..Len(imp[i].batch) /\ k # n
    BY <1>1, <2>2
  <2> QED
    BY <2>1, <2>3
<1>6. Staged(i)'
  BY <1>5 DEF Staged, Ready
<1> QED
  BY <1>4, <1>6

LEMMA InitProgress == Init => Progress
BY DEF Init, Progress, Reported, Staged, Ready, Idle

-----------------------------------------------------------------------------
(* Each step keeps to this; first, what it does with the staged files of   *)
(* others.                                                                 *)
LEMMA OthersStages ==
    ASSUME IInv, NEW i \in Importers,
           \/ Step(i) \/ Crash(i)
           \/ \E batch \in Batches, full \in BOOLEAN : Start(i, batch, full),
           NEW j \in Importers \ {i}, InSlot(j), NEW k, <<j, k>> \in stages
    PROVE  <<j, k>> \in stages'
<1>1. slot = j /\ slot # "free"
  BY Typed, ImportersAssumption DEF Well
<1>2. <<j, k>> \notin Stages(i)
  BY DEF Stages
<1>3. ~Acquire(i)
  BY <1>1 DEF Acquire
<1> QED
  BY <1>2, <1>3 DEF Step, SlotBusy, Stage, Parse, Begin, Publish, Upsert, Commit, Archive,
                    ArchiveFails, Reject, Abort, Finish, Crash, Start

LEMMA OthersKept ==
    ASSUME IInv, NEW i \in Importers,
           \/ Step(i) \/ Crash(i)
           \/ \E batch \in Batches, full \in BOOLEAN : Start(i, batch, full),
           NEW j \in Importers \ {i}
    PROVE  imp'[j] = imp[j]
<1>1. imp \in [Importers -> Local]
  BY Typed
<1> QED
  BY <1>1 DEF Step, SlotBusy, Acquire, Stage, Parse, Begin, Publish, Upsert, Commit, Archive,
              ArchiveFails, Reject, Abort, Finish, Crash, Start

LEMMA EndedProgress ==
    ASSUME NEW i \in Importers, imp'[i] = Idle PROVE Reported(i)' /\ Staged(i)'
BY DEF Reported, Staged, Ready, Idle

LEMMA StartProgress ==
    ASSUME IInv, NEW i \in Importers, NEW batch \in Batches, NEW full \in BOOLEAN,
           Start(i, batch, full)
    PROVE  Reported(i)' /\ Staged(i)'
<1>1. imp'[i] = [Idle EXCEPT !.pc = "slot", !.batch = batch, !.full = full]
  BY Typed DEF Start
<1>2. /\ imp'[i].pc = "slot" /\ imp'[i].next = 1 /\ imp'[i].staged = 0
      /\ imp'[i].committed = {} /\ imp'[i].completed = {} /\ imp'[i].failed = {}
  BY <1>1 DEF Idle
<1> QED
  BY <1>2 DEF Reported, Staged, Ready

LEMMA AcquireProgress ==
    ASSUME IInv, Progress, NEW i \in Importers, Acquire(i)
    PROVE  Reported(i)' /\ Staged(i)'
<1>1. imp'[i] = [imp[i] EXCEPT !.pc = IF i \in Servers THEN "stage" ELSE "file"]
      /\ imp[i].pc = "slot" /\ imp[i] \in Local
  BY Typed DEF Acquire
<1>2. /\ imp'[i].pc = IF i \in Servers THEN "stage" ELSE "file"
      /\ imp'[i].next = imp[i].next /\ imp'[i].staged = imp[i].staged
      /\ imp'[i].committed = imp[i].committed /\ imp'[i].completed = imp[i].completed
      /\ imp'[i].failed = imp[i].failed
  BY <1>1 DEF Local
<1>3. /\ imp[i].next = 1 /\ imp[i].committed = {} /\ imp[i].completed = {}
      /\ imp[i].failed = {} /\ (i \in Servers => imp[i].staged = 0) /\ imp[i].staged \in Nat
  BY <1>1 DEF Progress, Reported, Staged
<1>4. 1..0 = {} /\ 1..(1 - 1) = {}
  OBVIOUS
<1>5. Reported(i)'
  BY <1>2, <1>3, <1>4 DEF Reported
<1>6. Staged(i)'
  BY <1>2, <1>3, <1>4 DEF Staged, Ready
<1> QED
  BY <1>5, <1>6

LEMMA StageProgress ==
    ASSUME IInv, Progress, NEW i \in Importers, Stage(i)
    PROVE  Reported(i)' /\ Staged(i)'
<1> DEFINE k == imp[i].staged + 1
           n == Len(imp[i].batch)
<1>1. /\ imp[i].pc = "stage" /\ imp[i] \in Local /\ stages' = stages \cup {<<i, k>>}
      /\ BatchBytes(imp[i].batch, k) <= MaxUploadBytes
      /\ imp'[i] = [imp[i] EXCEPT !.staged = k, !.pc = IF k = n THEN "file" ELSE "stage"]
  BY Typed DEF Stage
<1>2. /\ imp'[i].pc = IF k = n THEN "file" ELSE "stage"
      /\ imp'[i].next = imp[i].next /\ imp'[i].staged = k /\ imp'[i].batch = imp[i].batch
      /\ imp'[i].committed = imp[i].committed /\ imp'[i].completed = imp[i].completed
      /\ imp'[i].failed = imp[i].failed
  BY <1>1 DEF Local
<1>3. /\ imp[i].next = 1 /\ imp[i].committed = {} /\ imp[i].completed = {}
      /\ imp[i].failed = {} /\ imp[i].staged \in Nat
  BY <1>1 DEF Progress, Reported
<1>4. i \in Servers /\ \A l \in 1..imp[i].staged : <<i, l>> \in stages
  BY <1>1, Typed DEF Well, Progress, Staged
<1>5. \A l \in 1..k : <<i, l>> \in stages'
  <2> SUFFICES ASSUME NEW l \in 1..k PROVE <<i, l>> \in stages'
    OBVIOUS
  <2>1. l = k \/ l \in 1..imp[i].staged
    BY <1>3
  <2> QED
    BY <1>1, <1>4, <2>1
<1>6. 1..(1 - 1) = {} /\ k \in Nat
  BY <1>3
<1> HIDE DEF k
<1>7. Reported(i)'
  BY <1>2, <1>3, <1>6 DEF Reported
<1>8. Staged(i)'
  BY <1>1, <1>2, <1>3, <1>5 DEF Staged, Ready
<1> QED
  BY <1>7, <1>8

LEMMA FileProgress ==
    ASSUME IInv, Progress, NEW i \in Importers,
           \/ Parse(i) \/ Begin(i)
           \/ \E img \in Images : Publish(i, img)
           \/ \E b \in Barcodes : Upsert(i, b)
    PROVE  Reported(i)' /\ Staged(i)'
<1>1. imp[i] \in Local /\ imp \in [Importers -> Local]
  BY Typed
<1> DEFINE Goes ==
      /\ imp[i].pc \in {"file", "begin", "write"} /\ imp'[i].pc \in {"file", "begin", "write"}
      /\ imp'[i].next = imp[i].next /\ imp'[i].batch = imp[i].batch
      /\ imp'[i].staged = imp[i].staged /\ imp'[i].failed = imp[i].failed
      /\ imp'[i].committed = imp[i].committed /\ imp'[i].completed = imp[i].completed
      /\ stages' = stages
<1>2. ASSUME Parse(i) PROVE Goes
  BY <1>1, <1>2 DEF Parse, Local
<1>3. ASSUME Begin(i) PROVE Goes
  BY <1>1, <1>3 DEF Begin, Local
<1>4. ASSUME NEW img \in Images, Publish(i, img) PROVE Goes
  BY <1>1, <1>4 DEF Publish, Local
<1>5. ASSUME NEW b \in Barcodes, Upsert(i, b) PROVE Goes
  BY <1>1, <1>5 DEF Upsert, Local
<1>6. Goes
  <2> HIDE DEF Goes
  <2> QED
    BY <1>2, <1>3, <1>4, <1>5
<1> QED
  BY <1>6, SameFileProgress

LEMMA CommitProgress ==
    ASSUME IInv, Progress, NEW i \in Importers, Commit(i)
    PROVE  Reported(i)' /\ Staged(i)'
<1> DEFINE done == imp[i].committed \cup {imp[i].next}
           a == Returned(i)
           b == Advanced(i)
<1>1. imp[i].pc = "write" /\ stages' = stages
      /\ imp'[i] = IF i \in Servers THEN [a EXCEPT !.pc = "archive", !.committed = done]
                   ELSE [b EXCEPT !.committed = done, !.completed = done]
  BY Typed DEF Commit
<1>2. imp[i] \in Local /\ imp[i].next \in Numbers
  BY <1>1, Writing
<1>3. /\ imp[i].completed = imp[i].committed
      /\ imp[i].failed \cap imp[i].committed = {}
      /\ imp[i].failed \cup imp[i].completed = 1..(imp[i].next - 1)
  BY <1>1 DEF Progress, Reported
<1>4. imp[i].next \notin imp[i].failed
  <2>1. imp[i].next \in Nat
    BY <1>2, FilesAssumption DEF Numbers
  <2>2. imp[i].next \notin 1..(imp[i].next - 1)
    BY <2>1
  <2> QED
    BY <1>3, <2>2
<1>5. CASE i \in Servers
  <2>1. /\ a \in Local /\ a.next = imp[i].next /\ a.batch = imp[i].batch
        /\ a.staged = imp[i].staged /\ a.completed = imp[i].completed
        /\ a.failed = imp[i].failed
    BY <1>2, ReturnedFields
  <2> HIDE DEF a, done
  <2>2. /\ imp'[i].pc = "archive" /\ imp'[i].next = imp[i].next
        /\ imp'[i].batch = imp[i].batch /\ imp'[i].staged = imp[i].staged
        /\ imp'[i].completed = imp[i].completed /\ imp'[i].failed = imp[i].failed
        /\ imp'[i].committed = done
    BY <1>1, <1>5, <2>1 DEF Local
  <2>3. Reported(i)'
    BY <1>3, <1>4, <2>2 DEF Reported, done
  <2>4. Staged(i)'
    BY <1>1, <2>2 DEF Progress, Staged, Ready
  <2> QED
    BY <2>3, <2>4
<1>6. CASE i \notin Servers
  <2>1. /\ b \in Local /\ b.pc = "file" /\ b.next = imp[i].next + 1
        /\ b.batch = imp[i].batch /\ b.staged = imp[i].staged /\ b.failed = imp[i].failed
    BY <1>2, AdvancedFields
  <2> HIDE DEF b, done
  <2>2. /\ imp'[i].pc = "file" /\ imp'[i].next = imp[i].next + 1
        /\ imp'[i].batch = imp[i].batch /\ imp'[i].staged = imp[i].staged
        /\ imp'[i].failed = imp[i].failed
        /\ imp'[i].completed = done /\ imp'[i].committed = done
    BY <1>1, <1>6, <2>1 DEF Local
  <2>3. /\ imp'[i].failed \cap imp'[i].committed = {}
        /\ imp'[i].failed \cup imp'[i].completed
             = imp[i].failed \cup imp[i].completed \cup {imp[i].next}
    BY <1>3, <1>4, <2>2 DEF done
  <2> QED
    BY <1>1, <1>2, <2>2, <2>3, NextFileProgress DEF Ready
<1> QED
  BY <1>5, <1>6

LEMMA ArchiveProgress ==
    ASSUME IInv, Progress, NEW i \in Importers, Archive(i) \/ ArchiveFails(i)
    PROVE  Reported(i)' /\ Staged(i)'
<1> DEFINE b == Advanced(i)
           done == imp[i].completed \cup {imp[i].next}
<1>1. imp[i].pc = "archive"
      /\ imp'[i] = [b EXCEPT !.completed = @ \cup {imp[i].next}]
      /\ (stages' = stages \/ stages' = stages \ {<<i, imp[i].next>>})
  BY Typed DEF Archive, ArchiveFails
<1>2. imp[i] \in Local /\ imp[i].next \in Numbers
  BY <1>1, Typed DEF AtFile
<1>3. /\ imp[i].committed = done
      /\ imp[i].failed \cap imp[i].committed = {}
  BY <1>1 DEF Progress, Reported
<1>4. /\ b \in Local /\ b.pc = "file" /\ b.next = imp[i].next + 1
      /\ b.batch = imp[i].batch /\ b.staged = imp[i].staged
      /\ b.failed = imp[i].failed /\ b.completed = imp[i].completed
      /\ b.committed = imp[i].committed
  BY <1>2, AdvancedFields
<1> HIDE DEF b
<1>5. /\ imp'[i].pc = "file" /\ imp'[i].next = imp[i].next + 1
      /\ imp'[i].batch = imp[i].batch /\ imp'[i].staged = imp[i].staged
      /\ imp'[i].failed = imp[i].failed
      /\ imp'[i].completed = done /\ imp'[i].committed = imp[i].committed
  BY <1>1, <1>4 DEF Local
<1>6. imp'[i].failed \cup imp'[i].completed
        = imp[i].failed \cup imp[i].completed \cup {imp[i].next}
  BY <1>5
<1>7. \A k : k # imp[i].next /\ <<i, k>> \in stages => <<i, k>> \in stages'
  BY <1>1
<1>8. imp'[i].completed = imp'[i].committed /\ imp'[i].failed \cap imp'[i].committed = {}
  BY <1>3, <1>5
<1> HIDE DEF done
<1> QED
  BY <1>1, <1>2, <1>5, <1>6, <1>7, <1>8, NextFileProgress DEF Ready

LEMMA RejectProgress ==
    ASSUME IInv, Progress, NEW i \in Importers, Reject(i)
    PROVE  Reported(i)' /\ Staged(i)'
<1> DEFINE b == Advanced(i)
<1>1. imp[i].pc \in {"file", "write"} /\ stages' = stages
      /\ imp'[i] = [b EXCEPT !.failed = @ \cup {imp[i].next}]
  BY Typed DEF Reject
<1>2. imp[i] \in Local /\ imp[i].next \in Numbers
  <2>1. imp[i].batch \in Batches /\ imp[i].next <= Len(imp[i].batch) /\ imp[i] \in Local
    BY <1>1, Typed DEF Reject, Well, AtFile
  <2> QED
    BY <2>1, BookType
<1>3. /\ imp[i].completed = imp[i].committed
      /\ imp[i].failed \cap imp[i].committed = {}
      /\ imp[i].failed \cup imp[i].completed = 1..(imp[i].next - 1)
  BY <1>1 DEF Progress, Reported
<1>4. imp[i].next \notin imp[i].committed
  <2>1. imp[i].next \in Nat
    BY <1>2, FilesAssumption DEF Numbers
  <2>2. imp[i].next \notin 1..(imp[i].next - 1)
    BY <2>1
  <2> QED
    BY <1>3, <2>2
<1>5. /\ b \in Local /\ b.pc = "file" /\ b.next = imp[i].next + 1
      /\ b.batch = imp[i].batch /\ b.staged = imp[i].staged
      /\ b.failed = imp[i].failed /\ b.completed = imp[i].completed
      /\ b.committed = imp[i].committed
  BY <1>2, AdvancedFields
<1> HIDE DEF b
<1>6. /\ imp'[i].pc = "file" /\ imp'[i].next = imp[i].next + 1
      /\ imp'[i].batch = imp[i].batch /\ imp'[i].staged = imp[i].staged
      /\ imp'[i].failed = imp[i].failed \cup {imp[i].next}
      /\ imp'[i].completed = imp[i].completed /\ imp'[i].committed = imp[i].committed
  BY <1>1, <1>5 DEF Local
<1>7. /\ imp'[i].failed \cup imp'[i].completed
           = imp[i].failed \cup imp[i].completed \cup {imp[i].next}
      /\ imp'[i].completed = imp'[i].committed
      /\ imp'[i].failed \cap imp'[i].committed = {}
  BY <1>3, <1>4, <1>6
<1> QED
  BY <1>1, <1>2, <1>6, <1>7, NextFileProgress DEF Ready

LEMMA NextProgress == IInv /\ Progress /\ [Next]_vars => Progress'
<1> SUFFICES ASSUME IInv, Progress, [Next]_vars PROVE Progress'
  OBVIOUS
<1>1. CASE UNCHANGED vars
  BY <1>1, OthersProgress DEF vars, Progress
<1>2. ASSUME NEW b \in Barcodes, NEW price \in Prices, NEW active \in BOOLEAN,
             Edit(b, price, active)
      PROVE  Progress'
  BY <1>2, OthersProgress DEF Edit, Progress
<1>3. ASSUME NEW i \in Importers,
             \/ Step(i) \/ Crash(i)
             \/ \E batch \in Batches, full \in BOOLEAN : Start(i, batch, full)
      PROVE  Progress'
  <2>1. ASSUME NEW j \in Importers \ {i} PROVE Reported(j)' /\ Staged(j)'
    <3>1. imp'[j] = imp[j]
      BY <1>3, OthersKept
    <3>2. InSlot(j) => \A k : <<j, k>> \in stages => <<j, k>> \in stages'
      BY <1>3, OthersStages
    <3> QED
      BY <3>1, <3>2, OthersProgress DEF Progress
  <2>2. SlotBusy(i) \/ Abort(i) \/ Finish(i) \/ Crash(i) => imp'[i] = Idle
    BY Typed DEF SlotBusy, Abort, Finish, Crash
  <2>3. Reported(i)' /\ Staged(i)'
    BY <1>3, <2>2, EndedProgress, StartProgress, AcquireProgress, StageProgress,
       FileProgress, CommitProgress, ArchiveProgress, RejectProgress DEF Step
  <2> QED
    BY <2>1, <2>3 DEF Progress
<1> QED
  BY <1>1, <1>2, <1>3 DEF Next

LEMMA ImportsProgress == Spec => []Progress
BY InitProgress, NextProgress, ImportsInvariant, PTL DEF Spec

(* The report of an upload is true: the files it calls imported are those  *)
(* that have committed, and it names every file.                           *)
THEOREM ReportIsTrue == Spec => []ReportTrue
<1>1. Progress => ReportTrue
  BY DEF Progress, Reported, ReportTrue
<1> QED
  BY <1>1, ImportsProgress, PTL

(* No importer deletes what another one has staged and will still read.    *)
THEOREM StagesAreLive == Spec => []StagesLive
<1>1. Progress => StagesLive
  <2> SUFFICES ASSUME Progress, NEW i \in Servers
               PROVE  /\ imp[i].pc = "stage" => \A k \in 1..imp[i].staged : <<i, k>> \in stages
                      /\ imp[i].pc \in {"file", "begin", "write", "archive"}
                           => \A k \in imp[i].next..Len(imp[i].batch) : <<i, k>> \in stages
    BY DEF StagesLive
  <2> QED
    BY DEF Progress, Staged, Ready, Importers
<1> QED
  BY <1>1, ImportsProgress, PTL

(* A server that writes to the catalog has staged all of its batch, within *)
(* the budget.                                                             *)
THEOREM BudgetIsFirst == Spec => []BudgetFirst
<1>1. IInv /\ Progress => BudgetFirst
  <2> SUFFICES ASSUME IInv, Progress, NEW i \in Servers, lock = i
               PROVE  /\ imp[i].staged = Len(imp[i].batch)
                      /\ BatchBytes(imp[i].batch, Len(imp[i].batch)) <= MaxUploadBytes
    BY DEF BudgetFirst
  <2>1. i \in Importers
    BY DEF Importers
  <2>2. Ready(i)
    BY <2>1, Typed DEF Well, Ready
  <2> QED
    BY <2>1, <2>2 DEF Progress, Staged
<1> QED
  BY <1>1, ImportsInvariant, ImportsProgress, PTL

-----------------------------------------------------------------------------
(* The archive.  What the bytes of a sequence are is in Sums.              *)
LEMMA BytesAreTotal ==
    ASSUME NEW sizes
    PROVE  Bytes(sizes) = SumFunctionOnSet(sizes, DOMAIN sizes)
BY DEF Bytes, FoldSeq, FoldFunction, FoldFunctionOnSet, SumFunctionOnSet

(* Fewer archives are within the limits, and so is none.                   *)
LEMMA KeptBounded ==
    ASSUME archives \in Seq(Nat), NEW k \in 0..Len(archives)
    PROVE  /\ Bytes(Kept(k)) \in Nat /\ Bytes(Kept(k)) <= Bytes(archives)
           /\ Len(Kept(k)) <= Len(archives)
           /\ k = Len(archives) => Bytes(Kept(k)) = 0 /\ Len(Kept(k)) = 0
<1>1. Kept(k) \in Seq(Nat) /\ Len(archives) \in Nat
  BY KeptType, LenProperties
<1>2. Bytes(Kept(k)) \in Nat /\ Bytes(Kept(k)) <= Bytes(archives)
  BY <1>1, BytesAreTotal, SumOfSeq, SumOfSuffix DEF Kept
<1>3. Len(Kept(k)) = Len(archives) - k
  <2>1. \A x \in (k + 1)..Len(archives) : archives[x] \in Nat
    BY <1>1, ElementOfSeq
  <2>2. Len(Kept(k)) = IF k + 1 <= Len(archives) THEN Len(archives) - (k + 1) + 1 ELSE 0
    BY <1>1, <2>1, SubSeqProperties DEF Kept
  <2> QED BY <1>1, <2>2
<1>4. ASSUME k = Len(archives) PROVE Bytes(Kept(k)) = 0
  <2>1. DOMAIN Kept(k) = {}
    BY <1>1, <1>3, <1>4, LenProperties
  <2> QED BY <2>1, BytesAreTotal, SumEmpty
<1> QED BY <1>1, <1>2, <1>3, <1>4

(* No file of a batch is larger than all of them together.                 *)
LEMMA SizeInBudget ==
    ASSUME NEW batch \in Batches, NEW n \in 1..Len(batch)
    PROVE  /\ BatchBytes(batch, Len(batch)) \in Nat
           /\ batch[n].size <= BatchBytes(batch, Len(batch))
<1> DEFINE sizes == [k \in 1..Len(batch) |-> batch[k].size]
<1>1. \A k \in DOMAIN sizes : sizes[k] \in Nat
  BY BatchType
<1>2. IsFiniteSet(DOMAIN sizes)
  BY BatchType, FS_Interval DEF Numbers
<1>3. n \in DOMAIN sizes /\ sizes[n] = batch[n].size
  OBVIOUS
<1> HIDE DEF sizes
<1>4. /\ SumFunctionOnSet(sizes, DOMAIN sizes) \in Nat
      /\ sizes[n] <= SumFunctionOnSet(sizes, DOMAIN sizes)
  BY <1>1, <1>2, <1>3, SumNat, SumOne
<1>5. BatchBytes(batch, Len(batch)) = SumFunctionOnSet(sizes, DOMAIN sizes)
  BY BytesAreTotal DEF BatchBytes, sizes
<1> QED BY <1>3, <1>4, <1>5

(* A file that is to be archived fits into an empty archive, for its batch *)
(* was within its budget.                                                  *)
LEMMA SizeInArchive ==
    ASSUME IInv, Progress, NEW i \in Importers, i \in Servers, imp[i].pc = "archive"
    PROVE  Size(i) \in Nat /\ Size(i) <= MaxArchiveBytes
<1>1. imp[i] \in Local /\ imp[i].batch \in Batches /\ imp[i].next <= Len(imp[i].batch)
  BY Typed DEF Well, AtFile
<1>2. Size(i) \in Nat /\ imp[i].next \in Numbers
  BY <1>1, BookType
<1>3. imp[i].next \in 1..Len(imp[i].batch) /\ Len(imp[i].batch) \in Numbers
  BY <1>1, <1>2, BatchType, FilesAssumption DEF Numbers
<1>4. BatchBytes(imp[i].batch, Len(imp[i].batch)) <= MaxUploadBytes
  BY DEF Progress, Staged, Ready
<1>5. /\ BatchBytes(imp[i].batch, Len(imp[i].batch)) \in Nat
      /\ Size(i) <= BatchBytes(imp[i].batch, Len(imp[i].batch))
  BY <1>1, <1>3, SizeInBudget DEF Size
<1> QED BY <1>2, <1>4, <1>5, FilesAssumption

(* The script does not archive.                                            *)
ServersArchive == \A i \in Importers : imp[i].pc = "archive" => i \in Servers

LEMMA InitArchive == Init => ServersArchive /\ ArchiveBounded
<1> SUFFICES ASSUME Init PROVE ServersArchive /\ ArchiveBounded
  OBVIOUS
<1>1. Bytes(<< >>) = 0 /\ Len(<< >>) = 0
  BY BytesAreTotal, SumEmpty
<1> QED BY <1>1, FilesAssumption DEF Init, Idle, ServersArchive, ArchiveBounded

(* What is left of the archives, with the new one or without.              *)
LEMMA ArchivesAfter ==
    ASSUME IInv, Progress, ServersArchive, ArchiveBounded,
           \/ UNCHANGED archives
           \/ \E k \in 0..Len(archives) : archives' = Kept(k)
           \/ \E i \in Importers : Archive(i)
    PROVE  ArchiveBounded'
<1>1. archives \in Seq(Nat) /\ Len(archives) \in Nat /\ Bytes(archives) \in Nat
  BY IInvParts, LenProperties, BytesAreTotal, SumOfSeq DEF TypeOK
<1>2. CASE UNCHANGED archives
  BY <1>2 DEF ArchiveBounded
<1>3. ASSUME NEW k \in 0..Len(archives), archives' = Kept(k) PROVE ArchiveBounded'
  <2>1. /\ Bytes(archives') \in Nat /\ Bytes(archives') <= Bytes(archives)
        /\ Len(archives') <= Len(archives) /\ Len(archives') \in Nat
    BY <1>1, <1>3, KeptBounded, KeptType, LenProperties
  <2> QED BY <1>1, <2>1, FilesAssumption DEF ArchiveBounded
<1>4. ASSUME NEW i \in Importers, Archive(i) PROVE ArchiveBounded'
  <2>1. Size(i) \in Nat /\ Size(i) <= MaxArchiveBytes
    BY <1>4, SizeInArchive DEF Archive, ServersArchive
  <2>2. PICK k \in Prunable(Size(i), 1) : archives' = Append(Kept(k), Size(i))
    BY <1>4 DEF Archive
  <2>3. k \in 0..Len(archives) /\ (k = Len(archives) \/ Fits(Kept(k), Size(i), 1))
    BY <2>2 DEF Prunable
  <2>4. /\ Kept(k) \in Seq(Nat) /\ Bytes(Kept(k)) \in Nat /\ Len(Kept(k)) \in Nat
        /\ k = Len(archives) => Bytes(Kept(k)) = 0 /\ Len(Kept(k)) = 0
    BY <1>1, <2>3, KeptType, KeptBounded, LenProperties
  <2>5. Bytes(archives') = Bytes(Kept(k)) + Size(i)
    BY <2>1, <2>2, <2>4, BytesAreTotal, SumAppended
  <2>6. Len(archives') = Len(Kept(k)) + 1
    BY <2>1, <2>2, <2>4, AppendProperties
  <2>7. Bytes(archives') <= MaxArchiveBytes /\ Len(archives') <= MaxArchiveFiles
    BY <2>1, <2>3, <2>4, <2>5, <2>6, FilesAssumption DEF Fits
  <2> QED BY <2>7 DEF ArchiveBounded
<1> QED BY <1>2, <1>3, <1>4

LEMMA NextArchive ==
    IInv /\ Progress /\ ServersArchive /\ ArchiveBounded /\ [Next]_vars
        => ServersArchive' /\ ArchiveBounded'
<1> SUFFICES ASSUME IInv, Progress, ServersArchive, ArchiveBounded, [Next]_vars
             PROVE  ServersArchive' /\ ArchiveBounded'
  OBVIOUS
<1>1. CASE UNCHANGED vars
  BY <1>1, ArchivesAfter DEF vars, ServersArchive
<1>2. ASSUME NEW b \in Barcodes, NEW price \in Prices, NEW active \in BOOLEAN,
             Edit(b, price, active)
      PROVE  ServersArchive' /\ ArchiveBounded'
  BY <1>2, ArchivesAfter DEF Edit, ServersArchive
<1>3. ASSUME NEW i \in Importers,
             \/ \E batch \in Batches, full \in BOOLEAN : Start(i, batch, full)
             \/ Step(i) \/ Crash(i)
      PROVE  ServersArchive' /\ ArchiveBounded'
  <2>1. \/ UNCHANGED archives
        \/ \E k \in 0..Len(archives) : archives' = Kept(k)
        \/ \E j \in Importers : Archive(j)
    BY <1>3 DEF Start, Crash, Step, SlotBusy, Acquire, Stage, Parse, Begin, Publish, Upsert,
       Commit, ArchiveFails, Reject, Abort, Finish, Prunable
  <2>2. \A j \in Importers : imp'[j].pc = "archive" => imp[j].pc = "archive" \/ j \in Servers
    <3>1. imp[i] \in Local /\ imp \in [Importers -> Local]
      BY Typed
    <3>2. \A j \in Importers \ {i} : imp'[j] = imp[j]
      BY <1>3, <3>1 DEF Start, Crash, Step, SlotBusy, Acquire, Stage, Parse, Begin, Publish,
         Upsert, Commit, Archive, ArchiveFails, Reject, Abort, Finish
    <3>3. ASSUME imp'[i].pc = "archive" PROVE imp[i].pc = "archive" \/ i \in Servers
      <4>1. CASE Commit(i)
        <5>1. imp[i].next \in Numbers
          BY <4>1, Typed DEF Commit, AtFile
        <5>2. Advanced(i) \in Local /\ Advanced(i).pc = "file"
          BY <3>1, <5>1, AdvancedFields
        <5>3. i \notin Servers =>
                \E done : imp' = [imp EXCEPT ![i] =
                            [Advanced(i) EXCEPT !.committed = done, !.completed = done]]
          BY <4>1 DEF Commit
        <5>4. i \notin Servers => imp'[i].pc = "file"
          <6> HIDE DEF Advanced
          <6> QED BY <3>1, <5>2, <5>3 DEF Local
        <5> QED BY <3>3, <5>4
      <4>2. CASE Archive(i) \/ ArchiveFails(i) \/ Reject(i)
        BY <4>2 DEF Archive, ArchiveFails, Reject
      <4>3. CASE Crash(i) \/ SlotBusy(i) \/ Abort(i) \/ Finish(i)
        <5>1. imp'[i] = Idle
          BY <3>1, <4>3 DEF Crash, SlotBusy, Abort, Finish
        <5> QED BY <3>3, <5>1 DEF Idle
      <4>4. CASE \E batch \in Batches, full \in BOOLEAN : Start(i, batch, full)
        <5>1. imp'[i].pc = "slot"
          BY <3>1, <4>4 DEF Start, Idle
        <5> QED BY <3>3, <5>1
      <4>5. CASE Acquire(i) \/ Stage(i) \/ Parse(i) \/ Begin(i)
        <5>1. ASSUME Acquire(i) PROVE imp'[i].pc \in {"stage", "file"}
          BY <3>1, <5>1 DEF Acquire, Local
        <5>2. ASSUME Stage(i) PROVE imp'[i].pc \in {"stage", "file"}
          BY <3>1, <5>2 DEF Stage, Local
        <5>3. ASSUME Parse(i) \/ Begin(i) PROVE imp'[i].pc \in {"begin", "write"}
          BY <3>1, <5>3 DEF Parse, Begin, Local
        <5> QED BY <3>3, <4>5, <5>1, <5>2, <5>3
      <4>6. CASE (\E img \in Images : Publish(i, img)) \/ (\E b \in Barcodes : Upsert(i, b))
        <5>1. ASSUME NEW img \in Images, Publish(i, img) PROVE imp'[i].pc = imp[i].pc
          BY <3>1, <5>1 DEF Publish, Local
        <5>2. ASSUME NEW b \in Barcodes, Upsert(i, b) PROVE imp'[i].pc = imp[i].pc
          BY <3>1, <5>2 DEF Upsert, Local
        <5> QED BY <3>3, <4>6, <5>1, <5>2
      <4> QED BY <1>3, <4>1, <4>2, <4>3, <4>4, <4>5, <4>6 DEF Step
    <3> QED BY <3>2, <3>3
  <2> QED BY <2>1, <2>2, ArchivesAfter DEF ServersArchive
<1> QED BY <1>1, <1>2, <1>3 DEF Next

(* The archive keeps within its limits, the new file included: a file that *)
(* does not fit beside any older one is alone, and within the limits since *)
(* its upload was within its budget (_prune_archives, run_imports).        *)
THEOREM ArchiveIsBounded == Spec => []ArchiveBounded
<1>1. Init => ServersArchive /\ ArchiveBounded
  BY InitArchive
<1> QED
  BY <1>1, NextArchive, ImportsInvariant, ImportsProgress, PTL DEF Spec
=============================================================================
