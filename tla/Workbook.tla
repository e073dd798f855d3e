------------------------------ MODULE Workbook ------------------------------
(***************************************************************************)
(* Reading a price list (shop/xlsx_importer.py parse_workbook, called by   *)
(* import_xlsx).  A file passes the checks of the archive, then its sheets *)
(* are read one by one: the row of headers is found, and each row below it *)
(* is a product, empty, or wrong, which condemns the file.  The pictures   *)
(* that are anchored to a product's row are decoded once for each file.    *)
(* A refused file fails alone; a file over a budget ends the whole batch   *)
(* (ImportLimitError), so the two must not be confused.                    *)
(*                                                                         *)
(* A cell is a text; what match_header, normalize_barcode and              *)
(* parse_price_cents make of it are constants.  The budgets for rows,      *)
(* cells, XML and text are all counters charged while a sheet is read; the *)
(* one for rows stands for them.                                           *)
(***************************************************************************)
EXTENDS Integers, Sequences, FiniteSets, FiniteSetsExt, Functions

CONSTANTS
    Workbooks,      \* the files that may be imported
    FieldOf,        \* by text: the field it is a header of, or "none"
    BarcodeOf,      \* by text: the barcode it is, or "none"
    PriceOf,        \* by text: the price it is, or 0
    LongTexts,      \* texts over the budget of the field they are put in
    HeaderRows,     \* 20 in the code: rows among which the header is sought
    MaxRows,        \* MAX_ROWS
    MaxImages,      \* MAX_IMAGES
    MaxImageBytes   \* MAX_TOTAL_IMAGE_BYTES

(* A sheet has its rows by number; of a picture, its size and what is      *)
(* wrong with it matter.                                                   *)
IsBook(b) ==
    /\ b.archive \subseteq {"broken", "large"}
    /\ b.sheets \in Seq(Range(b.sheets))
    /\ \A i \in DOMAIN b.sheets :
          LET s == b.sheets[i]
          IN  /\ s.there \in BOOLEAN /\ s.wrong \subseteq {"cells", "drawing"}
              /\ IsFiniteSet(DOMAIN s.rows) /\ DOMAIN s.rows \subseteq Nat
              /\ IsFiniteSet(s.anchors) /\ \A a \in s.anchors : a.col \in Nat
    /\ IsFiniteSet(DOMAIN b.images)
    /\ \A p \in DOMAIN b.images :
          /\ b.images[p].bytes \in Nat
          /\ b.images[p].broken \in BOOLEAN /\ b.images[p].large \in BOOLEAN

ASSUME BooksAssumption == \A b \in Workbooks : IsBook(b)

ASSUME BudgetsAssumption ==
    /\ HeaderRows \in Nat \ {0}
    /\ MaxRows \in Nat /\ MaxImages \in Nat /\ MaxImageBytes \in Nat

VARIABLES
    book,       \* the file
    pc,         \* what is read: the archive, a sheet, a row, its pictures; or the end
    sheet,      \* the position of the sheet in the book
    columns,    \* where detect_header found each field in this sheet
    rest,       \* the rows of the sheet that are still to be read
    anchored,   \* the anchors of the row whose pictures are still to be taken
    shown,      \* the pictures of the row that are taken
    seen,       \* the barcodes that were read
    media,      \* the pictures that were decoded, by path
    products,   \* the result
    charged,    \* WorkbookReader's counters
    late        \* history: the deadline passed

vars == <<book, pc, sheet, columns, rest, anchored, shown, seen, media,
          products, charged, late>>

place == <<sheet, columns, rest>>
picking == <<anchored, shown>>
kept == <<seen, media, products>>

Required == {"model", "barcode", "price"}

Scored == Required \cup {"color", "description"}

Optional == {"category", "color", "box_qty", "description", "comment"}

-----------------------------------------------------------------------------
(* A row is a sequence of cells [col, text] in the order of the document.  *)
Headers(row) == {FieldOf[row[i].text] : i \in DOMAIN row} \ {"none"}

(* The first cell that is a header of the field gives the column.          *)
Column(row, field) ==
    row[Min({i \in DOMAIN row : FieldOf[row[i].text] = field})].col

Score(row) == Cardinality(Headers(row) \cap Scored)

HeaderArea(rows) ==
    {r \in DOMAIN rows : Cardinality({q \in DOMAIN rows : q < r}) < HeaderRows}

(* Mutant of HeaderRow: the last of the best rows.                         *)
HeaderRowLast(rows) ==
    CHOOSE r \in HeaderArea(rows) : \A q \in HeaderArea(rows) :
        \/ Score(rows[q]) < Score(rows[r])
        \/ Score(rows[q]) = Score(rows[r]) /\ q <= r

(* The row with the most headers, and of those the first.                  *)
HeaderRow(rows) ==
    CHOOSE r \in HeaderArea(rows) : \A q \in HeaderArea(rows) :
        \/ Score(rows[q]) < Score(rows[r])
        \/ Score(rows[q]) = Score(rows[r]) /\ r <= q

HasHeader(rows) ==
    DOMAIN rows # {} /\ Required \subseteq Headers(rows[HeaderRow(rows)])

(* Price lists have the category before the model, often without a header. *)
Layout(row) ==
    LET found == [f \in Headers(row) |-> Column(row, f)]
    IN  IF "category" \notin Headers(row) /\ found["model"] > 0
        THEN [f \in Headers(row) \cup {"category"} |->
                 IF f = "category" THEN found["model"] - 1 ELSE found[f]]
        ELSE found

Text(row, layout, field) ==
    LET there == {i \in DOMAIN row : field \in DOMAIN layout /\ row[i].col = layout[field]}
    IN  IF there = {} THEN "" ELSE row[Min(there)].text

(* What a row has of the three fields that a product needs.                *)
Has(row, layout) ==
    {f \in Required :
        LET text == Text(row, layout, f)
        IN  CASE f = "model"   -> text # ""
              [] f = "barcode" -> BarcodeOf[text] # "none"
              [] f = "price"   -> PriceOf[text] # 0}

Barcode(row, layout) == BarcodeOf[Text(row, layout, "barcode")]

(* The pictures anchored to a row of a sheet of a file.                    *)
Anchors(b, i, r) ==
    {a \in b.sheets[i].anchors : a.row = r /\ a.path \in DOMAIN b.images}

(* The leftmost of some anchors; col is its whole place within the row.    *)
Leftmost(anchors) == CHOOSE a \in anchors : \A c \in anchors : a.col <= c.col

This == book.sheets[sheet]

(* The number of the row that is read, and its cells.                      *)
Here == Min(rest)

Row == This.rows[Here]

-----------------------------------------------------------------------------
Init ==
    /\ book \in Workbooks
    /\ pc = "archive"
    /\ sheet = 1 /\ columns = << >> /\ rest = {}
    /\ anchored = {} /\ shown = << >>
    /\ seen = {} /\ media = << >> /\ products = << >>
    /\ charged = [rows |-> 0, bytes |-> 0]
    /\ late = FALSE

End(verdict) ==
    /\ pc' = verdict
    /\ UNCHANGED <<book, late, place, picking, kept, charged>>

(* _verify_archive and _verify_package; a file may be both broken and      *)
(* large, and what is met first decides.                                   *)
VerifyArchive ==
    /\ pc = "archive"
    /\ \/ "broken" \in book.archive /\ End("refused")
       \/ "large" \in book.archive /\ End("limit")
       \/ book.archive = {} /\ End("sheet")

(* The rows of a sheet are read, and charged, before its header is sought. *)
Read(s) == charged' = [charged EXCEPT !.rows = @ + Cardinality(DOMAIN s.rows)]

NextSheet ==
    /\ sheet' = sheet + 1 /\ pc' = "sheet"
    /\ columns' = << >> /\ rest' = {}

(* A sheet without a part or without a header is left out, with a warning. *)
SkipSheet ==
    /\ pc = "sheet" /\ sheet <= Len(book.sheets)
    /\ \/ ~This.there /\ UNCHANGED charged
       \/ /\ This.there /\ "cells" \notin This.wrong /\ ~HasHeader(This.rows)
          /\ Read(This) /\ charged'.rows <= MaxRows
    /\ NextSheet
    /\ UNCHANGED <<book, late, picking, kept>>

(* The sheet has a wrong cell, row or drawing, or a row too many.  Its      *)
(* drawing is read only when it has a header.                              *)
BreakSheet ==
    /\ pc = "sheet" /\ sheet <= Len(book.sheets) /\ This.there
    /\ \/ "cells" \in This.wrong /\ End("refused")
       \/ "drawing" \in This.wrong /\ HasHeader(This.rows) /\ End("refused")
       \/ /\ charged.rows + Cardinality(DOMAIN This.rows) > MaxRows
          /\ End("limit")

EnterSheet ==
    /\ pc = "sheet" /\ sheet <= Len(book.sheets)
    /\ This.there /\ This.wrong = {} /\ HasHeader(This.rows)
    /\ Read(This) /\ charged'.rows <= MaxRows
    /\ LET header == HeaderRow(This.rows)
       IN  /\ columns' = Layout(This.rows[header])
           /\ rest' = {r \in DOMAIN This.rows : r > header}
    /\ pc' = "row"
    /\ UNCHANGED <<book, late, sheet, picking, kept>>

(* Every sheet is read; import_xlsx refuses a file without any product.    *)
Finish ==
    /\ pc = "sheet" /\ sheet > Len(book.sheets)
    /\ End(IF products = << >> THEN "refused" ELSE "parsed")

EndSheet ==
    /\ pc = "row" /\ rest = {}
    /\ NextSheet
    /\ UNCHANGED <<book, late, picking, kept, charged>>

NextRow ==
    /\ rest' = rest \ {Here} /\ pc' = "row"
    /\ UNCHANGED <<book, late, sheet, columns, charged>>

LongModel == Text(Row, columns, "model") \in LongTexts

SkipRow ==
    /\ pc = "row" /\ rest # {} /\ ~LongModel
    /\ Has(Row, columns) = {}
    /\ NextRow
    /\ UNCHANGED <<picking, kept>>

(* Mutant of RejectRow: a row with only some of the fields is left out.    *)
RejectRowLenient ==
    /\ pc = "row" /\ rest # {}
    /\ \/ LongModel /\ End("limit")
       \/ /\ ~LongModel /\ Has(Row, columns) \notin {{}, Required}
          /\ NextRow /\ UNCHANGED <<picking, kept>>
       \/ /\ ~LongModel /\ Has(Row, columns) = Required
          /\ Barcode(Row, columns) \in seen
          /\ End("refused")

(* A row with only some of the fields of a product, or with a barcode that *)
(* was read before, condemns the file.                                     *)
RejectRow ==
    /\ pc = "row" /\ rest # {}
    /\ \/ LongModel /\ End("limit")
       \/ ~LongModel /\ Has(Row, columns) \notin {{}, Required} /\ End("refused")
       \/ /\ ~LongModel /\ Has(Row, columns) = Required
          /\ Barcode(Row, columns) \in seen
          /\ End("refused")

TakeRow ==
    /\ pc = "row" /\ rest # {} /\ ~LongModel
    /\ Has(Row, columns) = Required
    /\ Barcode(Row, columns) \notin seen
    /\ seen' = seen \cup {Barcode(Row, columns)}
    /\ anchored' = Anchors(book, sheet, Here) /\ shown' = << >>
    /\ pc' = "pictures"
    /\ UNCHANGED <<book, late, place, media, products, charged>>

(* A picture that no earlier row showed is read, charged and decoded.      *)
Decodes(path) ==
    /\ path \notin DOMAIN media
    /\ Cardinality(DOMAIN media) < MaxImages

Path == Leftmost(anchored).path

Image == book.images[Path]

RejectPicture ==
    /\ pc = "pictures" /\ anchored # {} /\ Path \notin DOMAIN media
    /\ \/ Cardinality(DOMAIN media) >= MaxImages /\ End("limit")
       \/ /\ Decodes(Path)
          /\ \/ Image.broken /\ End("refused")
             \/ Image.large /\ End("limit")
             \/ /\ ~Image.broken /\ ~Image.large
                /\ charged.bytes + Image.bytes > MaxImageBytes
                /\ End("limit")

(* Mutant of TakePicture: the size is charged whenever a row shows it.     *)
TakePictureAgain ==
    /\ pc = "pictures" /\ anchored # {}
    /\ \/ Path \in DOMAIN media
       \/ Decodes(Path) /\ ~Image.broken /\ ~Image.large
    /\ charged.bytes + Image.bytes <= MaxImageBytes
    /\ charged' = [charged EXCEPT !.bytes = @ + Image.bytes]
    /\ media' = [p \in DOMAIN media \cup {Path} |-> book.images[p].digest]
    /\ anchored' = anchored \ {Leftmost(anchored)}
    /\ shown' = IF \E i \in DOMAIN shown : media'[shown[i]] = Image.digest
                THEN shown ELSE Append(shown, Path)
    /\ UNCHANGED <<book, late, pc, place, seen, products>>

(* Of pictures with the same content a product shows the first.            *)
TakePicture ==
    /\ pc = "pictures" /\ anchored # {}
    /\ \/ Path \in DOMAIN media /\ UNCHANGED <<media, charged>>
       \/ /\ Decodes(Path) /\ ~Image.broken /\ ~Image.large
          /\ charged.bytes + Image.bytes <= MaxImageBytes
          /\ charged' = [charged EXCEPT !.bytes = @ + Image.bytes]
          /\ media' = [p \in DOMAIN media \cup {Path} |->
                          book.images[p].digest]
    /\ anchored' = anchored \ {Leftmost(anchored)}
    /\ shown' = IF \E i \in DOMAIN shown : media'[shown[i]] = Image.digest
                THEN shown ELSE Append(shown, Path)
    /\ UNCHANGED <<book, late, pc, place, seen, products>>

LongText == \E f \in Optional : Text(Row, columns, f) \in LongTexts

(* The other fields: a text too long for its field is over the budget.     *)
Keep ==
    /\ pc = "pictures" /\ anchored = {}
    /\ IF LongText THEN End("limit")
       ELSE /\ products' = Append(products,
                   [sheet |-> sheet, row |-> Here,
                    barcode |-> Barcode(Row, columns),
                    category |-> Text(Row, columns, "category"),
                    pictures |-> shown])
            /\ NextRow
            /\ UNCHANGED <<picking, seen, media>>

(* check_time: sixty seconds after the beginning.                          *)
Late ==
    /\ pc \in {"archive", "sheet", "row", "pictures"}
    /\ pc' = "limit" /\ late' = TRUE
    /\ UNCHANGED <<book, place, picking, kept, charged>>

Next ==
    \/ VerifyArchive
    \/ SkipSheet \/ BreakSheet \/ EnterSheet \/ Finish
    \/ EndSheet \/ SkipRow \/ RejectRow \/ TakeRow
    \/ RejectPicture \/ TakePicture \/ Keep
    \/ Late

Spec == Init /\ [][Next]_vars

-----------------------------------------------------------------------------
(* What a file contains, said without reading it step by step.             *)
Sheets(b) == {i \in DOMAIN b.sheets : b.sheets[i].there}

IsHeader(rows, h) ==
    /\ h \in HeaderArea(rows)
    /\ \A q \in HeaderArea(rows) :
          /\ Score(rows[q]) <= Score(rows[h])
          /\ q < h => Score(rows[q]) < Score(rows[h])
    /\ Required \subseteq Headers(rows[h])

Line(b, i, h, r) ==
    [sheet |-> i, row |-> r, cells |-> b.sheets[i].rows[r],
     layout |-> Layout(b.sheets[i].rows[h])]

(* The rows below the header of a sheet, with the columns that hold there. *)
SheetLines(b, i) ==
    LET rows == b.sheets[i].rows
    IN  UNION {{Line(b, i, h, r) : r \in {r \in DOMAIN rows : r > h}} :
                  h \in {h \in DOMAIN rows : IsHeader(rows, h)}}

Lines(b) == UNION {SheetLines(b, i) : i \in Sheets(b)}

IsGood(l) == Has(l.cells, l.layout) = Required

Goods(b) == {l \in Lines(b) : IsGood(l)}

BarcodeOn(l) == Barcode(l.cells, l.layout)

PicturesOf(b, l) == {a.path : a \in Anchors(b, l.sheet, l.row)}

AllPictures(b) == UNION {PicturesOf(b, l) : l \in Goods(b)}

Bytes(b, paths) == SumFunctionOnSet([p \in DOMAIN b.images |-> b.images[p].bytes], paths)

RowCount(b, sheets) ==
    SumFunctionOnSet([i \in DOMAIN b.sheets |-> Cardinality(DOMAIN b.sheets[i].rows)], sheets)

(* What must be corrected in a file before it can be imported.             *)
Faulty(b) ==
    \/ "broken" \in b.archive
    \/ \E i \in Sheets(b) : "cells" \in b.sheets[i].wrong
    \/ \E i \in Sheets(b) : \E h \in DOMAIN b.sheets[i].rows :
          "drawing" \in b.sheets[i].wrong /\ IsHeader(b.sheets[i].rows, h)
    \/ \E l \in Lines(b) : Has(l.cells, l.layout) \notin {{}, Required}
    \/ \E l, k \in Goods(b) : l # k /\ BarcodeOn(l) = BarcodeOn(k)
    \/ \E p \in AllPictures(b) : b.images[p].broken
    \/ Goods(b) = {}

(* What is too much in a file; the other fields of an empty row are not    *)
(* asked for.                                                              *)
Oversize(b) ==
    \/ "large" \in b.archive
    \/ RowCount(b, Sheets(b)) > MaxRows
    \/ \E l \in Lines(b) : Text(l.cells, l.layout, "model") \in LongTexts
    \/ \E l \in Goods(b), f \in Optional : Text(l.cells, l.layout, f) \in LongTexts
    \/ \E p \in AllPictures(b) : b.images[p].large
    \/ Cardinality(AllPictures(b)) > MaxImages
    \/ Bytes(b, AllPictures(b)) > MaxImageBytes

(* A file gets through only without a fault and within its budgets; it is  *)
(* refused only for a fault, and ends the batch only for a budget or the   *)
(* time, wherever in the file the reader meets what (parse_workbook).      *)
VerdictTrue ==
    /\ pc = "parsed" => ~Faulty(book) /\ ~Oversize(book)
    /\ pc = "refused" => Faulty(book)
    /\ pc = "limit" => Oversize(book) \/ late

(* No anchor of the row shows the content of the one path further left     *)
(* than the other path.                                                    *)
InOrder(b, anchors, p, q) ==
    \E x \in anchors : x.path = p /\
        \A y \in anchors : b.images[y.path].digest = b.images[q].digest => x.col <= y.col

(* A product shows every content that is anchored to its row, once, and    *)
(* from left to right.                                                     *)
ShowsRow(b, anchors, own) ==
    /\ Range(own) \subseteq {a.path : a \in anchors}
    /\ \A a \in anchors : \E n \in DOMAIN own :
          b.images[own[n]].digest = b.images[a.path].digest
    /\ \A m, n \in DOMAIN own : m < n =>
          /\ b.images[own[m]].digest # b.images[own[n]].digest
          /\ InOrder(b, anchors, own[m], own[n])

(* The result is every product row of every readable sheet, once and in    *)
(* order, each with the distinct pictures of its own row from left to      *)
(* right: the first one is the cover (parse_workbook).                     *)
ParsedWhole ==
    pc = "parsed" =>
       /\ {<<p.sheet, p.row>> : p \in Range(products)}
             = {<<l.sheet, l.row>> : l \in Goods(book)}
       /\ \A i, k \in DOMAIN products : i < k =>
             \/ products[i].sheet < products[k].sheet
             \/ products[i].sheet = products[k].sheet /\ products[i].row < products[k].row
       /\ \A i \in DOMAIN products :
             ShowsRow(book, Anchors(book, products[i].sheet, products[i].row),
                      products[i].pictures)

(* At every moment the decoded pictures are within both budgets, and each  *)
(* is charged once, however many rows show it (parse_workbook).            *)
PicturesBudgeted ==
    /\ Cardinality(DOMAIN media) <= MaxImages
    /\ charged.bytes = Bytes(book, DOMAIN media)
    /\ charged.bytes <= MaxImageBytes
=============================================================================
