--------------------------- MODULE WorkbookProofs ---------------------------
(***************************************************************************)
(* Proofs about the reader of price lists (module Workbook), for any set   *)
(* of files and any budgets.  What a file contains is one thing, and what  *)
(* the reader met of it so far another: the invariant says that the lines  *)
(* which are done are without a fault and within the budgets, that their   *)
(* barcodes were seen, that their pictures are decoded and that they are   *)
(* the products of the result.                                             *)
(***************************************************************************)
EXTENDS Workbook, FiniteSetTheorems, SequenceTheorems, Sums, TLAPS

-----------------------------------------------------------------------------
(* A finite set has a least element, by any numbers.                       *)
LEMMA LeastOf ==
    ASSUME NEW A, IsFiniteSet(A), A # {}, NEW v, \A x \in A : v[x] \in Int
    PROVE  \E x \in A : \A y \in A : v[x] <= v[y]
<1> DEFINE HasLeast(s) == \E x \in s : \A y \in s : v[x] <= v[y]
           G == {s \in SUBSET A : s = {} \/ HasLeast(s)}
<1>1. ASSUME NEW s \in SUBSET A, \A t \in SUBSET s : t # s => t \in G
      PROVE  s \in G
  <2>1. CASE s = {}
    BY <2>1
  <2>2. CASE s # {}
    <3>1. PICK z \in s : TRUE
      BY <2>2
    <3>2. s \ {z} \in G /\ v[z] \in Int
      BY <1>1, <3>1
    <3>3. CASE s \ {z} = {}
      BY <3>1, <3>2, <3>3
    <3>4. CASE s \ {z} # {}
      <4>1. PICK x \in s \ {z} : \A y \in s \ {z} : v[x] <= v[y]
        BY <3>2, <3>4
      <4>2. CASE v[x] <= v[z]
        <5>1. \A y \in s : v[x] <= v[y]
          BY <4>1, <4>2
        <5> QED BY <4>1, <5>1
      <4>3. CASE ~(v[x] <= v[z])
        <5>1. \A y \in s : v[z] <= v[y]
          <6>1. v[x] \in Int /\ \A y \in s : v[y] \in Int
            BY <4>1
          <6> QED BY <3>2, <4>1, <4>3, <6>1
        <5> QED BY <3>1, <5>1
      <4> QED BY <4>2, <4>3
    <3> QED BY <3>3, <3>4
  <2> QED BY <2>1, <2>2
<1> HIDE DEF G
<1>2. A \in G
  BY <1>1, SetInduction
<1> QED BY <1>2 DEF G

LEMMA LeastNumber ==
    ASSUME NEW A, IsFiniteSet(A), A # {}, A \subseteq Nat
    PROVE  Min(A) \in A /\ \A y \in A : Min(A) <= y
<1>1. \E x \in A : \A y \in A : x <= y
  <2> DEFINE v == [x \in A |-> x]
  <2>1. \A x \in A : v[x] \in Int
    OBVIOUS
  <2> HIDE DEF v
  <2>2. \E x \in A : \A y \in A : v[x] <= v[y]
    BY <2>1, LeastOf
  <2> QED BY <2>2 DEF v
<1> QED BY <1>1 DEF Min

LEMMA LeftmostIs ==
    ASSUME NEW A, IsFiniteSet(A), A # {}, \A a \in A : a.col \in Nat
    PROVE  Leftmost(A) \in A /\ \A c \in A : Leftmost(A).col <= c.col
<1>1. \E x \in A : \A y \in A : x.col <= y.col
  <2> DEFINE v == [x \in A |-> x.col]
  <2>1. \A x \in A : v[x] \in Int
    OBVIOUS
  <2> HIDE DEF v
  <2>2. \E x \in A : \A y \in A : v[x] <= v[y]
    BY <2>1, LeastOf
  <2> QED BY <2>2 DEF v
<1> QED BY <1>1 DEF Leftmost

-----------------------------------------------------------------------------
(* The header of a sheet.                                                  *)
IsRows(rows) == IsFiniteSet(DOMAIN rows) /\ DOMAIN rows \subseteq Nat

LEMMA ScoreNat == ASSUME NEW row PROVE Score(row) \in Nat
<1>1. IsFiniteSet(Scored)
  <2> DEFINE one   == {"model"} \cup {"barcode"}
             two   == one \cup {"price"}
             three == two \cup {"color"}
             four  == three \cup {"description"}
  <2>1. IsFiniteSet(one)
    BY FS_Singleton, FS_AddElement
  <2>2. IsFiniteSet(two)
    BY <2>1, FS_AddElement
  <2>3. IsFiniteSet(three)
    <3> HIDE DEF two
    <3> QED BY <2>2, FS_AddElement
  <2>4. IsFiniteSet(four)
    <3> HIDE DEF three
    <3> QED BY <2>3, FS_AddElement
  <2>5. four = Scored
    BY DEF Scored, Required
  <2> QED BY <2>4, <2>5
<1>2. IsFiniteSet(Headers(row) \cap Scored)
  BY <1>1, FS_Subset
<1> QED BY <1>2, FS_CardinalityType DEF Score

(* The row that detect_header takes is the first of the best.              *)
LEMMA HeaderRowIsBest ==
    ASSUME NEW rows, IsRows(rows), DOMAIN rows # {}
    PROVE  /\ HeaderRow(rows) \in HeaderArea(rows)
           /\ \A q \in HeaderArea(rows) :
                 \/ Score(rows[q]) < Score(rows[HeaderRow(rows)])
                 \/ Score(rows[q]) = Score(rows[HeaderRow(rows)]) /\ HeaderRow(rows) <= q
<1> DEFINE area == HeaderArea(rows)
           first == Min(DOMAIN rows)
<1>1. first \in area
  <2>1. first \in DOMAIN rows /\ \A q \in DOMAIN rows : first <= q
    BY LeastNumber DEF IsRows
  <2>2. {q \in DOMAIN rows : q < first} = {}
    BY <2>1 DEF IsRows
  <2> QED BY <2>1, <2>2, FS_EmptySet, BudgetsAssumption DEF HeaderArea
<1>2. IsFiniteSet(area) /\ area \subseteq Nat
  <2>1. area \subseteq DOMAIN rows
    BY DEF HeaderArea
  <2> QED BY <2>1, FS_Subset DEF IsRows
<1> HIDE DEF area, first
<1>3. PICK r \in area : \A q \in area : Score(rows[q]) <= Score(rows[r])
  <2> DEFINE v == [x \in area |-> -Score(rows[x])]
  <2>1. \A x \in area : v[x] \in Int /\ v[x] = -Score(rows[x])
    BY ScoreNat
  <2> HIDE DEF v
  <2>2. PICK x \in area : \A y \in area : v[x] <= v[y]
    BY <1>1, <1>2, <2>1, LeastOf
  <2>3. \A y \in area : Score(rows[y]) <= Score(rows[x])
    BY <2>1, <2>2, ScoreNat
  <2> QED BY <2>3
<1> DEFINE best == {x \in area : Score(rows[x]) = Score(rows[r])}
           h == Min(best)
<1>4. h \in best /\ \A q \in best : h <= q
  <2>1. IsFiniteSet(best) /\ best \subseteq Nat /\ best # {}
    BY <1>2, <1>3, FS_Subset
  <2> HIDE DEF best
  <2> QED BY <2>1, LeastNumber
<1>5. \A q \in area : \/ Score(rows[q]) < Score(rows[h])
                      \/ Score(rows[q]) = Score(rows[h]) /\ h <= q
  BY <1>3, <1>4, ScoreNat
<1>6. \E x \in area : \A q \in area : \/ Score(rows[q]) < Score(rows[x])
                                      \/ Score(rows[q]) = Score(rows[x]) /\ x <= q
  BY <1>4, <1>5
<1> QED BY <1>6 DEF area, HeaderRow

LEMMA HeaderIsHeaderRow ==
    ASSUME NEW rows, IsRows(rows), NEW h
    PROVE  IsHeader(rows, h) <=> HasHeader(rows) /\ h = HeaderRow(rows)
<1>1. HeaderArea(rows) \subseteq DOMAIN rows /\ DOMAIN rows \subseteq Nat
  BY DEF HeaderArea, IsRows
<1>2. CASE DOMAIN rows = {}
  BY <1>1, <1>2 DEF IsHeader, HasHeader
<1>3. CASE DOMAIN rows # {}
  <2> DEFINE best == HeaderRow(rows)
  <2>1. /\ best \in HeaderArea(rows)
        /\ \A q \in HeaderArea(rows) :
              \/ Score(rows[q]) < Score(rows[best])
              \/ Score(rows[q]) = Score(rows[best]) /\ best <= q
    BY <1>3, HeaderRowIsBest
  <2> HIDE DEF best
  <2>2. \A q : Score(rows[q]) \in Nat
    BY ScoreNat
  <2>3. IsHeader(rows, h) => h = best
    BY <1>1, <2>1, <2>2 DEF IsHeader
  <2>4. Required \subseteq Headers(rows[best]) => IsHeader(rows, best)
    BY <1>1, <2>1, <2>2 DEF IsHeader
  <2> QED BY <1>3, <2>3, <2>4 DEF IsHeader, HasHeader, best
<1> QED BY <1>2, <1>3

-----------------------------------------------------------------------------
(* The lines of a file, by the places where they are.                      *)
RowsOf(b, i) == b.sheets[i].rows

LineAt(b, i, r) == Line(b, i, HeaderRow(RowsOf(b, i)), r)

IsLine(b, i, r) ==
    /\ i \in Sheets(b) /\ r \in DOMAIN RowsOf(b, i)
    /\ HasHeader(RowsOf(b, i)) /\ r > HeaderRow(RowsOf(b, i))

LEMMA BookRows ==
    ASSUME NEW b, IsBook(b), NEW i \in DOMAIN b.sheets
    PROVE  IsRows(RowsOf(b, i))
BY DEF IsBook, IsRows, RowsOf

LEMMA LinesOfSheet ==
    ASSUME NEW b, IsBook(b), NEW i \in Sheets(b), NEW l
    PROVE  l \in SheetLines(b, i) <=>
              \E r \in DOMAIN RowsOf(b, i) : IsLine(b, i, r) /\ l = LineAt(b, i, r)
<1>1. IsRows(RowsOf(b, i))
  BY BookRows DEF Sheets
<1>2. \A h : IsHeader(RowsOf(b, i), h)
               <=> HasHeader(RowsOf(b, i)) /\ h = HeaderRow(RowsOf(b, i))
  BY <1>1, HeaderIsHeaderRow
<1>3. HasHeader(RowsOf(b, i)) => HeaderRow(RowsOf(b, i)) \in DOMAIN RowsOf(b, i)
  BY <1>1, HeaderRowIsBest DEF HasHeader, HeaderArea
<1> QED BY <1>2, <1>3 DEF SheetLines, IsLine, LineAt, RowsOf

(* A line is determined by where it is.                                    *)
LEMMA LinesAre ==
    ASSUME NEW b, IsBook(b)
    PROVE  /\ \A l : l \in Lines(b)
                  <=> IsLine(b, l.sheet, l.row) /\ l = LineAt(b, l.sheet, l.row)
           /\ \A i, r : /\ LineAt(b, i, r).sheet = i /\ LineAt(b, i, r).row = r
                        /\ IsLine(b, i, r) => LineAt(b, i, r) \in Lines(b)
<1>1. \A i, r : LineAt(b, i, r).sheet = i /\ LineAt(b, i, r).row = r
  BY DEF LineAt, Line
<1>2. ASSUME NEW l
      PROVE  l \in Lines(b) <=> \E i \in Sheets(b) : \E r \in DOMAIN RowsOf(b, i) :
                                   IsLine(b, i, r) /\ l = LineAt(b, i, r)
  BY LinesOfSheet DEF Lines
<1>3. ASSUME NEW l \in Lines(b)
      PROVE  IsLine(b, l.sheet, l.row) /\ l = LineAt(b, l.sheet, l.row)
  BY <1>1, <1>2
<1>4. ASSUME NEW i, NEW r, IsLine(b, i, r)
      PROVE  LineAt(b, i, r) \in Lines(b)
  BY <1>2, <1>4 DEF IsLine
<1> QED BY <1>1, <1>3, <1>4

-----------------------------------------------------------------------------
(* How far the reader is: the sheets and the lines it read, the line it    *)
(* is at, and the products it met, that one included.                      *)
Inside == pc \in {"row", "pictures"}

SheetsRead == {i \in Sheets(book) : i < sheet \/ (i = sheet /\ Inside)}

LinesRead ==
    {l \in Lines(book) : l.sheet < sheet \/ (l.sheet = sheet /\ Inside /\ l.row \notin rest)}

Current == LineAt(book, sheet, Here)

GoodsRead == {l \in LinesRead : IsGood(l)}

GoodsMet == GoodsRead \cup (IF pc = "pictures" THEN {Current} ELSE {})

IsSeq(s) == s \in Seq(Range(s))

WorkbookTypes ==
    /\ book \in Workbooks
    /\ pc \in {"archive", "sheet", "row", "pictures", "parsed", "refused", "limit"}
    /\ sheet \in Nat \ {0}
    /\ charged \in [rows : Nat, bytes : Nat]
    /\ late \in BOOLEAN

(* The pictures that are decoded; this holds wherever the reader ends.     *)
Decoded ==
    /\ IsFiniteSet(DOMAIN media) /\ DOMAIN media \subseteq DOMAIN book.images
    /\ PicturesBudgeted

Refusals ==
    /\ pc = "refused" => Faulty(book)
    /\ pc = "limit" => Oversize(book) \/ late

(* The sheets that were read have no wrong part.                           *)
SheetsFine(b, S) ==
    \A i \in S : /\ "cells" \notin b.sheets[i].wrong
                 /\ HasHeader(RowsOf(b, i)) => "drawing" \notin b.sheets[i].wrong

(* Nor do the lines.                                                       *)
LinesFine(L) ==
    \A l \in L :
        /\ Has(l.cells, l.layout) \in {{}, Required}
        /\ Text(l.cells, l.layout, "model") \notin LongTexts
        /\ IsGood(l) => \A f \in Optional : Text(l.cells, l.layout, f) \notin LongTexts

BarcodesOnce(G) == \A l, k \in G : l # k => BarcodeOn(l) # BarcodeOn(k)

(* M is decoded of the products met, and has all pictures of those read.   *)
MediaFine(b, M, met, read) ==
    /\ \A p \in M : /\ ~b.images[p].broken /\ ~b.images[p].large
                    /\ \E l \in met : p \in PicturesOf(b, l)
    /\ \A l \in read : PicturesOf(b, l) \subseteq M

(* The result is the products that were read.                              *)
ProductsFine(b, s, read) ==
    /\ IsSeq(s)
    /\ {<<p.sheet, p.row>> : p \in Range(s)} = {<<l.sheet, l.row>> : l \in read}
    /\ \A i, k \in DOMAIN s : i < k =>
          \/ s[i].sheet < s[k].sheet
          \/ s[i].sheet = s[k].sheet /\ s[i].row < s[k].row
    /\ \A i \in DOMAIN s : ShowsRow(b, Anchors(b, s[i].sheet, s[i].row), s[i].pictures)

(* Within a sheet: the rows to come are all those from some row on.        *)
Placed ==
    /\ sheet \in Sheets(book) /\ HasHeader(RowsOf(book, sheet))
    /\ columns = Layout(RowsOf(book, sheet)[HeaderRow(RowsOf(book, sheet))])
    /\ \A r \in rest : IsLine(book, sheet, r)
    /\ \A r \in rest : \A q \in DOMAIN RowsOf(book, sheet) : q > r => q \in rest

(* Within a row: what was taken of it, and what is shown of that.          *)
PickFine(b, all, todo, own, M) ==
    LET taken == all \ todo
    IN  /\ todo \subseteq all /\ IsSeq(own)
        /\ \A x \in taken : x.path \in M /\ \A y \in todo : x.col <= y.col
        /\ Range(own) \subseteq {a.path : a \in taken}
        /\ \A a \in taken : \E n \in DOMAIN own :
              b.images[own[n]].digest = b.images[a.path].digest
        /\ \A m, n \in DOMAIN own : m < n =>
              /\ b.images[own[m]].digest # b.images[own[n]].digest
              /\ InOrder(b, all, own[m], own[n])

Picking ==
    /\ rest # {} /\ IsGood(Current)
    /\ Text(Row, columns, "model") \notin LongTexts
    /\ PickFine(book, Anchors(book, sheet, Here), anchored, shown, DOMAIN media)

Reading ==
    /\ pc # "archive" => book.archive = {}
    /\ SheetsFine(book, SheetsRead)
    /\ charged.rows = RowCount(book, SheetsRead) /\ charged.rows <= MaxRows
    /\ LinesFine(LinesRead)
    /\ seen = {BarcodeOn(l) : l \in GoodsMet} /\ BarcodesOnce(GoodsMet)
    /\ MediaFine(book, DOMAIN media, GoodsMet, GoodsRead)
    /\ \A p \in DOMAIN media : media[p] = book.images[p].digest
    /\ ProductsFine(book, products, GoodsRead)
    /\ Inside => Placed
    /\ pc = "pictures" => Picking
    /\ pc = "parsed" => sheet > Len(book.sheets) /\ products # << >>

WorkbookInv ==
    /\ WorkbookTypes /\ Decoded /\ Refusals
    /\ pc \notin {"refused", "limit"} => Reading

-----------------------------------------------------------------------------
(* Facts about any state of the invariant.                                 *)
LEMMA TheBook == ASSUME WorkbookTypes PROVE IsBook(book)
BY BooksAssumption DEF WorkbookTypes

LEMMA AppendedTo ==
    ASSUME NEW s, IsSeq(s), NEW e
    PROVE  /\ Len(s) \in Nat /\ DOMAIN s = 1..Len(s)
           /\ IsSeq(Append(s, e)) /\ Append(s, e) # << >>
           /\ DOMAIN Append(s, e) = 1..(Len(s) + 1)
           /\ \A i \in DOMAIN s : Append(s, e)[i] = s[i]
           /\ Append(s, e)[Len(s) + 1] = e
           /\ Range(Append(s, e)) = Range(s) \cup {e}
<1> DEFINE S == Range(s) \cup {e}
           t == Append(s, e)
<1>1. s \in Seq(S) /\ Len(s) \in Nat /\ DOMAIN s = 1..Len(s)
  BY DEF IsSeq, Range
<1>2. /\ t \in Seq(S) /\ Len(t) = Len(s) + 1 /\ DOMAIN t = 1..(Len(s) + 1)
      /\ t[Len(s) + 1] = e /\ \A i \in DOMAIN s : t[i] = s[i]
  BY <1>1
<1> HIDE DEF t
<1>3. Range(t) = S
  BY <1>1, <1>2 DEF Range
<1>4. t \in Seq(Range(t)) /\ t # << >>
  BY <1>1, <1>2, <1>3
<1> QED BY <1>1, <1>2, <1>3, <1>4 DEF t, IsSeq

LEMMA AnchorsFinite ==
    ASSUME NEW b, IsBook(b), NEW i \in DOMAIN b.sheets, NEW r
    PROVE  /\ IsFiniteSet(Anchors(b, i, r))
           /\ \A a \in Anchors(b, i, r) : a.col \in Nat /\ a.path \in DOMAIN b.images
<1>1. IsFiniteSet(b.sheets[i].anchors) /\ \A a \in b.sheets[i].anchors : a.col \in Nat
  BY DEF IsBook
<1>2. Anchors(b, i, r) \subseteq b.sheets[i].anchors
  BY DEF Anchors
<1> QED BY <1>1, <1>2, FS_Subset DEF Anchors

(* The line that the reader is at.                                         *)
LEMMA CurrentIs ==
    ASSUME WorkbookInv, Inside, rest # {}
    PROVE  /\ Here \in rest /\ \A r \in rest : Here <= r
           /\ IsLine(book, sheet, Here) /\ Current \in Lines(book)
           /\ Current.sheet = sheet /\ Current.row = Here
           /\ Current.cells = Row /\ Current.layout = columns
           /\ Current \notin LinesRead
<1>1. IsBook(book) /\ Placed
  BY TheBook DEF WorkbookInv, Reading, Inside
<1>2. rest \subseteq DOMAIN RowsOf(book, sheet) /\ IsRows(RowsOf(book, sheet))
  BY <1>1, BookRows DEF Placed, IsLine, Sheets
<1>3. IsFiniteSet(rest) /\ rest \subseteq Nat
  BY <1>2, FS_Subset DEF IsRows
<1>4. Here \in rest /\ \A r \in rest : Here <= r
  BY <1>3, LeastNumber DEF Here
<1>5. IsLine(book, sheet, Here)
  BY <1>1, <1>4 DEF Placed
<1>6. Current \in Lines(book) /\ Current.sheet = sheet /\ Current.row = Here
  BY <1>1, <1>5, LinesAre DEF Current
<1>7. Current.cells = Row /\ Current.layout = columns
  BY <1>1 DEF Current, LineAt, Line, Row, This, RowsOf, Placed
<1>8. sheet \in Nat
  BY DEF WorkbookInv, WorkbookTypes
<1> QED BY <1>4, <1>5, <1>6, <1>7, <1>8 DEF LinesRead

(* The books of the rows: what is charged is at most what the file has.    *)
LEMMA RowCounts ==
    ASSUME NEW b, IsBook(b)
    PROVE  /\ \A S \in SUBSET DOMAIN b.sheets : IsFiniteSet(S) /\ RowCount(b, S) \in Nat
           /\ \A S, T \in SUBSET DOMAIN b.sheets :
                 S \subseteq T => RowCount(b, S) <= RowCount(b, T)
           /\ \A S \in SUBSET DOMAIN b.sheets : \A i \in DOMAIN b.sheets \ S :
                 RowCount(b, S \cup {i}) = RowCount(b, S) + Cardinality(DOMAIN RowsOf(b, i))
<1> DEFINE f == [i \in DOMAIN b.sheets |-> Cardinality(DOMAIN b.sheets[i].rows)]
<1>1. IsFiniteSet(DOMAIN b.sheets)
  <2>1. b.sheets \in Seq(Range(b.sheets))
    BY DEF IsBook
  <2>2. DOMAIN b.sheets = 1..Len(b.sheets) /\ Len(b.sheets) \in Nat
    BY <2>1
  <2> QED BY <2>2, FS_Interval
<1>2. \A i \in DOMAIN b.sheets : f[i] \in Nat /\ f[i] = Cardinality(DOMAIN RowsOf(b, i))
  BY FS_CardinalityType DEF IsBook, RowsOf
<1>3. \A S : RowCount(b, S) = SumFunctionOnSet(f, S)
  BY DEF RowCount
<1> HIDE DEF f
<1>4. \A S \in SUBSET DOMAIN b.sheets : IsFiniteSet(S) /\ RowCount(b, S) \in Nat
  BY <1>1, <1>2, <1>3, FS_Subset, SumNat
<1>5. ASSUME NEW S \in SUBSET DOMAIN b.sheets, NEW T \in SUBSET DOMAIN b.sheets, S \subseteq T
      PROVE  RowCount(b, S) <= RowCount(b, T)
  BY <1>2, <1>3, <1>4, <1>5, SumPart
<1>6. ASSUME NEW S \in SUBSET DOMAIN b.sheets, NEW i \in DOMAIN b.sheets \ S
      PROVE  RowCount(b, S \cup {i}) = RowCount(b, S) + Cardinality(DOMAIN RowsOf(b, i))
  <2>1. IsFiniteSet(S) /\ \A x \in S \cup {i} : f[x] \in Nat
    BY <1>2, <1>4
  <2> QED BY <1>2, <1>3, <2>1, SumAdd
<1> QED BY <1>4, <1>5, <1>6

LEMMA ByteSums ==
    ASSUME NEW b, IsBook(b), NEW P, P \subseteq DOMAIN b.images, IsFiniteSet(P)
    PROVE  /\ Bytes(b, P) \in Nat
           /\ \A Q \in SUBSET P : Bytes(b, Q) <= Bytes(b, P)
           /\ \A p \in DOMAIN b.images \ P : Bytes(b, P \cup {p}) = Bytes(b, P) + b.images[p].bytes
<1> DEFINE f == [p \in DOMAIN b.images |-> b.images[p].bytes]
<1>1. \A p \in DOMAIN b.images : f[p] \in Nat /\ f[p] = b.images[p].bytes
  BY DEF IsBook
<1>2. \A S : Bytes(b, S) = SumFunctionOnSet(f, S)
  BY DEF Bytes
<1> HIDE DEF f
<1>3. Bytes(b, P) \in Nat
  BY <1>1, <1>2, SumNat
<1>4. ASSUME NEW Q \in SUBSET P PROVE Bytes(b, Q) <= Bytes(b, P)
  BY <1>1, <1>2, SumPart
<1>5. ASSUME NEW p \in DOMAIN b.images \ P
      PROVE  Bytes(b, P \cup {p}) = Bytes(b, P) + b.images[p].bytes
  <2>1. \A x \in P \cup {p} : f[x] \in Nat
    BY <1>1
  <2> QED BY <1>1, <1>2, <2>1, SumAdd
<1> QED BY <1>3, <1>4, <1>5

LEMMA MetAreGoods ==
    ASSUME WorkbookInv, Reading
    PROVE  /\ LinesRead \subseteq Lines(book) /\ GoodsRead \subseteq GoodsMet
           /\ GoodsMet \subseteq Goods(book)
           /\ pc = "pictures" => Current \in GoodsMet
<1>1. LinesRead \subseteq Lines(book)
  BY DEF LinesRead
<1>2. pc = "pictures" => Current \in Lines(book) /\ IsGood(Current)
  BY CurrentIs DEF Reading, Picking, Inside
<1> QED BY <1>1, <1>2 DEF GoodsRead, GoodsMet, Goods

LEMMA PicturesOfBook ==
    ASSUME NEW b, IsBook(b)
    PROVE  IsFiniteSet(AllPictures(b)) /\ AllPictures(b) \subseteq DOMAIN b.images
<1>1. AllPictures(b) \subseteq DOMAIN b.images
  BY DEF AllPictures, PicturesOf, Anchors
<1> QED BY <1>1, FS_Subset DEF IsBook

LEMMA SheetsAre ==
    ASSUME NEW b, IsBook(b)
    PROVE  /\ Len(b.sheets) \in Nat /\ DOMAIN b.sheets = 1..Len(b.sheets)
           /\ Sheets(b) \subseteq 1..Len(b.sheets)
           /\ \A l \in Lines(b) : l.sheet \in Sheets(b)
<1>1. b.sheets \in Seq(Range(b.sheets))
  BY DEF IsBook
<1>2. Len(b.sheets) \in Nat /\ DOMAIN b.sheets = 1..Len(b.sheets)
  BY <1>1
<1>3. \A l \in Lines(b) : l.sheet \in Sheets(b)
  BY LinesAre DEF IsLine
<1> QED BY <1>2, <1>3 DEF Sheets

(* After the last sheet everything was read.                               *)
LEMMA EverythingRead ==
    ASSUME WorkbookInv, sheet > Len(book.sheets)
    PROVE  SheetsRead = Sheets(book) /\ LinesRead = Lines(book) /\ GoodsRead = Goods(book)
<1>1. IsBook(book) /\ sheet \in Nat
  BY TheBook DEF WorkbookInv, WorkbookTypes
<1>2. \A i \in Sheets(book) : i < sheet
  BY <1>1, SheetsAre
<1>3. \A l \in Lines(book) : l.sheet < sheet
  BY <1>1, <1>2, SheetsAre
<1> QED BY <1>2, <1>3 DEF SheetsRead, LinesRead, GoodsRead, Goods

-----------------------------------------------------------------------------
(* Steps that end the reading.                                             *)
LEMMA Refused ==
    ASSUME WorkbookInv, NEW v \in {"refused", "limit"}, End(v),
           v = "refused" => Faulty(book), v = "limit" => Oversize(book) \/ late
    PROVE  WorkbookInv'
<1>1. pc' = v /\ UNCHANGED <<book, late, sheet, media, charged>>
  BY DEF End, place, kept
<1>2. WorkbookTypes'
  BY <1>1 DEF WorkbookInv, WorkbookTypes
<1>3. Decoded'
  BY <1>1 DEF WorkbookInv, Decoded, PicturesBudgeted
<1>4. Refusals'
  BY <1>1 DEF Refusals
<1> QED BY <1>1, <1>2, <1>3, <1>4 DEF WorkbookInv

LEMMA BreakSheetInv == ASSUME WorkbookInv, BreakSheet PROVE WorkbookInv'
<1>1. /\ IsBook(book) /\ Reading /\ pc = "sheet"
      /\ sheet \in Sheets(book) /\ sheet \in DOMAIN book.sheets
      /\ This = book.sheets[sheet] /\ RowsOf(book, sheet) = This.rows
  <2>1. IsBook(book) /\ Reading /\ sheet \in Nat \ {0} /\ sheet <= Len(book.sheets) /\ This.there
    BY TheBook DEF WorkbookInv, WorkbookTypes, BreakSheet
  <2>2. sheet \in DOMAIN book.sheets
    BY <2>1, SheetsAre
  <2> QED BY <2>1, <2>2 DEF BreakSheet, Sheets, This, RowsOf
<1>2. CASE "cells" \in This.wrong /\ End("refused")
  BY <1>1, <1>2, Refused DEF Faulty
<1>3. CASE "drawing" \in This.wrong /\ HasHeader(This.rows) /\ End("refused")
  <2> DEFINE h == HeaderRow(This.rows)
  <2>1. IsRows(This.rows)
    BY <1>1, BookRows
  <2>2. IsHeader(This.rows, h) /\ h \in DOMAIN This.rows
    BY <1>3, <2>1, HeaderIsHeaderRow DEF IsHeader, HeaderArea
  <2>3. Faulty(book)
    BY <1>1, <1>3, <2>2 DEF Faulty
  <2> QED BY <1>3, <2>3, Refused
<1>4. CASE charged.rows + Cardinality(DOMAIN This.rows) > MaxRows /\ End("limit")
  <2>1. sheet \notin SheetsRead /\ SheetsRead \cup {sheet} \subseteq Sheets(book)
        /\ Sheets(book) \subseteq DOMAIN book.sheets
    BY <1>1 DEF SheetsRead, Inside, WorkbookInv, WorkbookTypes, Sheets
  <2>2. RowCount(book, SheetsRead \cup {sheet})
          = RowCount(book, SheetsRead) + Cardinality(DOMAIN RowsOf(book, sheet))
    BY <1>1, <2>1, RowCounts
  <2>3. RowCount(book, SheetsRead \cup {sheet}) <= RowCount(book, Sheets(book))
    BY <1>1, <2>1, RowCounts
  <2>4. RowCount(book, SheetsRead \cup {sheet}) > MaxRows
    BY <1>1, <1>4, <2>2 DEF Reading
  <2>5. RowCount(book, Sheets(book)) \in Nat /\ RowCount(book, SheetsRead \cup {sheet}) \in Nat
    BY <1>1, <2>1, RowCounts
  <2>6. Oversize(book)
    BY <2>3, <2>4, <2>5, BudgetsAssumption DEF Oversize
  <2> QED BY <1>4, <2>6, Refused
<1> QED BY <1>2, <1>3, <1>4 DEF BreakSheet

LEMMA RejectRowInv == ASSUME WorkbookInv, RejectRow PROVE WorkbookInv'
<1>1. Reading /\ pc = "row" /\ Inside /\ rest # {}
  BY DEF WorkbookInv, RejectRow, Inside
<1>2. /\ Current \in Lines(book) /\ Current.cells = Row /\ Current.layout = columns
      /\ Current \notin LinesRead
  BY <1>1, CurrentIs
<1>3. CASE LongModel /\ End("limit")
  <2>1. Oversize(book)
    BY <1>2, <1>3 DEF LongModel, Oversize
  <2> QED BY <1>3, <2>1, Refused
<1>4. CASE Has(Row, columns) \notin {{}, Required} /\ End("refused")
  <2>1. Faulty(book)
    BY <1>2, <1>4 DEF Faulty
  <2> QED BY <1>4, <2>1, Refused
<1>5. CASE Has(Row, columns) = Required /\ Barcode(Row, columns) \in seen /\ End("refused")
  <2>1. PICK l \in GoodsMet : BarcodeOn(l) = BarcodeOn(Current)
    BY <1>1, <1>2, <1>5 DEF Reading, BarcodeOn
  <2>2. l \in Goods(book) /\ l # Current
    BY <1>1, <1>2, MetAreGoods DEF GoodsMet, GoodsRead
  <2>3. Current \in Goods(book)
    BY <1>2, <1>5 DEF Goods, IsGood
  <2>4. Faulty(book)
    BY <2>1, <2>2, <2>3 DEF Faulty
  <2> QED BY <1>5, <2>4, Refused
<1> QED BY <1>3, <1>4, <1>5 DEF RejectRow

(* The next picture is one of a product, and not in the budget yet.        *)
LEMMA NextPicture ==
    ASSUME WorkbookInv, pc = "pictures", anchored # {}
    PROVE  /\ Leftmost(anchored) \in anchored /\ \A c \in anchored : Leftmost(anchored).col <= c.col
           /\ anchored \subseteq Anchors(book, sheet, Here)
           /\ Path \in PicturesOf(book, Current) /\ Path \in AllPictures(book)
           /\ Path \in DOMAIN book.images
<1>1. IsBook(book) /\ Reading /\ Inside /\ rest # {} /\ Picking
  BY TheBook DEF WorkbookInv, Inside, Reading, Picking
<1>2. Current \in Goods(book) /\ Current.sheet = sheet /\ Current.row = Here
      /\ sheet \in DOMAIN book.sheets
  BY <1>1, CurrentIs, MetAreGoods DEF IsLine, Sheets
<1>3. anchored \subseteq Anchors(book, sheet, Here)
  BY <1>1 DEF Picking, PickFine
<1>4. IsFiniteSet(anchored) /\ \A a \in anchored : a.col \in Nat /\ a.path \in DOMAIN book.images
  BY <1>1, <1>2, <1>3, AnchorsFinite, FS_Subset
<1>5. Leftmost(anchored) \in anchored /\ \A c \in anchored : Leftmost(anchored).col <= c.col
  BY <1>4, LeftmostIs
<1> QED BY <1>2, <1>3, <1>4, <1>5 DEF Path, PicturesOf, AllPictures

LEMMA RejectPictureInv == ASSUME WorkbookInv, RejectPicture PROVE WorkbookInv'
<1> DEFINE all == AllPictures(book)
           more == DOMAIN media \cup {Path}
<1>1. /\ IsBook(book) /\ Reading /\ Path \notin DOMAIN media
      /\ Path \in all /\ Path \in DOMAIN book.images
  BY TheBook, NextPicture DEF WorkbookInv, RejectPicture
<1>2. more \subseteq all
  <2>1. \A p \in DOMAIN media : \E l \in Goods(book) : p \in PicturesOf(book, l)
    BY <1>1, MetAreGoods DEF Reading, MediaFine
  <2> QED BY <1>1, <2>1 DEF AllPictures
<1>3. IsFiniteSet(all) /\ all \subseteq DOMAIN book.images /\ IsFiniteSet(DOMAIN media)
  BY <1>1, PicturesOfBook DEF WorkbookInv, Decoded
<1>4. Cardinality(DOMAIN media) >= MaxImages => Oversize(book)
  <2>1. Cardinality(more) = Cardinality(DOMAIN media) + 1
    BY <1>1, <1>3, FS_AddElement
  <2>2. /\ Cardinality(more) <= Cardinality(all) /\ Cardinality(all) \in Nat
        /\ Cardinality(DOMAIN media) \in Nat
    BY <1>2, <1>3, FS_Subset, FS_CardinalityType
  <2>3. Cardinality(DOMAIN media) >= MaxImages => Cardinality(all) > MaxImages
    BY <2>1, <2>2, BudgetsAssumption
  <2> QED BY <2>3 DEF Oversize
<1>5. charged.bytes + Image.bytes > MaxImageBytes => Oversize(book)
  <2>1. Bytes(book, more) = Bytes(book, DOMAIN media) + Image.bytes
    BY <1>1, <1>3, ByteSums DEF Image, WorkbookInv, Decoded
  <2>2. Bytes(book, more) <= Bytes(book, all) /\ Bytes(book, all) \in Nat
    BY <1>1, <1>2, <1>3, ByteSums
  <2>3. Bytes(book, more) \in Nat
    BY <1>1, <1>2, <1>3, ByteSums, FS_Subset
  <2>4. charged.bytes = Bytes(book, DOMAIN media)
    BY DEF WorkbookInv, Decoded, PicturesBudgeted
  <2>5. charged.bytes + Image.bytes > MaxImageBytes => Bytes(book, all) > MaxImageBytes
    BY <2>1, <2>2, <2>3, <2>4, BudgetsAssumption
  <2> QED BY <2>5 DEF Oversize
<1>6. Image.broken => Faulty(book)
  BY <1>1 DEF Image, Faulty
<1>7. Image.large => Oversize(book)
  BY <1>1 DEF Image, Oversize
<1> HIDE DEF all, more
<1>8. CASE End("refused") /\ Image.broken
  BY <1>6, <1>8, Refused
<1>9. CASE End("limit") /\ (\/ Cardinality(DOMAIN media) >= MaxImages \/ Image.large
                           \/ charged.bytes + Image.bytes > MaxImageBytes)
  BY <1>4, <1>5, <1>7, <1>9, Refused
<1> QED BY <1>8, <1>9 DEF RejectPicture

-----------------------------------------------------------------------------
(* Steps that go on.  What was read is said again for the next state.      *)
LEMMA StaysRead ==
    ASSUME WorkbookInv, pc \in {"archive", "sheet"}, NEW v \in {"sheet", "parsed"}, End(v),
           book.archive = {}, v = "parsed" => sheet > Len(book.sheets) /\ products # << >>
    PROVE  WorkbookInv'
<1>1. /\ Reading /\ pc' = v /\ ~Inside /\ ~Inside' /\ pc # "pictures" /\ pc' # "pictures"
      /\ UNCHANGED <<book, late, sheet, columns, rest, seen, media, products, charged>>
  BY DEF WorkbookInv, End, place, kept, Inside
<1>2. SheetsRead' = SheetsRead /\ LinesRead' = LinesRead
  BY <1>1 DEF SheetsRead, LinesRead
<1>3. GoodsRead' = GoodsRead /\ GoodsMet' = GoodsMet
  BY <1>1, <1>2 DEF GoodsRead, GoodsMet
<1>4. WorkbookTypes' /\ Refusals'
  BY <1>1 DEF WorkbookInv, WorkbookTypes, Refusals
<1>5. Decoded'
  BY <1>1 DEF WorkbookInv, Decoded, PicturesBudgeted
<1>6. Reading'
  BY <1>1, <1>2, <1>3 DEF Reading
<1> QED BY <1>4, <1>5, <1>6 DEF WorkbookInv

LEMMA VerifyArchiveInv == ASSUME WorkbookInv, VerifyArchive PROVE WorkbookInv'
<1>1. CASE "broken" \in book.archive /\ End("refused")
  BY <1>1, Refused DEF Faulty
<1>2. CASE "large" \in book.archive /\ End("limit")
  BY <1>2, Refused DEF Oversize
<1>3. CASE book.archive = {} /\ End("sheet")
  BY <1>3, StaysRead DEF VerifyArchive
<1> QED BY <1>1, <1>2, <1>3 DEF VerifyArchive

LEMMA FinishInv == ASSUME WorkbookInv, Finish PROVE WorkbookInv'
<1>1. Reading /\ pc = "sheet" /\ sheet > Len(book.sheets) /\ book.archive = {}
  BY DEF WorkbookInv, Finish, Reading
<1>2. CASE products = << >> /\ End("refused")
  <2>1. GoodsRead = {}
    <3>1. Range(products) = {}
      BY <1>2 DEF Range
    <3>2. {<<p.sheet, p.row>> : p \in Range(products)} = {<<l.sheet, l.row>> : l \in GoodsRead}
      BY <1>1 DEF Reading, ProductsFine
    <3> QED BY <3>1, <3>2
  <2>2. Faulty(book)
    BY <1>1, <2>1, EverythingRead DEF Faulty
  <2> QED BY <1>2, <2>2, Refused
<1>3. CASE products # << >> /\ End("parsed")
  BY <1>1, <1>3, StaysRead
<1> QED BY <1>2, <1>3 DEF Finish

(* A sheet more is read, and charged when it has a part.                   *)
LEMMA SheetCharged ==
    ASSUME WorkbookInv, Reading, pc = "sheet", sheet \in Sheets(book), Read(This),
           charged'.rows <= MaxRows
    PROVE  /\ charged' \in [rows : Nat, bytes : Nat] /\ charged'.bytes = charged.bytes
           /\ charged'.rows = RowCount(book, SheetsRead \cup {sheet})
<1>1. IsBook(book) /\ sheet \in DOMAIN book.sheets /\ sheet \notin SheetsRead
      /\ SheetsRead \subseteq DOMAIN book.sheets /\ charged \in [rows : Nat, bytes : Nat]
  BY TheBook DEF WorkbookInv, WorkbookTypes, Sheets, SheetsRead, Inside
<1>2. RowCount(book, SheetsRead \cup {sheet})
        = RowCount(book, SheetsRead) + Cardinality(DOMAIN RowsOf(book, sheet))
  BY <1>1, RowCounts
<1>3. Cardinality(DOMAIN RowsOf(book, sheet)) \in Nat
  BY <1>1, BookRows, FS_CardinalityType DEF IsRows
<1>4. charged' = [charged EXCEPT !.rows = @ + Cardinality(DOMAIN RowsOf(book, sheet))]
  BY DEF Read, This, RowsOf
<1> QED BY <1>1, <1>2, <1>3, <1>4 DEF Reading

LEMMA SkipSheetInv == ASSUME WorkbookInv, SkipSheet PROVE WorkbookInv'
<1>1. /\ IsBook(book) /\ Reading /\ pc = "sheet" /\ sheet \in Nat \ {0}
      /\ sheet' = sheet + 1 /\ pc' = "sheet"
      /\ UNCHANGED <<book, late, seen, media, products>>
  BY TheBook DEF WorkbookInv, WorkbookTypes, SkipSheet, NextSheet, kept
<1>2. ~Inside /\ ~Inside' /\ pc # "pictures" /\ pc' # "pictures" /\ sheet \in DOMAIN book.sheets
  BY <1>1, SheetsAre DEF Inside, SkipSheet
<1>3. ~(sheet \in Sheets(book) /\ HasHeader(RowsOf(book, sheet)))
  BY <1>2 DEF SkipSheet, Sheets, This, RowsOf
<1>4. LinesRead' = LinesRead
  <2>1. \A l \in Lines(book) : l.sheet # sheet /\ l.sheet \in Nat
    BY <1>1, <1>3, LinesAre, SheetsAre DEF IsLine
  <2>2. \A l \in Lines(book) : l.sheet < sheet + 1 <=> l.sheet < sheet
    BY <1>1, <2>1
  <2> QED BY <1>1, <1>2, <2>2 DEF LinesRead
<1>5. GoodsRead' = GoodsRead /\ GoodsMet' = GoodsMet
  BY <1>1, <1>4 DEF GoodsRead, GoodsMet
<1>6. SheetsRead' = SheetsRead \cup ({sheet} \cap Sheets(book))
  <2>1. \A i \in Sheets(book) : i < sheet + 1 <=> i < sheet \/ i = sheet
    BY <1>1, SheetsAre
  <2> QED BY <1>1, <1>2, <2>1 DEF SheetsRead
<1>7. /\ charged' \in [rows : Nat, bytes : Nat] /\ charged'.bytes = charged.bytes
      /\ charged'.rows = RowCount(book, SheetsRead') /\ charged'.rows <= MaxRows
      /\ SheetsFine(book, SheetsRead')
  <2>1. CASE ~This.there /\ UNCHANGED charged
    <3>1. SheetsRead' = SheetsRead
      BY <1>6, <2>1 DEF This, Sheets
    <3> QED BY <1>1, <2>1, <3>1 DEF Reading, WorkbookInv, WorkbookTypes
  <2>2. CASE This.there /\ "cells" \notin This.wrong /\ ~HasHeader(This.rows)
             /\ Read(This) /\ charged'.rows <= MaxRows
    <3>1. sheet \in Sheets(book) /\ SheetsRead' = SheetsRead \cup {sheet}
      BY <1>2, <1>6, <2>2 DEF This, Sheets
    <3>2. SheetsFine(book, SheetsRead')
      BY <1>1, <2>2, <3>1 DEF Reading, SheetsFine, This, RowsOf
    <3> QED BY <1>1, <2>2, <3>1, <3>2, SheetCharged
  <2> QED BY <2>1, <2>2 DEF SkipSheet
<1>8. WorkbookTypes' /\ Refusals'
  BY <1>1, <1>7 DEF WorkbookInv, WorkbookTypes, Refusals
<1>9. Decoded'
  BY <1>1, <1>7 DEF WorkbookInv, Decoded, PicturesBudgeted
<1>10. Reading'
  BY <1>1, <1>2, <1>4, <1>5, <1>7 DEF Reading
<1> QED BY <1>8, <1>9, <1>10 DEF WorkbookInv

LEMMA EnterSheetInv == ASSUME WorkbookInv, EnterSheet PROVE WorkbookInv'
<1> DEFINE rows == RowsOf(book, sheet)
<1>1. /\ IsBook(book) /\ Reading /\ pc = "sheet" /\ sheet \in Nat \ {0} /\ pc' = "row"
      /\ UNCHANGED <<book, late, sheet, seen, media, products>>
  BY TheBook DEF WorkbookInv, WorkbookTypes, EnterSheet, kept
<1>2. /\ ~Inside /\ Inside' /\ pc # "pictures" /\ pc' # "pictures" /\ This.rows = rows
      /\ sheet \in DOMAIN book.sheets
  BY <1>1, SheetsAre DEF Inside, EnterSheet, This, RowsOf
<1>3. sheet \in Sheets(book) /\ HasHeader(rows) /\ book.sheets[sheet].wrong = {} /\ IsRows(rows)
  BY <1>1, <1>2, BookRows DEF EnterSheet, Sheets, This
<1>4. columns' = Layout(rows[HeaderRow(rows)]) /\ rest' = {r \in DOMAIN rows : r > HeaderRow(rows)}
  BY <1>2 DEF EnterSheet
<1>5. LinesRead' = LinesRead
  <2>1. \A l \in Lines(book) : l.sheet = sheet => l.row \in rest'
    BY <1>1, <1>4, LinesAre DEF IsLine
  <2> QED BY <1>1, <1>2, <2>1 DEF LinesRead
<1>6. GoodsRead' = GoodsRead /\ GoodsMet' = GoodsMet
  BY <1>1, <1>5 DEF GoodsRead, GoodsMet
<1>7. SheetsRead' = SheetsRead \cup {sheet}
  BY <1>1, <1>2, <1>3 DEF SheetsRead
<1>8. /\ charged' \in [rows : Nat, bytes : Nat] /\ charged'.bytes = charged.bytes
      /\ charged'.rows = RowCount(book, SheetsRead') /\ charged'.rows <= MaxRows
  BY <1>1, <1>3, <1>7, SheetCharged DEF EnterSheet
<1>9. SheetsFine(book, SheetsRead')
  BY <1>1, <1>3, <1>7 DEF Reading, SheetsFine
<1>10. Placed'
  <2>1. HeaderRow(rows) \in Nat /\ DOMAIN rows \subseteq Nat
    BY <1>3, HeaderRowIsBest DEF HasHeader, HeaderArea, IsRows
  <2>2. \A r \in rest' : IsLine(book, sheet, r)
    BY <1>3, <1>4 DEF IsLine
  <2>3. \A r \in rest' : \A q \in DOMAIN rows : q > r => q \in rest'
    BY <1>4, <2>1
  <2> HIDE DEF rows
  <2> QED BY <1>1, <1>3, <1>4, <2>2, <2>3 DEF Placed, rows
<1>11. WorkbookTypes' /\ Refusals'
  BY <1>1, <1>8 DEF WorkbookInv, WorkbookTypes, Refusals
<1>12. Decoded'
  BY <1>1, <1>8 DEF WorkbookInv, Decoded, PicturesBudgeted
<1>13. Reading'
  BY <1>1, <1>2, <1>5, <1>6, <1>8, <1>9, <1>10 DEF Reading
<1> QED BY <1>11, <1>12, <1>13 DEF WorkbookInv

LEMMA EndSheetInv == ASSUME WorkbookInv, EndSheet PROVE WorkbookInv'
<1>1. /\ IsBook(book) /\ Reading /\ pc = "row" /\ rest = {} /\ sheet \in Nat \ {0}
      /\ sheet' = sheet + 1 /\ pc' = "sheet"
      /\ UNCHANGED <<book, late, seen, media, products, charged>>
  BY TheBook DEF WorkbookInv, WorkbookTypes, EndSheet, NextSheet, kept
<1>2. Inside /\ ~Inside' /\ pc # "pictures" /\ pc' # "pictures"
  BY <1>1 DEF Inside
<1>3. \A i \in Sheets(book) : i \in Nat /\ (i < sheet + 1 <=> i < sheet \/ i = sheet)
  BY <1>1, SheetsAre
<1>4. LinesRead' = LinesRead
  BY <1>1, <1>2, <1>3, SheetsAre DEF LinesRead
<1>5. GoodsRead' = GoodsRead /\ GoodsMet' = GoodsMet
  BY <1>1, <1>4 DEF GoodsRead, GoodsMet
<1>6. SheetsRead' = SheetsRead
  BY <1>1, <1>2, <1>3 DEF SheetsRead
<1>7. WorkbookTypes' /\ Refusals'
  BY <1>1 DEF WorkbookInv, WorkbookTypes, Refusals
<1>8. Decoded'
  BY <1>1 DEF WorkbookInv, Decoded, PicturesBudgeted
<1>9. Reading'
  BY <1>1, <1>2, <1>4, <1>5, <1>6 DEF Reading
<1> QED BY <1>7, <1>8, <1>9 DEF WorkbookInv

(* The row is left: its line is read.                                      *)
LEMMA RowRead ==
    ASSUME WorkbookInv, Reading, Inside, rest # {}, NextRow
    PROVE  /\ Inside' /\ pc' # "pictures" /\ Placed'
           /\ SheetsRead' = SheetsRead /\ LinesRead' = LinesRead \cup {Current}
           /\ GoodsMet' = GoodsRead'
<1>1. /\ IsBook(book) /\ Placed /\ pc' = "row" /\ rest' = rest \ {Here}
      /\ UNCHANGED <<book, sheet, columns>>
  BY TheBook DEF WorkbookInv, Reading, NextRow
<1>2. Inside' /\ pc' # "pictures"
  BY <1>1 DEF Inside
<1>3. /\ Here \in rest /\ \A r \in rest : Here <= r
      /\ Current \in Lines(book) /\ Current.sheet = sheet /\ Current.row = Here
  BY CurrentIs
<1>4. \A l \in Lines(book) : l.sheet = sheet /\ l.row = Here => l = Current
  BY <1>1, LinesAre DEF Current
<1>5. LinesRead' = LinesRead \cup {Current}
  BY <1>1, <1>2, <1>3, <1>4 DEF LinesRead
<1>6. SheetsRead' = SheetsRead
  BY <1>1, <1>2 DEF SheetsRead
<1>7. Placed'
  <2>1. IsRows(RowsOf(book, sheet)) /\ \A r \in rest : r \in DOMAIN RowsOf(book, sheet)
    BY <1>1, BookRows DEF Placed, IsLine, Sheets
  <2>2. \A r \in rest' : \A q \in DOMAIN RowsOf(book, sheet) : q > r => q \in rest /\ q # Here
    BY <1>1, <1>3, <2>1 DEF Placed, IsRows
  <2> QED BY <1>1, <2>2 DEF Placed
<1>8. GoodsMet' = GoodsRead'
  BY <1>2 DEF GoodsMet
<1> QED BY <1>2, <1>5, <1>6, <1>7, <1>8

LEMMA SkipRowInv == ASSUME WorkbookInv, SkipRow PROVE WorkbookInv'
<1>1. /\ Reading /\ Inside /\ pc = "row" /\ rest # {} /\ NextRow /\ pc' = "row"
      /\ UNCHANGED <<book, late, sheet, seen, media, products, charged>>
  BY DEF WorkbookInv, SkipRow, NextRow, kept, Inside
<1>2. /\ Inside' /\ pc' # "pictures" /\ Placed'
      /\ SheetsRead' = SheetsRead /\ LinesRead' = LinesRead \cup {Current}
      /\ GoodsMet' = GoodsRead'
  BY <1>1, RowRead
<1>3. Current.cells = Row /\ Current.layout = columns
  BY <1>1, CurrentIs
<1>4. ~IsGood(Current) /\ Has(Current.cells, Current.layout) = {}
      /\ Text(Current.cells, Current.layout, "model") \notin LongTexts
  BY <1>3 DEF SkipRow, IsGood, LongModel, Required
<1>5. GoodsRead' = GoodsRead /\ GoodsMet = GoodsRead
  BY <1>1, <1>2, <1>4 DEF GoodsRead, GoodsMet
<1>6. LinesFine(LinesRead')
  BY <1>1, <1>2, <1>4 DEF Reading, LinesFine
<1>7. WorkbookTypes' /\ Refusals'
  BY <1>1 DEF WorkbookInv, WorkbookTypes, Refusals
<1>8. Decoded'
  BY <1>1 DEF WorkbookInv, Decoded, PicturesBudgeted
<1>9. Reading'
  BY <1>1, <1>2, <1>5, <1>6 DEF Reading
<1> QED BY <1>7, <1>8, <1>9 DEF WorkbookInv

LEMMA TakeRowInv == ASSUME WorkbookInv, TakeRow PROVE WorkbookInv'
<1>1. /\ Reading /\ Inside /\ pc = "row" /\ rest # {} /\ pc' = "pictures" /\ Inside'
      /\ anchored' = Anchors(book, sheet, Here) /\ shown' = << >>
      /\ seen' = seen \cup {Barcode(Row, columns)} /\ Barcode(Row, columns) \notin seen
      /\ UNCHANGED <<book, late, sheet, columns, rest, media, products, charged>>
  BY DEF WorkbookInv, TakeRow, place, Inside
<1>2. Current' = Current /\ Here' = Here /\ Row' = Row
  BY <1>1 DEF Current, Here, Row, This
<1>3. Current.cells = Row /\ Current.layout = columns
  BY <1>1, CurrentIs
<1>4. IsGood(Current) /\ BarcodeOn(Current) = Barcode(Row, columns)
  BY <1>3 DEF TakeRow, IsGood, BarcodeOn
<1>5. SheetsRead' = SheetsRead /\ LinesRead' = LinesRead
  BY <1>1 DEF SheetsRead, LinesRead
<1>6. GoodsRead' = GoodsRead /\ GoodsMet = GoodsRead /\ GoodsMet' = GoodsRead \cup {Current}
  BY <1>1, <1>2, <1>5 DEF GoodsRead, GoodsMet
<1>7. seen' = {BarcodeOn(l) : l \in GoodsMet'} /\ BarcodesOnce(GoodsMet')
  <2>1. seen = {BarcodeOn(l) : l \in GoodsRead} /\ BarcodesOnce(GoodsRead)
    BY <1>1, <1>6 DEF Reading
  <2>2. \A l \in GoodsRead : BarcodeOn(l) # BarcodeOn(Current)
    BY <1>1, <1>4, <2>1
  <2> QED BY <1>1, <1>4, <1>6, <2>1, <2>2 DEF BarcodesOnce
<1>8. MediaFine(book, DOMAIN media, GoodsMet', GoodsRead')
  BY <1>1, <1>6 DEF Reading, MediaFine
<1>9. PickFine(book, anchored', anchored', << >>, DOMAIN media)
  <2>1. Range(<< >>) = {} /\ IsSeq(<< >>) /\ DOMAIN << >> = {}
    BY DEF Range, IsSeq
  <2> QED BY <2>1 DEF PickFine
<1>10. Picking'
  <2>1. Text(Row, columns, "model") \notin LongTexts
    BY DEF TakeRow, LongModel
  <2> QED BY <1>1, <1>2, <1>4, <1>9, <2>1 DEF Picking
<1>11. Placed'
  BY <1>1 DEF Reading, Placed
<1>12. WorkbookTypes' /\ Refusals'
  BY <1>1 DEF WorkbookInv, WorkbookTypes, Refusals
<1>13. Decoded'
  BY <1>1 DEF WorkbookInv, Decoded, PicturesBudgeted
<1>14. Reading'
  BY <1>1, <1>5, <1>6, <1>7, <1>8, <1>10, <1>11 DEF Reading
<1> QED BY <1>12, <1>13, <1>14 DEF WorkbookInv

(* The leftmost picture is taken: it is shown unless its content is.       *)
LEMMA PickOne ==
    ASSUME NEW b, NEW all, NEW todo, NEW own, NEW M, PickFine(b, all, todo, own, M),
           NEW a \in todo, \A c \in todo : a.col <= c.col,
           NEW N, M \subseteq N, a.path \in N, NEW own2,
           own2 = IF \E i \in DOMAIN own : b.images[own[i]].digest = b.images[a.path].digest
                  THEN own ELSE Append(own, a.path)
    PROVE  PickFine(b, all, todo \ {a}, own2, N)
<1> DEFINE taken == all \ todo
           left  == all \ (todo \ {a})
           digest(p) == b.images[p].digest
<1>1. /\ todo \subseteq all /\ IsSeq(own)
      /\ \A x \in taken : x.path \in M /\ \A y \in todo : x.col <= y.col
      /\ Range(own) \subseteq {x.path : x \in taken}
      /\ \A x \in taken : \E n \in DOMAIN own : digest(own[n]) = digest(x.path)
      /\ \A m, n \in DOMAIN own : m < n =>
            digest(own[m]) # digest(own[n]) /\ InOrder(b, all, own[m], own[n])
  BY DEF PickFine
<1>2. left = taken \cup {a} /\ todo \ {a} \subseteq all
  BY <1>1
<1>3. \A x \in left : x.path \in N /\ \A y \in todo \ {a} : x.col <= y.col
  BY <1>1, <1>2
<1>4. CASE \E i \in DOMAIN own : digest(own[i]) = digest(a.path)
  <2>1. own2 = own
    BY <1>4
  <2>2. Range(own2) \subseteq {x.path : x \in left}
    BY <1>1, <1>2, <2>1
  <2>3. \A x \in left : \E n \in DOMAIN own2 : digest(own2[n]) = digest(x.path)
    BY <1>1, <1>2, <1>4, <2>1
  <2> QED BY <1>1, <1>2, <1>3, <2>1, <2>2, <2>3 DEF PickFine
<1>5. CASE ~\E i \in DOMAIN own : digest(own[i]) = digest(a.path)
  <2> DEFINE k == Len(own) + 1
  <2>1. own2 = Append(own, a.path)
    BY <1>5
  <2>2. /\ Len(own) \in Nat /\ DOMAIN own = 1..Len(own) /\ IsSeq(own2) /\ DOMAIN own2 = 1..k
        /\ (\A i \in DOMAIN own : own2[i] = own[i]) /\ own2[k] = a.path
        /\ Range(own2) = Range(own) \cup {a.path}
    BY <1>1, <2>1, AppendedTo
  <2>3. Range(own2) \subseteq {x.path : x \in left}
    BY <1>1, <1>2, <2>2
  <2>4. \A x \in left : \E n \in DOMAIN own2 : digest(own2[n]) = digest(x.path)
    BY <1>1, <1>2, <2>2
  <2>5. ASSUME NEW m \in DOMAIN own
        PROVE  digest(own[m]) # digest(a.path) /\ InOrder(b, all, own[m], a.path)
    <3>1. PICK x \in taken : x.path = own[m]
      BY <1>1 DEF Range
    <3>2. ASSUME NEW y \in all, digest(y.path) = digest(a.path)
          PROVE  x.col <= y.col
      <4>1. y \in todo
        BY <1>1, <1>5, <3>2
      <4> QED BY <1>1, <4>1
    <3> QED BY <1>5, <3>1, <3>2 DEF InOrder
  <2>6. ASSUME NEW m \in DOMAIN own2, NEW n \in DOMAIN own2, m < n
        PROVE  digest(own2[m]) # digest(own2[n]) /\ InOrder(b, all, own2[m], own2[n])
    <3>1. m \in DOMAIN own
      BY <2>2, <2>6
    <3>2. CASE n = k
      BY <2>2, <2>5, <3>1, <3>2
    <3>3. CASE n # k
      <4>1. n \in DOMAIN own
        BY <2>2, <3>3
      <4> QED BY <1>1, <2>2, <2>6, <3>1, <4>1
    <3> QED BY <3>2, <3>3
  <2> QED BY <1>2, <1>3, <2>2, <2>3, <2>4, <2>6 DEF PickFine
<1> QED BY <1>4, <1>5

(* The picture is decoded, unless it was before.                           *)
LEMMA PictureDecoded ==
    ASSUME WorkbookInv, TakePicture
    PROVE  /\ Decoded' /\ charged' \in [rows : Nat, bytes : Nat]
           /\ charged'.rows = charged.rows
           /\ DOMAIN media' = DOMAIN media \cup {Path}
           /\ \A p \in DOMAIN media' : media'[p] = book.images[p].digest
           /\ Path \in DOMAIN media \/ (~Image.broken /\ ~Image.large)
<1>1. /\ IsBook(book) /\ Reading /\ Path \in DOMAIN book.images /\ book' = book
      /\ charged \in [rows : Nat, bytes : Nat]
      /\ IsFiniteSet(DOMAIN media) /\ DOMAIN media \subseteq DOMAIN book.images
      /\ PicturesBudgeted /\ \A p \in DOMAIN media : media[p] = book.images[p].digest
  BY TheBook, NextPicture DEF WorkbookInv, WorkbookTypes, Decoded, TakePicture, Reading
<1>2. CASE Path \in DOMAIN media /\ UNCHANGED <<media, charged>>
  BY <1>1, <1>2 DEF Decoded, PicturesBudgeted
<1>3. CASE /\ Decodes(Path) /\ ~Image.broken /\ ~Image.large
           /\ charged.bytes + Image.bytes <= MaxImageBytes
           /\ charged' = [charged EXCEPT !.bytes = @ + Image.bytes]
           /\ media' = [p \in DOMAIN media \cup {Path} |-> book.images[p].digest]
  <2> DEFINE more == DOMAIN media \cup {Path}
  <2>1. DOMAIN media' = more /\ \A p \in more : media'[p] = book.images[p].digest
    BY <1>3
  <2>2. /\ IsFiniteSet(more) /\ Cardinality(more) = Cardinality(DOMAIN media) + 1
        /\ Cardinality(DOMAIN media) \in Nat
    BY <1>1, <1>3, FS_AddElement, FS_CardinalityType DEF Decodes
  <2>3. Bytes(book, more) = Bytes(book, DOMAIN media) + Image.bytes
    BY <1>1, <1>3, ByteSums DEF Decodes, Image
  <2>4. Image.bytes \in Nat
    BY <1>1 DEF IsBook, Image
  <2>5. charged' \in [rows : Nat, bytes : Nat] /\ charged'.rows = charged.rows
        /\ charged'.bytes = charged.bytes + Image.bytes
    BY <1>1, <1>3, <2>4
  <2>6. Cardinality(more) <= MaxImages
    BY <1>3, <2>2, BudgetsAssumption DEF Decodes
  <2>7. PicturesBudgeted'
    BY <1>1, <1>3, <2>1, <2>3, <2>5, <2>6 DEF PicturesBudgeted
  <2> QED BY <1>1, <1>3, <2>1, <2>2, <2>5, <2>7 DEF Decoded
<1> QED BY <1>2, <1>3 DEF TakePicture

LEMMA TakePictureInv == ASSUME WorkbookInv, TakePicture PROVE WorkbookInv'
<1> DEFINE all == Anchors(book, sheet, Here)
<1>1. /\ Reading /\ pc = "pictures" /\ pc' = "pictures" /\ Inside /\ Inside' /\ rest # {}
      /\ anchored # {} /\ anchored' = anchored \ {Leftmost(anchored)}
      /\ UNCHANGED <<book, late, sheet, columns, rest, seen, products>>
  BY DEF WorkbookInv, TakePicture, place, Inside, Reading, Picking
<1>2. /\ Leftmost(anchored) \in anchored
      /\ \A c \in anchored : Leftmost(anchored).col <= c.col
      /\ Path \in PicturesOf(book, Current)
  BY <1>1, NextPicture
<1>3. /\ Decoded' /\ charged' \in [rows : Nat, bytes : Nat]
      /\ charged'.rows = charged.rows
      /\ DOMAIN media' = DOMAIN media \cup {Path}
      /\ \A p \in DOMAIN media' : media'[p] = book.images[p].digest
      /\ Path \in DOMAIN media \/ (~Image.broken /\ ~Image.large)
  BY PictureDecoded
<1>4. Current' = Current /\ Here' = Here /\ Row' = Row
  BY <1>1 DEF Current, Here, Row, This
<1>5. SheetsRead' = SheetsRead /\ LinesRead' = LinesRead
  BY <1>1 DEF SheetsRead, LinesRead
<1>6. GoodsRead' = GoodsRead /\ GoodsMet' = GoodsMet /\ Current \in GoodsMet
  BY <1>1, <1>4, <1>5 DEF GoodsRead, GoodsMet
<1>7. MediaFine(book, DOMAIN media', GoodsMet, GoodsRead)
  BY <1>1, <1>2, <1>3, <1>6 DEF Reading, MediaFine, Image
<1>8. PickFine(book, all, anchored', shown', DOMAIN media')
  <2>1. PickFine(book, all, anchored, shown, DOMAIN media)
    BY <1>1 DEF Reading, Picking
  <2>2. \A i \in DOMAIN shown : media'[shown[i]] = book.images[shown[i]].digest
    <3>1. Range(shown) \subseteq DOMAIN media
      BY <2>1 DEF PickFine
    <3> QED BY <1>3, <3>1 DEF Range
  <2>3. shown' = IF \E i \in DOMAIN shown :
                       book.images[shown[i]].digest = book.images[Leftmost(anchored).path].digest
                 THEN shown ELSE Append(shown, Leftmost(anchored).path)
    BY <2>2 DEF TakePicture, Image, Path
  <2>4. DOMAIN media \subseteq DOMAIN media' /\ Leftmost(anchored).path \in DOMAIN media'
    BY <1>3 DEF Path
  <2> HIDE DEF all
  <2> QED BY <1>1, <1>2, <2>1, <2>3, <2>4, PickOne
<1>9. Picking' /\ Placed'
  BY <1>1, <1>4, <1>8 DEF Reading, Picking, Placed
<1>10. WorkbookTypes' /\ Refusals'
  BY <1>1, <1>3 DEF WorkbookInv, WorkbookTypes, Refusals
<1>11. Reading'
  BY <1>1, <1>3, <1>5, <1>6, <1>7, <1>9 DEF Reading
<1> QED BY <1>3, <1>10, <1>11 DEF WorkbookInv

(* The products of the result come from lines before the one read now.     *)
LEMMA Earlier ==
    ASSUME WorkbookInv, Reading, Inside, rest # {}, NEW i \in DOMAIN products
    PROVE  \/ products[i].sheet < sheet
           \/ products[i].sheet = sheet /\ products[i].row < Here
<1>1. PICK l \in GoodsRead : products[i].sheet = l.sheet /\ products[i].row = l.row
  <2>1. <<products[i].sheet, products[i].row>> \in {<<p.sheet, p.row>> : p \in Range(products)}
    BY DEF Range
  <2>2. {<<p.sheet, p.row>> : p \in Range(products)} = {<<l.sheet, l.row>> : l \in GoodsRead}
    BY DEF Reading, ProductsFine
  <2>3. PICK l \in GoodsRead : <<products[i].sheet, products[i].row>> = <<l.sheet, l.row>>
    BY <2>1, <2>2
  <2> QED BY <2>3
<1>2. CASE l.sheet < sheet
  BY <1>1, <1>2
<1>3. CASE l.sheet = sheet /\ l.row \notin rest
  <2>1. IsBook(book) /\ Placed /\ l \in Lines(book)
    BY TheBook DEF WorkbookInv, Reading, GoodsRead, LinesRead
  <2>2. IsRows(RowsOf(book, sheet)) /\ l.row \in DOMAIN RowsOf(book, sheet)
    BY <1>3, <2>1, LinesAre, BookRows DEF IsLine, Placed, Sheets
  <2>3. Here \in rest /\ Here \in DOMAIN RowsOf(book, sheet)
    BY <2>1, CurrentIs DEF IsLine
  <2>4. ~(l.row > Here) /\ l.row # Here
    BY <1>3, <2>1, <2>2, <2>3 DEF Placed
  <2> QED BY <1>1, <1>3, <2>2, <2>3, <2>4 DEF IsRows
<1> QED BY <1>2, <1>3 DEF GoodsRead, LinesRead

LEMMA KeepInv == ASSUME WorkbookInv, Keep PROVE WorkbookInv'
<1>1. Reading /\ pc = "pictures" /\ Inside /\ rest # {} /\ anchored = {} /\ Picking /\ IsBook(book)
  BY TheBook DEF WorkbookInv, Keep, Reading, Picking, Inside
<1>2. /\ Current \in Lines(book) /\ Current.sheet = sheet /\ Current.row = Here
      /\ Current.cells = Row /\ Current.layout = columns /\ IsGood(Current)
  BY <1>1, CurrentIs DEF Picking
<1>3. CASE LongText /\ End("limit")
  <2>1. Current \in Goods(book)
    BY <1>2 DEF Goods
  <2>2. \E f \in Optional : Text(Current.cells, Current.layout, f) \in LongTexts
    BY <1>2, <1>3 DEF LongText
  <2>3. Oversize(book)
    BY <2>1, <2>2 DEF Oversize
  <2> QED BY <1>3, <2>3, Refused
<1>4. CASE ~LongText /\ NextRow /\ UNCHANGED <<picking, seen, media>> /\
           \E p : /\ products' = Append(products, p) /\ p.sheet = sheet /\ p.row = Here
                 /\ p.pictures = shown
  <2>1. PICK p : /\ products' = Append(products, p) /\ p.sheet = sheet /\ p.row = Here
                 /\ p.pictures = shown
    BY <1>4
  <2>2. pc' = "row" /\ UNCHANGED <<book, late, sheet, seen, media, charged>>
    BY <1>4 DEF NextRow
  <2>3. /\ Inside' /\ pc' # "pictures" /\ Placed'
        /\ SheetsRead' = SheetsRead /\ LinesRead' = LinesRead \cup {Current}
        /\ GoodsMet' = GoodsRead'
    BY <1>1, <1>4, RowRead
  <2>4. GoodsRead' = GoodsRead \cup {Current} /\ GoodsMet' = GoodsMet
    BY <1>1, <1>2, <2>3 DEF GoodsRead, GoodsMet
  <2>5. LinesFine(LinesRead')
    <3>1. /\ Has(Current.cells, Current.layout) = Required
          /\ Text(Current.cells, Current.layout, "model") \notin LongTexts
          /\ \A f \in Optional : Text(Current.cells, Current.layout, f) \notin LongTexts
      BY <1>1, <1>2, <1>4 DEF IsGood, Picking, LongText
    <3> QED BY <1>1, <2>3, <3>1 DEF Reading, LinesFine
  <2>6. PickFine(book, Anchors(book, sheet, Here), {}, shown, DOMAIN media)
    BY <1>1 DEF Picking
  <2>7. ShowsRow(book, Anchors(book, sheet, Here), shown)
    BY <2>6 DEF PickFine, ShowsRow
  <2>8. MediaFine(book, DOMAIN media, GoodsMet, GoodsRead')
    <3>1. PicturesOf(book, Current) \subseteq DOMAIN media
      BY <1>2, <2>6 DEF PickFine, PicturesOf
    <3> QED BY <1>1, <2>4, <3>1 DEF Reading, MediaFine
  <2>9. ProductsFine(book, products', GoodsRead')
    <3> DEFINE k == Len(products) + 1
               t == products'
    <3>1. ProductsFine(book, products, GoodsRead)
      BY <1>1 DEF Reading
    <3>2. /\ Len(products) \in Nat /\ DOMAIN products = 1..Len(products)
          /\ IsSeq(t) /\ DOMAIN t = 1..k /\ (\A i \in DOMAIN products : t[i] = products[i])
          /\ t[k] = p /\ Range(t) = Range(products) \cup {p}
      BY <2>1, <3>1, AppendedTo DEF ProductsFine
    <3>3. {<<x.sheet, x.row>> : x \in Range(t)} = {<<l.sheet, l.row>> : l \in GoodsRead'}
      BY <1>2, <2>1, <2>4, <3>1, <3>2 DEF ProductsFine
    <3>4. ASSUME NEW i \in DOMAIN t, NEW j \in DOMAIN t, i < j
          PROVE  \/ t[i].sheet < t[j].sheet
                 \/ t[i].sheet = t[j].sheet /\ t[i].row < t[j].row
      <4>1. i \in DOMAIN products
        BY <3>2, <3>4
      <4>2. CASE j = k
        <5>1. \/ products[i].sheet < sheet
              \/ products[i].sheet = sheet /\ products[i].row < Here
          BY <1>1, <4>1, Earlier
        <5>2. t[i] = products[i] /\ t[j] = p
          BY <3>2, <4>1, <4>2
        <5> QED BY <2>1, <5>1, <5>2
      <4>3. CASE j # k
        <5>1. j \in DOMAIN products
          BY <3>2, <4>3
        <5>2. t[i] = products[i] /\ t[j] = products[j]
          BY <3>2, <4>1, <5>1
        <5>3. \A m, n \in DOMAIN products : m < n =>
                \/ products[m].sheet < products[n].sheet
                \/ products[m].sheet = products[n].sheet /\ products[m].row < products[n].row
          BY <3>1 DEF ProductsFine
        <5> QED BY <3>4, <4>1, <5>1, <5>2, <5>3
      <4> QED BY <4>2, <4>3
    <3>5. ASSUME NEW i \in DOMAIN t
          PROVE  ShowsRow(book, Anchors(book, t[i].sheet, t[i].row), t[i].pictures)
      <4>1. CASE i = k
        BY <2>1, <2>7, <3>2, <4>1
      <4>2. CASE i # k
        BY <3>1, <3>2, <4>2 DEF ProductsFine
      <4> QED BY <4>1, <4>2
    <3> HIDE DEF t
    <3>6. ProductsFine(book, t, GoodsRead')
      BY <3>2, <3>3, <3>4, <3>5 DEF ProductsFine
    <3> QED BY <3>6 DEF t
  <2>10. WorkbookTypes' /\ Refusals'
    BY <2>2 DEF WorkbookInv, WorkbookTypes, Refusals
  <2>11. Decoded'
    BY <2>2 DEF WorkbookInv, Decoded, PicturesBudgeted
  <2>12. Reading'
    BY <1>1, <2>2, <2>3, <2>4, <2>5, <2>8, <2>9 DEF Reading
  <2> QED BY <2>10, <2>11, <2>12 DEF WorkbookInv
<1> QED
  <2> DEFINE p == [sheet |-> sheet, row |-> Here, barcode |-> Barcode(Row, columns),
                   category |-> Text(Row, columns, "category"), pictures |-> shown]
  <2>1. p.sheet = sheet /\ p.row = Here /\ p.pictures = shown
    OBVIOUS
  <2>2. \/ LongText /\ End("limit")
        \/ ~LongText /\ NextRow /\ UNCHANGED <<picking, seen, media>> /\ products' = Append(products, p)
    BY DEF Keep
  <2> HIDE DEF p
  <2> QED BY <1>3, <1>4, <2>1, <2>2

LEMMA LateInv == ASSUME WorkbookInv, Late PROVE WorkbookInv'
<1>1. pc' = "limit" /\ late' = TRUE /\ UNCHANGED <<book, sheet, media, charged>>
  BY DEF Late, place, kept
<1>2. WorkbookTypes' /\ Refusals'
  BY <1>1 DEF WorkbookInv, WorkbookTypes, Refusals
<1>3. Decoded'
  BY <1>1 DEF WorkbookInv, Decoded, PicturesBudgeted
<1> QED BY <1>1, <1>2, <1>3 DEF WorkbookInv

LEMMA InitInv == Init => WorkbookInv
<1> SUFFICES ASSUME Init PROVE WorkbookInv
  OBVIOUS
<1>1. /\ book \in Workbooks /\ pc = "archive" /\ sheet = 1 /\ late = FALSE
      /\ seen = {} /\ media = << >> /\ products = << >> /\ charged = [rows |-> 0, bytes |-> 0]
  BY DEF Init
<1>2. WorkbookTypes /\ Refusals
  <2>1. 0 \in Nat /\ 1 \in Nat \ {0} /\ charged \in [rows : Nat, bytes : Nat]
    BY <1>1
  <2> QED BY <1>1, <2>1 DEF WorkbookTypes, Refusals
<1>3. IsBook(book) /\ DOMAIN media = {}
  BY <1>1, <1>2, TheBook
<1>4. Decoded
  <2>1. Bytes(book, {}) = 0
    BY SumEmpty DEF Bytes
  <2> QED BY <1>1, <1>3, <2>1, FS_EmptySet, BudgetsAssumption DEF Decoded, PicturesBudgeted
<1>5. ~Inside /\ SheetsRead = {} /\ LinesRead = {}
  <2>1. \A i \in Sheets(book) : ~(i < 1)
    BY <1>3, SheetsAre
  <2>2. ~Inside
    BY <1>1 DEF Inside
  <2> QED BY <1>1, <1>3, <2>1, <2>2, SheetsAre DEF SheetsRead, LinesRead
<1>6. GoodsRead = {} /\ GoodsMet = {}
  BY <1>1, <1>5 DEF GoodsRead, GoodsMet
<1>7. RowCount(book, {}) = 0
  BY SumEmpty DEF RowCount
<1>8. ProductsFine(book, << >>, {})
  <2>1. Range(<< >>) = {} /\ IsSeq(<< >>) /\ DOMAIN << >> = {}
    BY DEF Range, IsSeq
  <2> QED BY <2>1 DEF ProductsFine
<1>9. Reading
  BY <1>1, <1>3, <1>5, <1>6, <1>7, <1>8, BudgetsAssumption
     DEF Reading, SheetsFine, LinesFine, BarcodesOnce, MediaFine
<1> QED BY <1>2, <1>4, <1>9 DEF WorkbookInv

LEMMA NextInv == WorkbookInv /\ [Next]_vars => WorkbookInv'
<1> SUFFICES ASSUME WorkbookInv, [Next]_vars PROVE WorkbookInv'
  OBVIOUS
<1>1. CASE UNCHANGED vars
  <2>1. UNCHANGED <<book, pc, sheet, columns, rest, anchored, shown, seen, media,
                    products, charged, late>>
    BY <1>1 DEF vars
  <2>2. UNCHANGED <<SheetsRead, LinesRead, Current, Inside, Here, Row>>
    BY <2>1 DEF SheetsRead, LinesRead, Inside, Current, Here, Row, This
  <2>3. UNCHANGED <<GoodsRead, GoodsMet>>
    BY <2>1, <2>2 DEF GoodsRead, GoodsMet
  <2>4. WorkbookTypes' /\ Refusals'
    BY <2>1 DEF WorkbookInv, WorkbookTypes, Refusals
  <2>5. Decoded'
    BY <2>1 DEF WorkbookInv, Decoded, PicturesBudgeted
  <2>6. Placed' <=> Placed
    BY <2>1 DEF Placed
  <2>7. Picking' <=> Picking
    BY <2>1, <2>2 DEF Picking
  <2>8. Reading' <=> Reading
    BY <2>1, <2>2, <2>3, <2>6, <2>7 DEF Reading
  <2> QED BY <2>1, <2>4, <2>5, <2>8 DEF WorkbookInv
<1>2. CASE VerifyArchive \/ SkipSheet \/ BreakSheet \/ EnterSheet \/ Finish
  BY <1>2, VerifyArchiveInv, SkipSheetInv, BreakSheetInv, EnterSheetInv, FinishInv
<1>3. CASE EndSheet \/ SkipRow \/ RejectRow \/ TakeRow
  BY <1>3, EndSheetInv, SkipRowInv, RejectRowInv, TakeRowInv
<1>4. CASE RejectPicture \/ TakePicture \/ Keep \/ Late
  BY <1>4, RejectPictureInv, TakePictureInv, KeepInv, LateInv
<1> QED BY <1>1, <1>2, <1>3, <1>4 DEF Next

(* What the reader met of a file, at any moment, for any files and any     *)
(* budgets.                                                                *)
THEOREM WorkbookInvariant == Spec => []WorkbookInv
BY InitInv, NextInv, PTL DEF Spec

(* The decoded pictures stay within both budgets, and each is charged once *)
(* however many rows show it (parse_workbook).                             *)
THEOREM PicturesWithinBudget == Spec => []PicturesBudgeted
<1>1. WorkbookInv => PicturesBudgeted
  BY DEF WorkbookInv, Decoded
<1> QED BY <1>1, WorkbookInvariant, PTL

(* What was read to the end is without a fault and within its budgets.     *)
LEMMA ParsedIsFine ==
    ASSUME WorkbookInv, pc = "parsed"
    PROVE  ~Faulty(book) /\ ~Oversize(book)
<1>1. /\ IsBook(book) /\ Reading /\ sheet > Len(book.sheets) /\ products # << >>
      /\ book.archive = {}
  BY TheBook DEF WorkbookInv, Reading
<1>2. SheetsRead = Sheets(book) /\ LinesRead = Lines(book) /\ GoodsRead = Goods(book)
  BY <1>1, EverythingRead
<1>3. GoodsMet = Goods(book)
  BY <1>2 DEF GoodsMet
<1>4. AllPictures(book) \subseteq DOMAIN media
      /\ \A p \in DOMAIN media : ~book.images[p].broken /\ ~book.images[p].large
  BY <1>1, <1>2 DEF Reading, MediaFine, AllPictures
<1>5. ~Faulty(book)
  <2>1. ~\E i \in Sheets(book) : "cells" \in book.sheets[i].wrong
    BY <1>1, <1>2 DEF Reading, SheetsFine
  <2>2. ~\E i \in Sheets(book) : \E h \in DOMAIN book.sheets[i].rows :
            "drawing" \in book.sheets[i].wrong /\ IsHeader(book.sheets[i].rows, h)
    <3> SUFFICES ASSUME NEW i \in Sheets(book), NEW h, IsHeader(RowsOf(book, i), h)
                 PROVE  "drawing" \notin book.sheets[i].wrong
      BY DEF RowsOf
    <3>1. HasHeader(RowsOf(book, i))
      BY <1>1, BookRows, HeaderIsHeaderRow DEF Sheets
    <3> QED BY <1>1, <1>2, <3>1 DEF Reading, SheetsFine
  <2>3. ~\E l \in Lines(book) : Has(l.cells, l.layout) \notin {{}, Required}
    BY <1>1, <1>2 DEF Reading, LinesFine
  <2>4. ~\E l, k \in Goods(book) : l # k /\ BarcodeOn(l) = BarcodeOn(k)
    BY <1>1, <1>3 DEF Reading, BarcodesOnce
  <2>5. Goods(book) # {}
    <3>1. Range(products) # {}
      BY <1>1 DEF Reading, ProductsFine, IsSeq, Range
    <3>2. {<<p.sheet, p.row>> : p \in Range(products)} = {<<l.sheet, l.row>> : l \in Goods(book)}
      BY <1>1, <1>2 DEF Reading, ProductsFine
    <3> QED BY <3>1, <3>2
  <2> QED BY <1>1, <1>4, <2>1, <2>2, <2>3, <2>4, <2>5 DEF Faulty
<1>6. ~Oversize(book)
  <2>1. RowCount(book, Sheets(book)) <= MaxRows /\ RowCount(book, Sheets(book)) \in Nat
    <3>1. Sheets(book) \subseteq DOMAIN book.sheets
      BY DEF Sheets
    <3> QED BY <1>1, <1>2, <3>1, RowCounts DEF Reading
  <2>2. /\ ~\E l \in Lines(book) : Text(l.cells, l.layout, "model") \in LongTexts
        /\ ~\E l \in Goods(book), f \in Optional : Text(l.cells, l.layout, f) \in LongTexts
    BY <1>1, <1>2 DEF Reading, LinesFine, Goods
  <2>3. IsFiniteSet(DOMAIN media) /\ DOMAIN media \subseteq DOMAIN book.images /\ PicturesBudgeted
    BY DEF WorkbookInv, Decoded
  <2>4. /\ Cardinality(AllPictures(book)) <= MaxImages /\ Cardinality(AllPictures(book)) \in Nat
    <3>1. /\ IsFiniteSet(AllPictures(book))
          /\ Cardinality(AllPictures(book)) <= Cardinality(DOMAIN media)
          /\ Cardinality(AllPictures(book)) \in Nat /\ Cardinality(DOMAIN media) \in Nat
      BY <1>4, <2>3, FS_Subset, FS_CardinalityType
    <3> QED BY <2>3, <3>1, BudgetsAssumption DEF PicturesBudgeted
  <2>5. Bytes(book, AllPictures(book)) <= MaxImageBytes /\ Bytes(book, AllPictures(book)) \in Nat
    <3>1. /\ Bytes(book, AllPictures(book)) <= Bytes(book, DOMAIN media)
          /\ Bytes(book, DOMAIN media) \in Nat /\ Bytes(book, AllPictures(book)) \in Nat
      BY <1>1, <1>4, <2>3, ByteSums, PicturesOfBook
    <3> QED BY <2>3, <3>1, BudgetsAssumption DEF PicturesBudgeted
  <2> QED BY <1>1, <1>4, <2>1, <2>2, <2>4, <2>5, BudgetsAssumption DEF Oversize
<1> QED BY <1>5, <1>6

(* A file that gets through has no fault and is within its budgets, a file *)
(* that is refused has a fault, and the batch ends only for a file over a  *)
(* budget or for the time (parse_workbook).                                *)
THEOREM VerdictsAreTrue == Spec => []VerdictTrue
<1>1. WorkbookInv => VerdictTrue
  BY ParsedIsFine DEF WorkbookInv, Refusals, VerdictTrue
<1> QED BY <1>1, WorkbookInvariant, PTL

(* A file that gets through yields every product row of its readable       *)
(* sheets, once, in order, with the pictures of that row from left to      *)
(* right (parse_workbook).                                                 *)
THEOREM ParsesTheWhole == Spec => []ParsedWhole
<1>1. WorkbookInv => ParsedWhole
  <2> SUFFICES ASSUME WorkbookInv, pc = "parsed" PROVE ParsedWhole
    BY DEF ParsedWhole
  <2>1. Reading /\ GoodsRead = Goods(book)
    BY EverythingRead DEF WorkbookInv, Reading
  <2> QED BY <2>1 DEF Reading, ProductsFine, ParsedWhole
<1> QED BY <1>1, WorkbookInvariant, PTL
=============================================================================
