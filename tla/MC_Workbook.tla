---------------------------- MODULE MC_Workbook ----------------------------
(* Instances of Workbook for TLC: small price lists, right and wrong.      *)
EXTENDS Workbook, TLC

Texts == {"", "Model", "Barcode", "Price", "Color", "m", "b1", "b2", "p", "x", "long"}

MCFieldOf ==
    [t \in Texts |-> CASE t = "Model" -> "model"   [] t = "Barcode" -> "barcode"
                       [] t = "Price" -> "price"   [] t = "Color" -> "color"
                       [] OTHER -> "none"]

MCBarcodeOf == [t \in Texts |-> IF t \in {"b1", "b2"} THEN t ELSE "none"]

MCPriceOf == [t \in Texts |-> IF t = "p" THEN 5 ELSE 0]

Cells(a, b, c, d) ==
    SelectSeq(<<[col |-> 0, text |-> a], [col |-> 1, text |-> b],
                [col |-> 2, text |-> c], [col |-> 3, text |-> d]>>,
              LAMBDA cell : cell.text # "")

Head1 == Cells("x", "Model", "Barcode", "Price")
Head2 == Cells("Price", "Model", "Barcode", "Color")  \* other columns, more headers
Good1 == Cells("p", "m", "b1", "p")
Good2 == Cells("p", "m", "b2", "p")
Part  == Cells("x", "m", "", "p")
Note  == Cells("", "", "", "x")
Long  == Cells("long", "m", "b2", "p")               \* a long category
Aside == Cells("long", "", "", "")                   \* the same, but no product
Name  == Cells("", "long", "", "")                   \* a long model

(* Rows are numbered with gaps.                                            *)
Rows(s) == [r \in {2 * i : i \in DOMAIN s} |-> s[r \div 2]]

Sheet(s, anchors) ==
    [there |-> TRUE, wrong |-> {}, rows |-> Rows(s), anchors |-> anchors]

Pic(digest, bytes, broken, large) ==
    [digest |-> digest, bytes |-> bytes, broken |-> broken, large |-> large]

(* Two pictures with the same content, one larger, one of each bad kind.   *)
Images ==
    [p \in {"a", "b", "c", "bad", "huge"} |->
        CASE p = "a" -> Pic("d1", 1, FALSE, FALSE)
          [] p = "b" -> Pic("d1", 1, FALSE, FALSE)
          [] p = "c" -> Pic("d2", 3, FALSE, FALSE)
          [] p = "bad" -> Pic("d3", 1, TRUE, FALSE)
          [] p = "huge" -> Pic("d4", 1, FALSE, TRUE)]

At(row, col, path) == [row |-> row, col |-> col, path |-> path]

Book(sheets) == [archive |-> {}, sheets |-> sheets, images |-> Images]

(* Every sheet of four rows, without pictures.                             *)
OneSheet ==
    {Book(<<Sheet(<<a, b, c, d>>, {})>>) :
        a \in {Head1, Head2, Note, Good1}, b \in {Head1, Head2, Note, Good1, Good2, Part},
        c \in {Head1, Head2, Good1, Good2, Note, Part, Long, Name, Aside},
        d \in {Good1, Good2, Note, Part}}

(* Two products with pictures, some shared, some alike, some bad.          *)
Pictured ==
    {Book(<<Sheet(<<Head1, Good1, Good2>>,
                  {At(4, 0, p), At(4, 1, q), At(6, 0, r), At(6, 1, "missing")})>>) :
        p, q, r \in DOMAIN Images}

Some == {Sheet(<<Head1, Good1>>, {At(4, 0, "a")}), Sheet(<<Head2, Good2>>, {At(4, 1, "a")}),
         Sheet(<<Note, Good1>>, {}), Sheet(<<Head1, Good1, Note, Good2>>, {At(8, 0, "b")}),
         [Sheet(<<Head1, Good2>>, {}) EXCEPT !.there = FALSE],
         [Sheet(<<Note, Good2>>, {}) EXCEPT !.wrong = {"drawing"}],
         [Sheet(<<Head1, Good2>>, {}) EXCEPT !.wrong = {"drawing"}],
         [Sheet(<<Head1, Good2>>, {}) EXCEPT !.wrong = {"cells"}]}

TwoSheets == {Book(<<s, t>>) : s, t \in Some}

Damaged == {[Book(<<>>) EXCEPT !.archive = a] : a \in SUBSET {"broken", "large"}}

MCWorkbooks == OneSheet \cup Pictured \cup TwoSheets \cup Damaged
=============================================================================
