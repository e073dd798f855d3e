------------------------------ MODULE Pricelist ------------------------------
(***************************************************************************)
(* What one XLSX price list does to the catalog (the writes of import_xlsx *)
(* in shop/xlsx_importer.py).  The rows that parse_workbook returns are a  *)
(* function from barcodes to products: a file that names a barcode twice   *)
(* is refused.  A price is the one after the multiplier; `brand', `price'  *)
(* and `images' stand for the other columns, which are written with them.  *)
(***************************************************************************)
EXTENDS FiniteSets

CONSTANTS
    Barcodes,       \* the key of the table products for imports
    Brands,         \* the names of sheets
    Prices,
    Images          \* pictures, named by the digest of their bytes

Entry == [brand : Brands, price : Prices, images : SUBSET Images]

Row == [brand : Brands, price : Prices, images : SUBSET Images, active : BOOLEAN]

Tables == UNION {[B -> Row] : B \in SUBSET Barcodes}

Books == UNION {[B -> Entry] : B \in SUBSET Barcodes}

Listed(entry) ==
    [brand |-> entry.brand, price |-> entry.price, images |-> entry.images,
     active |-> TRUE]

(* INSERT or UPDATE of the product with this barcode.                      *)
Upserted(table, book, b) ==
    [x \in DOMAIN table \cup {b} |-> IF x = b THEN Listed(book[b]) ELSE table[x]]

(* The brands of a file, and the active products of one that it lacks.     *)
Seen(book) == {book[b].brand : b \in DOMAIN book}

(* Mutant of Missing: the brands of the file are not asked for.            *)
MissingAnywhere(table, book) == {x \in DOMAIN table \ DOMAIN book : table[x].active}

Missing(table, book) ==
    {x \in DOMAIN table :
        /\ table[x].active
        /\ table[x].brand \in Seen(book)
        /\ x \notin DOMAIN book}

(* deactivate_missing, after the products of the file were written.        *)
Hidden(table, book) ==
    [x \in DOMAIN table |->
        IF x \in Missing(table, book)
        THEN [table[x] EXCEPT !.active = FALSE]
        ELSE table[x]]

(* The pictures that the pages of a catalog refer to.                      *)
Shown(table) == UNION {table[x].images : x \in DOMAIN table}
=============================================================================
