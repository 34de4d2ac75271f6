----------------------------- MODULE ValueCodec -----------------------------
(***************************************************************************)
(* How a property's value becomes a cell of a table and a cell a value     *)
(* again: the column type of a property (NBDBHelper.m), the binding of a   *)
(* value (NBSQLStatementHelper.m and FMDB), SQLite's column affinity, and  *)
(* setValue:forKey:typeEncoding: (NBBaseDBTableModel.m).                   *)
(*                                                                         *)
(* The kind of a property is its type encoding or its class.  "c", "i",    *)
(* "q", "Q" stand for char and for BOOL where it is one, for int and       *)
(* short, for long long, and for the unsigned types; "NSMutableString" is  *)
(* any subclass of NSString, "UIColor" is also UIImage, and "object" any   *)
(* class without a branch of its own.  A width is half the number of       *)
(* values of a type.                                                       *)
(***************************************************************************)
EXTENDS Integers

CONSTANTS
    CharHalf, IntHalf, LongHalf,   \* 2^7, 2^31 and 2^63
    Nil

ASSUME ValueCodecAssumption ==
    /\ CharHalf \in Nat \ {0} /\ IntHalf \in Nat \ {0} /\ LongHalf \in Nat \ {0}
    /\ CharHalf <= IntHalf /\ IntHalf <= LongHalf
    /\ Nil \notin [cls  : {"number", "string", "date", "data", "object", "raised"},
                   form : {"plain", "numeral", "other", "empty", "description",
                           "number", "string", "date", "object"}, n : Int]

Scalars == {"c", "i", "q", "Q"}
Kinds   == Scalars \cup
             {"NSString", "NSMutableString", "NSNumber", "NSDate", "NSData", "UIColor", "object"}

\* An Objective-C object.  Of a string is known whether it is a numeral, some
\* other text, or empty; of the rest, which one it is.  A data object read from
\* a cell may be the archive of something else, or what raises an exception.
Object(cls, form, n) == [cls |-> cls, form |-> form, n |-> n]
Number(n)  == Object("number", "plain", n)
Numeral(n) == Object("string", "numeral", n)
Empty      == Object("string", "empty", 0)
Raised     == Object("raised", "plain", 0)

Cell(store, form, n) == [store |-> store, form |-> form, n |-> n]
Null == Cell("null", "plain", 0)

\* columnTypeStringWithDataType:
ColumnType(kind) ==
    CASE kind \in {"i", "q", "Q"} -> "NUMERIC"
      [] kind = "c"               -> "CHAR"
      [] kind = "NSString"        -> "VARCHAR"
      [] OTHER                    -> "BLOB"

Signed(half, n)   == ((n + half) % (2 * half)) - half
Unsigned(half, n) == n % (2 * half)

\* What is left of a number in a property of the kind.
Narrow(kind, n) ==
    CASE kind = "c" -> Signed(CharHalf, n)
      [] kind = "i" -> Signed(IntHalf, n)
      [] kind = "q" -> Signed(LongHalf, n)
      [] kind = "Q" -> Unsigned(LongHalf, n)

\* bindObject: of FMDB.  An object that it does not know is bound as the text
\* that describes it, a date as a number.
BindObject(o) ==
    IF o = Nil THEN Null
    ELSE CASE o.cls \in {"number", "date"} -> Cell("integer", "plain", Signed(LongHalf, o.n))
           [] o.cls = "string"             -> Cell("text", o.form, o.n)
           [] o.cls = "data"               -> Cell("blob", o.form, o.n)
           [] OTHER                        -> Cell("text", "description", 0)

\* createInsertSQLWithColumns: objects for a BLOB column are archived.
BindInserted(kind, o) ==
    IF ColumnType(kind) = "BLOB" /\ o # Nil /\ o.cls # "data"
      THEN Cell("blob", o.cls, o.n) ELSE BindObject(o)

\* MUTANT: a column of texts leaves numbers as they are.
Affinity_OfNumbers(type, cell) ==
    IF type = "NUMERIC" /\ cell.form = "numeral" THEN Cell("integer", "plain", cell.n) ELSE cell

\* SQLite stores a number in a text column as its numeral and a numeral in a
\* numeric column as its number.
Affinity(type, cell) ==
    CASE type = "NUMERIC" /\ cell.form = "numeral"             -> Cell("integer", "plain", cell.n)
      [] type \in {"CHAR", "VARCHAR"} /\ cell.store = "integer" -> Cell("text", "numeral", cell.n)
      [] OTHER                                                  -> cell

\* objectForColumnIndex: of FMDB.
ObjectForColumn(cell) ==
    CASE cell.store = "integer" -> Number(cell.n)
      [] cell.store = "text"    -> Object("string", cell.form, cell.n)
      [] cell.store = "blob"    -> Object("data", cell.form, cell.n)
      [] OTHER                  -> Nil

\* The number a text begins with, or 0.
NumberOf(o) == IF o.form \in {"plain", "numeral"} THEN o.n ELSE 0

\* A scalar property asks the object for a number; a string has none that is
\* unsigned, and data none at all.
SetScalar(kind, o) ==
    IF o.cls = "data" \/ (o.cls = "string" /\ kind = "Q") THEN Raised
    ELSE Number(Narrow(kind, NumberOf(o)))

\* Another asks for its length first, which a number has not.  A subclass of
\* NSString gets what is there, be it data, and a UIColor nothing.
SetObject(kind, o) ==
    IF o.cls = "number" THEN Raised
    ELSE IF o.form = "empty" THEN Nil
    ELSE CASE kind \in {"NSString", "NSMutableString"} -> o
           [] kind = "NSNumber" -> IF o.cls = "data" THEN Raised ELSE Number(NumberOf(o))
           [] kind = "object" /\ o.cls = "data" /\ o.form = "object" -> Object("object", "plain", o.n)
           [] OTHER -> Nil

\* setValue:forKey:typeEncoding:
SetValue(kind, o) == IF kind \in Scalars THEN SetScalar(kind, o) ELSE SetObject(kind, o)

\* executeResult:class: leaves a property alone if its cell is NULL.
ReadProperty(kind, cell) ==
    IF ObjectForColumn(cell) = Nil THEN IF kind \in Scalars THEN Number(0) ELSE Nil
    ELSE SetValue(kind, ObjectForColumn(cell))
=============================================================================
