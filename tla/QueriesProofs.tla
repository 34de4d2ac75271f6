---------------------------- MODULE QueriesProofs ----------------------------
(***************************************************************************)
(* What the calls with a where argument keep, for any program that stores  *)
(* values of its properties' types and passes conditions on them.          *)
(***************************************************************************)
EXTENDS Queries, ValueCodecProofs, FiniteSetTheorems

(* The program: hypotheses of the theorems.  TLC can evaluate all but the last. *)

\* The signed types may grow.
Grows == {<<"c", "i">>, <<"c", "q">>, <<"i", "q">>}

\* A property of this type may have the column of that one.
Linked(m, k) == k \in Kinds /\ (m = k \/ <<m, k>> \in Grows)

\* The kinds of property whose values an update binds as an insert does.
Settable == Scalars \cup {"NSString"}

IsObject(o, cls, forms) == o = Object(cls, o.form, o.n) /\ o.form \in forms /\ o.n \in Int

\* The values of a property.
Holds(k, o) ==
    \/ k \in Scalars /\ \E n \in Numbers(k) : o = Number(n)
    \/ k \in Kinds \ Scalars /\ o = Nil
    \/ k \in {"NSString", "NSMutableString"} /\ (o = Empty \/ IsObject(o, "string", {"numeral", "other"}))
    \/ k = "NSNumber" /\ IsObject(o, "number", {"plain"})
    \/ k = "NSDate" /\ IsObject(o, "date", {"plain"})
    \/ k = "NSData" /\ IsObject(o, "data", {"other"})
    \/ k \in {"UIColor", "object"} /\ IsObject(o, "object", {"plain"})

\* The types, and how they change.
TypesKept == Evolves \subseteq Grows

\* A property is given values of its type.
ValuesKept == \A k \in Kinds : \A o \in Values(k) \cup Changes(k) : Holds(k, o)

\* A condition is on the key and the property, with values they can have.
Proper(w, k) ==
    /\ DOMAIN w.entries \subseteq {"id", "p"}
    /\ \A c \in DOMAIN w.entries : w.entries[c] # {}
    /\ "id" \in DOMAIN w.entries => \A o \in w.entries["id"] : Holds("q", o)
    /\ "p" \in DOMAIN w.entries =>
         k \in Settable /\ \A o \in w.entries["p"] : Holds(k, o) /\ o # Nil /\ o # Empty

Says(w)   == w.form \in {"dictionary", "text"} /\ DOMAIN w.entries # {}
Silent(w) == w.form \in {"nil", "blank"} /\ DOMAIN w.entries = {}
Hollow(w) == w.form = "dictionary" /\ DOMAIN w.entries = {}

\* Each call is given a condition it can take; one column and one integer are
\* asked of properties whose objects are those of the column.
WheresKept ==
    \A k, m \in Kinds :
      /\ \A w \in Wheres("updateTable", k, m) : Proper(w, k) /\ Says(w)
      /\ \A w \in Wheres("updateModel", k, m) : Proper(w, k) /\ (Says(w) \/ Silent(w) \/ Hollow(w))
      /\ \A w \in Wheres("delete", k, m)      : Proper(w, k) /\ (Says(w) \/ Hollow(w))
      /\ \A w \in Wheres("query", k, m)       : Proper(w, k) /\ (Says(w) \/ Silent(w))
      /\ \A w \in Wheres("values", k, m)      : Proper(w, k) /\ (Says(w) \/ Silent(w)) /\ m \in {"i", "q"}
      /\ \A w \in Wheres("integer", k, m)     : Proper(w, k) /\ (Says(w) \/ Silent(w)) /\ k \in {"c", "i"}

\* Numbers are sorted, in columns of numbers.
OrdersKept == \A m \in Kinds : \A order \in Orders(m) : order \in {"none", "id"} \/ (order = "p" /\ m \in {"i", "q"})

\* The null values are none of the others.
NullsApart ==
    /\ NoRow # Nil
    /\ \A s, f, n : NoRow # Cell(s, f, n) /\ NoRow # Object(s, f, n)
    /\ \A what, list : NoCall # Answer(what, list)
    /\ \A op, key, o, b, w, order, x, y :
         NoCall # [op |-> op, key |-> key, value |-> o, replace |-> b,
                   entries |-> w, order |-> order, offset |-> x, count |-> y]

\* Properties hold values of their types, whatever the conditions.
Typed == TypesKept /\ ValuesKept /\ NullsApart

Program == Typed /\ WheresKept /\ OrdersKept

-----------------------------------------------------------------------------
(* Values and cells *)

\* The cell of a value in the column of a type, by an insert and by an update.
StoredAs(m, k, o) == Affinity(ColumnType(m), BindInserted(k, o))
SetAs(m, o)       == Affinity(ColumnType(m), BindObject(o))

\* No object is nil.
LEMMA ObjectIsSome ==
    ASSUME NEW cls \in {"number", "string", "date", "data", "object", "raised"},
           NEW form \in {"plain", "numeral", "other", "empty", "description",
                         "number", "string", "date", "object"}, NEW n \in Int
    PROVE  Object(cls, form, n) # Nil
  BY ValueCodecAssumption DEF Object

\* A number of a scalar property is of the width of its type, and of the widest.
LEMMA NumbersAre ==
    ASSUME NEW k \in Scalars, NEW n \in Numbers(k)
    PROVE  /\ n \in Int
           /\ Signed(LongHalf, n) \in Int
           /\ Narrow(k, Signed(LongHalf, n)) = n
           /\ k # "Q" => Signed(LongHalf, n) = n
<1>1. n \in Int
  BY ValueCodecAssumption DEF Numbers, Scalars
<1>2. CASE k = "Q"
  BY <1>1, <1>2, UnsignedReturns, SignedInt, ValueCodecAssumption DEF Numbers, Narrow
<1>3. CASE k # "Q"
  <2>1. Signed(LongHalf, n) = n
    <3>1. n \in (-LongHalf)..(LongHalf - 1)
      BY <1>3, ValueCodecAssumption DEF Numbers, Scalars
    <3> QED BY <3>1, SignedKeeps, ValueCodecAssumption
  <2> QED BY <1>1, <1>3, <2>1, SignedKeeps, ValueCodecAssumption DEF Numbers, Narrow, Scalars
<1> QED BY <1>2, <1>3, <1>1

\* Scalars: what is stored and read back.
LEMMA NumberStored ==
    ASSUME NEW m, NEW k \in Scalars, Linked(m, k), NEW n \in Numbers(k)
    PROVE  /\ StoredAs(m, k, Number(n)) =
                IF m = "c" THEN Cell("text", "numeral", Signed(LongHalf, n))
                           ELSE Cell("integer", "plain", Signed(LongHalf, n))
           /\ ReadProperty(k, StoredAs(m, k, Number(n))) = Number(n)
           /\ m \in Scalars
<1> DEFINE x == Signed(LongHalf, n)
<1>1. x \in Int /\ Narrow(k, x) = n /\ n \in Int
  BY NumbersAre
<1>2. BindInserted(k, Number(n)) = Cell("integer", "plain", x)
  BY <1>1, NumberBound
<1>3. m \in Scalars /\ (m = "c" => k # "Q")
  BY DEF Linked, Grows, Scalars
<1> HIDE DEF x
<1>4. CASE m = "c"
  <2>1. StoredAs(m, k, Number(n)) = Cell("text", "numeral", x)
    BY <1>2, <1>4 DEF StoredAs, ColumnType, Affinity, Cell
  <2>2. ObjectForColumn(Cell("text", "numeral", x)) = Object("string", "numeral", x)
    BY DEF ObjectForColumn, Cell
  <2>3. Object("string", "numeral", x) # Nil
    BY <1>1, ObjectIsSome
  <2> QED BY <1>1, <1>3, <1>4, <2>1, <2>2, <2>3 DEF ReadProperty, SetValue, SetScalar, Object, NumberOf, x
<1>5. CASE m # "c"
  <2>1. StoredAs(m, k, Number(n)) = Cell("integer", "plain", x)
    BY <1>2, <1>3, <1>5 DEF StoredAs, ColumnType, Affinity, Cell, Scalars
  <2>2. ObjectForColumn(Cell("integer", "plain", x)) = Number(x)
    BY DEF ObjectForColumn, Cell
  <2>3. Number(x) # Nil
    BY <1>1, ObjectIsSome DEF Number
  <2> QED BY <1>1, <1>3, <1>5, <2>1, <2>2, <2>3 DEF ReadProperty, SetValue, SetScalar, Number, Object, NumberOf, x
<1> QED BY <1>4, <1>5

\* A cell is a row of the column, and what is read of it is this value.
Well(m, k, cell, v) ==
    /\ ReadProperty(k, cell) = v
    /\ cell # NoRow /\ v # NoRow
    /\ cell.store \in StoresOf(ColumnType(m))

StoredWell(m, k, o) == Well(m, k, StoredAs(m, k, o), Kept(k, o))
SetWell(m, k, o)    == Well(m, k, SetAs(m, o), Changed(k, o))

\* Nothing.
LEMMA NilStored ==
    ASSUME NullsApart, NEW k \in Kinds \ Scalars
    PROVE  StoredWell(k, k, Nil) /\ SetWell(k, k, Nil)
<1>1. StoredAs(k, k, Nil) = Null /\ SetAs(k, Nil) = Null
  BY DEF StoredAs, SetAs, BindInserted, BindObject, Affinity, Null, Cell
<1>2. ObjectForColumn(Null) = Nil
  BY DEF ObjectForColumn, Null, Cell
<1>3. Kept(k, Nil) = Nil /\ Changed(k, Nil) = Nil /\ Nil # NoRow
  BY DEF Kept, Changed, NullsApart
<1>4. Null # NoRow /\ Null.store = "null"
  BY DEF Null, NullsApart, Cell
<1>5. "null" \in StoresOf(ColumnType(k))
  BY DEF StoresOf, ColumnType, Scalars
<1>6. ReadProperty(k, Null) = Nil
  BY <1>2 DEF ReadProperty
<1> QED BY <1>1, <1>3, <1>4, <1>5, <1>6 DEF StoredWell, SetWell, Well

\* Strings, and mutable strings that are set by an update.
LEMMA TextStored ==
    ASSUME NullsApart, NEW form \in {"numeral", "other", "empty"}, NEW n \in Int,
           NEW o, o = Object("string", form, n), form = "empty" => n = 0,
           NEW k \in {"NSString", "NSMutableString"}
    PROVE  /\ SetAs(k, o) = Cell("text", form, n)
           /\ Well(k, k, Cell("text", form, n), IF o = Empty THEN Nil ELSE o)
           /\ SetWell(k, k, o)
<1>1. o # Nil
  BY ObjectIsSome
<1>2. BindObject(o) = Cell("text", form, n)
  BY <1>1 DEF BindObject, Object
<1>3. SetAs(k, o) = Cell("text", form, n)
  BY <1>2 DEF SetAs, Affinity, ColumnType, Cell
<1>4. ObjectForColumn(Cell("text", form, n)) = o
  BY DEF ObjectForColumn, Cell
<1>5. o = Empty <=> form = "empty"
  BY DEF Empty, Object
<1>6. ReadProperty(k, Cell("text", form, n)) = IF o = Empty THEN Nil ELSE o
  <2>1. o.cls = "string" /\ o.form = form
    BY DEF Object
  <2>2. SetObject(k, o) = IF form = "empty" THEN Nil ELSE o
    BY <2>1 DEF SetObject
  <2> QED BY <1>1, <1>4, <1>5, <2>2 DEF ReadProperty, SetValue, Scalars
<1>7. o # NoRow /\ Nil # NoRow /\ Cell("text", form, n) # NoRow
  BY DEF NullsApart
<1>8. Cell("text", form, n).store \in StoresOf(ColumnType(k))
  BY DEF Cell, StoresOf, ColumnType
<1>9. Changed(k, o) = IF o = Empty THEN Nil ELSE o
  BY <1>1 DEF Changed
<1> QED BY <1>3, <1>6, <1>7, <1>8, <1>9 DEF SetWell, Well

\* A string is inserted as it is set.
LEMMA StringStored ==
    ASSUME NullsApart, NEW form \in {"numeral", "other", "empty"}, NEW n \in Int,
           NEW o, o = Object("string", form, n), form = "empty" => n = 0
    PROVE  StoredAs("NSString", "NSString", o) = Cell("text", form, n) /\ StoredWell("NSString", "NSString", o)
<1>1. StoredAs("NSString", "NSString", o) = SetAs("NSString", o)
  BY DEF StoredAs, SetAs, BindInserted, ColumnType, Scalars
<1>2. Kept("NSString", o) = IF o = Empty THEN Nil ELSE o
  BY DEF Kept
<1> QED BY <1>1, <1>2, TextStored DEF StoredWell

\* A mutable string is inserted as an archive, and read as that.
LEMMA MutableStored ==
    ASSUME NullsApart, NEW form \in {"numeral", "other", "empty"}, NEW n \in Int,
           NEW o, o = Object("string", form, n)
    PROVE  StoredWell("NSMutableString", "NSMutableString", o)
<1> DEFINE cell == Cell("blob", "string", n)
           data == Object("data", "string", n)
<1>1. o # Nil /\ data # Nil
  BY ObjectIsSome
<1>2. StoredAs("NSMutableString", "NSMutableString", o) = cell
  BY <1>1 DEF StoredAs, BindInserted, Affinity, ColumnType, Object, Cell
<1>3. ObjectForColumn(cell) = data
  BY DEF ObjectForColumn, Cell
<1>4. ReadProperty("NSMutableString", cell) = data
  BY <1>1, <1>3 DEF ReadProperty, SetValue, SetObject, Scalars, Object
<1>5. Kept("NSMutableString", o) = data
  BY <1>1 DEF Kept, Object
<1>6. data # NoRow /\ cell # NoRow
  BY DEF NullsApart
<1>7. cell.store \in StoresOf(ColumnType("NSMutableString"))
  BY DEF Cell, StoresOf, ColumnType
<1> QED BY <1>2, <1>4, <1>5, <1>6, <1>7 DEF StoredWell, Well

\* The values of the other properties.
Archivable(k, o, n) ==
    \/ k = "NSNumber" /\ o = Object("number", "plain", n)
    \/ k = "NSDate" /\ o = Object("date", "plain", n)
    \/ k = "NSData" /\ o = Object("data", "other", n)
    \/ k \in {"UIColor", "object"} /\ o = Object("object", "plain", n)

\* An insert archives them,
LEMMA ArchiveStored ==
    ASSUME NullsApart, NEW n \in Int, NEW o, NEW k, Archivable(k, o, n)
    PROVE  StoredWell(k, k, o)
<1> DEFINE form == CASE k = "NSNumber" -> "number" [] k = "NSDate" -> "date"
                     [] k = "NSData" -> "other" [] k \in {"UIColor", "object"} -> "object"
           cell == Cell("blob", form, n)
<1>1. o # Nil
  BY ObjectIsSome DEF Archivable
<1>2. BindInserted(k, o) = cell
  BY <1>1 DEF BindInserted, BindObject, ColumnType, Object, Archivable
<1>3. Affinity(ColumnType(k), cell) = cell
  BY DEF Affinity, ColumnType, Cell, Archivable
<1>4. ObjectForColumn(cell) = Object("data", form, n)
  BY DEF ObjectForColumn, Cell
<1>5. Object("data", form, n) # Nil
  BY ObjectIsSome DEF Archivable
<1>6. ReadProperty(k, cell) = IF k = "object" THEN o ELSE IF k = "NSNumber" THEN Raised ELSE Nil
  BY <1>4, <1>5 DEF ReadProperty, SetValue, SetObject, Scalars, Object, Archivable
<1>7. Kept(k, o) = IF k = "object" THEN o ELSE IF k = "NSNumber" THEN Raised ELSE Nil
  BY <1>1 DEF Kept, Empty, Object, Archivable
<1>8. o # NoRow /\ Nil # NoRow /\ Raised # NoRow /\ cell # NoRow
  BY DEF NullsApart, Archivable, Raised
<1>9. cell.store \in StoresOf(ColumnType(k))
  BY DEF Cell, StoresOf, ColumnType, Archivable
<1> HIDE DEF cell
<1> QED BY <1>2, <1>3, <1>6, <1>7, <1>8, <1>9 DEF StoredAs, StoredWell, Well

\* and an update binds them as they are.
LEMMA ArchiveSet ==
    ASSUME NullsApart, NEW n \in Int, NEW o, NEW k, Archivable(k, o, n)
    PROVE  SetWell(k, k, o)
<1> DEFINE x    == Signed(LongHalf, n)
           cell == CASE k \in {"NSNumber", "NSDate"} -> Cell("integer", "plain", x)
                     [] k = "NSData" -> Cell("blob", "other", n)
                     [] k \in {"UIColor", "object"} -> Cell("text", "description", 0)
           read == CASE k \in {"NSNumber", "NSDate"} -> Number(x)
                     [] k = "NSData" -> Object("data", "other", n)
                     [] k \in {"UIColor", "object"} -> Object("string", "description", 0)
<1>1. o # Nil /\ x \in Int
  BY ObjectIsSome, SignedInt DEF Archivable
<1>2. BindObject(o) = cell
  BY <1>1 DEF BindObject, Object, Archivable
<1> HIDE DEF x
<1>3. Affinity(ColumnType(k), cell) = cell
  BY DEF Affinity, ColumnType, Cell, Archivable
<1>4. ObjectForColumn(cell) = read
  BY DEF ObjectForColumn, Cell, Archivable
<1>5. read # Nil
  BY <1>1, ObjectIsSome DEF Number, Archivable
<1>6. ReadProperty(k, cell) = IF k \in {"NSNumber", "NSDate"} THEN Raised ELSE Nil
  BY <1>4, <1>5 DEF ReadProperty, SetValue, SetObject, Scalars, Number, Object, Archivable
<1>7. Changed(k, o) = IF k \in {"NSNumber", "NSDate"} THEN Raised ELSE Nil
  BY <1>1 DEF Changed, Archivable
<1>8. Nil # NoRow /\ Raised # NoRow /\ cell # NoRow
  BY DEF NullsApart, Archivable, Raised
<1>9. cell.store \in StoresOf(ColumnType(k))
  BY DEF Cell, StoresOf, ColumnType, Archivable
<1> HIDE DEF cell
<1> QED BY <1>2, <1>3, <1>6, <1>7, <1>8, <1>9 DEF SetAs, SetWell, Well

\* An update stores a value as an insert does, if the column archives nothing.
LEMMA UpdateBinds ==
    ASSUME NEW m, NEW k \in Settable, NEW o
    PROVE  SetAs(m, o) = StoredAs(m, k, o) /\ Changed(k, o) = Kept(k, o)
  BY DEF Settable, Scalars, SetAs, StoredAs, BindInserted, ColumnType, Changed, Kept

\* A column keeps every value of the property as Kept and Changed say.
LEMMA ReadBack ==
    ASSUME NullsApart, NEW m, NEW k, Linked(m, k), NEW o, Holds(k, o)
    PROVE  StoredWell(m, k, o) /\ SetWell(m, k, o)
<1>1. ASSUME k \in Scalars PROVE StoredWell(m, k, o) /\ SetWell(m, k, o)
  <2>1. PICK n \in Numbers(k) : o = Number(n)
    BY <1>1 DEF Holds, Scalars
  <2> DEFINE x == Signed(LongHalf, n)
  <2>2. n \in Int /\ x \in Int
    BY <1>1, NumbersAre
  <2>3. /\ StoredAs(m, k, o) = IF m = "c" THEN Cell("text", "numeral", x) ELSE Cell("integer", "plain", x)
        /\ ReadProperty(k, StoredAs(m, k, o)) = o
        /\ m \in Scalars
    BY <1>1, <2>1, NumberStored
  <2> HIDE DEF x
  <2>4. o # Nil
    BY <2>1, <2>2, ObjectIsSome DEF Number
  <2>5. Kept(k, o) = o
    BY <1>1, <2>1, <2>4 DEF Kept, Empty, Number, Object, Scalars
  <2>6. o # NoRow
    BY <2>1 DEF Number, NullsApart
  <2>7. StoredAs(m, k, o) # NoRow
    BY <2>3 DEF NullsApart
  <2>8. StoredAs(m, k, o).store \in StoresOf(ColumnType(m))
    BY <2>3 DEF Cell, StoresOf, ColumnType, Scalars
  <2>9. StoredWell(m, k, o)
    BY <2>3, <2>5, <2>6, <2>7, <2>8 DEF StoredWell, Well
  <2>10. SetAs(m, o) = StoredAs(m, k, o) /\ Changed(k, o) = Kept(k, o)
    BY <1>1, UpdateBinds DEF Settable
  <2> QED BY <2>9, <2>10 DEF StoredWell, SetWell
<1>2. ASSUME k \notin Scalars PROVE StoredWell(m, k, o) /\ SetWell(m, k, o)
  <2>1. m = k /\ k \in Kinds
    BY <1>2 DEF Linked, Grows, Scalars
  <2>2. CASE o = Nil
    BY <1>2, <2>1, <2>2, NilStored
  <2>3. CASE k \in {"NSString", "NSMutableString"} /\ o # Nil
    <3>1. PICK form \in {"numeral", "other", "empty"}, n \in Int :
             o = Object("string", form, n) /\ (form = "empty" => n = 0)
      <4>1. CASE o = Empty
        BY <4>1 DEF Empty
      <4>2. CASE IsObject(o, "string", {"numeral", "other"})
        BY <4>2 DEF IsObject
      <4> QED BY <1>2, <2>3, <4>1, <4>2 DEF Holds
    <3> QED BY <2>1, <2>3, <3>1, TextStored, StringStored, MutableStored
  <2>4. CASE k \notin {"NSString", "NSMutableString"} /\ o # Nil
    <3>1. PICK n \in Int : Archivable(k, o, n)
      BY <1>2, <2>4 DEF Holds, IsObject, Archivable
    <3> QED BY <2>1, <3>1, ArchiveStored, ArchiveSet
  <2> QED BY <2>2, <2>3, <2>4
<1> QED BY <1>1, <1>2

\* A later version of the program holds the values of an earlier one, in the
\* same cells.
LEMMA HeldLater ==
    ASSUME NEW m, NEW k, Linked(m, k), NEW l, <<k, l>> \in Grows, NEW o, Holds(k, o)
    PROVE  /\ Linked(m, l) /\ Holds(l, o)
           /\ StoredAs(m, l, o) = StoredAs(m, k, o)
           /\ Kept(l, o) = Kept(k, o)
<1>1. k \in {"c", "i"} /\ l \in {"i", "q"} /\ k # l
  BY DEF Grows
<1>2. Linked(m, l)
  BY <1>1 DEF Linked, Grows, Kinds, Scalars
<1>3. PICK n \in Numbers(k) : o = Number(n)
  BY <1>1 DEF Holds, Scalars
<1>4. n \in Numbers(l)
  BY <1>1, ValueCodecAssumption DEF Numbers
<1>5. Holds(l, o)
  BY <1>1, <1>3, <1>4 DEF Holds, Scalars
<1>6. BindInserted(l, o) = BindInserted(k, o)
  BY <1>1 DEF BindInserted, ColumnType
<1>7. Kept(l, o) = Kept(k, o)
  BY <1>1 DEF Kept
<1> QED BY <1>2, <1>5, <1>6, <1>7 DEF StoredAs

\* A value is stored as NULL only if it is none.
LEMMA NotNull ==
    ASSUME NullsApart, NEW k \in Settable, NEW m, Linked(m, k), NEW o, Holds(k, o), o # Nil
    PROVE  StoredAs(m, k, o) # Null
<1>1. CASE k \in Scalars
  <2>1. PICK n \in Numbers(k) : o = Number(n)
    BY <1>1 DEF Holds, Scalars
  <2> QED BY <1>1, <2>1, NumberStored DEF Null, Cell
<1>2. CASE k = "NSString"
  <2>1. m = k
    BY <1>2 DEF Linked, Grows
  <2>2. PICK form \in {"numeral", "other", "empty"}, n \in Int :
           o = Object("string", form, n) /\ (form = "empty" => n = 0)
    BY <1>2 DEF Holds, Scalars, IsObject, Empty
  <2>3. StoredAs("NSString", "NSString", o) = Cell("text", form, n)
    BY <2>2, StringStored
  <2> QED BY <1>2, <2>1, <2>3 DEF Null, Cell
<1> QED BY <1>1, <1>2 DEF Settable

\* Two cells are equal if and only if the values are, in a condition on a
\* property.
LEMMA SameCell ==
    ASSUME NullsApart, NEW k \in Settable, NEW m, Linked(m, k),
           NEW o, Holds(k, o), o # Nil, o # Empty, NEW p, Holds(k, p)
    PROVE  StoredAs(m, k, p) = StoredAs(m, k, o) <=> Kept(k, p) = o
<1>1. Kept(k, o) = o
  BY DEF Kept, Settable, Scalars
<1>2. Kept(k, p) # Nil => Kept(k, p) = p
  BY DEF Kept, Settable, Scalars
<1>3. ReadProperty(k, StoredAs(m, k, o)) = o /\ ReadProperty(k, StoredAs(m, k, p)) = Kept(k, p)
  BY <1>1, ReadBack DEF StoredWell, Well
<1> QED BY <1>1, <1>2, <1>3

\* The key of a model is a number, which its column keeps.
LEMMA KeyKept ==
    ASSUME NEW i \in Ids
    PROVE  /\ BindObject(Number(i)) = Cell("integer", "plain", i)
           /\ ReadProperty("q", BindObject(Number(i))) = Number(i)
           /\ Number(i) # Nil /\ Holds("q", Number(i))
<1>1. i \in Numbers("q") /\ i \in Int
  BY QueriesAssumption, ValueCodecAssumption DEF Numbers
<1>2. Holds("q", Number(i))
  BY <1>1 DEF Holds, Scalars
<1>3. Number(i) # Nil
  BY <1>1, ObjectIsSome DEF Number
<1>4. Signed(LongHalf, i) = i
  BY <1>1, NumbersAre DEF Scalars
<1>5. BindObject(Number(i)) = Cell("integer", "plain", i)
  BY <1>3, <1>4 DEF BindObject, Number, Object
<1>6. StoredAs("q", "q", Number(i)) = BindObject(Number(i))
  BY <1>5 DEF StoredAs, BindInserted, ColumnType, Affinity, Cell
<1>7. Linked("q", "q")
  BY DEF Linked, Kinds, Scalars
<1>8. ReadProperty("q", BindObject(Number(i))) = Number(i)
  BY <1>1, <1>6, <1>7, NumberStored DEF Scalars
<1> QED BY <1>2, <1>3, <1>5, <1>8

\* Conditions on the key.
LEMMA SameKey ==
    ASSUME NEW i \in Ids, NEW o, Holds("q", o)
    PROVE  LET cell == Affinity("NUMERIC", BindObject(o))
           IN  cell # Null /\ (BindObject(Number(i)) = cell <=> Number(i) = o)
<1>1. PICK n \in Numbers("q") : o = Number(n)
  BY DEF Holds, Scalars
<1>2. n \in Int /\ Signed(LongHalf, n) = n
  BY NumbersAre DEF Scalars
<1>3. o # Nil
  BY <1>1, <1>2, ObjectIsSome DEF Number
<1>4. BindObject(o) = Cell("integer", "plain", n)
  BY <1>1, <1>2, <1>3 DEF BindObject, Number, Object
<1>5. Affinity("NUMERIC", BindObject(o)) = Cell("integer", "plain", n)
  BY <1>4 DEF Affinity, Cell
<1>6. BindObject(Number(i)) = Cell("integer", "plain", i)
  BY KeyKept
<1>7. Number(i) = Number(n) <=> i = n
  BY DEF Number, Object
<1>8. Cell("integer", "plain", i) = Cell("integer", "plain", n) <=> i = n
  BY DEF Cell
<1>9. Cell("integer", "plain", n) # Null
  BY DEF Cell, Null
<1> QED BY <1>1, <1>5, <1>6, <1>7, <1>8, <1>9

-----------------------------------------------------------------------------
(* The invariant *)

Held(m, k, cell) == \E o : Holds(k, o) /\ (cell = StoredAs(m, k, o) \/ cell = SetAs(m, o))

\* Every cell holds a value of the property, as an insert or an update stores it.
RowsHeld ==
    /\ rows = [i \in Ids |-> rows[i]]
    /\ \A i \in Ids : rows[i] = NoRow \/ Held(made, kind, rows[i])

Inv == Linked(made, kind) /\ RowsHeld /\ (call = NoCall <=> answer = NoCall)

\* A scalar or a string is stored alike by both.
LEMMA HeldAlike ==
    ASSUME NEW m, NEW k \in Settable, NEW cell, Held(m, k, cell)
    PROVE  \E o : Holds(k, o) /\ cell = StoredAs(m, k, o)
  BY UpdateBinds DEF Held

\* A cell that holds a value is a row, of the column's type, and its model has
\* a value.
LEMMA HeldRow ==
    ASSUME NullsApart, NEW m, NEW k, Linked(m, k), NEW cell, Held(m, k, cell)
    PROVE  /\ cell # NoRow /\ cell.store \in StoresOf(ColumnType(m))
           /\ ReadProperty(k, cell) # NoRow
<1>1. PICK o : Holds(k, o) /\ (cell = StoredAs(m, k, o) \/ cell = SetAs(m, o))
  BY DEF Held
<1>2. StoredWell(m, k, o) /\ SetWell(m, k, o)
  BY <1>1, ReadBack
<1> QED BY <1>1, <1>2 DEF StoredWell, SetWell, Well

\* A row is one of the table if and only if its model is in the collection.
LEMMA SameThere ==
    ASSUME Typed, Inv
    PROVE  /\ There = Promised!There
           /\ \A i \in There : /\ i \in Ids /\ Held(made, kind, rows[i])
                               /\ Models[i] = ReadProperty(kind, rows[i])
<1>1. ASSUME NEW i \in Ids
      PROVE  /\ rows[i] = NoRow <=> Models[i] = NoRow
             /\ rows[i] # NoRow => Models[i] = ReadProperty(kind, rows[i]) /\ Held(made, kind, rows[i])
  BY HeldRow DEF Typed, Inv, RowsHeld, Models
<1> QED BY <1>1 DEF There, Promised!There

\* A model meets a condition on a column if and only if its row does.
LEMMA SameIn ==
    ASSUME Typed, Inv, NEW w, Proper(w, kind), NEW i \in There, NEW c \in DOMAIN w.entries
    PROVE  In(i, c, w.entries[c]) <=>
             Promised!ValueOf(i, c) # Nil /\ Promised!ValueOf(i, c) \in w.entries[c]
<1> DEFINE objects == w.entries[c]
<1>1. i \in Ids /\ Held(made, kind, rows[i]) /\ Models[i] = ReadProperty(kind, rows[i])
  BY SameThere
<1>2. CASE c = "id"
  <2>1. \A o \in objects : Holds("q", o)
    BY <1>2 DEF Proper
  <2>2. Promised!ValueOf(i, c) = Number(i) /\ CellOf(i, c) = BindObject(Number(i)) /\ TypeOf(c) = "NUMERIC"
    BY <1>2 DEF Promised!ValueOf, CellOf, TypeOf
  <2>3. \A o \in objects : LET cell == Affinity("NUMERIC", BindObject(o))
                           IN  cell # Null /\ (BindObject(Number(i)) = cell <=> Number(i) = o)
    BY <1>1, <2>1, SameKey
  <2>4. Number(i) # Nil
    BY <1>1, KeyKept
  <2> HIDE DEF objects
  <2>5. In(i, c, objects) <=> Number(i) # Nil /\ Number(i) \in objects
    BY <2>2, <2>3, <2>4 DEF In
  <2> QED BY <2>2, <2>5 DEF objects
<1>3. CASE c # "id"
  <2>1. c = "p" /\ kind \in Settable /\ \A o \in objects : Holds(kind, o) /\ o # Nil /\ o # Empty
    BY <1>3 DEF Proper
  <2>2. Promised!ValueOf(i, c) = Models[i] /\ CellOf(i, c) = rows[i] /\ TypeOf(c) = ColumnType(made)
    BY <1>3 DEF Promised!ValueOf, CellOf, TypeOf
  <2>3. PICK p : Holds(kind, p) /\ rows[i] = StoredAs(made, kind, p)
    BY <1>1, <2>1, HeldAlike
  <2>4. Models[i] = Kept(kind, p)
    BY <1>1, <2>3, ReadBack DEF StoredWell, Well, Typed, Inv
  <2>5. \A o \in objects :
          LET cell == Affinity(ColumnType(made), BindObject(o))
          IN  cell # Null /\ (rows[i] = cell <=> Models[i] = o)
    <3>1. SUFFICES ASSUME NEW o \in objects
                   PROVE  LET cell == Affinity(ColumnType(made), BindObject(o))
                          IN  cell # Null /\ (rows[i] = cell <=> Models[i] = o)
      OBVIOUS
    <3>2. Holds(kind, o) /\ o # Nil /\ o # Empty
      BY <2>1
    <3>3. Linked(made, kind) /\ NullsApart
      BY DEF Inv, Typed
    <3>4. Affinity(ColumnType(made), BindObject(o)) = StoredAs(made, kind, o)
      BY <2>1, UpdateBinds DEF SetAs
    <3>5. StoredAs(made, kind, o) # Null
      BY <2>1, <3>2, <3>3, NotNull
    <3>6. StoredAs(made, kind, p) = StoredAs(made, kind, o) <=> Kept(kind, p) = o
      BY <2>1, <2>3, <3>2, <3>3, SameCell
    <3> QED BY <2>3, <2>4, <3>4, <3>5, <3>6
  <2>6. \A o \in objects : o # Nil
    BY <2>1
  <2> HIDE DEF objects
  <2>7. In(i, c, objects) <=> Models[i] # Nil /\ Models[i] \in objects
    BY <2>2, <2>5, <2>6 DEF In
  <2> QED BY <2>2, <2>7 DEF objects
<1> QED BY <1>2, <1>3

\* The rows a statement touches are those of the models meant.
LEMMA Selects ==
    ASSUME Typed, Inv, NEW w, Proper(w, kind), Says(w) \/ Silent(w)
    PROVE  /\ Selected(w) = Promised!Meant(w.entries) /\ Selected(w) \subseteq There
           /\ Extract(w) = IF Says(w) THEN "where" ELSE "none"
<1>1. Used(w) = DOMAIN w.entries
  BY DEF Used, Proper
<1>2. There = Promised!There
  BY SameThere
<1>3. CASE Says(w)
  <2>1. Extract(w) = "where"
    BY <1>1, <1>3 DEF Says, Extract
  <2>2. \A i \in There : \A c \in DOMAIN w.entries :
           In(i, c, w.entries[c]) <=>
             Promised!ValueOf(i, c) # Nil /\ Promised!ValueOf(i, c) \in w.entries[c]
    BY SameIn
  <2>3. Satisfying(w) = Promised!Meant(w.entries)
    BY <1>1, <1>2, <2>2 DEF Satisfying, Promised!Meant
  <2>4. Satisfying(w) \subseteq There
    BY DEF Satisfying
  <2> QED BY <1>3, <2>1, <2>3, <2>4 DEF Selected
<1>4. CASE Silent(w)
  <2>1. Extract(w) = "none" /\ ~Says(w)
    BY <1>4 DEF Silent, Extract, Says
  <2>2. Promised!Meant(w.entries) = There
    BY <1>2, <1>4 DEF Silent, Promised!Meant
  <2> QED BY <2>1, <2>2 DEF Selected
<1> QED BY <1>3, <1>4

-----------------------------------------------------------------------------
(* Lists of models *)

Sortable(order, m) == order \in {"none", "id"} \/ (order = "p" /\ m \in {"i", "q"})

\* The keys are finitely many.
LEMMA Counted ==
    ASSUME NEW ids \in SUBSET Ids
    PROVE  IsFiniteSet(ids) /\ Cardinality(ids) \in Nat
<1>1. IsFiniteSet((-LongHalf)..(LongHalf - 1))
  BY FS_Interval, ValueCodecAssumption
<1>2. ids \subseteq (-LongHalf)..(LongHalf - 1)
  BY QueriesAssumption
<1>3. IsFiniteSet(ids)
  BY <1>1, <1>2, FS_Subset
<1> QED BY <1>3, FS_CardinalityType

\* A list of rows has each of them once.
LEMMA ListsAre ==
    ASSUME NEW ids \in SUBSET Ids, NEW s \in SetToSeqs(ids)
    PROVE  s \in Seq(ids) /\ Len(s) \in Nat /\ DOMAIN s = 1..Len(s) /\ \A a \in DOMAIN s : s[a] \in ids
<1>1. Cardinality(ids) \in Nat
  BY Counted
<1>2. s \in [1..Cardinality(ids) -> ids]
  BY DEF SetToSeqs
<1>3. s \in Seq(ids)
  BY <1>1, <1>2
<1> QED BY <1>3

\* Numbers of columns are sorted as the models' values are.
LEMMA SameOrder ==
    ASSUME Typed, Inv, NEW order, Sortable(order, made), NEW i \in There, NEW j \in There
    PROVE  Before(order, i, j) = Promised!Before(order, i, j)
<1>1. CASE order \in {"none", "id"}
  BY <1>1 DEF Before, Promised!Before
<1>2. CASE order = "p" /\ made \in {"i", "q"}
  <2>1. ASSUME NEW x \in There
        PROVE  rows[x].store = "integer" /\ rows[x].n = Models[x].n
    <3>1. Held(made, kind, rows[x]) /\ Models[x] = ReadProperty(kind, rows[x])
      BY SameThere
    <3>3. kind \in {"i", "q"} /\ Linked(made, kind)
      BY <1>2 DEF Inv, Linked, Grows
    <3>2. PICK o : Holds(kind, o) /\ rows[x] = StoredAs(made, kind, o)
      BY <3>1, <3>3, HeldAlike DEF Settable, Scalars
    <3>4. PICK n \in Numbers(kind) : o = Number(n)
      BY <3>2, <3>3 DEF Holds, Scalars
    <3>5. StoredAs(made, kind, Number(n)) = Cell("integer", "plain", n) /\ ReadProperty(kind, rows[x]) = Number(n)
      BY <1>2, <3>2, <3>3, <3>4, NumberStored, NumbersAre DEF Scalars
    <3> QED BY <3>1, <3>2, <3>4, <3>5 DEF Cell, Number, Object
  <2>2. /\ rows[i].store = "integer" /\ rows[i].n = Models[i].n
        /\ rows[j].store = "integer" /\ rows[j].n = Models[j].n
    BY <2>1
  <2> QED BY <1>2, <2>2 DEF Before, Promised!Before
<1> QED BY <1>1, <1>2 DEF Sortable

\* The lists of rows are those of models.
LEMMA SameLists ==
    ASSUME Typed, Inv, NEW order, Sortable(order, made), NEW ids \in SUBSET There
    PROVE  Results(ids, order) = Promised!Listings(ids, order)
<1>1. SetToSeqs(ids) = Promised!SetToSeqs(ids)
  BY DEF SetToSeqs, Promised!SetToSeqs, Cardinality, Promised!Cardinality
<1>2. \A s \in SetToSeqs(ids) : \A a \in DOMAIN s : s[a] \in There
  BY ListsAre DEF There
<1>3. \A s \in SetToSeqs(ids) : \A a, b \in DOMAIN s :
         Before(order, s[b], s[a]) = Promised!Before(order, s[b], s[a])
  BY <1>2, SameOrder
<1> QED BY <1>1, <1>3 DEF Results, Promised!Listings

-----------------------------------------------------------------------------
(* The steps *)

\* Where some rows become one cell, their models become its value.
LEMMA RowsWritten ==
    ASSUME Inv, NEW ids, NEW cell, cell = NoRow \/ Held(made, kind, cell),
           UNCHANGED <<kind, made>>, rows' = [i \in Ids |-> IF i \in ids THEN cell ELSE rows[i]]
    PROVE  /\ Linked(made, kind)' /\ RowsHeld'
           /\ Models' = [i \in Ids |-> IF i \in ids THEN IF cell = NoRow THEN NoRow ELSE ReadProperty(kind, cell)
                                                    ELSE Models[i]]
<1>1. Linked(made, kind)'
  BY DEF Inv
<1>2. \A i \in Ids : rows'[i] = IF i \in ids THEN cell ELSE rows[i]
  OBVIOUS
<1>3. RowsHeld'
  <2>1. rows' = [i \in Ids |-> rows'[i]]
    OBVIOUS
  <2>2. \A i \in Ids : rows'[i] = NoRow \/ Held(made, kind, rows'[i])
    BY <1>2 DEF Inv, RowsHeld
  <2> QED BY <2>1, <2>2 DEF RowsHeld
<1>4. Models' = [i \in Ids |-> IF rows'[i] = NoRow THEN NoRow ELSE ReadProperty(kind, rows'[i])]
  BY DEF Models
<1>5. \A i \in Ids : Models[i] = IF rows[i] = NoRow THEN NoRow ELSE ReadProperty(kind, rows[i])
  BY DEF Models
<1> QED BY <1>1, <1>2, <1>3, <1>4, <1>5

\* Where nothing is written, nothing changes.
LEMMA RowsKept ==
    ASSUME Inv, UNCHANGED <<kind, made, rows>>
    PROVE  Linked(made, kind)' /\ RowsHeld' /\ Models' = Models
  BY DEF Inv, RowsHeld, Models

LEMMA InitStep ==
    ASSUME Init
    PROVE  Inv /\ Promised!Init
<1>1. Linked(made, kind)
  BY QueriesAssumption DEF Init, Linked
<1>2. RowsHeld
  BY DEF Init, RowsHeld
<1>3. Models = [i \in Ids |-> NoRow]
  BY DEF Init, Models
<1> QED BY <1>1, <1>2, <1>3 DEF Inv, Init, Promised!Init

\* Another version of the program has the same models.
LEMMA RelaunchStep ==
    ASSUME Typed, Inv, NEW k \in Kinds, Relaunch(k)
    PROVE  Inv' /\ Promised!Relaunch
<1>1. <<kind, k>> \in Grows /\ kind' = k /\ UNCHANGED <<made, rows, call, answer>>
  BY DEF Relaunch, Typed, TypesKept
<1>2. Linked(made, kind) /\ RowsHeld /\ NullsApart
  BY DEF Inv, Typed
<1>3. \A o : Holds(kind, o) => /\ Linked(made, k) /\ Holds(k, o)
                               /\ StoredAs(made, k, o) = StoredAs(made, kind, o)
                               /\ Kept(k, o) = Kept(kind, o)
  BY <1>1, <1>2, HeldLater
<1>4. Linked(made, k)
  BY <1>1, <1>2 DEF Linked, Grows, Kinds, Scalars
<1>5. ASSUME NEW i \in Ids, rows[i] # NoRow
      PROVE  Held(made, k, rows[i]) /\ ReadProperty(k, rows[i]) = ReadProperty(kind, rows[i])
  <2>1. PICK o : Holds(kind, o) /\ rows[i] = StoredAs(made, kind, o)
    BY <1>1, <1>2, <1>5, HeldAlike DEF RowsHeld, Grows, Settable, Scalars
  <2>2. Holds(k, o) /\ rows[i] = StoredAs(made, k, o) /\ Kept(k, o) = Kept(kind, o)
    BY <1>3, <2>1
  <2>3. ReadProperty(k, rows[i]) = Kept(k, o)
    BY <1>2, <1>4, <2>2, ReadBack DEF StoredWell, Well
  <2>4. ReadProperty(kind, rows[i]) = Kept(kind, o)
    BY <1>2, <2>1, ReadBack DEF StoredWell, Well
  <2> QED BY <2>2, <2>3, <2>4 DEF Held
<1>6. RowsHeld'
  BY <1>1, <1>2, <1>5 DEF RowsHeld
<1>7. Models' = Models
  BY <1>1, <1>5 DEF Models
<1>8. Linked(made, kind)'
  BY <1>1, <1>4
<1> QED BY <1>1, <1>6, <1>7, <1>8 DEF Inv, Promised!Relaunch, Relaunch

LEMMA InsertStep ==
    ASSUME Typed, Inv, NEW i \in Ids, NEW o \in Values(kind), NEW replace \in BOOLEAN, Insert(i, o, replace)
    PROVE  Inv' /\ Promised!Call
<1>1. call = NoCall /\ UNCHANGED <<kind, made>> /\ answer' = Answer("yes", <<>>)
  BY DEF Insert
<1>2. call' # NoCall /\ call'.op = "insert" /\ call'.key = i /\ call'.value = o /\ call'.replace = replace
  BY DEF Insert, Typed, NullsApart
<1> DEFINE cell == StoredAs(made, kind, o)
           ids  == IF replace \/ rows[i] = NoRow THEN {i} ELSE {}
<1>3. Linked(made, kind) /\ RowsHeld /\ NullsApart /\ kind \in Kinds
  BY DEF Inv, Typed, Linked
<1>4. Holds(kind, o)
  BY <1>3 DEF Typed, ValuesKept
<1>5. Held(made, kind, cell)
  BY <1>4 DEF Held
<1>6. cell # NoRow /\ ReadProperty(kind, cell) = Kept(kind, o)
  BY <1>3, <1>4, ReadBack DEF StoredWell, Well
<1>7. rows' = [j \in Ids |-> IF j \in ids THEN cell ELSE rows[j]]
  BY <1>3 DEF Insert, StoredAs, RowsHeld
<1> HIDE DEF cell, ids
<1>8. /\ Linked(made, kind)' /\ RowsHeld'
      /\ Models' = [j \in Ids |-> IF j \in ids THEN IF cell = NoRow THEN NoRow ELSE ReadProperty(kind, cell)
                                               ELSE Models[j]]
  BY <1>1, <1>5, <1>7, RowsWritten
<1>9. rows[i] = NoRow <=> Models[i] = NoRow
  BY <1>3, HeldRow DEF RowsHeld, Models
<1>10. Models = [j \in Ids |-> Models[j]]
  BY DEF Models
<1>11. Models' = [Models EXCEPT ![i] = IF @ = NoRow \/ replace THEN Kept(kind, o) ELSE @]
  BY <1>6, <1>8, <1>9, <1>10 DEF ids
<1>12. Promised!Put
  BY <1>1, <1>2, <1>11 DEF Promised!Put, Promised!Says, Answer
<1>13. answer' # NoCall
  BY <1>1 DEF Typed, NullsApart
<1> QED BY <1>1, <1>2, <1>8, <1>12, <1>13 DEF Inv, Promised!Call

\* What a call with a where argument says of itself.
LEMMA Asked ==
    ASSUME NullsApart, NEW op, NEW i, NEW o, NEW w, Asks(op, i, o, w)
    PROVE  /\ call = NoCall /\ call' # NoCall /\ UNCHANGED <<kind, made>>
           /\ call'.op = op /\ call'.key = i /\ call'.value = o
           /\ call'.entries = w.entries /\ call'.order = "none"
  BY DEF Asks, NullsApart

\* An answer is one.
LEMMA Answered ==
    ASSUME NullsApart, NEW what, NEW list, answer' = Answer(what, list)
    PROVE  answer' # NoCall /\ Promised!Says(what, list)
  BY DEF NullsApart, Promised!Says, Answer

\* The types in question.
LEMMA KindsAre ==
    ASSUME Inv
    PROVE  kind \in Kinds /\ made \in Kinds
  BY DEF Inv, Linked, Grows, Kinds, Scalars

\* A change of some models.
LEMMA SetStep ==
    ASSUME Typed, Inv, NEW o \in Changes(kind), NEW ids, UNCHANGED <<kind, made>>, Set(ids, o)
    PROVE  /\ Linked(made, kind)' /\ RowsHeld'
           /\ Models' = [i \in Ids |-> IF i \in ids THEN Changed(kind, o) ELSE Models[i]]
<1> DEFINE cell == SetAs(made, o)
<1>1. Holds(kind, o)
  BY KindsAre DEF Typed, ValuesKept
<1>2. Held(made, kind, cell)
  BY <1>1 DEF Held
<1>3. cell # NoRow /\ ReadProperty(kind, cell) = Changed(kind, o)
  BY <1>1, ReadBack DEF SetWell, Well, Typed, Inv
<1>4. rows' = [i \in Ids |-> IF i \in ids THEN cell ELSE rows[i]]
  BY DEF Set, SetAs
<1> HIDE DEF cell
<1>5. /\ Linked(made, kind)' /\ RowsHeld'
      /\ Models' = [i \in Ids |-> IF i \in ids THEN IF cell = NoRow THEN NoRow ELSE ReadProperty(kind, cell)
                                               ELSE Models[i]]
  BY <1>2, <1>4, RowsWritten
<1> QED BY <1>3, <1>5

\* Every step keeps the invariant, whatever its conditions.
LEMMA InvKept ==
    ASSUME Typed, Inv, [Next]_vars
    PROVE  Inv'
<1>1. NullsApart
  BY DEF Typed
<1>2. ASSUME NEW o \in Changes(kind), NEW w, UpdateTable(o, w)
      PROVE  Inv'
  <2>1. Linked(made, kind)' /\ RowsHeld' /\ call' # NoCall
    BY <1>1, <1>2, Asked, SetStep DEF UpdateTable
  <2>2. answer' # NoCall
    BY <1>1, <1>2, Answered DEF UpdateTable
  <2> QED BY <2>1, <2>2 DEF Inv
<1>3. ASSUME NEW i \in Ids, NEW o \in Changes(kind), NEW w, UpdateModel(i, o, w)
      PROVE  Inv'
  <2> DEFINE own  == [form |-> "dictionary", entries |-> [c \in {"id"} |-> {Number(i)}]]
             used == IF Extract(w) = "none" THEN own ELSE w
             runs == Extract(used) = "where" /\ o # Nil
  <2>1. /\ Asks("updateModel", i, o, used)
        /\ IF runs THEN Set(Selected(used), o) ELSE UNCHANGED rows
        /\ answer' = Answer(IF runs THEN "yes" ELSE "no", <<>>)
    BY <1>3 DEF UpdateModel
  <2> HIDE DEF used, runs
  <2>2. UNCHANGED <<kind, made>> /\ call' # NoCall /\ answer' # NoCall
    BY <1>1, <2>1, Asked, Answered
  <2>3. Linked(made, kind)' /\ RowsHeld'
    BY <2>1, <2>2, SetStep, RowsKept
  <2> QED BY <2>2, <2>3 DEF Inv
<1>4. ASSUME NEW w, DeleteRecord(w)
      PROVE  Inv'
  <2>1. UNCHANGED <<kind, made>> /\ call' # NoCall /\ answer' # NoCall
    BY <1>1, <1>4, Asked, Answered DEF DeleteRecord
  <2> DEFINE ids == {i \in Ids : Extract(w) \in {"where", "none"} /\ i \in Selected(w)}
  <2>2. rows' = [i \in Ids |-> IF i \in ids THEN NoRow ELSE rows[i]]
    BY <1>4 DEF DeleteRecord
  <2> HIDE DEF ids
  <2>3. Linked(made, kind)' /\ RowsHeld'
    BY <2>1, <2>2, RowsWritten
  <2> QED BY <2>1, <2>3 DEF Inv
<1>5. ASSUME NEW w, NEW order, NEW offset, NEW count, Query(w, order, offset, count)
      PROVE  Inv'
  <2>1. UNCHANGED <<kind, made, rows>> /\ call' # NoCall
    BY <1>1, <1>5 DEF Query, NullsApart
  <2>2. \E what, list : answer' = Answer(what, list)
    BY <1>5 DEF Query
  <2> QED BY <1>1, <2>1, <2>2, RowsKept, Answered DEF Inv
<1>6. ASSUME NEW w, QueryValues(w) \/ QueryInteger(w)
      PROVE  Inv'
  <2>1. UNCHANGED <<kind, made, rows>> /\ call' # NoCall
    BY <1>1, <1>6, Asked DEF QueryValues, QueryInteger
  <2>2. \E what, list : answer' = Answer(what, list)
    BY <1>6 DEF QueryValues, QueryInteger
  <2> QED BY <1>1, <2>1, <2>2, RowsKept, Answered DEF Inv
<1>7. ASSUME NEW k \in Kinds, Relaunch(k) PROVE Inv'
  BY <1>7, RelaunchStep
<1>8. ASSUME NEW i \in Ids, NEW o \in Values(kind), NEW replace \in BOOLEAN, Insert(i, o, replace)
      PROVE  Inv'
  BY <1>8, InsertStep
<1>9. ASSUME Return \/ UNCHANGED vars PROVE Inv'
  BY <1>9, RowsKept DEF Return, vars, Inv
<1> QED BY <1>2, <1>3, <1>4, <1>5, <1>6, <1>7, <1>8, <1>9 DEF Next

LEMMA UpdateTableStep ==
    ASSUME Typed, WheresKept, Inv, NEW o \in Changes(kind), NEW w \in Wheres("updateTable", kind, made), UpdateTable(o, w)
    PROVE  Promised!Call
<1>1. Proper(w, kind) /\ Says(w)
  BY KindsAre DEF WheresKept
<1>2. Extract(w) = "where" /\ Selected(w) = Promised!Meant(w.entries)
  BY <1>1, Selects
<1>3. /\ call = NoCall /\ call' # NoCall /\ UNCHANGED <<kind, made>>
      /\ call'.op = "updateTable" /\ call'.value = o /\ call'.entries = w.entries
  BY Asked DEF Typed, UpdateTable
<1>4. answer' = Answer("yes", <<>>)
  BY <1>2 DEF UpdateTable
<1>5. answer' # NoCall /\ Promised!Says("yes", <<>>)
  BY <1>4, Answered DEF Typed
<1>6. Set(Selected(w), o)
  BY DEF UpdateTable
<1>7. /\ Linked(made, kind)' /\ RowsHeld'
      /\ Models' = [i \in Ids |-> IF i \in Promised!Meant(w.entries) THEN Changed(kind, o) ELSE Models[i]]
  BY <1>2, <1>3, <1>6, SetStep
<1>8. Promised!Change
  BY <1>1, <1>3, <1>5, <1>7 DEF Promised!Change, Says
<1> QED BY <1>3, <1>5, <1>7, <1>8 DEF Promised!Call

\* The condition of a model's update: what is passed, or its key.
OwnWhere(i) == [form |-> "dictionary", entries |-> [c \in {"id"} |-> {Number(i)}]]

LEMMA OwnIsProper ==
    ASSUME NEW i \in Ids, NEW k
    PROVE  Proper(OwnWhere(i), k) /\ Says(OwnWhere(i))
<1>1. DOMAIN OwnWhere(i).entries = {"id"} /\ OwnWhere(i).entries["id"] = {Number(i)}
  BY DEF OwnWhere
<1> QED BY <1>1, KeyKept DEF Proper, Says, OwnWhere

LEMMA UpdateModelStep ==
    ASSUME Typed, WheresKept, Inv, NEW i \in Ids, NEW o \in Changes(kind),
           NEW w \in Wheres("updateModel", kind, made), UpdateModel(i, o, w)
    PROVE  Promised!Call
<1> DEFINE used == IF Extract(w) = "none" THEN OwnWhere(i) ELSE w
           runs == Extract(used) = "where" /\ o # Nil
<1>1. Proper(w, kind) /\ (Says(w) \/ Silent(w) \/ Hollow(w))
  BY KindsAre DEF WheresKept
<1>2. Proper(OwnWhere(i), kind) /\ Says(OwnWhere(i)) /\ Extract(OwnWhere(i)) = "where"
  BY OwnIsProper, Selects
<1>3. \/ Proper(used, kind) /\ Says(used) /\ Extract(used) = "where"
      \/ Hollow(used) /\ Extract(used) = "error"
  <2>1. CASE Says(w)
    BY <1>1, <2>1, Selects
  <2>2. CASE Silent(w)
    <3>1. Extract(w) = "none"
      BY <1>1, <2>2, Selects DEF Silent, Says
    <3> QED BY <3>1, <1>2
  <2>3. CASE Hollow(w)
    BY <2>3 DEF Hollow, Extract
  <2> QED BY <1>1, <2>1, <2>2, <2>3
<1>4. /\ Asks("updateModel", i, o, used)
      /\ IF runs THEN Set(Selected(used), o) ELSE UNCHANGED rows
      /\ answer' = Answer(IF runs THEN "yes" ELSE "no", <<>>)
  BY DEF UpdateModel, OwnWhere
<1> HIDE DEF used
<1>5. /\ call = NoCall /\ call' # NoCall /\ UNCHANGED <<kind, made>>
      /\ call'.op = "updateModel" /\ call'.value = o /\ call'.entries = used.entries
  BY <1>4, Asked DEF Typed
<1>6. CASE runs
  <2>1. Proper(used, kind) /\ Says(used)
    BY <1>3, <1>6
  <2>2. answer' # NoCall /\ Promised!Says("yes", <<>>)
    BY <1>4, <1>6, Answered DEF Typed
  <2>3. /\ Linked(made, kind)' /\ RowsHeld'
        /\ Models' = [j \in Ids |-> IF j \in Promised!Meant(used.entries) THEN Changed(kind, o) ELSE Models[j]]
    <3>1. Selected(used) = Promised!Meant(used.entries)
      BY <2>1, Selects
    <3> QED BY <1>4, <1>5, <1>6, <3>1, SetStep
  <2>4. Promised!Change
    BY <1>5, <2>1, <2>2, <2>3 DEF Promised!Change, Says
  <2> QED BY <1>5, <2>2, <2>3, <2>4 DEF Promised!Call
<1>7. CASE ~runs
  <2>1. answer' # NoCall /\ Promised!Says("no", <<>>)
    BY <1>4, <1>7, Answered DEF Typed
  <2>2. Linked(made, kind)' /\ RowsHeld' /\ Models' = Models
    BY <1>4, <1>5, <1>7, RowsKept
  <2>3. o = Nil \/ DOMAIN used.entries = {}
    BY <1>3, <1>7 DEF Hollow
  <2>4. Promised!Refuse
    BY <1>5, <2>1, <2>2, <2>3 DEF Promised!Refuse
  <2> QED BY <1>5, <2>1, <2>2, <2>4 DEF Promised!Call
<1> QED BY <1>6, <1>7

LEMMA DeleteStep ==
    ASSUME Typed, WheresKept, Inv, NEW w \in Wheres("delete", kind, made), DeleteRecord(w)
    PROVE  Promised!Call
<1> DEFINE runs == Extract(w) \in {"where", "none"}
<1>1. Proper(w, kind) /\ (Says(w) \/ Hollow(w))
  BY KindsAre DEF WheresKept
<1>2. /\ call = NoCall /\ call' # NoCall /\ UNCHANGED <<kind, made>>
      /\ call'.op = "delete" /\ call'.entries = w.entries
  BY Asked DEF Typed, DeleteRecord
<1>3. CASE Says(w)
  <2>1. Extract(w) = "where" /\ Selected(w) = Promised!Meant(w.entries)
    BY <1>1, <1>3, Selects
  <2>2. answer' # NoCall /\ Promised!Says("yes", <<>>)
    BY <2>1, Answered DEF Typed, DeleteRecord
  <2> DEFINE ids == Selected(w)
  <2>3. rows' = [i \in Ids |-> IF i \in ids THEN NoRow ELSE rows[i]]
    BY <2>1 DEF DeleteRecord
  <2>4. ids = Promised!Meant(w.entries)
    BY <2>1
  <2> HIDE DEF ids
  <2>5. /\ Linked(made, kind)' /\ RowsHeld'
        /\ Models' = [i \in Ids |-> IF i \in ids THEN IF NoRow = NoRow THEN NoRow ELSE ReadProperty(kind, NoRow)
                                                 ELSE Models[i]]
    BY <1>2, <2>3, RowsWritten
  <2>6. Promised!Discard
    BY <1>2, <1>3, <2>2, <2>4, <2>5 DEF Promised!Discard, Says
  <2> QED BY <1>2, <2>2, <2>5, <2>6 DEF Promised!Call
<1>4. CASE Hollow(w)
  <2>1. Extract(w) = "error"
    BY <1>4 DEF Hollow, Extract
  <2>2. answer' # NoCall /\ Promised!Says("no", <<>>)
    BY <2>1, Answered DEF Typed, DeleteRecord
  <2>3. rows' = rows
    BY <2>1 DEF DeleteRecord, Inv, RowsHeld
  <2>4. Linked(made, kind)' /\ RowsHeld' /\ Models' = Models
    BY <1>2, <2>3, RowsKept
  <2>5. Promised!Refuse
    BY <1>2, <1>4, <2>2, <2>4 DEF Promised!Refuse, Hollow
  <2> QED BY <1>2, <2>2, <2>4, <2>5 DEF Promised!Call
<1> QED BY <1>1, <1>3, <1>4

\* A row becomes its model again.
LEMMA SameModel ==
    ASSUME Typed, Inv, NEW i \in There
    PROVE  ModelOf(i) = [key |-> Number(i), value |-> Models[i]]
<1>1. i \in Ids /\ Held(made, kind, rows[i]) /\ Models[i] = ReadProperty(kind, rows[i])
  BY SameThere
<1>2. ReadProperty("q", CellOf(i, "id")) = Number(i)
  BY <1>1, KeyKept DEF CellOf
<1> QED BY <1>1, <1>2 DEF ModelOf

\* The window of a list is the page, and has elements of the list only.
LEMMA SamePage ==
    ASSUME NEW ids \in SUBSET Ids, NEW s \in SetToSeqs(ids), NEW offset \in Nat, NEW count \in Nat
    PROVE  /\ Limited(s, offset, count) = Promised!Page(s, offset, count)
           /\ \A a \in DOMAIN Limited(s, offset, count) : Limited(s, offset, count)[a] \in ids
<1> DEFINE end == IF count > 0 /\ offset + count < Len(s) THEN offset + count ELSE Len(s)
<1>1. Len(s) \in Nat /\ DOMAIN s = 1..Len(s) /\ \A a \in DOMAIN s : s[a] \in ids
  BY ListsAre
<1>2. Limited(s, offset, count) = SubSeq(s, offset + 1, end)
  BY <1>1 DEF Limited
<1>3. Promised!Page(s, offset, count) = SubSeq(s, offset + 1, end)
  BY DEF Promised!Page
<1>4. end \in Nat /\ end <= Len(s)
  BY <1>1
<1> HIDE DEF end
<1>5. \A a \in (offset + 1)..end : s[a] \in ids
  BY <1>1, <1>4
<1>6. SubSeq(s, offset + 1, end) \in Seq(ids)
  BY <1>4, <1>5
<1>7. \A a \in DOMAIN SubSeq(s, offset + 1, end) : SubSeq(s, offset + 1, end)[a] \in ids
  BY <1>6
<1> QED BY <1>2, <1>3, <1>7

LEMMA QueryStep ==
    ASSUME Typed, WheresKept, OrdersKept, Inv, NEW w \in Wheres("query", kind, made), NEW order \in Orders(made),
           NEW x \in Windows, Query(w, order, x[1], x[2])
    PROVE  Promised!Call
<1> DEFINE ids == Selected(w)
           offset == x[1]
           count == x[2]
<1>1. Proper(w, kind) /\ (Says(w) \/ Silent(w)) /\ Sortable(order, made)
  BY KindsAre DEF WheresKept, OrdersKept, Sortable
<1>2. offset \in Nat /\ count \in Nat
  BY QueriesAssumption
<1>3. ids = Promised!Meant(w.entries) /\ ids \subseteq There /\ ids \in SUBSET Ids
  BY <1>1, Selects DEF There
<1> HIDE DEF ids, offset, count
<1>4. /\ call = NoCall /\ UNCHANGED <<kind, made, rows>>
      /\ call' = [op |-> "query", key |-> NoCall, value |-> NoCall, replace |-> FALSE,
                  entries |-> w.entries, order |-> order, offset |-> offset, count |-> count]
  BY DEF Query, offset, count
<1>5. /\ call' # NoCall /\ call'.op = "query" /\ call'.entries = w.entries
      /\ call'.order = order /\ call'.offset = offset /\ call'.count = count
  BY <1>4 DEF Typed, NullsApart
<1>6. PICK s \in Results(ids, order) :
         LET page == Limited(s, offset, count)
             list == [a \in DOMAIN page |-> ModelOf(page[a])]
         IN  answer' = IF \E a \in DOMAIN list : list[a].value = Raised
                         THEN Answer("raised", <<>>) ELSE Answer("models", list)
  BY DEF Query, ids, offset, count
<1> DEFINE page == Limited(s, offset, count)
           list == [a \in DOMAIN page |-> [key |-> Number(page[a]), value |-> Models[page[a]]]]
<1>7. s \in SetToSeqs(ids) /\ s \in Promised!Listings(ids, order)
  BY <1>1, <1>3, SameLists DEF Results
<1>8. page = Promised!Page(s, offset, count) /\ \A a \in DOMAIN page : page[a] \in ids
  BY <1>2, <1>3, <1>7, SamePage
<1> HIDE DEF page
<1>9. \A a \in DOMAIN page : ModelOf(page[a]) = [key |-> Number(page[a]), value |-> Models[page[a]]]
  BY <1>3, <1>8, SameModel
<1>10. [a \in DOMAIN page |-> ModelOf(page[a])] = list
  BY <1>9
<1>11. (\E a \in DOMAIN list : list[a].value = Raised) <=> (\E a \in DOMAIN page : Models[page[a]] = Raised)
  OBVIOUS
<1>12. answer' = IF \E a \in DOMAIN page : Models[page[a]] = Raised
                   THEN Answer("raised", <<>>) ELSE Answer("models", list)
  BY <1>6, <1>10, <1>11 DEF page
<1> HIDE DEF list
<1>13. /\ answer' # NoCall
       /\ IF \E a \in DOMAIN page : Models[page[a]] = Raised
            THEN Promised!Says("raised", <<>>) ELSE Promised!Says("models", list)
  <2>1. CASE \E a \in DOMAIN page : Models[page[a]] = Raised
    BY <1>12, <2>1, Answered DEF Typed
  <2>2. CASE ~\E a \in DOMAIN page : Models[page[a]] = Raised
    BY <1>12, <2>2, Answered DEF Typed
  <2> QED BY <2>1, <2>2
<1>14. Linked(made, kind)' /\ RowsHeld' /\ Models' = Models
  BY <1>4, RowsKept
<1>15. Promised!Ask
  BY <1>3, <1>5, <1>7, <1>8, <1>13, <1>14 DEF Promised!Ask, list
<1> QED BY <1>4, <1>5, <1>13, <1>14, <1>15 DEF Promised!Call

LEMMA ReturnStep ==
    ASSUME Inv, Return
    PROVE  Promised!Return
<1>1. Linked(made, kind)' /\ RowsHeld' /\ Models' = Models
  BY RowsKept DEF Return
<1> QED BY <1>1 DEF Return, Promised!Return

\* The cell of a number is read as it is by a query of one column, and by one
\* of an integer if it is no wider than one.
LEMMA NumberCell ==
    ASSUME Typed, Inv, NEW i \in There
    PROVE  /\ made \in {"i", "q"} => /\ rows[i] # Null /\ Models[i] # Nil
                                     /\ ObjectForColumn(rows[i]) = Models[i]
           /\ kind \in {"c", "i"} => Number(Signed(IntHalf, NumberOf(rows[i]))) = Models[i]
<1>1. Held(made, kind, rows[i]) /\ Models[i] = ReadProperty(kind, rows[i])
  BY SameThere
<1>2. SUFFICES ASSUME made \in {"i", "q"} \/ kind \in {"c", "i"}
               PROVE  /\ made \in {"i", "q"} => /\ rows[i] # Null /\ Models[i] # Nil
                                                /\ ObjectForColumn(rows[i]) = Models[i]
                      /\ kind \in {"c", "i"} => Number(Signed(IntHalf, NumberOf(rows[i]))) = Models[i]
  OBVIOUS
<1>3. kind \in {"c", "i", "q"} /\ Linked(made, kind) /\ made \in Scalars
  BY <1>2 DEF Inv, Linked, Grows, Scalars
<1>4. PICK o : Holds(kind, o) /\ rows[i] = StoredAs(made, kind, o)
  BY <1>1, <1>3, HeldAlike DEF Settable, Scalars
<1>5. PICK n \in Numbers(kind) : o = Number(n)
  BY <1>3, <1>4 DEF Holds, Scalars
<1>6. /\ rows[i] = IF made = "c" THEN Cell("text", "numeral", n) ELSE Cell("integer", "plain", n)
      /\ Models[i] = Number(n) /\ n \in Int
  BY <1>1, <1>3, <1>4, <1>5, NumberStored, NumbersAre DEF Scalars
<1>7. ASSUME made \in {"i", "q"}
      PROVE  rows[i] # Null /\ Models[i] # Nil /\ ObjectForColumn(rows[i]) = Models[i]
  <2>1. rows[i] = Cell("integer", "plain", n)
    BY <1>6, <1>7
  <2> QED BY <1>6, <2>1, ObjectIsSome DEF Cell, Null, Number, ObjectForColumn
<1>8. ASSUME kind \in {"c", "i"}
      PROVE  Number(Signed(IntHalf, NumberOf(rows[i]))) = Models[i]
  <2>1. NumberOf(rows[i]) = n
    BY <1>6 DEF NumberOf, Cell
  <2>2. n \in (-IntHalf)..(IntHalf - 1)
    BY <1>8, ValueCodecAssumption DEF Numbers
  <2>3. Signed(IntHalf, n) = n
    BY <2>2, SignedKeeps, ValueCodecAssumption
  <2> QED BY <1>6, <2>1, <2>3
<1> QED BY <1>7, <1>8

LEMMA QueryValuesStep ==
    ASSUME Typed, WheresKept, Inv, NEW w \in Wheres("values", kind, made), QueryValues(w)
    PROVE  Promised!Call
<1> DEFINE ids == Selected(w)
<1>1. Proper(w, kind) /\ (Says(w) \/ Silent(w)) /\ made \in {"i", "q"}
  BY KindsAre DEF WheresKept
<1>2. ids = Promised!Meant(w.entries) /\ ids \subseteq There /\ ids \in SUBSET Ids
  BY <1>1, Selects DEF There
<1>3. /\ call = NoCall /\ call' # NoCall /\ UNCHANGED <<kind, made>>
      /\ call'.op = "values" /\ call'.entries = w.entries
  BY Asked DEF Typed, QueryValues
<1>4. PICK s \in Results({i \in ids : rows[i] # Null}, "none") :
         answer' = Answer("values", [a \in DOMAIN s |-> ObjectForColumn(rows[s[a]])])
  BY DEF QueryValues
<1>5. rows' = rows
  BY DEF QueryValues
<1> HIDE DEF ids
<1>6. \A i \in ids : rows[i] # Null /\ Models[i] # Nil /\ ObjectForColumn(rows[i]) = Models[i]
  BY <1>1, <1>2, NumberCell
<1>7. {i \in ids : rows[i] # Null} = ids /\ {i \in ids : Models[i] # Nil} = ids
  BY <1>6
<1>8. s \in Promised!Listings(ids, "none") /\ s \in SetToSeqs(ids)
  BY <1>2, <1>4, <1>7, SameLists DEF Sortable, Results
<1>9. \A a \in DOMAIN s : s[a] \in ids
  BY <1>2, <1>8, ListsAre
<1>10. [a \in DOMAIN s |-> ObjectForColumn(rows[s[a]])] = [a \in DOMAIN s |-> Models[s[a]]]
  BY <1>6, <1>9
<1>11. answer' # NoCall /\ Promised!Says("values", [a \in DOMAIN s |-> Models[s[a]]])
  BY <1>4, <1>10, Answered DEF Typed
<1>12. Linked(made, kind)' /\ RowsHeld' /\ Models' = Models
  BY <1>3, <1>5, RowsKept
<1>13. Promised!AskValues
  BY <1>2, <1>3, <1>7, <1>8, <1>11, <1>12 DEF Promised!AskValues
<1> QED BY <1>3, <1>11, <1>12, <1>13 DEF Promised!Call

LEMMA QueryIntegerStep ==
    ASSUME Typed, WheresKept, Inv, NEW w \in Wheres("integer", kind, made), QueryInteger(w)
    PROVE  Promised!Call
<1> DEFINE ids == Selected(w)
<1>1. Proper(w, kind) /\ (Says(w) \/ Silent(w)) /\ kind \in {"c", "i"}
  BY KindsAre DEF WheresKept
<1>2. ids = Promised!Meant(w.entries) /\ ids \subseteq There
  BY <1>1, Selects
<1>3. /\ call = NoCall /\ call' # NoCall /\ UNCHANGED <<kind, made>>
      /\ call'.op = "integer" /\ call'.entries = w.entries
  BY Asked DEF Typed, QueryInteger
<1>4. \/ ids = {} /\ answer' = Answer("values", <<Number(0)>>)
      \/ \E i \in ids : answer' = Answer("values", <<Number(Signed(IntHalf, NumberOf(rows[i])))>>)
  BY DEF QueryInteger
<1>5. rows' = rows
  BY DEF QueryInteger
<1> HIDE DEF ids
<1>6. \A i \in ids : Number(Signed(IntHalf, NumberOf(rows[i]))) = Models[i]
  BY <1>1, <1>2, NumberCell
<1>7. Linked(made, kind)' /\ RowsHeld' /\ Models' = Models
  BY <1>3, <1>5, RowsKept
<1>8. answer' # NoCall /\ \/ ids = {} /\ Promised!Says("values", <<Number(0)>>)
                          \/ \E i \in ids : Promised!Says("values", <<Models[i]>>)
  BY <1>4, <1>6, Answered DEF Typed
<1>9. Promised!AskInteger
  BY <1>2, <1>3, <1>7, <1>8 DEF Promised!AskInteger
<1> QED BY <1>3, <1>7, <1>8, <1>9 DEF Promised!Call

\* A step is one of the collection.
LEMMA NextStep ==
    ASSUME Typed, WheresKept, OrdersKept, Inv, [Next]_vars
    PROVE  [Promised!Next]_Promised!vars
<1>1. ASSUME NEW k \in Kinds, Relaunch(k)
      PROVE  Promised!Next
  BY <1>1, RelaunchStep DEF Promised!Next
<1>2. ASSUME NEW i \in Ids, NEW o \in Values(kind), NEW replace \in BOOLEAN, Insert(i, o, replace)
      PROVE  Promised!Next
  BY <1>2, InsertStep DEF Promised!Next
<1>3. ASSUME NEW o \in Changes(kind), NEW w \in Wheres("updateTable", kind, made), UpdateTable(o, w)
      PROVE  Promised!Next
  BY <1>3, UpdateTableStep DEF Promised!Next
<1>4. ASSUME NEW i \in Ids, NEW o \in Changes(kind), NEW w \in Wheres("updateModel", kind, made),
             UpdateModel(i, o, w)
      PROVE  Promised!Next
  BY <1>4, UpdateModelStep DEF Promised!Next
<1>5. ASSUME NEW w \in Wheres("delete", kind, made), DeleteRecord(w)
      PROVE  Promised!Next
  BY <1>5, DeleteStep DEF Promised!Next
<1>6. ASSUME NEW w \in Wheres("query", kind, made), NEW order \in Orders(made), NEW x \in Windows,
             Query(w, order, x[1], x[2])
      PROVE  Promised!Next
  BY <1>6, QueryStep DEF Promised!Next
<1>7. ASSUME NEW w \in Wheres("values", kind, made), QueryValues(w)
      PROVE  Promised!Next
  BY <1>7, QueryValuesStep DEF Promised!Next
<1>8. ASSUME NEW w \in Wheres("integer", kind, made), QueryInteger(w)
      PROVE  Promised!Next
  BY <1>8, QueryIntegerStep DEF Promised!Next
<1>9. CASE Return
  BY <1>9, ReturnStep DEF Promised!Next
<1>10. CASE UNCHANGED vars
  BY <1>10, RowsKept DEF vars, Inv, Promised!vars
<1> QED BY <1>1, <1>2, <1>3, <1>4, <1>5, <1>6, <1>7, <1>8, <1>9, <1>10 DEF Next

-----------------------------------------------------------------------------
(* Theorems *)

\* Every cell holds a value of the property, as an insert or an update stores it,
\* in every version of the program: for any values of the types, inserted or
\* set, of archived classes too, whatever the conditions, when types only grow.
THEOREM CellsHoldValues == ASSUME Typed PROVE Spec => []Inv
<1>1. Init => Inv
  BY InitStep
<1>2. Inv /\ [Next]_vars => Inv'
  BY InvKept
<1> QED BY <1>1, <1>2, PTL DEF Spec

\* A cell has a store that its column's affinity leaves it: NBDBHelper.m's type
\* of the property, when the table was made.
THEOREM TypeCorrect == ASSUME Typed PROVE Spec => []TypeOK
<1>1. Inv => TypeOK
  <2> SUFFICES ASSUME Inv PROVE TypeOK
    OBVIOUS
  <2>1. Linked(made, kind) /\ NullsApart /\ (call = NoCall <=> answer = NoCall)
    BY DEF Typed, Inv
  <2>2. \A i \in There : Held(made, kind, rows[i])
    BY SameThere
  <2>3. \A i \in There : rows[i].store \in StoresOf(ColumnType(made))
    BY <2>1, <2>2, HeldRow
  <2> QED BY <2>1, <2>3, KindsAre DEF TypeOK
<1> QED BY <1>1, CellsHoldValues, PTL

\* For any keys, widths, and values of the types, inserted or set by an update,
\* the rows that updates and removals touch are those of the models meant, each
\* property keeps what Kept and Changed say, and queries answer those models:
\* rows, cells, affinities and narrowing do not show.  The hypotheses are those
\* ImplementsCollection names: conditions that are not empty, on the key, a
\* scalar or a string; sorting and single columns of signed numbers.
THEOREM QueriesImplementCollection == ASSUME Program PROVE Spec => ImplementsCollection
<1>1. Init => Promised!Init
  BY InitStep
<1>2. Inv /\ [Next]_vars => [Promised!Next]_Promised!vars
  BY NextStep DEF Program
<1>3. Spec => []Inv
  BY CellsHoldValues DEF Program
<1> QED BY <1>1, <1>2, <1>3, PTL DEF Spec, ImplementsCollection, Promised!Spec
=============================================================================
