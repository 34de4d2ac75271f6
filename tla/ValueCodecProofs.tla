-------------------------- MODULE ValueCodecProofs --------------------------
(* Values come back from the database, for any widths of the types. *)
EXTENDS ValueCodec, TLAPS

\* The numbers a property of a type can have.
Numbers(kind) ==
    CASE kind = "c" -> (-CharHalf)..(CharHalf - 1)
      [] kind = "i" -> (-IntHalf)..(IntHalf - 1)
      [] kind = "q" -> (-LongHalf)..(LongHalf - 1)
      [] kind = "Q" -> 0..(2 * LongHalf - 1)

\* What is read by a property of type later of what one of type kind stored.
Reread(kind, later, o) == ReadProperty(later, Affinity(ColumnType(kind), BindInserted(kind, o)))

-----------------------------------------------------------------------------
(* Remainders near the range *)

\* The remainder of a number in range,
LEMMA ModSmall ==
    ASSUME NEW m \in Nat, m > 0, NEW x \in Int, 0 <= x, x < m
    PROVE  x % m = x
  BY Z3

\* of one a width above it,
LEMMA ModAbove ==
    ASSUME NEW m \in Nat, m > 0, NEW x \in Int, m <= x, x < 2 * m
    PROVE  x % m = x - m
  BY Z3

\* and of one a width below it.
LEMMA ModBelow ==
    ASSUME NEW m \in Nat, m > 0, NEW x \in Int, 0 - m <= x, x < 0
    PROVE  x % m = x + m
  BY Z3

\* A number in the range of a signed type is left as it is.
LEMMA SignedKeeps ==
    ASSUME NEW half \in Nat, half > 0, NEW n \in (-half)..(half - 1)
    PROVE  Signed(half, n) = n
<1>1. n + half \in Int /\ 0 <= n + half /\ n + half < 2 * half /\ 2 * half \in Nat /\ 2 * half > 0
  OBVIOUS
<1>2. (n + half) % (2 * half) = n + half
  BY <1>1, ModSmall
<1> QED BY <1>1, <1>2 DEF Signed

\* An unsigned number is stored as a signed one, and comes back.
LEMMA UnsignedReturns ==
    ASSUME NEW half \in Nat, half > 0, NEW n \in 0..(2 * half - 1)
    PROVE  Unsigned(half, Signed(half, n)) = n
<1>1. n \in Int /\ 2 * half \in Nat /\ 2 * half > 0 /\ n + half \in Int
  OBVIOUS
<1>2. CASE n < half
  <2>1. Signed(half, n) = n BY <1>2, SignedKeeps
  <2>2. n % (2 * half) = n BY <1>1, <1>2, ModSmall
  <2> QED BY <2>1, <2>2 DEF Unsigned
<1>3. CASE n >= half
  <2>1. (n + half) % (2 * half) = n + half - 2 * half
    <3>1. 2 * half <= n + half /\ n + half < 2 * (2 * half) BY <1>3
    <3> QED BY <1>1, <3>1, ModAbove
  <2>2. Signed(half, n) = n - 2 * half BY <1>1, <2>1 DEF Signed
  <2>3. (n - 2 * half) % (2 * half) = n
    <3>1. 0 - 2 * half <= n - 2 * half /\ n - 2 * half < 0 /\ n - 2 * half \in Int BY <1>3
    <3>2. (n - 2 * half) % (2 * half) = n - 2 * half + 2 * half BY <1>1, <3>1, ModBelow
    <3> QED BY <1>1, <3>2
  <2> QED BY <2>2, <2>3 DEF Unsigned
<1> QED BY <1>1, <1>2, <1>3

-----------------------------------------------------------------------------
(* Theorems *)

\* A signed number is a number.
LEMMA SignedInt == ASSUME NEW n \in Int PROVE Signed(LongHalf, n) \in Int
  BY ValueCodecAssumption DEF Signed

\* A number is bound to its statement as a signed one of the full width.
LEMMA NumberBound ==
    ASSUME NEW kind \in Scalars, NEW n \in Int
    PROVE  BindInserted(kind, Number(n)) = Cell("integer", "plain", Signed(LongHalf, n))
<1>1. Number(n) # Nil
  BY ValueCodecAssumption DEF Number, Object
<1>2. ColumnType(kind) # "BLOB"
  BY DEF ColumnType, Scalars
<1> QED BY <1>1, <1>2 DEF BindInserted, BindObject, Number, Object

\* A number that a scalar property stores is read back by the property, and
\* after the property has been given another signed type that has the number:
\* neither the column nor the statements cut it, whatever the widths.
THEOREM NumbersComeBack ==
    ASSUME NEW kind \in Scalars, NEW later \in Scalars,
           kind = later \/ "Q" \notin {kind, later},
           NEW n \in Numbers(kind), n \in Numbers(later)
    PROVE  Reread(kind, later, Number(n)) = Number(n)
<1> DEFINE m == Signed(LongHalf, n)
<1>1. n \in Int
  BY ValueCodecAssumption DEF Numbers, Scalars
<1>2. ReadProperty(later, Affinity(ColumnType(kind), Cell("integer", "plain", m))) = Number(Narrow(later, m))
  <2>1. CASE kind = "c"
    <3>1. Affinity(ColumnType(kind), Cell("integer", "plain", m)) = Cell("text", "numeral", m)
      BY <2>1 DEF ColumnType, Affinity, Cell
    <3>2. ObjectForColumn(Cell("text", "numeral", m)) = Object("string", "numeral", m)
      BY DEF ObjectForColumn, Cell
    <3>3. Object("string", "numeral", m) # Nil
      BY <1>1, SignedInt, ValueCodecAssumption DEF Object
    <3>4. later # "Q"
      BY <2>1
    <3> QED BY <3>1, <3>2, <3>3, <3>4 DEF ReadProperty, SetValue, SetScalar, Object, NumberOf
  <2>2. CASE kind # "c"
    <3>1. Affinity(ColumnType(kind), Cell("integer", "plain", m)) = Cell("integer", "plain", m)
      BY <2>2 DEF ColumnType, Affinity, Cell, Scalars
    <3>2. ObjectForColumn(Cell("integer", "plain", m)) = Number(m)
      BY DEF ObjectForColumn, Cell
    <3>3. Number(m) # Nil
      BY <1>1, SignedInt, ValueCodecAssumption DEF Number, Object
    <3> QED BY <3>1, <3>2, <3>3 DEF ReadProperty, SetValue, SetScalar, Number, Object, NumberOf
  <2> QED BY <2>1, <2>2
<1>3. Narrow(later, m) = n
  <2>1. CASE later = "Q"
    BY <2>1, UnsignedReturns, ValueCodecAssumption DEF Numbers, Narrow
  <2>2. CASE later # "Q"
    <3>1. m = n
      <4>1. n \in (-LongHalf)..(LongHalf - 1)
        BY <2>2, ValueCodecAssumption DEF Numbers, Scalars
      <4> QED BY <4>1, SignedKeeps, ValueCodecAssumption
    <3> QED BY <2>2, <3>1, SignedKeeps, ValueCodecAssumption DEF Numbers, Narrow, Scalars
  <2> QED BY <2>1, <2>2
<1> QED BY <1>1, <1>2, <1>3, NumberBound DEF Reread

\* What an insert stores of an object and a property of its class reads again.
\* Of two classes the object comes back: an NSString, unless it is empty, and a
\* class without a branch of its own in setValue:forKey:typeEncoding:.  A mutable
\* string comes back as the data of its archive, a date, data, colour or image not
\* at all, and a number object raises an exception.
THEOREM ObjectsComeBack ==
    ASSUME NEW n \in Int, NEW form \in {"numeral", "other"}
    PROVE  LET str    == Object("string", form, n)
               obj    == Object("object", "plain", n)
               Own(kind, o) == Reread(kind, kind, o)
           IN  /\ Own("NSString", str) = str
               /\ Own("object", obj) = obj
               /\ Own("NSMutableString", str) = Object("data", "string", n)
               /\ Own("NSNumber", Number(n)) = Raised
               /\ Own("NSDate", Object("date", "plain", n)) = Nil
               /\ Own("NSData", Object("data", "other", n)) = Nil
               /\ Own("UIColor", obj) = Nil
<1> DEFINE str == Object("string", form, n)
           obj == Object("object", "plain", n)
<1>1. str # Nil /\ obj # Nil
  BY ValueCodecAssumption DEF Object
<1>2. Reread("NSString", "NSString", str) = str
  <2>1. Affinity(ColumnType("NSString"), BindInserted("NSString", str)) = Cell("text", form, n)
    BY <1>1 DEF BindInserted, BindObject, Affinity, ColumnType, Object, Cell, Scalars
  <2>2. ObjectForColumn(Cell("text", form, n)) = str
    BY DEF ObjectForColumn, Cell
  <2>3. SetValue("NSString", str) = str
    BY DEF SetValue, SetObject, Scalars, Object
  <2> QED BY <1>1, <2>1, <2>2, <2>3 DEF Reread, ReadProperty
<1>3. ASSUME NEW kind \in {"object", "NSMutableString", "NSNumber", "NSDate", "UIColor"},
             NEW o, o # Nil, o.n = n, o.cls \in {"object", "string", "number", "date"}
      PROVE  Reread(kind, kind, o) = SetObject(kind, Object("data", o.cls, n))
  <2>1. BindInserted(kind, o) = Cell("blob", o.cls, n)
    BY <1>3 DEF BindInserted, ColumnType
  <2>2. Affinity(ColumnType(kind), Cell("blob", o.cls, n)) = Cell("blob", o.cls, n)
    BY DEF Affinity, ColumnType, Cell
  <2>3. ObjectForColumn(Cell("blob", o.cls, n)) = Object("data", o.cls, n)
    BY DEF ObjectForColumn, Cell
  <2>4. Object("data", o.cls, n) # Nil
    BY <1>3, ValueCodecAssumption DEF Object
  <2> QED BY <2>1, <2>2, <2>3, <2>4 DEF Reread, ReadProperty, SetValue, Scalars
<1>4. Reread("object", "object", obj) = obj
  BY <1>1, <1>3 DEF SetObject, Object
<1>5. Reread("NSMutableString", "NSMutableString", str) = Object("data", "string", n)
  BY <1>1, <1>3 DEF SetObject, Object
<1>6. Reread("NSNumber", "NSNumber", Number(n)) = Raised
  <2>1. Number(n) # Nil
    BY ValueCodecAssumption DEF Number, Object
  <2> QED BY <1>3, <2>1 DEF SetObject, Number, Object
<1>7. Reread("NSDate", "NSDate", Object("date", "plain", n)) = Nil
  <2>1. Object("date", "plain", n) # Nil
    BY ValueCodecAssumption DEF Object
  <2> QED BY <1>3, <2>1 DEF SetObject, Object
<1>8. Reread("NSData", "NSData", Object("data", "other", n)) = Nil
  <2>1. Object("data", "other", n) # Nil
    BY ValueCodecAssumption DEF Object
  <2>2. Affinity(ColumnType("NSData"), BindInserted("NSData", Object("data", "other", n))) = Cell("blob", "other", n)
    BY <2>1 DEF BindInserted, BindObject, Affinity, ColumnType, Object, Cell
  <2> QED BY <2>1, <2>2 DEF Reread, ReadProperty, ObjectForColumn, SetValue, SetObject, Scalars, Object, Cell
<1>9. Reread("UIColor", "UIColor", obj) = Nil
  BY <1>1, <1>3 DEF SetObject, Object
<1> QED BY <1>2, <1>4, <1>5, <1>6, <1>7, <1>8, <1>9
=============================================================================
