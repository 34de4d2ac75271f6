------------------------------- MODULE Queries -------------------------------
(***************************************************************************)
(* The calls of NBDataBase.m that take a where argument, and the queries,  *)
(* on one table whose models have a key and one property.  Each is one     *)
(* block on the serial queue.  NBSQLStatementHelper.m makes the statement, *)
(* FMDB binds the values, SQLite evaluates it, and the rows become models  *)
(* again.  The property may have another type in the next version of the   *)
(* program; its column keeps the type it was made with.                    *)
(***************************************************************************)
EXTENDS ValueCodec, SequencesExt, TLC

CONSTANTS
    Ids,               \* the keys of the models, which are numbers
    NoRow, NoCall,
    KindsUsed,         \* the types the property may have in the first version
    Evolves,           \* <<from, to>>: and in a later one
    Values(_),         \* the values a program stores in a property of a type
    Changes(_),        \* and those it sets by an update
    Wheres(_, _, _),   \* the where arguments it passes to a call
    Orders(_),         \* the columns it sorts by
    Windows            \* <<offset, count>>

ASSUME QueriesAssumption ==
    /\ Ids \subseteq (-LongHalf)..(LongHalf - 1)
    /\ KindsUsed \subseteq Kinds /\ Evolves \subseteq Kinds \X Kinds
    /\ Windows \subseteq Nat \X Nat

VARIABLES
    kind,      \* of the property, in this version of the program
    made,      \* its type when the table was made
    rows,      \* for each key the cell of the property, or NoRow
    call,      \* the last call and its arguments, or NoCall
    answer     \* to it

vars == <<kind, made, rows, call, answer>>

There == {i \in Ids : rows[i] # NoRow}

Answer(what, list) == [what |-> what, list |-> list]

\* What a column of a type can hold: its affinity at work, which a BLOB has not.
StoresOf(type) ==
    CASE type = "NUMERIC" -> {"integer"}
      [] type = "BLOB"    -> {"blob", "integer", "text", "null"}
      [] OTHER            -> {"text", "null"}

TypeOK ==
    /\ kind \in Kinds /\ made \in Kinds
    /\ \A i \in There : rows[i].store \in StoresOf(ColumnType(made))
    /\ call = NoCall <=> answer = NoCall

-----------------------------------------------------------------------------
(* Where arguments: nothing, a text, or a dictionary from columns to lists *)
(* of objects.  A text is a conjunction of comparisons, like a dictionary. *)

\* dictionaryToSqlWhere: an empty list is left out.
Used(w) == {c \in DOMAIN w.entries : w.entries[c] # {}}

\* extractWhereSql: a where clause, none, an error, or one that is no SQL.
Extract(w) ==
    CASE w.form = "dictionary" /\ DOMAIN w.entries = {} -> "error"
      [] w.form = "dictionary" /\ DOMAIN w.entries # {} /\ Used(w) = {} -> "broken"
      [] w.form \in {"nil", "blank"} -> "none"
      [] OTHER -> "where"

TypeOf(column) == IF column = "id" THEN "NUMERIC" ELSE ColumnType(made)
CellOf(i, column) == IF column = "id" THEN BindObject(Number(i)) ELSE rows[i]

\* column in(?,...): the column's affinity applies to the objects, and nothing
\* equals NULL.
In(i, column, objects) ==
    \E o \in objects : LET cell == Affinity(TypeOf(column), BindObject(o))
                       IN  cell # Null /\ CellOf(i, column) = cell

\* MUTANT: the entries are joined by "or".
Satisfying_Or(w) == {i \in There : \E c \in Used(w) : In(i, c, w.entries[c])}

Satisfying(w) == {i \in There : \A c \in Used(w) : In(i, c, w.entries[c])}

Selected(w) ==
    CASE Extract(w) = "where" -> Satisfying(w) [] Extract(w) = "broken" -> {} [] OTHER -> There

-----------------------------------------------------------------------------
(* The calls *)

NoWhere == [form |-> "nil", entries |-> <<>>]

\* A call begins with its arguments; entries is what its where argument says.
Asks(op, i, o, w) ==
    /\ call = NoCall
    /\ call' = [op |-> op, key |-> i, value |-> o, replace |-> FALSE,
                entries |-> w.entries, order |-> "none", offset |-> 0, count |-> 0]
    /\ UNCHANGED <<kind, made>>

Init ==
    /\ kind \in KindsUsed /\ made = kind
    /\ rows = [i \in Ids |-> NoRow]
    /\ call = NoCall /\ answer = NoCall

\* Another version of the program: no statement changes a column's type.
Relaunch(k) ==
    /\ call = NoCall
    /\ <<kind, k>> \in Evolves
    /\ kind' = k
    /\ UNCHANGED <<made, rows, call, answer>>

\* insert or replace, insert or ignore
Insert(i, o, replace) ==
    /\ call = NoCall
    /\ call' = [op |-> "insert", key |-> i, value |-> o, replace |-> replace,
                entries |-> <<>>, order |-> "none", offset |-> 0, count |-> 0]
    /\ rows' = IF replace \/ rows[i] = NoRow
                 THEN [rows EXCEPT ![i] = Affinity(ColumnType(made), BindInserted(kind, o))]
                 ELSE rows
    /\ answer' = Answer("yes", <<>>)
    /\ UNCHANGED <<kind, made>>

\* An update binds its values as they are.
Set(ids, o) ==
    rows' = [i \in Ids |-> IF i \in ids THEN Affinity(ColumnType(made), BindObject(o)) ELSE rows[i]]

\* updateTable:set:where: does not look at the error.
UpdateTable(o, w) ==
    /\ Asks("updateTable", NoCall, o, w)
    /\ Set(Selected(w), o)
    /\ answer' = Answer(IF Extract(w) = "broken" THEN "no" ELSE "yes", <<>>)

\* updateWithModel:where: with the model of a key; without a condition the
\* primary key is the condition.
UpdateModel(i, o, w) ==
    LET own  == [form |-> "dictionary", entries |-> [c \in {"id"} |-> {Number(i)}]]
        used == IF Extract(w) = "none" THEN own ELSE w
        runs == Extract(used) = "where" /\ o # Nil
    IN  /\ Asks("updateModel", i, o, used)
        /\ IF runs THEN Set(Selected(used), o) ELSE UNCHANGED rows
        /\ answer' = Answer(IF runs THEN "yes" ELSE "no", <<>>)

\* deleteRecordFromTable:where:
DeleteRecord(w) ==
    LET runs == Extract(w) \in {"where", "none"}
    IN  /\ Asks("delete", NoCall, NoCall, w)
        /\ rows' = [i \in Ids |-> IF runs /\ i \in Selected(w) THEN NoRow ELSE rows[i]]
        /\ answer' = Answer(IF runs THEN "yes" ELSE "no", <<>>)

-----------------------------------------------------------------------------
(* Queries *)

\* Numbers are sorted as numbers; the order of texts is left open.
Before(order, i, j) ==
    CASE order = "id" -> i < j
      [] order = "p"  -> rows[i].store = "integer" /\ rows[j].store = "integer" /\ rows[i].n < rows[j].n
      [] OTHER        -> FALSE

Results(ids, order) ==
    {s \in SetToSeqs(ids) : \A a, b \in DOMAIN s : a < b => ~Before(order, s[b], s[a])}

\* sqlString: limit and offset, if there is a count or an offset.
Limited(s, offset, count) ==
    LET end == IF count > 0 THEN offset + count ELSE Len(s)
    IN  SubSeq(s, offset + 1, IF end < Len(s) THEN end ELSE Len(s))

\* executeResult:class:
ModelOf(i) == [key |-> ReadProperty("q", CellOf(i, "id")), value |-> ReadProperty(kind, rows[i])]

\* query:where:orderBy:offset:count:
Query(w, order, offset, count) ==
    /\ call = NoCall
    /\ call' = [op |-> "query", key |-> NoCall, value |-> NoCall, replace |-> FALSE,
                entries |-> w.entries, order |-> order, offset |-> offset, count |-> count]
    /\ \E s \in Results(Selected(w), order) :
         LET page == Limited(s, offset, count)
             list == [a \in DOMAIN page |-> ModelOf(page[a])]
         IN  answer' = IF \E a \in DOMAIN list : list[a].value = Raised
                         THEN Answer("raised", <<>>) ELSE Answer("models", list)
    /\ UNCHANGED <<kind, made, rows>>

\* executeOneColumnResult:class: objects as they are in the column.
QueryValues(w) ==
    /\ Asks("values", NoCall, NoCall, w)
    /\ \E s \in Results({i \in Selected(w) : rows[i] # Null}, "none") :
         answer' = Answer("values", [a \in DOMAIN s |-> ObjectForColumn(rows[s[a]])])
    /\ UNCHANGED rows

\* queryIntegerdata: the first row's cell, as an int.
QueryInteger(w) ==
    /\ Asks("integer", NoCall, NoCall, w)
    /\ \/ Selected(w) = {} /\ answer' = Answer("values", <<Number(0)>>)
       \/ \E i \in Selected(w) :
            answer' = Answer("values", <<Number(Signed(IntHalf, NumberOf(rows[i])))>>)
    /\ UNCHANGED rows

\* Or the program, which an exception has ended, is started again.
Return ==
    /\ call # NoCall
    /\ call' = NoCall /\ answer' = NoCall
    /\ UNCHANGED <<kind, made, rows>>

Next ==
    \/ \E k \in Kinds : Relaunch(k)
    \/ \E i \in Ids, o \in Values(kind), replace \in BOOLEAN : Insert(i, o, replace)
    \/ \E o \in Changes(kind), w \in Wheres("updateTable", kind, made) : UpdateTable(o, w)
    \/ \E i \in Ids, o \in Changes(kind), w \in Wheres("updateModel", kind, made) : UpdateModel(i, o, w)
    \/ \E w \in Wheres("delete", kind, made) : DeleteRecord(w)
    \/ \E w \in Wheres("query", kind, made), order \in Orders(made), x \in Windows : Query(w, order, x[1], x[2])
    \/ \E w \in Wheres("values", kind, made) : QueryValues(w)
    \/ \E w \in Wheres("integer", kind, made) : QueryInteger(w)
    \/ Return

Spec == Init /\ [][Next]_vars

-----------------------------------------------------------------------------
(* Properties *)

\* What a property keeps of a value inserted: dates, data and colours cannot be
\* read back, an empty string is read as none, a mutable string as its archive,
\* and a number object raises.
Kept(k, o) ==
    IF o = Nil THEN Nil
    ELSE CASE k \in {"NSDate", "NSData", "UIColor"} -> Nil
           [] k = "NSMutableString"                -> Object("data", "string", o.n)
           [] k = "NSNumber"                       -> Raised
           [] OTHER                                -> IF o = Empty THEN Nil ELSE o

\* And of one set by an update, which archives nothing: a date raises too, an
\* object is lost, and a mutable string is a string.
Changed(k, o) ==
    IF o = Nil THEN Nil
    ELSE CASE k \in {"NSData", "UIColor", "object"} -> Nil
           [] k \in {"NSDate", "NSNumber"}         -> Raised
           [] OTHER                                -> IF o = Empty THEN Nil ELSE o

Models == [i \in Ids |-> IF rows[i] = NoRow THEN NoRow ELSE ReadProperty(kind, rows[i])]

Promised == INSTANCE Collection
              WITH models <- Models, NoModel <- NoRow, Key <- Number, Unreadable <- Raised

\* Whatever values a program stores and sets, in whatever types and over the
\* versions of Evolves, it can think of its models, each property keeping what
\* Kept and Changed say: rows, cells, affinities and narrowing do not show.
\* This is for conditions that name something: an empty list is skipped, an
\* updateTable: with an empty dictionary changes every row (NBSQLStatementHelper.m
\* 543 and 296); that compare the key, a scalar or an NSString, since a condition
\* archives nothing; and for sorting by signed numbers, integers of at most int
\* and single columns of signed numbers, which are not converted as in a model.
ImplementsCollection == Promised!Spec
=============================================================================
