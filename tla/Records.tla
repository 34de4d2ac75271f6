------------------------------ MODULE Records ------------------------------
(***************************************************************************)
(* What the statements that NBSQLStatementHelper.m builds for a model do   *)
(* to the rows of one table.  A model and a row are both functions on the  *)
(* columns; Nil is a property that is nil, and a NULL in the database.     *)
(* Objects in a BLOB column (other than NSData) have two stored forms: the *)
(* archive that reading unarchives, and the object's description, which    *)
(* FMDB binds when it is handed the object itself and which reading drops. *)
(*                                                                         *)
(* The columns: argument of a call is a set of columns; {} is columns:nil. *)
(***************************************************************************)
EXTENDS SequencesExt

CONSTANTS
    Columns,       \* the properties of the model class that are stored
    KeyColumns,    \* those of its primary key
    BlobColumns,   \* those whose objects must be archived
    Values,        \* what a property can hold
    Nil

ASSUME RecordsAssumption ==
    /\ KeyColumns \subseteq Columns /\ KeyColumns # {}
    /\ BlobColumns \subseteq Columns \ KeyColumns
    /\ Nil \notin Values

Archived(v) == <<v>>

Cells == Values \cup {Archived(v) : v \in Values} \cup {Nil}
Rows  == [Columns -> Cells]

\* Every statement on one model needs some part of its key: an assertion of
\* wherePrimaryKeySQLWithModel ends the program otherwise.
IsModel(m) ==
    /\ m \in [Columns -> Values \cup {Nil}]
    /\ \E k \in KeyColumns : m[k] # Nil

\* A conflict on the primary key: NULL is equal to nothing.
SameKey(r, s) == \A k \in KeyColumns : r[k] # Nil /\ r[k] = s[k]

\* MUTANT: the conditions on the key parts are joined by "or".
Matching_Or(rows, m) == {r \in rows : \E k \in KeyColumns : m[k] # Nil /\ r[k] = m[k]}

\* wherePrimaryKeySQLWithModel: the parts of the key that are not nil.
Matching(rows, m) == {r \in rows : \A k \in KeyColumns : m[k] # Nil => r[k] = m[k]}

\* MUTANT: a property that is nil is archived too.
RowOf_ArchivesNil(m, cols) ==
    [c \in Columns |->
        IF cols = {} THEN IF c \in BlobColumns THEN Archived(m[c]) ELSE m[c]
                     ELSE IF c \in cols THEN m[c] ELSE Nil]

\* createInsertSQLWithColumns: without columns, every property, archived if
\* need be; with columns, the properties named, as they are.
RowOf(m, cols) ==
    [c \in Columns |->
        IF cols = {} THEN IF c \in BlobColumns /\ m[c] # Nil THEN Archived(m[c]) ELSE m[c]
                     ELSE IF c \in cols THEN m[c] ELSE Nil]

\* "insert or ignore" and "insert or replace"; no statement without a value.
Inserted(rows, m, cols, replace) ==
    LET r     == RowOf(m, cols)
        clash == {s \in rows : SameKey(s, r)}
    IN  IF (\A c \in Columns : r[c] = Nil) \/ (clash # {} /\ ~replace)
          THEN rows ELSE (rows \ clash) \cup {r}

\* The columns an update sets: those named, or the ones outside the key whose
\* property is not nil.
Sets(m, cols) == IF cols = {} THEN {c \in Columns \ KeyColumns : m[c] # Nil} ELSE cols

\* A named column whose property is nil raises an exception (addObject:nil).
Raises(m, cols) == \E c \in cols : m[c] = Nil

\* createUpdateSQLWithModelAndTableName, where:nil.  The archive it makes of an
\* object is dropped: the object itself is bound.
Updated(rows, m, cols) ==
    {IF r \in Matching(rows, m)
       THEN [c \in Columns |-> IF c \in Sets(m, cols) THEN m[c] ELSE r[c]]
       ELSE r : r \in rows}

\* createDeleteSQLWithModelAndTableName, where:nil.
Deleted(rows, m) == rows \ Matching(rows, m)

\* A model saved with update:YES, in one go.  An insert may be restricted to
\* other columns than the update.
Saved(rows, m, cols, insertCols) ==
    IF Matching(rows, m) # {} THEN Updated(rows, m, cols)
                              ELSE Inserted(rows, m, insertCols, FALSE)

\* Arrays of models, the statement of one after that of the other.
InTurn(stmt, rows, ms) ==
    LET after[i \in 0..Len(ms)] == IF i = 0 THEN rows ELSE stmt[ms[i]][after[i - 1]]
    IN  after[Len(ms)]

InsertedAll(rows, ms, cols, replace) ==
    InTurn([m \in Range(ms) |-> [x \in SUBSET Rows |-> Inserted(x, m, cols, replace)]], rows, ms)
SavedAll(rows, ms, cols) ==
    InTurn([m \in Range(ms) |-> [x \in SUBSET Rows |-> Saved(x, m, cols, cols)]], rows, ms)
UpdatedAll(rows, ms, cols) ==
    InTurn([m \in Range(ms) |-> [x \in SUBSET Rows |-> Updated(x, m, cols)]], rows, ms)
=============================================================================
