----------------------------- MODULE ModelStore -----------------------------
(***************************************************************************)
(* The writing calls of NBDataBase.m on the tables made for one model      *)
(* class, from several threads, while the database is open (DBSession is   *)
(* about opening it).  A block on the FMDatabaseQueue and a transaction    *)
(* are one step each.  A single model saved with update:YES takes two: the *)
(* query whether its row exists, and then the update or the insert; other  *)
(* threads run their blocks between them.                                  *)
(***************************************************************************)
EXTENDS Records

CONSTANTS
    Threads,
    Tables,       \* the names of the tables made for the model class
    ClassTable,   \* the one that getTableName answers
    NoTable,      \* a table that does not exist
    ModelsOf,     \* the models each thread stores
    ColumnLists,  \* the columns: arguments the program uses; {} is nil
    BatchTables,  \* the tables to which it saves arrays of several models
    Removals,     \* the kinds of removal it uses
    QuietOnly,    \* whole tables are removed only while no save is at work
    NoCall

Models == UNION {ModelsOf[t] : t \in Threads}
Calls  == [table : Tables, model : Models, columns : ColumnLists, creates : BOOLEAN]

ASSUME ModelStoreAssumption ==
    /\ ClassTable \in Tables
    /\ \A m \in Models : IsModel(m)
    /\ ColumnLists \subseteq SUBSET Columns
    /\ BatchTables \subseteq Tables
    /\ Removals \subseteq {"record", "erase", "drop"}
    /\ QuietOnly \in BOOLEAN
    /\ NoCall \notin Calls

VARIABLES
    store,    \* each table: its rows, or NoTable
    call,     \* each thread: the save whose query has run
    found,    \* each thread: what the query answered
    answer    \* each thread: what its last call answered; "void" is no answer

vars == <<store, call, found, answer>>

TypeOK ==
    /\ store \in [Tables -> (SUBSET Rows) \cup {NoTable}]
    /\ call \in [Threads -> Calls \cup {NoCall}]
    /\ found \in [Threads -> BOOLEAN]
    /\ answer \in [Threads -> {"yes", "no", "raised", "void"}]

\* updateTableInDB has made the class table, or the class is not registered.
Init ==
    /\ store \in {[T \in Tables |-> IF T = ClassTable THEN x ELSE NoTable] : x \in {NoTable, {}}}
    /\ call = [t \in Threads |-> NoCall]
    /\ found = [t \in Threads |-> FALSE]
    /\ answer = [t \in Threads |-> "void"]

Exists(T) == store[T] # NoTable

\* createTableIfNotExists:tableClass:tableName:
Created(T) == IF Exists(T) THEN store[T] ELSE {}

\* A call ends: what it answers, and the rows of the one table it wrote.
Return(t, a) ==
    /\ answer' = [answer EXCEPT ![t] = a]
    /\ call' = [call EXCEPT ![t] = NoCall]
    /\ found' = [found EXCEPT ![t] = FALSE]

Becomes(T, rows) == store' = [store EXCEPT ![T] = rows]

\* A statement on a table that is missing fails.
Write(t, T, rows, done) ==
    IF Exists(T) THEN Becomes(T, rows) /\ Return(t, done)
                 ELSE UNCHANGED store /\ Return(t, IF done = "void" THEN done ELSE "no")

-----------------------------------------------------------------------------
(* Inserts: insertToDBWithModel:, insertToDBWithDataArray: *)

\* ...replace:, into the class table.
Insert(t, m, replace) ==
    /\ call[t] = NoCall
    /\ Write(t, ClassTable, Inserted(Created(ClassTable), m, {}, replace), "yes")

\* ...tableName:replace:
InsertNamed(t, T, m, replace) ==
    /\ call[t] = NoCall
    /\ Becomes(T, Inserted(Created(T), m, {}, replace))
    /\ Return(t, "yes")

\* ...table:replace:
InsertArray(t, ms, replace) ==
    /\ call[t] = NoCall
    /\ Write(t, ClassTable, InsertedAll(Created(ClassTable), ms, {}, replace), "void")

\* ...tableName:replace: of several.
InsertArrayNamed(t, T, ms, replace) ==
    /\ call[t] = NoCall
    /\ Becomes(T, InsertedAll(Created(T), ms, {}, replace))
    /\ Return(t, "void")

\* ...tableName:columns:replace:
InsertArrayColumns(t, T, ms, cols, replace) ==
    /\ call[t] = NoCall
    /\ Becomes(T, InsertedAll(Created(T), ms, cols, replace))
    /\ Return(t, "void")

-----------------------------------------------------------------------------
(* Saves: the same with update:YES *)

\* MUTANT: the query has no condition on the key.
IsExists_AnyRow(T, m) == Exists(T) /\ store[T] # {}

\* isExistsWithModel:tableName:  A query that fails finds nothing.
IsExists(T, m) == Exists(T) /\ Matching(store[T], m) # {}

\* The first block.  Only the calls that name a table create it.
SaveQuery(t, T, m, cols, creates) ==
    /\ call[t] = NoCall
    /\ creates \/ T = ClassTable
    /\ call' = [call EXCEPT ![t] = [table |-> T, model |-> m, columns |-> cols, creates |-> creates]]
    /\ found' = [found EXCEPT ![t] = IsExists(T, m)]
    /\ UNCHANGED <<store, answer>>

\* The second block, when the row was there.  The statement is built before
\* the block: an exception reaches the caller.
SaveUpdate(t) ==
    LET c == call[t]
    IN  /\ c # NoCall /\ found[t]
        /\ CASE Raises(c.model, c.columns)    -> UNCHANGED store /\ Return(t, "raised")
             [] Sets(c.model, c.columns) = {} -> UNCHANGED store /\ Return(t, "no")
             [] OTHER -> Write(t, c.table, Updated(Created(c.table), c.model, c.columns), "yes")

\* The second block, when it was not: an insert of the whole model, which
\* ignores a row that appeared meanwhile and answers YES all the same.
SaveInsert(t) ==
    LET c    == call[t]
        rows == Inserted(Created(c.table), c.model, {}, FALSE)
    IN  /\ c # NoCall /\ ~found[t]
        /\ IF c.creates THEN Becomes(c.table, rows) /\ Return(t, "yes")
                        ELSE Write(t, c.table, rows, "yes")

\* An exception inside a block on the queue ends the program: a client that
\* names a nil column of a row that exists is left out.
Survives(ms, cols) == \A i \in DOMAIN ms : ~Raises(ms[i], cols)

\* One model, in one block.
SaveArrayOfOne(t, T, m, cols) ==
    /\ call[t] = NoCall /\ Survives(<<m>>, cols)
    /\ Becomes(T, SavedAll(Created(T), <<m>>, cols))
    /\ Return(t, "void")

\* Several, in a transaction.  The table named is created, and the statements
\* are about the class table.
SaveArray(t, T, ms, cols) ==
    /\ call[t] = NoCall /\ Survives(ms, cols)
    /\ LET made == [store EXCEPT ![T] = Created(T)]
       IN  store' = IF made[ClassTable] = NoTable THEN made
                    ELSE [made EXCEPT ![ClassTable] = SavedAll(@, ms, cols)]
    /\ Return(t, "void")

-----------------------------------------------------------------------------
(* Updates and removals *)

\* updateWithModel:tableName:set:where:nil
Update(t, T, m, cols) ==
    /\ call[t] = NoCall /\ Survives(<<m>>, cols)
    /\ IF Sets(m, cols) = {} THEN UNCHANGED store /\ Return(t, "no")
       ELSE Write(t, T, Updated(Created(T), m, cols), "yes")

\* updateWithDataArray:tableName:set:
UpdateArray(t, T, ms, cols) ==
    /\ call[t] = NoCall /\ Survives(ms, cols)
    /\ Write(t, T, UpdatedAll(Created(T), ms, cols), "void")

\* deleteRecordWithModel:tableName:
DeleteRecord(t, T, m) ==
    /\ call[t] = NoCall /\ "record" \in Removals
    /\ Write(t, T, Deleted(Created(T), m), "yes")

\* When the program erases or drops a whole table.
MayRemoveTable == QuietOnly => \A u \in Threads : call[u] = NoCall

\* eraseTableName:
EraseTable(t, T) ==
    /\ call[t] = NoCall /\ "erase" \in Removals /\ MayRemoveTable
    /\ Write(t, T, {}, "yes")

\* deleteTableName:
DeleteTable(t, T) ==
    /\ call[t] = NoCall /\ "drop" \in Removals /\ MayRemoveTable
    /\ Write(t, T, NoTable, "yes")

-----------------------------------------------------------------------------
\* Arrays of several models with different keys.
Several(t) == {ms \in ModelsOf[t] \X ModelsOf[t] : \E k \in KeyColumns : ms[1][k] # ms[2][k]}
Arrays(t)  == {<<m>> : m \in ModelsOf[t]} \cup Several(t)

Inserts(t) ==
    \E replace \in BOOLEAN :
      \/ \E m \in ModelsOf[t] :
           Insert(t, m, replace) \/ \E T \in Tables : InsertNamed(t, T, m, replace)
      \/ \E ms \in Arrays(t) : InsertArray(t, ms, replace)
      \/ \E T \in Tables :
           \/ \E ms \in Several(t) : InsertArrayNamed(t, T, ms, replace)
           \/ \E ms \in Arrays(t), cols \in ColumnLists : InsertArrayColumns(t, T, ms, cols, replace)

Saves(t) ==
    \/ \E T \in Tables, m \in ModelsOf[t], cols \in ColumnLists :
         \/ \E creates \in BOOLEAN : SaveQuery(t, T, m, cols, creates)
         \/ SaveArrayOfOne(t, T, m, cols)
    \/ SaveUpdate(t)
    \/ SaveInsert(t)
    \/ \E T \in BatchTables, ms \in Several(t), cols \in ColumnLists : SaveArray(t, T, ms, cols)

Changes(t) ==
    \E T \in Tables :
      \/ \E m \in ModelsOf[t] : DeleteRecord(t, T, m) \/ \E cols \in ColumnLists : Update(t, T, m, cols)
      \/ \E ms \in Several(t), cols \in ColumnLists : UpdateArray(t, T, ms, cols)
      \/ EraseTable(t, T)
      \/ DeleteTable(t, T)

Next == \E t \in Threads : Inserts(t) \/ Saves(t) \/ Changes(t)

Spec == Init /\ [][Next]_vars

-----------------------------------------------------------------------------
(* Properties *)

\* The step ends a save of m in table T that did not answer NO.  (Of an array,
\* m is the last.)
SavesModel(t, T, m) ==
    \/ /\ call[t] # NoCall /\ call'[t] = NoCall /\ answer'[t] = "yes"
       /\ call[t].table = T /\ call[t].model = m
    \/ \E cols \in ColumnLists :
         \/ SaveArrayOfOne(t, T, m, cols)
         \/ T \in BatchTables /\ \E ms \in Several(t) : m = ms[2] /\ SaveArray(t, T, ms, cols)

\* The column holds the property of m, archived or not.
Holds(r, m, col) == r[col] \in {m[col], Archived(m[col])}

\* A save that answers YES has stored the model: a new row holds every property;
\* a row that was there holds those that are named, or are not nil and outside
\* the key, and keeps what it held in the other columns.
SaveTakesEffect ==
    [][\A t \in Threads :
         LET c   == call[t]
             was == Matching(Created(c.table), c.model)
         IN  c # NoCall /\ call'[t] = NoCall /\ answer'[t] = "yes" =>
               \E r \in Matching(store'[c.table], c.model) : \A col \in Columns :
                 IF was = {} \/ col \in Sets(c.model, c.columns)
                   THEN Holds(r, c.model, col)
                   ELSE \E s \in was : r[col] = s[col]]_vars

\* NBBaseDBTableModel.h: saveToDBUseUpdate updates all fields.  After a save
\* without columns that answers YES the row holds every property, nil or not.
SavesAllFields ==
    [][\A t \in Threads :
         LET c == call[t]
         IN  c # NoCall /\ c.columns = {} /\ call'[t] = NoCall /\ answer'[t] = "yes" =>
               \E r \in Matching(store'[c.table], c.model) :
                 \A col \in Columns : Holds(r, c.model, col)]_vars

\* NBDataBase.h: insertToDBWithDataArray:tableName: inserts records into the
\* table that is named.  A saved model is found there by its key.
SaveIsFound ==
    [][\A t \in Threads, T \in Tables, m \in Models :
         SavesModel(t, T, m) => Exists(T)' /\ Matching(store'[T], m) # {}]_vars

\* Whatever saves, inserts and updates of whole models interleave, a row is one
\* of the models that were stored, never the columns of two.
RowsAreModels ==
    \A T \in Tables : Exists(T) =>
      \A r \in store[T] : \E m \in Models : \A c \in Columns : r[c] \in {m[c], Archived(m[c])}

\* To delete a record by its model is to delete at most that one.
DeletesOneRecord ==
    [][\A t \in Threads, T \in Tables, m \in Models :
         Exists(T) /\ DeleteRecord(t, T, m) => \E r \in Rows : store[T] \subseteq store'[T] \cup {r}]_vars

\* Each call is one step of AtomicStore, the two blocks of a save included: it
\* updates the row that exists when it writes, inserts it otherwise, and
\* answers YES only if it did (threads that write disjoint sets of keys).
Atomic == INSTANCE AtomicStore WITH store <- store, call <- call, answer <- answer
CallsAreAtomic == Atomic!Spec
=============================================================================
