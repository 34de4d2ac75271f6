----------------------------- MODULE TableSchema -----------------------------
(***************************************************************************)
(* The schema migration of NBDataBase.m over the life of a database file:  *)
(* updateTableInDB, which openDB runs for the registered classes and which *)
(* a program may also call, createTable:tableNames:, the tables that       *)
(* inserting by the name of a table makes, and deleteTableName:.           *)
(*                                                                         *)
(* Each of the first two is one exclusive transaction that visits a list   *)
(* of classes and tables.  Its statements may fail one by one, nobody      *)
(* looks at their results, and what succeeded is committed; if the program *)
(* stops first, nothing is.  A table is its columns and its primary key.   *)
(***************************************************************************)
EXTENDS Names, Integers

CONSTANTS
    Versions,    \* of the program, as numbers in the order of the releases
    Classes,     \* the model classes
    ClassName,   \* their names
    Fields,      \* their stored properties in each version
    Dynamic,     \* for each class, tables the program makes besides its own
    NoTable

\* The table of each class: getTableName.
TableOf == [c \in Classes |-> DefaultTableName(ClassName[c])]

Tables == {TableOf[c] : c \in Classes} \cup UNION {Dynamic[c] : c \in Classes}

Columns == {f.column : f \in UNION {Fields[v][c] : v \in Versions, c \in Classes}}

\* A property has a column; typed says that there is a column type for it, and
\* key that its name has the primary key mark.
Field == [column : Columns, typed : BOOLEAN, key : BOOLEAN]

ASSUME TableSchemaAssumption ==
    /\ Versions \subseteq Nat /\ Versions # {}
    /\ Fields \in [Versions -> [Classes -> SUBSET Field]]
    /\ \A v \in Versions, c \in Classes :
         \A f \in Fields[v][c] : f.key => f.typed
    /\ \A c \in Classes : Dynamic[c] \cap {TableOf[d] : d \in Classes} = {}
    /\ NoTable \notin [cols : SUBSET Columns, key : SUBSET Columns]

VARIABLES
    disk,         \* the tables in the file
    work,         \* the tables as the open transaction sees them, if one is
    saved,        \* cacheVersion in the user defaults; 0 is none
    version,      \* this process: its version
    registered,   \* and the classes it has registered, in order
    pc,
    request,      \* the classes and tables of the open transaction
    at,           \* the one it is at
    missing,      \* the columns it has still to add to that one's table
    failed,       \* those of which a statement of the last transaction has failed
    asked         \* history: what the last transaction was to serve, except
                  \* for tables that were dropped or made for another class since

vars == <<disk, work, saved, version, registered, pc, request, at, missing, failed, asked>>

Passes == {"opening", "updating", "creating"}
Labels == Passes \cup {"down", "configured", "save", "opened"}
Table  == [cols : SUBSET Columns, key : SUBSET Columns]
Pair   == [class : Classes, table : Tables]

TypeOK ==
    /\ disk \in [Tables -> Table \cup {NoTable}]
    /\ work \in [Tables -> Table \cup {NoTable}]
    /\ saved \in Versions \cup {0}
    /\ version \in Versions
    /\ registered \in Seq(Classes)
    /\ pc \in Labels
    /\ request \in Seq(Pair)
    /\ at \in 1..(Len(request) + 1)
    /\ missing \subseteq Columns
    /\ missing # {} => pc \in Passes /\ at <= Len(request)
    /\ failed \subseteq Pair
    /\ asked \subseteq Pair

-----------------------------------------------------------------------------
(* The columns of a class, as the different statements see them *)

Typed(c) == {f \in Fields[version][c] : f.typed}

\* The columns updateTableInDB gives a table.
ColumnsOf(c) == {f.column : f \in Typed(c)}

\* The columns an insert of a model names, whatever their type.
InsertColumns(c) == {f.column : f \in Fields[version][c]}

\* createTableSQLWithTableName
Made(v, c) == [cols |-> {f.column : f \in {g \in Fields[v][c] : g.typed}},
               key  |-> {f.column : f \in {g \in Fields[v][c] : g.key}}]
NewTable(c) == Made(version, c)

\* The tables the program stores models of a class in.
TablesFor(c) == {TableOf[c]} \cup Dynamic[c]

-----------------------------------------------------------------------------
Init ==
    /\ disk = [t \in Tables |-> NoTable]
    /\ work = disk
    /\ saved = 0
    /\ version \in {v \in Versions : \A w \in Versions : v <= w}
    /\ registered = <<>>
    /\ pc = "down"
    /\ request = <<>> /\ at = 1 /\ missing = {} /\ failed = {} /\ asked = {}

Launch(v) ==
    /\ pc = "down" /\ v >= version
    /\ version' = v
    /\ pc' = "configured"
    /\ UNCHANGED <<disk, work, saved, registered, request, at, missing, failed, asked>>

\* addRegisteClass: from any thread, whatever the database does.
Register(c) ==
    /\ pc # "down"
    /\ c \notin Range(registered)
    /\ registered' = Append(registered, c)
    /\ UNCHANGED <<disk, work, saved, version, pc, request, at, missing, failed, asked>>

\* A transaction starts on a list of classes and tables.
Begin(pairs, pass) ==
    /\ request' = pairs
    /\ pc' = pass
    /\ failed' = {}
    /\ asked' = Range(pairs)
    /\ UNCHANGED <<disk, work, saved, version, registered, at, missing>>

RegisteredTables ==
    [i \in DOMAIN registered |-> [class |-> registered[i], table |-> TableOf[registered[i]]]]

\* openDB, which runs updateTableInDB; later a program may call it itself.
OpenDB          == pc = "configured" /\ Begin(RegisteredTables, "opening")
UpdateTableInDB == pc = "opened" /\ Begin(RegisteredTables, "updating")

\* createTable:tableNames:
CreateTables(c, names) ==
    /\ pc = "opened"
    /\ Begin([i \in DOMAIN names |-> [class |-> c, table |-> names[i]]], "creating")

Visiting == pc \in Passes /\ at <= Len(request) /\ missing = {}
Here     == request[at]

\* The array of registered classes must not grow while it is enumerated.
Mutated == pc \in {"opening", "updating"} /\ Len(registered) # Len(request)

\* A table that is missing is made, under the class's own name.
Create ==
    /\ Visiting /\ ~Mutated
    /\ work[Here.table] = NoTable
    /\ LET t == TableOf[Here.class]
       IN  work' = [work EXCEPT ![t] = IF @ = NoTable THEN NewTable(Here.class) ELSE @]
    /\ at' = at + 1
    /\ UNCHANGED <<disk, saved, version, registered, pc, request, missing, failed, asked>>

CreateFails ==
    /\ Visiting /\ ~Mutated
    /\ work[Here.table] = NoTable
    /\ failed' = failed \cup {Here}
    /\ at' = at + 1
    /\ UNCHANGED <<disk, work, saved, version, registered, pc, request, missing, asked>>

\* MUTANT: the next table is compared before the columns of this one are added.
Compare_MovesOn ==
    /\ Visiting /\ ~Mutated
    /\ work[Here.table] # NoTable
    /\ missing' = ColumnsOf(Here.class) \ work[Here.table].cols
    /\ at' = at + 1
    /\ UNCHANGED <<disk, work, saved, version, registered, pc, request, failed, asked>>

\* MUTANT: a table is compared only if the version is not the one saved.
Compare_NewVersion ==
    /\ Visiting /\ ~Mutated
    /\ work[Here.table] # NoTable
    /\ missing' = IF saved = version THEN {} ELSE ColumnsOf(Here.class) \ work[Here.table].cols
    /\ at' = IF missing' = {} THEN at + 1 ELSE at
    /\ UNCHANGED <<disk, work, saved, version, registered, pc, request, failed, asked>>

\* One that is there is compared with the class.
Compare ==
    /\ Visiting /\ ~Mutated
    /\ work[Here.table] # NoTable
    /\ missing' = ColumnsOf(Here.class) \ work[Here.table].cols
    /\ at' = IF missing' = {} THEN at + 1 ELSE at
    /\ UNCHANGED <<disk, work, saved, version, registered, pc, request, failed, asked>>

\* ALTER TABLE, for the missing columns in the order of a dictionary.
AfterColumn(col) ==
    /\ missing' = missing \ {col}
    /\ at' = IF missing' = {} THEN at + 1 ELSE at

\* MUTANT: the table is made anew with the columns of the class.
AddColumn_Rebuilds(col) ==
    /\ pc \in Passes /\ col \in missing
    /\ work' = [work EXCEPT ![Here.table] = NewTable(Here.class)]
    /\ AfterColumn(col)
    /\ UNCHANGED <<disk, saved, version, registered, pc, request, failed, asked>>

AddColumn(col) ==
    /\ pc \in Passes /\ col \in missing
    /\ work' = [work EXCEPT ![Here.table].cols = @ \cup {col}]
    /\ AfterColumn(col)
    /\ UNCHANGED <<disk, saved, version, registered, pc, request, failed, asked>>

AddColumnFails(col) ==
    /\ pc \in Passes /\ col \in missing
    /\ failed' = failed \cup {Here}
    /\ AfterColumn(col)
    /\ UNCHANGED <<disk, work, saved, version, registered, pc, request, asked>>

\* MUTANT: the work is written down and the transaction goes on.
Commit_Early ==
    /\ pc \in Passes
    /\ disk' = work
    /\ IF at > Len(request)
         THEN pc' = (IF pc = "opening" THEN "save" ELSE "opened") /\ request' = <<>> /\ at' = 1
         ELSE UNCHANGED <<pc, request, at>>
    /\ UNCHANGED <<work, saved, version, registered, missing, failed, asked>>

\* A class registered meanwhile may go unnoticed at the end of the array.
Commit ==
    /\ pc \in Passes /\ at > Len(request)
    /\ disk' = work
    /\ pc' = IF pc = "opening" THEN "save" ELSE "opened"
    /\ request' = <<>> /\ at' = 1
    /\ UNCHANGED <<work, saved, version, registered, missing, failed, asked>>

\* MUTANT: the version is saved before the transaction commits.
SaveVersionToLocal_First ==
    /\ pc \in {"opening", "save"}
    /\ saved' = version
    /\ pc' = IF pc = "save" THEN "opened" ELSE pc
    /\ UNCHANGED <<disk, work, version, registered, request, at, missing, failed, asked>>

SaveVersionToLocal ==
    /\ pc = "save"
    /\ saved' = version
    /\ pc' = "opened"
    /\ UNCHANGED <<disk, work, version, registered, request, at, missing, failed, asked>>

\* createTableIfNotExists:tableClass:tableName:, in the block of an insert that
\* names its table.
CreateTableIfNotExists(c, t) ==
    /\ pc = "opened"
    /\ disk[t] = NoTable
    /\ disk' = [disk EXCEPT ![t] = NewTable(c)]
    /\ work' = disk'
    /\ asked' = {p \in asked : p.table = t => p.class = c}
    /\ UNCHANGED <<saved, version, registered, pc, request, at, missing, failed>>

\* deleteTableName:
DeleteTable(t) ==
    /\ pc = "opened"
    /\ disk[t] # NoTable
    /\ disk' = [disk EXCEPT ![t] = NoTable]
    /\ work' = disk'
    /\ asked' = {p \in asked : p.table # t}
    /\ UNCHANGED <<saved, version, registered, pc, request, at, missing, failed>>

\* The process ends, at any point: the transaction is rolled back.  It also
\* ends if the enumeration finds that the array has changed.
Exit ==
    /\ pc # "down"
    /\ pc' = "down"
    /\ work' = disk
    /\ registered' = <<>>
    /\ request' = <<>> /\ at' = 1 /\ missing' = {} /\ failed' = {} /\ asked' = {}
    /\ UNCHANGED <<disk, saved, version>>

UpdatePass ==
    \/ Create \/ CreateFails \/ Compare
    \/ \E col \in missing : AddColumn(col) \/ AddColumnFails(col)
    \/ Commit \/ SaveVersionToLocal

\* Lists of one table and of two.
NameLists(c) == {<<t>> : t \in TablesFor(c)} \cup {<<t, u>> : t, u \in TablesFor(c)}

Next ==
    \/ \E v \in Versions : Launch(v)
    \/ \E c \in Classes : Register(c)
    \/ OpenDB \/ UpdateTableInDB
    \/ \E c \in Classes : \E names \in NameLists(c) : CreateTables(c, names)
    \/ UpdatePass
    \/ \E c \in Classes : \E t \in TablesFor(c) : CreateTableIfNotExists(c, t)
    \/ \E t \in Tables : DeleteTable(t)
    \/ Exit

Spec == Init /\ [][Next]_vars

-----------------------------------------------------------------------------
(* Properties *)

\* When the transaction of a request has committed, a model of each class asked
\* for, no statement of which has failed, can be inserted into the table it was
\* asked for: whatever earlier versions, failures and requests, and other classes
\* of the same table, left behind.  Except for three cases.  A class with a
\* property of a type that has no column type can be inserted nowhere.  A named
\* table that was missing is not made (the class's own is), and another class that
\* is then inserted into it makes it with other columns.
Storable(c, t) == disk[t] # NoTable /\ InsertColumns(c) \subseteq disk[t].cols

RequestServed ==
    pc \in {"save", "opened"} =>
      \A p \in asked \ failed :
        /\ p.table = TableOf[p.class] => disk[p.table] # NoTable
        /\ disk[p.table] # NoTable /\ (\A f \in Fields[version][p.class] : f.typed)
             => Storable(p.class, p.table)

\* Whatever migrates, fails or stops, a table loses a column, its key or its
\* existence only by deleteTableName:.
Extends(old, new) ==
    \A t \in Tables : old[t] # NoTable =>
      new[t] # NoTable /\ old[t].cols \subseteq new[t].cols /\ old[t].key = new[t].key

OnlyDeleteShrinks == [][~Extends(disk, disk') => \E t \in Tables : DeleteTable(t)]_vars

\* A new version is saved when the file has its tables, never before: for each
\* class that was registered when openDB began its pass, the table with the
\* columns of this version, unless a statement about that class has failed.
\* (Then nobody notices, and the version is saved without them.)
VersionSavedLast ==
    [][saved' # saved =>
         \A p \in asked \ failed :
           disk[p.table] # NoTable /\ ColumnsOf(p.class) \subseteq disk[p.table].cols]_vars

\* The migration is one step of Catalog, whole or abandoned, for all the
\* classes together.
Status == IF pc \in Passes THEN "pending" ELSE IF pc \in {"save", "opened"} THEN "served" ELSE "idle"

Promised == INSTANCE Catalog WITH
    tables <- disk, request <- asked, status <- Status, broken <- failed, Names <- TablesFor

UpdatesAreAtomic == Promised!Spec
=============================================================================
