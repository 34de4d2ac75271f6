------------------------- MODULE TableSchemaProofs -------------------------
(***************************************************************************)
(* What the schema migration keeps for any versions, classes and tables,   *)
(* whatever statements fail and wherever the program stops.                *)
(***************************************************************************)
EXTENDS TableSchema, TLAPS

\* A transaction is closed, or has columns to add only to a table that is there.
AtTable ==
    /\ pc \notin Passes => request = <<>> /\ at = 1
    /\ missing # {} => work[Here.table] # NoTable

\* Outside of a transaction its view is the file, in one it has grown.
WorkExtends == Extends(disk, work) /\ (pc \notin Passes => work = disk)

SchemaInv == TypeOK /\ AtTable /\ WorkExtends

-----------------------------------------------------------------------------
\* A class's own table is a table.
LEMMA TableOfClass == \A c \in Classes : TableOf[c] \in Tables
  BY DEF TableOf, Tables

\* So are the others it is stored in.
LEMMA TablesOfClass == \A c \in Classes : TablesFor(c) \subseteq Tables
  BY DEF TableOf, Tables, TablesFor

\* The columns of a class are columns.
LEMMA ClassColumns ==
    ASSUME version \in Versions, NEW c \in Classes
    PROVE  NewTable(c) \in Table /\ ColumnsOf(c) \subseteq Columns
<1>1. Fields[version][c] \subseteq Field
  BY TableSchemaAssumption
<1>2. \A f \in Fields[version][c] : f.column \in Columns
  BY <1>1 DEF Field
<1> QED BY <1>2 DEF NewTable, Made, Table, ColumnsOf, Typed

\* What updateTableInDB enumerates is a request.
LEMMA RegisteredRequest ==
    ASSUME registered \in Seq(Classes)
    PROVE  RegisteredTables \in Seq(Pair)
<1>1. \A i \in 1..Len(registered) : RegisteredTables[i] \in Pair
  BY TableOfClass DEF RegisteredTables, Pair
<1>2. Len(registered) \in Nat /\ DOMAIN registered = 1..Len(registered)
  OBVIOUS
<1>3. RegisteredTables = [i \in 1..Len(registered) |-> RegisteredTables[i]]
  BY <1>2 DEF RegisteredTables
<1> QED BY <1>1, <1>2, <1>3

\* So is what createTable:tableNames: enumerates.
LEMMA CreateRequest ==
    ASSUME NEW c \in Classes, NEW names \in NameLists(c)
    PROVE  [i \in DOMAIN names |-> [class |-> c, table |-> names[i]]] \in Seq(Pair)
<1>1. \A t \in TablesFor(c) : t \in Tables
  BY TablesOfClass
<1>2. CASE \E t \in TablesFor(c) : names = <<t>>
  BY <1>1, <1>2 DEF Pair
<1>3. CASE \E t, u \in TablesFor(c) : names = <<t, u>>
  BY <1>1, <1>3 DEF Pair
<1> QED BY <1>2, <1>3 DEF NameLists

\* A process that has not started has no transaction open.
LEMMA InitHolds == Init => SchemaInv
<1> SUFFICES ASSUME Init PROVE SchemaInv OBVIOUS
<1>1. request \in Seq(Pair) /\ at \in 1..(Len(request) + 1)
  BY DEF Init
<1>2. disk \in [Tables -> Table \cup {NoTable}] /\ registered \in Seq(Classes)
  BY DEF Init
<1>3. TypeOK
  BY <1>1, <1>2 DEF Init, TypeOK, Labels
<1> QED BY <1>3 DEF Init, SchemaInv, AtTable, WorkExtends, Extends, Passes

-----------------------------------------------------------------------------
(* One lemma for each action. *)

\* A launch touches no table.
LEMMA LaunchKeeps ==
    ASSUME SchemaInv, NEW v \in Versions, Launch(v)
    PROVE  SchemaInv'
<1>1. TypeOK'
  BY DEF SchemaInv, Launch, TypeOK, Labels, Passes
<1> QED BY <1>1 DEF SchemaInv, Launch, AtTable, WorkExtends, Extends, Passes, Here

\* Registering touches no table, in or out of a transaction.
LEMMA RegisterKeeps ==
    ASSUME SchemaInv, NEW c \in Classes, Register(c)
    PROVE  SchemaInv'
<1>1. TypeOK'
  BY DEF SchemaInv, Register, TypeOK
<1> QED BY <1>1 DEF SchemaInv, Register, AtTable, WorkExtends, Extends, Here

\* A transaction begins with the view of the file.
LEMMA BeginKeeps ==
    ASSUME SchemaInv, NEW pairs \in Seq(Pair), NEW pass \in Passes, Begin(pairs, pass),
           pc \notin Passes
    PROVE  SchemaInv'
<1>1. asked' \subseteq Pair
  BY DEF Begin, Range
<1>2. missing = {} /\ at = 1 /\ 1 \in 1..(Len(pairs) + 1)
  BY DEF SchemaInv, TypeOK, AtTable
<1>3. TypeOK'
  BY <1>1, <1>2 DEF SchemaInv, Begin, TypeOK, Labels
<1> QED BY <1>2, <1>3 DEF SchemaInv, Begin, AtTable, WorkExtends, Extends, Here

\* A table is made only where there was none.
LEMMA CreateKeeps == ASSUME SchemaInv, Create PROVE SchemaInv'
<1>1. Here \in Pair
  BY DEF SchemaInv, Create, Visiting, Here, AtTable, TypeOK
<1>2. NewTable(Here.class) \in Table /\ TableOf[Here.class] \in Tables
  BY <1>1, ClassColumns, TableOfClass DEF Pair, SchemaInv, TypeOK
<1>3. at' \in 1..(Len(request') + 1) /\ missing' = {}
  BY DEF SchemaInv, Create, Visiting, TypeOK
<1>4. TypeOK' /\ AtTable'
  BY <1>2, <1>3 DEF SchemaInv, Create, Visiting, TypeOK, AtTable
<1>5. WorkExtends'
  BY <1>2 DEF SchemaInv, Create, Visiting, WorkExtends, Extends, TypeOK
<1> QED BY <1>4, <1>5 DEF SchemaInv

\* A failed CREATE TABLE leaves the view alone.
LEMMA CreateFailsKeeps == ASSUME SchemaInv, CreateFails PROVE SchemaInv'
  BY DEF SchemaInv, CreateFails, Visiting, Here, TypeOK, AtTable, WorkExtends, Extends

\* What a comparison finds missing belongs to a table that is there.
LEMMA CompareKeeps == ASSUME SchemaInv, Compare PROVE SchemaInv'
<1>1. Here \in Pair
  BY DEF SchemaInv, Compare, Visiting, Here, AtTable, TypeOK
<1>2. missing' \subseteq Columns
  BY <1>1, ClassColumns DEF Compare, Pair, SchemaInv, TypeOK
<1>3. TypeOK'
  <2>1. at' \in 1..(Len(request') + 1) /\ (missing' # {} => at' <= Len(request'))
    BY DEF SchemaInv, Compare, Visiting, TypeOK
  <2> QED BY <1>2, <2>1 DEF SchemaInv, Compare, Visiting, TypeOK
<1>4. AtTable'
  BY DEF SchemaInv, Compare, Visiting, AtTable, Here
<1> QED BY <1>3, <1>4 DEF SchemaInv, Compare, WorkExtends, Extends

\* A table that gets a column stays a table, with its columns and its key.
LEMMA AddColumnKeeps ==
    ASSUME SchemaInv, NEW col \in missing, AddColumn(col)
    PROVE  SchemaInv'
<1>1. Here \in Pair /\ col \in Columns /\ work[Here.table] # NoTable
  BY DEF SchemaInv, AddColumn, Here, AtTable, TypeOK
<1>2. work[Here.table] \in Table /\ Here.table \in Tables
  BY <1>1 DEF SchemaInv, TypeOK, Pair
<1> DEFINE new == [work[Here.table] EXCEPT !.cols = @ \cup {col}]
<1>3. /\ new \in Table /\ new # NoTable /\ new.key = work[Here.table].key
      /\ work[Here.table].cols \subseteq new.cols
  BY <1>1, <1>2, TableSchemaAssumption DEF Table
<1>4. work' = [work EXCEPT ![Here.table] = new]
  BY <1>2 DEF AddColumn, SchemaInv, TypeOK
<1> HIDE DEF new
<1>5. TypeOK'
  <2>1. work' \in [Tables -> Table \cup {NoTable}]
    BY <1>3, <1>4 DEF SchemaInv, TypeOK
  <2>2. /\ at' \in 1..(Len(request') + 1) /\ missing' \subseteq Columns
        /\ missing' # {} => at' <= Len(request')
    BY DEF SchemaInv, AddColumn, AfterColumn, TypeOK
  <2> QED BY <2>1, <2>2 DEF SchemaInv, AddColumn, TypeOK
<1>6. AtTable'
  <2>1. missing' # {} => at' = at
    BY DEF AddColumn, AfterColumn
  <2>2. missing' # {} => work'[Here.table] # NoTable
    BY <1>2, <1>3, <1>4 DEF SchemaInv, TypeOK
  <2>3. missing # {} /\ pc \in Passes /\ pc' = pc /\ request' = request
    BY DEF AddColumn
  <2> QED BY <2>1, <2>2, <2>3 DEF SchemaInv, AtTable, Here
<1>7. WorkExtends'
  BY <1>2, <1>3, <1>4 DEF SchemaInv, AddColumn, WorkExtends, Extends, TypeOK
<1> QED BY <1>5, <1>6, <1>7 DEF SchemaInv

\* A failed ALTER TABLE leaves the view alone.
LEMMA AddColumnFailsKeeps ==
    ASSUME SchemaInv, NEW col \in missing, AddColumnFails(col)
    PROVE  SchemaInv'
  BY DEF SchemaInv, AddColumnFails, AfterColumn, TypeOK, AtTable, WorkExtends, Extends, Here

\* After the commit the file is the view.
LEMMA CommitKeeps == ASSUME SchemaInv, Commit PROVE SchemaInv'
  BY DEF SchemaInv, Commit, TypeOK, AtTable, WorkExtends, Extends, Labels, Passes, Here

\* Saving the version touches no table.
LEMMA SaveKeeps == ASSUME SchemaInv, SaveVersionToLocal PROVE SchemaInv'
  BY DEF SchemaInv, SaveVersionToLocal, TypeOK, AtTable, WorkExtends, Extends, Labels, Passes, Here

\* A table made by an insert changes view and file alike.
LEMMA CreateIfKeeps ==
    ASSUME SchemaInv, NEW c \in Classes, NEW t \in TablesFor(c), CreateTableIfNotExists(c, t)
    PROVE  SchemaInv'
<1>1. NewTable(c) \in Table /\ t \in Tables
  BY ClassColumns, TablesOfClass DEF SchemaInv, TypeOK
<1> QED BY <1>1 DEF SchemaInv, CreateTableIfNotExists, TypeOK, AtTable, WorkExtends, Extends, Passes, Here

\* So does dropping one.
LEMMA DeleteKeeps ==
    ASSUME SchemaInv, NEW t \in Tables, DeleteTable(t)
    PROVE  SchemaInv'
  BY DEF SchemaInv, DeleteTable, TypeOK, AtTable, WorkExtends, Extends, Passes

\* A rollback leaves the file as it was.
LEMMA ExitKeeps == ASSUME SchemaInv, Exit PROVE SchemaInv'
<1>1. request' \in Seq(Pair) /\ at' \in 1..(Len(request') + 1) /\ registered' \in Seq(Classes)
  BY DEF Exit
<1>2. TypeOK'
  BY <1>1 DEF SchemaInv, Exit, TypeOK, Labels
<1> QED BY <1>2 DEF SchemaInv, Exit, AtTable, WorkExtends, Extends, Passes, Here

\* Every step keeps the invariant.
LEMMA StepKeeps == SchemaInv /\ [Next]_vars => SchemaInv'
<1> SUFFICES ASSUME SchemaInv, [Next]_vars PROVE SchemaInv' OBVIOUS
<1>1. CASE \E v \in Versions : Launch(v) BY <1>1, LaunchKeeps
<1>2. CASE \E c \in Classes : Register(c) BY <1>2, RegisterKeeps
<1>3. CASE OpenDB \/ UpdateTableInDB
  <2>1. RegisteredTables \in Seq(Pair)
    BY RegisteredRequest DEF SchemaInv, TypeOK
  <2>2. pc \notin Passes
    BY <1>3 DEF OpenDB, UpdateTableInDB, Passes
  <2>3. Begin(RegisteredTables, "opening") \/ Begin(RegisteredTables, "updating")
    BY <1>3 DEF OpenDB, UpdateTableInDB
  <2> QED BY <2>1, <2>2, <2>3, BeginKeeps DEF Passes
<1>4. CASE \E c \in Classes : \E names \in NameLists(c) : CreateTables(c, names)
  <2>0. PICK c \in Classes : \E names \in NameLists(c) : CreateTables(c, names) BY <1>4
  <2>1. PICK names \in NameLists(c) : CreateTables(c, names) BY <2>0
  <2> DEFINE pairs == [i \in DOMAIN names |-> [class |-> c, table |-> names[i]]]
  <2>2. pairs \in Seq(Pair) BY CreateRequest
  <2>3. Begin(pairs, "creating") /\ pc \notin Passes BY <2>1 DEF CreateTables, Passes
  <2> HIDE DEF pairs
  <2> QED BY <2>2, <2>3, BeginKeeps DEF Passes
<1>5. CASE UpdatePass
  BY <1>5, CreateKeeps, CreateFailsKeeps, CompareKeeps, AddColumnKeeps, AddColumnFailsKeeps,
     CommitKeeps, SaveKeeps DEF UpdatePass
<1>6. CASE \E c \in Classes : \E t \in TablesFor(c) : CreateTableIfNotExists(c, t)
  BY <1>6, CreateIfKeeps
<1>7. CASE \E t \in Tables : DeleteTable(t) BY <1>7, DeleteKeeps
<1>8. CASE Exit BY <1>8, ExitKeeps
<1>9. CASE UNCHANGED vars
  BY <1>9 DEF vars, SchemaInv, TypeOK, AtTable, WorkExtends, Extends, Here
<1> QED BY <1>1, <1>2, <1>3, <1>4, <1>5, <1>6, <1>7, <1>8, <1>9 DEF Next

\* It holds of every reachable state.
LEMMA SchemaInvariant == Spec => []SchemaInv
  BY InitHolds, StepKeeps, PTL DEF Spec

\* Every variable has its type, wherever statements fail and the program stops.
THEOREM TypeCorrect == Spec => []TypeOK
  BY SchemaInvariant, PTL DEF SchemaInv

\* Whatever migrates, fails or stops, a table loses a column, its key or its
\* existence only by deleteTableName:.
THEOREM SchemaOnlyGrows == Spec => OnlyDeleteShrinks
<1>1. ASSUME SchemaInv, [Next]_vars
      PROVE  Extends(disk, disk') \/ \E t \in Tables : DeleteTable(t)
  <2>1. CASE UNCHANGED disk
    BY <2>1 DEF Extends
  <2>2. CASE Commit
    BY <1>1, <2>2 DEF SchemaInv, WorkExtends, Extends, Commit
  <2>3. CASE \E c \in Classes : \E t \in TablesFor(c) : CreateTableIfNotExists(c, t)
    BY <1>1, <2>3, TablesOfClass DEF SchemaInv, TypeOK, Extends, CreateTableIfNotExists
  <2>4. \/ UNCHANGED disk \/ Commit
        \/ (\E c \in Classes : \E t \in TablesFor(c) : CreateTableIfNotExists(c, t))
        \/ (\E t \in Tables : DeleteTable(t))
    BY <1>1 DEF Next, vars, Launch, Register, OpenDB, UpdateTableInDB, Begin, CreateTables, UpdatePass,
       Create, CreateFails, Compare, AddColumn, AddColumnFails, SaveVersionToLocal, Exit
  <2> QED BY <2>1, <2>2, <2>3, <2>4
<1>2. SchemaInv /\ [Next]_vars => [~Extends(disk, disk') => \E t \in Tables : DeleteTable(t)]_vars
  BY <1>1
<1> QED BY <1>2, SchemaInvariant, PTL DEF Spec, OnlyDeleteShrinks

-----------------------------------------------------------------------------
(* What is asked for is served.  A second invariant follows a transaction from
   table to table, and says what it leaves when it has committed. *)

\* In the tables T the table of a pair is there if it is the class's own, and if
\* it is there it has the columns of the class.
Given(p, T) ==
    /\ p.table = TableOf[p.class] => T[p.table] # NoTable
    /\ T[p.table] # NoTable => ColumnsOf(p.class) \subseteq T[p.table].cols

\* A transaction visits what was asked for: tables of the classes, and if openDB
\* asks, each class's own.
Asking ==
    /\ pc \in Passes =>
         /\ asked = {request[i] : i \in 1..Len(request)}
         /\ \A i \in 1..Len(request) : request[i].table \in TablesFor(request[i].class)
    /\ pc \in {"opening", "save"} => \A p \in asked : p.table = TableOf[p.class]

\* What it has left behind is given, unless a statement of it has failed;
GivenBefore ==
    \A i \in 1..Len(request) : i < at => request[i] \in failed \/ Given(request[i], work)

\* the table it is at lacks no column that it does not know to be missing;
RestIsMissing ==
    missing # {} /\ Here \notin failed => ColumnsOf(Here.class) \subseteq work[Here.table].cols \cup missing

\* and in the end everything asked for is given in the file, but for failures.
GivenAll ==
    pc \in {"save", "opened"} => \A p \in asked \ failed : Given(p, disk)

ServedSoFar == Asking /\ GivenBefore /\ RestIsMissing /\ GivenAll

\* A class has the columns it had while the process runs.
LEMMA SameColumns == ASSUME UNCHANGED version, NEW c PROVE ColumnsOf(c)' = ColumnsOf(c)
  BY DEF ColumnsOf, Typed

\* What is given depends on the tables only, while the process runs.
LEMMA SameGiven ==
    ASSUME UNCHANGED version, NEW p
    PROVE  /\ Given(p, work)' <=> Given(p, work')
           /\ Given(p, disk)' <=> Given(p, disk')
  BY DEF Given, ColumnsOf, Typed

\* A class's table and those made by name are different ones.
LEMMA OwnOrNamed ==
    ASSUME NEW c \in Classes, NEW d \in Classes, NEW t \in TablesFor(c), t = TableOf[d]
    PROVE  t = TableOf[c]
<1>1. t \in {TableOf[e] : e \in Classes}
  OBVIOUS
<1>2. t \notin Dynamic[c]
  BY <1>1, TableSchemaAssumption
<1> QED BY <1>2 DEF TablesFor

\* What is given stays given while tables grow, if those that are made are
\* classes' own.
LEMMA StaysGiven ==
    ASSUME NEW p \in Pair, p.table \in TablesFor(p.class), Extends(work, work'), Given(p, work),
           \A t \in Tables : work[t] = NoTable /\ work'[t] # NoTable =>
                               \E c \in Classes : t = TableOf[c]
    PROVE  Given(p, work')
<1>1. p.table \in Tables /\ p.class \in Classes
  BY DEF Pair
<1>2. CASE work[p.table] # NoTable
  BY <1>1, <1>2 DEF Given, Extends
<1>3. CASE work[p.table] = NoTable
  <2>1. p.table # TableOf[p.class]
    BY <1>3 DEF Given
  <2>2. work'[p.table] = NoTable
    BY <1>1, <1>3, <2>1, OwnOrNamed
  <2> QED BY <2>1, <2>2 DEF Given
<1> QED BY <1>2, <1>3

\* A step inside a transaction has to show that it keeps what is given, gives
\* the table it leaves, and knows what is missing.
LEMMA PassServes ==
    ASSUME SchemaInv, ServedSoFar, pc \in Passes, Extends(work, work'),
           UNCHANGED <<version, request, pc, asked>>,
           at' \in Nat,
           failed \subseteq failed',
           \A t \in Tables : work[t] = NoTable /\ work'[t] # NoTable =>
                               \E c \in Classes : t = TableOf[c],
           \A i \in 1..Len(request) :
             i < at' /\ request[i] \notin failed' => i < at \/ Given(request[i], work'),
           missing' # {} /\ request[at'] \notin failed' =>
             ColumnsOf(request[at'].class) \subseteq work'[request[at'].table].cols \cup missing'
    PROVE  ServedSoFar'
<1>1. Asking' BY DEF ServedSoFar, Asking, TablesFor
<1>2. ASSUME NEW i \in 1..Len(request), i < at', request[i] \notin failed'
      PROVE  Given(request[i], work)'
  <2>1. request[i] \in Pair /\ request[i].table \in TablesFor(request[i].class)
    BY DEF SchemaInv, TypeOK, ServedSoFar, Asking
  <2>2. CASE i < at
    <3>1. Given(request[i], work)
      BY <1>2, <2>2 DEF ServedSoFar, GivenBefore
    <3>2. Given(request[i], work')
      BY <2>1, <3>1, StaysGiven
    <3> QED BY <3>2, SameGiven
  <2>3. CASE Given(request[i], work')
    BY <2>3, SameGiven
  <2> QED BY <1>2, <2>2, <2>3
<1>3. GivenBefore' BY <1>2 DEF GivenBefore
<1>4. RestIsMissing' BY SameColumns DEF RestIsMissing, Here
<1>5. GivenAll' BY DEF GivenAll, Passes
<1> QED BY <1>1, <1>3, <1>4, <1>5 DEF ServedSoFar

\* A class whose table is made has its columns.
LEMMA CreateServes == ASSUME SchemaInv, ServedSoFar, Create PROVE ServedSoFar'
<1>1. Here \in Pair /\ Here.table \in TablesFor(Here.class)
  BY DEF SchemaInv, Create, Visiting, Here, TypeOK, ServedSoFar, Asking
<1> DEFINE own == TableOf[Here.class]
<1>2. /\ own \in Tables /\ NewTable(Here.class) \in Table
      /\ ColumnsOf(Here.class) = NewTable(Here.class).cols
  BY <1>1, TableOfClass, ClassColumns DEF Pair, SchemaInv, TypeOK, NewTable, Made, ColumnsOf, Typed
<1>3. /\ work'[own] = IF work[own] = NoTable THEN NewTable(Here.class) ELSE work[own]
      /\ \A t \in Tables : t # own => work'[t] = work[t]
  BY <1>2 DEF Create, SchemaInv, TypeOK
<1>4. Extends(work, work')
  BY <1>3 DEF Extends
<1>5. Given(Here, work')
  BY <1>1, <1>2, <1>3, TableSchemaAssumption DEF Given, Table, Create, Pair
<1>6. /\ pc \in Passes /\ UNCHANGED <<version, request, pc, failed, asked>>
      /\ at' \in Nat /\ at' = at + 1 /\ missing' = {}
  BY DEF Create, Visiting, SchemaInv, TypeOK
<1>7. \A i \in 1..Len(request) : i < at' => i < at \/ i = at
  BY <1>6 DEF SchemaInv, TypeOK
<1>8. \A t \in Tables : work[t] = NoTable /\ work'[t] # NoTable => \E c \in Classes : t = TableOf[c]
  BY <1>1, <1>3 DEF Pair
<1> QED BY <1>4, <1>5, <1>6, <1>7, <1>8, PassServes DEF Here

\* A failure releases the transaction from its promise.
LEMMA CreateFailsServes == ASSUME SchemaInv, ServedSoFar, CreateFails PROVE ServedSoFar'
<1>1. Extends(work, work') /\ UNCHANGED work
  BY DEF Extends, CreateFails
<1>2. pc \in Passes /\ UNCHANGED <<version, request, pc, asked>> /\ failed' = failed \cup {Here}
      /\ at' \in {at, at + 1} /\ at \in Nat /\ missing' \subseteq missing /\ (missing' # {} => at' = at)
  BY DEF CreateFails, Visiting, SchemaInv, TypeOK
<1>3. at' \in Nat /\ \A i \in 1..Len(request) : i < at' => i < at \/ i = at
  BY <1>2
<1> QED BY <1>1, <1>2, <1>3, PassServes DEF Here

\* A comparison finds exactly the columns that are left to add.
LEMMA CompareServes == ASSUME SchemaInv, ServedSoFar, Compare PROVE ServedSoFar'
<1>1. Extends(work, work')
  BY DEF Extends, Compare
<1>2. /\ pc \in Passes /\ UNCHANGED <<work, version, request, pc, failed, asked>>
      /\ at' \in Nat /\ at' \in {at, at + 1} /\ (missing' # {} => at' = at)
  BY DEF Compare, Visiting, SchemaInv, TypeOK
<1>3. missing' = {} => Given(Here, work')
  BY DEF Compare, Given
<1>4. ColumnsOf(Here.class) \subseteq work'[Here.table].cols \cup missing'
  BY DEF Compare
<1>5. \A i \in 1..Len(request) : i < at' => i < at \/ (i = at /\ missing' = {})
  BY <1>2 DEF SchemaInv, TypeOK, Compare
<1> QED BY <1>1, <1>2, <1>3, <1>4, <1>5, PassServes DEF Here

\* Adding one of them leaves the others.
LEMMA AddColumnServes ==
    ASSUME SchemaInv, ServedSoFar, NEW col \in missing, AddColumn(col)
    PROVE  ServedSoFar'
<1>1. Here \in Pair /\ work[Here.table] # NoTable
  BY DEF SchemaInv, AddColumn, Here, AtTable, TypeOK
<1>2. work[Here.table] \in Table /\ Here.table \in Tables
  BY <1>1 DEF SchemaInv, TypeOK, Pair
<1> DEFINE new == [work[Here.table] EXCEPT !.cols = @ \cup {col}]
<1>3. work' = [work EXCEPT ![Here.table] = new]
  BY <1>2 DEF AddColumn, SchemaInv, TypeOK
<1>4. /\ new # NoTable /\ new.key = work[Here.table].key
      /\ new.cols = work[Here.table].cols \cup {col}
  <2>1. new \in Table
    BY <1>2 DEF Table, SchemaInv, TypeOK
  <2> QED BY <1>2, <2>1, TableSchemaAssumption DEF Table
<1> HIDE DEF new
<1>5. /\ Extends(work, work') /\ work'[Here.table] = new
      /\ \A t \in Tables : work[t] = NoTable => work'[t] = NoTable
  BY <1>1, <1>2, <1>3, <1>4 DEF Extends, SchemaInv, TypeOK
<1>6. /\ pc \in Passes /\ UNCHANGED <<version, request, pc, failed, asked>>
      /\ missing' = missing \ {col} /\ missing # {}
      /\ at' = IF missing' = {} THEN at + 1 ELSE at
  BY DEF AddColumn, AfterColumn
<1>7. at' \in Nat /\ \A i \in 1..Len(request) : i < at' => i < at \/ (i = at /\ missing' = {})
  BY <1>6 DEF SchemaInv, TypeOK
<1>8. Here \notin failed => ColumnsOf(Here.class) \subseteq new.cols \cup missing'
  BY <1>4, <1>6 DEF ServedSoFar, RestIsMissing
<1>9. Here \notin failed /\ missing' = {} => Given(Here, work')
  BY <1>4, <1>5, <1>8 DEF Given
<1> QED BY <1>5, <1>6, <1>7, <1>8, <1>9, PassServes DEF Here

\* A failure releases the transaction from its promise.
LEMMA AddColumnFailsServes ==
    ASSUME SchemaInv, ServedSoFar, NEW col \in missing, AddColumnFails(col)
    PROVE  ServedSoFar'
<1>1. Extends(work, work') /\ UNCHANGED work
  BY DEF Extends, AddColumnFails
<1>2. pc \in Passes /\ UNCHANGED <<version, request, pc, asked>> /\ failed' = failed \cup {Here}
      /\ at' \in {at, at + 1} /\ at \in Nat /\ missing' \subseteq missing /\ (missing' # {} => at' = at)
  BY DEF AddColumnFails, AfterColumn, SchemaInv, TypeOK
<1>3. at' \in Nat /\ \A i \in 1..Len(request) : i < at' => i < at \/ i = at
  BY <1>2
<1> QED BY <1>1, <1>2, <1>3, PassServes DEF Here

\* A transaction begins: nothing is given yet.
LEMMA BeginServes ==
    ASSUME SchemaInv, NEW pairs \in Seq(Pair), NEW pass \in Passes, Begin(pairs, pass), pc \notin Passes,
           \A i \in 1..Len(pairs) : pairs[i].table \in TablesFor(pairs[i].class),
           pass = "opening" => \A i \in 1..Len(pairs) : pairs[i].table = TableOf[pairs[i].class]
    PROVE  ServedSoFar'
<1>1. asked' = {pairs[i] : i \in 1..Len(pairs)}
  BY DEF Begin, Range
<1>2. at' = 1 /\ missing' = {} /\ request' = pairs /\ pc' = pass
  BY DEF SchemaInv, TypeOK, AtTable, Begin
<1>3. Asking'
  BY <1>1, <1>2 DEF Asking, Passes, TablesFor
<1> QED BY <1>2, <1>3 DEF ServedSoFar, GivenBefore, RestIsMissing, GivenAll, Passes

\* When a transaction commits everything is given in the file.
LEMMA CommitServes == ASSUME SchemaInv, ServedSoFar, Commit PROVE ServedSoFar'
<1>1. Asking'
  BY DEF ServedSoFar, Asking, Commit, Passes
<1>2. request' = <<>> /\ UNCHANGED <<version, missing, failed, asked>> /\ disk' = work
  BY DEF Commit
<1>3. missing = {}
  BY DEF SchemaInv, TypeOK, Commit
<1>4. ASSUME NEW p \in asked', p \notin failed'
      PROVE  Given(p, disk)'
  <2>1. PICK i \in 1..Len(request) : p = request[i]
    BY <1>2 DEF Commit, ServedSoFar, Asking
  <2>2. i < at
    BY DEF Commit, SchemaInv, TypeOK
  <2>3. Given(p, work)
    BY <1>2, <1>4, <2>1, <2>2 DEF ServedSoFar, GivenBefore
  <2> QED BY <1>2, <2>3, SameGiven
<1>5. GivenAll' BY <1>4 DEF GivenAll
<1>6. GivenBefore' /\ RestIsMissing'
  BY <1>2, <1>3 DEF GivenBefore, RestIsMissing
<1> QED BY <1>1, <1>5, <1>6 DEF ServedSoFar

\* Between transactions what is asked for stays given if a step takes no table
\* of it, and makes none but of the class it asks for.
LEMMA OutsideServes ==
    ASSUME SchemaInv, ServedSoFar, pc \notin Passes, pc' \notin Passes,
           UNCHANGED <<version, request, at, missing, failed>>,
           pc' = "save" => pc = "save", pc' = "opened" => pc \in {"save", "opened"},
           asked' \subseteq asked,
           \A p \in asked' : Given(p, disk) => Given(p, disk')
    PROVE  ServedSoFar'
<1>1. Asking' BY DEF ServedSoFar, Asking, Passes
<1>2. missing = {} /\ request = <<>>
  BY DEF SchemaInv, TypeOK, AtTable
<1>3. GivenBefore' /\ RestIsMissing'
  BY <1>2 DEF GivenBefore, RestIsMissing
<1>4. ASSUME pc' \in {"save", "opened"}, NEW p \in asked', p \notin failed' PROVE Given(p, disk)'
  BY <1>4, SameGiven DEF ServedSoFar, GivenAll
<1> QED BY <1>1, <1>3, <1>4 DEF ServedSoFar, GivenAll

\* A table made by an insert has the columns of the class that is inserted.
LEMMA CreateIfServes ==
    ASSUME SchemaInv, ServedSoFar,
           NEW c \in Classes, NEW t \in TablesFor(c), CreateTableIfNotExists(c, t)
    PROVE  ServedSoFar'
<1>1. /\ NewTable(c) \in Table /\ ColumnsOf(c) = NewTable(c).cols /\ t \in Tables
  BY ClassColumns, TablesOfClass DEF SchemaInv, TypeOK, NewTable, Made, ColumnsOf, Typed
<1>2. disk'[t] = NewTable(c) /\ \A u \in Tables : u # t => disk'[u] = disk[u]
  BY <1>1 DEF CreateTableIfNotExists, SchemaInv, TypeOK
<1>3. ASSUME NEW p \in asked', Given(p, disk) PROVE Given(p, disk')
  <2>1. p \in Pair /\ (p.table = t => p.class = c)
    BY <1>3 DEF CreateTableIfNotExists, SchemaInv, TypeOK
  <2> QED BY <1>1, <1>2, <1>3, <2>1, TableSchemaAssumption DEF Given, Pair, Table
<1> QED BY <1>3, OutsideServes DEF CreateTableIfNotExists, Passes

\* A table that is dropped is not asked for any more.
LEMMA DeleteServes ==
    ASSUME SchemaInv, ServedSoFar, NEW t \in Tables, DeleteTable(t)
    PROVE  ServedSoFar'
<1>1. \A u \in Tables : u # t => disk'[u] = disk[u]
  BY DEF DeleteTable, SchemaInv, TypeOK
<1>2. \A p \in asked' : p \in Pair /\ p.table # t
  BY DEF DeleteTable, SchemaInv, TypeOK
<1>3. \A p \in asked' : Given(p, disk) => Given(p, disk')
  BY <1>1, <1>2 DEF Given, Pair
<1> QED BY <1>3, OutsideServes DEF DeleteTable, Passes

\* A class registered meanwhile is not of this request.
LEMMA SameServes ==
    ASSUME ServedSoFar, UNCHANGED <<disk, work, version, pc, request, at, missing, failed, asked>>
    PROVE  ServedSoFar'
  BY DEF ServedSoFar, Asking, GivenBefore, RestIsMissing, GivenAll, Given, ColumnsOf, Typed, Here,
         TablesFor

\* A program that starts or stops has asked for nothing.
LEMMA StopServes ==
    ASSUME request' = <<>>, missing' = {}, pc' \in {"down", "configured"}
    PROVE  ServedSoFar'
  BY DEF ServedSoFar, Asking, GivenBefore, RestIsMissing, GivenAll, Passes

\* Every step keeps it.
LEMMA StepServes == SchemaInv /\ ServedSoFar /\ [Next]_vars => ServedSoFar'
<1> SUFFICES ASSUME SchemaInv, ServedSoFar, [Next]_vars PROVE ServedSoFar' OBVIOUS
<1>1. CASE \E v \in Versions : Launch(v)
  BY <1>1, StopServes DEF Launch, SchemaInv, TypeOK, AtTable, Passes
<1>2. CASE \E c \in Classes : Register(c)
  BY <1>2, SameServes DEF Register
<1>3. CASE OpenDB \/ UpdateTableInDB
  <2>1. /\ RegisteredTables \in Seq(Pair) /\ pc \notin Passes
        /\ Begin(RegisteredTables, "opening") \/ Begin(RegisteredTables, "updating")
    BY <1>3, RegisteredRequest DEF SchemaInv, TypeOK, OpenDB, UpdateTableInDB, Passes
  <2>2. \A i \in 1..Len(RegisteredTables) :
          /\ RegisteredTables[i].table = TableOf[RegisteredTables[i].class]
          /\ RegisteredTables[i].table \in TablesFor(RegisteredTables[i].class)
    BY DEF SchemaInv, TypeOK, RegisteredTables, TablesFor
  <2> QED BY <2>1, <2>2, BeginServes DEF Passes
<1>4. CASE \E c \in Classes : \E names \in NameLists(c) : CreateTables(c, names)
  <2>0. PICK c \in Classes : \E names \in NameLists(c) : CreateTables(c, names) BY <1>4
  <2>1. PICK names \in NameLists(c) : CreateTables(c, names) BY <2>0
  <2> DEFINE pairs == [i \in DOMAIN names |-> [class |-> c, table |-> names[i]]]
  <2>2. pairs \in Seq(Pair) BY CreateRequest
  <2>3. Begin(pairs, "creating") /\ pc \notin Passes BY <2>1 DEF CreateTables, Passes
  <2>4. \A i \in DOMAIN names : names[i] \in TablesFor(c)
    BY DEF NameLists
  <2>5. \A i \in 1..Len(pairs) : pairs[i].table \in TablesFor(pairs[i].class)
    BY <2>2, <2>4
  <2> HIDE DEF pairs
  <2> QED BY <2>2, <2>3, <2>5, BeginServes DEF Passes
<1>5. CASE UpdatePass
  <2>1. CASE SaveVersionToLocal
    BY <2>1, OutsideServes DEF SaveVersionToLocal, Passes
  <2> QED BY <1>5, <2>1, CreateServes, CreateFailsServes, CompareServes, AddColumnServes,
             AddColumnFailsServes, CommitServes DEF UpdatePass
<1>6. CASE \E c \in Classes : \E t \in TablesFor(c) : CreateTableIfNotExists(c, t)
  BY <1>6, CreateIfServes
<1>7. CASE \E t \in Tables : DeleteTable(t) BY <1>7, DeleteServes
<1>8. CASE Exit BY <1>8, StopServes DEF Exit
<1>9. CASE UNCHANGED vars BY <1>9, SameServes DEF vars
<1> QED BY <1>1, <1>2, <1>3, <1>4, <1>5, <1>6, <1>7, <1>8, <1>9 DEF Next

\* It holds of every reachable state.
LEMMA ServedInvariant == Spec => []ServedSoFar
<1>1. Init => ServedSoFar
  BY DEF Init, ServedSoFar, Asking, GivenBefore, RestIsMissing, GivenAll, Passes
<1> QED BY <1>1, StepServes, SchemaInvariant, PTL DEF Spec

\* When the transaction of a request has committed, a model of each class asked
\* for, no statement of which has failed, can be inserted into its table:
\* RequestServed, with its exceptions, of updateTableInDB and
\* createTable:tableNames:.
THEOREM RequestIsServed == Spec => []RequestServed
<1>1. TypeOK /\ ServedSoFar => RequestServed
  <2> SUFFICES ASSUME TypeOK, ServedSoFar, pc \in {"save", "opened"}, NEW p \in asked \ failed
               PROVE  /\ p.table = TableOf[p.class] => disk[p.table] # NoTable
                      /\ disk[p.table] # NoTable /\ (\A f \in Fields[version][p.class] : f.typed)
                           => Storable(p.class, p.table)
    BY DEF RequestServed
  <2>1. Given(p, disk)
    BY DEF ServedSoFar, GivenAll
  <2>2. (\A f \in Fields[version][p.class] : f.typed) => InsertColumns(p.class) = ColumnsOf(p.class)
    BY DEF InsertColumns, ColumnsOf, Typed
  <2> QED BY <2>1, <2>2 DEF Given, Storable
<1> QED BY <1>1, SchemaInvariant, ServedInvariant, PTL DEF SchemaInv

\* saveVersionToLocal runs when the file has the tables of the version, for each
\* class that openDB asked for and no statement of which has failed.
THEOREM VersionIsSavedLast == Spec => VersionSavedLast
<1> DEFINE A == \A p \in asked \ failed :
                  disk[p.table] # NoTable /\ ColumnsOf(p.class) \subseteq disk[p.table].cols
<1>1. ASSUME ServedSoFar, [Next]_vars, saved' # saved PROVE A
  <2>1. pc = "save"
    BY <1>1 DEF Next, vars, Launch, Register, OpenDB, UpdateTableInDB, Begin, CreateTables, UpdatePass,
       Create, CreateFails, Compare, AddColumn, AddColumnFails, Commit, SaveVersionToLocal,
       CreateTableIfNotExists, DeleteTable, Exit
  <2> QED BY <1>1, <2>1 DEF ServedSoFar, Asking, GivenAll, Given
<1>2. ServedSoFar /\ [Next]_vars => [saved' # saved => A]_vars
  BY <1>1
<1> QED BY <1>2, ServedInvariant, PTL DEF Spec, VersionSavedLast

-----------------------------------------------------------------------------
(* A migration is one step of Catalog.  A third invariant says what the tables
   of a transaction have that those in the file do not. *)

\* The columns that the classes asked for need in a table, and those of the
\* classes whose own table it is.
UsersColumns(t)  == UNION {ColumnsOf(p.class) : p \in {q \in asked : q.table = t}}
OwnersColumns(t) == UNION {ColumnsOf(p.class) : p \in {q \in asked : TableOf[q.class] = t}}

\* The columns that are added to a table are those its users need; a table that
\* is made has the key and columns of its owners.
WorkIsAsked ==
    pc \in Passes =>
      /\ missing # {} => missing \subseteq ColumnsOf(Here.class)
      /\ \A t \in Tables :
           IF disk[t] # NoTable
             THEN work[t].cols \subseteq disk[t].cols \cup UsersColumns(t)
             ELSE work[t] # NoTable =>
                    /\ \E p \in asked : TableOf[p.class] = t /\ work[t].key = NewTable(p.class).key
                    /\ work[t].cols \subseteq OwnersColumns(t)

\* A missing table that has been visited has had its class's own one made.
OwnMade ==
    pc \in Passes =>
      \A i \in 1..Len(request) :
        i < at /\ request[i] \notin failed /\ disk[request[i].table] = NoTable => work[TableOf[request[i].class]] # NoTable

AtomicSoFar == WorkIsAsked /\ OwnMade

\* Catalog's columns and owners in the terms of the model.
LEMMA CatalogColumns ==
    ASSUME NEW t
    PROVE  /\ Promised!Cols(Promised!Users(t)) = UsersColumns(t)
           /\ Promised!Cols(Promised!Served(t)) = UNION {ColumnsOf(p.class) : p \in {q \in asked \ failed : q.table = t}}
           /\ OwnersColumns(t) \subseteq Promised!Cols(Promised!Users(t) \cup Promised!Owners(t))
<1>1. \A c : Made(version, c).cols = ColumnsOf(c)
  BY DEF Made, ColumnsOf, Typed
<1>2. ASSUME NEW cs PROVE Promised!Cols(cs) = UNION {ColumnsOf(c) : c \in cs}
  BY <1>1 DEF Promised!Cols, Promised!New
<1> QED BY <1>2 DEF Promised!Users, Promised!Served, Promised!Owners, UsersColumns, OwnersColumns

\* At the start there is nothing.
LEMMA StartsAsPromised == Init => Promised!Init
  BY DEF Init, Promised!Init, Status, Passes

\* What the classes asked for need stays the same while the process runs.
LEMMA SameAsked ==
    ASSUME UNCHANGED <<version, asked>>
    PROVE  /\ \A t : UsersColumns(t)' = UsersColumns(t) /\ OwnersColumns(t)' = OwnersColumns(t)
           /\ \A c : NewTable(c)' = NewTable(c)
  BY DEF UsersColumns, OwnersColumns, ColumnsOf, Typed, NewTable

\* A step that leaves the tables of the transaction as they are.
LEMMA ViewStaysAsked ==
    ASSUME SchemaInv, AtomicSoFar, UNCHANGED <<disk, work, version, request, pc, asked>>,
           at' \in Nat,
           missing' # {} => missing' \subseteq ColumnsOf(request[at'].class),
           failed \subseteq failed',
           \A i \in 1..Len(request) :
             i < at' /\ request[i] \notin failed' => i < at \/ work[request[i].table] # NoTable,
           ServedSoFar
    PROVE  AtomicSoFar'
<1>1. WorkIsAsked'
  BY SameAsked, SameColumns DEF AtomicSoFar, WorkIsAsked, Here
<1>2. ASSUME pc \in Passes, NEW i \in 1..Len(request), i < at', request[i] \notin failed',
             disk[request[i].table] = NoTable
      PROVE  work[TableOf[request[i].class]] # NoTable
  <2>1. CASE i < at
    BY <1>2, <2>1 DEF AtomicSoFar, OwnMade
  <2>2. CASE work[request[i].table] # NoTable
    <3>1. request[i] \in Pair /\ request[i].table \in TablesFor(request[i].class)
      BY <1>2 DEF SchemaInv, TypeOK, ServedSoFar, Asking
    <3>2. \E p \in asked : TableOf[p.class] = request[i].table
      BY <1>2, <2>2, <3>1 DEF AtomicSoFar, WorkIsAsked, Pair
    <3>3. request[i].table = TableOf[request[i].class]
      BY <3>1, <3>2, OwnOrNamed DEF Pair, SchemaInv, TypeOK
    <3> QED BY <2>2, <3>3
  <2> QED BY <1>2, <2>1, <2>2
<1>3. OwnMade'
  BY <1>2 DEF OwnMade
<1> QED BY <1>1, <1>3 DEF AtomicSoFar

\* A comparison looks at what the class needs.
LEMMA CompareStaysAsked == ASSUME SchemaInv, ServedSoFar, AtomicSoFar, Compare PROVE AtomicSoFar'
<1>1. /\ UNCHANGED <<disk, work, version, request, pc, failed, asked>>
      /\ at' \in Nat /\ at' \in {at, at + 1} /\ (missing' # {} => at' = at)
  BY DEF Compare, Visiting, SchemaInv, TypeOK
<1>2. missing' \subseteq ColumnsOf(request[at].class) /\ work[request[at].table] # NoTable
  BY DEF Compare, Here
<1>3. \A i \in 1..Len(request) : i < at' => i < at \/ i = at
  BY <1>1 DEF SchemaInv, TypeOK
<1> QED BY <1>1, <1>2, <1>3, ViewStaysAsked

\* A statement that fails changes no table.
LEMMA FailStaysAsked ==
    ASSUME SchemaInv, ServedSoFar, AtomicSoFar,
           CreateFails \/ \E col \in missing : AddColumnFails(col)
    PROVE  AtomicSoFar'
<1>1. /\ UNCHANGED <<disk, work, version, request, pc, asked>> /\ failed' = failed \cup {request[at]}
      /\ at' \in Nat /\ at' \in {at, at + 1} /\ at \in Nat
      /\ (missing' # {} => missing' \subseteq missing /\ at' = at /\ pc \in Passes)
  BY DEF CreateFails, AddColumnFails, AfterColumn, Visiting, Here, SchemaInv, TypeOK
<1>2. missing' # {} => missing' \subseteq ColumnsOf(request[at'].class)
  BY <1>1 DEF AtomicSoFar, WorkIsAsked, Here
<1>3. \A i \in 1..Len(request) : i < at' => i < at \/ i = at
  BY <1>1
<1> QED BY <1>1, <1>2, <1>3, ViewStaysAsked

\* A table that is made is one of a class that was asked for.
LEMMA CreateStaysAsked == ASSUME SchemaInv, ServedSoFar, AtomicSoFar, Create PROVE AtomicSoFar'
<1>1. Here \in Pair /\ Here \in asked /\ pc \in Passes
  BY DEF SchemaInv, Create, Visiting, Here, TypeOK, ServedSoFar, Asking
<1> DEFINE own == TableOf[Here.class]
<1>2. /\ own \in Tables /\ NewTable(Here.class) \in Table
      /\ ColumnsOf(Here.class) = NewTable(Here.class).cols
  BY <1>1, TableOfClass, ClassColumns DEF Pair, SchemaInv, TypeOK, NewTable, Made, ColumnsOf, Typed
<1>3. /\ work'[own] = IF work[own] = NoTable THEN NewTable(Here.class) ELSE work[own]
      /\ work'[own] # NoTable
      /\ \A t \in Tables : t # own => work'[t] = work[t]
  BY <1>2, TableSchemaAssumption DEF Create, SchemaInv, TypeOK, Table
<1>4. ColumnsOf(Here.class) \subseteq OwnersColumns(own)
  BY <1>1 DEF OwnersColumns
<1>5. /\ UNCHANGED <<disk, version, request, pc, failed, asked>> /\ missing' = {} /\ at' = at + 1
      /\ work[own] = NoTable => disk[own] = NoTable
  BY <1>2 DEF Create, Visiting, SchemaInv, TypeOK, WorkExtends, Extends
<1>6. WorkIsAsked'
  <2>1. ASSUME NEW t \in Tables
        PROVE  IF disk[t] # NoTable
                 THEN work'[t].cols \subseteq disk[t].cols \cup UsersColumns(t)
                 ELSE work'[t] # NoTable =>
                        /\ \E p \in asked : TableOf[p.class] = t /\ work'[t].key = NewTable(p.class).key
                        /\ work'[t].cols \subseteq OwnersColumns(t)
    <3>1. CASE t # own \/ work[own] # NoTable
      BY <1>1, <1>3, <3>1 DEF AtomicSoFar, WorkIsAsked
    <3>2. CASE t = own /\ work[own] = NoTable
      BY <1>1, <1>2, <1>3, <1>4, <1>5, <3>2
    <3> QED BY <3>1, <3>2
  <2> QED BY <1>5, <2>1, SameAsked DEF WorkIsAsked
<1>7. OwnMade'
  <2>1. ASSUME NEW i \in 1..Len(request), i < at', request[i] \notin failed, disk[request[i].table] = NoTable
        PROVE  work'[TableOf[request[i].class]] # NoTable
    <3>0. request[i] \in Pair
      BY DEF SchemaInv, TypeOK
    <3>1. TableOf[request[i].class] \in Tables
      BY <3>0, TableOfClass DEF Pair
    <3>2. CASE i < at
      BY <1>1, <1>3, <2>1, <3>1, <3>2 DEF AtomicSoFar, OwnMade
    <3>3. CASE i = at
      BY <1>3, <3>3 DEF Here
    <3> QED BY <1>5, <2>1, <3>2, <3>3 DEF SchemaInv, TypeOK
  <2> QED BY <1>5, <2>1 DEF OwnMade
<1> QED BY <1>6, <1>7 DEF AtomicSoFar

\* A column that is added is one a class asked for needs there.
LEMMA AddColumnStaysAsked ==
    ASSUME SchemaInv, ServedSoFar, AtomicSoFar, NEW col \in missing, AddColumn(col)
    PROVE  AtomicSoFar'
<1>1. Here \in Pair /\ work[Here.table] # NoTable /\ pc \in Passes
      /\ at \in 1..Len(request)
  BY DEF SchemaInv, AddColumn, Here, AtTable, TypeOK
<1>2. Here \in asked /\ Here.table \in TablesFor(Here.class)
  BY <1>1 DEF ServedSoFar, Asking, Here
<1>3. work[Here.table] \in Table /\ Here.table \in Tables
  BY <1>1 DEF SchemaInv, TypeOK, Pair
<1> DEFINE new == [work[Here.table] EXCEPT !.cols = @ \cup {col}]
<1>4. work' = [work EXCEPT ![Here.table] = new]
  BY <1>3 DEF AddColumn, SchemaInv, TypeOK
<1>5. /\ new # NoTable /\ new.key = work[Here.table].key
      /\ new.cols = work[Here.table].cols \cup {col}
  <2>1. new \in Table
    BY <1>3 DEF Table, SchemaInv, TypeOK
  <2> QED BY <1>3, <2>1, TableSchemaAssumption DEF Table
<1> HIDE DEF new
<1>6. work'[Here.table] = new /\ \A t \in Tables : t # Here.table => work'[t] = work[t]
  BY <1>3, <1>4 DEF SchemaInv, TypeOK
<1>7. /\ UNCHANGED <<disk, version, request, pc, failed, asked>>
      /\ missing' \subseteq missing
      /\ at' = IF missing' = {} THEN at + 1 ELSE at
  BY DEF AddColumn, AfterColumn
<1>8. col \in UsersColumns(Here.table) /\ missing \subseteq ColumnsOf(Here.class)
  BY <1>1, <1>2 DEF AtomicSoFar, WorkIsAsked, UsersColumns
<1>9. ASSUME disk[Here.table] = NoTable PROVE col \in OwnersColumns(Here.table)
  <2>1. PICK p \in asked : TableOf[p.class] = Here.table
    BY <1>1, <1>3, <1>9 DEF AtomicSoFar, WorkIsAsked
  <2>2. TableOf[Here.class] = Here.table
    BY <1>1, <1>2, <2>1, OwnOrNamed DEF Pair, SchemaInv, TypeOK
  <2> QED BY <1>2, <1>8, <2>2 DEF OwnersColumns
<1>10. WorkIsAsked'
  <2>1. ASSUME NEW t \in Tables
        PROVE  IF disk[t] # NoTable
                 THEN work'[t].cols \subseteq disk[t].cols \cup UsersColumns(t)
                 ELSE work'[t] # NoTable =>
                        /\ \E p \in asked : TableOf[p.class] = t /\ work'[t].key = NewTable(p.class).key
                        /\ work'[t].cols \subseteq OwnersColumns(t)
    <3>1. CASE t # Here.table
      BY <1>1, <1>6, <3>1 DEF AtomicSoFar, WorkIsAsked
    <3>2. CASE t = Here.table
      BY <1>1, <1>3, <1>5, <1>6, <1>8, <1>9, <3>2 DEF AtomicSoFar, WorkIsAsked
    <3> QED BY <3>1, <3>2
  <2>2. missing' # {} => missing' \subseteq ColumnsOf(request[at'].class)
    BY <1>7, <1>8 DEF Here
  <2> QED BY <1>7, <2>1, <2>2, SameAsked, SameColumns DEF WorkIsAsked, Here
<1>11. OwnMade'
  <2>1. ASSUME NEW i \in 1..Len(request), i < at', request[i] \notin failed, disk[request[i].table] = NoTable
        PROVE  work'[TableOf[request[i].class]] # NoTable
    <3>0. request[i] \in Pair
      BY DEF SchemaInv, TypeOK
    <3>1. TableOf[request[i].class] \in Tables
      BY <3>0, TableOfClass DEF Pair
    <3>2. work[TableOf[request[i].class]] # NoTable => work'[TableOf[request[i].class]] # NoTable
      BY <1>5, <1>6, <3>1
    <3>3. CASE i < at
      BY <1>1, <2>1, <3>2, <3>3 DEF AtomicSoFar, OwnMade
    <3>4. CASE i = at
      <4>1. PICK p \in asked : TableOf[p.class] = Here.table
        BY <1>1, <1>3, <2>1, <3>4 DEF AtomicSoFar, WorkIsAsked, Here
      <4>2. TableOf[Here.class] = Here.table
        BY <1>1, <1>2, <4>1, OwnOrNamed DEF Pair, SchemaInv, TypeOK
      <4> QED BY <1>1, <3>2, <3>4, <4>2 DEF Here
    <3> QED BY <1>7, <2>1, <3>3, <3>4 DEF SchemaInv, TypeOK
  <2> QED BY <1>7, <2>1 DEF OwnMade
<1> QED BY <1>10, <1>11 DEF AtomicSoFar

\* A transaction begins with the tables that are in the file.
LEMMA BeginAsks ==
    ASSUME SchemaInv, NEW pairs, NEW pass, Begin(pairs, pass), pc \notin Passes
    PROVE  AtomicSoFar'
<1>1. /\ missing' = {} /\ at' = 1 /\ UNCHANGED <<disk, work>> /\ work = disk
      /\ \A i \in 1..Len(request') : ~(i < at')
  BY DEF SchemaInv, TypeOK, AtTable, WorkExtends, Begin
<1>2. \A t \in Tables : disk[t] # NoTable => work'[t].cols \subseteq disk'[t].cols
  BY <1>1
<1> QED BY <1>1, <1>2 DEF AtomicSoFar, WorkIsAsked, OwnMade

\* Every step keeps the third invariant.
LEMMA StepStaysAsked == SchemaInv /\ ServedSoFar /\ AtomicSoFar /\ [Next]_vars => AtomicSoFar'
<1> SUFFICES ASSUME SchemaInv, ServedSoFar, AtomicSoFar, [Next]_vars PROVE AtomicSoFar' OBVIOUS
<1>1. CASE pc' \notin Passes
  BY <1>1 DEF AtomicSoFar, WorkIsAsked, OwnMade
<1>2. CASE UNCHANGED <<disk, work, version, request, pc, at, missing, failed, asked>>
  BY <1>2, SameAsked, SameColumns DEF AtomicSoFar, WorkIsAsked, OwnMade, Here
<1>3. CASE \E pairs, pass : Begin(pairs, pass) /\ pc \notin Passes
  BY <1>3, BeginAsks
<1>4. CASE UpdatePass /\ pc' \in Passes
  BY <1>4, CreateStaysAsked, FailStaysAsked, CompareStaysAsked, AddColumnStaysAsked
     DEF UpdatePass, Commit, SaveVersionToLocal, Passes
<1>5. \/ pc' \notin Passes
      \/ UNCHANGED <<disk, work, version, request, pc, at, missing, failed, asked>>
      \/ \E pairs, pass : Begin(pairs, pass) /\ pc \notin Passes
      \/ UpdatePass
  BY DEF Next, vars, Launch, Register, OpenDB, UpdateTableInDB, CreateTables,
         CreateTableIfNotExists, DeleteTable, Exit, Passes
<1> QED BY <1>1, <1>2, <1>3, <1>4, <1>5

\* It holds of every reachable state.
LEMMA AtomicInvariant == Spec => []AtomicSoFar
<1>1. Init => AtomicSoFar
  BY DEF Init, AtomicSoFar, WorkIsAsked, OwnMade, Passes
<1> QED BY <1>1, StepStaysAsked, SchemaInvariant, ServedInvariant, PTL DEF Spec

\* A commit changes the tables for all the classes together.
LEMMA CommitServesAll ==
    ASSUME SchemaInv, ServedSoFar, AtomicSoFar, Commit
    PROVE  Promised!Serve
<1>1. /\ pc \in Passes /\ disk' = work /\ UNCHANGED <<asked, failed, version>>
      /\ Status = "pending" /\ Status' = "served"
      /\ \A i \in 1..Len(request) : i < at
  BY DEF Commit, Status, Passes, SchemaInv, TypeOK
<1>2. asked = {request[i] : i \in 1..Len(request)} /\ asked \subseteq Pair
  BY <1>1 DEF ServedSoFar, Asking, SchemaInv, TypeOK
<1>3. ASSUME NEW p \in asked \ failed PROVE Given(p, work)
  BY <1>1, <1>2, <1>3 DEF ServedSoFar, GivenBefore
<1>4. ASSUME NEW t \in Tables, work[t] # NoTable PROVE Promised!Cols(Promised!Served(t)) \subseteq work[t].cols
  <2>1. \A p \in {q \in asked \ failed : q.table = t} : ColumnsOf(p.class) \subseteq work[t].cols
    BY <1>3, <1>4 DEF Given
  <2>2. UNION {ColumnsOf(p.class) : p \in {q \in asked \ failed : q.table = t}} \subseteq work[t].cols
    BY <2>1
  <2> QED BY <2>2, CatalogColumns
<1>5. ASSUME NEW t \in Tables, disk[t] # NoTable PROVE Promised!Grows(t)
  <2>1. /\ work[t] # NoTable /\ disk[t].cols \subseteq work[t].cols /\ work[t].key = disk[t].key
        /\ work[t].cols \subseteq disk[t].cols \cup UsersColumns(t)
    BY <1>1, <1>5 DEF SchemaInv, WorkExtends, Extends, AtomicSoFar, WorkIsAsked
  <2> QED BY <1>1, <1>4, <2>1, CatalogColumns DEF Promised!Grows
<1>6. ASSUME NEW t \in Tables, disk[t] = NoTable, work[t] # NoTable PROVE Promised!Appears(t)
  <2>1. PICK p \in asked : TableOf[p.class] = t /\ work[t].key = NewTable(p.class).key
    BY <1>1, <1>6 DEF AtomicSoFar, WorkIsAsked
  <2>2. work[t].cols \subseteq Promised!Cols(Promised!Users(t) \cup Promised!Owners(t))
    BY <1>1, <1>6, CatalogColumns DEF AtomicSoFar, WorkIsAsked
  <2>3. p.class \in Promised!Owners(t)
    BY <2>1 DEF Promised!Owners
  <2>4. work[t].key \in {x.key : x \in Promised!New(Promised!Users(t) \cup Promised!Owners(t))}
    BY <2>1, <2>3 DEF Promised!New, NewTable
  <2> QED BY <1>1, <1>4, <1>6, <2>2, <2>4 DEF Promised!Appears
<1>7. ASSUME NEW p \in asked \ failed, disk[p.table] = NoTable PROVE work[TableOf[p.class]] # NoTable
  BY <1>1, <1>2, <1>7 DEF AtomicSoFar, OwnMade
<1> QED BY <1>1, <1>5, <1>6, <1>7 DEF Promised!Serve

\* Every step is one of Catalog, or none that Catalog sees.
LEMMA StepAsPromised ==
    SchemaInv /\ ServedSoFar /\ AtomicSoFar /\ [Next]_vars => [Promised!Next]_(Promised!vars)
<1> SUFFICES ASSUME SchemaInv, ServedSoFar, AtomicSoFar, [Next]_vars
             PROVE  [Promised!Next]_(Promised!vars)
    OBVIOUS
<1> USE DEF Promised!Next, Promised!vars
<1>1. CASE (\E v \in Versions : Launch(v)) \/ Exit
  BY <1>1 DEF Launch, Exit, Promised!Abandon, Status, Passes
<1>2. CASE (\E c \in Classes : Register(c)) \/ UNCHANGED vars
  BY <1>2 DEF Register, vars, Status
<1>3. CASE \E pairs : \E pass \in Passes : Begin(pairs, pass) /\ pc \notin Passes
  BY <1>3 DEF Begin, Promised!Ask, Status, Passes
<1>4. CASE UpdatePass
  <2>1. CASE Create \/ Compare \/ \E col \in missing : AddColumn(col)
    <3>1. UNCHANGED <<disk, asked, failed, version, pc>>
      BY <2>1 DEF Create, Compare, AddColumn
    <3> QED BY <3>1 DEF Status
  <2>2. CASE CreateFails \/ \E col \in missing : AddColumnFails(col)
    <3>1. Here \in asked /\ pc \in Passes /\ failed' = failed \cup {Here}
          /\ UNCHANGED <<disk, asked, version, pc>>
      BY <2>2 DEF CreateFails, AddColumnFails, Visiting, Here, SchemaInv, TypeOK, ServedSoFar, Asking
    <3> QED BY <3>1 DEF Promised!Fail, Status
  <2>3. CASE Commit
    BY <2>3, CommitServesAll
  <2>4. CASE SaveVersionToLocal
    BY <2>4 DEF SaveVersionToLocal, Status, Passes
  <2> QED BY <1>4, <2>1, <2>2, <2>3, <2>4 DEF UpdatePass
<1>5. CASE \E c \in Classes : \E t \in TablesFor(c) : CreateTableIfNotExists(c, t)
  <2>1. PICK c \in Classes : \E t \in TablesFor(c) : CreateTableIfNotExists(c, t) BY <1>5
  <2>2. PICK t \in TablesFor(c) : CreateTableIfNotExists(c, t) BY <2>1
  <2>3. /\ pc = "opened" /\ UNCHANGED <<pc, failed, version>> /\ c \in DOMAIN TableOf
        /\ disk[t] = NoTable /\ disk' = [disk EXCEPT ![t] = Made(version, c)]
        /\ asked' = {p \in asked : p.table = t => p.class = c}
    BY <2>2 DEF CreateTableIfNotExists, NewTable, TableOf
  <2>4. Status = "served" /\ Status' = Status
    BY <2>3 DEF Status, Passes
  <2>5. Promised!Make
    BY <2>3, <2>4 DEF Promised!Make
  <2> QED BY <2>5
<1>6. CASE \E t \in Tables : DeleteTable(t)
  <2>1. PICK t \in Tables : DeleteTable(t) BY <1>6
  <2>2. /\ pc = "opened" /\ UNCHANGED <<pc, failed, version>>
        /\ disk' = [disk EXCEPT ![t] = NoTable] /\ asked' = {p \in asked : p.table # t}
    BY <2>1 DEF DeleteTable
  <2>3. Status = "served" /\ Status' = Status
    BY <2>2 DEF Status, Passes
  <2>4. Promised!Drop
    BY <2>2, <2>3 DEF Promised!Drop
  <2> QED BY <2>4
<1>7. \/ OpenDB \/ UpdateTableInDB
      \/ (\E c \in Classes : \E names \in NameLists(c) : CreateTables(c, names))
      => \E pairs : \E pass \in Passes : Begin(pairs, pass) /\ pc \notin Passes
  BY DEF OpenDB, UpdateTableInDB, CreateTables, Passes
<1> QED BY <1>1, <1>2, <1>3, <1>4, <1>5, <1>6, <1>7 DEF Next

\* updateTableInDB and createTable:tableNames: implement Catalog: whatever
\* classes are registered meanwhile, whatever statements fail and wherever the
\* program stops, the tables change in one step for all that was asked for, or
\* not at all.
THEOREM MigrationImplementsCatalog == Spec => UpdatesAreAtomic
  BY StartsAsPromised, StepAsPromised, SchemaInvariant, ServedInvariant, AtomicInvariant, PTL
     DEF Spec, UpdatesAreAtomic, Promised!Spec
=============================================================================
