------------------------------- MODULE Catalog -------------------------------
(***************************************************************************)
(* What the schema migration of NBDataBase promises: the tables change in  *)
(* one step for a whole request, which is a list of classes, each with a   *)
(* table to store it in.  Tables grow and never lose a column or their     *)
(* key; only a table that is dropped goes.  A class none of whose          *)
(* statements fails gets all of its columns in the table it has.  Which    *)
(* table is made when a named one is missing is left open: NBDataBase.h    *)
(* says the named one (createTable:tableNames:), the code makes the        *)
(* class's own.                                                            *)
(***************************************************************************)
CONSTANTS
    Tables,
    NoTable,
    TableOf,          \* the table of each class
    Made(_, _),       \* the table a class gets in a version of the program
    Names(_)          \* the tables a class is stored in

VARIABLES
    tables,    \* each table, or NoTable
    request,   \* the classes asked for, each with a table to store it in
    status,    \* "idle", "pending" or "served"
    broken,    \* those of them of which a statement has failed
    version    \* of the program

vars == <<tables, request, status, broken, version>>

New(cs)  == {Made(version, c) : c \in cs}
Cols(cs) == UNION {x.cols : x \in New(cs)}

\* The classes to be stored in t, those of them with no failed statement, and
\* those whose own table it is.
Users(t)  == {p.class : p \in {q \in request : q.table = t}}
Served(t) == {p.class : p \in {q \in request \ broken : q.table = t}}
Owners(t) == {p.class : p \in {q \in request : TableOf[q.class] = t}}

\* A table that is there gets the columns of its users.
Grows(t) ==
    /\ tables'[t] # NoTable
    /\ tables'[t].key = tables[t].key
    /\ tables[t].cols \subseteq tables'[t].cols
    /\ tables'[t].cols \subseteq tables[t].cols \cup Cols(Users(t))
    /\ Cols(Served(t)) \subseteq tables'[t].cols

\* One that is missing is made for the classes that asked for it, or for those
\* whose own it is.
Appears(t) ==
    /\ tables'[t].key \in {x.key : x \in New(Users(t) \cup Owners(t))}
    /\ tables'[t].cols \subseteq Cols(Users(t) \cup Owners(t))
    /\ Cols(Served(t)) \subseteq tables'[t].cols

Ask ==
    /\ status # "pending" /\ status' = "pending"
    /\ broken' = {}
    /\ UNCHANGED <<tables, version>>

Fail ==
    /\ status = "pending"
    /\ \E p \in request : broken' = broken \cup {p}
    /\ UNCHANGED <<tables, request, status, version>>

Serve ==
    /\ status = "pending" /\ status' = "served"
    /\ \A t \in Tables :
         IF tables[t] # NoTable THEN Grows(t) ELSE tables'[t] # NoTable => Appears(t)
    /\ \A p \in request \ broken :
         tables[p.table] = NoTable => \E t \in {p.table, TableOf[p.class]} : tables'[t] # NoTable
    /\ UNCHANGED <<request, broken, version>>

\* One table at a time, when a model is inserted by the name of its table.
Make ==
    /\ status = "served"
    /\ \E c \in DOMAIN TableOf :
         \E t \in Names(c) :
           /\ tables[t] = NoTable
           /\ tables' = [tables EXCEPT ![t] = Made(version, c)]
           /\ request' = {p \in request : p.table = t => p.class = c}
    /\ UNCHANGED <<status, broken, version>>

Drop ==
    /\ status = "served"
    /\ \E t \in Tables :
         /\ tables' = [tables EXCEPT ![t] = NoTable]
         /\ request' = {p \in request : p.table # t}
    /\ UNCHANGED <<status, broken, version>>

\* The program stops or starts: what it asked for is gone.
Abandon == status' = "idle" /\ UNCHANGED tables

Init == tables = [t \in Tables |-> NoTable] /\ request = {} /\ status = "idle" /\ broken = {}

Next == Ask \/ Fail \/ Serve \/ Make \/ Drop \/ Abandon

Spec == Init /\ [][Next]_vars
=============================================================================
