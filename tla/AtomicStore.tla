---------------------------- MODULE AtomicStore ----------------------------
(***************************************************************************)
(* What the writing calls of NBDataBase promise their callers: a call      *)
(* changes the one table it names, in one step between its start and its   *)
(* return; a call that answers NO, or raises an exception, changes nothing.*)
(* Only the calls that ModelStore shows to take several steps have a start *)
(* and a return here.                                                      *)
(***************************************************************************)
EXTENDS Records

CONSTANTS
    Threads,
    Tables,       \* the names of the tables made for the model class
    NoTable,      \* a table that does not exist
    ModelsOf,     \* the models each thread stores
    ColumnLists,  \* the columns: arguments it uses
    NoCall

VARIABLES
    store,    \* each table: its rows, or NoTable
    call,     \* each thread: the save it has started
    answer    \* each thread: what its last call answered; "void" is no answer

vars == <<store, call, answer>>

Arrays(t) == {<<m>> : m \in ModelsOf[t]} \cup (ModelsOf[t] \X ModelsOf[t])

Init ==
    /\ store \in [Tables -> {NoTable, {}}]
    /\ call = [t \in Threads |-> NoCall]
    /\ answer = [t \in Threads |-> "void"]

Exists(T) == store[T] # NoTable
Opened(T) == IF Exists(T) THEN store[T] ELSE {}

\* The table T has these rows afterwards, also if it was missing.
Outcome(T, rows) == store' = [store EXCEPT ![T] = rows]

Begin(t) ==
    /\ call[t] = NoCall
    /\ \E T \in Tables, m \in ModelsOf[t], cols \in ColumnLists, creates \in BOOLEAN :
         call' = [call EXCEPT ![t] = [table |-> T, model |-> m, columns |-> cols, creates |-> creates]]
    /\ UNCHANGED <<store, answer>>

\* A save that has started: the row is updated if it exists at this moment,
\* otherwise inserted whole.
Finish(t) ==
    LET c == call[t]
    IN  /\ c # NoCall
        /\ call' = [call EXCEPT ![t] = NoCall]
        /\ \/ /\ answer' = [answer EXCEPT ![t] = "yes"]
              /\ Outcome(c.table, Saved(Opened(c.table), c.model, c.columns, {}))
           \/ answer' \in {[answer EXCEPT ![t] = a] : a \in {"no", "raised"}} /\ UNCHANGED store

\* Calls of one step.
Effect(t) ==
    \E T \in Tables :
      \/ \E ms \in Arrays(t), cols \in ColumnLists \cup {{}} :
           \/ Outcome(T, SavedAll(Opened(T), ms, cols))
           \/ Outcome(T, UpdatedAll(Opened(T), ms, cols))
           \/ \E replace \in BOOLEAN : Outcome(T, InsertedAll(Opened(T), ms, cols, replace))
      \/ \E m \in ModelsOf[t] : Outcome(T, Deleted(Opened(T), m))
      \/ Exists(T) /\ store' = [store EXCEPT ![T] = {}]
      \/ Exists(T) /\ store' = [store EXCEPT ![T] = NoTable]

OneStep(t) ==
    /\ call[t] = NoCall
    /\ UNCHANGED call
    /\ \/ answer' \in {[answer EXCEPT ![t] = a] : a \in {"yes", "void"}} /\ Effect(t)
       \/ answer' \in {[answer EXCEPT ![t] = a] : a \in {"no", "raised", "void"}} /\ UNCHANGED store

Next == \E t \in Threads : Begin(t) \/ Finish(t) \/ OneStep(t)

Spec == Init /\ [][Next]_vars
=============================================================================
