----------------------------- MODULE Collection -----------------------------
(***************************************************************************)
(* What the calls with a where argument promise a program that thinks of   *)
(* its models and not of tables: a condition is about the values of the    *)
(* models, every entry of a dictionary must hold, a change or a removal    *)
(* touches the models meant and no others, and a query answers them, in    *)
(* the order and the window asked for.  What a property keeps of a value   *)
(* depends on its kind, and on whether it was inserted or set by an update.*)
(***************************************************************************)
EXTENDS SequencesExt, Integers

CONSTANTS
    Ids,            \* the keys of the models, which are numbers
    NoModel, NoCall, Nil,
    Unreadable,     \* a value that raises an exception when it is read
    Key(_),         \* a key as a value
    Kept(_, _),     \* what a property of a kind keeps of a value inserted,
    Changed(_, _)   \* and of one set by an update

VARIABLES
    kind,      \* of the property, in this version of the program
    models,    \* for each key, the property of the model, or NoModel
    call,      \* the last call and its arguments, or NoCall
    answer     \* to it

vars == <<kind, models, call, answer>>

There == {i \in Ids : models[i] # NoModel}

ValueOf(i, column) == IF column = "id" THEN Key(i) ELSE models[i]

\* The models that have one of the values in every column.
Meant(entries) ==
    {i \in There : \A c \in DOMAIN entries : ValueOf(i, c) # Nil /\ ValueOf(i, c) \in entries[c]}

Before(order, i, j) ==
    CASE order = "id" -> i < j [] order = "p" -> models[i].n < models[j].n [] OTHER -> FALSE

\* The ways to list some models in an order.
Listings(ids, order) ==
    {s \in SetToSeqs(ids) : \A a, b \in DOMAIN s : a < b => ~Before(order, s[b], s[a])}

Page(s, offset, count) ==
    SubSeq(s, offset + 1, IF count > 0 /\ offset + count < Len(s) THEN offset + count ELSE Len(s))

Says(what, list) == answer' = [what |-> what, list |-> list]

Init == models = [i \in Ids |-> NoModel] /\ call = NoCall /\ answer = NoCall

\* A model is stored; one that is there may stay as it is.
Put ==
    /\ call'.op = "insert"
    /\ LET i == call'.key
       IN  models' = [models EXCEPT ![i] = IF @ = NoModel \/ call'.replace THEN Kept(kind, call'.value) ELSE @]
    /\ Says("yes", <<>>)

\* A change or a removal has a condition.
Change ==
    /\ call'.op \in {"updateTable", "updateModel"} /\ DOMAIN call'.entries # {}
    /\ models' = [i \in Ids |-> IF i \in Meant(call'.entries) THEN Changed(kind, call'.value) ELSE models[i]]
    /\ Says("yes", <<>>)

Discard ==
    /\ call'.op = "delete" /\ DOMAIN call'.entries # {}
    /\ models' = [i \in Ids |-> IF i \in Meant(call'.entries) THEN NoModel ELSE models[i]]
    /\ Says("yes", <<>>)

\* With nothing to set, or no condition where there must be one.
Refuse ==
    /\ call'.op \in {"updateModel", "delete"}
    /\ call'.value = Nil \/ DOMAIN call'.entries = {}
    /\ Says("no", <<>>)
    /\ UNCHANGED models

Ask ==
    /\ call'.op = "query"
    /\ \E s \in Listings(Meant(call'.entries), call'.order) :
         LET page == Page(s, call'.offset, call'.count)
         IN  IF \E a \in DOMAIN page : models[page[a]] = Unreadable
               THEN Says("raised", <<>>)
               ELSE Says("models", [a \in DOMAIN page |-> [key |-> Key(page[a]), value |-> models[page[a]]]])
    /\ UNCHANGED models

\* The values of the models that have one.
AskValues ==
    /\ call'.op = "values"
    /\ \E s \in Listings({i \in Meant(call'.entries) : models[i] # Nil}, "none") :
         Says("values", [a \in DOMAIN s |-> models[s[a]]])
    /\ UNCHANGED models

\* The value of one model, or 0.
AskInteger ==
    /\ call'.op = "integer"
    /\ \/ Meant(call'.entries) = {} /\ Says("values", <<Key(0)>>)
       \/ \E i \in Meant(call'.entries) : Says("values", <<models[i]>>)
    /\ UNCHANGED models

Call ==
    /\ call = NoCall /\ UNCHANGED kind
    /\ Put \/ Change \/ Discard \/ Refuse \/ Ask \/ AskValues \/ AskInteger

Return == call' = NoCall /\ answer' = NoCall /\ UNCHANGED <<kind, models>>

\* Another version of the program, with the same models.
Relaunch == call = NoCall /\ UNCHANGED <<models, call, answer>>

Next == Call \/ Return \/ Relaunch

Spec == Init /\ [][Next]_vars
=============================================================================
