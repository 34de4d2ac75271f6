---------------------------- MODULE MCModelStore ----------------------------
(* ModelStore for a class with a key of two columns and two other columns. *)
EXTENDS ModelStore, TLC

CONSTANTS One, Two, t1, t2

AllColumns == {"id", "kind", "name", "note"}
Key        == {"id", "kind"}
TwoValues  == {One, Two}

Model(id, kind, name, note) == [id |-> id, kind |-> kind, name |-> name, note |-> note]

\* Keys that have a part in common and differ in the other.
First(name, note)  == Model(One, One, name, note)
Second(name, note) == Model(One, Two, name, note)

\* The threads write different keys, which have parts in common.
Disjoint == t1 :> {First(One, One), First(Two, Nil), Second(One, One)}
         @@ t2 :> {Model(Two, One, One, Nil)}

\* Both threads store whole models with both keys.
Shared ==
    LET Whole == {First(One, One), First(Two, Two), Second(One, One), Second(Two, Two)}
    IN  t1 :> Whole @@ t2 :> Whole

\* One thread, whose models have properties that are nil.
Alone == t1 :> {First(One, One), First(Two, Nil), Second(One, One)}

NoColumnLists   == {{}}
KeyColumnLists  == {{}, Key \cup {"note"}}
=============================================================================
