---------------------------- MODULE MCTableSchema ----------------------------
(* TableSchema for two classes that share a table and one that does not. *)
EXTENDS TableSchema, TLC

U(l) == [letter |-> l, upper |-> TRUE]
L(l) == [letter |-> l, upper |-> FALSE]

\* NBUser, PPUser and NBNote, cut short.
ClassNames == "NBUser" :> <<U("n"), U("b"), U("u"), L("s")>>
           @@ "PPUser" :> <<U("p"), U("p"), U("u"), L("s")>>
           @@ "NBNote" :> <<U("n"), U("b"), U("n"), L("t")>>

Key(col)   == [column |-> col, typed |-> TRUE, key |-> TRUE]
Plain(col) == [column |-> col, typed |-> TRUE, key |-> FALSE]
Odd(col)   == [column |-> col, typed |-> FALSE, key |-> FALSE]

\* The second version adds properties, one of a type without a column.
ClassFields ==
    1 :> ("NBUser" :> {Key("id")} @@ "PPUser" :> {Key("id"), Plain("nick")} @@ "NBNote" :> {Key("id")})
 @@ 2 :> ("NBUser" :> {Key("id"), Plain("mail"), Plain("name")}
       @@ "PPUser" :> {Key("id"), Key("nick")} @@ "NBNote" :> {Key("id"), Plain("mail"), Odd("rect")})

Extra == "NBUser" :> {<<"old">>} @@ "PPUser" :> {<<"old">>} @@ "NBNote" :> {}
=============================================================================
