------------------------------ MODULE MCQueries ------------------------------
(* Queries for a program that keeps to what the calls can do. *)
EXTENDS Queries

Text(n) == Object("string", "other", n)

Stored(k) ==
    CASE k = "c"        -> {Number(-CharHalf), Number(CharHalf - 1)}
      [] k = "i"        -> {Number(-IntHalf), Number(IntHalf - 1)}
      [] k = "q"        -> {Number(-LongHalf), Number(LongHalf - 1)}
      [] k = "Q"        -> {Number(1), Number(2 * LongHalf - 1)}
      [] k = "NSString" -> {Numeral(1), Text(1), Nil, Empty}
      [] k = "NSDate"   -> {Object("date", "plain", 1), Nil}
      [] k = "NSData"   -> {Object("data", "other", 1), Nil}
      [] k = "NSNumber" -> {Number(1), Nil}
      [] k = "NSMutableString" -> {Numeral(1), Empty, Nil}
      [] OTHER          -> {Object("object", "plain", 1), Object("object", "plain", 2), Nil}

Scalar == {"c", "i", "q", "Q", "NSString"}

Later == {<<"c", "i">>, <<"c", "q">>, <<"i", "q">>}

None    == [form |-> "nil", entries |-> <<>>]
Blank   == [form |-> "blank", entries |-> <<>>]
ById(S) == [form |-> "dictionary", entries |-> ("id" :> S)]
Meets(k) ==
    IF k \notin Scalar THEN {}
    ELSE LET some == Stored(k) \ {Nil, Empty}
             o    == CHOOSE x \in some : TRUE
         IN  {[form |-> "text", entries |-> ("p" :> {o})],
              [form |-> "dictionary", entries |-> ("id" :> {Number(i) : i \in Ids \ {1}} @@ "p" :> {o})],
              [form |-> "dictionary", entries |-> ("p" :> some)]}

Empties == [form |-> "dictionary", entries |-> <<>>]

Given(op, k, m) ==
    LET some == Meets(k) \cup {ById({Number(1)})}
    IN  CASE op = "query"       -> some \cup {None, Blank}
          [] op = "values"      -> IF k = m /\ k \in {"i", "q"} THEN some \cup {None} ELSE {}
          [] op = "integer"     -> IF k \in {"c", "i"} THEN some \cup {None} ELSE {}
          [] op = "updateModel" -> some \cup {None, Blank, Empties}
          [] op = "delete"      -> some \cup {Empties}
          [] OTHER              -> some

Sorts(k) == {"none", "id"} \cup (IF k \in {"i", "q"} THEN {"p"} ELSE {})

Pages == {<<0, 0>>, <<1, 0>>, <<1, 1>>}
=============================================================================
