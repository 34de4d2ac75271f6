-------------------------- MODULE ModelStoreProofs --------------------------
(***************************************************************************)
(* What the writing calls keep for any threads, tables, models and arrays. *)
(***************************************************************************)
EXTENDS ModelStore, TLAPS, WellFoundedInduction

\* A set of numbers with 0 and every successor holds all of them.
LEMMA Induction ==
    ASSUME NEW P, 0 \in P, \A n \in Nat : n \in P => n + 1 \in P
    PROVE  Nat \subseteq P
<1> SUFFICES ASSUME Nat \ P # {} PROVE FALSE OBVIOUS
<1>1. PICK n \in Nat \ P : \A m \in Nat \ P : <<m, n>> \notin OpToRel(<, Nat)
  BY WFMin, NatLessThanWellFounded
<1>2. n \in Nat /\ n # 0
  BY <1>1
<1>3. n - 1 \in Nat /\ n - 1 < n /\ (n - 1) + 1 = n
  BY <1>2
<1>4. <<n - 1, n>> \in OpToRel(<, Nat)
  BY <1>2, <1>3 DEF OpToRel
<1>5. n - 1 \in P
  BY <1>1, <1>3, <1>4
<1>6. n \in P
  BY <1>3, <1>5
<1> QED BY <1>1, <1>6

-----------------------------------------------------------------------------
(* What InTurn computes *)

\* What f[i] is after the first i statements, for i up to n.
RunsTo(f, n, stmt, Q, rows, ms) ==
    f \in [0..n -> Q] /\ f[0] = rows /\ \A i \in 1..n : f[i] = stmt[ms[i]][f[i - 1]]

\* The definition of InTurn has a solution for every prefix of the array.
LEMMA PrefixExists ==
    ASSUME NEW stmt, NEW Q, NEW rows \in Q, NEW ms, Len(ms) \in Nat,
           \A x \in Q, i \in 1..Len(ms) : stmt[ms[i]][x] \in Q
    PROVE  \E f : RunsTo(f, Len(ms), stmt, Q, rows, ms)
<1> DEFINE Solves(f, n) ==
             f \in [0..n -> Q] /\ f[0] = rows /\ \A i \in 1..n : f[i] = stmt[ms[i]][f[i - 1]]
           Solved(n) == \E f : Solves(f, n)
           P == {n \in Nat : n <= Len(ms) => Solved(n)}
<1>1. 0 \in P
  <2>1. Solves([i \in 0..0 |-> rows], 0)
    OBVIOUS
  <2> QED BY <2>1
<1>2. ASSUME NEW n \in Nat, n + 1 <= Len(ms), Solved(n) PROVE Solved(n + 1)
  <2>1. PICK f : Solves(f, n)
    BY <1>2
  <2> DEFINE g == [i \in 0..(n + 1) |-> IF i = n + 1 THEN stmt[ms[n + 1]][f[n]] ELSE f[i]]
  <2>2. f[n] \in Q /\ n + 1 \in 1..Len(ms)
    BY <1>2, <2>1
  <2>3. g \in [0..(n + 1) -> Q]
    BY <2>1, <2>2
  <2>4. g[0] = rows
    BY <2>1
  <2>5. ASSUME NEW i \in 1..(n + 1) PROVE g[i] = stmt[ms[i]][g[i - 1]]
    <3>1. CASE i = n + 1
      <4>1. g[n + 1] = stmt[ms[n + 1]][f[n]] /\ g[n] = f[n] /\ (n + 1) - 1 = n
        OBVIOUS
      <4> QED BY <3>1, <4>1
    <3>2. CASE i \in 1..n
      <4>1. g[i] = f[i] /\ g[i - 1] = f[i - 1]
        BY <3>2
      <4> QED BY <2>1, <3>2, <4>1
    <3> QED BY <3>1, <3>2
  <2>6. Solves(g, n + 1)
    BY <2>3, <2>4, <2>5
  <2> QED BY <2>6
<1>3. Len(ms) \in P
  <2> HIDE DEF Solved
  <2>1. \A n \in Nat : n \in P => n + 1 \in P
    BY <1>2
  <2> HIDE DEF P
  <2> QED BY <1>1, <2>1, Induction
<1>4. PICK f : Solves(f, Len(ms))
  BY <1>3
<1> QED BY <1>4 DEF RunsTo

\* The rows after each statement of an array.
Passes(after, stmt, Q, rows, ms) ==
    /\ after \in [0..Len(ms) -> Q]
    /\ after[0] = rows
    /\ \A i \in 1..Len(ms) : after[i] = stmt[ms[i]][after[i - 1]]
    /\ InTurn(stmt, rows, ms) = after[Len(ms)]

\* InTurn applies one step after the other, and stays where they lead.
LEMMA InTurnRuns ==
    ASSUME NEW stmt, NEW Q, NEW rows \in Q, NEW ms, Len(ms) \in Nat,
           \A x \in Q, i \in 1..Len(ms) : stmt[ms[i]][x] \in Q
    PROVE  \E after : Passes(after, stmt, Q, rows, ms)
<1>0. \E f : f = [i \in 0..Len(ms) |-> IF i = 0 THEN rows ELSE stmt[ms[i]][f[i - 1]]]
  <2>1. PICK f : RunsTo(f, Len(ms), stmt, Q, rows, ms)
    BY PrefixExists
  <2>2. f = [i \in 0..Len(ms) |-> IF i = 0 THEN rows ELSE stmt[ms[i]][f[i - 1]]]
    BY <2>1 DEF RunsTo
  <2> QED BY <2>2
<1> DEFINE after == CHOOSE f : f = [i \in 0..Len(ms) |-> IF i = 0 THEN rows ELSE stmt[ms[i]][f[i - 1]]]
<1>1. after = [i \in 0..Len(ms) |-> IF i = 0 THEN rows ELSE stmt[ms[i]][after[i - 1]]]
  BY <1>0
<1>2. InTurn(stmt, rows, ms) = after[Len(ms)]
  BY DEF InTurn
<1> HIDE DEF after
<1>3. after[0] = rows /\ \A i \in 1..Len(ms) : after[i] = stmt[ms[i]][after[i - 1]]
  <2>1. 0 \in 0..Len(ms) /\ \A i \in 1..Len(ms) : i \in 0..Len(ms) /\ i # 0
    OBVIOUS
  <2> QED BY <1>1, <2>1
<1> DEFINE P == {n \in Nat : n <= Len(ms) => after[n] \in Q}
<1>4. 0 \in P
  BY <1>3
<1>5. ASSUME NEW n \in Nat, n \in P PROVE n + 1 \in P
  <2>1. CASE n + 1 <= Len(ms)
    <3>1. n + 1 \in 1..Len(ms) /\ (n + 1) - 1 = n /\ after[n] \in Q
      BY <1>5, <2>1
    <3>2. after[n + 1] = stmt[ms[n + 1]][after[n]]
      BY <1>3, <3>1
    <3> QED BY <3>1, <3>2
  <2> QED BY <2>1
<1>6. \A n \in 0..Len(ms) : after[n] \in Q
  <2>1. Nat \subseteq P
    <3> HIDE DEF P
    <3> QED BY <1>4, <1>5, Induction
  <2> QED BY <2>1
<1>7. after \in [0..Len(ms) -> Q]
  BY <1>1, <1>6
<1>8. Passes(after, stmt, Q, rows, ms)
  BY <1>2, <1>3, <1>7 DEF Passes
<1> QED BY <1>8

\* What every statement keeps, an array of them keeps.
LEMMA InTurnKeeps ==
    ASSUME NEW stmt, NEW Q, NEW rows \in Q, NEW ms, Len(ms) \in Nat,
           \A x \in Q, i \in 1..Len(ms) : stmt[ms[i]][x] \in Q
    PROVE  /\ InTurn(stmt, rows, ms) \in Q
           /\ Len(ms) > 0 => \E x \in Q : InTurn(stmt, rows, ms) = stmt[ms[Len(ms)]][x]
<1>0. PICK after : Passes(after, stmt, Q, rows, ms)
  BY InTurnRuns
<1>1. /\ after \in [0..Len(ms) -> Q]
      /\ \A i \in 1..Len(ms) : after[i] = stmt[ms[i]][after[i - 1]]
      /\ InTurn(stmt, rows, ms) = after[Len(ms)]
  BY <1>0 DEF Passes
<1>2. InTurn(stmt, rows, ms) \in Q
  BY <1>1
<1>3. ASSUME Len(ms) > 0 PROVE \E x \in Q : InTurn(stmt, rows, ms) = stmt[ms[Len(ms)]][x]
  <2>1. Len(ms) \in 1..Len(ms) /\ Len(ms) - 1 \in 0..Len(ms)
    BY <1>3
  <2> QED BY <1>1, <2>1
<1> QED BY <1>2, <1>3

\* An array of one is its one statement.
LEMMA InTurnOne ==
    ASSUME NEW stmt, NEW rows, NEW m
    PROVE  InTurn(stmt, rows, <<m>>) = stmt[m][rows]
<1> DEFINE Q == {rows, stmt[m][rows]}
           last == stmt[m][rows]
           f == [i \in 0..1 |-> IF i = 0 THEN rows ELSE last]
           after == CHOOSE g : g = [i \in 0..1 |-> IF i = 0 THEN rows ELSE stmt[<<m>>[i]][g[i - 1]]]
<1>1. Len(<<m>>) = 1 /\ <<m>>[1] = m
  OBVIOUS
<1>2. f = [i \in 0..1 |-> IF i = 0 THEN rows ELSE stmt[<<m>>[i]][f[i - 1]]]
  <2>1. \A i \in 0..1 : f[i] = IF i = 0 THEN rows ELSE stmt[<<m>>[i]][f[i - 1]]
    <3>1. f[0] = rows /\ f[1] = last
      OBVIOUS
    <3>2. \A i \in 0..1 : i = 0 \/ i = 1
      OBVIOUS
    <3> HIDE DEF f
    <3> QED BY <1>1, <3>1, <3>2
  <2> QED BY <2>1
<1>3. after = [i \in 0..1 |-> IF i = 0 THEN rows ELSE stmt[<<m>>[i]][after[i - 1]]]
  <2>1. \E g : g = [i \in 0..1 |-> IF i = 0 THEN rows ELSE stmt[<<m>>[i]][g[i - 1]]]
    BY <1>2
  <2> QED BY <2>1
<1>4. InTurn(stmt, rows, <<m>>) = after[1]
  BY <1>1 DEF InTurn
<1> HIDE DEF after
<1>5. after[0] = rows /\ after[1] = stmt[<<m>>[1]][after[0]]
  BY <1>3
<1> QED BY <1>1, <1>4, <1>5

-----------------------------------------------------------------------------
(* The statements, on any rows *)

\* What an update makes of a row it matches.
Changed(r, m, cols) == [c \in Columns |-> IF c \in Sets(m, cols) THEN m[c] ELSE r[c]]

\* The row of a model is a row, with the key of the model as far as it is named.
LEMMA RowOfModel ==
    ASSUME NEW m, IsModel(m), NEW cols \in SUBSET Columns
    PROVE  /\ RowOf(m, cols) \in Rows
           /\ \A k \in KeyColumns : RowOf(m, cols)[k] \in {m[k], Nil}
           /\ cols = {} \/ KeyColumns \subseteq cols => \A k \in KeyColumns : RowOf(m, cols)[k] = m[k]
<1>1. m \in [Columns -> Values \cup {Nil}]
  BY DEF IsModel
<1>2. \A c \in Columns : RowOf(m, cols)[c] \in Cells
  BY <1>1 DEF RowOf, Cells, Archived
<1>3. RowOf(m, cols) \in Rows
  BY <1>2 DEF RowOf, Rows
<1>4. \A k \in KeyColumns : k \in Columns /\ k \notin BlobColumns
  BY RecordsAssumption
<1> QED BY <1>3, <1>4 DEF RowOf

\* Inserting gives rows.
LEMMA InsertedRows ==
    ASSUME NEW x \in SUBSET Rows, NEW m, IsModel(m), NEW cols \in SUBSET Columns, NEW replace
    PROVE  Inserted(x, m, cols, replace) \in SUBSET Rows
  BY RowOfModel DEF Inserted

\* So does updating; a row that is updated keeps its key.
LEMMA ChangedRow ==
    ASSUME NEW r \in Rows, NEW m, IsModel(m), NEW cols \in SUBSET Columns
    PROVE  /\ Changed(r, m, cols) \in Rows
           /\ ~Raises(m, cols) /\ (\A k \in KeyColumns : m[k] # Nil => r[k] = m[k]) =>
                \A k \in KeyColumns : Changed(r, m, cols)[k] = r[k]
<1>1. m \in [Columns -> Values \cup {Nil}] /\ Sets(m, cols) \subseteq Columns
  BY DEF IsModel, Sets
<1>2. \A c \in Columns : Changed(r, m, cols)[c] \in Cells
  BY <1>1 DEF Changed, Cells, Rows
<1>3. Changed(r, m, cols) \in Rows
  BY <1>2 DEF Changed, Rows
<1>4. ASSUME ~Raises(m, cols), NEW k \in KeyColumns, m[k] # Nil => r[k] = m[k]
      PROVE  Changed(r, m, cols)[k] = r[k]
  <2>1. k \in Columns
    BY RecordsAssumption
  <2>2. k \in Sets(m, cols) => m[k] # Nil
    BY <1>4 DEF Sets, Raises
  <2> QED BY <1>4, <2>1, <2>2 DEF Changed
<1> QED BY <1>3, <1>4

\* The rows after an update are the rows before it, those that match changed.
LEMMA UpdatedFrom ==
    ASSUME NEW x \in SUBSET Rows, NEW m, IsModel(m), NEW cols \in SUBSET Columns
    PROVE  /\ Updated(x, m, cols) = {IF r \in Matching(x, m) THEN Changed(r, m, cols) ELSE r : r \in x}
           /\ Updated(x, m, cols) \in SUBSET Rows
<1>1. Updated(x, m, cols) = {IF r \in Matching(x, m) THEN Changed(r, m, cols) ELSE r : r \in x}
  BY DEF Updated, Changed
<1> QED BY <1>1, ChangedRow

\* The rows in which a model is found by its key, those in which it is not, and
\* those in which no two have one key.
Having(n)    == {x \in SUBSET Rows : Matching(x, n) # {}}
Lacking(n)   == {x \in SUBSET Rows : Matching(x, n) = {}}
DistinctKeys == {x \in SUBSET Rows : \A r, s \in x : SameKey(r, s) => r = s}

\* A model stays where it is found, whatever is inserted,
LEMMA InsertKeepsHaving ==
    ASSUME NEW n, NEW x \in Having(n), NEW m, IsModel(m), NEW cols \in SUBSET Columns, NEW replace
    PROVE  Inserted(x, m, cols, replace) \in Having(n)
<1> DEFINE r == RowOf(m, cols)
           y == Inserted(x, m, cols, replace)
<1>1. y \in SUBSET Rows
  BY InsertedRows DEF Having
<1>2. PICK s \in x : \A k \in KeyColumns : n[k] # Nil => s[k] = n[k]
  BY DEF Having, Matching
<1>3. CASE s \in y
  BY <1>1, <1>2, <1>3 DEF Having, Matching
<1>4. CASE s \notin y
  <2>1. SameKey(s, r) /\ r \in y
    BY <1>2, <1>4 DEF Inserted
  <2>2. \A k \in KeyColumns : n[k] # Nil => r[k] = n[k]
    BY <1>2, <2>1 DEF SameKey
  <2> HIDE DEF r, y
  <2>3. y \in Having(n)
    BY <1>1, <2>1, <2>2 DEF Having, Matching
  <2> QED BY <2>3 DEF y
<1> QED BY <1>3, <1>4

\* or updated.
LEMMA UpdateKeepsHaving ==
    ASSUME NEW n, NEW x \in Having(n), NEW m, IsModel(m), NEW cols \in SUBSET Columns, ~Raises(m, cols)
    PROVE  Updated(x, m, cols) \in Having(n)
<1>0. x \in SUBSET Rows
  BY DEF Having
<1>1. PICK s \in x : \A k \in KeyColumns : n[k] # Nil => s[k] = n[k]
  BY DEF Having, Matching
<1> DEFINE t == IF s \in Matching(x, m) THEN Changed(s, m, cols) ELSE s
<1>2. t \in Updated(x, m, cols)
  <2>1. Updated(x, m, cols) = {IF r \in Matching(x, m) THEN Changed(r, m, cols) ELSE r : r \in x}
    BY <1>0, UpdatedFrom
  <2> QED BY <2>1
<1>3. \A k \in KeyColumns : t[k] = s[k]
  BY <1>0, <1>1, ChangedRow DEF Matching
<1>4. \A k \in KeyColumns : n[k] # Nil => t[k] = n[k]
  BY <1>1, <1>3
<1> HIDE DEF t
<1>5. t \in Matching(Updated(x, m, cols), n)
  BY <1>2, <1>4 DEF Matching
<1> QED BY <1>0, <1>5, UpdatedFrom DEF Having

\* A model with a full key stays unfound while others are inserted,
LEMMA InsertKeepsLacking ==
    ASSUME NEW n, NEW x \in Lacking(n), NEW m, IsModel(m), NEW cols \in SUBSET Columns, NEW replace,
           \A k \in KeyColumns : n[k] # Nil, \E k \in KeyColumns : m[k] # n[k]
    PROVE  Inserted(x, m, cols, replace) \in Lacking(n)
<1> DEFINE r == RowOf(m, cols)
<1>1. \E k \in KeyColumns : r[k] # n[k]
  BY RowOfModel
<1>2. \A s \in Inserted(x, m, cols, replace) : s \in x \/ s = r
  BY DEF Inserted
<1>3. \A s \in x : \E k \in KeyColumns : n[k] # Nil /\ s[k] # n[k]
  BY DEF Lacking, Matching
<1> HIDE DEF r
<1>4. \A s \in Inserted(x, m, cols, replace) : \E k \in KeyColumns : n[k] # Nil /\ s[k] # n[k]
  BY <1>1, <1>2, <1>3
<1>5. Matching(Inserted(x, m, cols, replace), n) = {}
  BY <1>4 DEF Matching
<1> QED BY <1>5, InsertedRows DEF Lacking

\* or updated.
LEMMA UpdateKeepsLacking ==
    ASSUME NEW n, NEW x \in Lacking(n), NEW m, IsModel(m), NEW cols \in SUBSET Columns, ~Raises(m, cols)
    PROVE  Updated(x, m, cols) \in Lacking(n)
<1>0. x \in SUBSET Rows
  BY DEF Lacking
<1>1. ASSUME NEW t \in Updated(x, m, cols) PROVE t \notin Matching(Updated(x, m, cols), n)
  <2>1. PICK s \in x : t = IF s \in Matching(x, m) THEN Changed(s, m, cols) ELSE s
    BY <1>0, UpdatedFrom
  <2>2. \A k \in KeyColumns : t[k] = s[k]
    BY <1>0, <2>1, ChangedRow DEF Matching
  <2>3. s \notin Matching(x, n)
    BY DEF Lacking
  <2> QED BY <2>2, <2>3 DEF Matching
<1>2. Matching(Updated(x, m, cols), n) = {}
  BY <1>1 DEF Matching
<1> QED BY <1>0, <1>2, UpdatedFrom DEF Lacking

\* Inserting makes no second row of a key,
LEMMA InsertKeepsDistinct ==
    ASSUME NEW x \in DistinctKeys, NEW m, IsModel(m), NEW cols \in SUBSET Columns, NEW replace
    PROVE  Inserted(x, m, cols, replace) \in DistinctKeys
<1> DEFINE r == RowOf(m, cols)
           y == Inserted(x, m, cols, replace)
<1>1. \A s, t \in x : SameKey(s, t) => s = t
  BY DEF DistinctKeys
<1>2. \A s \in y : s \in x \/ s = r
  BY DEF Inserted
<1>3. \A s \in y : s # r => ~SameKey(s, r) \/ y = x
  BY DEF Inserted
<1>4. \A s : SameKey(r, s) => SameKey(s, r)
  BY DEF SameKey
<1> HIDE DEF r, y
<1>5. \A s, t \in y : SameKey(s, t) => s = t
  BY <1>1, <1>2, <1>3, <1>4
<1>6. y \in SUBSET Rows
  BY InsertedRows DEF DistinctKeys, y
<1> QED BY <1>5, <1>6 DEF DistinctKeys, y

\* nor does updating.
LEMMA UpdateKeepsDistinct ==
    ASSUME NEW x \in DistinctKeys, NEW m, IsModel(m), NEW cols \in SUBSET Columns, ~Raises(m, cols)
    PROVE  Updated(x, m, cols) \in DistinctKeys
<1>0. x \in SUBSET Rows
  BY DEF DistinctKeys
<1> DEFINE Upd(r) == IF r \in Matching(x, m) THEN Changed(r, m, cols) ELSE r
<1>1. \A r \in x : \A k \in KeyColumns : Upd(r)[k] = r[k]
  BY <1>0, ChangedRow DEF Matching
<1>2. \A r, s \in x : SameKey(Upd(r), Upd(s)) => SameKey(r, s)
  BY <1>1 DEF SameKey
<1>3. \A r, s \in x : SameKey(Upd(r), Upd(s)) => Upd(r) = Upd(s)
  BY <1>2 DEF DistinctKeys
<1>4. Updated(x, m, cols) = {Upd(r) : r \in x} /\ Updated(x, m, cols) \in SUBSET Rows
  BY <1>0, UpdatedFrom
<1> HIDE DEF Upd
<1> QED BY <1>3, <1>4 DEF DistinctKeys

-----------------------------------------------------------------------------
(* Arrays *)

\* The models of an array are models of its thread.
LEMMA ArrayOf ==
    ASSUME NEW t \in Threads, NEW ms \in Arrays(t)
    PROVE  /\ Len(ms) \in Nat /\ Len(ms) > 0
           /\ \A i \in 1..Len(ms) : ms[i] \in ModelsOf[t] /\ ms[i] \in Range(ms) /\ i \in DOMAIN ms
<1>1. CASE ms \in {<<m>> : m \in ModelsOf[t]}
  <2>1. PICK m \in ModelsOf[t] : ms = <<m>>
    BY <1>1
  <2>2. Len(ms) = 1 /\ DOMAIN ms = {1} /\ ms[1] = m
    BY <2>1
  <2> QED BY <2>2 DEF Range
<1>2. CASE ms \in Several(t)
  <2>1. PICK m \in ModelsOf[t], n \in ModelsOf[t] : ms = <<m, n>>
    BY <1>2 DEF Several
  <2>2. Len(ms) = 2 /\ DOMAIN ms = {1, 2} /\ ms[1] = m /\ ms[2] = n
    BY <2>1
  <2>3. \A i \in 1..2 : ms[i] \in ModelsOf[t] /\ i \in DOMAIN ms
    BY <2>2
  <2> QED BY <2>2, <2>3 DEF Range
<1> QED BY <1>1, <1>2 DEF Arrays

\* An array keeps what each statement on a model of the thread keeps.
LEMMA InsertedAllKeeps ==
    ASSUME NEW t \in Threads, NEW ms \in Arrays(t), NEW cols, NEW replace,
           NEW Q \in SUBSET SUBSET Rows, NEW x \in Q,
           \A y \in Q, m \in ModelsOf[t] : Inserted(y, m, cols, replace) \in Q
    PROVE  InsertedAll(x, ms, cols, replace) \in Q
<1> DEFINE stmt == [m \in Range(ms) |-> [y \in SUBSET Rows |-> Inserted(y, m, cols, replace)]]
<1>1. \A y \in Q, i \in 1..Len(ms) : stmt[ms[i]][y] = Inserted(y, ms[i], cols, replace)
  BY ArrayOf
<1>2. \A y \in Q, i \in 1..Len(ms) : stmt[ms[i]][y] \in Q
  BY <1>1, ArrayOf
<1>3. InsertedAll(x, ms, cols, replace) = InTurn(stmt, x, ms)
  BY DEF InsertedAll
<1>4. Len(ms) \in Nat
  BY ArrayOf
<1> HIDE DEF stmt
<1>5. InTurn(stmt, x, ms) \in Q
  BY <1>2, <1>4, InTurnKeeps
<1> QED BY <1>3, <1>5

\* So does an array of updates,
LEMMA UpdatedAllKeeps ==
    ASSUME NEW t \in Threads, NEW ms \in Arrays(t), NEW cols, Survives(ms, cols),
           NEW Q \in SUBSET SUBSET Rows, NEW x \in Q,
           \A y \in Q, m \in ModelsOf[t] : ~Raises(m, cols) => Updated(y, m, cols) \in Q
    PROVE  UpdatedAll(x, ms, cols) \in Q
<1> DEFINE stmt == [m \in Range(ms) |-> [y \in SUBSET Rows |-> Updated(y, m, cols)]]
<1>1. \A y \in Q, i \in 1..Len(ms) : stmt[ms[i]][y] = Updated(y, ms[i], cols)
  BY ArrayOf
<1>2. \A i \in 1..Len(ms) : ~Raises(ms[i], cols)
  BY ArrayOf DEF Survives
<1>3. \A y \in Q, i \in 1..Len(ms) : stmt[ms[i]][y] \in Q
  BY <1>1, <1>2, ArrayOf
<1>4. UpdatedAll(x, ms, cols) = InTurn(stmt, x, ms)
  BY DEF UpdatedAll
<1>5. Len(ms) \in Nat
  BY ArrayOf
<1> HIDE DEF stmt
<1>6. InTurn(stmt, x, ms) \in Q
  BY <1>3, <1>5, InTurnKeeps
<1> QED BY <1>4, <1>6

\* and one of saves, whose last statement saves its last model.
LEMMA SavedAllKeeps ==
    ASSUME NEW t \in Threads, NEW ms \in Arrays(t), NEW cols, Survives(ms, cols),
           NEW Q \in SUBSET SUBSET Rows, NEW x \in Q,
           \A y \in Q, m \in ModelsOf[t] : ~Raises(m, cols) => Saved(y, m, cols, cols) \in Q
    PROVE  /\ SavedAll(x, ms, cols) \in Q
           /\ \E y \in Q : SavedAll(x, ms, cols) = Saved(y, ms[Len(ms)], cols, cols)
<1> DEFINE stmt == [m \in Range(ms) |-> [y \in SUBSET Rows |-> Saved(y, m, cols, cols)]]
<1>1. \A y \in Q, i \in 1..Len(ms) : stmt[ms[i]][y] = Saved(y, ms[i], cols, cols)
  BY ArrayOf
<1>2. \A i \in 1..Len(ms) : ~Raises(ms[i], cols)
  BY ArrayOf DEF Survives
<1>3. \A y \in Q, i \in 1..Len(ms) : stmt[ms[i]][y] \in Q
  BY <1>1, <1>2, ArrayOf
<1>4. SavedAll(x, ms, cols) = InTurn(stmt, x, ms)
  BY DEF SavedAll
<1>5. Len(ms) \in Nat /\ Len(ms) > 0 /\ Len(ms) \in 1..Len(ms)
  BY ArrayOf
<1> HIDE DEF stmt
<1>6. /\ InTurn(stmt, x, ms) \in Q
      /\ \E y \in Q : InTurn(stmt, x, ms) = stmt[ms[Len(ms)]][y]
  BY <1>3, <1>5, InTurnKeeps
<1> QED BY <1>1, <1>4, <1>5, <1>6

\* An array of one model is one statement.
LEMMA AllOfOne ==
    ASSUME NEW x \in SUBSET Rows, NEW m, NEW cols, NEW replace
    PROVE  /\ InsertedAll(x, <<m>>, cols, replace) = Inserted(x, m, cols, replace)
           /\ UpdatedAll(x, <<m>>, cols) = Updated(x, m, cols)
           /\ SavedAll(x, <<m>>, cols) = Saved(x, m, cols, cols)
<1>1. m \in Range(<<m>>)
  <2>1. 1 \in DOMAIN <<m>> /\ <<m>>[1] = m
    OBVIOUS
  <2> QED BY <2>1 DEF Range
<1>2. InsertedAll(x, <<m>>, cols, replace) = Inserted(x, m, cols, replace)
  <2> DEFINE stmt == [n \in Range(<<m>>) |-> [y \in SUBSET Rows |-> Inserted(y, n, cols, replace)]]
  <2>1. stmt[m][x] = Inserted(x, m, cols, replace)
    BY <1>1
  <2>2. InsertedAll(x, <<m>>, cols, replace) = InTurn(stmt, x, <<m>>)
    BY DEF InsertedAll
  <2> HIDE DEF stmt
  <2>3. InTurn(stmt, x, <<m>>) = stmt[m][x]
    BY InTurnOne
  <2> QED BY <2>1, <2>2, <2>3
<1>3. UpdatedAll(x, <<m>>, cols) = Updated(x, m, cols)
  <2> DEFINE stmt == [n \in Range(<<m>>) |-> [y \in SUBSET Rows |-> Updated(y, n, cols)]]
  <2>1. stmt[m][x] = Updated(x, m, cols)
    BY <1>1
  <2>2. UpdatedAll(x, <<m>>, cols) = InTurn(stmt, x, <<m>>)
    BY DEF UpdatedAll
  <2> HIDE DEF stmt
  <2>3. InTurn(stmt, x, <<m>>) = stmt[m][x]
    BY InTurnOne
  <2> QED BY <2>1, <2>2, <2>3
<1>4. SavedAll(x, <<m>>, cols) = Saved(x, m, cols, cols)
  <2> DEFINE stmt == [n \in Range(<<m>>) |-> [y \in SUBSET Rows |-> Saved(y, n, cols, cols)]]
  <2>1. stmt[m][x] = Saved(x, m, cols, cols)
    BY <1>1
  <2>2. SavedAll(x, <<m>>, cols) = InTurn(stmt, x, <<m>>)
    BY DEF SavedAll
  <2> HIDE DEF stmt
  <2>3. InTurn(stmt, x, <<m>>) = stmt[m][x]
    BY InTurnOne
  <2> QED BY <2>1, <2>2, <2>3
<1> QED BY <1>2, <1>3, <1>4

-----------------------------------------------------------------------------
(* What a step does to the rows of a table *)

\* A save under way is about a model of its thread.
OwnModels == \A t \in Threads : call[t] # NoCall => call[t].model \in ModelsOf[t]

StoreInv == TypeOK /\ OwnModels

\* A set of row sets that statements on the models M do not leave.
Keeps(Q, M) ==
    /\ Q \in SUBSET SUBSET Rows
    /\ \A x \in Q, m \in M, cols \in ColumnLists \cup {{}} :
         /\ \A replace \in BOOLEAN : Inserted(x, m, cols, replace) \in Q
         /\ ~Raises(m, cols) => Updated(x, m, cols) \in Q
         /\ "record" \in Removals => Deleted(x, m) \in Q

\* A table can be removed at this point.
Removable == MayRemoveTable /\ Removals \cap {"erase", "drop"} # {}

\* The models and column lists are what the statements' lemmas ask for.
LEMMA Arguments ==
    ASSUME NEW t \in Threads
    PROVE  /\ \A m \in ModelsOf[t] : m \in Models /\ IsModel(m)
           /\ \A cols \in ColumnLists \cup {{}} : cols \in SUBSET Columns
  BY ModelStoreAssumption DEF Models

\* What a set keeps under inserts and updates, it keeps under saves.
LEMMA SavedKeeps ==
    ASSUME NEW Q, NEW M, Keeps(Q, M), NEW x \in Q, NEW m \in M,
           NEW cols \in ColumnLists \cup {{}}, ~Raises(m, cols)
    PROVE  Saved(x, m, cols, cols) \in Q
  BY DEF Keeps, Saved

\* The rows of a table, after other rows were written to a table.
LEMMA BecomesKeeps ==
    ASSUME TypeOK, NEW T \in Tables, NEW rows, Becomes(T, rows), NEW U \in Tables, NEW Q,
           Created(U) \in Q, U = T => rows \in Q, NoTable \notin Q \/ {} \in Q
    PROVE  store' = [V \in Tables |-> store'[V]] /\ Created(U)' \in Q
<1>1. store' = [V \in Tables |-> store'[V]] /\ store'[U] = IF U = T THEN rows ELSE store[U]
  BY DEF TypeOK, Becomes
<1> QED BY <1>1 DEF Created, Exists

\* The same of a statement that fails if the table is missing.
LEMMA WriteKeeps ==
    ASSUME TypeOK, NEW t, NEW T \in Tables, NEW rows, NEW done, Write(t, T, rows, done), NEW U \in Tables,
           NEW Q, Created(U) \in Q, U = T => rows \in Q, NoTable \notin Q \/ {} \in Q
    PROVE  store' = [V \in Tables |-> store'[V]] /\ Created(U)' \in Q
<1>1. CASE Exists(T)
  BY <1>1, BecomesKeeps DEF Write
<1>2. CASE ~Exists(T)
  BY <1>2 DEF Write, TypeOK, Created, Exists
<1> QED BY <1>1, <1>2

\* What the statements of a thread do not leave, none of its steps leaves,
\* unless it removes a table.
LEMMA StepKeeps ==
    ASSUME StoreInv, NEW t \in Threads, Inserts(t) \/ Saves(t) \/ Changes(t), NEW U \in Tables,
           NEW Q, Keeps(Q, ModelsOf[t]), Created(U) \in Q, NoTable \notin Q \/ {} \in Q
    PROVE  /\ store' = [V \in Tables |-> store'[V]]
           /\ Created(U)' \in Q \/ (Created(U)' = {} /\ Removable)
<1> DEFINE Goal == store' = [V \in Tables |-> store'[V]] /\ Created(U)' \in Q
<1> USE DEF StoreInv
<1>0. Q \in SUBSET SUBSET Rows /\ ClassTable \in Tables /\ BatchTables \subseteq Tables
  BY ModelStoreAssumption DEF Keeps
<1>1. ASSUME UNCHANGED store PROVE Goal
  BY <1>1 DEF TypeOK, Created, Exists
<1>2. ASSUME NEW T \in Tables, NEW rows, NEW done,
             Becomes(T, rows) \/ Write(t, T, rows, done), T = U => rows \in Q
      PROVE  Goal
  BY <1>2, BecomesKeeps, WriteKeeps
<1>3. \A m \in ModelsOf[t], cols \in ColumnLists \cup {{}} :
        /\ \A replace \in BOOLEAN : Inserted(Created(U), m, cols, replace) \in Q
        /\ ~Raises(m, cols) => Updated(Created(U), m, cols) \in Q
        /\ "record" \in Removals => Deleted(Created(U), m) \in Q
  BY DEF Keeps
<1>4. ASSUME NEW ms \in Arrays(t), NEW cols \in ColumnLists \cup {{}}, NEW replace \in BOOLEAN
      PROVE  InsertedAll(Created(U), ms, cols, replace) \in Q
  <2>1. \A y \in Q, m \in ModelsOf[t] : Inserted(y, m, cols, replace) \in Q
    BY DEF Keeps
  <2> QED BY <1>0, <2>1, InsertedAllKeeps
<1>5. ASSUME NEW ms \in Arrays(t), NEW cols \in ColumnLists \cup {{}}, Survives(ms, cols)
      PROVE  UpdatedAll(Created(U), ms, cols) \in Q /\ SavedAll(Created(U), ms, cols) \in Q
  <2>1. \A y \in Q, m \in ModelsOf[t] : ~Raises(m, cols) => Updated(y, m, cols) \in Q
    BY DEF Keeps
  <2>2. \A y \in Q, m \in ModelsOf[t] : ~Raises(m, cols) => Saved(y, m, cols, cols) \in Q
    BY SavedKeeps
  <2> QED BY <1>0, <1>5, <2>1, <2>2, UpdatedAllKeeps, SavedAllKeeps
<1> HIDE DEF Goal
<1>6. \A m \in ModelsOf[t] : \A cols : <<m>> \in Arrays(t) /\ (Survives(<<m>>, cols) => ~Raises(m, cols))
  <2>1. \A m : 1 \in DOMAIN <<m>> /\ <<m>>[1] = m
    OBVIOUS
  <2> QED BY <2>1 DEF Arrays, Survives
<1>7. \A ms \in Several(t) : ms \in Arrays(t)
  BY DEF Arrays
<1>8. CASE Inserts(t)
  <2>1. ASSUME NEW m \in ModelsOf[t], NEW replace \in BOOLEAN, Insert(t, m, replace) PROVE Goal
    BY <1>0, <1>2, <1>3, <2>1 DEF Insert
  <2>2. ASSUME NEW T \in Tables, NEW m \in ModelsOf[t], NEW replace \in BOOLEAN, InsertNamed(t, T, m, replace)
        PROVE  Goal
    BY <1>2, <1>3, <2>2 DEF InsertNamed
  <2>3. ASSUME NEW ms \in Arrays(t), NEW replace \in BOOLEAN, InsertArray(t, ms, replace) PROVE Goal
    BY <1>0, <1>2, <1>4, <2>3 DEF InsertArray
  <2>4. ASSUME NEW T \in Tables, NEW ms \in Several(t), NEW replace \in BOOLEAN,
               InsertArrayNamed(t, T, ms, replace)
        PROVE  Goal
    BY <1>2, <1>4, <1>7, <2>4 DEF InsertArrayNamed
  <2>5. ASSUME NEW T \in Tables, NEW ms \in Arrays(t), NEW cols \in ColumnLists, NEW replace \in BOOLEAN,
               InsertArrayColumns(t, T, ms, cols, replace)
        PROVE  Goal
    BY <1>2, <1>4, <2>5 DEF InsertArrayColumns
  <2>6. Goal
    BY <1>8, <2>1, <2>2, <2>3, <2>4, <2>5 DEF Inserts
  <2> QED BY <2>6 DEF Goal
<1>9. CASE Saves(t)
  <2>1. ASSUME NEW T \in Tables, NEW m \in ModelsOf[t], NEW cols \in ColumnLists, NEW creates \in BOOLEAN,
               SaveQuery(t, T, m, cols, creates)
        PROVE  Goal
    BY <1>1, <2>1 DEF SaveQuery
  <2>2. ASSUME NEW T \in Tables, NEW m \in ModelsOf[t], NEW cols \in ColumnLists, SaveArrayOfOne(t, T, m, cols)
        PROVE  Goal
    <3>1. Survives(<<m>>, cols) /\ <<m>> \in Arrays(t)
      BY <1>6, <2>2 DEF SaveArrayOfOne
    <3>2. Becomes(T, SavedAll(Created(T), <<m>>, cols))
      BY <2>2 DEF SaveArrayOfOne
    <3> QED BY <1>2, <1>5, <3>1, <3>2
  <2>3. ASSUME SaveUpdate(t) PROVE Goal
    <3> DEFINE c == call[t]
    <3>1. c.table \in Tables /\ c.model \in ModelsOf[t] /\ c.columns \in ColumnLists
      BY <2>3 DEF SaveUpdate, TypeOK, Calls, OwnModels
    <3>2. \/ UNCHANGED store
          \/ ~Raises(c.model, c.columns) /\ Write(t, c.table, Updated(Created(c.table), c.model, c.columns), "yes")
      BY <2>3 DEF SaveUpdate
    <3> HIDE DEF c
    <3> QED BY <1>1, <1>2, <1>3, <3>1, <3>2
  <2>4. ASSUME SaveInsert(t) PROVE Goal
    <3> DEFINE c == call[t]
    <3>1. c.table \in Tables /\ c.model \in ModelsOf[t]
      BY <2>4 DEF SaveInsert, TypeOK, Calls, OwnModels
    <3>2. \/ Becomes(c.table, Inserted(Created(c.table), c.model, {}, FALSE))
          \/ Write(t, c.table, Inserted(Created(c.table), c.model, {}, FALSE), "yes")
      BY <2>4 DEF SaveInsert
    <3> HIDE DEF c
    <3> QED BY <1>2, <1>3, <3>1, <3>2
  <2>5. ASSUME NEW T \in BatchTables, NEW ms \in Several(t), NEW cols \in ColumnLists, SaveArray(t, T, ms, cols)
        PROVE  Goal
    <3> DEFINE made == [store EXCEPT ![T] = Created(T)]
    <3>1. T \in Tables /\ Survives(ms, cols)
      BY <1>0, <2>5 DEF SaveArray
    <3>2. /\ made = [V \in Tables |-> made[V]]
          /\ made[U] = IF U = T THEN Created(U) ELSE store[U]
      BY <3>1 DEF TypeOK
    <3>3. made[U] \in Q \/ (made[U] = NoTable /\ {} \in Q)
      BY <3>2 DEF Created, Exists
    <3>4. store' = IF made[ClassTable] = NoTable THEN made
                   ELSE [made EXCEPT ![ClassTable] = SavedAll(made[ClassTable], ms, cols)]
      BY <2>5 DEF SaveArray
    <3>5. U = ClassTable /\ made[U] # NoTable => SavedAll(made[U], ms, cols) \in Q
      <4>1. made[U] # NoTable => made[U] = Created(U)
        BY <3>2 DEF Created, Exists
      <4> QED BY <1>5, <1>7, <3>1, <4>1
    <3> HIDE DEF made
    <3>6. store' = [V \in Tables |-> store'[V]]
      BY <3>2, <3>4
    <3>7. store'[U] \in Q \/ (store'[U] = NoTable /\ {} \in Q)
      BY <1>0, <3>2, <3>3, <3>4, <3>5
    <3> QED BY <3>6, <3>7 DEF Goal, Created, Exists
  <2>6. Goal
    BY <1>9, <2>1, <2>2, <2>3, <2>4, <2>5 DEF Saves
  <2> QED BY <2>6 DEF Goal
<1>10. CASE Changes(t)
  <2>1. ASSUME NEW T \in Tables, NEW m \in ModelsOf[t], DeleteRecord(t, T, m) PROVE Goal
    BY <1>2, <1>3, <2>1 DEF DeleteRecord
  <2>2. ASSUME NEW T \in Tables, NEW m \in ModelsOf[t], NEW cols \in ColumnLists, Update(t, T, m, cols)
        PROVE  Goal
    <3>1. ~Raises(m, cols)
      BY <1>6, <2>2 DEF Update
    <3>2. UNCHANGED store \/ Write(t, T, Updated(Created(T), m, cols), "yes")
      BY <2>2 DEF Update
    <3> QED BY <1>1, <1>2, <1>3, <3>1, <3>2
  <2>3. ASSUME NEW T \in Tables, NEW ms \in Several(t), NEW cols \in ColumnLists, UpdateArray(t, T, ms, cols)
        PROVE  Goal
    <3>1. Survives(ms, cols) /\ Write(t, T, UpdatedAll(Created(T), ms, cols), "void")
      BY <2>3 DEF UpdateArray
    <3> QED BY <1>2, <1>5, <1>7, <3>1
  <2>4. ASSUME NEW T \in Tables, EraseTable(t, T) \/ DeleteTable(t, T)
        PROVE  /\ store' = [V \in Tables |-> store'[V]]
               /\ Created(U)' \in Q \/ (Created(U)' = {} /\ Removable)
    <3>1. /\ Write(t, T, {}, "yes") \/ Write(t, T, NoTable, "yes")
          /\ Removable
      BY <2>4 DEF EraseTable, DeleteTable, Removable
    <3>2. CASE U # T
      BY <1>2, <3>1, <3>2 DEF Goal
    <3>3. CASE U = T
      BY <3>1, <3>3 DEF Write, Becomes, Created, Exists, TypeOK
    <3> QED BY <3>2, <3>3
  <2>5. \/ Goal
        \/ \E T \in Tables : EraseTable(t, T) \/ DeleteTable(t, T)
    BY <1>10, <2>1, <2>2, <2>3 DEF Changes
  <2> QED BY <2>4, <2>5 DEF Goal
<1> QED BY <1>8, <1>9, <1>10

-----------------------------------------------------------------------------
(* Types *)

\* The query of a save: the only step after which a save is under way.
Starts(t) ==
    \E T \in Tables, m \in ModelsOf[t], cols \in ColumnLists, creates \in BOOLEAN :
      SaveQuery(t, T, m, cols, creates)

\* Every other step ends with an answer.
LEMMA StartsOrReturns ==
    ASSUME NEW t \in Threads, Inserts(t) \/ Saves(t) \/ Changes(t)
    PROVE  Starts(t) \/ \E a \in {"yes", "no", "raised", "void"} : Return(t, a)
<1>1. ASSUME NEW T, NEW rows, NEW done \in {"yes", "void"}, Write(t, T, rows, done)
      PROVE  \E a \in {"yes", "no", "raised", "void"} : Return(t, a)
  BY <1>1 DEF Write
<1>2. Inserts(t) => \E a \in {"yes", "no", "raised", "void"} : Return(t, a)
  BY <1>1 DEF Inserts, Insert, InsertNamed, InsertArray, InsertArrayNamed, InsertArrayColumns
<1>3. SaveUpdate(t) \/ SaveInsert(t) => \E a \in {"yes", "no", "raised", "void"} : Return(t, a)
  BY <1>1 DEF SaveUpdate, SaveInsert
<1>4. Saves(t) => Starts(t) \/ \E a \in {"yes", "no", "raised", "void"} : Return(t, a)
  BY <1>3 DEF Saves, Starts, SaveArrayOfOne, SaveArray
<1>5. Changes(t) => \E a \in {"yes", "no", "raised", "void"} : Return(t, a)
  <2>1. \A T, ms, cols : UpdateArray(t, T, ms, cols) => \E a \in {"yes", "no", "raised", "void"} : Return(t, a)
    BY <1>1 DEF UpdateArray
  <2>2. \A T, m, cols : Update(t, T, m, cols) => \E a \in {"yes", "no", "raised", "void"} : Return(t, a)
    BY <1>1 DEF Update
  <2>3. \A T, m : DeleteRecord(t, T, m) => \E a \in {"yes", "no", "raised", "void"} : Return(t, a)
    BY <1>1 DEF DeleteRecord
  <2>4. \A T : EraseTable(t, T) \/ DeleteTable(t, T) => \E a \in {"yes", "no", "raised", "void"} : Return(t, a)
    BY <1>1 DEF EraseTable, DeleteTable
  <2> QED BY <2>1, <2>2, <2>3, <2>4 DEF Changes
<1> QED BY <1>2, <1>4, <1>5

\* What the saves under way become in a step.
LEMMA CallsAfter ==
    ASSUME TypeOK, NEW t \in Threads, Inserts(t) \/ Saves(t) \/ Changes(t)
    PROVE  /\ \A u \in Threads \ {t} : call'[u] = call[u] /\ found'[u] = found[u]
           /\ call'[t] = NoCall \/ Starts(t)
<1>1. CASE Starts(t)
  BY <1>1 DEF Starts, SaveQuery, TypeOK
<1>2. CASE \E a \in {"yes", "no", "raised", "void"} : Return(t, a)
  BY <1>2 DEF Return, TypeOK
<1> QED BY <1>1, <1>2, StartsOrReturns

\* Statements give rows.
LEMMA RowsStay == ASSUME NEW t \in Threads PROVE Keeps(SUBSET Rows, ModelsOf[t])
<1> SUFFICES ASSUME NEW x \in SUBSET Rows, NEW m \in ModelsOf[t], NEW cols \in ColumnLists \cup {{}}
             PROVE  /\ \A replace \in BOOLEAN : Inserted(x, m, cols, replace) \in SUBSET Rows
                    /\ Updated(x, m, cols) \in SUBSET Rows
                    /\ Deleted(x, m) \in SUBSET Rows
  BY DEF Keeps
<1>1. IsModel(m) /\ cols \in SUBSET Columns
  BY Arguments
<1>2. \A replace \in BOOLEAN : Inserted(x, m, cols, replace) \in SUBSET Rows
  BY <1>1, InsertedRows
<1>3. Updated(x, m, cols) \in SUBSET Rows
  BY <1>1, UpdatedFrom
<1> QED BY <1>2, <1>3 DEF Deleted

\* Types, and that saves are about models of their threads, are inductive.
LEMMA StoreInvStays == StoreInv /\ [Next]_vars => StoreInv'
<1> SUFFICES ASSUME StoreInv, [Next]_vars PROVE StoreInv'
  OBVIOUS
<1>1. CASE UNCHANGED vars
  BY <1>1 DEF StoreInv, TypeOK, OwnModels, vars
<1>2. CASE Next
  <2>1. PICK t \in Threads : Inserts(t) \/ Saves(t) \/ Changes(t)
    BY <1>2 DEF Next
  <2>2. TypeOK /\ OwnModels
    BY DEF StoreInv
  <2>3. \A U \in Tables : store' = [V \in Tables |-> store'[V]] /\ Created(U)' \in SUBSET Rows
    <3>1. ASSUME NEW U \in Tables PROVE Created(U) \in SUBSET Rows
      BY <2>2 DEF TypeOK, Created, Exists
    <3> QED BY <2>1, <3>1, StepKeeps, RowsStay
  <2>4. store' \in [Tables -> (SUBSET Rows) \cup {NoTable}]
    <3>1. \A U \in Tables : store'[U] \in (SUBSET Rows) \cup {NoTable}
      BY <2>3 DEF Created, Exists
    <3>2. ClassTable \in Tables
      BY ModelStoreAssumption
    <3> QED BY <2>3, <3>1, <3>2
  <2>5. CASE Starts(t)
    <3>1. PICK T \in Tables, m \in ModelsOf[t], cols \in ColumnLists, creates \in BOOLEAN :
            SaveQuery(t, T, m, cols, creates)
      BY <2>5 DEF Starts
    <3> DEFINE c == [table |-> T, model |-> m, columns |-> cols, creates |-> creates]
    <3>2. c \in Calls /\ c.model \in ModelsOf[t]
      BY Arguments DEF Calls
    <3>3. IsExists(T, m) \in BOOLEAN
      BY DEF IsExists
    <3>4. /\ call' = [call EXCEPT ![t] = c]
          /\ found' = [found EXCEPT ![t] = IsExists(T, m)] /\ answer' = answer
      BY <3>1 DEF SaveQuery
    <3> HIDE DEF c
    <3> QED BY <2>2, <2>4, <3>2, <3>3, <3>4 DEF StoreInv, TypeOK, OwnModels
  <2>6. CASE \E a \in {"yes", "no", "raised", "void"} : Return(t, a)
    BY <2>2, <2>4, <2>6 DEF StoreInv, TypeOK, OwnModels, Return
  <2> QED BY <2>1, <2>5, <2>6, StartsOrReturns
<1> QED BY <1>1, <1>2

\* At the start no save is under way.
LEMMA StoreInvStarts == Init => StoreInv
<1>1. ASSUME Init PROVE StoreInv
  <2>1. store \in [Tables -> (SUBSET Rows) \cup {NoTable}]
    BY <1>1 DEF Init
  <2> QED BY <1>1, <2>1 DEF Init, StoreInv, TypeOK, OwnModels
<1> QED BY <1>1

\* The types of the tables, the saves and the answers.
THEOREM TypeCorrect == Spec => []TypeOK
<1>1. StoreInv => TypeOK
  BY DEF StoreInv
<1> QED BY <1>1, StoreInvStarts, StoreInvStays, PTL DEF Spec

\* The same with what it rests on, for the theorems below.
LEMMA StoreInvHolds == Spec => []StoreInv
  BY StoreInvStarts, StoreInvStays, PTL DEF Spec

-----------------------------------------------------------------------------
(* Rows are models *)

\* Every property of every model has a value.
WholeModels == \A m \in Models : \A c \in Columns : m[c] # Nil

\* The row is that of one model.
OfModel(r) == \E m \in Models : \A c \in Columns : r[c] \in {m[c], Archived(m[c])}

\* Statements on whole models, without a list of columns, make rows of models.
LEMMA OfModelStays ==
    ASSUME WholeModels, ColumnLists \subseteq {{}}, NEW t \in Threads
    PROVE  Keeps({x \in SUBSET Rows : \A r \in x : OfModel(r)}, ModelsOf[t])
<1> DEFINE Q == {x \in SUBSET Rows : \A r \in x : OfModel(r)}
<1>1. ASSUME NEW x \in Q, NEW m \in ModelsOf[t], NEW replace \in BOOLEAN
      PROVE  Inserted(x, m, {}, replace) \in Q
  <2>1. IsModel(m) /\ m \in Models
    BY Arguments
  <2>2. OfModel(RowOf(m, {}))
    BY <2>1 DEF OfModel, RowOf
  <2>3. Inserted(x, m, {}, replace) \in SUBSET Rows
    BY <2>1, InsertedRows
  <2>4. \A r \in Inserted(x, m, {}, replace) : r \in x \/ r = RowOf(m, {})
    BY DEF Inserted
  <2> QED BY <2>2, <2>3, <2>4
<1>2. ASSUME NEW x \in Q, NEW m \in ModelsOf[t] PROVE Updated(x, m, {}) \in Q
  <2>1. IsModel(m) /\ m \in Models
    BY Arguments
  <2>2. ASSUME NEW r \in x, r \in Matching(x, m) PROVE OfModel(Changed(r, m, {}))
    <3>1. \A c \in KeyColumns : r[c] = m[c]
      BY <2>1, <2>2, RecordsAssumption DEF Matching, WholeModels
    <3>2. \A c \in Columns : Changed(r, m, {})[c] = m[c]
      BY <2>1, <3>1 DEF Changed, Sets, WholeModels
    <3> QED BY <2>1, <3>2 DEF OfModel
  <2>3. /\ Updated(x, m, {}) = {IF r \in Matching(x, m) THEN Changed(r, m, {}) ELSE r : r \in x}
        /\ Updated(x, m, {}) \in SUBSET Rows
    BY <2>1, UpdatedFrom
  <2> QED BY <2>2, <2>3
<1>3. \A x \in Q : \A m : Deleted(x, m) \in Q
  BY DEF Deleted
<1> QED BY <1>1, <1>2, <1>3 DEF Keeps

\* Every row of a table is that of a model, never the columns of two.
THEOREM RowsAreOfModels ==
    ASSUME WholeModels, ColumnLists \subseteq {{}}
    PROVE  Spec => []RowsAreModels
<1> DEFINE Q == {x \in SUBSET Rows : \A r \in x : OfModel(r)}
           Inv == \A U \in Tables : Created(U) \in Q
<1>1. Init => Inv
  BY DEF Init, Created, Exists
<1>2. StoreInv /\ Inv /\ [Next]_vars => Inv'
  <2> SUFFICES ASSUME StoreInv, Inv, [Next]_vars PROVE Inv'
    OBVIOUS
  <2>1. CASE UNCHANGED vars
    BY <2>1 DEF vars, Created, Exists
  <2>2. CASE Next
    <3>1. PICK t \in Threads : Inserts(t) \/ Saves(t) \/ Changes(t)
      BY <2>2 DEF Next
    <3>2. {} \in Q /\ Keeps(Q, ModelsOf[t])
      BY OfModelStays
    <3> HIDE DEF Q
    <3>3. ASSUME NEW U \in Tables PROVE Created(U)' \in Q
      BY <3>1, <3>2, StepKeeps
    <3> QED BY <3>3
  <2> QED BY <2>1, <2>2
<1>3. Inv => RowsAreModels
  BY DEF RowsAreModels, OfModel, Created
<1> HIDE DEF Inv
<1> QED BY <1>1, <1>2, <1>3, StoreInvHolds, PTL DEF Spec

-----------------------------------------------------------------------------
(* One row for a key *)

\* Every part of every model's key has a value.
FullKeys == \A m \in Models : \A k \in KeyColumns : m[k] # Nil

\* No statement makes a second row of a key.
LEMMA DistinctStays == ASSUME NEW t \in Threads PROVE Keeps(DistinctKeys, ModelsOf[t])
<1> SUFFICES ASSUME NEW x \in DistinctKeys, NEW m \in ModelsOf[t], NEW cols \in ColumnLists \cup {{}}
             PROVE  /\ \A replace \in BOOLEAN : Inserted(x, m, cols, replace) \in DistinctKeys
                    /\ ~Raises(m, cols) => Updated(x, m, cols) \in DistinctKeys
                    /\ Deleted(x, m) \in DistinctKeys
  BY DEF Keeps, DistinctKeys
<1>1. IsModel(m) /\ cols \in SUBSET Columns
  BY Arguments
<1>2. \A replace \in BOOLEAN : Inserted(x, m, cols, replace) \in DistinctKeys
  BY <1>1, InsertKeepsDistinct
<1>3. ~Raises(m, cols) => Updated(x, m, cols) \in DistinctKeys
  BY <1>1, UpdateKeepsDistinct
<1> QED BY <1>2, <1>3 DEF Deleted, DistinctKeys

\* A model with a full key matches at most one of rows with distinct keys.
LEMMA MatchesOne ==
    ASSUME NEW x \in DistinctKeys, NEW m, IsModel(m), \A k \in KeyColumns : m[k] # Nil
    PROVE  \E r \in Rows : Matching(x, m) \subseteq {r}
<1>1. \A r, s \in Matching(x, m) : r = s
  BY DEF Matching, DistinctKeys, SameKey
<1>2. Matching(x, m) \subseteq Rows
  BY DEF Matching, DistinctKeys
<1>3. RowOf(m, {}) \in Rows
  BY RowOfModel
<1> QED BY <1>1, <1>2, <1>3

\* Deleting a record by a model with a full key deletes at most one row.
THEOREM DeletesAtMostOne == ASSUME FullKeys PROVE Spec => DeletesOneRecord
<1> DEFINE Inv == \A U \in Tables : Created(U) \in DistinctKeys
<1>0. {} \in DistinctKeys
  BY DEF DistinctKeys
<1>1. Init => Inv
  BY <1>0 DEF Init, Created, Exists
<1>2. StoreInv /\ Inv /\ [Next]_vars => Inv'
  <2> SUFFICES ASSUME StoreInv, Inv, [Next]_vars PROVE Inv'
    OBVIOUS
  <2>1. CASE UNCHANGED vars
    BY <2>1 DEF vars, Created, Exists
  <2>2. CASE Next
    <3>1. PICK t \in Threads : Inserts(t) \/ Saves(t) \/ Changes(t)
      BY <2>2 DEF Next
    <3>2. ASSUME NEW U \in Tables PROVE Created(U)' \in DistinctKeys
      <4>1. Keeps(DistinctKeys, ModelsOf[t])
        BY DistinctStays
      <4> QED BY <1>0, <3>1, <4>1, StepKeeps
    <3> QED BY <3>2
  <2> QED BY <2>1, <2>2
<1> DEFINE OneOnly == \A t \in Threads, T \in Tables, m \in Models :
             Exists(T) /\ DeleteRecord(t, T, m) => \E r \in Rows : store[T] \subseteq store'[T] \cup {r}
<1>3. StoreInv /\ Inv => OneOnly
  <2> SUFFICES ASSUME StoreInv, Inv, NEW t \in Threads, NEW T \in Tables, NEW m \in Models,
                      Exists(T), DeleteRecord(t, T, m)
               PROVE  \E r \in Rows : store[T] \subseteq store'[T] \cup {r}
    OBVIOUS
  <2>1. store'[T] = Deleted(store[T], m)
    BY DEF DeleteRecord, Write, Becomes, StoreInv, TypeOK, Created
  <2>2. store[T] \in DistinctKeys
    BY DEF Created
  <2>3. PICK r \in Rows : Matching(store[T], m) \subseteq {r}
    BY <2>2, MatchesOne, ModelStoreAssumption DEF FullKeys
  <2> QED BY <2>1, <2>3 DEF Deleted
<1>4. OneOnly => [OneOnly]_vars
  OBVIOUS
<1>5. DeletesOneRecord <=> [][OneOnly]_vars
  BY DEF DeletesOneRecord
<1> HIDE DEF Inv, OneOnly
<1> QED BY <1>1, <1>2, <1>3, <1>5, StoreInvHolds, PTL DEF Spec

-----------------------------------------------------------------------------
(* What the query of a save found is so when it writes *)

\* Models of different threads have different keys.
OwnKeys ==
    \A t \in Threads : \A u \in Threads \ {t} : \A m \in ModelsOf[t], n \in ModelsOf[u] :
      \E k \in KeyColumns : m[k] # n[k]

\* A table is removed only while no save is at work,
QuietRemovals == QuietOnly \/ Removals \cap {"erase", "drop"} = {}

\* and a record only by the thread whose it is.
OwnRemovals == "record" \notin Removals \/ (FullKeys /\ OwnKeys)

\* A table that does not exist is no table.
NoTableIsNone == NoTable \notin SUBSET Rows

\* Other threads' statements leave a model's record,
LEMMA HavingStays ==
    ASSUME OwnRemovals, NEW t \in Threads, NEW u \in Threads \ {t}, NEW n \in ModelsOf[u]
    PROVE  Keeps(Having(n), ModelsOf[t])
<1> SUFFICES ASSUME NEW x \in Having(n), NEW m \in ModelsOf[t], NEW cols \in ColumnLists \cup {{}}
             PROVE  /\ \A replace \in BOOLEAN : Inserted(x, m, cols, replace) \in Having(n)
                    /\ ~Raises(m, cols) => Updated(x, m, cols) \in Having(n)
                    /\ "record" \in Removals => Deleted(x, m) \in Having(n)
  BY DEF Keeps, Having
<1>1. IsModel(m) /\ m \in Models /\ n \in Models /\ cols \in SUBSET Columns
  BY Arguments
<1>2. \A replace \in BOOLEAN : Inserted(x, m, cols, replace) \in Having(n)
  BY <1>1, InsertKeepsHaving
<1>3. ~Raises(m, cols) => Updated(x, m, cols) \in Having(n)
  BY <1>1, UpdateKeepsHaving
<1>4. ASSUME "record" \in Removals PROVE Deleted(x, m) \in Having(n)
  <2>1. FullKeys /\ \E k \in KeyColumns : m[k] # n[k]
    BY <1>4 DEF OwnRemovals, OwnKeys
  <2>2. PICK s \in x : \A k \in KeyColumns : n[k] # Nil => s[k] = n[k]
    BY DEF Having, Matching
  <2>3. \A k \in KeyColumns : s[k] = n[k] /\ m[k] # Nil
    BY <1>1, <2>1, <2>2 DEF FullKeys
  <2>4. s \in Deleted(x, m)
    BY <2>1, <2>3 DEF Deleted, Matching
  <2>5. s \in Matching(Deleted(x, m), n)
    BY <2>2, <2>4 DEF Matching
  <2>6. Deleted(x, m) \in SUBSET Rows
    BY DEF Deleted, Having
  <2> QED BY <2>5, <2>6 DEF Having
<1> QED BY <1>2, <1>3, <1>4

\* and make none if it has a full key that they do not have.
LEMMA LackingStays ==
    ASSUME FullKeys, OwnKeys, NEW t \in Threads, NEW u \in Threads \ {t}, NEW n \in ModelsOf[u]
    PROVE  Keeps(Lacking(n), ModelsOf[t])
<1> SUFFICES ASSUME NEW x \in Lacking(n), NEW m \in ModelsOf[t], NEW cols \in ColumnLists \cup {{}}
             PROVE  /\ \A replace \in BOOLEAN : Inserted(x, m, cols, replace) \in Lacking(n)
                    /\ ~Raises(m, cols) => Updated(x, m, cols) \in Lacking(n)
                    /\ Deleted(x, m) \in Lacking(n)
  BY DEF Keeps, Lacking
<1>1. IsModel(m) /\ m \in Models /\ n \in Models /\ cols \in SUBSET Columns
  BY Arguments
<1>2. (\A k \in KeyColumns : n[k] # Nil) /\ \E k \in KeyColumns : m[k] # n[k]
  BY <1>1 DEF FullKeys, OwnKeys
<1>3. \A replace \in BOOLEAN : Inserted(x, m, cols, replace) \in Lacking(n)
  BY <1>1, <1>2, InsertKeepsLacking
<1>4. ~Raises(m, cols) => Updated(x, m, cols) \in Lacking(n)
  BY <1>1, UpdateKeepsLacking
<1> QED BY <1>3, <1>4 DEF Deleted, Lacking, Matching

\* While a save is at work: what it found is there,
FoundIsThere ==
    \A t \in Threads, U \in Tables :
      call[t] # NoCall /\ found[t] /\ call[t].table = U => Created(U) \in Having(call[t].model)

\* and what it did not find is not.
MissingIsMissing ==
    \A t \in Threads, U \in Tables :
      call[t] # NoCall /\ ~found[t] /\ call[t].table = U => Created(U) \in Lacking(call[t].model)

\* What the query answers.
LEMMA QueryAnswers ==
    ASSUME StoreInv, NEW t \in Threads, Starts(t)
    PROVE  /\ call'[t] # NoCall
           /\ \E T \in Tables :
                /\ call'[t].table = T
                /\ Created(T)' \in IF found'[t] THEN Having(call'[t].model)
                                               ELSE Lacking(call'[t].model)
<1>1. PICK T \in Tables, m \in ModelsOf[t], cols \in ColumnLists, creates \in BOOLEAN :
        SaveQuery(t, T, m, cols, creates)
  BY DEF Starts
<1> DEFINE c == [table |-> T, model |-> m, columns |-> cols, creates |-> creates]
<1>2. c \in Calls /\ c.table = T /\ c.model = m
  BY Arguments DEF Calls
<1>3. call'[t] = c /\ found'[t] = IsExists(T, m) /\ store' = store
  BY <1>1 DEF SaveQuery, StoreInv, TypeOK
<1>4. Created(T)' = Created(T) /\ Created(T) \in SUBSET Rows
  BY <1>3 DEF Created, Exists, StoreInv, TypeOK
<1>5. IsExists(T, m) <=> Matching(Created(T), m) # {}
  BY DEF IsExists, Created, Exists, Matching
<1>6. Created(T)' \in IF found'[t] THEN Having(m) ELSE Lacking(m)
  BY <1>3, <1>4, <1>5 DEF Having, Lacking
<1> HIDE DEF c
<1> QED BY <1>2, <1>3, <1>6, ModelStoreAssumption

\* Both stay so.
LEMMA FoundStays ==
    ASSUME OwnRemovals, QuietRemovals, NoTableIsNone
    PROVE  StoreInv /\ FoundIsThere /\ [Next]_vars => FoundIsThere'
<1> SUFFICES ASSUME StoreInv, FoundIsThere, [Next]_vars PROVE FoundIsThere'
  OBVIOUS
<1>1. CASE UNCHANGED vars
  BY <1>1 DEF FoundIsThere, vars, Created, Exists
<1>2. CASE Next
  <2>1. PICK t \in Threads : Inserts(t) \/ Saves(t) \/ Changes(t)
    BY <1>2 DEF Next
  <2>2. TypeOK /\ OwnModels
    BY DEF StoreInv
  <2>3. ASSUME NEW u \in Threads, NEW U \in Tables, call'[u] # NoCall, found'[u], call'[u].table = U
        PROVE  Created(U)' \in Having(call'[u].model)
    <3>1. CASE u = t
      BY <2>1, <2>2, <2>3, <3>1, CallsAfter, QueryAnswers
    <3>2. CASE u # t
      <4>1. call'[u] = call[u] /\ found'[u] = found[u]
        BY <2>1, <2>2, <3>2, CallsAfter
      <4>2. PICK n \in ModelsOf[u] : n = call[u].model /\ Created(U) \in Having(n)
        BY <2>2, <2>3, <4>1 DEF OwnModels, FoundIsThere
      <4>3. Keeps(Having(n), ModelsOf[t]) /\ NoTable \notin Having(n)
        BY <3>2, <4>2, HavingStays DEF Having, NoTableIsNone
      <4>4. ~Removable
        BY <2>3, <4>1 DEF Removable, MayRemoveTable, QuietRemovals
      <4>5. Created(U)' \in Having(n)
        BY <2>1, <4>2, <4>3, <4>4, StepKeeps
      <4> QED BY <4>1, <4>2, <4>5
    <3> QED BY <3>1, <3>2
  <2> QED BY <2>3 DEF FoundIsThere
<1> QED BY <1>1, <1>2

\* The same of what was not found; there a table may also be removed.
LEMMA MissingStays ==
    ASSUME FullKeys, OwnKeys
    PROVE  StoreInv /\ MissingIsMissing /\ [Next]_vars => MissingIsMissing'
<1> SUFFICES ASSUME StoreInv, MissingIsMissing, [Next]_vars PROVE MissingIsMissing'
  OBVIOUS
<1>1. CASE UNCHANGED vars
  BY <1>1 DEF MissingIsMissing, vars, Created, Exists
<1>2. CASE Next
  <2>1. PICK t \in Threads : Inserts(t) \/ Saves(t) \/ Changes(t)
    BY <1>2 DEF Next
  <2>2. TypeOK /\ OwnModels
    BY DEF StoreInv
  <2>3. ASSUME NEW u \in Threads, NEW U \in Tables, call'[u] # NoCall, ~found'[u], call'[u].table = U
        PROVE  Created(U)' \in Lacking(call'[u].model)
    <3>1. CASE u = t
      BY <2>1, <2>2, <2>3, <3>1, CallsAfter, QueryAnswers
    <3>2. CASE u # t
      <4>1. call'[u] = call[u] /\ found'[u] = found[u]
        BY <2>1, <2>2, <3>2, CallsAfter
      <4>2. PICK n \in ModelsOf[u] : n = call[u].model /\ Created(U) \in Lacking(n)
        BY <2>2, <2>3, <4>1 DEF OwnModels, MissingIsMissing
      <4>3. Keeps(Lacking(n), ModelsOf[t])
        BY <3>2, <4>2, LackingStays
      <4>4. {} \in Lacking(n)
        BY DEF Lacking, Matching
      <4>5. Created(U)' \in Lacking(n)
        BY <2>1, <4>2, <4>3, <4>4, StepKeeps
      <4> QED BY <4>1, <4>2, <4>5
    <3> QED BY <3>1, <3>2
  <2> QED BY <2>3 DEF MissingIsMissing
<1> QED BY <1>1, <1>2

\* At the start no save is at work.
LEMMA FoundStarts == Init => FoundIsThere /\ MissingIsMissing
  BY DEF Init, FoundIsThere, MissingIsMissing

-----------------------------------------------------------------------------
(* Saves *)

\* A save ends in its second block.
LEMMA SaveEnds ==
    ASSUME StoreInv, Next, NEW t \in Threads, call[t] # NoCall, call'[t] = NoCall
    PROVE  SaveUpdate(t) \/ SaveInsert(t)
<1>1. PICK u \in Threads : Inserts(u) \/ Saves(u) \/ Changes(u)
  BY DEF Next
<1>2. u = t
  BY <1>1, CallsAfter DEF StoreInv
<1>3. ~Inserts(t)
  BY DEF Inserts, Insert, InsertNamed, InsertArray, InsertArrayNamed, InsertArrayColumns
<1>4. ~Changes(t)
  BY DEF Changes, DeleteRecord, Update, UpdateArray, EraseTable, DeleteTable
<1>5. Saves(t) => SaveUpdate(t) \/ SaveInsert(t)
  BY DEF Saves, SaveQuery, SaveArrayOfOne, SaveArray
<1> QED BY <1>1, <1>2, <1>3, <1>4, <1>5

\* What it has written when it answers YES.
LEMMA SaveWrites ==
    ASSUME StoreInv, Next, NEW t \in Threads, call[t] # NoCall, call'[t] = NoCall, answer'[t] = "yes"
    PROVE  \E T \in Tables, m \in ModelsOf[t], cols \in ColumnLists :
             /\ call[t].table = T /\ call[t].model = m /\ call[t].columns = cols
             /\ IF found[t] THEN ~Raises(m, cols) /\ store'[T] = Updated(Created(T), m, cols)
                            ELSE store'[T] = Inserted(Created(T), m, {}, FALSE)
<1>1. PICK T \in Tables, m \in ModelsOf[t], cols \in ColumnLists :
        call[t].table = T /\ call[t].model = m /\ call[t].columns = cols
  BY DEF StoreInv, TypeOK, OwnModels, Calls
<1>2. ASSUME NEW rows, Becomes(T, rows) PROVE store'[T] = rows
  BY <1>2 DEF Becomes, StoreInv, TypeOK
<1>3. ASSUME NEW rows, Write(t, T, rows, "yes") PROVE store'[T] = rows
  <2>1. answer' = [answer EXCEPT ![t] = IF Exists(T) THEN "yes" ELSE "no"]
    BY <1>3 DEF Write, Return
  <2>2. Exists(T)
    BY <2>1 DEF StoreInv, TypeOK
  <2> QED BY <1>2, <1>3, <2>2 DEF Write
<1>4. CASE SaveUpdate(t)
  <2>1. \A a \in {"no", "raised"} : ~Return(t, a)
    BY DEF Return, StoreInv, TypeOK
  <2>2. ~Raises(m, cols) /\ Write(t, T, Updated(Created(T), m, cols), "yes") /\ found[t]
    BY <1>1, <1>4, <2>1 DEF SaveUpdate
  <2> QED BY <1>1, <1>3, <2>2
<1>5. CASE SaveInsert(t)
  <2>1. /\ ~found[t]
        /\ \/ Becomes(T, Inserted(Created(T), m, {}, FALSE))
           \/ Write(t, T, Inserted(Created(T), m, {}, FALSE), "yes")
    BY <1>1, <1>5 DEF SaveInsert
  <2> QED BY <1>1, <1>2, <1>3, <2>1
<1> QED BY <1>4, <1>5, SaveEnds

\* Arrays of several are saved to the table their statements are about.
BatchesOfClass == BatchTables \subseteq {ClassTable}

\* Threads that write different keys: a save that answers YES has stored the
\* model, whole in a new row and else in the columns that it sets; the other
\* columns keep what they held.
THEOREM SavesTakeEffect ==
    ASSUME FullKeys, OwnKeys, QuietRemovals, NoTableIsNone
    PROVE  Spec => SaveTakesEffect
<1> DEFINE Stored(t) ==
             LET c   == call[t]
                 was == Matching(Created(c.table), c.model)
             IN  c # NoCall /\ call'[t] = NoCall /\ answer'[t] = "yes" =>
                   \E r \in Matching(store'[c.table], c.model) : \A col \in Columns :
                     IF was = {} \/ col \in Sets(c.model, c.columns)
                       THEN Holds(r, c.model, col)
                       ELSE \E s \in was : r[col] = s[col]
           A == \A t \in Threads : Stored(t)
           Inv == FoundIsThere /\ MissingIsMissing
<1>1. StoreInv /\ Inv /\ [Next]_vars => [A]_vars
  <2> SUFFICES ASSUME StoreInv, Inv, Next, NEW t \in Threads,
                      call[t] # NoCall, call'[t] = NoCall, answer'[t] = "yes"
               PROVE  \E r \in Matching(store'[call[t].table], call[t].model) : \A col \in Columns :
                        IF \/ Matching(Created(call[t].table), call[t].model) = {}
                           \/ col \in Sets(call[t].model, call[t].columns)
                          THEN Holds(r, call[t].model, col)
                          ELSE \E s \in Matching(Created(call[t].table), call[t].model) : r[col] = s[col]
    OBVIOUS
  <2>1. PICK T \in Tables, m \in ModelsOf[t], cols \in ColumnLists :
          /\ call[t].table = T /\ call[t].model = m /\ call[t].columns = cols
          /\ IF found[t] THEN ~Raises(m, cols) /\ store'[T] = Updated(Created(T), m, cols)
                         ELSE store'[T] = Inserted(Created(T), m, {}, FALSE)
    BY SaveWrites
  <2>2. IsModel(m) /\ m \in Models /\ cols \in SUBSET Columns
    BY Arguments
  <2> DEFINE was == Matching(Created(T), m)
  <2>4. SUFFICES \E r \in Matching(store'[T], m) : \A col \in Columns :
                   IF was = {} \/ col \in Sets(m, cols) THEN Holds(r, m, col) ELSE \E s \in was : r[col] = s[col]
    BY <2>1
  <2>5. CASE found[t]
    <3>1. Created(T) \in Having(m)
      BY <2>1, <2>5 DEF FoundIsThere
    <3>2. PICK s \in was : s \in Created(T) /\ s \in Rows
      BY <3>1 DEF Having, Matching
    <3>3. ~Raises(m, cols) /\ store'[T] = Updated(Created(T), m, cols)
      BY <2>1, <2>5
    <3>4. Updated(Created(T), m, cols) =
            {IF r \in Matching(Created(T), m) THEN Changed(r, m, cols) ELSE r : r \in Created(T)}
      BY <2>2, <3>1, UpdatedFrom DEF Having
    <3>5. Changed(s, m, cols) \in store'[T]
      BY <3>2, <3>3, <3>4
    <3>6. \A k \in KeyColumns : Changed(s, m, cols)[k] = s[k]
      BY <2>2, <3>2, <3>3, ChangedRow DEF Matching
    <3>7. Changed(s, m, cols) \in Matching(store'[T], m)
      BY <3>2, <3>5, <3>6 DEF Matching
    <3>8. \A col \in Columns : Changed(s, m, cols)[col] = IF col \in Sets(m, cols) THEN m[col] ELSE s[col]
      BY DEF Changed
    <3>9. \A col \in Columns : IF was = {} \/ col \in Sets(m, cols) THEN Holds(Changed(s, m, cols), m, col)
                              ELSE \E z \in was : Changed(s, m, cols)[col] = z[col]
      <4> HIDE DEF was
      <4> QED BY <3>2, <3>8 DEF Holds
    <3> QED BY <3>7, <3>9
  <2>6. CASE ~found[t]
    <3> DEFINE r == RowOf(m, {})
    <3>1. was = {}
      BY <2>1, <2>6 DEF MissingIsMissing, Lacking
    <3>2. \A k \in KeyColumns : r[k] = m[k] /\ m[k] # Nil /\ k \in Columns
      BY <2>2, RowOfModel, RecordsAssumption DEF FullKeys
    <3>3. \A s \in Created(T) : ~SameKey(s, r)
      BY <3>1, <3>2 DEF SameKey, Matching
    <3>4. r \in store'[T]
      <4>1. ~(\A c \in Columns : r[c] = Nil)
        BY <3>2, RecordsAssumption
      <4>2. store'[T] = Inserted(Created(T), m, {}, FALSE)
        BY <2>1, <2>6
      <4> QED BY <3>3, <4>1, <4>2 DEF Inserted
    <3>5. \A c \in Columns : Holds(r, m, c)
      BY DEF RowOf, Holds
    <3> HIDE DEF r, was
    <3>6. r \in Matching(store'[T], m)
      BY <3>2, <3>4 DEF Matching
    <3> QED BY <3>1, <3>5, <3>6
  <2> QED BY <2>5, <2>6
<1>2. SaveTakesEffect <=> [][A]_vars
  BY DEF SaveTakesEffect
<1>3. StoreInv /\ Inv /\ [Next]_vars => Inv'
  BY FoundStays, MissingStays DEF OwnRemovals
<1>4. Init => Inv
  BY FoundStarts
<1> HIDE DEF A, Inv
<1> QED BY <1>1, <1>2, <1>3, <1>4, StoreInvHolds, PTL DEF Spec

-----------------------------------------------------------------------------
(* Calls are atomic *)

\* AtomicStore's statements are those of ModelStore.
LEMMA SameStatements ==
    /\ \A x, m, cols, replace : Atomic!InsertedAll(x, m, cols, replace) = InsertedAll(x, m, cols, replace)
    /\ \A x, m, cols : Atomic!UpdatedAll(x, m, cols) = UpdatedAll(x, m, cols)
    /\ \A x, m, cols : Atomic!SavedAll(x, m, cols) = SavedAll(x, m, cols)
    /\ \A x, m, cols, insertCols : Atomic!Saved(x, m, cols, insertCols) = Saved(x, m, cols, insertCols)
    /\ \A x, m : Atomic!Deleted(x, m) = Deleted(x, m)
<1>1. \A x, m : Atomic!Matching(x, m) = Matching(x, m)
  BY DEF Matching, Atomic!Matching
<1>2. \A x, m, cols, replace : Atomic!Inserted(x, m, cols, replace) = Inserted(x, m, cols, replace)
  BY DEF Inserted, Atomic!Inserted, RowOf, Atomic!RowOf, SameKey, Atomic!SameKey, Archived, Atomic!Archived
<1>3. \A x, m, cols : Atomic!Updated(x, m, cols) = Updated(x, m, cols)
  BY DEF Updated, Atomic!Updated, Matching, Atomic!Matching, Sets, Atomic!Sets
<1>4. \A x, m, cols, insertCols : Atomic!Saved(x, m, cols, insertCols) = Saved(x, m, cols, insertCols)
  BY <1>1, <1>2, <1>3 DEF Saved, Atomic!Saved
<1>5. Atomic!Rows = Rows
  BY DEF Rows, Atomic!Rows, Cells, Atomic!Cells, Archived, Atomic!Archived
<1>6. \A f, x, ms : Atomic!InTurn(f, x, ms) = InTurn(f, x, ms)
  BY DEF InTurn, Atomic!InTurn
<1>7. \A x, ms, cols, replace : Atomic!InsertedAll(x, ms, cols, replace) = InsertedAll(x, ms, cols, replace)
  <2> SUFFICES ASSUME NEW x, NEW ms, NEW cols, NEW replace
               PROVE  Atomic!InsertedAll(x, ms, cols, replace) = InsertedAll(x, ms, cols, replace)
    OBVIOUS
  <2>1. [m \in Range(ms) |-> [y \in SUBSET Rows |-> Atomic!Inserted(y, m, cols, replace)]]
          = [m \in Range(ms) |-> [y \in SUBSET Rows |-> Inserted(y, m, cols, replace)]]
    BY <1>2
  <2>2. Atomic!Range(ms) = Range(ms)
    BY DEF Range, Atomic!Range
  <2> QED BY <1>5, <1>6, <2>1, <2>2 DEF InsertedAll, Atomic!InsertedAll
<1>8. \A x, ms, cols : Atomic!UpdatedAll(x, ms, cols) = UpdatedAll(x, ms, cols)
  <2> SUFFICES ASSUME NEW x, NEW ms, NEW cols
               PROVE  Atomic!UpdatedAll(x, ms, cols) = UpdatedAll(x, ms, cols)
    OBVIOUS
  <2>1. [m \in Range(ms) |-> [y \in SUBSET Rows |-> Atomic!Updated(y, m, cols)]]
          = [m \in Range(ms) |-> [y \in SUBSET Rows |-> Updated(y, m, cols)]]
    BY <1>3
  <2>2. Atomic!Range(ms) = Range(ms)
    BY DEF Range, Atomic!Range
  <2> QED BY <1>5, <1>6, <2>1, <2>2 DEF UpdatedAll, Atomic!UpdatedAll
<1>9. \A x, ms, cols : Atomic!SavedAll(x, ms, cols) = SavedAll(x, ms, cols)
  <2> SUFFICES ASSUME NEW x, NEW ms, NEW cols
               PROVE  Atomic!SavedAll(x, ms, cols) = SavedAll(x, ms, cols)
    OBVIOUS
  <2>1. [m \in Range(ms) |-> [y \in SUBSET Rows |-> Atomic!Saved(y, m, cols, cols)]]
          = [m \in Range(ms) |-> [y \in SUBSET Rows |-> Saved(y, m, cols, cols)]]
    BY <1>4
  <2>2. Atomic!Range(ms) = Range(ms)
    BY DEF Range, Atomic!Range
  <2> QED BY <1>5, <1>6, <2>1, <2>2 DEF SavedAll, Atomic!SavedAll
<1>10. \A x, m : Atomic!Deleted(x, m) = Deleted(x, m)
  BY <1>1 DEF Deleted, Atomic!Deleted
<1> QED BY <1>4, <1>7, <1>8, <1>9, <1>10

\* The rows that a call of one step can leave in a table.
Leaves(t, T, rows) ==
    \/ \E ms \in Arrays(t), cols \in ColumnLists \cup {{}} :
         \/ rows = SavedAll(Created(T), ms, cols)
         \/ rows = UpdatedAll(Created(T), ms, cols)
         \/ \E replace \in BOOLEAN : rows = InsertedAll(Created(T), ms, cols, replace)
    \/ \E m \in ModelsOf[t] : rows = Deleted(Created(T), m)

\* Such rows are an effect of AtomicStore.
LEMMA LeavesIsEffect ==
    ASSUME NEW t \in Threads, NEW T \in Tables, NEW rows, Leaves(t, T, rows), Becomes(T, rows)
    PROVE  Atomic!Effect(t)
<1>1. Atomic!Opened(T) = Created(T)
  BY DEF Atomic!Opened, Atomic!Exists, Created, Exists
<1>2. Atomic!Outcome(T, rows)
  BY DEF Atomic!Outcome, Becomes
<1>3. \A ms \in Arrays(t) : ms \in Atomic!Arrays(t)
  BY DEF Arrays, Several, Atomic!Arrays
<1>4. CASE \E ms \in Arrays(t), cols \in ColumnLists \cup {{}} :
             \/ rows = SavedAll(Created(T), ms, cols)
             \/ rows = UpdatedAll(Created(T), ms, cols)
             \/ \E replace \in BOOLEAN : rows = InsertedAll(Created(T), ms, cols, replace)
  <2>1. PICK ms \in Atomic!Arrays(t), cols \in ColumnLists \cup {{}} :
          \/ rows = Atomic!SavedAll(Atomic!Opened(T), ms, cols)
          \/ rows = Atomic!UpdatedAll(Atomic!Opened(T), ms, cols)
          \/ \E replace \in BOOLEAN : rows = Atomic!InsertedAll(Atomic!Opened(T), ms, cols, replace)
    BY <1>1, <1>3, <1>4, SameStatements
  <2> QED BY <1>2, <2>1 DEF Atomic!Effect
<1>5. CASE \E m \in ModelsOf[t] : rows = Deleted(Created(T), m)
  <2>1. PICK m \in ModelsOf[t] : rows = Atomic!Deleted(Atomic!Opened(T), m)
    BY <1>1, <1>5, SameStatements
  <2> QED BY <1>2, <2>1 DEF Atomic!Effect
<1> QED BY <1>4, <1>5 DEF Leaves

\* A call that ends where it starts leaves the saves under way alone.
LEMMA ReturnAtOnce ==
    ASSUME TypeOK, NEW t \in Threads, call[t] = NoCall, NEW a, Return(t, a)
    PROVE  UNCHANGED call /\ answer' = [answer EXCEPT ![t] = a]
  BY DEF TypeOK, Return

\* A call that changes nothing is one step of AtomicStore,
LEMMA NothingIsOneStep ==
    ASSUME TypeOK, NEW t \in Threads, call[t] = NoCall, NEW a \in {"no", "raised", "void"}, Return(t, a),
           UNCHANGED store
    PROVE  Atomic!OneStep(t)
  BY ReturnAtOnce DEF Atomic!OneStep

\* and so is one that writes a table.
LEMMA WritingIsOneStep ==
    ASSUME TypeOK, NEW t \in Threads, call[t] = NoCall, NEW T \in Tables, NEW rows, NEW done \in {"yes", "void"},
           Leaves(t, T, rows), Write(t, T, rows, done) \/ (Becomes(T, rows) /\ Return(t, done))
    PROVE  Atomic!OneStep(t)
<1>1. CASE Becomes(T, rows) /\ Return(t, done)
  BY <1>1, LeavesIsEffect, ReturnAtOnce DEF Atomic!OneStep
<1>2. CASE ~(Becomes(T, rows) /\ Return(t, done))
  <2>1. UNCHANGED store /\ Return(t, IF done = "void" THEN done ELSE "no")
    BY <1>2 DEF Write
  <2> QED BY <2>1, NothingIsOneStep
<1> QED BY <1>1, <1>2

\* The second block of a save writes what the save would write in one go.
LEMMA SaveIsFinish ==
    ASSUME StoreInv, FoundIsThere, MissingIsMissing, NEW t \in Threads, SaveUpdate(t) \/ SaveInsert(t)
    PROVE  Atomic!Finish(t)
<1>1. PICK T \in Tables, m \in ModelsOf[t], cols \in ColumnLists :
        call[t].table = T /\ call[t].model = m /\ call[t].columns = cols /\ call[t] # NoCall
  BY DEF SaveUpdate, SaveInsert, StoreInv, TypeOK, OwnModels, Calls
<1>2. Atomic!Opened(T) = Created(T)
  BY DEF Atomic!Opened, Atomic!Exists, Created, Exists
<1>3. \/ \E a \in {"no", "raised"} : Return(t, a) /\ UNCHANGED store
      \/ Return(t, "yes") /\ Becomes(T, Saved(Created(T), m, cols, {}))
  <2>1. CASE SaveUpdate(t)
    <3>1. found[t]
      BY <2>1 DEF SaveUpdate
    <3>2. Saved(Created(T), m, cols, {}) = Updated(Created(T), m, cols)
      BY <1>1, <3>1 DEF FoundIsThere, Having, Saved
    <3> QED BY <1>1, <2>1, <3>2 DEF SaveUpdate, Write
  <2>2. CASE SaveInsert(t)
    <3>1. ~found[t]
      BY <2>2 DEF SaveInsert
    <3>2. Saved(Created(T), m, cols, {}) = Inserted(Created(T), m, {}, FALSE)
      BY <1>1, <3>1 DEF MissingIsMissing, Lacking, Saved
    <3> QED BY <1>1, <2>2, <3>2 DEF SaveInsert, Write
  <2> QED BY <2>1, <2>2
<1>4. Saved(Created(T), m, cols, {}) = Atomic!Saved(Atomic!Opened(T), m, cols, {})
  BY <1>2, SameStatements
<1> QED BY <1>1, <1>3, <1>4 DEF Atomic!Finish, Atomic!Outcome, Return, Becomes

\* Inserts are one step,
LEMMA InsertsAreOneStep ==
    ASSUME StoreInv, NEW t \in Threads, Inserts(t)
    PROVE  Atomic!OneStep(t)
<1>0. TypeOK /\ ClassTable \in Tables /\ {} \in ColumnLists \cup {{}} /\ ColumnLists \subseteq ColumnLists \cup {{}}
  BY ModelStoreAssumption DEF StoreInv
<1>1. \A T \in Tables, ms \in Arrays(t), cols \in ColumnLists \cup {{}}, replace \in BOOLEAN :
        Leaves(t, T, InsertedAll(Created(T), ms, cols, replace))
  BY DEF Leaves
<1>2. \A T \in Tables, m \in ModelsOf[t], replace \in BOOLEAN :
        Leaves(t, T, Inserted(Created(T), m, {}, replace))
  <2> SUFFICES ASSUME NEW T \in Tables, NEW m \in ModelsOf[t], NEW replace \in BOOLEAN
               PROVE  Leaves(t, T, Inserted(Created(T), m, {}, replace))
    OBVIOUS
  <2>1. Created(T) \in SUBSET Rows
    BY <1>0 DEF TypeOK, Created, Exists
  <2>2. InsertedAll(Created(T), <<m>>, {}, replace) = Inserted(Created(T), m, {}, replace)
    BY <2>1, AllOfOne
  <2>3. <<m>> \in Arrays(t)
    BY DEF Arrays
  <2> QED BY <1>0, <1>1, <2>2, <2>3
<1>3. ASSUME NEW m \in ModelsOf[t], NEW replace \in BOOLEAN, Insert(t, m, replace) PROVE Atomic!OneStep(t)
  BY <1>0, <1>2, <1>3, WritingIsOneStep DEF Insert
<1>4. ASSUME NEW T \in Tables, NEW m \in ModelsOf[t], NEW replace \in BOOLEAN, InsertNamed(t, T, m, replace)
      PROVE  Atomic!OneStep(t)
  BY <1>0, <1>2, <1>4, WritingIsOneStep DEF InsertNamed
<1>5. ASSUME NEW ms \in Arrays(t), NEW replace \in BOOLEAN, InsertArray(t, ms, replace)
      PROVE  Atomic!OneStep(t)
  BY <1>0, <1>1, <1>5, WritingIsOneStep DEF InsertArray
<1>6. ASSUME NEW T \in Tables, NEW ms \in Several(t), NEW replace \in BOOLEAN, InsertArrayNamed(t, T, ms, replace)
      PROVE  Atomic!OneStep(t)
  <2>1. ms \in Arrays(t)
    BY DEF Arrays
  <2> QED BY <1>0, <1>1, <1>6, <2>1, WritingIsOneStep DEF InsertArrayNamed
<1>7. ASSUME NEW T \in Tables, NEW ms \in Arrays(t), NEW cols \in ColumnLists, NEW replace \in BOOLEAN,
             InsertArrayColumns(t, T, ms, cols, replace)
      PROVE  Atomic!OneStep(t)
  BY <1>0, <1>1, <1>7, WritingIsOneStep DEF InsertArrayColumns
<1> QED BY <1>3, <1>4, <1>5, <1>6, <1>7 DEF Inserts

\* updates and removals are,
LEMMA ChangesAreOneStep ==
    ASSUME StoreInv, NEW t \in Threads, Changes(t)
    PROVE  Atomic!OneStep(t)
<1>0. TypeOK /\ ColumnLists \subseteq ColumnLists \cup {{}}
  BY DEF StoreInv
<1>1. \A T \in Tables, ms \in Arrays(t), cols \in ColumnLists : Leaves(t, T, UpdatedAll(Created(T), ms, cols))
  BY DEF Leaves
<1>2. ASSUME NEW T \in Tables, NEW m \in ModelsOf[t], DeleteRecord(t, T, m) PROVE Atomic!OneStep(t)
  <2>1. Leaves(t, T, Deleted(Created(T), m))
    BY DEF Leaves
  <2> QED BY <1>0, <1>2, <2>1, WritingIsOneStep DEF DeleteRecord
<1>3. ASSUME NEW T \in Tables, NEW m \in ModelsOf[t], NEW cols \in ColumnLists, Update(t, T, m, cols)
      PROVE  Atomic!OneStep(t)
  <2>1. Created(T) \in SUBSET Rows /\ <<m>> \in Arrays(t)
    BY <1>0 DEF TypeOK, Created, Exists, Arrays
  <2>2. UpdatedAll(Created(T), <<m>>, cols) = Updated(Created(T), m, cols)
    BY <2>1, AllOfOne
  <2>3. Leaves(t, T, Updated(Created(T), m, cols))
    BY <1>1, <2>1, <2>2
  <2> QED BY <1>0, <1>3, <2>3, WritingIsOneStep, NothingIsOneStep DEF Update
<1>4. ASSUME NEW T \in Tables, NEW ms \in Several(t), NEW cols \in ColumnLists, UpdateArray(t, T, ms, cols)
      PROVE  Atomic!OneStep(t)
  <2>1. ms \in Arrays(t)
    BY DEF Arrays
  <2> QED BY <1>0, <1>1, <1>4, <2>1, WritingIsOneStep DEF UpdateArray
<1>5. ASSUME NEW T \in Tables, EraseTable(t, T) \/ DeleteTable(t, T) PROVE Atomic!OneStep(t)
  <2>1. PICK rows \in {{}, NoTable} : Write(t, T, rows, "yes")
    BY <1>5 DEF EraseTable, DeleteTable
  <2>2. call[t] = NoCall
    BY <1>5 DEF EraseTable, DeleteTable
  <2>3. CASE Exists(T)
    <3>1. Atomic!Effect(t)
      BY <2>1, <2>3 DEF Write, Becomes, Atomic!Effect, Atomic!Exists, Exists
    <3> QED BY <1>0, <2>1, <2>2, <2>3, <3>1, ReturnAtOnce DEF Write, Atomic!OneStep
  <2>4. CASE ~Exists(T)
    BY <1>0, <2>1, <2>2, <2>4, NothingIsOneStep DEF Write
  <2> QED BY <2>3, <2>4
<1> QED BY <1>2, <1>3, <1>4, <1>5 DEF Changes

\* arrays of saves are, and a single save is two.
LEMMA SavesAreSteps ==
    ASSUME StoreInv, FoundIsThere, MissingIsMissing, BatchesOfClass, NoTableIsNone, NEW t \in Threads, Saves(t)
    PROVE  Atomic!Begin(t) \/ Atomic!Finish(t) \/ Atomic!OneStep(t)
<1>0. TypeOK /\ ClassTable \in Tables /\ ColumnLists \subseteq ColumnLists \cup {{}}
  BY ModelStoreAssumption DEF StoreInv
<1>1. \A T \in Tables, ms \in Arrays(t), cols \in ColumnLists : Leaves(t, T, SavedAll(Created(T), ms, cols))
  BY DEF Leaves
<1>2. ASSUME NEW T \in Tables, NEW m \in ModelsOf[t], NEW cols \in ColumnLists, NEW creates \in BOOLEAN,
             SaveQuery(t, T, m, cols, creates)
      PROVE  Atomic!Begin(t)
  BY <1>2 DEF SaveQuery, Atomic!Begin
<1>3. ASSUME NEW T \in Tables, NEW m \in ModelsOf[t], NEW cols \in ColumnLists, SaveArrayOfOne(t, T, m, cols)
      PROVE  Atomic!OneStep(t)
  <2>1. <<m>> \in Arrays(t)
    BY DEF Arrays
  <2> QED BY <1>0, <1>1, <1>3, <2>1, WritingIsOneStep DEF SaveArrayOfOne
<1>4. ASSUME NEW T \in BatchTables, NEW ms \in Several(t), NEW cols \in ColumnLists, SaveArray(t, T, ms, cols)
      PROVE  Atomic!OneStep(t)
  <2>1. T = ClassTable /\ ms \in Arrays(t)
    BY DEF BatchesOfClass, Arrays
  <2>2. Created(T) # NoTable
    BY <1>0, <2>1 DEF TypeOK, Created, Exists, NoTableIsNone
  <2> DEFINE made == [store EXCEPT ![T] = Created(T)]
             rows == SavedAll(Created(T), ms, cols)
  <2>3. made[T] = Created(T) /\ \A x : [made EXCEPT ![T] = x] = [store EXCEPT ![T] = x]
    BY <1>0, <2>1 DEF TypeOK
  <2>4. store' = IF made[T] = NoTable THEN made ELSE [made EXCEPT ![T] = SavedAll(made[T], ms, cols)]
    BY <1>4, <2>1 DEF SaveArray
  <2> HIDE DEF made
  <2>5. Becomes(T, rows)
    BY <2>2, <2>3, <2>4 DEF Becomes
  <2>6. Return(t, "void") /\ call[t] = NoCall
    BY <1>4 DEF SaveArray
  <2>7. Leaves(t, T, rows)
    BY <1>0, <1>1, <2>1
  <2> HIDE DEF rows
  <2> QED BY <1>0, <2>1, <2>5, <2>6, <2>7, WritingIsOneStep
<1> QED BY <1>2, <1>3, <1>4, SaveIsFinish DEF Saves

\* Threads that write different keys, and remove tables only when no save is at
\* work, cannot tell the calls from atomic ones.
THEOREM StoreImplementsAtomicStore ==
    ASSUME FullKeys, OwnKeys, QuietRemovals, BatchesOfClass, NoTableIsNone
    PROVE  Spec => CallsAreAtomic
<1> DEFINE Inv == FoundIsThere /\ MissingIsMissing
<1>1. Init => Atomic!Init
  BY DEF Init, Atomic!Init
<1>2. StoreInv /\ Inv /\ [Next]_vars => [Atomic!Next]_(Atomic!vars)
  <2> SUFFICES ASSUME StoreInv, Inv, [Next]_vars PROVE [Atomic!Next]_(Atomic!vars)
    OBVIOUS
  <2>1. CASE UNCHANGED vars
    BY <2>1 DEF vars, Atomic!vars
  <2>2. CASE Next
    <3>1. PICK t \in Threads : Inserts(t) \/ Saves(t) \/ Changes(t)
      BY <2>2 DEF Next
    <3>2. Atomic!Begin(t) \/ Atomic!Finish(t) \/ Atomic!OneStep(t)
      BY <3>1, InsertsAreOneStep, ChangesAreOneStep, SavesAreSteps
    <3> QED BY <3>2 DEF Atomic!Next
  <2> QED BY <2>1, <2>2
<1>3. StoreInv /\ Inv /\ [Next]_vars => Inv'
  BY FoundStays, MissingStays DEF OwnRemovals
<1>4. Init => Inv
  BY FoundStarts
<1> HIDE DEF Inv
<1> QED BY <1>1, <1>2, <1>3, <1>4, StoreInvHolds, PTL DEF Spec, CallsAreAtomic, Atomic!Spec

=============================================================================
