------------------------ MODULE EncryptUpgradeProofs ------------------------
(***************************************************************************)
(* What holds of a database file for any rows and any versions, however    *)
(* often the program is stopped, whatever fails and whenever encryption is *)
(* switched.                                                               *)
(***************************************************************************)
EXTENDS EncryptUpgrade, SequenceTheorems, TLAPS

\* Encryption was never switched off, and the status is this database's own.
Encrypting == trouble \cap {"decrypting", "shared"} = {}

\* <path> is being made anew.
MainIsNew ==
    /\ pc = "attach" => main = Absent
    /\ pc \in Migrating => main.fmt # "plain"

\* What is saved, asked for, being made or found as encrypted is wanted so.
EncryptedIsNeeded ==
    Encrypting =>
      /\ saved /\ pc # "down" => need
      /\ asked => need
      /\ pc \in Migrating => asked
      /\ main.fmt = "cipher" => need \/ (pc = "down" /\ saved)
      /\ saved /\ pc = "opened" => asked

\* Without trouble the status tells of the file, and the .tmp file holds what
\* the export has still to copy.
StatusIsTrue ==
    trouble = {} =>
      /\ main.fmt = "cipher" /\ pc \notin Migrating => saved
      /\ pc = "opened" => main.fmt # "absent" /\ (asked => saved)
      /\ pc = "queue" => (need <=> saved) /\ asked = need
      /\ pc \in Migrating => asked /\ ~saved /\ tmp.fmt # "cipher"

\* Without trouble every row is where the step of openDB leaves it.
RowsInPlace ==
    trouble = {} =>
      /\ pc \in {"down", "ready", "queue", "opened", "save"} => tmp = Absent /\ main.rows = written
      /\ pc \in {"attach", "export", "remove"} => tmp.rows = written /\ main.rows \subseteq written
      /\ pc = "remove" => main.rows = written

\* The inductive invariant.
UpgradeInv ==
    /\ TypeOK
    /\ StatusNeverOverclaims
    /\ MainIsNew
    /\ EncryptedIsNeeded
    /\ StatusIsTrue
    /\ RowsInPlace

-----------------------------------------------------------------------------
\* A file the program finds was written before the status was saved.
LEMMA InitHolds == Init => UpgradeInv
<1> SUFFICES ASSUME Init PROVE UpgradeInv OBVIOUS
<1>1. PICK f \in {"absent", "plain", "cipher"} :
         main = [fmt |-> f, rows |-> IF f = "absent" THEN {} ELSE Rows]
  BY DEF Init
<1>2. main \in Files /\ written \subseteq Rows
  BY <1>1 DEF Init, Files, Absent
<1>3. TypeOK
  BY <1>2 DEF Init, TypeOK, Files, Labels, Migrating
<1>4. StatusNeverOverclaims /\ MainIsNew /\ EncryptedIsNeeded
  BY DEF Init, StatusNeverOverclaims, MainIsNew, EncryptedIsNeeded, Encrypting, Migrating
<1>5. StatusIsTrue /\ RowsInPlace
  BY DEF Init, StatusIsTrue, RowsInPlace, Migrating, Absent
<1> QED BY <1>3, <1>4, <1>5 DEF UpgradeInv

\* The process and its configuration: the files do not change.
LEMMA LaunchKeeps ==
    ASSUME UpgradeInv, NEW v \in Versions, NEW encrypted \in BOOLEAN, Launch(v, encrypted)
    PROVE  UpgradeInv'
  BY DEF UpgradeInv, Launch, TypeOK, StatusNeverOverclaims, MainIsNew, EncryptedIsNeeded,
         StatusIsTrue, RowsInPlace, Encrypting, Labels, Migrating, Troubles, IsNeedEncrypted

\* Encryption switched off, or while openDB is at work, is trouble.
LEMMA SwitchKeeps ==
    ASSUME UpgradeInv, NEW encrypted \in BOOLEAN, Switch(encrypted)
    PROVE  UpgradeInv'
  BY DEF UpgradeInv, Switch, TypeOK, StatusNeverOverclaims, MainIsNew, EncryptedIsNeeded,
         StatusIsTrue, RowsInPlace, Encrypting, Labels, Migrating, Troubles, IsNeedEncrypted

\* The caller tells the status of the file itself.
LEMMA SetupKeeps ==
    ASSUME UpgradeInv, SetupEncrypted
    PROVE  UpgradeInv'
  BY DEF UpgradeInv, SetupEncrypted, TypeOK, StatusNeverOverclaims, MainIsNew, EncryptedIsNeeded,
         StatusIsTrue, RowsInPlace, Encrypting, Labels, Migrating, Troubles, Files,
         Absent, Blank, Format, Readable

\* Another database's status is trouble.
LEMMA OtherSavesKeeps ==
    ASSUME UpgradeInv, OtherDatabaseSaves
    PROVE  UpgradeInv'
  BY DEF UpgradeInv, OtherDatabaseSaves, TypeOK, StatusNeverOverclaims, MainIsNew,
         EncryptedIsNeeded, StatusIsTrue, RowsInPlace, Encrypting, Labels, Migrating, Troubles

\* Closing forgets nothing.
LEMMA CloseDBKeeps ==
    ASSUME UpgradeInv, CloseDB
    PROVE  UpgradeInv'
  BY DEF UpgradeInv, CloseDB, TypeOK, StatusNeverOverclaims, MainIsNew, EncryptedIsNeeded,
         StatusIsTrue, RowsInPlace, Encrypting, Labels, Migrating, Troubles, Files,
         Absent, Blank, Format, Readable

\* Without a file there is nothing to convert: the status is what is wanted.
LEMMA NoFileKeeps ==
    ASSUME UpgradeInv, UpgradeNoFile
    PROVE  UpgradeInv'
  BY DEF UpgradeInv, UpgradeNoFile, TypeOK, StatusNeverOverclaims, MainIsNew, EncryptedIsNeeded,
         StatusIsTrue, RowsInPlace, Encrypting, Labels, Migrating, Troubles, Files,
         Absent, Blank, Format, Readable

\* The upgrade is skipped only for a status that is what is wanted.
LEMMA NothingKeeps ==
    ASSUME UpgradeInv, UpgradeNothing
    PROVE  UpgradeInv'
  BY DEF UpgradeInv, UpgradeNothing, TypeOK, StatusNeverOverclaims, MainIsNew, EncryptedIsNeeded,
         StatusIsTrue, RowsInPlace, Encrypting, Labels, Migrating, Troubles, Files,
         Absent, Blank, Format, Readable

\* Without trouble there is no .tmp file, the move succeeds, and the file moved
\* is not encrypted.
LEMMA ChangeKeeps ==
    ASSUME UpgradeInv, ChangeDatabasePath
    PROVE  UpgradeInv'
  BY DEF UpgradeInv, ChangeDatabasePath, TypeOK, StatusNeverOverclaims, MainIsNew, EncryptedIsNeeded,
         StatusIsTrue, RowsInPlace, Encrypting, Labels, Migrating, Troubles, Files,
         Absent, Blank, Format, Readable

\* The new file is blank.
LEMMA AttachKeeps ==
    ASSUME UpgradeInv, Attach
    PROVE  UpgradeInv'
  BY DEF UpgradeInv, Attach, TypeOK, StatusNeverOverclaims, MainIsNew, EncryptedIsNeeded,
         StatusIsTrue, RowsInPlace, Encrypting, Labels, Migrating, Troubles, Files,
         Absent, Blank, Format, Readable

\* A failure is trouble, and the status stays NO.
LEMMA OpenTmpFailsKeeps ==
    ASSUME UpgradeInv, OpenTmpFails
    PROVE  UpgradeInv'
  BY DEF UpgradeInv, OpenTmpFails, TypeOK, StatusNeverOverclaims, MainIsNew, EncryptedIsNeeded,
         StatusIsTrue, RowsInPlace, Encrypting, Labels, Migrating, Troubles, Files,
         Absent, Blank, Format, Readable

\* A row is copied from the .tmp file, never lost there.
LEMMA ExportRowKeeps ==
    ASSUME UpgradeInv, NEW r \in Rows, ExportRow(r)
    PROVE  UpgradeInv'
  BY DEF UpgradeInv, ExportRow, TypeOK, StatusNeverOverclaims, MainIsNew, EncryptedIsNeeded,
         StatusIsTrue, RowsInPlace, Encrypting, Labels, Migrating, Troubles, Files,
         Absent, Blank, Format, Readable

\* An export that is complete has copied every row.
LEMMA ExportCompleteKeeps ==
    ASSUME UpgradeInv, ExportComplete
    PROVE  UpgradeInv'
  BY DEF UpgradeInv, ExportComplete, TypeOK, StatusNeverOverclaims, MainIsNew, EncryptedIsNeeded,
         StatusIsTrue, RowsInPlace, Encrypting, Labels, Migrating, Troubles, Files,
         Absent, Blank, Format, Readable

\* One that is not is trouble: without any the .tmp file can be read.
LEMMA ExportFailsKeeps ==
    ASSUME UpgradeInv, ExportFails
    PROVE  UpgradeInv'
  BY DEF UpgradeInv, ExportFails, TypeOK, StatusNeverOverclaims, MainIsNew, EncryptedIsNeeded,
         StatusIsTrue, RowsInPlace, Encrypting, Labels, Migrating, Troubles, Files,
         Absent, Blank, Format, Readable

\* Without trouble every row has been copied; a .tmp file that stays is trouble.
LEMMA RemoveKeeps ==
    ASSUME UpgradeInv, RemoveDatabasePath
    PROVE  UpgradeInv'
<1>1. CASE tmp' = Absent /\ UNCHANGED trouble
  BY <1>1 DEF UpgradeInv, RemoveDatabasePath, TypeOK, StatusNeverOverclaims, MainIsNew,
     EncryptedIsNeeded, StatusIsTrue, RowsInPlace, Encrypting, Labels, Migrating, Files, Absent
<1>2. CASE UNCHANGED tmp /\ trouble' = trouble \cup {"failed"}
  <2>1. trouble' # {} /\ trouble' \subseteq Troubles /\ (Encrypting' => Encrypting)
    BY <1>2 DEF UpgradeInv, TypeOK, Troubles, Encrypting
  <2>2. TypeOK' /\ StatusIsTrue' /\ RowsInPlace'
    BY <1>2, <2>1 DEF UpgradeInv, RemoveDatabasePath, TypeOK, StatusIsTrue, RowsInPlace, Labels,
       Migrating
  <2>3. StatusNeverOverclaims' /\ MainIsNew' /\ EncryptedIsNeeded'
    BY <2>1 DEF UpgradeInv, RemoveDatabasePath, StatusNeverOverclaims, MainIsNew,
       EncryptedIsNeeded, Encrypting, Migrating
  <2> QED BY <2>2, <2>3 DEF UpgradeInv
<1> QED BY <1>1, <1>2 DEF RemoveDatabasePath

\* The status saved is the one asked for, of a file made for it.
LEMMA SaveKeeps ==
    ASSUME UpgradeInv, SaveEncryptedStatus
    PROVE  UpgradeInv'
  BY DEF UpgradeInv, SaveEncryptedStatus, TypeOK, StatusNeverOverclaims, MainIsNew, EncryptedIsNeeded,
         StatusIsTrue, RowsInPlace, Encrypting, Labels, Migrating, Troubles, Files,
         Absent, Blank, Format, Readable

\* A new file is written in the format wanted.
LEMMA OpenQueueKeeps ==
    ASSUME UpgradeInv, NEW tables \in BOOLEAN, OpenQueue(tables)
    PROVE  UpgradeInv'
  BY DEF UpgradeInv, OpenQueue, TypeOK, StatusNeverOverclaims, MainIsNew, EncryptedIsNeeded,
         StatusIsTrue, RowsInPlace, Encrypting, Labels, Migrating, Troubles, Files,
         Absent, Blank, Format, Readable

\* An openDB that answers NO has upgraded what there was.
LEMMA OpenQueueFailsKeeps ==
    ASSUME UpgradeInv, OpenQueueFails
    PROVE  UpgradeInv'
  BY DEF UpgradeInv, OpenQueueFails, TypeOK, StatusNeverOverclaims, MainIsNew,
         EncryptedIsNeeded, StatusIsTrue, RowsInPlace, Encrypting, Labels, Migrating

\* Rows go to a file in the format asked for.
LEMMA StoreKeeps ==
    ASSUME UpgradeInv, NEW r \in Rows, Store(r)
    PROVE  UpgradeInv'
  BY DEF UpgradeInv, Store, TypeOK, StatusNeverOverclaims, MainIsNew, EncryptedIsNeeded,
         StatusIsTrue, RowsInPlace, Encrypting, Labels, Migrating, Troubles, Files,
         Absent, Blank, Format, Readable

\* A stop in the middle is trouble; the rest survives it.
LEMMA ExitKeeps ==
    ASSUME UpgradeInv, Exit
    PROVE  UpgradeInv'
  BY DEF UpgradeInv, Exit, TypeOK, StatusNeverOverclaims, MainIsNew, EncryptedIsNeeded,
         StatusIsTrue, RowsInPlace, Encrypting, Labels, Migrating, Troubles, Files,
         Absent, Blank, Format, Readable

\* Every step of the program keeps the invariant.
LEMMA StepKeeps == UpgradeInv /\ [Next]_vars => UpgradeInv'
<1> SUFFICES ASSUME UpgradeInv, [Next]_vars PROVE UpgradeInv' OBVIOUS
<1>1. CASE \E v \in Versions, encrypted \in BOOLEAN : Launch(v, encrypted)
  BY <1>1, LaunchKeeps
<1>2. CASE \E encrypted \in BOOLEAN : Switch(encrypted)
  BY <1>2, SwitchKeeps
<1>3. CASE CloseDB BY <1>3, CloseDBKeeps
<1>4. CASE SetupEncrypted BY <1>4, SetupKeeps
<1>5. CASE OtherDatabaseSaves BY <1>5, OtherSavesKeeps
<1>6. CASE BeginOpen
  BY <1>6, NoFileKeeps, NothingKeeps, ChangeKeeps DEF BeginOpen
<1>7. CASE GoOn
  BY <1>7, AttachKeeps, OpenTmpFailsKeeps, ExportRowKeeps, ExportCompleteKeeps, ExportFailsKeeps,
     RemoveKeeps, SaveKeeps, OpenQueueKeeps, OpenQueueFailsKeeps DEF GoOn
<1>8. CASE \E r \in Rows : Store(r)
  BY <1>8, StoreKeeps
<1>9. CASE Exit BY <1>9, ExitKeeps
<1>10. CASE UNCHANGED vars
  BY <1>10 DEF vars, UpgradeInv, TypeOK, StatusNeverOverclaims, MainIsNew, EncryptedIsNeeded,
               StatusIsTrue, RowsInPlace, Encrypting
<1> QED BY <1>1, <1>2, <1>3, <1>4, <1>5, <1>6, <1>7, <1>8, <1>9, <1>10 DEF Next

\* It holds of every reachable state.
LEMMA UpgradeInvariant == Spec => []UpgradeInv
  BY InitHolds, StepKeeps, PTL DEF Spec

-----------------------------------------------------------------------------
(* Versions as texts *)

\* Texts of one length before the rest are compared first.
LEMMA AscendingParts ==
    ASSUME NEW a \in Seq(Int), NEW b \in Seq(Int), NEW x \in Seq(Int), NEW y \in Seq(Int),
           Len(a) = Len(b)
    PROVE  Ascending(a \o x, b \o y) <=> Ascending(a, b) \/ (a = b /\ Ascending(x, y))
<1> DEFINE n == Len(a)
           ax == a \o x
           by == b \o y
<1>1. /\ n \in Nat /\ Len(x) \in Nat /\ Len(y) \in Nat /\ Len(b) = n
      /\ Len(ax) = n + Len(x) /\ Len(by) = n + Len(y)
  <2>1. n \in Nat /\ Len(x) \in Nat /\ Len(y) \in Nat
    BY LenProperties
  <2>2. Len(ax) = Len(a) + Len(x)
    BY ConcatProperties
  <2>3. Len(by) = Len(b) + Len(y)
    BY ConcatProperties
  <2> QED BY <2>1, <2>2, <2>3
<1>2. /\ \A i \in 1..n : ax[i] = a[i] /\ by[i] = b[i]
      /\ \A i \in 1..Len(x) : ax[n + i] = x[i]
      /\ \A i \in 1..Len(y) : by[n + i] = y[i]
  OBVIOUS
<1>3. (\A i \in 1..n : a[i] = b[i]) => a = b
  BY SeqEqual
<1> HIDE DEF n, ax, by
<1>4. ASSUME Ascending(ax, by) PROVE Ascending(a, b) \/ (a = b /\ Ascending(x, y))
  <2>1. PICK i \in 1..Len(by) : /\ \A j \in 1..(i - 1) : j <= Len(ax) /\ ax[j] = by[j]
                                /\ i <= Len(ax) => ax[i] < by[i]
    BY <1>4 DEF Ascending
  <2>2. CASE i <= n
    <3>1. \A j \in 1..(i - 1) : j <= n /\ a[j] = b[j]
      BY <1>1, <1>2, <2>1, <2>2
    <3>2. a[i] < b[i]
      BY <1>1, <1>2, <2>1, <2>2
    <3>3. i \in 1..Len(b)
      BY <1>1, <2>1, <2>2
    <3> QED BY <3>1, <3>2, <3>3 DEF Ascending, n
  <2>3. CASE i > n
    <3> DEFINE k == i - n
    <3>1. k \in 1..Len(y) /\ i = n + k
      BY <1>1, <2>1, <2>3
    <3>2. a = b
      BY <1>1, <1>2, <1>3, <2>1, <2>3
    <3> HIDE DEF k
    <3>3. ASSUME NEW j \in 1..(k - 1) PROVE j <= Len(x) /\ x[j] = y[j]
      <4>1. n + j \in 1..(i - 1) /\ j \in 1..Len(y)
        BY <1>1, <3>1
      <4>2. n + j <= n + Len(x) /\ ax[n + j] = by[n + j]
        BY <1>1, <2>1, <4>1
      <4>3. j \in 1..Len(x)
        BY <1>1, <4>1, <4>2
      <4> QED BY <1>2, <4>1, <4>2, <4>3
    <3>4. ASSUME k <= Len(x) PROVE x[k] < y[k]
      <4>1. i <= Len(ax) /\ k \in 1..Len(x)
        BY <1>1, <3>1, <3>4
      <4> QED BY <1>2, <2>1, <3>1, <4>1
    <3> QED BY <3>1, <3>2, <3>3, <3>4 DEF Ascending
  <2> QED BY <1>1, <2>1, <2>2, <2>3
<1>5. ASSUME Ascending(a, b) PROVE Ascending(ax, by)
  <2>1. PICK i \in 1..n : (\A j \in 1..(i - 1) : a[j] = b[j]) /\ a[i] < b[i]
    BY <1>1, <1>5 DEF Ascending, n
  <2>2. i \in 1..Len(by) /\ ax[i] < by[i]
    BY <1>1, <1>2, <2>1
  <2>3. \A j \in 1..(i - 1) : j <= Len(ax) /\ ax[j] = by[j]
    BY <1>1, <1>2, <2>1
  <2> QED BY <2>2, <2>3 DEF Ascending
<1>6. ASSUME a = b, Ascending(x, y) PROVE Ascending(ax, by)
  <2>1. PICK k \in 1..Len(y) : /\ \A j \in 1..(k - 1) : j <= Len(x) /\ x[j] = y[j]
                               /\ k <= Len(x) => x[k] < y[k]
    BY <1>6 DEF Ascending
  <2> DEFINE i == n + k
  <2>2. i \in 1..Len(by)
    BY <1>1, <2>1
  <2>3. i <= Len(ax) => ax[i] < by[i]
    BY <1>1, <1>2, <2>1
  <2>4. ASSUME NEW j \in 1..(i - 1) PROVE j <= Len(ax) /\ ax[j] = by[j]
    <3>1. CASE j <= n
      BY <1>1, <1>2, <1>6, <3>1
    <3>2. CASE j > n
      <4> DEFINE l == j - n
      <4>1. l \in 1..(k - 1) /\ l \in 1..Len(y) /\ j = n + l
        BY <1>1, <2>1, <3>2
      <4> HIDE DEF l
      <4>2. l <= Len(x) /\ x[l] = y[l]
        BY <2>1, <4>1
      <4>3. l \in 1..Len(x)
        BY <1>1, <4>1, <4>2
      <4> QED BY <1>1, <1>2, <4>1, <4>2, <4>3
    <3> QED BY <1>1, <3>1, <3>2
  <2> HIDE DEF i
  <2> QED BY <2>2, <2>3, <2>4 DEF Ascending
<1> QED BY <1>4, <1>5, <1>6 DEF ax, by

\* Numbers of as many digits are compared as numbers.
LEMMA AscendingDigits ==
    ASSUME NEW m \in 0..99, NEW n \in 0..99, m < 10 <=> n < 10
    PROVE  /\ Digits(m) \in Seq(Int) /\ Digits(n) \in Seq(Int) /\ Len(Digits(m)) = Len(Digits(n))
           /\ Digits(m) = Digits(n) <=> m = n
           /\ Ascending(Digits(m), Digits(n)) <=> m < n
<1>1. CASE m < 10
  <2>1. Digits(m) = <<m>> /\ Digits(n) = <<n>>
    BY <1>1 DEF Digits
  <2>2. Ascending(<<m>>, <<n>>) <=> m < n
    BY DEF Ascending
  <2> QED BY <2>1, <2>2
<1>2. CASE m >= 10
  <2> DEFINE a == m \div 10
             b == m % 10
             c == n \div 10
             d == n % 10
  <2>1. Digits(m) = <<a, b>> /\ Digits(n) = <<c, d>>
    BY <1>2 DEF Digits
  <2>2. /\ a \in Int /\ b \in 0..9 /\ m = 10 * a + b
        /\ c \in Int /\ d \in 0..9 /\ n = 10 * c + d
    BY Z3
  <2> HIDE DEF a, b, c, d
  <2>3. Ascending(<<a, b>>, <<c, d>>) <=> a < c \/ (a = c /\ b < d)
    <3>1. ASSUME Ascending(<<a, b>>, <<c, d>>) PROVE a < c \/ (a = c /\ b < d)
      BY <2>2, <3>1 DEF Ascending
    <3>2. ASSUME a < c PROVE Ascending(<<a, b>>, <<c, d>>)
      <4>1. 1 \in 1..Len(<<c, d>>) /\ <<a, b>>[1] < <<c, d>>[1] /\ 1..(1 - 1) = {}
        BY <3>2
      <4> QED BY <4>1 DEF Ascending
    <3>3. ASSUME a = c, b < d PROVE Ascending(<<a, b>>, <<c, d>>)
      <4>1. 2 \in 1..Len(<<c, d>>) /\ <<a, b>>[2] < <<c, d>>[2]
        BY <3>3
      <4>2. \A j \in 1..(2 - 1) : j <= Len(<<a, b>>) /\ <<a, b>>[j] = <<c, d>>[j]
        BY <3>3
      <4> QED BY <4>1, <4>2 DEF Ascending
    <3> QED BY <3>1, <3>2, <3>3
  <2>4. <<a, b>> = <<c, d>> <=> m = n
    BY <2>2
  <2>5. (a < c \/ (a = c /\ b < d)) <=> m < n
    BY <2>2
  <2>6. <<a, b>> \in Seq(Int) /\ <<c, d>> \in Seq(Int) /\ Len(<<a, b>>) = Len(<<c, d>>)
    BY <2>2
  <2> QED BY <2>1, <2>3, <2>4, <2>5, <2>6
<1> QED BY <1>1, <1>2

\* What follows a part in the text of a version: nothing, or a dot and more.
Follows(x) == x \in Seq(Int) /\ (x = <<>> \/ (Len(x) > 0 /\ x[1] = -1))

\* A part of two digits against one of one digit: the first digits decide, and
\* of equal ones the longer part is the greater.
LEMMA PartsOfTwoLengths ==
    ASSUME NEW a \in 0..9, NEW b \in 0..9, NEW c \in 0..9, NEW x, NEW y, Follows(x), Follows(y)
    PROVE  /\ Ascending(<<a, b>> \o x, <<c>> \o y) <=> a < c
           /\ Ascending(<<c>> \o y, <<a, b>> \o x) <=> c <= a
<1>0. x \in Seq(Int) /\ y \in Seq(Int)
  BY DEF Follows
<1>1. /\ <<a, b>> \o x = <<a>> \o (<<b>> \o x)
      /\ <<b>> \o x \in Seq(Int) /\ Len(<<b>> \o x) = Len(x) + 1 /\ (<<b>> \o x)[1] = b
  <2>1. <<a>> \in Seq(Int) /\ <<b>> \in Seq(Int) /\ <<a, b>> = <<a>> \o <<b>>
    <3>1. <<a>> \in Seq(Int) /\ <<b>> \in Seq(Int) /\ <<a, b>> \in Seq(Int)
      OBVIOUS
    <3>2. <<a>> \o <<b>> \in Seq(Int) /\ Len(<<a>> \o <<b>>) = 2
      BY <3>1
    <3>3. (<<a>> \o <<b>>)[1] = a /\ (<<a>> \o <<b>>)[2] = b
      BY <3>1
    <3>4. \A i \in 1..Len(<<a, b>>) : <<a, b>>[i] = (<<a>> \o <<b>>)[i]
      BY <3>3
    <3> QED BY <3>1, <3>2, <3>4, SeqEqual
  <2>2. (<<a>> \o <<b>>) \o x = <<a>> \o (<<b>> \o x)
    BY <1>0, <2>1, ConcatAssociative
  <2>3. <<b>> \o x \in Seq(Int) /\ Len(<<b>> \o x) = Len(x) + 1
    BY <1>0, <2>1, ConcatProperties
  <2>4. (<<b>> \o x)[1] = b
    BY <1>0
  <2> QED BY <2>1, <2>2, <2>3, <2>4
<1>2. Ascending(<<a>>, <<c>>) <=> a < c
  BY DEF Ascending
<1>3. Ascending(<<c>>, <<a>>) <=> c < a
  BY DEF Ascending
<1>4. ~Ascending(<<b>> \o x, y)
  <2>1. CASE y = <<>>
    BY <2>1 DEF Ascending
  <2>2. CASE Len(y) > 0 /\ y[1] = -1
    <3> SUFFICES ASSUME NEW i \in 1..Len(y),
                        \A j \in 1..(i - 1) : j <= Len(<<b>> \o x) /\ (<<b>> \o x)[j] = y[j],
                        i <= Len(<<b>> \o x) => (<<b>> \o x)[i] < y[i]
                 PROVE  FALSE
      BY DEF Ascending
    <3>1. Len(x) \in Nat /\ Len(y) \in Nat
      BY <1>0, LenProperties
    <3>2. CASE i = 1
      BY <1>1, <2>2, <3>1, <3>2
    <3>3. CASE i > 1
      <4>1. 1 \in 1..(i - 1)
        BY <3>1, <3>3
      <4> QED BY <1>1, <2>2, <4>1
    <3> QED BY <3>1, <3>2, <3>3
  <2> QED BY <2>1, <2>2 DEF Follows
<1>5. Ascending(y, <<b>> \o x)
  <2>1. 1 \in 1..Len(<<b>> \o x) /\ 1..(1 - 1) = {}
    BY <1>0, <1>1
  <2>2. 1 <= Len(y) => y[1] < (<<b>> \o x)[1]
    BY <1>1 DEF Follows
  <2> QED BY <2>1, <2>2 DEF Ascending
<1>6. <<a>> \in Seq(Int) /\ <<c>> \in Seq(Int) /\ Len(<<a>>) = Len(<<c>>)
      /\ (<<a>> = <<c>> <=> a = c) /\ (<<c>> = <<a>> <=> a = c)
  OBVIOUS
<1> DEFINE bx == <<b>> \o x
           sa == <<a>>
           sc == <<c>>
<1>7. bx \in Seq(Int) /\ sa \in Seq(Int) /\ sc \in Seq(Int) /\ Len(sa) = Len(sc)
  BY <1>1, <1>6
<1>8. /\ <<a, b>> \o x = sa \o bx
      /\ Ascending(sa, sc) <=> a < c
      /\ Ascending(sc, sa) <=> c < a
      /\ sa = sc <=> a = c
      /\ sc = sa <=> c = a
      /\ ~Ascending(bx, y) /\ Ascending(y, bx)
  BY <1>1, <1>2, <1>3, <1>4, <1>5, <1>6
<1> HIDE DEF bx, sa, sc
<1>9. Ascending(sa \o bx, sc \o y) <=> Ascending(sa, sc) \/ (sa = sc /\ Ascending(bx, y))
  BY <1>0, <1>7, AscendingParts
<1>10. Ascending(sc \o y, sa \o bx) <=> Ascending(sc, sa) \/ (sc = sa /\ Ascending(y, bx))
  BY <1>0, <1>7, AscendingParts
<1>11. /\ Ascending(sa \o bx, sc \o y) <=> a < c
       /\ Ascending(sc \o y, sa \o bx) <=> c <= a
  BY <1>8, <1>9, <1>10
<1> QED BY <1>8, <1>11 DEF sc

\* The first part in which they differ decides between two texts: as the numbers
\* do, unless these mislead.
LEMMA FirstPartDecides ==
    ASSUME NEW m \in 0..99, NEW n \in 0..99, NEW x, NEW y, Follows(x), Follows(y)
    PROVE  Ascending(Digits(m) \o x, Digits(n) \o y) <=>
             \/ m = n /\ Ascending(x, y)
             \/ m # n /\ (m < n <=> ~Misleads(m, n))
<1>0. x \in Seq(Int) /\ y \in Seq(Int)
  BY DEF Follows
<1>1. CASE m < 10 <=> n < 10
  <2>1. /\ Digits(m) \in Seq(Int) /\ Digits(n) \in Seq(Int) /\ Len(Digits(m)) = Len(Digits(n))
        /\ Digits(m) = Digits(n) <=> m = n
        /\ Ascending(Digits(m), Digits(n)) <=> m < n
    BY <1>1, AscendingDigits
  <2>2. Ascending(Digits(m) \o x, Digits(n) \o y) <=>
          Ascending(Digits(m), Digits(n)) \/ (Digits(m) = Digits(n) /\ Ascending(x, y))
    BY <1>0, <2>1, AscendingParts
  <2>3. ~Misleads(m, n)
    BY <1>1 DEF Misleads
  <2>4. m = n => ~(m < n)
    OBVIOUS
  <2> QED BY <2>1, <2>2, <2>3, <2>4, Zenon
<1>2. CASE m >= 10 /\ n < 10
  <2>1. Digits(m) = <<m \div 10, m % 10>> /\ Digits(n) = <<n>>
    BY <1>2 DEF Digits
  <2>2. m \div 10 \in 0..9 /\ m % 10 \in 0..9 /\ n \in 0..9
    BY <1>2, Z3
  <2>3. Ascending(<<m \div 10, m % 10>> \o x, <<n>> \o y) <=> m \div 10 < n
    BY <2>2, PartsOfTwoLengths
  <2> QED BY <1>2, <2>1, <2>3 DEF Misleads
<1>3. CASE m < 10 /\ n >= 10
  <2>1. Digits(n) = <<n \div 10, n % 10>> /\ Digits(m) = <<m>>
    BY <1>3 DEF Digits
  <2>2. n \div 10 \in 0..9 /\ n % 10 \in 0..9 /\ m \in 0..9
    BY <1>3, Z3
  <2>3. Ascending(<<m>> \o x, <<n \div 10, n % 10>> \o y) <=> m <= n \div 10
    BY <2>2, PartsOfTwoLengths
  <2> QED BY <1>3, <2>1, <2>3 DEF Misleads
<1> QED BY <1>1, <1>2, <1>3

\* A dot starts what follows a part.
LEMMA DotFollows ==
    ASSUME NEW x \in Seq(Int)
    PROVE  Follows(<<-1>> \o x)
<1>1. <<-1>> \in Seq(Int) /\ <<-1>> \o x \in Seq(Int) /\ Len(<<-1>> \o x) = Len(x) + 1 /\ Len(x) \in Nat
  BY LenProperties
<1>2. (<<-1>> \o x)[1] = -1
  BY <1>1
<1> QED BY <1>1, <1>2 DEF Follows

\* The dots themselves never decide.
LEMMA DotsSkipped ==
    ASSUME NEW x \in Seq(Int), NEW y \in Seq(Int)
    PROVE  Ascending(<<-1>> \o x, <<-1>> \o y) <=> Ascending(x, y)
<1> DEFINE dot == <<-1>>
<1>1. dot \in Seq(Int)
  OBVIOUS
<1>2. ~Ascending(dot, dot)
  BY DEF Ascending
<1> HIDE DEF dot
<1>3. Ascending(dot \o x, dot \o y) <=> Ascending(dot, dot) \/ (dot = dot /\ Ascending(x, y))
  BY <1>1, AscendingParts
<1> QED BY <1>2, <1>3 DEF dot

\* A text reads from the left: its first part, a dot, and the rest.
LEMMA TextParts ==
    ASSUME NEW a \in Seq(Int), NEW b \in Seq(Int), NEW c \in Seq(Int)
    PROVE  /\ b \o (<<-1>> \o c) \in Seq(Int)
           /\ a \o <<-1>> \o b \o <<-1>> \o c = a \o (<<-1>> \o (b \o (<<-1>> \o c)))
<1> DEFINE dot == <<-1>>
<1>1. dot \in Seq(Int)
  OBVIOUS
<1> HIDE DEF dot
<1>2. dot \o c \in Seq(Int)
  BY <1>1, ConcatProperties
<1>3. b \o (dot \o c) \in Seq(Int)
  BY <1>2, ConcatProperties
<1>4. dot \o (b \o (dot \o c)) \in Seq(Int) /\ a \o dot \in Seq(Int)
  BY <1>1, <1>3, ConcatProperties
<1>5. a \o dot \o b \in Seq(Int)
  BY <1>4, ConcatProperties
<1>0. \A s, t, u \in Seq(Int) : (s \o t) \o u = s \o (t \o u)
  <2> SUFFICES ASSUME NEW s \in Seq(Int), NEW t \in Seq(Int), NEW u \in Seq(Int)
               PROVE  (s \o t) \o u = s \o (t \o u)
    OBVIOUS
  <2> DEFINE l == (s \o t) \o u
             r == s \o (t \o u)
  <2>1. Len(s) \in Nat /\ Len(t) \in Nat /\ Len(u) \in Nat
    BY LenProperties
  <2>2. /\ l \in Seq(Int) /\ Len(l) = Len(s) + Len(t) + Len(u)
        /\ r \in Seq(Int) /\ Len(r) = Len(s) + Len(t) + Len(u)
    BY <2>1
  <2>3. ASSUME NEW i \in 1..Len(l) PROVE l[i] = r[i]
    BY <2>1, <2>2
  <2> HIDE DEF l, r
  <2>4. l = r
    BY <2>1, <2>2, <2>3, SeqEqual
  <2> QED BY <2>4 DEF l, r
<1>6. (a \o dot \o b) \o dot \o c = (a \o dot \o b) \o (dot \o c)
  BY <1>0, <1>1, <1>5, ZenonT(30)
<1>7. (a \o dot \o b) \o (dot \o c) = (a \o dot) \o (b \o (dot \o c))
  BY <1>0, <1>2, <1>4, ZenonT(30)
<1>8. (a \o dot) \o (b \o (dot \o c)) = a \o (dot \o (b \o (dot \o c)))
  BY <1>0, <1>1, <1>3, ZenonT(30)
<1> QED BY <1>3, <1>6, <1>7, <1>8 DEF dot

\* The order of the texts is that of the releases, but for what misleads.
LEMMA AscendingText ==
    ASSUME NEW v \in (0..99) \X (0..99) \X (0..99), NEW w \in (0..99) \X (0..99) \X (0..99)
    PROVE  ~Ascending(Text(v), Text(w)) <=> (NotBefore(v, w) <=> ~TextMisleads(v, w))
<1> DEFINE v3 == Digits(v[3])
           w3 == Digits(w[3])
           v2 == Digits(v[2]) \o (<<-1>> \o v3)
           w2 == Digits(w[2]) \o (<<-1>> \o w3)
<1>1. /\ v[1] \in 0..99 /\ v[2] \in 0..99 /\ v[3] \in 0..99
      /\ w[1] \in 0..99 /\ w[2] \in 0..99 /\ w[3] \in 0..99
  OBVIOUS
<1>2. \A n \in 0..99 : Digits(n) \in Seq(Int)
  BY AscendingDigits
<1>3. v3 \in Seq(Int) /\ w3 \in Seq(Int) /\ v2 \in Seq(Int) /\ w2 \in Seq(Int)
  <2>1. \A m, n \in 0..99 : Digits(m) \o (<<-1>> \o Digits(n)) \in Seq(Int)
    BY <1>2, TextParts
  <2> QED BY <1>1, <1>2, <2>1
<1>4. /\ Text(v) = Digits(v[1]) \o (<<-1>> \o v2)
      /\ Text(w) = Digits(w[1]) \o (<<-1>> \o w2)
  <2> HIDE DEF v2, w2, v3, w3
  <2>1. ASSUME NEW x \in (0..99) \X (0..99) \X (0..99)
        PROVE  Text(x) = Digits(x[1]) \o (<<-1>> \o (Digits(x[2]) \o (<<-1>> \o Digits(x[3]))))
    <3>1. x[1] \in 0..99 /\ x[2] \in 0..99 /\ x[3] \in 0..99
      OBVIOUS
    <3> DEFINE a == Digits(x[1])
               b == Digits(x[2])
               c == Digits(x[3])
    <3>2. a \in Seq(Int) /\ b \in Seq(Int) /\ c \in Seq(Int)
      BY <1>2, <3>1
    <3>3. Text(x) = a \o <<-1>> \o b \o <<-1>> \o c
      BY Zenon DEF Text
    <3> HIDE DEF a, b, c
    <3>4. a \o <<-1>> \o b \o <<-1>> \o c = a \o (<<-1>> \o (b \o (<<-1>> \o c)))
      BY <3>2, TextParts, Zenon
    <3>5. Text(x) = a \o (<<-1>> \o (b \o (<<-1>> \o c)))
      BY <3>3, <3>4, Zenon
    <3> QED BY <3>5, Zenon DEF a, b, c
  <2> QED BY <2>1, Zenon DEF v2, w2, v3, w3
<1>5. Ascending(v3, w3) <=> v[3] # w[3] /\ (v[3] < w[3] <=> ~Misleads(v[3], w[3]))
  <2>1. Follows(<<>>) /\ ~Ascending(<<>>, <<>>)
    BY DEF Follows, Ascending
  <2>2. v3 \o <<>> = v3 /\ w3 \o <<>> = w3
    BY <1>3, ConcatEmptySeq
  <2>3. Ascending(Digits(v[3]) \o <<>>, Digits(w[3]) \o <<>>) <=>
          \/ v[3] = w[3] /\ Ascending(<<>>, <<>>)
          \/ v[3] # w[3] /\ (v[3] < w[3] <=> ~Misleads(v[3], w[3]))
    BY <1>1, <2>1, FirstPartDecides, Zenon
  <2> QED BY <2>1, <2>2, <2>3
<1>6. Ascending(v2, w2) <=>
        \/ v[2] = w[2] /\ Ascending(v3, w3)
        \/ v[2] # w[2] /\ (v[2] < w[2] <=> ~Misleads(v[2], w[2]))
  <2> HIDE DEF v3, w3
  <2>1. Follows(<<-1>> \o v3) /\ Follows(<<-1>> \o w3)
    BY <1>3, DotFollows
  <2>2. Ascending(<<-1>> \o v3, <<-1>> \o w3) <=> Ascending(v3, w3)
    BY <1>3, DotsSkipped
  <2>3. Ascending(Digits(v[2]) \o (<<-1>> \o v3), Digits(w[2]) \o (<<-1>> \o w3)) <=>
          \/ v[2] = w[2] /\ Ascending(<<-1>> \o v3, <<-1>> \o w3)
          \/ v[2] # w[2] /\ (v[2] < w[2] <=> ~Misleads(v[2], w[2]))
    <3> DEFINE x == <<-1>> \o v3
               y == <<-1>> \o w3
    <3>1. v[2] \in 0..99 /\ w[2] \in 0..99 /\ Follows(x) /\ Follows(y)
      BY <1>1, <2>1
    <3> HIDE DEF x, y
    <3>2. Ascending(Digits(v[2]) \o x, Digits(w[2]) \o y) <=>
            \/ v[2] = w[2] /\ Ascending(x, y)
            \/ v[2] # w[2] /\ (v[2] < w[2] <=> ~Misleads(v[2], w[2]))
      BY <3>1, FirstPartDecides
    <3> QED BY <3>2 DEF x, y
  <2> QED BY <2>2, <2>3
<1> HIDE DEF v2, w2, v3, w3
<1>7. Ascending(Text(v), Text(w)) <=>
        \/ v[1] = w[1] /\ Ascending(v2, w2)
        \/ v[1] # w[1] /\ (v[1] < w[1] <=> ~Misleads(v[1], w[1]))
  <2>1. Follows(<<-1>> \o v2) /\ Follows(<<-1>> \o w2)
    BY <1>3, DotFollows
  <2>2. Ascending(<<-1>> \o v2, <<-1>> \o w2) <=> Ascending(v2, w2)
    BY <1>3, DotsSkipped
  <2>3. Ascending(Digits(v[1]) \o (<<-1>> \o v2), Digits(w[1]) \o (<<-1>> \o w2)) <=>
          \/ v[1] = w[1] /\ Ascending(<<-1>> \o v2, <<-1>> \o w2)
          \/ v[1] # w[1] /\ (v[1] < w[1] <=> ~Misleads(v[1], w[1]))
    BY <1>1, <2>1, FirstPartDecides
  <2> QED BY <1>4, <2>2, <2>3
<1>8. \A n \in 0..99 : ~Misleads(n, n)
  BY DEF Misleads
<1>9. TextMisleads(v, w) <=>
        \/ v[1] # w[1] /\ Misleads(v[1], w[1])
        \/ v[1] = w[1] /\ v[2] # w[2] /\ Misleads(v[2], w[2])
        \/ v[1] = w[1] /\ v[2] = w[2] /\ v[3] # w[3] /\ Misleads(v[3], w[3])
  BY <1>1, <1>8 DEF TextMisleads
<1>10. /\ (v[1] # w[1]) => (v[1] > w[1] <=> ~(v[1] < w[1]))
       /\ v[2] # w[2] => (v[2] > w[2] <=> ~(v[2] < w[2]))
       /\ v[3] >= w[3] <=> (v[3] = w[3] \/ ~(v[3] < w[3]))
       /\ v[1] > w[1] => v[1] # w[1]
       /\ v[2] > w[2] => v[2] # w[2]
       /\ v[3] = w[3] => ~(v[3] < w[3])
  <2>1. \A a, b \in 0..99 : /\ a # b => (a > b <=> ~(a < b))
                            /\ (a >= b <=> (a = b \/ ~(a < b)))
                            /\ a > b => a # b
                            /\ a = b => ~(a < b)
    OBVIOUS
  <2> QED BY <1>1, <2>1
<1> QED BY <1>5, <1>6, <1>7, <1>9, <1>10, Zenon DEF NotBefore

-----------------------------------------------------------------------------
(* Theorems *)

\* The variables of the upgrade have their types.
THEOREM UpgradeTypeCorrect == Spec => []TypeOK
<1>1. UpgradeInv => TypeOK BY DEF UpgradeInv
<1> QED BY <1>1, UpgradeInvariant, PTL

\* upgradeDatabase: is never skipped for a plaintext file because the status
\* calls it encrypted, wherever processes were stopped and whatever failed.
THEOREM StatusSound == Spec => []StatusNeverOverclaims
<1>1. UpgradeInv => StatusNeverOverclaims BY DEF UpgradeInv
<1> QED BY <1>1, UpgradeInvariant, PTL

\* In a life of encrypting upgrades without trouble openDB hands over a file
\* that can be read and has every row.
THEOREM OpensComplete == Spec => []OpenedComplete
<1>1. ASSUME UpgradeInv PROVE OpenedComplete
  <2> SUFFICES ASSUME trouble = {}, pc = "opened"
               PROVE  Readable(main) /\ main.rows = written
    BY DEF OpenedComplete, Complete
  <2>1. main.rows = written
    BY <1>1 DEF UpgradeInv, RowsInPlace
  <2>2. main.fmt \in {"blank", "plain", "cipher"}
    BY <1>1 DEF UpgradeInv, StatusIsTrue, TypeOK, Files, Absent, Blank
  <2>3. (asked <=> saved) /\ (main.fmt = "cipher" => saved) /\ (main.fmt = "plain" => ~saved)
    BY <1>1 DEF UpgradeInv, StatusIsTrue, StatusNeverOverclaims, EncryptedIsNeeded, Encrypting,
                Migrating, TypeOK
  <2> QED BY <2>1, <2>2, <2>3 DEF Readable, Format
<1> QED BY <1>1, UpgradeInvariant, PTL

\* In any life rows are lost in one step only, removeDatabasePath:, and only
\* after some trouble.
THEOREM RowsLostByRemoval == Spec => LossOnlyByRemoval
<1>1. ASSUME UpgradeInv, [Next]_vars, Intact, ~Intact'
      PROVE  pc = "remove" /\ trouble # {}
  <2>1. RemoveDatabasePath
    <3>1. CASE UNCHANGED <<main, tmp, written>>
      BY <1>1, <3>1 DEF Intact
    <3>2. CASE ChangeDatabasePath \/ Attach
      BY <1>1, <3>2 DEF UpgradeInv, MainIsNew, Intact, ChangeDatabasePath, Attach, Absent, Blank
    <3>3. CASE ExportComplete \/ \E r \in Rows : ExportRow(r)
      BY <1>1, <3>3 DEF UpgradeInv, TypeOK, Files, Blank, Intact, ExportRow, ExportComplete
    <3>4. CASE \E tables \in BOOLEAN : OpenQueue(tables)
      BY <1>1, <3>4 DEF UpgradeInv, TypeOK, Files, Absent, Blank, Intact, OpenQueue
    <3>5. CASE \E r \in Rows : Store(r)
      BY <1>1, <3>5 DEF Intact, Store
    <3>6. \/ UNCHANGED <<main, tmp, written>> \/ ChangeDatabasePath \/ Attach
          \/ ExportComplete \/ (\E r \in Rows : ExportRow(r))
          \/ (\E tables \in BOOLEAN : OpenQueue(tables)) \/ (\E r \in Rows : Store(r))
          \/ RemoveDatabasePath
      BY <1>1 DEF Next, vars, Launch, Switch, CloseDB, SetupEncrypted, OtherDatabaseSaves,
         BeginOpen, GoOn, UpgradeNoFile, UpgradeNothing, OpenTmpFails, ExportFails,
         SaveEncryptedStatus, OpenQueueFails, Exit
    <3> QED BY <1>1, <3>1, <3>2, <3>3, <3>4, <3>5, <3>6
  <2>2. trouble # {}
    BY <1>1, <2>1 DEF UpgradeInv, RowsInPlace, RemoveDatabasePath, Intact
  <2> QED BY <2>1, <2>2 DEF RemoveDatabasePath
<1>2. UpgradeInv /\ [Next]_vars => [Intact /\ ~Intact' => pc = "remove" /\ trouble # {}]_vars
  BY <1>1
<1> QED BY <1>2, UpgradeInvariant, PTL DEF Spec, LossOnlyByRemoval

\* The comparison of versions as texts decides as the order of releases does, but
\* for the one case that NeedFollowsVersion names, whenever the program starts
\* and whenever encryption is switched.
THEOREM VersionDecides == Spec => NeedFollowsVersion
<1> DEFINE A == \A v \in Versions, encrypted \in BOOLEAN :
                  Launch(v, encrypted) \/ (v = version /\ Switch(encrypted))
                    => (need' <=> /\ encrypted
                                  /\ (NotBefore(v, SmallestEncrypted) <=> ~TextMisleads(v, SmallestEncrypted)))
<1>1. ASSUME NEW v \in Versions
      PROVE  ~Ascending(Text(v), Text(SmallestEncrypted)) <=>
               (NotBefore(v, SmallestEncrypted) <=> ~TextMisleads(v, SmallestEncrypted))
  <2>1. v \in (0..99) \X (0..99) \X (0..99) /\ SmallestEncrypted \in (0..99) \X (0..99) \X (0..99)
    BY UpgradeAssumption
  <2> QED BY <2>1, AscendingText
<1>2. A
  <2> SUFFICES ASSUME NEW v \in Versions, NEW encrypted \in BOOLEAN,
                      Launch(v, encrypted) \/ (v = version /\ Switch(encrypted))
               PROVE  need' <=> /\ encrypted
                                /\ (NotBefore(v, SmallestEncrypted) <=> ~TextMisleads(v, SmallestEncrypted))
    OBVIOUS
  <2>1. need' = IsNeedEncrypted(v, encrypted)
    BY DEF Launch, Switch
  <2>2. need' = (~Ascending(Text(v), Text(SmallestEncrypted)) /\ encrypted)
    BY <2>1, Zenon DEF IsNeedEncrypted
  <2> QED BY <1>1, <2>2
<1>3. NeedFollowsVersion <=> [][A]_vars
  BY DEF NeedFollowsVersion
<1> HIDE DEF A
<1> QED BY <1>2, <1>3, PTL DEF Spec
=============================================================================
