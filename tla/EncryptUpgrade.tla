--------------------------- MODULE EncryptUpgrade ---------------------------
(***************************************************************************)
(* upgradeDatabase: (NBDataBase.m): when openDB finds that the version in  *)
(* force wants the database file written otherwise than the saved status   *)
(* says, it renames the file to <path>.tmp, exports every table into a new *)
(* file at <path>, deletes the .tmp file and saves the new status.  The    *)
(* files and the status survive the process, which may stop at any step.   *)
(*                                                                         *)
(* A file is its format and the set of the rows in it: the export copies   *)
(* them one after the other, each in its own transaction.  "blank" is a    *)
(* file of zero length, which opens with or without a key.                 *)
(***************************************************************************)
EXTENDS Integers, Sequences

CONSTANTS
    Rows,               \* what a user can store
    Versions,           \* versions of the program: triples of numbers
    SmallestEncrypted   \* the version from which the files are encrypted

ASSUME UpgradeAssumption ==
    /\ Versions \subseteq (0..99) \X (0..99) \X (0..99)
    /\ SmallestEncrypted \in (0..99) \X (0..99) \X (0..99)

VARIABLES
    main, tmp,     \* the files <path> and <path>.tmp
    saved,         \* cacheEncryptedStatusKey in the user defaults
    version, need, \* this process: its version, what isNeedEncrypted answers now
    asked,         \* and what it answered when openDB last asked
    pc,
    written,       \* history: the rows stored so far
    trouble        \* history: what else than encrypting has happened so far

vars == <<main, tmp, saved, version, need, asked, pc, written, trouble>>

\* The process was stopped in the middle of an upgrade, a call of it failed,
\* encryption was switched off, or found off with a status that says the database
\* is encrypted, it was switched while openDB was at work, or a database that
\* shares the status key saved its own status there.
Troubles == {"stopped", "failed", "decrypting", "switched", "shared"}

Absent == [fmt |-> "absent", rows |-> {}]
Blank  == [fmt |-> "blank", rows |-> {}]
Files  == [fmt : {"plain", "cipher"}, rows : SUBSET Rows] \cup {Absent, Blank}

Migrating == {"attach", "export", "remove", "save"}
Labels    == Migrating \cup {"down", "ready", "queue", "opened"}

TypeOK ==
    /\ main \in Files
    /\ tmp \in Files
    /\ saved \in BOOLEAN
    /\ version \in Versions
    /\ need \in BOOLEAN /\ asked \in BOOLEAN
    /\ pc \in Labels
    /\ written \subseteq Rows
    /\ trouble \subseteq Troubles

-----------------------------------------------------------------------------
(* isNeedEncrypted *)

\* The version as a string: decimal digits, with -1 for the dots, since a dot
\* sorts before every digit.
Digits(n) == IF n < 10 THEN <<n>> ELSE <<n \div 10, n % 10>>
Text(v)   == Digits(v[1]) \o <<-1>> \o Digits(v[2]) \o <<-1>> \o Digits(v[3])

\* NSString's compare: is by characters.
Ascending(a, b) ==
    \E i \in 1..Len(b) :
      /\ \A j \in 1..(i - 1) : j <= Len(a) /\ a[j] = b[j]
      /\ i <= Len(a) => a[i] < b[i]

\* MUTANT: the smallest encrypted version itself is left out.
IsNeedEncrypted_Strict(v, encrypted) == Ascending(Text(SmallestEncrypted), Text(v)) /\ encrypted

IsNeedEncrypted(v, encrypted) == ~Ascending(Text(v), Text(SmallestEncrypted)) /\ encrypted

\* The order of releases: the program is updated, never downgraded.
NotBefore(v, w) ==
    \/ v[1] > w[1]
    \/ v[1] = w[1] /\ v[2] > w[2]
    \/ v[1] = w[1] /\ v[2] = w[2] /\ v[3] >= w[3]

\* Two numbers whose texts are in the other order: of one digit and of two.
Misleads(m, n) ==
    \/ m < 10 /\ n >= 10 /\ n \div 10 < m
    \/ n < 10 /\ m >= 10 /\ m \div 10 < n

\* The first part in which two versions differ decides.
TextMisleads(v, w) ==
    \E p \in 1..3 : (\A i \in 1..(p - 1) : v[i] = w[i]) /\ Misleads(v[p], w[p])

Format(key) == IF key THEN "cipher" ELSE "plain"

\* The connection openDB has configured can use the file f.
Readable(f) == f.fmt \in {"blank", Format(asked)}

-----------------------------------------------------------------------------
Init ==
    /\ main \in {[fmt |-> f, rows |-> IF f = "absent" THEN {} ELSE Rows] :
                  f \in {"absent", "plain", "cipher"}}
    /\ tmp = Absent
    /\ saved = (main.fmt = "cipher")
    /\ version \in {v \in Versions : \A w \in Versions : NotBefore(w, v)}
    /\ need = FALSE /\ asked = FALSE
    /\ pc = "down"
    /\ written = main.rows
    /\ trouble = {}

\* The program starts and configures its version and whether to encrypt.
Launch(v, encrypted) ==
    /\ pc = "down"
    /\ NotBefore(v, version)
    /\ version' = v
    /\ need' = IsNeedEncrypted(v, encrypted)
    /\ pc' = "ready"
    /\ trouble' = IF (need \/ saved) /\ ~need' THEN trouble \cup {"decrypting"} ELSE trouble
    /\ UNCHANGED <<main, tmp, saved, written, asked>>

\* setEncrypted:secretkey: while the process runs; openDB asks twice.
Switch(encrypted) ==
    /\ pc # "down"
    /\ need' = IsNeedEncrypted(version, encrypted) /\ need' # need
    /\ trouble' = trouble \cup (IF need' THEN {} ELSE {"decrypting"})
                          \cup (IF pc \in Migrating \cup {"queue"} THEN {"switched"} ELSE {})
    /\ UNCHANGED <<main, tmp, saved, version, asked, pc, written>>

\* closeDB and setupDBWithDBPath:, and openDB runs again in the same process.
CloseDB ==
    /\ pc = "opened"
    /\ pc' = "ready"
    /\ UNCHANGED <<main, tmp, saved, version, need, asked, written, trouble>>

\* setupDBWithDBPath:isEncrypted: from a caller who knows the file.
SetupEncrypted ==
    /\ pc = "ready"
    /\ main.fmt \in {"plain", "cipher"}
    /\ saved' = (main.fmt = "cipher")
    /\ UNCHANGED <<main, tmp, version, need, asked, pc, written, trouble>>

\* The status key is made of the user and the last part of the path: a database
\* whose path ends alike in another directory saves its status under the same key.
OtherDatabaseSaves ==
    /\ pc # "down"
    /\ saved' = ~saved
    /\ trouble' = trouble \cup {"shared"}
    /\ UNCHANGED <<main, tmp, version, need, asked, pc, written>>

\* MUTANT: YES is saved whatever is needed.
UpgradeNoFile_AlwaysYes ==
    /\ pc = "ready" /\ main = Absent
    /\ saved' = TRUE
    /\ pc' = "queue"
    /\ asked' = need
    /\ UNCHANGED <<main, tmp, version, need, written, trouble>>

\* No file to convert.
UpgradeNoFile ==
    /\ pc = "ready" /\ main = Absent
    /\ saved' = need
    /\ pc' = "queue"
    /\ asked' = need
    /\ UNCHANGED <<main, tmp, version, need, written, trouble>>

\* MUTANT: an existing file is never converted.
UpgradeNothing_Always ==
    /\ pc = "ready" /\ main # Absent
    /\ pc' = "queue"
    /\ asked' = need
    /\ UNCHANGED <<main, tmp, saved, version, need, written, trouble>>

UpgradeNothing ==
    /\ pc = "ready" /\ main # Absent
    /\ need = saved
    /\ pc' = "queue"
    /\ asked' = need
    /\ UNCHANGED <<main, tmp, saved, version, need, written, trouble>>

\* MUTANT: the move replaces a .tmp file left by an earlier process.
ChangeDatabasePath_Overwrites ==
    /\ pc = "ready" /\ main # Absent
    /\ need # saved
    /\ tmp' = main /\ main' = Absent /\ pc' = "attach"
    /\ asked' = need
    /\ UNCHANGED <<saved, version, need, written, trouble>>

\* changeDatabasePath:, the same for encrypting and for decrypting.  The move
\* fails if there is a .tmp file, and then the upgrade is skipped.
ChangeDatabasePath ==
    /\ pc = "ready" /\ main # Absent
    /\ need # saved
    /\ IF tmp = Absent
         THEN tmp' = main /\ main' = Absent /\ pc' = "attach"
         ELSE pc' = "queue" /\ UNCHANGED <<main, tmp>>
    /\ asked' = need
    /\ UNCHANGED <<saved, version, need, written, trouble>>

\* The .tmp file is opened without a key and <path> attached with the key,
\* which creates it; both directions attach with the key.
Attach ==
    /\ pc = "attach"
    /\ main' = Blank
    /\ pc' = "export"
    /\ UNCHANGED <<tmp, saved, version, need, asked, written, trouble>>

\* The .tmp file cannot be opened: with assertions compiled out openDB goes on.
OpenTmpFails ==
    /\ pc = "attach"
    /\ pc' = "queue"
    /\ trouble' = trouble \cup {"failed"}
    /\ UNCHANGED <<main, tmp, saved, version, need, asked, written>>

\* MUTANT: rows reach a file that stays blank.
ExportRow_KeepsFormat(r) ==
    /\ pc = "export"
    /\ tmp.fmt = "plain"
    /\ r \in tmp.rows \ main.rows
    /\ main' = [main EXCEPT !.rows = @ \cup {r}]
    /\ UNCHANGED <<tmp, saved, version, need, asked, pc, written, trouble>>

\* sqlcipher_export copies a row.
ExportRow(r) ==
    /\ pc = "export"
    /\ tmp.fmt = "plain"
    /\ r \in tmp.rows \ main.rows
    /\ main' = [fmt |-> "cipher", rows |-> main.rows \cup {r}]
    /\ UNCHANGED <<tmp, saved, version, need, asked, pc, written, trouble>>

\* Everything is copied, the tables of an empty database included.
ExportComplete ==
    /\ pc = "export"
    /\ tmp.fmt # "cipher"
    /\ tmp.rows \subseteq main.rows
    /\ main' = IF tmp = Blank THEN main ELSE [fmt |-> "cipher", rows |-> main.rows]
    /\ pc' = "remove"
    /\ UNCHANGED <<tmp, saved, version, need, asked, written, trouble>>

\* A cipher file cannot be read without a key, or a statement fails on the way.
\* Nobody looks at the result.
ExportFails ==
    /\ pc = "export"
    /\ pc' = "remove"
    /\ trouble' = IF tmp.fmt = "cipher" THEN trouble ELSE trouble \cup {"failed"}
    /\ UNCHANGED <<main, tmp, saved, version, need, asked, written>>

\* Nobody looks at this result either: the status is saved, with or without
\* the .tmp file.
RemoveDatabasePath ==
    /\ pc = "remove"
    /\ \/ tmp' = Absent /\ UNCHANGED trouble
       \/ UNCHANGED tmp /\ trouble' = trouble \cup {"failed"}
    /\ pc' = "save"
    /\ UNCHANGED <<main, saved, version, need, asked, written>>

\* MUTANT: the status is not saved.
SaveEncryptedStatus_Forgotten ==
    /\ pc = "save"
    /\ pc' = "queue"
    /\ UNCHANGED <<main, tmp, saved, version, need, asked, written, trouble>>

SaveEncryptedStatus ==
    /\ pc = "save"
    /\ saved' = asked
    /\ pc' = "queue"
    /\ UNCHANGED <<main, tmp, version, need, asked, written, trouble>>

\* openDB goes on and asks again: the queue creates the file if there is none, and if classes
\* are registered updateTableInDB gives an empty file its tables.
OpenQueue(tables) ==
    /\ pc = "queue"
    /\ main' = IF main.fmt \in {"absent", "blank"}
                 THEN IF tables THEN [fmt |-> Format(need), rows |-> {}] ELSE Blank
                 ELSE main
    /\ asked' = need
    /\ pc' = "opened"
    /\ UNCHANGED <<tmp, saved, version, need, written, trouble>>

\* databaseQueueWithPath: answers nil, and openDB NO; the caller may try again.
OpenQueueFails ==
    /\ pc = "queue"
    /\ pc' = "ready"
    /\ UNCHANGED <<main, tmp, saved, version, need, asked, written, trouble>>

Store(r) ==
    /\ pc = "opened"
    /\ Readable(main)
    /\ main' = [fmt |-> Format(asked), rows |-> main.rows \cup {r}]
    /\ written' = written \cup {r}
    /\ UNCHANGED <<tmp, saved, version, need, asked, pc, trouble>>

\* The process ends, in order or not: only the disk is left.
Exit ==
    /\ pc # "down"
    /\ pc' = "down"
    /\ trouble' = IF pc \in Migrating THEN trouble \cup {"stopped"} ELSE trouble
    /\ UNCHANGED <<main, tmp, saved, version, need, asked, written>>

\* A client calls openDB.
BeginOpen == UpgradeNoFile \/ UpgradeNothing \/ ChangeDatabasePath

\* The rest of openDB.
GoOn ==
    \/ Attach \/ OpenTmpFails
    \/ \E r \in Rows : ExportRow(r)
    \/ ExportComplete \/ ExportFails \/ RemoveDatabasePath \/ SaveEncryptedStatus
    \/ \E tables \in BOOLEAN : OpenQueue(tables)
    \/ OpenQueueFails

Next ==
    \/ \E v \in Versions, encrypted \in BOOLEAN : Launch(v, encrypted)
    \/ \E encrypted \in BOOLEAN : Switch(encrypted)
    \/ CloseDB
    \/ SetupEncrypted
    \/ OtherDatabaseSaves
    \/ BeginOpen
    \/ GoOn
    \/ \E r \in Rows : Store(r)
    \/ Exit

Spec == Init /\ [][Next]_vars

\* An openDB that somebody has called runs to its end unless the process stops;
\* nobody has to call it.
FairSpec == Spec /\ WF_vars(GoOn)

-----------------------------------------------------------------------------
(* Properties *)

\* What openDB hands to its caller when it is done: a database that can be read,
\* with every row the user ever stored.
Complete == pc = "opened" => Readable(main) /\ main.rows = written

\* Every row is in <path>, or in the .tmp file while there is one.
Intact == written \subseteq main.rows \cup tmp.rows

\* Nothing is lost or unreadable in a life of encrypting upgrades without
\* trouble.
OpenedComplete == trouble = {} => Complete

\* In any life, rows are lost in one step only, the removal of the .tmp file,
\* and only after some trouble: the move never replaces a .tmp file, nothing
\* overwrites a file, and an export that ends without failure is whole.
LossOnlyByRemoval == [][Intact /\ ~Intact' => pc = "remove" /\ trouble # {}]_vars

\* The program encrypts when it asks for it and its version is not before the
\* smallest encrypted one, and does the opposite of what the order of releases
\* says in one case only: the first part in which they differ has one digit in
\* one of them and two in the other, and the digits come in the other order.
NeedFollowsVersion ==
    [][\A v \in Versions, encrypted \in BOOLEAN :
         Launch(v, encrypted) \/ (v = version /\ Switch(encrypted))
           => (need' <=> /\ encrypted
                         /\ NotBefore(v, SmallestEncrypted) <=> ~TextMisleads(v, SmallestEncrypted))
      ]_vars

\* The saved status never calls a plaintext file encrypted, so the upgrade is
\* never skipped for a file that needs it, wherever processes were stopped and
\* whatever failed (encryption only switched on, the status key not shared).
StatusNeverOverclaims ==
    trouble \cap {"decrypting", "shared"} = {} /\ saved => main.fmt # "plain"

\* An openDB that has begun and needs encryption ends, unless the process does,
\* and leaves no plaintext file, whatever earlier processes left behind and
\* whatever it answers (encryption only switched on, the status key not shared).
BecomesEncrypted ==
    pc \in Migrating \cup {"queue"} /\ asked
      ~> \/ pc = "down" \/ trouble \cap {"decrypting", "shared"} # {}
         \/ pc \in {"opened", "ready"} /\ main.fmt # "plain"

\* "Upgrades the whole database": a stop in the middle costs no row.
SurvivesStop == trouble \subseteq {"stopped"} => Complete

\* "Decrypt": the rows are still there when encryption is switched off.
SurvivesDecryption == trouble \subseteq {"decrypting"} => Intact
=============================================================================
