-------------------------------- MODULE Names --------------------------------
(***************************************************************************)
(* The table a model class is stored in (NBDBNameHelper.m).  A name is a   *)
(* sequence of characters, a character a letter and its case; a table name *)
(* is the letters of it, without the "tb_" that all of them begin with.    *)
(***************************************************************************)
EXTENDS SequencesExt

\* An upper case letter before another one belongs to the prefix, unless a
\* letter of the name itself has come before.
InPrefix(name, i) == \A j \in 1..i : j < Len(name) /\ name[j].upper /\ name[j + 1].upper

\* FMDefaultTableNameFromModelName: without the prefix, in snake case, plural.
DefaultTableName(name) ==
    LET stem == SubSeq(name, 1 + Cardinality({i \in DOMAIN name : InPrefix(name, i)}), Len(name))
        Written(i) == IF stem[i].upper /\ i > 1 THEN <<"_", stem[i].letter>> ELSE <<stem[i].letter>>
    IN  FlattenSeq([i \in DOMAIN stem |-> Written(i)]) \o <<"s">>
=============================================================================
