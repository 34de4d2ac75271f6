-------------------------- MODULE MCEncryptUpgrade --------------------------
(* EncryptUpgrade with concrete versions and rows as model values. *)
EXTENDS EncryptUpgrade, TLC

V(n) == <<0, 0, n>>

\* On both sides of the smallest encrypted version, and one that as a text is
\* before it.
Releases == {V(1), V(2), V(3), V(10)}

Smallest == V(2)

RowSymmetry == Permutations(Rows)
=============================================================================
