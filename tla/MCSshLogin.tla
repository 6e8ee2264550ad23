----------------------------- MODULE MCSshLogin -----------------------------
(* Model-checking instances of SshLogin. *)
EXTENDS SshLogin, TLC

\* The database clock may be behind, equal to or ahead of the broker's.
AnySkew == {-1, 0, 1}
LevelOrAhead == {0, 1}
Symmetry == Permutations(Attempts) \cup Permutations(Subjects)
=============================================================================
