-------------------------- MODULE MCAdminSessions --------------------------
(* Model-checking instances of AdminSessions. *)
EXTENDS AdminSessions, TLC

\* The database clock may be behind, equal to or ahead of the API's.
AnySkew == {-1, 0, 1}
Symmetry == Permutations(Requests)
=============================================================================
