---------------------------- MODULE MCIdentities ----------------------------
(* Model-checking instance of Identities. *)
EXTENDS Identities, TLC

\* Users are interchangeable, and so are keys and grants.
Symmetry == Permutations(Users) \cup Permutations(Keys) \cup Permutations(GrantIds)
=============================================================================
