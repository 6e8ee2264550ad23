---------------------------- MODULE MCCertIssuer ----------------------------
(* Model-checking instances of CertIssuer. *)
EXTENDS CertIssuer, TLC

\* None, one second, and beyond the maximum of one and a half.
AskedTTLs == {0, 2, 5}

\* A target a second behind (beyond the tolerance), exact, or half a second ahead.
ClockOffsets == {-2, 0, 1}

\* Connections are interchangeable, and so are CA keys.
Symmetry == Permutations(Conns) \cup Permutations(CAKeys)
=============================================================================
