-------------------------- MODULE MCBrokerSessions --------------------------
(* Model-checking instances of BrokerSessions. *)
EXTENDS BrokerSessions, TLC

\* Connections are interchangeable.
Symmetry == Permutations(Conns)
=============================================================================
