----------------------------- MODULE AuditChain -----------------------------
(***************************************************************************)
(* What the audit log promises: one linear, append-only chain of events.   *)
(*                                                                         *)
(* The whole chain is represented by its head hash.  A record's hash binds *)
(* the hash before it and the record's own fields, so a head hash stands   *)
(* for the entire history that led to it, and "the log is a linear         *)
(* append-only chain" says that each step leaves the head alone or extends *)
(* it by exactly one event.                                                *)
(***************************************************************************)
EXTENDS Sequences

CONSTANT Events

VARIABLE head

\* prev_hash of the first record: NULL.
Genesis == <<>>

\* computeRecordHash: SHA-256 over length-prefixed fields, the hash before it
\* among them.  It is modelled as the injective encoding it relies on: the
\* sequence of the events it binds, to which the record adds its own.
RecordHash(prev, ev) == Append(prev, ev)

Init == head = Genesis

Extend(ev) == head' = RecordHash(head, ev)

Next == \E ev \in Events : Extend(ev)

Spec == Init /\ [][Next]_head
=============================================================================
