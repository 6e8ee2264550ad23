------------------------------ MODULE AuditLog ------------------------------
(***************************************************************************)
(* The hash-chained audit log (internal/store/audit.go).                   *)
(*                                                                         *)
(* Connection handlers, the reaper and every API request append            *)
(* concurrently, from two processes.  AppendAudit is one PostgreSQL        *)
(* transaction at READ COMMITTED: take the advisory lock, read the head    *)
(* (the record with the highest seq), compute the record hash, INSERT (seq *)
(* is drawn from a sequence that no rollback gives back), COMMIT, which    *)
(* publishes the row and releases the lock.  Any statement may fail, the   *)
(* context may be cancelled and the process may die: the transaction then  *)
(* rolls back and the lock is released.                                    *)
(*                                                                         *)
(* Abstracted: a record's fields (at, actor, event_type, target, detail)   *)
(* are one value of Contents, and how json.Marshal wrote the detail is one *)
(* Boolean.  The detail is hashed as AppendAudit marshalled it, stored as  *)
(* jsonb, and verified as marshalled again from what jsonb gives back.  A  *)
(* byte that is not UTF-8 is marshalled as the escape \ufffd; jsonb stores *)
(* the character U+FFFD, which is marshalled as itself.                    *)
(***************************************************************************)
EXTENDS Naturals, FiniteSets, Sequences

CONSTANTS
  Writers,  \* concurrent callers of AppendAudit
  Contents, \* the records' contents
  Nobody,   \* the lock's holder when it is free
  MaxSeq    \* bound: sequence numbers drawn

ASSUME NobodyAssumption == Nobody \notin Writers
ASSUME ContentsAssumption == Contents # {}
ASSUME MaxSeqAssumption == MaxSeq \in Nat

VARIABLES
  wpc,      \* where each writer is in AppendAudit
  event,    \* the event each writer is appending
  prev,     \* the head hash each writer has read
  draft,    \* the row each writer has inserted and not committed
  lock,     \* holder of pg_advisory_xact_lock(auditLockKey)
  nextSeq,  \* the sequence behind audit_log.seq
  rows      \* the committed rows of audit_log

vars == <<wpc, event, prev, draft, lock, nextSeq, rows>>

\* A record as AppendAudit hashes it: escaped when the detail's JSON holds the
\* escape \ufffd for a byte that is not UTF-8.
Events == [content : Contents, escaped : BOOLEAN]

\* What the jsonb column gives back and canonicalDetail marshals again: the
\* character has taken the place of its escape.
Stored == [content : Contents, escaped : {FALSE}]
Jsonb(ev) == [ev EXCEPT !.escaped = FALSE]

\* A hash stands for everything it binds: the events of the chain, in order.
Genesis == <<>>
RecordHash(p, ev) == Append(p, ev)

Row(seq, p, ev) ==
  [seq |-> seq, prev |-> p, event |-> Jsonb(ev), hash |-> RecordHash(p, ev)]

\* SELECT record_hash FROM audit_log ORDER BY seq DESC LIMIT 1
LastRow(S) == CHOOSE r \in S : \A q \in S : q.seq <= r.seq
HeadHash(S) == IF S = {} THEN Genesis ELSE LastRow(S).hash

Before(S, r) == {q \in S : q.seq < r.seq}

\* A row's prev_hash is the hash of the row before it; its record_hash is the
\* hash recomputed from its stored fields.
Linked(S, r) == r.prev = HeadHash(Before(S, r))
Rehashes(r) == r.hash = RecordHash(r.prev, r.event)

\* Mutant: record_hash is not recomputed.
VerifyAuditChain_LinksOnly(S) == \A r \in S : Linked(S, r)

VerifyAuditChain(S) == \A r \in S : Linked(S, r) /\ Rehashes(r)

-----------------------------------------------------------------------------

Rows == [seq : Nat, prev : Seq(Events), event : Stored, hash : Seq(Events)]

TypeOK ==
  /\ wpc \in [Writers -> {"idle", "lock", "head", "insert", "commit"}]
  /\ event \in [Writers -> Events]
  /\ lock \in Writers \cup {Nobody}
  /\ nextSeq \in Nat
  /\ rows \subseteq Rows
  /\ prev \in [Writers -> Seq(Events)]
  /\ draft \in [Writers -> Rows]

NoRow == Row(0, Genesis, CHOOSE ev \in Events : TRUE)

Init ==
  /\ wpc = [w \in Writers |-> "idle"]
  /\ event = [w \in Writers |-> NoRow.event]
  /\ prev = [w \in Writers |-> Genesis]
  /\ draft = [w \in Writers |-> NoRow]
  /\ lock = Nobody
  /\ nextSeq = 1
  /\ rows = {}

Step(w, from, to) == wpc[w] = from /\ wpc' = [wpc EXCEPT ![w] = to]

Busy == {w \in Writers : wpc[w] # "idle"}

\* A caller opens its transaction.
Begin(w, ev) ==
  /\ nextSeq + Cardinality(Busy) <= MaxSeq
  /\ Step(w, "idle", "lock")
  /\ event' = [event EXCEPT ![w] = ev]
  /\ UNCHANGED <<prev, draft, lock, nextSeq, rows>>

\* Mutant: no advisory lock.
AcquireLock_NoWait(w) ==
  /\ Step(w, "lock", "head")
  /\ UNCHANGED <<event, prev, draft, lock, nextSeq, rows>>

\* pg_advisory_xact_lock returned.
AcquireLock(w) ==
  /\ Step(w, "lock", "head")
  /\ lock = Nobody
  /\ lock' = w
  /\ UNCHANGED <<event, prev, draft, nextSeq, rows>>

\* Mutant: the head is not read.
ReadHead_Skipped(w) ==
  /\ Step(w, "head", "insert")
  /\ UNCHANGED <<event, prev, draft, lock, nextSeq, rows>>

ReadHead(w) ==
  /\ Step(w, "head", "insert")
  /\ prev' = [prev EXCEPT ![w] = HeadHash(rows)]
  /\ UNCHANGED <<event, draft, lock, nextSeq, rows>>

Insert(w) ==
  /\ Step(w, "insert", "commit")
  /\ draft' = [draft EXCEPT ![w] = Row(nextSeq, prev[w], event[w])]
  /\ nextSeq' = nextSeq + 1
  /\ UNCHANGED <<event, prev, lock, rows>>

\* Mutant: a session-level lock, which the end of the transaction keeps.
Release_Leak(w) ==
  /\ prev' = [prev EXCEPT ![w] = Genesis]
  /\ draft' = [draft EXCEPT ![w] = NoRow]
  /\ event' = [event EXCEPT ![w] = NoRow.event]
  /\ UNCHANGED lock

\* The transaction's locals are of no further use once it is over.
Release(w) ==
  /\ lock' = IF lock = w THEN Nobody ELSE lock
  /\ prev' = [prev EXCEPT ![w] = Genesis]
  /\ draft' = [draft EXCEPT ![w] = NoRow]
  /\ event' = [event EXCEPT ![w] = NoRow.event]

\* COMMIT, whether or not its reply reaches the caller.
Commit(w) ==
  /\ Step(w, "commit", "idle")
  /\ rows' = rows \cup {draft[w]}
  /\ Release(w)
  /\ UNCHANGED nextSeq

\* An error at any point: the deferred Rollback, or the server's own.
Abort(w) ==
  /\ wpc[w] # "idle"
  /\ wpc' = [wpc EXCEPT ![w] = "idle"]
  /\ Release(w)
  /\ UNCHANGED <<nextSeq, rows>>

Proceed(w) == ReadHead(w) \/ Insert(w) \/ Commit(w)

Next ==
  \E w \in Writers :
    \/ \E ev \in Events : Begin(w, ev)
    \/ AcquireLock(w)
    \/ Proceed(w)
    \/ Abort(w)

Spec == Init /\ [][Next]_vars

\* A transaction's statements return, and PostgreSQL grants the advisory lock
\* to its waiters in turn.  Callers and failures owe nothing.
Fairness ==
  \A w \in Writers : WF_vars(Proceed(w)) /\ SF_vars(AcquireLock(w))

FairSpec == Spec /\ Fairness

-----------------------------------------------------------------------------
(* Safety *)

\* A row whose record was hashed with an escape that its jsonb no longer has.
Garbled(r) == r.hash = RecordHash(r.prev, [r.event EXCEPT !.escaped = TRUE])

\* However appends interleave, fail and leave gaps in seq, the committed rows
\* form one chain: each names the hash of the row before it, and AppendAudit's
\* hash is the one VerifyAuditChain recomputes unless the detail was hashed
\* with an escape.  Nothing else makes the verifier reject an untouched table.
ChainIsWhole == \A r \in rows : Linked(rows, r) /\ (Rehashes(r) \/ Garbled(r))

\* The verification is worth its name: a record whose content is altered in
\* place, or that is missing from anywhere but the end, is reported.
TamperEvident ==
  \A r \in rows :
    /\ \A ev \in Stored \ {r.event} :
         ~VerifyAuditChain((rows \ {r}) \cup {[r EXCEPT !.event = ev]})
    /\ r # LastRow(rows) => ~VerifyAuditChain(rows \ {r})

\* Rows are never changed or removed, and each commit lands after every row
\* already there: the order of seq is the order of commits.
AppendsAtTheEnd ==
  [][/\ rows \subseteq rows'
     /\ \A r \in rows' \ rows, q \in rows : q.seq < r.seq]_rows

\* The table implements a linear append-only chain.
Chain == INSTANCE AuditChain WITH head <- HeadHash(rows)
ImplementsChain == Chain!Spec

-----------------------------------------------------------------------------
(* The inductive invariant behind the safety properties *)

\* A transaction past the lock statement holds the lock; the head it has read
\* is still the head; the row it has inserted extends that head, with a seq
\* above every committed one.
LockHeld == \A w \in Writers : wpc[w] \in {"head", "insert", "commit"} => lock = w
HeadFresh == \A w \in Writers : wpc[w] \in {"insert", "commit"} => prev[w] = HeadHash(rows)
DraftExtends ==
  \A w \in Writers : wpc[w] = "commit" =>
    /\ draft[w] = Row(draft[w].seq, prev[w], event[w])
    /\ draft[w].seq < nextSeq
    /\ \A r \in rows : r.seq < draft[w].seq

\* The committed rows have distinct seqs, all drawn; one of them is last, and
\* each of the others has a next one, the row that binds its hash.
After(S, r) == {q \in S : r.seq < q.seq}
RowsOrdered ==
  /\ \A r \in rows : r.seq < nextSeq
  /\ \A r, q \in rows : r.seq = q.seq => r = q
  /\ rows # {} => \E r \in rows : \A q \in rows : q.seq <= r.seq
  /\ \A r \in rows : After(rows, r) # {} =>
       \E q \in After(rows, r) : \A p \in After(rows, r) : q.seq <= p.seq

\* No two transactions append from the same head, whatever fails between the
\* lock statement and COMMIT.
IndInv ==
  /\ TypeOK
  /\ LockHeld
  /\ HeadFresh
  /\ DraftExtends
  /\ RowsOrdered
  /\ ChainIsWhole

-----------------------------------------------------------------------------
(* Liveness *)

\* No append waits for ever: whoever held the lock and failed has released it.
AppendFinishes == \A w \in Writers : wpc[w] # "idle" ~> wpc[w] = "idle"
=============================================================================
