--------------------------- MODULE AuditLogProofs ---------------------------
(***************************************************************************)
(* The audit log's safety, for any number of writers and any set of events *)
(* and however many sequence numbers are drawn.                            *)
(*                                                                         *)
(* The argument: the advisory lock makes the writer past AcquireLock the   *)
(* only one that may commit, so the head it has read stays the head and    *)
(* the seq it draws is above every committed one.  Committing its draft    *)
(* then puts a new last row whose prev_hash is the hash of the old last    *)
(* row, and leaves what comes before every older row as it was.  The row's *)
(* own hash is that of its stored form, or of the same record with the     *)
(* escape that jsonb dropped.  Tampering is evident because a hash binds   *)
(* what it hashes: an altered record has neither hash, and the row after a *)
(* missing record names a hash that no row before it has.                  *)
(***************************************************************************)
EXTENDS AuditLog, TLAPS

\* A hash determines the record it was computed from and differs from the hash
\* it extends.
LEMMA HashBinds ==
  ASSUME NEW p \in Seq(Events), NEW e \in Events
  PROVE  /\ RecordHash(p, e) \in Seq(Events)
         /\ RecordHash(p, e) # p
         /\ \A f \in Events : RecordHash(p, e) = RecordHash(p, f) => e = f
<1>1. Append(p, e) \in Seq(Events) /\ Len(Append(p, e)) = Len(p) + 1 /\ Len(p) \in Nat
  OBVIOUS
<1>2. ASSUME NEW f \in Events PROVE Append(p, f)[Len(p) + 1] = f
  OBVIOUS
<1>3. Append(p, e) # p
  BY <1>1
<1> QED
  BY <1>1, <1>2, <1>3 DEF RecordHash

\* jsonb gives back a record without escapes, which is the hashed one or the
\* hashed one without its escape.
LEMMA RoundTrip ==
  ASSUME NEW e \in Events
  PROVE  /\ Jsonb(e) \in Stored
         /\ Jsonb(e) = e \/ [Jsonb(e) EXCEPT !.escaped = TRUE] = e
  BY DEF Events, Stored, Jsonb

\* A stored record is one that could have been hashed, with an escape or not,
\* and two stored records differ however one of them was escaped.
LEMMA StoredIsPlain ==
  ASSUME NEW e \in Stored
  PROVE  /\ e \in Events
         /\ [e EXCEPT !.escaped = TRUE] \in Events
         /\ \A f \in Stored : [e EXCEPT !.escaped = TRUE] # f
  BY DEF Events, Stored

\* A row that is after every other row of a set is the one LastRow chooses.
LEMMA LastRowIs ==
  ASSUME NEW S, NEW r \in S,
         \A q \in S : q.seq \in Nat,
         \A p, q \in S : p.seq = q.seq => p = q,
         \A q \in S : q.seq <= r.seq
  PROVE  LastRow(S) = r
<1> DEFINE IsLast(x) == \A q \in S : q.seq <= x.seq
<1>1. \E x \in S : IsLast(x)
  OBVIOUS
<1>2. LastRow(S) \in S /\ IsLast(LastRow(S))
  BY <1>1 DEF LastRow
<1>3. LastRow(S).seq <= r.seq /\ r.seq <= LastRow(S).seq
  BY <1>2
<1>4. LastRow(S).seq = r.seq
  BY <1>2, <1>3
<1> QED
  BY <1>2, <1>4

\* The head of a table that has a last row is a hash.
LEMMA HeadHashType ==
  ASSUME NEW S, S \subseteq Rows,
         S # {} => \E r \in S : \A q \in S : q.seq <= r.seq
  PROVE  HeadHash(S) \in Seq(Events)
<1>1. CASE S = {}
  BY <1>1 DEF HeadHash, Genesis
<1>2. CASE S # {}
  <2> DEFINE IsLast(x) == \A q \in S : q.seq <= x.seq
  <2>1. \E x \in S : IsLast(x)
    BY <1>2
  <2>2. LastRow(S) \in S
    BY <2>1 DEF LastRow
  <2> QED
    BY <1>2, <2>2 DEF HeadHash, Rows
<1> QED
  BY <1>1, <1>2

\* COMMIT of a row that extends the head: the new row is the last one, its
\* hash is the new head and the chain is as whole as it was.
LEMMA CommitExtends ==
  ASSUME NEW S, NEW seq \in Nat, NEW ev \in Events,
         \A q \in S : q.seq \in Nat,
         \A p, q \in S : p.seq = q.seq => p = q,
         \A q \in S : q.seq < seq,
         \A r \in S : Linked(S, r) /\ (Rehashes(r) \/ Garbled(r))
  PROVE  LET new == Row(seq, HeadHash(S), ev)
             T == S \cup {new}
         IN  /\ \A p, q \in T : p.seq = q.seq => p = q
             /\ \A q \in T : q.seq <= new.seq
             /\ HeadHash(T) = RecordHash(HeadHash(S), ev)
             /\ \A r \in T : Linked(T, r) /\ (Rehashes(r) \/ Garbled(r))
<1> DEFINE new == Row(seq, HeadHash(S), ev)
           T == S \cup {new}
<1>1. /\ new.seq = seq
      /\ new.prev = HeadHash(S)
      /\ new.event = Jsonb(ev)
      /\ new.hash = RecordHash(HeadHash(S), ev)
  BY DEF Row
<1> HIDE DEF new
<1>2. \A q \in T : q.seq \in Nat /\ q.seq <= new.seq
  BY <1>1
<1>3. \A p, q \in T : p.seq = q.seq => p = q
  BY <1>1
<1>4. LastRow(T) = new
  BY <1>2, <1>3, LastRowIs
<1>5. HeadHash(T) = RecordHash(HeadHash(S), ev)
  BY <1>1, <1>4 DEF HeadHash
<1>6. Before(T, new) = S
  BY <1>1 DEF Before
<1>7. ASSUME NEW r \in S PROVE Before(T, r) = Before(S, r)
  <2>1. ~(new.seq < r.seq)
    BY <1>1
  <2> QED
    BY <2>1 DEF Before
<1>8. ASSUME NEW r \in T
      PROVE  Linked(T, r) /\ (Rehashes(r) \/ Garbled(r))
  <2>1. CASE r = new
    <3>1. Jsonb(ev) = ev \/ [Jsonb(ev) EXCEPT !.escaped = TRUE] = ev
      BY RoundTrip
    <3> QED
      BY <2>1, <3>1, <1>1, <1>6 DEF Linked, Rehashes, Garbled
  <2>2. CASE r \in S
    BY <2>2, <1>7 DEF Linked
  <2> QED
    BY <2>1, <2>2
<1> QED
  BY <1>2, <1>3, <1>5, <1>8 DEF new

-----------------------------------------------------------------------------

\* The cleared locals are typed.
LEMMA NoRowType == NoRow \in Rows /\ NoRow.event \in Events
<1> DEFINE ev == CHOOSE x \in Events : TRUE
<1>0. \E x \in Events : TRUE
  <2>1. PICK c \in Contents : TRUE
    BY ContentsAssumption
  <2>2. [content |-> c, escaped |-> FALSE] \in Events
    BY DEF Events
  <2> QED
    BY <2>2
<1>1. ev \in Events /\ Genesis \in Seq(Events)
  BY <1>0 DEF Genesis
<1> HIDE DEF ev
<1>2. Row(0, Genesis, ev) \in Rows /\ Row(0, Genesis, ev).event \in Events
  BY <1>1, HashBinds, RoundTrip, StoredIsPlain DEF Row, Rows
<1> QED
  BY <1>2 DEF NoRow, ev

\* The empty table satisfies the invariant.
LEMMA InitHolds == Init => IndInv
<1> SUFFICES ASSUME Init PROVE IndInv
  OBVIOUS
<1>1. NoRow \in Rows /\ NoRow.event \in Events
  BY NoRowType
<1>2. TypeOK
  BY <1>1 DEF Init, TypeOK, Genesis
<1> QED
  BY <1>2 DEF Init, IndInv, LockHeld, HeadFresh, DraftExtends, RowsOrdered,
              ChainIsWhole

\* What COMMIT does to the table, in a state of the invariant.
LEMMA CommitStep ==
  ASSUME IndInv, NEW w \in Writers, Commit(w)
  PROVE  /\ event[w] \in Events
         /\ draft[w] \in Rows
         /\ rows' = rows \cup {draft[w]}
         /\ draft[w] = Row(draft[w].seq, HeadHash(rows), event[w])
         /\ draft[w].seq \in Nat
         /\ \A r \in rows : r.seq < draft[w].seq
         /\ \A p, q \in rows' : p.seq = q.seq => p = q
         /\ \A q \in rows' : q.seq <= draft[w].seq
         /\ HeadHash(rows') = RecordHash(HeadHash(rows), event[w])
         /\ ChainIsWhole'
<1>1. event[w] \in Events /\ draft[w] \in Rows /\ \A q \in rows : q.seq \in Nat
  BY DEF IndInv, TypeOK, Rows
<1>2. wpc[w] = "commit" /\ rows' = rows \cup {draft[w]}
  BY DEF Commit, Step
<1>3. /\ draft[w].seq \in Nat
      /\ draft[w] = Row(draft[w].seq, HeadHash(rows), event[w])
      /\ \A r \in rows : r.seq < draft[w].seq
  BY <1>1, <1>2 DEF IndInv, DraftExtends, HeadFresh, Rows
<1>4. /\ \A r \in rows : Linked(rows, r) /\ (Rehashes(r) \/ Garbled(r))
      /\ \A p, q \in rows : p.seq = q.seq => p = q
  BY DEF IndInv, ChainIsWhole, RowsOrdered
<1> DEFINE s == draft[w].seq
           new == Row(s, HeadHash(rows), event[w])
<1> HIDE DEF s
<1>5. s \in Nat /\ \A r \in rows : r.seq < s
  BY <1>3 DEF s
<1>6. LET T == rows \cup {new}
      IN  /\ \A p, q \in T : p.seq = q.seq => p = q
          /\ \A q \in T : q.seq <= new.seq
          /\ HeadHash(T) = RecordHash(HeadHash(rows), event[w])
          /\ \A r \in T : Linked(T, r) /\ (Rehashes(r) \/ Garbled(r))
  BY <1>1, <1>4, <1>5, CommitExtends
<1>7. draft[w] = new
  BY <1>3 DEF s
<1> HIDE DEF new
<1>8. \A r \in rows' : Linked(rows', r) /\ (Rehashes(r) \/ Garbled(r))
  BY <1>2, <1>6, <1>7
<1>9. ChainIsWhole'
  BY <1>8 DEF ChainIsWhole, Linked, Rehashes, Garbled, HeadHash, LastRow, Before
<1> QED
  BY <1>1, <1>2, <1>3, <1>6, <1>7, <1>9

\* Every step of the code preserves the invariant.
LEMMA NextPreserves == IndInv /\ [Next]_vars => IndInv'
<1> SUFFICES ASSUME IndInv, [Next]_vars PROVE IndInv'
  OBVIOUS
<1> USE DEF IndInv
<1>0. NoRow \in Rows /\ NoRow.event \in Events /\ Genesis \in Seq(Events)
  BY NoRowType DEF Genesis
<1>1. CASE UNCHANGED vars
  <2>1. TypeOK' /\ LockHeld' /\ HeadFresh' /\ DraftExtends'
    BY <1>1 DEF vars, TypeOK, LockHeld, HeadFresh, DraftExtends
  <2>2. RowsOrdered' /\ ChainIsWhole'
    BY <1>1 DEF vars, RowsOrdered, After, ChainIsWhole
  <2> QED
    BY <2>1, <2>2
<1>2. ASSUME NEW w \in Writers, NEW ev \in Events, Begin(w, ev) PROVE IndInv'
  <2>1. TypeOK'
    BY <1>2 DEF TypeOK, Begin, Step
  <2>2. LockHeld' /\ HeadFresh' /\ DraftExtends' /\ RowsOrdered' /\ ChainIsWhole'
    BY <1>2 DEF Begin, Step, TypeOK, LockHeld, HeadFresh, DraftExtends, RowsOrdered,
                After, ChainIsWhole
  <2> QED
    BY <2>1, <2>2
<1>3. ASSUME NEW w \in Writers, AcquireLock(w) PROVE IndInv'
  <2>1. TypeOK'
    BY <1>3 DEF TypeOK, AcquireLock, Step
  <2>2. LockHeld'
    BY <1>3, NobodyAssumption DEF AcquireLock, Step, TypeOK, LockHeld
  <2>3. HeadFresh' /\ DraftExtends' /\ RowsOrdered' /\ ChainIsWhole'
    BY <1>3 DEF AcquireLock, Step, TypeOK, HeadFresh, DraftExtends, RowsOrdered,
                After, ChainIsWhole
  <2> QED
    BY <2>1, <2>2, <2>3
<1>4. ASSUME NEW w \in Writers, ReadHead(w) PROVE IndInv'
  <2>0. HeadHash(rows) \in Seq(Events)
    BY HeadHashType DEF TypeOK, RowsOrdered
  <2>1. TypeOK'
    BY <1>4, <2>0 DEF TypeOK, ReadHead, Step
  <2>2. LockHeld' /\ HeadFresh'
    BY <1>4 DEF ReadHead, Step, TypeOK, LockHeld, HeadFresh
  <2>3. DraftExtends' /\ RowsOrdered' /\ ChainIsWhole'
    BY <1>4 DEF ReadHead, Step, TypeOK, DraftExtends, RowsOrdered, After, ChainIsWhole
  <2> QED
    BY <2>1, <2>2, <2>3
<1>5. ASSUME NEW w \in Writers, Insert(w) PROVE IndInv'
  <2>0. Row(nextSeq, prev[w], event[w]) \in Rows
    <3>1. nextSeq \in Nat /\ prev[w] \in Seq(Events) /\ event[w] \in Events
      BY DEF TypeOK
    <3> QED
      BY <3>1, HashBinds, RoundTrip DEF Row, Rows
  <2>1. TypeOK'
    BY <1>5, <2>0 DEF TypeOK, Insert, Step
  <2>2. LockHeld' /\ HeadFresh' /\ ChainIsWhole'
    BY <1>5 DEF Insert, Step, TypeOK, LockHeld, HeadFresh, ChainIsWhole
  <2>3. RowsOrdered'
    <3>1. nextSeq \in Nat /\ rows' = rows /\ nextSeq' = nextSeq + 1
          /\ \A r \in rows : r.seq \in Nat
      BY <1>5 DEF Insert, TypeOK, Rows
    <3> QED
      BY <3>1 DEF RowsOrdered, After
  <2>4. DraftExtends'
    <3> SUFFICES ASSUME NEW v \in Writers, wpc'[v] = "commit"
                 PROVE  /\ draft'[v] = Row(draft'[v].seq, prev'[v], event'[v])
                        /\ draft'[v].seq < nextSeq'
                        /\ \A r \in rows' : r.seq < draft'[v].seq
      BY DEF DraftExtends
    <3>1. CASE v = w
      <4>1. draft'[v] = Row(nextSeq, prev[v], event[v])
        BY <1>5, <3>1 DEF Insert, Step, TypeOK
      <4>2. draft'[v].seq = nextSeq
        BY <4>1 DEF Row
      <4>3. rows' = rows /\ event' = event /\ prev' = prev /\ nextSeq' = nextSeq + 1
        BY <1>5 DEF Insert
      <4> QED
        BY <4>1, <4>2, <4>3 DEF TypeOK, RowsOrdered
    <3>2. CASE v # w
      <4>1. wpc[v] = "commit" /\ draft'[v] = draft[v]
        BY <1>5, <3>2 DEF Insert, Step, TypeOK
      <4>2. rows' = rows /\ event' = event /\ prev' = prev /\ nextSeq' = nextSeq + 1
        BY <1>5 DEF Insert
      <4>3. draft[v].seq \in Nat /\ nextSeq \in Nat
        BY DEF TypeOK, Rows
      <4> QED
        BY <4>1, <4>2, <4>3 DEF DraftExtends
    <3> QED
      BY <3>1, <3>2
  <2> QED
    BY <2>1, <2>2, <2>3, <2>4
<1>6. ASSUME NEW w \in Writers, Commit(w) PROVE IndInv'
  <2>1. /\ wpc[w] = "commit" /\ wpc' = [wpc EXCEPT ![w] = "idle"]
        /\ rows' = rows \cup {draft[w]} /\ nextSeq' = nextSeq
        /\ lock' = Nobody
    BY <1>6 DEF Commit, Step, Release, LockHeld
  <2>2. /\ event[w] \in Events
        /\ draft[w] \in Rows
        /\ draft[w] = Row(draft[w].seq, HeadHash(rows), event[w])
        /\ draft[w].seq \in Nat
        /\ \A r \in rows : r.seq < draft[w].seq
        /\ \A p, q \in rows' : p.seq = q.seq => p = q
        /\ \A q \in rows' : q.seq <= draft[w].seq
        /\ ChainIsWhole'
    BY <1>6, CommitStep
  <2>3. \A v \in Writers : wpc'[v] \notin {"head", "insert", "commit"}
    <3> SUFFICES ASSUME NEW v \in Writers, v # w, wpc[v] \in {"head", "insert", "commit"}
                 PROVE  FALSE
      BY <2>1 DEF TypeOK
    <3> QED
      BY <2>1 DEF LockHeld
  <2>4. TypeOK'
    <3>1. rows' \subseteq Rows
      BY <2>1, <2>2 DEF TypeOK
    <3>2. wpc' \in [Writers -> {"idle", "lock", "head", "insert", "commit"}]
          /\ lock' \in Writers \cup {Nobody} /\ nextSeq' \in Nat
      BY <2>1 DEF TypeOK
    <3>3. event' \in [Writers -> Events] /\ prev' \in [Writers -> Seq(Events)]
          /\ draft' \in [Writers -> Rows]
      BY <1>0, <1>6 DEF TypeOK, Commit, Release
    <3> QED
      BY <3>1, <3>2, <3>3 DEF TypeOK
  <2>5. LockHeld' /\ HeadFresh' /\ DraftExtends'
    BY <2>3 DEF LockHeld, HeadFresh, DraftExtends
  <2>6. RowsOrdered'
    <3>1. draft[w].seq < nextSeq
      BY <2>1 DEF DraftExtends
    <3>2. \A r \in rows' : r.seq < nextSeq'
      BY <2>1, <3>1 DEF RowsOrdered
    <3>3. \E r \in rows' : \A q \in rows' : q.seq <= r.seq
      BY <2>1, <2>2
    <3>4. ASSUME NEW r \in rows', After(rows', r) # {}
          PROVE  \E q \in After(rows', r) : \A p \in After(rows', r) : q.seq <= p.seq
      <4>1. r \in rows /\ draft[w].seq \in Nat /\ \A q \in rows : q.seq \in Nat
        BY <2>1, <2>2, <3>4 DEF After, TypeOK, Rows
      <4>2. After(rows', r) = After(rows, r) \cup {draft[w]}
        BY <2>1, <2>2, <4>1 DEF After
      <4>3. CASE After(rows, r) = {}
        BY <4>1, <4>2, <4>3
      <4>4. CASE After(rows, r) # {}
        <5>1. PICK q \in After(rows, r) : \A p \in After(rows, r) : q.seq <= p.seq
          BY <4>1, <4>4 DEF RowsOrdered
        <5>2. q \in rows /\ q.seq <= draft[w].seq
          BY <2>1, <2>2, <5>1 DEF After
        <5> QED
          BY <4>2, <5>1, <5>2
      <4> QED
        BY <4>3, <4>4
    <3> QED
      BY <2>2, <3>2, <3>3, <3>4 DEF RowsOrdered
  <2> QED
    BY <2>2, <2>4, <2>5, <2>6
<1>7. ASSUME NEW w \in Writers, Abort(w) PROVE IndInv'
  <2>1. TypeOK'
    BY <1>0, <1>7 DEF TypeOK, Abort, Release
  <2>2. \A v \in Writers : wpc'[v] # "idle" =>
          v # w /\ wpc'[v] = wpc[v] /\ prev'[v] = prev[v] /\ draft'[v] = draft[v]
          /\ event'[v] = event[v] /\ (lock = v => lock' = v)
    BY <1>7 DEF TypeOK, Abort, Release
  <2>3. rows' = rows /\ nextSeq' = nextSeq
    BY <1>7 DEF Abort
  <2>4. LockHeld'
    BY <2>2 DEF LockHeld
  <2>5. HeadFresh'
    BY <2>2, <2>3 DEF HeadFresh
  <2>6. DraftExtends'
    BY <2>2, <2>3 DEF DraftExtends
  <2>7. RowsOrdered' /\ ChainIsWhole'
    BY <2>3 DEF RowsOrdered, After, ChainIsWhole
  <2> QED
    BY <2>1, <2>4, <2>5, <2>6, <2>7
<1> QED
  BY <1>1, <1>2, <1>3, <1>4, <1>5, <1>6, <1>7 DEF Next, Proceed

\* The invariant holds in every reachable state.
THEOREM Invariance == Spec => []IndInv
<1>1. Init => IndInv
  BY InitHolds
<1>2. IndInv /\ [Next]_vars => IndInv'
  BY NextPreserves
<1> QED
  BY <1>1, <1>2, PTL DEF Spec

\* Concurrent, failing and crashing callers of AppendAudit cannot fork or break
\* the chain: VerifyAuditChain finds every link in place, and rejects a record's
\* own hash only where the detail was hashed with an escape that jsonb dropped.
THEOREM ChainStaysWhole == Spec => []ChainIsWhole
<1>1. IndInv => ChainIsWhole
  BY DEF IndInv
<1> QED
  BY <1>1, Invariance, PTL

\* A record altered in place no longer has the hash stored beside it.
LEMMA AlterationShows ==
  ASSUME IndInv, NEW r \in rows, NEW ev \in Stored \ {r.event}
  PROVE  ~VerifyAuditChain((rows \ {r}) \cup {[r EXCEPT !.event = ev]})
<1> DEFINE bad == [r EXCEPT !.event = ev]
<1> SUFFICES ASSUME VerifyAuditChain((rows \ {r}) \cup {bad}) PROVE FALSE
  OBVIOUS
<1>1. r \in Rows /\ r.prev \in Seq(Events) /\ r.event \in Stored
  BY DEF IndInv, TypeOK, Rows
<1>2. bad.prev = r.prev /\ bad.event = ev /\ bad.hash = r.hash
  BY <1>1 DEF Rows
<1> HIDE DEF bad
<1>3. PICK f \in {r.event, [r.event EXCEPT !.escaped = TRUE]} :
        r.hash = RecordHash(r.prev, f)
  BY DEF IndInv, ChainIsWhole, Rehashes, Garbled
<1>4. f \in Events /\ ev \in Events /\ f # ev
  BY <1>1, StoredIsPlain
<1>5. bad.hash = RecordHash(bad.prev, bad.event)
  BY DEF VerifyAuditChain, Rehashes
<1> QED
  BY <1>1, <1>2, <1>3, <1>4, <1>5, HashBinds

\* The row after a missing record names that record's hash, which extends the
\* hash now in front of it and so cannot be equal to it.
LEMMA RemovalShows ==
  ASSUME IndInv, NEW r \in rows, r # LastRow(rows)
  PROVE  ~VerifyAuditChain(rows \ {r})
<1> SUFFICES ASSUME VerifyAuditChain(rows \ {r}) PROVE FALSE
  OBVIOUS
<1>1. \A q \in rows : q.seq \in Nat /\ q.prev \in Seq(Events) /\ q.event \in Stored
  BY DEF IndInv, TypeOK, Rows
<1>2. \A p, q \in rows : p.seq = q.seq => p = q
  BY DEF IndInv, RowsOrdered
<1>3. After(rows, r) # {}
  <2>1. PICK last \in rows : \A q \in rows : q.seq <= last.seq
    BY DEF IndInv, RowsOrdered
  <2>2. last # r
    BY <1>1, <1>2, <2>1, LastRowIs
  <2>3. r.seq < last.seq
    BY <1>1, <1>2, <2>1, <2>2
  <2> QED
    BY <2>3 DEF After
<1>4. PICK q \in rows : r.seq < q.seq /\ \A p \in rows : r.seq < p.seq => q.seq <= p.seq
  BY <1>3 DEF IndInv, RowsOrdered, After
<1>5. Before(rows, q) = Before(rows, r) \cup {r} /\ Before(rows \ {r}, q) = Before(rows, r)
  <2>1. ASSUME NEW p \in rows PROVE p.seq < q.seq <=> p.seq < r.seq \/ p = r
    BY <1>1, <1>2, <1>4
  <2>2. ~(r.seq < r.seq)
    BY <1>1
  <2> QED
    BY <2>1, <2>2 DEF Before
<1>6. LastRow(Before(rows, q)) = r
  <2>1. r \in Before(rows, q)
    BY <1>5
  <2>2. \A p \in Before(rows, q) : p \in rows /\ p.seq <= r.seq
    BY <1>1, <1>5 DEF Before
  <2> QED
    BY <1>1, <1>2, <2>1, <2>2, LastRowIs
<1>7. q.prev = r.hash
  BY <1>5, <1>6 DEF IndInv, ChainIsWhole, Linked, HeadHash
<1>8. /\ \E f \in Events : r.hash = RecordHash(r.prev, f)
      /\ r.prev = HeadHash(Before(rows, r))
  BY <1>1, StoredIsPlain DEF IndInv, ChainIsWhole, Linked, Rehashes, Garbled
<1>9. q \in rows \ {r}
  BY <1>1, <1>4
<1>10. q.prev = HeadHash(Before(rows \ {r}, q))
  BY <1>9 DEF VerifyAuditChain, Linked
<1> QED
  BY <1>1, <1>5, <1>7, <1>8, <1>10, HashBinds

\* VerifyAuditChain reports every record altered in place, and every record
\* missing from anywhere but the end, of any table that AppendAudit can have
\* built.
THEOREM TamperingIsEvident == Spec => []TamperEvident
<1>1. IndInv => TamperEvident
  BY AlterationShows, RemovalShows DEF TamperEvident
<1> QED
  BY <1>1, Invariance, PTL

\* Rows are only added, each after all the rows already there.
THEOREM AppendOnly == Spec => AppendsAtTheEnd
<1> DEFINE AtEnd == /\ rows \subseteq rows'
                    /\ \A r \in rows' \ rows, q \in rows : q.seq < r.seq
<1>1. IndInv /\ [Next]_vars => [AtEnd]_rows
  <2> SUFFICES ASSUME IndInv, [Next]_vars, rows' # rows PROVE AtEnd
    OBVIOUS
  <2>1. PICK w \in Writers : Commit(w)
    BY DEF Next, Proceed, vars, Begin, AcquireLock, ReadHead, Insert, Abort
  <2>2. rows' = rows \cup {draft[w]} /\ \A r \in rows : r.seq < draft[w].seq
    BY <2>1, CommitStep
  <2> QED
    BY <2>2
<1> QED
  BY <1>1, Invariance, PTL DEF Spec, AppendsAtTheEnd

\* The table, seen through its head hash, is the linear append-only chain:
\* every COMMIT extends the head by one event and nothing else changes it.
THEOREM Refinement == Spec => ImplementsChain
<1>1. Init => Chain!Init
  BY DEF Init, HeadHash, Genesis, Chain!Init, Chain!Genesis
<1>2. IndInv /\ [Next]_vars => [Chain!Next]_(HeadHash(rows))
  <2> SUFFICES ASSUME IndInv, [Next]_vars, HeadHash(rows)' # HeadHash(rows)
               PROVE  Chain!Next
    OBVIOUS
  <2>0. HeadHash(rows)' = HeadHash(rows')
    BY DEF HeadHash, LastRow
  <2>1. rows' # rows
    BY <2>0
  <2>2. PICK w \in Writers : Commit(w)
    BY <2>1 DEF Next, Proceed, vars, Begin, AcquireLock, ReadHead, Insert, Abort
  <2>3. event[w] \in Events /\ HeadHash(rows') = RecordHash(HeadHash(rows), event[w])
    BY <2>2, CommitStep
  <2>4. Chain!Extend(event[w])
    BY <2>0, <2>3 DEF Chain!Extend, Chain!RecordHash, RecordHash
  <2> QED
    BY <2>3, <2>4 DEF Chain!Next
<1> QED
  BY <1>1, <1>2, Invariance, PTL DEF Spec, ImplementsChain, Chain!Spec
=============================================================================
