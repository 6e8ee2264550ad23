# Verification of sshbroker

TLA+ models of the SSH access broker in `src/`, checked with TLC on small
instances and, for safety, proved with TLAPS for every instance.

## The system

| Component | State | Operations | Why it is hard |
|---|---|---|---|
| Connection handler (`internal/proxy/server.go`) | one goroutine per SSH connection; the user's and the target's connection | handshake, authorize, dial, start session, register, serve channels, end session, deferred closes | every database call may fail or lose its reply; the reaper closes connections under it; shutdown cancels its context and does not wait |
| Registry and reaper (`registry.go`, `runReaper` in `cmd/broker/main.go`) | map from session id to a close function; a snapshot and a query answer | add, remove, list, kill; tick, query, kill, audit | acts on stale snapshots while handlers come and go |
| Sessions table (`internal/store/sessions*.go`) | rows with `ended_at`, `terminate_requested`, `recording_ref`, `recording_url` | create, end, flag, select the doomed | written by three processes |
| Channel proxy (`session.go`) | one goroutine per stream and direction | copy, gate and forward requests, forward the exit status, join | the join waits for some goroutines and not for others |
| Recording and upload (`recording.go`, `upload.go`, `uploadRecording`) | the `.cast` file, the upload goroutine | open, append, close; upload, store URL, delete | the upload runs beside the closing session; each step may fail alone |
| Audit log (`internal/store/audit.go`) | hash-chained rows | append in a transaction, verify | concurrent appends from several processes, gaps in `seq`, failures at any statement |
| Browser sign-in (`keyboardInteractive`, `browserlogin.go`, `ssh_login.go`, `ssh_login_handlers.go`) | login requests, users, two clocks | begin, poll, consume, resolve, JIT create; approve, deny | decision, poll, consume and deadline race across processes and clocks |
| Authorization (`dbauthz.go`, `repositories.go`, `updates.go`) | servers, groups, grants | four reads and a decision; administrators' edits | the reads are not one transaction |
| Certificate issuer, CA signer and dial (`internal/ca`, `internal/signer`, `dial.go`) | serial counter, the CA public key of the process | issue, sign, dial; restart | the counter restarts with the process; the window is computed before a slow remote signature and judged by another clock; the KMS key may change under its id |
| Identities (`dbauth.go`, `repositories.go`, `updates.go`, written by `admin.go` and `handlers.go`) | users, keys, service accounts, memberships, grants; the keys of a handshake | look a key up, sign; create, change and delete | a handshake keeps its answers while rows change; grants have no foreign key to their subject; a deletion is two statements |
| Admin authentication and API (`internal/api`, `internal/auth`, `admins.go`) | admin sessions, login limiter | log in, resolve, log out, mutate and audit | idle and absolute expiry, limiter window, audit after the fact |
| Web console, configuration, listings, file-backed identities, secrets | none of their own that changes | | |

Handlers call the authorizer and the store directly.  The API process and the
CLI never talk to the broker: they write rows, and the broker's handlers
(sign-in polling) and its reaper (termination) read them later.  Every
component appends to the one audit log.

What makes each correct: the registry, the rows and the trail agree with what
the handlers really do; a termination request takes effect; the chain never
forks and tampering shows; a login is granted only on an approval of
that attempt; a public-key identity is the active owner of the key that signed;
a decision gives no more than the policy; a certificate is good for no longer
than the decision; what a recorded user was shown can be played back.

## Modules

| Module | Models | State and actions |
|---|---|---|
| `BrokerSessions` | `handleConn`, `sessionRegistry`, `runReaper`, the store functions they call, `run`'s shutdown | `pc` is the stage of each handler; one action per call with an effect. An INSERT or UPDATE that reports an error may have been committed. `Exit` is the end of the process in any way |
| `SessionLedger` | abstract: what the sessions table and the audit log may say of a session, faults included | `BrokerSessions` implements it; see below |
| `SessionRecording` | `proxySession`, `castRecording`, `EndSession`'s recording half, `uploadRecording` for one recorded connection | `h` is the handler; `userCh` and `target` are the two sides of each channel, `copier`, `stdin`, `exit` its goroutines; `up` the upload. A write to the user takes two steps (`CopyToUser`, `WriteReturns`) and ends `cut` when the user's side goes in between |
| `AuditLog` | `AppendAudit`, one action per statement; `VerifyAuditChain` | `rows` are committed; `draft` is an inserted, uncommitted row; `lock` the advisory lock; `Jsonb` is what the column gives back of an event |
| `AuditChain` | abstract: a head that each append extends in one step (`Extend`) | `AuditLog` implements it with `head <- HeadHash(rows)` |
| `SshLogin` | sign-in attempts, their requests, the deciding people, user administration | `pc` of each attempt, `challenge` being the wait for the client to answer the prompt with the URL; `req` the rows; `skew` the difference of the clocks |
| `OneTimeApproval` | abstract: one decision per attempt, used up once, letting in its approver only | `SshLogin` implements it; see below |
| `Authorization` | `DBAuthorizer.Authorize` and every edit of what it reads | `call` holds what the queries returned; `seen` is history, for the properties only |
| `AdminSessions` | `localLogin`, `localLogout`, `resolvePrincipal`, `LookupAdminSession`, `require` and `auditMW` around a mutating API request | `login` and `row` are break-glass logins and their `admin_sessions` rows; `pc` the stage of each request; `who` and `via` its principal; `stamp` the `now()` of a touch under way; `late`, `vacuous` and `faulted` are history |
| `CertIssuer` | `connectTarget`, `Issue`, `CounterAllocator`, the KMS signer, `StartSession`'s serial, broker processes | `pc` of each connection; `cert` with its window, the key it names (`as`) and the key that signed (`by`); `n` the counter; `judged` is history |
| `Identities` | `PublicKeyCallback` and `AuthnByKey`, the subject's half of `Authorize`, and every CLI command and API handler that changes users, keys, service accounts, memberships or direct grants | tables as functions of their ids; `open` and `doomed` are `DeleteUser` transactions between their statements; `cache` is the handshake's memory of keys; `late`, `dead` and `valid` are history |
| `MC*` | model values, symmetry and catalogues for TLC | |
| `*Proofs` | theorems | |

Operators named `X_Y` beside an operator `X` are mutants: plausible bugs of
the code that the properties must catch.  No specification uses them.

Two abstract specifications say what the concurrent ones amount to.
`SessionLedger` sees a session's row state, its flag, its two connections and
its audit events.  Its guards are the promise: a connection opens only before
the row does, `session.start` comes first and once, `session.end` once and after
the row has ended, `session.killed` only for a flagged session that is cut off, a
refusal alone.  `session.killed` may repeat: `kill` leaves the entry in the
registry, and a session whose teardown outlasts a tick is killed again.  `Write` is any of the appends.  The mapping reads the first
four off `rows`, `userOpen` and `targetOpen`; `log` is `trail`.
`OneTimeApproval` sees the decisions, the requests that are consumed, the
outcome of each attempt (`granted`, `refused` or still `open`) and the active
accounts; polling, deadlines, clocks and failed calls are stutters or
refusals.

`BrokerSessions` treats `proxySession` as one stage and leaves recording out,
since no outcome of either changes the handler's course; `SessionRecording`
opens that stage up.  Its liveness property `KilledUnwinds` is what justifies
the fairness of `EndChannel` in `BrokerSessions`.  `kill`, which takes the
close function out of the map and calls it after unlocking, is one step: a
session removed in between has both connections closed already.

`CertIssuer` opens up the one step `ConnectTarget` of `BrokerSessions`, and
`Identities` its `Authenticate`; `Identities` and `Authorization` share the
administrators' handlers, each with the tables it needs: the first has users
and what hangs on them, the second servers, groups and the contents of grants.
Time in `CertIssuer` is counted in fractions of a second, since certificates
round to whole ones.  A target there trusts all CA keys and has any of the
given offsets, which need not stay the same between connections.

`Identities` models `golang.org/x/crypto/ssh` from how `serverConfig` uses it:
the callback is called once per key and handshake, and the permissions of the
key that signs become the connection's.  `AuthnByKey` has a `LIMIT 1` without
an order, so any owner of the key may be the one returned.

A hash is modelled as the sequence of all events it binds, the previous
record's included, that is, without collisions (lemma `HashBinds`).  An event is
its content and whether `json.Marshal` wrote an escape for a byte that is not
UTF-8; `jsonb` keeps the character and not the escape, so the two hashes differ
(`Garbled`).  A chunk of output is its position in its stream.  A write to the
user blocks while the user's window is full; if the user's side goes meanwhile,
part of the chunk may have arrived and the recording gets none of it.

`AdminSessions` lets a request carry any cookie handed out, and headers or a
bearer token that give it any role; the handler behind `require` is one store
call (`Mutate`), which may change something, have nothing to change (an update
without fields, an insert that conflicts) or fail.  Which statement that is, the
other modules model.  An UPDATE that its client has given up waiting for is
applied at once or never.  Any role
that may not change something stands for a principal without roles, too.
`SetLocalAdminStatus` has no caller but the tests; it is an operator's action
because the lookup promises to honour the status.

## Runs

| Run | Instance | Shows |
|---|---|---|
| `sessions` | 2 connections, 1 account, up to 2 killed events per session | `SessionLedger` is implemented (hence kills only of flagged sessions); registry exact; kills final; a session without faults fully accounted for; open rows without a handler only after faults |
| `sessions_live` | 1 connection | a flagged session is cut off; teardown finishes, unless the target never answers |
| `sessions_disable` | 1 connection | **violated**: disabling an account does not end its sessions |
| `audit` | 3 writers, 2 contents with and without an escape, 5 sequence numbers | chain whole but for records hashed with an escape, `AuditChain` is implemented, a row edited in place or removed from the middle is noticed, an append always ends |
| `login` | 2 attempts, 2 people, skew -1..1, deadline 2, clock to 3 | `OneTimeApproval` is implemented (hence one decision, used once); grants need an approval of that attempt; sign-in only creates users |
| `login_live` | 2 attempts, 1 person, database clock level or ahead | every attempt concludes unless its client never answers the challenge |
| `authorization` | user or service account, 2 servers with the same host name, 2 groups, 3 grants | decisions never exceed the policy in force; recording not composed away; exact when nothing is edited |
| `recording` | 2 channels, 2 chunks in all on any of their streams | output kept but for a chunk cut short, deletion fails closed, recordings found, exit status delivered to a user who is still there, closed connections unwind the handler |
| `recording_upload` | 1 channel | **violated**: the uploaded file may be unfinished |
| `admin_sessions` | 1 admin, 1 session, 2 requests, skew -1..1, idle 1, absolute 3, clock to 4 | a revoked, expired, idle or disabled session is refused from then on; touches in any order neither revive nor extend a session; the trail matches what was done or had nothing to do |
| `certs` | 2 connections, 2 CA keys, half-second ticks, lifetimes none, 1 s and 2.5 s under a maximum of 1.5 s, tolerance 0.5 s, targets 1 s behind to 0.5 s ahead, 2 broker processes, clock over 2 s | no certificate accepted past its lifetime by the target's clock; refusals only for a cause; serials repeat only across processes |
| `identities` | 2 users, 2 keys, 1 service account, 2 grants, 1 connection | the identity is the active owner of the key that signed; a deleted user is let in only by a grant made during or after its deletion |

The bounds admit the interesting cases: two handlers against one reaper (its
snapshot can hold one dead and one live session, and the second tick can find
one it has killed before), three writers (one holds the
lock, one waits, one fails), two people deciding two attempts (a race on one
link, and a race of two attempts to create one user), two servers behind one
name with grants of different reach; two channels and two chunks, so that the
stderr copy of the first outlives it and one chunk is cut short after another
was recorded; two requests with one cookie, so that one touches or
revokes the session between the other's two statements, or begins its touch
first and writes it last; two certificates, so
that one signature fails while the other's serial is taken, with a clock that
runs past the end of both; two keys with different owners in one handshake, and
a grant of each kind.  Counters (`MaxKilled`,
`MaxSeq`, `MaxTime`, `MaxBoots`, `MaxChannels`, `MaxChunks`) bound history, not behaviour.  Deadlock is
checked in the `BrokerSessions`, `Authorization` and `Identities` runs; elsewhere the
bounded histories, and finished sessions, really stop.

### Disagreements with the documentation

* `sessions_disable`.  README and ADR-016 say that disabling an account ends
  its live sessions.  `auditAdapter.StartSession` never sets `SubjectID`, so
  `sessions.subject_id` is NULL and the reaper's query joins no account.  Only
  an explicit termination request works.
* `recording_upload`.  The upload is said to take a finished `.cast`.  It is
  started before the recording is closed, and the stderr copy is not awaited,
  so error output can be written after the upload has read the file; with
  deletion enabled that output is lost.  Standard output is not affected
  (`StdoutIsKept`).

Others are visible in the models and have no run of their own:

* ADR-020 (`DECISIONS.md:252`) says that every management mutation writes an
  audit event.  `auditMW` writes it after the commit, under the request's
  context, and drops the error (`auth_middleware.go:232`), so a failed append or
  a client that goes away leaves a mutation without one.  Without a fault every
  mutation has its event (`EventsMatch`).  The other way round, an event need
  not be of a mutation: `execUpdate` returns without a statement when no field
  is given (`updates.go:24`), so a PATCH with an empty object answers 200 and is
  audited, even for an id that does not exist (`vacuous`).
* `audit.go:130` says that `canonicalDetail` gives "the same canonical form used
  when hashing (sorted keys), so verification is independent of how Postgres
  stores the object".  `json.Marshal` (`audit.go:54`) writes a byte that is not
  UTF-8 as the escape `\ufffd`; read back from `jsonb` it is the character
  U+FFFD, which is marshalled as it is.  The hashes differ, and
  `VerifyAuditChain` stops at a record that nobody touched.  The user name of an
  SSH connection, in the detail of a refusal (`server.go:255`), can hold such a
  byte.  `ChainIsWhole` says that nothing else makes an untouched log fail.
* The timeout of the browser sign-in does not bound the challenge that shows
  the URL (`server.go:178`): a client that never answers holds its connection.
* `session.killed` may be recorded more than once for a session
  (`SessionLedger`), where the trail reads as if there were one kill.
* A user who closes a channel in mid-write may have seen part of a chunk of
  output that full recording then misses (`cut` in `StdoutIsKept`).
* `serial.go:17` says that the counter must not be used in production;
  `main.go:103` uses it, from 0, in every broker.  Serials recorded in
  `sessions` therefore repeat after a restart, as `SerialNeedsItsProcess` allows
  and nothing less would hold.
* `0001_init.up.sql:116` says that the application enforces the integrity of a
  grant's subject.  `CreateGrant` does not look whether the subject exists, and
  a grant made while `DeleteUser` runs survives it (`late` in
  `DeletedIsShutOut`).
* `dial.go:66` says that the database-backed path requires a pinned host key;
  the column is nullable and `add-server` leaves it empty by default.
* `AuthnByKey` says that user keys are searched first; without an `ORDER BY`
  the database need not.
* `src/README.md:353` gives the clock tolerance as 30 s; the default in
  `config.go:236` is one minute.

## Fairness

* Handlers, the reaper and copy goroutines run (weak fairness).  That database
  calls return is an assumption about the environment: some have a timeout (the
  reaper's query), some only their caller's context (the reaper's audit append,
  `main.go:319`).
* Two calls that wait for a peer without a limit are under no obligation.  The
  dial: `ClientConfig.Timeout` covers the TCP connection and not the SSH
  handshake after it, so a silent target can hold a handler for ever;
  `TeardownFinishes` exempts a handler in `dial`, which is not registered, so
  the reaper cannot end it either.  The challenge: a client that never answers
  holds its attempt, and `LoginConcludes` exempts it.
* In `SessionRecording` one weak fairness on `Progress` covers the handler and
  the goroutines: some step that can be taken is.  A write to a user who is
  there and does not read owes nothing; it returns once the user's side is gone.
* `EndChannel` is fair only once both connections are closed: a user or a
  target that stays may keep a channel open for ever.
* `ReaperQuery` has strong fairness: the query does not fail on every poll for
  ever.  A cancelled broker exits (`ShutdownTimeout`).
* `AcquireLock` has strong fairness: PostgreSQL queues the waiters of an
  advisory lock.  Time passes in `SshLogin`.
* Users, targets, administrators, failures and crashes are under no
  obligation.

## Proofs

Every theorem has the form `Spec => []Inv`, `Spec => [][A]_v` or, for a
refinement, `Spec => Abstract!Spec`, for any value of the constants that meets
the named assumptions.  Each rests on the
`IndInv` of its module, which its run also checks.

* `BrokerSessionsProofs`.  `RegistryIsExact` alone is not inductive: it needs
  that a handler before `CreateSession` has neither row nor id, that one on its
  way through `EndSession` has an id, and that a handler with an id keeps its
  row open until it ends it.  The kill properties need that whatever the reaper
  has selected is flagged, which holds because `subject_id` is always NULL and
  flags are never lowered, and that a handler which has left its loop has no
  user.  `DoneIsAccounted` needs `TrailInv`, what the trail holds at each stage.
  The reaper writes `session.killed` long after its snapshot, so this includes
  that its victim is past registration: the event can then neither precede
  `session.start` nor fall on an empty trail.  `TrailShapes` says once what an
  append does to each shape of trail, and a set of one position has cardinality
  one.  `TrailOrder`, the part that faults cannot disturb, gives the refinement
  of `SessionLedger`: one step per action, each an abstract action or, when its
  write is lost, a stutter.
* `AuditLogProofs`.  The lock holder's head is fresh and its draft extends it
  with a larger `seq` than any committed row; so a commit extends the chain at
  its end.  The refinement follows: a commit is an abstract append, every other
  step a stutter.  `TamperEvident` follows from the order of the rows: each
  row's hash is its predecessor's with its own event appended, so an altered
  event no longer matches its own hash, and where a row is missing the next one
  continues a hash that the row before it does not have.  What `jsonb` gives back
  of an event is the event or the event without its escape (`RoundTrip`); so a row's hash is recomputed exactly or is `Garbled`.
* `SshLoginProofs`.  The decisions ever made about an attempt are exactly what
  its row says, and an attempt past `Consume` holds the subject of its own
  consumed row.  For the refinement of `OneTimeApproval`, that is why consuming,
  provisioning and admitting always find their approval on record; a step of an
  attempt changes no outcome but its own, and JIT provisioning adds at most the
  approver to the active accounts.
* `AuthorizationProofs`.  While the server's row and the subject are untouched,
  what a call has read is part of the policy, because memberships only grow; a
  grant that has applied throughout is reached through the memberships read.
  `PrivilegesAreGranted` also needs that a longest TTL exists: `TTLsStored` says
  so of every subset of the table and is kept because an edit adds at most one
  grant, so finitely many were ever made.  `QuietIsExact` needs `ReadsAreExact`:
  while nothing is edited, each query's answer still equals the table, and the
  decision computed from them is the policy's answer.
* `SessionRecordingProofs`.  The stdout copy runs only while the handler is
  proxying its channel; hence nothing it writes can follow the upload.  URL
  follows upload, deletion follows URL.  The broker closes the user's side of a
  channel only after the target has closed its own and its exit status was
  handled, and only when the stdout copy is over; so a status dropped or a chunk
  cut short was lost to a side that the user had left.
* `AdminSessionsProofs`.  A session that was handed out has its row; every
  UPDATE of a row sets one column, so a revoked or expired row stays so and a
  late request's SELECT cannot find it.  Only a request whose lookup found the
  session in time touches it, so a session that has been idle for too long, with
  no such request on its way, stays idle until it is revoked.  A touch may set
  `last_seen_at` back, since it writes the time its transaction began; that time
  lies between the login and now, because a touch begins after the row is there.
* `CertIssuerProofs`.  A certificate's window is `Seconds` of the time it was
  made, less the tolerance and plus the granted lifetime, whatever happened
  since, and a target's verdict is that of the window at the time it judged.
  What remains is arithmetic of truncation: two lemmas turn comparisons of whole
  seconds into comparisons of ticks.  They need that no clock shows a time
  before 1970 (`EpochAssumption`).  Serials of the running process are at most
  the counter, which only grows while it runs; those of earlier processes carry
  another process number.
* `IdentitiesProofs`.  Keys and memberships belong to users that exist; a
  direct grant of a user that is gone was made late, and while a deletion is
  open every grant of its user is doomed or late.  Every answer in a
  handshake's cache was true at some moment of that handshake.  A connection
  whose user was gone when its groups were read has no groups, so only a direct
  grant can match.

Seven properties are left to their proofs and listed by no run: theorems
`EndedRowsAreQuiet`, `RowsOnlyMoveForward`, `KillsAreFlagged`, `AppendOnly`,
`AtMostOneDecision`, `RequestsMoveForward` and `OutputNeedsCapability`.
`AuditIsTruthful` is a conjunct of the proved `IndInv` of `SshLogin`.

Only model-checked: liveness (`sessions_live`, `login_live`, `AppendFinishes`,
`KilledUnwinds`), which is out of this prover's reach, and the two runs that
are violated.  Every safety property of a passing run is proved.

## Not modelled

The login limiter (one function under one mutex: `AdminSessions` has only the
refusal it can cause); the permissions that tell read routes apart; password
hashing; creating groups and recertifying grants (an empty group and a review
date change no decision); the listings, configuration and the web console (no
state to go wrong); the secrets store (built, not used by any connection);
file-backed identities (immutable); the certificate's extensions and source
address (copied through); `DeleteExpiredSSHLogins` (never called); string
parsing, wording and layout everywhere.

## Plan

1. Done: `BrokerSessions`, `AuditLog` over `AuditChain`, `SshLogin`,
   `Authorization`, `SessionRecording`, `AdminSessions`, `CertIssuer` and
   `Identities`, each with runs, mutants and proofs.
2. Composition of identity, authorization and certificate in one module: a
   session runs only for an account that was active and allowed when it began,
   under a certificate of that decision.
3. Done: proofs of every safety property of the runs, and the refinements of
   `SessionLedger` and `OneTimeApproval`.
