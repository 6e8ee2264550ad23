------------------------------ MODULE SshLogin ------------------------------
(***************************************************************************)
(* Browser sign-in for SSH (ADR-021): keyboardInteractive, its database    *)
(* adapter, the ssh_login_requests table and the API's approval handlers.  *)
(*                                                                         *)
(* An attempt (one run of the keyboard-interactive callback) opens a       *)
(* pending request, shows its URL and, once the client has answered that,  *)
(* polls.  Whoever opens the URL after an SSO sign-in may approve or deny  *)
(* it, from another process.  On seeing "approved" the attempt consumes    *)
(* the request with a conditional UPDATE and resolves the recorded subject *)
(* to a broker user, creating one if JIT provisioning is on.  Its database *)
(* calls and its polling loop run under a context with a deadline; any     *)
(* error, and any answer but an active user, refuses the login.            *)
(*                                                                         *)
(* The broker writes expires_at from its own clock; PostgreSQL compares it *)
(* with its own.  The difference between the two is the variable skew.     *)
(*                                                                         *)
(* Abstracted: codes (a request is found by its attempt), source IP and    *)
(* requested target, which are only displayed and audited.                 *)
(***************************************************************************)
EXTENDS Integers

CONSTANTS
  Attempts,  \* runs of the keyboard-interactive callback
  Subjects,  \* SSO identities
  Nobody,    \* no subject recorded (entra_subject IS NULL)
  JIT,       \* cfg.JITProvision
  TTL,       \* cfg.BrowserLoginTimeout: the wait and the request's lifetime
  Skews,     \* database clock minus broker clock
  MaxTime    \* bound: the broker clock

ASSUME NobodyAssumption == Nobody \notin Subjects
ASSUME JITAssumption == JIT \in BOOLEAN
ASSUME TimeAssumption == TTL \in Nat \ {0} /\ MaxTime \in Nat /\ Skews \subseteq Int

VARIABLES
  now,       \* the broker's clock
  skew,      \* how far the database clock is ahead of it
  pc,        \* where each attempt is in keyboardInteractive
  deadline,  \* when the attempt's context expires
  who,       \* the subject Consume returned
  req,       \* the ssh_login_requests row of each attempt
  users,     \* the users table, by SSO subject
  owed,      \* decisions made whose audit append is still to come
  audit,     \* ssh.login.approved and ssh.login.denied events
  decided    \* history: <<decision, subject, attempt>> the API committed

loginVars == <<pc, deadline, who>>
auditVars == <<owed, audit>>
vars == <<now, skew, loginVars, req, users, auditVars, decided>>

Waiting == {"begin", "poll", "consume", "resolve", "create", "reread"}
PCs == Waiting \cup {"idle", "challenge", "granted", "refused"}

NoRequest == [status |-> "none", subject |-> Nobody, expires |-> 0]

\* "shadowed": no row matches the subject, but one has taken its username.
UserStates == {"absent", "shadowed", "active", "disabled"}

Decisions == {"approved", "denied"} \X Subjects \X Attempts

TypeOK ==
  /\ now \in Nat /\ skew \in Skews
  /\ pc \in [Attempts -> PCs]
  /\ deadline \in [Attempts -> Nat]
  /\ who \in [Attempts -> Subjects \cup {Nobody}]
  /\ req \in [Attempts -> [status: {"none", "pending", "approved", "denied", "consumed"},
                           subject: Subjects \cup {Nobody}, expires: Nat]]
  /\ users \in [Subjects -> UserStates]
  /\ owed \subseteq Decisions /\ audit \subseteq Decisions /\ decided \subseteq Decisions

Init ==
  /\ now = 0 /\ skew \in Skews
  /\ pc = [a \in Attempts |-> "idle"]
  /\ deadline = [a \in Attempts |-> 0]
  /\ who = [a \in Attempts |-> Nobody]
  /\ req = [a \in Attempts |-> NoRequest]
  /\ users \in [Subjects -> UserStates]
  /\ owed = {} /\ audit = {} /\ decided = {}

DbNow == now + skew

Tick == now < MaxTime /\ now' = now + 1
        /\ UNCHANGED <<skew, loginVars, req, users, auditVars, decided>>

-----------------------------------------------------------------------------
(* The SSH side *)

Step(a, from, to) == pc[a] = from /\ pc' = [pc EXCEPT ![a] = to]

\* A database call under the attempt's context can only succeed in time.
InTime(a) == now < deadline[a]

Start(a) ==
  /\ now + TTL <= MaxTime
  /\ Step(a, "idle", "begin")
  /\ deadline' = [deadline EXCEPT ![a] = now + TTL]
  /\ UNCHANGED <<now, skew, who, req, users, auditVars, decided>>

NewRequest == [status |-> "pending", subject |-> Nobody, expires |-> now + TTL]

Begin(a) ==
  /\ InTime(a)
  /\ Step(a, "begin", "challenge")
  /\ req' = [req EXCEPT ![a] = NewRequest]
  /\ UNCHANGED <<now, skew, deadline, who, users, auditVars, decided>>

\* challenge shows the URL and blocks until the client answers it or its
\* connection fails.  It does not look at the context, and its error is dropped.
Challenge(a) ==
  /\ Step(a, "challenge", "poll")
  /\ UNCHANGED <<now, skew, deadline, who, req, users, auditVars, decided>>

\* What PollSSHLogin reports: a pending request past its expiry, by the
\* broker's clock, is "expired".
PollStatus(a) ==
  IF req[a].status = "pending" /\ now > req[a].expires THEN "expired" ELSE req[a].status

\* "pending" (and any other status) keeps the loop polling.
Poll(a) ==
  /\ InTime(a)
  /\ \/ Step(a, "poll", "consume") /\ PollStatus(a) = "approved"
     \/ Step(a, "poll", "refused") /\ PollStatus(a) \in {"denied", "expired"}
  /\ UNCHANGED <<now, skew, deadline, who, req, users, auditVars, decided>>

Consumable(a) == req[a].status = "approved" /\ req[a].expires > DbNow

\* Mutant: the request is read and not marked consumed.
Consume_Unmarked(a) ==
  /\ InTime(a)
  /\ IF Consumable(a)
       THEN Step(a, "consume", "resolve") /\ who' = [who EXCEPT ![a] = req[a].subject]
       ELSE Step(a, "consume", "refused") /\ UNCHANGED who
  /\ UNCHANGED <<now, skew, deadline, req, users, auditVars, decided>>

Consume(a) ==
  /\ InTime(a)
  /\ IF Consumable(a)
       THEN /\ Step(a, "consume", "resolve")
            /\ req' = [req EXCEPT ![a].status = "consumed"]
            /\ who' = [who EXCEPT ![a] = req[a].subject]
       ELSE Step(a, "consume", "refused") /\ UNCHANGED <<req, who>>
  /\ UNCHANGED <<now, skew, deadline, users, auditVars, decided>>

\* Mutant: the account's status is not looked at.
Resolve_AnyStatus(a) ==
  /\ InTime(a)
  /\ Step(a, "resolve", IF users[who[a]] \in {"active", "disabled"} THEN "granted"
                        ELSE IF JIT THEN "create" ELSE "refused")
  /\ UNCHANGED <<now, skew, deadline, who, req, users, auditVars, decided>>

\* GetUserBySubject, the first time: an unknown subject goes on to JIT.
Resolve(a) ==
  /\ InTime(a)
  /\ Step(a, "resolve", CASE users[who[a]] = "active"   -> "granted"
                          [] users[who[a]] = "disabled" -> "refused"
                          [] OTHER -> IF JIT THEN "create" ELSE "refused")
  /\ UNCHANGED <<now, skew, deadline, who, req, users, auditVars, decided>>

\* Mutant: an upsert in place of the insert.
JITCreateUser_Upsert(a) ==
  /\ InTime(a)
  /\ Step(a, "create", "reread")
  /\ users' = [users EXCEPT ![who[a]] = "active"]
  /\ UNCHANGED <<now, skew, deadline, who, req, auditVars, decided>>

\* CreateUser: an INSERT, whose uniqueness conflict is ignored.
WithUser(s) == [users EXCEPT ![s] = IF @ = "absent" THEN "active" ELSE @]

JITCreateUser(a) ==
  /\ InTime(a)
  /\ Step(a, "create", "reread")
  /\ users' = WithUser(who[a])
  /\ UNCHANGED <<now, skew, deadline, who, req, auditVars, decided>>

\* GetUserBySubject again, whoever created the user.
Reread(a) ==
  /\ InTime(a)
  /\ Step(a, "reread", IF users[who[a]] = "active" THEN "granted" ELSE "refused")
  /\ UNCHANGED <<now, skew, deadline, who, req, users, auditVars, decided>>

\* A database call failed; a write it asked for may be committed all the same.
Fail(a) ==
  /\ pc[a] \in Waiting
  /\ pc' = [pc EXCEPT ![a] = "refused"]
  /\ \/ UNCHANGED <<req, users>>
     \/ pc[a] = "begin" /\ req' = [req EXCEPT ![a] = NewRequest] /\ UNCHANGED users
     \/ /\ pc[a] = "consume" /\ Consumable(a)
        /\ req' = [req EXCEPT ![a].status = "consumed"] /\ UNCHANGED users
     \/ pc[a] = "create" /\ users' = WithUser(who[a]) /\ UNCHANGED req
  /\ UNCHANGED <<now, skew, deadline, who, auditVars, decided>>

\* Mutant: only the polling loop looks at the context.
Timeout_PollOnly(a) ==
  /\ pc[a] = "poll"
  /\ now >= deadline[a]
  /\ pc' = [pc EXCEPT ![a] = "refused"]
  /\ UNCHANGED <<now, skew, deadline, who, req, users, auditVars, decided>>

\* The context expired: the select loop or the call in flight returns.
Timeout(a) ==
  /\ pc[a] \in Waiting
  /\ now >= deadline[a]
  /\ pc' = [pc EXCEPT ![a] = "refused"]
  /\ UNCHANGED <<now, skew, deadline, who, req, users, auditVars, decided>>

-----------------------------------------------------------------------------
(* The API side *)

\* Mutant: the UPDATE lacks "status = 'pending'".
Decide_Again(s, a, verdict) ==
  /\ req[a].status # "none" /\ req[a].expires > DbNow
  /\ req' = [req EXCEPT ![a].status = verdict, ![a].subject = s]
  /\ owed' = owed \cup {<<verdict, s, a>>}
  /\ decided' = decided \cup {<<verdict, s, a>>}
  /\ UNCHANGED <<now, skew, loginVars, users, audit>>

\* sshLoginDecision: one conditional UPDATE, which matches only a pending
\* request that has not expired by the database clock.
Decide(s, a, verdict) ==
  /\ req[a].status = "pending" /\ req[a].expires > DbNow
  /\ req' = [req EXCEPT ![a].status = verdict, ![a].subject = s]
  /\ owed' = owed \cup {<<verdict, s, a>>}
  /\ decided' = decided \cup {<<verdict, s, a>>}
  /\ UNCHANGED <<now, skew, loginVars, users, audit>>

\* The handler then appends the audit event and discards its error.
AuditDecision(d) ==
  /\ d \in owed
  /\ owed' = owed \ {d}
  /\ audit' \in {audit, audit \cup {d}}
  /\ UNCHANGED <<now, skew, loginVars, req, users, decided>>

-----------------------------------------------------------------------------
(* Administrators *)

CreateUser(s, st) ==
  /\ users[s] = "absent"
  /\ users' = [users EXCEPT ![s] = st]
  /\ UNCHANGED <<now, skew, loginVars, req, auditVars, decided>>

SetUserStatus(s, st) ==
  /\ users[s] \in {"active", "disabled"} \ {st}
  /\ users' = [users EXCEPT ![s] = st]
  /\ UNCHANGED <<now, skew, loginVars, req, auditVars, decided>>

DeleteUser(s) ==
  /\ users[s] # "absent"
  /\ users' = [users EXCEPT ![s] = "absent"]
  /\ UNCHANGED <<now, skew, loginVars, req, auditVars, decided>>

-----------------------------------------------------------------------------

Login(a) ==
  \/ Begin(a) \/ Poll(a) \/ Consume(a)
  \/ Resolve(a) \/ JITCreateUser(a) \/ Reread(a) \/ Timeout(a)

Browser ==
  \/ \E s \in Subjects, a \in Attempts, v \in {"approved", "denied"} : Decide(s, a, v)
  \/ \E d \in owed : AuditDecision(d)

Admins ==
  \E s \in Subjects :
    \/ \E st \in {"active", "disabled"} : CreateUser(s, st) \/ SetUserStatus(s, st)
    \/ DeleteUser(s)

Next ==
  \/ Tick
  \/ \E a \in Attempts : Start(a) \/ Login(a) \/ Challenge(a) \/ Fail(a)
  \/ Browser
  \/ Admins

Spec == Init /\ [][Next]_vars

\* Time passes and a running attempt keeps running.  A client owes no answer to
\* the challenge.
FairSpec == Spec /\ WF_now(Tick) /\ \A a \in Attempts : WF_vars(Login(a))

-----------------------------------------------------------------------------
(* Safety *)

\* A login is granted only to the subject who approved this very attempt; the
\* approval has been consumed, and nobody has denied the attempt.
GrantNeedsApproval ==
  \A a \in Attempts : pc[a] = "granted" =>
    /\ <<"approved", who[a], a>> \in decided
    /\ req[a].status = "consumed"
    /\ \A s \in Subjects : <<"denied", s, a>> \notin decided

\* At most one decision is ever made about an attempt, by one subject, however
\* many people open its link.
OneDecision ==
  \A d, e \in decided : d[3] = e[3] => d = e

\* The sign-in implements the one-time approval: in particular whoever is let in
\* has an active account at that very moment, however administrators' edits,
\* JIT creation, lost replies and the other attempts fall in between.
Approval == INSTANCE OneTimeApproval WITH
  used <- {a \in Attempts : req[a].status = "consumed"},
  outcome <- [a \in Attempts |-> IF pc[a] \in {"granted", "refused"} THEN pc[a] ELSE "open"],
  active <- {s \in Subjects : users[s] = "active"}
ImplementsApproval == Approval!Spec

\* Signing in never reactivates an account: only an administrator's step
\* changes a user that exists, also when JIT creation races with one.
JITOnlyCreates ==
  [][\A s \in Subjects : users[s] # users'[s] /\ users[s] # "absent" => pc' = pc]_users

\* A request moves pending -> approved or denied, approved -> consumed, and
\* keeps its lifetime and, once decided, its subject: an approval is used once.
RequestMovesForward ==
  [][\A a \in Attempts :
       LET old == req[a] new == req'[a] IN
       \/ new = old
       \/ old.status = "none" /\ new.status = "pending"
       \/ /\ old.status = "pending" /\ new.status \in {"approved", "denied"}
          /\ new.expires = old.expires
       \/ /\ old.status = "approved"
          /\ new = [old EXCEPT !.status = "consumed"]]_req

\* The audit log reports no decision that was not made.
AuditIsTruthful == audit \cup owed \subseteq decided

-----------------------------------------------------------------------------
(* The inductive invariant behind the safety properties *)

\* The decisions ever made about an attempt are exactly what its row records.
DecisionsMatch == \A a \in Attempts :
  /\ req[a].status \in {"none", "pending"} => \A d \in decided : d[3] # a
  /\ req[a].status \in {"approved", "consumed"} =>
       /\ <<"approved", req[a].subject, a>> \in decided
       /\ \A d \in decided : d[3] = a => d = <<"approved", req[a].subject, a>>
  /\ req[a].status = "denied" =>
       \A d \in decided : d[3] = a => d = <<"denied", req[a].subject, a>>

\* An attempt has no row before Begin, and past Consume it has consumed its own
\* row and holds the subject recorded there.
StageMatches == \A a \in Attempts :
  /\ pc[a] \in {"idle", "begin"} => req[a] = NoRequest
  /\ pc[a] \in {"resolve", "create", "reread", "granted"} =>
       req[a].status = "consumed" /\ who[a] = req[a].subject

\* What ties an attempt, its row and the decisions together at every step.
IndInv == TypeOK /\ DecisionsMatch /\ StageMatches /\ AuditIsTruthful

-----------------------------------------------------------------------------
(* Liveness *)

\* No attempt hangs in the database or in its polling loop: whatever the browser
\* does it is granted or refused, except while the client has yet to answer the
\* challenge, for which keyboardInteractive waits without its deadline.  Once
\* answered, however late, the attempt never waits for the client again.
LoginConcludes ==
  \A a \in Attempts : pc[a] \in Waiting ~> pc[a] \in {"granted", "refused", "challenge"}
=============================================================================
