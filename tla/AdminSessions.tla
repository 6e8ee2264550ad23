--------------------------- MODULE AdminSessions ---------------------------
(***************************************************************************)
(* Management API requests that change something, and the break-glass      *)
(* sessions some of them come with.                                        *)
(*                                                                         *)
(* A login reads the local admin, checks the password and inserts a        *)
(* session row; the cookie is handed out when that succeeded.  Every       *)
(* request passes resolvePrincipalMW (the session cookie first, then the   *)
(* proxy's headers or the bearer token), the permission guard, its handler *)
(* and auditMW.  LookupAdminSession is a SELECT followed by an UPDATE      *)
(* outside any transaction; logouts, other requests with the same cookie   *)
(* and changes of the admin come in between.  The UPDATE writes the time   *)
(* its own transaction began, so two of them may write in the other order. *)
(* Any database call may fail; a write may be committed and report an      *)
(* error all the same.                                                     *)
(*                                                                         *)
(* expires_at is written from the API's clock and compared with the        *)
(* database's; last_seen_at the other way round.                           *)
(*                                                                         *)
(* Abstracted: passwords (a login may know the right one), tokens (a       *)
(* session is its token), what the mutation is, the auth.* events, and an  *)
(* UPDATE that is applied after its client has given up waiting for it.    *)
(***************************************************************************)
EXTENDS Integers

CONSTANTS
  Admins,    \* rows of local_admins
  Sessions,  \* logins, each of which creates at most one admin_sessions row
  Requests,  \* mutating API requests
  Null,      \* no session, no role
  Idle,      \* cfg.SessionIdle, in ticks
  Absolute,  \* cfg.SessionAbsolute, in ticks
  Skews,     \* database clock minus API clock
  MaxTime    \* bound: the API clock

Roles == {"admin", "auditor"}

ASSUME NullAssumption == Null \notin Sessions /\ Null \notin Roles
ASSUME TimeAssumption ==
  Idle \in Nat \ {0} /\ Absolute \in Nat \ {0} /\ MaxTime \in Nat /\ Skews \subseteq Int

VARIABLES
  now, skew,  \* the API's clock, and how far the database's is ahead of it
  status,     \* local_admins.status
  role,       \* local_admins.role
  login,      \* where each login is in localLogin
  owner,      \* the admin each login is for
  row,        \* the admin_sessions table
  held,       \* sessions whose cookie was handed out
  pc,         \* where each request is
  cookie,     \* the session cookie it carries
  other,      \* the role its headers or bearer token give it
  who,        \* its principal's role
  via,        \* how the principal was found: "session", "other" or "none"
  stamp,      \* when the transaction began that slides its session's last_seen_at
  done,       \* requests whose mutation is committed
  vacuous,    \* history: requests answered with a 2xx that had nothing to change
  event,      \* the audit event of each request
  faulted,    \* history: requests a failed call has touched
  late        \* history: requests that arrived when their session was no good any more

adminVars == <<status, role>>
sessionVars == <<login, owner, row, held>>
requestVars == <<pc, cookie, other, who, via, stamp>>
effectVars == <<done, vacuous, event, faulted, late>>
vars == <<now, skew, adminVars, sessionVars, requestVars, effectVars>>

NoRow == [state |-> "none", expires |-> 0, seen |-> 0]

TypeOK ==
  /\ now \in Nat /\ skew \in Skews
  /\ status \in [Admins -> {"active", "disabled"}]
  /\ role \in [Admins -> Roles]
  /\ login \in [Sessions -> {"idle", "create", "over"}]
  /\ owner \in [Sessions -> Admins]
  /\ row \in [Sessions -> [state: {"none", "live", "revoked"}, expires: Int, seen: Int]]
  /\ held \subseteq Sessions
  /\ pc \in [Requests -> {"idle", "select", "touch", "update", "expire", "guard", "mutate",
                         "audit", "over"}]
  /\ cookie \in [Requests -> Sessions \cup {Null}]
  /\ other \in [Requests -> Roles \cup {Null}]
  /\ who \in [Requests -> Roles \cup {Null}]
  /\ via \in [Requests -> {"none", "session", "other"}]
  /\ stamp \in [Requests -> Int]
  /\ done \subseteq Requests /\ vacuous \subseteq Requests
  /\ event \in [Requests -> {"none", "access.denied", "api"}]
  /\ faulted \subseteq Requests /\ late \subseteq Requests

Init ==
  /\ now = 0 /\ skew \in Skews
  /\ status \in [Admins -> {"active", "disabled"}] /\ role \in [Admins -> Roles]
  /\ login = [k \in Sessions |-> "idle"] /\ owner \in [Sessions -> Admins]
  /\ row = [k \in Sessions |-> NoRow] /\ held = {}
  /\ pc = [r \in Requests |-> "idle"] /\ cookie = [r \in Requests |-> Null]
  /\ other = [r \in Requests |-> Null]
  /\ who = [r \in Requests |-> Null] /\ via = [r \in Requests |-> "none"]
  /\ stamp = [r \in Requests |-> 0]
  /\ done = {} /\ vacuous = {} /\ event = [r \in Requests |-> "none"] /\ faulted = {} /\ late = {}

DbNow == now + skew

Tick ==
  /\ now < MaxTime
  /\ now' = now + 1
  /\ UNCHANGED <<skew, adminVars, sessionVars, requestVars, effectVars>>

-----------------------------------------------------------------------------
(* Break-glass sessions *)

\* localLogin found the admin, the password was right and the status active; or
\* it answers "invalid credentials".
CheckPassword(k) ==
  /\ login[k] = "idle"
  /\ \/ status[owner[k]] = "active" /\ login' = [login EXCEPT ![k] = "create"]
     \/ login' = [login EXCEPT ![k] = "over"]
  /\ UNCHANGED <<now, skew, adminVars, owner, row, held, requestVars, effectVars>>

\* CreateAdminSession, whatever has become of the admin since; without a reply
\* no cookie is set.
CreateAdminSession(k) ==
  /\ login[k] = "create"
  /\ login' = [login EXCEPT ![k] = "over"]
  /\ LET new == [state |-> "live", expires |-> now + Absolute, seen |-> DbNow] IN
     \/ row' = [row EXCEPT ![k] = new] /\ held' \in {held, held \cup {k}}
     \/ UNCHANGED <<row, held>>
  /\ UNCHANGED <<now, skew, adminVars, owner, requestVars, effectVars>>

\* localLogout; its error is ignored, which is a request that never came.
RevokeAdminSession(k) ==
  /\ k \in held /\ row[k].state = "live"
  /\ row' = [row EXCEPT ![k].state = "revoked"]
  /\ UNCHANGED <<now, skew, adminVars, login, owner, held, requestVars, effectVars>>

\* No later request can make such a session good again.
Dead(k) == row[k].state # "live" \/ row[k].expires <= DbNow

NoGood(k) == Dead(k) \/ status[owner[k]] # "active"

\* Idle too long, with no lookup on its way that has found it in time.
Idled(k) ==
  /\ now - row[k].seen > Idle
  /\ \A r \in Requests : cookie[r] = k => pc[r] \notin {"touch", "update"}

\* Enabling an admin makes the sessions good again that are not dead or idle.
SetLocalAdminStatus(a, st) ==
  /\ status[a] # st
  /\ status' = [status EXCEPT ![a] = st]
  /\ late' = {r \in late : st = "disabled" \/ owner[cookie[r]] # a
                            \/ Dead(cookie[r]) \/ Idled(cookie[r])}
  /\ UNCHANGED <<now, skew, role, sessionVars, requestVars, done, vacuous, event, faulted>>

\* A new password or role; neither status nor sessions are touched.
UpsertLocalAdmin(a, ro) ==
  /\ role' = [role EXCEPT ![a] = ro]
  /\ UNCHANGED <<now, skew, status, sessionVars, requestVars, effectVars>>

-----------------------------------------------------------------------------
(* A request *)

Step(r, from, to) == pc[r] = from /\ pc' = [pc EXCEPT ![r] = to]

Arrive(r, k, ro) ==
  /\ Step(r, "idle", "select")
  /\ cookie' = [cookie EXCEPT ![r] = k] /\ other' = [other EXCEPT ![r] = ro]
  /\ late' = IF k # Null /\ (NoGood(k) \/ Idled(k)) THEN late \cup {r} ELSE late
  /\ UNCHANGED <<now, skew, adminVars, sessionVars, who, via, stamp, done, vacuous, event, faulted>>

\* resolvePrincipal goes on to the proxy's headers and the bearer token.
FallBack(r) ==
  /\ pc' = [pc EXCEPT ![r] = "guard"]
  /\ who' = [who EXCEPT ![r] = other[r]]
  /\ via' = [via EXCEPT ![r] = IF other[r] = Null THEN "none" ELSE "other"]

\* Mutant: the SELECT does not look at the admin's status.
Valid_NoStatus(k) == ~Dead(k)

\* The WHERE clause of LookupAdminSession.
Valid(k) == ~NoGood(k)

\* LookupAdminSession's SELECT, which joins the admin, and the idle check.
SelectSession(r) ==
  /\ pc[r] = "select" /\ cookie[r] # Null
  /\ LET k == cookie[r] IN
     /\ Valid(k)
     /\ pc' = [pc EXCEPT ![r] = IF now - row[k].seen > Idle THEN "expire" ELSE "touch"]
     /\ who' = [who EXCEPT ![r] = role[owner[k]]]
  /\ UNCHANGED <<now, skew, adminVars, sessionVars, cookie, other, via, stamp, effectVars>>

\* No cookie, no such session, or the query failed.
NoSession(r) ==
  /\ pc[r] = "select"
  /\ FallBack(r)
  /\ UNCHANGED <<now, skew, adminVars, sessionVars, cookie, other, stamp, effectVars>>

\* The idle session is revoked, its error ignored, and not used.
ExpireIdle(r) ==
  /\ pc[r] = "expire"
  /\ row' \in {row, [row EXCEPT ![cookie[r]].state = "revoked"]}
  /\ FallBack(r)
  /\ UNCHANGED <<now, skew, adminVars, login, owner, held, cookie, other, stamp, effectVars>>

\* The transaction of the UPDATE begins, and with it what now() means in it.
StartTouch(r) ==
  /\ Step(r, "touch", "update")
  /\ stamp' = [stamp EXCEPT ![r] = DbNow]
  /\ UNCHANGED <<now, skew, adminVars, sessionVars, cookie, other, who, via, effectVars>>

\* Mutants: the whole row is written back; the absolute expiry slides, too.
Touch_WriteBack(r) ==
  /\ Step(r, "update", "guard")
  /\ row' \in {row, [row EXCEPT ![cookie[r]].seen = stamp[r], ![cookie[r]].state = "live"]}
  /\ via' = [via EXCEPT ![r] = "session"] /\ stamp' = [stamp EXCEPT ![r] = 0]
  /\ UNCHANGED <<now, skew, adminVars, login, owner, held, cookie, other, who, effectVars>>
Touch_Extend(r) ==
  /\ Step(r, "update", "guard")
  /\ row' \in {row, [row EXCEPT ![cookie[r]].seen = stamp[r],
                               ![cookie[r]].expires = now + Absolute]}
  /\ via' = [via EXCEPT ![r] = "session"] /\ stamp' = [stamp EXCEPT ![r] = 0]
  /\ UNCHANGED <<now, skew, adminVars, login, owner, held, cookie, other, who, effectVars>>

\* last_seen_at is written, its error ignored; the principal is the session's.
Touch(r) ==
  /\ Step(r, "update", "guard")
  /\ row' \in {row, [row EXCEPT ![cookie[r]].seen = stamp[r]]}
  /\ via' = [via EXCEPT ![r] = "session"] /\ stamp' = [stamp EXCEPT ![r] = 0]
  /\ UNCHANGED <<now, skew, adminVars, login, owner, held, cookie, other, who, effectVars>>

Can(ro) == ro = "admin"

\* An audit append whose error is discarded.
BestEffortAudit(r, ev) ==
  \/ event' = [event EXCEPT ![r] = ev] /\ UNCHANGED faulted
  \/ faulted' = faulted \cup {r} /\ UNCHANGED event

\* require: 401 without a principal, 403 and an event without the permission.
Guard(r) ==
  /\ pc[r] = "guard"
  /\ \/ Can(who[r]) /\ pc' = [pc EXCEPT ![r] = "mutate"] /\ UNCHANGED <<event, faulted>>
     \/ ~Can(who[r]) /\ pc' = [pc EXCEPT ![r] = "over"]
        /\ IF via[r] = "none" THEN UNCHANGED <<event, faulted>>
                              ELSE BestEffortAudit(r, "access.denied")
  /\ UNCHANGED <<now, skew, adminVars, sessionVars, cookie, other, who, via, stamp, done, vacuous,
                 late>>

\* Mutant: auditMW does not look at the status code.
Mutate_AnyStatus(r) ==
  /\ pc[r] = "mutate"
  /\ \/ done' = done \cup {r} /\ UNCHANGED <<vacuous, faulted>>
     \/ vacuous' = vacuous \cup {r} /\ UNCHANGED <<done, faulted>>
     \/ done' \in {done, done \cup {r}} /\ faulted' = faulted \cup {r} /\ UNCHANGED vacuous
  /\ pc' = [pc EXCEPT ![r] = "audit"]
  /\ UNCHANGED <<now, skew, adminVars, sessionVars, cookie, other, who, via, stamp, event, late>>

\* The handler: its store call commits and is answered with a 2xx; or there is
\* nothing to change (an update without fields, an insert that conflicts), which
\* is answered with a 2xx as well; or it fails (and may be committed all the
\* same), in which case auditMW returns.
Mutate(r) ==
  /\ pc[r] = "mutate"
  /\ \/ /\ done' = done \cup {r} /\ pc' = [pc EXCEPT ![r] = "audit"]
        /\ UNCHANGED <<vacuous, faulted>>
     \/ /\ vacuous' = vacuous \cup {r} /\ pc' = [pc EXCEPT ![r] = "audit"]
        /\ UNCHANGED <<done, faulted>>
     \/ /\ done' \in {done, done \cup {r}} /\ pc' = [pc EXCEPT ![r] = "over"]
        /\ faulted' = faulted \cup {r} /\ UNCHANGED vacuous
  /\ UNCHANGED <<now, skew, adminVars, sessionVars, cookie, other, who, via, stamp, event, late>>

\* auditMW after the handler.
Audit(r) ==
  /\ Step(r, "audit", "over")
  /\ BestEffortAudit(r, "api")
  /\ UNCHANGED <<now, skew, adminVars, sessionVars, cookie, other, who, via, stamp, done, vacuous,
                 late>>

-----------------------------------------------------------------------------

Handle(r) ==
  \/ SelectSession(r) \/ NoSession(r) \/ ExpireIdle(r)
  \/ StartTouch(r) \/ Touch(r)
  \/ Guard(r) \/ Mutate(r) \/ Audit(r)

Operators ==
  \/ \E k \in Sessions : CheckPassword(k) \/ CreateAdminSession(k) \/ RevokeAdminSession(k)
  \/ \E a \in Admins : \/ \E st \in {"active", "disabled"} : SetLocalAdminStatus(a, st)
                       \/ \E ro \in Roles : UpsertLocalAdmin(a, ro)
  \/ \E r \in Requests, k \in held \cup {Null}, ro \in Roles \cup {Null} : Arrive(r, k, ro)

Next == Tick \/ Operators \/ \E r \in Requests : Handle(r)

Spec == Init /\ [][Next]_vars

-----------------------------------------------------------------------------
(* Safety *)

\* A request that arrives after its session was revoked (by a logout or by the
\* idle check of another request), has expired or has been idle for too long, or
\* while its admin is disabled, never acts for that admin, however lookups and
\* their late writes interleave; unless the admin is enabled again before its
\* lookup and nothing else is wrong with the session.
LateIsRefused == \A r \in late : via[r] # "session"

\* When a session may have been seen, on the database's clock.
SeenTimes(k) == (row[k].expires - Absolute + skew)..DbNow

\* Requests write last_seen_at late and in any order, so it may go back; yet
\* never before the login or after now, and no such write moves the expiry or
\* un-revokes the session.
RowsOnlyTighten ==
  [][\A k \in Sessions : row[k].state # "none" =>
       /\ row'[k].expires = row[k].expires
       /\ row'[k].seen \in SeenTimes(k)
       /\ row'[k].state # row[k].state => row[k].state = "live" /\ row'[k].state = "revoked"]_row

\* The trail tells of no mutation that failed and of no refusal of one that
\* happened; without a fault it tells of every mutation.  What it tells of may
\* have had nothing to change.
EventsMatch == \A r \in Requests :
  /\ event[r] = "api" => r \in done \cup vacuous
  /\ event[r] = "access.denied" => r \notin done
  /\ pc[r] = "over" /\ r \in done /\ r \notin faulted => event[r] = "api"

-----------------------------------------------------------------------------
(* The inductive invariant behind the safety properties *)

\* A late request's session is still no good or idle; its lookup cannot have
\* succeeded.
LateIsStuck == \A r \in late :
  /\ cookie[r] \in held /\ (NoGood(cookie[r]) \/ Idled(cookie[r]))
  /\ pc[r] \notin {"idle", "touch", "update"}

\* What a request has done and told at each stage.
StageMatches == \A r \in Requests :
  /\ pc[r] \in {"idle", "select", "touch", "update", "expire", "guard", "mutate"} =>
       r \notin done /\ event[r] = "none"
  /\ pc[r] \in {"idle", "select", "touch", "update", "expire"} => via[r] = "none"
  /\ pc[r] \in {"touch", "update", "expire"} =>
       cookie[r] \in Sessions /\ row[cookie[r]].state # "none"
  /\ pc[r] \in {"touch", "update"} => who[r] # Null
  /\ pc[r] = "guard" => (via[r] = "none" <=> who[r] = Null)
  /\ pc[r] \in {"mutate", "audit"} => via[r] # "none" /\ Can(who[r])
  /\ pc[r] = "audit" => r \in done \cup vacuous /\ event[r] = "none"

\* Whoever changes something has the role for it, and one of the three sources
\* said so.
MutationsArePermitted ==
  \A r \in done : via[r] # "none" /\ Can(who[r])

\* A row was last seen between its login and now, and a touch on its way will say
\* so; only a login that is over has a row, and only a session that has one is
\* handed out.
RowsAreDated ==
  /\ \A k \in Sessions :
       /\ row[k].state # "none" => login[k] = "over" /\ row[k].seen \in SeenTimes(k)
       /\ k \in held => row[k].state # "none"
  /\ \A r \in Requests : pc[r] = "update" => stamp[r] \in SeenTimes(cookie[r])

\* How lookups in progress, rows and refusals stand to each other.
IndInv ==
  /\ TypeOK /\ LateIsStuck /\ StageMatches /\ RowsAreDated
  /\ LateIsRefused /\ EventsMatch /\ MutationsArePermitted
=============================================================================
