--------------------------- MODULE BrokerSessions ---------------------------
(***************************************************************************)
(* The life of a brokered SSH session, and the reaper that can end it.     *)
(*                                                                         *)
(* One handler goroutine per SSH connection (proxy.Server.handleConn)      *)
(* authenticates a subject, authorizes and dials the target, writes a      *)
(* sessions row and a session.start audit event, puts itself in the        *)
(* in-memory registry, proxies session channels until the user connection  *)
(* closes, and then ends the row, appends session.end and unregisters.     *)
(* The revocation reaper (runReaper) lists the registry, asks PostgreSQL   *)
(* which of those sessions must die, kills them and audits each kill.  The *)
(* management API and the admin CLI only write to the database: they flag  *)
(* a session row or change an account's status.                            *)
(*                                                                         *)
(* Every database call may fail without effect; an INSERT or UPDATE may    *)
(* also commit and lose its reply.  The broker may be shut down (its       *)
(* context is cancelled, then the process exits) or crash, and restart.    *)
(*                                                                         *)
(* Abstracted: the identity's type and label, hosts, principals, byte      *)
(* counts and exit codes.  The session id is the connection itself (a      *)
(* handler creates at most one row).  Recording changes no control here    *)
(* (a failure is only logged) and is not part of this module.              *)
(***************************************************************************)
EXTENDS Naturals, Sequences, FiniteSets

CONSTANTS
  Conns,      \* SSH connections; each is handled once
  Accounts,   \* users and service accounts
  Null,       \* the SQL NULL in sessions.subject_id
  MaxKilled   \* bound: session.killed events kept per session

ASSUME NullAssumption == Null \notin Accounts \cup Conns
ASSUME MaxKilledAssumption == MaxKilled \in Nat

VARIABLES
  broker,     \* "up", "draining" (context cancelled) or "down"
  pc,         \* where each handler is in handleConn
  subject,    \* the authenticated identity of each connection
  sid,        \* connections whose handler holds a non-empty sessionID
  userOpen,   \* the user-side SSH connection is open
  targetOpen, \* the target-side SSH connection is open
  registry,   \* keys of sessionRegistry.m
  rows,       \* the sessions table
  trail,      \* audit events about each connection, oldest first
  status,     \* users.status and service_accounts.status
  reaper,     \* the reaper's program counter and locals
  faulted     \* history: connections a database or broker fault has touched

connVars == <<userOpen, targetOpen>>
dbVars   == <<rows, trail, status>>
vars == <<broker, pc, subject, sid, connVars, registry, dbVars, reaper, faulted>>

-----------------------------------------------------------------------------
(* Values *)

\* Stages of handleConn.  "gone": the process died under the handler.
PCs == {"idle", "setup", "dial", "rejected", "start", "startAudit",
        "register", "serving", "proxying", "ending", "endAudit", "cleanup", "remove",
        "done", "gone"}

\* The stages between sessions.add and the deferred sessions.remove.
RegisteredPCs == {"serving", "proxying", "ending", "endAudit", "cleanup", "remove"}

RejectEvents == {"session.rejected", "authz.denied", "target.unreachable"}
Events == RejectEvents \cup {"session.start", "session.end", "session.killed"}

NoRow == [state |-> "none", subject |-> Null, terminate |-> FALSE]

\* The columns StartSession gives CreateSession: SubjectID is never set, so
\* sessions.subject_id is NULL whoever the session belongs to.
SessionStart(c) == [state |-> "open", subject |-> Null, terminate |-> FALSE]

Rows == [state: {"none", "open", "ended"}, subject: Accounts \cup {Null},
         terminate: BOOLEAN]

IdleReaper == [pc |-> "idle", ids |-> {}, doomed |-> {}, victim |-> Null]

TypeOK ==
  /\ broker \in {"up", "draining", "down"}
  /\ pc \in [Conns -> PCs]
  /\ subject \in [Conns -> Accounts \cup {Null}]
  /\ sid \subseteq Conns
  /\ userOpen \in [Conns -> BOOLEAN]
  /\ targetOpen \in [Conns -> BOOLEAN]
  /\ registry \subseteq Conns
  /\ rows \in [Conns -> Rows]
  /\ trail \in [Conns -> Seq(Events)]
  /\ status \in [Accounts -> {"active", "disabled"}]
  /\ reaper \in [pc: {"idle", "query", "kill", "audit"}, ids: SUBSET Conns,
                 doomed: SUBSET Conns, victim: Conns \cup {Null}]
  /\ faulted \subseteq Conns

Init ==
  /\ broker = "up"
  /\ pc = [c \in Conns |-> "idle"]
  /\ subject = [c \in Conns |-> Null]
  /\ sid = {}
  /\ userOpen = [c \in Conns |-> FALSE]
  /\ targetOpen = [c \in Conns |-> FALSE]
  /\ registry = {}
  /\ rows = [c \in Conns |-> NoRow]
  /\ trail = [c \in Conns |-> <<>>]
  /\ status \in [Accounts -> {"active", "disabled"}]
  /\ reaper = IdleReaper
  /\ faulted = {}

-----------------------------------------------------------------------------
(* Helpers *)

Step(c, from, to) == pc[c] = from /\ pc' = [pc EXCEPT ![c] = to]

HasEvent(c, ev) == \E i \in 1..Len(trail[c]) : trail[c][i] = ev
EventCount(c, ev) == Cardinality({i \in 1..Len(trail[c]) : trail[c][i] = ev})

Log(c, ev) == trail' = [trail EXCEPT ![c] = Append(@, ev)]

\* An AppendAudit whose error the caller only logs.  It needs a live context.
BestEffortAudit(c, ev) ==
  \/ broker = "up" /\ Log(c, ev) /\ UNCHANGED faulted
  \/ faulted' = faulted \cup {c} /\ UNCHANGED trail

-----------------------------------------------------------------------------
(* The connection handler, handleConn *)

\* The handshake authenticated account a: its key (or browser approval) is
\* accepted only while the account is active.  A handshake begun before a
\* shutdown may still complete: its lookups do not use the cancelled context.
Authenticate(c, a) ==
  /\ broker # "down"
  /\ Step(c, "idle", "setup")
  /\ status[a] = "active"
  /\ subject' = [subject EXCEPT ![c] = a]
  /\ userOpen' = [userOpen EXCEPT ![c] = TRUE]
  /\ UNCHANGED <<broker, sid, targetOpen, registry, dbVars, reaper, faulted>>

\* Authorize allowed the target: its queries need a live context.
Authorize(c) ==
  /\ broker = "up"
  /\ Step(c, "setup", "dial")
  /\ UNCHANGED <<broker, subject, sid, connVars, registry, dbVars, reaper, faulted>>

\* ParseTarget, Authorize or connectTarget failed: setupErr is set and the
\* reason audited; the loop below only answers channels with the notice.
Reject(c) ==
  /\ \/ /\ Step(c, "setup", "rejected")
        /\ \E ev \in {"session.rejected", "authz.denied"} : BestEffortAudit(c, ev)
     \/ /\ Step(c, "dial", "rejected")
        /\ BestEffortAudit(c, "target.unreachable")
  /\ UNCHANGED <<broker, subject, sid, connVars, registry, rows, status, reaper>>

\* connectTarget reached the target; its dial does not look at the context.
ConnectTarget(c) ==
  /\ Step(c, "dial", "start")
  /\ targetOpen' = [targetOpen EXCEPT ![c] = TRUE]
  /\ UNCHANGED <<broker, subject, sid, userOpen, registry, dbVars, reaper, faulted>>

\* StartSession, first half: the INSERT returned an id.
CreateSession(c) ==
  /\ broker = "up"
  /\ Step(c, "start", "startAudit")
  /\ rows' = [rows EXCEPT ![c] = SessionStart(c)]
  /\ sid' = sid \cup {c}
  /\ UNCHANGED <<broker, subject, connVars, registry, trail, status, reaper, faulted>>

\* Mutant: the error of StartSession is not looked at.
CreateSessionError_Unchecked(c) ==
  /\ Step(c, "start", "register")
  /\ faulted' = faulted \cup {c}
  /\ UNCHANGED <<broker, subject, sid, connVars, registry, dbVars, reaper>>

\* The INSERT reported an error (its row may exist all the same): the error is
\* logged, sessionID stays "" and the session is proxied unregistered.
CreateSessionError(c) ==
  /\ Step(c, "start", "serving")
  /\ \/ UNCHANGED rows
     \/ broker = "up" /\ rows' = [rows EXCEPT ![c] = SessionStart(c)]
  /\ faulted' = faulted \cup {c}
  /\ UNCHANGED <<broker, subject, sid, connVars, registry, trail, status, reaper>>

\* StartSession, second half: session.start, whose failure is only logged.
AuditStart(c) ==
  /\ Step(c, "startAudit", "register")
  /\ BestEffortAudit(c, "session.start")
  /\ UNCHANGED <<broker, subject, sid, connVars, registry, rows, status, reaper>>

Register(c) ==
  /\ Step(c, "register", "serving")
  /\ registry' = registry \cup {c}
  /\ UNCHANGED <<broker, subject, sid, connVars, dbVars, reaper, faulted>>

\* A session channel arrives and both of its ends are opened.
OpenChannel(c) ==
  /\ Step(c, "serving", "proxying")
  /\ userOpen[c] /\ targetOpen[c]
  /\ UNCHANGED <<broker, subject, sid, connVars, registry, dbVars, reaper, faulted>>

\* proxySession returned: both copy loops have met the end of their stream.
EndChannel(c) ==
  /\ Step(c, "proxying", "serving")
  /\ UNCHANGED <<broker, subject, sid, connVars, registry, dbVars, reaper, faulted>>

\* Mutants: the row is not ended; a session without an id is never let go.
LeaveLoop_SkipEnd(c) ==
  /\ ~userOpen[c]
  /\ Step(c, "serving", "cleanup") \/ Step(c, "rejected", "done")
  /\ UNCHANGED <<broker, subject, sid, connVars, registry, dbVars, reaper, faulted>>
LeaveLoop_IdOnly(c) ==
  /\ ~userOpen[c] /\ c \in sid
  /\ Step(c, "serving", "ending") \/ Step(c, "rejected", "done")
  /\ UNCHANGED <<broker, subject, sid, connVars, registry, dbVars, reaper, faulted>>

\* The channel loop ends only when the user connection is gone.
LeaveLoop(c) ==
  /\ ~userOpen[c]
  /\ \/ Step(c, "serving", IF c \in sid THEN "ending" ELSE "cleanup")
     \/ Step(c, "rejected", "done")
  /\ UNCHANGED <<broker, subject, sid, connVars, registry, dbVars, reaper, faulted>>

\* Mutant: session.end is not appended.
EndSession_NoAudit(c) ==
  /\ broker = "up"
  /\ Step(c, "ending", "cleanup")
  /\ rows' = [rows EXCEPT ![c].state = "ended"]
  /\ UNCHANGED <<broker, subject, sid, connVars, registry, trail, status, reaper, faulted>>

\* EndSession, first half: the UPDATE that sets ended_at.
EndSession(c) ==
  /\ broker = "up"
  /\ Step(c, "ending", "endAudit")
  /\ rows' = [rows EXCEPT ![c].state = "ended"]
  /\ UNCHANGED <<broker, subject, sid, connVars, registry, trail, status, reaper, faulted>>

\* The UPDATE reported an error: EndSession returns it and nothing retries.
EndSessionError(c) ==
  /\ Step(c, "ending", "cleanup")
  /\ \/ UNCHANGED rows
     \/ broker = "up" /\ rows' = [rows EXCEPT ![c].state = "ended"]
  /\ faulted' = faulted \cup {c}
  /\ UNCHANGED <<broker, subject, sid, connVars, registry, trail, status, reaper>>

\* EndSession, second half: session.end.
AuditEnd(c) ==
  /\ Step(c, "endAudit", "cleanup")
  /\ BestEffortAudit(c, "session.end")
  /\ UNCHANGED <<broker, subject, sid, connVars, registry, rows, status, reaper>>

\* The deferred calls run last-in first-out: target.Close ...
CloseTarget(c) ==
  /\ Step(c, "cleanup", "remove")
  /\ targetOpen' = [targetOpen EXCEPT ![c] = FALSE]
  /\ UNCHANGED <<broker, subject, sid, userOpen, registry, dbVars, reaper, faulted>>

\* Mutant: the deferred sessions.remove is missing.
Unregister_Forgotten(c) ==
  /\ Step(c, "remove", "done")
  /\ UNCHANGED <<broker, subject, sid, connVars, registry, dbVars, reaper, faulted>>

\* ... then sessions.remove (the user connection is already closed).
Unregister(c) ==
  /\ Step(c, "remove", "done")
  /\ registry' = registry \ {c}
  /\ UNCHANGED <<broker, subject, sid, connVars, dbVars, reaper, faulted>>

-----------------------------------------------------------------------------
(* The peers of a connection *)

UserDisconnect(c) ==
  /\ userOpen[c]
  /\ userOpen' = [userOpen EXCEPT ![c] = FALSE]
  /\ UNCHANGED <<broker, pc, subject, sid, targetOpen, registry, dbVars, reaper, faulted>>

TargetDrop(c) ==
  /\ targetOpen[c]
  /\ targetOpen' = [targetOpen EXCEPT ![c] = FALSE]
  /\ UNCHANGED <<broker, pc, subject, sid, userOpen, registry, dbVars, reaper, faulted>>

-----------------------------------------------------------------------------
(* Administrators: the API and the CLI write rows, never the broker's memory *)

\* RequestSessionTermination matches only a row that has not ended.
RequestTermination(c) ==
  /\ rows[c].state = "open"
  /\ rows' = [rows EXCEPT ![c].terminate = TRUE]
  /\ UNCHANGED <<broker, pc, subject, sid, connVars, registry, trail, status, reaper, faulted>>

SetAccountStatus(a, st) ==
  /\ status[a] # st
  /\ status' = [status EXCEPT ![a] = st]
  /\ UNCHANGED <<broker, pc, subject, sid, connVars, registry, rows, trail, reaper, faulted>>

-----------------------------------------------------------------------------
(* The revocation reaper, runReaper *)

\* A tick with live sessions takes a snapshot of the registry.
ReaperTick ==
  /\ broker = "up"
  /\ reaper.pc = "idle"
  /\ registry # {}
  /\ reaper' = [reaper EXCEPT !.pc = "query", !.ids = registry]
  /\ UNCHANGED <<broker, pc, subject, sid, connVars, registry, dbVars, faulted>>

SubjectDisabled(c) ==
  /\ rows[c].subject \in Accounts
  /\ status[rows[c].subject] = "disabled"

\* Mutants: every open session is doomed; the flag is not looked at.
SessionsToTerminate_All(given) == {c \in given : rows[c].state = "open"}
SessionsToTerminate_NoFlag(given) ==
  {c \in given : rows[c].state = "open" /\ SubjectDisabled(c)}

\* The query: of the given ids, the rows that have not ended and are flagged
\* or whose subject_id joins a disabled account (NULL joins nothing).
SessionsToTerminate(given) ==
  {c \in given : rows[c].state = "open" /\ (rows[c].terminate \/ SubjectDisabled(c))}

ReaperQuery ==
  /\ broker = "up"
  /\ reaper.pc = "query"
  /\ reaper' = [reaper EXCEPT !.pc = "kill", !.doomed = SessionsToTerminate(reaper.ids)]
  /\ UNCHANGED <<broker, pc, subject, sid, connVars, registry, dbVars, faulted>>

\* The query failed or timed out: the tick is abandoned.
ReaperQueryError ==
  /\ reaper.pc = "query"
  /\ reaper' = IdleReaper
  /\ UNCHANGED <<broker, pc, subject, sid, connVars, registry, dbVars, faulted>>

\* Mutant: the close function closes the user connection only.
ReaperKill_UserOnly(c) ==
  /\ reaper.pc = "kill"
  /\ c \in reaper.doomed
  /\ c \in registry
  /\ userOpen' = [userOpen EXCEPT ![c] = FALSE]
  /\ reaper' = [reaper EXCEPT !.pc = "audit", !.victim = c, !.doomed = @ \ {c}]
  /\ UNCHANGED <<broker, pc, subject, sid, targetOpen, registry, dbVars, faulted>>

\* Kill(id) found the session: its close function closes both connections.
ReaperKill(c) ==
  /\ reaper.pc = "kill"
  /\ c \in reaper.doomed
  /\ c \in registry
  /\ userOpen' = [userOpen EXCEPT ![c] = FALSE]
  /\ targetOpen' = [targetOpen EXCEPT ![c] = FALSE]
  /\ reaper' = [reaper EXCEPT !.pc = "audit", !.victim = c, !.doomed = @ \ {c}]
  /\ UNCHANGED <<broker, pc, subject, sid, registry, dbVars, faulted>>

\* Kill(id) found nothing: the session was removed since the snapshot.
ReaperMiss(c) ==
  /\ reaper.pc = "kill"
  /\ c \in reaper.doomed
  /\ c \notin registry
  /\ reaper' = [reaper EXCEPT !.doomed = @ \ {c}]
  /\ UNCHANGED <<broker, pc, subject, sid, connVars, registry, dbVars, faulted>>

\* session.killed is appended after the kill, its error discarded; again at the
\* next poll when the session is still registered and its row still open.
ReaperAudit ==
  /\ reaper.pc = "audit"
  /\ \/ broker = "up" /\ EventCount(reaper.victim, "session.killed") < MaxKilled
        /\ Log(reaper.victim, "session.killed")
     \/ UNCHANGED trail
  /\ reaper' = [reaper EXCEPT !.pc = "kill", !.victim = Null]
  /\ UNCHANGED <<broker, pc, subject, sid, connVars, registry, rows, status, faulted>>

ReaperDone ==
  /\ reaper.pc = "kill"
  /\ reaper.doomed = {}
  /\ reaper' = IdleReaper
  /\ UNCHANGED <<broker, pc, subject, sid, connVars, registry, dbVars, faulted>>

-----------------------------------------------------------------------------
(* The broker process *)

\* SIGINT or SIGTERM cancels the context every handler and the reaper share.
Shutdown ==
  /\ broker = "up"
  /\ broker' = "draining"
  /\ UNCHANGED <<pc, subject, sid, connVars, registry, dbVars, reaper, faulted>>

InProgress(c) == pc[c] \notin {"idle", "done", "gone"}

\* The process ends: run returns without waiting for handlers, or it crashes.
\* Everything in memory and every connection is lost; the database is not.
Exit ==
  /\ broker # "down"
  /\ broker' = "down"
  /\ pc' = [c \in Conns |-> IF InProgress(c) THEN "gone" ELSE pc[c]]
  /\ faulted' = faulted \cup {c \in Conns : InProgress(c)}
  /\ sid' = {}
  /\ registry' = {}
  /\ userOpen' = [c \in Conns |-> FALSE]
  /\ targetOpen' = [c \in Conns |-> FALSE]
  /\ reaper' = IdleReaper
  /\ UNCHANGED <<subject, dbVars>>

Restart ==
  /\ broker = "down"
  /\ broker' = "up"
  /\ UNCHANGED <<pc, subject, sid, connVars, registry, dbVars, reaper, faulted>>

-----------------------------------------------------------------------------
(* The specification *)

\* What a handler does by itself, whatever its peers do.
Handler(c) ==
  \/ Authorize(c) \/ Reject(c) \/ ConnectTarget(c)
  \/ CreateSession(c) \/ CreateSessionError(c) \/ AuditStart(c) \/ Register(c)
  \/ LeaveLoop(c)
  \/ EndSession(c) \/ EndSessionError(c) \/ AuditEnd(c)
  \/ CloseTarget(c) \/ Unregister(c)

Peers(c) ==
  \/ \E a \in Accounts : Authenticate(c, a)
  \/ OpenChannel(c) \/ EndChannel(c)
  \/ UserDisconnect(c) \/ TargetDrop(c)

Admins ==
  \/ \E c \in Conns : RequestTermination(c)
  \/ \E a \in Accounts, st \in {"active", "disabled"} : SetAccountStatus(a, st)

ReaperLoop ==
  \/ \E c \in Conns : ReaperKill(c) \/ ReaperMiss(c)
  \/ ReaperAudit
  \/ ReaperDone

Reaper == ReaperTick \/ ReaperQuery \/ ReaperQueryError \/ ReaperLoop

Process == Shutdown \/ Exit \/ Restart

Next ==
  \/ \E c \in Conns : Handler(c) \/ Peers(c)
  \/ Admins
  \/ Reaper
  \/ Process

Spec == Init /\ [][Next]_vars

\* A handler and the reaper keep running, except that a target which accepts the
\* TCP connection and says nothing holds ssh.Dial for ever: its Timeout is over
\* by then; a proxied channel unwinds once both of its connections are closed; the
\* reaper's query does not fail on every poll for ever; a cancelled broker
\* exits.  Users, targets, administrators and crashes owe nothing.
Fairness ==
  /\ \A c \in Conns : WF_vars(Handler(c) /\ pc[c] # "dial")
  /\ \A c \in Conns : WF_vars(EndChannel(c) /\ ~userOpen[c] /\ ~targetOpen[c])
  /\ WF_vars(ReaperTick)
  /\ SF_vars(ReaperQuery)
  /\ WF_vars(ReaperLoop)
  /\ WF_vars(broker = "draining" /\ Exit)

FairSpec == Spec /\ Fairness

-----------------------------------------------------------------------------
(* Safety *)

\* The registry holds exactly the sessions that have an id and whose handler
\* is between sessions.add and sessions.remove: whatever order handlers, kills
\* and restarts take, no proxied session with an id escapes the reaper and no
\* dead one lingers.
RegistryIsExact ==
  registry = {c \in sid : pc[c] \in RegisteredPCs}

\* The reaper audits session.killed only for a session an administrator
\* flagged, although it acts on a query result that may be stale.
KilledWasFlagged ==
  \A c \in Conns : HasEvent(c, "session.killed") => rows[c].terminate

\* The handlers, the reaper and the administrators, none of which waits for
\* another, together keep the ledger: whatever is lost, no session is started or
\* ended twice, and no event is recorded before its time or for a session it is
\* not true of.  session.killed may be repeated: kill leaves the session in the
\* registry, so one that is still tearing down is killed again at the next poll.
Ledger == INSTANCE SessionLedger WITH
  row <- [c \in Conns |-> rows[c].state],
  flagged <- {c \in Conns : rows[c].terminate},
  user <- {c \in Conns : userOpen[c]},
  target <- {c \in Conns : targetOpen[c]},
  log <- trail
ImplementsLedger == Ledger!Spec

\* A session.killed event means the session is really cut off: both of its
\* connections are closed and no later step of its handler reopens one.
KilledIsCutOff ==
  \A c \in Conns : HasEvent(c, "session.killed") => ~userOpen[c] /\ ~targetOpen[c]

\* A row with ended_at set has no user attached and is not being proxied.
EndedIsQuiet ==
  \A c \in Conns : rows[c].state = "ended" =>
      ~userOpen[c] /\ pc[c] \in {"endAudit", "cleanup", "remove", "done", "gone"}

\* A session no fault touched is fully accounted for once its handler is done:
\* either it was refused, with exactly one refusal event and no row, or its
\* row has ended and it has exactly one session.start and one session.end.
Accounted(c) ==
  \/ /\ rows[c].state = "none"
     /\ Len(trail[c]) = 1 /\ trail[c][1] \in RejectEvents
  \/ /\ rows[c].state = "ended"
     /\ EventCount(c, "session.start") = 1 /\ EventCount(c, "session.end") = 1
     /\ trail[c][1] = "session.start"

DoneIsAccounted ==
  \A c \in Conns : pc[c] = "done" /\ c \notin faulted => Accounted(c)

\* A row still open although its handler has finished, or the process running
\* it has died, is the mark of a fault: nothing else leaves a row open.
OrphanNeedsFault ==
  \A c \in Conns :
    rows[c].state = "open" /\ pc[c] \in {"done", "gone"} => c \in faulted

\* A row is created open, ends once, keeps its subject, and keeps a
\* termination flag, which can only be raised while it is open.
RowStepForward(c) ==
  \/ rows[c].state = "none" /\ rows'[c] = SessionStart(c)
  \/ rows[c].state = "open" /\ rows'[c] = [rows[c] EXCEPT !.state = "ended"]
  \/ rows[c].state = "open" /\ rows'[c] = [rows[c] EXCEPT !.terminate = TRUE]
  \/ rows'[c] = rows[c]
RowsMoveForward == [][\A c \in Conns : RowStepForward(c)]_rows

-----------------------------------------------------------------------------
(* The inductive invariant behind the safety properties *)

\* Before CreateSession there is no row and no id; a handler that goes through
\* EndSession has an id, and its row is open until then.
Early == {"idle", "setup", "dial", "rejected", "start"}
EarlyIsBlank == \A c \in Conns : pc[c] \in Early => rows[c] = NoRow /\ c \notin sid
IdHeld == \A c \in Conns :
  pc[c] \in {"startAudit", "register", "ending", "endAudit"} => c \in sid
OpenUntilEnd == \A c \in Conns :
  c \in sid /\ pc[c] \in {"startAudit", "register", "serving", "proxying", "ending"}
    => rows[c].state = "open"

\* A handler leaves the channel loop only without a user.
Late == {"ending", "endAudit", "cleanup", "remove", "done", "gone"}
LateIsDetached == \A c \in Conns : pc[c] \in Late => ~userOpen[c]

\* An open row that no handler will end any more.
Stranded(c) == /\ rows[c].state = "open"
               /\ c \notin sid \/ pc[c] \in {"endAudit", "cleanup", "remove", "done", "gone"}
StrandedIsFaulted == \A c \in Conns : Stranded(c) => c \in faulted

\* What the reaper is about to kill is flagged (subject_id joins nobody), and
\* what it has just killed is cut off.
ReaperJustified ==
  /\ \A c \in Conns : rows[c].subject = Null
  /\ \A c \in reaper.doomed : rows[c].terminate
  /\ reaper.pc = "audit" =>
       /\ reaper.victim \in Conns
       /\ rows[reaper.victim].terminate
       /\ ~userOpen[reaper.victim] /\ ~targetOpen[reaper.victim]

\* The shapes a session's trail goes through: refused; begun, with one
\* session.start and it first; and, once it has ended, one session.end.
Refused(t) == Len(t) = 1 /\ t[1] \in RejectEvents
Begun(t) == Len(t) >= 1 /\ \A i \in 1..Len(t) : t[i] = "session.start" <=> i = 1
Unclosed(t) == \A i \in 1..Len(t) : t[i] # "session.end"
Closed(t) == \E j \in 1..Len(t) : \A i \in 1..Len(t) : t[i] = "session.end" <=> i = j

\* The trail at each stage: what a fault leaves of its order, and what it
\* holds of a handler that no fault has touched.
TrailOrder(c) ==
  /\ pc[c] \in {"idle", "setup", "dial", "start", "startAudit"} => trail[c] = <<>>
  /\ pc[c] \in {"register", "serving", "proxying", "ending", "endAudit"} => Unclosed(trail[c])
  /\ pc[c] = "endAudit" => rows[c].state = "ended"
TrailComplete(c) ==
  /\ pc[c] = "rejected" => Refused(trail[c])
  /\ pc[c] \in {"register", "serving", "proxying", "ending", "endAudit"} =>
       c \in sid /\ Begun(trail[c])
  /\ pc[c] \in {"cleanup", "remove"} =>
       rows[c].state = "ended" /\ Begun(trail[c]) /\ Closed(trail[c])
  /\ pc[c] = "done" =>
       \/ rows[c].state = "none" /\ Refused(trail[c])
       \/ rows[c].state = "ended" /\ Begun(trail[c]) /\ Closed(trail[c])
TrailFits(c) == TrailOrder(c) /\ (c \notin faulted => TrailComplete(c))

\* Only a row that was created is flagged, and the session the reaper is about
\* to audit was registered: its session.start is already behind it.
TrailInv ==
  /\ \A c \in Conns : TrailFits(c)
  /\ \A c \in Conns : rows[c].state = "none" => ~rows[c].terminate
  /\ reaper.pc = "audit" => pc[reaper.victim] \notin {"startAudit", "register"}

\* How handlers, rows and the reaper relate in every reachable state.
HandlerInv ==
  /\ EarlyIsBlank /\ IdHeld /\ OpenUntilEnd /\ LateIsDetached /\ StrandedIsFaulted
  /\ EndedIsQuiet /\ RegistryIsExact
KillInv == ReaperJustified /\ KilledWasFlagged /\ KilledIsCutOff
IndInv == TypeOK /\ HandlerInv /\ KillInv /\ TrailInv

-----------------------------------------------------------------------------
(* Liveness, under FairSpec *)

Attached(c) == userOpen[c] \/ targetOpen[c]

\* A session that is flagged for termination and whose handler knows its id is
\* eventually cut off, even if its user and its target never let go.
TerminationTakesEffect ==
  \A c \in Conns : (c \in sid /\ rows[c].terminate) ~> ~Attached(c)

\* A handler whose connections are both closed finishes (or dies with the
\* broker): teardown cannot hang on the registry, the database or the reaper.
\* Only a dial that never returns holds it; once it does, this holds again.
TeardownFinishes ==
  \A c \in Conns : (InProgress(c) /\ ~Attached(c)) ~> (~InProgress(c) \/ pc[c] = "dial")

\* "disable kills live sessions": a session of an account that is disabled,
\* and stays so, is eventually cut off.
DisableKillsSessions ==
  \A c \in Conns, a \in Accounts :
    (c \in sid /\ subject[c] = a /\ status[a] = "disabled")
      ~> (~Attached(c) \/ status[a] = "active")

=============================================================================
