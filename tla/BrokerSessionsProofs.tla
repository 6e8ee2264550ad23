------------------------ MODULE BrokerSessionsProofs ------------------------
(***************************************************************************)
(* Safety of BrokerSessions for any set of connections and accounts.       *)
(*                                                                         *)
(* The inductive invariant IndInv relates three views of a session that no *)
(* lock ties together: the handler's program counter, the database row and *)
(* the reaper's locals.  HandlerInv says which stages have a row, an id and *)
(* a user; KillInv says that everything the reaper holds, fresh or stale,  *)
(* is flagged in the database, that a flagged session is past the stages   *)
(* that open connections, and hence that a kill is final; TrailInv says    *)
(* what the audit trail holds at each stage of a handler that no fault has *)
(* touched, the reaper's late session.killed included.                     *)
(***************************************************************************)
EXTENDS BrokerSessions, FiniteSetTheorems, TLAPS

\* An audit append keeps the trail well typed.
LEMMA LogType ==
  ASSUME TypeOK, NEW c, NEW ev \in Events, Log(c, ev)
  PROVE  trail' \in [Conns -> Seq(Events)]
<1>1. CASE c \in Conns
  <2>1. trail[c] \in Seq(Events)
    BY <1>1 DEF TypeOK
  <2>2. Append(trail[c], ev) \in Seq(Events)
    BY <2>1
  <2> QED
    BY <2>2 DEF Log, TypeOK
<1>2. CASE c \notin Conns
  BY <1>2 DEF Log, TypeOK
<1> QED
  BY <1>1, <1>2

\* An append adds its own event to its own session and nothing else.
LEMMA LogEvents ==
  ASSUME TypeOK, NEW c \in Conns, NEW ev, Log(c, ev),
         NEW d \in Conns, NEW k, HasEvent(d, k)'
  PROVE  HasEvent(d, k) \/ (d = c /\ k = ev)
<1>1. trail[d] \in Seq(Events) /\ trail[c] \in Seq(Events)
  BY DEF TypeOK
<1>2. PICK i \in 1..Len(trail'[d]) : trail'[d][i] = k
  BY DEF HasEvent
<1>3. CASE d # c
  <2>1. trail'[d] = trail[d]
    BY <1>3 DEF Log, TypeOK
  <2> QED
    BY <1>2, <2>1 DEF HasEvent
<1>4. CASE d = c
  <2>1. trail'[d] = Append(trail[d], ev)
    BY <1>4 DEF Log, TypeOK
  <2>2. CASE i = Len(trail[d]) + 1
    BY <1>1, <1>2, <1>4, <2>1, <2>2
  <2>3. CASE i \in 1..Len(trail[d])
    BY <1>1, <1>2, <2>1, <2>3 DEF HasEvent
  <2> QED
    BY <1>1, <1>2, <2>1, <2>2, <2>3
<1> QED
  BY <1>3, <1>4

\* Handlers never write session.killed.
LEMMA BestEffortEvents ==
  ASSUME TypeOK, NEW c \in Conns, NEW ev, BestEffortAudit(c, ev), ev # "session.killed",
         NEW d \in Conns, HasEvent(d, "session.killed")'
  PROVE  HasEvent(d, "session.killed")
<1>1. CASE Log(c, ev)
  BY <1>1, LogEvents
<1>2. CASE UNCHANGED trail
  BY <1>2 DEF HasEvent
<1> QED
  BY <1>1, <1>2 DEF BestEffortAudit

\* A best-effort append keeps trail and history well typed.
LEMMA BestEffortType ==
  ASSUME TypeOK, NEW c \in Conns, NEW ev \in Events, BestEffortAudit(c, ev)
  PROVE  trail' \in [Conns -> Seq(Events)] /\ faulted' \subseteq Conns
<1>1. CASE Log(c, ev) /\ UNCHANGED faulted
  BY <1>1, LogType DEF TypeOK
<1>2. CASE faulted' = faulted \cup {c} /\ UNCHANGED trail
  BY <1>2 DEF TypeOK
<1> QED
  BY <1>1, <1>2 DEF BestEffortAudit

\* Every step keeps the types.
LEMMA TypeNext == IndInv /\ [Next]_vars => TypeOK'
<1> SUFFICES ASSUME IndInv, [Next]_vars PROVE TypeOK'
  OBVIOUS
<1> USE DEF Step, connVars, dbVars, IndInv, TypeOK, PCs
<1>1. CASE UNCHANGED vars
  BY <1>1 DEF vars
<1>2. ASSUME NEW c \in Conns, NEW a \in Accounts, Authenticate(c, a) PROVE TypeOK'
  BY <1>2 DEF Authenticate
<1>3. ASSUME NEW c \in Conns, Authorize(c) PROVE TypeOK'
  BY <1>3 DEF Authorize
<1>4. ASSUME NEW c \in Conns, Reject(c) PROVE TypeOK'
  BY <1>4, BestEffortType DEF Reject, Events, RejectEvents
<1>5. ASSUME NEW c \in Conns, ConnectTarget(c) PROVE TypeOK'
  BY <1>5 DEF ConnectTarget
<1>6. ASSUME NEW c \in Conns, CreateSession(c) PROVE TypeOK'
  BY <1>6 DEF CreateSession, SessionStart, Rows
<1>7. ASSUME NEW c \in Conns, CreateSessionError(c) PROVE TypeOK'
  <2>1. CASE rows' = rows
    BY <1>7, <2>1 DEF CreateSessionError, Step, connVars, IndInv, TypeOK, PCs
  <2>2. CASE rows' = [rows EXCEPT ![c] = SessionStart(c)]
    BY <1>7, <2>2 DEF CreateSessionError, SessionStart, Rows, Step, connVars, IndInv,
       TypeOK, PCs
  <2> QED
    BY <1>7, <2>1, <2>2 DEF CreateSessionError
<1>8. ASSUME NEW c \in Conns, AuditStart(c) PROVE TypeOK'
  BY <1>8, BestEffortType DEF AuditStart, Events
<1>9. ASSUME NEW c \in Conns, Register(c) PROVE TypeOK'
  BY <1>9 DEF Register
<1>10. ASSUME NEW c \in Conns, LeaveLoop(c) PROVE TypeOK'
  BY <1>10 DEF LeaveLoop
<1>11. ASSUME NEW c \in Conns, EndSession(c) PROVE TypeOK'
  BY <1>11 DEF EndSession, Rows
<1>12. ASSUME NEW c \in Conns, EndSessionError(c) PROVE TypeOK'
  <2>1. CASE rows' = rows
    BY <1>12, <2>1 DEF EndSessionError, Step, connVars, IndInv, TypeOK, PCs
  <2>2. CASE rows' = [rows EXCEPT ![c].state = "ended"]
    BY <1>12, <2>2 DEF EndSessionError, Rows, Step, connVars, IndInv, TypeOK, PCs
  <2> QED
    BY <1>12, <2>1, <2>2 DEF EndSessionError
<1>13. ASSUME NEW c \in Conns, AuditEnd(c) PROVE TypeOK'
  BY <1>13, BestEffortType DEF AuditEnd, Events
<1>14. ASSUME NEW c \in Conns, CloseTarget(c) PROVE TypeOK'
  BY <1>14 DEF CloseTarget
<1>15. ASSUME NEW c \in Conns, Unregister(c) PROVE TypeOK'
  BY <1>15 DEF Unregister
<1>16. ASSUME NEW c \in Conns, OpenChannel(c) PROVE TypeOK'
  BY <1>16 DEF OpenChannel
<1>17. ASSUME NEW c \in Conns, EndChannel(c) PROVE TypeOK'
  BY <1>17 DEF EndChannel
<1>18. ASSUME NEW c \in Conns, UserDisconnect(c) PROVE TypeOK'
  BY <1>18 DEF UserDisconnect
<1>19. ASSUME NEW c \in Conns, TargetDrop(c) PROVE TypeOK'
  BY <1>19 DEF TargetDrop
<1>20. ASSUME NEW c \in Conns, RequestTermination(c) PROVE TypeOK'
  BY <1>20 DEF RequestTermination, Rows
<1>21. ASSUME NEW c \in Conns, ReaperKill(c) PROVE TypeOK'
  BY <1>21 DEF ReaperKill
<1>22. ASSUME NEW c \in Conns, ReaperMiss(c) PROVE TypeOK'
  BY <1>22 DEF ReaperMiss
<1>23. ASSUME NEW a \in Accounts, NEW st \in {"active", "disabled"}, SetAccountStatus(a, st)
       PROVE  TypeOK'
  BY <1>23 DEF SetAccountStatus
<1>24. CASE ReaperTick
  BY <1>24 DEF ReaperTick
<1>25. CASE ReaperQuery
  BY <1>25 DEF ReaperQuery, SessionsToTerminate
<1>26. CASE ReaperQueryError
  BY <1>26 DEF ReaperQueryError, IdleReaper
<1>27. CASE ReaperAudit
  BY <1>27, LogType DEF ReaperAudit, Events
<1>28. CASE ReaperDone
  BY <1>28 DEF ReaperDone, IdleReaper
<1>29. CASE Shutdown
  BY <1>29 DEF Shutdown
<1>30. CASE Exit
  BY <1>30 DEF Exit, IdleReaper
<1>31. CASE Restart
  BY <1>31 DEF Restart
<1> QED
  BY <1>1, <1>2, <1>3, <1>4, <1>5, <1>6, <1>7, <1>8, <1>9, <1>10, <1>11,
     <1>12, <1>13, <1>14, <1>15, <1>16, <1>17, <1>18, <1>19, <1>20, <1>21,
     <1>22, <1>23, <1>24, <1>25, <1>26, <1>27, <1>28, <1>29, <1>30, <1>31
     DEF Next, Handler, Peers, Admins, Reaper, ReaperLoop, Process

\* Every step of a handler, the reaper or the process keeps handlers, rows and
\* registry in step.
LEMMA HandlerNext == IndInv /\ [Next]_vars => HandlerInv'
<1> SUFFICES ASSUME IndInv, [Next]_vars PROVE HandlerInv'
  OBVIOUS
<1> USE DEF Step, connVars, dbVars, IndInv, TypeOK, HandlerInv, EarlyIsBlank, Early,
        IdHeld, OpenUntilEnd, LateIsDetached, Late, StrandedIsFaulted, Stranded,
        EndedIsQuiet, RegistryIsExact, RegisteredPCs, PCs
<1>1. CASE UNCHANGED vars
  BY <1>1 DEF vars
<1>2. ASSUME NEW c \in Conns, NEW a \in Accounts, Authenticate(c, a) PROVE HandlerInv'
  BY <1>2 DEF Authenticate
<1>3. ASSUME NEW c \in Conns, Authorize(c) PROVE HandlerInv'
  BY <1>3 DEF Authorize
<1>4. ASSUME NEW c \in Conns, Reject(c) PROVE HandlerInv'
  BY <1>4 DEF Reject, BestEffortAudit
<1>5. ASSUME NEW c \in Conns, ConnectTarget(c) PROVE HandlerInv'
  BY <1>5 DEF ConnectTarget
<1>6. ASSUME NEW c \in Conns, CreateSession(c) PROVE HandlerInv'
  BY <1>6 DEF CreateSession, SessionStart
<1>7. ASSUME NEW c \in Conns, CreateSessionError(c) PROVE HandlerInv'
  BY <1>7 DEF CreateSessionError, SessionStart
<1>8. ASSUME NEW c \in Conns, AuditStart(c) PROVE HandlerInv'
  BY <1>8 DEF AuditStart, BestEffortAudit
<1>9. ASSUME NEW c \in Conns, Register(c) PROVE HandlerInv'
  BY <1>9 DEF Register
<1>10. ASSUME NEW c \in Conns, LeaveLoop(c) PROVE HandlerInv'
  <2>1. ASSUME NEW from \in {"serving", "rejected"}, NEW to \in {"ending", "cleanup", "done"},
               Step(c, from, to), from = "rejected" => to = "done",
               from = "serving" => to # "done" /\ (to = "ending" <=> c \in sid)
        PROVE  HandlerInv'
    BY <1>10, <2>1 DEF LeaveLoop
  <2> QED
    BY <1>10, <2>1 DEF LeaveLoop
<1>11. ASSUME NEW c \in Conns, EndSession(c) PROVE HandlerInv'
  BY <1>11 DEF EndSession
<1>12. ASSUME NEW c \in Conns, EndSessionError(c) PROVE HandlerInv'
  BY <1>12 DEF EndSessionError
<1>13. ASSUME NEW c \in Conns, AuditEnd(c) PROVE HandlerInv'
  BY <1>13 DEF AuditEnd, BestEffortAudit
<1>14. ASSUME NEW c \in Conns, CloseTarget(c) PROVE HandlerInv'
  BY <1>14 DEF CloseTarget
<1>15. ASSUME NEW c \in Conns, Unregister(c) PROVE HandlerInv'
  BY <1>15 DEF Unregister
<1>16. ASSUME NEW c \in Conns, OpenChannel(c) PROVE HandlerInv'
  BY <1>16 DEF OpenChannel
<1>17. ASSUME NEW c \in Conns, EndChannel(c) PROVE HandlerInv'
  BY <1>17 DEF EndChannel
<1>18. ASSUME NEW c \in Conns, UserDisconnect(c) PROVE HandlerInv'
  BY <1>18 DEF UserDisconnect
<1>19. ASSUME NEW c \in Conns, TargetDrop(c) PROVE HandlerInv'
  BY <1>19 DEF TargetDrop
<1>20. ASSUME NEW c \in Conns, RequestTermination(c) PROVE HandlerInv'
  <2>1. pc[c] \notin Early
    BY <1>20 DEF RequestTermination, IndInv, HandlerInv, EarlyIsBlank, NoRow
  <2>2. \A d \in Conns : rows'[d].state = rows[d].state /\ (d # c => rows'[d] = rows[d])
    BY <1>20 DEF RequestTermination, IndInv, TypeOK, Rows
  <2> QED
    BY <1>20, <2>1, <2>2 DEF RequestTermination, connVars, IndInv, HandlerInv, EarlyIsBlank,
       IdHeld, OpenUntilEnd, LateIsDetached, StrandedIsFaulted, Stranded, EndedIsQuiet,
       RegistryIsExact
<1>21. ASSUME NEW c \in Conns, ReaperKill(c) PROVE HandlerInv'
  BY <1>21 DEF ReaperKill
<1>22. ASSUME NEW c \in Conns, ReaperMiss(c) PROVE HandlerInv'
  BY <1>22 DEF ReaperMiss
<1>23. ASSUME NEW a \in Accounts, NEW st \in {"active", "disabled"}, SetAccountStatus(a, st)
       PROVE  HandlerInv'
  BY <1>23 DEF SetAccountStatus
<1>24. CASE ReaperTick
  BY <1>24 DEF ReaperTick
<1>25. CASE ReaperQuery
  BY <1>25 DEF ReaperQuery
<1>26. CASE ReaperQueryError
  BY <1>26 DEF ReaperQueryError
<1>27. CASE ReaperAudit
  BY <1>27 DEF ReaperAudit
<1>28. CASE ReaperDone
  BY <1>28 DEF ReaperDone
<1>29. CASE Shutdown
  BY <1>29 DEF Shutdown
<1>30. CASE Exit
  BY <1>30 DEF Exit, InProgress
<1>31. CASE Restart
  BY <1>31 DEF Restart
<1> QED
  BY <1>1, <1>2, <1>3, <1>4, <1>5, <1>6, <1>7, <1>8, <1>9, <1>10, <1>11,
     <1>12, <1>13, <1>14, <1>15, <1>16, <1>17, <1>18, <1>19, <1>20, <1>21,
     <1>22, <1>23, <1>24, <1>25, <1>26, <1>27, <1>28, <1>29, <1>30, <1>31
     DEF Next, Handler, Peers, Admins, Reaper, ReaperLoop, Process

\* The reaper kills only what is flagged, and nothing reopens what it killed.
LEMMA KillNext == IndInv /\ [Next]_vars => KillInv'
<1> SUFFICES ASSUME IndInv, [Next]_vars PROVE KillInv'
  OBVIOUS
<1>0. TypeOK /\ KillInv
  BY DEF IndInv
<1>early. \A c \in Conns : pc[c] \in Early => ~rows[c].terminate
  BY DEF IndInv, HandlerInv, EarlyIsBlank, NoRow
<1> USE <1>0
<1> USE DEF Step, connVars, dbVars, KillInv, ReaperJustified, KilledWasFlagged,
        KilledIsCutOff
<1>1. CASE UNCHANGED vars
  BY <1>1 DEF vars, TypeOK, HasEvent
<1>2. ASSUME NEW c \in Conns, NEW a \in Accounts, Authenticate(c, a) PROVE KillInv'
  BY <1>2, <1>early DEF Authenticate, Early, TypeOK, HasEvent
<1>3. ASSUME NEW c \in Conns, Authorize(c) PROVE KillInv'
  BY <1>3 DEF Authorize, TypeOK, HasEvent
<1>4. ASSUME NEW c \in Conns, Reject(c) PROVE KillInv'
  <2>1. \A d \in Conns : HasEvent(d, "session.killed")' => HasEvent(d, "session.killed")
    BY <1>4, BestEffortEvents DEF Reject
  <2> QED
    BY <1>4, <2>1 DEF Reject
<1>5. ASSUME NEW c \in Conns, ConnectTarget(c) PROVE KillInv'
  BY <1>5, <1>early DEF ConnectTarget, Early, TypeOK, HasEvent
<1>6. ASSUME NEW c \in Conns, CreateSession(c) PROVE KillInv'
  <2>1. \A d \in Conns : /\ rows'[d].subject = Null
                         /\ rows[d].terminate => rows'[d].terminate
    BY <1>6, <1>early DEF CreateSession, SessionStart, Early, TypeOK, Rows
  <2> QED
    BY <1>6, <2>1 DEF CreateSession, HasEvent, TypeOK
<1>7. ASSUME NEW c \in Conns, CreateSessionError(c) PROVE KillInv'
  <2>1. \A d \in Conns : /\ rows'[d].subject = Null
                         /\ rows[d].terminate => rows'[d].terminate
    <3>1. CASE rows' = rows
      BY <3>1
    <3>2. CASE pc[c] = "start" /\ rows' = [rows EXCEPT ![c] = SessionStart(c)]
      BY <3>2, <1>early DEF SessionStart, Early, TypeOK
    <3> QED
      BY <1>7, <3>1, <3>2 DEF CreateSessionError
  <2> QED
    BY <1>7, <2>1 DEF CreateSessionError, HasEvent, TypeOK
<1>8. ASSUME NEW c \in Conns, AuditStart(c) PROVE KillInv'
  <2>1. \A d \in Conns : HasEvent(d, "session.killed")' => HasEvent(d, "session.killed")
    BY <1>8, BestEffortEvents DEF AuditStart
  <2> QED
    BY <1>8, <2>1 DEF AuditStart
<1>9. ASSUME NEW c \in Conns, Register(c) PROVE KillInv'
  BY <1>9 DEF Register, TypeOK, HasEvent
<1>10. ASSUME NEW c \in Conns, LeaveLoop(c) PROVE KillInv'
  BY <1>10 DEF LeaveLoop, TypeOK, HasEvent
<1>11. ASSUME NEW c \in Conns, EndSession(c) PROVE KillInv'
  BY <1>11 DEF EndSession, TypeOK, HasEvent
<1>12. ASSUME NEW c \in Conns, EndSessionError(c) PROVE KillInv'
  <2>1. \A d \in Conns : rows'[d].subject = rows[d].subject
                         /\ rows'[d].terminate = rows[d].terminate
    <3>1. CASE rows' = rows
      BY <3>1
    <3>2. CASE rows' = [rows EXCEPT ![c].state = "ended"]
      BY <1>12, <3>2 DEF TypeOK, Rows
    <3> QED
      BY <1>12, <3>1, <3>2 DEF EndSessionError
  <2> QED
    BY <1>12, <2>1 DEF EndSessionError, HasEvent, TypeOK
<1>13. ASSUME NEW c \in Conns, AuditEnd(c) PROVE KillInv'
  <2>1. \A d \in Conns : HasEvent(d, "session.killed")' => HasEvent(d, "session.killed")
    BY <1>13, BestEffortEvents DEF AuditEnd
  <2> QED
    BY <1>13, <2>1 DEF AuditEnd
<1>14. ASSUME NEW c \in Conns, CloseTarget(c) PROVE KillInv'
  BY <1>14 DEF CloseTarget, TypeOK, HasEvent
<1>15. ASSUME NEW c \in Conns, Unregister(c) PROVE KillInv'
  BY <1>15 DEF Unregister, TypeOK, HasEvent
<1>16. ASSUME NEW c \in Conns, OpenChannel(c) PROVE KillInv'
  BY <1>16 DEF OpenChannel, TypeOK, HasEvent
<1>17. ASSUME NEW c \in Conns, EndChannel(c) PROVE KillInv'
  BY <1>17 DEF EndChannel, TypeOK, HasEvent
<1>18. ASSUME NEW c \in Conns, UserDisconnect(c) PROVE KillInv'
  BY <1>18 DEF UserDisconnect, TypeOK, HasEvent
<1>19. ASSUME NEW c \in Conns, TargetDrop(c) PROVE KillInv'
  BY <1>19 DEF TargetDrop, TypeOK, HasEvent
<1>20. ASSUME NEW c \in Conns, RequestTermination(c) PROVE KillInv'
  BY <1>20 DEF RequestTermination, TypeOK, HasEvent
<1>21. ASSUME NEW c \in Conns, ReaperKill(c) PROVE KillInv'
  BY <1>21 DEF ReaperKill, TypeOK, HasEvent
<1>22. ASSUME NEW c \in Conns, ReaperMiss(c) PROVE KillInv'
  BY <1>22 DEF ReaperMiss, TypeOK, HasEvent
<1>23. ASSUME NEW a \in Accounts, NEW st \in {"active", "disabled"}, SetAccountStatus(a, st)
       PROVE  KillInv'
  BY <1>23 DEF SetAccountStatus, TypeOK, HasEvent
<1>24. CASE ReaperTick
  BY <1>24 DEF ReaperTick, TypeOK, HasEvent
<1>25. CASE ReaperQuery
  <2>1. \A c \in SessionsToTerminate(reaper.ids) : rows[c].terminate
    BY NullAssumption DEF SessionsToTerminate, SubjectDisabled, TypeOK
  <2>2. reaper'.doomed = SessionsToTerminate(reaper.ids) /\ reaper'.pc = "kill"
    BY <1>25 DEF ReaperQuery, TypeOK
  <2> QED
    BY <1>25, <2>1, <2>2 DEF ReaperQuery, HasEvent
<1>26. CASE ReaperQueryError
  BY <1>26 DEF ReaperQueryError, IdleReaper, TypeOK, HasEvent
<1>27. CASE ReaperAudit
  <2>1. reaper.victim \in Conns
    BY <1>27 DEF ReaperAudit
  <2>2. \A d \in Conns : HasEvent(d, "session.killed")' =>
          HasEvent(d, "session.killed") \/ d = reaper.victim
    <3>1. CASE Log(reaper.victim, "session.killed")
      BY <1>0, <2>1, <3>1, LogEvents
    <3>2. CASE UNCHANGED trail
      BY <3>2 DEF HasEvent
    <3> QED
      BY <1>27, <3>1, <3>2 DEF ReaperAudit
  <2>3. reaper'.pc = "kill" /\ reaper'.doomed = reaper.doomed
    BY <1>27 DEF ReaperAudit, TypeOK
  <2> QED
    BY <1>27, <2>2, <2>3 DEF ReaperAudit
<1>28. CASE ReaperDone
  BY <1>28 DEF ReaperDone, IdleReaper, TypeOK, HasEvent
<1>29. CASE Shutdown
  BY <1>29 DEF Shutdown, TypeOK, HasEvent
<1>30. CASE Exit
  BY <1>30 DEF Exit, IdleReaper, TypeOK, HasEvent
<1>31. CASE Restart
  BY <1>31 DEF Restart, TypeOK, HasEvent
<1> QED
  BY <1>1, <1>2, <1>3, <1>4, <1>5, <1>6, <1>7, <1>8, <1>9, <1>10, <1>11,
     <1>12, <1>13, <1>14, <1>15, <1>16, <1>17, <1>18, <1>19, <1>20, <1>21,
     <1>22, <1>23, <1>24, <1>25, <1>26, <1>27, <1>28, <1>29, <1>30, <1>31
     DEF Next, Handler, Peers, Admins, Reaper, ReaperLoop, Process

\* What a step that writes the sessions table does to it.
RowWrite(c) ==
  \/ pc[c] = "start" /\ rows' = [rows EXCEPT ![c] = SessionStart(c)]
  \/ pc[c] = "ending" /\ rows' = [rows EXCEPT ![c].state = "ended"]
  \/ rows[c].state = "open" /\ rows' = [rows EXCEPT ![c].terminate = TRUE]

\* CreateSession, EndSession and RequestTermination are the only writers.
LEMMA RowWriters ==
  ASSUME [Next]_vars, rows' # rows
  PROVE  \E c \in Conns : RowWrite(c)
<1>1. PICK c \in Conns : \/ CreateSession(c) \/ CreateSessionError(c)
                         \/ EndSession(c) \/ EndSessionError(c) \/ RequestTermination(c)
  BY DEF Next, Handler, Peers, Admins, Reaper, ReaperLoop, Process, vars, connVars, dbVars,
     Authorize, Reject, ConnectTarget, AuditStart, Register, LeaveLoop, AuditEnd, CloseTarget,
     Unregister, Authenticate, OpenChannel, EndChannel, UserDisconnect, TargetDrop,
     SetAccountStatus, ReaperTick, ReaperQuery, ReaperQueryError, ReaperKill, ReaperMiss,
     ReaperAudit, ReaperDone, Shutdown, Exit, Restart
<1> QED
  BY <1>1 DEF CreateSession, CreateSessionError, EndSession, EndSessionError,
     RequestTermination, Step, RowWrite

\* What an append does to the shape of a trail.
LEMMA TrailShapes ==
  ASSUME NEW t \in Seq(Events)
  PROVE  /\ \A ev \in RejectEvents : t = <<>> => Refused(Append(t, ev))
         /\ t = <<>> => Begun(Append(t, "session.start")) /\ Unclosed(Append(t, "session.start"))
         /\ t = <<>> => Unclosed(t)
         /\ Begun(t) => Begun(Append(t, "session.killed")) /\ Begun(Append(t, "session.end"))
         /\ Unclosed(t) => Unclosed(Append(t, "session.killed"))
         /\ Unclosed(t) => Closed(Append(t, "session.end"))
         /\ Closed(t) => Closed(Append(t, "session.killed"))
<1> DEFINE n == Len(t)
<1>1. n \in Nat
  OBVIOUS
<1>2. ASSUME NEW ev
      PROVE  /\ Len(Append(t, ev)) = n + 1
             /\ Append(t, ev)[n + 1] = ev
             /\ \A i \in 1..n : Append(t, ev)[i] = t[i]
  OBVIOUS
<1>3. \A i \in 1..(n + 1) : i \in 1..n \/ i = n + 1
  BY <1>1
<1>4. ~(n + 1 \in 1..n) /\ 1..n \subseteq 1..(n + 1) /\ n + 1 \in 1..(n + 1)
  BY <1>1
<1>5. t = <<>> => n = 0
  OBVIOUS
<1> HIDE DEF n
<1>6. \A ev \in RejectEvents : t = <<>> => Refused(Append(t, ev))
  BY <1>1, <1>2, <1>5 DEF Refused
<1>7. t = <<>> => Begun(Append(t, "session.start")) /\ Unclosed(Append(t, "session.start"))
  BY <1>1, <1>2, <1>3, <1>5 DEF Begun, Unclosed
<1>11. t = <<>> => Unclosed(t)
  BY DEF Unclosed
<1>8. ASSUME Begun(t), NEW ev, ev # "session.start" PROVE Begun(Append(t, ev))
  <2>1. n >= 1 /\ \A i \in 1..n : t[i] = "session.start" <=> i = 1
    BY <1>8 DEF Begun, n
  <2> QED
    BY <1>1, <1>2, <1>3, <1>8, <2>1 DEF Begun
<1>9. ASSUME Unclosed(t)
      PROVE  Unclosed(Append(t, "session.killed")) /\ Closed(Append(t, "session.end"))
  <2>1. \A i \in 1..n : t[i] # "session.end"
    BY <1>9 DEF Unclosed, n
  <2>2. Unclosed(Append(t, "session.killed"))
    BY <1>2, <1>3, <2>1 DEF Unclosed
  <2>3. \A i \in 1..(n + 1) : Append(t, "session.end")[i] = "session.end" <=> i = n + 1
    BY <1>2, <1>3, <1>4, <2>1
  <2>4. Closed(Append(t, "session.end"))
    <3> DEFINE u == Append(t, "session.end")
    <3>1. Len(u) = n + 1 /\ \A i \in 1..(n + 1) : u[i] = "session.end" <=> i = n + 1
      BY <1>2, <2>3
    <3> HIDE DEF u
    <3>2. Closed(u)
      BY <1>4, <3>1 DEF Closed
    <3> QED
      BY <3>2 DEF u
  <2> QED
    BY <2>2, <2>4
<1>10. ASSUME Closed(t) PROVE Closed(Append(t, "session.killed"))
  <2>1. PICK j \in 1..n : \A i \in 1..n : t[i] = "session.end" <=> i = j
    BY <1>10 DEF Closed, n
  <2>2. \A i \in 1..(n + 1) : Append(t, "session.killed")[i] = "session.end" <=> i = j
    BY <1>2, <1>3, <1>4, <2>1
  <2> DEFINE u == Append(t, "session.killed")
  <2>3. Len(u) = n + 1 /\ \A i \in 1..(n + 1) : u[i] = "session.end" <=> i = j
    BY <1>2, <2>2
  <2> HIDE DEF u
  <2>4. j \in 1..Len(u)
    BY <1>4, <2>3
  <2>5. Closed(u)
    BY <2>3, <2>4 DEF Closed
  <2> QED
    BY <2>5 DEF u
<1> QED
  BY <1>6, <1>7, <1>8, <1>9, <1>10, <1>11

\* A connection whose handler, row, id and trail a step leaves alone keeps a
\* fitting trail.
LEMMA TrailUntouched ==
  ASSUME IndInv, NEW d \in Conns, pc'[d] = pc[d], trail'[d] = trail[d], d \in sid => d \in sid',
         rows'[d].state = rows[d].state, faulted \subseteq faulted'
  PROVE  TrailFits(d)'
<1>1. TrailFits(d)
  BY DEF IndInv, TrailInv
<1> QED
  BY <1>1 DEF TrailFits, TrailOrder, TrailComplete

\* A step of a handler changes its own connection only.
Elsewhere(c) ==
  \A d \in Conns \ {c} : /\ pc'[d] = pc[d] /\ trail'[d] = trail[d]
                         /\ d \in sid => d \in sid'
                         /\ rows'[d].state = rows[d].state

\* A best-effort append of a handler's own event either writes it or leaves the
\* mark of a fault.
LEMMA BestEffortStep ==
  ASSUME TypeOK, NEW c \in Conns, NEW ev, BestEffortAudit(c, ev)
  PROVE  /\ \A d \in Conns \ {c} : trail'[d] = trail[d]
         /\ faulted \subseteq faulted'
         /\ trail'[c] = Append(trail[c], ev) \/ (c \in faulted' /\ trail'[c] = trail[c])
  BY DEF BestEffortAudit, Log, TypeOK

\* The steps of one handler keep its trail fitting.
LEMMA HandlerTrail ==
  ASSUME IndInv, NEW c \in Conns, Handler(c) \/ Peers(c)
  PROVE  Elsewhere(c) /\ faulted \subseteq faulted' /\ TrailFits(c)'
<1> DEFINE Good == Elsewhere(c) /\ faulted \subseteq faulted' /\ TrailFits(c)'
<1>0. TypeOK /\ TrailFits(c) /\ trail[c] \in Seq(Events)
  BY DEF IndInv, TrailInv, TypeOK
<1> USE <1>0
<1> USE DEF Step, connVars, dbVars, Elsewhere
<1>1. ASSUME NEW a \in Accounts, Authenticate(c, a) PROVE Good
  BY <1>1 DEF Authenticate, TypeOK, TrailFits, TrailOrder, TrailComplete
<1>2. CASE Authorize(c)
  BY <1>2 DEF Authorize, TypeOK, TrailFits, TrailOrder, TrailComplete
<1>3. CASE Reject(c)
  <2>1. PICK ev \in RejectEvents : BestEffortAudit(c, ev)
    BY <1>3 DEF Reject, RejectEvents
  <2>2. /\ \A d \in Conns \ {c} : trail'[d] = trail[d]
        /\ faulted \subseteq faulted'
        /\ trail'[c] = Append(trail[c], ev) \/ (c \in faulted' /\ trail'[c] = trail[c])
    BY <2>1, BestEffortStep
  <2>3. pc[c] \in {"setup", "dial"} /\ pc' = [pc EXCEPT ![c] = "rejected"]
    BY <1>3 DEF Reject
  <2>4. c \notin faulted' => Refused(trail'[c])
    BY <2>2, <2>3, TrailShapes DEF TrailFits, TrailOrder, TrailComplete
  <2> QED
    BY <1>3, <2>2, <2>3, <2>4 DEF Reject, TypeOK, TrailFits, TrailOrder, TrailComplete
<1>4. CASE ConnectTarget(c)
  BY <1>4 DEF ConnectTarget, TypeOK, TrailFits, TrailOrder, TrailComplete
<1>5. CASE CreateSession(c)
  BY <1>5 DEF CreateSession, TypeOK, TrailFits, TrailOrder, TrailComplete
<1>6. CASE CreateSessionError(c)
  <2>1. Unclosed(trail[c])
    BY <1>6, TrailShapes DEF CreateSessionError, TrailFits, TrailOrder
  <2> QED
    BY <1>6, <2>1 DEF CreateSessionError, TypeOK, TrailFits, TrailOrder, TrailComplete
<1>7. CASE AuditStart(c)
  <2>1. /\ \A d \in Conns \ {c} : trail'[d] = trail[d]
        /\ faulted \subseteq faulted'
        /\ trail'[c] = Append(trail[c], "session.start") \/ (c \in faulted' /\ trail'[c] = trail[c])
    BY <1>7, BestEffortStep DEF AuditStart
  <2>2. /\ pc[c] = "startAudit" /\ pc' = [pc EXCEPT ![c] = "register"]
        /\ c \in sid /\ sid' = sid
    BY <1>7 DEF AuditStart, IndInv, HandlerInv, IdHeld
  <2>3. Unclosed(trail'[c]) /\ (c \notin faulted' => Begun(trail'[c]))
    BY <2>1, <2>2, TrailShapes DEF TrailFits, TrailOrder, TrailComplete
  <2> QED
    BY <1>7, <2>1, <2>2, <2>3 DEF AuditStart, TypeOK, TrailFits, TrailOrder, TrailComplete
<1>8. CASE Register(c)
  BY <1>8 DEF Register, TypeOK, TrailFits, TrailOrder, TrailComplete
<1>9. CASE LeaveLoop(c)
  <2>1. pc[c] = "rejected" => rows[c].state = "none"
    BY DEF IndInv, HandlerInv, EarlyIsBlank, Early, NoRow
  <2> QED
    BY <1>9, <2>1 DEF LeaveLoop, TypeOK, TrailFits, TrailOrder, TrailComplete
<1>10. CASE EndSession(c)
  BY <1>10 DEF EndSession, TypeOK, Rows, TrailFits, TrailOrder, TrailComplete
<1>11. CASE EndSessionError(c)
  BY <1>11 DEF EndSessionError, TypeOK, Rows, TrailFits, TrailOrder, TrailComplete
<1>12. CASE AuditEnd(c)
  <2>1. /\ \A d \in Conns \ {c} : trail'[d] = trail[d]
        /\ faulted \subseteq faulted'
        /\ trail'[c] = Append(trail[c], "session.end") \/ (c \in faulted' /\ trail'[c] = trail[c])
    BY <1>12, BestEffortStep DEF AuditEnd
  <2>2. pc[c] = "endAudit" /\ pc' = [pc EXCEPT ![c] = "cleanup"]
    BY <1>12 DEF AuditEnd
  <2>3. c \notin faulted' => Begun(trail'[c]) /\ Closed(trail'[c])
    BY <2>1, <2>2, TrailShapes DEF TrailFits, TrailOrder, TrailComplete
  <2> QED
    BY <1>12, <2>1, <2>2, <2>3 DEF AuditEnd, TypeOK, TrailFits, TrailOrder, TrailComplete
<1>13. CASE CloseTarget(c)
  BY <1>13 DEF CloseTarget, TypeOK, TrailFits, TrailOrder, TrailComplete
<1>14. CASE Unregister(c)
  BY <1>14 DEF Unregister, TypeOK, TrailFits, TrailOrder, TrailComplete
<1>15. CASE OpenChannel(c)
  BY <1>15 DEF OpenChannel, TypeOK, TrailFits, TrailOrder, TrailComplete
<1>16. CASE EndChannel(c)
  BY <1>16 DEF EndChannel, TypeOK, TrailFits, TrailOrder, TrailComplete
<1>17. CASE UserDisconnect(c)
  BY <1>17 DEF UserDisconnect, TypeOK, TrailFits, TrailOrder, TrailComplete
<1>18. CASE TargetDrop(c)
  BY <1>18 DEF TargetDrop, TypeOK, TrailFits, TrailOrder, TrailComplete
<1> QED
  BY <1>1, <1>2, <1>3, <1>4, <1>5, <1>6, <1>7, <1>8, <1>9, <1>10, <1>11, <1>12, <1>13,
     <1>14, <1>15, <1>16, <1>17, <1>18 DEF Handler, Peers

\* The reaper's session.killed, however late, fits the trail it is added to.
LEMMA ReaperTrail ==
  ASSUME IndInv, ReaperAudit, NEW d \in Conns
  PROVE  TrailFits(d)'
<1> DEFINE v == reaper.victim
<1>1. v \in Conns /\ rows[v].terminate /\ pc[v] \notin {"startAudit", "register"}
  BY DEF ReaperAudit, IndInv, KillInv, ReaperJustified, TrailInv
<1>2. rows[v].state # "none" /\ pc[v] \notin Early
  BY <1>1 DEF IndInv, TrailInv, HandlerInv, EarlyIsBlank, NoRow
<1>3. /\ UNCHANGED <<pc, sid, rows, faulted>>
      /\ trail' = trail \/ trail' = [trail EXCEPT ![v] = Append(@, "session.killed")]
  BY DEF ReaperAudit, Log
<1>4. CASE trail'[d] = trail[d]
  BY <1>3, <1>4, TrailUntouched
<1>5. CASE d = v /\ trail'[d] = Append(trail[d], "session.killed")
  <2>1. TrailFits(d) /\ trail[d] \in Seq(Events)
    BY DEF IndInv, TrailInv, TypeOK
  <2>2. /\ Begun(trail[d]) => Begun(trail'[d])
        /\ Unclosed(trail[d]) => Unclosed(trail'[d])
        /\ Closed(trail[d]) => Closed(trail'[d])
    BY <1>5, <2>1, TrailShapes
  <2> QED
    BY <1>1, <1>2, <1>3, <1>5, <2>1, <2>2 DEF TrailFits, TrailOrder, TrailComplete, Early
<1>6. d # v => trail'[d] = trail[d]
  BY <1>1, <1>3 DEF IndInv, TypeOK
<1>7. d = v => trail'[d] = trail[d] \/ trail'[d] = Append(trail[d], "session.killed")
  BY <1>1, <1>3 DEF IndInv, TypeOK
<1> QED
  BY <1>4, <1>5, <1>6, <1>7

\* Every step keeps every trail fitting.
LEMMA TrailFitsNext ==
  ASSUME IndInv, [Next]_vars, NEW d \in Conns
  PROVE  TrailFits(d)'
<1>1. ASSUME NEW c \in Conns, Handler(c) \/ Peers(c) PROVE TrailFits(d)'
  <2>1. Elsewhere(c) /\ faulted \subseteq faulted' /\ TrailFits(c)'
    BY <1>1, HandlerTrail
  <2> QED
    BY <2>1, TrailUntouched DEF Elsewhere
<1>2. CASE ReaperAudit
  BY <1>2, ReaperTrail
<1>3. CASE Exit
  <2>1. TrailFits(d)
    BY DEF IndInv, TrailInv
  <2>2. CASE InProgress(d)
    BY <1>3, <2>2 DEF Exit, TrailFits, TrailOrder, TrailComplete
  <2>3. CASE ~InProgress(d)
    <3>1. pc'[d] = pc[d] /\ pc[d] \in {"idle", "done", "gone"} /\ d \in faulted => d \in faulted'
      BY <1>3, <2>3 DEF Exit, InProgress
    <3> QED
      BY <1>3, <2>1, <2>3, <3>1 DEF Exit, InProgress, dbVars, TrailFits, TrailOrder, TrailComplete
  <2> QED
    BY <2>2, <2>3
<1>4. CASE UNCHANGED vars
  BY <1>4, TrailUntouched DEF vars, dbVars
<1>5. CASE Admins \/ Reaper \/ Shutdown \/ Restart
  <2>1. CASE ReaperAudit
    BY <2>1, <1>2
  <2>2. CASE ~ReaperAudit
    <3>1. UNCHANGED <<pc, sid, trail, faulted>>
      BY <1>5, <2>2 DEF Admins, Reaper, ReaperLoop, RequestTermination, SetAccountStatus,
         ReaperTick, ReaperQuery, ReaperQueryError, ReaperKill, ReaperMiss, ReaperDone,
         Shutdown, Restart, dbVars
    <3>2. rows'[d].state = rows[d].state
      <4>1. ASSUME NEW c \in Conns, rows' = [rows EXCEPT ![c].terminate = TRUE]
            PROVE  rows'[d].state = rows[d].state
        BY <4>1 DEF IndInv, TypeOK, Rows
      <4> QED
        BY <1>5, <2>2, <4>1 DEF Admins, Reaper, ReaperLoop, RequestTermination,
           SetAccountStatus, ReaperTick, ReaperQuery, ReaperQueryError, ReaperKill,
           ReaperMiss, ReaperDone, Shutdown, Restart, dbVars
    <3> QED
      BY <3>1, <3>2, TrailUntouched
  <2> QED
    BY <2>1, <2>2
<1> QED
  BY <1>1, <1>3, <1>4, <1>5 DEF Next, Process

\* A row is flagged only after it was created.
LEMMA FlagNext ==
  ASSUME IndInv, [Next]_vars, NEW d \in Conns, rows'[d].state = "none"
  PROVE  ~rows'[d].terminate
<1>0. rows \in [Conns -> Rows] /\ (rows[d].state = "none" => ~rows[d].terminate)
  BY DEF IndInv, TypeOK, TrailInv
<1>1. CASE rows' = rows
  BY <1>0, <1>1
<1>2. CASE rows' # rows
  <2>1. PICK c \in Conns : RowWrite(c)
    BY <1>2, RowWriters
  <2>2. CASE c = d
    BY <1>0, <2>1, <2>2 DEF RowWrite, SessionStart, Rows
  <2>3. CASE c # d
    BY <1>0, <2>1, <2>3 DEF RowWrite
  <2> QED
    BY <2>2, <2>3
<1> QED
  BY <1>1, <1>2

\* A handler's step leaves the reaper alone, and no step takes a handler back
\* to StartSession.
LEMMA HandlerSteps ==
  ASSUME TypeOK, NEW c \in Conns, Handler(c) \/ Peers(c)
  PROVE  /\ reaper' = reaper
         /\ \A d \in Conns : pc'[d] \in {"startAudit", "register"} =>
              pc[d] \in {"start", "startAudit", "register"}
<1>1. CASE Handler(c)
  <2>1. reaper' = reaper
    BY <1>1 DEF Handler, Authorize, Reject, ConnectTarget, CreateSession, CreateSessionError,
       AuditStart, Register, LeaveLoop, EndSession, EndSessionError, AuditEnd, CloseTarget,
       Unregister
  <2>2. \/ \E from \in {"start", "startAudit"}, to \in PCs : Step(c, from, to)
        \/ \E from \in PCs, to \in PCs \ {"startAudit", "register"} : Step(c, from, to)
    BY <1>1 DEF Handler, Authorize, Reject, ConnectTarget, CreateSession, CreateSessionError,
       AuditStart, Register, LeaveLoop, EndSession, EndSessionError, AuditEnd, CloseTarget,
       Unregister, PCs
  <2> QED
    BY <2>1, <2>2 DEF Step, TypeOK
<1>2. CASE Peers(c)
  BY <1>2 DEF Peers, Authenticate, OpenChannel, EndChannel, UserDisconnect, TargetDrop, Step,
     TypeOK
<1> QED
  BY <1>1, <1>2

\* The session the reaper is about to audit is past its registration.
LEMMA VictimNext ==
  ASSUME IndInv, [Next]_vars, reaper'.pc = "audit"
  PROVE  pc'[reaper'.victim] \notin {"startAudit", "register"}
<1> DEFINE v == reaper.victim
           Past == pc'[reaper'.victim] \notin {"startAudit", "register"}
<1>0. TypeOK
  BY DEF IndInv
<1>1. ASSUME NEW c \in Conns, ReaperKill(c) PROVE Past
  <2>1. reaper'.victim = c /\ pc' = pc /\ c \in registry
    BY <1>0, <1>1 DEF ReaperKill, TypeOK
  <2> QED
    BY <2>1 DEF IndInv, HandlerInv, RegistryIsExact, RegisteredPCs
<1>2. ASSUME reaper' = reaper,
             \A d \in Conns : pc'[d] \in {"startAudit", "register"} =>
               pc[d] \in {"start", "startAudit", "register"}
      PROVE  Past
  <2>1. v \in Conns /\ rows[v].terminate /\ pc[v] \notin {"startAudit", "register"}
    BY <1>2 DEF IndInv, KillInv, ReaperJustified, TrailInv
  <2>2. pc[v] # "start"
    BY <2>1 DEF IndInv, HandlerInv, EarlyIsBlank, Early, NoRow
  <2> QED
    BY <1>2, <2>1, <2>2
<1>3. ASSUME NEW c \in Conns, Handler(c) \/ Peers(c) PROVE Past
  BY <1>0, <1>2, <1>3, HandlerSteps
<1>4. CASE UNCHANGED vars \/ Admins \/ Shutdown \/ Restart
  <2>1. reaper' = reaper /\ \A d \in Conns : pc'[d] = pc[d]
    BY <1>4 DEF vars, Admins, RequestTermination, SetAccountStatus, Shutdown, Restart
  <2>2. \A d \in Conns : pc'[d] \in {"startAudit", "register"} =>
          pc[d] \in {"start", "startAudit", "register"}
    BY <2>1
  <2> QED
    BY <1>2, <2>1, <2>2
<1>5. CASE ReaperTick \/ ReaperQuery \/ ReaperQueryError \/ ReaperAudit \/ ReaperDone \/ Exit
  <2>1. CASE ReaperQueryError \/ ReaperDone \/ Exit
    BY <2>1 DEF ReaperQueryError, ReaperDone, Exit, IdleReaper
  <2>2. CASE ReaperTick
    BY <1>0, <2>2 DEF ReaperTick, TypeOK
  <2>3. CASE ReaperQuery
    BY <1>0, <2>3 DEF ReaperQuery, TypeOK
  <2>4. CASE ReaperAudit
    BY <1>0, <2>4 DEF ReaperAudit, TypeOK
  <2> QED
    BY <1>5, <2>1, <2>2, <2>3, <2>4
<1>6. ASSUME NEW c \in Conns, ReaperMiss(c) PROVE Past
  <2>1. reaper.pc = "kill" /\ reaper'.pc = reaper.pc
    BY <1>0, <1>6 DEF ReaperMiss, TypeOK
  <2> QED
    BY <2>1
<1> QED
  BY <1>1, <1>3, <1>4, <1>5, <1>6 DEF Next, Reaper, ReaperLoop, Process

\* Every step keeps the trails, the flags and the reaper's victim in step.
LEMMA TrailNext == IndInv /\ [Next]_vars => TrailInv'
<1> SUFFICES ASSUME IndInv, [Next]_vars PROVE TrailInv'
  OBVIOUS
<1>1. \A d \in Conns : TrailFits(d)'
  BY TrailFitsNext
<1>2. \A d \in Conns : rows'[d].state = "none" => ~rows'[d].terminate
  BY FlagNext
<1>3. reaper'.pc = "audit" => pc'[reaper'.victim] \notin {"startAudit", "register"}
  BY VictimNext
<1> QED
  BY <1>1, <1>2, <1>3 DEF TrailInv

-----------------------------------------------------------------------------

\* A broker that has just started satisfies the invariant.
LEMMA InitHolds == Init => IndInv
<1> SUFFICES ASSUME Init PROVE IndInv
  OBVIOUS
<1>1. TypeOK
  BY DEF Init, TypeOK, PCs, NoRow, Rows, IdleReaper, Events
<1>2. HandlerInv
  BY DEF Init, HandlerInv, EarlyIsBlank, IdHeld, OpenUntilEnd, LateIsDetached, Late, Stranded,
         StrandedIsFaulted, EndedIsQuiet, RegistryIsExact, NoRow
<1>3. KillInv
  BY DEF Init, KillInv, ReaperJustified, KilledWasFlagged, KilledIsCutOff, HasEvent, NoRow,
         IdleReaper
<1>4. TrailInv
  BY DEF Init, TrailInv, TrailFits, TrailOrder, TrailComplete, NoRow, IdleReaper
<1> QED
  BY <1>1, <1>2, <1>3, <1>4 DEF IndInv

\* IndInv holds in every reachable state.
THEOREM Invariance == Spec => []IndInv
<1>1. IndInv /\ [Next]_vars => IndInv'
  BY TypeNext, HandlerNext, KillNext, TrailNext DEF IndInv
<1> QED
  BY <1>1, InitHolds, PTL DEF Spec

\* sessionRegistry holds exactly the sessions between add and remove: the
\* reaper can reach every proxied session that has an id.
THEOREM RegistryExact == Spec => []RegistryIsExact
<1>1. IndInv => RegistryIsExact
  BY DEF IndInv, HandlerInv
<1> QED
  BY <1>1, Invariance, PTL

\* session.killed is only ever audited for a session an administrator flagged,
\* however stale the query result the reaper acts on.
THEOREM KillsAreFlagged == Spec => []KilledWasFlagged
<1>1. IndInv => KilledWasFlagged
  BY DEF IndInv, KillInv
<1> QED
  BY <1>1, Invariance, PTL

\* A killed session has neither its user nor its target connection, for ever.
THEOREM KillsAreFinal == Spec => []KilledIsCutOff
<1>1. IndInv => KilledIsCutOff
  BY DEF IndInv, KillInv
<1> QED
  BY <1>1, Invariance, PTL

\* A row with ended_at set belongs to a handler that has left its loop and has
\* no user any more.
THEOREM EndedRowsAreQuiet == Spec => []EndedIsQuiet
<1>1. IndInv => EndedIsQuiet
  BY DEF IndInv, HandlerInv
<1> QED
  BY <1>1, Invariance, PTL

\* Only a database or broker fault leaves a row open behind its handler.
THEOREM OrphansNeedFaults == Spec => []OrphanNeedsFault
<1>1. IndInv => OrphanNeedsFault
  BY DEF IndInv, HandlerInv, StrandedIsFaulted, Stranded, OrphanNeedsFault
<1> QED
  BY <1>1, Invariance, PTL

\* An event that one position of a trail holds and no other counts once.
LEMMA CountedOnce ==
  ASSUME NEW c, NEW ev, NEW j \in 1..Len(trail[c]),
         \A i \in 1..Len(trail[c]) : trail[c][i] = ev <=> i = j
  PROVE  EventCount(c, ev) = 1
<1>1. {i \in 1..Len(trail[c]) : trail[c][i] = ev} = {j}
  OBVIOUS
<1> QED
  BY <1>1, FS_Singleton DEF EventCount

\* A session no fault has touched ends with a complete record, whatever the
\* reaper, the administrators and the other connections did meanwhile: one
\* refusal and no row, or an ended row with one session.start, first, and one
\* session.end.
THEOREM DoneSessionsAreAccounted == Spec => []DoneIsAccounted
<1>1. ASSUME IndInv, NEW c \in Conns, pc[c] = "done", c \notin faulted PROVE Accounted(c)
  <2>1. \/ rows[c].state = "none" /\ Refused(trail[c])
        \/ rows[c].state = "ended" /\ Begun(trail[c]) /\ Closed(trail[c])
    BY <1>1 DEF IndInv, TrailInv, TrailFits, TrailOrder, TrailComplete
  <2>2. CASE rows[c].state = "none" /\ Refused(trail[c])
    BY <2>2 DEF Accounted, Refused
  <2>3. CASE rows[c].state = "ended" /\ Begun(trail[c]) /\ Closed(trail[c])
    <3>1. Len(trail[c]) \in Nat
      BY <1>1 DEF IndInv, TypeOK
    <3>2. 1 \in 1..Len(trail[c]) /\ trail[c][1] = "session.start"
      BY <2>3, <3>1 DEF Begun
    <3>3. EventCount(c, "session.start") = 1
      BY <2>3, <3>2, CountedOnce DEF Begun
    <3>4. EventCount(c, "session.end") = 1
      BY <2>3, CountedOnce DEF Closed
    <3> QED
      BY <2>3, <3>2, <3>3, <3>4 DEF Accounted
  <2> QED
    BY <2>1, <2>2, <2>3
<1>2. IndInv => DoneIsAccounted
  BY <1>1 DEF DoneIsAccounted
<1> QED
  BY <1>2, Invariance, PTL

\* CreateSession, EndSession and RequestSessionTermination, from whichever
\* process and in whatever order, move a row forward only.
THEOREM RowsOnlyMoveForward == Spec => RowsMoveForward
<1> DEFINE Forward == \A c \in Conns : RowStepForward(c)
<1>1. IndInv /\ [Next]_vars => [Forward]_rows
  <2> SUFFICES ASSUME IndInv, [Next]_vars, rows' # rows, NEW d \in Conns
               PROVE  RowStepForward(d)
    OBVIOUS
  <2>1. PICK c \in Conns : RowWrite(c)
    BY RowWriters
  <2>2. pc[c] = "start" => rows[c].state = "none"
    BY DEF IndInv, HandlerInv, EarlyIsBlank, Early, NoRow
  <2>3. pc[c] = "ending" => rows[c].state = "open"
    BY DEF IndInv, HandlerInv, IdHeld, OpenUntilEnd
  <2>4. CASE c = d
    BY <2>1, <2>2, <2>3, <2>4 DEF RowWrite, IndInv, TypeOK, RowStepForward
  <2>5. CASE c # d
    BY <2>1, <2>5 DEF RowWrite, IndInv, TypeOK, RowStepForward
  <2> QED
    BY <2>4, <2>5
<1> QED
  BY <1>1, Invariance, PTL DEF Spec, RowsMoveForward

-----------------------------------------------------------------------------
(* The broker implements SessionLedger *)

\* What the ledger sees of the sessions table and of the connections.
RowOf == [c \in Conns |-> rows[c].state]
Flagged == {c \in Conns : rows[c].terminate}
User == {c \in Conns : userOpen[c]}
Target == {c \in Conns : targetOpen[c]}

\* The actions of the ledger, over that view.
LEMMA LedgerSteps ==
  ASSUME NEW c \in Conns
  PROVE  /\ UNCHANGED <<RowOf, Flagged, trail>> /\ RowOf[c] = "none"
            /\ (\/ User' = User \cup {c} /\ UNCHANGED Target
                \/ Target' = Target \cup {c} /\ UNCHANGED User) => Ledger!Connect(c)
         /\ UNCHANGED <<RowOf, Flagged, trail>>
            /\ User' \subseteq User /\ Target' \subseteq Target => Ledger!Disconnect
         /\ UNCHANGED <<Flagged, User, Target, trail>> /\ RowOf[c] = "none"
            /\ RowOf' = [RowOf EXCEPT ![c] = "open"] => Ledger!Open(c)
         /\ UNCHANGED <<Flagged, User, Target, trail>> /\ RowOf[c] = "open" /\ c \notin User
            /\ RowOf' = [RowOf EXCEPT ![c] = "ended"] => Ledger!End(c)
         /\ UNCHANGED <<RowOf, User, Target, trail>> /\ RowOf[c] = "open"
            /\ Flagged' = Flagged \cup {c} => Ledger!Flag(c)
         /\ UNCHANGED <<RowOf, Flagged, User, Target>> => \A ev : Log(c, ev) => Ledger!Write(c, ev)
  BY DEF Ledger!Connect, Ledger!Disconnect, Ledger!Open, Ledger!End, Ledger!Flag, Ledger!Write,
     Log, RowOf, Flagged, User, Target

\* What is written, and when the ledger lets it be written.
LEMMA LedgerWrites ==
  ASSUME NEW c \in Conns
  PROVE  /\ RowOf[c] = "none" /\ trail[c] = <<>> =>
              \A ev \in RejectEvents : Ledger!Write(c, ev) => Ledger!Refuse(c)
         /\ RowOf[c] = "open" /\ trail[c] = <<>> /\ Ledger!Write(c, "session.start")
              => Ledger!Start(c)
         /\ c \in Flagged /\ c \notin User \cup Target /\ Ledger!Write(c, "session.killed")
              => Ledger!Kill(c)
         /\ RowOf[c] = "ended" /\ Unclosed(trail[c]) /\ Ledger!Write(c, "session.end")
              => Ledger!Finish(c)
  BY DEF Ledger!Refuse, Ledger!Start, Ledger!Kill, Ledger!Finish, RejectEvents, Unclosed,
     RowOf, Flagged, User, Target

\* A step that the ledger does not see.
LEMMA LedgerStutter ==
  UNCHANGED <<RowOf, Flagged, User, Target, trail>> => UNCHANGED Ledger!vars
  BY DEF Ledger!vars, RowOf, Flagged, User, Target

\* How writes of rows and connections show in the view.
LEMMA ViewOfRows ==
  ASSUME TypeOK, NEW c \in Conns
  PROVE  /\ rows[c] = NoRow /\ rows' = [rows EXCEPT ![c] = SessionStart(c)] =>
              RowOf' = [RowOf EXCEPT ![c] = "open"] /\ Flagged' = Flagged
         /\ rows' = [rows EXCEPT ![c].state = "ended"] =>
              RowOf' = [RowOf EXCEPT ![c] = "ended"] /\ Flagged' = Flagged
         /\ rows' = [rows EXCEPT ![c].terminate = TRUE] =>
              RowOf' = RowOf /\ Flagged' = Flagged \cup {c}
         /\ UNCHANGED rows => UNCHANGED <<RowOf, Flagged>>
         /\ RowOf[c] = rows[c].state
<1>1. ASSUME rows[c] = NoRow, rows' = [rows EXCEPT ![c] = SessionStart(c)]
      PROVE  RowOf' = [RowOf EXCEPT ![c] = "open"] /\ Flagged' = Flagged
  <2>1. rows'[c] = SessionStart(c) /\ \A d \in Conns : d # c => rows'[d] = rows[d]
    BY <1>1 DEF TypeOK
  <2>2. ~rows[c].terminate /\ ~rows'[c].terminate /\ rows'[c].state = "open"
    BY <1>1, <2>1 DEF NoRow, SessionStart
  <2> QED
    BY <2>1, <2>2 DEF RowOf, Flagged
<1>2. ASSUME rows' = [rows EXCEPT ![c].state = "ended"]
      PROVE  RowOf' = [RowOf EXCEPT ![c] = "ended"] /\ Flagged' = Flagged
  <2>1. \A d \in Conns : /\ rows'[d].terminate = rows[d].terminate
                         /\ rows'[d].state = IF d = c THEN "ended" ELSE rows[d].state
    BY <1>2 DEF TypeOK, Rows
  <2> QED
    BY <2>1 DEF RowOf, Flagged
<1>3. ASSUME rows' = [rows EXCEPT ![c].terminate = TRUE]
      PROVE  RowOf' = RowOf /\ Flagged' = Flagged \cup {c}
  <2>1. \A d \in Conns : /\ rows'[d].state = rows[d].state
                         /\ rows'[d].terminate = IF d = c THEN TRUE ELSE rows[d].terminate
    BY <1>3 DEF TypeOK, Rows
  <2> QED
    BY <2>1 DEF RowOf, Flagged
<1>4. UNCHANGED rows => UNCHANGED <<RowOf, Flagged>>
  BY DEF RowOf, Flagged
<1> QED
  BY <1>1, <1>2, <1>3, <1>4 DEF RowOf

\* A connection that opens or closes comes or goes in the view.
LEMMA ViewOfConnections ==
  ASSUME TypeOK, NEW c \in Conns
  PROVE  /\ userOpen' = [userOpen EXCEPT ![c] = TRUE] => User' = User \cup {c}
         /\ userOpen' = [userOpen EXCEPT ![c] = FALSE] => User' \subseteq User
         /\ UNCHANGED userOpen => UNCHANGED User
         /\ targetOpen' = [targetOpen EXCEPT ![c] = TRUE] => Target' = Target \cup {c}
         /\ targetOpen' = [targetOpen EXCEPT ![c] = FALSE] => Target' \subseteq Target
         /\ UNCHANGED targetOpen => UNCHANGED Target
         /\ c \in User <=> userOpen[c]
         /\ c \in Target <=> targetOpen[c]
<1>1. ASSUME NEW b \in BOOLEAN, userOpen' = [userOpen EXCEPT ![c] = b]
      PROVE  \A d \in Conns : userOpen'[d] = IF d = c THEN b ELSE userOpen[d]
  BY <1>1 DEF TypeOK
<1>2. ASSUME NEW b \in BOOLEAN, targetOpen' = [targetOpen EXCEPT ![c] = b]
      PROVE  \A d \in Conns : targetOpen'[d] = IF d = c THEN b ELSE targetOpen[d]
  BY <1>2 DEF TypeOK
<1>3. userOpen' = [userOpen EXCEPT ![c] = TRUE] => User' = User \cup {c}
  BY <1>1 DEF User
<1>4. userOpen' = [userOpen EXCEPT ![c] = FALSE] => User' \subseteq User
  BY <1>1 DEF User
<1>5. targetOpen' = [targetOpen EXCEPT ![c] = TRUE] => Target' = Target \cup {c}
  BY <1>2 DEF Target
<1>6. targetOpen' = [targetOpen EXCEPT ![c] = FALSE] => Target' \subseteq Target
  BY <1>2 DEF Target
<1>7. (UNCHANGED userOpen => UNCHANGED User) /\ (UNCHANGED targetOpen => UNCHANGED Target)
  BY DEF User, Target
<1> QED
  BY <1>3, <1>4, <1>5, <1>6, <1>7 DEF User, Target

\* A best-effort append is a write of the ledger, or the ledger stutters.
LEMMA AuditOrNothing ==
  ASSUME NEW c \in Conns, NEW ev, BestEffortAudit(c, ev), UNCHANGED <<RowOf, Flagged, User, Target>>
  PROVE  Ledger!Write(c, ev) \/ UNCHANGED Ledger!vars
  BY LedgerSteps, LedgerStutter DEF BestEffortAudit

\* Every step of a handler or of its peers is a step of the ledger, or none.
LEMMA HandlerKeepsLedger ==
  ASSUME IndInv, NEW c \in Conns, Handler(c) \/ Peers(c)
  PROVE  Ledger!Next \/ UNCHANGED Ledger!vars
<1> DEFINE Goal == Ledger!Next \/ UNCHANGED Ledger!vars
<1>0. TypeOK /\ TrailOrder(c)
  BY DEF IndInv, TrailInv, TrailFits
<1>1. pc[c] \in Early => rows[c] = NoRow /\ RowOf[c] = "none"
  <2>1. pc[c] \in Early => rows[c] = NoRow
    BY DEF IndInv, HandlerInv, EarlyIsBlank
  <2>2. rows[c] = NoRow => RowOf[c] = "none"
    BY DEF NoRow, RowOf
  <2> QED
    BY <2>1, <2>2
<1>2. UNCHANGED <<rows, userOpen, targetOpen>> => UNCHANGED <<RowOf, Flagged, User, Target>>
  BY <1>0, ViewOfRows, ViewOfConnections
<1>3. UNCHANGED <<rows, userOpen, targetOpen, trail>> => Goal
  BY <1>2, LedgerStutter
<1>4. ASSUME \/ Ledger!Connect(c) \/ Ledger!Disconnect \/ Ledger!Refuse(c) \/ Ledger!Open(c)
             \/ Ledger!Start(c) \/ Ledger!End(c) \/ Ledger!Finish(c)
      PROVE  Goal
  BY <1>4 DEF Ledger!Next
<1> USE DEF Step, connVars, dbVars
<1>5. CASE Authorize(c) \/ Register(c) \/ LeaveLoop(c) \/ Unregister(c) \/ OpenChannel(c)
           \/ EndChannel(c)
  BY <1>3, <1>5 DEF Authorize, Register, LeaveLoop, Unregister, OpenChannel, EndChannel
<1>6. ASSUME NEW a \in Accounts, Authenticate(c, a) PROVE Goal
  <2>1. RowOf[c] = "none"
    BY <1>1, <1>6 DEF Authenticate, Early
  <2>2. User' = User \cup {c} /\ UNCHANGED <<RowOf, Flagged, Target, trail>>
    BY <1>0, <1>6, ViewOfRows, ViewOfConnections DEF Authenticate
  <2> QED
    BY <1>4, <2>1, <2>2, LedgerSteps
<1>7. CASE ConnectTarget(c)
  <2>1. RowOf[c] = "none"
    BY <1>1, <1>7 DEF ConnectTarget, Early
  <2>2. Target' = Target \cup {c} /\ UNCHANGED <<RowOf, Flagged, User, trail>>
    BY <1>0, <1>7, ViewOfRows, ViewOfConnections DEF ConnectTarget
  <2> QED
    BY <1>4, <2>1, <2>2, LedgerSteps
<1>8. CASE Reject(c)
  <2>1. PICK ev \in RejectEvents : BestEffortAudit(c, ev)
    BY <1>8 DEF Reject, RejectEvents
  <2>2. RowOf[c] = "none" /\ trail[c] = <<>>
    BY <1>0, <1>1, <1>8 DEF Reject, TrailOrder, Early
  <2>3. Ledger!Write(c, ev) \/ UNCHANGED Ledger!vars
    BY <1>2, <1>8, <2>1, AuditOrNothing DEF Reject
  <2> QED
    BY <1>4, <2>2, <2>3, LedgerWrites
<1>9. ASSUME pc[c] = "start", rows' = [rows EXCEPT ![c] = SessionStart(c)],
             UNCHANGED <<userOpen, targetOpen, trail>>
      PROVE  Goal
  <2>1. rows[c] = NoRow /\ RowOf[c] = "none"
    BY <1>1, <1>9 DEF Early
  <2>2. RowOf' = [RowOf EXCEPT ![c] = "open"] /\ UNCHANGED <<Flagged, User, Target, trail>>
    BY <1>0, <1>9, <2>1, ViewOfRows, ViewOfConnections
  <2> QED
    BY <1>4, <2>1, <2>2, LedgerSteps
<1>10. CASE CreateSession(c) \/ CreateSessionError(c)
  BY <1>3, <1>9, <1>10 DEF CreateSession, CreateSessionError
<1>11. CASE AuditStart(c)
  <2>1. RowOf[c] = "open" /\ trail[c] = <<>>
    BY <1>0, <1>11, ViewOfRows DEF AuditStart, TrailOrder, IndInv, HandlerInv, IdHeld, OpenUntilEnd
  <2>2. Ledger!Write(c, "session.start") \/ UNCHANGED Ledger!vars
    BY <1>2, <1>11, AuditOrNothing DEF AuditStart
  <2> QED
    BY <1>4, <2>1, <2>2, LedgerWrites
<1>12. ASSUME pc[c] = "ending", rows' = [rows EXCEPT ![c].state = "ended"],
              UNCHANGED <<userOpen, targetOpen, trail>>
       PROVE  Goal
  <2>1. RowOf[c] = "open" /\ c \notin User
    BY <1>0, <1>12, ViewOfRows, ViewOfConnections
       DEF IndInv, HandlerInv, IdHeld, OpenUntilEnd, LateIsDetached, Late
  <2>2. RowOf' = [RowOf EXCEPT ![c] = "ended"] /\ UNCHANGED <<Flagged, User, Target, trail>>
    BY <1>0, <1>12, ViewOfRows, ViewOfConnections
  <2> QED
    BY <1>4, <2>1, <2>2, LedgerSteps
<1>13. CASE EndSession(c) \/ EndSessionError(c)
  BY <1>3, <1>12, <1>13 DEF EndSession, EndSessionError
<1>14. CASE AuditEnd(c)
  <2>1. RowOf[c] = "ended" /\ Unclosed(trail[c])
    BY <1>0, <1>14, ViewOfRows DEF AuditEnd, TrailOrder
  <2>2. Ledger!Write(c, "session.end") \/ UNCHANGED Ledger!vars
    BY <1>2, <1>14, AuditOrNothing DEF AuditEnd
  <2> QED
    BY <1>4, <2>1, <2>2, LedgerWrites
<1>15. CASE CloseTarget(c) \/ UserDisconnect(c) \/ TargetDrop(c)
  <2>1. UNCHANGED <<RowOf, Flagged, trail>> /\ User' \subseteq User /\ Target' \subseteq Target
    BY <1>0, <1>15, ViewOfRows, ViewOfConnections DEF CloseTarget, UserDisconnect, TargetDrop
  <2> QED
    BY <1>4, <2>1, LedgerSteps
<1> QED
  BY <1>5, <1>6, <1>7, <1>8, <1>10, <1>11, <1>13, <1>14, <1>15 DEF Handler, Peers

\* The reaper kills what the ledger lets it kill, and audits only that.
LEMMA ReaperKeepsLedger ==
  ASSUME IndInv, Reaper
  PROVE  Ledger!Next \/ UNCHANGED Ledger!vars
<1> DEFINE Goal == Ledger!Next \/ UNCHANGED Ledger!vars
<1>0. TypeOK
  BY DEF IndInv
<1>1. CASE ReaperAudit
  <2> DEFINE v == reaper.victim
  <2>1. v \in Conns /\ rows[v].terminate /\ ~userOpen[v] /\ ~targetOpen[v]
    BY <1>1 DEF ReaperAudit, IndInv, KillInv, ReaperJustified
  <2>2. v \in Flagged /\ v \notin User \cup Target
    BY <2>1 DEF Flagged, User, Target
  <2>3. UNCHANGED <<RowOf, Flagged, User, Target>>
    BY <1>1 DEF ReaperAudit, connVars, RowOf, Flagged, User, Target
  <2>4. Log(v, "session.killed") \/ UNCHANGED trail
    BY <1>1 DEF ReaperAudit
  <2>5. Ledger!Kill(v) \/ UNCHANGED Ledger!vars
    BY <2>1, <2>2, <2>3, <2>4, LedgerSteps, LedgerWrites, LedgerStutter
  <2> QED
    BY <2>1, <2>5 DEF Ledger!Next
<1>2. ASSUME NEW c \in Conns, ReaperKill(c) PROVE Goal
  <2>1. UNCHANGED <<RowOf, Flagged, trail>> /\ User' \subseteq User /\ Target' \subseteq Target
    BY <1>0, <1>2, ViewOfRows, ViewOfConnections DEF ReaperKill, dbVars
  <2> QED
    BY <2>1, LedgerSteps DEF Ledger!Next
<1>3. CASE UNCHANGED <<connVars, dbVars>>
  <2>1. UNCHANGED <<RowOf, Flagged, User, Target, trail>>
    BY <1>3 DEF connVars, dbVars, RowOf, Flagged, User, Target
  <2> QED
    BY <2>1, LedgerStutter
<1> QED
  BY <1>1, <1>2, <1>3 DEF Reaper, ReaperLoop, ReaperTick, ReaperQuery, ReaperQueryError,
     ReaperMiss, ReaperDone

\* The broker keeps the ledger, for any number of connections and accounts,
\* whatever the database, the peers, the administrators and the process do.
THEOREM Refinement == Spec => ImplementsLedger
<1>1. Init => Ledger!Init
  BY DEF Init, Ledger!Init, NoRow
<1>2. IndInv /\ [Next]_vars => [Ledger!Next]_(Ledger!vars)
  <2> SUFFICES ASSUME IndInv, [Next]_vars
               PROVE  Ledger!Next \/ UNCHANGED Ledger!vars
    OBVIOUS
  <2>0. TypeOK
    BY DEF IndInv
  <2>1. ASSUME NEW c \in Conns, Handler(c) \/ Peers(c)
        PROVE  Ledger!Next \/ UNCHANGED Ledger!vars
    BY <2>1, HandlerKeepsLedger
  <2>2. CASE Reaper
    BY <2>2, ReaperKeepsLedger
  <2>3. ASSUME NEW c \in Conns, RequestTermination(c) PROVE Ledger!Next
    <3>1. /\ Flagged' = Flagged \cup {c} /\ RowOf[c] = "open"
          /\ UNCHANGED <<RowOf, User, Target, trail>>
      BY <2>0, <2>3, ViewOfRows, ViewOfConnections DEF RequestTermination, connVars
    <3> QED
      BY <3>1, LedgerSteps DEF Ledger!Next
  <2>4. CASE Exit
    <3>1. UNCHANGED <<RowOf, Flagged, trail>> /\ User' = {} /\ Target' = {}
      BY <2>4 DEF Exit, dbVars, RowOf, Flagged, User, Target
    <3>2. Ledger!Disconnect
      BY <3>1 DEF Ledger!Disconnect, RowOf, Flagged, User, Target
    <3> QED
      BY <3>2 DEF Ledger!Next
  <2>5. CASE UNCHANGED <<connVars, rows, trail>>
    <3>1. UNCHANGED <<RowOf, Flagged, User, Target, trail>>
      BY <2>5 DEF connVars, RowOf, Flagged, User, Target
    <3> QED
      BY <3>1, LedgerStutter
  <2>6. ASSUME NEW a \in Accounts, NEW st \in {"active", "disabled"}, SetAccountStatus(a, st)
        PROVE  UNCHANGED <<connVars, rows, trail>>
    BY <2>6 DEF SetAccountStatus
  <2>7. ASSUME Shutdown \/ Restart \/ UNCHANGED vars PROVE UNCHANGED <<connVars, rows, trail>>
    BY <2>7 DEF Shutdown, Restart, vars, dbVars
  <2> QED
    BY <2>1, <2>2, <2>3, <2>4, <2>5, <2>6, <2>7 DEF Next, Admins, Process
<1> QED
  BY <1>1, <1>2, Invariance, PTL DEF Spec, ImplementsLedger, Ledger!Spec
=============================================================================
