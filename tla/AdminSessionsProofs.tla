------------------------ MODULE AdminSessionsProofs ------------------------
(***************************************************************************)
(* Safety of break-glass sessions and of the management trail for any      *)
(* number of administrators, sessions and requests, any expiry times and   *)
(* any difference between the two clocks.                                  *)
(*                                                                         *)
(* The argument: a session that is handed out has its row, and a row that  *)
(* is revoked or expired stays so, because every UPDATE names one column.  *)
(* Only a request whose lookup has found the session in time writes        *)
(* last_seen_at, so a session that is idle with none of those on its way   *)
(* stays idle.  So the session of a late request is still no good when its *)
(* SELECT runs.                                                            *)
(***************************************************************************)
EXTENDS AdminSessions, TLAPS

\* The invariant holds before the first login.
LEMMA InitHolds == Init => IndInv
<1> SUFFICES ASSUME Init PROVE IndInv
  OBVIOUS
<1>1. TypeOK
  BY TimeAssumption DEF Init, TypeOK, NoRow
<1>2. LateIsStuck /\ StageMatches /\ RowsAreDated
  BY DEF Init, LateIsStuck, StageMatches, RowsAreDated, NoRow
<1>3. LateIsRefused /\ EventsMatch /\ MutationsArePermitted
  BY DEF Init, LateIsRefused, EventsMatch, MutationsArePermitted
<1> QED
  BY <1>1, <1>2, <1>3 DEF IndInv

\* A touch changes nothing but the last use of its own session.
LEMMA SeenStep ==
  ASSUME NEW T, NEW f \in [Sessions -> [state: T, expires: Int, seen: Int]],
         NEW g, NEW c, NEW v \in Int, g = [f EXCEPT ![c].seen = v]
  PROVE  /\ g \in [Sessions -> [state: T, expires: Int, seen: Int]]
         /\ \A k \in Sessions : /\ g[k].expires = f[k].expires /\ g[k].state = f[k].state
                                /\ g[k].seen = f[k].seen \/ (k = c /\ g[k].seen = v)
<1> DEFINE R == [state: T, expires: Int, seen: Int]
<1>1. ASSUME NEW k \in Sessions
      PROVE  /\ g[k] \in R
             /\ g[k].expires = f[k].expires /\ g[k].state = f[k].state
             /\ g[k].seen = f[k].seen \/ (k = c /\ g[k].seen = v)
  <2>0. f[k] \in R
    BY <1>1
  <2>1. CASE k = c
    <3>1. g[k] = [f[k] EXCEPT !.seen = v]
      BY <1>1, <2>1
    <3> QED
      BY <2>0, <2>1, <3>1
  <2>2. CASE k # c
    <3>1. g[k] = f[k]
      BY <1>1, <2>2
    <3> QED
      BY <2>0, <3>1
  <2> QED
    BY <2>1, <2>2
<1>2. g \in [Sessions -> R]
  <2>1. DOMAIN g = Sessions /\ g = [k \in Sessions |-> g[k]]
    OBVIOUS
  <2> HIDE DEF R
  <2> QED
    BY <1>1, <2>1
<1> QED
  BY <1>1, <1>2

\* Every step keeps the types.
LEMMA TypeNext == TypeOK /\ [Next]_vars => TypeOK'
<1> SUFFICES ASSUME TypeOK, [Next]_vars PROVE TypeOK'
  OBVIOUS
<1> USE DEF TypeOK, Step, adminVars, sessionVars, requestVars, effectVars
<1>1. CASE UNCHANGED vars
  BY <1>1 DEF vars
<1>2. CASE Tick
  BY <1>2 DEF Tick
<1>3. ASSUME NEW k \in Sessions, CheckPassword(k) PROVE TypeOK'
  BY <1>3 DEF CheckPassword
<1>4. ASSUME NEW k \in Sessions, CreateAdminSession(k) PROVE TypeOK'
  BY <1>4, TimeAssumption DEF CreateAdminSession, DbNow
<1>5. ASSUME NEW k \in Sessions, RevokeAdminSession(k) PROVE TypeOK'
  BY <1>5 DEF RevokeAdminSession
<1>6. ASSUME NEW a \in Admins, NEW st \in {"active", "disabled"}, SetLocalAdminStatus(a, st)
      PROVE  TypeOK'
  BY <1>6 DEF SetLocalAdminStatus
<1>7. ASSUME NEW a \in Admins, NEW ro \in Roles, UpsertLocalAdmin(a, ro) PROVE TypeOK'
  BY <1>7 DEF UpsertLocalAdmin
<1>8. ASSUME NEW r \in Requests, NEW k \in held \cup {Null}, NEW ro \in Roles \cup {Null},
             Arrive(r, k, ro)
      PROVE  TypeOK'
  BY <1>8 DEF Arrive
<1>9. ASSUME NEW r \in Requests, SelectSession(r) PROVE TypeOK'
  BY <1>9 DEF SelectSession
<1>10. ASSUME NEW r \in Requests, NoSession(r) PROVE TypeOK'
  BY <1>10 DEF NoSession, FallBack
<1>11. ASSUME NEW r \in Requests, ExpireIdle(r) PROVE TypeOK'
  BY <1>11 DEF ExpireIdle, FallBack
<1>12. ASSUME NEW r \in Requests, Touch(r) PROVE TypeOK'
  <2>1. row' \in [Sessions -> [state: {"none", "live", "revoked"}, expires: Int, seen: Int]]
    <3>1. row' = row \/ row' = [row EXCEPT ![cookie[r]].seen = stamp[r]]
      BY <1>12 DEF Touch
    <3>2. /\ row \in [Sessions -> [state: {"none", "live", "revoked"}, expires: Int, seen: Int]]
          /\ stamp[r] \in Int
      BY <1>12
    <3> HIDE DEF TypeOK
    <3> QED
      BY <3>1, <3>2, SeenStep
  <2>2. stamp' \in [Requests -> Int]
    BY <1>12 DEF Touch
  <2> QED
    BY <1>12, <2>1, <2>2 DEF Touch
<1>13. ASSUME NEW r \in Requests, Guard(r) PROVE TypeOK'
  BY <1>13 DEF Guard, BestEffortAudit
<1>14. ASSUME NEW r \in Requests, Mutate(r) PROVE TypeOK'
  BY <1>14 DEF Mutate
<1>15. ASSUME NEW r \in Requests, Audit(r) PROVE TypeOK'
  BY <1>15 DEF Audit, BestEffortAudit
<1>16. ASSUME NEW r \in Requests, StartTouch(r) PROVE TypeOK'
  BY <1>16, TimeAssumption DEF StartTouch, DbNow
<1> QED
  BY <1>1, <1>2, <1>3, <1>4, <1>5, <1>6, <1>7, <1>8, <1>9, <1>10, <1>11, <1>12, <1>13, <1>14, <1>15,
     <1>16 DEF Next, Operators, Handle

\* Every step keeps rows dated and logins ahead of their rows.
LEMMA RowsNext ==
  IndInv /\ [Next]_vars => RowsAreDated'
<1> DEFINE Goal == RowsAreDated
<1> SUFFICES ASSUME IndInv, [Next]_vars PROVE Goal'
  OBVIOUS
<1> USE TimeAssumption DEF IndInv, TypeOK, Step, adminVars, sessionVars, requestVars,
        effectVars, RowsAreDated, SeenTimes, StageMatches, DbNow
<1>1. CASE UNCHANGED vars
  BY <1>1 DEF vars
<1>2. CASE Tick
  BY <1>2 DEF Tick
<1>3. ASSUME NEW k \in Sessions, CheckPassword(k) PROVE Goal'
  BY <1>3 DEF CheckPassword
<1>4. ASSUME NEW k \in Sessions, CreateAdminSession(k) PROVE Goal'
  BY <1>4 DEF CreateAdminSession, DbNow
<1>5. ASSUME NEW k \in Sessions, RevokeAdminSession(k) PROVE Goal'
  BY <1>5 DEF RevokeAdminSession
<1>6. ASSUME NEW a \in Admins, NEW st \in {"active", "disabled"}, SetLocalAdminStatus(a, st)
      PROVE  Goal'
  BY <1>6 DEF SetLocalAdminStatus
<1>7. ASSUME NEW a \in Admins, NEW ro \in Roles, UpsertLocalAdmin(a, ro) PROVE Goal'
  BY <1>7 DEF UpsertLocalAdmin
<1>8. ASSUME NEW r \in Requests, NEW k \in held \cup {Null}, NEW ro \in Roles \cup {Null},
             Arrive(r, k, ro)
      PROVE  Goal'
  BY <1>8 DEF Arrive
<1>9. ASSUME NEW r \in Requests, SelectSession(r) PROVE Goal'
  BY <1>9 DEF SelectSession, Valid, NoGood, Dead
<1>10. ASSUME NEW r \in Requests, NoSession(r) PROVE Goal'
  BY <1>10 DEF NoSession, FallBack
<1>11. ASSUME NEW r \in Requests, ExpireIdle(r) PROVE Goal'
  <2>1. \A k \in Sessions : /\ row'[k].expires = row[k].expires /\ row'[k].seen = row[k].seen
                            /\ row'[k].state = "none" <=> row[k].state = "none"
    BY <1>11 DEF ExpireIdle
  <2>2. UNCHANGED <<now, skew, login, held, stamp, cookie>>
    BY <1>11 DEF ExpireIdle
  <2>3. \A q \in Requests : pc'[q] = "update" => pc[q] = "update"
    BY <1>11 DEF ExpireIdle, FallBack
  <2> QED
    BY <2>1, <2>2, <2>3
<1>12. ASSUME NEW r \in Requests, Touch(r) PROVE Goal'
  <2>1. \A k \in Sessions : /\ row'[k].expires = row[k].expires /\ row'[k].state = row[k].state
                            /\ row'[k].seen = row[k].seen \/ (k = cookie[r] /\ row'[k].seen = stamp[r])
    <3>1. row' = row \/ row' = [row EXCEPT ![cookie[r]].seen = stamp[r]]
      BY <1>12 DEF Touch
    <3>2. CASE row' = [row EXCEPT ![cookie[r]].seen = stamp[r]]
      <4>1. row \in [Sessions -> [state: {"none", "live", "revoked"}, expires: Int, seen: Int]]
        OBVIOUS
      <4>2. stamp[r] \in Int
        OBVIOUS
      <4> HIDE DEF IndInv, TypeOK, RowsAreDated, SeenTimes, StageMatches, DbNow
      <4> QED
        BY <3>2, <4>1, <4>2, SeenStep
    <3>3. CASE row' = row
      BY <3>3
    <3> QED
      BY <3>1, <3>2, <3>3
  <2>2. UNCHANGED <<now, skew, login, held, cookie>> /\ pc[r] = "update"
    BY <1>12 DEF Touch
  <2>3. \A q \in Requests : pc'[q] = "update" => pc[q] = "update" /\ stamp'[q] = stamp[q]
    BY <1>12 DEF Touch
  <2>4. \A k \in Sessions : SeenTimes(k)' = SeenTimes(k)
    BY <2>1, <2>2
  <2>5. \A q \in Requests : pc[q] = "update" =>
          cookie[q] \in Sessions /\ stamp[q] \in SeenTimes(cookie[q])
    OBVIOUS
  <2>6. \A k \in Sessions : row[k].state # "none" => row[k].seen \in SeenTimes(k)
    OBVIOUS
  <2> HIDE DEF SeenTimes
  <2> QED
    BY <2>1, <2>2, <2>3, <2>4, <2>5, <2>6
<1>13. ASSUME NEW r \in Requests, Guard(r) PROVE Goal'
  BY <1>13 DEF Guard, BestEffortAudit, Can, Roles
<1>14. ASSUME NEW r \in Requests, Mutate(r) PROVE Goal'
  BY <1>14 DEF Mutate
<1>15. ASSUME NEW r \in Requests, Audit(r) PROVE Goal'
  BY <1>15 DEF Audit, BestEffortAudit
<1>16. ASSUME NEW r \in Requests, StartTouch(r) PROVE Goal'
  BY <1>16 DEF StartTouch
<1> HIDE DEF IndInv, TypeOK, Goal
<1> QED
  BY <1>1, <1>2, <1>3, <1>4, <1>5, <1>6, <1>7, <1>8, <1>9, <1>10, <1>11, <1>12, <1>13, <1>14, <1>15,
     <1>16 DEF Next, Operators, Handle

\* Every step keeps a request's deeds and the trail in step with its stage.
LEMMA StageNext ==
  IndInv /\ [Next]_vars => StageMatches' /\ EventsMatch' /\ MutationsArePermitted'
<1> DEFINE Goal == StageMatches /\ EventsMatch /\ MutationsArePermitted
<1> SUFFICES ASSUME IndInv, [Next]_vars PROVE Goal'
  OBVIOUS
<1> USE NullAssumption DEF IndInv, TypeOK, Step, adminVars, sessionVars, requestVars, effectVars,
        StageMatches, EventsMatch, MutationsArePermitted, Can
<1>1. CASE UNCHANGED vars
  BY <1>1 DEF vars
<1>2. CASE Tick
  BY <1>2 DEF Tick
<1>3. ASSUME NEW k \in Sessions, CheckPassword(k) PROVE Goal'
  BY <1>3 DEF CheckPassword
<1>4. ASSUME NEW k \in Sessions, CreateAdminSession(k) PROVE Goal'
  BY <1>4 DEF CreateAdminSession, DbNow
<1>5. ASSUME NEW k \in Sessions, RevokeAdminSession(k) PROVE Goal'
  BY <1>5 DEF RevokeAdminSession
<1>6. ASSUME NEW a \in Admins, NEW st \in {"active", "disabled"}, SetLocalAdminStatus(a, st)
      PROVE  Goal'
  BY <1>6 DEF SetLocalAdminStatus
<1>7. ASSUME NEW a \in Admins, NEW ro \in Roles, UpsertLocalAdmin(a, ro) PROVE Goal'
  BY <1>7 DEF UpsertLocalAdmin
<1>8. ASSUME NEW r \in Requests, NEW k \in held \cup {Null}, NEW ro \in Roles \cup {Null},
             Arrive(r, k, ro)
      PROVE  Goal'
  BY <1>8 DEF Arrive
<1>9. ASSUME NEW r \in Requests, SelectSession(r) PROVE Goal'
  BY <1>9 DEF SelectSession, Valid, NoGood, Dead
<1>10. ASSUME NEW r \in Requests, NoSession(r) PROVE Goal'
  BY <1>10 DEF NoSession, FallBack
<1>11. ASSUME NEW r \in Requests, ExpireIdle(r) PROVE Goal'
  BY <1>11 DEF ExpireIdle, FallBack
<1>12. ASSUME NEW r \in Requests, Touch(r) PROVE Goal'
  BY <1>12 DEF Touch, DbNow
<1>13. ASSUME NEW r \in Requests, Guard(r) PROVE Goal'
  BY <1>13 DEF Guard, BestEffortAudit, Can, Roles
<1>14. ASSUME NEW r \in Requests, Mutate(r) PROVE Goal'
  BY <1>14 DEF Mutate
<1>15. ASSUME NEW r \in Requests, Audit(r) PROVE Goal'
  BY <1>15 DEF Audit, BestEffortAudit
<1>16. ASSUME NEW r \in Requests, StartTouch(r) PROVE Goal'
  BY <1>16 DEF StartTouch
<1> HIDE DEF IndInv, TypeOK, Goal
<1> QED
  BY <1>1, <1>2, <1>3, <1>4, <1>5, <1>6, <1>7, <1>8, <1>9, <1>10, <1>11, <1>12, <1>13, <1>14, <1>15,
     <1>16 DEF Next, Operators, Handle

\* Every step leaves a late request without its session.
LEMMA LateNext ==
  IndInv /\ [Next]_vars => LateIsStuck' /\ LateIsRefused'
<1> DEFINE Goal == LateIsStuck /\ LateIsRefused
<1> SUFFICES ASSUME IndInv, [Next]_vars PROVE Goal'
  OBVIOUS
<1> USE NullAssumption, TimeAssumption DEF IndInv, TypeOK, Step, adminVars, sessionVars, requestVars, effectVars,
        LateIsStuck, LateIsRefused, RowsAreDated, StageMatches, NoGood, Dead, Idled, DbNow
<1>1. CASE UNCHANGED vars
  BY <1>1 DEF vars
<1>2. CASE Tick
  BY <1>2 DEF Tick
<1>3. ASSUME NEW k \in Sessions, CheckPassword(k) PROVE Goal'
  BY <1>3 DEF CheckPassword
<1>4. ASSUME NEW k \in Sessions, CreateAdminSession(k) PROVE Goal'
  BY <1>4 DEF CreateAdminSession, DbNow
<1>5. ASSUME NEW k \in Sessions, RevokeAdminSession(k) PROVE Goal'
  BY <1>5 DEF RevokeAdminSession
<1>6. ASSUME NEW a \in Admins, NEW st \in {"active", "disabled"}, SetLocalAdminStatus(a, st)
      PROVE  Goal'
  BY <1>6 DEF SetLocalAdminStatus
<1>7. ASSUME NEW a \in Admins, NEW ro \in Roles, UpsertLocalAdmin(a, ro) PROVE Goal'
  BY <1>7 DEF UpsertLocalAdmin
<1>8. ASSUME NEW r \in Requests, NEW k \in held \cup {Null}, NEW ro \in Roles \cup {Null},
             Arrive(r, k, ro)
      PROVE  Goal'
  BY <1>8 DEF Arrive
<1>9. ASSUME NEW r \in Requests, SelectSession(r) PROVE Goal'
  BY <1>9 DEF SelectSession, Valid, NoGood, Dead
<1>10. ASSUME NEW r \in Requests, NoSession(r) PROVE Goal'
  BY <1>10 DEF NoSession, FallBack
<1>11. ASSUME NEW r \in Requests, ExpireIdle(r) PROVE Goal'
  BY <1>11 DEF ExpireIdle, FallBack
<1>12. ASSUME NEW r \in Requests, Touch(r) PROVE Goal'
  <2>1. \A k \in Sessions : row'[k].state = row[k].state /\ row'[k].expires = row[k].expires
    BY <1>12 DEF Touch
  <2>2. \A k \in held : NoGood(k) => NoGood(k)'
    BY <1>12, <2>1 DEF Touch
  <2>3. r \notin late
    BY <1>12 DEF Touch
  <2> HIDE DEF NoGood
  <2> QED
    BY <1>12, <2>2, <2>3 DEF Touch
<1>13. ASSUME NEW r \in Requests, Guard(r) PROVE Goal'
  BY <1>13 DEF Guard, BestEffortAudit, Can
<1>14. ASSUME NEW r \in Requests, Mutate(r) PROVE Goal'
  BY <1>14 DEF Mutate
<1>15. ASSUME NEW r \in Requests, Audit(r) PROVE Goal'
  BY <1>15 DEF Audit, BestEffortAudit
<1>16. ASSUME NEW r \in Requests, StartTouch(r) PROVE Goal'
  BY <1>16 DEF StartTouch
<1> HIDE DEF IndInv, TypeOK, Goal
<1> QED
  BY <1>1, <1>2, <1>3, <1>4, <1>5, <1>6, <1>7, <1>8, <1>9, <1>10, <1>11, <1>12, <1>13, <1>14, <1>15,
     <1>16 DEF Next, Operators, Handle

\* In every reachable state requests, sessions and the trail agree.
THEOREM Invariance == Spec => []IndInv
<1>1. IndInv /\ [Next]_vars => IndInv'
  BY TypeNext, RowsNext, StageNext, LateNext DEF IndInv
<1> QED
  BY <1>1, InitHolds, PTL DEF Spec

\* A revoked, expired, idle or disabled break-glass session gives no later
\* request its admin's role, whatever other requests with the same cookie are
\* doing.
THEOREM LateRequestsAreRefused == Spec => []LateIsRefused
<1>1. IndInv => LateIsRefused
  BY DEF IndInv
<1> QED
  BY <1>1, Invariance, PTL

\* auditMW and require record no mutation that failed and no refusal of one that
\* happened, and without a fault they record every mutation; a recorded one may
\* have had nothing to change.
THEOREM TrailMatches == Spec => []EventsMatch
<1>1. IndInv => EventsMatch
  BY DEF IndInv
<1> QED
  BY <1>1, Invariance, PTL

\* No statement on admin_sessions revives a session, moves its expiry, or dates
\* its last use before its login or after now.
THEOREM RowsTighten == Spec => RowsOnlyTighten
<1> DEFINE Tightens == \A k \in Sessions : row[k].state # "none" =>
       /\ row'[k].expires = row[k].expires
       /\ row'[k].seen \in SeenTimes(k)
       /\ row'[k].state # row[k].state => row[k].state = "live" /\ row'[k].state = "revoked"
<1>1. IndInv /\ [Next]_vars => [Tightens]_row
  <2> SUFFICES ASSUME IndInv, [Next]_vars, row' # row PROVE Tightens
    OBVIOUS
  <2> USE TimeAssumption DEF IndInv, TypeOK, RowsAreDated, SeenTimes, StageMatches, DbNow, Step
  <2>1. ASSUME NEW k \in Sessions, CreateAdminSession(k) PROVE Tightens
    BY <2>1 DEF CreateAdminSession
  <2>2. ASSUME NEW k \in Sessions, RevokeAdminSession(k) PROVE Tightens
    BY <2>2 DEF RevokeAdminSession
  <2>3. ASSUME NEW r \in Requests, ExpireIdle(r) PROVE Tightens
    BY <2>3 DEF ExpireIdle
  <2>4. ASSUME NEW r \in Requests, Touch(r) PROVE Tightens
    BY <2>4 DEF Touch
  <2> HIDE DEF IndInv, TypeOK, RowsAreDated, StageMatches, Tightens
  <2> QED
    BY <2>1, <2>2, <2>3, <2>4
       DEF Next, Operators, Handle, vars, Tick, CheckPassword, SetLocalAdminStatus,
           UpsertLocalAdmin, Arrive, SelectSession, NoSession, StartTouch, Guard, Mutate, Audit, sessionVars
<1> QED
  BY <1>1, Invariance, PTL DEF Spec, RowsOnlyTighten
=============================================================================
