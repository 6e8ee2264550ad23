--------------------------- MODULE SshLoginProofs ---------------------------
(***************************************************************************)
(* Safety of the browser sign-in for any number of attempts and subjects,  *)
(* any timeout and any difference between the two clocks.                  *)
(*                                                                         *)
(* The argument: an attempt's row is decided by one conditional UPDATE and *)
(* consumed by another, so the row remembers the only decision ever made   *)
(* about the attempt; past Consume the attempt holds the subject of that   *)
(* decision.  No clock is needed for this.                                 *)
(***************************************************************************)
EXTENDS SshLogin, TLAPS

\* The invariant holds before the first attempt.
LEMMA InitHolds == Init => IndInv
<1> SUFFICES ASSUME Init PROVE IndInv
  OBVIOUS
<1>1. TypeOK
  BY DEF Init, TypeOK, PCs, NoRequest
<1>2. DecisionsMatch /\ StageMatches /\ AuditIsTruthful
  BY DEF Init, DecisionsMatch, StageMatches, AuditIsTruthful, NoRequest
<1> QED
  BY <1>1, <1>2 DEF IndInv

\* Every step keeps the types.
LEMMA TypeNext == TypeOK /\ [Next]_vars => TypeOK'
<1> SUFFICES ASSUME TypeOK, [Next]_vars PROVE TypeOK'
  OBVIOUS
<1> USE DEF TypeOK, Step, loginVars, auditVars, PCs, Waiting
<1>1. CASE UNCHANGED vars
  BY <1>1 DEF vars
<1>2. CASE Tick
  BY <1>2 DEF Tick
<1>3. ASSUME NEW a \in Attempts, Start(a) PROVE TypeOK'
  BY <1>3, TimeAssumption DEF Start
<1>4. ASSUME NEW a \in Attempts, Begin(a) PROVE TypeOK'
  BY <1>4, TimeAssumption DEF Begin, NewRequest
<1>5. ASSUME NEW a \in Attempts, Poll(a) PROVE TypeOK'
  BY <1>5 DEF Poll
<1>6. ASSUME NEW a \in Attempts, Consume(a) PROVE TypeOK'
  <2>1. \E to \in {"resolve", "refused"} : pc' = [pc EXCEPT ![a] = to]
    BY <1>6 DEF Consume
  <2>2. req' \in {req, [req EXCEPT ![a].status = "consumed"]}
        /\ who' \in {who, [who EXCEPT ![a] = req[a].subject]}
    BY <1>6 DEF Consume
  <2> QED
    BY <1>6, <2>1, <2>2 DEF Consume
<1>7. ASSUME NEW a \in Attempts, Resolve(a) PROVE TypeOK'
  BY <1>7 DEF Resolve
<1>8. ASSUME NEW a \in Attempts, JITCreateUser(a) PROVE TypeOK'
  BY <1>8 DEF JITCreateUser, WithUser, UserStates
<1>9. ASSUME NEW a \in Attempts, Reread(a) PROVE TypeOK'
  BY <1>9 DEF Reread
<1>10. ASSUME NEW a \in Attempts, Fail(a) PROVE TypeOK'
  <2>1. pc' = [pc EXCEPT ![a] = "refused"]
    BY <1>10 DEF Fail
  <2>2. /\ users' \in {users, WithUser(who[a])}
        /\ req' \in {req, [req EXCEPT ![a] = NewRequest], [req EXCEPT ![a].status = "consumed"]}
    BY <1>10 DEF Fail
  <2>3. users' = WithUser(who[a]) => users' \in [Subjects -> UserStates]
    BY DEF WithUser, UserStates
  <2>4. users' \in [Subjects -> UserStates]
    BY <2>2, <2>3
  <2> QED
    BY <1>10, <2>1, <2>2, <2>4, TimeAssumption DEF Fail, NewRequest
<1>11. ASSUME NEW a \in Attempts, Timeout(a) PROVE TypeOK'
  BY <1>11 DEF Timeout
<1>12. ASSUME NEW s \in Subjects, NEW a \in Attempts, NEW v \in {"approved", "denied"},
              Decide(s, a, v)
       PROVE  TypeOK'
  <2>1. <<v, s, a>> \in Decisions
    BY DEF Decisions
  <2>2. owed' \subseteq Decisions /\ decided' \subseteq Decisions
    BY <1>12, <2>1 DEF Decide
  <2> QED
    BY <1>12, <2>2 DEF Decide
<1>13. ASSUME NEW d \in owed, AuditDecision(d) PROVE TypeOK'
  BY <1>13 DEF AuditDecision
<1>14. ASSUME NEW s \in Subjects, NEW st \in {"active", "disabled"},
              CreateUser(s, st) \/ SetUserStatus(s, st) \/ DeleteUser(s)
       PROVE  TypeOK'
  BY <1>14 DEF CreateUser, SetUserStatus, DeleteUser, UserStates
<1>15. ASSUME NEW a \in Attempts, Challenge(a) PROVE TypeOK'
  BY <1>15 DEF Challenge
<1> QED
  BY <1>1, <1>2, <1>3, <1>4, <1>5, <1>6, <1>7, <1>8, <1>9, <1>10, <1>11, <1>12, <1>13, <1>14,
     <1>15 DEF Next, Login, Browser, Admins

\* Every step keeps attempts, rows and decisions in agreement.
LEMMA MatchNext ==
  IndInv /\ [Next]_vars => DecisionsMatch' /\ StageMatches' /\ AuditIsTruthful'
<1> DEFINE Match == DecisionsMatch /\ StageMatches /\ AuditIsTruthful
<1> SUFFICES ASSUME IndInv, [Next]_vars PROVE Match'
  OBVIOUS
<1> USE DEF IndInv, TypeOK, DecisionsMatch, StageMatches, AuditIsTruthful, Step, loginVars,
        auditVars
<1>1. CASE UNCHANGED vars
  BY <1>1 DEF vars
<1>2. CASE Tick
  BY <1>2 DEF Tick
<1>3. ASSUME NEW a \in Attempts, Start(a) PROVE Match'
  BY <1>3 DEF Start
<1>4. ASSUME NEW a \in Attempts, Begin(a) PROVE Match'
  BY <1>4 DEF Begin, NewRequest, NoRequest
<1>5. ASSUME NEW a \in Attempts, Poll(a) PROVE Match'
  BY <1>5 DEF Poll
<1>6. ASSUME NEW a \in Attempts, Consume(a) PROVE Match'
  BY <1>6 DEF Consume, Consumable, NoRequest
<1>7. ASSUME NEW a \in Attempts, Resolve(a) PROVE Match'
  BY <1>7 DEF Resolve
<1>8. ASSUME NEW a \in Attempts, JITCreateUser(a) PROVE Match'
  BY <1>8 DEF JITCreateUser
<1>9. ASSUME NEW a \in Attempts, Reread(a) PROVE Match'
  BY <1>9 DEF Reread
<1>10. ASSUME NEW a \in Attempts, Fail(a) PROVE Match'
  <2>1. CASE UNCHANGED req
    BY <1>10, <2>1 DEF Fail, Waiting
  <2>2. CASE pc[a] = "begin" /\ req' = [req EXCEPT ![a] = NewRequest]
    BY <1>10, <2>2 DEF Fail, NewRequest, NoRequest
  <2>3. CASE Consumable(a) /\ req' = [req EXCEPT ![a].status = "consumed"]
    BY <1>10, <2>3 DEF Fail, Consumable, Waiting, NoRequest
  <2> QED
    BY <1>10, <2>1, <2>2, <2>3 DEF Fail
<1>11. ASSUME NEW a \in Attempts, Timeout(a) PROVE Match'
  BY <1>11 DEF Timeout, Waiting
<1>12. ASSUME NEW s \in Subjects, NEW a \in Attempts, NEW v \in {"approved", "denied"},
              Decide(s, a, v)
       PROVE  Match'
  BY <1>12 DEF Decide, NoRequest
<1>13. ASSUME NEW d \in owed, AuditDecision(d) PROVE Match'
  BY <1>13 DEF AuditDecision
<1>14. ASSUME NEW s \in Subjects, NEW st \in {"active", "disabled"},
              CreateUser(s, st) \/ SetUserStatus(s, st) \/ DeleteUser(s)
       PROVE  Match'
  BY <1>14 DEF CreateUser, SetUserStatus, DeleteUser
<1>15. ASSUME NEW a \in Attempts, Challenge(a) PROVE Match'
  BY <1>15 DEF Challenge
<1> HIDE DEF IndInv, TypeOK, DecisionsMatch, StageMatches, AuditIsTruthful, Match
<1> QED
  BY <1>1, <1>2, <1>3, <1>4, <1>5, <1>6, <1>7, <1>8, <1>9, <1>10, <1>11, <1>12, <1>13, <1>14,
     <1>15 DEF Next, Login, Browser, Admins

\* In every reachable state a row tells the whole story of its attempt.
THEOREM Invariance == Spec => []IndInv
<1>1. IndInv /\ [Next]_vars => IndInv'
  BY TypeNext, MatchNext DEF IndInv
<1> QED
  BY <1>1, InitHolds, PTL DEF Spec

\* Whoever is let in has approved this very attempt, the approval is used up,
\* and nobody has denied it.
THEOREM GrantsAreApproved == Spec => []GrantNeedsApproval
<1>1. IndInv => GrantNeedsApproval
  <2> SUFFICES ASSUME IndInv, NEW a \in Attempts, pc[a] = "granted"
               PROVE  /\ <<"approved", who[a], a>> \in decided
                      /\ req[a].status = "consumed"
                      /\ \A s \in Subjects : <<"denied", s, a>> \notin decided
    BY DEF GrantNeedsApproval
  <2>1. req[a].status = "consumed" /\ who[a] = req[a].subject
    BY DEF IndInv, StageMatches
  <2>2. /\ <<"approved", who[a], a>> \in decided
        /\ \A d \in decided : d[3] = a => d = <<"approved", who[a], a>>
    BY <2>1 DEF IndInv, DecisionsMatch
  <2>3. ASSUME NEW s \in Subjects, <<"denied", s, a>> \in decided PROVE FALSE
    BY <2>2, <2>3
  <2> QED
    BY <2>1, <2>2, <2>3
<1> QED
  BY <1>1, Invariance, PTL

\* However many people open an attempt's link, one of them decides.
THEOREM AtMostOneDecision == Spec => []OneDecision
<1>1. IndInv => OneDecision
  <2> SUFFICES ASSUME IndInv, NEW d \in decided, NEW e \in decided, d[3] = e[3]
               PROVE  d = e
    BY DEF OneDecision
  <2>1. d[3] \in Attempts
    BY DEF IndInv, TypeOK, Decisions
  <2>2. req[d[3]].status \in {"none", "pending", "approved", "denied", "consumed"}
    BY <2>1 DEF IndInv, TypeOK
  <2> QED
    BY <2>1, <2>2 DEF IndInv, DecisionsMatch
<1> QED
  BY <1>1, Invariance, PTL

\* A request is opened, decided and consumed once each, in that order.
THEOREM RequestsMoveForward == Spec => RequestMovesForward
<1> DEFINE Forward ==
      \A a \in Attempts :
        LET old == req[a] new == req'[a] IN
        \/ new = old
        \/ old.status = "none" /\ new.status = "pending"
        \/ /\ old.status = "pending" /\ new.status \in {"approved", "denied"}
           /\ new.expires = old.expires
        \/ /\ old.status = "approved"
           /\ new = [old EXCEPT !.status = "consumed"]
<1>1. IndInv /\ [Next]_vars => [Forward]_req
  <2> SUFFICES ASSUME IndInv, [Next]_vars, req' # req PROVE Forward
    OBVIOUS
  <2>1. \E a \in Attempts :
          \/ Begin(a) \/ Consume(a) \/ Fail(a)
          \/ \E s \in Subjects, v \in {"approved", "denied"} : Decide(s, a, v)
    BY DEF Next, Login, Browser, Admins, vars, loginVars, auditVars, Tick, Start, Challenge, Poll, Resolve,
       JITCreateUser, Reread, Timeout, AuditDecision, CreateUser, SetUserStatus, DeleteUser
  <2>2. PICK a \in Attempts :
          \/ pc[a] = "begin" /\ req' = [req EXCEPT ![a] = NewRequest]
          \/ Consumable(a) /\ req' = [req EXCEPT ![a].status = "consumed"]
          \/ \E s \in Subjects, v \in {"approved", "denied"} :
               /\ req[a].status = "pending"
               /\ req' = [req EXCEPT ![a].status = v, ![a].subject = s]
    BY <2>1 DEF Begin, Consume, Fail, Decide, Step
  <2>3. pc[a] = "begin" => req[a].status = "none"
    BY DEF IndInv, StageMatches, NoRequest
  <2>4. \A b \in Attempts : b # a => req'[b] = req[b]
    BY <2>2 DEF IndInv, TypeOK
  <2>5. CASE pc[a] = "begin" /\ req' = [req EXCEPT ![a] = NewRequest]
    BY <2>3, <2>4, <2>5 DEF IndInv, TypeOK, NewRequest
  <2>6. CASE Consumable(a) /\ req' = [req EXCEPT ![a].status = "consumed"]
    BY <2>4, <2>6 DEF IndInv, TypeOK, Consumable
  <2>7. ASSUME NEW s \in Subjects, NEW v \in {"approved", "denied"}, req[a].status = "pending",
               req' = [req EXCEPT ![a].status = v, ![a].subject = s]
        PROVE  Forward
    BY <2>4, <2>7 DEF IndInv, TypeOK
  <2> QED
    BY <2>2, <2>5, <2>6, <2>7
<1> QED
  BY <1>1, Invariance, PTL DEF Spec, RequestMovesForward

\* Signing in changes no account that exists; in particular it reactivates none.
THEOREM SignInOnlyCreates == Spec => JITOnlyCreates
<1> DEFINE OnlyCreates ==
      \A s \in Subjects : users[s] # users'[s] /\ users[s] # "absent" => pc' = pc
<1>1. IndInv /\ [Next]_vars => [OnlyCreates]_users
  <2> SUFFICES ASSUME IndInv, [Next]_vars, NEW s \in Subjects,
                      users[s] # users'[s], users[s] # "absent"
               PROVE  pc' = pc
    OBVIOUS
  <2>1. ASSUME NEW a \in Attempts, users' = WithUser(who[a]) PROVE FALSE
    BY <2>1 DEF WithUser, IndInv, TypeOK
  <2>2. ASSUME NEW a \in Attempts, JITCreateUser(a) \/ Fail(a) PROVE FALSE
    BY <2>1, <2>2 DEF JITCreateUser, Fail
  <2> QED
    BY <2>2 DEF Next, Login, Browser, Admins, vars, loginVars, auditVars, Tick, Start, Begin,
       Challenge, Poll, Consume, Resolve, Reread, Timeout, Decide, AuditDecision, CreateUser,
       SetUserStatus, DeleteUser
<1> QED
  BY <1>1, Invariance, PTL DEF Spec, JITOnlyCreates

-----------------------------------------------------------------------------
(* The sign-in implements the one-time approval *)

\* The abstract state behind the broker's and the database's.
Used == {a \in Attempts : req[a].status = "consumed"}
Outcome == [a \in Attempts |-> IF pc[a] \in {"granted", "refused"} THEN pc[a] ELSE "open"]
Active == {s \in Subjects : users[s] = "active"}

\* A step of an attempt that has not concluded changes its own outcome at most.
LEMMA OutcomeStep ==
  ASSUME TypeOK, NEW a \in Attempts, NEW to, pc[a] \in Waiting \cup {"idle", "challenge"},
         pc' = [pc EXCEPT ![a] = to]
  PROVE  /\ Outcome[a] = "open"
         /\ to \in Waiting \cup {"challenge"} => Outcome' = Outcome
         /\ to \in {"granted", "refused"} => Outcome' = [Outcome EXCEPT ![a] = to]
<1>1. pc \in [Attempts -> PCs]
  BY DEF TypeOK
<1>2. Outcome[a] = "open"
  BY DEF Outcome, Waiting
<1>3. ASSUME to \in Waiting \cup {"challenge"} PROVE Outcome' = Outcome
  BY <1>1, <1>3 DEF Outcome, Waiting
<1>4. ASSUME to \in {"granted", "refused"} PROVE Outcome' = [Outcome EXCEPT ![a] = to]
  BY <1>1, <1>4 DEF Outcome
<1> QED
  BY <1>2, <1>3, <1>4

\* The abstract steps, in terms of the abstract state.
LEMMA AbstractSteps ==
  ASSUME NEW a \in Attempts, Outcome[a] = "open"
  PROVE  /\ UNCHANGED <<decided, Used, Active>>
            /\ Outcome' = [Outcome EXCEPT ![a] = "refused"] => Approval!Refuse(a)
         /\ UNCHANGED <<decided, Used, Active>> /\ a \in Used
            /\ (\E s \in Active : <<"approved", s, a>> \in decided)
            /\ Outcome' = [Outcome EXCEPT ![a] = "granted"] => Approval!Admit(a)
         /\ UNCHANGED <<decided, Active>> /\ a \notin Used /\ Used' = Used \cup {a}
            /\ (\E s \in Subjects : <<"approved", s, a>> \in decided)
            /\ Outcome' \in {Outcome, [Outcome EXCEPT ![a] = "refused"]} => Approval!Use(a)
         /\ UNCHANGED <<decided, Used>> /\ a \in Used
            /\ (\E s \in Subjects :
                  <<"approved", s, a>> \in decided /\ Active' = Active \cup {s})
            /\ Outcome' \in {Outcome, [Outcome EXCEPT ![a] = "refused"]} => Approval!Provision(a)
  BY DEF Approval!Refuse, Approval!Admit, Approval!Use, Approval!Provision,
     Approval!Approved, Approval!OpenOrRefused, Used, Outcome, Active

\* A step that the abstract specification does not see.
LEMMA Stutter == UNCHANGED <<decided, Used, Outcome, Active>> => UNCHANGED Approval!vars
  BY DEF Approval!vars, Used, Outcome, Active

\* Past Consume the attempt's approval is used up, and the subject it holds is
\* the one that approved it.
LEMMA HoldsApproval ==
  ASSUME IndInv, NEW a \in Attempts, pc[a] \in {"resolve", "create", "reread"}
  PROVE  /\ a \in Used
         /\ who[a] \in Subjects
         /\ <<"approved", who[a], a>> \in decided
<1>1. req[a].status = "consumed" /\ who[a] = req[a].subject
  BY DEF IndInv, StageMatches
<1>2. <<"approved", who[a], a>> \in decided
  BY <1>1 DEF IndInv, DecisionsMatch
<1>3. <<"approved", who[a], a>> \in Decisions
  BY <1>2 DEF IndInv, TypeOK
<1> QED
  BY <1>1, <1>2, <1>3 DEF Used, Decisions

\* An approved request has its approver on record.
LEMMA ConsumeUses ==
  ASSUME IndInv, NEW a \in Attempts, Consumable(a),
         req' = [req EXCEPT ![a].status = "consumed"]
  PROVE  /\ a \notin Used /\ Used' = Used \cup {a}
         /\ \E s \in Subjects : <<"approved", s, a>> \in decided
<1>1. req[a].status = "approved" /\ <<"approved", req[a].subject, a>> \in decided
  BY DEF Consumable, IndInv, DecisionsMatch
<1>2. req[a].subject \in Subjects
  BY <1>1 DEF IndInv, TypeOK, Decisions
<1>3. a \notin Used /\ Used' = Used \cup {a}
  BY <1>1 DEF Used, IndInv, TypeOK
<1> QED
  BY <1>1, <1>2, <1>3

\* CreateUser adds at most the approver to the active accounts.
LEMMA CreateProvisions ==
  ASSUME TypeOK, NEW s \in Subjects, users' = WithUser(s)
  PROVE  Active' = Active \/ Active' = Active \cup {s}
<1>1. CASE users[s] = "absent"
  BY <1>1 DEF WithUser, Active, TypeOK
<1>2. CASE users[s] # "absent"
  <2>1. \A x \in Subjects : users'[x] = users[x]
    BY <1>2 DEF WithUser, TypeOK
  <2> QED
    BY <2>1 DEF Active
<1> QED
  BY <1>1, <1>2

\* Every step of an attempt is a step of the one-time approval, or none.
LEMMA AttemptImplements ==
  ASSUME IndInv, NEW a \in Attempts, Start(a) \/ Login(a) \/ Challenge(a) \/ Fail(a)
  PROVE  Approval!Next \/ UNCHANGED Approval!vars
<1> DEFINE Goal == Approval!Next \/ UNCHANGED Approval!vars
<1>0. TypeOK
  BY DEF IndInv
<1>1. decided' = decided
  BY DEF Start, Challenge, Login, Begin, Poll, Consume, Resolve, JITCreateUser, Reread, Timeout, Fail
<1>2. ASSUME pc[a] \in Waiting \cup {"idle", "challenge"}, pc' = [pc EXCEPT ![a] = "refused"],
             UNCHANGED <<Used, Active>>
      PROVE  Goal
  <2>1. Approval!Refuse(a)
    BY <1>0, <1>1, <1>2, OutcomeStep, AbstractSteps
  <2> QED
    BY <2>1 DEF Approval!Next
<1>3. ASSUME NEW to \in Waiting \cup {"challenge"}, pc[a] \in Waiting \cup {"idle", "challenge"}, pc' = [pc EXCEPT ![a] = to],
             UNCHANGED <<Used, Active>>
      PROVE  Goal
  BY <1>0, <1>1, <1>3, OutcomeStep, Stutter
<1>4. ASSUME pc[a] \in {"resolve", "reread"}, users[who[a]] = "active",
             pc' = [pc EXCEPT ![a] = "granted"], UNCHANGED <<Used, Active>>
      PROVE  Goal
  <2>1. a \in Used /\ who[a] \in Subjects /\ <<"approved", who[a], a>> \in decided
    BY <1>4, HoldsApproval
  <2>2. who[a] \in Active
    BY <1>4, <2>1 DEF Active
  <2>3. Outcome[a] = "open" /\ Outcome' = [Outcome EXCEPT ![a] = "granted"]
    BY <1>0, <1>4, OutcomeStep DEF Waiting
  <2>4. Approval!Admit(a)
    BY <1>1, <1>4, <2>1, <2>2, <2>3, AbstractSteps
  <2> QED
    BY <2>4 DEF Approval!Next
<1>5. ASSUME NEW to \in {"resolve", "refused"}, pc[a] = "consume",
             pc' = [pc EXCEPT ![a] = to], Consumable(a),
             req' = [req EXCEPT ![a].status = "consumed"], UNCHANGED Active
      PROVE  Goal
  <2>1. /\ a \notin Used /\ Used' = Used \cup {a}
        /\ \E s \in Subjects : <<"approved", s, a>> \in decided
    BY <1>5, ConsumeUses
  <2>2. Outcome[a] = "open" /\ Outcome' \in {Outcome, [Outcome EXCEPT ![a] = "refused"]}
    BY <1>0, <1>5, OutcomeStep DEF Waiting
  <2>3. Approval!Use(a)
    BY <1>1, <1>5, <2>1, <2>2, AbstractSteps
  <2> QED
    BY <2>3 DEF Approval!Next
<1>6. ASSUME NEW to \in {"reread", "refused"}, pc[a] = "create",
             pc' = [pc EXCEPT ![a] = to], users' = WithUser(who[a]), UNCHANGED Used
      PROVE  Goal
  <2>1. a \in Used /\ who[a] \in Subjects /\ <<"approved", who[a], a>> \in decided
    BY <1>6, HoldsApproval
  <2>2. Outcome[a] = "open" /\ Outcome' \in {Outcome, [Outcome EXCEPT ![a] = "refused"]}
    BY <1>0, <1>6, OutcomeStep DEF Waiting
  <2>3. CASE Active' = Active
    BY <1>2, <1>3, <1>6, <2>3 DEF Waiting
  <2>4. CASE Active' = Active \cup {who[a]}
    <3>1. Approval!Provision(a)
      BY <1>1, <1>6, <2>1, <2>2, <2>4, AbstractSteps
    <3> QED
      BY <3>1 DEF Approval!Next
  <2> QED
    BY <1>0, <1>6, <2>1, <2>3, <2>4, CreateProvisions
<1>7. ASSUME req' = req PROVE UNCHANGED Used
  BY <1>7 DEF Used
<1>8. ASSUME users' = users PROVE UNCHANGED Active
  BY <1>8 DEF Active
<1>9. ASSUME pc[a] = "begin", req' = [req EXCEPT ![a] = NewRequest] PROVE UNCHANGED Used
  BY <1>0, <1>9 DEF Used, NewRequest, IndInv, StageMatches, NoRequest, TypeOK
<1>10. CASE Start(a)
  BY <1>3, <1>7, <1>8, <1>10 DEF Start, Step, Waiting
<1>11. CASE Begin(a)
  BY <1>3, <1>8, <1>9, <1>11 DEF Begin, Step, Waiting
<1>12. CASE Poll(a)
  BY <1>2, <1>3, <1>7, <1>8, <1>12 DEF Poll, Step, Waiting
<1>13. CASE Consume(a)
  <2>1. CASE Consumable(a)
    BY <1>5, <1>8, <1>13, <2>1 DEF Consume, Step
  <2>2. CASE ~Consumable(a)
    BY <1>2, <1>7, <1>8, <1>13, <2>2 DEF Consume, Step, Waiting
  <2> QED
    BY <2>1, <2>2
<1>14. CASE Resolve(a)
  <2>1. pc[a] = "resolve" /\ UNCHANGED <<Used, Active>>
    BY <1>7, <1>8, <1>14 DEF Resolve, Step
  <2>2. CASE users[who[a]] = "active"
    BY <1>4, <1>14, <2>1, <2>2 DEF Resolve, Step
  <2>3. CASE users[who[a]] # "active"
    BY <1>2, <1>3, <1>14, <2>1, <2>3 DEF Resolve, Step, Waiting
  <2> QED
    BY <2>2, <2>3
<1>15. CASE JITCreateUser(a)
  BY <1>6, <1>7, <1>15 DEF JITCreateUser, Step
<1>16. CASE Reread(a)
  <2>1. pc[a] = "reread" /\ UNCHANGED <<Used, Active>>
    BY <1>7, <1>8, <1>16 DEF Reread, Step
  <2>2. CASE users[who[a]] = "active"
    BY <1>4, <1>16, <2>1, <2>2 DEF Reread, Step
  <2>3. CASE users[who[a]] # "active"
    BY <1>2, <1>16, <2>1, <2>3 DEF Reread, Step, Waiting
  <2> QED
    BY <2>2, <2>3
<1>17. CASE Timeout(a)
  BY <1>2, <1>7, <1>8, <1>17 DEF Timeout
<1>18. CASE Fail(a)
  <2>0. pc[a] \in Waiting /\ pc' = [pc EXCEPT ![a] = "refused"]
    BY <1>18 DEF Fail
  <2>1. CASE UNCHANGED <<req, users>>
    BY <1>2, <1>7, <1>8, <2>0, <2>1
  <2>2. CASE pc[a] = "begin" /\ req' = [req EXCEPT ![a] = NewRequest] /\ UNCHANGED users
    BY <1>2, <1>8, <1>9, <2>0, <2>2
  <2>3. CASE /\ pc[a] = "consume" /\ Consumable(a)
             /\ req' = [req EXCEPT ![a].status = "consumed"] /\ UNCHANGED users
    BY <1>5, <1>8, <2>0, <2>3
  <2>4. CASE pc[a] = "create" /\ users' = WithUser(who[a]) /\ UNCHANGED req
    BY <1>6, <1>7, <2>0, <2>4
  <2> QED
    BY <1>18, <2>1, <2>2, <2>3, <2>4 DEF Fail
<1>19. CASE Challenge(a)
  BY <1>3, <1>7, <1>8, <1>19 DEF Challenge, Step, Waiting
<1> QED
  BY <1>10, <1>11, <1>12, <1>13, <1>14, <1>15, <1>16, <1>17, <1>18, <1>19
     DEF Login

\* A decision is the attempt's only one.
LEMMA DecideImplements ==
  ASSUME IndInv, NEW s \in Subjects, NEW a \in Attempts, NEW v \in {"approved", "denied"},
         Decide(s, a, v)
  PROVE  Approval!Decide(a, s, v)
<1>1. /\ req[a].status = "pending" /\ req' = [req EXCEPT ![a].status = v, ![a].subject = s]
      /\ decided' = decided \cup {<<v, s, a>>} /\ pc' = pc /\ users' = users
  BY DEF Decide, loginVars
<1>2. \A d \in decided : d[3] # a
  BY <1>1 DEF IndInv, DecisionsMatch
<1>3. UNCHANGED Used
  BY <1>1 DEF Used, IndInv, TypeOK
<1>4. UNCHANGED <<Outcome, Active>>
  BY <1>1 DEF Outcome, Active
<1> QED
  BY <1>1, <1>2, <1>3, <1>4 DEF Approval!Decide, Used, Outcome, Active

\* The browser sign-in implements the one-time approval, for any number of
\* attempts and subjects, any timeout, any clocks and with or without JIT.
THEOREM Refinement == Spec => ImplementsApproval
<1>1. Init => Approval!Init
  BY DEF Init, Approval!Init, NoRequest
<1>2. IndInv /\ [Next]_vars => [Approval!Next]_(Approval!vars)
  <2> SUFFICES ASSUME IndInv, [Next]_vars
               PROVE  Approval!Next \/ UNCHANGED Approval!vars
    OBVIOUS
  <2>1. ASSUME NEW a \in Attempts, Start(a) \/ Login(a) \/ Challenge(a) \/ Fail(a)
        PROVE  Approval!Next \/ UNCHANGED Approval!vars
    BY <2>1, AttemptImplements
  <2>2. ASSUME NEW s \in Subjects, NEW a \in Attempts, NEW v \in {"approved", "denied"},
               Decide(s, a, v)
        PROVE  Approval!Next
    BY <2>2, DecideImplements DEF Approval!Next
  <2>3. ASSUME NEW d \in owed, AuditDecision(d) PROVE UNCHANGED Approval!vars
    BY <2>3 DEF AuditDecision, loginVars, Approval!vars
  <2>4. CASE Tick \/ UNCHANGED vars
    BY <2>4 DEF Tick, vars, loginVars, Approval!vars
  <2>5. CASE Admins
    <3>1. UNCHANGED <<decided, req, pc>>
      BY <2>5 DEF Admins, CreateUser, SetUserStatus, DeleteUser, loginVars
    <3>2. Approval!Administer
      BY <3>1 DEF Approval!Administer
    <3> QED
      BY <3>2 DEF Approval!Next
  <2> QED
    BY <2>1, <2>2, <2>3, <2>4, <2>5 DEF Next, Browser
<1> QED
  BY <1>1, <1>2, Invariance, PTL DEF Spec, ImplementsApproval, Approval!Spec
=============================================================================
