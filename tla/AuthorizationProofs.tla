------------------------ MODULE AuthorizationProofs ------------------------
(***************************************************************************)
(* Authorize's decisions against an edited policy, for any servers, groups, *)
(* accounts and grants.                                                    *)
(*                                                                         *)
(* The argument: memberships only grow while the subject and the server    *)
(* exist, so what the earlier queries returned is still true, though not   *)
(* all of the truth, when the last query runs; and a grant that has applied *)
(* since the call began applies through memberships those queries saw.     *)
(* Without an edit they returned all of the truth, and the answer composed *)
(* from them is the policy's.                                              *)
(***************************************************************************)
EXTENDS Authorization, TLAPS

\* The invariant holds before the first call.
LEMMA InitHolds == Init => IndInv
<1> SUFFICES ASSUME Init PROVE IndInv
  OBVIOUS
<1>1. TypeOK
  BY KindsAssumption DEF Init, TypeOK, NoServer, IdleCall, NoHistory
<1>2. ReadsAreSound /\ SteadyIsRead
  BY DEF Init, ReadsAreSound, SteadyIsRead, IdleCall
<1>3. ReadsAreExact /\ TTLsStored
  BY DEF Init, ReadsAreExact, NoHistory, TTLsStored
<1> QED
  BY <1>1, <1>2, <1>3 DEF IndInv

\* What the call has read, of the tables and of the grants applying throughout.
Sound == TypeOK /\ ReadsAreSound /\ SteadyIsRead

\* The queries of Authorize read soundly.
LEMMA SoundNext == Sound /\ Authorize => Sound'
<1> SUFFICES ASSUME Sound, Authorize PROVE Sound'
  OBVIOUS
<1> USE DEF Sound, TypeOK, ReadsAreSound, SteadyIsRead, policy, Applying, MatchingGrants
<1>1. ASSUME NEW token \in Tokens, Start(token) PROVE Sound'
  BY <1>1 DEF Start, IdleCall, Fresh
<1>2. CASE ReadServer
  <2>1. /\ call.pc = "server" /\ call.ug = {} /\ call.sg = {}
        /\ UNCHANGED <<servers, ugroups, sgroups, grants, subject, seen>>
    BY <1>2 DEF ReadServer
  <2>2. CASE call' = [call EXCEPT !.pc = "done"]
    BY <2>1, <2>2
  <2>3. ASSUME NEW s \in Servers, NEW to \in {"ugroups", "sgroups"},
               to = "sgroups" => ugroups = {},
               call' = [call EXCEPT !.pc = to, !.server = s, !.allowed = servers[s].allow]
        PROVE  Sound'
    BY <2>1, <2>3
  <2>4. subject.kind = "user" \/ ugroups = {}
    OBVIOUS
  <2> QED
    BY <1>2, <2>2, <2>3, <2>4 DEF ReadServer
<1>3. CASE ReadUserGroups
  BY <1>3 DEF ReadUserGroups
<1>4. CASE ReadServerGroups
  BY <1>4 DEF ReadServerGroups
<1>5. CASE ReadGrants
  BY <1>5 DEF ReadGrants
<1>6. CASE QueryError
  BY <1>6 DEF QueryError
<1>7. CASE Return
  BY <1>7 DEF Return, IdleCall, NoHistory
<1> QED
  BY <1>1, <1>2, <1>3, <1>4, <1>5, <1>6, <1>7 DEF Authorize

\* The accounts the matching grants leave usable are the subject's own under
\* the policy, when what the call has read is what the tables say.
LEMMA UsableIsPermitted ==
  ASSUME IndInv, NEW s \in Servers
  PROVE  UsablePrincipals(MatchingGrants(ugroups, s, sgroups[s]), servers[s].allow)
           = {p \in Principals : Permits(s, p)}
<1> DEFINE matching == MatchingGrants(ugroups, s, sgroups[s])
<1>1. matching = Applying(s)
  BY DEF MatchingGrants, Applying
<1>2. \A g \in matching : g.principals \subseteq Principals
  BY DEF MatchingGrants, IndInv, TypeOK, GrantRows
<1> HIDE DEF matching
<1>3. ASSUME NEW p
      PROVE  p \in UsablePrincipals(matching, servers[s].allow)
               <=> p \in Principals /\ Permits(s, p)
  BY <1>1, <1>2 DEF UsablePrincipals, Permits
<1> QED
  BY <1>3 DEF matching

\* resolvePrincipal, the allowlist check after it and the refusal otherwise
\* give the account the policy answers with.
LEMMA DecisionIsAnswer ==
  ASSUME IndInv, NEW s \in Servers, NEW token,
         NEW d \in Decisions(token, MatchingGrants(ugroups, s, sgroups[s]), servers[s].allow)
  PROVE  d.login = PolicyAnswer(s, token)
<1> DEFINE matching == MatchingGrants(ugroups, s, sgroups[s])
           allowed == servers[s].allow
           mine == {p \in Principals : Permits(s, p)}
           chosen == {p \in ResolvePrincipal(token, mine) : allowed = {} \/ p \in allowed}
<1>1. UsablePrincipals(matching, allowed) = mine
  BY UsableIsPermitted
<1>2. \A p \in mine : allowed = {} \/ p \in allowed
  BY DEF Permits
<1>3. d \in IF chosen = {} THEN {Denied} ELSE {Compose(matching, p) : p \in chosen}
  BY <1>1 DEF Decisions
<1>4. PolicyAnswer(s, token)
        = CASE token \in mine -> token
            [] token \notin mine /\ token \in SelfTokens /\ (\E p \in mine : mine = {p}) ->
                 CHOOSE p \in mine : TRUE
            [] OTHER -> Null
  BY DEF PolicyAnswer
<1>5. \A p : Compose(matching, p).login = p
  BY DEF Compose
<1>6. Denied.login = Null
  BY DEF Denied
<1> HIDE DEF mine, matching, allowed
<1>7. CASE token \in mine
  <2>1. chosen = {token}
    BY <1>2, <1>7 DEF ResolvePrincipal
  <2>2. d = Compose(matching, token)
    BY <1>3, <2>1
  <2> QED
    BY <1>4, <1>5, <1>7, <2>2
<1>8. ASSUME token \notin mine, token \in SelfTokens, NEW p \in mine, mine = {p}
      PROVE  d.login = PolicyAnswer(s, token)
  <2>1. chosen = {p}
    BY <1>2, <1>8 DEF ResolvePrincipal
  <2>2. d = Compose(matching, p)
    BY <1>3, <2>1
  <2>3. (CHOOSE q \in mine : TRUE) = p
    BY <1>8
  <2>4. PolicyAnswer(s, token) = CHOOSE q \in mine : TRUE
    BY <1>4, <1>8
  <2> QED
    BY <1>5, <2>2, <2>3, <2>4
<1>9. CASE token \notin mine /\ ~(token \in SelfTokens /\ \E p \in mine : mine = {p})
  <2>1. chosen = {}
    BY <1>9 DEF ResolvePrincipal
  <2>2. d = Denied
    BY <1>3, <2>1
  <2> QED
    BY <1>4, <1>6, <1>9, <2>2
<1> QED
  BY <1>7, <1>8, <1>9

\* Without an edit the queries of Authorize read all of the truth, and the last
\* one answers accordingly.
LEMMA ExactNext == IndInv /\ Authorize => ReadsAreExact'
<1> SUFFICES ASSUME IndInv, Authorize, seen'.quiet
             PROVE  ReadsAreExact'
  BY DEF ReadsAreExact
<1>t. TypeOK /\ (seen.quiet => ReadsAreExact)
  BY DEF IndInv
<1> USE DEF ReadsAreExact, QuietIsExact, policy
<1>1. ASSUME NEW token \in Tokens, Start(token) PROVE ReadsAreExact'
  BY <1>1 DEF Start, IdleCall
<1>2. CASE ReadServer
  <2>1. /\ call.pc = "server" /\ call.server = Null /\ call.ug = {}
        /\ decision' = Denied
        /\ UNCHANGED <<servers, ugroups, sgroups, grants, subject, seen>>
    BY <1>2 DEF ReadServer, IndInv, ReadsAreSound
  <2>2. CASE call' = [call EXCEPT !.pc = "done"]
    BY <1>t, <2>1, <2>2 DEF TypeOK, Denied
  <2>3. ASSUME NEW s \in Servers, NEW to \in {"ugroups", "sgroups"},
               to = "sgroups" => ugroups = {},
               call' = [call EXCEPT !.pc = to, !.server = s, !.allowed = servers[s].allow]
        PROVE  ReadsAreExact'
    BY <1>t, <2>1, <2>3 DEF TypeOK
  <2>4. subject.kind = "user" \/ ugroups = {}
    BY <1>t DEF TypeOK
  <2> QED
    BY <1>2, <2>2, <2>3, <2>4 DEF ReadServer
<1>3. CASE ReadUserGroups
  BY <1>t, <1>3 DEF ReadUserGroups, TypeOK
<1>4. CASE ReadServerGroups
  BY <1>t, <1>4 DEF ReadServerGroups, TypeOK
<1>5. CASE ReadGrants
  <2>1. /\ call.pc = "grants" /\ call' = [call EXCEPT !.pc = "done"]
        /\ UNCHANGED <<servers, ugroups, sgroups, grants, subject, seen>>
        /\ decision' \in Decisions(call.login, MatchingGrants(call.ug, call.server, call.sg),
                                   call.allowed)
    BY <1>5 DEF ReadGrants
  <2>2. /\ call.server \in Servers /\ call.ug = ugroups /\ call.sg = sgroups[call.server]
        /\ call.allowed = servers[call.server].allow
    BY <1>t, <2>1 DEF TypeOK
  <2>3. decision'.login = PolicyAnswer(call.server, call.login)
    BY <2>1, <2>2, DecisionIsAnswer
  <2>4. call'.pc = "done" /\ call'.server = call.server /\ call'.login = call.login
    BY <1>t, <2>1 DEF TypeOK
  <2>5. PolicyAnswer(call.server, call.login)' = PolicyAnswer(call.server, call.login)
    BY <2>1, <2>4 DEF PolicyAnswer, Permits, Applying
  <2> QED
    BY <2>2, <2>3, <2>4, <2>5, NullAssumption
<1>6. CASE QueryError
  BY <1>t, <1>6 DEF QueryError, TypeOK
<1>7. CASE Return
  BY <1>7 DEF Return, NoHistory
<1> QED
  BY <1>1, <1>2, <1>3, <1>4, <1>5, <1>6, <1>7 DEF Authorize

\* Removing grants, or adding one with a TTL, leaves a longest TTL among any.
LEMMA LongestKept ==
  ASSUME IndInv, TypeOK', NEW x, x.ttl \in Nat \ {0}, grants' \subseteq grants \cup {x}
  PROVE  TTLsStored'
<1>1. \A g \in grants' : g.ttl \in Nat /\ g.ttl # 0
  BY DEF IndInv, TypeOK, GrantRows, TTLsStored
<1>2. ASSUME NEW S \in SUBSET grants', S # {}
      PROVE  \E g \in S : \A h \in S : h.ttl <= g.ttl
  <2>1. CASE S \subseteq grants
    BY <1>2, <2>1 DEF IndInv, TTLsStored
  <2>2. CASE S \ {x} = {}
    BY <1>1, <1>2, <2>2
  <2>3. CASE x \in S /\ S \ {x} # {}
    <3>1. S \ {x} \subseteq grants
      BY <1>2
    <3>2. PICK g \in S \ {x} : \A h \in S \ {x} : h.ttl <= g.ttl
      BY <2>3, <3>1 DEF IndInv, TTLsStored
    <3>3. \A h \in S : h.ttl \in Nat
      BY <1>1, <1>2
    <3>4. CASE x.ttl <= g.ttl
      BY <3>2, <3>3, <3>4
    <3>5. CASE ~(x.ttl <= g.ttl)
      <4>1. \A h \in S : h.ttl <= x.ttl
        BY <3>2, <3>3, <3>5
      <4> QED
        BY <2>3, <4>1
    <3> QED
      BY <3>4, <3>5
  <2> QED
    BY <1>2, <2>1, <2>2, <2>3
<1> QED
  BY <1>1, <1>2 DEF TTLsStored

\* The queries of Authorize keep the invariant.
LEMMA AuthorizeNext == IndInv /\ Authorize => IndInv'
<1> SUFFICES ASSUME IndInv, Authorize PROVE IndInv'
  OBVIOUS
<1>1. Sound'
  BY SoundNext DEF IndInv, Sound
<1>2. ReadsAreExact'
  BY ExactNext
<1>3. grants' = grants
  BY DEF Authorize, policy, Start, ReadServer, ReadUserGroups, ReadServerGroups, ReadGrants,
     QueryError, Return
<1> QED
  BY <1>1, <1>2, <1>3 DEF IndInv, Sound, TTLsStored

\* What every edit has in common: a server whose row it leaves alone, with the
\* subject, loses no membership.
Edit == /\ Edited
        /\ \A s \in Servers : servers'[s] = servers[s] /\ subject' = subject =>
             ugroups \subseteq ugroups' /\ sgroups[s] \subseteq sgroups'[s]

\* It writes at most one grant, with a TTL.
OneGrant == \E x : x.ttl \in Nat \ {0} /\ grants' \subseteq grants \cup {x}

\* Tables an administrator may leave behind.
TablesOK ==
  /\ servers \in [Servers -> [state: {"absent", "live", "deleted"}, named: BOOLEAN,
                              allow: SUBSET Principals]]
  /\ ugroups \subseteq UserGroups
  /\ sgroups \in [Servers -> SUBSET ServerGroups]
  /\ grants \subseteq GrantRows
  /\ subject \in [kind: {"user", "service_account"}, live: BOOLEAN]
  /\ subject.kind # "user" => ugroups = {}

\* An edit of that kind leaves what the call has read sound.
LEMMA EditIsSound == ASSUME IndInv, Edit, TablesOK' PROVE Sound'
<1>1. call' = call
  BY DEF Edit, Edited
<1>2. CASE call.pc = "idle"
  <2>1. seen' = NoHistory
    BY <1>2 DEF Edit, Edited
  <2> QED
    BY <1>1, <1>2, <2>1 DEF IndInv, Sound, TypeOK, TablesOK, ReadsAreSound, SteadyIsRead, NoHistory
<1>3. CASE call.pc # "idle"
  <2>1. seen' = [steady |-> [s \in Servers |-> seen.steady[s] \cap Applying(s)'],
                 kept |-> {s \in seen.kept : servers'[s] = servers[s] /\ subject' = subject},
                 quiet |-> FALSE]
    BY <1>3 DEF Edit, Edited
  <2>2. /\ \A s \in Servers : seen'.steady[s] = seen.steady[s] \cap Applying(s)'
        /\ seen'.kept = {s \in seen.kept : servers'[s] = servers[s] /\ subject' = subject}
        /\ seen' \in [steady: [Servers -> SUBSET GrantRows], kept: SUBSET Servers,
                      quiet: BOOLEAN]
    BY <2>1 DEF IndInv, TypeOK
  <2>3. TypeOK'
    BY <1>1, <2>2 DEF IndInv, TypeOK, TablesOK
  <2>4. ReadsAreSound'
    <3>1. call.pc = "server" => call.ug = {} /\ call.sg = {}
      BY DEF IndInv, ReadsAreSound
    <3>2. ASSUME call.pc \in {"ugroups", "sgroups", "grants"}, call.server \in seen'.kept
          PROVE  /\ servers'[call.server].allow = call.allowed
                 /\ call.ug \subseteq ugroups'
                 /\ call.sg \subseteq sgroups'[call.server]
      <4>1. /\ call.server \in Servers /\ call.server \in seen.kept
            /\ servers'[call.server] = servers[call.server] /\ subject' = subject
        BY <2>2, <3>2 DEF IndInv, TypeOK
      <4>2. /\ servers[call.server].allow = call.allowed
            /\ call.ug \subseteq ugroups /\ call.sg \subseteq sgroups[call.server]
        BY <3>2, <4>1 DEF IndInv, ReadsAreSound
      <4> QED
        BY <4>1, <4>2 DEF Edit
    <3> QED
      BY <1>1, <3>1, <3>2 DEF ReadsAreSound
  <2>5. SteadyIsRead'
    <3>1. \A s \in Servers : \A g \in seen'.steady[s] : g \in seen.steady[s] /\ g \in Applying(s)'
      BY <2>2
    <3>2. call.pc \in {"sgroups", "grants"} => call.server \in Servers
      BY DEF IndInv, TypeOK
    <3> QED
      BY <1>1, <1>3, <3>1, <3>2 DEF IndInv, SteadyIsRead
  <2> QED
    BY <2>3, <2>4, <2>5 DEF Sound
<1> QED
  BY <1>2, <1>3

\* It keeps the invariant whatever the call has read so far.
LEMMA EditKeeps == ASSUME IndInv, Edit, OneGrant, TablesOK' PROVE IndInv'
<1>1. Sound'
  BY EditIsSound
<1>2. ~seen'.quiet
  BY DEF Edit, Edited, NoHistory
<1>3. TTLsStored'
  BY <1>1, LongestKept DEF OneGrant, Sound
<1> QED
  BY <1>1, <1>2, <1>3 DEF IndInv, Sound, ReadsAreExact

\* Every edit of the policy is of that kind: no operation takes a membership
\* away from a user and a server that both stay.
LEMMA AdminsNext == IndInv /\ Admins => IndInv'
<1> SUFFICES ASSUME IndInv, Admins PROVE Edit /\ OneGrant /\ TablesOK'
  BY EditKeeps
<1>0. TablesOK
  BY DEF IndInv, TypeOK, TablesOK
<1> USE DEF TablesOK, Edit
<1>s. \A g \in Grants : Stored(g) \in GrantRows /\ g \in GrantRows
  BY PolicyAssumption, TTLAssumption DEF Stored, GrantRows
<1>u. grants' \subseteq grants => OneGrant
  <2>1. [ttl |-> 1].ttl \in Nat \ {0}
    OBVIOUS
  <2>2. ASSUME grants' \subseteq grants PROVE grants' \subseteq grants \cup {[ttl |-> 1]}
    BY <2>2
  <2> QED
    BY <2>1, <2>2 DEF OneGrant
<1>v. \A g \in Grants : grants' \subseteq grants \cup {Stored(g)} => OneGrant
  <2>1. \A g \in Grants : Stored(g).ttl \in Nat \ {0}
    BY PolicyAssumption, TTLAssumption DEF Stored, GrantRows
  <2> QED
    BY <2>1 DEF OneGrant
<1>1. ASSUME NEW s \in Servers, NEW allow \in AllowLists, CreateServer(s, allow)
      PROVE  Edit /\ OneGrant /\ TablesOK'
  BY <1>0, <1>u, <1>1, PolicyAssumption DEF CreateServer
<1>2. ASSUME NEW s \in Servers, NEW allow \in AllowLists, NEW named \in BOOLEAN,
             UpdateServer(s, named, allow)
      PROVE  Edit /\ OneGrant /\ TablesOK'
  BY <1>0, <1>u, <1>2, PolicyAssumption DEF UpdateServer
<1>3. ASSUME NEW s \in Servers, DeleteServer(s) PROVE Edit /\ OneGrant /\ TablesOK'
  BY <1>0, <1>u, <1>3 DEF DeleteServer, NoServer
<1>4. CASE DeleteUser
  BY <1>0, <1>u, <1>4 DEF DeleteUser
<1>5. ASSUME NEW ug \in UserGroups, AddUserToGroup(ug) PROVE Edit /\ OneGrant /\ TablesOK'
  BY <1>0, <1>u, <1>5 DEF AddUserToGroup
<1>6. ASSUME NEW s \in Servers, NEW sg \in ServerGroups, AddServerToGroup(s, sg)
      PROVE  Edit /\ OneGrant /\ TablesOK'
  BY <1>0, <1>u, <1>6 DEF AddServerToGroup
<1>7. ASSUME NEW g \in Grants, CreateGrant(g) PROVE Edit /\ OneGrant /\ TablesOK'
  BY <1>0, <1>s, <1>v, <1>7 DEF CreateGrant
<1>8. ASSUME NEW g \in grants, DeleteGrant(g) PROVE Edit /\ OneGrant /\ TablesOK'
  BY <1>0, <1>u, <1>8 DEF DeleteGrant
<1>9. ASSUME NEW g \in grants, NEW new \in Grants, UpdateGrant(g, new)
      PROVE  Edit /\ OneGrant /\ TablesOK'
  BY <1>0, <1>s, <1>v, <1>9 DEF UpdateGrant
<1> HIDE DEF TablesOK, Edit
<1> QED
  BY <1>1, <1>2, <1>3, <1>4, <1>5, <1>6, <1>7, <1>8, <1>9
     DEF Admins, createServer, cmdAddServer, patchServer, deleteServer,
     addServerGroupMember, cmdAddServerToGroup, createGrant, patchGrant, deleteGrant

\* What a call knows stays sound, whatever administrators do meanwhile.
THEOREM Invariance == Spec => []IndInv
<1>1. IndInv /\ UNCHANGED vars => IndInv'
  <2> SUFFICES ASSUME IndInv, UNCHANGED vars PROVE IndInv'
    OBVIOUS
  <2>1. TypeOK' /\ ReadsAreSound' /\ SteadyIsRead' /\ TTLsStored'
    BY DEF vars, policy, IndInv, TypeOK, ReadsAreSound, SteadyIsRead, Applying, TTLsStored
  <2>2. PolicyAnswer(call.server, call.login)' = PolicyAnswer(call.server, call.login)
    BY DEF vars, policy, PolicyAnswer, Permits, Applying
  <2>3. ReadsAreExact'
    BY <2>2 DEF vars, policy, IndInv, ReadsAreExact, QuietIsExact
  <2> QED
    BY <2>1, <2>3 DEF IndInv
<1>2. IndInv /\ [Next]_vars => IndInv'
  BY <1>1, AuthorizeNext, AdminsNext DEF Next
<1> QED
  BY <1>2, InitHolds, PTL DEF Spec
\* A decision to let in comes from the last query, for an account that a grant
\* it returned names and the allowlist read first does not exclude.
LEMMA GrantingStep ==
  ASSUME IndInv, [Next]_vars, Granting
  PROVE  /\ call.pc = "grants"
         /\ LET matching == MatchingGrants(call.ug, call.server, call.sg) IN
              /\ \E g \in matching : decision'.login \in g.principals
              /\ call.allowed = {} \/ decision'.login \in call.allowed
              /\ decision'.full = \E g \in matching : decision'.login \in g.principals /\ g.full
              /\ \A k \in decision'.caps :
                   \E g \in matching : decision'.login \in g.principals /\ k \in g.caps
              /\ \E g \in matching : decision'.login \in g.principals /\ g.ttl = decision'.ttl
<1>1. decision' # decision /\ decision' # Denied
  BY DEF Granting, Denied
<1>2. ReadGrants
  BY <1>1 DEF Next, Authorize, Admins, createServer, cmdAddServer, patchServer, deleteServer,
     addServerGroupMember, cmdAddServerToGroup, createGrant, patchGrant, deleteGrant, vars,
     policy, Start, ReadServer, ReadUserGroups, ReadServerGroups, QueryError, Return,
     CreateServer, UpdateServer, DeleteServer, DeleteUser, AddUserToGroup, AddServerToGroup,
     CreateGrant, UpdateGrant, DeleteGrant, Edited
<1> DEFINE matching == MatchingGrants(call.ug, call.server, call.sg)
           usable == UsablePrincipals(matching, call.allowed)
<1>3. decision' \in Decisions(call.login, matching, call.allowed)
  BY <1>2 DEF ReadGrants
<1> HIDE DEF matching
<1>4. PICK p \in ResolvePrincipal(call.login, usable) : decision' = Compose(matching, p)
  BY <1>1, <1>3 DEF Decisions
<1>5. p \in usable
  BY <1>4 DEF ResolvePrincipal
<1>6. /\ \E g \in matching : p \in g.principals
      /\ call.allowed = {} \/ p \in call.allowed
  BY <1>5 DEF UsablePrincipals
<1> DEFINE for == {g \in matching : p \in g.principals}
<1>7. /\ decision'.login = p
      /\ decision'.full = \E g \in matching : p \in g.principals /\ g.full
      /\ decision'.caps = UNION {g.caps : g \in for}
      /\ decision'.ttl = CHOOSE t \in {g.ttl : g \in for} : \A g \in for : g.ttl <= t
  BY <1>4 DEF Compose
<1>9. \E g \in for : g.ttl = decision'.ttl
  <2>1. for # {} /\ for \in SUBSET grants
    BY <1>6 DEF matching, MatchingGrants
  <2>2. PICK g \in for : \A h \in for : h.ttl <= g.ttl
    BY <2>1 DEF IndInv, TTLsStored
  <2> HIDE DEF for
  <2>3. \E t \in {h.ttl : h \in for} : \A h \in for : h.ttl <= t
    BY <2>2
  <2>4. decision'.ttl \in {h.ttl : h \in for}
    BY <1>7, <2>3
  <2> QED
    BY <2>4
<1>8. call.pc = "grants"
  BY <1>2 DEF ReadGrants
<1> QED
  BY <1>6, <1>7, <1>8, <1>9 DEF matching

\* Nobody is let in whom the policy in force at the decision keeps out, unless
\* the server's row was edited or the subject deleted during the call.
THEOREM AllowsAreCurrent == Spec => AllowIsCurrent
<1> DEFINE Current == Granting /\ call.server \in seen.kept =>
                        Permits(call.server, decision'.login)
<1>1. IndInv /\ [Next]_vars => [Current]_decision
  <2> SUFFICES ASSUME IndInv, [Next]_vars, Granting, call.server \in seen.kept
               PROVE  Permits(call.server, decision'.login)
    OBVIOUS
  <2>1. /\ call.pc = "grants"
        /\ \E g \in MatchingGrants(call.ug, call.server, call.sg) :
             decision'.login \in g.principals
        /\ call.allowed = {} \/ decision'.login \in call.allowed
    BY GrantingStep
  <2>2. /\ servers[call.server].allow = call.allowed
        /\ call.ug \subseteq ugroups /\ call.sg \subseteq sgroups[call.server]
    BY <2>1 DEF IndInv, ReadsAreSound
  <2>3. MatchingGrants(call.ug, call.server, call.sg) \subseteq Applying(call.server)
    BY <2>2 DEF MatchingGrants, Applying
  <2> QED
    BY <2>1, <2>2, <2>3 DEF Permits
<1> QED
  BY <1>1, Invariance, PTL DEF Spec, AllowIsCurrent

\* A full-recording grant for the account that has applied throughout the call
\* makes the session fully recorded, whatever else was edited meanwhile.
THEOREM RecordingIsKept == Spec => RecordingNotLost
<1> DEFINE Kept == Granting /\ (\E g \in seen.steady[call.server] : decision'.login \in g.principals)
                     => decision'.full
<1>1. IndInv /\ [Next]_vars => [Kept]_decision
  <2> SUFFICES ASSUME IndInv, [Next]_vars, Granting,
                      NEW g \in seen.steady[call.server], decision'.login \in g.principals
               PROVE  decision'.full
    OBVIOUS
  <2>1. /\ call.pc = "grants"
        /\ decision'.full = \E h \in MatchingGrants(call.ug, call.server, call.sg) :
                              decision'.login \in h.principals /\ h.full
    BY GrantingStep
  <2>2. call.server \in Servers
    BY <2>1 DEF IndInv, TypeOK
  <2>3. g \in Applying(call.server) /\ g.full
    BY <2>1, <2>2 DEF IndInv, SteadyIsRead
  <2>4. g.subject \in {Self} \cup call.ug /\ g.target \in {call.server} \cup call.sg
    BY <2>1 DEF IndInv, SteadyIsRead
  <2>5. g \in MatchingGrants(call.ug, call.server, call.sg)
    BY <2>3, <2>4 DEF Applying, MatchingGrants
  <2> QED
    BY <2>1, <2>3, <2>5
<1> QED
  BY <1>1, Invariance, PTL DEF Spec, RecordingNotLost

\* Every capability of a session and its lifetime come from a grant in force for
\* the account logged in to, and the lifetime is never zero.
THEOREM PrivilegesComeFromGrants == Spec => PrivilegesAreGranted
<1> DEFINE Given ==
      Granting /\ call.server \in seen.kept =>
        LET for == {g \in Applying(call.server) : decision'.login \in g.principals} IN
        /\ \A k \in decision'.caps : \E g \in for : k \in g.caps
        /\ \E g \in for : g.ttl = decision'.ttl
        /\ decision'.ttl # 0
<1>1. IndInv /\ [Next]_vars => [Given]_decision
  <2> SUFFICES ASSUME IndInv, [Next]_vars, Granting, call.server \in seen.kept
               PROVE  Given
    OBVIOUS
  <2> DEFINE matching == MatchingGrants(call.ug, call.server, call.sg)
  <2>1. /\ call.pc = "grants"
        /\ \A k \in decision'.caps :
             \E g \in matching : decision'.login \in g.principals /\ k \in g.caps
        /\ \E g \in matching : decision'.login \in g.principals /\ g.ttl = decision'.ttl
    BY GrantingStep
  <2>2. call.ug \subseteq ugroups /\ call.sg \subseteq sgroups[call.server]
    BY <2>1 DEF IndInv, ReadsAreSound
  <2>3. matching \subseteq Applying(call.server) /\ \A g \in matching : g.ttl # 0
    BY <2>2 DEF MatchingGrants, Applying, IndInv, TTLsStored
  <2> HIDE DEF matching
  <2> QED
    BY <2>1, <2>3
<1> QED
  BY <1>1, Invariance, PTL DEF Spec, PrivilegesAreGranted

\* A call that no edit and no failure disturbs answers with the account that the
\* policy gives the subject, and refuses when it gives none.
THEOREM QuietCallsAreExact == Spec => []QuietIsExact
<1>1. IndInv => QuietIsExact
  BY DEF IndInv, ReadsAreExact, QuietIsExact
<1> QED
  BY <1>1, Invariance, PTL
=============================================================================
