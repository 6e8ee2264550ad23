--------------------------- MODULE Authorization ---------------------------
(***************************************************************************)
(* DBAuthorizer.Authorize against a policy that is being edited.           *)
(*                                                                         *)
(* Authorize reads the server row, the subject's groups, the server's      *)
(* groups and the matching grants with four separate queries, outside any  *)
(* transaction, and composes its decision from what they returned.         *)
(* Administrators change servers, memberships and grants between any two   *)
(* of them, from the API process and the CLI.  A failed query denies.      *)
(*                                                                         *)
(* One subject makes calls, one after the other, all for the same host     *)
(* alias.  hostname has no unique constraint: several servers may carry    *)
(* the alias, and the query returns any one of them.  No operation of the  *)
(* store removes a membership except by deleting the user or the server.   *)
(*                                                                         *)
(* Abstracted: addresses, ports, host keys and messages.  A row's id stands *)
(* for the row; ids are never used again.                                  *)
(***************************************************************************)
EXTENDS Naturals

CONSTANTS
  Kinds,         \* types of subject considered: "user", "service_account"
  Self,          \* the subject's id
  UserGroups, Servers, ServerGroups,
  Principals,    \* target accounts
  SelfTokens,    \* the requested logins "", "me" and the subject's own label
  Grants,        \* the grants administrators write, with the TTL they ask for
  AllowLists,    \* the values they give servers.allowed_principals
  Null,          \* no value
  DefaultTTL     \* what CreateGrant and UpdateGrant store for a TTL below 1 s

Caps == {"shell", "exec", "sftp"}
Tokens == Principals \cup SelfTokens

GrantRows == [subject: {Self} \cup UserGroups, target: Servers \cup ServerGroups,
              principals: SUBSET Principals, caps: SUBSET Caps, ttl: Nat, full: BOOLEAN]

ASSUME KindsAssumption == Kinds \subseteq {"user", "service_account"}
ASSUME IdsAssumption == Self \notin UserGroups /\ Servers \cap ServerGroups = {}
ASSUME PolicyAssumption == Grants \subseteq GrantRows /\ AllowLists \subseteq SUBSET Principals
ASSUME NullAssumption == Null \notin Servers
ASSUME TTLAssumption == DefaultTTL \in Nat \ {0}

VARIABLES
  servers,   \* the servers table: whether the row is there, carries the alias, its allowlist
  ugroups,   \* user_group_members of the subject
  sgroups,   \* server_group_members
  grants,    \* the grants table
  subject,   \* the subject's type and whether its row is there
  call,      \* Authorize: program counter, request and what its queries returned
  decision,  \* its result
  seen       \* history: what has held ever since the call began

policy == <<servers, ugroups, sgroups, grants, subject>>
vars == <<policy, call, decision, seen>>

NoServer == [state |-> "absent", named |-> FALSE, allow |-> {}]
Denied == [allow |-> FALSE, login |-> Null, caps |-> {}, ttl |-> 0, full |-> FALSE]
IdleCall == [pc |-> "idle", login |-> Null, server |-> Null, allowed |-> {}, ug |-> {},
             sg |-> {}]

-----------------------------------------------------------------------------
(* The pure part of Authorize *)

\* Mutant: OR between the two halves of the WHERE clause.
MatchingGrants_Or(ug, s, sg) ==
  {g \in grants : g.subject \in {Self} \cup ug \/ g.target \in {s} \cup sg}

\* MatchingGrants: the subject itself or one of its groups, on the server or
\* one of its groups.
MatchingGrants(ug, s, sg) ==
  {g \in grants : g.subject \in {Self} \cup ug /\ g.target \in {s} \cup sg}

\* The grants that apply on server s right now.
Applying(s) ==
  {g \in grants : /\ g.subject = Self \/ g.subject \in ugroups
                  /\ g.target = s \/ g.target \in sgroups[s]}

\* The accounts of the matching grants, within the allowlist where one is set.
UsablePrincipals(matching, allowed) ==
  LET permitted == UNION {g.principals : g \in matching}
  IN  IF allowed = {} THEN permitted ELSE permitted \cap allowed

\* Mutant: an ambiguous request is resolved by guessing.
ResolvePrincipal_Guess(token, usable) ==
  IF token \in usable THEN {token} ELSE {p \in usable : token \in SelfTokens}

\* resolvePrincipal: the accounts it may return, none or one.
ResolvePrincipal(token, usable) ==
  IF token \in usable THEN {token}
  ELSE {p \in usable : token \in SelfTokens /\ usable = {p}}

\* Mutants: every matching grant contributes, whichever accounts it names; full
\* recording only if all ask for it.
Compose_AllGrants(matching, p) ==
  [allow |-> TRUE, login |-> p,
   caps |-> UNION {g.caps : g \in matching},
   ttl |-> CHOOSE t \in {g.ttl : g \in matching} : \A g \in matching : g.ttl <= t,
   full |-> \E g \in matching : g.full]
Compose_AllFull(matching, p) ==
  LET for == {g \in matching : p \in g.principals}
  IN  [allow |-> TRUE, login |-> p,
       caps |-> UNION {g.caps : g \in for},
       ttl |-> CHOOSE t \in {g.ttl : g \in for} : \A g \in for : g.ttl <= t,
       full |-> \A g \in for : g.full]

\* Over the grants that name the chosen account: the longest TTL, the union of
\* the capabilities, and full recording if any asks for it.
Compose(matching, p) ==
  LET for == {g \in matching : p \in g.principals}
  IN  [allow |-> TRUE, login |-> p,
       caps |-> UNION {g.caps : g \in for},
       ttl |-> CHOOSE t \in {g.ttl : g \in for} : \A g \in for : g.ttl <= t,
       full |-> \E g \in for : g.full]

Decisions(token, matching, allowed) ==
  LET resolved == ResolvePrincipal(token, UsablePrincipals(matching, allowed))
      chosen == {p \in resolved : allowed = {} \/ p \in allowed}
  IN  IF chosen = {} THEN {Denied} ELSE {Compose(matching, p) : p \in chosen}

-----------------------------------------------------------------------------
(* History: the full-recording grants that have applied on each server, the
   servers whose row (and whose subject) nobody has touched, and whether there
   has been no edit and no error at all. *)

NoHistory == [steady |-> [s \in Servers |-> {}], kept |-> {}, quiet |-> FALSE]
Fresh == [steady |-> [s \in Servers |-> {g \in Applying(s) : g.full}],
          kept |-> Servers, quiet |-> TRUE]

-----------------------------------------------------------------------------
TypeOK ==
  /\ servers \in [Servers -> [state: {"absent", "live", "deleted"}, named: BOOLEAN,
                              allow: SUBSET Principals]]
  /\ ugroups \subseteq UserGroups
  /\ sgroups \in [Servers -> SUBSET ServerGroups]
  /\ grants \subseteq GrantRows
  /\ subject \in [kind: {"user", "service_account"}, live: BOOLEAN]
  /\ subject.kind # "user" => ugroups = {}
  /\ call = [pc |-> call.pc, login |-> call.login, server |-> call.server,
             allowed |-> call.allowed, ug |-> call.ug, sg |-> call.sg]
  /\ call.pc \in {"idle", "server", "ugroups", "sgroups", "grants", "done"}
  /\ call.pc \in {"ugroups", "sgroups", "grants"} => call.server \in Servers
  /\ call.ug \subseteq UserGroups /\ call.sg \subseteq ServerGroups
  /\ call.allowed \subseteq Principals
  /\ seen \in [steady: [Servers -> SUBSET GrantRows], kept: SUBSET Servers, quiet: BOOLEAN]

Init ==
  /\ servers = [s \in Servers |-> NoServer]
  /\ ugroups = {}
  /\ sgroups = [s \in Servers |-> {}]
  /\ grants = {}
  /\ subject \in [kind: Kinds, live: {TRUE}]
  /\ call = IdleCall
  /\ decision = Denied
  /\ seen = NoHistory

-----------------------------------------------------------------------------
(* Authorize, one step per query *)

Start(token) ==
  /\ call.pc = "idle"
  /\ call' = [IdleCall EXCEPT !.pc = "server", !.login = token]
  /\ seen' = Fresh
  /\ UNCHANGED <<policy, decision>>

\* GetServerByHostname; no row means denied.
ReadServer ==
  /\ call.pc = "server"
  /\ LET found == {s \in Servers : servers[s].state = "live" /\ servers[s].named} IN
     \/ \E s \in found :
          call' = [call EXCEPT !.pc = IF subject.kind = "user" THEN "ugroups" ELSE "sgroups",
                               !.server = s, !.allowed = servers[s].allow]
     \/ found = {} /\ call' = [call EXCEPT !.pc = "done"]
  /\ decision' = Denied
  /\ UNCHANGED <<policy, seen>>

\* GroupsForUser; a service account has no groups and skips this query.
ReadUserGroups ==
  /\ call.pc = "ugroups"
  /\ call' = [call EXCEPT !.pc = "sgroups", !.ug = ugroups]
  /\ UNCHANGED <<policy, decision, seen>>

\* Mutant: the query does not restrict to the server.
ReadServerGroups_Any ==
  /\ call.pc = "sgroups"
  /\ call' = [call EXCEPT !.pc = "grants", !.sg = UNION {sgroups[s] : s \in Servers}]
  /\ UNCHANGED <<policy, decision, seen>>

ReadServerGroups ==
  /\ call.pc = "sgroups"
  /\ call' = [call EXCEPT !.pc = "grants", !.sg = sgroups[call.server]]
  /\ UNCHANGED <<policy, decision, seen>>

\* MatchingGrants and everything after it.
ReadGrants ==
  /\ call.pc = "grants"
  /\ decision' \in Decisions(call.login, MatchingGrants(call.ug, call.server, call.sg),
                             call.allowed)
  /\ call' = [call EXCEPT !.pc = "done"]
  /\ UNCHANGED <<policy, seen>>

\* A query failed or the 5-second context expired: ErrTargetUnauthorized.
QueryError ==
  /\ call.pc \in {"server", "ugroups", "sgroups", "grants"}
  /\ call' = [call EXCEPT !.pc = "done"]
  /\ decision' = Denied
  /\ seen' = [seen EXCEPT !.quiet = FALSE]
  /\ UNCHANGED policy

\* handleConn takes the result.
Return ==
  /\ call.pc = "done"
  /\ call' = IdleCall /\ decision' = Denied /\ seen' = NoHistory
  /\ UNCHANGED policy

-----------------------------------------------------------------------------
(* Administrators *)

\* Every edit narrows the history of the call in progress.
Edited ==
  /\ seen' = IF call.pc = "idle" THEN NoHistory ELSE
       [steady |-> [s \in Servers |-> seen.steady[s] \cap Applying(s)'],
        kept |-> {s \in seen.kept : servers'[s] = servers[s] /\ subject' = subject},
        quiet |-> FALSE]
  /\ UNCHANGED <<call, decision>>

CreateServer(s, allow) ==
  /\ servers[s].state = "absent"
  /\ servers' = [servers EXCEPT ![s] = [state |-> "live", named |-> TRUE, allow |-> allow]]
  /\ UNCHANGED <<ugroups, sgroups, grants, subject>> /\ Edited

UpdateServer(s, named, allow) ==
  /\ servers[s].state = "live"
  /\ servers' = [servers EXCEPT ![s] = [state |-> "live", named |-> named, allow |-> allow]]
  /\ UNCHANGED <<ugroups, sgroups, grants, subject>> /\ Edited

\* One transaction: direct grants, the row, and its memberships by cascade.
DeleteServer(s) ==
  /\ servers[s].state = "live"
  /\ servers' = [servers EXCEPT ![s] = [NoServer EXCEPT !.state = "deleted"]]
  /\ sgroups' = [sgroups EXCEPT ![s] = {}]
  /\ grants' = {g \in grants : g.target # s}
  /\ UNCHANGED <<ugroups, subject>> /\ Edited

\* Only a user can be deleted, or be a member of a group.
DeleteUser ==
  /\ subject.kind = "user" /\ subject.live
  /\ subject' = [subject EXCEPT !.live = FALSE]
  /\ ugroups' = {}
  /\ grants' = {g \in grants : g.subject # Self}
  /\ UNCHANGED <<servers, sgroups>> /\ Edited

AddUserToGroup(ug) ==
  /\ subject.kind = "user" /\ subject.live
  /\ ugroups' = ugroups \cup {ug}
  /\ UNCHANGED <<servers, sgroups, grants, subject>> /\ Edited

AddServerToGroup(s, sg) ==
  /\ servers[s].state = "live"
  /\ sgroups' = [sgroups EXCEPT ![s] = @ \cup {sg}]
  /\ UNCHANGED <<servers, ugroups, grants, subject>> /\ Edited

\* max_ttl is stored in whole seconds, and never as zero.
Stored(g) == [g EXCEPT !.ttl = IF @ = 0 THEN DefaultTTL ELSE @]

CreateGrant(g) ==
  /\ grants' = grants \cup {Stored(g)}
  /\ UNCHANGED <<servers, ugroups, sgroups, subject>> /\ Edited

\* Subject and target are fixed; everything else may change at once.
UpdateGrant(old, g) ==
  /\ g.subject = old.subject /\ g.target = old.target
  /\ grants' = (grants \ {old}) \cup {Stored(g)}
  /\ UNCHANGED <<servers, ugroups, sgroups, subject>> /\ Edited

DeleteGrant(g) ==
  /\ grants' = grants \ {g}
  /\ UNCHANGED <<servers, ugroups, sgroups, subject>> /\ Edited

-----------------------------------------------------------------------------

Authorize ==
  \/ \E token \in Tokens : Start(token)
  \/ ReadServer \/ ReadUserGroups \/ ReadServerGroups \/ ReadGrants
  \/ QueryError \/ Return

\* The API's handlers take ids, the CLI finds a server by its host name.
createServer == \E s \in Servers, allow \in AllowLists : CreateServer(s, allow)
cmdAddServer == \E s \in Servers, allow \in AllowLists : CreateServer(s, allow)
patchServer ==
  \E s \in Servers, named \in BOOLEAN, allow \in AllowLists : UpdateServer(s, named, allow)
deleteServer == \E s \in Servers : DeleteServer(s)
addServerGroupMember == \E s \in Servers, sg \in ServerGroups : AddServerToGroup(s, sg)
cmdAddServerToGroup ==
  \E s \in Servers, sg \in ServerGroups : servers[s].named /\ AddServerToGroup(s, sg)
createGrant == \E g \in Grants : CreateGrant(g)
patchGrant == \E g \in grants, new \in Grants : UpdateGrant(g, new)
deleteGrant == \E g \in grants : DeleteGrant(g)

Admins ==
  \/ createServer \/ cmdAddServer \/ patchServer \/ deleteServer
  \/ addServerGroupMember \/ cmdAddServerToGroup
  \/ DeleteUser \/ \E ug \in UserGroups : AddUserToGroup(ug)
  \/ createGrant \/ patchGrant \/ deleteGrant

Next == Authorize \/ Admins

Spec == Init /\ [][Next]_vars

-----------------------------------------------------------------------------
(* Safety *)

\* The step that hands out a decision to let the subject in.
Granting == decision'.allow /\ ~decision.allow

\* The policy in force gives the subject account p on server s.
Permits(s, p) ==
  /\ \E g \in Applying(s) : p \in g.principals
  /\ servers[s].allow = {} \/ p \in servers[s].allow

\* Although its four queries see four different moments, Authorize lets nobody
\* in that the policy in force when it decides would keep out, unless the
\* server's row was edited or the subject deleted under the call.
AllowIsCurrent ==
  [][Granting /\ call.server \in seen.kept => Permits(call.server, decision'.login)]_decision

\* Every capability and the lifetime of a granted session come from a grant in
\* force that names the very account logged in to, on that server; the
\* lifetime is never zero, which the certificate issuer would take as its
\* maximum.
PrivilegesAreGranted ==
  [][Granting /\ call.server \in seen.kept =>
       LET for == {g \in Applying(call.server) : decision'.login \in g.principals} IN
       /\ \A k \in decision'.caps : \E g \in for : k \in g.caps
       /\ \E g \in for : g.ttl = decision'.ttl
       /\ decision'.ttl # 0]_decision

\* A grant that asks for full recording and has applied throughout the call is
\* never lost: "most-protective wins".
RecordingNotLost ==
  [][Granting /\ (\E g \in seen.steady[call.server] : decision'.login \in g.principals)
       => decision'.full]_decision

\* With no edit and no failure the decision is the policy's: the account asked
\* for if the subject has it, else its only account when it asked for itself,
\* else a refusal.
PolicyAnswer(s, token) ==
  LET mine == {p \in Principals : Permits(s, p)} IN
  CASE token \in mine -> token
    [] token \notin mine /\ token \in SelfTokens /\ (\E p \in mine : mine = {p}) ->
         CHOOSE p \in mine : TRUE
    [] OTHER -> Null
QuietIsExact ==
  seen.quiet /\ call.pc = "done" =>
    decision.login = IF call.server = Null THEN Null ELSE PolicyAnswer(call.server, call.login)
-----------------------------------------------------------------------------
(* The inductive invariant behind these properties *)

\* What the call has read is still part of the policy, as long as nobody
\* touched its server's row or its subject: memberships only grow.
ReadsAreSound ==
  /\ call.pc = "server" => call.ug = {} /\ call.sg = {}
  /\ call.pc \in {"ugroups", "sgroups", "grants"} /\ call.server \in seen.kept =>
       /\ servers[call.server].allow = call.allowed
       /\ call.ug \subseteq ugroups
       /\ call.sg \subseteq sgroups[call.server]

\* A grant that has applied throughout applies now, and through memberships
\* that the call's own reads have returned.
SteadyIsRead ==
  /\ call.pc # "idle" => \A s \in Servers : \A g \in seen.steady[s] : g \in Applying(s) /\ g.full
  /\ call.pc \in {"sgroups", "grants"} =>
       \A g \in seen.steady[call.server] : g.subject \in {Self} \cup call.ug
  /\ call.pc = "grants" =>
       \A g \in seen.steady[call.server] : g.target \in {call.server} \cup call.sg

\* As long as nobody has edited anything, what the call has read is exactly what
\* the tables say, and so is the answer it has composed.
ReadsAreExact ==
  seen.quiet =>
    /\ call.pc = "server" => call.server = Null
    /\ call.pc \in {"ugroups", "sgroups", "grants"} =>
         call.allowed = servers[call.server].allow
    /\ call.pc \in {"sgroups", "grants"} => call.ug = ugroups
    /\ call.pc = "grants" => call.sg = sgroups[call.server]
    /\ QuietIsExact

\* No stored TTL is zero, and among any of the grants there is a longest TTL:
\* however many edits were made, they were finitely many.
TTLsStored ==
  /\ \A g \in grants : g.ttl # 0
  /\ \A S \in SUBSET grants : S # {} => \E g \in S : \A h \in S : h.ttl <= g.ttl

\* What a call knows and what the tables say, at any moment of the call.
IndInv == TypeOK /\ ReadsAreSound /\ SteadyIsRead /\ ReadsAreExact /\ TTLsStored
=============================================================================
