----------------------------- MODULE Identities -----------------------------
(***************************************************************************)
(* Who a connection is: users, their keys, service accounts and direct     *)
(* grants, as administrators change them through the CLI and the API,      *)
(* against a handshake that looks keys up and an authorization that reads  *)
(* groups and grants for the subject the handshake found.                  *)
(*                                                                         *)
(* An administrator acts on an id that a name was resolved to, or that a   *)
(* listing showed, at some earlier time; the row may be gone by then.      *)
(* Foreign keys guard keys and memberships; nothing guards the subject of  *)
(* a grant.  DeleteUser is a transaction of two statements.                *)
(*                                                                         *)
(* golang.org/x/crypto/ssh asks PublicKeyCallback once per offered key and *)
(* keeps the answer, either way, for the rest of the handshake; a          *)
(* signature is matched with the kept answer of the key that made it.      *)
(*                                                                         *)
(* Abstracted: names, e-mail addresses, the target (every grant here is    *)
(* for it), what a grant allows, the browser sign-in.  A service account   *)
(* is created once and never changed: the code has no other operation.     *)
(***************************************************************************)
EXTENDS Integers

CONSTANTS
  Users,     \* ids of users; an id is never used again
  SAs,       \* ids of service accounts
  Group,     \* a user group
  Keys,      \* public keys
  GrantIds,  \* ids of grants
  Conns,     \* SSH connections
  None       \* nobody, or no answer yet

Subjects == Users \cup SAs

ASSUME DistinctAssumption ==
  /\ Users \cap SAs = {}
  /\ Group \notin Subjects /\ None \notin Subjects \cup {Group}
  /\ "unasked" \notin Subjects /\ "refused" \notin Subjects

VARIABLES
  user,      \* users.status, or "absent" before and "deleted" after
  keyOwner,  \* user_public_keys: the user of each key
  sa,        \* service_accounts
  members,   \* user_group_members
  grant,     \* grants: the subject of each
  open,      \* users whose DeleteUser transaction is between its statements
  doomed,    \* the grants it has deleted and not committed
  late,      \* history: grants made while their user was being or had been deleted
  pc,        \* where each connection is
  cache,     \* what PublicKeyCallback said of each key
  who,       \* its identity, once authenticated
  groups,    \* GroupsForUser
  dead,      \* history: the user was deleted before its groups were read
  valid      \* history: who was the active owner of which key since the handshake began

userVars == <<user, keyOwner, sa, members>>
grantVars == <<grant, open, doomed, late>>
connVars == <<pc, cache, who, groups, dead>>
vars == <<userVars, grantVars, connVars, valid>>

Status == {"active", "disabled"}
NoAccount == [status |-> "absent", key |-> None]

TypeOK ==
  /\ user \in [Users -> Status \cup {"absent", "deleted"}]
  /\ keyOwner \in [Keys -> Users \cup {None}]
  /\ sa \in [SAs -> [status: Status \cup {"absent"}, key: Keys \cup {None}]]
  /\ members \subseteq Users
  /\ grant \in [GrantIds -> Subjects \cup {Group, None}]
  /\ open \subseteq Users
  /\ doomed \in [Users -> SUBSET GrantIds]
  /\ late \subseteq GrantIds
  /\ pc \in [Conns -> {"idle", "auth", "groups", "grants", "allowed", "denied"}]
  /\ cache \in [Conns -> [Keys -> Subjects \cup {"unasked", "refused"}]]
  /\ who \in [Conns -> Subjects \cup {None}]
  /\ groups \in [Conns -> SUBSET {Group}]
  /\ dead \subseteq Conns
  /\ valid \in [Conns -> SUBSET (Keys \X Subjects)]

Unasked == [k \in Keys |-> "unasked"]

Init ==
  /\ user = [u \in Users |-> "absent"]
  /\ keyOwner = [k \in Keys |-> None]
  /\ sa = [s \in SAs |-> NoAccount]
  /\ members = {}
  /\ grant = [g \in GrantIds |-> None]
  /\ open = {} /\ doomed = [u \in Users |-> {}] /\ late = {}
  /\ pc = [c \in Conns |-> "idle"]
  /\ cache = [c \in Conns |-> Unasked]
  /\ who = [c \in Conns |-> None] /\ groups = [c \in Conns |-> {}]
  /\ dead = {} /\ valid = [c \in Conns |-> {}]

-----------------------------------------------------------------------------
(* The store *)

Live(u) == user[u] \in Status

CreateUser(u, st) ==
  /\ user[u] = "absent"
  /\ user' = [user EXCEPT ![u] = st]
  /\ UNCHANGED <<keyOwner, sa, members, grantVars, connVars>>

\* SetUserStatus, and UpdateUser: no row is ErrNotFound.
SetUserStatus(u, st) ==
  /\ Live(u)
  /\ user' = [user EXCEPT ![u] = st]
  /\ UNCHANGED <<keyOwner, sa, members, grantVars, connVars>>

\* The key must be nobody's (UNIQUE) and the user must exist (FOREIGN KEY).
AddUserKey(u, k) ==
  /\ Live(u) /\ keyOwner[k] = None
  /\ keyOwner' = [keyOwner EXCEPT ![k] = u]
  /\ UNCHANGED <<user, sa, members, grantVars, connVars>>

\* Any key will do, a user's or another account's, too.
CreateServiceAccount(s, k, st) ==
  /\ sa[s] = NoAccount
  /\ sa' = [sa EXCEPT ![s] = [status |-> st, key |-> k]]
  /\ UNCHANGED <<user, keyOwner, members, grantVars, connVars>>

\* Mutant: no foreign key.
AddUserToGroup_Unchecked(u) ==
  /\ members' = members \cup {u}
  /\ UNCHANGED <<user, keyOwner, sa, grantVars, connVars>>

AddUserToGroup(u) ==
  /\ Live(u)
  /\ members' = members \cup {u}
  /\ UNCHANGED <<user, keyOwner, sa, grantVars, connVars>>

\* Whether the subject still exists is not looked at.
CreateGrant(g, sub) ==
  /\ grant[g] = None
  /\ grant' = [grant EXCEPT ![g] = sub]
  /\ late' = IF sub \in Users /\ (sub \in open \/ user[sub] = "deleted")
               THEN late \cup {g} ELSE late \ {g}
  /\ UNCHANGED <<userVars, open, doomed, connVars>>

\* A row that an open transaction has deleted is locked: the DELETE waits.
DeleteGrant(g) ==
  /\ grant[g] # None
  /\ \A u \in open : g \notin doomed[u]
  /\ grant' = [grant EXCEPT ![g] = None]
  /\ UNCHANGED <<userVars, open, doomed, late, connVars>>

\* Mutant: grants are left to foreign keys, of which they have none.
DeleteUser_RowOnly(u) ==
  /\ Live(u) /\ u \notin open
  /\ open' = open \cup {u}
  /\ doomed' = [doomed EXCEPT ![u] = {}]
  /\ UNCHANGED <<userVars, grant, late, connVars>>

\* DeleteUser's first statement deletes the direct grants there are now.  (For a
\* user that is gone already the second one finds no row, and all is undone.)
DeleteUser(u) ==
  /\ Live(u) /\ u \notin open
  /\ open' = open \cup {u}
  /\ doomed' = [doomed EXCEPT ![u] = {g \in GrantIds : grant[g] = u}]
  /\ UNCHANGED <<userVars, grant, late, connVars>>

\* The second statement deletes the row, and foreign keys its keys and
\* memberships; then the commit.
CommitDelete(u) ==
  /\ u \in open
  /\ open' = open \ {u} /\ doomed' = [doomed EXCEPT ![u] = {}]
  /\ user' = [user EXCEPT ![u] = "deleted"]
  /\ keyOwner' = [k \in Keys |-> IF keyOwner[k] = u THEN None ELSE keyOwner[k]]
  /\ members' = members \ {u}
  /\ grant' = [g \in GrantIds |-> IF g \in doomed[u] THEN None ELSE grant[g]]
  /\ UNCHANGED <<sa, late, connVars>>

\* A statement or the commit failed, or the client went away: Rollback.
AbortDelete(u) ==
  /\ u \in open
  /\ open' = open \ {u} /\ doomed' = [doomed EXCEPT ![u] = {}]
  /\ UNCHANGED <<userVars, grant, late, connVars>>

-----------------------------------------------------------------------------
(* What administrators do *)

\* The ids a name was resolved to, or a listing showed, at some time.
UserIds == {u \in Users : user[u] # "absent"}

\* The CLI names users and groups as subjects; the API takes any id.
CliSubjects == UserIds \cup {Group}
ApiSubjects == CliSubjects \cup {s \in SAs : sa[s] # NoAccount}

cmdAddUser == \E u \in Users, st \in Status : CreateUser(u, st)
cmdAddKey == \E u \in UserIds, k \in Keys : AddUserKey(u, k)
cmdAddServiceAccount == \E s \in SAs, k \in Keys, st \in Status : CreateServiceAccount(s, k, st)
cmdSetUserStatus == \E u \in UserIds, st \in Status : SetUserStatus(u, st)
cmdAddUserToGroup == \E u \in UserIds : AddUserToGroup(u)
cmdAddGrant == \E g \in GrantIds, sub \in CliSubjects : CreateGrant(g, sub)

createUser == \E u \in Users, st \in Status : CreateUser(u, st)
patchUser == \E u \in UserIds, st \in Status : SetUserStatus(u, st)
addUserKey == \E u \in UserIds, k \in Keys : AddUserKey(u, k)
addUserGroupMember == \E u \in UserIds : AddUserToGroup(u)
createGrant == \E g \in GrantIds, sub \in ApiSubjects : CreateGrant(g, sub)
deleteGrant == \E g \in GrantIds : DeleteGrant(g)
deleteUser == \E u \in UserIds : DeleteUser(u) \/ CommitDelete(u) \/ AbortDelete(u)

Administer ==
  \/ cmdAddUser \/ cmdAddKey \/ cmdAddServiceAccount \/ cmdSetUserStatus
  \/ cmdAddUserToGroup \/ cmdAddGrant
  \/ createUser \/ patchUser \/ addUserKey \/ addUserGroupMember
  \/ createGrant \/ deleteGrant \/ deleteUser

-----------------------------------------------------------------------------
(* A connection *)

Step(c, from, to) == pc[c] = from /\ pc' = [pc EXCEPT ![c] = to]

\* The rows of AuthnByKey's query; LIMIT 1 without an ORDER BY takes any.
Owners(k) == {u \in Users : keyOwner[k] = u} \cup {s \in SAs : sa[s].key = k}

Active(x) == IF x \in Users THEN user[x] = "active" ELSE sa[x].status = "active"

Connect(c) ==
  /\ Step(c, "idle", "auth")
  /\ UNCHANGED <<userVars, grantVars, cache, who, groups, dead>>

\* PublicKeyCallback for a key not asked for before: the active owner, or a
\* refusal if there is none, it is disabled, or the query failed.
AuthenticatePublicKey(c, k) ==
  /\ pc[c] = "auth" /\ cache[c][k] = "unasked"
  /\ \E answer \in {x \in Owners(k) : Active(x)} \cup {"refused"} :
       cache' = [cache EXCEPT ![c][k] = answer]
  /\ UNCHANGED <<userVars, grantVars, pc, who, groups, dead>>

\* Mutant: the identity is that of some key that was looked up.
Sign_AnyKey(c, k) ==
  /\ Step(c, "auth", "groups")
  /\ cache[c][k] \in Subjects
  /\ \E j \in Keys : cache[c][j] \in Subjects /\ who' = [who EXCEPT ![c] = cache[c][j]]
  /\ cache' = [cache EXCEPT ![c] = Unasked]
  /\ UNCHANGED <<userVars, grantVars, groups, dead>>

\* The client proves that it holds k: the kept answer is its identity.
Sign(c, k) ==
  /\ Step(c, "auth", "groups")
  /\ cache[c][k] \in Subjects
  /\ who' = [who EXCEPT ![c] = cache[c][k]]
  /\ cache' = [cache EXCEPT ![c] = Unasked]
  /\ UNCHANGED <<userVars, grantVars, groups, dead>>

\* Authorize reads the groups of a user; a service account has none.
ReadGroups(c) ==
  /\ Step(c, "groups", "grants")
  /\ groups' = [groups EXCEPT ![c] = IF who[c] \in members THEN {Group} ELSE {}]
  /\ dead' = IF who[c] \in Users /\ user[who[c]] = "deleted" THEN dead \cup {c} ELSE dead
  /\ UNCHANGED <<userVars, grantVars, cache, who>>

MatchingGrants(c) == {g \in GrantIds : grant[g] = who[c] \/ grant[g] \in groups[c]}

\* Authorize goes on with at least one matching grant.
ReadGrants(c) ==
  /\ MatchingGrants(c) # {}
  /\ Step(c, "grants", "allowed")
  /\ UNCHANGED <<userVars, grantVars, cache, who, groups, dead>>

\* No accepted key, a failed query, no grant, or no usable login.
Deny(c) ==
  /\ pc[c] \in {"auth", "groups", "grants"}
  /\ pc' = [pc EXCEPT ![c] = "denied"]
  /\ cache' = [cache EXCEPT ![c] = Unasked]
  /\ UNCHANGED <<userVars, grantVars, who, groups, dead>>

-----------------------------------------------------------------------------

\* Who is the active owner of which key at this moment.
Owning == {p \in Keys \X Subjects : p[2] \in Owners(p[1]) /\ Active(p[2])}

\* What the history of each handshake gains by a step.
Remember ==
  valid' = [c \in Conns |-> IF pc'[c] = "auth" THEN valid[c] \cup Owning' ELSE {}]

Handle(c) ==
  \/ Connect(c) \/ ReadGroups(c) \/ ReadGrants(c) \/ Deny(c)
  \/ \E k \in Keys : AuthenticatePublicKey(c, k) \/ Sign(c, k)

Next == (Administer \/ \E c \in Conns : Handle(c)) /\ Remember

Spec == Init /\ [][Next]_vars

-----------------------------------------------------------------------------
(* Safety *)

\* Whatever keys a client offers, and whatever becomes of them and of their
\* owners meanwhile, the identity it gets was, during this very handshake, the
\* active owner of the very key that signed.
SignerIsTheSubject ==
  [][\A c \in Conns, k \in Keys : Sign(c, k) => <<k, who'[c]>> \in valid[c]]_vars

\* A user that is deleted between the handshake and the first read of its
\* authorization is let through by no grant but one that was made for it while
\* it was being deleted or afterwards: neither a direct grant nor a group
\* outlives the user.
DeletedIsShutOut ==
  [][\A c \in dead :
       pc[c] = "grants" /\ pc'[c] = "allowed" => MatchingGrants(c) \subseteq late]_vars

-----------------------------------------------------------------------------
(* The inductive invariant behind the safety properties *)

\* Keys and memberships are those of users there are, and so are deletions in
\* progress.
RowsHaveUsers ==
  /\ \A k \in Keys : keyOwner[k] # None => Live(keyOwner[k])
  /\ \A u \in members \cup open : Live(u)

\* A direct grant of a user that is gone was made late; one of a user being
\* deleted is doomed or late, and what is doomed is that user's.
DanglingIsLate ==
  /\ \A g \in GrantIds : grant[g] \in Users /\ user[grant[g]] = "deleted" => g \in late
  /\ \A u \in open, g \in GrantIds : grant[g] = u => g \in doomed[u] \/ g \in late
  /\ \A u \in open : \A g \in doomed[u] : grant[g] = u

\* What the callback answered was so during this handshake.
AnswersWereValid == \A c \in Conns, k \in Keys :
  cache[c][k] \in Subjects => pc[c] = "auth" /\ <<k, cache[c][k]>> \in valid[c]

\* A dead user's authorization has begun, and found no groups.
DeadHaveNoGroups == \A c \in dead :
  /\ pc[c] \in {"grants", "allowed", "denied"}
  /\ who[c] \in Users /\ user[who[c]] = "deleted"
  /\ groups[c] = {}

\* How rows, grants and connections stand to each other.
IndInv == TypeOK /\ RowsHaveUsers /\ DanglingIsLate /\ AnswersWereValid /\ DeadHaveNoGroups
=============================================================================
