-------------------------- MODULE IdentitiesProofs --------------------------
(***************************************************************************)
(* Safety of identities for any number of users, keys, service accounts,   *)
(* grants and connections.                                                 *)
(*                                                                         *)
(* The argument: an answer is kept for the key it was given for and was    *)
(* true when it was given; a direct grant of a user whose deletion is open *)
(* is doomed or late, so what the commit leaves is late; and a user that   *)
(* is deleted has no membership and gets none.                             *)
(***************************************************************************)
EXTENDS Identities, TLAPS

\* The invariant holds in the empty database.
LEMMA InitHolds == Init => IndInv
<1> SUFFICES ASSUME Init PROVE IndInv
  OBVIOUS
<1>1. TypeOK
  BY DEF Init, TypeOK, Unasked, NoAccount, Status
<1>2. RowsHaveUsers /\ DanglingIsLate /\ DeadHaveNoGroups
  BY DistinctAssumption DEF Init, RowsHaveUsers, DanglingIsLate, DeadHaveNoGroups
<1>3. AnswersWereValid
  BY DistinctAssumption DEF Init, AnswersWereValid, Unasked
<1>. QED  BY <1>1, <1>2, <1>3 DEF IndInv

\* An administrator's step is one of the store's operations.
LEMMA AdministerCases ==
  ASSUME Administer
  PROVE  \/ \E u \in Users, st \in Status : CreateUser(u, st) \/ SetUserStatus(u, st)
         \/ \E u \in Users, k \in Keys : AddUserKey(u, k)
         \/ \E s \in SAs, k \in Keys, st \in Status : CreateServiceAccount(s, k, st)
         \/ \E u \in Users : AddUserToGroup(u)
         \/ \E g \in GrantIds, sub \in Subjects \cup {Group} : CreateGrant(g, sub)
         \/ \E g \in GrantIds : DeleteGrant(g)
         \/ \E u \in Users : DeleteUser(u) \/ CommitDelete(u) \/ AbortDelete(u)
BY DEF Administer, cmdAddUser, cmdAddKey, cmdAddServiceAccount, cmdSetUserStatus,
       cmdAddUserToGroup, cmdAddGrant, createUser, patchUser, addUserKey, addUserGroupMember,
       createGrant, deleteGrant, deleteUser, UserIds, CliSubjects, ApiSubjects, Subjects

\* Every step keeps the types.
LEMMA TypeNext == TypeOK /\ [Next]_vars => TypeOK'
<1> SUFFICES ASSUME TypeOK, [Next]_vars PROVE TypeOK'
  OBVIOUS
<1>1. CASE UNCHANGED vars
  BY <1>1 DEF vars, userVars, grantVars, connVars, TypeOK
<1>2. CASE Next
  <2> DEFINE Base ==
        /\ user \in [Users -> Status \cup {"absent", "deleted"}]
        /\ keyOwner \in [Keys -> Users \cup {None}]
        /\ sa \in [SAs -> [status: Status \cup {"absent"}, key: Keys \cup {None}]]
        /\ members \subseteq Users
        /\ grant \in [GrantIds -> Subjects \cup {Group, None}]
        /\ open \subseteq Users
        /\ doomed \in [Users -> SUBSET GrantIds]
        /\ late \subseteq GrantIds
        /\ pc \in [Conns -> {"idle", "auth", "groups", "grants", "allowed", "denied"}]
        /\ cache \in [Conns -> [Keys -> Subjects \cup {"unasked", "refused"}]]
        /\ who \in [Conns -> Subjects \cup {None}]
        /\ groups \in [Conns -> SUBSET {Group}]
        /\ dead \subseteq Conns
  <2>1. valid' \in [Conns -> SUBSET (Keys \X Subjects)]
    BY <1>2 DEF Next, Remember, Owning, TypeOK
  <2>2. SUFFICES Base'
    BY <2>1 DEF TypeOK
  <2> USE DEF TypeOK, Step, userVars, grantVars, connVars
  <2>3. CASE Administer
    <3>1. ASSUME NEW u \in Users, NEW st \in Status, CreateUser(u, st) PROVE Base'
      BY <3>1 DEF CreateUser
    <3>2. ASSUME NEW u \in Users, NEW st \in Status, SetUserStatus(u, st) PROVE Base'
      BY <3>2 DEF SetUserStatus
    <3>3. ASSUME NEW u \in Users, NEW k \in Keys, AddUserKey(u, k) PROVE Base'
      BY <3>3 DEF AddUserKey
    <3>4. ASSUME NEW s \in SAs, NEW k \in Keys, NEW st \in Status, CreateServiceAccount(s, k, st)
          PROVE  Base'
      BY <3>4 DEF CreateServiceAccount
    <3>5. ASSUME NEW u \in Users, AddUserToGroup(u) PROVE Base'
      BY <3>5 DEF AddUserToGroup
    <3>6. ASSUME NEW g \in GrantIds, NEW sub \in Subjects \cup {Group}, CreateGrant(g, sub)
          PROVE  Base'
      BY <3>6 DEF CreateGrant
    <3>7. ASSUME NEW g \in GrantIds, DeleteGrant(g) PROVE Base'
      BY <3>7 DEF DeleteGrant
    <3>8. ASSUME NEW u \in Users, DeleteUser(u) PROVE Base'
      BY <3>8 DEF DeleteUser
    <3>9. ASSUME NEW u \in Users, CommitDelete(u) PROVE Base'
      BY <3>9 DEF CommitDelete
    <3>10. ASSUME NEW u \in Users, AbortDelete(u) PROVE Base'
      BY <3>10 DEF AbortDelete
    <3> HIDE DEF Base
    <3>. QED
      BY <2>3, AdministerCases, <3>1, <3>2, <3>3, <3>4, <3>5, <3>6, <3>7, <3>8, <3>9, <3>10
  <2>4. ASSUME NEW c \in Conns, Handle(c) PROVE Base'
    <3>1. CASE Connect(c)
      BY <3>1 DEF Connect
    <3>2. ASSUME NEW k \in Keys, AuthenticatePublicKey(c, k) PROVE Base'
      <4>1. PICK answer \in {x \in Owners(k) : Active(x)} \cup {"refused"} :
                   cache' = [cache EXCEPT ![c][k] = answer]
        BY <3>2 DEF AuthenticatePublicKey
      <4>2. answer \in Subjects \cup {"refused"}
        BY <4>1 DEF Owners, Subjects
      <4>3. cache' \in [Conns -> [Keys -> Subjects \cup {"unasked", "refused"}]]
        BY <4>1, <4>2
      <4>. QED  BY <3>2, <4>3 DEF AuthenticatePublicKey
    <3>3. ASSUME NEW k \in Keys, Sign(c, k) PROVE Base'
      BY <3>3 DEF Sign, Unasked
    <3>4. CASE ReadGroups(c)
      BY <3>4 DEF ReadGroups
    <3>5. CASE ReadGrants(c)
      BY <3>5 DEF ReadGrants
    <3>6. CASE Deny(c)
      BY <3>6 DEF Deny, Unasked
    <3>. QED  BY <2>4, <3>1, <3>2, <3>3, <3>4, <3>5, <3>6 DEF Handle
  <2>. QED  BY <1>2, <2>3, <2>4 DEF Next
<1>. QED  BY <1>1, <1>2

\* Administrators do not touch connections, nor connections the store.
LEMMA Separate ==
  /\ Administer => UNCHANGED connVars
  /\ \A c \in Conns : Handle(c) => UNCHANGED <<userVars, grantVars>>
<1>1. ASSUME Administer PROVE UNCHANGED connVars
  BY <1>1, AdministerCases DEF CreateUser, SetUserStatus, AddUserKey, CreateServiceAccount,
     AddUserToGroup, CreateGrant, DeleteGrant, DeleteUser, CommitDelete, AbortDelete
<1>2. ASSUME NEW c \in Conns, Handle(c) PROVE UNCHANGED <<userVars, grantVars>>
  BY <1>2 DEF Handle, Connect, AuthenticatePublicKey, Sign, ReadGroups, ReadGrants, Deny
<1>. QED  BY <1>1, <1>2

\* Every step keeps keys, memberships and deletions with users there are.
LEMMA RowsNext == IndInv /\ [Next]_vars => RowsHaveUsers'
<1> SUFFICES ASSUME IndInv, [Next]_vars PROVE RowsHaveUsers'
  OBVIOUS
<1> USE DistinctAssumption DEF IndInv, TypeOK, RowsHaveUsers, Live, Status, Subjects, userVars,
        grantVars
<1>1. CASE UNCHANGED vars
  BY <1>1 DEF vars
<1>2. CASE Next
  <2>1. CASE Administer
    <3>1. ASSUME NEW u \in Users, NEW st \in Status, CreateUser(u, st) PROVE RowsHaveUsers'
      BY <3>1 DEF CreateUser
    <3>2. ASSUME NEW u \in Users, NEW st \in Status, SetUserStatus(u, st) PROVE RowsHaveUsers'
      BY <3>2 DEF SetUserStatus
    <3>3. ASSUME NEW u \in Users, NEW k \in Keys, AddUserKey(u, k) PROVE RowsHaveUsers'
      BY <3>3 DEF AddUserKey
    <3>4. ASSUME NEW s \in SAs, NEW k \in Keys, NEW st \in Status, CreateServiceAccount(s, k, st)
          PROVE  RowsHaveUsers'
      BY <3>4 DEF CreateServiceAccount
    <3>5. ASSUME NEW u \in Users, AddUserToGroup(u) PROVE RowsHaveUsers'
      BY <3>5 DEF AddUserToGroup
    <3>6. ASSUME NEW g \in GrantIds, NEW sub \in Subjects \cup {Group}, CreateGrant(g, sub)
          PROVE  RowsHaveUsers'
      BY <3>6 DEF CreateGrant
    <3>7. ASSUME NEW g \in GrantIds, DeleteGrant(g) PROVE RowsHaveUsers'
      BY <3>7 DEF DeleteGrant
    <3>8. ASSUME NEW u \in Users, DeleteUser(u) PROVE RowsHaveUsers'
      BY <3>8 DEF DeleteUser
    <3>9. ASSUME NEW u \in Users, CommitDelete(u) PROVE RowsHaveUsers'
      BY <3>9 DEF CommitDelete
    <3>10. ASSUME NEW u \in Users, AbortDelete(u) PROVE RowsHaveUsers'
      BY <3>10 DEF AbortDelete
    <3>. QED
      BY <2>1, AdministerCases, <3>1, <3>2, <3>3, <3>4, <3>5, <3>6, <3>7, <3>8, <3>9, <3>10
  <2>2. ASSUME NEW c \in Conns, Handle(c) PROVE RowsHaveUsers'
    BY <2>2, Separate
  <2>. QED  BY <1>2, <2>1, <2>2 DEF Next
<1>. QED  BY <1>1, <1>2

\* Every step keeps the grants of deleted users late.
LEMMA LateNext == IndInv /\ [Next]_vars => DanglingIsLate'
<1> SUFFICES ASSUME IndInv, [Next]_vars PROVE DanglingIsLate'
  OBVIOUS
<1> USE DistinctAssumption DEF IndInv, TypeOK, RowsHaveUsers, DanglingIsLate, Live, Status,
        Subjects, userVars, grantVars
<1>1. CASE UNCHANGED vars
  BY <1>1 DEF vars
<1>2. CASE Next
  <2>1. CASE Administer
    <3>1. ASSUME NEW u \in Users, NEW st \in Status, CreateUser(u, st) PROVE DanglingIsLate'
      BY <3>1 DEF CreateUser
    <3>2. ASSUME NEW u \in Users, NEW st \in Status, SetUserStatus(u, st) PROVE DanglingIsLate'
      BY <3>2 DEF SetUserStatus
    <3>3. ASSUME NEW u \in Users, NEW k \in Keys, AddUserKey(u, k) PROVE DanglingIsLate'
      BY <3>3 DEF AddUserKey
    <3>4. ASSUME NEW s \in SAs, NEW k \in Keys, NEW st \in Status, CreateServiceAccount(s, k, st)
          PROVE  DanglingIsLate'
      BY <3>4 DEF CreateServiceAccount
    <3>5. ASSUME NEW u \in Users, AddUserToGroup(u) PROVE DanglingIsLate'
      BY <3>5 DEF AddUserToGroup
    <3>6. ASSUME NEW g \in GrantIds, NEW sub \in Subjects \cup {Group}, CreateGrant(g, sub)
          PROVE  DanglingIsLate'
      BY <3>6 DEF CreateGrant
    <3>7. ASSUME NEW g \in GrantIds, DeleteGrant(g) PROVE DanglingIsLate'
      BY <3>7 DEF DeleteGrant
    <3>8. ASSUME NEW u \in Users, DeleteUser(u) PROVE DanglingIsLate'
      BY <3>8 DEF DeleteUser
    <3>9. ASSUME NEW u \in Users, CommitDelete(u) PROVE DanglingIsLate'
      BY <3>9 DEF CommitDelete
    <3>10. ASSUME NEW u \in Users, AbortDelete(u) PROVE DanglingIsLate'
      BY <3>10 DEF AbortDelete
    <3>. QED
      BY <2>1, AdministerCases, <3>1, <3>2, <3>3, <3>4, <3>5, <3>6, <3>7, <3>8, <3>9, <3>10
  <2>2. ASSUME NEW c \in Conns, Handle(c) PROVE DanglingIsLate'
    BY <2>2, Separate
  <2>. QED  BY <1>2, <2>1, <2>2 DEF Next
<1>. QED  BY <1>1, <1>2

\* A deleted user stays so.
LEMMA DeletedStays ==
  ASSUME IndInv, Administer, NEW v \in Users, user[v] = "deleted"
  PROVE  user'[v] = "deleted"
<1> DEFINE Goal == user[v] = "deleted"
<1> USE DEF IndInv, TypeOK, Live, Status, userVars
<1>1. ASSUME NEW u \in Users, NEW st \in Status, CreateUser(u, st) PROVE Goal'
  BY <1>1 DEF CreateUser
<1>2. ASSUME NEW u \in Users, NEW st \in Status, SetUserStatus(u, st) PROVE Goal'
  BY <1>2 DEF SetUserStatus
<1>3. ASSUME NEW u \in Users, NEW k \in Keys, AddUserKey(u, k) PROVE Goal'
  BY <1>3 DEF AddUserKey
<1>4. ASSUME NEW s \in SAs, NEW k \in Keys, NEW st \in Status, CreateServiceAccount(s, k, st)
      PROVE  Goal'
  BY <1>4 DEF CreateServiceAccount
<1>5. ASSUME NEW u \in Users, AddUserToGroup(u) PROVE Goal'
  BY <1>5 DEF AddUserToGroup
<1>6. ASSUME NEW g \in GrantIds, NEW sub \in Subjects \cup {Group}, CreateGrant(g, sub)
      PROVE  Goal'
  BY <1>6 DEF CreateGrant
<1>7. ASSUME NEW g \in GrantIds, DeleteGrant(g) PROVE Goal'
  BY <1>7 DEF DeleteGrant
<1>8. ASSUME NEW u \in Users, DeleteUser(u) PROVE Goal'
  BY <1>8 DEF DeleteUser
<1>9. ASSUME NEW u \in Users, CommitDelete(u) PROVE Goal'
  BY <1>9 DEF CommitDelete
<1>10. ASSUME NEW u \in Users, AbortDelete(u) PROVE Goal'
  BY <1>10 DEF AbortDelete
<1>. QED
  BY AdministerCases, <1>1, <1>2, <1>3, <1>4, <1>5, <1>6, <1>7, <1>8, <1>9, <1>10

\* Every step keeps dead authorizations without groups.
LEMMA DeadNext == IndInv /\ [Next]_vars => DeadHaveNoGroups'
<1> SUFFICES ASSUME IndInv, [Next]_vars PROVE DeadHaveNoGroups'
  OBVIOUS
<1> USE DEF IndInv, DeadHaveNoGroups
<1>1. CASE UNCHANGED vars
  BY <1>1 DEF vars, userVars, connVars
<1>2. CASE Next
  <2>1. CASE Administer
    <3>1. UNCHANGED <<pc, who, groups, dead>>
      BY <2>1, Separate DEF connVars
    <3>. QED  BY <2>1, <3>1, DeletedStays
  <2>2. ASSUME NEW c \in Conns, Handle(c) PROVE DeadHaveNoGroups'
    <3>1. user' = user /\ members' = members
      BY <2>2, Separate DEF userVars
    <3> USE DEF TypeOK, Step
    <3>2. CASE Connect(c)
      BY <3>1, <3>2 DEF Connect
    <3>3. ASSUME NEW k \in Keys, AuthenticatePublicKey(c, k) PROVE DeadHaveNoGroups'
      BY <3>1, <3>3 DEF AuthenticatePublicKey
    <3>4. ASSUME NEW k \in Keys, Sign(c, k) PROVE DeadHaveNoGroups'
      BY <3>1, <3>4 DEF Sign
    <3>5. CASE ReadGroups(c)
      BY <3>1, <3>5 DEF ReadGroups, RowsHaveUsers, Live, Status
    <3>6. CASE ReadGrants(c)
      BY <3>1, <3>6 DEF ReadGrants
    <3>7. CASE Deny(c)
      BY <3>1, <3>7 DEF Deny
    <3>. QED  BY <2>2, <3>2, <3>3, <3>4, <3>5, <3>6, <3>7 DEF Handle
  <2>. QED  BY <1>2, <2>1, <2>2 DEF Next
<1>. QED  BY <1>1, <1>2

\* Every step keeps answers true of their own handshake: an answer is given to
\* an active owner, and the history of a handshake only grows.
LEMMA AnswersNext == IndInv /\ [Next]_vars => AnswersWereValid'
<1> SUFFICES ASSUME IndInv, [Next]_vars PROVE AnswersWereValid'
  OBVIOUS
<1> USE DEF IndInv, AnswersWereValid
<1>1. CASE UNCHANGED vars
  BY <1>1 DEF vars, connVars
<1>2. CASE Next
  <2>1. \A d \in Conns : pc'[d] = "auth" => valid'[d] = valid[d] \cup Owning'
    BY <1>2 DEF Next, Remember
  <2>2. CASE Administer
    <3>1. cache' = cache /\ pc' = pc
      BY <2>2, Separate DEF connVars
    <3>. QED  BY <2>1, <3>1
  <2>3. ASSUME NEW c \in Conns, Handle(c) PROVE AnswersWereValid'
    <3> USE DEF TypeOK, Step
    <3>1. CASE Connect(c)
      BY <2>1, <3>1 DEF Connect
    <3>2. ASSUME NEW k \in Keys, AuthenticatePublicKey(c, k) PROVE AnswersWereValid'
      <4>1. PICK answer \in {x \in Owners(k) : Active(x)} \cup {"refused"} :
                   cache' = [cache EXCEPT ![c][k] = answer]
        BY <3>2 DEF AuthenticatePublicKey
      <4>2. pc' = pc /\ pc[c] = "auth"
        BY <3>2 DEF AuthenticatePublicKey
      <4>3. answer \in Subjects => <<k, answer>> \in Owning
        BY <4>1, DistinctAssumption DEF Owning
      <4>4. Owning' = Owning
        BY <2>3, Separate DEF userVars, Owning, Owners, Active
      <4>5. answer \in Subjects => <<k, answer>> \in valid'[c]
        BY <2>1, <4>2, <4>3, <4>4
      <4>6. \A d \in Conns, j \in Keys :
              cache'[d][j] = IF d = c /\ j = k THEN answer ELSE cache[d][j]
        BY <4>1
      <4>7. SUFFICES ASSUME NEW d \in Conns, NEW j \in Keys, cache'[d][j] \in Subjects
                     PROVE  pc'[d] = "auth" /\ <<j, cache'[d][j]>> \in valid'[d]
        OBVIOUS
      <4>8. CASE d = c /\ j = k
        <5>1. cache'[d][j] = answer
          BY <4>6, <4>8
        <5>. QED  BY <4>2, <4>5, <4>7, <4>8, <5>1
      <4>9. CASE ~(d = c /\ j = k)
        <5>1. cache'[d][j] = cache[d][j]
          BY <4>6, <4>9
        <5>2. pc[d] = "auth" /\ <<j, cache[d][j]>> \in valid[d]
          BY <4>7, <5>1
        <5>. QED  BY <2>1, <4>2, <5>1, <5>2
      <4>. QED  BY <4>8, <4>9
    <3>3. ASSUME NEW k \in Keys, Sign(c, k) PROVE AnswersWereValid'
      BY <2>1, <3>3, DistinctAssumption DEF Sign, Unasked
    <3>4. CASE ReadGroups(c)
      BY <2>1, <3>4 DEF ReadGroups
    <3>5. CASE ReadGrants(c)
      BY <2>1, <3>5 DEF ReadGrants
    <3>6. CASE Deny(c)
      BY <2>1, <3>6, DistinctAssumption DEF Deny, Unasked
    <3>. QED  BY <2>3, <3>1, <3>2, <3>3, <3>4, <3>5, <3>6 DEF Handle
  <2>. QED  BY <1>2, <2>2, <2>3 DEF Next
<1>. QED  BY <1>1, <1>2

-----------------------------------------------------------------------------
(* The theorems *)

\* Rows, grants and connections stand to each other as IndInv says, whatever
\* administrators and clients do.
THEOREM Invariance == Spec => []IndInv
<1>1. IndInv /\ [Next]_vars => IndInv'
  BY TypeNext, RowsNext, LateNext, AnswersNext, DeadNext DEF IndInv
<1>. QED  BY <1>1, InitHolds, PTL DEF Spec

\* An authenticated identity was, during its handshake, the active owner of the
\* key that signed.
THEOREM SignersAreSubjects == Spec => SignerIsTheSubject
<1>1. IndInv /\ [Next]_vars =>
        [\A c \in Conns, k \in Keys : Sign(c, k) => <<k, who'[c]>> \in valid[c]]_vars
  <2> SUFFICES ASSUME IndInv, NEW c \in Conns, NEW k \in Keys, Sign(c, k)
               PROVE  <<k, who'[c]>> \in valid[c]
    OBVIOUS
  <2>1. who'[c] = cache[c][k] /\ cache[c][k] \in Subjects
    BY DEF Sign, IndInv, TypeOK
  <2>. QED  BY <2>1 DEF IndInv, AnswersWereValid
<1>. QED  BY <1>1, Invariance, PTL DEF Spec, SignerIsTheSubject

\* A user deleted before its authorization began is let through by late grants
\* only.
THEOREM DeletedAreShutOut == Spec => DeletedIsShutOut
<1>1. IndInv /\ [Next]_vars =>
        [\A c \in dead :
           pc[c] = "grants" /\ pc'[c] = "allowed" => MatchingGrants(c) \subseteq late]_vars
  <2> SUFFICES ASSUME IndInv, NEW c \in dead, NEW g \in MatchingGrants(c)
               PROVE  g \in late
    OBVIOUS
  <2>1. grant[g] = who[c] /\ who[c] \in Users /\ user[who[c]] = "deleted"
    BY DEF MatchingGrants, IndInv, DeadHaveNoGroups
  <2>. QED  BY <2>1 DEF IndInv, DanglingIsLate, MatchingGrants
<1>. QED  BY <1>1, Invariance, PTL DEF Spec, DeletedIsShutOut
=============================================================================
