-------------------------------- MODULE Team --------------------------------
(****************************************************************************)
(* backend/internal/platform/saas/store.go, auth/jwt.go, rbac/middleware.go *)
(* and the session handlers of api/routes.go, for one tenant: members,      *)
(* roles with their level for the module "team", tokens and their           *)
(* revocation.                                                              *)
(*                                                                          *)
(* A change of a member or a role is a transaction that makes its writes,   *)
(* counts the active administrators it can see (its own writes and what     *)
(* others have committed) and commits: Begin and Commit. Nothing is locked  *)
(* but the rows it writes.                                                  *)
(****************************************************************************)
EXTENDS Naturals, FiniteSets, FiniteSetsExt

CONSTANTS Users,
          Roles,        \* role codes, numbered in the order of the codes
          CompanyAdmin, \* the role Register gives
          FullRoles,    \* the default roles with the level full for "team"
          ReadRoles,    \* those with the level read; the others have none
          Servers,      \* requests served at a time
          MaxChanges,   \* bound: changes of members and roles
          MaxLogouts,   \* bound: logouts
          MaxTokens     \* bound: tokens that have not expired

\* rbac.Level, by levelRank
None == 0
Read == 1
Full == 2
Levels   == None..Full
Statuses == {"active", "invited", "disabled"}

ASSUME RolesAssumption ==
    /\ Roles \subseteq Nat
    /\ CompanyAdmin \in Roles /\ CompanyAdmin \in FullRoles
    /\ FullRoles \intersect ReadRoles = {}
ASSUME TeamBoundsAssumption == MaxChanges \in Nat /\ MaxLogouts \in Nat /\ MaxTokens \in Nat

VARIABLES
    member,  \* tenant_members with their roles, by user
    level,   \* the roles there are, with their level for "team"
    tokens,  \* tokens that have not expired
    clock,   \* counts logouts
    serving, \* serving[s]: the open transaction, or the session being answered
    raced,   \* history: two changes were open at the same time
    changes

teamVars == <<member, level, tokens, clock, serving, raced, changes>>

Member  == [status : Statuses, roles : SUBSET Roles, revokedAt : 0..MaxLogouts]
Token   == [user : Users, role : Roles, issuedAt : 1..(MaxLogouts + 1)]
Free    == [kind |-> "free"]
Session == [kind : {"session"}, user : Users, role : Roles]
\* roles = {} stands for a request without role codes, "keep" for one without a status
OfMember == [kind : {"member"}, user : Users, status : Statuses \union {"keep"}, roles : SUBSET Roles]
OfRole   == [kind : {"level"}, role : Roles, level : Levels] \union [kind : {"delete"}, role : Roles]

TeamTypeOK ==
    /\ DOMAIN member \subseteq Users /\ member \in [DOMAIN member -> Member]
    /\ DOMAIN level \subseteq Roles /\ level \in [DOMAIN level -> Levels]
    /\ \A u \in DOMAIN member : member[u].roles \subseteq DOMAIN level
    /\ tokens \subseteq Token
    /\ clock \in 1..(MaxLogouts + 1)
    /\ serving \in [Servers -> {Free} \union Session \union OfMember \union OfRole]
    /\ raced \in BOOLEAN
    /\ changes \in 0..MaxChanges

-----------------------------------------------------------------------------
Registered == DOMAIN member # {}
Active(u)  == u \in DOMAIN member /\ member[u].status = "active"

\* ensureTenantHasActiveTeamAdmin, of the rows m and l
HasAdmin(m, l) ==
    \E u \in DOMAIN m : m[u].status = "active" /\ \E r \in m[u].roles : l[r] = Full

\* The rows after a change.
MembersAfter(c) ==
    CASE c.kind = "member" ->
           [member EXCEPT ![c.user].status = IF c.status = "keep" THEN @ ELSE c.status,
                          ![c.user].roles  = IF c.roles = {} THEN @ ELSE c.roles]
      [] c.kind = "delete" ->
           [u \in DOMAIN member |-> [member[u] EXCEPT !.roles = @ \ {c.role}]]
      [] c.kind = "level"  -> member

LevelsAfter(c) ==
    CASE c.kind = "member" -> level
      [] c.kind = "delete" -> [r \in DOMAIN level \ {c.role} |-> level[r]]
      [] c.kind = "level"  -> [level EXCEPT ![c.role] = c.level]

Changing == {s \in Servers : serving[s].kind \in {"member", "level", "delete"}}

\* A change waits for the rows another one has written.
Uses(c, r)    == IF c.kind = "member" THEN r \in c.roles ELSE r = c.role
InTheWay(c, d) ==
    \/ c.kind = "member" /\ d.kind = "member" /\ c.user = d.user
    \/ \E r \in Roles : Uses(c, r) /\ Uses(d, r) /\ {c.kind, d.kind} # {"member"}
                        /\ {c.kind, d.kind} # {"member", "level"}

\* sessionRevoked, tokenIssuedAt
Revoked(t) == t.issuedAt <= member[t.user].revokedAt

\* authenticate and SessionByUserRole, for a token that ParseJWT takes
Admits(t) == Active(t.user) /\ t.role \in member[t.user].roles /\ ~Revoked(t)

\* loadSessionRoles and mergeModulePermissions: the highest level counts.
LevelOf(u) == Max({level[r] : r \in member[u].roles} \union {None})

\* Require("team", full)
TeamRequest == \E t \in tokens : Admits(t) /\ LevelOf(t.user) = Full

-----------------------------------------------------------------------------
\* seedDefaultRoles
DefaultLevels ==
    [r \in Roles |-> IF r \in FullRoles THEN Full ELSE IF r \in ReadRoles THEN Read ELSE None]

\* Register: the administrator is answered a session.
Register(s, u) ==
    /\ ~Registered
    /\ level' = DefaultLevels
    /\ member' = [x \in {u} |-> [status |-> "active", roles |-> {CompanyAdmin}, revokedAt |-> 0]]
    /\ serving' = [serving EXCEPT ![s] = [kind |-> "session", user |-> u, role |-> CompanyAdmin]]
    /\ UNCHANGED <<tokens, clock, raced, changes>>

\* Login: the session is for the first of the roles.
Login(s, u) ==
    /\ serving[s] = Free /\ Active(u) /\ member[u].roles # {}
    /\ serving' = [serving EXCEPT ![s] = [kind |-> "session", user |-> u, role |-> Min(member[u].roles)]]
    /\ UNCHANGED <<member, level, tokens, clock, raced, changes>>

\* refresh
Refresh(s, t) ==
    /\ serving[s] = Free /\ t \in tokens /\ Admits(t)
    /\ serving' = [serving EXCEPT ![s] = [kind |-> "session", user |-> t.user, role |-> t.role]]
    /\ UNCHANGED <<member, level, tokens, clock, raced, changes>>

\* respondSession: the token is dated after the session was read.
Answer(s) ==
    /\ serving[s].kind = "session" /\ Cardinality(tokens) < MaxTokens
    /\ tokens' = tokens \union
          {[user |-> serving[s].user, role |-> serving[s].role, issuedAt |-> clock]}
    /\ serving' = [serving EXCEPT ![s] = Free]
    /\ UNCHANGED <<member, level, clock, raced, changes>>

\* ParseJWT: a token expires.
Expire(t) ==
    /\ t \in tokens
    /\ tokens' = tokens \ {t}
    /\ UNCHANGED <<member, level, clock, serving, raced, changes>>

\* logout and RevokeUserSessions; the row may be locked by a change.
Logout(t) ==
    /\ t \in tokens /\ Admits(t) /\ clock <= MaxLogouts
    /\ \A s \in Changing : serving[s].kind = "member" => serving[s].user # t.user
    /\ member' = [member EXCEPT ![t.user].revokedAt = clock]
    /\ clock' = clock + 1
    /\ UNCHANGED <<level, tokens, serving, raced, changes>>

-----------------------------------------------------------------------------
\* Mutant: inviting a member again starts the row anew.
InviteAnew(u, r) ==
    [x \in DOMAIN member \union {u} |->
        IF x # u THEN member[x] ELSE [status |-> "active", roles |-> {r}, revokedAt |-> 0]]

\* The rows after u was invited with the role r.
Invited(u, r) ==
    [x \in DOMAIN member \union {u} |->
        IF x # u THEN member[x]
        ELSE IF u \in DOMAIN member
             THEN [member[u] EXCEPT !.status = "active", !.roles = @ \union {r}]
             ELSE [status |-> "active", roles |-> {r}, revokedAt |-> 0]]

\* InviteMember, of a new member or of one there is
InviteMember(u, r) ==
    /\ TeamRequest /\ changes < MaxChanges
    /\ r \in DOMAIN level
    /\ \A s \in Changing : ~InTheWay([kind |-> "member", user |-> u, roles |-> {r}], serving[s])
    /\ member' = Invited(u, r)
    /\ changes' = changes + 1
    /\ UNCHANGED <<level, tokens, clock, serving, raced>>

\* CreateRole
CreateRole(r, lv) ==
    /\ TeamRequest /\ changes < MaxChanges
    /\ r \notin DOMAIN level
    /\ level' = [q \in DOMAIN level \union {r} |-> IF q = r THEN lv ELSE level[q]]
    /\ changes' = changes + 1
    /\ UNCHANGED <<member, tokens, clock, serving, raced>>

\* Mutant: the administrators are counted before the writes.
CountsFirst(s, c) ==
    /\ serving[s] = Free /\ TeamRequest /\ changes < MaxChanges
    /\ \A z \in Changing : ~InTheWay(c, serving[z])
    /\ HasAdmin(member, level)
    /\ serving' = [serving EXCEPT ![s] = c]
    /\ raced' = (raced \/ Changing # {})
    /\ changes' = changes + 1
    /\ UNCHANGED <<member, level, tokens, clock>>

\* A transaction makes the change c and counts the administrators.
Begin(s, c) ==
    /\ serving[s] = Free /\ TeamRequest /\ changes < MaxChanges
    /\ \A z \in Changing : ~InTheWay(c, serving[z])
    /\ HasAdmin(MembersAfter(c), LevelsAfter(c))
    /\ serving' = [serving EXCEPT ![s] = c]
    /\ raced' = (raced \/ Changing # {})
    /\ changes' = changes + 1
    /\ UNCHANGED <<member, level, tokens, clock>>

\* UpdateMember: a status, roles that all exist, or both
UpdateMember(s, u, status, roles) ==
    /\ u \in DOMAIN member /\ roles \subseteq DOMAIN level
    /\ Begin(s, [kind |-> "member", user |-> u, status |-> status, roles |-> roles])

\* DeleteMember
DeleteMember(s, u) ==
    /\ u \in DOMAIN member
    /\ Begin(s, [kind |-> "member", user |-> u, status |-> "disabled", roles |-> {}])

\* UpdateRole, with permissions
UpdateRole(s, r, lv) ==
    /\ r \in DOMAIN level
    /\ Begin(s, [kind |-> "level", role |-> r, level |-> lv])

\* DeleteRole
DeleteRole(s, r) ==
    /\ r \in DOMAIN level
    /\ Begin(s, [kind |-> "delete", role |-> r])

Commit(s) ==
    /\ s \in Changing
    /\ member' = MembersAfter(serving[s])
    /\ level' = LevelsAfter(serving[s])
    /\ serving' = [serving EXCEPT ![s] = Free]
    /\ UNCHANGED <<tokens, clock, raced, changes>>

-----------------------------------------------------------------------------
TeamInit ==
    /\ member = <<>> /\ level = <<>>
    /\ tokens = {} /\ clock = 1
    /\ serving = [s \in Servers |-> Free]
    /\ raced = FALSE /\ changes = 0

SessionStep ==
    \/ \E s \in Servers, u \in Users : Register(s, u) \/ Login(s, u)
    \/ \E s \in Servers, t \in tokens : Refresh(s, t)
    \/ \E s \in Servers : Answer(s)
    \/ \E t \in tokens : Expire(t) \/ Logout(t)

MemberStep ==
    \/ \E u \in Users, r \in Roles : InviteMember(u, r)
    \/ \E s \in Servers, u \in Users, status \in Statuses \union {"keep"}, roles \in SUBSET Roles :
          UpdateMember(s, u, status, roles)
    \/ \E s \in Servers, u \in Users : DeleteMember(s, u)
    \/ \E s \in Servers : Commit(s)

RoleStep ==
    \/ \E r \in Roles, lv \in Levels : CreateRole(r, lv)
    \/ \E s \in Servers, r \in Roles, lv \in Levels : UpdateRole(s, r, lv)
    \/ \E s \in Servers, r \in Roles : DeleteRole(s, r)

TeamNext == SessionStep \/ MemberStep \/ RoleStep

TeamSpec == TeamInit /\ [][TeamNext]_teamVars

-----------------------------------------------------------------------------
\* A tenant keeps an active member whose role has the level full for "team",
\* as long as no two changes were ever open at once (the count of one does not
\* see what the other has not committed).
TenantHasAdmin == Registered /\ ~raced => HasAdmin(member, level)

\* What a logout ended stays ended: no later change of the member, its status
\* or its roles, and no new invitation, lets a token of before the logout in.
LogoutIsFinal ==
    [][\A t \in tokens : t.user \in DOMAIN member /\ Revoked(t) => ~Admits(t)']_teamVars
=============================================================================
