------------------------------- MODULE Access -------------------------------
(***************************************************************************)
(* Who may do what: roles, the grants of a role (RolePermission), the      *)
(* overrides of a user (UserPermission), the role of a user, and the       *)
(* ability that the guard of every endpoint computes from them and caches. *)
(* Handlers are interleaved at every await; an interactive transaction is  *)
(* one step, which commits or is rolled back.                              *)
(***************************************************************************)
EXTENDS Integers, FiniteSets

CONSTANTS
    Role,       \* role ids
    SystemRole, \* the seeded roles, isSystem = true
    User,       \* user ids
    Grant,      \* the permission/ability pairs that the catalogue allows
    Seed,       \* the grants of the seeded roles, as <<role, grant>>
    Body,       \* the lists of items that are sent
    Called,     \* the users that call or are updated; a body may name others
    Request,    \* request processes: bounds how many overlap
    Ops,        \* the endpoints that are called
    NoRole,     \* the null roleId
    None        \* no cache entry

Endpoints == {"createRole", "removeRole", "grantRole", "grantUser",
              "assignRole", "ask"}

(* An item of a body is any object with the ids of a permission and an     *)
(* ability: nothing validates what else it has.  Its further keys are told *)
(* apart by what updateUserPermission makes of them when it spreads the    *)
(* item over the columns of a row.  A body passed checkPermissionOverlap:  *)
(* no two of its items have the same JSON text.                            *)
Item == {i \in [grant    : Grant,
                plain    : BOOLEAN,          \* the two ids and nothing else, in
                                             \* the order in which the code
                                             \* itself spells them
                isEnable : BOOLEAN,          \* TRUE unless the item says FALSE
                user     : User \cup {None}, \* its userId, if it has one
                legal    : BOOLEAN] :        \* all its keys are columns, with
                                             \* values that the table takes
            i.plain => i.isEnable /\ i.user = None /\ i.legal}

ASSUME AccessAssumption ==
    /\ SystemRole \subseteq Role
    /\ Seed \subseteq SystemRole \X Grant
    /\ Body \subseteq SUBSET Item
    /\ Called \subseteq User
    /\ IsFiniteSet(Grant) /\ IsFiniteSet(Request)
    /\ Ops \subseteq Endpoints
    /\ NoRole \notin Role
    /\ None \notin Role \cup User \cup {NoRole}
    /\ \A grants \in SUBSET Grant : None # grants

(* The key of a cached ability is all that the guard knows of the request: *)
(* the id, the e-mail, iat and exp of the access token, and the roleId.    *)
(* Here a user has one token.                                              *)
VARIABLES
    roles,          \* the Role table
    rolePermission, \* the RolePermission table
    userPermission, \* the UserPermission table
    userRole,       \* the roleId column of the User table
    roleCache,      \* the roles cached under role_<id>
    userCache,      \* the roleId of the user cached under user_<id>
    abilityCache,   \* the grants cached for the guard, by user and roleId
    task            \* what each process is doing

tables == <<roles, rolePermission, userPermission, userRole>>
caches == <<roleCache, userCache, abilityCache>>
vars == <<tables, caches, task>>

(* An id tells a row from the rows for the same pair that were deleted and *)
(* that a handler still holds; ids that nobody holds are used again.       *)
MaxId == Cardinality(Grant) * Cardinality(Request)

RoleRow == [role : Role, grant : Grant, id : 0..MaxId]
UserRow == [user : User, grant : Grant, isEnable : BOOLEAN, id : 0..MaxId]

Idle == [op |-> "idle", pc |-> "idle", user |-> None, role |-> NoRole,
         body |-> {}, seen |-> {}, old |-> {}, overtaken |-> FALSE]

Task == [op   : Endpoints \cup {"idle"},
         pc   : {"idle", "getRole", "setRole", "askUsers", "getUser",
                 "setUser", "readGrants", "readOld", "askRole", "write",
                 "written", "getAbility", "readOverrides", "setAbility"},
         user : User \cup {None},
         role : Role \cup {NoRole},  \* of the path or body, or of the user
         body : Body \cup {{}},
         seen : SUBSET Grant,        \* the grants read so far
         old  : SUBSET (RoleRow \cup UserRow), \* the rows to be replaced
         overtaken : BOOLEAN]        \* history: an update that had no rows to
                                     \* replace has added some since the call

TypeOK ==
    /\ roles \in [Role -> {"unborn", "live", "deleted"}]
    /\ rolePermission \subseteq RoleRow
    /\ userPermission \subseteq UserRow
    /\ userRole \in [User -> Role \cup {NoRole}]
    /\ roleCache \subseteq Role
    /\ userCache \in [User -> Role \cup {NoRole, None}]
    /\ abilityCache \in [User -> [Role -> (SUBSET Grant) \cup {None}]]
    /\ task \in [Request -> Task]

Quiet == \A p \in Request : task[p] = Idle

-----------------------------------------------------------------------------
RowsOf(r) == {row \in rolePermission : row.role = r}
OverridesOf(u) == {row \in userPermission : row.user = u}

(* A mutant: whole rows are compared.                                      *)
Unprojected(rows) == rows

Grants(rows) == {row.grant : row \in rows}

(* ArrayPermissionAbilityCasl: the grants that are enabled for the user,   *)
(* and those of the role that are not disabled.                            *)
Able(granted, overrides) ==
    Grants({row \in overrides : row.isEnable})
        \cup (granted \ Grants({row \in overrides : ~ row.isEnable}))

Ability(u) == Able(Grants(RowsOf(userRole[u])), OverridesOf(u))

(* Two items for one pair, told apart by the rest of their text.           *)
Repeats(items) == \E i, j \in items : i # j /\ i.grant = j.grant

(* updateUserPermission: an item the role does not grant becomes a row; a  *)
(* grant of the role is disabled unless its text, in the order the code    *)
(* writes it, is among the texts of the body.                              *)
Enabled(k)  == {i \in k.body : i.grant \notin k.seen}

(* A mutant: grants of the role are never disabled.                        *)
DisabledNever(k) == {}

Disabled(k) == k.seen \ Grants({i \in k.body : i.plain})

(* { isEnable: true, userId: user.id, ...item }: the user of the path,     *)
(* unless the item names one.                                              *)
Target(k, i) == IF i.user = None THEN k.user ELSE i.user

(* The unique columns of an override.                                      *)
Columns(rows) == {<<row.user, row.grant>> : row \in rows}

NextId(p) ==
    CHOOSE n \in 0..MaxId :
        \A q \in Request \ {p} : \A row \in task[q].old : row.id # n

NewRoleRows(p) ==
    {[role |-> task[p].role, grant |-> g, id |-> NextId(p)] :
        g \in Grants(task[p].body)}

NewUserRows(p) ==
    LET k == task[p]
    IN  {[user |-> Target(k, i), grant |-> i.grant, isEnable |-> i.isEnable,
          id |-> NextId(p)] : i \in Enabled(k)}
        \cup
        {[user |-> k.user, grant |-> g, isEnable |-> FALSE, id |-> NextId(p)] :
            g \in Disabled(k)}

(* A mutant: deleteMany for the role's rows as well.                       *)
RoleCommitsOver(k) ==
    /\ roles[k.role] = "live"
    /\ ~ Repeats(k.body)
    /\ Grants(RowsOf(k.role) \ k.old) \cap Grants(k.body) = {}

(* Each old row is deleted by its id, which throws if another request was  *)
(* faster; the inserts keep roleId, permissionId, abilityId unique and     *)
(* need the role.  The user's old rows are deleted with one deleteMany,    *)
(* which passes over the rows that are gone.                               *)
RoleCommits(k) ==
    /\ k.old \subseteq rolePermission
    /\ roles[k.role] = "live"
    /\ ~ Repeats(k.body)
    /\ Grants(RowsOf(k.role) \ k.old) \cap Grants(k.body) = {}

UserCommits(p) ==
    LET k == task[p]
    IN  /\ \A i \in Enabled(k) : i.legal
        /\ \A i, j \in Enabled(k) :
              i.grant = j.grant /\ Target(k, i) = Target(k, j) => i = j
        /\ Columns(NewUserRows(p)) \cap Columns(userPermission \ k.old) = {}

-----------------------------------------------------------------------------
Goto(p, pc) == task' = [task EXCEPT ![p].pc = pc]
Done(p) == task' = [task EXCEPT ![p] = Idle]
At(p, op, pc) == task[p].op = op /\ task[p].pc = pc

Begin(p, k) ==
    /\ k.op \in Ops
    /\ task[p] = Idle
    /\ task' = [task EXCEPT ![p] = k]
    /\ UNCHANGED <<tables, caches>>

(* What arrives at the endpoints.  The guard of any of them asks for the   *)
(* ability of its user, with the roleId that AuthGuard just read.          *)
Call(p) ==
    \/ \E r \in Role \ SystemRole :
          /\ roles[r] = "unborn"
          /\ Begin(p, [Idle EXCEPT !.op = "createRole", !.pc = "write", !.role = r])
    \/ \E r \in Role :
          /\ roles[r] # "unborn"
          /\ Begin(p, [Idle EXCEPT !.op = "removeRole", !.pc = "getRole", !.role = r])
    \/ \E r \in Role, items \in Body :
          /\ roles[r] # "unborn"
          /\ Begin(p, [Idle EXCEPT !.op = "grantRole", !.pc = "getRole",
                                   !.role = r, !.body = items])
    \/ \E u \in Called, items \in Body :
          Begin(p, [Idle EXCEPT !.op = "grantUser", !.pc = "getUser",
                                !.user = u, !.body = items])
    \/ \E u \in Called, r \in Role :
          /\ roles[r] # "unborn"
          /\ Begin(p, [Idle EXCEPT !.op = "assignRole", !.pc = "askRole",
                                   !.user = u, !.role = r])
    \/ \E u \in Called :
          /\ userRole[u] # NoRole
          /\ Begin(p, [Idle EXCEPT !.op = "ask", !.pc = "getAbility",
                                   !.user = u, !.role = userRole[u]])

-----------------------------------------------------------------------------
(* Reads.  A role or user that is cached is taken from the cache; what was *)
(* read from the table is cached when the answer arrives.                  *)
RoleThen(p) ==
    LET k == task[p]
    IN  IF k.op = "grantRole"           THEN Goto(p, "readOld")
        ELSE IF k.role \notin SystemRole THEN Goto(p, "askUsers")
        ELSE Done(p)

GetRole(p) ==
    /\ task[p].pc = "getRole"
    /\ IF task[p].role \in roleCache THEN RoleThen(p)
       ELSE IF roles[task[p].role] = "live" THEN Goto(p, "setRole")
       ELSE Done(p)
    /\ UNCHANGED <<tables, caches>>

SetRole(p) ==
    /\ task[p].pc = "setRole"
    /\ roleCache' = roleCache \cup {task[p].role}
    /\ RoleThen(p)
    /\ UNCHANGED <<tables, userCache, abilityCache>>

GetUser(p) ==
    LET u == task[p].user
    IN  /\ task[p].pc = "getUser"
        /\ task' = IF userCache[u] # None
                   THEN [task EXCEPT ![p].role = userCache[u], ![p].pc = "readGrants"]
                   ELSE [task EXCEPT ![p].role = userRole[u], ![p].pc = "setUser"]
        /\ UNCHANGED <<tables, caches>>

SetUser(p) ==
    /\ task[p].pc = "setUser"
    /\ userCache' = [userCache EXCEPT ![task[p].user] = task[p].role]
    /\ Goto(p, "readGrants")
    /\ UNCHANGED <<tables, roleCache, abilityCache>>

(* The grants of the user's role; Prisma refuses to look for a null roleId.*)
ReadGrants(p) ==
    LET k == task[p]
    IN  /\ k.pc = "readGrants"
        /\ IF k.role = NoRole THEN Done(p)
           ELSE task' = [task EXCEPT ![p].seen = Grants(RowsOf(k.role)),
                                     ![p].pc = IF k.op = "ask" THEN "readOverrides"
                                                               ELSE "readOld"]
        /\ UNCHANGED <<tables, caches>>

(* The rows to replace are read before the transaction that replaces them. *)
ReadOld(p) ==
    LET k == task[p]
    IN  /\ k.pc = "readOld"
        /\ task' = [task EXCEPT ![p].pc = "write",
                                ![p].old = IF k.op = "grantRole" THEN RowsOf(k.role)
                                           ELSE OverridesOf(k.user)]
        /\ UNCHANGED <<tables, caches>>

AskUsers(p) ==
    /\ task[p].pc = "askUsers"
    /\ IF \A u \in User : userRole[u] # task[p].role
       THEN Goto(p, "write") ELSE Done(p)
    /\ UNCHANGED <<tables, caches>>

AskRole(p) ==
    /\ task[p].pc = "askRole"
    /\ IF roles[task[p].role] = "live" THEN Goto(p, "write") ELSE Done(p)
    /\ UNCHANGED <<tables, caches>>

(* createForUser, behind the guard of an endpoint.                         *)
GetAbility(p) ==
    LET k == task[p]
    IN  /\ k.pc = "getAbility"
        /\ IF abilityCache[k.user][k.role] # None THEN Done(p)
                                                  ELSE Goto(p, "readGrants")
        /\ UNCHANGED <<tables, caches>>

ReadOverrides(p) ==
    LET k == task[p]
    IN  /\ k.pc = "readOverrides"
        /\ task' = [task EXCEPT ![p].pc = "setAbility",
                                ![p].seen = Able(k.seen, OverridesOf(k.user))]
        /\ UNCHANGED <<tables, caches>>

SetAbility(p) ==
    LET k == task[p]
    IN  /\ k.pc = "setAbility"
        /\ abilityCache' = [abilityCache EXCEPT ![k.user][k.role] = k.seen]
        /\ Done(p)
        /\ UNCHANGED <<tables, roleCache, userCache>>

-----------------------------------------------------------------------------
(* Writes.                                                                 *)
CreateRole(p) ==
    LET k == task[p]
    IN  /\ At(p, "createRole", "write")
        /\ IF roles[k.role] = "unborn"
           THEN roles' = [roles EXCEPT ![k.role] = "live"] /\ Goto(p, "written")
           ELSE UNCHANGED roles /\ Done(p)
        /\ UNCHANGED <<rolePermission, userPermission, userRole, caches>>

(* A mutant: the grants stay when the role goes.                           *)
RemoveRoleOnly(p) ==
    LET r == task[p].role
    IN  /\ At(p, "removeRole", "write")
        /\ IF roles[r] = "live"
           THEN /\ roles' = [roles EXCEPT ![r] = "deleted"]
                /\ userRole' = [u \in User |-> IF userRole[u] = r THEN NoRole
                                                                  ELSE userRole[u]]
                /\ Goto(p, "written")
           ELSE UNCHANGED <<roles, userRole>> /\ Done(p)
        /\ UNCHANGED <<rolePermission, userPermission, caches>>

(* The grants go with the role; ON DELETE SET NULL for the users that were *)
(* given the role since AskUsers.                                          *)
RemoveRole(p) ==
    LET r == task[p].role
    IN  /\ At(p, "removeRole", "write")
        /\ IF roles[r] = "live"
           THEN /\ roles' = [roles EXCEPT ![r] = "deleted"]
                /\ rolePermission' = rolePermission \ RowsOf(r)
                /\ userRole' = [u \in User |-> IF userRole[u] = r THEN NoRole
                                                                  ELSE userRole[u]]
                /\ Goto(p, "written")
           ELSE UNCHANGED <<roles, rolePermission, userRole>> /\ Done(p)
        /\ UNCHANGED <<userPermission, caches>>

(* What an update of the role that commits means for another one.          *)
Overtaken(other, k) ==
    IF other.op = "grantRole" /\ other.role = k.role /\ k.old = {}
    THEN [other EXCEPT !.overtaken = TRUE] ELSE other

GrantRole(p) ==
    LET k == task[p]
    IN  /\ At(p, "grantRole", "write")
        /\ IF RoleCommits(k)
           THEN /\ rolePermission' = (rolePermission \ k.old) \cup NewRoleRows(p)
                /\ task' = [q \in Request |->
                              IF q = p THEN [k EXCEPT !.pc = "written"]
                              ELSE Overtaken(task[q], k)]
           ELSE UNCHANGED rolePermission /\ Done(p)
        /\ UNCHANGED <<roles, userPermission, userRole, caches>>

GrantUser(p) ==
    LET k == task[p]
    IN  /\ At(p, "grantUser", "write")
        /\ IF UserCommits(p)
           THEN /\ userPermission' = (userPermission \ k.old) \cup NewUserRows(p)
                /\ Goto(p, "written")
           ELSE UNCHANGED userPermission /\ Done(p)
        /\ UNCHANGED <<roles, rolePermission, userRole, caches>>

AssignRole(p) ==
    LET k == task[p]
    IN  /\ At(p, "assignRole", "write")
        /\ IF roles[k.role] = "live"
           THEN userRole' = [userRole EXCEPT ![k.user] = k.role] /\ Goto(p, "written")
           ELSE UNCHANGED userRole /\ Done(p)
        /\ UNCHANGED <<roles, rolePermission, userPermission, caches>>

(* The catch around each transaction: PostgreSQL or a timeout undid it.    *)
RollBack(p) ==
    /\ task[p].pc = "write" /\ task[p].op \in {"removeRole", "grantRole", "grantUser"}
    /\ Done(p)
    /\ UNCHANGED <<tables, caches>>

(* A mutant: cached users outlive a write.                                 *)
ClearedUsersNever(k) == userCache

(* removeCache.  The ability entries stay: their keys went through         *)
(* snakeCase and start with permission_ability_casl, and the prefix that   *)
(* is looked for is permissionAbilityCasl.                                 *)
ClearedUsers(k) ==
    IF k.op \in {"grantRole", "grantUser", "assignRole"}
    THEN [u \in User |-> None] ELSE userCache

ClearedRoles(k) ==
    IF k.op = "assignRole" THEN roleCache ELSE {}

Written(p) ==
    /\ task[p].pc = "written"
    /\ roleCache' = ClearedRoles(task[p])
    /\ userCache' = ClearedUsers(task[p])
    /\ Done(p)
    /\ UNCHANGED <<tables, abilityCache>>

Advance(p) ==
    \/ GetRole(p) \/ SetRole(p) \/ GetUser(p) \/ SetUser(p) \/ ReadGrants(p)
    \/ ReadOld(p) \/ AskUsers(p) \/ AskRole(p)
    \/ GetAbility(p) \/ ReadOverrides(p) \/ SetAbility(p)
    \/ CreateRole(p) \/ RemoveRole(p) \/ GrantRole(p) \/ GrantUser(p)
    \/ AssignRole(p) \/ RollBack(p) \/ Written(p)

(* The ttl of an entry, or the limit of the cache.                         *)
Evict ==
    /\ \/ \E r \in roleCache :
             roleCache' = roleCache \ {r} /\ UNCHANGED <<userCache, abilityCache>>
       \/ \E u \in User :
             /\ userCache[u] # None
             /\ userCache' = [userCache EXCEPT ![u] = None]
             /\ UNCHANGED <<roleCache, abilityCache>>
       \/ \E u \in User, r \in Role :
             /\ abilityCache[u][r] # None
             /\ abilityCache' = [abilityCache EXCEPT ![u][r] = None]
             /\ UNCHANGED <<roleCache, userCache>>
    /\ UNCHANGED <<tables, task>>

(* The seed: system roles with some grants, and users who have them.       *)
Init ==
    /\ roles = [r \in Role |-> IF r \in SystemRole THEN "live" ELSE "unborn"]
    /\ rolePermission = {[role |-> s[1], grant |-> s[2], id |-> 0] : s \in Seed}
    /\ userPermission = {}
    /\ userRole \in [User -> SystemRole]
    /\ roleCache = {}
    /\ userCache = [u \in User |-> None]
    /\ abilityCache = [u \in User |-> [r \in Role |-> None]]
    /\ task = [p \in Request |-> Idle]

Next == \/ \E p \in Request : Call(p) \/ Advance(p)
        \/ Evict

Spec == Init /\ [][Next]_vars

-----------------------------------------------------------------------------
(* A transaction that replaces the grants of a role, or the overrides of a *)
(* user, is about to be answered with success.                             *)
Succeeds(p, op) == At(p, op, "write") /\ task'[p].pc = "written"

(* 'Update permission for user successfully': from then on the user has    *)
(* nothing that the request did not list, and all that it listed plainly,  *)
(* whatever the role grants and whatever the overrides were; and whoever   *)
(* the request did not name has what he had.  That is all: an item with    *)
(* another key or another order of its keys may be written for somebody    *)
(* else or as disabled, and takes away what the role grants.               *)
UserGetsRequest ==
    [][\A p \in Request :
          Succeeds(p, "grantUser") =>
             LET u == task[p].user
                 listed == task[p].body
             IN  /\ Ability(u)' \subseteq Grants(listed)
                 /\ Grants({i \in listed : i.plain}) \subseteq Ability(u)'
                 /\ \A v \in User \ {u} :
                       (\A i \in listed : i.user # v) => Ability(v)' = Ability(v)]_vars

(* 'Update permission for role successfully': the role has the grants that *)
(* the request listed and no others, whatever other updates are in flight. *)
(* All that sees to it is that the slower of two updates deletes by id a   *)
(* row that is gone and throws.  An update of a role without grants has no *)
(* row to delete: it mixes with those that it overtakes or is overtaken by.*)
RoleGetsRequest ==
    [][\A p \in Request :
          /\ Succeeds(p, "grantRole")
          /\ task[p].old # {} /\ ~ task[p].overtaken
          => Grants(RowsOf(task[p].role))' = Grants(task[p].body)]_vars

(* A grant belongs to a role that exists and a user has such a role or     *)
(* none, also when a role is removed while it is granted or assigned.      *)
RolesExist ==
    /\ \A row \in rolePermission : roles[row.role] = "live"
    /\ \A u \in User : userRole[u] # NoRole => roles[userRole[u]] = "live"

(* When nothing is under way the entries of the crud services' caches are  *)
(* what the tables hold.                                                   *)
CachesAreFresh ==
    Quiet => /\ \A r \in roleCache : roles[r] = "live"
             /\ \A u \in User : userCache[u] \in {None, userRole[u]}

(* 'Update permission for role successfully': when nothing is under way    *)
(* the guard decides by the grants there are.                              *)
GuardIsCurrent ==
    Quiet => \A u \in User : userRole[u] # NoRole =>
        abilityCache[u][userRole[u]] \in {None, Ability(u)}

=============================================================================
