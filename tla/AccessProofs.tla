---------------------------- MODULE AccessProofs ----------------------------
(***************************************************************************)
(* What the interleaved handlers of roles, grants and overrides guarantee  *)
(* for every catalogue, every seed and every set of requests.              *)
(***************************************************************************)
EXTENDS Access, FiniteSetTheorems, TLAPS

(* The steps that a handler can be at.                                     *)
Steps(op) ==
    CASE op = "idle"       -> {"idle"}
      [] op = "createRole" -> {"write", "written"}
      [] op = "removeRole" -> {"getRole", "setRole", "askUsers", "write", "written"}
      [] op = "grantRole"  -> {"getRole", "setRole", "readOld", "write", "written"}
      [] op = "grantUser"  -> {"getUser", "setUser", "readGrants", "readOld",
                               "write", "written"}
      [] op = "assignRole" -> {"askRole", "write", "written"}
      [] op = "ask"        -> {"getAbility", "readGrants", "readOverrides",
                               "setAbility"}

(* A pair of a permission and an ability is in a list of rows at most once.*)
OnePerGrant(rows) == \A x, y \in rows : x.grant = y.grant => x = y

(* What a handler holds: in particular the rows it is going to replace are *)
(* rows of one role or of one user, one for each grant.                    *)
HasShape(k) ==
    /\ k.pc \in Steps(k.op)
    /\ k.op = "idle" => k = Idle
    /\ k.op \in {"createRole", "removeRole", "grantRole", "assignRole", "ask"} =>
          k.role \in Role
    /\ k.op \in {"grantUser", "assignRole", "ask"} => k.user \in User
    /\ k.op = "grantUser" /\ k.pc \in {"readOld", "write"} => k.role \in Role
    /\ k.op \in {"grantRole", "grantUser"} => k.body \in Body
    /\ k.op = "grantRole" =>
          k.old \subseteq RoleRow /\ \A row \in k.old : row.role = k.role
    /\ k.op = "grantUser" =>
          k.old \subseteq UserRow /\ \A row \in k.old : row.user = k.user
    /\ k.op \notin {"grantRole", "grantUser"} => k.old = {}
    /\ OnePerGrant(k.old)

Shaped == \A p \in Request : HasShape(task[p])

(* The unique columns of the two tables.                                   *)
RowsAreUnique ==
    /\ \A r \in Role : OnePerGrant(RowsOf(r))
    /\ \A u \in User : OnePerGrant(OverridesOf(u))

(* An update of a role that is about to write holds the rows that the role *)
(* has, or one that is gone and that no new row can be mistaken for,       *)
(* unless there was nothing to hold or nothing to be held back by.         *)
HoldsRows(k) ==
    k.op = "grantRole" /\ k.pc = "write" =>
        \/ k.overtaken \/ k.old = {}
        \/ k.old = RowsOf(k.role)
        \/ \E row \in k.old : row \notin rolePermission

UpdatesAreCurrent == \A p \in Request : HoldsRows(task[p])

(* Requests that come one after another.                                   *)
OneAtATime == \E p \in Request : Request = {p}

(* What a request may then rely on: what it has read is still so.          *)
FreshTask(k) ==
    /\ k.pc = "setRole" => roles[k.role] = "live"
    /\ k.op = "removeRole" /\ k.pc = "write" =>
          \A u \in User : userRole[u] # k.role
    /\ k.op = "grantUser" /\ k.pc \in {"setUser", "readGrants", "readOld", "write"} =>
          k.role = userRole[k.user]
    /\ k.op = "grantUser" /\ k.pc \in {"readOld", "write"} =>
          k.seen = Grants(RowsOf(k.role))
    /\ k.op = "grantUser" /\ k.pc = "write" => k.old = OverridesOf(k.user)

(* The cached roles are stale only while a role was removed and the cache  *)
(* is not yet cleared, the cached users only after an assignment.          *)
RolesAreFresh(k) ==
    \/ k.op = "removeRole" /\ k.pc = "written"
    \/ \A r \in roleCache : roles[r] = "live"

UsersAreFresh(k) ==
    \/ k.op = "assignRole" /\ k.pc = "written"
    \/ \A u \in User : userCache[u] \in {None, userRole[u]}

FreshFor(k) == FreshTask(k) /\ RolesAreFresh(k) /\ UsersAreFresh(k)

FreshInv == \A p \in Request : FreshFor(task[p])

-----------------------------------------------------------------------------
LEMMA IdleIsTask == Idle \in Task /\ HasShape(Idle)
  <1>1. Idle \in Task
    BY DEF Idle, Task
  <1>2. Idle.op = "idle" /\ Idle.pc = "idle" /\ Idle.old = {}
    BY DEF Idle
  <1>3. HasShape(Idle)
    BY <1>2 DEF HasShape, Steps, OnePerGrant
  <1> QED  BY <1>1, <1>3

(* Which handlers are at a step.                                           *)
LEMMA StepsOfHandlers ==
    ASSUME NEW k \in Task, HasShape(k)
    PROVE  /\ k.pc = "idle" <=> k = Idle
           /\ k.op = "idle" <=> k = Idle
           /\ k.pc \in {"getRole", "setRole"} => k.op \in {"removeRole", "grantRole"}
           /\ k.pc = "askUsers" => k.op = "removeRole"
           /\ k.pc \in {"getUser", "setUser"} => k.op = "grantUser"
           /\ k.pc = "readGrants" => k.op \in {"grantUser", "ask"}
           /\ k.pc = "readOld" => k.op \in {"grantRole", "grantUser"}
           /\ k.pc = "askRole" => k.op = "assignRole"
           /\ k.pc \in {"getAbility", "readOverrides", "setAbility"} => k.op = "ask"
           /\ k.pc \in {"write", "written"} =>
                 k.op \in {"createRole", "removeRole", "grantRole", "grantUser",
                           "assignRole"}
  <1>1. k.op \in Endpoints \cup {"idle"}
    BY DEF Task
  <1>2. k.pc \in Steps(k.op)
    BY DEF HasShape
  <1>3. /\ k.pc = "idle" <=> k.op = "idle"
        /\ k.op = "idle" <=> k = Idle
    BY <1>1, <1>2 DEF HasShape, Steps, Endpoints, Idle
  <1>4. /\ k.pc \in {"getRole", "setRole"} => k.op \in {"removeRole", "grantRole"}
        /\ k.pc = "askUsers" => k.op = "removeRole"
        /\ k.pc \in {"getUser", "setUser"} => k.op = "grantUser"
        /\ k.pc = "readGrants" => k.op \in {"grantUser", "ask"}
        /\ k.pc = "readOld" => k.op \in {"grantRole", "grantUser"}
        /\ k.pc = "askRole" => k.op = "assignRole"
        /\ k.pc \in {"getAbility", "readOverrides", "setAbility"} => k.op = "ask"
        /\ k.pc \in {"write", "written"} =>
              k.op \in {"createRole", "removeRole", "grantRole", "grantUser",
                        "assignRole"}
    BY <1>1, <1>2 DEF Steps, Endpoints
  <1> QED  BY <1>3, <1>4

(* The ids that other requests hold are fewer than the ids there are, so   *)
(* that a transaction finds one for its rows: each request holds at most   *)
(* one row for each grant.                                                 *)
LEMMA FreeId ==
    ASSUME TypeOK, Shaped, NEW p \in Request
    PROVE  /\ NextId(p) \in 0..MaxId
           /\ \A q \in Request \ {p} : \A row \in task[q].old : row.id # NextId(p)
  <1> DEFINE Others == Request \ {p}
             D      == Others \X Grant
             Of(d)  == CHOOSE n \in 0..MaxId :
                          \E row \in task[d[1]].old : row.grant = d[2] /\ row.id = n
             f      == [d \in D |-> Of(d)]
             Taken  == {f[d] : d \in D}
             Held   == {n \in 0..MaxId : \E q \in Others : \E row \in task[q].old : row.id = n}
             g      == Cardinality(Grant)
             r      == Cardinality(Request)
  <1>0. /\ IsFiniteSet(Grant) /\ IsFiniteSet(Request)
        /\ g \in Nat /\ r \in Nat /\ r # 0
    BY AccessAssumption, FS_CardinalityType, FS_EmptySet
  <1>1. IsFiniteSet(Others) /\ Cardinality(Others) = r - 1
    BY <1>0, FS_RemoveElement
  <1>2. IsFiniteSet(D) /\ Cardinality(D) = (r - 1) * g
    BY <1>0, <1>1, FS_Product
  <1>3. MaxId = g * r /\ MaxId \in Nat
    BY <1>0 DEF MaxId
  <1>4. (r - 1) * g <= MaxId /\ (r - 1) * g \in Nat
    BY <1>0, <1>3
  <1>5. IsFiniteSet(Taken) /\ Cardinality(Taken) <= Cardinality(D)
    <2>1. f \in Surjection(D, Taken)
      BY DEF Surjection
    <2> HIDE DEF f, D, Taken
    <2> QED  BY <1>2, <2>1, FS_Surjection
  <1>6. Held \in SUBSET Taken
    <2> SUFFICES ASSUME NEW n \in Held
                 PROVE  n \in Taken
      OBVIOUS
    <2>0. PICK q \in Others : \E row \in task[q].old : row.id = n
      OBVIOUS
    <2>1. PICK row \in task[q].old : row.id = n
      BY <2>0
    <2>2. /\ task[q] \in Task /\ HasShape(task[q]) /\ row.grant \in Grant
          /\ OnePerGrant(task[q].old)
      BY DEF TypeOK, Task, RoleRow, UserRow, Shaped, HasShape
    <2> DEFINE d == <<q, row.grant>>
    <2>3. d \in D /\ d[1] = q /\ d[2] = row.grant
      BY <2>2
    <2>4. n \in 0..MaxId
      OBVIOUS
    <2>5. \E x \in task[d[1]].old : x.grant = d[2] /\ x.id = n
      BY <2>1, <2>3
    <2>6. \E x \in task[d[1]].old : x.grant = d[2] /\ x.id = Of(d)
      BY <2>4, <2>5
    <2>7. Of(d) = n
      BY <2>1, <2>2, <2>3, <2>6 DEF OnePerGrant
    <2> HIDE DEF Of, d
    <2>8. f[d] = n
      BY <2>3, <2>7
    <2> QED  BY <2>3, <2>8
  <1>7. Held # 0..MaxId
    <2>1. IsFiniteSet(0..MaxId) /\ Cardinality(0..MaxId) = MaxId + 1
      BY <1>3, FS_Interval
    <2>2. Cardinality(Held) <= Cardinality(Taken) /\ IsFiniteSet(Held)
      BY <1>5, <1>6, FS_Subset
    <2>3. Cardinality(Held) \in Nat /\ Cardinality(Taken) \in Nat
      BY <1>5, <2>2, FS_CardinalityType
    <2> HIDE DEF Held, Taken, D, g, r
    <2> QED  BY <1>2, <1>3, <1>4, <1>5, <2>1, <2>2, <2>3
  <1>8. \E n \in 0..MaxId : \A q \in Request \ {p} : \A row \in task[q].old : row.id # n
    BY <1>7
  <1> QED  BY <1>8 DEF NextId

(* The rows that an update of a role inserts.                              *)
LEMMA NewRowsAreRows ==
    ASSUME TypeOK, Shaped, NEW p \in Request
    PROVE  task[p].op = "grantRole" =>
              /\ NewRoleRows(p) \subseteq RoleRow
              /\ OnePerGrant(NewRoleRows(p))
              /\ Grants(NewRoleRows(p)) = Grants(task[p].body)
              /\ \A row \in NewRoleRows(p) : row.role = task[p].role
  <1> SUFFICES ASSUME task[p].op = "grantRole"
               PROVE  /\ NewRoleRows(p) \subseteq RoleRow
                      /\ OnePerGrant(NewRoleRows(p))
                      /\ Grants(NewRoleRows(p)) = Grants(task[p].body)
                      /\ \A row \in NewRoleRows(p) : row.role = task[p].role
    OBVIOUS
  <1> DEFINE k == task[p]
             n == NextId(p)
  <1>1. n \in 0..MaxId /\ k \in Task /\ HasShape(k)
    BY FreeId DEF TypeOK, Shaped
  <1> HIDE DEF n
  <1>2. \A i \in k.body : i.grant \in Grant
    BY <1>1, AccessAssumption DEF HasShape, Item
  <1>3. NewRoleRows(p) = {[role |-> k.role, grant |-> g, id |-> n] : g \in Grants(k.body)}
    BY DEF NewRoleRows, n
  <1>4. k.role \in Role /\ Grants(k.body) \subseteq Grant
    BY <1>1, <1>2 DEF HasShape, Grants
  <1> HIDE DEF k
  <1> DEFINE New(g) == [role |-> k.role, grant |-> g, id |-> n]
  <1>5. /\ \A g \in Grant : New(g) \in RoleRow
        /\ \A g : New(g).role = k.role /\ New(g).grant = g
    BY <1>1, <1>4 DEF RoleRow
  <1>6. NewRoleRows(p) = {New(g) : g \in Grants(k.body)}
    BY <1>3
  <1> HIDE DEF New
  <1>7. /\ NewRoleRows(p) \subseteq RoleRow
        /\ OnePerGrant(NewRoleRows(p))
        /\ \A row \in NewRoleRows(p) : row.role = k.role
    BY <1>4, <1>5, <1>6 DEF OnePerGrant
  <1>8. Grants(NewRoleRows(p)) = Grants(k.body)
    <2>1. \A g \in Grants(k.body) : \E row \in NewRoleRows(p) : row.grant = g
      BY <1>5, <1>6
    <2>2. \A row \in NewRoleRows(p) : row.grant \in Grants(k.body)
      BY <1>5, <1>6
    <2> DEFINE rows == NewRoleRows(p)
               gs   == Grants(k.body)
    <2>3. gs = {row.grant : row \in rows}
      <3> HIDE DEF rows, gs
      <3> QED  BY <2>1, <2>2 DEF rows, gs
    <2> QED  BY <2>3 DEF Grants
  <1> QED  BY <1>7, <1>8 DEF k

(* A row is what an item that the role does not grant became, or a grant   *)
(* of the role that is disabled for the user of the path.                  *)
FromItem(k, i, row) ==
    row.user = Target(k, i) /\ row.grant = i.grant /\ row.isEnable = i.isEnable

FromRole(k, g, row) ==
    row.user = k.user /\ row.grant = g /\ row.isEnable = FALSE

(* The rows that an update of a user inserts; if it commits they have      *)
(* different columns.                                                      *)
LEMMA NewOverridesAreRows ==
    ASSUME TypeOK, Shaped, NEW p \in Request, task[p].op = "grantUser"
    PROVE  /\ NewUserRows(p) \subseteq UserRow
           /\ \A row \in NewUserRows(p) :
                 \/ \E i \in Enabled(task[p]) : FromItem(task[p], i, row)
                 \/ \E g \in Disabled(task[p]) : FromRole(task[p], g, row)
           /\ \A i \in Enabled(task[p]) :
                 \E row \in NewUserRows(p) : FromItem(task[p], i, row)
           /\ \A g \in Disabled(task[p]) :
                 \E row \in NewUserRows(p) : FromRole(task[p], g, row)
           /\ UserCommits(p) =>
                 \A x, y \in NewUserRows(p) : x.user = y.user /\ x.grant = y.grant => x = y
  <1> DEFINE k   == task[p]
             n   == NextId(p)
             on  == Enabled(k)
             off == Disabled(k)
  <1>1. n \in 0..MaxId /\ k \in Task /\ HasShape(k)
    BY FreeId DEF TypeOK, Shaped
  <1> HIDE DEF n
  <1>2. NewUserRows(p) =
           {[user |-> Target(k, i), grant |-> i.grant, isEnable |-> i.isEnable, id |-> n] :
               i \in on}
           \cup
           {[user |-> k.user, grant |-> g, isEnable |-> FALSE, id |-> n] : g \in off}
    BY DEF NewUserRows, n
  <1>3. k.user \in User /\ k.body \subseteq Item /\ k.seen \subseteq Grant
    BY <1>1, AccessAssumption DEF HasShape, Task
  <1>4. /\ on \subseteq Item /\ off \subseteq Grant
        /\ \A i \in on : i.grant \notin off
    BY <1>3 DEF Enabled, Disabled
  <1>5. \A i \in Item : /\ i.grant \in Grant /\ i.isEnable \in BOOLEAN
                        /\ Target(k, i) \in User
    <2> SUFFICES ASSUME NEW i \in Item
                 PROVE  i.grant \in Grant /\ i.isEnable \in BOOLEAN /\ Target(k, i) \in User
      OBVIOUS
    <2>1. i.grant \in Grant /\ i.isEnable \in BOOLEAN /\ i.user \in User \cup {None}
      BY DEF Item
    <2> QED  BY <1>3, <2>1 DEF Target
  <1>6. UserCommits(p) =>
           \A i, j \in on : i.grant = j.grant /\ Target(k, i) = Target(k, j) => i = j
    BY DEF UserCommits
  <1> HIDE DEF k, on, off
  <1> DEFINE On(i)  == [user |-> Target(k, i), grant |-> i.grant, isEnable |-> i.isEnable,
                        id |-> n]
             Off(g) == [user |-> k.user, grant |-> g, isEnable |-> FALSE, id |-> n]
             rows   == NewUserRows(p)
  <1>7. /\ \A i \in on : On(i) \in UserRow
        /\ \A g \in off : Off(g) \in UserRow
    BY <1>1, <1>3, <1>4, <1>5 DEF UserRow
  <1>8. /\ \A i : FromItem(k, i, On(i))
        /\ \A g : FromRole(k, g, Off(g))
    BY DEF FromItem, FromRole
  <1>9. rows = {On(i) : i \in on} \cup {Off(g) : g \in off}
    BY <1>2
  <1> HIDE DEF On, Off, rows
  <1>10. /\ \A i \in on : On(i) \in rows
         /\ \A g \in off : Off(g) \in rows
         /\ \A row \in rows : \/ \E i \in on : row = On(i)
                              \/ \E g \in off : row = Off(g)
    BY <1>9
  <1>11. /\ rows \subseteq UserRow
         /\ \A row \in rows : \/ \E i \in on : FromItem(k, i, row)
                              \/ \E g \in off : FromRole(k, g, row)
         /\ \A i \in on : \E row \in rows : FromItem(k, i, row)
         /\ \A g \in off : \E row \in rows : FromRole(k, g, row)
    BY <1>7, <1>8, <1>10
  <1>12. ASSUME UserCommits(p), NEW x \in rows, NEW y \in rows,
                x.user = y.user, x.grant = y.grant
         PROVE  x = y
    <2>1. CASE \E i \in on : x = On(i)
      <3>1. PICK i \in on : x = On(i)
        BY <2>1
      <3>2. PICK j \in on : y = On(j)
        BY <1>4, <1>8, <1>10, <1>12, <3>1 DEF FromItem, FromRole
      <3>3. i = j
        BY <1>6, <1>8, <1>12, <3>1, <3>2 DEF FromItem
      <3> QED  BY <3>1, <3>2, <3>3
    <2>2. CASE \E g \in off : x = Off(g)
      <3>1. PICK g \in off : x = Off(g)
        BY <2>2
      <3>2. PICK h \in off : y = Off(h)
        BY <1>4, <1>8, <1>10, <1>12, <3>1 DEF FromItem, FromRole
      <3>3. g = h
        BY <1>8, <1>12, <3>1, <3>2 DEF FromRole
      <3> QED  BY <3>1, <3>2, <3>3
    <2> QED  BY <1>10, <2>1, <2>2
  <1> QED  BY <1>11, <1>12 DEF k, on, off, rows

-----------------------------------------------------------------------------
(* What happens to the handlers in a step.                                 *)
LEMMA OneTaskMoves ==
    ASSUME TypeOK, Shaped, NEW p \in Request,
           NEW k \in Task, HasShape(k), task' = [task EXCEPT ![p] = k]
    PROVE  task' \in [Request -> Task] /\ Shaped'
  <1>1. task \in [Request -> Task]
    BY DEF TypeOK
  <1>2. \A q \in Request : task'[q] = IF q = p THEN k ELSE task[q]
    BY <1>1
  <1> QED  BY <1>1, <1>2 DEF Shaped

LEMMA Ending ==
    ASSUME TypeOK, Shaped, NEW p \in Request, Done(p)
    PROVE  task' \in [Request -> Task] /\ Shaped'
  <1> QED  BY IdleIsTask, OneTaskMoves DEF Done

LEMMA Going ==
    ASSUME TypeOK, Shaped, NEW p \in Request, NEW pc,
           pc \in Steps(task[p].op), task[p].op # "idle",
           task[p].op = "grantUser" /\ pc \in {"readOld", "write"} =>
              task[p].role \in Role,
           Goto(p, pc)
    PROVE  task' \in [Request -> Task] /\ Shaped'
  <1> DEFINE k == [task[p] EXCEPT !.pc = pc]
  <1>1. task[p] \in Task /\ HasShape(task[p])
    BY DEF TypeOK, Shaped
  <1>2. task' = [task EXCEPT ![p] = k]
    BY <1>1 DEF Goto, TypeOK
  <1>3. task[p].op \in Endpoints
    BY <1>1 DEF Task
  <1>4. pc \in {"getRole", "setRole", "askUsers", "getUser",
                "setUser", "readGrants", "readOld", "askRole", "write",
                "written", "getAbility", "readOverrides", "setAbility"}
    BY <1>3 DEF Steps, Endpoints
  <1>5. k \in Task
    BY <1>1, <1>4 DEF Task
  <1>6. /\ k.pc = pc /\ k.op = task[p].op /\ k.role = task[p].role
        /\ k.user = task[p].user /\ k.body = task[p].body /\ k.old = task[p].old
    BY <1>1 DEF Task
  <1> HIDE DEF k
  <1>7. HasShape(k)
    BY <1>1, <1>6 DEF HasShape
  <1> QED  BY <1>2, <1>5, <1>7, OneTaskMoves

LEMMA CallsMove ==
    ASSUME TypeOK, Shaped, NEW p \in Request, Call(p)
    PROVE  task' \in [Request -> Task] /\ Shaped'
  <1> DEFINE Onward == task' \in [Request -> Task] /\ Shaped'
  <1> SUFFICES Onward
    OBVIOUS
  <1> HIDE DEF Onward
  <1>0. /\ Idle \in Task /\ OnePerGrant(Idle.old) /\ Idle.old = {}
        /\ \A k \in Task : HasShape(k) /\ Begin(p, k) => Onward
    BY IdleIsTask, OneTaskMoves DEF Begin, Onward, HasShape, Idle
  <1>1. ASSUME NEW r \in Role,
               Begin(p, [Idle EXCEPT !.op = "createRole", !.pc = "write", !.role = r])
        PROVE  Onward
    <2> DEFINE k == [Idle EXCEPT !.op = "createRole", !.pc = "write", !.role = r]
    <2>1. k \in Task /\ k.op = "createRole" /\ k.pc = "write" /\ k.role = r /\ k.old = {}
      BY <1>0 DEF Task, Endpoints, Idle
    <2> HIDE DEF k
    <2>2. HasShape(k)
      BY <2>1 DEF HasShape, Steps, OnePerGrant
    <2> QED  BY <1>0, <1>1, <2>1, <2>2 DEF k
  <1>2. ASSUME NEW r \in Role,
               Begin(p, [Idle EXCEPT !.op = "removeRole", !.pc = "getRole", !.role = r])
        PROVE  Onward
    <2> DEFINE k == [Idle EXCEPT !.op = "removeRole", !.pc = "getRole", !.role = r]
    <2>1. k \in Task /\ k.op = "removeRole" /\ k.pc = "getRole" /\ k.role = r /\ k.old = {}
      BY <1>0 DEF Task, Endpoints, Idle
    <2> HIDE DEF k
    <2>2. HasShape(k)
      BY <2>1 DEF HasShape, Steps, OnePerGrant
    <2> QED  BY <1>0, <1>2, <2>1, <2>2 DEF k
  <1>3. ASSUME NEW r \in Role, NEW items \in Body,
               Begin(p, [Idle EXCEPT !.op = "grantRole", !.pc = "getRole",
                                     !.role = r, !.body = items])
        PROVE  Onward
    <2> DEFINE k == [Idle EXCEPT !.op = "grantRole", !.pc = "getRole",
                                 !.role = r, !.body = items]
    <2>1. /\ k \in Task /\ k.op = "grantRole" /\ k.pc = "getRole" /\ k.role = r
          /\ k.old = {} /\ k.body = items
      BY <1>0 DEF Task, Endpoints, Idle
    <2> HIDE DEF k
    <2>2. HasShape(k)
      BY <2>1 DEF HasShape, Steps, OnePerGrant
    <2> QED  BY <1>0, <1>3, <2>1, <2>2 DEF k
  <1>4. ASSUME NEW u \in Called, NEW items \in Body,
               Begin(p, [Idle EXCEPT !.op = "grantUser", !.pc = "getUser",
                                     !.user = u, !.body = items])
        PROVE  Onward
    <2> DEFINE k == [Idle EXCEPT !.op = "grantUser", !.pc = "getUser",
                                 !.user = u, !.body = items]
    <2>1. /\ k \in Task /\ k.op = "grantUser" /\ k.pc = "getUser" /\ k.user \in User
          /\ k.old = {} /\ k.body = items
      BY <1>0, AccessAssumption DEF Task, Endpoints, Idle
    <2> HIDE DEF k
    <2>2. HasShape(k)
      BY <2>1 DEF HasShape, Steps, OnePerGrant
    <2> QED  BY <1>0, <1>4, <2>1, <2>2 DEF k
  <1>5. ASSUME NEW u \in Called, NEW r \in Role,
               Begin(p, [Idle EXCEPT !.op = "assignRole", !.pc = "askRole",
                                     !.user = u, !.role = r])
        PROVE  Onward
    <2> DEFINE k == [Idle EXCEPT !.op = "assignRole", !.pc = "askRole",
                                 !.user = u, !.role = r]
    <2>1. /\ k \in Task /\ k.op = "assignRole" /\ k.pc = "askRole" /\ k.user \in User
          /\ k.old = {} /\ k.role = r
      BY <1>0, AccessAssumption DEF Task, Endpoints, Idle
    <2> HIDE DEF k
    <2>2. HasShape(k)
      BY <2>1 DEF HasShape, Steps, OnePerGrant
    <2> QED  BY <1>0, <1>5, <2>1, <2>2 DEF k
  <1>6. ASSUME NEW u \in Called, userRole[u] # NoRole,
               Begin(p, [Idle EXCEPT !.op = "ask", !.pc = "getAbility",
                                     !.user = u, !.role = userRole[u]])
        PROVE  Onward
    <2> DEFINE k == [Idle EXCEPT !.op = "ask", !.pc = "getAbility",
                                 !.user = u, !.role = userRole[u]]
    <2>0. userRole[u] \in Role
      BY <1>6, AccessAssumption DEF TypeOK
    <2>1. /\ k \in Task /\ k.op = "ask" /\ k.pc = "getAbility" /\ k.user \in User
          /\ k.old = {} /\ k.role \in Role
      BY <1>0, <2>0, AccessAssumption DEF Task, Endpoints, Idle
    <2> HIDE DEF k
    <2>2. HasShape(k)
      BY <2>1 DEF HasShape, Steps, OnePerGrant
    <2> QED  BY <1>0, <1>6, <2>1, <2>2 DEF k
  <1> QED  BY <1>1, <1>2, <1>3, <1>4, <1>5, <1>6 DEF Call

(* Reads: the rows to replace are rows of one role or one user.            *)
LEMMA ReadsMove ==
    ASSUME TypeOK, Shaped, RowsAreUnique, NEW p \in Request,
           \/ GetRole(p) \/ SetRole(p) \/ GetUser(p) \/ SetUser(p) \/ ReadGrants(p)
           \/ ReadOld(p) \/ AskUsers(p) \/ AskRole(p)
           \/ GetAbility(p) \/ ReadOverrides(p) \/ SetAbility(p)
    PROVE  task' \in [Request -> Task] /\ Shaped'
  <1> DEFINE Onward == task' \in [Request -> Task] /\ Shaped'
             k      == task[p]
  <1> SUFFICES Onward
    OBVIOUS
  <1>0. k \in Task /\ HasShape(k)
    BY DEF TypeOK, Shaped
  <1>1. /\ Done(p) => Onward
        /\ \A k1 \in Task : HasShape(k1) /\ task' = [task EXCEPT ![p] = k1] => Onward
    BY Ending, OneTaskMoves
  <1>2. ASSUME NEW pc \in Steps(k.op), k.op # "idle", Goto(p, pc),
               k.op = "grantUser" => pc \notin {"readOld", "write"}
        PROVE  Onward
    BY <1>2, Going
  <1> HIDE DEF Onward
  <1>3. ASSUME k.pc \in {"getRole", "setRole"}, RoleThen(p)
        PROVE  Onward
    <2>1. k.op \in {"removeRole", "grantRole"}
      BY <1>0, <1>3, StepsOfHandlers
    <2>2. /\ k.op = "grantRole" => "readOld" \in Steps(k.op)
          /\ k.op = "removeRole" => "askUsers" \in Steps(k.op)
      BY DEF Steps
    <2> QED  BY <1>1, <1>2, <1>3, <2>1, <2>2 DEF RoleThen
  <1>4. CASE GetRole(p)
    <2>1. k.pc = "getRole" /\ k.op \in {"removeRole", "grantRole"}
      BY <1>0, <1>4, StepsOfHandlers DEF GetRole
    <2>2. "setRole" \in Steps(k.op)
      BY <2>1 DEF Steps
    <2> QED  BY <1>1, <1>2, <1>3, <1>4, <2>1, <2>2 DEF GetRole
  <1>5. CASE SetRole(p)
    BY <1>3, <1>5 DEF SetRole
  <1>6. CASE GetUser(p)
    <2>1. k.pc = "getUser" /\ k.op = "grantUser" /\ k.user \in User
      BY <1>0, <1>6, StepsOfHandlers DEF GetUser, HasShape
    <2>2. ASSUME NEW r \in Role \cup {NoRole}, NEW pc \in {"readGrants", "setUser"},
                 task' = [task EXCEPT ![p].role = r, ![p].pc = pc]
          PROVE  Onward
      <3> DEFINE k1 == [k EXCEPT !.role = r, !.pc = pc]
      <3>1. task' = [task EXCEPT ![p] = k1]
        BY <2>2 DEF TypeOK
      <3>2. /\ k1 \in Task /\ k1.pc = pc /\ k1.op = "grantUser" /\ k1.user = k.user
            /\ k1.old = k.old /\ k1.body = k.body
        BY <1>0, <2>1 DEF Task
      <3> HIDE DEF k1
      <3>3. HasShape(k1)
        BY <1>0, <2>1, <3>2 DEF HasShape, Steps
      <3> QED  BY <1>1, <3>1, <3>2, <3>3
    <2>3. /\ userCache[k.user] # None => userCache[k.user] \in Role \cup {NoRole}
          /\ userRole[k.user] \in Role \cup {NoRole}
      BY <2>1 DEF TypeOK
    <2> QED  BY <1>6, <2>2, <2>3 DEF GetUser
  <1>7. CASE SetUser(p)
    <2>1. k.pc = "setUser" /\ k.op = "grantUser" /\ Goto(p, "readGrants")
      BY <1>0, <1>7, StepsOfHandlers DEF SetUser
    <2>2. "readGrants" \in Steps(k.op)
      BY <2>1 DEF Steps
    <2> QED  BY <1>2, <2>1, <2>2
  <1>8. CASE ReadGrants(p)
    <2>1. k.pc = "readGrants" /\ k.op \in {"grantUser", "ask"}
      BY <1>0, <1>8, StepsOfHandlers DEF ReadGrants
    <2>2. CASE k.role = NoRole
      BY <1>1, <1>8, <2>2 DEF ReadGrants
    <2>3. CASE k.role # NoRole
      <3> DEFINE pc == IF k.op = "ask" THEN "readOverrides" ELSE "readOld"
                 k1 == [k EXCEPT !.seen = Grants(RowsOf(k.role)), !.pc = pc]
      <3>1. task' = [task EXCEPT ![p] = k1]
        BY <1>8, <2>3 DEF ReadGrants, TypeOK
      <3>2. Grants(RowsOf(k.role)) \subseteq Grant /\ k.role \in Role
        BY <1>0, <2>3 DEF TypeOK, Grants, RowsOf, RoleRow, Task
      <3>3. pc \in {"readOverrides", "readOld"} /\ pc \in Steps(k.op)
        BY <2>1 DEF Steps
      <3> HIDE DEF pc
      <3>4. /\ k1 \in Task /\ k1.pc = pc /\ k1.op = k.op /\ k1.user = k.user
            /\ k1.old = k.old /\ k1.body = k.body /\ k1.role = k.role
        BY <1>0, <3>2, <3>3 DEF Task
      <3> HIDE DEF k1
      <3>5. HasShape(k1)
        BY <1>0, <2>1, <3>2, <3>3, <3>4 DEF HasShape
      <3> QED  BY <1>1, <3>1, <3>4, <3>5
    <2> QED  BY <2>2, <2>3
  <1>9. CASE ReadOld(p)
    <2>1. k.pc = "readOld" /\ k.op \in {"grantRole", "grantUser"}
      BY <1>0, <1>9, StepsOfHandlers DEF ReadOld
    <2> DEFINE old == IF k.op = "grantRole" THEN RowsOf(k.role) ELSE OverridesOf(k.user)
               k1  == [k EXCEPT !.pc = "write", !.old = old]
    <2>2. task' = [task EXCEPT ![p] = k1]
      BY <1>9 DEF ReadOld, TypeOK
    <2>3. k.role \in Role /\ (k.op = "grantUser" => k.user \in User)
      BY <1>0, <2>1 DEF HasShape
    <2>4. /\ k.op = "grantRole" => old \subseteq RoleRow /\ \A row \in old : row.role = k.role
          /\ k.op = "grantUser" => old \subseteq UserRow /\ \A row \in old : row.user = k.user
      BY DEF TypeOK, RowsOf, OverridesOf
    <2>5. OnePerGrant(old)
      BY <2>1, <2>3 DEF RowsAreUnique
    <2> HIDE DEF old
    <2>6. /\ k1 \in Task /\ k1.pc = "write" /\ k1.op = k.op /\ k1.user = k.user
          /\ k1.old = old /\ k1.body = k.body /\ k1.role = k.role
      BY <1>0, <2>1, <2>4 DEF Task
    <2> HIDE DEF k1
    <2>7. HasShape(k1)
      <3>1. k1.pc \in Steps(k1.op)
        BY <2>1, <2>6 DEF Steps
      <3> QED  BY <1>0, <2>1, <2>3, <2>4, <2>5, <2>6, <3>1 DEF HasShape
    <2> QED  BY <1>1, <2>2, <2>6, <2>7
  <1>10. CASE AskUsers(p)
    <2>1. k.pc = "askUsers" /\ k.op = "removeRole"
      BY <1>0, <1>10, StepsOfHandlers DEF AskUsers
    <2>2. "write" \in Steps(k.op)
      BY <2>1 DEF Steps
    <2> QED  BY <1>1, <1>2, <1>10, <2>1, <2>2 DEF AskUsers
  <1>11. CASE AskRole(p)
    <2>1. k.pc = "askRole" /\ k.op = "assignRole"
      BY <1>0, <1>11, StepsOfHandlers DEF AskRole
    <2>2. "write" \in Steps(k.op)
      BY <2>1 DEF Steps
    <2> QED  BY <1>1, <1>2, <1>11, <2>1, <2>2 DEF AskRole
  <1>12. CASE GetAbility(p)
    <2>1. k.pc = "getAbility" /\ k.op = "ask"
      BY <1>0, <1>12, StepsOfHandlers DEF GetAbility
    <2>2. "readGrants" \in Steps(k.op)
      BY <2>1 DEF Steps
    <2> QED  BY <1>1, <1>2, <1>12, <2>1, <2>2 DEF GetAbility
  <1>13. CASE ReadOverrides(p)
    <2>1. k.pc = "readOverrides" /\ k.op = "ask"
      BY <1>0, <1>13, StepsOfHandlers DEF ReadOverrides
    <2> DEFINE able == Able(k.seen, OverridesOf(k.user))
               k1   == [k EXCEPT !.pc = "setAbility", !.seen = able]
    <2>2. task' = [task EXCEPT ![p] = k1]
      BY <1>13 DEF ReadOverrides, TypeOK
    <2>3. able \subseteq Grant
      BY <1>0 DEF TypeOK, Task, Able, Grants, OverridesOf, UserRow
    <2> HIDE DEF able
    <2>4. /\ k1 \in Task /\ k1.pc = "setAbility" /\ k1.op = k.op /\ k1.user = k.user
          /\ k1.old = k.old /\ k1.body = k.body /\ k1.role = k.role
      BY <1>0, <2>3 DEF Task
    <2> HIDE DEF k1
    <2>5. HasShape(k1)
      BY <1>0, <2>1, <2>4 DEF HasShape, Steps
    <2> QED  BY <1>1, <2>2, <2>4, <2>5
  <1>14. CASE SetAbility(p)
    BY <1>1, <1>14 DEF SetAbility
  <1> QED  BY <1>4, <1>5, <1>6, <1>7, <1>8, <1>9, <1>10, <1>11, <1>12, <1>13, <1>14

(* Writes: another update of the role may be marked as overtaken.          *)
LEMMA WritesMove ==
    ASSUME TypeOK, Shaped, NEW p \in Request,
           \/ CreateRole(p) \/ RemoveRole(p) \/ GrantRole(p) \/ GrantUser(p)
           \/ AssignRole(p) \/ RollBack(p) \/ Written(p)
    PROVE  task' \in [Request -> Task] /\ Shaped'
  <1> DEFINE Onward == task' \in [Request -> Task] /\ Shaped'
             k      == task[p]
  <1> SUFFICES Onward
    OBVIOUS
  <1>0. k \in Task /\ HasShape(k)
    BY DEF TypeOK, Shaped
  <1>1. Done(p) => Onward
    BY Ending
  <1>2. ASSUME k.op \in Endpoints \ {"ask"}, Goto(p, "written")
        PROVE  Onward
    <2>1. "written" \in Steps(k.op) /\ k.op # "idle"
      BY <1>2 DEF Steps, Endpoints
    <2> QED  BY <1>2, <2>1, Going
  <1> HIDE DEF Onward
  <1>3. CASE CreateRole(p)
    BY <1>1, <1>2, <1>3 DEF CreateRole, At, Endpoints
  <1>4. CASE RemoveRole(p)
    BY <1>1, <1>2, <1>4 DEF RemoveRole, At, Endpoints
  <1>5. CASE GrantRole(p)
    <2>1. CASE RoleCommits(k)
      <3> DEFINE k1   == [k EXCEPT !.pc = "written"]
                 t(q) == IF q = p THEN k1 ELSE Overtaken(task[q], k)
      <3>1. task' = [q \in Request |-> t(q)]
        BY <1>5, <2>1 DEF GrantRole
      <3>2. k1 \in Task /\ HasShape(k1)
        <4>1. /\ k1 \in Task /\ k1.pc = "written" /\ k1.op = "grantRole"
              /\ k.op = "grantRole" /\ k1.role = k.role /\ k1.user = k.user
              /\ k1.body = k.body /\ k1.old = k.old
          BY <1>0, <1>5 DEF Task, GrantRole, At
        <4> HIDE DEF k1
        <4> QED  BY <1>0, <4>1 DEF HasShape, Steps
      <3>3. ASSUME NEW q \in Request
            PROVE  Overtaken(task[q], k) \in Task /\ HasShape(Overtaken(task[q], k))
        <4> DEFINE k2 == [task[q] EXCEPT !.overtaken = TRUE]
        <4>1. task[q] \in Task /\ HasShape(task[q])
          BY DEF TypeOK, Shaped
        <4>2. /\ k2 \in Task /\ k2.pc = task[q].pc /\ k2.op = task[q].op
              /\ k2.role = task[q].role /\ k2.user = task[q].user
              /\ k2.body = task[q].body /\ k2.old = task[q].old
          BY <4>1 DEF Task
        <4> HIDE DEF k2
        <4>3. task[q].op = "grantRole" => HasShape(k2)
          BY <4>1, <4>2 DEF HasShape
        <4> QED  BY <4>1, <4>2, <4>3 DEF Overtaken, k2
      <3>4. \A q \in Request : t(q) \in Task /\ HasShape(t(q))
        <4> HIDE DEF k1
        <4> QED  BY <3>2, <3>3
      <3> HIDE DEF t
      <3> QED  BY <3>1, <3>4 DEF Onward, Shaped
    <2>2. CASE ~ RoleCommits(k)
      BY <1>1, <1>5, <2>2 DEF GrantRole
    <2> QED  BY <2>1, <2>2
  <1>6. CASE GrantUser(p)
    BY <1>1, <1>2, <1>6 DEF GrantUser, At, Endpoints
  <1>7. CASE AssignRole(p)
    BY <1>1, <1>2, <1>7 DEF AssignRole, At, Endpoints
  <1>8. CASE RollBack(p)
    BY <1>1, <1>8 DEF RollBack
  <1>9. CASE Written(p)
    BY <1>1, <1>9 DEF Written
  <1> QED  BY <1>3, <1>4, <1>5, <1>6, <1>7, <1>8, <1>9

LEMMA TasksMove ==
    ASSUME TypeOK, Shaped, RowsAreUnique, [Next]_vars
    PROVE  task' \in [Request -> Task] /\ Shaped'
  <1>1. ASSUME NEW p \in Request, Call(p) \/ Advance(p)
        PROVE  task' \in [Request -> Task] /\ Shaped'
    BY <1>1, CallsMove, ReadsMove, WritesMove DEF Advance
  <1>2. ASSUME UNCHANGED task
        PROVE  task' \in [Request -> Task] /\ Shaped'
    BY <1>2 DEF TypeOK, Shaped
  <1> QED  BY <1>1, <1>2 DEF Next, Evict, vars

-----------------------------------------------------------------------------
(* What happens to the tables: only an update of grants or of overrides    *)
(* that commits adds rows, and only roles that are removed lose them       *)
(* otherwise.                                                              *)
LEMMA RoleTableMoves ==
    ASSUME NEW p \in Request, Call(p) \/ Advance(p)
    PROVE  \/ UNCHANGED rolePermission
           \/ GrantRole(p) /\ RoleCommits(task[p])
           \/ RemoveRole(p) /\ roles[task[p].role] = "live"
  <1>1. Call(p) => UNCHANGED rolePermission
    BY DEF Call, Begin, tables
  <1>2. \/ GetRole(p) \/ SetRole(p) \/ GetUser(p) \/ SetUser(p) \/ ReadGrants(p)
        \/ ReadOld(p) \/ AskUsers(p) \/ AskRole(p)
        \/ GetAbility(p) \/ ReadOverrides(p) \/ SetAbility(p)
        => UNCHANGED rolePermission
    BY DEF GetRole, SetRole, GetUser, SetUser, ReadGrants, ReadOld, AskUsers, AskRole,
           GetAbility, ReadOverrides, SetAbility, tables
  <1>3. \/ CreateRole(p) \/ GrantUser(p) \/ AssignRole(p) \/ RollBack(p) \/ Written(p)
        => UNCHANGED rolePermission
    BY DEF CreateRole, GrantUser, AssignRole, RollBack, Written, tables
  <1>4. GrantRole(p) /\ ~ RoleCommits(task[p]) => UNCHANGED rolePermission
    BY DEF GrantRole
  <1>5. RemoveRole(p) /\ roles[task[p].role] # "live" => UNCHANGED rolePermission
    BY DEF RemoveRole
  <1> QED  BY <1>1, <1>2, <1>3, <1>4, <1>5 DEF Advance

LEMMA UserTableMoves ==
    ASSUME NEW p \in Request, Call(p) \/ Advance(p)
    PROVE  \/ UNCHANGED userPermission
           \/ GrantUser(p) /\ UserCommits(p)
  <1>1. Call(p) => UNCHANGED userPermission
    BY DEF Call, Begin, tables
  <1>2. \/ GetRole(p) \/ SetRole(p) \/ GetUser(p) \/ SetUser(p) \/ ReadGrants(p)
        \/ ReadOld(p) \/ AskUsers(p) \/ AskRole(p)
        \/ GetAbility(p) \/ ReadOverrides(p) \/ SetAbility(p)
        => UNCHANGED userPermission
    BY DEF GetRole, SetRole, GetUser, SetUser, ReadGrants, ReadOld, AskUsers, AskRole,
           GetAbility, ReadOverrides, SetAbility, tables
  <1>3. \/ CreateRole(p) \/ RemoveRole(p) \/ GrantRole(p) \/ AssignRole(p)
        \/ RollBack(p) \/ Written(p)
        => UNCHANGED userPermission
    BY DEF CreateRole, RemoveRole, GrantRole, AssignRole, RollBack, Written, tables
  <1>4. GrantUser(p) /\ ~ UserCommits(p) => UNCHANGED userPermission
    BY DEF GrantUser
  <1> QED  BY <1>1, <1>2, <1>3, <1>4 DEF Advance

(* The other steps: an entry of a cache is dropped, or nothing happens.    *)
LEMMA Otherwise ==
    ASSUME [Next]_vars, \A p \in Request : ~ (Call(p) \/ Advance(p))
    PROVE  UNCHANGED <<roles, rolePermission, userPermission, userRole, task>>
  <1> QED  BY DEF Next, Evict, vars, tables

(* The rows of a role after one of its updates, and of the other roles.    *)
LEMMA GrantsAreReplaced ==
    ASSUME TypeOK, Shaped, NEW p \in Request, GrantRole(p), RoleCommits(task[p])
    PROVE  /\ rolePermission' \subseteq RoleRow
           /\ \A r \in Role :
                 RowsOf(r)' = IF r = task[p].role
                              THEN (RowsOf(r) \ task[p].old) \cup NewRoleRows(p)
                              ELSE RowsOf(r)
  <1> DEFINE k == task[p]
             new == NewRoleRows(p)
  <1>1. rolePermission' = (rolePermission \ k.old) \cup new
    BY DEF GrantRole
  <1>2. HasShape(k) /\ k.op = "grantRole"
    BY DEF Shaped, GrantRole, At
  <1>3. /\ k.old \subseteq RoleRow /\ \A row \in k.old : row.role = k.role
        /\ new \subseteq RoleRow /\ \A row \in new : row.role = k.role
    BY <1>2, NewRowsAreRows DEF HasShape
  <1>4. rolePermission \subseteq RoleRow
    BY DEF TypeOK
  <1> HIDE DEF k, new
  <1>5. rolePermission' \subseteq RoleRow
    BY <1>1, <1>3, <1>4
  <1>6. \A r \in Role : RowsOf(r)' = IF r = k.role THEN (RowsOf(r) \ k.old) \cup new
                                                    ELSE RowsOf(r)
    BY <1>1, <1>3 DEF RowsOf
  <1> QED  BY <1>5, <1>6 DEF k, new

(* The overrides of the users after an update of one of them.              *)
LEMMA OverridesAreReplaced ==
    ASSUME TypeOK, Shaped, NEW p \in Request, GrantUser(p), UserCommits(p)
    PROVE  /\ userPermission' \subseteq UserRow
           /\ \A u \in User :
                 OverridesOf(u)' = (OverridesOf(u) \ task[p].old)
                                      \cup {row \in NewUserRows(p) : row.user = u}
  <1> DEFINE k == task[p]
             new == NewUserRows(p)
  <1>1. userPermission' = (userPermission \ k.old) \cup new
    BY DEF GrantUser
  <1>2. k.op = "grantUser"
    BY DEF GrantUser, At
  <1>3. new \subseteq UserRow
    BY <1>2, NewOverridesAreRows
  <1>4. userPermission \subseteq UserRow
    BY DEF TypeOK
  <1> HIDE DEF k, new
  <1>5. userPermission' \subseteq UserRow
    BY <1>1, <1>3, <1>4
  <1>6. \A u \in User : OverridesOf(u)' = (OverridesOf(u) \ k.old)
                                            \cup {row \in new : row.user = u}
    BY <1>1 DEF OverridesOf
  <1> QED  BY <1>5, <1>6 DEF k, new

(* The checks of a transaction keep the unique columns.                    *)
LEMMA UniqueUnion ==
    ASSUME NEW rows, NEW new, OnePerGrant(rows), OnePerGrant(new),
           Grants(rows) \cap Grants(new) = {}
    PROVE  OnePerGrant(rows \cup new)
  <1> QED  BY DEF OnePerGrant, Grants

LEMMA RowsStayUnique ==
    ASSUME TypeOK, Shaped, RowsAreUnique, [Next]_vars
    PROVE  RowsAreUnique' /\ rolePermission' \subseteq RoleRow /\ userPermission' \subseteq UserRow
  <1>1. /\ \A r \in Role : OnePerGrant(RowsOf(r)')
        /\ rolePermission' \subseteq RoleRow
    <2>1. CASE UNCHANGED rolePermission
      BY <2>1 DEF TypeOK, RowsAreUnique, RowsOf
    <2>2. ASSUME NEW p \in Request, GrantRole(p), RoleCommits(task[p])
          PROVE  /\ \A r \in Role : OnePerGrant(RowsOf(r)')
                 /\ rolePermission' \subseteq RoleRow
      <3> DEFINE k    == task[p]
                 rows == RowsOf(k.role)
      <3>1. k.op = "grantRole" /\ k \in Task /\ HasShape(k)
        BY <2>2 DEF GrantRole, At, TypeOK, Shaped
      <3>2. k.role \in Role
        BY <3>1 DEF HasShape
      <3>3. /\ Grants(rows \ k.old) \cap Grants(NewRoleRows(p)) = {}
            /\ OnePerGrant(NewRoleRows(p))
        BY <2>2, <3>1, NewRowsAreRows DEF RoleCommits
      <3>4. OnePerGrant(rows \ k.old)
        BY <3>2 DEF RowsAreUnique, OnePerGrant
      <3>5. OnePerGrant((rows \ k.old) \cup NewRoleRows(p))
        BY <3>3, <3>4, UniqueUnion
      <3> QED  BY <2>2, <3>5, GrantsAreReplaced DEF RowsAreUnique
    <2>3. ASSUME NEW p \in Request, RemoveRole(p), roles[task[p].role] = "live"
          PROVE  /\ \A r \in Role : OnePerGrant(RowsOf(r)')
                 /\ rolePermission' \subseteq RoleRow
      <3>1. rolePermission' \subseteq rolePermission
        BY <2>3 DEF RemoveRole
      <3> QED  BY <3>1 DEF TypeOK, RowsAreUnique, RowsOf, OnePerGrant
    <2> QED  BY <2>1, <2>2, <2>3, RoleTableMoves, Otherwise
  <1>2. /\ \A u \in User : OnePerGrant(OverridesOf(u)')
        /\ userPermission' \subseteq UserRow
    <2>1. CASE UNCHANGED userPermission
      BY <2>1 DEF TypeOK, RowsAreUnique, OverridesOf
    <2>2. ASSUME NEW p \in Request, GrantUser(p), UserCommits(p)
          PROVE  /\ \A u \in User : OnePerGrant(OverridesOf(u)')
                 /\ userPermission' \subseteq UserRow
      <3>0. userPermission' \subseteq UserRow
        BY <2>2, OverridesAreReplaced
      <3> SUFFICES ASSUME NEW u \in User
                   PROVE  OnePerGrant(OverridesOf(u)')
        BY <3>0
      <3> DEFINE k    == task[p]
                 rows == OverridesOf(u) \ k.old
                 new  == NewUserRows(p)
                 mine == {row \in new : row.user = u}
      <3>1. k.op = "grantUser"
        BY <2>2 DEF GrantUser, At
      <3>2. OverridesOf(u)' = rows \cup mine
        BY <2>2, OverridesAreReplaced
      <3>3. OnePerGrant(mine)
        BY <2>2, <3>1, NewOverridesAreRows DEF OnePerGrant
      <3>4. OnePerGrant(rows)
        BY DEF RowsAreUnique, OnePerGrant
      <3>5. Grants(rows) \cap Grants(mine) = {}
        <4>1. Columns(new) \cap Columns(userPermission \ k.old) = {}
          BY <2>2 DEF UserCommits
        <4>2. \A x \in rows : <<u, x.grant>> \in Columns(userPermission \ k.old)
          BY DEF OverridesOf, Columns
        <4>3. \A y \in mine : <<u, y.grant>> \in Columns(new)
          BY DEF Columns
        <4> HIDE DEF rows, mine, new, k
        <4> QED  BY <4>1, <4>2, <4>3 DEF Grants
      <3> HIDE DEF rows, mine
      <3>6. OnePerGrant(rows \cup mine)
        BY <3>3, <3>4, <3>5, UniqueUnion
      <3> QED  BY <3>2, <3>6
    <2> QED  BY <2>1, <2>2, UserTableMoves, Otherwise
  <1> QED  BY <1>1, <1>2 DEF RowsAreUnique

(* The columns and the caches.                                             *)
LEMMA ColumnsMove ==
    ASSUME TypeOK, Shaped, [Next]_vars
    PROVE  /\ roles' \in [Role -> {"unborn", "live", "deleted"}]
           /\ userRole' \in [User -> Role \cup {NoRole}]
           /\ roleCache' \subseteq Role
           /\ userCache' \in [User -> Role \cup {NoRole, None}]
           /\ abilityCache' \in [User -> [Role -> (SUBSET Grant) \cup {None}]]
  <1> DEFINE Typed ==
               /\ roles' \in [Role -> {"unborn", "live", "deleted"}]
               /\ userRole' \in [User -> Role \cup {NoRole}]
               /\ roleCache' \subseteq Role
               /\ userCache' \in [User -> Role \cup {NoRole, None}]
               /\ abilityCache' \in [User -> [Role -> (SUBSET Grant) \cup {None}]]
  <1> SUFFICES Typed
    OBVIOUS
  <1>0. /\ roles \in [Role -> {"unborn", "live", "deleted"}]
        /\ userRole \in [User -> Role \cup {NoRole}]
        /\ roleCache \subseteq Role
        /\ userCache \in [User -> Role \cup {NoRole, None}]
        /\ abilityCache \in [User -> [Role -> (SUBSET Grant) \cup {None}]]
        /\ \A p \in Request : task[p] \in Task /\ HasShape(task[p])
    BY DEF TypeOK, Shaped
  <1>1. UNCHANGED <<roles, userRole, caches>> => Typed
    BY <1>0 DEF caches
  <1>2. ASSUME NEW p \in Request, Call(p)
        PROVE  Typed
    BY <1>1, <1>2 DEF Call, Begin, tables
  <1>3. ASSUME NEW p \in Request, Advance(p)
        PROVE  Typed
    <2> DEFINE k == task[p]
    <2>0. k \in Task /\ HasShape(k)
      BY <1>0
    <2>1. GetRole(p) \/ GetUser(p) \/ ReadGrants(p) \/ ReadOld(p) \/ AskUsers(p)
          \/ AskRole(p) \/ GetAbility(p) \/ ReadOverrides(p) \/ GrantRole(p)
          \/ GrantUser(p) \/ RollBack(p)
          => Typed
      <3>1. GetRole(p) \/ GetUser(p) \/ ReadGrants(p) \/ ReadOld(p) \/ AskUsers(p)
            \/ AskRole(p) \/ GetAbility(p) \/ ReadOverrides(p) \/ GrantRole(p)
            \/ GrantUser(p) \/ RollBack(p)
            => UNCHANGED <<roles, userRole, caches>>
        BY DEF GetRole, GetUser, ReadGrants, ReadOld, AskUsers, AskRole, GetAbility,
               ReadOverrides, GrantRole, GrantUser, RollBack, tables
      <3> QED  BY <1>1, <3>1
    <2>2. CASE SetRole(p)
      <3>1. k.op \in {"removeRole", "grantRole"}
        BY <2>0, <2>2, StepsOfHandlers DEF SetRole
      <3>2. k.role \in Role
        BY <2>0, <3>1 DEF HasShape
      <3> QED  BY <1>0, <2>2, <3>2 DEF SetRole, tables
    <2>3. CASE SetUser(p)
      BY <1>0, <2>0, <2>3 DEF SetUser, tables, Task
    <2>4. CASE SetAbility(p)
      <3>1. k.op = "ask"
        BY <2>0, <2>4, StepsOfHandlers DEF SetAbility
      <3>2. k.seen \in SUBSET Grant /\ k.role \in Role /\ k.user \in User
        BY <2>0, <3>1 DEF HasShape, Task
      <3>3. abilityCache' = [abilityCache EXCEPT ![k.user][k.role] = k.seen]
        BY <2>4 DEF SetAbility
      <3> HIDE DEF k
      <3>4. abilityCache' \in [User -> [Role -> (SUBSET Grant) \cup {None}]]
        BY <1>0, <3>2, <3>3
      <3> QED  BY <1>0, <2>4, <3>4 DEF SetAbility, tables
    <2>5. CASE CreateRole(p)
      BY <1>0, <2>5 DEF CreateRole, caches
    <2>6. CASE RemoveRole(p)
      BY <1>0, <2>6 DEF RemoveRole, caches
    <2>7. CASE AssignRole(p)
      <3>1. k.role \in Role
        BY <2>0, <2>7 DEF AssignRole, At, HasShape
      <3> QED  BY <1>0, <2>7, <3>1 DEF AssignRole, caches
    <2>8. CASE Written(p)
      BY <1>0, <2>8 DEF Written, ClearedRoles, ClearedUsers, tables
    <2> QED  BY <1>3, <2>1, <2>2, <2>3, <2>4, <2>5, <2>6, <2>7, <2>8 DEF Advance
  <1>4. CASE Evict
    <2>1. UNCHANGED <<roles, userRole>>
      BY <1>4 DEF Evict, tables
    <2>2. roleCache' \subseteq Role
      BY <1>0, <1>4 DEF Evict
    <2>3. userCache' \in [User -> Role \cup {NoRole, None}]
      BY <1>0, <1>4 DEF Evict
    <2>4. abilityCache' \in [User -> [Role -> (SUBSET Grant) \cup {None}]]
      <3>1. \/ abilityCache' = abilityCache
            \/ \E u \in User, r \in Role : abilityCache' = [abilityCache EXCEPT ![u][r] = None]
        BY <1>4 DEF Evict
      <3>2. None \in (SUBSET Grant) \cup {None}
        OBVIOUS
      <3> QED  BY <1>0, <3>1, <3>2
    <2> QED  BY <1>0, <2>1, <2>2, <2>3, <2>4
  <1>5. CASE UNCHANGED vars
    BY <1>1, <1>5 DEF vars, tables
  <1> QED  BY <1>2, <1>3, <1>4, <1>5 DEF Next

(* The tables keep their unique columns, whatever transactions overlap,    *)
(* and every handler holds the rows that one role or one user had.         *)
THEOREM TypeCorrect == Spec => [](TypeOK /\ Shaped /\ RowsAreUnique)
  <1> DEFINE Typed == TypeOK /\ Shaped /\ RowsAreUnique
  <1>1. Init => Typed
    <2> SUFFICES ASSUME Init
                 PROVE  Typed
      OBVIOUS
    <2>1. MaxId \in Nat
      <3>1. Cardinality(Grant) \in Nat /\ Cardinality(Request) \in Nat
        BY AccessAssumption, FS_CardinalityType
      <3> QED  BY <3>1 DEF MaxId
    <2>2. \A s \in Seed : s[1] \in Role /\ s[2] \in Grant /\ s = <<s[1], s[2]>>
      BY AccessAssumption
    <2> DEFINE New(s) == [role |-> s[1], grant |-> s[2], id |-> 0]
    <2>3. rolePermission = {New(s) : s \in Seed}
      BY DEF Init
    <2>4. \A s \in Seed : /\ New(s) \in RoleRow
                          /\ New(s).role = s[1] /\ New(s).grant = s[2]
      BY <2>1, <2>2 DEF RoleRow
    <2> HIDE DEF New
    <2>5. rolePermission \subseteq RoleRow
      BY <2>3, <2>4
    <2>6. \A r \in Role : OnePerGrant(RowsOf(r))
      <3> SUFFICES ASSUME NEW r \in Role, NEW x \in RowsOf(r), NEW y \in RowsOf(r),
                          x.grant = y.grant
                   PROVE  x = y
        BY DEF OnePerGrant
      <3>1. PICK s \in Seed : x = New(s)
        BY <2>3 DEF RowsOf
      <3>2. PICK t \in Seed : y = New(t)
        BY <2>3 DEF RowsOf
      <3>3. s = t
        BY <2>2, <2>4, <3>1, <3>2 DEF RowsOf
      <3> QED  BY <3>1, <3>2, <3>3
    <2>7. \A u \in User : OnePerGrant(OverridesOf(u))
      BY DEF Init, OverridesOf, OnePerGrant
    <2>8. task \in [Request -> Task] /\ Shaped
      BY IdleIsTask DEF Init, Shaped
    <2>9. TypeOK
      <3>1. /\ roles \in [Role -> {"unborn", "live", "deleted"}]
            /\ userPermission \subseteq UserRow
            /\ roleCache \subseteq Role
        BY DEF Init
      <3>2. userRole \in [User -> Role \cup {NoRole}]
        BY AccessAssumption DEF Init
      <3>3. userCache \in [User -> Role \cup {NoRole, None}]
        BY DEF Init
      <3>4. abilityCache \in [User -> [Role -> (SUBSET Grant) \cup {None}]]
        BY DEF Init
      <3> QED  BY <2>5, <2>8, <3>1, <3>2, <3>3, <3>4 DEF TypeOK
    <2> QED  BY <2>6, <2>7, <2>8, <2>9 DEF RowsAreUnique
  <1>2. Typed /\ [Next]_vars => Typed'
    BY TasksMove, RowsStayUnique, ColumnsMove DEF TypeOK
  <1> QED  BY <1>1, <1>2, PTL DEF Spec

-----------------------------------------------------------------------------
(* Grants and users point at roles that exist: RolesExist, also when a     *)
(* role is removed while it is granted or assigned.                        *)
THEOREM GrantsHaveRoles == Spec => []RolesExist
  <1>1. Init => RolesExist
    <2> SUFFICES ASSUME Init
                 PROVE  RolesExist
      OBVIOUS
    <2>1. \A row \in rolePermission : row.role \in SystemRole
      BY AccessAssumption DEF Init
    <2> QED  BY <2>1, AccessAssumption DEF Init, RolesExist
  <1>2. TypeOK /\ Shaped /\ RolesExist /\ [Next]_vars => RolesExist'
    <2> SUFFICES ASSUME TypeOK, Shaped, RolesExist, [Next]_vars
                 PROVE  RolesExist'
      OBVIOUS
    <2>0. /\ roles \in [Role -> {"unborn", "live", "deleted"}]
          /\ userRole \in [User -> Role \cup {NoRole}]
          /\ rolePermission \subseteq RoleRow
          /\ \A p \in Request : task[p] \in Task /\ HasShape(task[p])
      BY DEF TypeOK, Shaped
    <2>1. UNCHANGED <<roles, rolePermission, userRole>> => RolesExist'
      BY DEF RolesExist
    <2>2. ASSUME NEW p \in Request, Call(p)
          PROVE  RolesExist'
      BY <2>1, <2>2 DEF Call, Begin, tables
    <2>3. ASSUME NEW p \in Request, Advance(p)
          PROVE  RolesExist'
      <3>1. CASE \/ GetRole(p) \/ SetRole(p) \/ GetUser(p) \/ SetUser(p) \/ ReadGrants(p)
                 \/ ReadOld(p) \/ AskUsers(p) \/ AskRole(p)
                 \/ GetAbility(p) \/ ReadOverrides(p) \/ SetAbility(p)
                 \/ GrantUser(p) \/ RollBack(p) \/ Written(p)
        <4>1. UNCHANGED <<roles, rolePermission, userRole>>
          BY <3>1 DEF GetRole, SetRole, GetUser, SetUser, ReadGrants, ReadOld, AskUsers,
                      AskRole, GetAbility, ReadOverrides, SetAbility, GrantUser, RollBack,
                      Written, tables
        <4> QED  BY <2>1, <4>1
      <3>2. CASE CreateRole(p)
        BY <2>0, <3>2 DEF CreateRole, RolesExist, RoleRow
      <3>3. CASE RemoveRole(p)
        <4>1. CASE roles[task[p].role] = "live"
          <5> DEFINE r == task[p].role
          <5>1. /\ roles' = [roles EXCEPT ![r] = "deleted"]
                /\ rolePermission' = rolePermission \ RowsOf(r)
                /\ userRole' = [u \in User |-> IF userRole[u] = r THEN NoRole
                                                                  ELSE userRole[u]]
            BY <3>3, <4>1 DEF RemoveRole
          <5> HIDE DEF r
          <5>2. \A row \in rolePermission' : row.role # r /\ roles[row.role] = "live"
                                             /\ row.role \in Role
            BY <2>0, <5>1 DEF RowsOf, RolesExist, RoleRow
          <5>3. \A u \in User : userRole'[u] # NoRole =>
                   userRole'[u] # r /\ roles[userRole'[u]] = "live" /\ userRole'[u] \in Role
            BY <2>0, <5>1 DEF RolesExist
          <5> QED  BY <2>0, <5>1, <5>2, <5>3 DEF RolesExist
        <4>2. CASE roles[task[p].role] # "live"
          BY <2>1, <3>3, <4>2 DEF RemoveRole
        <4> QED  BY <4>1, <4>2
      <3>4. CASE GrantRole(p)
        <4>1. CASE RoleCommits(task[p])
          <5>1. \A row \in NewRoleRows(p) : row.role = task[p].role
            BY <3>4, NewRowsAreRows DEF GrantRole, At
          <5>2. roles[task[p].role] = "live"
            BY <4>1 DEF RoleCommits
          <5>3. /\ rolePermission' = (rolePermission \ task[p].old) \cup NewRoleRows(p)
                /\ UNCHANGED <<roles, userRole>>
            BY <3>4, <4>1 DEF GrantRole
          <5> QED  BY <5>1, <5>2, <5>3 DEF RolesExist
        <4>2. CASE ~ RoleCommits(task[p])
          BY <2>1, <3>4, <4>2 DEF GrantRole
        <4> QED  BY <4>1, <4>2
      <3>5. CASE AssignRole(p)
        BY <2>0, <3>5 DEF AssignRole, RolesExist
      <3> QED  BY <2>3, <3>1, <3>2, <3>3, <3>4, <3>5 DEF Advance
    <2>4. Evict \/ UNCHANGED vars => RolesExist'
      BY <2>1 DEF Evict, vars, tables
    <2> QED  BY <2>2, <2>3, <2>4 DEF Next
  <1> QED  BY <1>1, <1>2, TypeCorrect, PTL DEF Spec

-----------------------------------------------------------------------------
(* A step of a request leaves the others alone, but for the updates of a   *)
(* role that it overtakes.                                                 *)
LEMMA OthersStay ==
    ASSUME TypeOK, NEW p \in Request, Call(p) \/ Advance(p), NEW q \in Request \ {p}
    PROVE  \/ task'[q] = task[q]
           \/ /\ GrantRole(p) /\ RoleCommits(task[p])
              /\ task[p].old = {}
              /\ task[q].op = "grantRole" /\ task[q].role = task[p].role
              /\ task'[q] = [task[q] EXCEPT !.overtaken = TRUE]
  <1> DEFINE Stays == task'[q] = task[q]
  <1>0. task \in [Request -> Task]
    BY DEF TypeOK
  <1>1. \A k : task' = [task EXCEPT ![p] = k] => Stays
    BY <1>0
  <1>2. /\ Done(p) => Stays
        /\ \A pc : Goto(p, pc) => Stays
    BY <1>0 DEF Done, Goto
  <1>3. Call(p) => Stays
    BY <1>1 DEF Call, Begin
  <1> HIDE DEF Stays
  <1>4. GetRole(p) \/ SetRole(p) \/ SetUser(p) \/ AskUsers(p) \/ AskRole(p)
        \/ GetAbility(p) \/ SetAbility(p) \/ CreateRole(p) \/ RemoveRole(p)
        \/ GrantUser(p) \/ AssignRole(p) \/ RollBack(p) \/ Written(p)
        => Stays
    BY <1>2 DEF GetRole, SetRole, RoleThen, SetUser, AskUsers, AskRole, GetAbility,
                SetAbility, CreateRole, RemoveRole, GrantUser, AssignRole, RollBack, Written
  <1>5. GetUser(p) \/ ReadGrants(p) \/ ReadOld(p) \/ ReadOverrides(p) => Stays
    <2>1. GetUser(p) => Stays
      BY <1>0 DEF GetUser, Stays
    <2>2. ReadGrants(p) => Stays
      BY <1>0, <1>2 DEF ReadGrants, Stays
    <2>3. ReadOld(p) => Stays
      BY <1>0 DEF ReadOld, Stays
    <2>4. ReadOverrides(p) => Stays
      BY <1>0 DEF ReadOverrides, Stays
    <2> QED  BY <2>1, <2>2, <2>3, <2>4
  <1>6. GrantRole(p) /\ ~ RoleCommits(task[p]) => Stays
    BY <1>2 DEF GrantRole
  <1>7. ASSUME GrantRole(p), RoleCommits(task[p]), ~ Stays
        PROVE  /\ task[p].old = {}
               /\ task[q].op = "grantRole" /\ task[q].role = task[p].role
               /\ task'[q] = [task[q] EXCEPT !.overtaken = TRUE]
    <2>1. task'[q] = Overtaken(task[q], task[p])
      BY <1>7 DEF GrantRole
    <2> QED  BY <1>7, <2>1 DEF Overtaken, Stays
  <1> QED  BY <1>3, <1>4, <1>5, <1>6, <1>7 DEF Advance, Stays

(* A handler that a step brings to the write of a role's grants has just   *)
(* read the rows that the role has.                                        *)
LEMMA WritersHaveRead ==
    ASSUME TypeOK, Shaped, RowsAreUnique, NEW p \in Request, Call(p) \/ Advance(p)
    PROVE  HoldsRows(task[p])'
  <1> DEFINE k  == task[p]
             k1 == task'[p]
  <1> SUFFICES ASSUME k1.op = "grantRole", k1.pc = "write"
               PROVE  k1.old = {row \in rolePermission' : row.role = k1.role}
    BY DEF HoldsRows, RowsOf
  <1>0. k \in Task /\ HasShape(k) /\ task \in [Request -> Task]
    BY DEF TypeOK, Shaped
  <1>1. Done(p) => k1 = Idle
    BY <1>0 DEF Done
  <1>2. ~ Done(p)
    BY <1>1 DEF Idle
  <1>3. \A pc : Goto(p, pc) => k1.op = k.op /\ k1.pc = pc
    BY <1>0 DEF Goto, Task
  <1>4. ~ Goto(p, "readOld") /\ ~ Goto(p, "askUsers") /\ ~ Goto(p, "setRole")
        /\ ~ Goto(p, "readGrants") /\ ~ Goto(p, "written")
    BY <1>3
  <1>5. ~ Call(p)
    <2> SUFFICES ASSUME Call(p)
                 PROVE  FALSE
      OBVIOUS
    <2>1. \A k2 : Begin(p, k2) => k1 = k2
      BY <1>0 DEF Begin
    <2> HIDE DEF k1
    <2> QED  BY <2>1 DEF Call, Idle
  <1> HIDE DEF k1
  <1>6. ~ (GetRole(p) \/ SetRole(p) \/ SetUser(p) \/ GetAbility(p) \/ SetAbility(p)
           \/ CreateRole(p) \/ RemoveRole(p) \/ GrantUser(p) \/ AssignRole(p)
           \/ RollBack(p) \/ Written(p))
    BY <1>2, <1>4 DEF GetRole, SetRole, RoleThen, SetUser, GetAbility,
                SetAbility, CreateRole, RemoveRole, GrantUser, AssignRole, RollBack, Written
  <1>7. ~ AskUsers(p) /\ ~ AskRole(p)
    BY <1>0, <1>2, <1>3, StepsOfHandlers DEF AskUsers, AskRole
  <1>8. ~ GetUser(p) /\ ~ ReadGrants(p) /\ ~ ReadOverrides(p)
    <2>1. ~ GetUser(p)
      BY <1>0 DEF GetUser, Task, k1
    <2>2. ~ ReadGrants(p)
      BY <1>0, <1>2 DEF ReadGrants, Task, k1
    <2>3. ~ ReadOverrides(p)
      BY <1>0 DEF ReadOverrides, Task, k1
    <2> QED  BY <2>1, <2>2, <2>3
  <1>9. ~ GrantRole(p)
    <2> SUFFICES ASSUME GrantRole(p)
                 PROVE  FALSE
      OBVIOUS
    <2>1. k1 = [k EXCEPT !.pc = "written"]
      BY <1>2 DEF GrantRole, k1
    <2> QED  BY <1>0, <2>1 DEF Task
  <1>10. ReadOld(p)
    BY <1>5, <1>6, <1>7, <1>8, <1>9 DEF Advance
  <1>11. /\ k1 = [k EXCEPT !.pc = "write",
                           !.old = IF k.op = "grantRole" THEN RowsOf(k.role)
                                   ELSE OverridesOf(k.user)]
         /\ UNCHANGED rolePermission
    BY <1>0, <1>10 DEF ReadOld, k1, tables
  <1>12. k1.op = k.op /\ k1.role = k.role /\ k1.old = RowsOf(k.role)
    BY <1>0, <1>11 DEF Task
  <1> QED  BY <1>11, <1>12 DEF RowsOf, k1

(* What an update of a role holds stays what the role has, or is gone for  *)
(* good, while others write.                                               *)
LEMMA HeldRowsStay ==
    ASSUME TypeOK, Shaped, NEW p \in Request, Call(p) \/ Advance(p),
           NEW q \in Request \ {p}, HoldsRows(task[q]), task'[q] = task[q]
    PROVE  HoldsRows(task[q])'
  <1> DEFINE k    == task[q]
             r    == k.role
             gone == \E row \in k.old : row \notin rolePermission'
  <1> SUFFICES ASSUME k.op = "grantRole", k.pc = "write", ~ k.overtaken, k.old # {}
               PROVE  k.old = {row \in rolePermission' : row.role = r} \/ gone
    BY DEF HoldsRows, RowsOf
  <1>0. /\ k \in Task /\ HasShape(k) /\ r \in Role
        /\ \A row \in k.old : row.role = r
    BY DEF TypeOK, Shaped, HasShape
  <1>1. k.old = RowsOf(r) \/ \E row \in k.old : row \notin rolePermission
    BY DEF HoldsRows
  <1>2. CASE UNCHANGED rolePermission
    BY <1>1, <1>2 DEF RowsOf
  <1>3. ASSUME GrantRole(p), RoleCommits(task[p])
        PROVE  k.old = {row \in rolePermission' : row.role = r} \/ gone
    <2> DEFINE j == task[p]
    <2>1. /\ rolePermission' = (rolePermission \ j.old) \cup NewRoleRows(p)
          /\ j.old \subseteq rolePermission
      BY <1>3 DEF GrantRole, RoleCommits
    <2>2. \A row \in k.old : row \notin NewRoleRows(p)
      <3>1. \A row \in k.old : row.id # NextId(p)
        BY <1>3, FreeId
      <3>2. \A row \in NewRoleRows(p) : row.id = NextId(p)
        BY DEF NewRoleRows
      <3> QED  BY <3>1, <3>2
    <2>3. CASE \E row \in k.old : row \notin rolePermission
      BY <2>1, <2>2, <2>3
    <2>4. CASE k.old = RowsOf(r) /\ j.role = r
      <3>1. \A row \in j.old : row.role = r
        BY <1>3, <2>4 DEF Shaped, HasShape, GrantRole, At
      <3>0. j.old # {}
        <4>1. task'[q] = Overtaken(k, j)
          BY <1>3 DEF GrantRole
        <4>2. j.old = {} => task'[q] = [k EXCEPT !.overtaken = TRUE]
          BY <2>4, <4>1 DEF Overtaken
        <4>3. [k EXCEPT !.overtaken = TRUE].overtaken
          BY <1>0 DEF Task
        <4> QED  BY <4>2, <4>3
      <3>2. PICK row \in j.old : TRUE
        BY <3>0
      <3>3. row \in k.old
        BY <2>1, <2>4, <3>1, <3>2 DEF RowsOf
      <3> QED  BY <2>1, <2>2, <3>2, <3>3
    <2>5. CASE k.old = RowsOf(r) /\ j.role # r
      <3>1. /\ \A row \in j.old : row.role = j.role
            /\ \A row \in NewRoleRows(p) : row.role = j.role
        BY <1>3, NewRowsAreRows DEF Shaped, HasShape, GrantRole, At
      <3> QED  BY <2>1, <2>5, <3>1 DEF RowsOf
    <2> QED  BY <1>1, <2>3, <2>4, <2>5
  <1>4. ASSUME RemoveRole(p), roles[task[p].role] = "live"
        PROVE  k.old = {row \in rolePermission' : row.role = r} \/ gone
    <2>1. rolePermission' = rolePermission \ RowsOf(task[p].role)
      BY <1>4 DEF RemoveRole
    <2>2. CASE \E row \in k.old : row \notin rolePermission
      BY <2>1, <2>2
    <2>3. CASE k.old = RowsOf(r) /\ task[p].role = r
      BY <2>1, <2>3
    <2>4. CASE k.old = RowsOf(r) /\ task[p].role # r
      BY <2>1, <2>4 DEF RowsOf
    <2> QED  BY <1>1, <2>2, <2>3, <2>4
  <1> QED  BY <1>2, <1>3, <1>4, RoleTableMoves

LEMMA UpdatesStayCurrent ==
    ASSUME TypeOK, Shaped, RowsAreUnique, UpdatesAreCurrent, [Next]_vars
    PROVE  UpdatesAreCurrent'
  <1> SUFFICES ASSUME NEW q \in Request
               PROVE  HoldsRows(task[q])'
    BY DEF UpdatesAreCurrent
  <1>0. HoldsRows(task[q])
    BY DEF UpdatesAreCurrent
  <1>1. CASE Call(q) \/ Advance(q)
    BY <1>1, WritersHaveRead
  <1>2. ASSUME NEW p \in Request \ {q}, Call(p) \/ Advance(p)
        PROVE  HoldsRows(task[q])'
    <2>1. CASE task'[q] = [task[q] EXCEPT !.overtaken = TRUE]
      <3>1. task'[q].overtaken
        BY <2>1 DEF TypeOK, Task
      <3> QED  BY <3>1 DEF HoldsRows
    <2>2. CASE task'[q] = task[q]
      BY <1>0, <1>2, <2>2, HeldRowsStay
    <2> QED  BY <1>2, <2>1, <2>2, OthersStay
  <1>3. CASE \A p \in Request : ~ (Call(p) \/ Advance(p))
    BY <1>0, <1>3, Otherwise DEF HoldsRows, RowsOf
  <1> QED  BY <1>1, <1>2, <1>3

(* Which step answers an update of a role with success.                    *)
LEMMA SuccessIsAWrite ==
    ASSUME TypeOK, Shaped, [Next]_vars, NEW q \in Request,
           NEW op \in {"grantRole", "grantUser"}, Succeeds(q, op)
    PROVE  /\ op = "grantRole" => GrantRole(q) /\ RoleCommits(task[q])
           /\ op = "grantUser" => GrantUser(q) /\ UserCommits(q)
  <1> DEFINE k == task[q]
  <1>0. /\ k.op = op /\ k.pc = "write" /\ task'[q].pc = "written"
        /\ task \in [Request -> Task] /\ k \in Task /\ HasShape(k)
    BY DEF Succeeds, At, TypeOK, Shaped
  <1>1. Call(q) \/ Advance(q)
    <2>1. ASSUME NEW p \in Request \ {q}, Call(p) \/ Advance(p)
          PROVE  FALSE
      <3>1. CASE task'[q] = k
        BY <1>0, <3>1
      <3>2. CASE task'[q] = [k EXCEPT !.overtaken = TRUE]
        BY <1>0, <3>2 DEF Task
      <3> QED  BY <2>1, <3>1, <3>2, OthersStay
    <2>2. task'[q] # k
      BY <1>0
    <2> QED  BY <2>1, <2>2, Otherwise
  <1>2. ~ Done(q)
    BY <1>0 DEF Done, Idle
  <1>3. ~ Call(q)
    BY <1>0, ZenonT(60) DEF Call, Begin, Idle
  <1>4. ~ (GetRole(q) \/ SetRole(q) \/ GetUser(q) \/ SetUser(q) \/ ReadGrants(q)
           \/ ReadOld(q) \/ AskUsers(q) \/ AskRole(q)
           \/ GetAbility(q) \/ ReadOverrides(q) \/ SetAbility(q))
    BY <1>0 DEF GetRole, SetRole, GetUser, SetUser, ReadGrants, ReadOld, AskUsers,
                AskRole, GetAbility, ReadOverrides, SetAbility
  <1>5. ~ (CreateRole(q) \/ RemoveRole(q) \/ AssignRole(q) \/ RollBack(q) \/ Written(q))
    BY <1>0, <1>2 DEF CreateRole, RemoveRole, AssignRole, RollBack, Written, At
  <1>6. GrantRole(q) \/ GrantUser(q)
    BY <1>1, <1>3, <1>4, <1>5 DEF Advance
  <1> QED  BY <1>0, <1>2, <1>6 DEF GrantRole, GrantUser, At

(* An update of a role that is answered with success left the role with    *)
(* the grants that were asked for: RoleGetsRequest.  Either the rows that  *)
(* it read are still the rows of the role, and all of them are deleted, or *)
(* one of them is gone, and it does not commit.                            *)
THEOREM RoleUpdatesAreWhole == Spec => RoleGetsRequest
  <1> DEFINE Whole(p) ==
               /\ Succeeds(p, "grantRole")
               /\ task[p].old # {} /\ ~ task[p].overtaken
               => Grants(RowsOf(task[p].role))' = Grants(task[p].body)
  <1>1. Init => UpdatesAreCurrent
    BY DEF Init, UpdatesAreCurrent, HoldsRows, Idle
  <1>2. TypeOK /\ Shaped /\ RowsAreUnique /\ UpdatesAreCurrent /\ [Next]_vars
        => UpdatesAreCurrent'
    BY UpdatesStayCurrent
  <1>3. TypeOK /\ Shaped /\ RowsAreUnique /\ UpdatesAreCurrent /\ [Next]_vars
        => \A p \in Request : Whole(p)
    <2> SUFFICES ASSUME TypeOK, Shaped, RowsAreUnique, UpdatesAreCurrent, [Next]_vars,
                        NEW p \in Request, Succeeds(p, "grantRole"),
                        task[p].old # {}, ~ task[p].overtaken
                 PROVE  Grants(RowsOf(task[p].role))' = Grants(task[p].body)
      OBVIOUS
    <2> DEFINE k == task[p]
    <2>1. /\ GrantRole(p) /\ RoleCommits(k) /\ k.op = "grantRole" /\ k.pc = "write"
          /\ k \in Task /\ HasShape(k) /\ HoldsRows(k)
      BY SuccessIsAWrite DEF GrantRole, At, TypeOK, Shaped, UpdatesAreCurrent
    <2>2. k.role \in Role
      BY <2>1 DEF HasShape
    <2>3. k.old = RowsOf(k.role)
      BY <2>1 DEF HoldsRows, RoleCommits
    <2>4. RowsOf(k.role) \ k.old = {}
      BY <2>3
    <2>5. \A r \in Role : r = k.role => RowsOf(r)' = NewRoleRows(p)
      BY <2>1, <2>4, GrantsAreReplaced
    <2>6. Grants(NewRoleRows(p)) = Grants(k.body)
      BY <2>1, NewRowsAreRows
    <2>7. task'[p].role = k.role
      BY <2>1 DEF GrantRole, TypeOK, Task
    <2>8. {row \in rolePermission' : row.role = k.role} = NewRoleRows(p)
      <3>1. PICK r \in Role : r = k.role
        BY <2>2
      <3> QED  BY <2>5, <3>1 DEF RowsOf
    <2> QED  BY <2>6, <2>7, <2>8 DEF Grants, RowsOf
  <1>4. (\A p \in Request : Whole(p)) => [\A p \in Request : Whole(p)]_vars
    OBVIOUS
  <1> QED  BY <1>1, <1>2, <1>3, TypeCorrect, PTL DEF Spec, RoleGetsRequest

-----------------------------------------------------------------------------
(* Requests that come one after another.  Each step of the only request    *)
(* that is under way keeps what the request relies on.                     *)
LEMMA CallsAreFresh ==
    ASSUME TypeOK, NEW p \in Request, FreshFor(task[p]), Call(p)
    PROVE  FreshFor(task[p])'
  <1> DEFINE k1 == task'[p]
  <1>1. task[p] = Idle /\ UNCHANGED <<tables, caches>>
    BY DEF Call, Begin
  <1>2. \/ k1.op = "createRole" /\ k1.pc = "write"
        \/ k1.op \in {"removeRole", "grantRole"} /\ k1.pc = "getRole"
        \/ k1.op = "grantUser" /\ k1.pc = "getUser"
        \/ k1.op = "assignRole" /\ k1.pc = "askRole"
        \/ k1.op = "ask" /\ k1.pc = "getAbility"
    <2>1. \A k : Begin(p, k) => k1 = k
      BY DEF Begin, TypeOK
    <2> HIDE DEF k1
    <2> QED  BY <2>1 DEF Call, Idle
  <1> HIDE DEF k1
  <1>3. FreshTask(task[p])'
    BY <1>2 DEF FreshTask, k1
  <1>4. RolesAreFresh(Idle) /\ UsersAreFresh(Idle)
    BY <1>1 DEF FreshFor
  <1>5. RolesAreFresh(task[p])' /\ UsersAreFresh(task[p])'
    BY <1>1, <1>4 DEF RolesAreFresh, UsersAreFresh, Idle, tables, caches
  <1> QED  BY <1>3, <1>5 DEF FreshFor

LEMMA AdvancesAreFresh ==
    ASSUME TypeOK, Shaped, NEW p \in Request, FreshFor(task[p]), Advance(p)
    PROVE  FreshFor(task[p])'
  <1> DEFINE Onward == FreshFor(task[p])'
             k      == task[p]
             k1     == task'[p]
             Roles  == \A r \in roleCache : roles[r] = "live"
             Users  == \A u \in User : userCache[u] \in {None, userRole[u]}
  <1> SUFFICES Onward
    OBVIOUS
  <1>0. k \in Task /\ HasShape(k) /\ task \in [Request -> Task]
    BY DEF TypeOK, Shaped
  <1>1. /\ FreshTask(k)
        /\ k.pc # "written" => Roles /\ Users
        /\ k.op # "removeRole" => Roles
        /\ k.op # "assignRole" => Users
    BY DEF FreshFor, RolesAreFresh, UsersAreFresh
  <1>2. FreshTask(task[p])' /\ Roles' /\ Users' => Onward
    BY DEF FreshFor, RolesAreFresh, UsersAreFresh
  <1>3. UNCHANGED <<tables, caches>> => Roles' = Roles /\ Users' = Users
    BY DEF tables, caches
  <1>4. Done(p) => FreshTask(task[p])'
    <2>1. Done(p) => k1 = Idle
      BY <1>0 DEF Done
    <2> QED  BY <2>1 DEF FreshTask, Idle
  <1>5. \A pc : Goto(p, pc) => /\ k1.op = k.op /\ k1.pc = pc /\ k1.role = k.role
                               /\ k1.user = k.user /\ k1.seen = k.seen /\ k1.old = k.old
    BY <1>0 DEF Goto, Task
  <1>6. \A pc \in {"askRole", "askUsers", "written", "getRole", "getUser"} :
           Goto(p, pc) => FreshTask(task[p])'
    <2> SUFFICES ASSUME NEW pc \in {"askRole", "askUsers", "written", "getRole", "getUser"},
                        Goto(p, pc)
                 PROVE  FreshTask(task[p])'
      OBVIOUS
    <2>1. k1.pc = pc
      BY <1>5
    <2> QED  BY <2>1 DEF FreshTask
  <1>7. \A pc : Goto(p, pc) /\ k.op \in {"grantRole", "createRole", "assignRole", "ask"}
                /\ pc # "setRole" => FreshTask(task[p])'
    BY <1>5 DEF FreshTask
  <1>8. RoleThen(p) /\ k.pc \in {"getRole", "setRole"} => FreshTask(task[p])'
    <2>1. k.pc \in {"getRole", "setRole"} => k.op \in {"removeRole", "grantRole"}
      BY <1>0, StepsOfHandlers
    <2> QED  BY <1>4, <1>6, <1>7, <2>1 DEF RoleThen
  <1> HIDE DEF Onward, Roles, Users
  <1>9. CASE GetRole(p)
    <2>1. Goto(p, "setRole") /\ roles[k.role] = "live" => FreshTask(task[p])'
      BY <1>5, <1>9 DEF FreshTask, GetRole, tables
    <2> QED  BY <1>1, <1>2, <1>3, <1>4, <1>8, <1>9, <2>1 DEF GetRole
  <1>10. CASE SetRole(p)
    <2>1. k.pc = "setRole" /\ roles[k.role] = "live" /\ UNCHANGED <<tables, userCache>>
      BY <1>1, <1>10 DEF SetRole, FreshTask
    <2>2. Roles' /\ Users'
      BY <1>1, <1>10, <2>1 DEF SetRole, Roles, Users, tables
    <2> QED  BY <1>2, <1>8, <1>10, <2>1, <2>2 DEF SetRole
  <1>11. CASE GetUser(p)
    <2>1. k.pc = "getUser" /\ k.op = "grantUser" /\ k.user \in User
      BY <1>0, <1>11, StepsOfHandlers DEF GetUser, HasShape
    <2>2. Users
      BY <1>1, <2>1
    <2>3. k1 = IF userCache[k.user] # None
               THEN [k EXCEPT !.role = userCache[k.user], !.pc = "readGrants"]
               ELSE [k EXCEPT !.role = userRole[k.user], !.pc = "setUser"]
      BY <1>0, <1>11 DEF GetUser
    <2>4. /\ k1.op = "grantUser" /\ k1.pc \in {"readGrants", "setUser"}
          /\ k1.user = k.user /\ k1.role = userRole[k.user]
      BY <1>0, <2>1, <2>2, <2>3 DEF Task, Users
    <2>5. FreshTask(task[p])'
      BY <1>11, <2>4 DEF FreshTask, GetUser, tables
    <2> QED  BY <1>1, <1>2, <1>3, <1>11, <2>1, <2>5 DEF GetUser
  <1>12. CASE SetUser(p)
    <2>1. k.pc = "setUser" /\ k.op = "grantUser" /\ k.user \in User
      BY <1>0, <1>12, StepsOfHandlers DEF SetUser, HasShape
    <2>2. k.role = userRole[k.user] /\ Roles /\ Users
      BY <1>1, <2>1 DEF FreshTask
    <2>3. /\ userCache' = [userCache EXCEPT ![k.user] = k.role]
          /\ UNCHANGED <<tables, roleCache>> /\ Goto(p, "readGrants")
      BY <1>12 DEF SetUser
    <2>4. Roles' /\ Users'
      BY <2>1, <2>2, <2>3 DEF Roles, Users, tables, TypeOK
    <2>5. FreshTask(task[p])'
      BY <1>5, <2>2, <2>3 DEF FreshTask, tables
    <2> QED  BY <1>2, <2>4, <2>5
  <1>13. CASE ReadGrants(p)
    <2>1. k.pc = "readGrants" /\ k.op \in {"grantUser", "ask"} /\ UNCHANGED <<tables, caches>>
      BY <1>0, <1>13, StepsOfHandlers DEF ReadGrants
    <2>2. CASE k.role = NoRole
      BY <1>1, <1>2, <1>3, <1>4, <1>13, <2>1, <2>2 DEF ReadGrants
    <2>3. CASE k.role # NoRole
      <3>1. k1 = [k EXCEPT !.seen = Grants(RowsOf(k.role)),
                           !.pc = IF k.op = "ask" THEN "readOverrides" ELSE "readOld"]
        BY <1>0, <1>13, <2>3 DEF ReadGrants
      <3>2. /\ k1.op = k.op /\ k1.user = k.user /\ k1.role = k.role
            /\ k1.seen = Grants(RowsOf(k.role))
            /\ k1.pc = IF k.op = "ask" THEN "readOverrides" ELSE "readOld"
        BY <1>0, <3>1 DEF Task
      <3>3. k.op = "grantUser" => k.role = userRole[k.user]
        BY <1>1, <2>1 DEF FreshTask
      <3> HIDE DEF k
      <3>4. FreshTask(task[p])'
        BY <2>1, <3>2, <3>3 DEF FreshTask, tables, Grants, RowsOf
      <3> QED  BY <1>1, <1>2, <1>3, <2>1, <3>4
    <2> QED  BY <2>2, <2>3
  <1>14. CASE ReadOld(p)
    <2>1. k.pc = "readOld" /\ k.op \in {"grantRole", "grantUser"} /\ UNCHANGED <<tables, caches>>
      BY <1>0, <1>14, StepsOfHandlers DEF ReadOld
    <2>2. k1 = [k EXCEPT !.pc = "write",
                         !.old = IF k.op = "grantRole" THEN RowsOf(k.role)
                                 ELSE OverridesOf(k.user)]
      BY <1>0, <1>14 DEF ReadOld
    <2>3. /\ k1.op = k.op /\ k1.user = k.user /\ k1.role = k.role /\ k1.seen = k.seen
          /\ k1.pc = "write" /\ (k.op = "grantUser" => k1.old = OverridesOf(k.user))
      BY <1>0, <2>1, <2>2 DEF Task
    <2>4. k.op = "grantUser" => /\ k.role = userRole[k.user]
                                /\ k.seen = Grants(RowsOf(k.role))
      BY <1>1, <2>1 DEF FreshTask
    <2>5. FreshTask(task[p])'
      <3> HIDE DEF k
      <3> QED  BY <2>1, <2>3, <2>4 DEF FreshTask, tables, Grants, RowsOf, OverridesOf
    <2> QED  BY <1>1, <1>2, <1>3, <2>1, <2>5
  <1>15. CASE AskUsers(p)
    <2>1. k.pc = "askUsers" /\ k.op = "removeRole" /\ UNCHANGED <<tables, caches>>
      BY <1>0, <1>15, StepsOfHandlers DEF AskUsers
    <2>2. Goto(p, "write") /\ (\A u \in User : userRole[u] # k.role) => FreshTask(task[p])'
      BY <1>5, <2>1 DEF FreshTask, tables
    <2> QED  BY <1>1, <1>2, <1>3, <1>4, <1>15, <2>1, <2>2 DEF AskUsers
  <1>16. CASE AskRole(p)
    <2>1. k.pc = "askRole" /\ k.op = "assignRole" /\ UNCHANGED <<tables, caches>>
      BY <1>0, <1>16, StepsOfHandlers DEF AskRole
    <2> QED  BY <1>1, <1>2, <1>3, <1>4, <1>7, <1>16, <2>1 DEF AskRole
  <1>17. CASE GetAbility(p)
    <2>1. k.pc = "getAbility" /\ k.op = "ask" /\ UNCHANGED <<tables, caches>>
      BY <1>0, <1>17, StepsOfHandlers DEF GetAbility
    <2> QED  BY <1>1, <1>2, <1>3, <1>4, <1>7, <1>17, <2>1 DEF GetAbility
  <1>18. CASE ReadOverrides(p)
    <2>1. k.pc = "readOverrides" /\ k.op = "ask" /\ UNCHANGED <<tables, caches>>
      BY <1>0, <1>18, StepsOfHandlers DEF ReadOverrides
    <2>2. k1.op = "ask" /\ k1.pc = "setAbility"
      BY <1>0, <1>18, <2>1 DEF ReadOverrides, Task
    <2>3. FreshTask(task[p])'
      BY <2>2 DEF FreshTask
    <2> QED  BY <1>1, <1>2, <1>3, <2>1, <2>3
  <1>19. CASE SetAbility(p)
    <2>1. Roles' = Roles /\ Users' = Users
      BY <1>19 DEF SetAbility, Roles, Users, tables
    <2> QED  BY <1>1, <1>2, <1>4, <1>19, <2>1 DEF SetAbility
  <1>20. CASE CreateRole(p)
    <2>1. k.pc = "write" /\ k.op = "createRole" /\ Roles /\ Users
      BY <1>1, <1>20 DEF CreateRole, At
    <2>2. Roles' /\ Users'
      BY <1>20, <2>1 DEF CreateRole, Roles, Users, caches, TypeOK
    <2> QED  BY <1>2, <1>4, <1>6, <1>20, <2>2 DEF CreateRole
  <1>21. CASE RemoveRole(p)
    <2>1. k.pc = "write" /\ k.op = "removeRole" /\ Roles /\ Users
      BY <1>1, <1>21 DEF RemoveRole, At
    <2>2. CASE roles[k.role] = "live"
      <3>1. \A u \in User : userRole[u] # k.role
        BY <1>1, <2>1 DEF FreshTask
      <3>2. Users'
        BY <1>21, <2>1, <2>2, <3>1 DEF RemoveRole, Users, caches
      <3>3. k1.op = "removeRole" /\ k1.pc = "written" /\ FreshTask(task[p])'
        BY <1>5, <1>6, <1>21, <2>1, <2>2 DEF RemoveRole
      <3> QED  BY <3>2, <3>3 DEF Onward, FreshFor, RolesAreFresh, UsersAreFresh, Users
    <2>3. CASE roles[k.role] # "live"
      BY <1>2, <1>4, <1>21, <2>1, <2>3 DEF RemoveRole, Roles, Users, caches
    <2> QED  BY <2>2, <2>3
  <1>22. CASE GrantRole(p)
    <2>1. k.pc = "write" /\ k.op = "grantRole" /\ Roles /\ Users
      BY <1>1, <1>22 DEF GrantRole, At
    <2>2. Roles' /\ Users'
      BY <1>22, <2>1 DEF GrantRole, Roles, Users, caches
    <2>3. RoleCommits(k) => k1.pc = "written"
      BY <1>0, <1>22 DEF GrantRole, Task
    <2>4. k1.pc = "written" => FreshTask(task[p])'
      BY DEF FreshTask
    <2> QED  BY <1>2, <1>4, <1>22, <2>2, <2>3, <2>4 DEF GrantRole
  <1>23. CASE GrantUser(p)
    <2>1. k.pc = "write" /\ k.op = "grantUser" /\ Roles /\ Users
      BY <1>1, <1>23 DEF GrantUser, At
    <2>2. Roles' /\ Users'
      BY <1>23, <2>1 DEF GrantUser, Roles, Users, caches
    <2> QED  BY <1>2, <1>4, <1>6, <1>23, <2>2 DEF GrantUser
  <1>24. CASE AssignRole(p)
    <2>1. k.pc = "write" /\ k.op = "assignRole" /\ Roles /\ Users
      BY <1>1, <1>24 DEF AssignRole, At
    <2>2. Roles'
      BY <1>24, <2>1 DEF AssignRole, Roles, caches
    <2>3. CASE roles[k.role] = "live"
      <3>1. k1.op = "assignRole" /\ k1.pc = "written" /\ FreshTask(task[p])'
        BY <1>5, <1>6, <1>24, <2>1, <2>3 DEF AssignRole
      <3> QED  BY <2>2, <3>1 DEF Onward, FreshFor, RolesAreFresh, UsersAreFresh, Roles
    <2>4. CASE roles[k.role] # "live"
      BY <1>2, <1>4, <1>24, <2>1, <2>2, <2>4 DEF AssignRole, Users, caches
    <2> QED  BY <2>3, <2>4
  <1>25. CASE RollBack(p)
    BY <1>1, <1>2, <1>3, <1>4, <1>25 DEF RollBack
  <1>26. CASE Written(p)
    <2>1. k.op \in {"createRole", "removeRole", "grantRole", "grantUser", "assignRole"}
      BY <1>0, <1>26, StepsOfHandlers DEF Written
    <2>2. Roles'
      BY <1>1, <1>26, <2>1 DEF Written, ClearedRoles, Roles, tables
    <2>3. Users'
      BY <1>1, <1>26, <2>1 DEF Written, ClearedUsers, Users, tables
    <2> QED  BY <1>2, <1>4, <1>26, <2>2, <2>3 DEF Written
  <1> QED  BY <1>9, <1>10, <1>11, <1>12, <1>13, <1>14, <1>15, <1>16, <1>17, <1>18, <1>19,
              <1>20, <1>21, <1>22, <1>23, <1>24, <1>25, <1>26 DEF Advance

LEMMA FreshStays ==
    ASSUME OneAtATime, TypeOK, Shaped, FreshInv, [Next]_vars
    PROVE  FreshInv'
  <1> SUFFICES ASSUME NEW p \in Request
               PROVE  FreshFor(task[p])'
    BY DEF FreshInv
  <1>1. FreshFor(task[p])
    BY DEF FreshInv
  <1>2. CASE Call(p)
    BY <1>1, <1>2, CallsAreFresh
  <1>3. CASE Advance(p)
    BY <1>1, <1>3, AdvancesAreFresh
  <1>4. CASE Evict
    <2>1. UNCHANGED <<tables, task>>
      BY <1>4 DEF Evict
    <2>2. FreshTask(task[p])'
      BY <1>1, <2>1 DEF FreshFor, FreshTask, Grants, RowsOf, OverridesOf, tables
    <2>3. roleCache' \subseteq roleCache
      BY <1>4 DEF Evict
    <2>4. \A u \in User : userCache'[u] \in {None, userCache[u]}
      BY <1>4 DEF Evict, TypeOK
    <2>5. RolesAreFresh(task[p])'
      BY <1>1, <2>1, <2>3 DEF FreshFor, RolesAreFresh, tables
    <2>6. UsersAreFresh(task[p])'
      BY <1>1, <2>1, <2>4 DEF FreshFor, UsersAreFresh, tables
    <2> QED  BY <2>2, <2>5, <2>6 DEF FreshFor
  <1>5. CASE UNCHANGED vars
    BY <1>1, <1>5 DEF FreshFor, FreshTask, RolesAreFresh, UsersAreFresh, Grants, RowsOf,
                      OverridesOf, vars, tables, caches
  <1> QED  BY <1>2, <1>3, <1>4, <1>5 DEF Next, OneAtATime

(* The cached roles and users agree with the tables whenever nothing is    *)
(* under way, if requests come one after another: CachesAreFresh.          *)
THEOREM SerialCachesAreFresh ==
    ASSUME OneAtATime
    PROVE  Spec => []CachesAreFresh
  <1>1. Init => FreshInv
    BY DEF Init, FreshInv, FreshFor, FreshTask, RolesAreFresh, UsersAreFresh, Idle
  <1>2. TypeOK /\ Shaped /\ FreshInv /\ [Next]_vars => FreshInv'
    BY FreshStays
  <1>3. FreshInv => CachesAreFresh
    BY DEF FreshInv, FreshFor, RolesAreFresh, UsersAreFresh, CachesAreFresh, Quiet, Idle,
           OneAtATime
  <1> QED  BY <1>1, <1>2, <1>3, TypeCorrect, PTL DEF Spec

(* An update of a user that is answered with success left the user with    *)
(* nothing that was not listed and all that was listed plainly, and left   *)
(* whoever was not named as he was, if requests come one after another:    *)
(* UserGetsRequest.  The role, its grants and the overrides that it read   *)
(* are still the user's when it commits.  An override that an item wrote   *)
(* as disabled, or for somebody else, takes away no grant that was listed  *)
(* plainly: the role has none of them, and their columns would collide.    *)
THEOREM SerialUserUpdatesAreWhole ==
    ASSUME OneAtATime
    PROVE  Spec => UserGetsRequest
  <1> DEFINE Whole(p) ==
               Succeeds(p, "grantUser") =>
                  LET u == task[p].user
                      listed == task[p].body
                  IN  /\ Ability(u)' \subseteq Grants(listed)
                      /\ Grants({i \in listed : i.plain}) \subseteq Ability(u)'
                      /\ \A v \in User \ {u} :
                            (\A i \in listed : i.user # v) => Ability(v)' = Ability(v)
  <1>1. Init => FreshInv
    BY DEF Init, FreshInv, FreshFor, FreshTask, RolesAreFresh, UsersAreFresh, Idle
  <1>2. TypeOK /\ Shaped /\ FreshInv /\ [Next]_vars => FreshInv'
    BY FreshStays
  <1>3. TypeOK /\ Shaped /\ FreshInv /\ [Next]_vars => \A p \in Request : Whole(p)
    <2> SUFFICES ASSUME TypeOK, Shaped, FreshInv, [Next]_vars,
                        NEW p \in Request, Succeeds(p, "grantUser")
                 PROVE  LET u == task[p].user
                            listed == task[p].body
                        IN  /\ Ability(u)' \subseteq Grants(listed)
                            /\ Grants({i \in listed : i.plain}) \subseteq Ability(u)'
                            /\ \A v \in User \ {u} :
                                  (\A i \in listed : i.user # v) => Ability(v)' = Ability(v)
      OBVIOUS
    <2> DEFINE k     == task[p]
               new   == NewUserRows(p)
               plain == {i \in k.body : i.plain}
               able(v) == Grants({row \in OverridesOf(v)' : row.isEnable})
                             \cup (Grants(RowsOf(userRole[v]))
                                     \ Grants({row \in OverridesOf(v)' : ~ row.isEnable}))
    <2>1. /\ GrantUser(p) /\ UserCommits(p) /\ k.op = "grantUser" /\ k.pc = "write"
          /\ k \in Task /\ HasShape(k) /\ FreshTask(k)
      BY SuccessIsAWrite DEF GrantUser, At, TypeOK, Shaped, FreshInv, FreshFor
    <2>2. k.user \in User /\ k.body \subseteq Item
      BY <2>1, AccessAssumption DEF HasShape
    <2>3. /\ k.old = OverridesOf(k.user)
          /\ k.seen = Grants(RowsOf(userRole[k.user]))
      BY <2>1 DEF FreshTask
    <2>4. \A v \in User : OverridesOf(v)' = (OverridesOf(v) \ k.old)
                                              \cup {row \in new : row.user = v}
      BY <2>1, OverridesAreReplaced
    <2>5. /\ task'[p].user = k.user
          /\ UNCHANGED <<rolePermission, userRole>>
      BY <2>1 DEF GrantUser, Goto, TypeOK, Task
    <2>6. \A v \in User : Ability(v)' = able(v)
      BY <2>5 DEF Ability, Able, OverridesOf, RowsOf, Grants
    <2>7. /\ \A row \in new : \/ \E i \in Enabled(k) : FromItem(k, i, row)
                             \/ \E g \in Disabled(k) : FromRole(k, g, row)
          /\ \A i \in Enabled(k) : \E row \in new : FromItem(k, i, row)
          /\ \A g \in Disabled(k) : \E row \in new : FromRole(k, g, row)
          /\ \A x, y \in new : x.user = y.user /\ x.grant = y.grant => x = y
      BY <2>1, NewOverridesAreRows
    <2>8. /\ Enabled(k) = {i \in k.body : i.grant \notin k.seen}
          /\ Disabled(k) = k.seen \ Grants(plain)
      BY DEF Enabled, Disabled
    <2>9. \A i \in plain : i.isEnable = TRUE /\ Target(k, i) = k.user
      BY <2>2 DEF Item, Target
    <2> PICK u \in User : u = k.user
      BY <2>2
    <2>10. OverridesOf(u)' = {row \in new : row.user = u}
      BY <2>3, <2>4
    <2> HIDE DEF k, new, plain, able
    <2>11. able(u) \subseteq Grants(k.body)
      <3> SUFFICES ASSUME NEW g \in able(u)
                   PROVE  g \in Grants(k.body)
        OBVIOUS
      <3>1. CASE \E row \in new : row.user = u /\ row.isEnable /\ row.grant = g
        BY <2>7, <2>8, <3>1 DEF FromItem, FromRole, Grants
      <3>2. CASE /\ g \in k.seen
                 /\ ~ \E row \in new : row.user = u /\ ~ row.isEnable /\ row.grant = g
        <4>1. g \notin Disabled(k)
          BY <2>7, <3>2 DEF FromRole
        <4> QED  BY <2>8, <3>2, <4>1 DEF Grants, plain
      <3> QED  BY <2>3, <2>10, <3>1, <3>2 DEF able, Grants
    <2>12. Grants(plain) \subseteq able(u)
      <3> SUFFICES ASSUME NEW i \in plain
                   PROVE  i.grant \in able(u)
        BY DEF Grants
      <3>1. CASE i.grant \notin k.seen
        <4>1. i \in Enabled(k)
          BY <2>8, <3>1 DEF plain
        <4>2. PICK row \in new : FromItem(k, i, row)
          BY <2>7, <4>1
        <4>3. row.user = k.user /\ row.grant = i.grant /\ row.isEnable
          BY <2>9, <4>2 DEF FromItem
        <4> QED  BY <2>10, <4>3 DEF able, Grants
      <3>2. CASE i.grant \in k.seen
        <4>1. ASSUME NEW row \in new, row.user = k.user, ~ row.isEnable, row.grant = i.grant
              PROVE  FALSE
          BY <2>7, <2>8, <3>2, <4>1 DEF FromItem, FromRole, Grants
        <4> QED  BY <2>3, <2>10, <3>2, <4>1 DEF able, Grants
      <3> QED  BY <3>1, <3>2
    <2>13. ASSUME NEW v \in User \ {k.user}, \A i \in k.body : i.user # v
           PROVE  Ability(v)' = Ability(v)
      <3>1. \A row \in new : row.user # v
        BY <2>7, <2>8, <2>13 DEF FromItem, FromRole, Target
      <3>2. \A row \in k.old : row.user = k.user
        BY <2>3 DEF OverridesOf
      <3>3. OverridesOf(v)' = OverridesOf(v)
        BY <2>4, <2>13, <3>1, <3>2 DEF OverridesOf
      <3>4. able(v) = Ability(v)
        BY <3>3 DEF able, Ability, Able
      <3> QED  BY <2>6, <3>4
    <2>14. Ability(task[p].user)' = Ability(u)'
      BY <2>5 DEF Ability, Able, OverridesOf, RowsOf
    <2> QED  BY <2>6, <2>11, <2>12, <2>13, <2>14 DEF k, plain
  <1> QED  BY <1>1, <1>2, <1>3, TypeCorrect, PTL DEF Spec, UserGetsRequest

=============================================================================
