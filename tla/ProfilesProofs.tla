--------------------------- MODULE ProfilesProofs ---------------------------
(***************************************************************************)
(* What Profiles guarantees for every set of users, files and requests and *)
(* any number of restarts.                                                 *)
(***************************************************************************)
EXTENDS Profiles, TLAPS

(* What a handler holds at each of its steps: the types alone do not say   *)
(* that an upload that writes has a file and the row it read.              *)
HasShape(k) ==
    /\ k.op = "idle"    => k = Idle
    /\ k.op = "upload"  => /\ k.pc \in {"upload", "getUser", "setUser", "write",
                                        "written"}
                           /\ k.user \in User
                           /\ k.pc # "upload" => k.file \in File
                           /\ k.pc \in {"setUser", "write", "written"} => k.row \in Row
    /\ k.op = "update"  => /\ k.pc \in {"write", "written"}
                           /\ k.user \in User
                           /\ k.name \in Name
    /\ k.op = "profile" => /\ k.pc \in {"getUser", "setUser", "getProfile",
                                        "setProfile"}
                           /\ k.user \in User
                           /\ k.pc # "getUser" => k.row \in Row
    /\ k.op = "list"    => /\ k.pc \in {"getList", "setList"}
                           /\ k.pc = "setList" => k.list \in [User -> Row]
    /\ (k.op # "upload" \/ k.pc = "upload") => k.file = None
    /\ k.pc \in {"upload", "getUser"} => k.row = None

Shaped == \A p \in Request : HasShape(task[p])

-----------------------------------------------------------------------------
(* A step of one request that leaves it with a well-formed task.           *)
LEMMA OneTaskMoves ==
    ASSUME TypeOK, Shaped, NEW p \in Request, NEW k \in Task, HasShape(k),
           task' = [task EXCEPT ![p] = k]
    PROVE  task' \in [Request -> Task] /\ Shaped'
  BY DEF TypeOK, Shaped

(* Which handler is at a step, and what it holds there.                    *)
LEMMA StepsOfHandlers ==
    ASSUME NEW k \in Task, HasShape(k)
    PROVE  /\ k.pc = "idle" <=> k = Idle
           /\ k.op = "idle" <=> k = Idle
           /\ k.pc = "upload" => k.op = "upload"
           /\ k.pc \in {"getUser", "setUser"} => k.op \in {"upload", "profile"}
           /\ k.pc \in {"write", "written"} => k.op \in {"upload", "update"}
           /\ k.pc \in {"getProfile", "setProfile"} => k.op = "profile"
           /\ k.pc \in {"getList", "setList"} => k.op = "list"
  BY DEF HasShape, Task, Idle

LEMMA IdleIsTask == Idle \in Task /\ HasShape(Idle)
  BY DEF Idle, Task, HasShape

(* The task a request starts with: it holds nothing but what it was sent.  *)
First(k) ==
    /\ k.pc \in {"upload", "write", "getUser", "getList"}
    /\ k.op = "upload" => k.pc = "upload"
    /\ k.row = None

LEMMA CallsStartTasks ==
    ASSUME NEW p \in Request, Call(p)
    PROVE  \E k \in Task : HasShape(k) /\ First(k) /\ Start(p, k)
  <1> USE DEF Idle, Task, HasShape, First
  <1>1. CASE CallUpload(p)
    BY <1>1 DEF CallUpload
  <1>2. CASE CallUpdate(p)
    BY <1>2 DEF CallUpdate
  <1>3. CASE CallProfile(p)
    BY <1>3 DEF CallProfile
  <1>4. CASE CallList(p)
    BY <1>4 DEF CallList
  <1> QED  BY <1>1, <1>2, <1>3, <1>4 DEF Call

(* Every variable of Profiles keeps its type, and every handler has what   *)
(* its next step needs.                                                    *)
THEOREM TypeCorrect == Spec => [](TypeOK /\ Shaped)
  <1>1. Init => TypeOK /\ Shaped
    <2> SUFFICES ASSUME Init
                 PROVE  TypeOK /\ Shaped
      OBVIOUS
    <2>1. rows \in [User -> Row]
      <3>1. \A u \in User : rows[u] \in Row
        BY DEF Init, Row
      <3> QED  BY <3>1 DEF Init
    <2>2. /\ file \in [File -> {"none", "stored", "destroyed"}]
          /\ userCache \in [User -> Row \cup {None}]
          /\ listCache \in [User -> Row] \cup {None}
          /\ profileCache \in [User -> Row \cup {None}]
          /\ removing \subseteq File
      BY DEF Init, Nobody
    <2>3. crashes \in 0..MaxCrashes
      BY ProfilesAssumption DEF Init
    <2>4. stale \in BOOLEAN /\ clean \in BOOLEAN
      BY DEF Init
    <2>5. task \in [Request -> Task] /\ Shaped
      BY IdleIsTask DEF Init, Shaped
    <2> QED  BY <2>1, <2>2, <2>3, <2>4, <2>5 DEF TypeOK
  <1>2. TypeOK /\ Shaped /\ [Next]_vars => (TypeOK /\ Shaped)'
    <2> SUFFICES ASSUME TypeOK, Shaped, [Next]_vars
                 PROVE  (TypeOK /\ Shaped)'
      OBVIOUS
    <2>0. \A p \in Request : task[p] \in Task /\ HasShape(task[p])
      BY DEF TypeOK, Shaped
    <2>1. ASSUME NEW p \in Request, Call(p)
          PROVE  (TypeOK /\ Shaped)'
      <3>1. PICK k \in Task : HasShape(k) /\ Start(p, k)
        BY <2>1, CallsStartTasks
      <3> QED  BY <3>1, OneTaskMoves DEF Start, TypeOK, caches
    <2>2. ASSUME NEW p \in Request, Upload(p)
          PROVE  (TypeOK /\ Shaped)'
      <3>1. CASE End(p) /\ UNCHANGED file
        BY <2>2, <3>1, IdleIsTask, OneTaskMoves
        DEF Upload, End, TypeOK, caches, history
      <3>2. ASSUME NEW f \in File, file' = [file EXCEPT ![f] = "stored"],
                   task' = [task EXCEPT ![p].pc = "getUser", ![p].file = f]
            PROVE  (TypeOK /\ Shaped)'
        <4> DEFINE k == [task[p] EXCEPT !.pc = "getUser", !.file = f]
        <4>1. k \in Task /\ HasShape(k)
          BY <2>0, <2>2, StepsOfHandlers, ZenonT(60) DEF Upload, Task, HasShape
        <4>2. task' = [task EXCEPT ![p] = k]
          BY <2>0, <3>2 DEF TypeOK
        <4> HIDE DEF k
        <4> QED  BY <2>2, <3>2, <4>1, <4>2, OneTaskMoves
                 DEF Upload, TypeOK, caches, history
      <3> QED  BY <2>2, <3>1, <3>2 DEF Upload
    <2>3. ASSUME NEW p \in Request, GetUser(p)
          PROVE  (TypeOK /\ Shaped)'
      <3> DEFINE hit == userCache[task[p].user]
                 k == IF hit # None
                      THEN [task[p] EXCEPT !.row = hit, !.pc = AfterUser(task[p])]
                      ELSE [task[p] EXCEPT !.row = rows[task[p].user],
                                           !.pc = "setUser"]
      <3>1. hit \in Row \cup {None} /\ rows[task[p].user] \in Row
        <4>1. task[p].user \in User
          BY <2>0, <2>3, StepsOfHandlers DEF GetUser, HasShape
        <4> QED  BY <4>1 DEF TypeOK
      <3> HIDE DEF hit
      <3>2. k \in Task /\ HasShape(k)
        <4>1. /\ task[p] \in Task /\ HasShape(task[p])
              /\ task[p].pc = "getUser"
              /\ task[p].op \in {"upload", "profile"}
          BY <2>0, <2>3, StepsOfHandlers DEF GetUser
        <4>2. CASE hit # None
          BY <3>1, <4>1, <4>2 DEF AfterUser, Task, HasShape
        <4>3. CASE hit = None
          BY <3>1, <4>1, <4>3 DEF Task, HasShape
        <4> QED  BY <4>2, <4>3
      <3>3. task' = [task EXCEPT ![p] = k]
        BY <2>3 DEF GetUser, TypeOK, hit
      <3> HIDE DEF k
      <3> QED  BY <2>3, <3>2, <3>3, OneTaskMoves
               DEF GetUser, TypeOK, caches, history
    <2>4. ASSUME NEW p \in Request, SetUser(p)
          PROVE  (TypeOK /\ Shaped)'
      <3> DEFINE k == [task[p] EXCEPT !.pc = AfterUser(task[p])]
      <3>1. /\ task[p] \in Task /\ HasShape(task[p])
            /\ task[p].pc = "setUser"
            /\ task[p].op \in {"upload", "profile"}
        BY <2>0, <2>4, StepsOfHandlers DEF SetUser
      <3>2. k \in Task /\ HasShape(k)
        BY <3>1 DEF Task, HasShape, AfterUser
      <3>3. task' = [task EXCEPT ![p] = k]
        BY <2>4 DEF SetUser, Goto, TypeOK
      <3> HIDE DEF k
      <3> QED  BY <2>4, <3>1, <3>2, <3>3, OneTaskMoves
               DEF SetUser, HasShape, TypeOK, caches, history
    <2>5. ASSUME NEW p \in Request, Write(p)
          PROVE  (TypeOK /\ Shaped)'
      <3> DEFINE k == [task[p] EXCEPT !.pc = "written"]
      <3>1. /\ task[p] \in Task /\ HasShape(task[p])
            /\ task[p].pc = "write"
            /\ task[p].op \in {"upload", "update"}
        BY <2>0, <2>5, StepsOfHandlers DEF Write
      <3>2. k \in Task /\ HasShape(k)
        BY <3>1 DEF Task, HasShape
      <3>3. task' = [task EXCEPT ![p] = k]
        BY <2>5 DEF Write, Goto, TypeOK
      <3> HIDE DEF k
      <3>4. rows' \in [User -> Row]
        BY <2>5, <3>1 DEF Write, HasShape, TypeOK, Row
      <3> QED  BY <2>5, <3>2, <3>3, <3>4, OneTaskMoves
               DEF Write, TypeOK, caches, history
    <2>6. ASSUME NEW p \in Request, WriteFails(p)
          PROVE  (TypeOK /\ Shaped)'
      <3>1. /\ task[p] \in Task /\ HasShape(task[p])
            /\ task[p].pc = "write"
            /\ task[p].op \in {"upload", "update"}
        BY <2>0, <2>6, StepsOfHandlers DEF WriteFails
      <3>2. Unused(task[p]) \subseteq File
        BY <3>1 DEF Unused, HasShape, Row
      <3>3. task' = [task EXCEPT ![p] = Idle]
        BY <2>6 DEF WriteFails, End
      <3> QED  BY <2>6, <3>2, <3>3, IdleIsTask, OneTaskMoves
               DEF WriteFails, TypeOK, caches, history
    <2>7. ASSUME NEW p \in Request, Written(p)
          PROVE  (TypeOK /\ Shaped)'
      <3>1. /\ task[p] \in Task /\ HasShape(task[p])
            /\ task[p].pc = "written"
            /\ task[p].op \in {"upload", "update"}
        BY <2>0, <2>7, StepsOfHandlers DEF Written
      <3>2. Leftover(task[p]) \subseteq File
        BY <3>1 DEF Leftover, HasShape, Row
      <3>3. task' = [task EXCEPT ![p] = Idle]
        BY <2>7 DEF Written, End
      <3> QED  BY <2>7, <3>2, <3>3, IdleIsTask, OneTaskMoves
               DEF Written, ColdUsers, Nobody, TypeOK, caches, history
    <2>8. ASSUME NEW p \in Request, GetProfile(p)
          PROVE  (TypeOK /\ Shaped)'
      <3> DEFINE k == IF profileCache[task[p].user] # None THEN Idle
                      ELSE [task[p] EXCEPT !.pc = "setProfile"]
      <3>1. /\ task[p] \in Task /\ HasShape(task[p])
            /\ task[p].pc = "getProfile"
            /\ task[p].op \in {"profile"}
        BY <2>0, <2>8, StepsOfHandlers DEF GetProfile
      <3>2. k \in Task /\ HasShape(k)
        BY <3>1, IdleIsTask DEF Task, HasShape
      <3>3. task' = [task EXCEPT ![p] = k]
        BY <2>8 DEF GetProfile, Goto, End, TypeOK
      <3> HIDE DEF k
      <3> QED  BY <2>8, <3>1, <3>2, <3>3, OneTaskMoves
               DEF GetProfile, HasShape, TypeOK, caches, history
    <2>9. ASSUME NEW p \in Request, SetProfile(p)
          PROVE  (TypeOK /\ Shaped)'
      <3>1. task[p].user \in User /\ task[p].row \in Row
        BY <2>0, <2>9, StepsOfHandlers DEF SetProfile, HasShape
      <3> QED  BY <2>9, <3>1, IdleIsTask, OneTaskMoves
               DEF SetProfile, End, TypeOK, caches, history
    <2>10. ASSUME NEW p \in Request, GetList(p)
          PROVE  (TypeOK /\ Shaped)'
      <3> DEFINE k == IF listCache # None THEN Idle
                      ELSE [task[p] EXCEPT !.list = rows, !.pc = "setList"]
      <3>1. /\ task[p] \in Task /\ HasShape(task[p])
            /\ task[p].pc = "getList"
            /\ task[p].op \in {"list"}
        BY <2>0, <2>10, StepsOfHandlers DEF GetList
      <3>2. k \in Task /\ HasShape(k)
        <4>1. [task[p] EXCEPT !.list = rows, !.pc = "setList"] \in Task
          BY <3>1 DEF Task, TypeOK
        <4>2. HasShape([task[p] EXCEPT !.list = rows, !.pc = "setList"])
          BY <3>1 DEF Task, HasShape, TypeOK
        <4> QED  BY <4>1, <4>2, IdleIsTask
      <3>3. task' = [task EXCEPT ![p] = k]
        BY <2>10 DEF GetList, End, TypeOK
      <3> HIDE DEF k
      <3> QED  BY <2>10, <3>1, <3>2, <3>3, OneTaskMoves
               DEF GetList, HasShape, TypeOK, caches, history
    <2>11. ASSUME NEW p \in Request, SetList(p)
          PROVE  (TypeOK /\ Shaped)'
      <3>1. task[p].list \in [User -> Row]
        BY <2>0, <2>11, StepsOfHandlers DEF SetList, HasShape
      <3> QED  BY <2>11, <3>1, IdleIsTask, OneTaskMoves
               DEF SetList, End, TypeOK, caches, history
    <2>12. ASSUME NEW f \in File, Destroyed(f)
           PROVE  (TypeOK /\ Shaped)'
      BY <2>12 DEF Destroyed, TypeOK, Shaped, caches, history
    <2>13. ASSUME Restart, file' = file, removing' \subseteq File
           PROVE  (TypeOK /\ Shaped)'
      <3>1. task' \in [Request -> Task] /\ Shaped'
        BY <2>13, IdleIsTask DEF Restart, Shaped
      <3>2. crashes' \in 0..MaxCrashes
        BY <2>13, ProfilesAssumption DEF Restart, TypeOK
      <3> QED  BY <2>13, <3>1, <3>2 DEF Restart, Nobody, TypeOK
    <2>14. CASE Crash
      BY <2>13, <2>14 DEF Crash, TypeOK
    <2>15. ASSUME NEW f \in File, DestroyFails(f)
           PROVE  (TypeOK /\ Shaped)'
      BY <2>13, <2>15 DEF DestroyFails, TypeOK
    <2>16. CASE Evict
      BY <2>16 DEF Evict, TypeOK, Shaped, history
    <2>17. CASE UNCHANGED vars
      BY <2>17 DEF vars, caches, history, TypeOK, Shaped
    <2> QED  BY <2>1, <2>2, <2>3, <2>4, <2>5, <2>6, <2>7, <2>8, <2>9, <2>10,
                <2>11, <2>12, <2>14, <2>15, <2>16, <2>17 DEF Next, Advance
  <1> QED  BY <1>1, <1>2, PTL DEF Spec

-----------------------------------------------------------------------------
(* The files of AvatarExists.  An upload destroys the file of the row it   *)
(* read, which may be older than the row it writes over, and its own file  *)
(* when it fails: neither may be the avatar of anybody by then.            *)

(* The upload has stored a file that no row names yet.                     *)
Pending(p) ==
    task[p].op = "upload" /\ task[p].pc \in {"getUser", "setUser", "write"}

(* The avatar of a row of u, as it is or was: a file that was given out,   *)
(* and that no other user and no upload under way can have.                *)
OnlyOf(u, row) ==
    row.avatar # Default =>
        /\ file[row.avatar] # "none"
        /\ \A v \in User \ {u} : rows[v].avatar # row.avatar
        /\ \A q \in Request : Pending(q) => task[q].file # row.avatar

FilesInv ==
    /\ AvatarExists
    /\ \A u \in User : OnlyOf(u, rows[u])
    /\ \A u \in User : userCache[u] # None => OnlyOf(u, userCache[u])
    /\ \A p \in Request : task[p].row # None => OnlyOf(task[p].user, task[p].row)
    /\ \A p \in Request : Pending(p) => /\ file[task[p].file] = "stored"
                                        /\ task[p].file \notin removing
    /\ \A p, q \in Request :
          Pending(p) /\ Pending(q) /\ p # q => task[p].file # task[q].file
    /\ \A p \in Request :
          /\ task[p].op = "upload" /\ task[p].pc = "written"
          /\ task[p].row.avatar # Default
          => rows[task[p].user].avatar # task[p].row.avatar
    /\ \A f \in removing : file[f] # "none"

(* No two requests are under way.                                          *)
OneAtMost == \A p, q \in Request : task[p] # Idle /\ task[q] # Idle => p = q

(* What makes CachesAreFresh inductive: what a fill is about to store.     *)
Fresh ==
    /\ OneAtMost
    /\ CachesAreFresh
    /\ \A p \in Request :
          /\ task[p].pc = "setUser" => task[p].row = rows[task[p].user]
          /\ task[p].pc = "setList" => task[p].list = rows

FreshInv == ~ stale => Fresh

(* What makes NoLeftovers inductive: the avatar that an upload has read is *)
(* the one that it replaces.                                               *)
Accounted ==
    \A f \in File :
        file[f] = "stored" =>
            \/ f \in removing
            \/ \E u \in User : rows[u].avatar = f
            \/ \E p \in Request :
                  \/ task[p].file = f
                  \/ /\ task[p].op = "upload" /\ task[p].pc = "written"
                     /\ task[p].row.avatar = f

Clean ==
    /\ OneAtMost
    /\ Accounted
    /\ (\A p \in Request : task[p].pc # "written") =>
          \A u \in User : userCache[u] # None => userCache[u].avatar = rows[u].avatar
    /\ \A p \in Request :
          task[p].op \in {"upload", "profile"} =>
             IF task[p].pc = "written"
             THEN rows[task[p].user].avatar = task[p].file
             ELSE task[p].row # None =>
                     task[p].row.avatar = rows[task[p].user].avatar

CleanInv == clean /\ crashes = 0 => Clean

(* A step that changes nothing but a task, does not finish an upload's     *)
(* write and leaves the task with a row as good as those before.           *)
LEMMA ReadsKeepFiles ==
    ASSUME TypeOK, FilesInv, NEW p \in Request, NEW k \in Task,
           task' = [task EXCEPT ![p] = k],
           UNCHANGED <<rows, file, userCache, removing>>,
           k.op = "upload" /\ k.pc \in {"getUser", "setUser", "write"} =>
              Pending(p) /\ k.file = task[p].file,
           k.op = "upload" => k.pc # "written",
           k.row # None => OnlyOf(k.user, k.row)
    PROVE  FilesInv'
  <1>1. task'[p] = k /\ \A q \in Request \ {p} : task'[q] = task[q]
    BY DEF TypeOK
  <1>2. \A q \in Request : Pending(q)' => Pending(q) /\ task'[q].file = task[q].file
    BY <1>1 DEF Pending
  <1>3. \A u \in User \cup {None}, row \in Row : OnlyOf(u, row) => OnlyOf(u, row)'
    BY <1>2 DEF OnlyOf
  <1>4. AvatarExists'
    BY DEF FilesInv, AvatarExists
  <1>5. (\A u \in User : OnlyOf(u, rows[u]))'
    BY <1>3 DEF FilesInv, TypeOK
  <1>6. (\A u \in User : userCache[u] # None => OnlyOf(u, userCache[u]))'
    BY <1>3 DEF FilesInv, TypeOK
  <1>7. (\A q \in Request : task[q].row # None => OnlyOf(task[q].user, task[q].row))'
    BY <1>1, <1>3 DEF FilesInv, TypeOK, Task
  <1> QED  BY <1>1, <1>2, <1>4, <1>5, <1>6, <1>7 DEF FilesInv, Pending

(* However uploads, failures and restarts cross, the avatar of a user is   *)
(* a file that exists and that nobody is about to destroy.                 *)
THEOREM AvatarsExist == Spec => []AvatarExists
  <1>1. Init => FilesInv
    BY DEF Init, FilesInv, AvatarExists, OnlyOf, Pending, Idle, Nobody
  <1>2. TypeOK /\ Shaped /\ FilesInv /\ [Next]_vars => FilesInv'
    <2> SUFFICES ASSUME TypeOK, Shaped, FilesInv, [Next]_vars
                 PROVE  FilesInv'
      OBVIOUS
    <2>0. \A p \in Request : task[p] \in Task /\ HasShape(task[p])
      BY DEF TypeOK, Shaped
    <2>1. ASSUME NEW p \in Request, Call(p)
          PROVE  FilesInv'
      <3>1. PICK k \in Task : Start(p, k) /\ First(k)
        BY <2>1, CallsStartTasks
      <3> QED  BY <3>1, ReadsKeepFiles DEF Start, First, caches
    <2>2. ASSUME NEW p \in Request, Upload(p)
          PROVE  FilesInv'
      <3>1. CASE End(p) /\ UNCHANGED file
        BY <2>2, <3>1, IdleIsTask, ReadsKeepFiles DEF Upload, End, Idle, caches
      <3>2. ASSUME NEW f \in File, file[f] = "none",
                   file' = [file EXCEPT ![f] = "stored"],
                   task' = [task EXCEPT ![p].pc = "getUser", ![p].file = f]
            PROVE  FilesInv'
        <4>1. /\ task[p].op = "upload" /\ task[p].row = None
              /\ task'[p].pc = "getUser" /\ task'[p].file = f
              /\ task'[p].op = "upload" /\ task'[p].row = None
              /\ \A q \in Request \ {p} : task'[q] = task[q]
          <5>1. task[p] \in Task /\ task[p].op = "upload" /\ task[p].row = None
            BY <2>0, <2>2, StepsOfHandlers DEF Upload, HasShape
          <5> QED  BY <3>2, <5>1 DEF TypeOK, Task
        <4>2. \A q \in Request \ {p} : Pending(q)' <=> Pending(q)
          BY <4>1 DEF Pending
        <4>3. \A g \in File : file[g] # "none" => file'[g] = file[g] /\ g # f
          BY <3>2 DEF TypeOK
        <4>4. \A q \in Request \ {p} :
                 Pending(q)' => /\ Pending(q) /\ task'[q].file = task[q].file
                                /\ task[q].file \in File \ {f}
                                /\ file'[task[q].file] = "stored"
                                /\ task[q].file \notin removing
          <5>1. \A q \in Request : Pending(q) => task[q].file \in File
            BY <2>0 DEF Pending, HasShape
          <5> QED  BY <4>1, <4>2, <4>3, <5>1 DEF FilesInv
        <4>13. f \notin removing /\ file'[f] = "stored"
          BY <3>2 DEF FilesInv, TypeOK
        <4>5. \A u \in User \cup {None}, row \in Row : OnlyOf(u, row) => OnlyOf(u, row)'
          BY <2>2, <4>1, <4>2, <4>3 DEF Upload, OnlyOf, Row
        <4>6. AvatarExists'
          BY <2>2, <4>3 DEF Upload, FilesInv, AvatarExists, TypeOK, Row
        <4>7. (\A u \in User : OnlyOf(u, rows[u]))'
          BY <2>2, <4>5 DEF Upload, FilesInv, TypeOK
        <4>8. (\A u \in User : userCache[u] # None => OnlyOf(u, userCache[u]))'
          BY <2>2, <4>5 DEF Upload, FilesInv, TypeOK, caches
        <4>9. (\A q \in Request : task[q].row # None => OnlyOf(task[q].user, task[q].row))'
          BY <4>1, <4>5 DEF FilesInv, TypeOK, Task
        <4>10. (\A q \in Request : Pending(q) => /\ file[task[q].file] = "stored"
                                                /\ task[q].file \notin removing)'
          BY <2>2, <4>1, <4>4, <4>13 DEF Upload
        <4>11. (\A q, r \in Request :
                  Pending(q) /\ Pending(r) /\ q # r => task[q].file # task[r].file)'
          BY <4>1, <4>4 DEF FilesInv
        <4>12. (\A g \in removing : file[g] # "none")'
          BY <2>2, <4>3 DEF Upload, FilesInv, TypeOK
        <4> QED  BY <2>2, <4>1, <4>6, <4>7, <4>8, <4>9, <4>10, <4>11, <4>12
                 DEF Upload, FilesInv
      <3> QED  BY <2>2, <3>1, <3>2 DEF Upload
    <2>3. ASSUME NEW p \in Request, GetUser(p)
          PROVE  FilesInv'
      <3>1. /\ task[p].op \in {"upload", "profile"} /\ task[p].pc = "getUser"
            /\ task[p].user \in User /\ task[p] \in Task
        BY <2>0, <2>3, StepsOfHandlers DEF GetUser, HasShape
      <3>2. PICK row \in Row, pc \in {AfterUser(task[p]), "setUser"} :
               /\ task' = [task EXCEPT ![p] = [task[p] EXCEPT !.row = row, !.pc = pc]]
               /\ OnlyOf(task[p].user, row)
        <4>1. CASE userCache[task[p].user] # None
          <5>1. userCache[task[p].user] \in Row
            BY <3>1, <4>1 DEF TypeOK
          <5> QED  BY <2>3, <3>1, <4>1, <5>1 DEF GetUser, FilesInv
        <4>2. CASE userCache[task[p].user] = None
          <5>1. rows[task[p].user] \in Row
            BY <3>1 DEF TypeOK
          <5> QED  BY <2>3, <3>1, <4>2, <5>1 DEF GetUser, FilesInv
        <4> QED  BY <4>1, <4>2
      <3> DEFINE k == [task[p] EXCEPT !.row = row, !.pc = pc]
      <3>3. /\ k \in Task /\ k.row = row /\ k.user = task[p].user
            /\ k.file = task[p].file /\ k.op = task[p].op
            /\ k.op = "upload" => Pending(p) /\ k.pc # "written"
        BY <3>1 DEF AfterUser, Task, Pending
      <3> HIDE DEF k
      <3> QED  BY <2>3, <3>2, <3>3, ReadsKeepFiles DEF GetUser, caches, k
    <2>4. ASSUME NEW p \in Request, SetUser(p)
          PROVE  FilesInv'
      BY <2>0, <2>4, StepsOfHandlers, ProfilesAssumption
      DEF SetUser, Goto, AfterUser, FilesInv, AvatarExists, OnlyOf, Pending,
          HasShape, Row, TypeOK, caches, history
    <2>5. ASSUME NEW p \in Request, Write(p)
          PROVE  FilesInv'
      BY <2>0, <2>5, StepsOfHandlers, ProfilesAssumption
      DEF Write, Goto, FilesInv, AvatarExists, OnlyOf, Pending,
          HasShape, Row, TypeOK, caches, history
    <2>6. ASSUME NEW p \in Request, WriteFails(p)
          PROVE  FilesInv'
      BY <2>0, <2>6, StepsOfHandlers, ProfilesAssumption
      DEF WriteFails, End, Idle, Unused, FilesInv, AvatarExists, OnlyOf, Pending,
          HasShape, Row, TypeOK, caches, history
    <2>7. ASSUME NEW p \in Request, Written(p)
          PROVE  FilesInv'
      BY <2>0, <2>7, StepsOfHandlers, ProfilesAssumption
      DEF Written, End, Idle, Leftover, ColdUsers, Nobody, FilesInv, AvatarExists, OnlyOf, Pending,
          HasShape, Row, TypeOK, caches, history
    <2>8. ASSUME NEW p \in Request, GetProfile(p)
          PROVE  FilesInv'
      <3> DEFINE k == [task[p] EXCEPT !.pc = "setProfile"]
      <3>1. /\ task[p].op = "profile" /\ task[p] \in Task
            /\ task[p].row # None => OnlyOf(task[p].user, task[p].row)
        BY <2>0, <2>8, StepsOfHandlers DEF GetProfile, FilesInv
      <3>2. /\ k \in Task /\ k.op = "profile"
            /\ k.user = task[p].user /\ k.row = task[p].row
        BY <3>1 DEF Task, TypeOK
      <3>3. task' = [task EXCEPT ![p] = k] \/ task' = [task EXCEPT ![p] = Idle]
        BY <2>8, <3>1 DEF GetProfile, Goto, End, TypeOK
      <3> HIDE DEF k
      <3>4. CASE task' = [task EXCEPT ![p] = k]
        BY <2>8, <3>1, <3>2, <3>4, ReadsKeepFiles DEF GetProfile, caches
      <3>5. CASE task' = [task EXCEPT ![p] = Idle]
        BY <2>8, <3>5, IdleIsTask, ReadsKeepFiles DEF GetProfile, Idle, caches
      <3> QED  BY <3>3, <3>4, <3>5
    <2>9. ASSUME NEW p \in Request, SetProfile(p)
          PROVE  FilesInv'
      BY <2>0, <2>9, StepsOfHandlers, ProfilesAssumption
      DEF SetProfile, End, Idle, FilesInv, AvatarExists, OnlyOf, Pending,
          HasShape, Row, TypeOK, caches, history
    <2>10. ASSUME NEW p \in Request, GetList(p)
          PROVE  FilesInv'
      <3> DEFINE k == [task[p] EXCEPT !.list = rows, !.pc = "setList"]
      <3>1. /\ task[p].op = "list" /\ task[p] \in Task
            /\ task[p].row # None => OnlyOf(task[p].user, task[p].row)
        BY <2>0, <2>10, StepsOfHandlers DEF GetList, FilesInv
      <3>2. /\ k \in Task /\ k.op = "list"
            /\ k.user = task[p].user /\ k.row = task[p].row
        BY <3>1 DEF Task, TypeOK
      <3>3. task' = [task EXCEPT ![p] = k] \/ task' = [task EXCEPT ![p] = Idle]
        BY <2>10, <3>1 DEF GetList, Goto, End, TypeOK
      <3> HIDE DEF k
      <3>4. CASE task' = [task EXCEPT ![p] = k]
        BY <2>10, <3>1, <3>2, <3>4, ReadsKeepFiles DEF GetList, caches
      <3>5. CASE task' = [task EXCEPT ![p] = Idle]
        BY <2>10, <3>5, IdleIsTask, ReadsKeepFiles DEF GetList, Idle, caches
      <3> QED  BY <3>3, <3>4, <3>5
    <2>11. ASSUME NEW p \in Request, SetList(p)
          PROVE  FilesInv'
      BY <2>0, <2>11, StepsOfHandlers, ProfilesAssumption
      DEF SetList, End, Idle, FilesInv, AvatarExists, OnlyOf, Pending,
          HasShape, Row, TypeOK, caches, history
    <2>12. ASSUME NEW f \in File, Destroyed(f)
           PROVE  FilesInv'
      BY <2>12 DEF Destroyed, FilesInv, AvatarExists, OnlyOf, Pending, Row,
                   TypeOK, caches
    <2>13. ASSUME Restart, file' = file, removing' \subseteq removing
           PROVE  FilesInv'
      BY <2>13 DEF Restart, Nobody, Idle, FilesInv, AvatarExists, OnlyOf, Pending
    <2>14. CASE Crash
      BY <2>13, <2>14 DEF Crash
    <2>15. ASSUME NEW f \in File, DestroyFails(f)
           PROVE  FilesInv'
      BY <2>13, <2>15 DEF DestroyFails
    <2>16. CASE Evict
      BY <2>16 DEF Evict, FilesInv, AvatarExists, OnlyOf, Pending, TypeOK
    <2>17. CASE UNCHANGED vars
      BY <2>17 DEF vars, caches, FilesInv, AvatarExists, OnlyOf, Pending
    <2> QED  BY <2>1, <2>2, <2>3, <2>4, <2>5, <2>6, <2>7, <2>8, <2>9, <2>10,
                <2>11, <2>12, <2>14, <2>15, <2>16, <2>17 DEF Next, Advance
  <1> QED  BY <1>1, <1>2, TypeCorrect, PTL DEF Spec, FilesInv

-----------------------------------------------------------------------------
(* Between updates the cache holds what the table holds.                   *)
THEOREM CachesStayFresh == Spec => []CachesAreFresh
  <1>1. Init => FreshInv
    BY DEF Init, FreshInv, Fresh, OneAtMost, CachesAreFresh, Idle, Nobody
  <1>2. TypeOK /\ Shaped /\ FreshInv /\ [Next]_vars => FreshInv'
    <2> SUFFICES ASSUME TypeOK, Shaped, FreshInv, [Next]_vars, ~ stale'
                 PROVE  Fresh'
      BY DEF FreshInv
    <2>0. \A p \in Request : task[p] \in Task /\ HasShape(task[p])
      BY DEF TypeOK, Shaped
    <2> USE DEF Fresh, FreshInv, OneAtMost, CachesAreFresh
    <2>1. ASSUME NEW p \in Request, Call(p)
          PROVE  Fresh'
      <3>1. PICK k \in Task : Start(p, k) /\ First(k)
        BY <2>1, CallsStartTasks
      <3> QED  BY <2>0, <3>1, StepsOfHandlers DEF Start, First, Others, TypeOK, caches
    <2>2. ASSUME NEW p \in Request, Upload(p)
          PROVE  Fresh'
      <3>1. task[p] # Idle /\ task'[p].pc \in {"idle", "getUser"}
            /\ \A q \in Request \ {p} : task'[q] = task[q]
        <4>1. task[p] # Idle
          BY <2>2 DEF Upload, Idle
        <4>2. CASE End(p)
          BY <4>1, <4>2 DEF End, Idle, TypeOK
        <4>3. ASSUME NEW f \in File,
                     task' = [task EXCEPT ![p].pc = "getUser", ![p].file = f]
              PROVE  task'[p].pc = "getUser"
                     /\ \A q \in Request \ {p} : task'[q] = task[q]
          BY <2>0, <4>3 DEF TypeOK, Task
        <4> QED  BY <2>2, <4>1, <4>2, <4>3 DEF Upload
      <3> QED  BY <2>0, <2>2, <3>1, StepsOfHandlers DEF Upload, caches, history
    <2>3. ASSUME NEW p \in Request, GetUser(p)
          PROVE  Fresh'
      BY <2>0, <2>3, StepsOfHandlers, ProfilesAssumption
      DEF GetUser, AfterUser, TypeOK, HasShape, Idle, caches, history
    <2>4. ASSUME NEW p \in Request, SetUser(p)
          PROVE  Fresh'
      BY <2>0, <2>4, StepsOfHandlers, ProfilesAssumption
      DEF SetUser, Goto, AfterUser, TypeOK, HasShape, Idle, caches, history
    <2>5. ASSUME NEW p \in Request, Write(p)
          PROVE  Fresh'
      BY <2>0, <2>5, StepsOfHandlers, ProfilesAssumption
      DEF Write, Goto, TypeOK, HasShape, Idle, caches, history
    <2>6. ASSUME NEW p \in Request, WriteFails(p)
          PROVE  Fresh'
      BY <2>0, <2>6, StepsOfHandlers, ProfilesAssumption
      DEF WriteFails, End, TypeOK, HasShape, Idle, caches, history
    <2>7. ASSUME NEW p \in Request, Written(p)
          PROVE  Fresh'
      BY <2>0, <2>7, StepsOfHandlers, ProfilesAssumption
      DEF Written, End, ColdUsers, Nobody, Others, TypeOK, HasShape, Idle, caches, history
    <2>8. ASSUME NEW p \in Request, GetProfile(p)
          PROVE  Fresh'
      <3>1. CASE task' = [task EXCEPT ![p] = Idle]
        BY <2>0, <2>8, <3>1, StepsOfHandlers DEF GetProfile, TypeOK, Idle, caches, history
      <3>2. CASE task' = [task EXCEPT ![p].pc = "setProfile"]
        BY <2>0, <2>8, <3>2, StepsOfHandlers DEF GetProfile, TypeOK, Task, caches, history
      <3> QED  BY <2>8, <3>1, <3>2 DEF GetProfile, Goto, End
    <2>9. ASSUME NEW p \in Request, SetProfile(p)
          PROVE  Fresh'
      BY <2>0, <2>9, StepsOfHandlers, ProfilesAssumption
      DEF SetProfile, End, TypeOK, HasShape, Idle, caches, history
    <2>10. ASSUME NEW p \in Request, GetList(p)
          PROVE  Fresh'
      <3>1. CASE task' = [task EXCEPT ![p] = Idle]
        BY <2>0, <2>10, <3>1, StepsOfHandlers DEF GetList, TypeOK, Idle, caches, history
      <3>2. CASE task' = [task EXCEPT ![p].list = rows, ![p].pc = "setList"]
        BY <2>0, <2>10, <3>2, StepsOfHandlers DEF GetList, TypeOK, Task, caches, history
      <3> QED  BY <2>10, <3>1, <3>2 DEF GetList, End
    <2>11. ASSUME NEW p \in Request, SetList(p)
          PROVE  Fresh'
      BY <2>0, <2>11, StepsOfHandlers, ProfilesAssumption
      DEF SetList, End, TypeOK, HasShape, Idle, caches, history
    <2>12. ASSUME NEW f \in File, Destroyed(f)
           PROVE  Fresh'
      BY <2>12 DEF Destroyed, caches, history
    <2>13. CASE Restart
      BY <2>13 DEF Restart, Nobody, Idle
    <2>14. CASE Evict
      BY <2>14 DEF Evict, TypeOK, history
    <2>15. CASE UNCHANGED vars
      BY <2>15 DEF vars, caches, history
    <2> QED  BY <2>1, <2>2, <2>3, <2>4, <2>5, <2>6, <2>7, <2>8, <2>9, <2>10,
                <2>11, <2>12, <2>13, <2>14, <2>15
             DEF Next, Advance, Crash, DestroyFails
  <1>3. FreshInv => CachesAreFresh
    BY DEF FreshInv, Fresh, CachesAreFresh
  <1> QED  BY <1>1, <1>2, <1>3, TypeCorrect, PTL DEF Spec

-----------------------------------------------------------------------------
(* A run without overlaps and restarts had none before its last step.      *)
LEMMA CleanBefore ==
    ASSUME TypeOK, [Next]_vars, clean', crashes' = 0
    PROVE  clean /\ crashes = 0
  <1>1. ASSUME NEW p \in Request, NEW k, Start(p, k)
        PROVE  clean /\ crashes = 0
    BY <1>1 DEF Start
  <1>2. CASE \E p \in Request : Call(p)
    BY <1>1, <1>2 DEF Call, CallUpload, CallUpdate, CallProfile, CallList
  <1>3. CASE \E p \in Request : Advance(p)
    BY <1>3 DEF Advance, Upload, GetUser, SetUser, Write, WriteFails, Written,
                GetProfile, SetProfile, GetList, SetList, history
  <1>4. CASE Restart
    BY <1>4 DEF Restart, TypeOK
  <1>5. CASE Evict \/ (\E f \in File : Destroyed(f)) \/ UNCHANGED vars
    BY <1>5 DEF Evict, Destroyed, vars, history
  <1> QED  BY <1>2, <1>3, <1>4, <1>5 DEF Next, Crash, DestroyFails

(* A step of the one request under way that neither touches rows or files  *)
(* nor finishes a write.                                                   *)
LEMMA ReadsKeepClean ==
    ASSUME TypeOK, Clean, NEW p \in Request, NEW k \in Task,
           task[p] # Idle, task[p].pc # "written",
           task' = [task EXCEPT ![p] = k],
           UNCHANGED <<rows, file, removing>>,
           k.pc # "written",
           k.file = task[p].file \/ task[p].file = None,
           k.op \in {"upload", "profile"} /\ k.row # None =>
              k.row.avatar = rows[k.user].avatar,
           \A u \in User : userCache'[u] # None =>
              userCache'[u] = userCache[u] \/ userCache'[u].avatar = rows[u].avatar
    PROVE  Clean'
  <1>1. task'[p] = k /\ \A q \in Request \ {p} : task'[q] = task[q]
    BY DEF TypeOK
  <1>2. \A q \in Request \ {p} : task[q] = Idle
    BY DEF Clean, OneAtMost
  <1>3. \A q \in Request : task[q].pc # "written" /\ task'[q].pc # "written"
    BY <1>1, <1>2 DEF Idle
  <1>4. OneAtMost'
    BY <1>1, <1>2 DEF OneAtMost
  <1>5. Accounted'
    BY <1>1, <1>3, ProfilesAssumption DEF Clean, Accounted
  <1>6. \A u \in User : userCache'[u] # None => userCache'[u].avatar = rows'[u].avatar
    BY <1>3 DEF Clean
  <1>7. \A q \in Request :
           task'[q].op \in {"upload", "profile"} /\ task'[q].row # None =>
              task'[q].row.avatar = rows'[task'[q].user].avatar
    BY <1>1, <1>2 DEF Idle
  <1> QED  BY <1>3, <1>4, <1>5, <1>6, <1>7 DEF Clean

(* With requests one at a time and no restart no file is left behind.      *)
THEOREM NothingIsLeft == Spec => []NoLeftovers
  <1>1. Init => CleanInv
    BY DEF Init, CleanInv, Clean, OneAtMost, Accounted, Idle, Nobody
  <1>2. TypeOK /\ Shaped /\ CleanInv /\ [Next]_vars => CleanInv'
    <2> SUFFICES ASSUME TypeOK, Shaped, CleanInv, [Next]_vars,
                        clean', crashes' = 0
                 PROVE  Clean'
      BY DEF CleanInv
    <2>0. \A p \in Request : task[p] \in Task /\ HasShape(task[p])
      BY DEF TypeOK, Shaped
    <2>c. Clean
      BY CleanBefore DEF CleanInv
    <2>1. ASSUME NEW p \in Request, Call(p)
          PROVE  Clean'
      <3> USE <2>c DEF Clean, OneAtMost, Accounted
      <3>1. PICK k \in Task : Start(p, k) /\ HasShape(k) /\ First(k)
        BY <2>1, CallsStartTasks
      <3>2. /\ task'[p] = k /\ k.file = None
            /\ \A q \in Request : task[q] = Idle
            /\ \A q \in Request \ {p} : task'[q] = Idle
        BY <2>0, <3>1, ZenonT(60) DEF Start, First, HasShape, Others, TypeOK
      <3>3. Accounted'
        BY <3>1, <3>2 DEF Start, Idle, caches
      <3> QED  BY <3>1, <3>2, <3>3 DEF Start, First, Idle, caches
    <2>2. ASSUME NEW p \in Request, Upload(p)
          PROVE  Clean'
      <3> USE <2>c DEF Clean, OneAtMost, Accounted
      <3>1. /\ task[p].op = "upload" /\ task[p].file = None /\ task[p].row = None
            /\ task[p] # Idle /\ \A q \in Request \ {p} : task[q] = Idle
        BY <2>0, <2>2, StepsOfHandlers DEF Upload, HasShape, Idle, caches, history
      <3>2. CASE End(p) /\ UNCHANGED file
        <4>1. \A q \in Request : task'[q] = Idle
          BY <3>1, <3>2 DEF End, TypeOK
        <4>2. Accounted'
          BY <2>2, <3>1, <3>2, <4>1
          DEF Upload, Idle, caches, history
        <4> QED  BY <2>2, <3>1, <4>1, <4>2 DEF Upload, Idle, caches, history
      <3>3. ASSUME NEW f \in File, file' = [file EXCEPT ![f] = "stored"],
                   task' = [task EXCEPT ![p].pc = "getUser", ![p].file = f]
            PROVE  Clean'
        <4>1. /\ task'[p].op = "upload" /\ task'[p].pc = "getUser"
              /\ task'[p].file = f /\ task'[p].row = None
              /\ \A q \in Request \ {p} : task'[q] = Idle
          BY <2>0, <3>1, <3>3 DEF TypeOK, Task
        <4>2. Accounted'
          <5>1. \A g \in File \ {f} : file'[g] = "stored" => file[g] = "stored"
            BY <3>3 DEF TypeOK
          <5>2. \A q \in Request : task[q].pc # "written" /\ task[q].file = None
            BY <2>2, <3>1 DEF Upload, Idle
          <5> QED  BY <2>2, <4>1, <5>1, <5>2, ProfilesAssumption
                   DEF Upload, caches, history
        <4> QED  BY <2>2, <3>1, <4>1, <4>2 DEF Upload, Idle, caches, history
      <3> QED  BY <2>2, <3>2, <3>3 DEF Upload
    <2>3. ASSUME NEW p \in Request, GetUser(p)
          PROVE  Clean'
      <3>1. /\ task[p].op \in {"upload", "profile"} /\ task[p].user \in User
            /\ task[p].pc = "getUser" /\ task[p] \in Task
            /\ task[p] # Idle /\ \A q \in Request \ {p} : task[q] = Idle
        BY <2>0, <2>c, <2>3, StepsOfHandlers DEF GetUser, HasShape, Idle, Clean, OneAtMost
      <3>2. PICK row \in Row, pc \in {AfterUser(task[p]), "setUser"} :
               /\ task' = [task EXCEPT ![p] = [task[p] EXCEPT !.row = row, !.pc = pc]]
               /\ row.avatar = rows[task[p].user].avatar
        <4>1. \A q \in Request : task[q].pc # "written"
          BY <3>1 DEF Idle
        <4>2. CASE userCache[task[p].user] # None
          <5>1. userCache[task[p].user] \in Row
            BY <3>1, <4>2 DEF TypeOK
          <5>2. userCache[task[p].user].avatar = rows[task[p].user].avatar
            BY <2>c, <3>1, <4>1, <4>2 DEF Clean
          <5> QED  BY <2>3, <3>1, <4>2, <5>1, <5>2 DEF GetUser
        <4>3. CASE userCache[task[p].user] = None
          <5>1. rows[task[p].user] \in Row
            BY <3>1 DEF TypeOK
          <5> QED  BY <2>3, <3>1, <4>3, <5>1 DEF GetUser
        <4> QED  BY <4>2, <4>3
      <3> DEFINE k == [task[p] EXCEPT !.row = row, !.pc = pc]
      <3>3. /\ k \in Task /\ k.row = row /\ k.user = task[p].user
            /\ k.file = task[p].file
        BY <3>1 DEF AfterUser, Task
      <3>4. k.pc # "written"
        BY <3>1 DEF AfterUser, Task
      <3>5. task' = [task EXCEPT ![p] = k]
        BY <3>2
      <3>6. UNCHANGED <<rows, file, userCache, removing>>
        BY <2>3 DEF GetUser, caches
      <3> HIDE DEF k
      <3> QED  BY <2>c, <3>1, <3>2, <3>3, <3>4, <3>5, <3>6, ReadsKeepClean, ZenonT(60)
    <2>4. ASSUME NEW p \in Request, SetUser(p)
          PROVE  Clean'
      <3> DEFINE k == [task[p] EXCEPT !.pc = AfterUser(task[p])]
      <3>1. /\ task[p].op \in {"upload", "profile"} /\ task[p].user \in User
            /\ task[p].pc = "setUser" /\ task[p] \in Task
            /\ task[p] # Idle /\ task[p].row \in Row
        BY <2>0, <2>4, StepsOfHandlers DEF SetUser, HasShape, Idle
      <3>2. task[p].row.avatar = rows[task[p].user].avatar
        BY <2>c, <3>1, ProfilesAssumption DEF Clean
      <3>3. /\ k \in Task /\ k.row = task[p].row /\ k.user = task[p].user
            /\ k.file = task[p].file /\ k.pc # "written"
        BY <3>1 DEF AfterUser, Task
      <3>4. task' = [task EXCEPT ![p] = k]
        BY <2>4 DEF SetUser, Goto, TypeOK
      <3>5. \A u \in User : userCache'[u] = userCache[u]
                           \/ userCache'[u].avatar = rows[u].avatar
        BY <2>4, <3>1, <3>2 DEF SetUser, TypeOK
      <3> HIDE DEF k
      <3> QED  BY <2>4, <3>1, <3>2, <3>3, <3>4, <3>5, ReadsKeepClean, <2>c DEF SetUser
    <2>5. ASSUME NEW p \in Request, Write(p)
          PROVE  Clean'
      <3> USE <2>c DEF Clean, OneAtMost, Accounted
      <3> DEFINE k == [task[p] EXCEPT !.pc = "written"]
      <3>1. /\ task[p].op \in {"upload", "update"} /\ task[p].user \in User
            /\ task[p].pc = "write" /\ task[p] \in Task
            /\ task[p] # Idle /\ \A q \in Request \ {p} : task[q] = Idle
            /\ task[p].op = "upload" => /\ task[p].file \in File
                                        /\ task[p].row \in Row
        BY <2>0, <2>5, StepsOfHandlers DEF Write, HasShape, Idle
      <3>2. /\ k.op = task[p].op /\ k.pc = "written" /\ k.file = task[p].file
            /\ k.user = task[p].user /\ k.row = task[p].row
        BY <3>1 DEF Task
      <3>3. task' = [task EXCEPT ![p] = k]
        BY <2>5 DEF Write, Goto, TypeOK
      <3> HIDE DEF k
      <3>4. task'[p] = k /\ \A q \in Request \ {p} : task'[q] = Idle
        BY <3>1, <3>3 DEF TypeOK
      <3>5. /\ \A u \in User \ {task[p].user} : rows'[u] = rows[u]
            /\ task[p].op = "upload" => rows'[task[p].user].avatar = task[p].file
            /\ task[p].op # "upload" =>
                  rows'[task[p].user].avatar = rows[task[p].user].avatar
        BY <2>5, <3>1 DEF Write, TypeOK, Row
      <3>6. task[p].op = "upload" =>
               task[p].row.avatar = rows[task[p].user].avatar
        BY <3>1, ProfilesAssumption
      <3>7. OneAtMost'
        BY <3>1, <3>4
      <3>8. Accounted'
        <4>1. \A q \in Request \ {p} : task[q].pc # "written" /\ task[q].file = None
          BY <3>1 DEF Idle
        <4>2. ASSUME NEW f \in File, file'[f] = "stored"
              PROVE  \/ f \in removing'
                     \/ \E u \in User : rows'[u].avatar = f
                     \/ \E q \in Request :
                           \/ task'[q].file = f
                           \/ /\ task'[q].op = "upload" /\ task'[q].pc = "written"
                              /\ task'[q].row.avatar = f
          <5>1. CASE f \in removing
            BY <2>5, <5>1 DEF Write
          <5>2. ASSUME NEW u \in User, rows[u].avatar = f
                PROVE  \/ rows'[u].avatar = f
                       \/ /\ task'[p].op = "upload" /\ task'[p].pc = "written"
                          /\ task'[p].row.avatar = f
            BY <3>1, <3>2, <3>4, <3>5, <3>6, <5>2
          <5>3. CASE task[p].file = f
            BY <3>2, <3>4, <5>3
          <5>4. file[f] = "stored"
            BY <2>5, <4>2 DEF Write
          <5>5. f \in removing \/ (\E u \in User : rows[u].avatar = f) \/ task[p].file = f
            <6>1. \A q \in Request : task[q].file = f => q = p
              BY <4>1, ProfilesAssumption
            <6>2. \A q \in Request : task[q].pc # "written"
              BY <3>1, <4>1
            <6> QED  BY <5>4, <6>1, <6>2
          <5> QED  BY <5>1, <5>2, <5>3, <5>5
        <4> QED  BY <4>2
      <3>9. task'[p].pc = "written"
        BY <3>2, <3>4
      <3>10. \A q \in Request :
               task'[q].op \in {"upload", "profile"} =>
                 task'[q].pc = "written" /\ rows'[task'[q].user].avatar = task'[q].file
        BY <3>1, <3>2, <3>4, <3>5 DEF Idle
      <3> QED  BY <3>7, <3>8, <3>9, <3>10
    <2>6. ASSUME NEW p \in Request, WriteFails(p)
          PROVE  Clean'
      BY <2>c, <2>0, <2>6, StepsOfHandlers, SMTT(60)
      DEF Clean, OneAtMost, Accounted, WriteFails, End, Unused, TypeOK, HasShape, Idle, Row, caches, history
    <2>7. ASSUME NEW p \in Request, Written(p)
          PROVE  Clean'
      <3> USE <2>c DEF Clean, OneAtMost, Accounted
      <3>1. /\ task[p].op \in {"upload", "update"} /\ task[p].user \in User
            /\ task[p].pc = "written" /\ task[p] \in Task
            /\ task[p] # Idle /\ \A q \in Request \ {p} : task[q] = Idle
            /\ task[p].op = "upload" =>
                  rows[task[p].user].avatar = task[p].file
            /\ task[p].op = "update" => task[p].file = None
        BY <2>0, <2>7, StepsOfHandlers DEF Written, HasShape, Idle
      <3>2. \A q \in Request : task'[q] = Idle
        BY <2>7, <3>1 DEF Written, End, TypeOK
      <3>3. UNCHANGED <<rows, file>> /\ userCache' = Nobody
            /\ removing' = removing \cup Leftover(task[p])
        BY <2>7 DEF Written, ColdUsers
      <3>4. Accounted'
        <4>1. \A q \in Request \ {p} : task[q].pc # "written" /\ task[q].file = None
          BY <3>1 DEF Idle
        <4>2. ASSUME NEW f \in File, file'[f] = "stored"
              PROVE  f \in removing' \/ \E u \in User : rows'[u].avatar = f
          <5>1. CASE task[p].op = "upload" /\ task[p].row.avatar = f
            BY <3>3, <5>1, ProfilesAssumption DEF Leftover
          <5>2. CASE task[p].op = "upload" /\ task[p].file = f
            BY <3>1, <3>3, <5>2
          <5> QED  BY <3>1, <3>3, <4>1, <4>2, <5>1, <5>2, ProfilesAssumption
        <4> QED  BY <4>2
      <3> QED  BY <3>2, <3>3, <3>4 DEF Idle, Nobody
    <2>8. ASSUME NEW p \in Request, GetProfile(p)
          PROVE  Clean'
      <3> DEFINE k == [task[p] EXCEPT !.pc = "setProfile"]
      <3>1. /\ task[p].op = "profile" /\ task[p].pc = "getProfile"
            /\ task[p] \in Task /\ task[p] # Idle /\ task[p].file = None
            /\ task[p].row # None =>
                  task[p].row.avatar = rows[task[p].user].avatar
        BY <2>0, <2>c, <2>8, StepsOfHandlers DEF GetProfile, HasShape, Idle, Clean
      <3>2. /\ k \in Task /\ k.row = task[p].row /\ k.user = task[p].user
            /\ k.pc # "written"
        BY <3>1 DEF Task
      <3>3. task' = [task EXCEPT ![p] = k] \/ task' = [task EXCEPT ![p] = Idle]
        BY <2>8 DEF GetProfile, Goto, End, TypeOK
      <3> HIDE DEF k
      <3>4. CASE task' = [task EXCEPT ![p] = k]
        <4>1. UNCHANGED <<rows, file, userCache, removing>>
          BY <2>8 DEF GetProfile, caches
        <4> QED  BY <2>c, <3>1, <3>2, <3>4, <4>1, ReadsKeepClean
      <3>5. CASE task' = [task EXCEPT ![p] = Idle]
        BY <2>8, <3>1, <3>5, IdleIsTask, ReadsKeepClean, <2>c DEF GetProfile, Idle, caches
      <3> QED  BY <3>3, <3>4, <3>5
    <2>9. ASSUME NEW p \in Request, SetProfile(p)
          PROVE  Clean'
      <3>1. task[p].op = "profile" /\ task[p] # Idle /\ task[p].file = None
            /\ task[p].pc = "setProfile"
        BY <2>0, <2>9, StepsOfHandlers DEF SetProfile, HasShape, Idle
      <3> QED  BY <2>9, <3>1, IdleIsTask, ReadsKeepClean, <2>c DEF SetProfile, End, Idle
    <2>10. ASSUME NEW p \in Request, GetList(p)
          PROVE  Clean'
      <3> DEFINE k == [task[p] EXCEPT !.list = rows, !.pc = "setList"]
      <3>1. /\ task[p].op = "list" /\ task[p].pc = "getList"
            /\ task[p] \in Task /\ task[p] # Idle /\ task[p].file = None
        BY <2>0, <2>10, StepsOfHandlers DEF GetList, HasShape, Idle
      <3>2. k \in Task /\ k.op = "list" /\ k.pc # "written"
        BY <3>1 DEF Task, TypeOK
      <3>3. task' = [task EXCEPT ![p] = k] \/ task' = [task EXCEPT ![p] = Idle]
        BY <2>10 DEF GetList, Goto, End, TypeOK
      <3> HIDE DEF k
      <3>4. CASE task' = [task EXCEPT ![p] = k]
        BY <2>10, <3>1, <3>2, <3>4, ReadsKeepClean, <2>c DEF GetList, caches
      <3>5. CASE task' = [task EXCEPT ![p] = Idle]
        BY <2>10, <3>1, <3>5, IdleIsTask, ReadsKeepClean, <2>c DEF GetList, Idle, caches
      <3> QED  BY <3>3, <3>4, <3>5
    <2>11. ASSUME NEW p \in Request, SetList(p)
          PROVE  Clean'
      <3>1. task[p].op = "list" /\ task[p] # Idle /\ task[p].file = None
            /\ task[p].pc = "setList"
        BY <2>0, <2>11, StepsOfHandlers DEF SetList, HasShape, Idle
      <3> QED  BY <2>11, <3>1, IdleIsTask, ReadsKeepClean, <2>c DEF SetList, End, Idle
    <2>12. ASSUME NEW f \in File, Destroyed(f)
           PROVE  Clean'
      BY <2>c, <2>12 DEF Clean, OneAtMost, Accounted, Destroyed, TypeOK, caches, history
    <2>13. CASE Restart
      BY <2>c, <2>13 DEF Clean, OneAtMost, Accounted, Restart, TypeOK
    <2>14. CASE Evict
      BY <2>c, <2>14 DEF Clean, OneAtMost, Accounted, Evict, TypeOK, history
    <2>15. CASE UNCHANGED vars
      BY <2>c, <2>15 DEF Clean, OneAtMost, Accounted, vars, caches, history
    <2> QED  BY <2>1, <2>2, <2>3, <2>4, <2>5, <2>6, <2>7, <2>8, <2>9, <2>10,
                <2>11, <2>12, <2>13, <2>14, <2>15
             DEF Next, Advance, Crash, DestroyFails
  <1>3. CleanInv => NoLeftovers
    BY DEF CleanInv, Clean, Accounted, NoLeftovers
  <1> QED  BY <1>1, <1>2, <1>3, TypeCorrect, PTL DEF Spec

=============================================================================
