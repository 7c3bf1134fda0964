------------------------------ MODULE Profiles ------------------------------
(***************************************************************************)
(* The rows of users as their profiles and lists show them, and the avatar *)
(* files they name.  Files live with Cloudinary: an upload stores one, and *)
(* an event in memory makes a listener destroy one.  The rows are read     *)
(* through three kinds of cache entries: a user by id, a list of users,    *)
(* and a profile with its permissions.  Handlers are interleaved at every  *)
(* await.                                                                  *)
(***************************************************************************)
EXTENDS Naturals

CONSTANTS
    User,       \* user ids
    File,       \* the urls that Cloudinary gives out, each once
    Default,    \* AvatarDefault, which many users share
    Name,       \* what updateProfile and updateUser write
    Request,    \* request processes: bounds how many overlap
    MaxCrashes, \* bounds the restarts of the server
    None        \* no cache entry

Row == [avatar : File \cup {Default}, name : Name]

ASSUME ProfilesAssumption ==
    /\ Default \notin File
    /\ MaxCrashes \in Nat
    /\ None \notin User \cup File \cup {Default} \cup Name \cup Row
    /\ None \notin [User -> Row]

VARIABLES
    rows,         \* the User table
    file,         \* the files: not given out, stored or destroyed
    userCache,    \* the entries under user_<id>
    listCache,    \* the entry under user_<filter>, for a list of all users
    profileCache, \* the entries under permissionAbilityCasl_<id>
    removing,     \* files the listener has asked to destroy
    task,         \* what each process is doing
    crashes,      \* how often the server restarted
    stale,        \* history: a fill of the cache may be older than a write
    clean         \* history: no two requests ever overlapped

caches == <<userCache, listCache, profileCache>>
history == <<stale, clean>>
vars == <<rows, file, caches, removing, task, crashes, history>>

Idle == [op |-> "idle", pc |-> "idle", user |-> None, name |-> None,
         file |-> None, row |-> None, list |-> None]

Task == [op   : {"idle", "upload", "update", "profile", "list"},
         pc   : {"idle", "upload", "getUser", "setUser", "write", "written",
                 "getProfile", "setProfile", "getList", "setList"},
         user : User \cup {None},
         name : Name \cup {None},             \* the body of an update
         file : File \cup {None},             \* the file an upload has stored
         row  : Row \cup {None},              \* the user that foundById found
         list : [User -> Row] \cup {None}]    \* the rows a list has read

TypeOK ==
    /\ rows \in [User -> Row]
    /\ file \in [File -> {"none", "stored", "destroyed"}]
    /\ userCache \in [User -> Row \cup {None}]
    /\ listCache \in [User -> Row] \cup {None}
    /\ profileCache \in [User -> Row \cup {None}]
    /\ removing \subseteq File
    /\ task \in [Request -> Task]
    /\ crashes \in 0..MaxCrashes
    /\ stale \in BOOLEAN
    /\ clean \in BOOLEAN

Nobody == [u \in User |-> None]

(* createUser and the seed give every user the default avatar.             *)
Init ==
    /\ rows \in [User -> [avatar : {Default}, name : Name]]
    /\ file = [f \in File |-> "none"]
    /\ userCache = Nobody
    /\ listCache = None
    /\ profileCache = Nobody
    /\ removing = {}
    /\ task = [p \in Request |-> Idle]
    /\ crashes = 0
    /\ stale = FALSE
    /\ clean = TRUE

Others(p) == {q \in Request \ {p} : task[q] # Idle}

-----------------------------------------------------------------------------
(* What handlers do to the cache and the files                             *)

(* A mutant: removeCache looks for the entry of the row only.              *)
ColdUsersOnly ==
    /\ userCache' = Nobody
    /\ UNCHANGED <<listCache, profileCache>>

(* removeCache deletes the keys that start with "user"; those of profiles  *)
(* start with "permission".                                                *)
ColdUsers ==
    /\ userCache' = Nobody
    /\ listCache' = None
    /\ UNCHANGED profileCache

(* A mutant: the default avatar is a file like others.                     *)
LeftoverOrDefault(k) == IF k.op = "upload" THEN {k.row.avatar} ELSE {}

(* The file that is to be removed after an update.                         *)
Leftover(k) == IF k.op = "upload" THEN {k.row.avatar} \ {Default} ELSE {}

(* A mutant: nothing is removed after an update that failed.               *)
UnusedKept(k) == {}

(* A mutant: the file before this one is removed after a failed update.    *)
UnusedOld(k) == IF k.op = "upload" THEN {k.row.avatar} \ {Default} ELSE {}

(* The file that is to be removed when the update throws.                  *)
Unused(k) == IF k.op = "upload" THEN {k.file} ELSE {}

-----------------------------------------------------------------------------
(* Calls                                                                   *)

Start(p, k) ==
    /\ task[p] = Idle
    /\ task' = [task EXCEPT ![p] = k]
    /\ stale' = (stale \/ Others(p) # {})
    /\ clean' = (clean /\ Others(p) = {})
    /\ UNCHANGED <<rows, file, caches, removing, crashes>>

CallUpload(p) ==
    \E u \in User :
        Start(p, [Idle EXCEPT !.op = "upload", !.pc = "upload", !.user = u])

(* updateProfile of the user, or updateUser of an administrator.           *)
CallUpdate(p) ==
    \E u \in User, n \in Name :
        Start(p, [Idle EXCEPT !.op = "update", !.pc = "write", !.user = u,
                              !.name = n])

(* getProfile of the user, or getUserById of an administrator.             *)
CallProfile(p) ==
    \E u \in User :
        Start(p, [Idle EXCEPT !.op = "profile", !.pc = "getUser", !.user = u])

CallList(p) == Start(p, [Idle EXCEPT !.op = "list", !.pc = "getList"])

-----------------------------------------------------------------------------
(* Handlers                                                                *)

Goto(p, pc) == task' = [task EXCEPT ![p].pc = pc]
End(p) == task' = [task EXCEPT ![p] = Idle]

(* Multer has the file in memory; Cloudinary stores it, or the promise is  *)
(* rejected and the request with it.                                       *)
Upload(p) ==
    /\ task[p].pc = "upload"
    /\ \/ \E f \in File :
             /\ file[f] = "none"
             /\ file' = [file EXCEPT ![f] = "stored"]
             /\ task' = [task EXCEPT ![p].pc = "getUser", ![p].file = f]
       \/ /\ End(p)
          /\ UNCHANGED file
    /\ UNCHANGED <<rows, caches, removing, crashes, history>>

AfterUser(k) == IF k.op = "upload" THEN "write" ELSE "getProfile"

(* foundById: an entry is taken as it is; without one the table is asked.  *)
GetUser(p) ==
    LET k == task[p]
        hit == userCache[k.user]
    IN  /\ k.pc = "getUser"
        /\ task' = IF hit # None
                   THEN [task EXCEPT ![p].row = hit, ![p].pc = AfterUser(k)]
                   ELSE [task EXCEPT ![p].row = rows[k.user], ![p].pc = "setUser"]
        /\ UNCHANGED <<rows, file, caches, removing, crashes, history>>

SetUser(p) ==
    LET k == task[p]
    IN  /\ k.pc = "setUser"
        /\ userCache' = [userCache EXCEPT ![k.user] = k.row]
        /\ Goto(p, AfterUser(k))
        /\ UNCHANGED <<rows, file, listCache, profileCache, removing, crashes,
                       history>>

Write(p) ==
    LET k == task[p]
    IN  /\ k.pc = "write"
        /\ rows' = [rows EXCEPT ![k.user] =
                      IF k.op = "upload" THEN [@ EXCEPT !.avatar = k.file]
                                         ELSE [@ EXCEPT !.name = k.name]]
        /\ Goto(p, "written")
        /\ UNCHANGED <<file, caches, removing, crashes, history>>

(* The database refuses the update, which throws.                          *)
WriteFails(p) ==
    LET k == task[p]
    IN  /\ k.pc = "write"
        /\ removing' = removing \cup Unused(k)
        /\ End(p)
        /\ UNCHANGED <<rows, file, caches, crashes, history>>

Written(p) ==
    LET k == task[p]
    IN  /\ k.pc = "written"
        /\ ColdUsers
        /\ removing' = removing \cup Leftover(k)
        /\ stale' = (Others(p) # {})
        /\ End(p)
        /\ UNCHANGED <<rows, file, crashes, clean>>

GetProfile(p) ==
    LET k == task[p]
    IN  /\ k.pc = "getProfile"
        /\ IF profileCache[k.user] # None THEN End(p) ELSE Goto(p, "setProfile")
        /\ UNCHANGED <<rows, file, caches, removing, crashes, history>>

(* The permissions that go with it are those of Access.                    *)
SetProfile(p) ==
    LET k == task[p]
    IN  /\ k.pc = "setProfile"
        /\ profileCache' = [profileCache EXCEPT ![k.user] = k.row]
        /\ End(p)
        /\ UNCHANGED <<rows, file, userCache, listCache, removing, crashes,
                       history>>

(* getList: count, then findMany; users are neither created nor removed    *)
(* here, so that only the second matters.                                  *)
GetList(p) ==
    /\ task[p].pc = "getList"
    /\ IF listCache # None
       THEN End(p)
       ELSE task' = [task EXCEPT ![p].list = rows, ![p].pc = "setList"]
    /\ UNCHANGED <<rows, file, caches, removing, crashes, history>>

SetList(p) ==
    /\ task[p].pc = "setList"
    /\ listCache' = task[p].list
    /\ End(p)
    /\ UNCHANGED <<rows, file, userCache, profileCache, removing, crashes,
                   history>>

-----------------------------------------------------------------------------
(* The listener, the ttl of the cache, and restarts                        *)

(* destroy is not awaited; a file that is gone already is no error.        *)
Destroyed(f) ==
    /\ f \in removing
    /\ file' = [file EXCEPT ![f] = "destroyed"]
    /\ removing' = removing \ {f}
    /\ UNCHANGED <<rows, caches, task, crashes, history>>

(* Everything in memory is gone; destroys that were sent may take effect.  *)
Restart ==
    /\ crashes < MaxCrashes
    /\ crashes' = crashes + 1
    /\ userCache' = Nobody
    /\ listCache' = None
    /\ profileCache' = Nobody
    /\ task' = [p \in Request |-> Idle]
    /\ stale' = FALSE
    /\ UNCHANGED <<rows, clean>>

Crash ==
    /\ Restart
    /\ \E S \in SUBSET removing : removing' = S
    /\ UNCHANGED file

(* destroy reports an error to a callback, which throws it: the try of the *)
(* listener is over by then, and nothing catches it.                       *)
DestroyFails(f) ==
    /\ f \in removing
    /\ Restart
    /\ \E S \in SUBSET (removing \ {f}) : removing' = S
    /\ UNCHANGED file

Evict ==
    /\ \/ \E u \in User : /\ userCache' = [userCache EXCEPT ![u] = None]
                          /\ UNCHANGED <<listCache, profileCache>>
       \/ listCache' = None /\ UNCHANGED <<userCache, profileCache>>
       \/ \E u \in User : /\ profileCache' = [profileCache EXCEPT ![u] = None]
                          /\ UNCHANGED <<userCache, listCache>>
    /\ UNCHANGED <<rows, file, removing, task, crashes, history>>

Call(p) == CallUpload(p) \/ CallUpdate(p) \/ CallProfile(p) \/ CallList(p)

Advance(p) ==
    \/ Upload(p) \/ GetUser(p) \/ SetUser(p) \/ Write(p) \/ WriteFails(p)
    \/ Written(p) \/ GetProfile(p) \/ SetProfile(p) \/ GetList(p) \/ SetList(p)

Next ==
    \/ \E p \in Request : Call(p) \/ Advance(p)
    \/ \E f \in File : Destroyed(f) \/ DestroyFails(f)
    \/ Crash \/ Evict

Spec == Init /\ [][Next]_vars

-----------------------------------------------------------------------------
(* Properties                                                              *)

(* However uploads, failures and restarts cross each other, the avatar of  *)
(* a user is a file that exists and that nobody is about to destroy, even  *)
(* though uploads destroy the file that they, or the cache, read earlier.  *)
AvatarExists ==
    \A u \in User :
        rows[u].avatar # Default =>
            /\ file[rows[u].avatar] = "stored"
            /\ rows[u].avatar \notin removing

(* With requests one at a time and no restart, every file that was stored  *)
(* is some user's avatar, still in the hands of its upload, or on its way  *)
(* out: uploads that fail half-way leave nothing behind.                   *)
NoLeftovers ==
    clean /\ crashes = 0 =>
        \A f \in File :
            file[f] = "stored" =>
                \/ f \in removing
                \/ \E u \in User : rows[u].avatar = f
                \/ \E p \in Request :
                      \/ task[p].file = f
                      \/ /\ task[p].op = "upload" /\ task[p].pc = "written"
                         /\ task[p].row.avatar = f

(* Between updates, users and lists in the cache are what the table holds; *)
(* an entry that a crossing fill has left stale lasts to the next update   *)
(* of any user that runs by itself, no longer.                             *)
CachesAreFresh ==
    ~ stale /\ (\A p \in Request : task[p].pc # "written") =>
        /\ \A u \in User : userCache[u] \in {rows[u], None}
        /\ listCache \in {rows, None}

=============================================================================
