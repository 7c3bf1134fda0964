--------------------------- MODULE BookingService ---------------------------
(***************************************************************************)
(* The booking handlers as the server runs them: one Node process, many    *)
(* requests in flight, and a step between any two awaits.  A step is one   *)
(* call of Prisma taking effect in PostgreSQL, or the code that runs when  *)
(* its answer arrives, where that code touches what requests share: the    *)
(* cache, the mails, the event that starts a listener.  Nothing in the     *)
(* code locks a row or opens a transaction here.                           *)
(*                                                                         *)
(* A process is a request together with the listener it triggers, or one   *)
(* of the two cron jobs.                                                   *)
(***************************************************************************)
EXTENDS BookingRules, FiniteSets

CONSTANTS
    Request,    \* request processes: bounds how many overlap
    Ops,        \* the endpoints that are called
    Body,       \* the bodies that updates of a booking are sent with
    Cron,       \* the cron jobs that run: "rejectExpired", "deleteOld"
    MaxCrashes, \* bound on the restarts of the server
    None        \* no cache entry

Endpoints == {"create", "update", "confirm", "cancel",
              "createRoom", "updateRoom", "removeRoom"}

ASSUME ServiceAssumption ==
    /\ Ops \subseteq Endpoints
    /\ Body \subseteq Patch
    /\ Cron \subseteq {"rejectExpired", "deleteOld"}
    /\ Request \cap Cron = {}
    /\ MaxCrashes \in Nat
    /\ None \notin Row \cup RoomState

VARIABLES
    now, room, rows, mail,  \* as in BookingLedger; the tables survive a crash
    bookingCache,   \* the entries of cache-manager under booking_<id>
    roomCache,      \* and under room_<id>
    task,           \* what each process is doing
    crashes         \* how often the server restarted

vars == <<now, room, rows, mail, bookingCache, roomCache, task, crashes>>

Process == Request \cup Cron

Idle ==
    [op |-> "idle", pc |-> "idle", user |-> NoUser, id |-> None, rm |-> NoRoom,
     patch |-> None, status |-> "unborn", at |-> 0, row |-> NoRow("unborn"),
     seen |-> "unborn", todo |-> {}, done |-> {}]

Task ==
    [op     : Endpoints \cup {"idle", "rejectOverlap", "pendRoom",
                              "rejectExpired", "deleteOld"},
     pc     : {"idle", "getBooking", "setBooking", "getRoom", "setRoom",
               "askSlot", "askEmpty", "write", "written",
               "collect", "apply", "applied"},
     user   : User \cup {NoUser},
     id     : Booking \cup {None},    \* the :id of the path, or the row written
     rm     : Room \cup {NoRoom},     \* the room's id
     patch  : Body \cup {None},      \* the body of an update
     status : Status \cup RoomState,  \* the status or isEnable asked for
     at     : Time,                   \* new Date() where the handler took it
     row    : Row,                    \* the booking as the handler holds it
     seen   : RoomState,              \* the room as the query found it
     todo   : SUBSET Booking,         \* what a listener or a cron job found
     done   : SUBSET Booking]         \* deletes whose answer has not arrived

TypeOK ==
    /\ now \in Time
    /\ room \in [Room -> RoomState]
    /\ rows \in [Booking -> Row]
    /\ mail \in [Booking -> Mail]
    /\ bookingCache \in [Booking -> Row \cup {None}]
    /\ roomCache \in [Room -> RoomState \cup {None}]
    /\ task \in [Process -> Task]
    /\ crashes \in 0..MaxCrashes

Quiet(processes) == \A p \in processes : task[p] = Idle

(* A mutant: the cache is left as it was.                                  *)
KeptBookings == bookingCache

(* removeCache: every entry whose key starts with the model's name goes.   *)
ColdBookings == [b \in Booking |-> None]
ColdRooms    == [r \in Room |-> None]

-----------------------------------------------------------------------------
(* Moving a process on.                                                    *)

Goto(p, pc) == task' = [task EXCEPT ![p].pc = pc]

Done(p) == task' = [task EXCEPT ![p] = Idle]

(* emit(): the listener starts in the same tick, with what the event holds.*)
Listen(p, listener, k) ==
    task' = [task EXCEPT ![p] =
               [Idle EXCEPT !.op = listener, !.pc = "collect", !.user = k.user,
                            !.row = k.row, !.rm = k.rm, !.at = now]]

(* A mutant: the update handler forgets whose booking it is.               *)
AnyonePasses(k) ==
    CASE k.op = "update"  -> k.row.status = "pending"
      [] k.op = "confirm" -> k.row.status = "pending"
      [] k.op = "cancel"  -> /\ k.row.status \in {"pending", "approved"}
                             /\ k.at <= k.row.start
                             /\ k.row.creator = k.user \/ k.user \in Approvers

(* The checks a handler makes on the booking it was given, and on the room.*)
BookingPasses(k) ==
    CASE k.op = "update"  -> k.row.creator = k.user /\ k.row.status = "pending"
      [] k.op = "confirm" -> k.row.status = "pending"
      [] k.op = "cancel"  -> /\ k.row.status \in {"pending", "approved"}
                             /\ k.at <= k.row.start
                             /\ k.row.creator = k.user \/ k.user \in Approvers

BookingThen(k) ==
    IF k.op # "update"         THEN "write"
    ELSE IF k.patch.room \in Room THEN "getRoom"
    ELSE IF AsksForSlot(k.patch)  THEN "askSlot"
    ELSE "write"

RoomPasses(k, state) ==
    CASE k.op \in {"create", "update"}         -> state = "enabled"
      [] k.op \in {"updateRoom", "removeRoom"} -> TRUE

RoomThen(k) ==
    CASE k.op \in {"create", "update"} -> "askSlot"
      [] k.op = "removeRoom"           -> "askEmpty"
      [] k.op = "updateRoom"           -> "write"

(* A handler that is given its booking goes on, or answers with an error.  *)
WithBooking(p, row) ==
    LET k == [task[p] EXCEPT !.row = row]
    IN  task' = [task EXCEPT ![p] = IF BookingPasses(k)
                                    THEN [k EXCEPT !.pc = BookingThen(k)]
                                    ELSE Idle]

WithRoom(p, state) ==
    LET k == task[p]
    IN  IF RoomPasses(k, state) THEN Goto(p, RoomThen(k)) ELSE Done(p)

RoomAsked(k) == IF k.op = "update" THEN k.patch.room ELSE k.rm

-----------------------------------------------------------------------------
(* A request arrives: what its guard and its validator let through.        *)

Begin(p, k) ==
    /\ k.op \in Ops
    /\ task[p] = Idle
    /\ task' = [task EXCEPT ![p] = k]
    /\ UNCHANGED <<now, room, rows, mail, bookingCache, roomCache, crashes>>

(* The bound on bookings: every create under way can be given an id.       *)
IdsLeft ==
    Cardinality({q \in Request : task[q].op = "create" /\ task[q].pc # "written"})
        < Cardinality({b \in Booking : rows[b].status = "unborn"})

CallCreate(p) ==
    /\ IdsLeft
    /\ \E u \in User, r \in Room, s, e \in Time :
          /\ now <= s /\ s < e
          /\ Begin(p, [Idle EXCEPT !.op = "create", !.pc = "getRoom",
                                   !.user = u, !.rm = r, !.row = NewRow(u, r, s, e, now)])

CallUpdate(p) ==
    \E b \in Booking, u \in User, patch \in Body :
        /\ rows[b].status # "unborn"
        /\ ValidPatch(patch, now)
        /\ Begin(p, [Idle EXCEPT !.op = "update", !.pc = "getBooking",
                                 !.id = b, !.user = u, !.patch = patch])

CallConfirm(p) ==
    \E b \in Booking, u \in Confirmers, decision \in {"approved", "reject"} :
        /\ rows[b].status # "unborn"
        /\ Begin(p, [Idle EXCEPT !.op = "confirm", !.pc = "getBooking",
                                 !.id = b, !.user = u, !.status = decision])

CallCancel(p) ==
    \E b \in Booking, u \in User :
        /\ rows[b].status # "unborn"
        /\ Begin(p, [Idle EXCEPT !.op = "cancel", !.pc = "getBooking",
                                 !.id = b, !.user = u, !.at = now])

CallCreateRoom(p) ==
    \E r \in Room, state \in {"enabled", "disabled"} :
        /\ room[r] = "unborn"
        /\ Begin(p, [Idle EXCEPT !.op = "createRoom", !.pc = "write",
                                 !.rm = r, !.status = state])

CallUpdateRoom(p) ==
    \E r \in Room, state \in {"enabled", "disabled"} :
        /\ room[r] # "unborn"
        /\ Begin(p, [Idle EXCEPT !.op = "updateRoom", !.pc = "getRoom",
                                 !.rm = r, !.status = state])

CallRemoveRoom(p) ==
    \E r \in Room : /\ room[r] # "unborn"
                    /\ Begin(p, [Idle EXCEPT !.op = "removeRoom", !.pc = "getRoom",
                                             !.rm = r])

Call(p) ==
    \/ CallCreate(p) \/ CallUpdate(p) \/ CallConfirm(p) \/ CallCancel(p)
    \/ CallCreateRoom(p) \/ CallUpdateRoom(p) \/ CallRemoveRoom(p)

(* The scheduler starts a job; each job reads the clock first.             *)
CallCron(c) ==
    /\ task[c] = Idle
    /\ task' = [task EXCEPT ![c].op = c, ![c].pc = "collect", ![c].at = now]
    /\ UNCHANGED <<now, room, rows, mail, bookingCache, roomCache, crashes>>

-----------------------------------------------------------------------------
(* foundById: a cached entry is taken as it is; a miss reads the table,    *)
(* and what was read is cached when the answer arrives, whatever happened  *)
(* in between.                                                             *)

GetBooking(p) ==
    LET b == task[p].id
    IN  /\ task[p].pc = "getBooking"
        /\ IF bookingCache[b] # None THEN WithBooking(p, bookingCache[b])
           ELSE IF Live(rows[b])
                THEN task' = [task EXCEPT ![p].pc = "setBooking",
                                          ![p].row = rows[b]]
                ELSE Done(p)
        /\ UNCHANGED <<now, room, rows, mail, bookingCache, roomCache, crashes>>

SetBooking(p) ==
    /\ task[p].pc = "setBooking"
    /\ bookingCache' = [bookingCache EXCEPT ![task[p].id] = task[p].row]
    /\ WithBooking(p, task[p].row)
    /\ UNCHANGED <<now, room, rows, mail, roomCache, crashes>>

GetRoom(p) ==
    LET r == RoomAsked(task[p])
    IN  /\ task[p].pc = "getRoom"
        /\ IF roomCache[r] # None THEN WithRoom(p, roomCache[r])
           ELSE IF RoomExists(room[r])
                THEN task' = [task EXCEPT ![p].pc = "setRoom",
                                          ![p].seen = room[r]]
                ELSE Done(p)
        /\ UNCHANGED <<now, room, rows, mail, bookingCache, roomCache, crashes>>

SetRoom(p) ==
    /\ task[p].pc = "setRoom"
    /\ roomCache' = [roomCache EXCEPT ![RoomAsked(task[p])] = task[p].seen]
    /\ WithRoom(p, task[p].seen)
    /\ UNCHANGED <<now, room, rows, mail, bookingCache, crashes>>

-----------------------------------------------------------------------------
(* The queries that decide whether the handler may write.                  *)

(* A mutant: the query of the other status.                                *)
TakenByPending(k) ==
    IF k.op = "create"
    THEN Overlapping(rows, "pending", k.rm, k.row.start, k.row.end)
    ELSE Overlapping(rows, "pending", AskedRoom(k.patch, k.row),
                     Given(k.patch.start, k.row.start),
                     Given(k.patch.end, k.row.end))

Taken(k) ==
    IF k.op = "create"
    THEN Overlapping(rows, "approved", k.rm, k.row.start, k.row.end)
    ELSE Overlapping(rows, "approved", AskedRoom(k.patch, k.row),
                     Given(k.patch.start, k.row.start),
                     Given(k.patch.end, k.row.end))

AskSlot(p) ==
    /\ task[p].pc = "askSlot"
    /\ IF Taken(task[p]) = {} THEN Goto(p, "write") ELSE Done(p)
    /\ UNCHANGED <<now, room, rows, mail, bookingCache, roomCache, crashes>>

AskEmpty(p) ==
    /\ task[p].pc = "askEmpty"
    /\ IF \A b \in Booking : rows[b].room # task[p].rm
       THEN Goto(p, "write") ELSE Done(p)
    /\ UNCHANGED <<now, room, rows, mail, bookingCache, roomCache, crashes>>

-----------------------------------------------------------------------------
(* The writes.  Each takes effect on the row as it is now, by id, whatever *)
(* the handler read before; a write to a missing row, or of a roomId the   *)
(* Room table does not have, throws and ends the request.                  *)

InsertBooking(p) ==
    /\ task[p].pc = "write" /\ task[p].op = "create"
    /\ IF RoomExists(room[task[p].rm])
       THEN \E b \in Booking :
              /\ rows[b].status = "unborn"
              /\ rows' = [rows EXCEPT ![b] = [task[p].row EXCEPT !.updatedAt = now]]
              /\ task' = [task EXCEPT ![p].pc = "written", ![p].id = b]
       ELSE Done(p) /\ UNCHANGED rows
    /\ UNCHANGED <<now, room, mail, bookingCache, roomCache, crashes>>

(* A mutant: status is written without modifiedByAdminId.                  *)
WrittenUnsigned(k) ==
    LET row == rows[k.id]
    IN  CASE k.op = "update"  -> Patched(row, k.patch, now)
          [] k.op = "confirm" -> Moved(row, k.status, now)
          [] k.op = "cancel"  -> Moved(row, "cancel", now)

Written(k) ==
    LET row == rows[k.id]
    IN  CASE k.op = "update"  -> Patched(row, k.patch, now)
          [] k.op = "confirm" -> Decided(row, k.status, k.user, now)
          [] k.op = "cancel"  -> IF k.row.creator = k.user
                                 THEN Moved(row, "cancel", now)
                                 ELSE Decided(row, "cancel", k.user, now)

WriteBooking(p) ==
    LET k == task[p]
    IN  /\ k.pc = "write" /\ k.op \in {"update", "confirm", "cancel"}
        /\ IF /\ Live(rows[k.id])
              /\ k.op = "update" /\ k.patch.room \in Room
                    => RoomExists(room[k.patch.room])
           THEN /\ rows' = [rows EXCEPT ![k.id] = Written(k)]
                /\ task' = [task EXCEPT ![p].pc = "written",
                                        ![p].row = Written(k)]
           ELSE Done(p) /\ UNCHANGED rows
        /\ UNCHANGED <<now, room, mail, bookingCache, roomCache, crashes>>

WriteRoom(p) ==
    LET k == task[p]
    IN  /\ k.pc = "write" /\ k.op \in {"createRoom", "updateRoom"}
        /\ IF \/ k.op = "createRoom" /\ room[k.rm] = "unborn"
              \/ k.op = "updateRoom" /\ RoomExists(room[k.rm])
           THEN /\ room' = [room EXCEPT ![k.rm] = k.status]
                /\ Goto(p, "written")
           ELSE Done(p) /\ UNCHANGED room
        /\ UNCHANGED <<now, rows, mail, bookingCache, roomCache, crashes>>

(* A mutant: no ON DELETE SET NULL.                                        *)
RowsKeeping(r) == rows

(* ON DELETE SET NULL: bookings that point to the room lose it.            *)
RowsWithout(r) ==
    [b \in Booking |-> IF rows[b].room = r
                       THEN [rows[b] EXCEPT !.room = NoRoom]
                       ELSE rows[b]]

DeleteRoom(p) ==
    LET r == task[p].rm
    IN  /\ task[p].pc = "write" /\ task[p].op = "removeRoom"
        /\ IF RoomExists(room[r])
           THEN /\ room' = [room EXCEPT ![r] = "deleted"]
                /\ rows' = RowsWithout(r)
                /\ Goto(p, "written")
           ELSE Done(p) /\ UNCHANGED <<room, rows>>
        /\ UNCHANGED <<now, mail, bookingCache, roomCache, crashes>>

-----------------------------------------------------------------------------
(* The answer of a write: removeCache drops every entry of the model, the  *)
(* creator is told, and an approval or a disabled room starts a listener.  *)

(* A mutant: a mail by what was asked, not by what was written.            *)
TemplateAsked(k) == k.status

Template(k) == k.row.status

(* A mutant: an approval at creation emits no event.                       *)
ConfirmStartsListener(k) == k.op = "confirm" /\ k.row.status = "approved"

ApprovalStartsListener(k) ==
    k.op \in {"create", "confirm"} /\ k.row.status = "approved"

(* A mutant: a disabled room emits no event.                               *)
NothingStartsListener(k) == FALSE

DisableStartsListener(k) == k.op = "updateRoom" /\ k.status = "disabled"

BookingWritten(p) ==
    LET k == task[p]
        told == k.op = "confirm" \/ (k.op = "cancel" /\ k.row.creator # k.user)
    IN  /\ k.pc = "written" /\ k.op \in {"create", "update", "confirm", "cancel"}
        /\ bookingCache' = ColdBookings
        /\ mail' = IF told THEN Sent(mail, {k.id}, Template(k)) ELSE mail
        /\ IF ApprovalStartsListener(k)
           THEN Listen(p, "rejectOverlap", k)
           ELSE Done(p)
        /\ UNCHANGED <<now, room, rows, roomCache, crashes>>

RoomWritten(p) ==
    LET k == task[p]
    IN  /\ k.pc = "written" /\ k.op \in {"createRoom", "updateRoom", "removeRoom"}
        /\ roomCache' = ColdRooms
        /\ IF DisableStartsListener(k) THEN Listen(p, "pendRoom", k) ELSE Done(p)
        /\ UNCHANGED <<now, room, rows, mail, bookingCache, crashes>>

-----------------------------------------------------------------------------
(* The listeners and the cron jobs: a query, then a write for each row it  *)
(* found, none of which looks at the row again.                            *)

(* A mutant: strictly before the job's clock.                              *)
ExpiredBefore(t) == {b \in Booking : /\ rows[b].status = "pending"
                                     /\ rows[b].end < t}

ExpiredAt(t) == {b \in Booking : /\ rows[b].status = "pending"
                                 /\ rows[b].end <= t}

(* A mutant: cancelled bookings are left alone.                            *)
RejectedBefore(t) == {b \in Booking : /\ rows[b].status = "reject"
                                      /\ rows[b].updatedAt + KeepTime <= t}

DecidedBefore(t) == {b \in Booking : /\ rows[b].status \in {"reject", "cancel"}
                                     /\ rows[b].updatedAt + KeepTime <= t}

Found(k) ==
    CASE k.op = "rejectOverlap" ->
            Overlapping(rows, "pending", k.row.room, k.row.start, k.row.end)
      [] k.op = "pendRoom" ->
            {b \in Booking : /\ rows[b].status = "approved"
                             /\ rows[b].room = k.rm
                             /\ k.at <= rows[b].start}
      [] k.op = "rejectExpired" -> ExpiredAt(k.at)
      [] k.op = "deleteOld"     -> DecidedBefore(k.at)

Collect(p) ==
    /\ task[p].pc = "collect"
    /\ IF Found(task[p]) = {}
       THEN Done(p)
       ELSE task' = [task EXCEPT ![p].pc = "apply",
                                 ![p].todo = Found(task[p])]
    /\ UNCHANGED <<now, room, rows, mail, bookingCache, roomCache, crashes>>

(* One round of the loop; a row that has been deleted meanwhile throws,    *)
(* and the rest of the loop is lost.                                       *)
RejectOne(p) ==
    LET k == task[p]
    IN  /\ k.pc = "apply" /\ k.op \in {"rejectOverlap", "rejectExpired"}
        /\ \E b \in k.todo :
              IF Live(rows[b])
              THEN /\ rows' = [rows EXCEPT ![b] =
                                 IF k.op = "rejectOverlap"
                                 THEN Decided(@, "reject", k.user, now)
                                 ELSE Moved(@, "reject", now)]
                   /\ task' = [task EXCEPT ![p].pc = "applied", ![p].id = b,
                                           ![p].todo = @ \ {b}]
              ELSE Done(p) /\ UNCHANGED rows
        /\ UNCHANGED <<now, room, mail, bookingCache, roomCache, crashes>>

RejectedOne(p) ==
    LET k == task[p]
    IN  /\ k.pc = "applied" /\ k.op \in {"rejectOverlap", "rejectExpired"}
        /\ bookingCache' = ColdBookings
        /\ mail' = Sent(mail, {k.id}, "reject")
        /\ IF k.todo = {} THEN Done(p) ELSE Goto(p, "apply")
        /\ UNCHANGED <<now, room, rows, roomCache, crashes>>

(* updateMany: one statement, which passes over the rows that are gone.    *)
PendAll(p) ==
    LET k == task[p]
    IN  /\ k.pc = "apply" /\ k.op = "pendRoom"
        /\ rows' = [b \in Booking |-> IF b \in k.todo /\ Live(rows[b])
                                      THEN Moved(rows[b], "pending", now)
                                      ELSE rows[b]]
        /\ Goto(p, "applied")
        /\ UNCHANGED <<now, room, mail, bookingCache, roomCache, crashes>>

PendedAll(p) ==
    /\ task[p].pc = "applied" /\ task[p].op = "pendRoom"
    /\ bookingCache' = ColdBookings
    /\ mail' = Sent(mail, task[p].todo, "pending")
    /\ Done(p)
    /\ UNCHANGED <<now, room, rows, roomCache, crashes>>

(* The deletes are issued together and answered one by one.                *)
DeleteOne(p) ==
    /\ task[p].pc = "apply" /\ task[p].op = "deleteOld"
    /\ \E b \in task[p].todo :
          /\ rows' = [rows EXCEPT ![b] = NoRow("deleted")]
          /\ task' = [task EXCEPT ![p].todo = @ \ {b}, ![p].done = @ \cup {b}]
    /\ UNCHANGED <<now, room, mail, bookingCache, roomCache, crashes>>

DeletedOne(p) ==
    LET k == task[p]
    IN  /\ k.pc = "apply" /\ k.op = "deleteOld"
        /\ bookingCache' = ColdBookings
        /\ \E b \in k.done :
              IF k.todo = {} /\ k.done = {b}
              THEN Done(p)
              ELSE task' = [task EXCEPT ![p].done = @ \ {b}]
        /\ UNCHANGED <<now, room, rows, mail, roomCache, crashes>>

-----------------------------------------------------------------------------
(* What the process goes through on its own once it was called.            *)
Advance(p) ==
    \/ GetBooking(p) \/ SetBooking(p) \/ GetRoom(p) \/ SetRoom(p)
    \/ AskSlot(p) \/ AskEmpty(p)
    \/ InsertBooking(p) \/ WriteBooking(p) \/ WriteRoom(p) \/ DeleteRoom(p)
    \/ BookingWritten(p) \/ RoomWritten(p)
    \/ Collect(p) \/ RejectOne(p) \/ RejectedOne(p)
    \/ PendAll(p) \/ PendedAll(p) \/ DeleteOne(p) \/ DeletedOne(p)

(* An entry reaches its ttl, or is the least recently used of a full cache.*)
Evict ==
    /\ \/ \E b \in Booking :
            /\ bookingCache[b] # None
            /\ bookingCache' = [bookingCache EXCEPT ![b] = None]
            /\ UNCHANGED roomCache
       \/ \E r \in Room :
            /\ roomCache[r] # None
            /\ roomCache' = [roomCache EXCEPT ![r] = None]
            /\ UNCHANGED bookingCache
    /\ UNCHANGED <<now, room, rows, mail, task, crashes>>

(* The server stops and starts again: the tables are all that is left.     *)
Crash ==
    /\ crashes < MaxCrashes
    /\ ~ Quiet(Process)
    /\ crashes' = crashes + 1
    /\ task' = [p \in Process |-> Idle]
    /\ bookingCache' = ColdBookings
    /\ roomCache' = ColdRooms
    /\ UNCHANGED <<now, room, rows, mail>>

Tick ==
    /\ now < MaxTime
    /\ now' = now + 1
    /\ UNCHANGED <<room, rows, mail, bookingCache, roomCache, task, crashes>>

Init ==
    /\ now = 0
    /\ room = [r \in Room |-> "unborn"]
    /\ rows = [b \in Booking |-> NoRow("unborn")]
    /\ mail = [b \in Booking |-> "none"]
    /\ bookingCache = [b \in Booking |-> None]
    /\ roomCache = [r \in Room |-> None]
    /\ task = [p \in Process |-> Idle]
    /\ crashes = 0

Next ==
    \/ \E p \in Request : Call(p)
    \/ \E c \in Cron : CallCron(c)
    \/ \E p \in Process : Advance(p)
    \/ Evict
    \/ Crash
    \/ Tick

Spec == Init /\ [][Next]_vars

(* Every await is answered, the scheduler keeps calling the jobs, and time *)
(* passes.  Nothing obliges a user to call anything.                       *)
FairSpec ==
    /\ Spec
    /\ \A p \in Process : WF_vars(Advance(p))
    /\ \A c \in Cron : WF_vars(CallCron(c))
    /\ WF_vars(Tick)

-----------------------------------------------------------------------------
(* What holds whatever the order of the steps.                             *)

(* An approved booking names the administrator who may answer for it:      *)
(* status and modifiedByAdminId are written together, and no edit, cancel, *)
(* listener or job that comes between can leave an approval without one.   *)
ApprovalsAreSigned ==
    \A b \in Booking : rows[b].status = "approved" =>
        rows[b].modifiedBy \in Approvers \cup Confirmers

(* A booking points to a row of the Room table or to none, also when the   *)
(* room is deleted between a handler's look at it and its write.           *)
RoomsExist ==
    \A b \in Booking : rows[b].room \in Room => RoomExists(room[rows[b].room])

(* The slot of a booking only moves in the write of an update its creator  *)
(* asked for, or loses its room with the room.                             *)
OwnersMoveSlots ==
    [][\A b \in Booking :
          /\ Live(rows[b]) /\ Live(rows'[b])
          /\ \/ rows'[b].start # rows[b].start \/ rows'[b].end # rows[b].end
             \/ rows'[b].room # rows[b].room
          => \/ \E p \in Request : /\ task[p].op = "update"
                                   /\ task[p].user = rows[b].creator
                                   /\ task[p].id = b
             \/ rows[b].room \in Room /\ room'[rows[b].room] = "deleted"]_vars

(* No request stays pending: if nobody decides it, its end passes and the  *)
(* job rejects it, whatever runs beside the job or restarts it.            *)
PendingIsDecided ==
    \A b \in Booking : rows[b].status = "pending" ~> rows[b].status # "pending"

(* A decision that is old enough is deleted.                               *)
Outdated(b) == /\ rows[b].status \in {"reject", "cancel"}
               /\ rows[b].updatedAt + KeepTime <= now

OldAreDeleted == \A b \in Booking : Outdated(b) ~> ~ Outdated(b)

-----------------------------------------------------------------------------
(* What the messages of the API promise and interleavings break.           *)

(* 'Room already booked': two approved bookings of one room never share an *)
(* instant.                                                                *)
NoDoubleBooking ==
    \A a, b \in Booking :
        /\ a # b
        /\ rows[a].status = "approved" /\ rows[b].status = "approved"
        /\ rows[a].room = rows[b].room /\ rows[a].room \in Room
        => ~ Clash(rows[a], rows[b])

=============================================================================
