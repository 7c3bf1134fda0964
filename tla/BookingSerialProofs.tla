------------------------- MODULE BookingSerialProofs -------------------------
(***************************************************************************)
(* Served one at a time, the handlers of BookingService, their listeners   *)
(* and the jobs take the steps of BookingLedger, for every instance.  The  *)
(* argument is what a handler under way knows before its write, and what   *)
(* the tables will be when the rest of it is done after.  With the         *)
(* rejecting job beside single requests slots still exclude each other:    *)
(* that is the second half of the module.                                  *)
(***************************************************************************)
EXTENDS BookingSerial, BookingServiceProofs

-----------------------------------------------------------------------------
(* What a request, a listener or a job will leave behind of the tables S   *)
(* when it is done.                                                        *)

Becomes(S, states, rs, ml) ==
    [now |-> S.now, room |-> states, rows |-> rs, mail |-> ml]

(* The listener that the answer of a write starts.                         *)
Starts(k) == ApprovalStartsListener(k) \/ DisableStartsListener(k)

Heir(S, k) ==
    [Idle EXCEPT !.op = IF k.op = "updateRoom" THEN "pendRoom" ELSE "rejectOverlap",
                 !.pc = "collect", !.user = k.user,
                 !.row = k.row, !.rm = k.rm, !.at = S.now]

(* The mails when the creator was told of a decision.                      *)
Told(S, k) ==
    IF k.op = "confirm" \/ (k.op = "cancel" /\ k.row.creator # k.user)
    THEN Sent(S.mail, {k.id}, k.row.status)
    ELSE S.mail

(* The rows that a query finds, as Taken and Found of BookingService.      *)
TakenIn(rs, k) ==
    IF k.op = "create"
    THEN Overlapping(rs, "approved", k.rm, k.row.start, k.row.end)
    ELSE Overlapping(rs, "approved", AskedRoom(k.patch, k.row),
                     Given(k.patch.start, k.row.start),
                     Given(k.patch.end, k.row.end))

ToPend(rs, r, t) ==
    {b \in Booking : rs[b].status = "approved" /\ rs[b].room = r /\ t <= rs[b].start}

ToReject(rs, t) == {b \in Booking : rs[b].status = "pending" /\ rs[b].end <= t}

ToDelete(rs, t) ==
    {b \in Booking : /\ rs[b].status \in {"reject", "cancel"}
                     /\ rs[b].updatedAt + KeepTime <= t}

FoundIn(rs, k) ==
    CASE k.op = "rejectOverlap" ->
            Overlapping(rs, "pending", k.row.room, k.row.start, k.row.end)
      [] k.op = "pendRoom"      -> ToPend(rs, k.rm, k.at)
      [] k.op = "rejectExpired" -> ToReject(rs, k.at)
      [] k.op = "deleteOld"     -> ToDelete(rs, k.at)

(* What a loop still has to write, what it does to a row, and whom it      *)
(* still has to tell.                                                      *)
Left(rs, k) ==
    IF k.pc = "collect" THEN FoundIn(rs, k)
    ELSE IF k.pc = "applied" /\ k.op = "pendRoom" THEN {}
    ELSE k.todo

Effect(k, row, t) ==
    CASE k.op = "rejectOverlap" -> Decided(row, "reject", k.user, t)
      [] k.op = "rejectExpired" -> Moved(row, "reject", t)
      [] k.op = "pendRoom"      -> Moved(row, "pending", t)
      [] k.op = "deleteOld"     -> NoRow("deleted")

Untold(rs, k) ==
    IF k.op = "deleteOld" THEN {}
    ELSE IF k.pc = "collect" THEN FoundIn(rs, k)
    ELSE IF k.pc = "applied" /\ k.op # "pendRoom" THEN k.todo \cup {k.id}
    ELSE k.todo

Word(k) == IF k.op = "pendRoom" THEN "pending" ELSE "reject"

Ahead(S, k, ml) ==
    Becomes(S, S.room,
            [b \in Booking |-> IF b \in Left(S.rows, k)
                               THEN Effect(k, S.rows[b], S.now)
                               ELSE S.rows[b]],
            Sent(ml, Untold(S.rows, k), Word(k)))

Final(S, k) ==
    IF k.pc # "written" THEN Ahead(S, k, S.mail)
    ELSE IF Starts(k) THEN Ahead(S, Heir(S, k), Told(S, k))
    ELSE Becomes(S, S.room, S.rows, Told(S, k))

-----------------------------------------------------------------------------
(* The actions of BookingLedger that handlers take, as relations between   *)
(* the tables S before and the tables T after.                             *)

RejectAll(rs, B, admin, t) ==
    [b \in Booking |-> IF b \in B THEN Decided(rs[b], "reject", admin, t) ELSE rs[b]]

CreatesOne(S, T, b, u, r, s, e) ==
    /\ S.rows[b].status = "unborn"
    /\ S.now <= s /\ s < e
    /\ S.room[r] = "enabled"
    /\ Overlapping(S.rows, "approved", r, s, e) = {}
    /\ LET losers == IF u \in Approvers
                     THEN Overlapping(S.rows, "pending", r, s, e) ELSE {}
           created == [S.rows EXCEPT ![b] = NewRow(u, r, s, e, S.now)]
       IN  T = Becomes(S, S.room, RejectAll(created, losers, u, S.now),
                       Sent(S.mail, losers, "reject"))

Creates(S, T) ==
    \E b \in Booking, u \in User, r \in Room, s \in Time, e \in Time :
        CreatesOne(S, T, b, u, r, s, e)

UpdatesOne(S, T, b, u, p) ==
    /\ S.rows[b].status = "pending"
    /\ S.rows[b].creator = u
    /\ ValidPatch(p, S.now)
    /\ p.room \in Room => S.room[p.room] = "enabled"
    /\ AsksForSlot(p) =>
          Overlapping(S.rows, "approved", AskedRoom(p, S.rows[b]),
                      Given(p.start, S.rows[b].start),
                      Given(p.end, S.rows[b].end)) = {}
    /\ T = Becomes(S, S.room,
                   [S.rows EXCEPT ![b] = Patched(S.rows[b], p, S.now)], S.mail)

Updates(S, T) ==
    \E b \in Booking, u \in User, p \in Patch : UpdatesOne(S, T, b, u, p)

ConfirmsOne(S, T, b, u, d) ==
    /\ S.rows[b].status = "pending"
    /\ LET decided == [S.rows EXCEPT ![b] = Decided(S.rows[b], d, u, S.now)]
           losers  == IF d = "approved"
                      THEN Overlapping(decided, "pending", S.rows[b].room,
                                       S.rows[b].start, S.rows[b].end)
                      ELSE {}
       IN  T = Becomes(S, S.room, RejectAll(decided, losers, u, S.now),
                       Sent(Sent(S.mail, {b}, d), losers, "reject"))

Confirms(S, T) ==
    \E b \in Booking, u \in Confirmers, d \in {"approved", "reject"} :
        ConfirmsOne(S, T, b, u, d)

CancelsOne(S, T, b, u) ==
    /\ S.rows[b].status \in {"pending", "approved"}
    /\ S.now <= S.rows[b].start
    /\ S.rows[b].creator = u \/ u \in Approvers
    /\ T = Becomes(S, S.room,
                   [S.rows EXCEPT ![b] = Cancelled(S.rows[b], u, S.now)],
                   IF S.rows[b].creator = u THEN S.mail
                   ELSE Sent(S.mail, {b}, "cancel"))

Cancels(S, T) == \E b \in Booking, u \in User : CancelsOne(S, T, b, u)

Rejects(S, T) ==
    LET expired == ToReject(S.rows, S.now)
    IN  /\ expired # {}
        /\ T = Becomes(S, S.room,
                       [b \in Booking |-> IF b \in expired
                                          THEN Moved(S.rows[b], "reject", S.now)
                                          ELSE S.rows[b]],
                       Sent(S.mail, expired, "reject"))

Deletes(S, T) ==
    LET old == ToDelete(S.rows, S.now)
    IN  /\ old # {}
        /\ T = Becomes(S, S.room,
                       [b \in Booking |-> IF b \in old THEN NoRow("deleted")
                                                       ELSE S.rows[b]],
                       S.mail)

CreatesRoom(S, T) ==
    \E r \in Room, state \in {"enabled", "disabled"} :
        /\ S.room[r] = "unborn"
        /\ T = Becomes(S, [S.room EXCEPT ![r] = state], S.rows, S.mail)

EnablesRoom(S, T) ==
    \E r \in Room :
        /\ RoomExists(S.room[r])
        /\ T = Becomes(S, [S.room EXCEPT ![r] = "enabled"], S.rows, S.mail)

DisablesOne(S, T, r) ==
    /\ RoomExists(S.room[r])
    /\ LET moved == ToPend(S.rows, r, S.now)
       IN  T = Becomes(S, [S.room EXCEPT ![r] = "disabled"],
                       [b \in Booking |-> IF b \in moved
                                          THEN Moved(S.rows[b], "pending", S.now)
                                          ELSE S.rows[b]],
                       Sent(S.mail, moved, "pending"))

DisablesRoom(S, T) == \E r \in Room : DisablesOne(S, T, r)

RemovesRoom(S, T) ==
    \E r \in Room :
        /\ RoomExists(S.room[r])
        /\ \A b \in Booking : S.rows[b].room # r
        /\ T = Becomes(S, [S.room EXCEPT ![r] = "deleted"], S.rows, S.mail)

(* One step of the ledger, or none.                                        *)
Step(S, T) ==
    \/ T = S
    \/ Creates(S, T) \/ Updates(S, T) \/ Confirms(S, T) \/ Cancels(S, T)
    \/ Rejects(S, T) \/ Deletes(S, T)
    \/ CreatesRoom(S, T) \/ EnablesRoom(S, T) \/ DisablesRoom(S, T)
    \/ RemovesRoom(S, T)

-----------------------------------------------------------------------------
(* What a handler that has not written yet knows of the tables S: its      *)
(* parameters passed the validator, and what it has read is what they      *)
(* hold, and made it go on.                                                *)

Before == {"getBooking", "setBooking", "getRoom", "setRoom", "askSlot",
           "askEmpty", "write"}

RoomOps == {"createRoom", "updateRoom", "removeRoom"}

Asked(S, k) ==
    /\ k.op = "create" =>
          \E s \in Time, e \in Time : /\ S.now <= s /\ s < e
                                      /\ k.row = NewRow(k.user, k.rm, s, e, S.now)
    /\ k.op = "update" => ValidPatch(k.patch, S.now)
    /\ k.op = "cancel" => k.at = S.now

HasRead(S, k) ==
    /\ k.pc = "setBooking" => k.row = S.rows[k.id]
    /\ /\ k.op \in {"update", "confirm", "cancel"}
       /\ k.pc \in {"getRoom", "setRoom", "askSlot", "write"}
       => k.row = S.rows[k.id] /\ BookingPasses(k)
    /\ k.pc = "setRoom" => k.seen = S.room[RoomAsked(k)]
    /\ k.op = "create" /\ k.pc \in {"askSlot", "write"} => S.room[k.rm] = "enabled"
    /\ k.op = "update" /\ k.pc \in {"askSlot", "write"} /\ k.patch.room \in Room =>
          S.room[k.patch.room] = "enabled"
    /\ k.op = "create" /\ k.pc = "write" => TakenIn(S.rows, k) = {}
    /\ k.op = "update" /\ k.pc = "write" /\ AsksForSlot(k.patch) =>
          TakenIn(S.rows, k) = {}
    /\ k.op = "removeRoom" /\ k.pc = "write" =>
          \A b \in Booking : S.rows[b].room # k.rm

Fresh(cache, table, Ids) == \A i \in Ids : cache[i] \in {None, table[i]}

Alive(rs, B) == \A b \in B : Live(rs[b])

(* A process under way, S the tables when it started and T as they are.    *)
UnderWay(k, S, T, bookings, rooms) ==
    /\ IF k.pc \in Before THEN T = S /\ Asked(S, k) /\ HasRead(S, k)
                          ELSE Step(S, Final(T, k))
    /\ k.pc \in {"apply", "applied"} => Alive(T.rows, k.todo)
    /\ k.pc \in Before \cup {"collect"} \/ k.op \in RoomOps =>
          Fresh(bookings, T.rows, Booking)
    /\ k.pc # "written" \/ k.op \notin RoomOps => Fresh(rooms, T.room, Room)

SerialInv ==
    /\ \A p, q \in Process : task[p] # Idle /\ task[q] # Idle => p = q
    /\ Quiet(Process) => /\ settled = Tables
                         /\ Fresh(bookingCache, rows, Booking)
                         /\ Fresh(roomCache, room, Room)
    /\ \A p \in Process : task[p] # Idle =>
          UnderWay(task[p], settled, Tables, bookingCache, roomCache)

-----------------------------------------------------------------------------
(* A step of p that leaves it with the task j, and what that step owes.    *)
Leaves(p, j) ==
    /\ task' = [task EXCEPT ![p] = j]
    /\ IF j = Idle
       THEN /\ Step(settled, Tables')
            /\ Fresh(bookingCache', rows', Booking)
            /\ Fresh(roomCache', room', Room)
       ELSE UnderWay(j, settled, Tables', bookingCache', roomCache')

Onward(p) == \E j : Leaves(p, j)

LEMMA FieldsOfTables ==
    /\ Tables.now = now /\ Tables.room = room
    /\ Tables.rows = rows /\ Tables.mail = mail
    /\ Tables'.now = now' /\ Tables'.room = room'
    /\ Tables'.rows = rows' /\ Tables'.mail = mail'
  BY DEF Tables

LEMMA TablesStay ==
    ASSUME UNCHANGED <<now, room, rows, mail>>
    PROVE  Tables' = Tables
  BY DEF Tables

(* What the running process knows.                                         *)
LEMMA Running ==
    ASSUME TypeOK, Shaped, SerialInv, NEW p \in Process, task[p].pc # "idle"
    PROVE  /\ task[p] \in Task /\ HasShape(task[p]) /\ task[p] # Idle
           /\ UnderWay(task[p], settled, Tables, bookingCache, roomCache)
  <1>1. task[p] \in Task /\ HasShape(task[p])
    BY DEF TypeOK, Shaped
  <1>2. task[p] # Idle
    BY DEF Idle
  <1> QED  BY <1>1, <1>2 DEF SerialInv

(* The handler ends with an error before it has written anything.          *)
LEMMA Refused ==
    ASSUME TypeOK, Shaped, SerialInv, NEW p \in Process, task[p].pc \in Before,
           task' = [task EXCEPT ![p] = Idle],
           UNCHANGED <<now, room, rows, mail>>,
           Fresh(bookingCache', rows', Booking), Fresh(roomCache', room', Room)
    PROVE  Onward(p)
  <1>1. task[p].pc # "idle"
    BY DEF Before
  <1>2. settled = Tables
    BY <1>1, Running DEF UnderWay
  <1>3. Step(settled, Tables')
    BY <1>2, TablesStay DEF Step
  <1> QED  BY <1>3 DEF Onward, Leaves

(* It goes on, and has still written nothing.                              *)
LEMMA ReadsOn ==
    ASSUME TypeOK, Shaped, SerialInv, NEW p \in Process, task[p].pc \in Before,
           NEW j, j.pc \in Before, SameCall(j, task[p]),
           j.op = "create" => j.row = task[p].row,
           HasRead(Tables, j), task' = [task EXCEPT ![p] = j],
           UNCHANGED <<now, room, rows, mail>>,
           Fresh(bookingCache', rows', Booking), Fresh(roomCache', room', Room)
    PROVE  Onward(p)
  <1>1. task[p].pc # "idle"
    BY DEF Before
  <1>2. settled = Tables /\ Asked(Tables, task[p])
    BY <1>1, Running DEF UnderWay
  <1>3. Asked(Tables, j)
    BY <1>2 DEF Asked, SameCall
  <1>4. j # Idle /\ j.pc \notin {"apply", "applied"}
    BY DEF Idle, Before
  <1>5. Tables'.rows = rows' /\ Tables'.room = room' /\ Tables' = Tables
    BY FieldsOfTables, TablesStay
  <1>6. UnderWay(j, settled, Tables', bookingCache', roomCache')
    BY <1>2, <1>3, <1>4, <1>5 DEF UnderWay
  <1> QED  BY <1>4, <1>6 DEF Onward, Leaves
-----------------------------------------------------------------------------
(* The steps before the write.                                             *)

(* What the caches answer is what the tables hold.                         *)
LEMMA BookingIsRead ==
    ASSUME TypeOK, Shaped, SerialInv, NEW p \in Process,
           task[p].pc \in {"getBooking", "setBooking"},
           WithBooking(p, rows[task[p].id]),
           UNCHANGED <<now, room, rows, mail>>,
           Fresh(bookingCache', rows', Booking), Fresh(roomCache', room', Room)
    PROVE  Onward(p)
  <1>1. /\ task[p] \in Task /\ HasShape(task[p])
        /\ task[p].op \in {"update", "confirm", "cancel"}
        /\ task[p].pc \in Before
    BY StepsOfHandlers DEF TypeOK, Shaped, Before
  <1> DEFINE row == rows[task[p].id]
             i == [task[p] EXCEPT !.row = row]
             j == [i EXCEPT !.pc = BookingThen(i)]
  <1>2. /\ i.op = task[p].op /\ i.row = row /\ SameCall(i, task[p])
        /\ i.id = task[p].id
    BY <1>1 DEF Task, SameCall
  <1>3. task' = [task EXCEPT ![p] = IF BookingPasses(i) THEN j ELSE Idle]
    BY DEF WithBooking
  <1>4. /\ j.op = i.op /\ j.row = row /\ SameCall(j, task[p]) /\ j.id = task[p].id
        /\ j.pc = BookingThen(i) /\ j.user = i.user /\ j.at = i.at
        /\ j.patch = i.patch
    BY <1>1, <1>2 DEF Task, SameCall
  <1> HIDE DEF i, j
  <1>5. CASE BookingPasses(i)
    <2>1. j.pc \in {"getRoom", "askSlot", "write"}
      BY <1>4 DEF BookingThen
    <2>2. BookingPasses(j)
      BY <1>1, <1>2, <1>4, <1>5 DEF BookingPasses
    <2>3. /\ j.op = "update" /\ j.pc \in {"askSlot", "write"} => j.patch.room \notin Room
          /\ j.op = "update" /\ j.pc = "write" => ~ AsksForSlot(j.patch)
      BY <1>2, <1>4 DEF BookingThen
    <2>4. HasRead(Tables, j)
      BY <1>1, <1>2, <1>4, <2>1, <2>2, <2>3, FieldsOfTables DEF HasRead
    <2>5. j.pc \in Before /\ j.op # "create"
      BY <1>1, <1>2, <1>4, <2>1 DEF Before
    <2> QED  BY <1>1, <1>3, <1>4, <1>5, <2>4, <2>5, ReadsOn
  <1>6. CASE ~ BookingPasses(i)
    BY <1>1, <1>3, <1>6, Refused
  <1> QED  BY <1>5, <1>6

LEMMA RoomIsRead ==
    ASSUME TypeOK, Shaped, SerialInv, NEW p \in Process,
           task[p].pc \in {"getRoom", "setRoom"},
           WithRoom(p, room[RoomAsked(task[p])]),
           UNCHANGED <<now, room, rows, mail>>,
           Fresh(bookingCache', rows', Booking), Fresh(roomCache', room', Room)
    PROVE  Onward(p)
  <1>1. /\ task[p] \in Task /\ HasShape(task[p])
        /\ task[p].op \in {"create", "update", "updateRoom", "removeRoom"}
        /\ task[p].pc \in Before
    BY StepsOfHandlers DEF TypeOK, Shaped, Before
  <1>2. HasRead(Tables, task[p])
    BY <1>1, Running DEF UnderWay, Before
  <1> DEFINE state == room[RoomAsked(task[p])]
             j == [task[p] EXCEPT !.pc = RoomThen(task[p])]
  <1>3. /\ j.op = task[p].op /\ j.row = task[p].row /\ SameCall(j, task[p])
        /\ j.id = task[p].id /\ j.pc = RoomThen(task[p]) /\ j.user = task[p].user
        /\ j.at = task[p].at /\ j.patch = task[p].patch /\ j.rm = task[p].rm
    BY <1>1 DEF Task, SameCall
  <1>4. task' = [task EXCEPT ![p] = IF RoomPasses(task[p], state) THEN j ELSE Idle]
    BY DEF WithRoom, Goto, Done, TypeOK
  <1> HIDE DEF j
  <1>5. CASE RoomPasses(task[p], state)
    <2>1. /\ j.pc \in {"askSlot", "askEmpty", "write"}
          /\ j.pc = "write" => j.op = "updateRoom"
          /\ j.op = "updateRoom" => j.pc = "write"
      BY <1>1, <1>3 DEF RoomThen
    <2>2. /\ j.op = "create" => room[j.rm] = "enabled"
          /\ j.op = "update" => room[j.patch.room] = "enabled"
      BY <1>1, <1>3, <1>5 DEF RoomPasses, RoomAsked
    <2>3. j.op = "update" => j.row = Tables.rows[j.id] /\ BookingPasses(j)
      <3>1. task[p].op = "update" =>
               task[p].row = Tables.rows[task[p].id] /\ BookingPasses(task[p])
        BY <1>2 DEF HasRead
      <3> QED  BY <1>3, <3>1 DEF BookingPasses
    <2>4. HasRead(Tables, j)
      BY <1>1, <1>3, <2>1, <2>2, <2>3, FieldsOfTables DEF HasRead
    <2>5. j.pc \in Before
      BY <2>1 DEF Before
    <2> QED  BY <1>1, <1>3, <1>4, <1>5, <2>4, <2>5, ReadsOn
  <1>6. CASE ~ RoomPasses(task[p], state)
    BY <1>1, <1>4, <1>6, Refused
  <1> QED  BY <1>5, <1>6

LEMMA TakenAsFound ==
    ASSUME NEW k
    PROVE  Taken(k) = TakenIn(rows, k)
  BY DEF Taken, TakenIn

LEMMA ReadsAreSerial ==
    ASSUME TypeOK, Shaped, SerialInv, NEW p \in Process,
           \/ GetBooking(p) \/ SetBooking(p) \/ GetRoom(p) \/ SetRoom(p)
           \/ AskSlot(p) \/ AskEmpty(p)
    PROVE  Onward(p)
  <1>0. task[p].pc \in Before /\ task[p].pc # "idle"
    BY DEF GetBooking, SetBooking, GetRoom, SetRoom, AskSlot, AskEmpty, Before
  <1>1. /\ task[p] \in Task /\ HasShape(task[p]) /\ task[p] # Idle
        /\ settled = Tables /\ HasRead(Tables, task[p])
        /\ Fresh(bookingCache, rows, Booking) /\ Fresh(roomCache, room, Room)
    BY <1>0, Running, FieldsOfTables DEF UnderWay, Before
  <1>2. CASE GetBooking(p)
    <2> DEFINE b == task[p].id
    <2>1. /\ b \in Booking /\ task[p].pc = "getBooking"
          /\ task[p].op \in {"update", "confirm", "cancel"}
      BY <1>1, <1>2, StepsOfHandlers DEF GetBooking, HasShape
    <2>2. UNCHANGED <<now, room, rows, mail, bookingCache, roomCache>>
      BY <1>2 DEF GetBooking
    <2>3. CASE bookingCache[b] # None
      <3>1. bookingCache[b] = rows[b]
        BY <1>1, <2>1, <2>3 DEF Fresh
      <3>2. WithBooking(p, rows[b])
        BY <1>2, <2>3, <3>1 DEF GetBooking
      <3> QED  BY <1>1, <2>1, <2>2, <3>2, BookingIsRead
    <2>4. CASE bookingCache[b] = None /\ Live(rows[b])
      <3> DEFINE j == [task[p] EXCEPT !.pc = "setBooking", !.row = rows[b]]
      <3>1. /\ SameCall(j, task[p]) /\ j.row = rows[b] /\ j.pc = "setBooking"
            /\ j.id = b /\ j.op = task[p].op
        BY <1>1 DEF Task, SameCall
      <3>2. task' = [task EXCEPT ![p] = j]
        BY <1>2, <2>4 DEF GetBooking, TypeOK
      <3> HIDE DEF j
      <3>3. HasRead(Tables, j)
        BY <2>1, <3>1, FieldsOfTables DEF HasRead
      <3>4. j.pc \in Before /\ j.op # "create"
        BY <2>1, <3>1 DEF Before
      <3> QED  BY <1>0, <1>1, <2>2, <3>1, <3>2, <3>3, <3>4, ReadsOn
    <2>5. CASE bookingCache[b] = None /\ ~ Live(rows[b])
      BY <1>0, <1>1, <1>2, <2>2, <2>5, Refused DEF GetBooking, Done
    <2> QED  BY <2>3, <2>4, <2>5
  <1>3. CASE SetBooking(p)
    <2>1. /\ task[p].pc = "setBooking" /\ task[p].row = rows[task[p].id]
          /\ task[p].id \in Booking
      BY <1>1, <1>3, FieldsOfTables, StepsOfHandlers
         DEF SetBooking, HasRead, HasShape
    <2>2. /\ UNCHANGED <<now, room, rows, mail, roomCache>>
          /\ bookingCache' = [bookingCache EXCEPT ![task[p].id] = rows[task[p].id]]
          /\ WithBooking(p, rows[task[p].id])
      BY <1>3, <2>1 DEF SetBooking
    <2>3. Fresh(bookingCache', rows', Booking)
      BY <1>1, <2>1, <2>2 DEF Fresh, TypeOK
    <2> QED  BY <1>1, <2>1, <2>2, <2>3, BookingIsRead
  <1>4. CASE GetRoom(p)
    <2> DEFINE r == RoomAsked(task[p])
    <2>1. /\ r \in Room /\ task[p].pc = "getRoom"
          /\ task[p].op \in {"create", "update", "updateRoom", "removeRoom"}
      BY <1>1, <1>4, StepsOfHandlers DEF GetRoom
    <2>2. UNCHANGED <<now, room, rows, mail, bookingCache, roomCache>>
      BY <1>4 DEF GetRoom
    <2>3. CASE roomCache[r] # None
      <3>1. roomCache[r] = room[r]
        BY <1>1, <2>1, <2>3 DEF Fresh
      <3>2. WithRoom(p, room[r])
        BY <1>4, <2>3, <3>1 DEF GetRoom
      <3> QED  BY <1>1, <2>1, <2>2, <3>2, RoomIsRead
    <2>4. CASE roomCache[r] = None /\ RoomExists(room[r])
      <3> DEFINE j == [task[p] EXCEPT !.pc = "setRoom", !.seen = room[r]]
      <3>1. /\ SameCall(j, task[p]) /\ j.row = task[p].row /\ j.pc = "setRoom"
            /\ j.id = task[p].id /\ j.op = task[p].op /\ j.seen = room[r]
            /\ j.user = task[p].user /\ j.at = task[p].at
            /\ j.patch = task[p].patch /\ j.rm = task[p].rm
        BY <1>1 DEF Task, SameCall
      <3>2. task' = [task EXCEPT ![p] = j]
        BY <1>4, <2>4 DEF GetRoom, TypeOK
      <3> HIDE DEF j
      <3>3. j.op = "update" => j.row = Tables.rows[j.id] /\ BookingPasses(j)
        <4>1. task[p].op = "update" =>
                 task[p].row = Tables.rows[task[p].id] /\ BookingPasses(task[p])
          BY <1>1, <2>1 DEF HasRead
        <4> QED  BY <3>1, <4>1 DEF BookingPasses
      <3>4. j.seen = Tables.room[RoomAsked(j)]
        BY <3>1, FieldsOfTables DEF RoomAsked
      <3>5. HasRead(Tables, j)
        BY <2>1, <3>1, <3>3, <3>4 DEF HasRead
      <3>6. j.pc \in Before
        BY <3>1 DEF Before
      <3> QED  BY <1>0, <1>1, <2>2, <3>1, <3>2, <3>5, <3>6, ReadsOn
    <2>5. CASE roomCache[r] = None /\ ~ RoomExists(room[r])
      BY <1>0, <1>1, <1>4, <2>2, <2>5, Refused DEF GetRoom, Done
    <2> QED  BY <2>3, <2>4, <2>5
  <1>5. CASE SetRoom(p)
    <2> DEFINE r == RoomAsked(task[p])
    <2>1. task[p].pc = "setRoom" /\ task[p].seen = room[r] /\ r \in Room
      BY <1>1, <1>5, FieldsOfTables, StepsOfHandlers DEF SetRoom, HasRead
    <2>2. /\ UNCHANGED <<now, room, rows, mail, bookingCache>>
          /\ roomCache' = [roomCache EXCEPT ![r] = room[r]]
          /\ WithRoom(p, room[r])
      BY <1>5, <2>1 DEF SetRoom
    <2>3. Fresh(roomCache', room', Room)
      BY <1>1, <2>1, <2>2 DEF Fresh, TypeOK
    <2> QED  BY <1>1, <2>1, <2>2, <2>3, RoomIsRead
  <1>6. CASE AskSlot(p)
    <2>1. /\ task[p].pc = "askSlot" /\ task[p].op \in {"create", "update"}
          /\ UNCHANGED <<now, room, rows, mail, bookingCache, roomCache>>
      BY <1>1, <1>6, StepsOfHandlers DEF AskSlot
    <2>2. CASE Taken(task[p]) = {}
      <3> DEFINE j == [task[p] EXCEPT !.pc = "write"]
      <3>1. /\ SameCall(j, task[p]) /\ j.row = task[p].row /\ j.pc = "write"
            /\ j.id = task[p].id /\ j.op = task[p].op
            /\ j.user = task[p].user /\ j.at = task[p].at
            /\ j.patch = task[p].patch /\ j.rm = task[p].rm
        BY <1>1 DEF Task, SameCall
      <3>2. task' = [task EXCEPT ![p] = j]
        BY <1>6, <2>2 DEF AskSlot, Goto, TypeOK
      <3> HIDE DEF j
      <3>3. TakenIn(Tables.rows, j) = {}
        BY <2>2, <3>1, TakenAsFound, FieldsOfTables DEF TakenIn
      <3>4. j.op = "update" => j.row = Tables.rows[j.id] /\ BookingPasses(j)
        <4>1. task[p].op = "update" =>
                 task[p].row = Tables.rows[task[p].id] /\ BookingPasses(task[p])
          BY <1>1, <2>1 DEF HasRead
        <4> QED  BY <3>1, <4>1 DEF BookingPasses
      <3>5. HasRead(Tables, j)
        BY <1>1, <2>1, <3>1, <3>3, <3>4 DEF HasRead
      <3>6. j.pc \in Before
        BY <3>1 DEF Before
      <3> QED  BY <1>0, <1>1, <2>1, <3>1, <3>2, <3>5, <3>6, ReadsOn
    <2>3. CASE Taken(task[p]) # {}
      BY <1>0, <1>1, <1>6, <2>1, <2>3, Refused DEF AskSlot, Done
    <2> QED  BY <2>2, <2>3
  <1>7. CASE AskEmpty(p)
    <2>1. /\ task[p].pc = "askEmpty" /\ task[p].op = "removeRoom"
          /\ UNCHANGED <<now, room, rows, mail, bookingCache, roomCache>>
      BY <1>1, <1>7, StepsOfHandlers DEF AskEmpty
    <2>2. CASE \A b \in Booking : rows[b].room # task[p].rm
      <3> DEFINE j == [task[p] EXCEPT !.pc = "write"]
      <3>1. /\ SameCall(j, task[p]) /\ j.pc = "write" /\ j.op = task[p].op
            /\ j.rm = task[p].rm
        BY <1>1 DEF Task, SameCall
      <3>2. task' = [task EXCEPT ![p] = j]
        BY <1>7, <2>2 DEF AskEmpty, Goto, TypeOK
      <3> HIDE DEF j
      <3>3. HasRead(Tables, j)
        BY <2>1, <2>2, <3>1, FieldsOfTables DEF HasRead
      <3>4. j.pc \in Before /\ j.op # "create"
        BY <2>1, <3>1 DEF Before
      <3> QED  BY <1>0, <1>1, <2>1, <3>1, <3>2, <3>3, <3>4, ReadsOn
    <2>3. CASE ~ \A b \in Booking : rows[b].room # task[p].rm
      BY <1>0, <1>1, <1>7, <2>1, <2>3, Refused DEF AskEmpty, Done
    <2> QED  BY <2>2, <2>3
  <1> QED  BY <1>2, <1>3, <1>4, <1>5, <1>6, <1>7
-----------------------------------------------------------------------------
(* The writes.  Each makes the step of the ledger, of which the answer and *)
(* the listener will bring what is left.                                   *)

LEMMA NothingLost ==
    ASSUME NEW rs \in [Booking -> Row], NEW ml \in [Booking -> Mail],
           NEW u, NEW t, NEW w
    PROVE  RejectAll(rs, {}, u, t) = rs /\ Sent(ml, {}, w) = ml
  BY DEF RejectAll, Sent

(* What the write of p has left to do.                                     *)
LEMMA HasWritten ==
    ASSUME TypeOK, Shaped, SerialInv, NEW p \in Process, task[p].pc = "write",
           NEW j, j.pc = "written", task' = [task EXCEPT ![p] = j],
           Step(Tables, Final(Tables', j)),
           UNCHANGED <<bookingCache, roomCache>>,
           IF j.op \in RoomOps THEN UNCHANGED rows ELSE UNCHANGED room
    PROVE  Onward(p)
  <1>1. /\ settled = Tables
        /\ Fresh(bookingCache, rows, Booking) /\ Fresh(roomCache, room, Room)
    BY Running, FieldsOfTables DEF UnderWay, Before
  <1>2. j # Idle /\ j.pc \notin Before
    BY DEF Idle, Before
  <1>3. UnderWay(j, settled, Tables', bookingCache', roomCache')
    BY <1>1, <1>2, FieldsOfTables DEF UnderWay
  <1> QED  BY <1>2, <1>3 DEF Onward, Leaves

LEMMA InsertIsSerial ==
    ASSUME TypeOK, Shaped, SerialInv, NEW p \in Process, InsertBooking(p)
    PROVE  Onward(p)
  <1>0. task[p].pc = "write" /\ task[p].op = "create" /\ task[p].pc \in Before
    BY DEF InsertBooking, Before
  <1>1. /\ task[p] \in Task /\ HasShape(task[p]) /\ task[p] # Idle
        /\ settled = Tables /\ Asked(Tables, task[p]) /\ HasRead(Tables, task[p])
        /\ Fresh(bookingCache, rows, Booking) /\ Fresh(roomCache, room, Room)
    BY <1>0, Running, FieldsOfTables DEF UnderWay
  <1>2. UNCHANGED <<now, room, mail, bookingCache, roomCache>>
    BY DEF InsertBooking
  <1> DEFINE u == task[p].user
             r == task[p].rm
  <1>3. u \in User /\ r \in Room /\ now \in Time
        /\ rows \in [Booking -> Row] /\ mail \in [Booking -> Mail]
    BY <1>0, <1>1 DEF HasShape, TypeOK
  <1>4. PICK s \in Time, e \in Time :
           now <= s /\ s < e /\ task[p].row = NewRow(u, r, s, e, now)
    BY <1>0, <1>1, FieldsOfTables DEF Asked
  <1> DEFINE row == NewRow(u, r, s, e, now)
  <1>5. /\ row \in Row /\ row.room = r /\ row.start = s /\ row.end = e
        /\ row.creator = u
        /\ row.status = IF u \in Approvers THEN "approved" ELSE "pending"
        /\ [row EXCEPT !.updatedAt = now] = row
    BY <1>3, <1>4, NewRowIsRow DEF NewRow
  <1>6. room[r] = "enabled" /\ Overlapping(rows, "approved", r, s, e) = {}
    BY <1>0, <1>1, <1>4, <1>5, FieldsOfTables DEF HasRead, TakenIn
  <1>7. CASE ~ RoomExists(room[r])
    BY <1>0, <1>1, <1>2, <1>7, Refused DEF InsertBooking, Done
  <1>8. CASE RoomExists(room[r])
    <2>1. PICK b \in Booking :
             /\ rows[b].status = "unborn"
             /\ rows' = [rows EXCEPT ![b] = row]
             /\ task' = [task EXCEPT ![p].pc = "written", ![p].id = b]
      BY <1>4, <1>5, <1>8 DEF InsertBooking
    <2> DEFINE j == [task[p] EXCEPT !.pc = "written", !.id = b]
    <2>2. /\ j.op = "create" /\ j.pc = "written" /\ j.user = u /\ j.row = row
          /\ j.rm = r /\ j.status = task[p].status
      BY <1>0, <1>1, <1>4 DEF Task
    <2>3. task' = [task EXCEPT ![p] = j]
      BY <2>1 DEF TypeOK
    <2> HIDE DEF j, row
    <2> DEFINE losers == IF u \in Approvers
                         THEN Overlapping(rows, "pending", r, s, e) ELSE {}
    <2>4. rows' \in [Booking -> Row]
      BY <1>3, <1>5, <2>1
    <2>5. Starts(j) <=> u \in Approvers
      BY <1>5, <2>2 DEF Starts, ApprovalStartsListener, DisableStartsListener
    <2>6. Told(Tables', j) = mail
      BY <1>2, <2>2, FieldsOfTables DEF Told
    <2>7. Final(Tables', j) =
             Becomes(Tables, room, RejectAll(rows', losers, u, now),
                     Sent(mail, losers, "reject"))
      <3>1. CASE u \in Approvers
        <4> DEFINE h == Heir(Tables', j)
        <4>1. /\ h.op = "rejectOverlap" /\ h.pc = "collect" /\ h.user = u
              /\ h.row = row
          BY <2>2 DEF Heir, Idle
        <4> HIDE DEF h
        <4>2. FoundIn(rows', h) = Overlapping(rows', "pending", r, s, e)
          BY <1>5, <4>1 DEF FoundIn
        <4>3. Overlapping(rows', "pending", r, s, e) = losers
          <5>1. \A x \in Booking : x # b => rows'[x] = rows[x]
            BY <1>3, <2>1
          <5>2. rows'[b].status = "approved"
            BY <1>3, <1>5, <2>1, <3>1
          <5> QED  BY <2>1, <3>1, <5>1, <5>2 DEF Overlapping
        <4>4. /\ Left(rows', h) = losers /\ Untold(rows', h) = losers
              /\ Word(h) = "reject"
          BY <4>1, <4>2, <4>3 DEF Left, Untold, Word
        <4>5. \A x \in Booking : Effect(h, rows'[x], now) =
                                    Decided(rows'[x], "reject", u, now)
          BY <4>1 DEF Effect
        <4>6. Final(Tables', j) = Ahead(Tables', h, mail)
          BY <2>2, <2>5, <2>6, <3>1 DEF Final, h
        <4> QED  BY <1>2, <4>4, <4>5, <4>6, FieldsOfTables
                 DEF Ahead, Becomes, RejectAll
      <3>2. CASE u \notin Approvers
        <4>1. losers = {}
          BY <3>2
        <4>2. Final(Tables', j) = Becomes(Tables', room, rows', mail)
          BY <1>2, <2>2, <2>5, <2>6, <3>2, FieldsOfTables DEF Final
        <4> QED  BY <1>2, <1>3, <2>4, <4>1, <4>2, NothingLost, FieldsOfTables
                 DEF Becomes
      <3> QED  BY <3>1, <3>2
    <2>8. Creates(Tables, Final(Tables', j))
      <3>1. rows' = [rows EXCEPT ![b] = NewRow(u, r, s, e, now)]
        BY <2>1 DEF row
      <3>2. CreatesOne(Tables, Final(Tables', j), b, u, r, s, e)
        BY <1>4, <1>6, <2>1, <2>7, <3>1, FieldsOfTables DEF CreatesOne
      <3> QED  BY <1>3, <1>4, <3>2 DEF Creates
    <2>9. Step(Tables, Final(Tables', j)) /\ j.op \notin RoomOps
      BY <2>2, <2>8 DEF Step, RoomOps
    <2> QED  BY <1>0, <1>2, <2>2, <2>3, <2>9, HasWritten
  <1> QED  BY <1>7, <1>8

LEMMA WriteIsSerial ==
    ASSUME TypeOK, Shaped, SerialInv, NEW p \in Process, WriteBooking(p)
    PROVE  Onward(p)
  <1>0. /\ task[p].pc = "write" /\ task[p].op \in {"update", "confirm", "cancel"}
        /\ task[p].pc \in Before
    BY DEF WriteBooking, Before
  <1>1. /\ task[p] \in Task /\ HasShape(task[p]) /\ task[p] # Idle
        /\ settled = Tables /\ Asked(Tables, task[p]) /\ HasRead(Tables, task[p])
        /\ Fresh(bookingCache, rows, Booking) /\ Fresh(roomCache, room, Room)
    BY <1>0, Running, FieldsOfTables DEF UnderWay
  <1>2. UNCHANGED <<now, room, mail, bookingCache, roomCache>>
    BY DEF WriteBooking
  <1> DEFINE b == task[p].id
             u == task[p].user
             new == Written(task[p])
             j == [task[p] EXCEPT !.pc = "written", !.row = new]
  <1>3. /\ u \in User /\ b \in Booking /\ now \in Time /\ rows[b] \in Row
        /\ rows \in [Booking -> Row] /\ mail \in [Booking -> Mail]
    BY <1>0, <1>1 DEF HasShape, TypeOK
  <1>4. task[p].row = rows[b] /\ BookingPasses(task[p])
    BY <1>0, <1>1, FieldsOfTables DEF HasRead
  <1>5. /\ j.op = task[p].op /\ j.pc = "written" /\ j.user = u /\ j.row = new
        /\ j.id = b /\ j.status = task[p].status /\ j.op \notin RoomOps
    BY <1>0, <1>1 DEF Task, RoomOps
  <1>6. \/ task' = [task EXCEPT ![p] = Idle] /\ UNCHANGED rows
        \/ /\ Live(rows[b]) /\ rows' = [rows EXCEPT ![b] = new]
           /\ task' = [task EXCEPT ![p] = j]
    BY DEF WriteBooking, Done, TypeOK
  <1>7. CASE task' = [task EXCEPT ![p] = Idle] /\ UNCHANGED rows
    BY <1>0, <1>1, <1>2, <1>7, Refused
  <1>8. CASE /\ Live(rows[b]) /\ rows' = [rows EXCEPT ![b] = new]
             /\ task' = [task EXCEPT ![p] = j]
    <2>1. /\ new \in Row /\ new.creator = rows[b].creator
          /\ rows' \in [Booking -> Row]
          /\ task[p].op # "update" =>
                /\ new.room = rows[b].room /\ new.start = rows[b].start
                /\ new.end = rows[b].end
      BY <1>0, <1>3, <1>8, WrittenIsRow
    <2> HIDE DEF j, new
    <2>2. ASSUME task[p].op = "update"
          PROVE  Step(Tables, Final(Tables', j))
      <3> DEFINE patch == task[p].patch
      <3>1. /\ patch \in Patch /\ ValidPatch(patch, now)
            /\ rows[b].status = "pending" /\ rows[b].creator = u
            /\ patch.room \in Room => room[patch.room] = "enabled"
            /\ AsksForSlot(patch) => TakenIn(rows, task[p]) = {}
        BY <1>0, <1>1, <1>4, <2>2, MoreTypes, FieldsOfTables
           DEF HasShape, Asked, HasRead, BookingPasses
      <3>2. AsksForSlot(patch) =>
               Overlapping(rows, "approved", AskedRoom(patch, rows[b]),
                           Given(patch.start, rows[b].start),
                           Given(patch.end, rows[b].end)) = {}
        BY <1>4, <2>2, <3>1 DEF TakenIn
      <3>3. new = Patched(rows[b], patch, now)
        BY <2>2 DEF new, Written
      <3>4. Final(Tables', j) = Becomes(Tables, room, rows', mail)
        BY <1>2, <1>5, <2>2, FieldsOfTables
           DEF Final, Starts, ApprovalStartsListener, DisableStartsListener, Told,
               Becomes
      <3>5. UpdatesOne(Tables, Final(Tables', j), b, u, patch)
        BY <1>8, <3>1, <3>2, <3>3, <3>4, FieldsOfTables DEF UpdatesOne
      <3> QED  BY <1>3, <3>1, <3>5 DEF Step, Updates
    <2>3. ASSUME task[p].op = "confirm"
          PROVE  Step(Tables, Final(Tables', j))
      <3> DEFINE d == task[p].status
                 ml == Sent(mail, {b}, d)
                 losers == IF d = "approved"
                           THEN Overlapping(rows', "pending", rows[b].room,
                                            rows[b].start, rows[b].end)
                           ELSE {}
      <3>1. /\ d \in {"approved", "reject"} /\ u \in Confirmers
            /\ rows[b].status = "pending" /\ d \in Status /\ d \in Mail
        BY <1>1, <1>4, <2>3 DEF HasShape, BookingPasses, Status, Mail
      <3>2. new = Decided(rows[b], d, u, now)
        BY <2>3 DEF new, Written
      <3>3. new.status = d
        BY <1>3, <3>1, <3>2, DecidedIsRow
      <3>4. Told(Tables', j) = ml
        BY <1>2, <1>5, <2>3, <3>3, FieldsOfTables DEF Told
      <3>5. Starts(j) <=> d = "approved"
        BY <1>5, <2>3, <3>3 DEF Starts, ApprovalStartsListener, DisableStartsListener
      <3>6. Final(Tables', j) = Becomes(Tables, room, RejectAll(rows', losers, u, now),
                                        Sent(ml, losers, "reject"))
        <4>1. CASE d = "approved"
          <5> DEFINE h == Heir(Tables', j)
          <5>1. /\ h.op = "rejectOverlap" /\ h.pc = "collect" /\ h.user = u
                /\ h.row = new
            BY <1>5, <2>3 DEF Heir, Idle
          <5>2. Final(Tables', j) = Ahead(Tables', h, ml)
            BY <1>5, <3>4, <3>5, <4>1 DEF Final
          <5> HIDE DEF h, ml
          <5>3. /\ Left(rows', h) = losers /\ Untold(rows', h) = losers
                /\ Word(h) = "reject"
            BY <2>1, <2>3, <4>1, <5>1 DEF Left, Untold, Word, FoundIn
          <5>4. \A x \in Booking : Effect(h, rows'[x], now) =
                                      Decided(rows'[x], "reject", u, now)
            BY <5>1 DEF Effect
          <5> HIDE DEF losers
          <5> QED  BY <1>2, <5>2, <5>3, <5>4, FieldsOfTables
                   DEF Ahead, Becomes, RejectAll
        <4>2. CASE d # "approved"
          <5>1. losers = {}
            BY <4>2
          <5>2. Final(Tables', j) = Becomes(Tables', room, rows', ml)
            BY <1>2, <1>5, <3>4, <3>5, <4>2, FieldsOfTables DEF Final
          <5>3. ml \in [Booking -> Mail]
            BY <1>3, <3>1, SentIsMail
          <5> QED  BY <1>2, <2>1, <5>1, <5>2, <5>3, NothingLost, FieldsOfTables, SMTT(60)
                   DEF Becomes
        <4> QED  BY <4>1, <4>2
      <3>7. ConfirmsOne(Tables, Final(Tables', j), b, u, d)
        BY <1>8, <3>1, <3>2, <3>6, FieldsOfTables DEF ConfirmsOne
      <3> QED  BY <1>3, <3>1, <3>7 DEF Step, Confirms
    <2>4. ASSUME task[p].op = "cancel"
          PROVE  Step(Tables, Final(Tables', j))
      <3>1. /\ rows[b].status \in {"pending", "approved"} /\ now <= rows[b].start
            /\ rows[b].creator = u \/ u \in Approvers
        BY <1>1, <1>4, <2>4, FieldsOfTables DEF BookingPasses, Asked
      <3>2. new = Cancelled(rows[b], u, now)
        BY <1>4, <2>4 DEF new, Written, Cancelled
      <3>3. new.status = "cancel" /\ new.creator = rows[b].creator
        BY <1>3, <2>1, <3>2, CancelledIsRow
      <3>4. Final(Tables', j) =
               Becomes(Tables, room, rows', IF rows[b].creator = u THEN mail
                                            ELSE Sent(mail, {b}, "cancel"))
        BY <1>2, <1>5, <2>4, <3>3, FieldsOfTables
           DEF Final, Starts, ApprovalStartsListener, DisableStartsListener, Told,
               Becomes
      <3>5. CancelsOne(Tables, Final(Tables', j), b, u)
        BY <1>8, <3>1, <3>2, <3>4, FieldsOfTables DEF CancelsOne
      <3> QED  BY <1>3, <3>5 DEF Step, Cancels
    <2> QED  BY <1>0, <1>2, <1>5, <1>8, <2>2, <2>3, <2>4, HasWritten
  <1> QED  BY <1>6, <1>7, <1>8

LEMMA WriteRoomIsSerial ==
    ASSUME TypeOK, Shaped, SerialInv, NEW p \in Process,
           WriteRoom(p) \/ DeleteRoom(p)
    PROVE  Onward(p)
  <1>0. /\ task[p].pc = "write" /\ task[p].op \in RoomOps
        /\ task[p].pc \in Before
    BY DEF WriteRoom, DeleteRoom, Before, RoomOps
  <1>1. /\ task[p] \in Task /\ HasShape(task[p]) /\ task[p] # Idle
        /\ settled = Tables /\ HasRead(Tables, task[p])
        /\ Fresh(bookingCache, rows, Booking) /\ Fresh(roomCache, room, Room)
    BY <1>0, Running, FieldsOfTables DEF UnderWay
  <1> DEFINE r == task[p].rm
             state == task[p].status
             j == [task[p] EXCEPT !.pc = "written"]
  <1>2. r \in Room /\ now \in Time
        /\ rows \in [Booking -> Row] /\ mail \in [Booking -> Mail]
    BY <1>0, <1>1 DEF HasShape, TypeOK, RoomOps
  <1>3. /\ j.op = task[p].op /\ j.pc = "written" /\ j.rm = r /\ j.status = state
        /\ j.user = task[p].user /\ j.row = task[p].row
    BY <1>1 DEF Task
  <1>4. task[p].op = "removeRoom" => RowsWithout(r) = rows
    <2>1. task[p].op = "removeRoom" => \A b \in Booking : rows[b].room # r
      BY <1>0, <1>1, FieldsOfTables DEF HasRead
    <2> QED  BY <1>2, <2>1 DEF RowsWithout
  <1>5. UNCHANGED <<now, rows, mail, bookingCache, roomCache>>
    BY <1>4 DEF WriteRoom, DeleteRoom
  <1>6. \/ task' = [task EXCEPT ![p] = Idle] /\ UNCHANGED room
        \/ /\ task' = [task EXCEPT ![p] = j]
           /\ \/ /\ task[p].op = "createRoom" /\ room[r] = "unborn"
                 /\ room' = [room EXCEPT ![r] = state]
              \/ /\ task[p].op = "updateRoom" /\ RoomExists(room[r])
                 /\ room' = [room EXCEPT ![r] = state]
              \/ /\ task[p].op = "removeRoom" /\ RoomExists(room[r])
                 /\ room' = [room EXCEPT ![r] = "deleted"]
    BY DEF WriteRoom, DeleteRoom, Done, Goto, TypeOK
  <1> HIDE DEF j
  <1>7. CASE task' = [task EXCEPT ![p] = Idle] /\ UNCHANGED room
    BY <1>0, <1>1, <1>5, <1>7, Refused
  <1>8. ASSUME task' = [task EXCEPT ![p] = j], Step(Tables, Final(Tables', j))
        PROVE  Onward(p)
    BY <1>0, <1>3, <1>5, <1>8, HasWritten
  <1>9. ASSUME ~ Starts(j)
        PROVE  Final(Tables', j) = Becomes(Tables, room', rows, mail)
    BY <1>0, <1>3, <1>5, <1>9, FieldsOfTables DEF Final, Told, Becomes, RoomOps
  <1>10. ASSUME /\ task[p].op = "createRoom" /\ room[r] = "unborn"
                /\ room' = [room EXCEPT ![r] = state]
         PROVE  Step(Tables, Final(Tables', j))
    <2>1. ~ Starts(j) /\ state \in {"enabled", "disabled"}
      BY <1>1, <1>3, <1>10
         DEF Starts, ApprovalStartsListener, DisableStartsListener, HasShape
    <2>2. CreatesRoom(Tables, Final(Tables', j))
      BY <1>2, <1>9, <1>10, <2>1, FieldsOfTables DEF CreatesRoom
    <2> QED  BY <2>2 DEF Step
  <1>11. ASSUME /\ task[p].op = "removeRoom" /\ RoomExists(room[r])
                /\ room' = [room EXCEPT ![r] = "deleted"]
         PROVE  Step(Tables, Final(Tables', j))
    <2>1. ~ Starts(j)
      BY <1>3, <1>11 DEF Starts, ApprovalStartsListener, DisableStartsListener
    <2>2. \A b \in Booking : rows[b].room # r
      BY <1>0, <1>1, <1>11, FieldsOfTables DEF HasRead
    <2>3. RemovesRoom(Tables, Final(Tables', j))
      BY <1>2, <1>9, <1>11, <2>1, <2>2, FieldsOfTables DEF RemovesRoom
    <2> QED  BY <2>3 DEF Step
  <1>12. ASSUME /\ task[p].op = "updateRoom" /\ RoomExists(room[r])
                /\ room' = [room EXCEPT ![r] = state]
         PROVE  Step(Tables, Final(Tables', j))
    <2>0. state \in {"enabled", "disabled"}
      BY <1>1, <1>12 DEF HasShape
    <2>1. CASE state = "enabled"
      <3>1. ~ Starts(j)
        BY <1>3, <1>12, <2>1
           DEF Starts, ApprovalStartsListener, DisableStartsListener
      <3>2. EnablesRoom(Tables, Final(Tables', j))
        BY <1>2, <1>9, <1>12, <2>1, <3>1, FieldsOfTables DEF EnablesRoom
      <3> QED  BY <3>2 DEF Step
    <2>2. CASE state = "disabled"
      <3> DEFINE h == Heir(Tables', j)
                 moved == ToPend(rows, r, now)
      <3>1. Starts(j) /\ Told(Tables', j) = mail
        BY <1>3, <1>5, <1>12, <2>2, FieldsOfTables
           DEF Starts, DisableStartsListener, Told
      <3>2. Final(Tables', j) = Ahead(Tables', h, mail)
        BY <1>3, <3>1 DEF Final
      <3>3. h.op = "pendRoom" /\ h.pc = "collect" /\ h.rm = r /\ h.at = now
        BY <1>3, <1>5, <1>12, FieldsOfTables DEF Heir, Idle
      <3> HIDE DEF h
      <3>4. /\ Left(rows, h) = moved /\ Untold(rows, h) = moved
            /\ Word(h) = "pending"
        BY <3>3 DEF Left, Untold, Word, FoundIn
      <3>5. \A x \in Booking : Effect(h, rows[x], now) = Moved(rows[x], "pending", now)
        BY <3>3 DEF Effect
      <3> HIDE DEF moved
      <3>6. Final(Tables', j) =
               Becomes(Tables, [room EXCEPT ![r] = "disabled"],
                       [b \in Booking |-> IF b \in moved
                                          THEN Moved(rows[b], "pending", now)
                                          ELSE rows[b]],
                       Sent(mail, moved, "pending"))
        BY <1>5, <1>12, <2>2, <3>2, <3>4, <3>5, FieldsOfTables DEF Ahead, Becomes
      <3>7. DisablesRoom(Tables, Final(Tables', j))
        BY <1>2, <1>12, <3>6, FieldsOfTables DEF DisablesRoom, DisablesOne, moved
      <3> QED  BY <3>7 DEF Step
    <2> QED  BY <2>0, <2>1, <2>2
  <1> QED  BY <1>6, <1>7, <1>8, <1>10, <1>11, <1>12
-----------------------------------------------------------------------------
(* The steps after the write: what is left to do becomes less, and what    *)
(* the tables will be in the end stays the same.                           *)

LEMMA HasMore ==
    ASSUME TypeOK, Shaped, SerialInv, NEW p \in Process,
           task[p].pc \notin Before, task[p].pc # "idle",
           NEW j, j.op \notin RoomOps,
           \/ j.pc = "collect" /\ Fresh(bookingCache', rows', Booking)
           \/ j.pc \in {"apply", "applied"} /\ Alive(rows', j.todo),
           task' = [task EXCEPT ![p] = j],
           Final(Tables', j) = Final(Tables, task[p]),
           Fresh(roomCache', room', Room)
    PROVE  Onward(p)
  <1>1. Step(settled, Final(Tables, task[p]))
    BY Running DEF UnderWay
  <1>2. j # Idle /\ j.pc \notin Before /\ j.pc # "written"
    BY DEF Idle, Before
  <1>3. UnderWay(j, settled, Tables', bookingCache', roomCache')
    BY <1>1, <1>2, FieldsOfTables DEF UnderWay
  <1> QED  BY <1>2, <1>3 DEF Onward, Leaves

LEMMA IsDone ==
    ASSUME TypeOK, Shaped, SerialInv, NEW p \in Process,
           task[p].pc \notin Before, task[p].pc # "idle",
           task' = [task EXCEPT ![p] = Idle],
           Tables' = Final(Tables, task[p]),
           Fresh(bookingCache', rows', Booking), Fresh(roomCache', room', Room)
    PROVE  Onward(p)
  <1>1. Step(settled, Final(Tables, task[p]))
    BY Running DEF UnderWay
  <1> QED  BY <1>1 DEF Onward, Leaves

LEMMA ColdIsFresh ==
    /\ \A table : Fresh(ColdBookings, table, Booking)
    /\ \A table : Fresh(ColdRooms, table, Room)
  BY DEF ColdBookings, ColdRooms, Fresh

(* Where the tables are the same but for the mails, a listener that starts *)
(* has as much ahead.                                                      *)
LEMMA SameAhead ==
    ASSUME UNCHANGED <<now, room, rows>>, NEW j
    PROVE  Ahead(Tables', j, mail') = Ahead(Tables, j, mail')
  BY FieldsOfTables DEF Ahead, Becomes

LEMMA AnswersAreSerial ==
    ASSUME TypeOK, Shaped, SerialInv, NEW p \in Process,
           BookingWritten(p) \/ RoomWritten(p)
    PROVE  Onward(p)
  <1> DEFINE k == task[p]
             h == Heir(Tables, k)
  <1>0. k.pc = "written" /\ k.pc \notin Before /\ k.pc # "idle"
    BY DEF BookingWritten, RoomWritten, Before
  <1>1. /\ k \in Task /\ HasShape(k)
        /\ UnderWay(k, settled, Tables, bookingCache, roomCache)
    BY <1>0, Running
  <1>2. UNCHANGED <<now, room, rows>>
    BY DEF BookingWritten, RoomWritten
  <1>3. /\ mail' = Told(Tables, k)
        /\ IF Starts(k)
           THEN task' = [task EXCEPT ![p] = h]
           ELSE task' = [task EXCEPT ![p] = Idle]
    <2>1. CASE BookingWritten(p)
      <3>1. mail' = Told(Tables, k)
        BY <2>1, FieldsOfTables DEF BookingWritten, Told, Template
      <3>2. k.op \in {"create", "update", "confirm", "cancel"}
        BY <2>1 DEF BookingWritten
      <3>3. Starts(k) <=> ApprovalStartsListener(k)
        BY <3>2 DEF Starts, DisableStartsListener
      <3>4. IF ApprovalStartsListener(k) THEN Listen(p, "rejectOverlap", k) ELSE Done(p)
        BY <2>1 DEF BookingWritten
      <3> QED  BY <3>1, <3>2, <3>3, <3>4, FieldsOfTables DEF Listen, Done, Heir
    <2>2. CASE RoomWritten(p)
      <3>1. k.op \in RoomOps /\ UNCHANGED mail
        BY <2>2 DEF RoomWritten, RoomOps
      <3>2. mail' = Told(Tables, k)
        BY <3>1, FieldsOfTables DEF Told, RoomOps
      <3>3. /\ Starts(k) <=> DisableStartsListener(k)
            /\ DisableStartsListener(k) => k.op = "updateRoom"
        BY <3>1 DEF Starts, ApprovalStartsListener, DisableStartsListener, RoomOps
      <3>4. IF DisableStartsListener(k) THEN Listen(p, "pendRoom", k) ELSE Done(p)
        BY <2>2 DEF RoomWritten
      <3> QED  BY <3>2, <3>3, <3>4, FieldsOfTables DEF Listen, Done, Heir
    <2> QED  BY <2>1, <2>2
  <1>4. Fresh(bookingCache', rows', Booking) /\ Fresh(roomCache', room', Room)
    <2>1. CASE BookingWritten(p)
      <3>1. bookingCache' = ColdBookings /\ UNCHANGED roomCache /\ k.op \notin RoomOps
        BY <2>1 DEF BookingWritten, RoomOps
      <3> QED  BY <1>1, <1>2, <3>1, ColdIsFresh, FieldsOfTables DEF UnderWay
    <2>2. CASE RoomWritten(p)
      <3>1. roomCache' = ColdRooms /\ UNCHANGED bookingCache /\ k.op \in RoomOps
        BY <2>2 DEF RoomWritten, RoomOps
      <3> QED  BY <1>1, <1>2, <3>1, ColdIsFresh, FieldsOfTables DEF UnderWay
    <2> QED  BY <2>1, <2>2
  <1>5. CASE Starts(k)
    <2>1. h.pc = "collect" /\ h.op \notin RoomOps
      BY DEF Heir, Idle, RoomOps
    <2>2. Final(Tables', h) = Final(Tables, k)
      BY <1>0, <1>2, <1>3, <1>5, <2>1, SameAhead, FieldsOfTables DEF Final
    <2> HIDE DEF h
    <2> QED  BY <1>0, <1>3, <1>4, <1>5, <2>1, <2>2, HasMore
  <1>6. CASE ~ Starts(k)
    <2>1. Tables' = Final(Tables, k)
      BY <1>0, <1>2, <1>3, <1>6, FieldsOfTables DEF Final, Becomes, Tables
    <2> QED  BY <1>0, <1>3, <1>4, <1>6, <2>1, IsDone
  <1> QED  BY <1>5, <1>6

(* The rows and the mails of Final while a loop runs.                      *)
LEMMA FinalOfLoops ==
    ASSUME NEW S, NEW k, k.pc # "written"
    PROVE  Final(S, k) =
             [now |-> S.now, room |-> S.room,
              rows |-> [b \in Booking |-> IF b \in Left(S.rows, k)
                                          THEN Effect(k, S.rows[b], S.now)
                                          ELSE S.rows[b]],
              mail |-> Sent(S.mail, Untold(S.rows, k), Word(k))]
  BY DEF Final, Ahead, Becomes

(* Two moments with the same end.                                          *)
LEMMA SameFinal ==
    ASSUME NEW S, NEW T, NEW j, NEW k,
           j.pc # "written", k.pc # "written",
           S.now = T.now, S.room = T.room,
           \A b \in Booking :
              (IF b \in Left(S.rows, j) THEN Effect(j, S.rows[b], S.now)
                                        ELSE S.rows[b])
            = (IF b \in Left(T.rows, k) THEN Effect(k, T.rows[b], T.now)
                                        ELSE T.rows[b]),
           \A b \in Booking :
              (IF b \in Untold(S.rows, j) THEN Word(j) ELSE S.mail[b])
            = (IF b \in Untold(T.rows, k) THEN Word(k) ELSE T.mail[b])
    PROVE  Final(S, j) = Final(T, k)
  <1>1. [b \in Booking |-> IF b \in Left(S.rows, j)
                           THEN Effect(j, S.rows[b], S.now) ELSE S.rows[b]]
        = [b \in Booking |-> IF b \in Left(T.rows, k)
                             THEN Effect(k, T.rows[b], T.now) ELSE T.rows[b]]
    OBVIOUS
  <1>2. Sent(S.mail, Untold(S.rows, j), Word(j)) = Sent(T.mail, Untold(T.rows, k), Word(k))
    BY DEF Sent
  <1> QED  BY <1>1, <1>2, FinalOfLoops

(* A loop with nothing left has the tables in the end that there are.      *)
LEMMA NothingAhead ==
    ASSUME NEW S, NEW k, k.pc # "written",
           S = [now |-> S.now, room |-> S.room, rows |-> S.rows, mail |-> S.mail],
           S.rows \in [Booking -> Row], S.mail \in [Booking -> Mail],
           Left(S.rows, k) = {}, Untold(S.rows, k) = {}
    PROVE  Final(S, k) = S
  <1>1. [b \in Booking |-> IF b \in Left(S.rows, k)
                           THEN Effect(k, S.rows[b], S.now) ELSE S.rows[b]] = S.rows
    OBVIOUS
  <1>2. Sent(S.mail, Untold(S.rows, k), Word(k)) = S.mail
    BY NothingLost
  <1> QED  BY <1>1, <1>2, FinalOfLoops

LEMMA TablesAreRecords ==
    ASSUME TypeOK
    PROVE  /\ Tables = [now |-> Tables.now, room |-> Tables.room,
                        rows |-> Tables.rows, mail |-> Tables.mail]
           /\ Tables.rows \in [Booking -> Row] /\ Tables.mail \in [Booking -> Mail]
  BY DEF Tables, TypeOK

LEMMA FoundAsListed ==
    ASSUME NEW k, k.op \in Listeners \cup Jobs
    PROVE  /\ Found(k) = FoundIn(rows, k)
           /\ Found(k) \subseteq Booking
           /\ \A b \in Found(k) : Live(rows[b])
  <1>1. Found(k) = FoundIn(rows, k)
    BY DEF Listeners, Jobs, Found, FoundIn, ExpiredAt, DecidedBefore,
           ToPend, ToReject, ToDelete
  <1>2. \A b \in FoundIn(rows, k) :
           b \in Booking /\ rows[b].status \in {"pending", "approved", "reject", "cancel"}
    <2>1. CASE k.op = "rejectOverlap"
      BY <2>1 DEF FoundIn, Overlapping
    <2>2. CASE k.op = "pendRoom"
      BY <2>2 DEF FoundIn, ToPend
    <2>3. CASE k.op = "rejectExpired"
      BY <2>3 DEF FoundIn, ToReject
    <2>4. CASE k.op = "deleteOld"
      BY <2>4 DEF FoundIn, ToDelete
    <2> QED  BY <2>1, <2>2, <2>3, <2>4 DEF Listeners, Jobs
  <1> QED  BY <1>1, <1>2 DEF Live, Status

LEMMA CollectIsSerial ==
    ASSUME TypeOK, Shaped, SerialInv, NEW p \in Process, Collect(p)
    PROVE  Onward(p)
  <1> DEFINE k == task[p]
  <1>0. k.pc = "collect" /\ k.pc \notin Before /\ k.pc # "idle"
    BY DEF Collect, Before
  <1>1. /\ k \in Task /\ HasShape(k)
        /\ UnderWay(k, settled, Tables, bookingCache, roomCache)
        /\ k.op \in Listeners \cup Jobs
    BY <1>0, Running, StepsOfHandlers
  <1>2. UNCHANGED <<now, room, rows, mail, bookingCache, roomCache>>
    BY DEF Collect
  <1>3. /\ Fresh(bookingCache', rows', Booking) /\ Fresh(roomCache', room', Room)
        /\ Tables' = Tables
    BY <1>0, <1>1, <1>2, TablesStay, FieldsOfTables DEF UnderWay
  <1>4. Found(k) = FoundIn(rows, k) /\ Left(rows, k) = Found(k)
    BY <1>0, <1>1, FoundAsListed DEF Left
  <1>5. CASE Found(k) = {}
    <2>1. Untold(rows, k) = {}
      BY <1>0, <1>4, <1>5 DEF Untold
    <2>2. Final(Tables, k) = Tables
      BY <1>0, <1>4, <1>5, <2>1, NothingAhead, TablesAreRecords, FieldsOfTables
    <2>3. task' = [task EXCEPT ![p] = Idle]
      BY <1>5 DEF Collect, Done
    <2> QED  BY <1>0, <1>3, <2>2, <2>3, IsDone
  <1>6. CASE Found(k) # {}
    <2> DEFINE j == [k EXCEPT !.pc = "apply", !.todo = Found(k)]
    <2>1. /\ j.pc = "apply" /\ j.todo = Found(k) /\ j.op = k.op /\ j.user = k.user
      BY <1>1 DEF Task
    <2>2. task' = [task EXCEPT ![p] = j]
      BY <1>6 DEF Collect, TypeOK
    <2> HIDE DEF j
    <2>3. /\ Left(rows, j) = Left(rows, k) /\ Untold(rows, j) = Untold(rows, k)
          /\ Word(j) = Word(k)
      BY <1>0, <1>4, <2>1 DEF Left, Untold, Word
    <2>4. \A b \in Booking : Effect(j, rows[b], now) = Effect(k, rows[b], now)
      BY <1>1, <2>1 DEF Effect, Listeners, Jobs
    <2>5. Final(Tables', j) = Final(Tables, k)
      BY <1>0, <1>3, <2>1, <2>3, <2>4, SameFinal, FieldsOfTables
    <2>6. /\ j.pc \in {"collect", "apply", "applied"} /\ j.op \notin RoomOps
          /\ j.pc # "collect"
      BY <1>1, <2>1 DEF Listeners, Jobs, RoomOps
    <2>7. Alive(rows', j.todo)
      BY <1>1, <1>2, <2>1, FoundAsListed DEF Alive
    <2> QED  BY <1>0, <1>3, <2>2, <2>5, <2>6, <2>7, HasMore
  <1> QED  BY <1>5, <1>6

(* One round of a rejecting loop.  The rows it has found are all there, as *)
(* nobody else runs.                                                       *)
LEMMA RejectIsSerial ==
    ASSUME TypeOK, Shaped, SerialInv, NEW p \in Process, RejectOne(p)
    PROVE  Onward(p)
  <1> DEFINE k == task[p]
  <1>0. /\ k.pc = "apply" /\ k.pc \notin Before /\ k.pc # "idle"
        /\ k.op \in {"rejectOverlap", "rejectExpired"} /\ k.op \notin RoomOps
    BY DEF RejectOne, Before, RoomOps
  <1>1. /\ k \in Task /\ HasShape(k)
        /\ UnderWay(k, settled, Tables, bookingCache, roomCache)
        /\ k.todo \subseteq Booking /\ rows \in [Booking -> Row]
    BY <1>0, Running DEF Task, TypeOK
  <1>2. UNCHANGED <<now, room, mail, bookingCache, roomCache>>
    BY DEF RejectOne
  <1>3. Fresh(roomCache', room', Room) /\ Alive(rows, k.todo)
    BY <1>0, <1>1, <1>2, FieldsOfTables DEF UnderWay
  <1>4. PICK b \in k.todo :
           IF Live(rows[b])
           THEN /\ rows' = [rows EXCEPT ![b] =
                              IF k.op = "rejectOverlap"
                              THEN Decided(@, "reject", k.user, now)
                              ELSE Moved(@, "reject", now)]
                /\ task' = [task EXCEPT ![p].pc = "applied", ![p].id = b,
                                        ![p].todo = @ \ {b}]
           ELSE Done(p) /\ UNCHANGED rows
    BY DEF RejectOne
  <1> DEFINE j == [k EXCEPT !.pc = "applied", !.id = b, !.todo = @ \ {b}]
  <1>5. /\ j.pc = "applied" /\ j.id = b /\ j.todo = k.todo \ {b} /\ j.op = k.op
        /\ j.user = k.user
    BY <1>1 DEF Task
  <1>6. /\ Live(rows[b]) /\ b \in Booking
        /\ rows' = [rows EXCEPT ![b] = Effect(k, rows[b], now)]
        /\ task' = [task EXCEPT ![p] = j]
    BY <1>0, <1>1, <1>3, <1>4 DEF Alive, Effect, TypeOK
  <1> HIDE DEF j
  <1>7. \A x \in Booking : rows'[x] = IF x = b THEN Effect(k, rows[b], now) ELSE rows[x]
    BY <1>1, <1>6
  <1>8. /\ Left(rows', j) = k.todo \ {b} /\ Untold(rows', j) = (k.todo \ {b}) \cup {b}
        /\ Left(rows, k) = k.todo /\ Untold(rows, k) = k.todo
        /\ Word(j) = Word(k)
    BY <1>0, <1>5 DEF Left, Untold, Word
  <1>9. \A row : Effect(j, row, now) = Effect(k, row, now)
    BY <1>0, <1>5 DEF Effect
  <1>10. (k.todo \ {b}) \cup {b} = k.todo
    BY <1>6
  <1>11. Final(Tables', j) = Final(Tables, k)
    BY <1>0, <1>2, <1>5, <1>7, <1>8, <1>9, <1>10, SameFinal, FieldsOfTables
  <1>12. Alive(rows', j.todo)
    BY <1>1, <1>3, <1>5, <1>7 DEF Alive
  <1> QED  BY <1>0, <1>3, <1>5, <1>6, <1>11, <1>12, HasMore

LEMMA RejectedIsSerial ==
    ASSUME TypeOK, Shaped, SerialInv, NEW p \in Process, RejectedOne(p)
    PROVE  Onward(p)
  <1> DEFINE k == task[p]
  <1>0. /\ k.pc = "applied" /\ k.pc \notin Before /\ k.pc # "idle"
        /\ k.op \in {"rejectOverlap", "rejectExpired"} /\ k.op \notin RoomOps
    BY DEF RejectedOne, Before, RoomOps
  <1>1. /\ k \in Task /\ HasShape(k)
        /\ UnderWay(k, settled, Tables, bookingCache, roomCache)
        /\ k.todo \subseteq Booking /\ k.id \in Booking /\ mail \in [Booking -> Mail]
        /\ rows \in [Booking -> Row]
    BY <1>0, Running DEF Task, TypeOK, HasShape
  <1>2. /\ UNCHANGED <<now, room, rows, roomCache>> /\ bookingCache' = ColdBookings
        /\ mail' = Sent(mail, {k.id}, "reject")
    BY DEF RejectedOne
  <1>3. /\ Fresh(roomCache', room', Room) /\ Alive(rows, k.todo)
        /\ Fresh(bookingCache', rows', Booking)
    BY <1>0, <1>1, <1>2, ColdIsFresh, FieldsOfTables DEF UnderWay
  <1>4. \A x \in Booking : mail'[x] = IF x = k.id THEN "reject" ELSE mail[x]
    BY <1>2 DEF Sent
  <1>5. /\ Left(rows, k) = k.todo /\ Untold(rows, k) = k.todo \cup {k.id}
        /\ Word(k) = "reject"
    BY <1>0 DEF Left, Untold, Word
  <1>6. CASE k.todo = {}
    <2>1. Final(Tables, k) = [now |-> now, room |-> room, rows |-> rows,
                              mail |-> Sent(mail, {k.id}, "reject")]
      <3>1. [b \in Booking |-> IF b \in Left(rows, k) THEN Effect(k, rows[b], now)
                               ELSE rows[b]] = rows
        BY <1>1, <1>5, <1>6
      <3>2. Untold(rows, k) = {k.id}
        BY <1>5, <1>6
      <3>3. Word(k) = "reject"
        BY <1>5
      <3>4. Final(Tables, k) =
               [now |-> Tables.now, room |-> Tables.room,
                rows |-> [b \in Booking |-> IF b \in Left(Tables.rows, k)
                                            THEN Effect(k, Tables.rows[b], Tables.now)
                                            ELSE Tables.rows[b]],
                mail |-> Sent(Tables.mail, Untold(Tables.rows, k), Word(k))]
        BY <1>0, FinalOfLoops
      <3> QED  BY <3>1, <3>2, <3>3, <3>4, FieldsOfTables
    <2>2. Tables' = Final(Tables, k)
      BY <1>2, <2>1 DEF Tables
    <2>3. task' = [task EXCEPT ![p] = Idle]
      BY <1>6 DEF RejectedOne, Done
    <2> QED  BY <1>0, <1>3, <2>2, <2>3, IsDone
  <1>7. CASE k.todo # {}
    <2> DEFINE j == [k EXCEPT !.pc = "apply"]
    <2>1. /\ j.pc = "apply" /\ j.todo = k.todo /\ j.op = k.op /\ j.user = k.user
      BY <1>1 DEF Task
    <2>2. task' = [task EXCEPT ![p] = j]
      BY <1>7 DEF RejectedOne, Goto, TypeOK
    <2> HIDE DEF j
    <2>3. /\ Left(rows, j) = k.todo /\ Untold(rows, j) = k.todo /\ Word(j) = "reject"
      BY <1>0, <2>1 DEF Left, Untold, Word
    <2>4. \A row : Effect(j, row, now) = Effect(k, row, now)
      BY <1>0, <2>1 DEF Effect
    <2>5. Final(Tables', j) = Final(Tables, k)
      BY <1>0, <1>2, <1>4, <1>5, <2>1, <2>3, <2>4, SameFinal, FieldsOfTables
    <2>6. Alive(rows', j.todo)
      BY <1>2, <1>3, <2>1
    <2> QED  BY <1>0, <1>3, <2>1, <2>2, <2>5, <2>6, HasMore
  <1> QED  BY <1>6, <1>7

LEMMA PendIsSerial ==
    ASSUME TypeOK, Shaped, SerialInv, NEW p \in Process, PendAll(p)
    PROVE  Onward(p)
  <1> DEFINE k == task[p]
             j == [k EXCEPT !.pc = "applied"]
  <1>0. /\ k.pc = "apply" /\ k.pc \notin Before /\ k.pc # "idle"
        /\ k.op = "pendRoom" /\ k.op \notin RoomOps
    BY DEF PendAll, Before, RoomOps
  <1>1. /\ k \in Task /\ HasShape(k)
        /\ UnderWay(k, settled, Tables, bookingCache, roomCache)
        /\ k.todo \subseteq Booking /\ rows \in [Booking -> Row] /\ now \in Time
    BY <1>0, Running DEF Task, TypeOK
  <1>2. /\ UNCHANGED <<now, room, mail, bookingCache, roomCache>>
        /\ rows' = [b \in Booking |-> IF b \in k.todo /\ Live(rows[b])
                                      THEN Moved(rows[b], "pending", now)
                                      ELSE rows[b]]
        /\ task' = [task EXCEPT ![p] = j]
    BY DEF PendAll, Goto, TypeOK
  <1>3. Fresh(roomCache', room', Room) /\ Alive(rows, k.todo)
    BY <1>0, <1>1, <1>2, FieldsOfTables DEF UnderWay
  <1>4. \A x \in Booking : rows'[x] = IF x \in k.todo THEN Effect(k, rows[x], now)
                                                     ELSE rows[x]
    BY <1>0, <1>2, <1>3 DEF Alive, Effect
  <1>5. /\ j.pc = "applied" /\ j.todo = k.todo /\ j.op = k.op
    BY <1>1 DEF Task
  <1> HIDE DEF j
  <1>6. /\ Left(rows', j) = {} /\ Untold(rows', j) = k.todo
        /\ Left(rows, k) = k.todo /\ Untold(rows, k) = k.todo
        /\ Word(j) = Word(k)
    BY <1>0, <1>5 DEF Left, Untold, Word
  <1>7. Final(Tables', j) = Final(Tables, k)
    BY <1>0, <1>2, <1>4, <1>5, <1>6, SameFinal, FieldsOfTables
  <1>8. Alive(rows', j.todo)
    <2>1. "pending" \in Status
      BY DEF Status
    <2>2. \A x \in Booking : Live(Moved(rows[x], "pending", now))
      BY <1>1, <2>1, MovedIsRow DEF Live
    <2> QED  BY <1>0, <1>1, <1>4, <1>5, <2>2 DEF Alive, Effect
  <1> QED  BY <1>0, <1>2, <1>3, <1>5, <1>7, <1>8, HasMore

LEMMA PendedIsSerial ==
    ASSUME TypeOK, Shaped, SerialInv, NEW p \in Process, PendedAll(p)
    PROVE  Onward(p)
  <1> DEFINE k == task[p]
  <1>0. /\ k.pc = "applied" /\ k.pc \notin Before /\ k.pc # "idle"
        /\ k.op = "pendRoom" /\ k.op \notin RoomOps
    BY DEF PendedAll, Before, RoomOps
  <1>1. /\ UnderWay(k, settled, Tables, bookingCache, roomCache)
        /\ rows \in [Booking -> Row]
    BY <1>0, Running DEF TypeOK
  <1>2. /\ UNCHANGED <<now, room, rows, roomCache>> /\ bookingCache' = ColdBookings
        /\ mail' = Sent(mail, k.todo, "pending")
        /\ task' = [task EXCEPT ![p] = Idle]
    BY DEF PendedAll, Done
  <1>3. /\ Fresh(roomCache', room', Room) /\ Fresh(bookingCache', rows', Booking)
    BY <1>0, <1>1, <1>2, ColdIsFresh, FieldsOfTables DEF UnderWay
  <1>4. /\ Left(rows, k) = {} /\ Untold(rows, k) = k.todo /\ Word(k) = "pending"
    BY <1>0 DEF Left, Untold, Word
  <1>5. [b \in Booking |-> IF b \in Left(rows, k) THEN Effect(k, rows[b], now)
                           ELSE rows[b]] = rows
    BY <1>1, <1>4
  <1>6. Final(Tables, k) = [now |-> now, room |-> room, rows |-> rows,
                            mail |-> Sent(mail, k.todo, "pending")]
    BY <1>0, <1>4, <1>5, FinalOfLoops, FieldsOfTables
  <1>7. Tables' = Final(Tables, k)
    BY <1>2, <1>6 DEF Tables
  <1> QED  BY <1>0, <1>2, <1>3, <1>7, IsDone

LEMMA DeletesAreSerial ==
    ASSUME TypeOK, Shaped, SerialInv, NEW p \in Process,
           DeleteOne(p) \/ DeletedOne(p)
    PROVE  Onward(p)
  <1> DEFINE k == task[p]
  <1>0. /\ k.pc = "apply" /\ k.pc \notin Before /\ k.pc # "idle"
        /\ k.op = "deleteOld" /\ k.op \notin RoomOps
    BY DEF DeleteOne, DeletedOne, Before, RoomOps
  <1>1. /\ k \in Task /\ HasShape(k)
        /\ UnderWay(k, settled, Tables, bookingCache, roomCache)
        /\ k.todo \subseteq Booking /\ rows \in [Booking -> Row]
        /\ mail \in [Booking -> Mail]
    BY <1>0, Running DEF Task, TypeOK
  <1>2. UNCHANGED <<now, room, mail, roomCache>>
    BY DEF DeleteOne, DeletedOne
  <1>3. Fresh(roomCache', room', Room) /\ Alive(rows, k.todo)
    BY <1>0, <1>1, <1>2, FieldsOfTables DEF UnderWay
  <1>4. Left(rows, k) = k.todo /\ Untold(rows, k) = {}
    BY <1>0 DEF Left, Untold
  <1>5. CASE DeleteOne(p)
    <2>1. PICK b \in k.todo :
             /\ rows' = [rows EXCEPT ![b] = NoRow("deleted")]
             /\ task' = [task EXCEPT ![p].todo = @ \ {b}, ![p].done = @ \cup {b}]
      BY <1>5 DEF DeleteOne
    <2> DEFINE j == [k EXCEPT !.todo = @ \ {b}, !.done = @ \cup {b}]
    <2>2. /\ j.pc = "apply" /\ j.todo = k.todo \ {b} /\ j.op = k.op
      BY <1>0, <1>1 DEF Task
    <2>3. task' = [task EXCEPT ![p] = j]
      BY <2>1 DEF TypeOK
    <2> HIDE DEF j
    <2>4. \A x \in Booking : rows'[x] = IF x = b THEN Effect(k, rows[b], now)
                                                 ELSE rows[x]
      BY <1>0, <1>1, <2>1 DEF Effect
    <2>5. Left(rows', j) = k.todo \ {b} /\ Untold(rows', j) = {}
      BY <1>0, <2>2 DEF Left, Untold
    <2>6. \A row : Effect(j, row, now) = Effect(k, row, now)
      BY <1>0, <2>2 DEF Effect
    <2>7. Final(Tables', j) = Final(Tables, k)
      BY <1>0, <1>2, <1>4, <2>2, <2>4, <2>5, <2>6, SameFinal, FieldsOfTables
    <2>8. Alive(rows', j.todo)
      BY <1>1, <1>3, <2>2, <2>4 DEF Alive
    <2> QED  BY <1>0, <1>3, <2>2, <2>3, <2>7, <2>8, HasMore
  <1>6. CASE DeletedOne(p)
    <2>1. /\ UNCHANGED rows /\ bookingCache' = ColdBookings
          /\ Fresh(bookingCache', rows', Booking) /\ Tables' = Tables
      BY <1>2, <1>6, ColdIsFresh, TablesStay DEF DeletedOne
    <2>2. PICK b \in k.done :
             IF k.todo = {} /\ k.done = {b}
             THEN Done(p)
             ELSE task' = [task EXCEPT ![p].done = @ \ {b}]
      BY <1>6 DEF DeletedOne
    <2>3. CASE k.todo = {} /\ k.done = {b}
      <3>1. Final(Tables, k) = Tables
        BY <1>0, <1>4, <2>3, NothingAhead, TablesAreRecords, FieldsOfTables
      <3> QED  BY <1>0, <1>3, <2>1, <2>2, <2>3, <3>1, IsDone DEF Done
    <2>4. CASE ~ (k.todo = {} /\ k.done = {b})
      <3> DEFINE j == [k EXCEPT !.done = @ \ {b}]
      <3>1. /\ j.pc = "apply" /\ j.todo = k.todo /\ j.op = k.op
        BY <1>0, <1>1 DEF Task
      <3>2. task' = [task EXCEPT ![p] = j]
        BY <2>2, <2>4 DEF TypeOK
      <3> HIDE DEF j
      <3>3. Left(rows, j) = k.todo /\ Untold(rows, j) = {}
        BY <1>0, <3>1 DEF Left, Untold
      <3>4. \A row : Effect(j, row, now) = Effect(k, row, now)
        BY <1>0, <3>1 DEF Effect
      <3>5. Final(Tables', j) = Final(Tables, k)
        BY <1>0, <1>4, <2>1, <3>1, <3>3, <3>4, SameFinal, FieldsOfTables
      <3>6. Alive(rows', j.todo)
        BY <1>3, <2>1, <3>1
      <3> QED  BY <1>0, <1>3, <3>1, <3>2, <3>5, <3>6, HasMore
    <2> QED  BY <2>3, <2>4
  <1> QED  BY <1>5, <1>6

-----------------------------------------------------------------------------
(* Every step of a process under way.                                      *)
LEMMA AdvancesAreSerial ==
    ASSUME TypeOK, Shaped, SerialInv, NEW p \in Process, Advance(p)
    PROVE  Onward(p) /\ task[p] # Idle
  <1>1. task[p] # Idle
    <2>1. GetBooking(p) \/ SetBooking(p) \/ GetRoom(p) \/ SetRoom(p)
          => task[p].pc # "idle"
      BY DEF GetBooking, SetBooking, GetRoom, SetRoom
    <2>2. AskSlot(p) \/ AskEmpty(p) => task[p].pc # "idle"
      BY DEF AskSlot, AskEmpty
    <2>3. InsertBooking(p) \/ WriteBooking(p) \/ WriteRoom(p) \/ DeleteRoom(p)
          => task[p].pc # "idle"
      BY DEF InsertBooking, WriteBooking, WriteRoom, DeleteRoom
    <2>4. BookingWritten(p) \/ RoomWritten(p) \/ Collect(p) => task[p].pc # "idle"
      BY DEF BookingWritten, RoomWritten, Collect
    <2>5. RejectOne(p) \/ RejectedOne(p) => task[p].pc # "idle"
      BY DEF RejectOne, RejectedOne
    <2>6. PendAll(p) \/ PendedAll(p) \/ DeleteOne(p) \/ DeletedOne(p)
          => task[p].pc # "idle"
      BY DEF PendAll, PendedAll, DeleteOne, DeletedOne
    <2>7. task[p].pc # "idle"
      BY <2>1, <2>2, <2>3, <2>4, <2>5, <2>6 DEF Advance
    <2> QED  BY <2>7 DEF Idle
  <1>2. CASE \/ GetBooking(p) \/ SetBooking(p) \/ GetRoom(p) \/ SetRoom(p)
             \/ AskSlot(p) \/ AskEmpty(p)
    BY <1>1, <1>2, ReadsAreSerial
  <1>3. CASE InsertBooking(p) \/ WriteBooking(p)
    BY <1>1, <1>3, InsertIsSerial, WriteIsSerial
  <1>4. CASE WriteRoom(p) \/ DeleteRoom(p)
    BY <1>1, <1>4, WriteRoomIsSerial
  <1>5. CASE BookingWritten(p) \/ RoomWritten(p)
    BY <1>1, <1>5, AnswersAreSerial
  <1>6. CASE Collect(p) \/ RejectOne(p) \/ RejectedOne(p)
    BY <1>1, <1>6, CollectIsSerial, RejectIsSerial, RejectedIsSerial
  <1>7. CASE PendAll(p) \/ PendedAll(p)
    BY <1>1, <1>7, PendIsSerial, PendedIsSerial
  <1>8. CASE DeleteOne(p) \/ DeletedOne(p)
    BY <1>1, <1>8, DeletesAreSerial
  <1> QED  BY <1>2, <1>3, <1>4, <1>5, <1>6, <1>7, <1>8 DEF Advance

-----------------------------------------------------------------------------
(* Calls, which find nobody under way.                                     *)

(* What a call starts has read nothing, and was let through by a validator.*)
LEMMA BegunIsSerial ==
    ASSUME TypeOK, SerialInv, Quiet(Process), NEW p \in Process, NEW j,
           Begin(p, j), j.pc \in {"getBooking", "getRoom", "write"},
           j.pc = "write" => j.op = "createRoom",
           j.pc = "getRoom" => j.op \in {"create", "updateRoom", "removeRoom"},
           Asked(Tables, j)
    PROVE  Onward(p)
  <1>1. task' = [task EXCEPT ![p] = j]
    BY DEF Begin
  <1>2. UNCHANGED <<now, room, rows, mail, bookingCache, roomCache>>
    BY DEF Begin
  <1>3. /\ settled = Tables
        /\ Fresh(bookingCache, rows, Booking) /\ Fresh(roomCache, room, Room)
    BY DEF SerialInv
  <1>4. HasRead(Tables, j)
    BY DEF HasRead
  <1>5. j # Idle /\ j.pc \in Before
    BY DEF Idle, Before
  <1>6. Tables' = Tables /\ Tables'.rows = rows' /\ Tables'.room = room'
    BY <1>2, TablesStay, FieldsOfTables
  <1>7. UnderWay(j, settled, Tables', bookingCache', roomCache')
    BY <1>2, <1>3, <1>4, <1>5, <1>6 DEF UnderWay, Before
  <1> QED  BY <1>1, <1>5, <1>7 DEF Onward, Leaves

LEMMA CallsAreSerial ==
    ASSUME TypeOK, SerialInv, Quiet(Process), NEW p \in Process, Call(p)
    PROVE  Onward(p)
  <1>1. CASE CallCreate(p)
    <2>1. PICK u \in User, r \in Room, s \in Time, e \in Time :
             /\ now <= s /\ s < e
             /\ Begin(p, [Idle EXCEPT !.op = "create", !.pc = "getRoom",
                                      !.user = u, !.rm = r,
                                      !.row = NewRow(u, r, s, e, now)])
      BY <1>1 DEF CallCreate
    <2> DEFINE j == [Idle EXCEPT !.op = "create", !.pc = "getRoom",
                                 !.user = u, !.rm = r,
                                 !.row = NewRow(u, r, s, e, now)]
    <2>2. /\ j.op = "create" /\ j.pc = "getRoom" /\ j.user = u /\ j.rm = r
          /\ j.row = NewRow(u, r, s, e, now)
      BY DEF Idle
    <2>3. Begin(p, j)
      BY <2>1
    <2> HIDE DEF j
    <2>4. Asked(Tables, j)
      BY <2>1, <2>2, FieldsOfTables DEF Asked
    <2> QED  BY <2>2, <2>3, <2>4, BegunIsSerial
  <1>2. CASE CallUpdate(p)
    <2>1. PICK b \in Booking, u \in User, patch \in Body :
             /\ ValidPatch(patch, now)
             /\ Begin(p, [Idle EXCEPT !.op = "update", !.pc = "getBooking",
                                      !.id = b, !.user = u, !.patch = patch])
      BY <1>2 DEF CallUpdate
    <2> DEFINE j == [Idle EXCEPT !.op = "update", !.pc = "getBooking",
                                 !.id = b, !.user = u, !.patch = patch]
    <2>2. j.op = "update" /\ j.pc = "getBooking" /\ j.patch = patch
      BY DEF Idle
    <2>3. Begin(p, j)
      BY <2>1
    <2> HIDE DEF j
    <2>4. Asked(Tables, j)
      BY <2>1, <2>2, FieldsOfTables DEF Asked
    <2> QED  BY <2>2, <2>3, <2>4, BegunIsSerial
  <1>3. CASE CallConfirm(p)
    <2>1. PICK b \in Booking, u \in Confirmers, decision \in {"approved", "reject"} :
             Begin(p, [Idle EXCEPT !.op = "confirm", !.pc = "getBooking",
                                   !.id = b, !.user = u, !.status = decision])
      BY <1>3 DEF CallConfirm
    <2> DEFINE j == [Idle EXCEPT !.op = "confirm", !.pc = "getBooking",
                                 !.id = b, !.user = u, !.status = decision]
    <2>2. j.op = "confirm" /\ j.pc = "getBooking"
      BY DEF Idle
    <2>3. Begin(p, j)
      BY <2>1
    <2> HIDE DEF j
    <2>4. Asked(Tables, j)
      BY <2>2 DEF Asked
    <2> QED  BY <2>2, <2>3, <2>4, BegunIsSerial
  <1>4. CASE CallCancel(p)
    <2>1. PICK b \in Booking, u \in User :
             Begin(p, [Idle EXCEPT !.op = "cancel", !.pc = "getBooking",
                                   !.id = b, !.user = u, !.at = now])
      BY <1>4 DEF CallCancel
    <2> DEFINE j == [Idle EXCEPT !.op = "cancel", !.pc = "getBooking",
                                 !.id = b, !.user = u, !.at = now]
    <2>2. j.op = "cancel" /\ j.pc = "getBooking" /\ j.at = now
      BY DEF Idle
    <2>3. Begin(p, j)
      BY <2>1
    <2> HIDE DEF j
    <2>4. Asked(Tables, j)
      BY <2>2, FieldsOfTables DEF Asked
    <2> QED  BY <2>2, <2>3, <2>4, BegunIsSerial
  <1>5. CASE CallCreateRoom(p)
    <2>1. PICK r \in Room, state \in {"enabled", "disabled"} :
             Begin(p, [Idle EXCEPT !.op = "createRoom", !.pc = "write",
                                   !.rm = r, !.status = state])
      BY <1>5 DEF CallCreateRoom
    <2> DEFINE j == [Idle EXCEPT !.op = "createRoom", !.pc = "write",
                                 !.rm = r, !.status = state]
    <2>2. j.op = "createRoom" /\ j.pc = "write"
      BY DEF Idle
    <2>3. Begin(p, j)
      BY <2>1
    <2> HIDE DEF j
    <2>4. Asked(Tables, j)
      BY <2>2 DEF Asked
    <2> QED  BY <2>2, <2>3, <2>4, BegunIsSerial
  <1>6. CASE CallUpdateRoom(p)
    <2>1. PICK r \in Room, state \in {"enabled", "disabled"} :
             Begin(p, [Idle EXCEPT !.op = "updateRoom", !.pc = "getRoom",
                                   !.rm = r, !.status = state])
      BY <1>6 DEF CallUpdateRoom
    <2> DEFINE j == [Idle EXCEPT !.op = "updateRoom", !.pc = "getRoom",
                                 !.rm = r, !.status = state]
    <2>2. j.op = "updateRoom" /\ j.pc = "getRoom"
      BY DEF Idle
    <2>3. Begin(p, j)
      BY <2>1
    <2> HIDE DEF j
    <2>4. Asked(Tables, j)
      BY <2>2 DEF Asked
    <2> QED  BY <2>2, <2>3, <2>4, BegunIsSerial
  <1>7. CASE CallRemoveRoom(p)
    <2>1. PICK r \in Room :
             Begin(p, [Idle EXCEPT !.op = "removeRoom", !.pc = "getRoom",
                                   !.rm = r])
      BY <1>7 DEF CallRemoveRoom
    <2> DEFINE j == [Idle EXCEPT !.op = "removeRoom", !.pc = "getRoom", !.rm = r]
    <2>2. j.op = "removeRoom" /\ j.pc = "getRoom"
      BY DEF Idle
    <2>3. Begin(p, j)
      BY <2>1
    <2> HIDE DEF j
    <2>4. Asked(Tables, j)
      BY <2>2 DEF Asked
    <2> QED  BY <2>2, <2>3, <2>4, BegunIsSerial
  <1> QED  BY <1>1, <1>2, <1>3, <1>4, <1>5, <1>6, <1>7 DEF Call

(* A job finds nothing and changes nothing, or will do all it finds.       *)
LEMMA JobsAreSerial ==
    ASSUME TypeOK, SerialInv, Quiet(Process), NEW c \in Cron, CallCron(c)
    PROVE  Onward(c)
  <1> DEFINE j == [Idle EXCEPT !.op = c, !.pc = "collect", !.at = now]
  <1>1. /\ c \in {"rejectExpired", "deleteOld"} /\ c \in Process
    BY ServiceAssumption DEF Process
  <1>2. j.op = c /\ j.pc = "collect" /\ j.at = now
    BY DEF Idle
  <1>3. task[c] = Idle /\ task \in [Process -> Task]
    BY DEF CallCron, TypeOK
  <1>4. task' = [task EXCEPT ![c] = j]
    BY <1>1, <1>3 DEF CallCron
  <1> HIDE DEF j
  <1>5. UNCHANGED <<now, room, rows, mail, bookingCache, roomCache>>
    BY DEF CallCron
  <1>6. /\ settled = Tables /\ Tables' = Tables
        /\ Fresh(bookingCache, rows, Booking) /\ Fresh(roomCache, room, Room)
    BY <1>5, TablesStay DEF SerialInv
  <1>7. Step(Tables, Final(Tables, j))
    <2>1. CASE c = "rejectExpired"
      <3> DEFINE expired == ToReject(rows, now)
      <3>1. Left(rows, j) = expired /\ Untold(rows, j) = expired /\ Word(j) = "reject"
        BY <1>2, <2>1 DEF Left, Untold, Word, FoundIn
      <3>2. \A b \in Booking : Effect(j, rows[b], now) = Moved(rows[b], "reject", now)
        BY <1>2, <2>1 DEF Effect
      <3>3. CASE expired = {}
        <4>1. Final(Tables, j) = Tables
          BY <1>2, <3>1, <3>3, NothingAhead, TablesAreRecords, FieldsOfTables
        <4> QED  BY <4>1 DEF Step
      <3>4. CASE expired # {}
        <4> HIDE DEF expired
        <4>1. Final(Tables, j) = Ahead(Tables, j, mail)
          BY <1>2, FieldsOfTables DEF Final
        <4>2. Final(Tables, j) =
                 Becomes(Tables, room,
                         [b \in Booking |-> IF b \in expired
                                            THEN Moved(rows[b], "reject", now)
                                            ELSE rows[b]],
                         Sent(mail, expired, "reject"))
          BY <3>1, <3>2, <4>1, FieldsOfTables DEF Ahead
        <4>3. Rejects(Tables, Final(Tables, j))
          BY <3>4, <4>2, FieldsOfTables DEF Rejects, expired
        <4> QED  BY <4>3 DEF Step
      <3> QED  BY <3>3, <3>4
    <2>2. CASE c = "deleteOld"
      <3> DEFINE old == ToDelete(rows, now)
      <3>1. Left(rows, j) = old /\ Untold(rows, j) = {}
        BY <1>2, <2>2 DEF Left, Untold, FoundIn
      <3>2. \A b \in Booking : Effect(j, rows[b], now) = NoRow("deleted")
        BY <1>2, <2>2 DEF Effect
      <3>3. CASE old = {}
        <4>1. Final(Tables, j) = Tables
          BY <1>2, <3>1, <3>3, NothingAhead, TablesAreRecords, FieldsOfTables
        <4> QED  BY <4>1 DEF Step
      <3>4. CASE old # {}
        <4> HIDE DEF old
        <4>1. Final(Tables, j) = Ahead(Tables, j, mail)
          BY <1>2, FieldsOfTables DEF Final
        <4>2. Sent(mail, {}, Word(j)) = mail
          BY NothingLost DEF TypeOK
        <4>3. Final(Tables, j) =
                 Becomes(Tables, room,
                         [b \in Booking |-> IF b \in old THEN NoRow("deleted")
                                                         ELSE rows[b]],
                         mail)
          BY <3>1, <3>2, <4>1, <4>2, FieldsOfTables DEF Ahead
        <4>4. Deletes(Tables, Final(Tables, j))
          BY <3>4, <4>3, FieldsOfTables DEF Deletes, old
        <4> QED  BY <4>4 DEF Step
      <3> QED  BY <3>3, <3>4
    <2> QED  BY <1>1, <2>1, <2>2
  <1>8. UnderWay(j, settled, Tables', bookingCache', roomCache')
    <2>1. j.pc \notin Before /\ j.op \notin RoomOps
      BY <1>1, <1>2 DEF Before, RoomOps
    <2> QED  BY <1>2, <1>5, <1>6, <1>7, <2>1, FieldsOfTables DEF UnderWay
  <1>9. j # Idle
    BY <1>2 DEF Idle
  <1> QED  BY <1>4, <1>8, <1>9 DEF Onward, Leaves

-----------------------------------------------------------------------------
(* The invariant is inductive, and settled takes the steps of the ledger.  *)

Ticks(S, T) ==
    /\ S.now < MaxTime
    /\ T.now = S.now + 1 /\ T.room = S.room /\ T.rows = S.rows /\ T.mail = S.mail

LEMMA OnwardKeeps ==
    ASSUME TypeOK, SerialInv, NEW p \in Process, Onward(p),
           Quiet(Process) \/ task[p] # Idle,
           settled' = IF Quiet(Process)' THEN Tables' ELSE settled
    PROVE  SerialInv' /\ Step(settled, settled')
  <1>1. PICK j : Leaves(p, j)
    BY DEF Onward
  <1>2. \A q \in Process : task'[q] = IF q = p THEN j ELSE task[q]
    BY <1>1 DEF Leaves, TypeOK
  <1>3. \A q \in Process : q # p => task[q] = Idle
    BY DEF SerialInv, Quiet
  <1>4. CASE j = Idle
    <2>1. \A q \in Process : task'[q] = Idle
      BY <1>2, <1>3, <1>4
    <2>2. Quiet(Process)'
      BY <2>1 DEF Quiet
    <2>3. settled' = Tables'
      BY <2>2
    <2>4. /\ Step(settled, Tables')
          /\ Fresh(bookingCache', rows', Booking) /\ Fresh(roomCache', room', Room)
      BY <1>1, <1>4 DEF Leaves
    <2> QED  BY <2>1, <2>3, <2>4 DEF SerialInv
  <1>5. CASE j # Idle
    <2>1. ~ Quiet(Process)'
      BY <1>2, <1>5 DEF Quiet
    <2>2. settled' = settled
      BY <2>1
    <2>3. UnderWay(j, settled, Tables', bookingCache', roomCache')
      BY <1>1, <1>5 DEF Leaves
    <2>4. \A q \in Process : task'[q] # Idle => q = p
      BY <1>2, <1>3
    <2>5. SerialInv'
      BY <1>2, <2>1, <2>2, <2>3, <2>4 DEF SerialInv
    <2> QED  BY <2>2, <2>5 DEF Step
  <1> QED  BY <1>4, <1>5

LEMMA EvictKeeps ==
    ASSUME TypeOK, SerialInv, Evict,
           settled' = IF Quiet(Process)' THEN Tables' ELSE settled
    PROVE  SerialInv' /\ Step(settled, settled')
  <1>1. UNCHANGED <<now, room, rows, mail, task>>
    BY DEF Evict
  <1>2. Tables' = Tables
    BY <1>1, TablesStay
  <1>3. Quiet(Process)' <=> Quiet(Process)
    BY <1>1 DEF Quiet
  <1>4. settled' = settled
    BY <1>2, <1>3 DEF SerialInv
  <1>5. /\ \A table : Fresh(bookingCache, table, Booking) =>
                         Fresh(bookingCache', table, Booking)
        /\ \A table : Fresh(roomCache, table, Room) => Fresh(roomCache', table, Room)
    BY DEF Evict, Fresh, TypeOK
  <1>6. ASSUME NEW p \in Process, task[p] # Idle
        PROVE  UnderWay(task[p], settled, Tables, bookingCache', roomCache')
    <2>1. UnderWay(task[p], settled, Tables, bookingCache, roomCache)
      BY <1>6 DEF SerialInv
    <2> QED  BY <1>5, <2>1 DEF UnderWay
  <1>7. SerialInv'
    BY <1>1, <1>2, <1>3, <1>4, <1>5, <1>6 DEF SerialInv
  <1> QED  BY <1>4, <1>7 DEF Step

LEMMA TickKeeps ==
    ASSUME TypeOK, SerialInv, Quiet(Process), Tick,
           settled' = IF Quiet(Process)' THEN Tables' ELSE settled
    PROVE  SerialInv' /\ Ticks(settled, settled')
  <1>1. UNCHANGED <<room, rows, mail, task, bookingCache, roomCache>>
    BY DEF Tick
  <1>2. Quiet(Process)'
    BY <1>1 DEF Quiet
  <1>3. settled = Tables /\ settled' = Tables'
    BY <1>2 DEF SerialInv
  <1>4. Ticks(settled, settled')
    BY <1>1, <1>3, FieldsOfTables DEF Ticks, Tick
  <1>5. SerialInv'
    BY <1>1, <1>2, <1>3 DEF SerialInv, Quiet
  <1> QED  BY <1>4, <1>5

LEMMA StutterKeeps ==
    ASSUME SerialInv, UNCHANGED serialVars
    PROVE  SerialInv' /\ Step(settled, settled')
  <1>1. UNCHANGED <<now, room, rows, mail, task, bookingCache, roomCache, settled>>
    BY DEF serialVars, vars
  <1>2. Tables' = Tables
    BY <1>1, TablesStay
  <1>3. Quiet(Process)' <=> Quiet(Process)
    BY <1>1 DEF Quiet
  <1>4. SerialInv'
    BY <1>1, <1>2, <1>3 DEF SerialInv
  <1> QED  BY <1>1, <1>4 DEF Step

LEMMA SerialSteps ==
    ASSUME TypeOK, Shaped, SerialInv, [SerialNext]_serialVars
    PROVE  /\ SerialInv'
           /\ Step(settled, settled') \/ Ticks(settled, settled')
  <1>1. CASE UNCHANGED serialVars
    BY <1>1, StutterKeeps
  <1>2. CASE SerialNext
    <2>1. settled' = IF Quiet(Process)' THEN Tables' ELSE settled
      BY <1>2 DEF SerialNext
    <2>2. ASSUME Quiet(Process), NEW p \in Request, Call(p)
          PROVE  SerialInv' /\ Step(settled, settled')
      <3>1. p \in Process
        BY DEF Process
      <3> QED  BY <2>1, <2>2, <3>1, CallsAreSerial, OnwardKeeps
    <2>3. ASSUME Quiet(Process), NEW c \in Cron, CallCron(c)
          PROVE  SerialInv' /\ Step(settled, settled')
      <3>1. c \in Process
        BY DEF Process
      <3> QED  BY <2>1, <2>3, <3>1, JobsAreSerial, OnwardKeeps
    <2>4. ASSUME NEW p \in Process, Advance(p)
          PROVE  SerialInv' /\ Step(settled, settled')
      BY <2>1, <2>4, AdvancesAreSerial, OnwardKeeps
    <2> QED  BY <1>2, <2>1, <2>2, <2>3, <2>4, EvictKeeps, TickKeeps DEF SerialNext
  <1> QED  BY <1>1, <1>2

LEMMA SerialStarts ==
    ASSUME SerialInit
    PROVE  SerialInv
  <1>1. \A p \in Process : task[p] = Idle
    BY DEF SerialInit, Init
  <1>2. Fresh(bookingCache, rows, Booking) /\ Fresh(roomCache, room, Room)
    BY DEF SerialInit, Init, Fresh
  <1> QED  BY <1>1, <1>2 DEF SerialInv, SerialInit

(* Serving one at a time is one of the orders of BookingService.           *)
LEMMA SerialIsService ==
    /\ SerialInit => Init
    /\ [SerialNext]_serialVars => [Next]_vars
  <1>1. UNCHANGED serialVars => UNCHANGED vars
    BY DEF serialVars
  <1> QED  BY <1>1 DEF SerialInit, SerialNext, Next

-----------------------------------------------------------------------------
(* Step is a step of BookingLedger.                                        *)

LEMMA RulesOfLedger ==
    /\ Ledger!Time = Time /\ Ledger!Patch = Patch
    /\ \A rs, st, r, s, e :
          Ledger!Overlapping(rs, st, r, s, e) = Overlapping(rs, st, r, s, e)
    /\ \A u, r, s, e, t : Ledger!NewRow(u, r, s, e, t) = NewRow(u, r, s, e, t)
    /\ \A row, st, u, t : Ledger!Decided(row, st, u, t) = Decided(row, st, u, t)
    /\ \A row, st, t : Ledger!Moved(row, st, t) = Moved(row, st, t)
    /\ \A row, u, t : Ledger!Cancelled(row, u, t) = Cancelled(row, u, t)
    /\ \A row, p, t : Ledger!Patched(row, p, t) = Patched(row, p, t)
    /\ \A st : Ledger!NoRow(st) = NoRow(st)
    /\ \A ml, B, w : Ledger!Sent(ml, B, w) = Sent(ml, B, w)
    /\ \A p, t : Ledger!ValidPatch(p, t) <=> ValidPatch(p, t)
    /\ \A p : Ledger!AsksForSlot(p) <=> AsksForSlot(p)
    /\ \A p, row : Ledger!AskedRoom(p, row) = AskedRoom(p, row)
    /\ \A v, w : Ledger!Given(v, w) = Given(v, w)
    /\ \A state : Ledger!RoomExists(state) <=> RoomExists(state)
    /\ \A rs, B, u, t : Ledger!RejectAll(rs, B, u, t) = RejectAll(rs, B, u, t)
  <1>1. Ledger!Time = Time /\ Ledger!Patch = Patch
    BY DEF Ledger!Time, Time, Ledger!Patch, Patch
  <1>2. \A rs, st, r, s, e :
          Ledger!Overlapping(rs, st, r, s, e) = Overlapping(rs, st, r, s, e)
    BY DEF Ledger!Overlapping, Overlapping, Ledger!InSlot, InSlot
  <1>3. \A u, r, s, e, t : Ledger!NewRow(u, r, s, e, t) = NewRow(u, r, s, e, t)
    BY DEF Ledger!NewRow, NewRow
  <1>4. \A row, st, u, t : Ledger!Decided(row, st, u, t) = Decided(row, st, u, t)
    BY DEF Ledger!Decided, Decided
  <1>5. \A row, st, t : Ledger!Moved(row, st, t) = Moved(row, st, t)
    BY DEF Ledger!Moved, Moved
  <1>6. \A row, u, t : Ledger!Cancelled(row, u, t) = Cancelled(row, u, t)
    BY <1>4, <1>5 DEF Ledger!Cancelled, Cancelled
  <1>7. \A v, w : Ledger!Given(v, w) = Given(v, w)
    BY DEF Ledger!Given, Given
  <1>8. \A row, p, t : Ledger!Patched(row, p, t) = Patched(row, p, t)
    BY <1>7 DEF Ledger!Patched, Patched
  <1>9. \A st : Ledger!NoRow(st) = NoRow(st)
    BY DEF Ledger!NoRow, NoRow
  <1>10. \A ml, B, w : Ledger!Sent(ml, B, w) = Sent(ml, B, w)
    BY DEF Ledger!Sent, Sent
  <1>11. \A p, t : Ledger!ValidPatch(p, t) <=> ValidPatch(p, t)
    BY DEF Ledger!ValidPatch, ValidPatch
  <1>12. \A p : Ledger!AsksForSlot(p) <=> AsksForSlot(p)
    BY DEF Ledger!AsksForSlot, AsksForSlot
  <1>13. \A p, row : Ledger!AskedRoom(p, row) = AskedRoom(p, row)
    BY DEF Ledger!AskedRoom, AskedRoom
  <1>14. \A state : Ledger!RoomExists(state) <=> RoomExists(state)
    BY DEF Ledger!RoomExists, RoomExists
  <1>15. \A rs, B, u, t : Ledger!RejectAll(rs, B, u, t) = RejectAll(rs, B, u, t)
    BY <1>4 DEF Ledger!RejectAll, RejectAll
  <1> QED  BY <1>1, <1>2, <1>3, <1>4, <1>5, <1>6, <1>7, <1>8, <1>9, <1>10, <1>11,
              <1>12, <1>13, <1>14, <1>15

LEMMA BecomesFields ==
    ASSUME NEW S, NEW T, NEW states, NEW rs, NEW ml, T = Becomes(S, states, rs, ml)
    PROVE  T.now = S.now /\ T.room = states /\ T.rows = rs /\ T.mail = ml
  BY DEF Becomes

LEMMA StepIsLedgerStep ==
    ASSUME Step(settled, settled') \/ Ticks(settled, settled')
    PROVE  [Ledger!Next]_(Ledger!vars)
  <1>1. CASE settled' = settled
    BY <1>1 DEF Ledger!vars
  <1>2. CASE Creates(settled, settled')
    <2>1. PICK b \in Booking, u \in User, r \in Room, s \in Time, e \in Time :
             CreatesOne(settled, settled', b, u, r, s, e)
      BY <1>2 DEF Creates
    <2>2. Ledger!CreateBooking(b, u, r, s, e)
      BY <2>1, RulesOfLedger, BecomesFields DEF CreatesOne, Ledger!CreateBooking
    <2> QED  BY <2>2, RulesOfLedger DEF Ledger!Next
  <1>3. CASE Updates(settled, settled')
    <2>1. PICK b \in Booking, u \in User, p \in Patch :
             UpdatesOne(settled, settled', b, u, p)
      BY <1>3 DEF Updates
    <2>2. Ledger!UserUpdate(b, u, p)
      BY <2>1, RulesOfLedger, BecomesFields DEF UpdatesOne, Ledger!UserUpdate
    <2> QED  BY <2>2, RulesOfLedger DEF Ledger!Next
  <1>4. CASE Confirms(settled, settled')
    <2>1. PICK b \in Booking, u \in Confirmers, d \in {"approved", "reject"} :
             ConfirmsOne(settled, settled', b, u, d)
      BY <1>4 DEF Confirms
    <2>2. Ledger!Confirm(b, u, d)
      BY <2>1, RulesOfLedger, BecomesFields DEF ConfirmsOne, Ledger!Confirm
    <2> QED  BY <2>2 DEF Ledger!Next
  <1>5. CASE Cancels(settled, settled')
    <2>1. PICK b \in Booking, u \in User : CancelsOne(settled, settled', b, u)
      BY <1>5 DEF Cancels
    <2>2. Ledger!Cancel(b, u)
      BY <2>1, RulesOfLedger, BecomesFields DEF CancelsOne, Ledger!Cancel
    <2> QED  BY <2>2 DEF Ledger!Next
  <1>6. CASE Rejects(settled, settled')
    <2>1. {b \in Booking : Ledger!Expired(b)} = ToReject(settled.rows, settled.now)
      BY DEF Ledger!Expired, ToReject
    <2>2. Ledger!RejectExpired
      BY <1>6, <2>1, RulesOfLedger, BecomesFields DEF Rejects, Ledger!RejectExpired
    <2> QED  BY <2>2 DEF Ledger!Next
  <1>7. CASE Deletes(settled, settled')
    <2>1. {b \in Booking : Ledger!Outdated(b)} = ToDelete(settled.rows, settled.now)
      BY DEF Ledger!Outdated, ToDelete
    <2>2. Ledger!DeleteOld
      BY <1>7, <2>1, RulesOfLedger, BecomesFields DEF Deletes, Ledger!DeleteOld
    <2> QED  BY <2>2 DEF Ledger!Next
  <1>8. CASE CreatesRoom(settled, settled')
    <2>1. \E r \in Room, state \in {"enabled", "disabled"} : Ledger!CreateRoom(r, state)
      BY <1>8, BecomesFields DEF CreatesRoom, Ledger!CreateRoom
    <2> QED  BY <2>1 DEF Ledger!Next
  <1>9. CASE EnablesRoom(settled, settled')
    <2>1. \E r \in Room : Ledger!EnableRoom(r)
      BY <1>9, RulesOfLedger, BecomesFields DEF EnablesRoom, Ledger!EnableRoom
    <2> QED  BY <2>1 DEF Ledger!Next
  <1>10. CASE DisablesRoom(settled, settled')
    <2>1. PICK r \in Room : DisablesOne(settled, settled', r)
      BY <1>10 DEF DisablesRoom
    <2> DEFINE moved == ToPend(settled.rows, r, settled.now)
    <2>2. moved = {b \in Booking : /\ settled.rows[b].status = "approved"
                                   /\ settled.rows[b].room = r
                                   /\ settled.now <= settled.rows[b].start}
      BY DEF ToPend
    <2> HIDE DEF moved
    <2>3. /\ RoomExists(settled.room[r])
          /\ settled'.room = [settled.room EXCEPT ![r] = "disabled"]
          /\ settled'.rows = [b \in Booking |->
                                IF b \in moved
                                THEN Moved(settled.rows[b], "pending", settled.now)
                                ELSE settled.rows[b]]
          /\ settled'.mail = Sent(settled.mail, moved, "pending")
          /\ settled'.now = settled.now
      BY <2>1, BecomesFields DEF DisablesOne, moved
    <2>4. Ledger!DisableRoom(r)
      BY <2>2, <2>3, RulesOfLedger DEF Ledger!DisableRoom
    <2> QED  BY <2>4 DEF Ledger!Next
  <1>11. CASE RemovesRoom(settled, settled')
    <2>1. \E r \in Room : Ledger!RemoveRoom(r)
      BY <1>11, RulesOfLedger, BecomesFields DEF RemovesRoom, Ledger!RemoveRoom
    <2> QED  BY <2>1 DEF Ledger!Next
  <1>12. CASE Ticks(settled, settled')
    <2>1. Ledger!Tick
      BY <1>12 DEF Ticks, Ledger!Tick
    <2> QED  BY <2>1 DEF Ledger!Next
  <1> QED  BY <1>1, <1>2, <1>3, <1>4, <1>5, <1>6, <1>7, <1>8, <1>9, <1>10, <1>11,
              <1>12 DEF Step

-----------------------------------------------------------------------------
(* SerialInv holds whenever one request, with its listener, or one job is  *)
(* served at a time.                                                       *)
LEMMA SerialInvariant == SerialSpec => [](TypeOK /\ Shaped /\ SerialInv)
  <1>1. SerialSpec => Spec
    BY SerialIsService, PTL DEF SerialSpec, Spec
  <1>2. SerialInit => SerialInv
    BY SerialStarts
  <1>3. TypeOK /\ Shaped /\ SerialInv /\ [SerialNext]_serialVars => SerialInv'
    BY SerialSteps
  <1> QED  BY <1>1, <1>2, <1>3, TypeCorrect, PTL DEF SerialSpec

(* Whenever nothing is under way, an entry of either cache is the row or   *)
(* room it stands for: removeCache was called wherever a write made one    *)
(* stale, and nothing that was read before the write is cached after it.   *)
THEOREM CachesFresh == SerialSpec => []CachesAreFresh
  <1>1. SerialInv => CachesAreFresh
    BY DEF SerialInv, CachesAreFresh, Fresh
  <1> QED  BY <1>1, SerialInvariant, PTL

(* The handlers of BookingsService and RoomsService, split at their awaits *)
(* and served one at a time with their listeners and the cron jobs, do     *)
(* what BookingLedger says of them: from the tables as the last process    *)
(* left them to the tables as this one leaves them is one step of it.      *)
THEOREM LedgerImplemented == SerialSpec => ImplementsLedger
  <1>1. SerialInit => Ledger!Init
    BY RulesOfLedger DEF SerialInit, Init, Tables, Ledger!Init
  <1>2. TypeOK /\ Shaped /\ SerialInv /\ [SerialNext]_serialVars
        => [Ledger!Next]_(Ledger!vars)
    BY SerialSteps, StepIsLedgerStep
  <1> QED  BY <1>1, <1>2, SerialInvariant, PTL
           DEF SerialSpec, ImplementsLedger, Ledger!Spec

-----------------------------------------------------------------------------
(* JobsSpec: the cron jobs run beside single requests.                     *)
(*                                                                         *)
(* A row that a cache or a handler holds may now be older than the jobs'   *)
(* last writes: it may be pending although the booking was rejected, or    *)
(* there although the booking is gone.  What the argument needs of it is   *)
(* that a write to the booking would throw, or that its slot is the        *)
(* booking's and approving it would still be right.                        *)

SameSlot(x, y) == x.room = y.room /\ x.start = y.start /\ x.end = y.end

(* No other booking that is approved shares an instant with b.             *)
Clear(rs, b) ==
    \A a \in Booking \ {b} :
        /\ rs[a].status = "approved"
        /\ rs[a].room = rs[b].room /\ rs[a].room \in Room
        => ~ Clash(rs[a], rs[b])

Current(rs, b, row) ==
    \/ rs[b].status = "deleted"
    \/ /\ SameSlot(row, rs[b])
       /\ row.status = "pending" => Clear(rs, b) /\ rs[b].status # "approved"

(* What a request that approved a booking has yet to reject.               *)
Losers(rs, row) == Overlapping(rs, "pending", row.room, row.start, row.end)

Doomed(rs, k) ==
    IF \/ k.pc = "written" /\ ApprovalStartsListener(k)
       \/ k.pc = "collect" /\ k.op = "rejectOverlap"
    THEN Losers(rs, k.row)
    ELSE IF k.op = "rejectOverlap" THEN k.todo ELSE {}

(* The cache is about to be dropped.                                       *)
Wrote(k) == k.pc = "written" /\ k.op \in {"create", "update", "confirm", "cancel"}

(* What a request knows that the jobs do not undo.                         *)
Sound(rs, k) ==
    /\ k.op \in {"update", "confirm", "cancel"} /\ k.pc \notin {"getBooking", "written"} =>
          Current(rs, k.id, k.row)
    /\ /\ k.op \in {"update", "confirm"}
       /\ k.pc \in {"getRoom", "setRoom", "askSlot", "write"}
       => k.row.status = "pending"
    /\ k.op = "create" /\ k.pc = "write" => TakenIn(rs, k) = {}
    /\ k.op = "update" /\ k.pc = "write" /\ AsksForSlot(k.patch) => TakenIn(rs, k) = {}
    /\ k.op = "removeRoom" /\ k.pc = "write" => \A b \in Booking : rs[b].room # k.rm
    /\ k.op = "pendRoom" /\ k.pc = "apply" => \A b \in k.todo : Clear(rs, b)
    /\ k.op = "rejectOverlap" /\ k.pc \in {"apply", "applied"} => Alive(rs, k.todo)

Cached(rs, cache) ==
    \A b \in Booking : cache[b] = None \/ Current(rs, b, cache[b])

(* A process of the scheduler.                                             *)
RunsOf(k, jobs) == k.op \in {"idle"} \cup jobs

JobsInv ==
    /\ \A c \in Cron : RunsOf(task[c], Cron)
    /\ \A p \in Request : task[p].op \notin Jobs
    /\ \A p, q \in Request : task[p] # Idle /\ task[q] # Idle => p = q
    /\ \A b \in Booking : rows[b].status = "approved" => Clear(rows, b)
    /\ \A b \in Booking : rows[b].status = "pending" =>
          Clear(rows, b) \/ \E p \in Request : b \in Doomed(rows, task[p])
    /\ (\A p \in Request : ~ Wrote(task[p])) => Cached(rows, bookingCache)
    /\ \A p \in Request : Sound(rows, task[p])

(* The deleting job deletes no booking that a listener found and has still *)
(* to reject.  Its update would throw on the missing row, and the rest of  *)
(* its loop would be lost.                                                 *)
ListenersFinish ==
    \A p \in Request : task[p].op = "rejectOverlap" =>
        \A b \in task[p].todo : Live(rows[b]) => Live(rows'[b])

(* Writes that approve nothing and move nothing.                           *)
Closing(rs, rt) ==
    \A x \in Booking :
        /\ SameSlot(rt[x], rs[x]) \/ rt[x] = NoRow("deleted")
        /\ rt[x].status = "approved" => rs[x].status = "approved"
        /\ rs[x].status = "deleted" => rt[x].status = "deleted"

LEMMA DeletedIsNowhere ==
    NoRow("deleted").status = "deleted" /\ NoRow("deleted").room \notin Room
  BY RulesAssumption DEF NoRow

LEMMA ClearStays ==
    ASSUME NEW rs, NEW rt, Closing(rs, rt), NEW b \in Booking, Clear(rs, b)
    PROVE  Clear(rt, b)
  <1> SUFFICES ASSUME NEW a \in Booking \ {b}, rt[a].status = "approved",
                      rt[a].room = rt[b].room, rt[a].room \in Room
               PROVE  ~ Clash(rt[a], rt[b])
    BY DEF Clear
  <1>0. rt[a] # NoRow("deleted") /\ rt[b] # NoRow("deleted")
    BY DeletedIsNowhere
  <1>1. /\ rs[a].status = "approved" /\ rs[a].room = rs[b].room /\ rs[a].room \in Room
        /\ rt[a].start = rs[a].start /\ rt[a].end = rs[a].end
        /\ rt[b].start = rs[b].start /\ rt[b].end = rs[b].end
    BY <1>0 DEF Closing, SameSlot
  <1>2. ~ Clash(rs[a], rs[b])
    BY <1>1 DEF Clear
  <1> QED  BY <1>1, <1>2, ClashOfSlots

LEMMA CurrentStays ==
    ASSUME NEW rs, NEW rt, Closing(rs, rt), NEW b \in Booking, NEW row,
           Current(rs, b, row)
    PROVE  Current(rt, b, row)
  <1>1. CASE rt[b].status = "deleted"
    BY <1>1 DEF Current
  <1>2. CASE rt[b].status # "deleted"
    <2>1. rt[b] # NoRow("deleted") /\ rs[b].status # "deleted"
      BY <1>2, DeletedIsNowhere DEF Closing
    <2>2. SameSlot(row, rt[b])
      BY <2>1 DEF Current, Closing, SameSlot
    <2>3. rt[b].status = "approved" => rs[b].status = "approved"
      BY DEF Closing
    <2> QED  BY <2>1, <2>2, <2>3, ClearStays DEF Current
  <1> QED  BY <1>1, <1>2

LEMMA CachedStays ==
    ASSUME NEW rs, NEW rt, Closing(rs, rt), NEW cache, Cached(rs, cache)
    PROVE  Cached(rt, cache)
  BY CurrentStays DEF Cached

LEMMA SoundStays ==
    ASSUME NEW rs, NEW rt, Closing(rs, rt), NEW k \in Task, HasShape(k), Sound(rs, k),
           k.op = "rejectOverlap" => \A b \in k.todo : Live(rs[b]) => Live(rt[b])
    PROVE  Sound(rt, k)
  <1>1. /\ k.op \in {"update", "confirm", "cancel"}
        /\ k.pc \notin {"getBooking", "written"}
        => Current(rt, k.id, k.row)
    BY CurrentStays DEF Sound, HasShape
  <1>2. TakenIn(rs, k) = {} => TakenIn(rt, k) = {}
    <2>1. \A r, s, e : Overlapping(rt, "approved", r, s, e)
                          \subseteq Overlapping(rs, "approved", r, s, e)
      BY DeletedIsNowhere DEF Overlapping, InSlot, Closing, SameSlot
    <2> QED  BY <2>1 DEF TakenIn
  <1>3. k.op = "removeRoom" /\ k.pc = "write" => \A b \in Booking : rt[b].room # k.rm
    BY DeletedIsNowhere DEF Closing, SameSlot, Sound, HasShape
  <1>4. k.op = "pendRoom" /\ k.pc = "apply" => \A b \in k.todo : Clear(rt, b)
    BY ClearStays DEF Sound, Task
  <1>5. k.op = "rejectOverlap" /\ k.pc \in {"apply", "applied"} => Alive(rt, k.todo)
    BY DEF Sound, Alive
  <1> QED  BY <1>1, <1>2, <1>3, <1>4, <1>5 DEF Sound

(* Who is idle knows, owes and wrote nothing.                              *)
LEMMA IdleIsSound ==
    \A rs : Sound(rs, Idle) /\ Doomed(rs, Idle) = {} /\ ~ Wrote(Idle)
  <1>1. Idle.op = "idle" /\ Idle.pc = "idle"
    BY DEF Idle
  <1> HIDE DEF Idle
  <1> QED  BY <1>1 DEF Sound, Doomed, Wrote

(* A step of a request, and what it owes.                                  *)
LEMMA RequestMoves ==
    ASSUME TypeOK, JobsInv, NEW p \in Request, Quiet(Request) \/ task[p] # Idle,
           NEW j, j.op \notin Jobs, task' = [task EXCEPT ![p] = j],
           \A b \in Booking : rows'[b].status = "approved" => Clear(rows', b),
           \A b \in Booking : rows'[b].status = "pending" =>
              Clear(rows', b) \/ b \in Doomed(rows', j),
           Wrote(j) \/ Cached(rows', bookingCache'),
           Sound(rows', j)
    PROVE  JobsInv'
  <1>1. /\ p \in Process /\ task \in [Process -> Task]
        /\ Request \subseteq Process /\ Cron \subseteq Process
    BY DEF Process, TypeOK
  <1>2. \A c \in Cron : task'[c] = task[c]
    BY <1>1, ServiceAssumption
  <1>3. task'[p] = j /\ \A q \in Request \ {p} : task'[q] = task[q]
    BY <1>1
  <1>4. \A q \in Request \ {p} : task[q] = Idle
    BY DEF JobsInv, Quiet
  <1>5. \A q \in Request : q # p => task'[q] = Idle
    BY <1>3, <1>4
  <1>6. \A c \in Cron : RunsOf(task'[c], Cron)
    BY <1>2 DEF JobsInv
  <1>7. \A q \in Request : task'[q].op \notin Jobs
    BY <1>3 DEF JobsInv
  <1>8. \A q \in Request : Sound(rows', task'[q])
    BY <1>3, <1>5, IdleIsSound
  <1>9. (\A q \in Request : ~ Wrote(task'[q])) => Cached(rows', bookingCache')
    BY <1>3
  <1>10. \A b \in Booking : rows'[b].status = "pending" =>
            Clear(rows', b) \/ \E q \in Request : b \in Doomed(rows', task'[q])
    BY <1>3
  <1> QED  BY <1>5, <1>6, <1>7, <1>8, <1>9, <1>10 DEF JobsInv

(* What the request that is under way may rely on.                         *)
LEMMA Requesting ==
    ASSUME TypeOK, Shaped, JobsInv, NEW p \in Request, task[p].pc # "idle"
    PROVE  /\ p \in Process /\ task[p] \in Task /\ HasShape(task[p]) /\ task[p] # Idle
           /\ Sound(rows, task[p])
           /\ \A b \in Booking : rows[b].status = "pending" =>
                 Clear(rows, b) \/ b \in Doomed(rows, task[p])
           /\ Wrote(task[p]) \/ Cached(rows, bookingCache)
  <1>1. p \in Process
    BY DEF Process
  <1>2. task[p] \in Task /\ HasShape(task[p]) /\ task[p] # Idle
    BY <1>1 DEF TypeOK, Shaped, Idle
  <1>3. \A q \in Request \ {p} : task[q] = Idle
    BY <1>2 DEF JobsInv
  <1>4. \A q \in Request \ {p} : Doomed(rows, task[q]) = {} /\ ~ Wrote(task[q])
    BY <1>3, IdleIsSound
  <1>5. Wrote(task[p]) \/ Cached(rows, bookingCache)
    BY <1>4 DEF JobsInv
  <1>6. \A b \in Booking : rows[b].status = "pending" =>
           Clear(rows, b) \/ b \in Doomed(rows, task[p])
    BY <1>4 DEF JobsInv
  <1> QED  BY <1>1, <1>2, <1>5, <1>6 DEF JobsInv

(* The request goes on, or ends, and has written nothing.                  *)
LEMMA RequestReads ==
    ASSUME TypeOK, Shaped, JobsInv, NEW p \in Request, task[p].pc # "idle",
           NEW j, j.op \notin Jobs, task' = [task EXCEPT ![p] = j], UNCHANGED rows,
           Doomed(rows, task[p]) \subseteq Doomed(rows, j),
           Cached(rows, bookingCache'), Sound(rows, j)
    PROVE  JobsInv'
  <1>1. /\ task[p] # Idle
        /\ \A b \in Booking : rows[b].status = "pending" =>
              Clear(rows, b) \/ b \in Doomed(rows, task[p])
    BY Requesting
  <1>2. \A b \in Booking : rows'[b].status = "approved" => Clear(rows', b)
    BY DEF JobsInv
  <1>3. \A b \in Booking : rows'[b].status = "pending" =>
           Clear(rows', b) \/ b \in Doomed(rows', j)
    BY <1>1
  <1>4. Cached(rows', bookingCache') /\ Sound(rows', j)
    OBVIOUS
  <1> QED  BY <1>1, <1>2, <1>3, <1>4, RequestMoves

(* A request that approved nothing has nobody to reject.                   *)
LEMMA NobodyDoomed ==
    ASSUME NEW rs, NEW k, k.op # "rejectOverlap",
           k.pc = "written" => ~ ApprovalStartsListener(k)
    PROVE  Doomed(rs, k) = {}
  BY DEF Doomed

LEMMA RequestEnds ==
    ASSUME TypeOK, Shaped, JobsInv, NEW p \in Request, task[p].pc # "idle",
           task' = [task EXCEPT ![p] = Idle], UNCHANGED rows,
           Doomed(rows, task[p]) = {}, Cached(rows, bookingCache')
    PROVE  JobsInv'
  <1>1. Idle.op \notin Jobs
    BY DEF Idle, Jobs
  <1>2. Sound(rows, Idle) /\ Doomed(rows, task[p]) \subseteq Doomed(rows, Idle)
    BY IdleIsSound
  <1> HIDE DEF Idle
  <1> QED  BY <1>1, <1>2, RequestReads

-----------------------------------------------------------------------------
(* The steps of a request before its write.                                *)

LEMMA BookingIsCurrent ==
    ASSUME TypeOK, Shaped, JobsInv, NEW p \in Request, NEW row,
           task[p].pc \in {"getBooking", "setBooking"}, WithBooking(p, row),
           Current(rows, task[p].id, row), UNCHANGED rows,
           Cached(rows, bookingCache')
    PROVE  JobsInv'
  <1>1. /\ task[p] \in Task /\ HasShape(task[p]) /\ task[p].pc # "idle"
        /\ task[p].op \in {"update", "confirm", "cancel"}
    BY Requesting, StepsOfHandlers
  <1> DEFINE i == [task[p] EXCEPT !.row = row]
             j == [i EXCEPT !.pc = BookingThen(i)]
  <1>2. i.op = task[p].op /\ i.row = row /\ i.id = task[p].id
    BY <1>1 DEF Task
  <1>3. task' = [task EXCEPT ![p] = IF BookingPasses(i) THEN j ELSE Idle]
    BY DEF WithBooking
  <1>4. /\ j.op = i.op /\ j.row = row /\ j.id = task[p].id /\ j.pc = BookingThen(i)
        /\ j.patch = i.patch
    BY <1>1, <1>2 DEF Task
  <1> HIDE DEF i, j
  <1>5. Doomed(rows, task[p]) = {}
    BY <1>1, NobodyDoomed
  <1>6. CASE BookingPasses(i)
    <2>1. j.pc \in {"getRoom", "askSlot", "write"} /\ j.op \notin Jobs
      BY <1>1, <1>2, <1>4 DEF BookingThen, Jobs
    <2>2. j.op \in {"update", "confirm"} => j.row.status = "pending"
      BY <1>2, <1>4, <1>6 DEF BookingPasses
    <2>3. j.op = "update" /\ j.pc = "write" => ~ AsksForSlot(j.patch)
      BY <1>4 DEF BookingThen
    <2>4. Sound(rows, j)
      BY <1>1, <1>2, <1>4, <2>1, <2>2, <2>3 DEF Sound
    <2> QED  BY <1>1, <1>3, <1>5, <1>6, <2>1, <2>4, RequestReads
  <1>7. CASE ~ BookingPasses(i)
    BY <1>1, <1>3, <1>5, <1>7, RequestEnds
  <1> QED  BY <1>6, <1>7

LEMMA RoomIsSeen ==
    ASSUME TypeOK, Shaped, JobsInv, NEW p \in Request, NEW state,
           task[p].pc \in {"getRoom", "setRoom"}, WithRoom(p, state),
           UNCHANGED <<rows, bookingCache>>
    PROVE  JobsInv'
  <1>1. /\ task[p] \in Task /\ HasShape(task[p]) /\ task[p].pc # "idle"
        /\ task[p].op \in {"create", "update", "updateRoom", "removeRoom"}
        /\ Sound(rows, task[p]) /\ Cached(rows, bookingCache')
    BY Requesting, StepsOfHandlers DEF Wrote
  <1> DEFINE j == [task[p] EXCEPT !.pc = RoomThen(task[p])]
  <1>2. /\ j.op = task[p].op /\ j.row = task[p].row /\ j.id = task[p].id
        /\ j.pc = RoomThen(task[p]) /\ j.todo = task[p].todo
    BY <1>1 DEF Task
  <1>3. task' = [task EXCEPT ![p] = IF RoomPasses(task[p], state) THEN j ELSE Idle]
    BY DEF WithRoom, Goto, Done, TypeOK
  <1> HIDE DEF j
  <1>4. Doomed(rows, task[p]) = {}
    BY <1>1, NobodyDoomed
  <1>5. /\ j.pc \in {"askSlot", "askEmpty", "write"} /\ j.op \notin Jobs
        /\ j.pc = "write" => j.op = "updateRoom"
    BY <1>1, <1>2 DEF RoomThen, Jobs
  <1>6. Sound(rows, j)
    BY <1>1, <1>2, <1>5 DEF Sound
  <1>7. CASE RoomPasses(task[p], state)
    BY <1>1, <1>3, <1>4, <1>5, <1>6, <1>7, RequestReads
  <1>8. CASE ~ RoomPasses(task[p], state)
    BY <1>1, <1>3, <1>4, <1>8, RequestEnds
  <1> QED  BY <1>7, <1>8

LEMMA ReadsKeepClear ==
    ASSUME TypeOK, Shaped, JobsInv, NEW p \in Request,
           \/ GetBooking(p) \/ SetBooking(p) \/ GetRoom(p) \/ SetRoom(p)
           \/ AskSlot(p) \/ AskEmpty(p)
    PROVE  JobsInv'
  <1> DEFINE k == task[p]
  <1>0. k.pc # "idle" /\ k.pc \in Before
    BY DEF GetBooking, SetBooking, GetRoom, SetRoom, AskSlot, AskEmpty, Before
  <1>1. /\ k \in Task /\ HasShape(k) /\ Sound(rows, k) /\ Cached(rows, bookingCache)
    BY <1>0, Requesting DEF Wrote, Before
  <1>2. CASE GetBooking(p)
    <2> DEFINE b == k.id
    <2>1. /\ b \in Booking /\ k.pc = "getBooking" /\ k.op \notin Jobs
          /\ k.op \in {"update", "confirm", "cancel"}
      BY <1>1, <1>2, StepsOfHandlers DEF GetBooking, HasShape, Jobs
    <2>2. UNCHANGED <<rows, bookingCache>> /\ Doomed(rows, k) = {}
      BY <1>2, <2>1, NobodyDoomed DEF GetBooking
    <2>3. CASE bookingCache[b] # None
      <3>1. Current(rows, b, bookingCache[b])
        BY <1>1, <2>1, <2>3 DEF Cached
      <3>2. WithBooking(p, bookingCache[b])
        BY <1>2, <2>3 DEF GetBooking
      <3> QED  BY <1>1, <2>1, <2>2, <3>1, <3>2, BookingIsCurrent
    <2>4. CASE bookingCache[b] = None /\ Live(rows[b])
      <3> DEFINE j == [k EXCEPT !.pc = "setBooking", !.row = rows[b]]
      <3>1. /\ j.row = rows[b] /\ j.pc = "setBooking" /\ j.id = b /\ j.op = k.op
        BY <1>1 DEF Task
      <3>2. task' = [task EXCEPT ![p] = j]
        BY <1>2, <2>4 DEF GetBooking, TypeOK
      <3> HIDE DEF j
      <3>3. rows[b].status = "pending" => Clear(rows, b)
        BY <1>0, <2>1, <2>2, Requesting
      <3>4. Current(rows, b, rows[b])
        BY <3>3 DEF Current, SameSlot
      <3>5. Sound(rows, j)
        BY <2>1, <3>1, <3>4 DEF Sound
      <3> QED  BY <1>0, <1>1, <2>1, <2>2, <3>1, <3>2, <3>5, RequestReads
    <2>5. CASE bookingCache[b] = None /\ ~ Live(rows[b])
      BY <1>0, <1>1, <1>2, <2>2, <2>5, RequestEnds DEF GetBooking, Done
    <2> QED  BY <2>3, <2>4, <2>5
  <1>3. CASE SetBooking(p)
    <2>1. /\ k.pc = "setBooking" /\ k.id \in Booking /\ Current(rows, k.id, k.row)
      BY <1>1, <1>3, StepsOfHandlers DEF SetBooking, HasShape, Sound
    <2>2. bookingCache' = [bookingCache EXCEPT ![k.id] = k.row]
      BY <1>3 DEF SetBooking
    <2>3. Cached(rows, bookingCache')
      BY <1>1, <2>1, <2>2 DEF Cached, TypeOK
    <2>4. UNCHANGED rows /\ WithBooking(p, k.row)
      BY <1>3 DEF SetBooking
    <2> QED  BY <2>1, <2>3, <2>4, BookingIsCurrent
  <1>4. CASE GetRoom(p)
    <2> DEFINE r == RoomAsked(k)
    <2>1. /\ k.pc = "getRoom" /\ UNCHANGED <<rows, bookingCache>>
          /\ k.op \in {"create", "update", "updateRoom", "removeRoom"}
          /\ k.op \notin Jobs /\ Doomed(rows, k) = {}
      BY <1>1, <1>4, StepsOfHandlers, NobodyDoomed DEF GetRoom, Jobs
    <2>2. CASE roomCache[r] # None
      <3>1. WithRoom(p, roomCache[r])
        BY <1>4, <2>2 DEF GetRoom
      <3> QED  BY <2>1, <3>1, RoomIsSeen
    <2>3. CASE roomCache[r] = None /\ RoomExists(room[r])
      <3> DEFINE j == [k EXCEPT !.pc = "setRoom", !.seen = room[r]]
      <3>1. /\ j.row = k.row /\ j.pc = "setRoom" /\ j.id = k.id /\ j.op = k.op
        BY <1>1 DEF Task
      <3>2. task' = [task EXCEPT ![p] = j]
        BY <1>4, <2>3 DEF GetRoom, TypeOK
      <3> HIDE DEF j
      <3>3. Sound(rows, j)
        BY <1>1, <2>1, <3>1 DEF Sound
      <3> QED  BY <1>0, <1>1, <2>1, <3>1, <3>2, <3>3, RequestReads
    <2>4. CASE roomCache[r] = None /\ ~ RoomExists(room[r])
      BY <1>0, <1>1, <1>4, <2>1, <2>4, RequestEnds DEF GetRoom, Done
    <2> QED  BY <2>2, <2>3, <2>4
  <1>5. CASE SetRoom(p)
    <2>1. /\ k.pc = "setRoom" /\ UNCHANGED <<rows, bookingCache>>
          /\ WithRoom(p, k.seen)
      BY <1>5 DEF SetRoom
    <2> QED  BY <2>1, RoomIsSeen
  <1>6. CASE AskSlot(p)
    <2>1. /\ k.pc = "askSlot" /\ k.op \in {"create", "update"}
          /\ UNCHANGED <<rows, bookingCache>> /\ k.op \notin Jobs
          /\ Doomed(rows, k) = {}
      BY <1>1, <1>6, StepsOfHandlers, NobodyDoomed DEF AskSlot, Jobs
    <2>2. CASE Taken(k) = {}
      <3> DEFINE j == [k EXCEPT !.pc = "write"]
      <3>1. /\ j.row = k.row /\ j.pc = "write" /\ j.id = k.id /\ j.op = k.op
            /\ j.patch = k.patch /\ j.rm = k.rm
        BY <1>1 DEF Task
      <3>2. task' = [task EXCEPT ![p] = j]
        BY <1>6, <2>2 DEF AskSlot, Goto, TypeOK
      <3> HIDE DEF j
      <3>3. TakenIn(rows, j) = {}
        BY <2>2, <3>1, TakenAsFound DEF TakenIn
      <3>4. Sound(rows, j)
        BY <1>1, <2>1, <3>1, <3>3 DEF Sound
      <3> QED  BY <1>0, <1>1, <2>1, <3>1, <3>2, <3>4, RequestReads
    <2>3. CASE Taken(k) # {}
      BY <1>0, <1>1, <1>6, <2>1, <2>3, RequestEnds DEF AskSlot, Done
    <2> QED  BY <2>2, <2>3
  <1>7. CASE AskEmpty(p)
    <2>1. /\ k.pc = "askEmpty" /\ k.op = "removeRoom"
          /\ UNCHANGED <<rows, bookingCache>> /\ k.op \notin Jobs
          /\ Doomed(rows, k) = {}
      BY <1>1, <1>7, StepsOfHandlers, NobodyDoomed DEF AskEmpty, Jobs
    <2>2. CASE \A b \in Booking : rows[b].room # k.rm
      <3> DEFINE j == [k EXCEPT !.pc = "write"]
      <3>1. /\ j.pc = "write" /\ j.op = k.op /\ j.rm = k.rm
        BY <1>1 DEF Task
      <3>2. task' = [task EXCEPT ![p] = j]
        BY <1>7, <2>2 DEF AskEmpty, Goto, TypeOK
      <3> HIDE DEF j
      <3>3. Sound(rows, j)
        BY <2>1, <2>2, <3>1 DEF Sound
      <3> QED  BY <1>0, <1>1, <2>1, <3>1, <3>2, <3>3, RequestReads
    <2>3. CASE ~ \A b \in Booking : rows[b].room # k.rm
      BY <1>0, <1>1, <1>7, <2>1, <2>3, RequestEnds DEF AskEmpty, Done
    <2> QED  BY <2>2, <2>3
  <1> QED  BY <1>2, <1>3, <1>4, <1>5, <1>6, <1>7

-----------------------------------------------------------------------------
(* The writes of a request.                                                *)

(* One booking enters, moves or is decided.  Who gets approved has a clear *)
(* slot, and its listener will reject the pending ones it clashes with.    *)
LEMMA OneIsWritten ==
    ASSUME TypeOK, TypeOK', Shaped, JobsInv, NEW p \in Request,
           task[p].pc = "write", NEW b \in Booking, NEW new,
           rows' = [rows EXCEPT ![b] = new], NEW j, task' = [task EXCEPT ![p] = j],
           Wrote(j),
           new.status \in {"approved", "pending"} => Clear(rows', b),
           new.status = "approved" =>
              \/ ApprovalStartsListener(j) /\ SameSlot(j.row, new)
              \/ rows[b].status = "approved" /\ SameSlot(new, rows[b])
    PROVE  JobsInv'
  <1>1. /\ task[p].pc # "idle" /\ task[p] # Idle /\ HasShape(task[p])
        /\ task[p] \in Task
    BY Requesting
  <1>2. task[p].op # "rejectOverlap"
    BY <1>1, StepsOfHandlers DEF Endpoints
  <1>3. Doomed(rows, task[p]) = {}
    BY <1>2, NobodyDoomed
  <1>4. /\ rows'[b] = new /\ \A x \in Booking \ {b} : rows'[x] = rows[x]
        /\ \A x \in Booking : rows'[x] \in Row
    BY DEF TypeOK
  <1>5. \A x \in Booking : rows[x].status \in {"approved", "pending"} => Clear(rows, x)
    BY <1>1, <1>3, Requesting DEF JobsInv
  <1> DEFINE Hits(x) == /\ new.status = "approved" /\ new.room = rows'[x].room
                        /\ new.room \in Room /\ Clash(new, rows'[x])
  <1>6. ASSUME NEW x \in Booking \ {b}, rows'[x].status \in {"approved", "pending"},
               ~ Hits(x)
        PROVE  Clear(rows', x)
    <2> SUFFICES ASSUME NEW a \in Booking \ {x}, rows'[a].status = "approved",
                        rows'[a].room = rows'[x].room, rows'[a].room \in Room
                 PROVE  ~ Clash(rows'[a], rows'[x])
      BY DEF Clear
    <2>1. CASE a = b
      BY <1>4, <1>6, <2>1
    <2>2. CASE a # b
      <3>1. rows'[a] = rows[a] /\ rows'[x] = rows[x] /\ Clear(rows, x)
        BY <1>4, <1>5, <1>6, <2>2
      <3> QED  BY <3>1 DEF Clear
    <2> QED  BY <2>1, <2>2
  <1>7. ASSUME NEW x \in Booking, rows'[x].status = "approved"
        PROVE  Clear(rows', x)
    <2>1. CASE x = b
      BY <1>4, <1>7, <2>1
    <2>2. CASE x # b
      <3>1. ~ Hits(x)
        <4> SUFFICES ASSUME Hits(x) PROVE FALSE
          OBVIOUS
        <4>1. Clear(rows', b)
          OBVIOUS
        <4>2. ~ Clash(rows'[x], rows'[b])
          BY <1>4, <1>7, <2>2, <4>1 DEF Clear
        <4> QED  BY <1>4, <4>2, ClashIsSymmetric
      <3>2. x \in Booking \ {b} /\ rows'[x].status \in {"approved", "pending"}
        BY <1>7, <2>2
      <3> HIDE DEF Hits
      <3> QED  BY <1>6, <3>1, <3>2
    <2> QED  BY <2>1, <2>2
  <1>8. ASSUME NEW x \in Booking, rows'[x].status = "pending"
        PROVE  Clear(rows', x) \/ x \in Doomed(rows', j)
    <2>1. CASE x = b
      BY <1>4, <1>8, <2>1
    <2>2. CASE x # b /\ ~ Clear(rows', x)
      <3>1. /\ new.status = "approved" /\ new.room = rows'[x].room
            /\ Clash(new, rows'[x]) /\ new.room \in Room
        <4>1. x \in Booking \ {b} /\ rows'[x].status \in {"approved", "pending"}
          BY <1>8, <2>2
        <4>2. Hits(x)
          <5> HIDE DEF Hits
          <5> QED  BY <1>6, <2>2, <4>1
        <4> QED  BY <4>2
      <3>2. CASE ApprovalStartsListener(j) /\ SameSlot(j.row, new)
        <4>1. InSlot(rows'[x], new.start, new.end)
          BY <1>4, <3>1, ClashIsSymmetric, QueryFindsClashes
        <4>2. x \in Losers(rows', j.row)
          BY <1>8, <3>1, <3>2, <4>1 DEF Losers, Overlapping, SameSlot
        <4> QED  BY <3>2, <4>2 DEF Doomed, Wrote
      <3>3. CASE rows[b].status = "approved" /\ SameSlot(new, rows[b])
        <4>1. rows'[x] = rows[x] /\ Clear(rows, x)
          BY <1>4, <1>5, <1>8, <2>2
        <4>2. ~ Clash(rows[b], rows[x])
          BY <2>2, <3>1, <3>3, <4>1 DEF Clear, SameSlot
        <4> QED  BY <3>1, <3>3, <4>1, <4>2, ClashOfSlots DEF SameSlot
      <3> QED  BY <3>1, <3>2, <3>3
    <2> QED  BY <2>1, <2>2
  <1>9. Sound(rows', j) /\ j.op \notin Jobs
    BY DEF Sound, Wrote, Jobs
  <1> QED  BY <1>1, <1>7, <1>8, <1>9, RequestMoves

(* What the query did not find clashes with nobody.                        *)
LEMMA NothingTaken ==
    ASSUME NEW rt, \A x \in Booking : rt[x] \in Row, NEW b \in Booking,
           NEW r, NEW s, NEW e,
           NEW rs, \A x \in Booking \ {b} : rt[x] = rs[x],
           Overlapping(rs, "approved", r, s, e) = {},
           rt[b].room \in Room => rt[b].room = r, rt[b].start = s, rt[b].end = e
    PROVE  Clear(rt, b)
  <1> SUFFICES ASSUME NEW a \in Booking \ {b}, rt[a].status = "approved",
                      rt[a].room = rt[b].room, rt[a].room \in Room
               PROVE  ~ Clash(rt[a], rt[b])
    BY DEF Clear
  <1>1. ~ InSlot(rt[a], rt[b].start, rt[b].end)
    BY DEF Overlapping
  <1> QED  BY <1>1, QueryFindsClashes

LEMMA InsertKeepsClear ==
    ASSUME TypeOK, TypeOK', Shaped, JobsInv, NEW p \in Request, InsertBooking(p)
    PROVE  JobsInv'
  <1> DEFINE k == task[p]
  <1>1. /\ k \in Task /\ HasShape(k) /\ k.op = "create" /\ k.pc = "write"
        /\ TakenIn(rows, k) = {} /\ k.row.room = k.rm /\ k.pc # "idle"
        /\ Cached(rows, bookingCache) /\ UNCHANGED bookingCache
    BY Requesting DEF InsertBooking, Sound, HasShape, Wrote
  <1>2. CASE ~ RoomExists(room[k.rm])
    <2>1. Doomed(rows, k) = {}
      BY <1>1, NobodyDoomed
    <2> QED  BY <1>1, <1>2, <2>1, RequestEnds DEF InsertBooking, Done
  <1>3. CASE RoomExists(room[k.rm])
    <2> DEFINE new == [k.row EXCEPT !.updatedAt = now]
    <2>1. PICK b \in Booking :
             /\ rows' = [rows EXCEPT ![b] = new]
             /\ task' = [task EXCEPT ![p].pc = "written", ![p].id = b]
      BY <1>3 DEF InsertBooking
    <2> DEFINE j == [k EXCEPT !.pc = "written", !.id = b]
    <2>2. SameSlot(k.row, new) /\ new.status = k.row.status
      BY <1>1 DEF Task, Row, SameSlot
    <2>3. j.op = "create" /\ j.pc = "written" /\ j.row = k.row
      BY <1>1 DEF Task
    <2>4. task' = [task EXCEPT ![p] = j]
      BY <2>1 DEF TypeOK
    <2> HIDE DEF j, new
    <2>5. /\ rows'[b] = new /\ \A x \in Booking \ {b} : rows'[x] = rows[x]
          /\ \A x \in Booking : rows'[x] \in Row
      BY <2>1 DEF TypeOK
    <2>6. Overlapping(rows, "approved", k.rm, k.row.start, k.row.end) = {}
      BY <1>1 DEF TakenIn
    <2>7. Clear(rows', b)
      BY <1>1, <2>2, <2>5, <2>6, NothingTaken DEF SameSlot
    <2>8. Wrote(j) /\ (new.status = "approved" =>
                         ApprovalStartsListener(j) /\ SameSlot(j.row, new))
      BY <2>2, <2>3 DEF Wrote, ApprovalStartsListener
    <2> QED  BY <1>1, <2>1, <2>4, <2>7, <2>8, OneIsWritten
  <1> QED  BY <1>2, <1>3

LEMMA WriteKeepsClear ==
    ASSUME TypeOK, TypeOK', Shaped, JobsInv, NEW p \in Request, WriteBooking(p)
    PROVE  JobsInv'
  <1> DEFINE k == task[p]
             b == k.id
             new == Written(k)
             j == [k EXCEPT !.pc = "written", !.row = new]
  <1>1. /\ k \in Task /\ HasShape(k) /\ k.op \in {"update", "confirm", "cancel"}
        /\ k.pc = "write" /\ k.pc # "idle" /\ b \in Booking
        /\ Current(rows, b, k.row)
        /\ k.op \in {"update", "confirm"} => k.row.status = "pending"
        /\ Cached(rows, bookingCache) /\ UNCHANGED bookingCache
    BY Requesting DEF WriteBooking, Sound, HasShape, Wrote
  <1>2. j.op = k.op /\ j.pc = "written" /\ j.row = new
    BY <1>1 DEF Task
  <1>3. \/ task' = [task EXCEPT ![p] = Idle] /\ UNCHANGED rows
        \/ /\ Live(rows[b]) /\ rows' = [rows EXCEPT ![b] = new]
           /\ task' = [task EXCEPT ![p] = j]
    BY DEF WriteBooking, Done, TypeOK
  <1>4. CASE task' = [task EXCEPT ![p] = Idle] /\ UNCHANGED rows
    <2>1. Doomed(rows, k) = {}
      BY <1>1, NobodyDoomed
    <2> QED  BY <1>1, <1>4, <2>1, RequestEnds
  <1>5. CASE /\ Live(rows[b]) /\ rows' = [rows EXCEPT ![b] = new]
             /\ task' = [task EXCEPT ![p] = j]
    <2>1. /\ p \in Process /\ rows[b] \in Row
          /\ k.op # "update" => /\ new.room = rows[b].room /\ new.start = rows[b].start
                                /\ new.end = rows[b].end
          /\ k.op = "update" => new.status = rows[b].status
      BY <1>1, <1>5, WrittenIsRow DEF Process
    <2> HIDE DEF j, new
    <2>2. /\ rows'[b] = new /\ \A x \in Booking \ {b} : rows'[x] = rows[x]
          /\ \A x \in Booking : rows'[x] \in Row
      BY <1>1, <1>5 DEF TypeOK
    <2>3. Wrote(j) /\ rows[b].status # "deleted"
      BY <1>1, <1>2, <1>5 DEF Wrote, Live, Status
    <2>4. CASE k.op = "confirm"
      <3>1. Clear(rows, b)
        BY <1>1, <2>3, <2>4 DEF Current
      <3>2. Clear(rows', b)
        <4> SUFFICES ASSUME NEW a \in Booking \ {b}, rows'[a].status = "approved",
                            rows'[a].room = rows'[b].room, rows'[a].room \in Room
                     PROVE  ~ Clash(rows'[a], rows'[b])
          BY DEF Clear
        <4>1. rows'[a] = rows[a] /\ ~ Clash(rows[a], rows[b])
          BY <2>1, <2>2, <2>4, <3>1 DEF Clear
        <4> QED  BY <2>1, <2>2, <2>4, <4>1, ClashOfSlots
      <3>3. new.status = "approved" => ApprovalStartsListener(j) /\ SameSlot(j.row, new)
        BY <1>2, <2>4 DEF ApprovalStartsListener, SameSlot
      <3> QED  BY <1>1, <1>5, <2>3, <3>2, <3>3, OneIsWritten
    <2>5. CASE k.op = "cancel"
      <3>1. new.status = "cancel"
        <4>1. k.user \in User /\ now \in Time /\ "cancel" \in Status
          BY <1>1, <2>5 DEF HasShape, TypeOK, Status
        <4>2. \/ new = Moved(rows[b], "cancel", now)
              \/ new = Decided(rows[b], "cancel", k.user, now)
          BY <2>5 DEF new, Written
        <4> QED  BY <2>1, <4>1, <4>2, MovedIsRow, DecidedIsRow
      <3> QED  BY <1>1, <1>5, <2>3, <3>1, OneIsWritten
    <2>6. CASE k.op = "update"
      <3> DEFINE patch == k.patch
      <3>1. /\ patch \in Patch /\ now \in Time /\ SameSlot(k.row, rows[b])
            /\ Clear(rows, b) /\ rows[b].status # "approved"
            /\ AsksForSlot(patch) => TakenIn(rows, k) = {}
        BY <1>1, <2>3, <2>6, Requesting, MoreTypes DEF HasShape, TypeOK, Current, Sound
      <3>2. new = Patched(rows[b], patch, now)
        BY <2>6 DEF new, Written
      <3>3. /\ new.room = Given(patch.room, rows[b].room)
            /\ new.start = Given(patch.start, rows[b].start)
            /\ new.end = Given(patch.end, rows[b].end)
        BY <2>1, <3>1, <3>2, PatchedIsRow
      <3>4. new.room \in Room => new.room = AskedRoom(patch, k.row)
        BY <3>1, <3>3, RulesAssumption DEF Given, AskedRoom, Patch, SameSlot
      <3>5. CASE AsksForSlot(patch)
        <4>1. Overlapping(rows, "approved", AskedRoom(patch, k.row),
                          new.start, new.end) = {}
          BY <2>6, <3>1, <3>3, <3>5 DEF TakenIn, SameSlot
        <4>2. Clear(rows', b)
          BY <1>1, <2>2, <3>4, <4>1, NothingTaken
        <4> QED  BY <1>1, <1>5, <2>1, <2>3, <2>6, <3>1, <4>2, OneIsWritten
      <3>6. CASE ~ AsksForSlot(patch)
        <4>1. /\ new.start = rows[b].start /\ new.end = rows[b].end
              /\ new.room \in Room => new.room = rows[b].room
          BY <3>1, <3>3, <3>4, <3>6 DEF AsksForSlot, AskedRoom, Given, SameSlot
        <4>2. Clear(rows', b)
          <5> SUFFICES ASSUME NEW a \in Booking \ {b}, rows'[a].status = "approved",
                              rows'[a].room = rows'[b].room, rows'[a].room \in Room
                       PROVE  ~ Clash(rows'[a], rows'[b])
            BY DEF Clear
          <5>1. rows'[a] = rows[a] /\ ~ Clash(rows[a], rows[b])
            BY <2>2, <3>1, <4>1 DEF Clear
          <5> QED  BY <2>2, <4>1, <5>1, ClashOfSlots
        <4> QED  BY <1>1, <1>5, <2>1, <2>3, <2>6, <3>1, <4>2, OneIsWritten
      <3> QED  BY <3>5, <3>6
    <2> QED  BY <1>1, <2>4, <2>5, <2>6
  <1> QED  BY <1>3, <1>4, <1>5
-----------------------------------------------------------------------------
(* Rooms, the answers of the writes, and the listeners.                    *)

(* A room goes when no booking points to it: none came since the question. *)
LEMMA RoomsKeepClear ==
    ASSUME TypeOK, Shaped, JobsInv, NEW p \in Request,
           WriteRoom(p) \/ DeleteRoom(p)
    PROVE  JobsInv'
  <1> DEFINE k == task[p]
             j == [k EXCEPT !.pc = "written"]
  <1>1. /\ k.pc = "write" /\ k.op \in RoomOps /\ k.pc # "idle"
        /\ UNCHANGED bookingCache
    BY DEF WriteRoom, DeleteRoom, RoomOps
  <1>2. k \in Task /\ Sound(rows, k) /\ Cached(rows, bookingCache)
    BY <1>1, Requesting DEF Wrote
  <1>3. Doomed(rows, k) = {}
    BY <1>1, NobodyDoomed DEF RoomOps
  <1>4. j.pc = "written" /\ j.op = k.op
    BY <1>2 DEF Task
  <1>5. UNCHANGED rows
    <2>1. CASE k.op = "removeRoom"
      <3>1. \A b \in Booking : rows[b].room # k.rm
        BY <1>1, <1>2, <2>1 DEF Sound
      <3>2. RowsWithout(k.rm) = rows
        BY <3>1 DEF RowsWithout, TypeOK
      <3> QED  BY <2>1, <3>2 DEF WriteRoom, DeleteRoom
    <2>2. CASE k.op # "removeRoom"
      BY <2>2 DEF WriteRoom, DeleteRoom
    <2> QED  BY <2>1, <2>2
  <1>6. task' = [task EXCEPT ![p] = j] \/ task' = [task EXCEPT ![p] = Idle]
    BY DEF WriteRoom, DeleteRoom, Goto, Done, TypeOK
  <1> HIDE DEF j
  <1>7. CASE task' = [task EXCEPT ![p] = Idle]
    BY <1>1, <1>2, <1>3, <1>5, <1>7, RequestEnds
  <1>8. CASE task' = [task EXCEPT ![p] = j]
    <2>1. Sound(rows, j) /\ j.op \notin Jobs
      BY <1>1, <1>4 DEF Sound, RoomOps, Jobs
    <2> QED  BY <1>1, <1>2, <1>3, <1>5, <1>8, <2>1, RequestReads
  <1> QED  BY <1>6, <1>7, <1>8

LEMMA ColdIsCached == \A rs : Cached(rs, ColdBookings)
  BY DEF Cached, ColdBookings

(* The listener that starts owes what the approval owed.                   *)
LEMMA AnswersKeepClear ==
    ASSUME TypeOK, Shaped, JobsInv, NEW p \in Request,
           BookingWritten(p) \/ RoomWritten(p)
    PROVE  JobsInv'
  <1> DEFINE k == task[p]
  <1>1. /\ k.pc = "written" /\ k.pc # "idle" /\ UNCHANGED rows
        /\ k.op \in Endpoints
    BY DEF BookingWritten, RoomWritten, Endpoints
  <1>2. k \in Task
    BY <1>1, Requesting
  <1>3. Cached(rows, bookingCache')
    <2>1. CASE BookingWritten(p)
      BY <2>1, ColdIsCached DEF BookingWritten
    <2>2. CASE RoomWritten(p)
      <3>1. Cached(rows, bookingCache)
        BY <1>1, <2>2, Requesting DEF RoomWritten, Wrote
      <3> QED  BY <2>2, <3>1 DEF RoomWritten
    <2> QED  BY <2>1, <2>2
  <1>4. ASSUME NEW listener \in Listeners, Listen(p, listener, k),
               listener = "rejectOverlap" \/ ~ ApprovalStartsListener(k)
        PROVE  JobsInv'
    <2> DEFINE j == [Idle EXCEPT !.op = listener, !.pc = "collect", !.user = k.user,
                                 !.row = k.row, !.rm = k.rm, !.at = now]
    <2>1. j.op = listener /\ j.pc = "collect" /\ j.row = k.row
      BY DEF Idle
    <2>2. task' = [task EXCEPT ![p] = j]
      BY <1>4 DEF Listen
    <2> HIDE DEF j
    <2>3. Sound(rows, j) /\ j.op \notin Jobs
      BY <2>1 DEF Sound, Listeners, Jobs
    <2>4. Doomed(rows, k) \subseteq Doomed(rows, j)
      BY <1>1, <1>4, <2>1 DEF Doomed, Endpoints
    <2> QED  BY <1>1, <1>3, <2>2, <2>3, <2>4, RequestReads
  <1>5. ASSUME Done(p), ~ ApprovalStartsListener(k)
        PROVE  JobsInv'
    <2>1. Doomed(rows, k) = {}
      BY <1>1, <1>5, NobodyDoomed DEF Endpoints
    <2> QED  BY <1>1, <1>3, <1>5, <2>1, RequestEnds DEF Done
  <1>6. "rejectOverlap" \in Listeners /\ "pendRoom" \in Listeners
    BY DEF Listeners
  <1>7. CASE BookingWritten(p)
    BY <1>4, <1>5, <1>6, <1>7 DEF BookingWritten
  <1>8. CASE RoomWritten(p)
    <2>1. ~ ApprovalStartsListener(k)
      BY <1>8 DEF RoomWritten, ApprovalStartsListener
    <2> QED  BY <1>4, <1>5, <1>6, <1>8, <2>1 DEF RoomWritten
  <1> QED  BY <1>7, <1>8

LEMMA CollectKeepsClear ==
    ASSUME TypeOK, Shaped, JobsInv, NEW p \in Request, Collect(p)
    PROVE  JobsInv'
  <1> DEFINE k == task[p]
             j == [k EXCEPT !.pc = "apply", !.todo = Found(k)]
  <1>1. /\ k.pc = "collect" /\ k.pc # "idle" /\ UNCHANGED <<rows, bookingCache>>
    BY DEF Collect
  <1>2. k \in Task /\ HasShape(k) /\ Cached(rows, bookingCache)
    BY <1>1, Requesting DEF Wrote
  <1>3. k.op \in {"rejectOverlap", "pendRoom"}
    BY <1>1, <1>2, StepsOfHandlers DEF JobsInv, Listeners
  <1>4. k.op = "rejectOverlap" => Found(k) = Losers(rows, k.row)
    BY DEF Found, Losers
  <1>5. k.op = "pendRoom" => \A b \in Found(k) : b \in Booking /\ rows[b].status = "approved"
    BY DEF Found
  <1>6. Doomed(rows, k) = IF k.op = "rejectOverlap" THEN Found(k) ELSE {}
    BY <1>1, <1>3, <1>4 DEF Doomed
  <1>7. j.op = k.op /\ j.pc = "apply" /\ j.todo = Found(k) /\ j.id = k.id
    BY <1>2 DEF Task
  <1>8. task' = [task EXCEPT ![p] = IF Found(k) = {} THEN Idle ELSE j]
    BY DEF Collect, Done, TypeOK
  <1> HIDE DEF j
  <1>9. CASE Found(k) = {}
    BY <1>1, <1>2, <1>6, <1>8, <1>9, RequestEnds
  <1>10. CASE Found(k) # {}
    <2>1. Doomed(rows, j) = Doomed(rows, k)
      BY <1>3, <1>6, <1>7 DEF Doomed
    <2>2. k.op = "rejectOverlap" => Alive(rows, Found(k))
      BY <1>4, MoreTypes DEF Losers, Overlapping, Alive, Live
    <2>3. k.op = "pendRoom" => \A b \in Found(k) : Clear(rows, b)
      BY <1>5 DEF JobsInv
    <2>4. Sound(rows, j) /\ j.op \notin Jobs
      BY <1>3, <1>7, <2>2, <2>3 DEF Sound, Jobs
    <2> QED  BY <1>1, <1>2, <1>8, <1>10, <2>1, <2>4, RequestReads
  <1> QED  BY <1>9, <1>10

(* A rejection, a deletion or a return to pending, by request or job.      *)
LEMMA ClosingKeeps ==
    ASSUME TypeOK, JobsInv, Closing(rows, rows')
    PROVE  \A b \in Booking : rows'[b].status = "approved" => Clear(rows', b)
  BY ClearStays DEF Closing, JobsInv
LEMMA RejectKeepsClear ==
    ASSUME TypeOK, Shaped, JobsInv, NEW p \in Request, RejectOne(p)
    PROVE  JobsInv'
  <1> DEFINE k == task[p]
  <1>1. /\ k.pc = "apply" /\ k.pc # "idle" /\ UNCHANGED bookingCache
        /\ k.op \in {"rejectOverlap", "rejectExpired"}
    BY DEF RejectOne
  <1>2. /\ k \in Task /\ HasShape(k) /\ Cached(rows, bookingCache) /\ Sound(rows, k)
        /\ k # Idle
        /\ \A b \in Booking : rows[b].status = "pending" =>
              Clear(rows, b) \/ b \in Doomed(rows, k)
    BY <1>1, Requesting DEF Wrote
  <1>3. k.op = "rejectOverlap"
    BY <1>1 DEF JobsInv, Jobs
  <1>4. Alive(rows, k.todo) /\ Doomed(rows, k) = k.todo /\ k.todo \subseteq Booking
    BY <1>1, <1>2, <1>3 DEF Sound, Doomed, Task
  <1>5. PICK b \in k.todo :
           IF Live(rows[b])
           THEN /\ rows' = [rows EXCEPT ![b] =
                              IF k.op = "rejectOverlap"
                              THEN Decided(@, "reject", k.user, now)
                              ELSE Moved(@, "reject", now)]
                /\ task' = [task EXCEPT ![p].pc = "applied", ![p].id = b,
                                        ![p].todo = @ \ {b}]
           ELSE Done(p) /\ UNCHANGED rows
    BY DEF RejectOne
  <1>6. Live(rows[b]) /\ b \in Booking /\ rows[b] \in Row
    BY <1>4 DEF Alive, TypeOK
  <1> DEFINE new == Decided(rows[b], "reject", k.user, now)
             j == [k EXCEPT !.pc = "applied", !.id = b, !.todo = @ \ {b}]
  <1>7. rows' = [rows EXCEPT ![b] = new] /\ task' = [task EXCEPT ![p] = j]
    BY <1>3, <1>5, <1>6 DEF TypeOK
  <1>8. /\ new.status = "reject" /\ Live(new)
        /\ SameSlot(new, rows[b])
    <2>1. k.user \in User /\ now \in Time /\ "reject" \in Status
      BY <1>2, <1>3, MoreTypes DEF HasShape, TypeOK
    <2> QED  BY <1>6, <2>1, DecidedIsRow DEF SameSlot, Live
  <1>9. j.op = "rejectOverlap" /\ j.pc = "applied" /\ j.todo = k.todo \ {b}
    BY <1>2, <1>3 DEF Task
  <1> HIDE DEF new, j
  <1>10. \A x \in Booking : rows'[x] = IF x = b THEN new ELSE rows[x]
    BY <1>7 DEF TypeOK
  <1>11. Closing(rows, rows')
    BY <1>6, <1>8, <1>10 DEF Closing, SameSlot, Live, Status
  <1>12. \A x \in Booking : rows'[x].status = "approved" => Clear(rows', x)
    BY <1>11, ClosingKeeps
  <1>13. Doomed(rows', j) = k.todo \ {b}
    BY <1>9 DEF Doomed
  <1>14. ASSUME NEW x \in Booking, rows'[x].status = "pending"
         PROVE  Clear(rows', x) \/ x \in Doomed(rows', j)
    <2>1. x # b /\ rows[x].status = "pending"
      BY <1>8, <1>10, <1>14
    <2>2. Clear(rows, x) \/ x \in k.todo
      BY <1>2, <1>4, <2>1
    <2> QED  BY <1>11, <1>13, <2>1, <2>2, ClearStays
  <1>15. Cached(rows', bookingCache')
    <2>1. Cached(rows', bookingCache)
      BY <1>2, <1>11, CachedStays
    <2> QED  BY <1>1, <2>1
  <1>16. Sound(rows', j)
    <2>1. Alive(rows', j.todo)
      BY <1>4, <1>8, <1>9, <1>10 DEF Alive
    <2> QED  BY <1>9, <2>1 DEF Sound
  <1>17. j.op \notin Jobs
    BY <1>9 DEF Jobs
  <1> QED  BY <1>2, <1>7, <1>12, <1>14, <1>15, <1>16, <1>17, RequestMoves

LEMMA RejectedKeepsClear ==
    ASSUME TypeOK, Shaped, JobsInv, NEW p \in Request, RejectedOne(p)
    PROVE  JobsInv'
  <1> DEFINE k == task[p]
             j == [k EXCEPT !.pc = "apply"]
  <1>1. /\ k.pc = "applied" /\ k.pc # "idle" /\ UNCHANGED rows
        /\ k.op \in {"rejectOverlap", "rejectExpired"}
        /\ Cached(rows, bookingCache')
    BY ColdIsCached DEF RejectedOne
  <1>2. k \in Task /\ Sound(rows, k)
    BY <1>1, Requesting
  <1>3. k.op = "rejectOverlap"
    BY <1>1 DEF JobsInv, Jobs
  <1>4. Alive(rows, k.todo) /\ Doomed(rows, k) = k.todo
    BY <1>1, <1>2, <1>3 DEF Sound, Doomed
  <1>5. j.op = "rejectOverlap" /\ j.pc = "apply" /\ j.todo = k.todo
    BY <1>2, <1>3 DEF Task
  <1>6. task' = [task EXCEPT ![p] = IF k.todo = {} THEN Idle ELSE j]
    BY DEF RejectedOne, Done, Goto, TypeOK
  <1> HIDE DEF j
  <1>7. CASE k.todo = {}
    BY <1>1, <1>4, <1>6, <1>7, RequestEnds
  <1>8. CASE k.todo # {}
    <2>1. Sound(rows, j) /\ j.op \notin Jobs /\ Doomed(rows, j) = k.todo
      BY <1>4, <1>5 DEF Sound, Doomed, Jobs
    <2> QED  BY <1>1, <1>4, <1>6, <1>8, <2>1, RequestReads
  <1> QED  BY <1>7, <1>8

(* Bookings that were approved go back to pending: nobody approved shares  *)
(* their slots.                                                            *)
LEMMA PendKeepsClear ==
    ASSUME TypeOK, Shaped, JobsInv, NEW p \in Request, PendAll(p)
    PROVE  JobsInv'
  <1> DEFINE k == task[p]
             j == [k EXCEPT !.pc = "applied"]
  <1>1. /\ k.pc = "apply" /\ k.pc # "idle" /\ k.op = "pendRoom"
        /\ UNCHANGED bookingCache
    BY DEF PendAll
  <1>2. /\ k \in Task /\ Cached(rows, bookingCache) /\ Sound(rows, k) /\ k # Idle
        /\ \A b \in Booking : rows[b].status = "pending" =>
              Clear(rows, b) \/ b \in Doomed(rows, k)
    BY <1>1, Requesting DEF Wrote
  <1>3. Doomed(rows, k) = {} /\ \A b \in k.todo : Clear(rows, b)
    BY <1>1, <1>2, NobodyDoomed DEF Sound
  <1>4. j.op = "pendRoom" /\ j.pc = "applied"
    BY <1>1, <1>2 DEF Task
  <1>5. task' = [task EXCEPT ![p] = j]
    BY DEF PendAll, Goto, TypeOK
  <1> HIDE DEF j
  <1>6. \A x \in Booking : rows'[x] = IF x \in k.todo /\ Live(rows[x])
                                      THEN Moved(rows[x], "pending", now)
                                      ELSE rows[x]
    BY DEF PendAll
  <1>7. ASSUME NEW x \in Booking
        PROVE  /\ SameSlot(rows'[x], rows[x])
               /\ rows'[x].status = "approved" => rows[x].status = "approved"
               /\ rows[x].status = "deleted" => rows'[x].status = "deleted"
               /\ rows'[x].status = "pending" =>
                     x \in k.todo \/ rows[x].status = "pending"
    <2>1. rows[x] \in Row /\ now \in Time /\ "pending" \in Status
      BY MoreTypes DEF TypeOK
    <2>2. CASE x \in k.todo /\ Live(rows[x])
      <3>1. rows[x].status # "deleted"
        BY <2>2 DEF Live, Status
      <3> QED  BY <1>6, <2>1, <2>2, <3>1, MovedIsRow DEF SameSlot
    <2>3. CASE ~ (x \in k.todo /\ Live(rows[x]))
      BY <1>6, <2>3 DEF SameSlot
    <2> QED  BY <2>2, <2>3
  <1>8. Closing(rows, rows')
    BY <1>7 DEF Closing
  <1>9. \A x \in Booking : rows'[x].status = "approved" => Clear(rows', x)
    BY <1>8, ClosingKeeps
  <1>10. ASSUME NEW x \in Booking, rows'[x].status = "pending"
         PROVE  Clear(rows', x)
    BY <1>2, <1>3, <1>7, <1>8, <1>10, ClearStays
  <1>11. Cached(rows', bookingCache')
    <2>1. Cached(rows', bookingCache)
      BY <1>2, <1>8, CachedStays
    <2> QED  BY <1>1, <2>1
  <1>12. Sound(rows', j) /\ j.op \notin Jobs
    BY <1>4 DEF Sound, Jobs
  <1> QED  BY <1>2, <1>5, <1>9, <1>10, <1>11, <1>12, RequestMoves

LEMMA PendedKeepsClear ==
    ASSUME TypeOK, Shaped, JobsInv, NEW p \in Request, PendedAll(p)
    PROVE  JobsInv'
  <1>1. /\ task[p].pc = "applied" /\ task[p].pc # "idle" /\ UNCHANGED rows
        /\ task[p].op = "pendRoom" /\ Cached(rows, bookingCache')
    BY ColdIsCached DEF PendedAll
  <1>2. Doomed(rows, task[p]) = {}
    BY <1>1, NobodyDoomed
  <1> QED  BY <1>1, <1>2, RequestEnds DEF PendedAll, Done

(* Whatever a request, or its listener, does next.                         *)
LEMMA RequestsKeepClear ==
    ASSUME TypeOK, TypeOK', Shaped, JobsInv, NEW p \in Request, Advance(p)
    PROVE  JobsInv'
  <1>1. ~ DeleteOne(p) /\ ~ DeletedOne(p)
    BY DEF DeleteOne, DeletedOne, JobsInv, Jobs
  <1> QED  BY <1>1, ReadsKeepClear, InsertKeepsClear, WriteKeepsClear, RoomsKeepClear,
              AnswersKeepClear, CollectKeepsClear, RejectKeepsClear,
              RejectedKeepsClear, PendKeepsClear, PendedKeepsClear DEF Advance
-----------------------------------------------------------------------------
(* The jobs, the calls, the clock and the cache.                           *)

(* What is owed is still owed when somebody else rejected some of it.      *)
LEMMA DoomedStay ==
    ASSUME NEW rs, NEW rt, Closing(rs, rt), NEW x \in Booking,
           rs[x].status = "pending", rt[x].status = "pending",
           NEW k, x \in Doomed(rs, k)
    PROVE  x \in Doomed(rt, k)
  <1>1. /\ rt[x].room = rs[x].room /\ rt[x].start = rs[x].start
        /\ rt[x].end = rs[x].end
    BY DeletedIsNowhere DEF Closing, SameSlot
  <1>2. x \in Losers(rs, k.row) => x \in Losers(rt, k.row)
    BY <1>1 DEF Losers, Overlapping, InSlot
  <1> QED  BY <1>2 DEF Doomed

(* Writes after which nobody is pending who was not.                       *)
Rejecting(rs, rt) ==
    /\ Closing(rs, rt)
    /\ \A x \in Booking : rt[x].status = "pending" => rs[x].status = "pending"

LEMMA JobMoves ==
    ASSUME TypeOK, Shaped, JobsInv, ListenersFinish, NEW c \in Cron, NEW j,
           RunsOf(j, Cron), task' = [task EXCEPT ![c] = j],
           Rejecting(rows, rows'),
           bookingCache' \in {bookingCache, ColdBookings}
    PROVE  JobsInv'
  <1>0. /\ Closing(rows, rows')
        /\ \A x \in Booking : rows'[x].status = "pending" => rows[x].status = "pending"
    BY DEF Rejecting
  <1>1. /\ \A d \in Cron : task'[d] = IF d = c THEN j ELSE task[d]
        /\ \A p \in Request : task'[p] = task[p]
    BY ServiceAssumption DEF TypeOK, Process
  <1>2. /\ \A d \in Cron : RunsOf(task'[d], Cron)
        /\ \A p \in Request : task'[p].op \notin Jobs
        /\ \A p, q \in Request : task'[p] # Idle /\ task'[q] # Idle => p = q
    BY <1>1 DEF JobsInv
  <1>3. \A b \in Booking : rows'[b].status = "approved" => Clear(rows', b)
    BY <1>0, ClosingKeeps
  <1>4. ASSUME NEW b \in Booking, rows'[b].status = "pending"
        PROVE  Clear(rows', b) \/ \E p \in Request : b \in Doomed(rows', task'[p])
    <2>1. rows[b].status = "pending"
      BY <1>0, <1>4
    <2>2. CASE Clear(rows, b)
      BY <1>0, <2>2, ClearStays
    <2>3. CASE ~ Clear(rows, b)
      <3>1. PICK p \in Request : b \in Doomed(rows, task[p])
        BY <2>1, <2>3 DEF JobsInv
      <3>2. b \in Doomed(rows', task[p])
        BY <1>0, <1>4, <2>1, <3>1, DoomedStay
      <3> QED  BY <1>1, <3>1, <3>2
    <2> QED  BY <2>2, <2>3
  <1>5. ASSUME \A p \in Request : ~ Wrote(task'[p])
        PROVE  Cached(rows', bookingCache')
    <2>1. \A p \in Request : ~ Wrote(task[p])
      BY <1>1, <1>5
    <2>2. Cached(rows, bookingCache)
      BY <2>1 DEF JobsInv
    <2>3. Cached(rows', bookingCache)
      BY <1>0, <2>2, CachedStays
    <2> QED  BY <2>3, ColdIsCached
  <1>6. ASSUME NEW p \in Request
        PROVE  Sound(rows', task'[p])
    <2>1. task[p] \in Task /\ HasShape(task[p]) /\ Sound(rows, task[p])
      BY DEF TypeOK, Shaped, JobsInv, Process
    <2>2. task[p].op = "rejectOverlap" =>
             \A b \in task[p].todo : Live(rows[b]) => Live(rows'[b])
      BY DEF ListenersFinish
    <2>3. Sound(rows', task[p])
      BY <1>0, <2>1, <2>2, SoundStays
    <2> QED  BY <1>1, <2>3
  <1> QED  BY <1>2, <1>3, <1>4, <1>5, <1>6 DEF JobsInv

LEMMA SameIsRejecting == \A rs : Rejecting(rs, rs)
  BY DEF Rejecting, Closing, SameSlot

(* What a job rejects had expired, and what it deletes is nowhere; the     *)
(* cache is cold after each answer.                                        *)
LEMMA JobKeepsClear ==
    ASSUME TypeOK, Shaped, JobsInv, ListenersFinish, NEW c \in Cron, Advance(c)
    PROVE  JobsInv'
  <1> DEFINE k == task[c]
  <1>1. /\ c \in Process /\ k \in Task /\ HasShape(k)
        /\ RunsOf(k, Cron) /\ k.op \in {"idle"} \cup Jobs
    BY DEF TypeOK, Shaped, JobsInv, Process
  <1>2. k.pc \in {"idle", "collect", "apply", "applied"}
    BY <1>1 DEF HasShape, Steps, Endpoints, Listeners, Jobs
  <1>3. \/ Collect(c) \/ RejectOne(c) \/ RejectedOne(c)
        \/ DeleteOne(c) \/ DeletedOne(c)
    BY <1>1, <1>2 DEF Advance, GetBooking, SetBooking, GetRoom, SetRoom, AskSlot,
       AskEmpty, InsertBooking, WriteBooking, WriteRoom, DeleteRoom, BookingWritten,
       RoomWritten, PendAll, PendedAll, Jobs
  <1>4. RunsOf(Idle, Cron)
    BY DEF Idle, RunsOf
  <1> HIDE DEF Idle
  <1>5. CASE Collect(c)
    <2> DEFINE j == [k EXCEPT !.pc = "apply", !.todo = Found(k)]
    <2>1. RunsOf(j, Cron)
      BY <1>1 DEF Task, RunsOf
    <2>2. task' = [task EXCEPT ![c] = j] \/ task' = [task EXCEPT ![c] = Idle]
      BY <1>5 DEF Collect, Done, TypeOK
    <2>3. UNCHANGED <<rows, bookingCache>>
      BY <1>5 DEF Collect
    <2> HIDE DEF j
    <2>4. Rejecting(rows, rows')
      BY <2>3, SameIsRejecting
    <2>5. bookingCache' \in {bookingCache, ColdBookings}
      BY <2>3
    <2> QED  BY <1>1, <1>4, <2>1, <2>2, <2>4, <2>5, JobMoves
  <1>6. CASE RejectOne(c)
    <2>1. k.todo \subseteq Booking /\ k.op = "rejectExpired" /\ UNCHANGED bookingCache
      BY <1>1, <1>6 DEF RejectOne, Task, Jobs
    <2>2. bookingCache' \in {bookingCache, ColdBookings}
      BY <2>1
    <2>3. \E j : /\ RunsOf(j, Cron)
                 /\ task' = [task EXCEPT ![c] = j]
                 /\ Rejecting(rows, rows')
      <3>1. PICK b \in k.todo :
               IF Live(rows[b])
               THEN /\ rows' = [rows EXCEPT ![b] =
                                  IF k.op = "rejectOverlap"
                                  THEN Decided(@, "reject", k.user, now)
                                  ELSE Moved(@, "reject", now)]
                    /\ task' = [task EXCEPT ![c].pc = "applied", ![c].id = b,
                                            ![c].todo = @ \ {b}]
               ELSE Done(c) /\ UNCHANGED rows
        BY <1>6 DEF RejectOne
      <3>2. CASE ~ Live(rows[b])
        <4>1. UNCHANGED rows /\ task' = [task EXCEPT ![c] = Idle]
          BY <3>1, <3>2 DEF Done
        <4>2. Rejecting(rows, rows')
          BY <4>1, SameIsRejecting
        <4>3. task' = [task EXCEPT ![c] = Idle] /\ RunsOf(Idle, Cron)
          BY <1>4, <4>1
        <4> QED  BY <4>2, <4>3
      <3>3. CASE Live(rows[b])
        <4> DEFINE new == Moved(rows[b], "reject", now)
                   j == [k EXCEPT !.pc = "applied", !.id = b, !.todo = @ \ {b}]
        <4>1. rows' = [rows EXCEPT ![b] = new] /\ task' = [task EXCEPT ![c] = j]
          BY <1>1, <2>1, <3>1, <3>3 DEF TypeOK
        <4>2. RunsOf(j, Cron)
          BY <1>1, <2>1 DEF Task, RunsOf
        <4>3. new.status = "reject" /\ Live(new) /\ SameSlot(new, rows[b])
          <5>1. rows[b] \in Row /\ now \in Time /\ "reject" \in Status
            BY <2>1, MoreTypes DEF TypeOK
          <5> QED  BY <5>1, MovedIsRow DEF SameSlot, Live
        <4> HIDE DEF new, j
        <4>4. \A x \in Booking : rows'[x] = IF x = b THEN new ELSE rows[x]
          BY <4>1 DEF TypeOK
        <4>5. Rejecting(rows, rows')
          BY <3>3, <4>3, <4>4 DEF Rejecting, Closing, SameSlot, Live, Status
        <4>6. task' = [task EXCEPT ![c] = j]
          BY <4>1
        <4> QED  BY <4>2, <4>5, <4>6
      <3> QED  BY <3>2, <3>3
    <2> QED  BY <2>2, <2>3, JobMoves
  <1>7. CASE RejectedOne(c)
    <2> DEFINE j == [k EXCEPT !.pc = "apply"]
    <2>1. RunsOf(j, Cron)
      BY <1>1 DEF Task, RunsOf
    <2>2. task' = [task EXCEPT ![c] = j] \/ task' = [task EXCEPT ![c] = Idle]
      BY <1>7 DEF RejectedOne, Done, Goto, TypeOK
    <2>3. UNCHANGED rows /\ bookingCache' = ColdBookings
      BY <1>7 DEF RejectedOne
    <2> HIDE DEF j
    <2>4. Rejecting(rows, rows')
      BY <2>3, SameIsRejecting
    <2>5. bookingCache' \in {bookingCache, ColdBookings}
      BY <2>3
    <2> QED  BY <1>1, <1>4, <2>1, <2>2, <2>4, <2>5, JobMoves
  <1>8. CASE DeleteOne(c)
    <2>1. PICK b \in k.todo :
             /\ rows' = [rows EXCEPT ![b] = NoRow("deleted")]
             /\ task' = [task EXCEPT ![c].todo = @ \ {b}, ![c].done = @ \cup {b}]
      BY <1>8 DEF DeleteOne
    <2> DEFINE j == [k EXCEPT !.todo = @ \ {b}, !.done = @ \cup {b}]
    <2>2. RunsOf(j, Cron)
      BY <1>1 DEF Task, RunsOf
    <2>3. task' = [task EXCEPT ![c] = j]
      BY <1>1, <2>1 DEF TypeOK
    <2> HIDE DEF j
    <2>4. \A x \in Booking : rows'[x] = IF x = b THEN NoRow("deleted") ELSE rows[x]
      BY <2>1 DEF TypeOK
    <2>5. Rejecting(rows, rows')
      BY <2>4, DeletedIsNowhere DEF Rejecting, Closing, SameSlot
    <2>6. bookingCache' \in {bookingCache, ColdBookings}
      BY <1>8 DEF DeleteOne
    <2> QED  BY <2>2, <2>3, <2>5, <2>6, JobMoves
  <1>9. CASE DeletedOne(c)
    <2>1. UNCHANGED rows /\ bookingCache' = ColdBookings
      BY <1>9 DEF DeletedOne
    <2>2. Rejecting(rows, rows') /\ bookingCache' \in {bookingCache, ColdBookings}
      BY <2>1, SameIsRejecting
    <2>3. CASE Done(c)
      BY <1>4, <2>2, <2>3, JobMoves DEF Done
    <2>4. ASSUME NEW b, task' = [task EXCEPT ![c].done = @ \ {b}]
          PROVE  JobsInv'
      <3> DEFINE j == [k EXCEPT !.done = @ \ {b}]
      <3>1. RunsOf(j, Cron) /\ task' = [task EXCEPT ![c] = j]
        BY <1>1, <2>4 DEF Task, RunsOf, TypeOK
      <3> HIDE DEF j
      <3> QED  BY <2>2, <3>1, JobMoves
    <2> QED  BY <1>9, <2>3, <2>4 DEF DeletedOne
  <1> QED  BY <1>3, <1>5, <1>6, <1>7, <1>8, <1>9
(* When no request is under way nothing is owed.                           *)
LEMMA QuietIsEven ==
    ASSUME JobsInv, Quiet(Request)
    PROVE  /\ \A b \in Booking : rows[b].status = "pending" => Clear(rows, b)
           /\ Cached(rows, bookingCache)
  BY IdleIsSound DEF JobsInv, Quiet

(* A call has read nothing yet.                                            *)
LEMMA CallKeepsClear ==
    ASSUME TypeOK, Shaped, JobsInv, Quiet(Request), NEW p \in Request, Call(p)
    PROVE  JobsInv'
  <1>1. UNCHANGED <<rows, bookingCache>>
    BY DEF Call, CallCreate, CallUpdate, CallConfirm, CallCancel,
           CallCreateRoom, CallUpdateRoom, CallRemoveRoom, Begin
  <1>2. ASSUME NEW k, Begin(p, k), k.op \in Endpoints,
               \/ k.pc = "getRoom" /\ k.op \in {"create", "updateRoom", "removeRoom"}
               \/ k.pc = "getBooking" \/ k.op = "createRoom"
        PROVE  JobsInv'
    <2>1. task' = [task EXCEPT ![p] = k]
      BY <1>2 DEF Begin
    <2>2. Sound(rows', k) /\ k.op \notin Jobs
      BY <1>2 DEF Sound, Endpoints, Jobs
    <2>3. \A b \in Booking : rows'[b].status = "approved" => Clear(rows', b)
      BY <1>1 DEF JobsInv
    <2>4. \A b \in Booking : rows'[b].status = "pending" =>
             Clear(rows', b) \/ b \in Doomed(rows', k)
      BY <1>1, QuietIsEven
    <2>5. Wrote(k) \/ Cached(rows', bookingCache')
      BY <1>1, QuietIsEven
    <2> QED  BY <2>1, <2>2, <2>3, <2>4, <2>5, RequestMoves
  <1>3. CASE CallCreate(p)
    <2>1. PICK u \in User, r \in Room, s \in Time, e \in Time :
             Begin(p, [Idle EXCEPT !.op = "create", !.pc = "getRoom",
                                   !.user = u, !.rm = r, !.row = NewRow(u, r, s, e, now)])
      BY <1>3 DEF CallCreate
    <2> DEFINE k == [Idle EXCEPT !.op = "create", !.pc = "getRoom",
                                 !.user = u, !.rm = r, !.row = NewRow(u, r, s, e, now)]
    <2>2. k.op = "create" /\ k.pc = "getRoom" /\ k.op \in Endpoints
      BY DEF Endpoints, Idle
    <2>3. Begin(p, k)
      BY <2>1
    <2> HIDE DEF k
    <2> QED  BY <1>2, <2>2, <2>3
  <1>4. CASE CallUpdate(p)
    <2>1. PICK b \in Booking, u \in User, patch \in Body :
             Begin(p, [Idle EXCEPT !.op = "update", !.pc = "getBooking",
                                   !.id = b, !.user = u, !.patch = patch])
      BY <1>4 DEF CallUpdate
    <2> DEFINE k == [Idle EXCEPT !.op = "update", !.pc = "getBooking",
                                 !.id = b, !.user = u, !.patch = patch]
    <2>2. k.pc = "getBooking" /\ k.op \in Endpoints
      BY DEF Endpoints, Idle
    <2>3. Begin(p, k)
      BY <2>1
    <2> HIDE DEF k
    <2> QED  BY <1>2, <2>2, <2>3
  <1>5. CASE CallConfirm(p)
    <2>1. PICK b \in Booking, u \in Confirmers, decision \in {"approved", "reject"} :
             Begin(p, [Idle EXCEPT !.op = "confirm", !.pc = "getBooking",
                                   !.id = b, !.user = u, !.status = decision])
      BY <1>5 DEF CallConfirm
    <2> DEFINE k == [Idle EXCEPT !.op = "confirm", !.pc = "getBooking",
                                 !.id = b, !.user = u, !.status = decision]
    <2>2. k.pc = "getBooking" /\ k.op \in Endpoints
      BY DEF Endpoints, Idle
    <2>3. Begin(p, k)
      BY <2>1
    <2> HIDE DEF k
    <2> QED  BY <1>2, <2>2, <2>3
  <1>6. CASE CallCancel(p)
    <2>1. PICK b \in Booking, u \in User :
             Begin(p, [Idle EXCEPT !.op = "cancel", !.pc = "getBooking",
                                   !.id = b, !.user = u, !.at = now])
      BY <1>6 DEF CallCancel
    <2> DEFINE k == [Idle EXCEPT !.op = "cancel", !.pc = "getBooking",
                                 !.id = b, !.user = u, !.at = now]
    <2>2. k.pc = "getBooking" /\ k.op \in Endpoints
      BY DEF Endpoints, Idle
    <2>3. Begin(p, k)
      BY <2>1
    <2> HIDE DEF k
    <2> QED  BY <1>2, <2>2, <2>3
  <1>7. CASE CallCreateRoom(p)
    <2>1. PICK r \in Room, state \in {"enabled", "disabled"} :
             Begin(p, [Idle EXCEPT !.op = "createRoom", !.pc = "write",
                                   !.rm = r, !.status = state])
      BY <1>7 DEF CallCreateRoom
    <2> DEFINE k == [Idle EXCEPT !.op = "createRoom", !.pc = "write",
                                 !.rm = r, !.status = state]
    <2>2. k.op = "createRoom" /\ k.op \in Endpoints
      BY DEF Endpoints, Idle
    <2>3. Begin(p, k)
      BY <2>1
    <2> HIDE DEF k
    <2> QED  BY <1>2, <2>2, <2>3
  <1>8. CASE CallUpdateRoom(p)
    <2>1. PICK r \in Room, state \in {"enabled", "disabled"} :
             Begin(p, [Idle EXCEPT !.op = "updateRoom", !.pc = "getRoom",
                                   !.rm = r, !.status = state])
      BY <1>8 DEF CallUpdateRoom
    <2> DEFINE k == [Idle EXCEPT !.op = "updateRoom", !.pc = "getRoom",
                                 !.rm = r, !.status = state]
    <2>2. k.op = "updateRoom" /\ k.pc = "getRoom" /\ k.op \in Endpoints
      BY DEF Endpoints, Idle
    <2>3. Begin(p, k)
      BY <2>1
    <2> HIDE DEF k
    <2> QED  BY <1>2, <2>2, <2>3
  <1>9. CASE CallRemoveRoom(p)
    <2>1. PICK r \in Room :
             Begin(p, [Idle EXCEPT !.op = "removeRoom", !.pc = "getRoom",
                                   !.rm = r])
      BY <1>9 DEF CallRemoveRoom
    <2> DEFINE k == [Idle EXCEPT !.op = "removeRoom", !.pc = "getRoom",
                                 !.rm = r]
    <2>2. k.op = "removeRoom" /\ k.pc = "getRoom" /\ k.op \in Endpoints
      BY DEF Endpoints, Idle
    <2>3. Begin(p, k)
      BY <2>1
    <2> HIDE DEF k
    <2> QED  BY <1>2, <2>2, <2>3
  <1> QED  BY <1>3, <1>4, <1>5, <1>6, <1>7, <1>8, <1>9 DEF Call
LEMMA JobStartsClear ==
    ASSUME TypeOK, Shaped, JobsInv, ListenersFinish, NEW c \in Cron, CallCron(c)
    PROVE  JobsInv'
  <1> DEFINE j == [task[c] EXCEPT !.op = c, !.pc = "collect", !.at = now]
  <1>1. RunsOf(j, Cron)
    BY DEF RunsOf, TypeOK, Process, Task
  <1>2. task' = [task EXCEPT ![c] = j]
    BY DEF CallCron, TypeOK, Process
  <1>3. UNCHANGED <<rows, bookingCache>>
    BY DEF CallCron
  <1> HIDE DEF j
  <1>4. Rejecting(rows, rows') /\ bookingCache' \in {bookingCache, ColdBookings}
    BY <1>3, SameIsRejecting
  <1> QED  BY <1>1, <1>2, <1>4, JobMoves

(* A step that neither writes a booking nor moves a process.               *)
LEMMA NothingMoves ==
    ASSUME JobsInv, UNCHANGED <<rows, task>>,
           \A b \in Booking : bookingCache'[b] \in {None, bookingCache[b]}
    PROVE  JobsInv'
  <1>1. Cached(rows, bookingCache) => Cached(rows', bookingCache')
    BY DEF Cached
  <1> QED  BY <1>1 DEF JobsInv

LEMMA JobsSteps ==
    ASSUME TypeOK, TypeOK', Shaped, JobsInv, [JobsNext]_serialVars,
           [ListenersFinish]_serialVars
    PROVE  JobsInv'
  <1>1. CASE UNCHANGED serialVars
    BY <1>1, NothingMoves DEF serialVars, vars
  <1>2. CASE ListenersFinish /\ JobsNext
    <2>1. ASSUME NEW p \in Process, Advance(p)
          PROVE  JobsInv'
      BY <1>2, <2>1, RequestsKeepClear, JobKeepsClear DEF Process
    <2>2. CASE Evict
      BY <2>2, NothingMoves DEF Evict, TypeOK
    <2>3. CASE Tick
      BY <2>3, NothingMoves DEF Tick
    <2> QED  BY <1>2, <2>1, <2>2, <2>3, CallKeepsClear, JobStartsClear DEF JobsNext
  <1> QED  BY <1>1, <1>2

LEMMA JobsStart ==
    ASSUME SerialInit
    PROVE  JobsInv
  <1>1. \A p \in Process : task[p] = Idle
    BY DEF SerialInit, Init
  <1>2. Idle.op = "idle" /\ Idle.op \notin Jobs
    BY DEF Idle, Jobs
  <1> HIDE DEF Idle
  <1>3. /\ \A c \in Cron : RunsOf(task[c], Cron)
        /\ \A p \in Request : task[p].op \notin Jobs /\ task[p] = Idle
    BY <1>1, <1>2 DEF Process, RunsOf
  <1>4. \A b \in Booking : rows[b].status = "unborn" /\ bookingCache[b] = None
    BY DEF SerialInit, Init, NoRow
  <1>5. Cached(rows, bookingCache)
    BY <1>4 DEF Cached
  <1>6. \A p \in Request : Sound(rows, task[p])
    BY <1>3, IdleIsSound
  <1> QED  BY <1>3, <1>4, <1>5, <1>6 DEF JobsInv

LEMMA JobsIsService ==
    /\ SerialInit => Init
    /\ [JobsNext]_serialVars => [Next]_vars
  <1>1. UNCHANGED serialVars => UNCHANGED vars
    BY DEF serialVars
  <1> QED  BY <1>1 DEF SerialInit, JobsNext, Next

LEMMA JobsInvariant ==
    JobsSpec /\ [][ListenersFinish]_serialVars => [](TypeOK /\ JobsInv)
  <1>1. JobsSpec => Spec
    BY JobsIsService, PTL DEF JobsSpec, Spec
  <1>2. SerialInit => JobsInv
    BY JobsStart
  <1>3. /\ TypeOK /\ TypeOK' /\ Shaped /\ JobsInv
        /\ [JobsNext]_serialVars /\ [ListenersFinish]_serialVars
        => JobsInv'
    BY JobsSteps
  <1> QED  BY <1>1, <1>2, <1>3, TypeCorrect, PTL DEF JobsSpec

LEMMA ClearApart ==
    ASSUME TypeOK, JobsInv
    PROVE  NoDoubleBooking /\ ApprovedSlotIsClear
  <1>1. NoDoubleBooking
    BY DEF JobsInv, Clear, NoDoubleBooking
  <1>2. ASSUME Quiet(Request), NEW a \in Booking, NEW b \in Booking,
               rows[a].status = "approved", rows[b].status = "pending",
               rows[a].room = rows[b].room, rows[a].room \in Room
        PROVE  ~ Clash(rows[a], rows[b])
    <2>1. a \in Booking \ {b}
      BY <1>2
    <2>2. Clear(rows, b)
      BY <1>2, QuietIsEven
    <2> QED  BY <1>2, <2>1, <2>2 DEF Clear
  <1> QED  BY <1>1, <1>2 DEF ApprovedSlotIsClear

(* With single requests and both jobs beside them, whatever the order of   *)
(* their steps, two approved bookings of a room never overlap: what the    *)
(* query of the handler found free stays free until its write, as long as  *)
(* no booking is deleted that a listener has still to reject.              *)
THEOREM JobsKeepSlotsApart ==
    JobsSpec /\ [][ListenersFinish]_serialVars => []NoDoubleBooking
  BY ClearApart, JobsInvariant, PTL

(* And when no request is under way, no pending booking clashes with an    *)
(* approved one: every listener rejected all that the approval it follows  *)
(* made impossible, the bookings that the jobs were rejecting or deleting  *)
(* included.                                                               *)
THEOREM JobsLeaveSlotsClear ==
    JobsSpec /\ [][ListenersFinish]_serialVars => []ApprovedSlotIsClear
  BY ClearApart, JobsInvariant, PTL

(* Where only the rejecting job runs nothing is deleted.                   *)
LEMMA NothingIsDeleted ==
    ASSUME TypeOK, Shaped, JobsInv, Cron \subseteq {"rejectExpired"},
           [JobsNext]_serialVars, NEW b \in Booking, Live(rows[b])
    PROVE  Live(rows'[b])
  <1>1. RowChanges(b) /\ rows[b] \in Row
    <2>1. RowsAreSound
      BY JobsIsService, StepsKeepRows
    <2> QED  BY <2>1 DEF RowsAreSound, TypeOK
  <1>2. \A p \in Process : task[p].op # "deleteOld"
    BY DEF JobsInv, RunsOf, Process, Jobs
  <1>3. CASE Orphaned(b)
    BY <1>1, <1>3 DEF Orphaned, Row, Live
  <1> QED  BY <1>1, <1>2, <1>3
           DEF RowChanges, Kept, Created, Edited, Settled, Deleted, Live

LEMMA RejectingInvariant ==
    ASSUME Cron \subseteq {"rejectExpired"}
    PROVE  JobsSpec => [](TypeOK /\ JobsInv)
  <1>1. JobsSpec => Spec
    BY JobsIsService, PTL DEF JobsSpec, Spec
  <1>2. SerialInit => JobsInv
    BY JobsStart
  <1>3. ASSUME TypeOK, TypeOK', Shaped, JobsInv, [JobsNext]_serialVars
        PROVE  JobsInv'
    <2>1. ListenersFinish
      BY <1>3, NothingIsDeleted DEF ListenersFinish, TypeOK, Task, Process
    <2> QED  BY <1>3, <2>1, JobsSteps
  <1> QED  BY <1>1, <1>2, <1>3, TypeCorrect, PTL DEF JobsSpec

(* Then the listeners need no such care.                                   *)
THEOREM RejectingKeepsSlotsApart ==
    ASSUME Cron \subseteq {"rejectExpired"}
    PROVE  JobsSpec => []NoDoubleBooking
  BY ClearApart, RejectingInvariant, PTL

(* Nor for the pending bookings.                                           *)
THEOREM RejectingLeavesSlotsClear ==
    ASSUME Cron \subseteq {"rejectExpired"}
    PROVE  JobsSpec => []ApprovedSlotIsClear
  BY ClearApart, RejectingInvariant, PTL

=============================================================================
