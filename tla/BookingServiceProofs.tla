------------------------ MODULE BookingServiceProofs ------------------------
(***************************************************************************)
(* What the interleaved handlers of BookingService guarantee for every set *)
(* of bookings, rooms, users and requests, whatever endpoints are called,  *)
(* whichever cron jobs run, and however often the server restarts.         *)
(***************************************************************************)
EXTENDS BookingService, BookingRulesProofs, FiniteSetTheorems

Listeners == {"rejectOverlap", "pendRoom"}
Jobs      == {"rejectExpired", "deleteOld"}

(* The steps that a handler, a listener or a job can be at.                *)
Steps(op) ==
    CASE op = "idle"       -> {"idle"}
      [] op = "create"     -> {"getRoom", "setRoom", "askSlot", "write", "written"}
      [] op = "update"     -> {"getBooking", "setBooking", "getRoom", "setRoom",
                               "askSlot", "write", "written"}
      [] op \in {"confirm", "cancel"} ->
                              {"getBooking", "setBooking", "write", "written"}
      [] op = "createRoom" -> {"write", "written"}
      [] op = "updateRoom" -> {"getRoom", "setRoom", "write", "written"}
      [] op = "removeRoom" -> {"getRoom", "setRoom", "askEmpty", "write", "written"}
      [] op \in Listeners \cup Jobs -> {"collect", "apply", "applied"}

(* What it holds there.                                                    *)
HasShape(k) ==
    /\ k.pc \in Steps(k.op)
    /\ k.op = "idle" => k = Idle
    /\ k.op = "create" =>
          /\ k.user \in User /\ k.rm \in Room
          /\ k.row.room = k.rm /\ k.row.creator = k.user
          /\ k.row.status = "approved" => k.row.modifiedBy \in Approvers
          /\ Live(k.row)
          /\ k.pc = "written" => k.id \in Booking
    /\ k.op = "update" =>
          /\ k.patch \in Body
          /\ k.pc \in {"getRoom", "setRoom"} => k.patch.room \in Room
    /\ k.op = "confirm" =>
          k.user \in Confirmers /\ k.status \in {"approved", "reject"}
    /\ k.op \in {"update", "confirm", "cancel"} =>
          /\ k.user \in User /\ k.id \in Booking
          /\ k.pc = "written" => Live(k.row)
    /\ k.op \in {"createRoom", "updateRoom"} => k.status \in {"enabled", "disabled"}
    /\ k.op \in {"createRoom", "updateRoom", "removeRoom"} => k.rm \in Room
    /\ k.op = "rejectOverlap" => k.user \in User
    /\ k.pc = "applied" /\ k.op # "pendRoom" => k.id \in Booking

(* The cron jobs have processes of their own.                              *)
Shaped ==
    /\ \A p \in Process : HasShape(task[p])
    /\ \A c \in Cron : task[c].op \in Jobs \cup {"idle"}

-----------------------------------------------------------------------------
LEMMA IdleIsTask == Idle \in Task /\ HasShape(Idle)
  <1>1. NoRow("unborn") \in Row
    BY NoRowIsRow
  <1>2. 0 \in Time
    BY RulesAssumption DEF Time
  <1>3. Idle \in Task
    BY <1>1, <1>2 DEF Idle, Task, RoomState
  <1>4. Idle.op = "idle" /\ Idle.pc = "idle"
    BY DEF Idle
  <1>5. HasShape(Idle)
    BY <1>4 DEF HasShape, Steps, Listeners, Jobs
  <1> QED  BY <1>3, <1>5

(* Which handlers are at a step, and what they hold there.                 *)
LEMMA StepsOfHandlers ==
    ASSUME NEW k \in Task, HasShape(k)
    PROVE  /\ k.pc = "idle" <=> k = Idle
           /\ k.op = "idle" <=> k = Idle
           /\ k.pc \in {"getBooking", "setBooking"} =>
                 k.op \in {"update", "confirm", "cancel"}
           /\ k.pc \in {"getRoom", "setRoom"} =>
                 /\ k.op \in {"create", "update", "updateRoom", "removeRoom"}
                 /\ RoomAsked(k) \in Room
           /\ k.pc = "askSlot" => k.op \in {"create", "update"}
           /\ k.pc = "askEmpty" => k.op = "removeRoom"
           /\ k.pc \in {"write", "written"} => k.op \in Endpoints
           /\ k.pc \in {"collect", "apply", "applied"} => k.op \in Listeners \cup Jobs
  <1>1. k.op \in Endpoints \cup {"idle"} \cup Listeners \cup Jobs
    BY DEF Task, Listeners, Jobs
  <1>2. k.pc \in Steps(k.op)
    BY DEF HasShape
  <1>3. /\ k.pc = "idle" <=> k.op = "idle"
        /\ k.op = "idle" <=> k = Idle
    BY <1>1, <1>2 DEF HasShape, Steps, Endpoints, Listeners, Jobs, Idle
  <1>4. /\ k.pc \in {"getBooking", "setBooking"} =>
              k.op \in {"update", "confirm", "cancel"}
        /\ k.pc \in {"getRoom", "setRoom"} =>
              k.op \in {"create", "update", "updateRoom", "removeRoom"}
        /\ k.pc = "askSlot" => k.op \in {"create", "update"}
        /\ k.pc = "askEmpty" => k.op = "removeRoom"
        /\ k.pc \in {"write", "written"} => k.op \in Endpoints
        /\ k.pc \in {"collect", "apply", "applied"} => k.op \in Listeners \cup Jobs
    BY <1>1, <1>2 DEF Steps, Endpoints, Listeners, Jobs
  <1>5. k.pc \in {"getRoom", "setRoom"} => RoomAsked(k) \in Room
    BY <1>4 DEF HasShape, RoomAsked
  <1> QED  BY <1>3, <1>4, <1>5

(* A step of one process that leaves it with a well-formed task.           *)
LEMMA OneTaskMoves ==
    ASSUME TypeOK, Shaped, NEW p \in Process, NEW k \in Task, HasShape(k),
           k.op \in {"idle", task[p].op} \cup Jobs \/ p \notin Cron,
           task' = [task EXCEPT ![p] = k]
    PROVE  task' \in [Process -> Task] /\ Shaped'
  BY DEF TypeOK, Shaped, Process

LEMMA MoreTypes ==
    /\ {"pending", "approved", "reject", "cancel"} \subseteq Status
    /\ Status \subseteq Mail
    /\ Confirmers \subseteq User /\ Approvers \subseteq User
    /\ Body \subseteq Patch
  BY RulesAssumption, ServiceAssumption DEF Status, Mail

-----------------------------------------------------------------------------
(* How a process moves on.  It either stops, or goes on as it was but for  *)
(* its step and what the step has found, or becomes the listener it starts.*)

(* What stays of a task as long as it is the same request or job.          *)
SameCall(j, k) ==
    /\ j.op = k.op /\ j.user = k.user /\ j.rm = k.rm /\ j.patch = k.patch
    /\ j.status = k.status /\ j.at = k.at

LEMMA StepsMove ==
    ASSUME TypeOK, Shaped, NEW p \in Process, NEW pc,
           pc \in Steps(task[p].op), task[p].op # "idle",
           pc \in {"getRoom", "setRoom"} /\ task[p].op = "update" =>
              task[p].patch.room \in Room,
           pc \notin {"written", "applied"}
    PROVE  LET k == [task[p] EXCEPT !.pc = pc]
           IN  k \in Task /\ HasShape(k) /\ SameCall(k, task[p])
  <1>1. task[p] \in Task /\ HasShape(task[p])
    BY DEF TypeOK, Shaped
  <1>2. pc \in {"getBooking", "setBooking", "getRoom", "setRoom",
                "askSlot", "askEmpty", "write", "collect", "apply"}
    BY <1>1 DEF Task, Steps, Endpoints, Listeners, Jobs
  <1> DEFINE k == [task[p] EXCEPT !.pc = pc]
  <1>3. k \in Task /\ SameCall(k, task[p]) /\ k.pc = pc /\ k.id = task[p].id
        /\ k.row = task[p].row
    BY <1>1, <1>2 DEF Task, SameCall
  <1> HIDE DEF k
  <1>4. HasShape(k)
    BY <1>1, <1>2, <1>3 DEF HasShape, SameCall
  <1> QED  BY <1>3, <1>4 DEF k

(* Where the booking comes from that a handler goes on with.               *)
HoldsBooking(p, k) ==
    k.op \in {"update", "confirm", "cancel"} =>
        /\ SameCall(k, task[p]) /\ k.id = task[p].id
        /\ \/ k.pc = "written"
           \/ /\ task[p].pc \in {"getRoom", "setRoom", "askSlot"}
              /\ k.row = task[p].row
           \/ /\ task[p].pc \in {"getBooking", "setBooking"}
              /\ \/ k.row = task[p].row /\ task[p].pc = "setBooking"
                 \/ k.row = bookingCache[k.id] /\ bookingCache[k.id] # None
                 \/ k.row = rows[k.id] /\ Live(rows[k.id])
              /\ k.op = "update" /\ k.pc # "setBooking" => k.row.creator = k.user

(* The handler was given its booking.                                      *)
LEMMA BookingGiven ==
    ASSUME TypeOK, Shaped, NEW p \in Process, NEW row \in Row,
           task[p].pc \in {"getBooking", "setBooking"}, WithBooking(p, row)
    PROVE  \E k \in Task :
              /\ HasShape(k) /\ task' = [task EXCEPT ![p] = k]
              /\ \/ k = Idle
                 \/ /\ SameCall(k, task[p]) /\ k.id = task[p].id /\ k.row = row
                    /\ k.op = "update" => row.creator = k.user
  <1>1. /\ task[p] \in Task /\ HasShape(task[p])
        /\ task[p].op \in {"update", "confirm", "cancel"}
    BY StepsOfHandlers DEF TypeOK, Shaped
  <1> DEFINE j == [task[p] EXCEPT !.row = row]
             k == [j EXCEPT !.pc = BookingThen(j)]
  <1>2. /\ j \in Task /\ SameCall(j, task[p]) /\ j.id = task[p].id /\ j.row = row
        /\ j.op \in {"update", "confirm", "cancel"}
    BY <1>1 DEF Task, SameCall
  <1>3. task' = [task EXCEPT ![p] = IF BookingPasses(j) THEN k ELSE Idle]
    BY DEF WithBooking
  <1> HIDE DEF j
  <1>4. BookingThen(j) \in {"getRoom", "askSlot", "write"}
        /\ (BookingThen(j) # "write" => j.op = "update")
        /\ (BookingThen(j) = "getRoom" => j.patch.room \in Room)
    BY DEF BookingThen
  <1>5. /\ k \in Task /\ SameCall(k, task[p]) /\ k.id = task[p].id /\ k.row = row
        /\ k.pc = BookingThen(j)
    BY <1>2, <1>4 DEF Task, SameCall
  <1> HIDE DEF k
  <1>6. HasShape(k)
    BY <1>1, <1>2, <1>4, <1>5 DEF HasShape, SameCall, Steps, Listeners, Jobs
  <1>7. CASE BookingPasses(j)
    <2>1. k.op = "update" => row.creator = k.user
      BY <1>2, <1>5, <1>7 DEF BookingPasses, SameCall
    <2> QED  BY <1>3, <1>5, <1>6, <1>7, <2>1
  <1>8. CASE ~ BookingPasses(j)
    BY <1>3, <1>8, IdleIsTask
  <1> QED  BY <1>7, <1>8

(* The handler was given the state of its room.                            *)
LEMMA RoomGiven ==
    ASSUME TypeOK, Shaped, NEW p \in Process, NEW state,
           task[p].pc \in {"getRoom", "setRoom"}, WithRoom(p, state)
    PROVE  \E k \in Task :
              /\ HasShape(k) /\ task' = [task EXCEPT ![p] = k]
              /\ \/ k = Idle
                 \/ /\ SameCall(k, task[p]) /\ k.id = task[p].id
                    /\ k.row = task[p].row
  <1>1. /\ task[p] \in Task /\ HasShape(task[p])
        /\ task[p].op \in {"create", "update", "updateRoom", "removeRoom"}
    BY StepsOfHandlers DEF TypeOK, Shaped
  <1> DEFINE k == [task[p] EXCEPT !.pc = RoomThen(task[p])]
  <1>2. /\ RoomThen(task[p]) \in Steps(task[p].op)
        /\ RoomThen(task[p]) \in {"askSlot", "askEmpty", "write"}
    BY <1>1 DEF RoomThen, Steps, Listeners, Jobs
  <1>3. /\ k \in Task /\ SameCall(k, task[p]) /\ k.id = task[p].id
        /\ k.row = task[p].row
    BY <1>1, <1>2 DEF Task, SameCall
  <1>4. HasShape(k)
    BY <1>1, <1>2, StepsMove
  <1>5. task' = [task EXCEPT ![p] = k] \/ task' = [task EXCEPT ![p] = Idle]
    BY DEF WithRoom, Goto, Done, TypeOK
  <1> HIDE DEF k
  <1> QED  BY <1>3, <1>4, <1>5, IdleIsTask

(* What an update, a decision or a cancellation leaves in the row, which   *)
(* may not be the row that the handler has read.                           *)
LEMMA WrittenIsRow ==
    ASSUME TypeOK, Shaped, NEW p \in Process,
           task[p].op \in {"update", "confirm", "cancel"}, Live(rows[task[p].id])
    PROVE  LET k == task[p]
               old == rows[k.id]
               new == Written(k)
           IN  /\ k.id \in Booking /\ old \in Row /\ new \in Row /\ Live(new)
               /\ new.creator = old.creator
               /\ k.op # "update" => /\ new.room = old.room /\ new.start = old.start
                                     /\ new.end = old.end
               /\ k.op = "update" => /\ new.status = old.status
                                     /\ new.modifiedBy = old.modifiedBy
                                     /\ new.room \in {old.room, NoRoom, k.patch.room}
               /\ k.op # "update" /\ new.status = "approved" =>
                     new.modifiedBy \in Confirmers
  <1>1. /\ task[p] \in Task /\ HasShape(task[p]) /\ task[p].id \in Booking
        /\ rows[task[p].id] \in Row /\ now \in Time
    BY DEF TypeOK, Shaped, HasShape
  <1> DEFINE old == rows[task[p].id]
  <1>2. CASE task[p].op = "update"
    <2>1. task[p].patch \in Patch
      BY <1>1, <1>2, MoreTypes DEF HasShape
    <2>2. Written(task[p]) = Patched(old, task[p].patch, now)
      BY <1>2 DEF Written
    <2>3. Given(task[p].patch.room, old.room) \in {old.room, NoRoom, task[p].patch.room}
      BY DEF Given
    <2> QED  BY <1>1, <1>2, <2>1, <2>2, <2>3, PatchedIsRow DEF Live
  <1>3. CASE task[p].op = "confirm"
    <2>1. /\ task[p].status \in Status /\ task[p].user \in Confirmers
          /\ task[p].user \in User
      BY <1>1, <1>3, MoreTypes DEF HasShape
    <2>2. Written(task[p]) = Decided(old, task[p].status, task[p].user, now)
      BY <1>3 DEF Written
    <2> QED  BY <1>1, <1>3, <2>1, <2>2, DecidedIsRow DEF Live
  <1>4. CASE task[p].op = "cancel"
    <2>1. task[p].user \in User /\ "cancel" \in Status
      BY <1>1, <1>4, MoreTypes DEF HasShape
    <2>2. \/ Written(task[p]) = Moved(old, "cancel", now)
          \/ Written(task[p]) = Decided(old, "cancel", task[p].user, now)
      BY <1>4 DEF Written
    <2>3. /\ Written(task[p]) \in Row /\ Written(task[p]).status = "cancel"
          /\ Written(task[p]).room = old.room /\ Written(task[p]).start = old.start
          /\ Written(task[p]).end = old.end /\ Written(task[p]).creator = old.creator
      BY <1>1, <2>1, <2>2, MovedIsRow, DecidedIsRow
    <2> QED  BY <1>1, <1>4, <2>1, <2>3 DEF Live
  <1> QED  BY <1>2, <1>3, <1>4

(* What the process that takes a step becomes.                             *)
LEMMA TasksMove ==
    ASSUME TypeOK, Shaped, NEW p \in Process, Advance(p)
    PROVE  \E k \in Task :
              /\ HasShape(k) /\ task' = [task EXCEPT ![p] = k]
              /\ k.op \in {"idle", task[p].op} \/ (k.op \in Listeners /\ p \notin Cron)
              /\ HoldsBooking(p, k)
  <1> DEFINE Onward == \E k \in Task :
              /\ HasShape(k) /\ task' = [task EXCEPT ![p] = k]
              /\ k.op \in {"idle", task[p].op} \/ (k.op \in Listeners /\ p \notin Cron)
              /\ HoldsBooking(p, k)
  <1> SUFFICES Onward
    OBVIOUS
  <1>0. task[p] \in Task /\ HasShape(task[p])
    BY DEF TypeOK, Shaped
  <1>1. ASSUME task' = [task EXCEPT ![p] = Idle]
        PROVE  Onward
    BY <1>1, IdleIsTask DEF HoldsBooking, Idle
  <1>2. ASSUME NEW pc \in {"askSlot", "askEmpty", "write", "apply"},
               pc \in Steps(task[p].op), task[p].op # "idle",
               task[p].pc \notin {"getBooking", "setBooking"},
               task[p].op \in {"update", "confirm", "cancel"} =>
                  task[p].pc \in {"getRoom", "setRoom", "askSlot"},
               task' = [task EXCEPT ![p].pc = pc]
        PROVE  Onward
    <2> DEFINE k == [task[p] EXCEPT !.pc = pc]
    <2>1. k \in Task /\ HasShape(k) /\ SameCall(k, task[p])
      BY <1>2, StepsMove
    <2>2. k.id = task[p].id /\ k.row = task[p].row
      BY <1>0, <1>2 DEF Task
    <2>3. task' = [task EXCEPT ![p] = k]
      BY <1>2 DEF TypeOK
    <2> HIDE DEF k
    <2> QED  BY <1>2, <2>1, <2>2, <2>3 DEF HoldsBooking, SameCall
  <1>3. CASE GetBooking(p)
    <2> DEFINE b == task[p].id
    <2>1. /\ task[p].op \in {"update", "confirm", "cancel"} /\ b \in Booking
          /\ task[p].pc = "getBooking"
      BY <1>0, <1>3, StepsOfHandlers DEF GetBooking, HasShape
    <2>2. CASE bookingCache[b] # None
      <3>1. bookingCache[b] \in Row /\ WithBooking(p, bookingCache[b])
        BY <1>3, <2>1, <2>2 DEF GetBooking, TypeOK
      <3>2. PICK k \in Task :
               /\ HasShape(k) /\ task' = [task EXCEPT ![p] = k]
               /\ \/ k = Idle
                  \/ /\ SameCall(k, task[p]) /\ k.id = task[p].id
                     /\ k.row = bookingCache[b]
                     /\ k.op = "update" => bookingCache[b].creator = k.user
        BY <2>1, <3>1, BookingGiven
      <3>3. HoldsBooking(p, k) /\ k.op \in {"idle", task[p].op}
        BY <2>1, <2>2, <3>2 DEF HoldsBooking, Idle, SameCall
      <3> QED  BY <3>2, <3>3
    <2>3. CASE bookingCache[b] = None /\ Live(rows[b])
      <3> DEFINE k == [task[p] EXCEPT !.pc = "setBooking", !.row = rows[b]]
      <3>1. rows[b] \in Row
        BY <2>1 DEF TypeOK
      <3>2. /\ k \in Task /\ SameCall(k, task[p]) /\ k.id = b /\ k.row = rows[b]
            /\ k.pc = "setBooking"
        BY <1>0, <3>1 DEF Task, SameCall
      <3>3. task' = [task EXCEPT ![p] = k]
        BY <1>3, <2>3 DEF GetBooking, TypeOK
      <3> HIDE DEF k
      <3>4. HasShape(k)
        BY <1>0, <2>1, <3>2 DEF HasShape, SameCall, Steps, Listeners, Jobs
      <3>5. HoldsBooking(p, k)
        BY <2>1, <2>3, <3>2 DEF HoldsBooking
      <3> QED  BY <3>2, <3>3, <3>4, <3>5 DEF SameCall
    <2>4. CASE bookingCache[b] = None /\ ~ Live(rows[b])
      BY <1>1, <1>3, <2>4 DEF GetBooking, Done
    <2> QED  BY <2>2, <2>3, <2>4
  <1>4. CASE SetBooking(p)
    <2>1. /\ task[p].op \in {"update", "confirm", "cancel"}
          /\ task[p].pc = "setBooking" /\ task[p].row \in Row
      BY <1>0, <1>4, StepsOfHandlers DEF SetBooking, Task
    <2>2. PICK k \in Task :
             /\ HasShape(k) /\ task' = [task EXCEPT ![p] = k]
             /\ \/ k = Idle
                \/ /\ SameCall(k, task[p]) /\ k.id = task[p].id
                   /\ k.row = task[p].row
                   /\ k.op = "update" => task[p].row.creator = k.user
      BY <1>4, <2>1, BookingGiven DEF SetBooking
    <2>3. HoldsBooking(p, k) /\ k.op \in {"idle", task[p].op}
      BY <2>1, <2>2 DEF HoldsBooking, Idle, SameCall
    <2> QED  BY <2>2, <2>3
  <1>5. ASSUME NEW state, WithRoom(p, state), task[p].pc \in {"getRoom", "setRoom"}
        PROVE  Onward
    <2>1. PICK k \in Task :
             /\ HasShape(k) /\ task' = [task EXCEPT ![p] = k]
             /\ k = Idle \/ (/\ SameCall(k, task[p]) /\ k.id = task[p].id
                             /\ k.row = task[p].row)
      BY <1>5, RoomGiven
    <2>2. HoldsBooking(p, k) /\ k.op \in {"idle", task[p].op}
      BY <1>5, <2>1 DEF HoldsBooking, Idle, SameCall
    <2> QED  BY <2>1, <2>2
  <1>6. CASE GetRoom(p)
    <2> DEFINE r == RoomAsked(task[p])
    <2>1. /\ task[p].op \in {"create", "update", "updateRoom", "removeRoom"}
          /\ task[p].pc = "getRoom" /\ r \in Room
      BY <1>0, <1>6, StepsOfHandlers DEF GetRoom
    <2>2. CASE roomCache[r] # None
      BY <1>5, <1>6, <2>1, <2>2 DEF GetRoom
    <2>3. CASE roomCache[r] = None /\ RoomExists(room[r])
      <3> DEFINE k == [task[p] EXCEPT !.pc = "setRoom", !.seen = room[r]]
      <3>1. room[r] \in RoomState
        BY <2>1 DEF TypeOK
      <3>2. /\ k \in Task /\ SameCall(k, task[p]) /\ k.id = task[p].id
            /\ k.row = task[p].row /\ k.pc = "setRoom"
        BY <1>0, <3>1 DEF Task, SameCall
      <3>3. task' = [task EXCEPT ![p] = k]
        BY <1>6, <2>3 DEF GetRoom, TypeOK
      <3> HIDE DEF k
      <3>4. HasShape(k)
        BY <1>0, <2>1, <3>2 DEF HasShape, SameCall, Steps, Listeners, Jobs
      <3>5. HoldsBooking(p, k)
        BY <2>1, <3>2 DEF HoldsBooking
      <3> QED  BY <3>2, <3>3, <3>4, <3>5 DEF SameCall
    <2>4. CASE roomCache[r] = None /\ ~ RoomExists(room[r])
      BY <1>1, <1>6, <2>4 DEF GetRoom, Done
    <2> QED  BY <2>2, <2>3, <2>4
  <1>7. CASE SetRoom(p)
    BY <1>5, <1>7 DEF SetRoom
  <1>8. CASE AskSlot(p)
    <2>1. task[p].op \in {"create", "update"} /\ task[p].pc = "askSlot"
      BY <1>0, <1>8, StepsOfHandlers DEF AskSlot
    <2>2. "write" \in Steps(task[p].op)
      BY <2>1 DEF Steps, Listeners, Jobs
    <2> QED  BY <1>1, <1>2, <1>8, <2>1, <2>2 DEF AskSlot, Goto, Done
  <1>9. CASE AskEmpty(p)
    <2>1. task[p].op = "removeRoom" /\ task[p].pc = "askEmpty"
      BY <1>0, <1>9, StepsOfHandlers DEF AskEmpty
    <2>2. "write" \in Steps(task[p].op)
      BY <2>1 DEF Steps, Listeners, Jobs
    <2> QED  BY <1>1, <1>2, <1>9, <2>1, <2>2 DEF AskEmpty, Goto, Done
  <1>10. CASE InsertBooking(p)
    <2>1. task[p].op = "create" /\ task[p].pc = "write"
      BY <1>10 DEF InsertBooking
    <2>2. ASSUME NEW b \in Booking,
                 task' = [task EXCEPT ![p].pc = "written", ![p].id = b]
          PROVE  Onward
      <3> DEFINE k == [task[p] EXCEPT !.pc = "written", !.id = b]
      <3>1. /\ k \in Task /\ SameCall(k, task[p]) /\ k.id = b
            /\ k.row = task[p].row /\ k.pc = "written"
        BY <1>0 DEF Task, SameCall
      <3>2. task' = [task EXCEPT ![p] = k]
        BY <2>2 DEF TypeOK
      <3> HIDE DEF k
      <3>3. HasShape(k)
        BY <1>0, <2>1, <3>1 DEF HasShape, SameCall, Steps, Listeners, Jobs
      <3>4. HoldsBooking(p, k)
        BY <2>1, <3>1 DEF HoldsBooking, SameCall
      <3> QED  BY <3>1, <3>2, <3>3, <3>4 DEF SameCall
    <2> QED  BY <1>1, <1>10, <2>2 DEF InsertBooking, Done
  <1>11. CASE WriteBooking(p)
    <2>1. task[p].op \in {"update", "confirm", "cancel"} /\ task[p].pc = "write"
      BY <1>11 DEF WriteBooking
    <2>2. ASSUME Live(rows[task[p].id]),
                 task' = [task EXCEPT ![p].pc = "written",
                                      ![p].row = Written(task[p])]
          PROVE  Onward
      <3> DEFINE row == Written(task[p])
                 k == [task[p] EXCEPT !.pc = "written", !.row = row]
      <3>1. row \in Row /\ Live(row)
        BY <2>1, <2>2, WrittenIsRow
      <3> HIDE DEF row
      <3>2. /\ k \in Task /\ SameCall(k, task[p]) /\ k.id = task[p].id
            /\ k.row = row /\ k.pc = "written"
        BY <1>0, <3>1 DEF Task, SameCall
      <3>3. task' = [task EXCEPT ![p] = k]
        BY <2>2 DEF TypeOK, row
      <3> HIDE DEF k
      <3>4. HasShape(k)
        BY <1>0, <2>1, <3>1, <3>2 DEF HasShape, SameCall, Steps, Listeners, Jobs
      <3>5. HoldsBooking(p, k)
        BY <3>2 DEF HoldsBooking
      <3> QED  BY <3>2, <3>3, <3>4, <3>5 DEF SameCall
    <2> QED  BY <1>1, <1>11, <2>2 DEF WriteBooking, Done
  <1>12. ASSUME task[p].pc = "write",
                task[p].op \in {"createRoom", "updateRoom", "removeRoom"},
                Goto(p, "written")
         PROVE  Onward
    <2> DEFINE k == [task[p] EXCEPT !.pc = "written"]
    <2>1. k \in Task /\ SameCall(k, task[p]) /\ k.pc = "written"
      BY <1>0 DEF Task, SameCall
    <2>2. task' = [task EXCEPT ![p] = k]
      BY <1>12 DEF Goto, TypeOK
    <2> HIDE DEF k
    <2>3. HasShape(k)
      BY <1>0, <1>12, <2>1 DEF HasShape, SameCall, Steps, Listeners, Jobs
    <2>4. HoldsBooking(p, k)
      BY <1>12, <2>1 DEF HoldsBooking, SameCall
    <2> QED  BY <2>1, <2>2, <2>3, <2>4 DEF SameCall
  <1>13. CASE WriteRoom(p) \/ DeleteRoom(p)
    BY <1>1, <1>12, <1>13 DEF WriteRoom, DeleteRoom, Done
  <1>14. ASSUME NEW l \in Listeners, Listen(p, l, task[p]),
                task[p].op \in {"create", "confirm", "updateRoom"},
                l = "rejectOverlap" => task[p].user \in User
         PROVE  Onward
    <2> DEFINE k == [Idle EXCEPT !.op = l, !.pc = "collect", !.user = task[p].user,
                                 !.row = task[p].row, !.rm = task[p].rm, !.at = now]
    <2>0. /\ l \in {"rejectOverlap", "pendRoom"} /\ now \in Time
          /\ task[p].user \in User \cup {NoUser} /\ task[p].row \in Row
          /\ task[p].rm \in Room \cup {NoRoom}
      BY <1>0 DEF Task, Listeners, TypeOK
    <2>1. /\ k \in Task /\ k.op = l /\ k.pc = "collect" /\ k.user = task[p].user
      BY <2>0, IdleIsTask, ZenonT(60) DEF Task
    <2>2. task' = [task EXCEPT ![p] = k]
      BY <1>14 DEF Listen
    <2> HIDE DEF k
    <2>3. HasShape(k)
      BY <1>14, <2>1 DEF HasShape, Steps, Listeners, Jobs
    <2>4. HoldsBooking(p, k)
      BY <1>14, <2>1 DEF HoldsBooking, Listeners
    <2>5. p \notin Cron
      BY <1>14 DEF Shaped, Jobs
    <2> QED  BY <1>14, <2>1, <2>2, <2>3, <2>4, <2>5
  <1>15. CASE BookingWritten(p)
    <2>1. task[p].op \in {"create", "confirm"} => task[p].user \in User
      BY <1>0 DEF HasShape
    <2> QED  BY <1>1, <1>14, <1>15, <2>1
             DEF BookingWritten, ApprovalStartsListener, Done, Listeners
  <1>16. CASE RoomWritten(p)
    BY <1>1, <1>14, <1>16 DEF RoomWritten, DisableStartsListener, Done, Listeners
  <1>17. ASSUME NEW pc \in {"apply", "applied"}, NEW id \in Booking \cup {None},
                NEW todo \in SUBSET Booking, NEW done \in SUBSET Booking,
                task[p].op \in Listeners \cup Jobs,
                pc = "applied" /\ task[p].op # "pendRoom" => id \in Booking,
                task' = [task EXCEPT ![p] = [task[p] EXCEPT
                            !.pc = pc, !.id = id, !.todo = todo, !.done = done]]
         PROVE  Onward
    <2> DEFINE k == [task[p] EXCEPT !.pc = pc, !.id = id, !.todo = todo, !.done = done]
    <2>0. k \in Task
      BY <1>0, <1>17 DEF Task
    <2>1. SameCall(k, task[p]) /\ k.pc = pc /\ k.id = id
      BY <1>0 DEF Task, SameCall
    <2> HIDE DEF k
    <2>2. HasShape(k)
      BY <1>0, <1>17, <2>0, <2>1 DEF HasShape, SameCall, Steps, Listeners, Jobs
    <2>3. HoldsBooking(p, k)
      BY <1>17, <2>1 DEF HoldsBooking, SameCall, Listeners, Jobs
    <2> QED  BY <1>17, <2>0, <2>1, <2>2, <2>3 DEF SameCall, k
  <1>18. ASSUME task[p].pc \in {"collect", "apply", "applied"}
         PROVE  task[p].op \in Listeners \cup Jobs
    BY <1>0, <1>18, StepsOfHandlers
  <1>19. CASE Collect(p)
    <2>1. Found(task[p]) \subseteq Booking
      BY <1>18, <1>19 DEF Collect, Found, Overlapping, ExpiredAt, DecidedBefore,
                          Listeners, Jobs
    <2>2. CASE Found(task[p]) # {}
      <3> DEFINE todo == Found(task[p])
      <3> HIDE DEF todo
      <3>1. task' = [task EXCEPT ![p] = [task[p] EXCEPT
                        !.pc = "apply", !.id = task[p].id, !.todo = todo,
                        !.done = task[p].done]]
        BY <1>0, <1>19, <2>2, ZenonT(60) DEF Collect, TypeOK, Task, todo
      <3> QED  BY <1>0, <1>17, <1>18, <1>19, <2>1, <3>1 DEF Collect, Task, todo
    <2> QED  BY <1>1, <1>19, <2>2 DEF Collect, Done
  <1>20. CASE RejectOne(p)
    <2>1. ASSUME NEW b \in task[p].todo,
                 task' = [task EXCEPT ![p].pc = "applied", ![p].id = b,
                                      ![p].todo = @ \ {b}]
          PROVE  Onward
      <3>1. b \in Booking /\ task[p].todo \ {b} \in SUBSET Booking
        BY <1>0, <2>1 DEF Task
      <3>2. task' = [task EXCEPT ![p] = [task[p] EXCEPT
                        !.pc = "applied", !.id = b, !.todo = task[p].todo \ {b},
                        !.done = task[p].done]]
        BY <1>0, <2>1 DEF TypeOK, Task
      <3> QED  BY <1>0, <1>17, <1>20, <3>1, <3>2 DEF RejectOne, Task, Listeners, Jobs
    <2> QED  BY <1>1, <1>20, <2>1 DEF RejectOne, Done
  <1>21. CASE RejectedOne(p)
    <2>1. CASE Goto(p, "apply")
      <3>1. task' = [task EXCEPT ![p] = [task[p] EXCEPT
                        !.pc = "apply", !.id = task[p].id, !.todo = task[p].todo,
                        !.done = task[p].done]]
        BY <1>0, <2>1 DEF Goto, TypeOK, Task
      <3> QED  BY <1>0, <1>17, <1>21, <3>1 DEF RejectedOne, Task, Listeners, Jobs
    <2> QED  BY <1>1, <1>21, <2>1 DEF RejectedOne, Done
  <1>22. CASE PendAll(p)
    <2>1. task' = [task EXCEPT ![p] = [task[p] EXCEPT
                      !.pc = "applied", !.id = task[p].id, !.todo = task[p].todo,
                      !.done = task[p].done]]
      BY <1>0, <1>22 DEF PendAll, Goto, TypeOK, Task
    <2> QED  BY <1>0, <1>17, <1>22, <2>1 DEF PendAll, Task, Listeners
  <1>23. CASE PendedAll(p)
    BY <1>1, <1>23 DEF PendedAll, Done
  <1>24. CASE DeleteOne(p)
    <2>0. task[p].pc = "apply" /\ task[p].op = "deleteOld"
      BY <1>24 DEF DeleteOne
    <2> PICK b \in task[p].todo :
           task' = [task EXCEPT ![p].todo = @ \ {b}, ![p].done = @ \cup {b}]
      BY <1>24 DEF DeleteOne
    <2> DEFINE todo == task[p].todo \ {b}
               done == task[p].done \cup {b}
    <2>1. todo \in SUBSET Booking /\ done \in SUBSET Booking
      BY <1>0 DEF Task
    <2>2. task' = [task EXCEPT ![p] = [task[p] EXCEPT !.todo = todo, !.done = done]]
      BY DEF TypeOK
    <2> HIDE DEF todo, done
    <2>3. task' = [task EXCEPT ![p] = [task[p] EXCEPT
                      !.pc = "apply", !.id = task[p].id, !.todo = todo,
                      !.done = done]]
      BY <1>0, <2>0, <2>2, ZenonT(60) DEF Task
    <2>4. task[p].id \in Booking \cup {None} /\ task[p].op \in Listeners \cup Jobs
      BY <1>0, <2>0 DEF Task, Jobs
    <2> QED  BY <1>17, <2>1, <2>3, <2>4
  <1>25. CASE DeletedOne(p)
    <2>1. ASSUME NEW b \in task[p].done,
                 task' = [task EXCEPT ![p].done = @ \ {b}]
          PROVE  Onward
      <3>1. task[p].done \ {b} \in SUBSET Booking
        BY <1>0 DEF Task
      <3>2. task' = [task EXCEPT ![p] = [task[p] EXCEPT
                        !.pc = "apply", !.id = task[p].id, !.todo = task[p].todo,
                        !.done = task[p].done \ {b}]]
        BY <1>0, <1>25, <2>1, ZenonT(60) DEF DeletedOne, TypeOK, Task
      <3> QED  BY <1>0, <1>17, <1>25, <3>1, <3>2 DEF DeletedOne, Task, Jobs
    <2> QED  BY <1>1, <1>25, <2>1 DEF DeletedOne, Done
  <1> QED
    BY <1>3, <1>4, <1>6, <1>7, <1>8, <1>9, <1>10, <1>11, <1>13, <1>15, <1>16,
       <1>19, <1>20, <1>21, <1>22, <1>23, <1>24, <1>25 DEF Advance

-----------------------------------------------------------------------------
(* What a step does to the row of a booking, and to a room.                *)

Kept(b) == rows'[b] = rows[b]

Created(b) ==
    /\ rows[b].status = "unborn" /\ Live(rows'[b])
    /\ rows'[b].room \in Room => RoomExists(room[rows'[b].room])
    /\ rows'[b].status = "approved" => rows'[b].modifiedBy \in Approvers
    /\ UNCHANGED room

Edited(b) ==
    /\ Live(rows[b])
    /\ rows'[b].status = rows[b].status
    /\ rows'[b].modifiedBy = rows[b].modifiedBy
    /\ rows'[b].creator = rows[b].creator
    /\ \/ rows'[b].room \in {rows[b].room, NoRoom}
       \/ RoomExists(room[rows'[b].room])
    /\ \E p \in Process :
          task[p].op = "update" /\ task[p].id = b /\ task[p].pc = "write"
    /\ UNCHANGED room

Settled(b) ==
    /\ Live(rows[b]) /\ Live(rows'[b])
    /\ rows'[b].start = rows[b].start /\ rows'[b].end = rows[b].end
    /\ rows'[b].room = rows[b].room
    /\ rows'[b].creator = rows[b].creator
    /\ rows'[b].status = "approved" => rows'[b].modifiedBy \in Confirmers
    /\ UNCHANGED room

Deleted(b) ==
    /\ rows'[b] = NoRow("deleted")
    /\ \E p \in Process : task[p].op = "deleteOld"
    /\ UNCHANGED room

Orphaned(b) ==
    /\ rows[b].room \in Room
    /\ rows'[b] = [rows[b] EXCEPT !.room = NoRoom]
    /\ room'[rows[b].room] = "deleted"

RowChanges(b) ==
    Kept(b) \/ Created(b) \/ Edited(b) \/ Settled(b) \/ Deleted(b) \/ Orphaned(b)

RoomChanges(r) ==
    \/ room'[r] = room[r]
    \/ RoomExists(room'[r])
    \/ \A b \in Booking : rows'[b].room # r

RowsAreSound ==
    /\ rows' \in [Booking -> Row]
    /\ room' \in [Room -> RoomState]
    /\ \A b \in Booking : RowChanges(b)
    /\ \A r \in Room : RoomChanges(r)

LEMMA OneRowChanges ==
    ASSUME TypeOK, NEW b \in Booking, NEW row \in Row,
           rows' = [rows EXCEPT ![b] = row], UNCHANGED room, RowChanges(b)
    PROVE  RowsAreSound
  BY DEF TypeOK, RowsAreSound, RowChanges, RoomChanges, Kept

LEMMA NoRowChanges ==
    ASSUME TypeOK, UNCHANGED <<rows, room>>
    PROVE  RowsAreSound
  BY DEF TypeOK, RowsAreSound, RowChanges, RoomChanges, Kept

LEMMA StepsKeepRows ==
    ASSUME TypeOK, Shaped, [Next]_vars
    PROVE  RowsAreSound
  <1>0. \A p \in Process : task[p] \in Task /\ HasShape(task[p])
    BY DEF TypeOK, Shaped
  <1>t. now \in Time /\ rows \in [Booking -> Row]
    BY DEF TypeOK
  <1>1. ASSUME NEW p \in Process, InsertBooking(p)
        PROVE  RowsAreSound
    <2>1. CASE UNCHANGED rows
      BY <1>1, <2>1, NoRowChanges DEF InsertBooking
    <2>2. ASSUME NEW b \in Booking, RoomExists(room[task[p].rm]),
                 rows[b].status = "unborn",
                 rows' = [rows EXCEPT ![b] = [task[p].row EXCEPT !.updatedAt = now]]
          PROVE  RowsAreSound
      <3> DEFINE row == [task[p].row EXCEPT !.updatedAt = now]
      <3>1. /\ task[p].row \in Row /\ Live(task[p].row)
            /\ task[p].row.room = task[p].rm
            /\ task[p].row.status = "approved" => task[p].row.modifiedBy \in Approvers
        BY <1>0, <1>1 DEF InsertBooking, HasShape, Task
      <3>2. /\ row \in Row /\ row.room = task[p].rm
            /\ row.status = task[p].row.status
            /\ row.modifiedBy = task[p].row.modifiedBy
        BY <1>t, <3>1 DEF Row
      <3> HIDE DEF row
      <3>3. rows'[b] = row /\ UNCHANGED room
        BY <1>1, <1>t, <2>2 DEF InsertBooking, row
      <3>4. Created(b)
        BY <2>2, <3>1, <3>2, <3>3 DEF Created, Live
      <3> QED  BY <2>2, <3>2, <3>3, <3>4, OneRowChanges DEF RowChanges, row
    <2> QED  BY <1>1, <2>1, <2>2 DEF InsertBooking
  <1>2. ASSUME NEW p \in Process, WriteBooking(p)
        PROVE  RowsAreSound
    <2> DEFINE b == task[p].id
               new == Written(task[p])
    <2>0. /\ task[p].op \in {"update", "confirm", "cancel"} /\ task[p].pc = "write"
          /\ UNCHANGED room
      BY <1>2 DEF WriteBooking
    <2>1. CASE UNCHANGED rows
      BY <2>0, <2>1, NoRowChanges
    <2>2. ASSUME Live(rows[b]),
                 task[p].op = "update" /\ task[p].patch.room \in Room
                    => RoomExists(room[task[p].patch.room]),
                 rows' = [rows EXCEPT ![b] = new]
          PROVE  RowsAreSound
      <3>1. /\ b \in Booking /\ rows[b] \in Row /\ new \in Row /\ Live(new)
            /\ new.creator = rows[b].creator
            /\ task[p].op # "update" =>
                 /\ new.room = rows[b].room /\ new.start = rows[b].start
                 /\ new.end = rows[b].end
            /\ task[p].op = "update" =>
                 /\ new.status = rows[b].status
                 /\ new.modifiedBy = rows[b].modifiedBy
                 /\ new.room \in {rows[b].room, NoRoom, task[p].patch.room}
            /\ task[p].op # "update" /\ new.status = "approved" =>
                 new.modifiedBy \in Confirmers
        BY <2>0, <2>2, WrittenIsRow
      <3>2. new.room \in Room \cup {NoRoom}
        BY <3>1 DEF Row
      <3> HIDE DEF new
      <3>3. rows'[b] = new
        BY <1>t, <2>2, <3>1
      <3>4. RowChanges(b)
        BY <2>0, <2>2, <3>1, <3>2, <3>3 DEF RowChanges, Edited, Settled
      <3> QED  BY <2>0, <2>2, <3>1, <3>4, OneRowChanges
    <2> QED  BY <1>2, <2>1, <2>2 DEF WriteBooking
  <1>3. ASSUME NEW p \in Process, WriteRoom(p)
        PROVE  RowsAreSound
    <2>1. CASE UNCHANGED room
      BY <1>3, <2>1, NoRowChanges DEF WriteRoom
    <2>2. CASE room' = [room EXCEPT ![task[p].rm] = task[p].status]
      <3>1. task[p].rm \in Room /\ task[p].status \in {"enabled", "disabled"}
        BY <1>0, <1>3 DEF WriteRoom, HasShape
      <3> QED  BY <1>3, <2>2, <3>1
               DEF WriteRoom, TypeOK, RoomState, RowsAreSound, RowChanges, RoomChanges,
                   RoomExists, Kept
    <2> QED  BY <1>3, <2>1, <2>2 DEF WriteRoom
  <1>4. ASSUME NEW p \in Process, DeleteRoom(p)
        PROVE  RowsAreSound
    <2> DEFINE r == task[p].rm
    <2>1. CASE UNCHANGED <<room, rows>>
      BY <2>1, NoRowChanges
    <2>2. CASE room' = [room EXCEPT ![r] = "deleted"] /\ rows' = RowsWithout(r)
      <3>1. r \in Room /\ r # NoRoom
        BY <1>0, <1>4, RulesAssumption DEF DeleteRoom, HasShape
      <3>2. \A row \in Row : /\ [row EXCEPT !.room = NoRoom] \in Row
                             /\ [row EXCEPT !.room = NoRoom].room = NoRoom
        BY DEF Row
      <3>3. \A b \in Booking : rows'[b] = IF rows[b].room = r
                                          THEN [rows[b] EXCEPT !.room = NoRoom]
                                          ELSE rows[b]
        BY <2>2 DEF RowsWithout
      <3>4. rows' \in [Booking -> Row]
        BY <1>t, <2>2, <3>2 DEF RowsWithout
      <3>5. room' \in [Room -> RoomState] /\ room'[r] = "deleted"
            /\ \A s \in Room \ {r} : room'[s] = room[s]
        BY <2>2, <3>1 DEF TypeOK, RoomState
      <3>6. \A b \in Booking : rows'[b].room # r
        BY <1>t, <3>1, <3>2, <3>3, ZenonT(60)
      <3>7. \A b \in Booking : RowChanges(b)
        BY <3>1, <3>3, <3>5 DEF RowChanges, Kept, Orphaned
      <3> QED  BY <3>4, <3>5, <3>6, <3>7 DEF RowsAreSound, RoomChanges
    <2> QED  BY <1>4, <2>1, <2>2 DEF DeleteRoom
  <1>5. ASSUME NEW p \in Process, RejectOne(p)
        PROVE  RowsAreSound
    <2>1. CASE UNCHANGED rows
      BY <1>5, <2>1, NoRowChanges DEF RejectOne
    <2>2. ASSUME NEW b \in task[p].todo, Live(rows[b]),
                 rows' = [rows EXCEPT ![b] =
                            IF task[p].op = "rejectOverlap"
                            THEN Decided(@, "reject", task[p].user, now)
                            ELSE Moved(@, "reject", now)]
          PROVE  RowsAreSound
      <3> DEFINE row == IF task[p].op = "rejectOverlap"
                        THEN Decided(rows[b], "reject", task[p].user, now)
                        ELSE Moved(rows[b], "reject", now)
      <3>1. b \in Booking /\ rows[b] \in Row
        BY <1>0, <1>t, <2>2 DEF Task
      <3>2. task[p].op = "rejectOverlap" => task[p].user \in User
        BY <1>0 DEF HasShape
      <3>3. /\ row \in Row /\ row.status = "reject"
            /\ row.start = rows[b].start /\ row.end = rows[b].end
            /\ row.room = rows[b].room /\ row.creator = rows[b].creator
        BY <1>t, <3>1, <3>2, MoreTypes, DecidedIsRow, MovedIsRow
      <3>4. rows' = [rows EXCEPT ![b] = row]
        BY <2>2
      <3> HIDE DEF row
      <3>5. Settled(b)
        BY <1>5, <1>t, <2>2, <3>1, <3>3, <3>4 DEF RejectOne, Settled, Live, Status
      <3> QED  BY <1>5, <3>1, <3>3, <3>4, <3>5, OneRowChanges DEF RejectOne, RowChanges
    <2> QED  BY <1>5, <2>1, <2>2 DEF RejectOne
  <1>6. ASSUME NEW p \in Process, PendAll(p)
        PROVE  RowsAreSound
    <2>1. \A b \in Booking :
             /\ Moved(rows[b], "pending", now) \in Row
             /\ Moved(rows[b], "pending", now).status = "pending"
             /\ Moved(rows[b], "pending", now).start = rows[b].start
             /\ Moved(rows[b], "pending", now).end = rows[b].end
             /\ Moved(rows[b], "pending", now).room = rows[b].room
             /\ Moved(rows[b], "pending", now).creator = rows[b].creator
      BY <1>t, MoreTypes, MovedIsRow
    <2>2. /\ rows' = [b \in Booking |-> IF b \in task[p].todo /\ Live(rows[b])
                                        THEN Moved(rows[b], "pending", now)
                                        ELSE rows[b]]
          /\ UNCHANGED room
      BY <1>6 DEF PendAll
    <2>3. rows' \in [Booking -> Row]
      BY <1>t, <2>1, <2>2
    <2>4. ASSUME NEW b \in Booking
          PROVE  RowChanges(b)
      BY <2>1, <2>2 DEF RowChanges, Kept, Settled, Live, Status
    <2> QED  BY <2>2, <2>3, <2>4 DEF RowsAreSound, RoomChanges, TypeOK
  <1>7. ASSUME NEW p \in Process, DeleteOne(p)
        PROVE  RowsAreSound
    <2>1. PICK b \in task[p].todo : rows' = [rows EXCEPT ![b] = NoRow("deleted")]
      BY <1>7 DEF DeleteOne
    <2>2. b \in Booking /\ NoRow("deleted") \in Row
      BY <1>0, <2>1, NoRowIsRow DEF Task
    <2>3. Deleted(b)
      BY <1>7, <1>t, <2>1, <2>2 DEF DeleteOne, Deleted
    <2> QED  BY <1>7, <2>1, <2>2, <2>3, OneRowChanges DEF DeleteOne, RowChanges
  <1>8. ASSUME NEW p \in Request, NEW k, Begin(p, k)
        PROVE  UNCHANGED <<rows, room>>
    BY <1>8 DEF Begin
  <1>9. ASSUME NEW p \in Request, Call(p)
        PROVE  UNCHANGED <<rows, room>>
    BY <1>8, <1>9 DEF Call, CallCreate, CallUpdate, CallConfirm, CallCancel,
                      CallCreateRoom, CallUpdateRoom, CallRemoveRoom
  <1>10. ASSUME NEW p \in Process,
                \/ GetBooking(p) \/ SetBooking(p) \/ GetRoom(p) \/ SetRoom(p)
                \/ AskSlot(p) \/ AskEmpty(p) \/ BookingWritten(p) \/ RoomWritten(p)
                \/ Collect(p) \/ RejectedOne(p) \/ PendedAll(p) \/ DeletedOne(p)
         PROVE  UNCHANGED <<rows, room>>
    BY <1>10 DEF GetBooking, SetBooking, GetRoom, SetRoom, AskSlot, AskEmpty,
                 BookingWritten, RoomWritten, Collect, RejectedOne, PendedAll,
                 DeletedOne
  <1>11. CASE Evict \/ Crash \/ Tick \/ UNCHANGED vars
    BY <1>11, NoRowChanges DEF Evict, Crash, Tick, vars
  <1>12. ASSUME NEW c \in Cron, CallCron(c)
         PROVE  UNCHANGED <<rows, room>>
    BY <1>12 DEF CallCron
  <1>13. ASSUME NEW p \in Process, Advance(p)
         PROVE  RowsAreSound
    BY <1>1, <1>2, <1>3, <1>4, <1>5, <1>6, <1>7, <1>10, <1>13, NoRowChanges DEF Advance
  <1> QED  BY <1>9, <1>11, <1>12, <1>13, NoRowChanges DEF Next

-----------------------------------------------------------------------------
(* A request that arrives.                                                 *)
LEMMA CallsBegin ==
    ASSUME TypeOK, Shaped, NEW p \in Request, Call(p)
    PROVE  /\ \E k \in Task :
                 /\ HasShape(k) /\ task' = [task EXCEPT ![p] = k]
                 /\ k.op \in {"update", "confirm", "cancel"} =>
                       k.pc = "getBooking" /\ rows[k.id].status # "unborn"
           /\ UNCHANGED <<now, room, rows, mail, bookingCache, roomCache, crashes>>
  <1> DEFINE Begun == \E k \in Task :
                /\ HasShape(k) /\ task' = [task EXCEPT ![p] = k]
                /\ k.op \in {"update", "confirm", "cancel"} =>
                      k.pc = "getBooking" /\ rows[k.id].status # "unborn"
  <1>c. UNCHANGED <<now, room, rows, mail, bookingCache, roomCache, crashes>>
    BY DEF Call, CallCreate, CallUpdate, CallConfirm, CallCancel,
           CallCreateRoom, CallUpdateRoom, CallRemoveRoom, Begin
  <1> SUFFICES Begun
    BY <1>c
  <1>0. /\ 0 \in Time /\ now \in Time /\ NoRow("unborn") \in Row
        /\ "approved" \in Status /\ "reject" \in Status /\ "unborn" \in RoomState
        /\ "enabled" \in RoomState /\ "disabled" \in RoomState
    BY RulesAssumption, NoRowIsRow DEF Time, TypeOK, Status, RoomState
  <1>1. CASE CallCreate(p)
    <2>1. PICK u \in User, r \in Room, s \in Time, e \in Time :
             Begin(p, [Idle EXCEPT !.op = "create", !.pc = "getRoom", !.user = u,
                                   !.rm = r, !.row = NewRow(u, r, s, e, now)])
      BY <1>1 DEF CallCreate
    <2> DEFINE row == NewRow(u, r, s, e, now)
               k == [Idle EXCEPT !.op = "create", !.pc = "getRoom", !.user = u,
                                 !.rm = r, !.row = row]
    <2>2. /\ row \in Row /\ row.room = r /\ row.creator = u /\ Live(row)
          /\ row.status = "approved" => row.modifiedBy \in Approvers
      BY <1>0, NewRowIsRow DEF Live, Status
    <2>3. task' = [task EXCEPT ![p] = k]
      BY <2>1 DEF Begin
    <2> HIDE DEF row
    <2>4. /\ k \in Task /\ k.op = "create" /\ k.pc = "getRoom" /\ k.user = u
          /\ k.rm = r /\ k.row = row
      BY <1>0, <2>2 DEF Idle, Task, Endpoints
    <2> HIDE DEF k
    <2>5. HasShape(k)
      BY <2>2, <2>4 DEF HasShape, Steps, Listeners, Jobs
    <2> QED  BY <2>3, <2>4, <2>5
  <1>2. CASE CallUpdate(p)
    <2>1. PICK b \in Booking, u \in User, patch \in Body :
             /\ rows[b].status # "unborn"
             /\ Begin(p, [Idle EXCEPT !.op = "update", !.pc = "getBooking",
                                      !.id = b, !.user = u, !.patch = patch])
      BY <1>2 DEF CallUpdate
    <2> DEFINE k == [Idle EXCEPT !.op = "update", !.pc = "getBooking",
                                 !.id = b, !.user = u, !.patch = patch]
    <2>2. task' = [task EXCEPT ![p] = k]
      BY <2>1 DEF Begin
    <2>3. /\ k \in Task /\ k.op = "update" /\ k.pc = "getBooking" /\ k.user = u
          /\ k.id = b /\ k.patch = patch
      BY <1>0 DEF Idle, Task, Endpoints
    <2> HIDE DEF k
    <2>4. HasShape(k)
      BY <2>3 DEF HasShape, Steps, Listeners, Jobs
    <2> QED  BY <2>1, <2>2, <2>3, <2>4
  <1>3. CASE CallConfirm(p)
    <2>1. PICK b \in Booking, u \in Confirmers, decision \in {"approved", "reject"} :
             /\ rows[b].status # "unborn"
             /\ Begin(p, [Idle EXCEPT !.op = "confirm", !.pc = "getBooking",
                                      !.id = b, !.user = u, !.status = decision])
      BY <1>3 DEF CallConfirm
    <2> DEFINE k == [Idle EXCEPT !.op = "confirm", !.pc = "getBooking",
                                 !.id = b, !.user = u, !.status = decision]
    <2>2. task' = [task EXCEPT ![p] = k]
      BY <2>1 DEF Begin
    <2>3. u \in User /\ decision \in Status
      BY <1>0, MoreTypes
    <2>4. /\ k \in Task /\ k.op = "confirm" /\ k.pc = "getBooking" /\ k.user = u
          /\ k.id = b /\ k.status = decision
      BY <1>0, <2>3 DEF Idle, Task, Endpoints
    <2> HIDE DEF k
    <2>5. HasShape(k)
      BY <2>3, <2>4 DEF HasShape, Steps, Listeners, Jobs
    <2> QED  BY <2>1, <2>2, <2>4, <2>5
  <1>4. CASE CallCancel(p)
    <2>1. PICK b \in Booking, u \in User :
             /\ rows[b].status # "unborn"
             /\ Begin(p, [Idle EXCEPT !.op = "cancel", !.pc = "getBooking",
                                      !.id = b, !.user = u, !.at = now])
      BY <1>4 DEF CallCancel
    <2> DEFINE k == [Idle EXCEPT !.op = "cancel", !.pc = "getBooking",
                                 !.id = b, !.user = u, !.at = now]
    <2>2. task' = [task EXCEPT ![p] = k]
      BY <2>1 DEF Begin
    <2>3. /\ k \in Task /\ k.op = "cancel" /\ k.pc = "getBooking" /\ k.user = u
          /\ k.id = b
      BY <1>0 DEF Idle, Task, Endpoints
    <2> HIDE DEF k
    <2>4. HasShape(k)
      BY <2>3 DEF HasShape, Steps, Listeners, Jobs
    <2> QED  BY <2>1, <2>2, <2>3, <2>4
  <1>5. CASE CallCreateRoom(p) \/ CallUpdateRoom(p)
    <2>1. PICK r \in Room, state \in {"enabled", "disabled"} :
             \/ Begin(p, [Idle EXCEPT !.op = "createRoom", !.pc = "write",
                                      !.rm = r, !.status = state])
             \/ Begin(p, [Idle EXCEPT !.op = "updateRoom", !.pc = "getRoom",
                                      !.rm = r, !.status = state])
      BY <1>5 DEF CallCreateRoom, CallUpdateRoom
    <2> DEFINE j == [Idle EXCEPT !.op = "createRoom", !.pc = "write",
                                 !.rm = r, !.status = state]
               k == [Idle EXCEPT !.op = "updateRoom", !.pc = "getRoom",
                                 !.rm = r, !.status = state]
    <2>2. task' = [task EXCEPT ![p] = j] \/ task' = [task EXCEPT ![p] = k]
      BY <2>1 DEF Begin
    <2>3. /\ j \in Task /\ j.op = "createRoom" /\ j.pc = "write"
          /\ j.rm = r /\ j.status = state
      BY <1>0 DEF Idle, Task, Endpoints
    <2>4. /\ k \in Task /\ k.op = "updateRoom" /\ k.pc = "getRoom"
          /\ k.rm = r /\ k.status = state
      BY <1>0 DEF Idle, Task, Endpoints
    <2> HIDE DEF j, k
    <2>5. HasShape(j) /\ HasShape(k)
      BY <2>3, <2>4 DEF HasShape, Steps, Listeners, Jobs
    <2> QED  BY <2>2, <2>3, <2>4, <2>5
  <1>6. CASE CallRemoveRoom(p)
    <2>1. PICK r \in Room :
             Begin(p, [Idle EXCEPT !.op = "removeRoom", !.pc = "getRoom", !.rm = r])
      BY <1>6 DEF CallRemoveRoom
    <2> DEFINE k == [Idle EXCEPT !.op = "removeRoom", !.pc = "getRoom", !.rm = r]
    <2>2. task' = [task EXCEPT ![p] = k]
      BY <2>1 DEF Begin
    <2>3. k \in Task /\ k.op = "removeRoom" /\ k.pc = "getRoom" /\ k.rm = r
      BY <1>0 DEF Idle, Task, Endpoints
    <2> HIDE DEF k
    <2>4. HasShape(k)
      BY <2>3 DEF HasShape, Steps, Listeners, Jobs
    <2> QED  BY <2>2, <2>3, <2>4
  <1> QED
    BY <1>1, <1>2, <1>3, <1>4, <1>5, <1>6 DEF Call

(* The scheduler starts a job.                                             *)
LEMMA JobsBegin ==
    ASSUME TypeOK, Shaped, NEW c \in Cron, CallCron(c)
    PROVE  \E k \in Task :
              /\ HasShape(k) /\ task' = [task EXCEPT ![c] = k]
              /\ k.op \in Jobs
  <1> DEFINE k == [Idle EXCEPT !.op = c, !.pc = "collect", !.at = now]
  <1>1. c \in Jobs /\ now \in Time
    BY ServiceAssumption DEF Jobs, TypeOK
  <1>2. k \in Task /\ k.op = c /\ k.pc = "collect"
    BY <1>1, IdleIsTask DEF Task, Idle, Jobs
  <1>3. task' = [task EXCEPT ![c] = k]
    BY DEF CallCron, TypeOK, Process
  <1> HIDE DEF k
  <1>4. HasShape(k)
    BY <1>1, <1>2 DEF HasShape, Steps, Listeners, Jobs
  <1> QED  BY <1>1, <1>2, <1>3, <1>4

-----------------------------------------------------------------------------
(* The tasks after any step of the system.                                 *)
LEMMA TasksStay ==
    ASSUME TypeOK, Shaped, [Next]_vars
    PROVE  task' \in [Process -> Task] /\ Shaped'
  <1>1. ASSUME NEW p \in Request, Call(p)
        PROVE  task' \in [Process -> Task] /\ Shaped'
    <2>1. p \in Process /\ p \notin Cron
      BY ServiceAssumption DEF Process
    <2> QED  BY <1>1, <2>1, CallsBegin, OneTaskMoves
  <1>2. ASSUME NEW c \in Cron, CallCron(c)
        PROVE  task' \in [Process -> Task] /\ Shaped'
    <2>1. c \in Process
      BY DEF Process
    <2> QED  BY <1>2, <2>1, JobsBegin, OneTaskMoves
  <1>3. ASSUME NEW p \in Process, Advance(p)
        PROVE  task' \in [Process -> Task] /\ Shaped'
    BY <1>3, TasksMove, OneTaskMoves
  <1>4. CASE Crash
    <2>1. task' = [p \in Process |-> Idle]
      BY <1>4 DEF Crash
    <2>2. \A p \in Process : task'[p] = Idle
      BY <2>1
    <2>3. \A c \in Cron : task'[c] = Idle
      BY <2>2 DEF Process
    <2>4. Idle.op = "idle"
      BY DEF Idle
    <2> QED  BY <2>1, <2>2, <2>3, <2>4, IdleIsTask DEF Shaped
  <1>5. CASE Evict \/ Tick \/ UNCHANGED vars
    <2>1. task' = task
      BY <1>5 DEF Evict, Tick, vars
    <2> QED  BY <2>1 DEF TypeOK, Shaped
  <1> QED  BY <1>1, <1>2, <1>3, <1>4, <1>5 DEF Next

(* Where an entry of the booking cache comes from.                         *)
LEMMA BookingCacheMoves ==
    ASSUME TypeOK, Shaped, [Next]_vars
    PROVE  /\ bookingCache' \in [Booking -> Row \cup {None}]
           /\ \A b \in Booking :
                 \/ bookingCache'[b] \in {bookingCache[b], None}
                 \/ \E p \in Process : /\ task[p].pc = "setBooking" /\ task[p].id = b
                                       /\ bookingCache'[b] = task[p].row
  <1> DEFINE Sound == /\ bookingCache' \in [Booking -> Row \cup {None}]
                      /\ \A b \in Booking :
                            \/ bookingCache'[b] \in {bookingCache[b], None}
                            \/ \E p \in Process :
                                  /\ task[p].pc = "setBooking" /\ task[p].id = b
                                  /\ bookingCache'[b] = task[p].row
  <1>0. bookingCache \in [Booking -> Row \cup {None}]
    BY DEF TypeOK
  <1>1. CASE UNCHANGED bookingCache
    BY <1>0, <1>1
  <1>2. CASE bookingCache' = ColdBookings
    BY <1>2 DEF ColdBookings
  <1>3. ASSUME NEW p \in Process, SetBooking(p)
        PROVE  Sound
    <2>1. /\ task[p].pc = "setBooking" /\ task[p].id \in Booking
          /\ task[p].row \in Row
      BY <1>3, StepsOfHandlers DEF SetBooking, TypeOK, Shaped, Task, HasShape
    <2>2. bookingCache' = [bookingCache EXCEPT ![task[p].id] = task[p].row]
      BY <1>3 DEF SetBooking
    <2> QED  BY <1>0, <2>1, <2>2
  <1>4. CASE Evict
    BY <1>0, <1>4 DEF Evict
  <1>5. ASSUME NEW p \in Process, Advance(p)
        PROVE  SetBooking(p) \/ bookingCache' \in {bookingCache, ColdBookings}
    BY <1>5 DEF Advance, GetBooking, GetRoom, SetRoom, AskSlot, AskEmpty,
         InsertBooking, WriteBooking, WriteRoom, DeleteRoom, BookingWritten,
         RoomWritten, Collect, RejectOne, RejectedOne, PendAll, PendedAll,
         DeleteOne, DeletedOne
  <1>6. ASSUME \/ \E p \in Request : Call(p)
               \/ \E c \in Cron : CallCron(c)
               \/ Tick \/ UNCHANGED vars
        PROVE  UNCHANGED bookingCache
    BY <1>6, CallsBegin DEF CallCron, Tick, vars
  <1>7. CASE Crash
    BY <1>2, <1>7 DEF Crash
  <1> QED  BY <1>1, <1>2, <1>3, <1>4, <1>5, <1>6, <1>7 DEF Next

LEMMA RoomCacheStays ==
    ASSUME TypeOK, Shaped, [Next]_vars
    PROVE  roomCache' \in [Room -> RoomState \cup {None}]
  <1>0. roomCache \in [Room -> RoomState \cup {None}]
    BY DEF TypeOK
  <1>1. CASE UNCHANGED roomCache
    BY <1>0, <1>1
  <1>2. CASE roomCache' = ColdRooms
    BY <1>2 DEF ColdRooms
  <1>3. ASSUME NEW p \in Process, SetRoom(p)
        PROVE  roomCache' \in [Room -> RoomState \cup {None}]
    <2>1. task[p].seen \in RoomState
      BY DEF TypeOK, Task
    <2> QED  BY <1>0, <1>3, <2>1 DEF SetRoom
  <1>4. CASE Evict
    BY <1>0, <1>4 DEF Evict
  <1>5. ASSUME NEW p \in Process, Advance(p)
        PROVE  SetRoom(p) \/ roomCache' \in {roomCache, ColdRooms}
    BY <1>5 DEF Advance, GetBooking, SetBooking, GetRoom, AskSlot, AskEmpty,
         InsertBooking, WriteBooking, WriteRoom, DeleteRoom, BookingWritten,
         RoomWritten, Collect, RejectOne, RejectedOne, PendAll, PendedAll,
         DeleteOne, DeletedOne
  <1>6. ASSUME \/ \E p \in Request : Call(p)
               \/ \E c \in Cron : CallCron(c)
               \/ Tick \/ UNCHANGED vars
        PROVE  UNCHANGED roomCache
    BY <1>6, CallsBegin DEF CallCron, Tick, vars
  <1>7. CASE Crash
    BY <1>2, <1>7 DEF Crash
  <1> QED  BY <1>1, <1>2, <1>3, <1>4, <1>5, <1>6, <1>7 DEF Next

LEMMA MailStays ==
    ASSUME TypeOK, Shaped, [Next]_vars
    PROVE  mail' \in [Booking -> Mail]
  <1>0. mail \in [Booking -> Mail] /\ "reject" \in Mail /\ "pending" \in Mail
    BY DEF TypeOK, Mail
  <1>1. CASE UNCHANGED mail
    BY <1>0, <1>1
  <1>2. ASSUME NEW p \in Process, BookingWritten(p)
        PROVE  mail' \in [Booking -> Mail]
    <2> DEFINE k == task[p]
    <2>1. CASE k.op = "confirm" \/ (k.op = "cancel" /\ k.row.creator # k.user)
      <3>1. k.row.status \in Mail
        BY <1>2, <2>1, MoreTypes DEF BookingWritten, Shaped, HasShape, Live
      <3>2. mail' = Sent(mail, {k.id}, k.row.status)
        BY <1>2, <2>1 DEF BookingWritten, Template
      <3> QED  BY <1>0, <3>1, <3>2, SentIsMail
    <2>2. CASE ~ (k.op = "confirm" \/ (k.op = "cancel" /\ k.row.creator # k.user))
      BY <1>0, <1>2, <2>2 DEF BookingWritten
    <2> QED  BY <2>1, <2>2
  <1>3. ASSUME NEW p \in Process, RejectedOne(p)
        PROVE  mail' \in [Booking -> Mail]
    BY <1>0, <1>3, SentIsMail DEF RejectedOne
  <1>4. ASSUME NEW p \in Process, PendedAll(p)
        PROVE  mail' \in [Booking -> Mail]
    BY <1>0, <1>4, SentIsMail DEF PendedAll
  <1>5. ASSUME NEW p \in Process, Advance(p)
        PROVE  BookingWritten(p) \/ RejectedOne(p) \/ PendedAll(p) \/ UNCHANGED mail
    BY <1>5 DEF Advance, GetBooking, SetBooking, GetRoom, SetRoom, AskSlot, AskEmpty,
         InsertBooking, WriteBooking, WriteRoom, DeleteRoom, RoomWritten, Collect,
         RejectOne, PendAll, DeleteOne, DeletedOne
  <1>6. ASSUME \/ \E p \in Request : Call(p)
               \/ \E c \in Cron : CallCron(c)
               \/ Evict \/ Crash \/ Tick \/ UNCHANGED vars
        PROVE  UNCHANGED mail
    BY <1>6, CallsBegin DEF CallCron, Evict, Crash, Tick, vars
  <1> QED  BY <1>1, <1>2, <1>3, <1>4, <1>5, <1>6 DEF Next

LEMMA CountersStay ==
    ASSUME TypeOK, Shaped, [Next]_vars
    PROVE  now' \in Time /\ crashes' \in 0..MaxCrashes
  <1>0. now \in Time /\ crashes \in 0..MaxCrashes
    BY DEF TypeOK
  <1>1. ASSUME NEW p \in Process, Advance(p)
        PROVE  UNCHANGED <<now, crashes>>
    BY <1>1 DEF Advance, GetBooking, SetBooking, GetRoom, SetRoom, AskSlot, AskEmpty,
         InsertBooking, WriteBooking, WriteRoom, DeleteRoom, BookingWritten,
         RoomWritten, Collect, RejectOne, RejectedOne, PendAll, PendedAll,
         DeleteOne, DeletedOne
  <1>2. ASSUME \/ \E p \in Request : Call(p)
               \/ \E c \in Cron : CallCron(c)
               \/ Evict \/ UNCHANGED vars
        PROVE  UNCHANGED <<now, crashes>>
    BY <1>2, CallsBegin DEF CallCron, Evict, vars
  <1>3. CASE Crash
    <2>1. crashes < MaxCrashes /\ crashes' = crashes + 1 /\ UNCHANGED now
      BY <1>3 DEF Crash
    <2>2. crashes' \in 0..MaxCrashes
      BY <1>0, <2>1, ServiceAssumption
    <2> QED  BY <1>0, <2>1, <2>2
  <1>4. CASE Tick
    <2>1. now < MaxTime /\ now' = now + 1 /\ UNCHANGED crashes
      BY <1>4 DEF Tick
    <2>2. now' \in Time
      BY <1>0, <2>1, RulesAssumption DEF Time
    <2> QED  BY <1>0, <2>1, <2>2
  <1>5. CASE UNCHANGED <<now, crashes>>
    BY <1>0, <1>5
  <1> QED  BY <1>1, <1>2, <1>3, <1>4, <1>5 DEF Next

(* TypeOK: the tables, the caches and what each handler in flight holds    *)
(* stay well formed.  What it holds depends on its step, so that the shape *)
(* of the tasks is part of the inductive invariant.                        *)
THEOREM TypeCorrect == Spec => [](TypeOK /\ Shaped)
  <1>1. Init => TypeOK /\ Shaped
    <2> SUFFICES ASSUME Init
                 PROVE  TypeOK /\ Shaped
      OBVIOUS
    <2>1. 0 \in Time /\ 0 \in 0..MaxCrashes /\ NoRow("unborn") \in Row
      BY RulesAssumption, ServiceAssumption, NoRowIsRow DEF Time
    <2>2. TypeOK
      BY <2>1, IdleIsTask DEF Init, TypeOK, RoomState, Mail
    <2>3. \A p \in Process : task[p] = Idle
      BY DEF Init
    <2>4. \A c \in Cron : task[c] = Idle
      BY <2>3 DEF Process
    <2>5. Shaped
      BY <2>3, <2>4, IdleIsTask DEF Shaped, Idle
    <2> QED  BY <2>2, <2>5
  <1>2. TypeOK /\ Shaped /\ [Next]_vars => (TypeOK /\ Shaped)'
    BY TasksStay, StepsKeepRows, BookingCacheMoves, RoomCacheStays, MailStays,
       CountersStay DEF TypeOK, RowsAreSound
  <1> QED  BY <1>1, <1>2, PTL DEF Spec

-----------------------------------------------------------------------------
(* ApprovalsAreSigned: no interleaving leaves an approved booking that     *)
(* names no administrator, for an approval is written in one statement     *)
(* with its author, and every other write of a row keeps both or takes the *)
(* approval away.                                                          *)
THEOREM ApprovalsAreAnswered == Spec => []ApprovalsAreSigned
  <1>1. Init => ApprovalsAreSigned
    BY DEF Init, ApprovalsAreSigned, NoRow
  <1>2. TypeOK /\ Shaped /\ ApprovalsAreSigned /\ [Next]_vars => ApprovalsAreSigned'
    <2> SUFFICES ASSUME TypeOK, Shaped, ApprovalsAreSigned, [Next]_vars,
                        NEW b \in Booking, rows'[b].status = "approved"
                 PROVE  rows'[b].modifiedBy \in Approvers \cup Confirmers
      BY DEF ApprovalsAreSigned
    <2>1. RowChanges(b) /\ rows[b] \in Row
      BY StepsKeepRows DEF RowsAreSound, TypeOK
    <2>2. CASE Kept(b) \/ Edited(b)
      BY <2>2 DEF Kept, Edited, ApprovalsAreSigned
    <2>3. CASE Created(b) \/ Settled(b)
      BY <2>3 DEF Created, Settled
    <2>4. CASE Deleted(b)
      BY <2>4 DEF Deleted, NoRow
    <2>5. CASE Orphaned(b)
      BY <2>1, <2>5 DEF Orphaned, Row, ApprovalsAreSigned
    <2> QED  BY <2>1, <2>2, <2>3, <2>4, <2>5 DEF RowChanges
  <1> QED  BY <1>1, <1>2, TypeCorrect, PTL DEF Spec

(* RoomsExist: no booking points to a room that is gone, also when the     *)
(* room is deleted between a handler's look at it and its write, for the   *)
(* write itself is refused then.                                           *)
THEOREM NoDanglingRooms == Spec => []RoomsExist
  <1>1. Init => RoomsExist
    BY RulesAssumption DEF Init, RoomsExist, NoRow
  <1>2. TypeOK /\ Shaped /\ RoomsExist /\ [Next]_vars => RoomsExist'
    <2> SUFFICES ASSUME TypeOK, Shaped, RoomsExist, [Next]_vars,
                        NEW b \in Booking, rows'[b].room \in Room
                 PROVE  RoomExists(room'[rows'[b].room])
      BY DEF RoomsExist
    <2> DEFINE r == rows'[b].room
    <2>1. RowChanges(b) /\ RoomChanges(r) /\ rows[b] \in Row
      BY StepsKeepRows DEF RowsAreSound, TypeOK
    <2>2. RoomExists(room'[r]) \/ room'[r] = room[r]
      BY <2>1 DEF RoomChanges
    <2>3. NoRoom \notin Room
      BY RulesAssumption
    <2>4. RoomExists(room[r])
      <3>1. CASE Kept(b) \/ Settled(b)
        BY <3>1 DEF Kept, Settled, RoomsExist
      <3>2. CASE Created(b)
        BY <3>2 DEF Created
      <3>3. CASE Edited(b)
        BY <3>3, <2>3 DEF Edited, RoomsExist
      <3>4. CASE Deleted(b)
        BY <3>4, <2>3 DEF Deleted, NoRow
      <3>5. CASE Orphaned(b)
        BY <2>1, <2>3, <3>5 DEF Orphaned, Row
      <3> QED  BY <2>1, <3>1, <3>2, <3>3, <3>4, <3>5 DEF RowChanges
    <2> QED  BY <2>2, <2>4
  <1> QED  BY <1>1, <1>2, TypeCorrect, PTL DEF Spec

-----------------------------------------------------------------------------
(* What a handler knows of the booking it goes on with, and the cache of   *)
(* its bookings: a copy may be stale in everything but its creator.        *)
Known(rs, b, row) ==
    /\ rs[b].status # "unborn"
    /\ Live(rs[b]) => row.creator = rs[b].creator

Informed(rs, k) ==
    k.op \in {"update", "confirm", "cancel"} =>
        /\ rs[k.id].status # "unborn"
        /\ k.pc \notin {"getBooking", "written"} => Known(rs, k.id, k.row)
        /\ k.op = "update" /\ k.pc \in {"getRoom", "setRoom", "askSlot", "write"} =>
              k.row.creator = k.user

OwnersInv ==
    /\ \A b \in Booking : bookingCache[b] # None => Known(rows, b, bookingCache[b])
    /\ \A p \in Process : Informed(rows, task[p])

LEMMA CreatorsStay ==
    ASSUME TypeOK, Shaped, [Next]_vars, NEW b \in Booking, NEW row,
           Known(rows, b, row)
    PROVE  Known(rows', b, row)
  <1>1. RowChanges(b) /\ rows[b] \in Row
    BY StepsKeepRows DEF RowsAreSound, TypeOK
  <1>2. "unborn" \notin Status
    BY DEF Status
  <1>3. CASE Kept(b)
    BY <1>3 DEF Kept, Known
  <1>4. CASE Created(b)
    BY <1>4 DEF Created, Known
  <1>5. CASE Edited(b)
    BY <1>5 DEF Edited, Known, Live
  <1>6. CASE Settled(b)
    BY <1>2, <1>6 DEF Settled, Known, Live
  <1>7. CASE Deleted(b)
    BY <1>7 DEF Deleted, Known, NoRow, Live, Status
  <1>8. CASE Orphaned(b)
    <2>1. rows'[b].status = rows[b].status /\ rows'[b].creator = rows[b].creator
      BY <1>1, <1>8 DEF Orphaned, Row
    <2> QED  BY <2>1 DEF Known, Live
  <1> QED  BY <1>1, <1>3, <1>4, <1>5, <1>6, <1>7, <1>8 DEF RowChanges

(* A task that is left alone still knows what it knew.                     *)
LEMMA HoldersStay ==
    ASSUME TypeOK, Shaped, [Next]_vars, NEW k \in Task, HasShape(k),
           Informed(rows, k)
    PROVE  Informed(rows', k)
  <1>1. k.op \in {"update", "confirm", "cancel"} => k.id \in Booking
    BY DEF HasShape
  <1>2. ASSUME NEW b \in Booking, rows[b].status # "unborn"
        PROVE  rows'[b].status # "unborn"
    BY <1>2, CreatorsStay DEF Known
  <1> QED  BY <1>1, <1>2, CreatorsStay DEF Informed

(* The one process that moves knows as much of its booking afterwards.     *)
LEMMA HoldersMove ==
    ASSUME TypeOK, Shaped, OwnersInv, [Next]_vars, NEW p \in Process,
           NEW k \in Task, HasShape(k), HoldsBooking(p, k)
    PROVE  Informed(rows, k)
  <1>1. task[p] \in Task /\ HasShape(task[p]) /\ Informed(rows, task[p])
    BY DEF TypeOK, Shaped, OwnersInv
  <1> SUFFICES ASSUME k.op \in {"update", "confirm", "cancel"}
               PROVE  Informed(rows, k)
    BY DEF Informed
  <1>2. /\ k.id \in Booking /\ task[p].id = k.id /\ task[p].op = k.op
        /\ task[p].user = k.user
    BY DEF HasShape, HoldsBooking, SameCall
  <1>3. rows[k.id].status # "unborn"
    BY <1>1, <1>2 DEF Informed
  <1>4. CASE k.pc = "written"
    BY <1>3, <1>4 DEF Informed
  <1>5. CASE task[p].pc \in {"getRoom", "setRoom", "askSlot"} /\ k.row = task[p].row
    BY <1>1, <1>2, <1>3, <1>5 DEF Informed
  <1>6. CASE /\ task[p].pc \in {"getBooking", "setBooking"}
             /\ \/ k.row = task[p].row /\ task[p].pc = "setBooking"
                \/ k.row = bookingCache[k.id] /\ bookingCache[k.id] # None
                \/ k.row = rows[k.id] /\ Live(rows[k.id])
             /\ k.op = "update" /\ k.pc # "setBooking" => k.row.creator = k.user
    <2>1. CASE k.row = task[p].row /\ task[p].pc = "setBooking"
      BY <1>1, <1>2, <1>3, <1>6, <2>1 DEF Informed
    <2>2. CASE k.row = bookingCache[k.id] /\ bookingCache[k.id] # None
      <3>1. Known(rows, k.id, k.row)
        BY <1>2, <2>2 DEF OwnersInv
      <3> QED  BY <1>3, <1>6, <3>1 DEF Informed
    <2>3. CASE k.row = rows[k.id] /\ Live(rows[k.id])
      <3>1. Known(rows, k.id, k.row)
        BY <1>3, <2>3 DEF Known
      <3> QED  BY <1>3, <1>6, <3>1 DEF Informed
    <2> QED  BY <1>6, <2>1, <2>2, <2>3
  <1> QED  BY <1>4, <1>5, <1>6 DEF HoldsBooking

LEMMA OwnersStay ==
    ASSUME TypeOK, Shaped, OwnersInv, [Next]_vars
    PROVE  OwnersInv'
  <1>0. \A p \in Process :
           task[p] \in Task /\ HasShape(task[p]) /\ Informed(rows, task[p])
    BY DEF TypeOK, Shaped, OwnersInv
  <1>1. ASSUME NEW b \in Booking, bookingCache'[b] # None
        PROVE  Known(rows', b, bookingCache'[b])
    <2>1. CASE bookingCache'[b] = bookingCache[b]
      <3>1. Known(rows, b, bookingCache[b])
        BY <1>1, <2>1 DEF OwnersInv
      <3> QED  BY <2>1, <3>1, CreatorsStay
    <2>2. ASSUME NEW p \in Process, task[p].pc = "setBooking", task[p].id = b,
                 bookingCache'[b] = task[p].row
          PROVE  Known(rows', b, bookingCache'[b])
      <3>1. task[p].op \in {"update", "confirm", "cancel"}
        BY <1>0, <2>2, StepsOfHandlers
      <3>2. Known(rows, b, task[p].row)
        BY <1>0, <2>2, <3>1 DEF Informed
      <3> QED  BY <2>2, <3>2, CreatorsStay
    <2> QED  BY <1>1, <2>1, <2>2, BookingCacheMoves
  <1>2. ASSUME NEW p \in Process, NEW k \in Task, HasShape(k), Informed(rows, k),
               task' = [task EXCEPT ![p] = k], NEW q \in Process
        PROVE  Informed(rows', task'[q])
    <2>1. task'[q] = IF q = p THEN k ELSE task[q]
      BY <1>2 DEF TypeOK
    <2> QED  BY <1>0, <1>2, <2>1, HoldersStay
  <1>3. ASSUME NEW q \in Process
        PROVE  Informed(rows', task'[q])
    <2>1. ASSUME NEW p \in Process, Advance(p)
          PROVE  Informed(rows', task'[q])
      <3>1. PICK k \in Task : /\ HasShape(k) /\ task' = [task EXCEPT ![p] = k]
                              /\ HoldsBooking(p, k)
        BY <2>1, TasksMove
      <3> QED  BY <1>2, <3>1, HoldersMove
    <2>2. ASSUME NEW p \in Request, Call(p)
          PROVE  Informed(rows', task'[q])
      <3>1. PICK k \in Task : /\ HasShape(k) /\ task' = [task EXCEPT ![p] = k]
                              /\ k.op \in {"update", "confirm", "cancel"} =>
                                   k.pc = "getBooking" /\ rows[k.id].status # "unborn"
        BY <2>2, CallsBegin
      <3>2. Informed(rows, k) /\ p \in Process
        BY <3>1 DEF Informed, Process
      <3> QED  BY <1>2, <3>1, <3>2
    <2>3. ASSUME NEW c \in Cron, CallCron(c)
          PROVE  Informed(rows', task'[q])
      <3>1. PICK k \in Task : /\ HasShape(k) /\ task' = [task EXCEPT ![c] = k]
                              /\ k.op \in Jobs
        BY <2>3, JobsBegin
      <3>2. Informed(rows, k) /\ c \in Process
        BY <3>1 DEF Informed, Process, Jobs
      <3> QED  BY <1>2, <3>1, <3>2
    <2>4. CASE Crash
      <3>1. task'[q] = Idle
        BY <2>4 DEF Crash
      <3> QED  BY <3>1 DEF Informed, Idle
    <2>5. CASE Evict \/ Tick \/ UNCHANGED vars
      <3>1. task'[q] = task[q]
        BY <2>5 DEF Evict, Tick, vars
      <3> QED  BY <1>0, <3>1, HoldersStay
    <2> QED  BY <2>1, <2>2, <2>3, <2>4, <2>5 DEF Next
  <1> QED  BY <1>1, <1>3 DEF OwnersInv

(* OwnersMoveSlots: when the slot of a booking changes, its creator asked  *)
(* for it or its room was deleted, also when the row that the handler read *)
(* is long out of date by the time it writes.                              *)
THEOREM OnlyOwnersMove == Spec => OwnersMoveSlots
  <1>1. Init => OwnersInv
    BY DEF Init, OwnersInv, Informed, Idle
  <1>2. TypeOK /\ Shaped /\ OwnersInv /\ [Next]_vars => OwnersInv'
    BY OwnersStay
  <1> DEFINE Moves ==
        \A b \in Booking :
          /\ Live(rows[b]) /\ Live(rows'[b])
          /\ \/ rows'[b].start # rows[b].start \/ rows'[b].end # rows[b].end
             \/ rows'[b].room # rows[b].room
          => \/ \E p \in Request : /\ task[p].op = "update"
                                   /\ task[p].user = rows[b].creator
                                   /\ task[p].id = b
             \/ rows[b].room \in Room /\ room'[rows[b].room] = "deleted"
  <1>3. TypeOK /\ Shaped /\ OwnersInv /\ [Next]_vars => [Moves]_vars
    <2> SUFFICES ASSUME TypeOK, Shaped, OwnersInv, [Next]_vars, NEW b \in Booking,
                        Live(rows[b]), Live(rows'[b]),
                        \/ rows'[b].start # rows[b].start
                        \/ rows'[b].end # rows[b].end
                        \/ rows'[b].room # rows[b].room
                 PROVE  \/ \E p \in Request : /\ task[p].op = "update"
                                              /\ task[p].user = rows[b].creator
                                              /\ task[p].id = b
                        \/ rows[b].room \in Room /\ room'[rows[b].room] = "deleted"
      OBVIOUS
    <2>1. RowChanges(b)
      BY StepsKeepRows DEF RowsAreSound
    <2>2. ~ Kept(b) /\ ~ Settled(b) /\ ~ Created(b) /\ ~ Deleted(b)
      BY DEF Kept, Settled, Created, Deleted, NoRow, Live, Status
    <2>3. CASE Edited(b)
      <3>1. PICK p \in Process : /\ task[p].op = "update" /\ task[p].id = b
                                 /\ task[p].pc = "write"
        BY <2>3 DEF Edited
      <3>2. p \in Request
        BY <3>1 DEF Process, Shaped, Jobs
      <3>3. /\ Known(rows, b, task[p].row)
            /\ task[p].row.creator = task[p].user
        BY <3>1 DEF OwnersInv, Informed
      <3> QED  BY <3>1, <3>2, <3>3 DEF Known
    <2>4. CASE Orphaned(b)
      BY <2>4 DEF Orphaned
    <2> QED  BY <2>1, <2>2, <2>3, <2>4 DEF RowChanges
  <1>4. [][Moves]_vars => OwnersMoveSlots
    BY DEF OwnersMoveSlots
  <1> QED  BY <1>1, <1>2, <1>3, <1>4, TypeCorrect, PTL DEF Spec

-----------------------------------------------------------------------------
(* How much of a handler, a listener or a job is still ahead of it.  No    *)
(* step waits, retries or goes back; only the loops take longer the more   *)
(* bookings they found.                                                    *)

Loops == {"apply", "applied"}

BeforeLoop(pc) ==
    CASE pc = "getBooking" -> 8
      [] pc = "setBooking" -> 7
      [] pc = "getRoom"    -> 6
      [] pc = "setRoom"    -> 5
      [] pc \in {"askSlot", "askEmpty"} -> 4
      [] pc = "write"      -> 3
      [] pc = "written"    -> 2
      [] pc = "collect"    -> 1

(* Two steps for a row that is still to be rejected, and one more to stop. *)
Rounds(k) ==
    IF k.pc = "applied" /\ k.op = "pendRoom" THEN 1
    ELSE 2 * Cardinality(k.todo) + Cardinality(k.done)
            + (IF k.pc = "apply" THEN 2 ELSE 3)

LongestLoop == 3 * Cardinality(Booking) + 3

StepsLeft(k) ==
    IF k.pc = "idle" THEN 0
    ELSE IF k.pc \in Loops THEN Rounds(k)
    ELSE LongestLoop + BeforeLoop(k.pc)

(* Every step of a process brings its end nearer, and no other process     *)
(* puts it off.                                                            *)
Finishing ==
    \A p \in Process : task[p] # Idle =>
        /\ task'[p] = task[p] \/ StepsLeft(task'[p]) < StepsLeft(task[p])
        /\ Advance(p) => StepsLeft(task'[p]) < StepsLeft(task[p])

LEMMA FoundAreCounted ==
    ASSUME IsFiniteSet(Booking), NEW k \in Task
    PROVE  /\ IsFiniteSet(k.todo) /\ IsFiniteSet(k.done)
           /\ Cardinality(k.todo) \in 0..Cardinality(Booking)
           /\ Cardinality(k.done) \in 0..Cardinality(Booking)
           /\ Cardinality(Booking) \in Nat
  <1>1. k.todo \in SUBSET Booking /\ k.done \in SUBSET Booking
    BY DEF Task
  <1>2. /\ IsFiniteSet(k.todo) /\ Cardinality(k.todo) <= Cardinality(Booking)
    BY <1>1, FS_Subset
  <1>3. /\ IsFiniteSet(k.done) /\ Cardinality(k.done) <= Cardinality(Booking)
    BY <1>1, FS_Subset
  <1>4. /\ Cardinality(Booking) \in Nat /\ Cardinality(k.todo) \in Nat
        /\ Cardinality(k.done) \in Nat
    BY <1>2, <1>3, FS_CardinalityType
  <1> QED  BY <1>2, <1>3, <1>4

LEMMA StepsLeftBounded ==
    ASSUME IsFiniteSet(Booking), NEW k \in Task, HasShape(k)
    PROVE  /\ StepsLeft(k) \in 0..(LongestLoop + 8)
           /\ StepsLeft(k) = 0 <=> k = Idle
           /\ k.pc \in Loops => StepsLeft(k) <= LongestLoop
           /\ LongestLoop \in Nat
  <1> DEFINE t == Cardinality(k.todo)
             d == Cardinality(k.done)
             n == Cardinality(Booking)
  <1>1. t \in 0..n /\ d \in 0..n /\ n \in Nat
    BY FoundAreCounted
  <1>2. k.pc = "idle" <=> k = Idle
    BY StepsOfHandlers
  <1> HIDE DEF t, d, n
  <1>3. Rounds(k) = IF k.pc = "applied" /\ k.op = "pendRoom" THEN 1
                    ELSE 2 * t + d + (IF k.pc = "apply" THEN 2 ELSE 3)
    BY DEF Rounds, t, d
  <1>4. LongestLoop = 3 * n + 3
    BY DEF LongestLoop, n
  <1>5. Rounds(k) \in 1..LongestLoop /\ LongestLoop \in Nat
    BY <1>1, <1>3, <1>4
  <1>6. k.pc \notin Loops \cup {"idle"} => BeforeLoop(k.pc) \in 1..8
    BY DEF Task, Loops, BeforeLoop
  <1>7. CASE k.pc = "idle"
    BY <1>2, <1>5, <1>7 DEF StepsLeft, Loops
  <1>8. CASE k.pc \in Loops
    BY <1>2, <1>5, <1>8 DEF StepsLeft, Loops
  <1>9. CASE k.pc \notin Loops \cup {"idle"}
    <2>1. StepsLeft(k) = LongestLoop + BeforeLoop(k.pc)
      BY <1>9 DEF StepsLeft
    <2>2. k # Idle
      BY <1>2, <1>9
    <2> HIDE DEF LongestLoop, StepsLeft, BeforeLoop
    <2>3. StepsLeft(k) \in 1..(LongestLoop + 8)
      BY <1>5, <1>6, <1>9, <2>1
    <2> QED  BY <1>5, <1>9, <2>2, <2>3
  <1> QED  BY <1>7, <1>8, <1>9

(* A step before the loops goes further, or ends.                          *)
LEMMA HandlersGoOn ==
    ASSUME TypeOK, Shaped, NEW p \in Process,
           \/ GetBooking(p) \/ SetBooking(p) \/ GetRoom(p) \/ SetRoom(p)
           \/ AskSlot(p) \/ AskEmpty(p) \/ InsertBooking(p) \/ WriteBooking(p)
           \/ WriteRoom(p) \/ DeleteRoom(p) \/ BookingWritten(p) \/ RoomWritten(p)
    PROVE  \/ task'[p] = Idle
           \/ /\ task[p].pc \notin Loops \cup {"idle"}
              /\ task'[p].pc \notin Loops \cup {"idle"}
              /\ BeforeLoop(task'[p].pc) < BeforeLoop(task[p].pc)
  <1> DEFINE k == task[p]
             Further == \/ task'[p] = Idle
                        \/ /\ task[p].pc \notin Loops \cup {"idle"}
                           /\ task'[p].pc \notin Loops \cup {"idle"}
                           /\ BeforeLoop(task'[p].pc) < BeforeLoop(task[p].pc)
  <1> SUFFICES Further
    OBVIOUS
  <1>0. k \in Task /\ HasShape(k) /\ task \in [Process -> Task]
    BY DEF TypeOK, Shaped
  <1>1. ASSUME NEW j, task' = [task EXCEPT ![p] = j] PROVE task'[p] = j
    BY <1>0, <1>1
  <1>2. ASSUME NEW row, WithBooking(p, row), k.pc \in {"getBooking", "setBooking"}
        PROVE  Further
    <2> DEFINE i == [k EXCEPT !.row = row]
               j == [i EXCEPT !.pc = BookingThen(i)]
    <2>1. task'[p] = IF BookingPasses(i) THEN j ELSE Idle
      BY <1>0, <1>2 DEF WithBooking
    <2>2. j.pc = BookingThen(i)
      BY <1>0 DEF Task
    <2> HIDE DEF i, j
    <2>3. j.pc \in {"write", "getRoom", "askSlot"}
      BY <2>2 DEF BookingThen
    <2> QED  BY <1>2, <2>1, <2>3 DEF BeforeLoop, Loops
  <1>3. ASSUME NEW state, WithRoom(p, state), k.pc \in {"getRoom", "setRoom"}
        PROVE  Further
    <2>1. k.op \in {"create", "update", "updateRoom", "removeRoom"}
      BY <1>0, <1>3, StepsOfHandlers
    <2>2. RoomThen(k) \in {"askSlot", "askEmpty", "write"}
      BY <2>1 DEF RoomThen
    <2>3. task'[p].pc = RoomThen(k) \/ task'[p] = Idle
      BY <1>0, <1>3 DEF WithRoom, Goto, Done, Task
    <2> QED  BY <1>3, <2>2, <2>3 DEF BeforeLoop, Loops
  <1>4. ASSUME NEW pc, Goto(p, pc)
        PROVE  task'[p].pc = pc
    BY <1>0, <1>4 DEF Goto, Task
  <1>5. Done(p) => task'[p] = Idle
    BY <1>0 DEF Done
  <1>6. CASE GetBooking(p)
    <2>1. k.pc = "getBooking"
      BY <1>6 DEF GetBooking
    <2>2. ASSUME task' = [task EXCEPT ![p].pc = "setBooking", ![p].row = rows[k.id]]
          PROVE  task'[p].pc = "setBooking"
      BY <1>0, <2>2 DEF Task
    <2>3. ASSUME task'[p].pc = "setBooking" PROVE Further
      BY <2>1, <2>3 DEF BeforeLoop, Loops
    <2> QED  BY <1>2, <1>5, <1>6, <2>1, <2>2, <2>3 DEF GetBooking
  <1>7. CASE SetBooking(p)
    BY <1>2, <1>7 DEF SetBooking
  <1>8. CASE GetRoom(p)
    <2>1. k.pc = "getRoom"
      BY <1>8 DEF GetRoom
    <2>2. ASSUME task' = [task EXCEPT ![p].pc = "setRoom",
                                      ![p].seen = room[RoomAsked(k)]]
          PROVE  task'[p].pc = "setRoom"
      BY <1>0, <2>2 DEF Task
    <2>3. ASSUME task'[p].pc = "setRoom" PROVE Further
      BY <2>1, <2>3 DEF BeforeLoop, Loops
    <2> QED  BY <1>3, <1>5, <1>8, <2>1, <2>2, <2>3 DEF GetRoom
  <1>9. CASE SetRoom(p)
    BY <1>3, <1>9 DEF SetRoom
  <1>10. CASE AskSlot(p) \/ AskEmpty(p)
    <2>1. k.pc \in {"askSlot", "askEmpty"} /\ (Goto(p, "write") \/ Done(p))
      BY <1>10 DEF AskSlot, AskEmpty
    <2>2. task'[p].pc = "write" \/ task'[p] = Idle
      BY <1>4, <1>5, <2>1
    <2> QED  BY <2>1, <2>2 DEF BeforeLoop, Loops
  <1>11. CASE InsertBooking(p) \/ WriteBooking(p) \/ WriteRoom(p) \/ DeleteRoom(p)
    <2>1. k.pc = "write"
      BY <1>11 DEF InsertBooking, WriteBooking, WriteRoom, DeleteRoom
    <2>2. task'[p].pc = "written" \/ task'[p] = Idle
      <3>1. CASE InsertBooking(p)
        BY <1>0, <1>5, <3>1 DEF InsertBooking, Task
      <3>2. CASE WriteBooking(p)
        BY <1>0, <1>5, <3>2 DEF WriteBooking, Task
      <3>3. CASE WriteRoom(p) \/ DeleteRoom(p)
        BY <1>4, <1>5, <3>3 DEF WriteRoom, DeleteRoom
      <3> QED  BY <1>11, <3>1, <3>2, <3>3
    <2> QED  BY <2>1, <2>2 DEF BeforeLoop, Loops
  <1>12. CASE BookingWritten(p) \/ RoomWritten(p)
    <2>1. k.pc = "written"
      BY <1>12 DEF BookingWritten, RoomWritten
    <2>2. \A listener : Listen(p, listener, k) => task'[p].pc = "collect"
      BY <1>0 DEF Listen, Idle
    <2>3. task'[p].pc = "collect" \/ task'[p] = Idle
      BY <1>5, <1>12, <2>2 DEF BookingWritten, RoomWritten
    <2> QED  BY <2>1, <2>3 DEF BeforeLoop, Loops
  <1> QED  BY <1>6, <1>7, <1>8, <1>9, <1>10, <1>11, <1>12

(* A round of a loop leaves fewer rounds.                                  *)
LEMMA LoopsGoOn ==
    ASSUME IsFiniteSet(Booking), TypeOK, Shaped, NEW p \in Process,
           \/ RejectOne(p) \/ RejectedOne(p) \/ PendAll(p) \/ PendedAll(p)
           \/ DeleteOne(p) \/ DeletedOne(p)
    PROVE  \/ task'[p] = Idle
           \/ /\ task[p].pc \in Loops /\ task'[p].pc \in Loops
              /\ Rounds(task'[p]) < Rounds(task[p])
  <1> DEFINE k == task[p]
             Fewer == \/ task'[p] = Idle
                      \/ /\ task[p].pc \in Loops /\ task'[p].pc \in Loops
                         /\ Rounds(task'[p]) < Rounds(task[p])
  <1> SUFFICES Fewer
    OBVIOUS
  <1>0. k \in Task /\ HasShape(k) /\ task \in [Process -> Task]
    BY DEF TypeOK, Shaped
  <1>1. /\ IsFiniteSet(k.todo) /\ IsFiniteSet(k.done)
        /\ Cardinality(k.todo) \in Nat /\ Cardinality(k.done) \in Nat
    <2>1. /\ Cardinality(k.todo) \in 0..Cardinality(Booking)
          /\ Cardinality(k.done) \in 0..Cardinality(Booking)
          /\ Cardinality(Booking) \in Nat
      BY <1>0, FoundAreCounted
    <2> QED  BY <1>0, <2>1, FoundAreCounted
  <1>2. Done(p) => task'[p] = Idle
    BY <1>0 DEF Done
  <1>3. CASE RejectOne(p)
    <2>1. k.pc = "apply" /\ k.op # "pendRoom"
      BY <1>3 DEF RejectOne
    <2>2. ASSUME NEW b \in k.todo,
                 task' = [task EXCEPT ![p].pc = "applied", ![p].id = b,
                                      ![p].todo = @ \ {b}]
          PROVE  Fewer
      <3>1. /\ task'[p].pc = "applied" /\ task'[p].op = k.op
            /\ task'[p].todo = k.todo \ {b} /\ task'[p].done = k.done
        BY <1>0, <2>2 DEF Task
      <3>2. Cardinality(k.todo \ {b}) = Cardinality(k.todo) - 1
        BY <1>1, FS_RemoveElement
      <3>3. Rounds(task'[p]) = 2 * Cardinality(k.todo \ {b}) + Cardinality(k.done) + 3
        BY <2>1, <3>1 DEF Rounds
      <3>4. Rounds(k) = 2 * Cardinality(k.todo) + Cardinality(k.done) + 2
        BY <2>1 DEF Rounds
      <3>5. Rounds(task'[p]) < Rounds(k)
        BY <1>1, <3>2, <3>3, <3>4
      <3> QED  BY <2>1, <3>1, <3>5 DEF Loops
    <2> QED  BY <1>2, <1>3, <2>2 DEF RejectOne
  <1>4. CASE RejectedOne(p)
    <2>1. k.pc = "applied" /\ k.op \in {"rejectOverlap", "rejectExpired"}
      BY <1>4 DEF RejectedOne
    <2>2. ASSUME Goto(p, "apply")
          PROVE  Fewer
      <3>1. /\ task'[p].pc = "apply" /\ task'[p].todo = k.todo
            /\ task'[p].done = k.done
        BY <1>0, <2>2 DEF Goto, Task
      <3>2. Rounds(task'[p]) = 2 * Cardinality(k.todo) + Cardinality(k.done) + 2
        BY <3>1 DEF Rounds
      <3>3. Rounds(k) = 2 * Cardinality(k.todo) + Cardinality(k.done) + 3
        BY <2>1 DEF Rounds
      <3>4. Rounds(task'[p]) < Rounds(k)
        BY <1>1, <3>2, <3>3
      <3> QED  BY <2>1, <3>1, <3>4 DEF Loops
    <2> QED  BY <1>2, <1>4, <2>2 DEF RejectedOne
  <1>5. CASE PendAll(p)
    <2>1. k.pc = "apply" /\ task'[p].pc = "applied" /\ task'[p].op = "pendRoom"
      BY <1>0, <1>5 DEF PendAll, Goto, Task
    <2>2. Rounds(task'[p]) = 1
      BY <2>1 DEF Rounds
    <2>3. Rounds(k) = 2 * Cardinality(k.todo) + Cardinality(k.done) + 2
      BY <2>1 DEF Rounds
    <2>4. Rounds(task'[p]) < Rounds(k)
      BY <1>1, <2>2, <2>3
    <2> QED  BY <2>1, <2>4 DEF Loops
  <1>6. CASE PendedAll(p)
    BY <1>2, <1>6 DEF PendedAll
  <1>7. CASE DeleteOne(p)
    <2>1. k.pc = "apply"
      BY <1>7 DEF DeleteOne
    <2>2. PICK b \in k.todo :
             task' = [task EXCEPT ![p].todo = @ \ {b}, ![p].done = @ \cup {b}]
      BY <1>7 DEF DeleteOne
    <2>3. /\ task'[p].pc = "apply" /\ task'[p].todo = k.todo \ {b}
          /\ task'[p].done = k.done \cup {b}
      BY <1>0, <2>1, <2>2 DEF Task
    <2>4. Cardinality(k.todo \ {b}) = Cardinality(k.todo) - 1
      BY <1>1, <2>2, FS_RemoveElement
    <2>5. Cardinality(k.done \cup {b}) \in {Cardinality(k.done), Cardinality(k.done) + 1}
      BY <1>1, FS_AddElement
    <2>6. Rounds(task'[p]) = 2 * Cardinality(k.todo \ {b}) + Cardinality(k.done \cup {b}) + 2
      BY <2>3 DEF Rounds
    <2>7. Rounds(k) = 2 * Cardinality(k.todo) + Cardinality(k.done) + 2
      BY <2>1 DEF Rounds
    <2>8. Rounds(task'[p]) < Rounds(k)
      BY <1>1, <2>4, <2>5, <2>6, <2>7
    <2> QED  BY <2>1, <2>3, <2>8 DEF Loops
  <1>8. CASE DeletedOne(p)
    <2>1. k.pc = "apply"
      BY <1>8 DEF DeletedOne
    <2>2. ASSUME NEW b \in k.done, task' = [task EXCEPT ![p].done = @ \ {b}]
          PROVE  Fewer
      <3>1. /\ task'[p].pc = "apply" /\ task'[p].todo = k.todo
            /\ task'[p].done = k.done \ {b}
        BY <1>0, <2>1, <2>2 DEF Task
      <3>2. Cardinality(k.done \ {b}) = Cardinality(k.done) - 1
        BY <1>1, <2>2, FS_RemoveElement
      <3>3. Rounds(task'[p]) = 2 * Cardinality(k.todo) + Cardinality(k.done \ {b}) + 2
        BY <3>1 DEF Rounds
      <3>4. Rounds(k) = 2 * Cardinality(k.todo) + Cardinality(k.done) + 2
        BY <2>1 DEF Rounds
      <3>5. Rounds(task'[p]) < Rounds(k)
        BY <1>1, <3>2, <3>3, <3>4
      <3> QED  BY <2>1, <3>1, <3>5 DEF Loops
    <2> QED  BY <1>2, <1>8, <2>2 DEF DeletedOne
  <1> QED  BY <1>3, <1>4, <1>5, <1>6, <1>7, <1>8

LEMMA StepsCount ==
    ASSUME IsFiniteSet(Booking), TypeOK, Shaped, TypeOK', Shaped',
           NEW p \in Process, Advance(p)
    PROVE  StepsLeft(task'[p]) < StepsLeft(task[p])
  <1>1. /\ task[p] \in Task /\ HasShape(task[p])
        /\ task'[p] \in Task /\ HasShape(task'[p])
    BY DEF TypeOK, Shaped
  <1>2. /\ StepsLeft(task[p]) \in Nat
        /\ StepsLeft(task[p]) = 0 <=> task[p] = Idle
    BY <1>1, StepsLeftBounded
  <1>3. /\ StepsLeft(task'[p]) \in Nat /\ LongestLoop \in Nat
        /\ StepsLeft(task'[p]) = 0 <=> task'[p] = Idle
        /\ task'[p].pc \in Loops => StepsLeft(task'[p]) <= LongestLoop
    BY <1>1, StepsLeftBounded
  <1>4. task[p].pc # "idle" /\ task[p] # Idle
    <2>1. task[p].pc # "idle"
      BY DEF Advance, GetBooking, SetBooking, GetRoom, SetRoom, AskSlot, AskEmpty,
             InsertBooking, WriteBooking, WriteRoom, DeleteRoom, BookingWritten,
             RoomWritten, Collect, RejectOne, RejectedOne, PendAll, PendedAll,
             DeleteOne, DeletedOne
    <2> QED  BY <1>1, <2>1, StepsOfHandlers
  <1>5. CASE task'[p] = Idle
    BY <1>2, <1>3, <1>4, <1>5
  <1>6. CASE /\ task[p].pc \notin Loops \cup {"idle"}
             /\ task'[p].pc \notin Loops \cup {"idle"}
             /\ BeforeLoop(task'[p].pc) < BeforeLoop(task[p].pc)
    <2>1. /\ StepsLeft(task[p]) = LongestLoop + BeforeLoop(task[p].pc)
          /\ StepsLeft(task'[p]) = LongestLoop + BeforeLoop(task'[p].pc)
      BY <1>6 DEF StepsLeft
    <2>2. BeforeLoop(task[p].pc) \in Nat /\ BeforeLoop(task'[p].pc) \in Nat
      BY <1>1, <1>6 DEF Task, Loops, BeforeLoop
    <2> QED  BY <1>3, <1>6, <2>1, <2>2
  <1>7. CASE /\ task[p].pc \in Loops /\ task'[p].pc \in Loops
             /\ Rounds(task'[p]) < Rounds(task[p])
    BY <1>7 DEF StepsLeft, Loops
  <1>8. CASE Collect(p)
    <2>1. task[p].pc = "collect"
      BY <1>8 DEF Collect
    <2>2. StepsLeft(task[p]) = LongestLoop + 1
      BY <2>1 DEF StepsLeft, Loops, BeforeLoop
    <2>3. task'[p].pc = "apply" \/ task'[p] = Idle
      BY <1>1, <1>8 DEF Collect, Done, TypeOK, Task
    <2>4. CASE task'[p].pc = "apply"
      BY <1>3, <2>2, <2>4 DEF Loops
    <2> QED  BY <1>5, <2>3, <2>4
  <1> QED  BY <1>5, <1>6, <1>7, <1>8, HandlersGoOn, LoopsGoOn DEF Advance

(* Whatever other requests, listeners, jobs and restarts come between, a   *)
(* handler, a listener or a job is done after at most 3|Booking| + 11      *)
(* steps of its own: each of them, from the look into the cache to the     *)
(* last round of a loop, leaves fewer.  This is the variant behind         *)
(* PendingIsDecided and OldAreDeleted, for every number of bookings.       *)
THEOREM HandlersEnd ==
    ASSUME IsFiniteSet(Booking)
    PROVE  Spec => [][Finishing]_vars
  <1>1. ASSUME TypeOK, Shaped, TypeOK', Shaped', [Next]_vars
        PROVE  Finishing
    <2> SUFFICES ASSUME NEW p \in Process, task[p] # Idle
                 PROVE  /\ \/ task'[p] = task[p]
                           \/ StepsLeft(task'[p]) < StepsLeft(task[p])
                        /\ Advance(p) => StepsLeft(task'[p]) < StepsLeft(task[p])
      BY DEF Finishing
    <2>1. Advance(p) => StepsLeft(task'[p]) < StepsLeft(task[p])
      BY <1>1, StepsCount
    <2>2. ASSUME NEW q \in Process \ {p}, NEW k, task' = [task EXCEPT ![q] = k]
          PROVE  task'[p] = task[p]
      BY <1>1, <2>2 DEF TypeOK
    <2>3. ASSUME NEW q \in Process, Advance(q), q # p
          PROVE  task'[p] = task[p]
      BY <1>1, <2>2, <2>3, TasksMove
    <2>4. ASSUME NEW q \in Request, Call(q)
          PROVE  task'[p] = task[p]
      <3>1. q # p
        BY <2>4 DEF Call, CallCreate, CallUpdate, CallConfirm, CallCancel,
                    CallCreateRoom, CallUpdateRoom, CallRemoveRoom, Begin
      <3> QED  BY <1>1, <2>2, <2>4, <3>1, CallsBegin DEF Process
    <2>5. ASSUME NEW c \in Cron, CallCron(c)
          PROVE  task'[p] = task[p]
      <3>1. c # p
        BY <2>5 DEF CallCron
      <3> QED  BY <1>1, <2>2, <2>5, <3>1, JobsBegin DEF Process
    <2>6. CASE Crash
      <3>1. task'[p] = Idle
        BY <2>6 DEF Crash
      <3>2. task[p] \in Task /\ HasShape(task[p]) /\ Idle \in Task /\ HasShape(Idle)
        BY <1>1, IdleIsTask DEF TypeOK, Shaped
      <3>3. StepsLeft(task[p]) \in Nat /\ StepsLeft(task[p]) # 0
        BY <3>2, StepsLeftBounded
      <3>4. StepsLeft(Idle) = 0
        BY <3>2, StepsLeftBounded
      <3> QED  BY <2>1, <3>1, <3>3, <3>4
    <2>7. CASE Evict \/ Tick \/ UNCHANGED vars
      BY <2>7, <2>1 DEF Evict, Tick, vars
    <2> QED  BY <1>1, <2>1, <2>3, <2>4, <2>5, <2>6, <2>7 DEF Next
  <1>2. TypeOK /\ Shaped /\ TypeOK' /\ Shaped' /\ [Next]_vars => [Finishing]_vars
    BY <1>1
  <1> QED  BY <1>2, TypeCorrect, PTL DEF Spec

(* And there is never more than that ahead of a process: who is not idle   *)
(* has a step left, and the longest way leads from a cached booking        *)
(* through a loop over every booking there is.                             *)
THEOREM HandlersAreBounded ==
    ASSUME IsFiniteSet(Booking)
    PROVE  Spec => [](\A p \in Process :
                        /\ StepsLeft(task[p]) \in 0..(3 * Cardinality(Booking) + 11)
                        /\ StepsLeft(task[p]) = 0 <=> task[p] = Idle)
  <1>1. TypeOK /\ Shaped =>
           \A p \in Process :
              /\ StepsLeft(task[p]) \in 0..(3 * Cardinality(Booking) + 11)
              /\ StepsLeft(task[p]) = 0 <=> task[p] = Idle
    <2>1. Cardinality(Booking) \in Nat
      BY FS_CardinalityType
    <2>2. LongestLoop + 8 = 3 * Cardinality(Booking) + 11
      BY <2>1 DEF LongestLoop
    <2> QED  BY <2>2, StepsLeftBounded DEF TypeOK, Shaped
  <1> QED  BY <1>1, TypeCorrect, PTL

=============================================================================
