---------------------------- MODULE BookingSerial ----------------------------
(***************************************************************************)
(* BookingService when one request or cron job is served at a time, its    *)
(* listener included, and nothing crashes: every handler then does what    *)
(* BookingLedger says, caches and all.                                     *)
(***************************************************************************)
EXTENDS BookingService

VARIABLE settled    \* the tables and mails when the last process finished

serialVars == <<vars, settled>>

Tables == [now |-> now, room |-> room, rows |-> rows, mail |-> mail]

SerialInit == Init /\ settled = Tables

SerialNext ==
    /\ \/ /\ Quiet(Process)
          /\ \/ \E p \in Request : Call(p)
             \/ \E c \in Cron : CallCron(c)
             \/ Tick
       \/ \E p \in Process : Advance(p)
       \/ Evict
    /\ settled' = IF Quiet(Process)' THEN Tables' ELSE settled

SerialSpec == SerialInit /\ [][SerialNext]_serialVars

(* Requests wait for each other, but the jobs run when their time comes.   *)
JobsNext ==
    /\ \/ Quiet(Request) /\ \E p \in Request : Call(p)
       \/ \E c \in Cron : CallCron(c)
       \/ \E p \in Process : Advance(p)
       \/ Evict
       \/ Tick
    /\ UNCHANGED settled

JobsSpec == SerialInit /\ [][JobsNext]_serialVars

-----------------------------------------------------------------------------
(* A handler happens when its process is done.                             *)
Ledger == INSTANCE BookingLedger WITH
    now  <- settled.now,
    room <- settled.room,
    rows <- settled.rows,
    mail <- settled.mail

(* Served one at a time, the handlers, listeners and jobs take the steps   *)
(* of BookingLedger: no step of theirs, and no cached row or room, makes   *)
(* them decide otherwise.                                                  *)
ImplementsLedger == Ledger!Spec

(* When nothing is under way an entry of either cache is the row it stands *)
(* for: every write dropped the entries it made stale.                     *)
CachesAreFresh ==
    Quiet(Process) =>
        /\ \A b \in Booking : bookingCache[b] \in {None, rows[b]}
        /\ \A r \in Room : roomCache[r] \in {None, room[r]}

(* With the jobs running beside the requests there is no double booking    *)
(* (NoDoubleBooking), and whenever no request is under way no pending      *)
(* booking clashes with an approved one, although a job may reject or      *)
(* delete a booking between a request's check and its write.               *)
ApprovedSlotIsClear ==
    Quiet(Request) =>
        \A a, b \in Booking :
            /\ rows[a].status = "approved" /\ rows[b].status = "pending"
            /\ rows[a].room = rows[b].room /\ rows[a].room \in Room
            => ~ Clash(rows[a], rows[b])

=============================================================================
