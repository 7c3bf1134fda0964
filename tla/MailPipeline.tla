---------------------------- MODULE MailPipeline ----------------------------
(***************************************************************************)
(* The way of a mail: the event in the booking server, a message over TCP  *)
(* to the mail service, a job in a Bull queue (Redis), the processor, the  *)
(* SMTP transport.  The mail service may crash at any moment; Redis keeps  *)
(* the queue.  A job whose worker died is found to have stalled and is put *)
(* back, MaxStalls times.                                                  *)
(***************************************************************************)
EXTENDS Naturals, Sequences, FiniteSets

CONSTANTS
    Mail,       \* the mails, each asked for once
    MaxStalls,  \* how often Bull puts a stalled job back: 1 by default
    MaxFaults,  \* bounds the crashes and the sends that fail
    None        \* the processor is free

ASSUME PipelineAssumption ==
    /\ MaxStalls \in Nat
    /\ MaxFaults \in Nat
    /\ None \notin Mail

VARIABLES
    asked,    \* the mails in the order in which handlers asked for them
    wire,     \* messages sent over TCP that the mail service has not read
    adding,   \* messages whose handler awaits queue.add
    queue,    \* Bull's waiting jobs
    active,   \* the job the processor works on
    handled,  \* the transport has answered for the active job
    orphans,  \* active jobs whose worker died
    stalls,   \* how often each job was put back
    outbox,   \* what the transport accepted, in order
    up,       \* the mail service runs
    faults

inService == <<wire, adding, active, handled, up>>
inRedis == <<queue, orphans, stalls>>
vars == <<asked, inService, inRedis, outbox, faults>>

Elements(s) == {s[i] : i \in 1..Len(s)}
Copies(s, m) == Cardinality({i \in 1..Len(s) : s[i] = m})

TypeOK ==
    /\ asked \in Seq(Mail)
    /\ wire \in Seq(Mail)
    /\ adding \in Seq(Mail)
    /\ queue \in Seq(Mail)
    /\ active \in Mail \cup {None}
    /\ handled \in BOOLEAN
    /\ orphans \subseteq Mail
    /\ stalls \in [Mail -> 0..MaxStalls]
    /\ outbox \in Seq(Mail)
    /\ up \in BOOLEAN
    /\ faults \in 0..MaxFaults

Init ==
    /\ asked = <<>>
    /\ wire = <<>>
    /\ adding = <<>>
    /\ queue = <<>>
    /\ active = None
    /\ handled = FALSE
    /\ orphans = {}
    /\ stalls = [m \in Mail |-> 0]
    /\ outbox = <<>>
    /\ up = TRUE
    /\ faults = 0

-----------------------------------------------------------------------------
(* The booking server                                                      *)

(* The listener hands the event to ClientProxy.emit, which returns an      *)
(* observable that nobody subscribes to: without a connection the message  *)
(* is gone and no error reaches the catch.                                 *)
Emit(m) ==
    /\ m \notin Elements(asked)
    /\ asked' = Append(asked, m)
    /\ wire' = IF up THEN Append(wire, m) ELSE wire
    /\ UNCHANGED <<adding, queue, active, handled, orphans, stalls, outbox,
                   up, faults>>

-----------------------------------------------------------------------------
(* The mail service                                                        *)

(* handleUserCreated is called and awaits mailQueue.add; the next message  *)
(* does not wait for it.                                                   *)
Receive ==
    /\ up
    /\ wire # <<>>
    /\ adding' = Append(adding, Head(wire))
    /\ wire' = Tail(wire)
    /\ UNCHANGED <<asked, inRedis, active, handled, outbox, up, faults>>

Added ==
    /\ up
    /\ adding # <<>>
    /\ queue' = Append(queue, Head(adding))
    /\ adding' = Tail(adding)
    /\ UNCHANGED <<asked, wire, active, handled, orphans, stalls, outbox, up,
                   faults>>

(* A mutant: the newest job is taken first.                                *)
TakeNewest ==
    /\ up
    /\ active = None
    /\ queue # <<>>
    /\ active' = queue[Len(queue)]
    /\ queue' = SubSeq(queue, 1, Len(queue) - 1)
    /\ UNCHANGED <<asked, wire, adding, handled, orphans, stalls, outbox, up,
                   faults>>

(* A mutant: jobs are taken when at least two wait.                        *)
TakeOfMany ==
    /\ up
    /\ active = None
    /\ Len(queue) > 1
    /\ active' = Head(queue)
    /\ queue' = Tail(queue)
    /\ UNCHANGED <<asked, wire, adding, handled, orphans, stalls, outbox, up,
                   faults>>

(* handleSendMail is called, one job at a time.                            *)
Take ==
    /\ up
    /\ active = None
    /\ queue # <<>>
    /\ active' = Head(queue)
    /\ queue' = Tail(queue)
    /\ UNCHANGED <<asked, wire, adding, handled, orphans, stalls, outbox, up,
                   faults>>

(* sendToMail: the transport accepts the mail, or throws, which is logged  *)
(* and forgotten.                                                          *)
Send ==
    /\ active # None
    /\ ~ handled
    /\ outbox' = Append(outbox, active)
    /\ handled' = TRUE
    /\ UNCHANGED <<asked, wire, adding, active, inRedis, up, faults>>

SendFails ==
    /\ active # None
    /\ ~ handled
    /\ faults < MaxFaults
    /\ faults' = faults + 1
    /\ handled' = TRUE
    /\ UNCHANGED <<asked, wire, adding, active, inRedis, outbox, up>>

(* The processor returns and Bull counts the job as completed, whatever    *)
(* the transport said.                                                     *)
Complete ==
    /\ active # None
    /\ handled
    /\ active' = None
    /\ handled' = FALSE
    /\ UNCHANGED <<asked, wire, adding, inRedis, outbox, up, faults>>

-----------------------------------------------------------------------------
(* Crash and restart of the mail service, and what Bull makes of them      *)

(* What was read or was still in the socket is gone, unless Redis had been *)
(* asked to add it; the active job is left without a worker.               *)
Crash ==
    /\ up
    /\ faults < MaxFaults
    /\ faults' = faults + 1
    /\ up' = FALSE
    /\ wire' = <<>>
    /\ adding' = <<>>
    /\ \E n \in 0..Len(adding) : queue' = queue \o SubSeq(adding, 1, n)
    /\ orphans' = orphans \cup ({active} \ {None})
    /\ active' = None
    /\ handled' = FALSE
    /\ UNCHANGED <<asked, stalls, outbox>>

Restart ==
    /\ ~ up
    /\ up' = TRUE
    /\ UNCHANGED <<asked, wire, adding, active, handled, inRedis, outbox,
                   faults>>

(* A mutant: stalled jobs are put back without being counted.              *)
PutBackUncounted(m) ==
    /\ up
    /\ m \in orphans
    /\ orphans' = orphans \ {m}
    /\ queue' = <<m>> \o queue
    /\ UNCHANGED <<asked, inService, stalls, outbox, faults>>

(* A mutant: there is no limit.                                            *)
PutBackAlways(m) ==
    /\ up
    /\ m \in orphans
    /\ orphans' = orphans \ {m}
    /\ stalls' = [stalls EXCEPT ![m] = @ + 1]
    /\ queue' = <<m>> \o queue
    /\ UNCHANGED <<asked, inService, outbox, faults>>

(* The check for stalled jobs puts a job back in front of the others, or,  *)
(* when that was done often enough, counts it as failed.                   *)
PutBack(m) ==
    /\ up
    /\ m \in orphans
    /\ stalls[m] < MaxStalls
    /\ orphans' = orphans \ {m}
    /\ stalls' = [stalls EXCEPT ![m] = @ + 1]
    /\ queue' = <<m>> \o queue
    /\ UNCHANGED <<asked, inService, outbox, faults>>

(* A mutant: nobody gives a stalled job up.                                *)
GiveUpNever(m) == FALSE /\ UNCHANGED vars

GiveUp(m) ==
    /\ up
    /\ m \in orphans
    /\ stalls[m] = MaxStalls
    /\ orphans' = orphans \ {m}
    /\ UNCHANGED <<asked, inService, queue, stalls, outbox, faults>>

Service == Receive \/ Added \/ Take \/ Send \/ Complete
StalledCheck(m) == PutBack(m) \/ GiveUp(m)

Next ==
    \/ \E m \in Mail : Emit(m) \/ StalledCheck(m)
    \/ Service \/ SendFails \/ Crash \/ Restart

Spec == Init /\ [][Next]_vars

(* The mail service makes progress while it runs, it is started again when *)
(* it died, and the transport answers.  Nobody has to ask for a mail and   *)
(* no fault has to happen.                                                 *)
Fairness ==
    /\ WF_vars(Receive)
    /\ WF_vars(Added)
    /\ WF_vars(Take)
    /\ WF_vars(Send \/ SendFails)
    /\ WF_vars(Complete)
    /\ WF_vars(Restart)
    /\ \A m \in Mail : WF_vars(StalledCheck(m))

FairSpec == Spec /\ Fairness

-----------------------------------------------------------------------------
(* What became of a mail                                                   *)

Unsent(m) ==
    Copies(wire, m) + Copies(adding, m) + Copies(queue, m)
        + (IF active = m /\ ~ handled THEN 1 ELSE 0)

Fate(m) ==
    CASE m \notin Elements(asked) -> "none"
      [] m \in Elements(outbox)   -> "delivered"
      [] OTHER -> IF Unsent(m) > 0 \/ m \in orphans \cup {active}
                  THEN "asked" ELSE "lost"

Promise == INSTANCE Mailbox WITH fate <- [m \in Mail |-> Fate(m)]

(* Whatever crashes, the copies of a mail that were sent and those that are *)
(* still to be sent are at most one more than the times its job was put    *)
(* back: a reader gets a mail again only for a worker that died.           *)
CopiesNeedStalls ==
    \A m \in Mail :
        Copies(outbox, m) + Unsent(m)
            <= (IF m \in Elements(asked) THEN 1 + stalls[m] ELSE 0)

(* As long as nothing fails mails leave in the order in which they were    *)
(* asked for, each once: the last link a user asked for arrives last.      *)
CleanRunIsFifo ==
    faults = 0 =>
        /\ Len(outbox) <= Len(asked)
        /\ outbox = SubSeq(asked, 1, Len(outbox))

(* As long as nothing fails each mail that is asked for is sent.           *)
CleanRunDelivers ==
    \A m \in Mail :
        m \in Elements(asked) ~> (m \in Elements(outbox) \/ faults > 0)

(* The pipeline keeps the promise of Mailbox: it sends only what was asked *)
(* for, does not send what it lost, and leaves no mail under way for good. *)
KeepsPromise == Promise!Spec

=============================================================================
