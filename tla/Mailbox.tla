------------------------------ MODULE Mailbox ------------------------------
(***************************************************************************)
(* What the handlers of the booking server may expect of a mail they ask   *)
(* for.  A handler never learns what became of it: the event is emitted    *)
(* after the answer of the database and nobody waits for a result.         *)
(* MailPipeline implements this; Sessions uses its actions for the mails   *)
(* with links.                                                             *)
(***************************************************************************)
CONSTANT Mail       \* identities of mails: those that read the same are one
VARIABLE fate       \* what became of each mail

Fates == {"none", "asked", "delivered", "lost"}

TypeOK == fate \in [Mail -> Fates]

Init == fate = [m \in Mail |-> "none"]

(* A mail is asked for: it is under way, or lost at once because nobody    *)
(* listens.  Another copy of a mail its reader has changes nothing.        *)
Ask(m) ==
    \E f \in {"asked", "lost"} :
        fate' = [fate EXCEPT ![m] = IF @ = "delivered" THEN @ ELSE f]

Deliver(m) ==
    /\ fate[m] = "asked"
    /\ fate' = [fate EXCEPT ![m] = "delivered"]

(* A fault may take several mails at once.                                 *)
Lose(S) ==
    /\ S # {}
    /\ \A m \in S : fate[m] = "asked"
    /\ fate' = [m \in Mail |-> IF m \in S THEN "lost" ELSE fate[m]]

Next ==
    \/ \E m \in Mail : Ask(m) \/ Deliver(m)
    \/ \E S \in SUBSET Mail : Lose(S)

(* No mail is under way for good.                                          *)
Settle(m) == Deliver(m) \/ \E S \in SUBSET Mail : m \in S /\ Lose(S)

Spec ==
    /\ Init
    /\ [][Next]_fate
    /\ \A m \in Mail : WF_fate(Settle(m))

=============================================================================
