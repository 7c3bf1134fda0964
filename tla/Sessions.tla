------------------------------ MODULE Sessions ------------------------------
(***************************************************************************)
(* Accounts, their sessions and the links that set a password: login,      *)
(* logout, refresh, forgotten password, reset, and the creation of a user  *)
(* by an administrator.  A row of User keeps one hash of a refresh token   *)
(* and one of a link; the tokens themselves are known to clients and to    *)
(* the readers of mails only.  Handlers are interleaved at every await.    *)
(*                                                                         *)
(* A token is a JWT over the id, the e-mail and the second in which it was *)
(* signed, so that it is named here by that second: two tokens of a user   *)
(* signed in the same second are the same string.                          *)
(***************************************************************************)
EXTENDS Naturals, FiniteSets

CONSTANTS
    User,        \* the e-mails, each with the user that has or gets it
    Inactive,    \* users whose row says isActive = false
    Request,     \* request processes: bounds how many overlap
    MaxTime,     \* bounds the clock, in seconds
    RefreshLife, \* JWT_EXPIRES_IN_REFRESHTOKEN
    LinkLife,    \* JWT_EXPIRES_RESET_PASSWORD
    MaxCrashes,  \* bounds the restarts of the server
    None         \* a null column

Time == 0..MaxTime
Link == User \X Time    \* a mail with a link, told apart by the link

ASSUME SessionsAssumption ==
    /\ Inactive \subseteq User
    /\ MaxTime \in Nat
    /\ RefreshLife \in Nat \ {0}
    /\ LinkLife \in Nat \ {0}
    /\ MaxCrashes \in Nat
    /\ None \notin Nat \cup User

VARIABLES
    account,  \* the User table
    now,      \* the clock
    held,     \* the refresh tokens that were answered to clients of a user
    entered,  \* users who were answered an access token
    fate,     \* what became of the mail with each link
    task,     \* what each process is doing
    crashes,  \* how often the server restarted
    dead,     \* history: refresh tokens that a request has put to an end
    spent     \* history: links that a request has put to an end

history == <<dead, spent>>
clients == <<held, entered>>
vars == <<account, now, clients, fate, task, crashes, history>>

Post == INSTANCE Mailbox WITH Mail <- Link

NoAccount ==
    [live |-> FALSE, password |-> "unknown", refresh |-> None, link |-> None]

(* The password is the random one of createUser, which nobody was told, or *)
(* one that the user has chosen.                                           *)
Account ==
    [live     : BOOLEAN,
     password : {"unknown", "chosen"},
     refresh  : Time \cup {None},
     link     : Time \cup {None}]

Endpoints == {"login", "logout", "refresh", "forgot", "reset", "create"}

Idle == [op |-> "idle", pc |-> "idle", user |-> None, token |-> None,
         remember |-> FALSE, alone |-> TRUE]

Task == [op       : Endpoints \cup {"idle"},
         pc       : {"idle", "getUser", "askRole", "insert", "sign", "write",
                     "answer"},
         user     : User \cup {None},
         token    : Time \cup {None},  \* the one presented, then the one signed
         remember : BOOLEAN,           \* isRemember
         alone    : BOOLEAN]           \* history: no request of the user
                                       \* overlapped with this one
TypeOK ==
    /\ account \in [User -> Account]
    /\ now \in Time
    /\ held \in [User -> SUBSET Time]
    /\ entered \subseteq User
    /\ Post!TypeOK
    /\ task \in [Request -> Task]
    /\ crashes \in 0..MaxCrashes
    /\ dead \in [User -> SUBSET Time]
    /\ spent \in [User -> SUBSET Time]

(* The seed inserts users with a password that they know.                  *)
Init ==
    /\ account \in [User ->
                      {NoAccount,
                       [NoAccount EXCEPT !.live = TRUE, !.password = "chosen"]}]
    /\ now = 0
    /\ held = [u \in User |-> {}]
    /\ entered = {}
    /\ Post!Init
    /\ task = [p \in Request |-> Idle]
    /\ crashes = 0
    /\ dead = [u \in User |-> {}]
    /\ spent = [u \in User |-> {}]

-----------------------------------------------------------------------------
(* Tokens                                                                  *)

WritesRefresh(k) ==
    k.op \in {"logout", "refresh"} \/ (k.op = "login" /\ k.remember)

WritesLink(k) == k.op \in {"forgot", "reset", "create"}

(* The links of a user that were handed to the mail pipeline.              *)
Mailed(u) == {t \in Time : fate[<<u, t>>] # "none"}

(* The event that asks for a mail.  Nothing here depends on whether a mail *)
(* that does not arrive was lost or is late: it stays "asked" for good.    *)
AskMail(u, t) == Post!Ask(<<u, t>>) /\ fate'[<<u, t>>] # "lost"

(* verifyAsync: the token is still valid.                                  *)
Valid(t, life) == now < t + life

(* What a handler goes on with when the row of the user was answered.      *)
Passes(k, row) ==
    CASE k.op = "login"   -> /\ row.live
                             /\ row.password = "chosen"
                             /\ k.user \notin Inactive
      [] k.op = "refresh" -> row.live /\ row.refresh = k.token
      [] k.op = "reset"   -> row.live /\ row.link = k.token
      [] k.op = "create"  -> ~ row.live
      [] OTHER            -> row.live

AfterUser(k) ==
    CASE k.op = "create" -> "askRole"
      [] k.op \in {"logout", "reset"} -> "write"
      [] k.op = "login" /\ ~ k.remember -> "answer"
      [] OTHER -> "sign"

(* A mutant: the reset keeps the link.                                     *)
WrittenKeepingLink(k, row) ==
    CASE k.op = "logout" -> [row EXCEPT !.refresh = None]
      [] k.op = "reset"  -> [row EXCEPT !.password = "chosen"]
      [] k.op \in {"login", "refresh"} -> [row EXCEPT !.refresh = k.token]
      [] OTHER -> [row EXCEPT !.link = k.token]

(* A mutant: logout leaves the hash of the refresh token where it is.      *)
WrittenKeepingSession(k, row) ==
    CASE k.op = "logout" -> row
      [] k.op = "reset"  -> [row EXCEPT !.password = "chosen", !.link = None]
      [] k.op \in {"login", "refresh"} -> [row EXCEPT !.refresh = k.token]
      [] OTHER -> [row EXCEPT !.link = k.token]

(* A mutant: the reset clears the link and leaves the password.            *)
WrittenWithoutPassword(k, row) ==
    CASE k.op = "logout" -> [row EXCEPT !.refresh = None]
      [] k.op = "reset"  -> [row EXCEPT !.link = None]
      [] k.op \in {"login", "refresh"} -> [row EXCEPT !.refresh = k.token]
      [] OTHER -> [row EXCEPT !.link = k.token]

(* The update of the row.                                                  *)
Written(k, row) ==
    CASE k.op = "logout" -> [row EXCEPT !.refresh = None]
      [] k.op = "reset"  -> [row EXCEPT !.password = "chosen", !.link = None]
      [] k.op \in {"login", "refresh"} -> [row EXCEPT !.refresh = k.token]
      [] OTHER -> [row EXCEPT !.link = k.token]

(* A mutant: every login answers a refresh token, remembered or not.       *)
HandsOutUnasked(k) == k.op \in {"login", "refresh"}

(* A mutant: the refresh answers the access token only.                    *)
HandsOutAtLogin(k) == k.op = "login" /\ k.remember

(* The answer has a refresh token.                                         *)
HandsOut(k) == k.op = "refresh" \/ (k.op = "login" /\ k.remember)

(* A mutant: a user who was mailed a link is not mailed another one.       *)
MailsLinkOnce(k) == k.op \in {"forgot", "create"} /\ Mailed(k.user) = {}

(* The handler ends with the event that asks for a mail.                   *)
MailsLink(k) == k.op \in {"forgot", "create"}

-----------------------------------------------------------------------------
(* Calls.  A request that overlaps with another one of the same user is    *)
(* marked, and so is the other.                                            *)
Start(p, u, k) ==
    LET others == {q \in Request \ {p} : task[q].user = u}
    IN  /\ task[p] = Idle
        /\ task' = [q \in Request |->
                      IF q = p
                      THEN [k EXCEPT !.pc = "getUser", !.user = u,
                                     !.alone = others = {}]
                      ELSE IF q \in others
                      THEN [task[q] EXCEPT !.alone = FALSE]
                      ELSE task[q]]
        /\ UNCHANGED <<account, now, clients, fate, crashes, history>>

CallLogin(p, u) ==
    \E r \in BOOLEAN : Start(p, u, [Idle EXCEPT !.op = "login", !.remember = r])

(* The AuthGuard asks for an access token and, like every handler here but *)
(* createUser, for a user with its e-mail.                                 *)
CallLogout(p, u) ==
    /\ u \in entered
    /\ Start(p, u, [Idle EXCEPT !.op = "logout"])

CallRefresh(p, u) ==
    \E t \in held[u] :
        /\ Valid(t, RefreshLife)
        /\ Start(p, u, [Idle EXCEPT !.op = "refresh", !.token = t])

CallForgot(p, u) == Start(p, u, [Idle EXCEPT !.op = "forgot"])

(* A reader of a mail follows its link.                                    *)
CallReset(p, u) ==
    \E t \in Time :
        /\ fate[<<u, t>>] = "delivered"
        /\ Valid(t, LinkLife)
        /\ Start(p, u, [Idle EXCEPT !.op = "reset", !.token = t])

CallCreate(p, u) == Start(p, u, [Idle EXCEPT !.op = "create"])

-----------------------------------------------------------------------------
(* Handlers                                                                *)

Goto(p, pc) ==
    task' = [task EXCEPT ![p].pc = pc]

End(p) == task' = [task EXCEPT ![p] = Idle]

GetUser(p) ==
    LET k == task[p]
    IN  /\ k.pc = "getUser"
        /\ IF Passes(k, account[k.user]) THEN Goto(p, AfterUser(k)) ELSE End(p)
        /\ UNCHANGED <<account, now, clients, fate, crashes, history>>

(* checkRoleExists: the roles are not a part of this module.               *)
AskRole(p) ==
    /\ task[p].pc = "askRole"
    /\ Goto(p, "insert") \/ End(p)
    /\ UNCHANGED <<account, now, clients, fate, crashes, history>>

(* The insert throws if the e-mail is taken by now, or the role gone.      *)
Insert(p) ==
    LET u == task[p].user
    IN  /\ task[p].pc = "insert"
        /\ \/ /\ ~ account[u].live
              /\ account' = [account EXCEPT ![u] = [NoAccount EXCEPT !.live = TRUE]]
              /\ Goto(p, "sign")
           \/ /\ End(p)
              /\ UNCHANGED account
        /\ UNCHANGED <<now, clients, fate, crashes, history>>

(* From now on the token signed in this second exists anew.                *)
Sign(p) ==
    LET k == task[p]
    IN  /\ k.pc = "sign"
        /\ task' = [task EXCEPT ![p].pc = "write", ![p].token = now]
        /\ IF WritesRefresh(k)
           THEN /\ dead' = [dead EXCEPT ![k.user] = @ \ {now}]
                /\ UNCHANGED spent
           ELSE /\ spent' = [spent EXCEPT ![k.user] = @ \ {now}]
                /\ UNCHANGED dead
        /\ UNCHANGED <<account, now, clients, fate, crashes>>

Write(p) ==
    LET k == task[p]
    IN  /\ k.pc = "write"
        /\ account' = [account EXCEPT ![k.user] = Written(k, @)]
        /\ Goto(p, "answer")
        /\ UNCHANGED <<now, clients, fate, crashes, history>>

(* What the end of a request that ran alone puts to an end: the tokens of  *)
(* its kind that clients have, but for the one it hands out.               *)
Ended(p) ==
    LET k == task[p]
        u == k.user
        new == IF k.op \in {"logout", "reset"} THEN {} ELSE {k.token}
    IN  /\ dead' = IF k.alone /\ WritesRefresh(k)
                   THEN [dead EXCEPT ![u] = @ \cup (held[u] \ new)] ELSE dead
        /\ spent' = IF k.alone /\ WritesLink(k)
                    THEN [spent EXCEPT ![u] = @ \cup (Mailed(u) \ new)] ELSE spent

(* The update was answered and the cache cleared: the handler answers the  *)
(* client, or emits the event that asks for the mail.                      *)
Answer(p) ==
    LET k == task[p]
    IN  /\ k.pc = "answer"
        /\ Ended(p)
        /\ held' = IF HandsOut(k)
                   THEN [held EXCEPT ![k.user] = @ \cup {k.token}] ELSE held
        /\ entered' = IF k.op \in {"login", "refresh"}
                      THEN entered \cup {k.user} ELSE entered
        /\ IF MailsLink(k) THEN AskMail(k.user, k.token) ELSE UNCHANGED fate
        /\ End(p)
        /\ UNCHANGED <<account, now, crashes>>

-----------------------------------------------------------------------------
(* The world                                                               *)

Tick ==
    /\ now < MaxTime
    /\ now' = now + 1
    /\ UNCHANGED <<account, clients, fate, task, crashes, history>>

MailArrives ==
    /\ \E m \in Link : Post!Deliver(m)
    /\ UNCHANGED <<account, now, clients, task, crashes, history>>

(* The server restarts: requests are gone, whatever they had written.      *)
Crash ==
    /\ crashes < MaxCrashes
    /\ \E p \in Request : task[p] # Idle
    /\ crashes' = crashes + 1
    /\ task' = [p \in Request |-> Idle]
    /\ UNCHANGED <<account, now, clients, fate, history>>

Call(p, u) ==
    \/ CallLogin(p, u)
    \/ CallLogout(p, u)
    \/ CallRefresh(p, u)
    \/ CallForgot(p, u)
    \/ CallReset(p, u)
    \/ CallCreate(p, u)

Advance(p) ==
    GetUser(p) \/ AskRole(p) \/ Insert(p) \/ Sign(p) \/ Write(p) \/ Answer(p)

Next ==
    \/ \E p \in Request, u \in User : Call(p, u)
    \/ \E p \in Request : Advance(p)
    \/ Tick \/ MailArrives \/ Crash

Spec == Init /\ [][Next]_vars

-----------------------------------------------------------------------------
(* Properties                                                              *)

(* After a logout, and after a login or a refresh that handed out another  *)
(* token, no refresh token that clients had before is the stored one ever  *)
(* again, whatever overlaps later; only a request that overlapped with the *)
(* one that ended them could bring one back.                               *)
DeadTokensStayDead == \A u \in User : account[u].refresh \notin dead[u]

(* A link sets a password once: after a reset, and after another link was  *)
(* mailed, no earlier link is accepted again, whatever overlaps later.     *)
SpentLinksStaySpent == \A u \in User : account[u].link \notin spent[u]

(* Two requests for a link may overwrite each other's, but the one the row *)
(* accepts is a link that was mailed, or is about to be: the user can use  *)
(* it.  A restart between the update and the event breaks this.            *)
LinkIsMailed ==
    crashes = 0 =>
        \A u \in User :
            \/ account[u].link \in Mailed(u) \cup {None}
            \/ \E p \in Request :
                  /\ task[p].user = u
                  /\ task[p].pc = "answer"
                  /\ task[p].op \in {"forgot", "create"}
                  /\ task[p].token = account[u].link

(* The refresh token that the row accepts is one that a client of the user *)
(* was answered, or is about to be: logins and refreshes that overlap end  *)
(* each other's sessions, but one of them goes on.                         *)
SessionIsHeld ==
    crashes = 0 =>
        \A u \in User :
            \/ account[u].refresh \in held[u] \cup {None}
            \/ \E p \in Request :
                  /\ task[p].user = u
                  /\ task[p].pc = "answer"
                  /\ task[p].op \in {"login", "refresh"}
                  /\ task[p].token = account[u].refresh

(* An account is entered with a password its user has chosen, or the row   *)
(* accepts a link to choose one, or its creation is about to store one.    *)
EveryAccountHasAWayIn ==
    crashes = 0 =>
        \A u \in User :
            account[u].live =>
                \/ account[u].password = "chosen"
                \/ account[u].link # None
                \/ \E p \in Request : /\ task[p].user = u
                                      /\ task[p].op = "create"
                                      /\ task[p].pc \in {"sign", "write"}

=============================================================================
