--------------------------- MODULE SessionsProofs ---------------------------
(***************************************************************************)
(* What Sessions guarantees for every set of users and requests, whatever  *)
(* the clock does and however long tokens and links last.                  *)
(***************************************************************************)
EXTENDS Sessions, TLAPS

(* The handlers that sign a token or a link of their own.                  *)
Signs(k) ==
    \/ k.op \in {"refresh", "forgot", "create"}
    \/ k.op = "login" /\ k.remember

(* What a handler holds at each of its steps.                              *)
HasShape(k) ==
    /\ k.pc = "idle" => k = Idle
    /\ k.op = "idle" => k = Idle
    /\ k.op # "idle" => k.user \in User
    /\ k.op \in {"refresh", "reset"} => k.token \in Time
    /\ k.op = "login" /\ ~ k.remember => k.token = None
    /\ k.pc \in {"askRole", "insert"} => k.op = "create"
    /\ k.pc = "sign" => Signs(k)
    /\ k.pc = "write" => Signs(k) \/ k.op \in {"logout", "reset"}
    /\ k.pc \in {"write", "answer"} /\ Signs(k) => k.token \in Time

Shaped == \A p \in Request : HasShape(task[p])

(* The same request, but that it may have been overlapped since.           *)
SameButAlone(j, k) ==
    /\ j.op = k.op /\ j.pc = k.pc /\ j.user = k.user
    /\ j.token = k.token /\ j.remember = k.remember
    /\ j.alone => k.alone

-----------------------------------------------------------------------------
LEMMA IdleIsTask == Idle \in Task /\ HasShape(Idle)
  BY DEF Idle, Task, HasShape, Signs

(* A step of one request that leaves it with a well-formed task.           *)
LEMMA OneTaskMoves ==
    ASSUME TypeOK, Shaped, NEW p \in Request, NEW k \in Task, HasShape(k),
           task' = [task EXCEPT ![p] = k]
    PROVE  task' \in [Request -> Task] /\ Shaped'
  BY DEF TypeOK, Shaped

(* A request starts with what it was sent, and marks those it overlaps.    *)
LEMMA StartMarks ==
    ASSUME TypeOK, Shaped, NEW p \in Request, NEW u \in User, NEW k \in Task,
           Start(p, u, k), k.op # "idle",
           k.op \in {"refresh", "reset"} => k.token \in Time,
           k.op = "login" => k.token = None
    PROVE  /\ task[p] = Idle
           /\ task' \in [Request -> Task]
           /\ Shaped'
           /\ task'[p].pc = "getUser" /\ task'[p].user = u
           /\ task'[p].alone => \A q \in Request \ {p} : task[q].user # u
           /\ \A q \in Request \ {p} :
                /\ SameButAlone(task'[q], task[q])
                /\ task'[q] = Idle <=> task[q] = Idle
                /\ task[q].user = u => ~ task'[q].alone
  <1> DEFINE others == {q \in Request \ {p} : task[q].user = u}
             new == [k EXCEPT !.pc = "getUser", !.user = u,
                              !.alone = (others = {})]
  <1>1. new \in Task /\ HasShape(new) /\ new.pc = "getUser" /\ new.user = u
    BY DEF Task, HasShape, Idle
  <1>2. new.alone <=> others = {}
    BY DEF Task
  <1>3. \A q \in Request : task[q] \in Task /\ HasShape(task[q])
    BY DEF TypeOK, Shaped
  <1> HIDE DEF new
  <1>4. /\ task' = [q \in Request |->
                      IF q = p THEN new
                      ELSE IF q \in others THEN [task[q] EXCEPT !.alone = FALSE]
                      ELSE task[q]]
        /\ task[p] = Idle
    BY DEF Start, new
  <1>5. ASSUME NEW q \in Request \ {p}
        PROVE  /\ task'[q] \in Task /\ HasShape(task'[q])
               /\ SameButAlone(task'[q], task[q])
               /\ task'[q] = Idle <=> task[q] = Idle
               /\ task[q].user = u => ~ task'[q].alone
    <2>1. CASE q \in others
      <3> DEFINE j == [task[q] EXCEPT !.alone = FALSE]
      <3>1. /\ j \in Task /\ SameButAlone(j, task[q]) /\ ~ j.alone
            /\ j.user = u
        BY <1>3, <2>1 DEF Task, SameButAlone
      <3>2. HasShape(j) /\ j # Idle /\ task[q] # Idle
        BY <1>3, <2>1, <3>1, SessionsAssumption DEF HasShape, Signs, SameButAlone, Idle, Task
      <3> QED  BY <1>4, <2>1, <3>1, <3>2
    <2>2. CASE q \notin others
      BY <1>3, <1>4, <2>2 DEF SameButAlone
    <2> QED  BY <2>1, <2>2
  <1> QED  BY <1>1, <1>2, <1>4, <1>5 DEF Shaped

(* Whatever the endpoint, a call does no more than that.                   *)
LEMMA CallsMark ==
    ASSUME TypeOK, Shaped, NEW p \in Request, NEW u \in User, Call(p, u)
    PROVE  /\ task[p] = Idle
           /\ task' \in [Request -> Task]
           /\ Shaped'
           /\ task'[p].pc = "getUser" /\ task'[p].user = u
           /\ task'[p].alone => \A q \in Request \ {p} : task[q].user # u
           /\ \A q \in Request \ {p} :
                /\ SameButAlone(task'[q], task[q])
                /\ task'[q] = Idle <=> task[q] = Idle
                /\ task[q].user = u => ~ task'[q].alone
           /\ UNCHANGED <<account, now, clients, fate, crashes, history>>
  <1>1. PICK k \in Task :
           /\ Start(p, u, k) /\ k.op # "idle"
           /\ k.op \in {"refresh", "reset"} => k.token \in Time
           /\ k.op = "login" => k.token = None
    <2>1. CASE CallLogin(p, u)
      <3>1. PICK r \in BOOLEAN : Start(p, u, [Idle EXCEPT !.op = "login", !.remember = r])
        BY <2>1 DEF CallLogin
      <3> DEFINE k == [Idle EXCEPT !.op = "login", !.remember = r]
      <3>2. /\ k \in Task /\ k.op # "idle"
            /\ k.op \in {"refresh", "reset"} => k.token \in Time
            /\ k.op = "login" => k.token = None
        BY DEF Idle, Task, Endpoints
      <3> HIDE DEF k
      <3>3. Start(p, u, k)
        BY <3>1 DEF k
      <3> QED  BY <3>2, <3>3
    <2>2. CASE CallLogout(p, u)
      <3> DEFINE k == [Idle EXCEPT !.op = "logout"]
      <3>2. /\ k \in Task /\ k.op # "idle"
            /\ k.op \in {"refresh", "reset"} => k.token \in Time
            /\ k.op = "login" => k.token = None
        BY DEF Idle, Task, Endpoints
      <3>3. Start(p, u, k)
        BY <2>2 DEF CallLogout
      <3> HIDE DEF k
      <3> QED  BY <3>2, <3>3
    <2>3. CASE CallRefresh(p, u)
      <3>1. PICK t \in Time : Start(p, u, [Idle EXCEPT !.op = "refresh", !.token = t])
        BY <2>3 DEF CallRefresh, TypeOK
      <3> DEFINE k == [Idle EXCEPT !.op = "refresh", !.token = t]
      <3>2. /\ k \in Task /\ k.op # "idle"
            /\ k.op \in {"refresh", "reset"} => k.token \in Time
            /\ k.op = "login" => k.token = None
        BY DEF Idle, Task, Endpoints
      <3> HIDE DEF k
      <3>3. Start(p, u, k)
        BY <3>1 DEF k
      <3> QED  BY <3>2, <3>3
    <2>4. CASE CallForgot(p, u)
      <3> DEFINE k == [Idle EXCEPT !.op = "forgot"]
      <3>2. /\ k \in Task /\ k.op # "idle"
            /\ k.op \in {"refresh", "reset"} => k.token \in Time
            /\ k.op = "login" => k.token = None
        BY DEF Idle, Task, Endpoints
      <3>3. Start(p, u, k)
        BY <2>4 DEF CallForgot
      <3> HIDE DEF k
      <3> QED  BY <3>2, <3>3
    <2>5. CASE CallReset(p, u)
      <3>1. PICK t \in Time : Start(p, u, [Idle EXCEPT !.op = "reset", !.token = t])
        BY <2>5 DEF CallReset
      <3> DEFINE k == [Idle EXCEPT !.op = "reset", !.token = t]
      <3>2. /\ k \in Task /\ k.op # "idle"
            /\ k.op \in {"refresh", "reset"} => k.token \in Time
            /\ k.op = "login" => k.token = None
        BY DEF Idle, Task, Endpoints
      <3> HIDE DEF k
      <3>3. Start(p, u, k)
        BY <3>1 DEF k
      <3> QED  BY <3>2, <3>3
    <2>6. CASE CallCreate(p, u)
      <3> DEFINE k == [Idle EXCEPT !.op = "create"]
      <3>2. /\ k \in Task /\ k.op # "idle"
            /\ k.op \in {"refresh", "reset"} => k.token \in Time
            /\ k.op = "login" => k.token = None
        BY DEF Idle, Task, Endpoints
      <3>3. Start(p, u, k)
        BY <2>6 DEF CallCreate
      <3> HIDE DEF k
      <3> QED  BY <3>2, <3>3
    <2> QED  BY <2>1, <2>2, <2>3, <2>4, <2>5, <2>6 DEF Call
  <1>2. UNCHANGED <<account, now, clients, fate, crashes, history>>
    BY <1>1 DEF Start
  <1> QED  BY <1>1, <1>2, StartMarks

-----------------------------------------------------------------------------
(* What a handler is at each of its steps.                                 *)
LEMMA StepsOfHandlers ==
    ASSUME NEW k \in Task, HasShape(k), k.pc # "idle"
    PROVE  /\ k.user \in User /\ k.op \in Endpoints /\ k # Idle
           /\ k.pc = "insert" => k.op = "create"
           /\ k.pc = "sign" => Signs(k)
           /\ k.pc = "write" => Signs(k) \/ k.op \in {"logout", "reset"}
           /\ k.pc \in {"write", "answer"} /\ Signs(k) => k.token \in Time
           /\ k.op = "reset" => k.token \in Time
  BY DEF HasShape, Task, Idle

(* What an update leaves in the row.                                       *)
LEMMA RowIsWritten ==
    ASSUME NEW k \in Task, NEW row \in Account,
           Signs(k) \/ k.op \in {"logout", "reset"},
           Signs(k) => k.token \in Time
    PROVE  /\ Written(k, row) \in Account
           /\ Written(k, row).live = row.live
           /\ Written(k, row).refresh =
                IF k.op = "logout" THEN None
                ELSE IF k.op \in {"login", "refresh"} THEN k.token
                ELSE row.refresh
           /\ Written(k, row).link =
                IF k.op = "reset" THEN None
                ELSE IF k.op \in {"forgot", "create"} THEN k.token
                ELSE row.link
           /\ Written(k, row).password =
                IF k.op = "reset" THEN "chosen" ELSE row.password
  <1>1. CASE k.op = "logout"
    BY <1>1 DEF Written, Account
  <1>4. CASE k.op = "reset"
    BY <1>4 DEF Written, Account
  <1>2. CASE k.op \in {"login", "refresh"}
    BY <1>2 DEF Written, Account, Signs
  <1>3. CASE k.op \in {"forgot", "create"}
    BY <1>3 DEF Written, Account, Signs
  <1> QED  BY <1>1, <1>2, <1>3, <1>4 DEF Signs

(* A mail that is asked for is no longer unasked for, nor is one before.   *)
LEMMA MailIsAsked ==
    ASSUME Post!TypeOK, NEW u \in User, NEW t \in Time, AskMail(u, t)
    PROVE  /\ Post!TypeOK'
           /\ \A m \in Link : fate[m] # "none" => fate'[m] # "none"
           /\ fate'[<<u, t>>] # "none"
  <1>1. <<u, t>> \in Link
    BY DEF Link
  <1>2. PICK f \in {"asked", "lost"} :
           fate' = [fate EXCEPT ![<<u, t>>] = IF @ = "delivered" THEN @ ELSE f]
    BY DEF AskMail, Post!Ask
  <1> DEFINE g == IF fate[<<u, t>>] = "delivered" THEN "delivered" ELSE f
  <1>3. g \in Post!Fates \ {"none"}
    BY DEF Post!Fates
  <1>4. fate' = [fate EXCEPT ![<<u, t>>] = g]
    BY <1>2
  <1> HIDE DEF g
  <1> QED  BY <1>1, <1>3, <1>4 DEF Post!TypeOK

LEMMA MailIsDelivered ==
    ASSUME Post!TypeOK, NEW m \in Link, Post!Deliver(m)
    PROVE  /\ Post!TypeOK'
           /\ \A n \in Link : fate[n] # "none" => fate'[n] # "none"
  BY DEF Post!TypeOK, Post!Deliver, Post!Fates

(* What an answer does, with its task as it was.                           *)
LEMMA AnswerIsGiven ==
    ASSUME TypeOK, Shaped, NEW p \in Request, Answer(p)
    PROVE  /\ task[p].pc = "answer" /\ task[p].user \in User
           /\ task' = [task EXCEPT ![p] = Idle]
           /\ UNCHANGED <<account, now, crashes>>
           /\ held' \in [User -> SUBSET Time]
           /\ \A u \in User : held[u] \subseteq held'[u]
           /\ task[p].op \in {"login", "refresh"} /\ Signs(task[p]) =>
                 task[p].token \in held'[task[p].user]
           /\ Post!TypeOK'
           /\ \A m \in Link : fate[m] # "none" => fate'[m] # "none"
           /\ task[p].op \in {"forgot", "create"} =>
                 fate'[<<task[p].user, task[p].token>>] # "none"
           /\ dead' \in [User -> SUBSET Time]
           /\ spent' \in [User -> SUBSET Time]
  <1> DEFINE k == task[p]
  <1>1. /\ k \in Task /\ HasShape(k) /\ k.pc = "answer" /\ k.user \in User
        /\ Signs(k) => k.token \in Time
    BY StepsOfHandlers DEF Answer, TypeOK, Shaped
  <1>2. HandsOut(k) => Signs(k)
    BY DEF HandsOut, Signs
  <1>3. /\ task' = [task EXCEPT ![p] = Idle]
        /\ UNCHANGED <<account, now, crashes>>
        /\ held' = IF HandsOut(k)
                   THEN [held EXCEPT ![k.user] = @ \cup {k.token}] ELSE held
        /\ Ended(p)
        /\ IF MailsLink(k) THEN AskMail(k.user, k.token) ELSE UNCHANGED fate
    BY DEF Answer, End
  <1>4. /\ held' \in [User -> SUBSET Time]
        /\ \A u \in User : held[u] \subseteq held'[u]
        /\ k.op \in {"login", "refresh"} /\ Signs(k) => k.token \in held'[k.user]
    <2>1. held \in [User -> SUBSET Time]
      BY DEF TypeOK
    <2>2. k.op \in {"login", "refresh"} /\ Signs(k) => HandsOut(k)
      BY DEF Signs, HandsOut
    <2> HIDE DEF k
    <2> QED  BY <1>1, <1>2, <1>3, <2>1, <2>2
  <1>5. /\ Post!TypeOK'
        /\ \A m \in Link : fate[m] # "none" => fate'[m] # "none"
        /\ k.op \in {"forgot", "create"} => fate'[<<k.user, k.token>>] # "none"
    <2>1. Post!TypeOK
      BY DEF TypeOK
    <2>2. CASE MailsLink(k)
      <3>1. k.token \in Time
        BY <1>1, <2>2 DEF MailsLink, Signs
      <3> QED  BY <1>1, <1>3, <2>1, <2>2, <3>1, MailIsAsked
    <2>3. CASE ~ MailsLink(k)
      BY <1>3, <2>1, <2>3 DEF MailsLink, Post!TypeOK
    <2> QED  BY <2>2, <2>3
  <1>6. dead' \in [User -> SUBSET Time] /\ spent' \in [User -> SUBSET Time]
    <2> DEFINE new == IF k.op \in {"logout", "reset"} THEN {} ELSE {k.token}
    <2>1. Mailed(k.user) \subseteq Time
      BY DEF Mailed
    <2>2. /\ dead' \in {dead, [dead EXCEPT ![k.user] = @ \cup (held[k.user] \ new)]}
          /\ spent' \in {spent, [spent EXCEPT ![k.user] = @ \cup (Mailed(k.user) \ new)]}
      BY <1>3 DEF Ended
    <2> HIDE DEF new, k
    <2> QED  BY <1>1, <2>1, <2>2 DEF TypeOK
  <1> QED  BY <1>1, <1>3, <1>4, <1>5, <1>6

(* Every variable of Sessions keeps its type, and every handler has what   *)
(* its next step needs.                                                    *)
THEOREM TypeCorrect == Spec => [](TypeOK /\ Shaped)
  <1>1. Init => TypeOK /\ Shaped
    <2> SUFFICES ASSUME Init
                 PROVE  TypeOK /\ Shaped
      OBVIOUS
    <2>1. account \in [User -> Account]
      <3>1. NoAccount \in Account
            /\ [NoAccount EXCEPT !.live = TRUE, !.password = "chosen"] \in Account
        BY DEF NoAccount, Account
      <3>2. \A u \in User : account[u] \in Account
        BY <3>1 DEF Init
      <3> QED  BY <3>2 DEF Init
    <2>2. now \in Time /\ crashes \in 0..MaxCrashes
      BY SessionsAssumption DEF Init, Time
    <2>3. /\ held \in [User -> SUBSET Time]
          /\ entered \subseteq User
          /\ dead \in [User -> SUBSET Time]
          /\ spent \in [User -> SUBSET Time]
      BY DEF Init
    <2>4. Post!TypeOK
      BY DEF Init, Post!Init, Post!TypeOK, Post!Fates
    <2>5. task \in [Request -> Task] /\ Shaped
      BY IdleIsTask DEF Init, Shaped
    <2> QED  BY <2>1, <2>2, <2>3, <2>4, <2>5 DEF TypeOK
  <1>2. TypeOK /\ Shaped /\ [Next]_vars => (TypeOK /\ Shaped)'
    <2> SUFFICES ASSUME TypeOK, Shaped, [Next]_vars
                 PROVE  (TypeOK /\ Shaped)'
      OBVIOUS
    <2>0. \A p \in Request : task[p] \in Task /\ HasShape(task[p])
      BY DEF TypeOK, Shaped
    <2>1. ASSUME NEW p \in Request, NEW u \in User, Call(p, u)
          PROVE  (TypeOK /\ Shaped)'
      BY <2>1, CallsMark DEF TypeOK, Post!TypeOK, clients, history
    <2>2. ASSUME NEW p \in Request, GetUser(p)
          PROVE  (TypeOK /\ Shaped)'
      <3> DEFINE k == [task[p] EXCEPT !.pc = AfterUser(task[p])]
      <3>1. /\ task[p] \in Task /\ HasShape(task[p]) /\ task[p].op \in Endpoints
            /\ task[p].pc = "getUser"
        BY <2>0, <2>2, StepsOfHandlers DEF GetUser
      <3>2. k \in Task /\ HasShape(k)
        <4>1. CASE task[p].op = "login"
          BY <3>1, <4>1 DEF AfterUser, Task, HasShape, Signs, Idle
        <4>2. CASE task[p].op # "login"
          BY <3>1, <4>2 DEF AfterUser, Task, HasShape, Signs, Endpoints, Idle
        <4> QED  BY <4>1, <4>2
      <3>3. task' = [task EXCEPT ![p] = k] \/ task' = [task EXCEPT ![p] = Idle]
        BY <2>2 DEF GetUser, Goto, End, TypeOK
      <3> HIDE DEF k
      <3>4. task' \in [Request -> Task] /\ Shaped'
        BY <3>2, <3>3, IdleIsTask, OneTaskMoves
      <3> QED  BY <2>2, <3>4 DEF GetUser, TypeOK, Post!TypeOK, clients, history
    <2>3. ASSUME NEW p \in Request, AskRole(p)
          PROVE  (TypeOK /\ Shaped)'
      <3> DEFINE k == [task[p] EXCEPT !.pc = "insert"]
      <3>1. k \in Task /\ HasShape(k)
        BY <2>0, <2>3 DEF AskRole, Task, HasShape, Signs, Idle
      <3>2. task' = [task EXCEPT ![p] = k] \/ task' = [task EXCEPT ![p] = Idle]
        BY <2>3 DEF AskRole, Goto, End, TypeOK
      <3> HIDE DEF k
      <3>3. task' \in [Request -> Task] /\ Shaped'
        BY <3>1, <3>2, IdleIsTask, OneTaskMoves
      <3> QED  BY <2>3, <3>3 DEF AskRole, TypeOK, Post!TypeOK, clients, history
    <2>4. ASSUME NEW p \in Request, Insert(p)
          PROVE  (TypeOK /\ Shaped)'
      <3> DEFINE k == [task[p] EXCEPT !.pc = "sign"]
      <3>1. k \in Task /\ HasShape(k)
        BY <2>0, <2>4 DEF Insert, Task, HasShape, Signs, Idle
      <3>2. task' = [task EXCEPT ![p] = k] \/ task' = [task EXCEPT ![p] = Idle]
        BY <2>4 DEF Insert, Goto, End, TypeOK
      <3> HIDE DEF k
      <3>3. task' \in [Request -> Task] /\ Shaped'
        BY <3>1, <3>2, IdleIsTask, OneTaskMoves
      <3>4. account' \in [User -> Account]
        <4>1. [NoAccount EXCEPT !.live = TRUE] \in Account
          BY DEF NoAccount, Account
        <4> QED  BY <2>4, <4>1 DEF Insert, TypeOK
      <3> QED  BY <2>4, <3>3, <3>4 DEF Insert, TypeOK, Post!TypeOK, clients, history
    <2>5. ASSUME NEW p \in Request, Sign(p)
          PROVE  (TypeOK /\ Shaped)'
      <3> DEFINE k == [task[p] EXCEPT !.pc = "write", !.token = now]
      <3>1. k \in Task /\ HasShape(k)
        BY <2>0, <2>5 DEF Sign, TypeOK, Task, HasShape, Signs, Idle
      <3>2. task' = [task EXCEPT ![p] = k]
        BY <2>5 DEF Sign, TypeOK
      <3> HIDE DEF k
      <3>3. task' \in [Request -> Task] /\ Shaped'
        BY <3>1, <3>2, OneTaskMoves
      <3>4. dead' \in [User -> SUBSET Time] /\ spent' \in [User -> SUBSET Time]
        BY <2>5 DEF Sign, TypeOK
      <3> QED  BY <2>5, <3>3, <3>4 DEF Sign, TypeOK, Post!TypeOK, clients
    <2>6. ASSUME NEW p \in Request, Write(p)
          PROVE  (TypeOK /\ Shaped)'
      <3> DEFINE k == [task[p] EXCEPT !.pc = "answer"]
      <3>1. k \in Task /\ HasShape(k)
        BY <2>0, <2>6 DEF Write, Task, HasShape, Signs, Idle
      <3>2. task' = [task EXCEPT ![p] = k]
        BY <2>6 DEF Write, Goto, TypeOK
      <3> HIDE DEF k
      <3>3. task' \in [Request -> Task] /\ Shaped'
        BY <3>1, <3>2, OneTaskMoves
      <3>4. Written(task[p], account[task[p].user]) \in Account
        BY <2>0, <2>6, StepsOfHandlers, RowIsWritten DEF Write, TypeOK
      <3>5. account' \in [User -> Account]
        BY <2>6, <3>4 DEF Write, TypeOK
      <3> QED  BY <2>6, <3>3, <3>5 DEF Write, TypeOK, Post!TypeOK, clients, history
    <2>7. ASSUME NEW p \in Request, Answer(p)
          PROVE  (TypeOK /\ Shaped)'
      <3>1. task' \in [Request -> Task] /\ Shaped'
        BY <2>7, IdleIsTask, OneTaskMoves DEF Answer, End
      <3>2. entered' \subseteq User
        BY <2>7, AnswerIsGiven DEF Answer, TypeOK
      <3> QED  BY <2>7, <3>1, <3>2, AnswerIsGiven DEF TypeOK
    <2>8. CASE Tick
      <3>1. now' \in Time
        BY <2>8, SessionsAssumption DEF Tick, TypeOK, Time
      <3> QED  BY <2>8, <3>1
               DEF Tick, TypeOK, Post!TypeOK, Shaped, clients, history
    <2>9. CASE MailArrives
      <3>1. Post!TypeOK'
        BY <2>9, MailIsDelivered DEF MailArrives, TypeOK
      <3> QED  BY <2>9, <3>1 DEF MailArrives, TypeOK, Shaped, clients, history
    <2>10. CASE Crash
      <3>1. task' \in [Request -> Task] /\ Shaped'
        BY <2>10, IdleIsTask DEF Crash, Shaped
      <3>2. crashes' \in 0..MaxCrashes
        BY <2>10, SessionsAssumption DEF Crash, TypeOK
      <3> QED  BY <2>10, <3>1, <3>2
               DEF Crash, TypeOK, Post!TypeOK, clients, history
    <2>11. CASE UNCHANGED vars
      BY <2>11 DEF vars, clients, history, TypeOK, Post!TypeOK, Shaped
    <2> QED  BY <2>1, <2>2, <2>3, <2>4, <2>5, <2>6, <2>7, <2>8, <2>9, <2>10,
                <2>11 DEF Next, Advance
  <1> QED  BY <1>1, <1>2, PTL DEF Spec

-----------------------------------------------------------------------------
(* The tokens of DeadTokensStayDead and the links of SpentLinksStaySpent.  *)

(* A request that is marked alone has its user to itself.                  *)
AloneOnly ==
    \A p, q \in Request :
        p # q /\ task[p] # Idle /\ task[q].user = task[p].user => ~ task[p].alone

(* A handler about to store a refresh token holds one that nobody has put  *)
(* to an end since it was signed, and one that ran alone finds at its end  *)
(* what it has stored.                                                     *)
DeadInv ==
    /\ DeadTokensStayDead
    /\ \A p \in Request :
          task[p].pc = "write" /\ task[p].op \in {"login", "refresh"} =>
             task[p].token \notin dead[task[p].user]
    /\ \A p \in Request :
          task[p].pc = "answer" /\ task[p].alone /\ WritesRefresh(task[p]) =>
             account[task[p].user].refresh =
                IF task[p].op = "logout" THEN None ELSE task[p].token

(* The same for links.                                                     *)
SpentInv ==
    /\ SpentLinksStaySpent
    /\ \A p \in Request :
          task[p].pc = "write" /\ task[p].op \in {"forgot", "create"} =>
             task[p].token \notin spent[task[p].user]
    /\ \A p \in Request :
          task[p].pc = "answer" /\ task[p].alone /\ WritesLink(task[p]) =>
             account[task[p].user].link =
                IF task[p].op = "reset" THEN None ELSE task[p].token

(* A request that is marked alone has its user to itself: every step of    *)
(* Sessions keeps that, since a call marks whom it overlaps with.          *)
LEMMA AloneCorrect == Spec => []AloneOnly
  <1>1. Init => AloneOnly
    BY DEF Init, AloneOnly
  <1>2. TypeOK /\ Shaped /\ AloneOnly /\ [Next]_vars => AloneOnly'
    <2> SUFFICES ASSUME TypeOK, Shaped, AloneOnly, [Next]_vars
                 PROVE  AloneOnly'
      OBVIOUS
    <2>0. \A p \in Request : task[p] \in Task /\ HasShape(task[p])
      BY DEF TypeOK, Shaped
    <2>1. ASSUME NEW p \in Request, NEW u \in User, Call(p, u)
          PROVE  AloneOnly'
      BY <2>0, <2>1, CallsMark DEF AloneOnly, SameButAlone
    <2>2. ASSUME NEW p \in Request, NEW k \in Task,
                 k = Idle \/ (k.user = task[p].user /\ k.alone = task[p].alone),
                 task' = [task EXCEPT ![p] = k], task[p] # Idle
          PROVE  AloneOnly'
      <3>1. task'[p] = k /\ \A q \in Request \ {p} : task'[q] = task[q]
        BY <2>2 DEF TypeOK
      <3>2. \A q \in Request : task[q] # Idle => task[q].user # None
        BY <2>0, SessionsAssumption DEF HasShape
      <3>3. CASE k = Idle
        <4>1. ASSUME NEW q \in Request, NEW r \in Request, q # r, task'[q] # Idle,
                     task'[r].user = task'[q].user
              PROVE  ~ task'[q].alone
          <5>1. q # p /\ task'[q] = task[q] /\ task[q].user # None
            BY <3>1, <3>2, <3>3, <4>1
          <5>2. r # p /\ task'[r] = task[r]
            BY <3>1, <3>3, <4>1, <5>1 DEF Idle
          <5> QED  BY <4>1, <5>1, <5>2 DEF AloneOnly
        <4> QED  BY <4>1 DEF AloneOnly
      <3>4. CASE k.user = task[p].user /\ k.alone = task[p].alone
        BY <2>2, <3>1, <3>2, <3>4 DEF AloneOnly, Idle
      <3> QED  BY <2>2, <3>3, <3>4
    <2>3. ASSUME NEW p \in Request, Advance(p)
          PROVE  AloneOnly'
      <3>1. task[p] \in Task /\ task[p] # Idle
        BY <2>0, <2>3 DEF Advance, GetUser, AskRole, Insert, Sign, Write, Answer, Idle
      <3>2. CASE task' = [task EXCEPT ![p] = Idle]
        BY <2>2, <3>1, <3>2, IdleIsTask
      <3>3. ASSUME NEW pc \in {AfterUser(task[p]), "insert", "sign", "answer"},
                   task' = [task EXCEPT ![p].pc = pc]
            PROVE  AloneOnly'
        <4> DEFINE k == [task[p] EXCEPT !.pc = pc]
        <4>1. /\ k \in Task /\ k.user = task[p].user /\ k.alone = task[p].alone
              /\ task' = [task EXCEPT ![p] = k]
          BY <3>1, <3>3 DEF AfterUser, Task, TypeOK
        <4> HIDE DEF k
        <4> QED  BY <2>2, <3>1, <4>1
      <3>4. CASE Sign(p)
        <4> DEFINE k == [task[p] EXCEPT !.pc = "write", !.token = now]
        <4>1. /\ k \in Task /\ k.user = task[p].user /\ k.alone = task[p].alone
              /\ task' = [task EXCEPT ![p] = k]
          BY <3>1, <3>4 DEF Sign, Task, TypeOK
        <4> HIDE DEF k
        <4> QED  BY <2>2, <3>1, <4>1
      <3> QED  BY <2>3, <3>2, <3>3, <3>4
               DEF Advance, GetUser, AskRole, Insert, Write, Answer, Goto, End
    <2>4. CASE Tick \/ MailArrives \/ UNCHANGED vars
      BY <2>4 DEF Tick, MailArrives, vars, AloneOnly
    <2>5. CASE Crash
      BY <2>5 DEF Crash, AloneOnly
    <2> QED  BY <2>1, <2>3, <2>4, <2>5 DEF Next
  <1> QED  BY <1>1, <1>2, TypeCorrect, PTL DEF Spec

(* A step of one request that stores no refresh token and ends none.       *)
LEMMA StepsKeepDead ==
    ASSUME TypeOK, DeadInv, NEW p \in Request, NEW k \in Task,
           task' = [task EXCEPT ![p] = k],
           \A u \in User : account'[u].refresh = account[u].refresh,
           \A u \in User : dead'[u] \subseteq dead[u],
           \A q \in Request \ {p} : task[q].pc \in {"write", "answer"} => task[q].user \in User,
           k.pc = "write" /\ k.op \in {"login", "refresh"} =>
              k.token \notin dead'[k.user],
           k.pc = "answer" => ~ WritesRefresh(k)
    PROVE  DeadInv'
  <1>1. task'[p] = k /\ \A q \in Request \ {p} : task'[q] = task[q]
    BY DEF TypeOK
  <1>2. DeadTokensStayDead'
    BY DEF DeadInv, DeadTokensStayDead
  <1>3. (\A q \in Request : task[q].pc = "write" /\ task[q].op \in {"login", "refresh"} =>
            task[q].token \notin dead[task[q].user])'
    BY <1>1 DEF DeadInv
  <1>4. (\A q \in Request : task[q].pc = "answer" /\ task[q].alone /\ WritesRefresh(task[q]) =>
            account[task[q].user].refresh =
               IF task[q].op = "logout" THEN None ELSE task[q].token)'
    BY <1>1 DEF DeadInv, WritesRefresh
  <1> QED  BY <1>2, <1>3, <1>4 DEF DeadInv

(* A refresh token that a request has put to an end, by itself, is never   *)
(* the stored one again.                                                   *)
THEOREM DeadTokensAreDead == Spec => []DeadTokensStayDead
  <1>1. Init => DeadInv
    <2>1. Init => DeadTokensStayDead
      BY DEF Init, DeadTokensStayDead
    <2> QED  BY <2>1 DEF Init, DeadInv, Idle
  <1>2. TypeOK /\ Shaped /\ AloneOnly /\ DeadInv /\ [Next]_vars => DeadInv'
    <2> SUFFICES ASSUME TypeOK, Shaped, AloneOnly, DeadInv, [Next]_vars
                 PROVE  DeadInv'
      OBVIOUS
    <2>0. \A p \in Request : task[p] \in Task /\ HasShape(task[p])
      BY DEF TypeOK, Shaped
    <2>t. \A p \in Request : task[p].pc # "idle" => task[p].user \in User
      BY <2>0, StepsOfHandlers
    <2>1. ASSUME NEW p \in Request, NEW u \in User, Call(p, u)
          PROVE  DeadInv'
      <3>1. \A q \in Request : task'[q].pc \in {"write", "answer"} =>
               SameButAlone(task'[q], task[q])
        BY <2>1, CallsMark
      <3>2. UNCHANGED <<account, dead>>
        BY <2>1, CallsMark DEF history
      <3> QED  BY <3>1, <3>2
               DEF DeadInv, DeadTokensStayDead, SameButAlone, WritesRefresh
    <2>2. ASSUME NEW p \in Request, GetUser(p)
          PROVE  DeadInv'
      <3> DEFINE k == [task[p] EXCEPT !.pc = AfterUser(task[p])]
      <3>1. /\ task[p] \in Task /\ task[p].op \in Endpoints
            /\ task[p].pc = "getUser"
        BY <2>0, <2>2, StepsOfHandlers DEF GetUser
      <3>2. /\ k \in Task
            /\ k.pc = "write" => k.op \in {"logout", "reset"}
            /\ k.pc = "answer" => ~ WritesRefresh(k)
        BY <3>1 DEF AfterUser, Task, WritesRefresh
      <3>3. task' = [task EXCEPT ![p] = k] \/ task' = [task EXCEPT ![p] = Idle]
        BY <2>2 DEF GetUser, Goto, End, TypeOK
      <3>4. UNCHANGED <<account, dead>>
        BY <2>2 DEF GetUser, history
      <3> HIDE DEF k
      <3>5. CASE task' = [task EXCEPT ![p] = k]
        BY <2>t, <3>2, <3>4, <3>5, StepsKeepDead
      <3>6. CASE task' = [task EXCEPT ![p] = Idle]
        BY <2>t, <3>4, <3>6, IdleIsTask, StepsKeepDead DEF Idle
      <3> QED  BY <3>3, <3>5, <3>6
    <2>3. ASSUME NEW p \in Request, AskRole(p)
          PROVE  DeadInv'
      <3> DEFINE k == [task[p] EXCEPT !.pc = "insert"]
      <3>1. k \in Task /\ k.pc = "insert"
        BY <2>0, <2>3 DEF AskRole, Task
      <3>2. task' = [task EXCEPT ![p] = k] \/ task' = [task EXCEPT ![p] = Idle]
        BY <2>3 DEF AskRole, Goto, End, TypeOK
      <3>3. UNCHANGED <<account, dead>>
        BY <2>3 DEF AskRole, history
      <3> HIDE DEF k
      <3>4. CASE task' = [task EXCEPT ![p] = k]
        BY <2>t, <3>1, <3>3, <3>4, StepsKeepDead
      <3>5. CASE task' = [task EXCEPT ![p] = Idle]
        BY <2>t, <3>3, <3>5, IdleIsTask, StepsKeepDead DEF Idle
      <3> QED  BY <3>2, <3>4, <3>5
    <2>4. ASSUME NEW p \in Request, Insert(p)
          PROVE  DeadInv'
      <3> DEFINE k == [task[p] EXCEPT !.pc = "sign"]
                 u == task[p].user
      <3>1. k \in Task /\ k.pc = "sign" /\ u \in User /\ task[p] # Idle
        BY <2>0, <2>4, StepsOfHandlers DEF Insert, Task
      <3>2. UNCHANGED dead
        BY <2>4 DEF Insert, history
      <3>3. CASE task' = [task EXCEPT ![p] = Idle] /\ UNCHANGED account
        BY <2>t, <3>2, <3>3, IdleIsTask, StepsKeepDead DEF Idle
      <3>4. CASE /\ task' = [task EXCEPT ![p] = k]
                 /\ account' = [account EXCEPT ![u] = [NoAccount EXCEPT !.live = TRUE]]
        <4>1. task'[p] = k /\ \A q \in Request \ {p} : task'[q] = task[q]
          BY <3>4 DEF TypeOK
        <4> HIDE DEF k
        <4>2. /\ account'[u].refresh = None
              /\ \A v \in User \ {u} : account'[v] = account[v]
          BY <3>1, <3>4 DEF TypeOK, NoAccount
        <4>3. \A q \in Request \ {p} : task[q].user = u => ~ task[q].alone
          BY <2>0, <3>1, SessionsAssumption DEF AloneOnly, Idle
        <4>4. \A v \in User : None \notin dead[v]
          BY SessionsAssumption DEF TypeOK, Time
        <4>5. DeadTokensStayDead'
          BY <3>2, <4>2, <4>4 DEF DeadInv, DeadTokensStayDead
        <4> QED  BY <2>t, <3>1, <3>2, <4>1, <4>2, <4>3, <4>5 DEF DeadInv, WritesRefresh
      <3> QED  BY <2>4, <3>1, <3>3, <3>4 DEF Insert, Goto, End, TypeOK
    <2>5. ASSUME NEW p \in Request, Sign(p)
          PROVE  DeadInv'
      <3> DEFINE k == [task[p] EXCEPT !.pc = "write", !.token = now]
      <3>1. /\ task[p] \in Task /\ task[p].user \in User /\ Signs(task[p])
        BY <2>0, <2>5, StepsOfHandlers DEF Sign
      <3>2. /\ k \in Task /\ k.pc = "write" /\ k.token = now
            /\ k.user = task[p].user /\ k.op = task[p].op
        BY <3>1 DEF Task, TypeOK
      <3>3. task' = [task EXCEPT ![p] = k] /\ UNCHANGED account
        BY <2>5 DEF Sign, TypeOK
      <3> HIDE DEF k
      <3>4. /\ \A u \in User : dead'[u] \subseteq dead[u]
            /\ k.op \in {"login", "refresh"} => now \notin dead'[k.user]
        BY <2>5, <3>1, <3>2 DEF Sign, TypeOK, WritesRefresh, Signs
      <3> QED  BY <2>t, <3>2, <3>3, <3>4, StepsKeepDead
    <2>6. ASSUME NEW p \in Request, Write(p)
          PROVE  DeadInv'
      <3> DEFINE k == [task[p] EXCEPT !.pc = "answer"]
                 u == task[p].user
      <3>1. /\ task[p] \in Task /\ task[p] # Idle /\ u \in User
            /\ task[p].pc = "write"
            /\ Signs(task[p]) \/ task[p].op \in {"logout", "reset"}
            /\ Signs(task[p]) => task[p].token \in Time
        BY <2>0, <2>6, StepsOfHandlers DEF Write
      <3>2. /\ k.pc = "answer" /\ k.op = task[p].op /\ k.user = u
            /\ k.token = task[p].token /\ k.alone = task[p].alone
            /\ WritesRefresh(k) => k.op \in {"logout", "login", "refresh"}
        BY <3>1 DEF Task, WritesRefresh
      <3>3. /\ task' = [task EXCEPT ![p] = k] /\ UNCHANGED dead
            /\ account' = [account EXCEPT ![u] = Written(task[p], account[u])]
        BY <2>6 DEF Write, Goto, TypeOK, history
      <3> HIDE DEF k
      <3>4. task'[p] = k /\ \A q \in Request \ {p} : task'[q] = task[q]
        BY <3>3 DEF TypeOK
      <3>5. /\ \A v \in User \ {u} : account'[v] = account[v]
            /\ account'[u].refresh = IF task[p].op = "logout" THEN None
                                     ELSE IF task[p].op \in {"login", "refresh"}
                                     THEN task[p].token
                                     ELSE account[u].refresh
        BY <3>1, <3>3, RowIsWritten DEF TypeOK
      <3>6. \A q \in Request \ {p} : task[q].user = u => ~ task[q].alone
        BY <2>0, <3>1, SessionsAssumption DEF AloneOnly, Idle
      <3>7. \A v \in User : None \notin dead[v]
        BY SessionsAssumption DEF TypeOK, Time
      <3>8. account'[u].refresh \notin dead[u]
        BY <3>1, <3>5, <3>7 DEF DeadInv, DeadTokensStayDead
      <3>9. DeadTokensStayDead'
        BY <3>3, <3>5, <3>8 DEF DeadInv, DeadTokensStayDead
      <3>10. (\A q \in Request :
                 task[q].pc = "write" /\ task[q].op \in {"login", "refresh"} =>
                    task[q].token \notin dead[task[q].user])'
        BY <3>2, <3>3, <3>4 DEF DeadInv
      <3>11. ASSUME NEW q \in Request, task'[q].pc = "answer", task'[q].alone,
                    WritesRefresh(task'[q])
             PROVE  account'[task'[q].user].refresh =
                       IF task'[q].op = "logout" THEN None ELSE task'[q].token
        <4>1. CASE q = p
          BY <3>2, <3>4, <3>5, <3>11, <4>1
        <4>2. CASE q # p
          BY <2>t, <3>4, <3>5, <3>6, <3>11, <4>2 DEF DeadInv
        <4> QED  BY <4>1, <4>2
      <3> QED  BY <3>9, <3>10, <3>11 DEF DeadInv, WritesRefresh
    <2>7. ASSUME NEW p \in Request, Answer(p)
          PROVE  DeadInv'
      <3> DEFINE u == task[p].user
                 new == IF task[p].op \in {"logout", "reset"} THEN {}
                        ELSE {task[p].token}
      <3>1. /\ task[p] \in Task /\ task[p] # Idle /\ u \in User
            /\ task[p].pc = "answer"
            /\ task' = [task EXCEPT ![p] = Idle] /\ UNCHANGED account
        <4>1. task[p].pc = "answer" /\ u \in User
              /\ task' = [task EXCEPT ![p] = Idle]
          BY <2>7, AnswerIsGiven
        <4>2. UNCHANGED account
          BY <2>7 DEF Answer
        <4> QED  BY <2>0, <4>1, <4>2 DEF Idle
      <3>2. CASE ~ (task[p].alone /\ WritesRefresh(task[p]))
        <4>1. UNCHANGED dead
          BY <2>7, <3>2 DEF Answer, Ended
        <4> QED  BY <2>t, <3>1, <4>1, IdleIsTask, StepsKeepDead DEF Idle
      <3>3. CASE task[p].alone /\ WritesRefresh(task[p])
        <4>1. dead' = [dead EXCEPT ![u] = @ \cup (held[u] \ new)]
          BY <2>7, <3>3 DEF Answer, Ended
        <4>2. task'[p] = Idle /\ \A q \in Request \ {p} : task'[q] = task[q]
          BY <3>1 DEF TypeOK
        <4>3. \A q \in Request : task'[q].pc # "idle" =>
                 q # p /\ task[q].user # u
          BY <2>0, <3>1, <3>3, <4>2 DEF AloneOnly, Idle
        <4>4. account[u].refresh \notin held[u] \ new
          <5>1. account[u].refresh =
                   IF task[p].op = "logout" THEN None ELSE task[p].token
            BY <3>1, <3>3 DEF DeadInv
          <5>2. None \notin held[u]
            BY <3>1, SessionsAssumption DEF TypeOK, Time
          <5> QED  BY <3>3, <5>1, <5>2 DEF WritesRefresh
        <4> HIDE DEF new
        <4>5. /\ dead'[u] = dead[u] \cup (held[u] \ new)
              /\ \A v \in User \ {u} : dead'[v] = dead[v]
          BY <3>1, <4>1 DEF TypeOK
        <4>6. DeadTokensStayDead'
          BY <3>1, <4>4, <4>5 DEF DeadInv, DeadTokensStayDead
        <4>7. (\A q \in Request :
                  task[q].pc = "write" /\ task[q].op \in {"login", "refresh"} =>
                     task[q].token \notin dead[task[q].user])'
          BY <2>t, <4>2, <4>3, <4>5 DEF DeadInv
        <4>8. (\A q \in Request :
                  task[q].pc = "answer" /\ task[q].alone /\ WritesRefresh(task[q]) =>
                     account[task[q].user].refresh =
                        IF task[q].op = "logout" THEN None ELSE task[q].token)'
          BY <3>1, <4>2, <4>3 DEF DeadInv, WritesRefresh
        <4> QED  BY <4>6, <4>7, <4>8 DEF DeadInv
      <3> QED  BY <3>2, <3>3
    <2>8. CASE Tick \/ MailArrives \/ UNCHANGED vars
      <3>1. UNCHANGED <<account, task, dead>>
        BY <2>8 DEF Tick, MailArrives, vars, history
      <3> QED  BY <3>1 DEF DeadInv, DeadTokensStayDead, WritesRefresh
    <2>9. CASE Crash
      <3>1. UNCHANGED <<account, dead>> /\ \A p \in Request : task'[p].pc = "idle"
        BY <2>9 DEF Crash, history, Idle
      <3> QED  BY <3>1 DEF DeadInv, DeadTokensStayDead
    <2> QED  BY <2>1, <2>2, <2>3, <2>4, <2>5, <2>6, <2>7, <2>8, <2>9 DEF Next, Advance
  <1>3. DeadInv => DeadTokensStayDead
    BY DEF DeadInv
  <1> QED  BY <1>1, <1>2, <1>3, TypeCorrect, AloneCorrect, PTL DEF Spec

(* A step of one request that stores no link and ends none.                *)
LEMMA StepsKeepSpent ==
    ASSUME TypeOK, SpentInv, NEW p \in Request, NEW k \in Task,
           task' = [task EXCEPT ![p] = k],
           \A u \in User : account'[u].link = account[u].link,
           \A u \in User : spent'[u] \subseteq spent[u],
           \A q \in Request \ {p} : task[q].pc \in {"write", "answer"} => task[q].user \in User,
           k.pc = "write" /\ k.op \in {"forgot", "create"} =>
              k.token \notin spent'[k.user],
           k.pc = "answer" => ~ WritesLink(k)
    PROVE  SpentInv'
  <1>1. task'[p] = k /\ \A q \in Request \ {p} : task'[q] = task[q]
    BY DEF TypeOK
  <1>2. SpentLinksStaySpent'
    BY DEF SpentInv, SpentLinksStaySpent
  <1>3. (\A q \in Request : task[q].pc = "write" /\ task[q].op \in {"forgot", "create"} =>
            task[q].token \notin spent[task[q].user])'
    BY <1>1 DEF SpentInv
  <1>4. (\A q \in Request : task[q].pc = "answer" /\ task[q].alone /\ WritesLink(task[q]) =>
            account[task[q].user].link =
               IF task[q].op = "reset" THEN None ELSE task[q].token)'
    BY <1>1 DEF SpentInv, WritesLink
  <1> QED  BY <1>2, <1>3, <1>4 DEF SpentInv

(* A link that a request has put to an end, by itself, is never the one    *)
(* that the row accepts again.                                             *)
THEOREM SpentLinksAreSpent == Spec => []SpentLinksStaySpent
  <1>1. Init => SpentInv
    <2>1. Init => SpentLinksStaySpent
      BY DEF Init, SpentLinksStaySpent
    <2> QED  BY <2>1 DEF Init, SpentInv, Idle
  <1>2. TypeOK /\ Shaped /\ AloneOnly /\ SpentInv /\ [Next]_vars => SpentInv'
    <2> SUFFICES ASSUME TypeOK, Shaped, AloneOnly, SpentInv, [Next]_vars
                 PROVE  SpentInv'
      OBVIOUS
    <2>0. \A p \in Request : task[p] \in Task /\ HasShape(task[p])
      BY DEF TypeOK, Shaped
    <2>t. \A p \in Request : task[p].pc # "idle" => task[p].user \in User
      BY <2>0, StepsOfHandlers
    <2>1. ASSUME NEW p \in Request, NEW u \in User, Call(p, u)
          PROVE  SpentInv'
      <3>1. \A q \in Request : task'[q].pc \in {"write", "answer"} =>
               SameButAlone(task'[q], task[q])
        BY <2>1, CallsMark
      <3>2. UNCHANGED <<account, spent>>
        BY <2>1, CallsMark DEF history
      <3> QED  BY <3>1, <3>2
               DEF SpentInv, SpentLinksStaySpent, SameButAlone, WritesLink
    <2>2. ASSUME NEW p \in Request, GetUser(p)
          PROVE  SpentInv'
      <3> DEFINE k == [task[p] EXCEPT !.pc = AfterUser(task[p])]
      <3>1. /\ task[p] \in Task /\ task[p].op \in Endpoints
            /\ task[p].pc = "getUser"
        BY <2>0, <2>2, StepsOfHandlers DEF GetUser
      <3>2. /\ k \in Task
            /\ k.pc = "write" => k.op \in {"logout", "reset"}
            /\ k.pc = "answer" => ~ WritesLink(k)
        BY <3>1 DEF AfterUser, Task, WritesLink
      <3>3. task' = [task EXCEPT ![p] = k] \/ task' = [task EXCEPT ![p] = Idle]
        BY <2>2 DEF GetUser, Goto, End, TypeOK
      <3>4. UNCHANGED <<account, spent>>
        BY <2>2 DEF GetUser, history
      <3> HIDE DEF k
      <3>5. CASE task' = [task EXCEPT ![p] = k]
        BY <2>t, <3>2, <3>4, <3>5, StepsKeepSpent
      <3>6. CASE task' = [task EXCEPT ![p] = Idle]
        BY <2>t, <3>4, <3>6, IdleIsTask, StepsKeepSpent DEF Idle
      <3> QED  BY <3>3, <3>5, <3>6
    <2>3. ASSUME NEW p \in Request, AskRole(p)
          PROVE  SpentInv'
      <3> DEFINE k == [task[p] EXCEPT !.pc = "insert"]
      <3>1. k \in Task /\ k.pc = "insert"
        BY <2>0, <2>3 DEF AskRole, Task
      <3>2. task' = [task EXCEPT ![p] = k] \/ task' = [task EXCEPT ![p] = Idle]
        BY <2>3 DEF AskRole, Goto, End, TypeOK
      <3>3. UNCHANGED <<account, spent>>
        BY <2>3 DEF AskRole, history
      <3> HIDE DEF k
      <3>4. CASE task' = [task EXCEPT ![p] = k]
        BY <2>t, <3>1, <3>3, <3>4, StepsKeepSpent
      <3>5. CASE task' = [task EXCEPT ![p] = Idle]
        BY <2>t, <3>3, <3>5, IdleIsTask, StepsKeepSpent DEF Idle
      <3> QED  BY <3>2, <3>4, <3>5
    <2>4. ASSUME NEW p \in Request, Insert(p)
          PROVE  SpentInv'
      <3> DEFINE k == [task[p] EXCEPT !.pc = "sign"]
                 u == task[p].user
      <3>1. k \in Task /\ k.pc = "sign" /\ u \in User /\ task[p] # Idle
        BY <2>0, <2>4, StepsOfHandlers DEF Insert, Task
      <3>2. UNCHANGED spent
        BY <2>4 DEF Insert, history
      <3>3. CASE task' = [task EXCEPT ![p] = Idle] /\ UNCHANGED account
        BY <2>t, <3>2, <3>3, IdleIsTask, StepsKeepSpent DEF Idle
      <3>4. CASE /\ task' = [task EXCEPT ![p] = k]
                 /\ account' = [account EXCEPT ![u] = [NoAccount EXCEPT !.live = TRUE]]
        <4>1. task'[p] = k /\ \A q \in Request \ {p} : task'[q] = task[q]
          BY <3>4 DEF TypeOK
        <4> HIDE DEF k
        <4>2. /\ account'[u].link = None
              /\ \A v \in User \ {u} : account'[v] = account[v]
          BY <3>1, <3>4 DEF TypeOK, NoAccount
        <4>3. \A q \in Request \ {p} : task[q].user = u => ~ task[q].alone
          BY <2>0, <3>1, SessionsAssumption DEF AloneOnly, Idle
        <4>4. \A v \in User : None \notin spent[v]
          BY SessionsAssumption DEF TypeOK, Time
        <4>5. SpentLinksStaySpent'
          BY <3>2, <4>2, <4>4 DEF SpentInv, SpentLinksStaySpent
        <4> QED  BY <2>t, <3>1, <3>2, <4>1, <4>2, <4>3, <4>5 DEF SpentInv, WritesLink
      <3> QED  BY <2>4, <3>1, <3>3, <3>4 DEF Insert, Goto, End, TypeOK
    <2>5. ASSUME NEW p \in Request, Sign(p)
          PROVE  SpentInv'
      <3> DEFINE k == [task[p] EXCEPT !.pc = "write", !.token = now]
      <3>1. /\ task[p] \in Task /\ task[p].user \in User /\ Signs(task[p])
        BY <2>0, <2>5, StepsOfHandlers DEF Sign
      <3>2. /\ k \in Task /\ k.pc = "write" /\ k.token = now
            /\ k.user = task[p].user /\ k.op = task[p].op
        BY <3>1 DEF Task, TypeOK
      <3>3. task' = [task EXCEPT ![p] = k] /\ UNCHANGED account
        BY <2>5 DEF Sign, TypeOK
      <3> HIDE DEF k
      <3>4. /\ \A u \in User : spent'[u] \subseteq spent[u]
            /\ k.op \in {"forgot", "create"} => now \notin spent'[k.user]
        BY <2>5, <3>1, <3>2 DEF Sign, TypeOK, WritesRefresh, Signs
      <3> QED  BY <2>t, <3>2, <3>3, <3>4, StepsKeepSpent
    <2>6. ASSUME NEW p \in Request, Write(p)
          PROVE  SpentInv'
      <3> DEFINE k == [task[p] EXCEPT !.pc = "answer"]
                 u == task[p].user
      <3>1. /\ task[p] \in Task /\ task[p] # Idle /\ u \in User
            /\ task[p].pc = "write"
            /\ Signs(task[p]) \/ task[p].op \in {"logout", "reset"}
            /\ Signs(task[p]) => task[p].token \in Time
        BY <2>0, <2>6, StepsOfHandlers DEF Write
      <3>2. /\ k.pc = "answer" /\ k.op = task[p].op /\ k.user = u
            /\ k.token = task[p].token /\ k.alone = task[p].alone
            /\ WritesLink(k) => k.op \in {"reset", "forgot", "create"}
        BY <3>1 DEF Task, WritesLink
      <3>3. /\ task' = [task EXCEPT ![p] = k] /\ UNCHANGED spent
            /\ account' = [account EXCEPT ![u] = Written(task[p], account[u])]
        BY <2>6 DEF Write, Goto, TypeOK, history
      <3> HIDE DEF k
      <3>4. task'[p] = k /\ \A q \in Request \ {p} : task'[q] = task[q]
        BY <3>3 DEF TypeOK
      <3>5. /\ \A v \in User \ {u} : account'[v] = account[v]
            /\ account'[u].link = IF task[p].op = "reset" THEN None
                                     ELSE IF task[p].op \in {"forgot", "create"}
                                     THEN task[p].token
                                     ELSE account[u].link
        BY <3>1, <3>3, RowIsWritten DEF TypeOK
      <3>6. \A q \in Request \ {p} : task[q].user = u => ~ task[q].alone
        BY <2>0, <3>1, SessionsAssumption DEF AloneOnly, Idle
      <3>7. \A v \in User : None \notin spent[v]
        BY SessionsAssumption DEF TypeOK, Time
      <3>8. account'[u].link \notin spent[u]
        BY <3>1, <3>5, <3>7 DEF SpentInv, SpentLinksStaySpent
      <3>9. SpentLinksStaySpent'
        BY <3>3, <3>5, <3>8 DEF SpentInv, SpentLinksStaySpent
      <3>10. (\A q \in Request :
                 task[q].pc = "write" /\ task[q].op \in {"forgot", "create"} =>
                    task[q].token \notin spent[task[q].user])'
        BY <3>2, <3>3, <3>4 DEF SpentInv
      <3>11. ASSUME NEW q \in Request, task'[q].pc = "answer", task'[q].alone,
                    WritesLink(task'[q])
             PROVE  account'[task'[q].user].link =
                       IF task'[q].op = "reset" THEN None ELSE task'[q].token
        <4>1. CASE q = p
          BY <3>2, <3>4, <3>5, <3>11, <4>1
        <4>2. CASE q # p
          BY <2>t, <3>4, <3>5, <3>6, <3>11, <4>2 DEF SpentInv
        <4> QED  BY <4>1, <4>2
      <3> QED  BY <3>9, <3>10, <3>11 DEF SpentInv, WritesLink
    <2>7. ASSUME NEW p \in Request, Answer(p)
          PROVE  SpentInv'
      <3> DEFINE u == task[p].user
                 new == IF task[p].op \in {"logout", "reset"} THEN {}
                        ELSE {task[p].token}
      <3>1. /\ task[p] \in Task /\ task[p] # Idle /\ u \in User
            /\ task[p].pc = "answer"
            /\ task' = [task EXCEPT ![p] = Idle] /\ UNCHANGED account
        <4>1. task[p].pc = "answer" /\ u \in User
              /\ task' = [task EXCEPT ![p] = Idle]
          BY <2>7, AnswerIsGiven
        <4>2. UNCHANGED account
          BY <2>7 DEF Answer
        <4> QED  BY <2>0, <4>1, <4>2 DEF Idle
      <3>2. CASE ~ (task[p].alone /\ WritesLink(task[p]))
        <4>1. UNCHANGED spent
          BY <2>7, <3>2 DEF Answer, Ended
        <4> QED  BY <2>t, <3>1, <4>1, IdleIsTask, StepsKeepSpent DEF Idle
      <3>3. CASE task[p].alone /\ WritesLink(task[p])
        <4>1. spent' = [spent EXCEPT ![u] = @ \cup (Mailed(u) \ new)]
          BY <2>7, <3>3 DEF Answer, Ended
        <4>2. task'[p] = Idle /\ \A q \in Request \ {p} : task'[q] = task[q]
          BY <3>1 DEF TypeOK
        <4>3. \A q \in Request : task'[q].pc # "idle" =>
                 q # p /\ task[q].user # u
          BY <2>0, <3>1, <3>3, <4>2 DEF AloneOnly, Idle
        <4>4. account[u].link \notin Mailed(u) \ new
          <5>1. account[u].link =
                   IF task[p].op = "reset" THEN None ELSE task[p].token
            BY <3>1, <3>3 DEF SpentInv
          <5>2. None \notin Mailed(u)
            BY SessionsAssumption DEF Mailed, Time
          <5> QED  BY <3>3, <5>1, <5>2 DEF WritesLink
        <4> HIDE DEF new
        <4>5. /\ spent'[u] = spent[u] \cup (Mailed(u) \ new)
              /\ \A v \in User \ {u} : spent'[v] = spent[v]
          BY <3>1, <4>1 DEF TypeOK
        <4>6. SpentLinksStaySpent'
          BY <3>1, <4>4, <4>5 DEF SpentInv, SpentLinksStaySpent
        <4>7. (\A q \in Request :
                  task[q].pc = "write" /\ task[q].op \in {"forgot", "create"} =>
                     task[q].token \notin spent[task[q].user])'
          BY <2>t, <4>2, <4>3, <4>5 DEF SpentInv
        <4>8. (\A q \in Request :
                  task[q].pc = "answer" /\ task[q].alone /\ WritesLink(task[q]) =>
                     account[task[q].user].link =
                        IF task[q].op = "reset" THEN None ELSE task[q].token)'
          BY <3>1, <4>2, <4>3 DEF SpentInv, WritesLink
        <4> QED  BY <4>6, <4>7, <4>8 DEF SpentInv
      <3> QED  BY <3>2, <3>3
    <2>8. CASE Tick \/ MailArrives \/ UNCHANGED vars
      <3>1. UNCHANGED <<account, task, spent>>
        BY <2>8 DEF Tick, MailArrives, vars, history
      <3> QED  BY <3>1 DEF SpentInv, SpentLinksStaySpent, WritesLink
    <2>9. CASE Crash
      <3>1. UNCHANGED <<account, spent>> /\ \A p \in Request : task'[p].pc = "idle"
        BY <2>9 DEF Crash, history, Idle
      <3> QED  BY <3>1 DEF SpentInv, SpentLinksStaySpent
    <2> QED  BY <2>1, <2>2, <2>3, <2>4, <2>5, <2>6, <2>7, <2>8, <2>9 DEF Next, Advance
  <1>3. SpentInv => SpentLinksStaySpent
    BY DEF SpentInv
  <1> QED  BY <1>1, <1>2, <1>3, TypeCorrect, AloneCorrect, PTL DEF Spec

-----------------------------------------------------------------------------
(* Links, tokens and ways in.  These three hold without a restart; they    *)
(* are inductive as they stand, given what handlers hold.                  *)

(* A run that has not crashed had not crashed before its last step.        *)
LEMMA NoCrashBefore ==
    ASSUME TypeOK, [Next]_vars, crashes' = 0
    PROVE  crashes = 0 /\ ~ Crash
  <1>1. ~ Crash
    BY DEF Crash, TypeOK
  <1>2. ASSUME NEW p \in Request, NEW u \in User, NEW k, Start(p, u, k)
        PROVE  UNCHANGED crashes
    BY <1>2 DEF Start
  <1>3. ASSUME NEW p \in Request, NEW u \in User, Call(p, u)
        PROVE  UNCHANGED crashes
    BY <1>2, <1>3 DEF Call, CallLogin, CallLogout, CallRefresh, CallForgot,
                      CallReset, CallCreate
  <1>4. ASSUME NEW p \in Request, Advance(p)
        PROVE  UNCHANGED crashes
    BY <1>4 DEF Advance, GetUser, AskRole, Insert, Sign, Write, Answer
  <1> QED  BY <1>1, <1>3, <1>4 DEF Next, Tick, MailArrives, vars

(* The mails that were asked for stay so, whatever the step.               *)
LEMMA MailedGrows ==
    ASSUME TypeOK, Shaped, [Next]_vars
    PROVE  \A m \in Link : fate[m] # "none" => fate'[m] # "none"
  <1>1. CASE UNCHANGED fate
    BY <1>1
  <1>2. CASE \E p \in Request, u \in User : Call(p, u)
    BY <1>2, CallsMark
  <1>3. CASE \E p \in Request : Answer(p)
    BY <1>3, AnswerIsGiven
  <1>4. CASE MailArrives
    BY <1>4, MailIsDelivered DEF MailArrives, TypeOK
  <1>5. CASE \E p \in Request : GetUser(p) \/ AskRole(p) \/ Insert(p) \/ Sign(p) \/ Write(p)
    BY <1>1, <1>5 DEF GetUser, AskRole, Insert, Sign, Write
  <1> QED  BY <1>1, <1>2, <1>3, <1>4, <1>5 DEF Next, Advance, Tick, Crash, vars

(* Tokens in clients' hands stay there.                                    *)
LEMMA HeldGrows ==
    ASSUME TypeOK, Shaped, [Next]_vars
    PROVE  \A u \in User : held[u] \subseteq held'[u]
  <1>1. CASE UNCHANGED held
    BY <1>1
  <1>2. CASE \E p \in Request, u \in User : Call(p, u)
    BY <1>2, CallsMark DEF clients
  <1>3. CASE \E p \in Request : Answer(p)
    BY <1>3, AnswerIsGiven
  <1>4. CASE \E p \in Request : GetUser(p) \/ AskRole(p) \/ Insert(p) \/ Sign(p) \/ Write(p)
    BY <1>1, <1>4 DEF GetUser, AskRole, Insert, Sign, Write, clients
  <1> QED  BY <1>1, <1>2, <1>3, <1>4
           DEF Next, Advance, Tick, MailArrives, Crash, vars, clients

(* What a step does to the row of a user, and to the requests that have    *)
(* written and not answered: they stay where they are but for the one that *)
(* answers.                                                                *)
LEMMA RowsAndAnswers ==
    ASSUME TypeOK, Shaped, [Next]_vars, ~ Crash, NEW u \in User
    PROVE  /\ \A q \in Request :
                 task[q].pc = "answer" /\ ~ Answer(q) =>
                    SameButAlone(task'[q], task[q])
           /\ \/ account'[u] = account[u]
              \/ /\ account'[u].refresh = None /\ account'[u].link = None
                 /\ account'[u].password = "unknown"
                 /\ \E p \in Request : /\ task'[p].user = u /\ task'[p].pc = "sign"
                                       /\ task'[p].op = "create"
              \/ \E p \in Request :
                    /\ Write(p) /\ task[p].user = u
                    /\ account'[u] = Written(task[p], account[u])
                    /\ task[p] \in Task
                    /\ Signs(task[p]) \/ task[p].op \in {"logout", "reset"}
                    /\ Signs(task[p]) => task[p].token \in Time
                    /\ task'[p] = [task[p] EXCEPT !.pc = "answer"]
  <1>0. \A p \in Request : task[p] \in Task /\ HasShape(task[p])
    BY DEF TypeOK, Shaped
  <1>1. ASSUME NEW p \in Request, NEW v \in User, Call(p, v)
        PROVE  /\ account'[u] = account[u]
               /\ \A q \in Request :
                     task[q].pc = "answer" => SameButAlone(task'[q], task[q])
    BY <1>1, CallsMark DEF Idle
  <1>3. ASSUME NEW p \in Request,
               GetUser(p) \/ AskRole(p) \/ Insert(p) \/ Sign(p) \/ Write(p)
        PROVE  \A q \in Request :
                  task[q].pc = "answer" => SameButAlone(task'[q], task[q])
    <2>1. task[p].pc # "answer"
      BY <1>3 DEF GetUser, AskRole, Insert, Sign, Write
    <2>2. \A q \in Request \ {p} : task'[q] = task[q]
      BY <1>3 DEF GetUser, AskRole, Insert, Sign, Write, Goto, End, TypeOK
    <2> QED  BY <2>1, <2>2 DEF SameButAlone
  <1>4. ASSUME NEW p \in Request, GetUser(p) \/ AskRole(p) \/ Sign(p)
        PROVE  account'[u] = account[u]
    BY <1>4 DEF GetUser, AskRole, Sign
  <1>5. ASSUME NEW p \in Request, Insert(p), account'[u] # account[u]
        PROVE  /\ account'[u].refresh = None /\ account'[u].link = None
               /\ account'[u].password = "unknown"
               /\ task'[p].user = u /\ task'[p].pc = "sign" /\ task'[p].op = "create"
    <2>1. /\ task[p] \in Task /\ task[p].op = "create" /\ task[p].user \in User
      BY <1>0, <1>5, StepsOfHandlers DEF Insert
    <2>2. /\ account' = [account EXCEPT ![task[p].user] = [NoAccount EXCEPT !.live = TRUE]]
          /\ task' = [task EXCEPT ![p].pc = "sign"]
      BY <1>5 DEF Insert, Goto
    <2>3. task[p].user = u
      BY <1>5, <2>1, <2>2 DEF TypeOK
    <2>4. account'[u] = [NoAccount EXCEPT !.live = TRUE]
      BY <2>1, <2>2, <2>3 DEF TypeOK
    <2>5. task'[p] = [task[p] EXCEPT !.pc = "sign"]
      BY <2>2 DEF TypeOK
    <2> QED  BY <2>1, <2>3, <2>4, <2>5 DEF NoAccount, Task
  <1>6. ASSUME NEW p \in Request, Write(p), account'[u] # account[u]
        PROVE  /\ task[p].user = u
               /\ account'[u] = Written(task[p], account[u])
               /\ task[p] \in Task
               /\ Signs(task[p]) \/ task[p].op \in {"logout", "reset"}
               /\ Signs(task[p]) => task[p].token \in Time
               /\ task'[p] = [task[p] EXCEPT !.pc = "answer"]
    <2>1. /\ task[p] \in Task /\ task[p].user \in User
          /\ Signs(task[p]) \/ task[p].op \in {"logout", "reset"}
          /\ Signs(task[p]) => task[p].token \in Time
      BY <1>0, <1>6, StepsOfHandlers DEF Write
    <2>2. /\ account' = [account EXCEPT ![task[p].user] =
                                    Written(task[p], account[task[p].user])]
          /\ task' = [task EXCEPT ![p].pc = "answer"]
      BY <1>6 DEF Write, Goto
    <2> QED  BY <1>6, <2>1, <2>2 DEF TypeOK
  <1>7. ASSUME NEW p \in Request, Answer(p)
        PROVE  /\ account'[u] = account[u]
               /\ \A q \in Request :
                     task[q].pc = "answer" /\ q # p => SameButAlone(task'[q], task[q])
    BY <1>7, AnswerIsGiven DEF TypeOK, SameButAlone
  <1>8. CASE Tick \/ MailArrives \/ UNCHANGED vars
    BY <1>8 DEF Tick, MailArrives, vars, SameButAlone
  <1>9. CASE \E p \in Request, v \in User : Call(p, v)
    BY <1>1, <1>9
  <1>10. CASE \E p \in Request : Advance(p)
    BY <1>3, <1>4, <1>5, <1>6, <1>7, <1>10 DEF Advance
  <1> QED  BY <1>8, <1>9, <1>10 DEF Next

(* The link that a row accepts was mailed, or its handler is about to ask  *)
(* for the mail.                                                           *)
THEOREM LinksAreMailed == Spec => []LinkIsMailed
  <1>1. Init => LinkIsMailed
    <2>1. /\ NoAccount.link = None
          /\ [NoAccount EXCEPT !.live = TRUE, !.password = "chosen"].link = None
      BY DEF NoAccount
    <2>2. Init => \A u \in User : account[u].link = None
      BY <2>1 DEF Init
    <2> QED  BY <2>2 DEF LinkIsMailed
  <1>2. TypeOK /\ Shaped /\ LinkIsMailed /\ [Next]_vars => LinkIsMailed'
    <2> DEFINE Asker(p, u) == /\ task[p].user = u
                              /\ task[p].pc = "answer"
                              /\ task[p].op \in {"forgot", "create"}
                              /\ task[p].token = account[u].link
               Known(u) == \/ account[u].link \in Mailed(u) \cup {None}
                           \/ \E p \in Request : Asker(p, u)
    <2> SUFFICES ASSUME TypeOK, Shaped, LinkIsMailed, [Next]_vars,
                        crashes' = 0, NEW u \in User
                 PROVE  Known(u)'
      BY DEF LinkIsMailed
    <2>0. \A p \in Request : task[p] \in Task /\ HasShape(task[p])
      BY DEF TypeOK, Shaped
    <2>1. crashes = 0 /\ ~ Crash
      BY NoCrashBefore
    <2>2. Known(u)
      BY <2>1 DEF LinkIsMailed
    <2>3. Mailed(u) \subseteq Mailed(u)'
      BY MailedGrows DEF Mailed, Link
    <2>4. CASE account'[u].link = account[u].link
      <3>1. CASE account[u].link \in Mailed(u) \cup {None}
        BY <2>3, <2>4, <3>1
      <3>2. ASSUME NEW p \in Request, Asker(p, u)
            PROVE  Known(u)'
        <4>1. CASE Answer(p)
          <5>1. task[p].token \in Time
            BY <2>0, <3>2, StepsOfHandlers DEF Signs
          <5>2. fate'[<<u, task[p].token>>] # "none"
            BY <3>2, <4>1, AnswerIsGiven
          <5> QED  BY <2>4, <3>2, <5>1, <5>2 DEF Mailed
        <4>2. CASE ~ Answer(p)
          <5>1. SameButAlone(task'[p], task[p])
            BY <2>1, <3>2, <4>2, RowsAndAnswers
          <5>2. Asker(p, u)'
            BY <2>4, <3>2, <5>1 DEF SameButAlone
          <5> QED  BY <5>2
        <4> QED  BY <4>1, <4>2
      <3> QED  BY <2>2, <3>1, <3>2
    <2>5. ASSUME NEW p \in Request, task[p].user = u,
                 account'[u] = Written(task[p], account[u]),
                 task[p] \in Task,
                 Signs(task[p]) \/ task[p].op \in {"logout", "reset"},
                 Signs(task[p]) => task[p].token \in Time,
                 task'[p] = [task[p] EXCEPT !.pc = "answer"],
                 account'[u].link # account[u].link
          PROVE  Known(u)'
      <3>1. account'[u].link = IF task[p].op = "reset" THEN None
                               ELSE IF task[p].op \in {"forgot", "create"}
                               THEN task[p].token ELSE account[u].link
        BY <2>5, RowIsWritten DEF TypeOK
      <3>2. task[p].op \in {"forgot", "create"} => Asker(p, u)'
        BY <2>5, <3>1 DEF Task
      <3> QED  BY <2>5, <3>1, <3>2
    <2> QED  BY <2>1, <2>4, <2>5, RowsAndAnswers
  <1> QED  BY <1>1, <1>2, TypeCorrect, PTL DEF Spec

(* The refresh token that a row accepts is one that a client was answered, *)
(* or is about to be.                                                      *)
THEOREM SessionsAreHeld == Spec => []SessionIsHeld
  <1>1. Init => SessionIsHeld
    <2>1. /\ NoAccount.refresh = None
          /\ [NoAccount EXCEPT !.live = TRUE, !.password = "chosen"].refresh = None
      BY DEF NoAccount
    <2>2. Init => \A u \in User : account[u].refresh = None
      BY <2>1 DEF Init
    <2> QED  BY <2>2 DEF SessionIsHeld
  <1>2. TypeOK /\ Shaped /\ SessionIsHeld /\ [Next]_vars => SessionIsHeld'
    <2> DEFINE Giver(p, u) == /\ task[p].user = u
                              /\ task[p].pc = "answer"
                              /\ task[p].op \in {"login", "refresh"}
                              /\ task[p].token = account[u].refresh
               Known(u) == \/ account[u].refresh \in held[u] \cup {None}
                           \/ \E p \in Request : Giver(p, u)
    <2> SUFFICES ASSUME TypeOK, Shaped, SessionIsHeld, [Next]_vars,
                        crashes' = 0, NEW u \in User
                 PROVE  Known(u)'
      BY DEF SessionIsHeld
    <2>0. \A p \in Request : task[p] \in Task /\ HasShape(task[p])
      BY DEF TypeOK, Shaped
    <2>1. crashes = 0 /\ ~ Crash
      BY NoCrashBefore
    <2>2. Known(u)
      BY <2>1 DEF SessionIsHeld
    <2>3. held[u] \subseteq held'[u]
      BY HeldGrows
    <2>4. CASE account'[u].refresh = account[u].refresh
      <3>1. CASE account[u].refresh \in held[u] \cup {None}
        BY <2>3, <2>4, <3>1
      <3>2. ASSUME NEW p \in Request, Giver(p, u),
                   account[u].refresh \notin held[u] \cup {None}
            PROVE  Known(u)'
        <4>1. CASE Answer(p)
          <5>1. Signs(task[p])
            BY <2>0, <3>2 DEF HasShape, Signs
          <5>2. task[p].token \in held'[u]
            BY <3>2, <4>1, <5>1, AnswerIsGiven
          <5> QED  BY <2>4, <3>2, <5>2
        <4>2. CASE ~ Answer(p)
          <5>1. SameButAlone(task'[p], task[p])
            BY <2>1, <3>2, <4>2, RowsAndAnswers
          <5>2. Giver(p, u)'
            BY <2>4, <3>2, <5>1 DEF SameButAlone
          <5> QED  BY <5>2
        <4> QED  BY <4>1, <4>2
      <3> QED  BY <2>2, <3>1, <3>2
    <2>5. ASSUME NEW p \in Request, task[p].user = u,
                 account'[u] = Written(task[p], account[u]),
                 task[p] \in Task,
                 Signs(task[p]) \/ task[p].op \in {"logout", "reset"},
                 Signs(task[p]) => task[p].token \in Time,
                 task'[p] = [task[p] EXCEPT !.pc = "answer"],
                 account'[u].refresh # account[u].refresh
          PROVE  Known(u)'
      <3>1. account'[u].refresh = IF task[p].op = "logout" THEN None
                                  ELSE IF task[p].op \in {"login", "refresh"}
                                  THEN task[p].token ELSE account[u].refresh
        BY <2>5, RowIsWritten DEF TypeOK
      <3>2. task[p].op \in {"login", "refresh"} => Giver(p, u)'
        BY <2>5, <3>1 DEF Task
      <3> QED  BY <2>5, <3>1, <3>2
    <2> QED  BY <2>1, <2>4, <2>5, RowsAndAnswers
  <1> QED  BY <1>1, <1>2, TypeCorrect, PTL DEF Spec

(* A handler about to sign or to write stays there until it does.          *)
LEMMA WritersWait ==
    ASSUME TypeOK, Shaped, [Next]_vars, ~ Crash, NEW q \in Request,
           task[q].pc \in {"sign", "write"}, ~ Sign(q), ~ Write(q)
    PROVE  SameButAlone(task'[q], task[q])
  <1>1. CASE \E p \in Request, u \in User : Call(p, u)
    BY <1>1, CallsMark DEF Idle
  <1>2. ASSUME NEW p \in Request, Advance(p)
        PROVE  SameButAlone(task'[q], task[q])
    <2>1. p # q
      BY <1>2 DEF Advance, GetUser, AskRole, Insert, Answer
    <2>2. \A r \in Request \ {p} : task'[r] = task[r]
      BY <1>2 DEF Advance, GetUser, AskRole, Insert, Sign, Write, Answer, Goto, End, TypeOK
    <2> QED  BY <2>1, <2>2 DEF SameButAlone
  <1>3. CASE Tick \/ MailArrives \/ UNCHANGED vars
    BY <1>3 DEF Tick, MailArrives, vars, SameButAlone
  <1> QED  BY <1>1, <1>2, <1>3 DEF Next

(* An account is entered with a chosen password or a link, or is still     *)
(* being created.                                                          *)
THEOREM EveryAccountIsEntered == Spec => []EveryAccountHasAWayIn
  <1>1. Init => EveryAccountHasAWayIn
    <2>1. ~ NoAccount.live
      BY DEF NoAccount
    <2>2. [NoAccount EXCEPT !.live = TRUE, !.password = "chosen"].password = "chosen"
      BY DEF NoAccount
    <2>3. Init => \A u \in User : account[u].live => account[u].password = "chosen"
      BY <2>1, <2>2 DEF Init
    <2> QED  BY <2>3 DEF EveryAccountHasAWayIn
  <1>2. TypeOK /\ Shaped /\ EveryAccountHasAWayIn /\ [Next]_vars
        => EveryAccountHasAWayIn'
    <2> DEFINE Creator(p, u) == /\ task[p].user = u
                                /\ task[p].op = "create"
                                /\ task[p].pc \in {"sign", "write"}
               Entered(u) == \/ account[u].password = "chosen"
                             \/ account[u].link # None
                             \/ \E p \in Request : Creator(p, u)
    <2> SUFFICES ASSUME TypeOK, Shaped, EveryAccountHasAWayIn, [Next]_vars,
                        crashes' = 0, NEW u \in User, account'[u].live
                 PROVE  Entered(u)'
      BY DEF EveryAccountHasAWayIn
    <2>0. \A p \in Request : task[p] \in Task /\ HasShape(task[p])
      BY DEF TypeOK, Shaped
    <2>1. crashes = 0 /\ ~ Crash
      BY NoCrashBefore
    <2>2. account[u].live => Entered(u)
      BY <2>1 DEF EveryAccountHasAWayIn
    <2>3. ASSUME NEW p \in Request, Creator(p, u)
          PROVE  Entered(u)'
      <3>1. CASE Write(p)
        <4>1. account'[u] = Written(task[p], account[u])
          BY <3>1, <2>3 DEF Write, TypeOK
        <4>2. Signs(task[p]) /\ task[p].token \in Time /\ task[p] \in Task
          BY <2>0, <2>3, <3>1 DEF Write, HasShape, Signs
        <4>3. account'[u].link = task[p].token
          BY <2>3, <4>1, <4>2, RowIsWritten DEF TypeOK
        <4> QED  BY <4>2, <4>3, SessionsAssumption DEF Time
      <3>2. CASE Sign(p)
        <4>1. task'[p] = [task[p] EXCEPT !.pc = "write", !.token = now]
          BY <3>2 DEF Sign, TypeOK
        <4>2. Creator(p, u)'
          BY <2>0, <2>3, <4>1 DEF Task
        <4> QED  BY <4>2
      <3>3. CASE ~ Sign(p) /\ ~ Write(p)
        <4>1. SameButAlone(task'[p], task[p])
          BY <2>1, <2>3, <3>3, WritersWait
        <4>2. Creator(p, u)'
          BY <2>3, <4>1 DEF SameButAlone
        <4> QED  BY <4>2
      <3> QED  BY <3>1, <3>2, <3>3
    <2>4. CASE account'[u] = account[u]
      BY <2>2, <2>3, <2>4
    <2>5. ASSUME NEW p \in Request, task[p].user = u,
                 account'[u] = Written(task[p], account[u]),
                 task[p] \in Task,
                 Signs(task[p]) \/ task[p].op \in {"logout", "reset"},
                 Signs(task[p]) => task[p].token \in Time
          PROVE  Entered(u)'
      <3>1. /\ account'[u].live = account[u].live
            /\ account'[u].link = IF task[p].op = "reset" THEN None
                                  ELSE IF task[p].op \in {"forgot", "create"}
                                  THEN task[p].token ELSE account[u].link
            /\ account'[u].password =
                  IF task[p].op = "reset" THEN "chosen" ELSE account[u].password
        <4>1. account[u] \in Account
          BY DEF TypeOK
        <4> DEFINE row == Written(task[p], account[u])
        <4>2. /\ row.live = account[u].live
              /\ row.link = IF task[p].op = "reset" THEN None
                            ELSE IF task[p].op \in {"forgot", "create"}
                            THEN task[p].token ELSE account[u].link
              /\ row.password =
                    IF task[p].op = "reset" THEN "chosen" ELSE account[u].password
          <5> DEFINE k == task[p]
          <5> HIDE DEF k
          <5>1. k \in Task /\ (Signs(k) \/ k.op \in {"logout", "reset"})
                /\ (Signs(k) => k.token \in Time)
            BY <2>5 DEF k
          <5> QED  BY <4>1, <5>1, RowIsWritten DEF k
        <4>3. account'[u] = row
          BY <2>5
        <4> HIDE DEF row
        <4> QED  BY <4>2, <4>3
      <3>2. CASE task[p].op \in {"forgot", "create"}
        <4>1. task[p].token # None
          BY <2>5, <3>2, SessionsAssumption DEF Signs, Time
        <4> QED  BY <3>1, <3>2, <4>1
      <3>3. CASE task[p].op \notin {"forgot", "create"}
        BY <2>2, <2>3, <3>1, <3>3
      <3> QED  BY <3>2, <3>3
    <2>6. ASSUME NEW p \in Request, task'[p].user = u, task'[p].pc = "sign",
                 task'[p].op = "create"
          PROVE  Entered(u)'
      BY <2>6
    <2> HIDE DEF Entered
    <2> QED  BY <2>1, <2>4, <2>5, <2>6, RowsAndAnswers, ZenonT(60)
  <1> QED  BY <1>1, <1>2, TypeCorrect, PTL DEF Spec

=============================================================================
