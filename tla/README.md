# Verification of the booking-room server

TLA+ modules for the NestJS application in `src/apps/booking-room` (the booking
server) and `src/apps/mail` (the mail service). TLC checks small instances of
the modules; TLAPS proves the theorems of the `*Proofs` modules for every
instance.

## 1. The system

One Node process serves an HTTP API over PostgreSQL (Prisma), with an in-memory
cache (`cache-manager`), an in-process event emitter, two cron jobs, avatars
stored with Cloudinary, and a message over TCP for each mail to a second
process, which queues mails in Redis (Bull) and sends them. A handler runs
without interruption from one `await` to the next; between two awaits any other
handler, listener or job may run.

| Component | State it keeps | Operations | Talks to | What makes it correct |
|---|---|---|---|---|
| Bookings (`bookings/`) | table `Booking`: status, room, slot, creator, admin | create, edit, confirm or reject, cancel; listeners that reject the losers of an approval and send the bookings of a disabled room back to pending | rooms (is the room enabled), cache, events, mail | approved slots exclude each other; a decision is final; an edit is the creator's; the mails agree with the rows |
| Booking jobs (`bookings/cron/`) | none | reject what has expired (every ten minutes), delete old decisions (midnight) | bookings | nothing stays pending after its end; old decisions go away |
| Rooms (`rooms/`) | table `Room`: `isEnable`, name, colour | create, enable and disable, edit, remove | bookings (event on disable, query on remove) | no booking points to a room that is gone |
| Crud service and cache (`crud/`) | cache entries `<model>_<id>` and lists | foundById with fill, updateData, removeData, removeCache | all services | with nothing under way an entry is what the table holds |
| Roles, permissions, guard (`roles/`, `role-permissions/`, `user-permissions/`, `casl/`) | tables `Role`, `RolePermission`, `UserPermission`; cached abilities | create and remove a role, replace the grants of a role or of a user, compute the ability at the guard | users, cache | an update of a role leaves exactly what it listed, one of a user what it listed plainly and nothing unlisted; no grant of a role that is gone; the guard decides by the current grants |
| Users (`users/users.*`) | table `User`: e-mail, names, roleId | create with a link to set a password, edit, assign a role, list | roles, mail | a user has a role that exists, or none; an account can be entered by its user |
| Sessions (`auth/`) | the password and the hashes of one refresh token and one link in `User` | login, refresh, logout, forgot and reset password | users, mail | a token or link that was replaced or used is not accepted again; the one that is accepted is in the user's hands |
| Profile and avatars (`users/profile.*`, `files/`) | files at Cloudinary, column `avatarUrl`, cached profiles | read and edit the profile, upload | users, cache, event to the file listener | the column names a file that exists; nothing is left over |
| Mail (`mail/`, `apps/mail`) | messages in a socket, a Bull queue | event, message, job, send | bookings, users, sessions | without faults each mail is sent once, in order; with faults none is under way for good, and copies are bounded |
| Lists, pages, calendar | cached lists | read only | crud | page arithmetic; a booking appears in its days |
| Catalogues (`permissions/`, `abilities/`) | seeded tables | read only | guard | - |
| Response shaping, error filter | none | - | - | - |

**What is hard here.** No handler of a booking holds a lock or a transaction:
it reads the row (often from the cache), checks it, and writes by id. Whether
the slot is free, whether the booking is pending and whether the room exists
are all checked some awaits before the write. Losers of an approval are
rejected by a listener that lives in memory. Jobs run beside the requests. The
cache is filled with what was read before somebody else's write. Permissions
are replaced from rows read outside the transaction. Tokens are compared with a
hash some awaits before the next hash is written. Nobody waits for a mail or
for a file to be removed. The `hazards` of
`PROJECT.json` list the places, line by line.

## 2. The modules

| Module | What it is |
|---|---|
| `BookingRules` | the rows and the pure functions handlers are made of: the overlap query, the validator of a body, what each write does to a row |
| `BookingLedger` | the abstract specification: each endpoint with its listener, and each job, is one step on the tables and the mails |
| `BookingService` | the detailed specification: requests, listeners and jobs as processes with one step per await, the cache, eviction, restarts of the server |
| `BookingSerial` | `BookingService` served one process at a time, its refinement to `BookingLedger`; and served one request at a time with the jobs beside it |
| `Access` | roles, grants, overrides, the role of a user and the cached ability of the guard, one step per await |
| `Listing` | what clients read of the bookings: the pages of any list, and the calendar, as functions of the table; `BookingLedgerMC` extends it |
| `Sessions` | accounts, refresh tokens and links, one step per await; the mails with links follow `Mailbox` |
| `Mailbox` | the abstract specification of a mail: asked for, delivered or lost |
| `MailPipeline` | the detailed one: event, TCP message, Bull job, processor, transport, crashes and stalled jobs; it implements `Mailbox` |
| `Profiles` | rows of users, avatar files and the three kinds of cache entries that show them, one step per await |
| `*MC` | instances for TLC: bodies that are sent, symmetry |
| `BookingRulesProofs` | lemmas about `BookingRules` that the next two share: the overlap query, what a write does to a row |
| `BookingLedgerProofs`, `BookingServiceProofs` | theorems about whole handlers and what clients read of the table, and about handlers interleaved at every await |
| `BookingSerialProofs` | the refinement of `BookingLedger` by handlers served one at a time; slots with the rejecting job beside requests |
| `AccessProofs`, `SessionsProofs`, `ProfilesProofs`, `MailPipelineProofs` | theorems about the other components |

**State.** `rows[b]`, `room[r]`: the rows of `Booking` and the `isEnable` of
`Room`; "unborn" and "deleted" mean that the table has no such row.
`mail[b]`: the template last sent to the creator about a booking. `now`: the
clock. In `BookingService`, `bookingCache` and `roomCache` are the cache entries
by id, and `task[p]` is what a handler holds between awaits: where it is (`pc`),
its parameters, the row or room it read, and the rows its loop has left.

**Actions.** `Call*` is a request that passed its guard and its validator.
`GetBooking`/`SetBooking` and `GetRoom`/`SetRoom` are `foundById`: a hit is
taken as it is; a miss reads the table in one step and fills the cache in
another. `AskSlot`, `AskEmpty` are the queries, `InsertBooking`, `WriteBooking`,
`WriteRoom`, `DeleteRoom` the writes, `BookingWritten`, `RoomWritten` what runs
when the write was answered: `removeCache`, the mails, the event. `Collect`,
`RejectOne`, `RejectedOne`, `PendAll`, `PendedAll`, `DeleteOne`, `DeletedOne`
are the queries and loops of listeners and jobs. An update of a row that is gone
(P2025) and a reference to a room that is gone end the handler, as they throw.

**Sessions.** A token is a JWT over the id, the e-mail and the second in which
it was signed, so that it is named by that second; `account[u]` is the row with
the second of the token or link whose hash it keeps. `held` and `fate` are what
clients and mailboxes have: only such tokens are presented. `GetUser` reads the
row and makes every check the handler makes of it, `Sign` names the new token,
`Write` is `updateData`, `Answer` what follows. `dead`, `spent` and `alone` are
history: the tokens and links that a request put to an end which no other
request of the user overlapped. A wrong password or an unknown e-mail is a
refusal without effect and is left out. `Mailbox` is instantiated over links
(`Post`): `Sessions` takes its `Ask` and `Deliver`, and a lost mail is one that
never arrives.

**Mail.** `wire` is the socket, `adding` the messages whose `queue.add` is
awaited, `queue`, `active`, `orphans` and `stalls` Bull's lists in Redis,
`outbox` what the transport accepted. Bull is external: jobs are taken in order,
one at a time, and the job of a worker that died is found to have stalled, put
back `maxStalledCount` times and then failed. `MailModule` sets no option of it.

**Profiles.** `userCache`, `listCache` and `profileCache` are the entries under
`user_<id>`, `user_<filter>` and `permissionAbilityCasl_<id>`; `removing` are
the files the listener has asked Cloudinary to destroy. `Written` is what runs
after the update was answered: `removeCache`, then the event. `DestroyFails` is
the `throw` in the callback of `destroy`, which nothing catches.

**Two kinds of administrator.** Whether a new booking is approved at once, and
whose bookings one may cancel, is decided by the permissions of the user's ROLE
(`Approvers`); who may call the confirm endpoint is decided by the guard, which
knows overrides of the user as well (`Confirmers`). The sets are independent
parameters and the theorems hold for any two.

**Access.** `GetRole` to `SetAbility` are the reads, `CreateRole` to
`AssignRole` the writes; the guard's ability is cached under the user's token
and role, of which a user has one here. A transaction (`$transaction`) is one step that
commits, or is rolled back by `RollBack` or by a condition the database checks:
a delete by id of a row that is gone, a pair that is there twice, a role that is
gone. Rows carry an id so that a row deleted and inserted again is not mistaken
for the one a handler still holds; ids nobody holds are used again, which keeps
the state finite and loses no behaviour.
`updateUserPermission` spreads each item of the body, which nothing validates
beyond its two ids, over the row it writes (`{ isEnable: true, userId, ...item }`)
and compares items by their JSON text. An `Item` is therefore more than a grant:
`plain` says that its text is the one the code itself would write, `isEnable` and
`user` what its keys of these names overwrite, `legal` whether the table takes
it at all. `Target` is the user a row is written for, and `UserCommits` has what
PostgreSQL checks of such rows, for whichever users they are.

## 3. The runs

| Run | Question | Result |
|---|---|---|
| `ledger_safety` | do whole handlers keep the promises of the API, and do pages and the calendar show the table? | pass |
| `service_serial` | are the handlers with their awaits, listeners, jobs and caches, served one at a time, the steps of the ledger? | pass |
| `service_jobs` | do approved slots still exclude each other when the rejecting job runs beside single requests? | pass |
| `race_requests` | what survives two requests interleaved at every await? | pass |
| `service_live` | is every request decided and every old decision deleted, restarts included? | pass |
| `access_serial` | does one update of a user's permissions at a time do what it lists, and leave no stale role or user cached? | pass |
| `access_race` | what survives two requests on roles? | pass |
| `sessions` | which tokens and links work, with two requests of a user, a restart, and mails that are late or lost? | pass |
| `mail` | what becomes of a mail, with and without crashes and refused sends? | pass |
| `profiles` | does the avatar exist, is anything left over, and what may the cache show? | pass |
| `race_double` | 'Room already booked' with two requests | violated |
| `access_guard` | does the guard follow an update of a role's permissions? | violated |

Deadlock is not checked: a server that nobody calls may rest, and the ids of an
instance are used up.

### What they show

* **Safety of whole handlers** (`ledger_safety`: two bookings, two rooms, an
  administrator and a member of staff, three clock values). Approving looks neither at
  the slot nor at the room again (`adminConfirmBooking`); that is sound only
  because `ApprovedSlotIsClear` holds: create and edit refuse a slot that is
  approved, an approval rejects the losers, disabling a room sends approved
  bookings back to pending. `OnlyClashesLose` and `NoDoubleBooking` together say
  that the three cases of the overlap query are exactly "share an instant".
* **Lists** (`ledger_safety`). Following `nextPage` from the first page shows
  every row of a table once and ends (`PagesCoverTable`, for every table of up
  to `MaxRows` rows and every size of a page). In every state of the bookings
  and for every span of days, the calendar has a day for whatever its query
  finds, shows it there only, and its hours add up (`CalendarIsWhole`). The
  bookings of the last second of the last day are not found: the query says
  "before 23:59:59".
* **Refinement** (`service_serial`). `ImplementsLedger` maps the state in which
  the last process finished to the ledger: every request is one ledger step or
  none. A cached row or room never changes a decision, because `CachesAreFresh`.
  `BookingService` as a whole does not implement the ledger: `race_double` is
  where it does not.
* **Jobs beside requests** (`service_jobs`). The job overwrites by id what it
  found expired, possibly a booking that was approved since: that turns an
  approved booking into a rejected one but leaves slots clear.
* **Races** (`race_requests`). Even a handler that decides by an old row cannot
  leave an approved booking without the administrator who approved it
  (`ApprovalsAreSigned`: status and `modifiedByAdminId` are one write), a
  booking whose room is gone (`RoomsExist`: the foreign key), or a slot moved by
  somebody else (`OwnersMoveSlots`: the creator never changes, so an old row is
  as good as a new one for that check).
* **Liveness** (`service_live`). A request that nobody decides is rejected by
  the job after its end, whatever one run of the job loses to an exception or a
  restart, because the next run asks again.
* **Permissions** (`access_serial`, `access_race`). After
  `updateUserPermission` a user may do nothing that was not in the list that was
  sent, and all that was in it plainly (the two ids and nothing else, in the order
  in which the code spells them), and a user whom no item names may do what he
  could, whatever the role grants, whatever overrides there were and whatever
  keys other items have (`UserGetsRequest`, over the `ArrayPermissionAbilityCasl`
  of the code). It promises nothing of items with further keys: see below. Two updates of a role that has
  grants do not mix (`RoleGetsRequest`): each deletes the rows it read by id, and
  a row that is gone makes the transaction throw. An update that found no rows
  has nothing to delete: it mixes with those it overtakes, so that the property
  leaves these out (`overtaken`).
* **Sessions** (`sessions`). After a logout, a login or a refresh that ran alone,
  no token that clients had before is accepted again, whatever overlaps later
  (`DeadTokensStayDead`), and likewise for links (`SpentLinksStaySpent`): a
  handler only ever writes a token it has just signed, never the one it read.
  What the row accepts is in somebody's hands or about to be
  (`SessionIsHeld`, `LinkIsMailed`), also when two handlers overwrite each
  other's hash, because a handler answers, or mails, whatever it wrote even if it
  was overwritten since. So of two logins at once one client keeps a session and
  the other has a token that never works. An account always has a password that
  its user chose, or a link (`EveryAccountHasAWayIn`).
* **Mail** (`mail`). Without faults every mail that was asked for is sent, once
  and in order (`CleanRunDelivers`, `CleanRunIsFifo`): of two links the newer
  arrives last. A reader gets a copy only after a worker died
  (`CopiesNeedStalls`). With faults a mail may be lost in four places: emitted
  without a connection, in the socket of a service that stops, refused by the
  transport, or given up as stalled; that is all that `Mailbox` allows for, and
  the pipeline implements it, fairness included (`KeepsPromise`).
* **Profiles** (`profiles`). An upload destroys the avatar it read, possibly from
  the cache and possibly long replaced, and in its catch the one it stored: never
  one that a row names (`AvatarExists`), since each upload has a url of its own.
  Single requests leave nothing behind (`NoLeftovers`); of two that cross, one
  file may stay for good. Entries of users and lists that a fill made stale are
  gone with the next update that runs by itself (`CachesAreFresh`).

### Disagreements between the code and its own messages

* `race_double`: two creates of administrators both find the slot free and both
  are approved.
* `access_guard`: `removeCache('permissionAbilityCasl')` looks for a prefix that
  no key has, because `getCacheKey` writes keys in snake case: cached abilities
  stay until their ttl.

Seen while modelling, in the models too, but without a run of their own:

* a restart between an approval and its listener leaves the losers pending and
  approvable (`race_double` with one request and `MaxCrashes = 1` shows it);
* `removeRoom` looks for bookings, then deletes: a booking inserted in between
  loses its room by `ON DELETE SET NULL`, and the cached booking keeps it;
  `removeRole` and users likewise;
* a confirm that read "pending" writes "approved" over a cancellation that came
  in between, although a decision is final by 'You can only edit pending booking';
* a body with `startTime` alone is compared with nothing but the clock, so that a
  booking may start after it ends ('endTime must be greater than startTime');
* two updates of a role, one of which found it without grants, both commit and
  mix (`RoleGetsRequest` without its conditions);
* a grant of the role that a body spells with `abilityId` first, or with any key
  more, is taken away by `updateUserPermission`, which compares JSON texts
  (`UserGetsRequest` for items that are not `plain`);
* an item that the role does not grant is spread over its row last: with
  `isEnable` false it is written as disabled, and with a `userId` for that user
  and not for the one in the path, although the answer is 'Update permission for
  user successfully' (`UserGetsRequest` for such items, or without the condition
  that no item names the other user);
* a refresh that overlaps a logout stores a new token after it: the session goes
  on (`DeadTokensStayDead` without `alone`);
* a restart after `createUser` inserted the row leaves an account without a link,
  and creating it again is refused; a restart between the link's hash and its
  event leaves a hash of a link nobody has (`EveryAccountHasAWayIn`,
  `LinkIsMailed` without `crashes = 0`). Asking for a link helps in both cases;
* cached profiles are under a key that `removeCache` of no service finds, so that
  a profile shows what was read before an update until its ttl;
* a list asked for without a size has `page + 1 > NaN`, which is false: its
  `nextPage` is never null;
* a filter of the calendar that names `startTime` replaces the span of days, and
  a booking found outside it has no day to be added to, which throws;
* `deleteRejectOrCancelBookingOlderThanWeek` does not await its deletes.

### Bounds, and why they are enough

* Two bookings where the property is about a pair, that is for slots and for the
  refinement; an approval then has one loser at most, and the loop over the
  losers is left with nothing after it. One booking in `race_requests`
  and `service_live`, whose properties are about one row.
* One room in the interleaved runs and two in `ledger_safety`, where edits move
  bookings between rooms.
* `MaxTime` 1 or 2: with 2 there are slots that touch, contain each other and
  share one bound, and slots in the past, present and future; with 1 there is
  one slot, which is enough where the question is the order of steps.
  `KeepTime` 1 stands for the week after which a decision is deleted.
* `Request`: two for races, one for the serial and liveness runs (where it also
  stands for requests that wait for each other). A listener
  runs as a part of the request that emitted its event.
* `Body`: `RoomBody` moves a booking to another room or to none; `MoveBody` adds
  a start that leaves a slot without any instant; `ledger_safety`
  sends every body that passes the validator.
* `MaxCrashes` 1: a restart forgets everything but the tables, so that a second
  one starts from a state of the same kind.
* `Access`: a seeded role and one that is created. `access_race` has two grants,
  which it takes to see the grants of two updates mix, one user, and plain bodies
  of one item or none: what items overwrite is not its question. `access_serial`
  has one grant and two users, one of whom calls and is updated (`Called`) while
  items may name the other; its bodies have up to two items of every kind: plain,
  spelt otherwise, disabled, for the other user, refused by the table. One grant
  is enough to have two items of a pair collide or not, and what an update
  does to one grant does not depend on the others but for the rollback. Random
  walks with two grants found nothing more.
* `Listing`: `MaxRows` 5 has pages that divide the table and pages that do not;
  `DayLength` 2 with `MaxTime` 2 has spans of one and two days, and bookings at
  the first and the last second of a day.
* `Sessions`: one user, since nothing relates the rows of two; two requests, so
  that each await of one can be crossed by all of another; three seconds with
  tokens that live for two, so that tokens are signed in the same second, replace
  each other and expire. `Inactive` is empty: an inactive user is refused.
* `Mail`: three mails, for order; two faults, for a crash while a job that was
  already put back is worked on.
* `Profiles`: one user, three files and two requests: the old avatar and those of
  two uploads that cross.
* Random walks of larger instances (three requests, two users, four mails, five
  files, three seconds more) found nothing that these miss.
* Bookings, rooms, requests, grants, files, and the called users of `Access`, are symmetric;
  administrators and staff are not. Symmetry is used where no
  liveness is checked: `service_live` and `mail` have none.

## 4. Fairness

`FairSpec` of `BookingService` assumes weak fairness of `Advance(p)` for every
process (Prisma and the cache answer every call, and Node resumes the handler),
of `CallCron` (`@nestjs/schedule` calls the jobs as long as the process runs)
and of `Tick`. Users owe nothing: no `Call` of a request is fair. A job is not
started while its last run is under way; the ten-minute job does not take ten
minutes.

`FairSpec` of `MailPipeline` assumes that the mail service, while it runs, takes
what there is (its event loop and Bull's), that the transport answers somehow,
that Bull looks for stalled jobs, and that a service that stopped is started
again. Nobody has to ask for a mail and no fault has to happen: `SendFails` is
fair only as one of the two answers of the transport, and `MaxFaults` bounds it.

## 5. The proofs

TLAPS proves for every value of the constants what the runs check on one
instance. All that is assumed are the named assumptions of the modules
(`RulesAssumption`, `ListingAssumption`, `ServiceAssumption`,
`AccessAssumption`, `SessionsAssumption`, `ProfilesAssumption`,
`PipelineAssumption`): that markers such as `NoRoom` or `None` are no values,
that bounds are natural numbers, that approvers and confirmers are users, any
two sets of them; in `Access` also that those who call are users, that bodies
have items, and that there are finitely many grants and requests. TLC evaluates each of them. A few theorems have a hypothesis of their
own, which is named below; those about `Listing` say that there are finitely
many bookings, as do those that count the steps of a handler, and
`PipelineRunsDry` that there are finitely many mails.

In the interleaved modules what a handler holds depends on the step it is at.
`HasShape(k)` says it, `Shaped` says it of every process, and neither `TypeOK`
nor `Shaped` is inductive without the other: each `TypeCorrect` proves the two
together. Each module then has lemmas that list what one step can do to a task,
to a row, to a cache (`TasksMove`, `StepsKeepRows`, `BookingCacheMoves`, ...),
so that the theorems argue by what happens to a row and not by handler.

### `BookingLedgerProofs`

* `TypeCorrect`: `Spec => []TypeOK`.
* `NeverDoubleBooked` and `ConfirmationsNeedNoCheck`: `NoDoubleBooking` and
  `ApprovedSlotIsClear`. Neither is inductive. Both speak of clashes, pairs that share an instant, while the code
  decides by the overlap query, which also finds slots without any instant (an
  edited start can make them); and an approval preserves the first only if no
  request that would clash was pending. The invariant is `SlotsClear`: the slot
  of an approved booking is not found, in either direction that the handlers
  use, for any other approved or pending booking of its room
  (`SlotsStayClear`). A lemma on the three cases of the query shows that a clash
  is always found, which gives the two properties.
* `RoomsStayForBookings`: `RoomsExist`, inductive with the types; removing a
  room needs that no booking of any status has it.
* `MailsTellStatus`: `MailTellsStatus`, by cases on the writers of a row.
* `DecisionsStayFinal`, `ApprovalsStand`, `OnlyClashesAreRejected`: the action
  properties, from one lemma that lists the changes a step can make to one row.
* `CalendarShowsAll`: `CalendarIsWhole`, for any finite set of bookings and any
  length of a day. That the days of the query are those asked for, and that each
  booking is found on one day, is arithmetic of `\div` (`DayOf`, `DaysAsAsked`,
  `ItemsOfDays`). The hours are sums over sets, which the community modules
  define as recursive functions; that such a function exists, that there is only
  one and that a sum splits over disjoint sets is shown by induction over the
  parts of a finite set (`SubsetInduction`, `SumsExist`, `TotalWithout`,
  `TotalOfUnion`). The library's rule of induction has an operator as parameter;
  the induction here is over a set of sets instead, and rests on the least
  element of a set of numbers.
* `PagesShowAll`: `PagesCoverTable`. `WalkCovers` says it of every sequence of
  rows and every size of a page: one page and the rest of the rows are what was
  left (`AfterSplits`), `nextPage` is null exactly on the page that takes all
  that is left (`LastPage`), and what a client sees is shown from the last page
  back to the first (`WalksAgree`).

### `BookingServiceProofs`

Any number of requests, listeners, jobs and restarts, interleaved at every
await. `StepsKeepRows` says that a step leaves a row, creates it, edits it,
settles it, deletes it or takes its room away, and by whom.

* `ApprovalsAreAnswered`, `NoDanglingRooms`: `ApprovalsAreSigned` and
  `RoomsExist` follow from that list. The second holds because the write itself
  refuses a room that is gone, not because a handler looked.
* `OnlyOwnersMove`: `OwnersMoveSlots`. A handler compares the user with the
  creator in the row that it read, and writes by id, so that the property is
  about what it read. The invariant is `OwnersInv`: the rows in the cache and in
  the hands of handlers are `Known`, that is stale in everything but the
  creator; and an update that has read its row is its creator's.
* `HandlersEnd` and `HandlersAreBounded`: no handler, listener or job runs for
  ever. `StepsLeft` counts what a task has ahead: the steps on the longest way
  from where it is to the loop of its listener or job (`BeforeLoop`), and the rounds of
  a loop over what its query found (`Rounds`). Every step of a process makes it
  smaller, and no step of another makes it larger (`Finishing`), although others
  create, change and delete the very rows it goes through: a loop goes over what
  was found, not over what is there. It is at most `3 |Booking| + 11`, and 0
  only of an idle process. With the weak fairness of each process that `FairSpec`
  assumes, a task that began ends, which is what `PendingIsDecided` and
  `OldAreDeleted` need of the jobs.

### `BookingSerialProofs`

* `LedgerImplemented`: `ImplementsLedger`, the whole refinement: every step of
  `SerialSpec`, of whichever handler, listener or job, is a step of
  `BookingLedger` on `settled` or a stutter. Only the last step of a process
  changes `settled`, and by then it has written long ago, so that the invariant
  has to carry the ledger's step from the write to the end. `Final(S, k)` is what
  the tables `S` will be when task `k`, its listener included, has done all it
  has left. `UnderWay` says: before the write, the tables are as they were when
  the request arrived, the parameters passed the validator (`Asked`), and what
  the handler has read, from a cache or not, is what the tables hold and let it
  go on (`HasRead`); from the write on, `Step(settled, Final(Tables, k))`. The
  write is where the step of the ledger is made; every later step leaves `Final`
  as it is (`SameFinal`); at the end it is the tables (`NothingAhead`).
* `CachesFresh`: `CachesAreFresh`, of the same invariant: between a write and its
  `removeCache` the entries of that model are not claimed to be fresh, otherwise
  they are.
* `JobsKeepSlotsApart` and `JobsLeaveSlotsClear`: `NoDoubleBooking` and
  `ApprovedSlotIsClear` of `JobsSpec`, where the rejecting job takes its steps
  between any two of a request. A row in the cache or in a handler's hands can be
  older than the job's last write, so freshness is no invariant here. `JobsInv`
  asks less of it (`Current`): its slot is the booking's, and if it says pending,
  the booking's slot is `Clear` of approved ones and the booking itself is not
  approved. A pending booking whose slot is not clear is in `Doomed`: what the
  approval under way, or its listener, has yet to reject. `Closing` is what every
  rejection, by listener or job, and every return to pending has in common: no
  slot moves and nothing gets approved; it keeps all of that as it is
  (`ClearStays`, `SoundStays`, `DoomedStay`).
  With both jobs the theorems have the hypothesis
  `[][ListenersFinish]_serialVars`: no step deletes a booking that a listener has
  found and not yet rejected. It is needed: a booking that a listener found can be
  rejected by the other job, kept for `KeepTime` and deleted before the listener
  comes to it; the update then throws, the rest of the loop is lost, and with
  `KeepTime = 0` and three bookings TLC finds a pending request left beside an
  approval. The code justifies it: `KeepTime` is a week, and the listener would
  have to run as long, between an approval and at most one update for each pending
  request of the room (`HandlersEnd`). Everything else that the deleting job can
  do is in the theorems: rows a handler has read may be gone (`DeletedIsNowhere`),
  and then its write throws and changes nothing.
* `RejectingKeepsSlotsApart` and `RejectingLeavesSlotsClear`: the same where
  `Cron \subseteq {"rejectExpired"}`, the instance of the run, without that
  hypothesis. Nothing is deleted there (`NothingIsDeleted`), so that it holds of
  itself.

### `AccessProofs`

* `TypeCorrect`: with `TypeOK` and `Shaped`, the unique columns (`RowsAreUnique`:
  an id, and a pair of a role or user and a grant, is there once). It needs that
  there is an id nobody holds whenever rows are inserted, which is the pigeonhole
  in `FreeId`, and why grants and requests have to be finite.
* `GrantsHaveRoles`: `RolesExist`, from the conditions the database checks at
  commit.
* `RoleUpdatesAreWhole`: `RoleGetsRequest`. Of the rows that an update has read,
  either all are still there, and then they are all that the role has, or one is
  gone, and then it is gone for good, since its id is not used again as long as
  it is held (`UpdatesAreCurrent`). In the second case the delete by id
  makes the transaction throw.
* `SerialCachesAreFresh`, `SerialUserUpdatesAreWhole`: `CachesAreFresh` and
  `UserGetsRequest` if there is one request process (`OneAtATime`), as in
  `access_serial`; with two they are false. `FreshInv` says at which steps of the
  request the caches and what it has read are what the tables hold. Of the rows
  that an update writes (`NewOverridesAreRows`), those that come from items have
  grants the role has not, those that disable have grants the role has and no
  plain item lists; so a plain item's grant is either left to the role or written
  as enabled for the user of the path, and its row cannot be joined by a disabled
  one, since two rows of one user and grant undo the transaction.

### `SessionsProofs`

* `DeadTokensAreDead`, `SpentLinksAreSpent`: `DeadTokensStayDead` and
  `SpentLinksStaySpent`. Not inductive alone: a handler that has signed a token
  writes it later. `DeadInv` and `SpentInv` add that a token waiting to be
  written is not dead, and that until a request that ran alone has answered the
  row has what it wrote.
* `LinksAreMailed`, `SessionsAreHeld`: `LinkIsMailed` and `SessionIsHeld`; what
  is mailed and held only grows, and what a handler wrote stays in its hands
  until it answers.
* `EveryAccountIsEntered`: `EveryAccountHasAWayIn`.

### `MailPipelineProofs`

* `DuplicatesNeedStalls`: `CopiesNeedStalls`. Copies are counted over the wire,
  the queues, the worker and the outbox; each step moves a copy, drops it, or
  puts it back and counts a stall (`StepsOfMails`). Lemmas say how `Copies`
  counts over concatenations.
* `CleanRunKeepsOrder`: `CleanRunIsFifo`. Invariant `NothingOvertakes`: what is
  delivered, in the worker's hand, queued, being added and on the wire, one
  after the other, is `asked`.
* `PromiseIsKept`: the safety half of `KeepsPromise`, `Promise!Init` and
  `[][Promise!Next]` with the fate of each mail computed from where its copies
  are. It uses `CopiesInv`, which adds to `CopiesNeedStalls` that nothing is
  anywhere that was not asked for. The fairness half stays with TLC.
* `PipelineRunsDry`: every step, crashes and restarts included, makes `Work`
  smaller, a natural number (`Draining`): a mail not yet asked for counts 6, and
  less at each place it reaches; a job without a worker counts 4, because it is
  put back into a queue where it counts 3; a fault that can still happen counts
  5, which pays for the job that a crash takes from the worker and for the
  restart. So there is no endless run for any finite set of mails and any
  `MaxFaults`, whatever `MaxStalls` is.
* `RestIsSettled`: where nothing is under way every mail asked for is delivered
  or lost, and without a fault the outbox is exactly `asked`. The two theorems
  are what `CleanRunDelivers` and the fairness of `KeepsPromise` rest on; that the
  pipeline only rests there, as some fair step is enabled everywhere else, stays
  with TLC.

### `ProfilesProofs`

* `AvatarsExist`: `AvatarExists`. A file is destroyed by whoever read its url,
  possibly long ago. `FilesInv`: a file is known to one user only (`OnlyOf`); a
  file that an upload has stored but not yet written to a row is in no row, no
  cache and no other hands, and not being removed.
* `CachesStayFresh`: `CachesAreFresh`, and `NothingIsLeft`: `NoLeftovers`, each
  from an invariant about single requests (`FreshInv`, `CleanInv`) that accounts
  for what the request under way has read and for every stored file.

### Only model-checked

* Liveness: `PendingIsDecided`, `OldAreDeleted`, `CleanRunDelivers` and the
  fairness of `KeepsPromise`. Fairness and `ENABLED` are out of the prover's
  reach here. What is proved of them are the variants: that handlers, jobs and the
  pipeline take finitely many steps (`HandlersEnd`, `PipelineRunsDry`) and what
  holds when they have (`RestIsSettled`).
* `NoDoubleBooking` of `BookingService` and `GuardIsCurrent` are false
  (`race_double`, `access_guard`).

## 6. What is not modelled, and why

* Names, colours, descriptions and reasons of rooms and bookings, and the edit
  of a room or role that changes no more than these: no decision depends on them.
* The mails that ask approvers to decide, and what mails say: only the template
  last sent to a creator, and which link a mail has, are kept.
* `removeCache` is one step: its loop deletes keys one after another, and
  nothing reads between two deletes but entries it is about to delete.
* Cached lists of rooms, roles and bookings, which are filled and dropped by the
  same code as those of users.
* Answers of the database that are lost after a commit: the handler would throw
  although the row is written. For an upload that means an avatar that is
  destroyed although the row names it.
* Items of a user's permissions that name an `id`: the row gets an id that nobody
  holds, or the transaction is rolled back. That it may be the id of a row that
  was deleted and that a request under way still holds is left out.
* The inside of a transaction. That it is one step, and that Prisma's delete by
  id of a row that another transaction deleted first throws, is taken from the
  way `updateRolePermission` relies on it; Prisma and PostgreSQL are not in the
  repository. If two deletes of one row could both succeed, `RoleGetsRequest`
  would not follow.
* Access tokens that expire, and the time bcrypt takes: a handler waits for it
  as for anything else.
* Time zones of the calendar, daylight saving and the rounding of its hours.
* Overlap of a job with itself.
* Shaping of answers, error filter, e-mail templates, and the seeding scripts
  themselves: they keep no state, or run before the server does.

## 7. Plan

A listener of a disabled room with restarts, and two updates of one user's
overrides at a time, once there is a promise of the API to check them against.
