# A formal model of the SomNOG backend

TLA+ modules that describe the SomNOG service delivery backend (three NestJS
services behind a gateway, talking over RabbitMQ), TLC configurations that
check them on small instances, and TLAPS proofs of what matters most for every
size of instance.

## The system

| Component | State it keeps | Operations | Talks to |
| --- | --- | --- | --- |
| gateway | none | HTTP to RPC, JWT and role guards | RPC to every service |
| events-service: registrations | `registrations`, `waitlist` | create, approve, reject, cancel, checkIn | reads event, sessions, form; publishes `registration.*` |
| events-service: events | `events`, `sessions`, `registration_forms`, `form_fields`, `event_roles` | create, update, publish, cancel, sessions, forms | publishes `event.*`; cascades into registrations |
| events-service: categories | `categories` (a tree) | create, update, tree | |
| events-service: reminders | none (an hourly cron) | emitDueReminders | publishes `event.reminder_due` |
| notification-service: intake | `notifications`, `preferences` | consumers of `user.*`, `event.*`, `registration.*`; direct messages, retry, preferences, markRead | RPC to auth for addresses; BullMQ queue |
| notification-service: delivery | `notifications`, the BullMQ queue | process, with attempts and backoff | templates, SMTP |
| notification-service: templates | `templates`, a cache in memory | render, upsert | |
| auth-service | `users`, `refresh_tokens`, `verification_tokens` | register, login, refresh, logout, verify, reset and change password, roles, profiles | publishes `user.*` |
| libs: rpc, filters, ack, slugs | none | timeouts; error shapes; ack after the handler, nack without requeue | RabbitMQ |

Requests arrive as RPC messages on durable queues with `prefetchCount: 10`, so
ten handlers of one service run at once, interleaved at every `await`. A
message is acknowledged when its handler ends; if the process dies first,
RabbitMQ delivers it again from the start. A handler that throws drops its
message. Clients may send any request again.

What is hard in each component, and what makes it correct:

* **registrations**: capacity read before the transaction that uses it; writes
  that do not look at the status they overwrite; a waitlist kept in a second
  table that only create and cancel maintain; redelivery after a commit; reads
  between a commit and its publish, which may fail. Right means: no overbooking,
  one registration per person and place, a waitlist that agrees with the
  registrations, promotion in order and only for a freed seat, every outcome
  announced.
* **events**: check-then-act in publish, deleteSession, the slug and the keys of
  forms; forms replaced at READ COMMITTED. Right means: cancelled stays
  cancelled, registrations are never cascaded away, affected people are warned,
  an answer belongs to one question, nothing ends before it starts.
* **categories**: the parent relation is a forest only if nobody moves a
  category below itself. Right means: the tree shows every category.
* **reminders**: nothing records what was reminded, so the width of the window
  must make up for a missed run.
* **notifications**: the row and the queue are two systems; at-least-once
  delivery on both sides; retry beside automatic attempts. Right means: each
  recipient of a fact gets an entry or had opted out, one mail per entry, no
  delivery without a job that will finish it.
* **templates**: a cache that an edit must invalidate under renders in flight.
* **auth**: check-then-act on tokens; revocation racing issue; a token spent
  before what it is for is done. Right means: tokens and links work once, a
  password change ends the earlier sessions, whoever registers gets a link.

`PROJECT.json` lists every component and every hazard with its line.

## The modules

| Module | Stands for |
| --- | --- |
| `EventsDb` | tables, requests and queries the two halves of registrations share |
| `Registrations` | `RegistrationsService`: one action per database access or publish |
| `Events` | `EventsService` as far as registrations see it: capacity, publish, cancel, workshops, the form's switches |
| `EventsService` | both behind RabbitMQ: delivery, crash and redelivery; `Spec`, `FairSpec`, the properties |
| `SeatLedger` | abstract: who holds and who waits for a seat at one place |
| `Slugs`, `PlanningDb` | slugs on words; tables and requests of the organisers' side |
| `Categories`, `EventPlans` | `CategoriesService`; `EventsService`'s create, dates, roles, tracks and form fields |
| `Planning` | both behind RabbitMQ, with the properties |
| `Templates` | `TemplatesService` |
| `Notifications` | consumers, enqueue, retry, preferences, the delivery worker, crashes and failing calls |
| `Mailbox` | abstract: what the notification service promises a publisher |
| `Accounts`, `Gateway` | the auth service; the gateway's guards, which decide what reaches it |
| `Reminders` | `RemindersService` |
| `Conference` | `EventsService`, `Reminders` and the `Mailbox` joined by the bus |
| `MC...` | the instances of the runs: workloads, values, symmetry |
| `EventsService_proofs`, `Admission_proofs`, `Ledger_proofs` | theorems about `EventsService`, for every value of the constants: types; seats, queues, announcements; the refinement of `SeatLedger` |
| `Notifications_proofs`, `Delivery_proofs` | ... about `Notifications`: types and the refinement of `Mailbox`; mails, jobs, opt-outs, templates |
| `Gateway_proofs`, `Planning_proofs`, `Conference_proofs` | ... about `Gateway`, `Planning`, `Conference` |

Two abstract specifications are implemented. `EventsService!ImplementsLedger`
maps registrations to `SeatLedger` at each place (seat holders who passed
create's test or took over a counted seat are `counted`, others `extra`).
`Notifications!ImplementsMailbox` maps rows and messages to `Mailbox`. The
composition uses the second: `Conference` contains `Mailbox` itself in place of
the notification service, which is sound because the service implements it.

A definition `X_Slip` (any suffix) next to `X` is `X` with a plausible mistake;
only mutation runs use it. Variables marked "history" are never read by an
action but to update history.

## How state and actions correspond to the code

### The events service: registrations

* `regs` is the `registrations` table, `waitlist` the other, both of ONE event:
  every query of the service that touches them filters on one `eventId`. A place
  (`Places`) is a workshop or the event itself (`EventLevel`, `sessionId` null).
* `calls[c]` is the handler running in slot `c`: what it has read (`cap`,
  `approval`), where it is (`step`) and how it will answer. `start` is before
  its first database access; `tx` is create between its reads and its
  transaction; `write` is the update after a check (checkIn, publish,
  deleteSession); `announce` and `promoted` are the publishes after the commit.
* A transaction is one action. Both run `Serializable`, which in PostgreSQL makes
  them equivalent to some order; the other writers run READ COMMITTED but write a
  single row without reading it, so they too can be put into that order. A
  transaction PostgreSQL aborts (`TxAborts`) may be any one: the conflict may
  come from another event's rows on the same page, or from Prisma's timeout.
  Nothing retries it.
* The first read of approve, reject and cancel fetches only columns that never
  change (user, event, session), so it is part of the write. The reads of
  update, createSession and upsertForm carry nothing into their write either.
  checkIn, publish and deleteSession decide on what they read: there the read is
  an action of its own.
* `assertCanManage` is left out here (`EventPlans` has it): a caller it refuses
  changes nothing.
* `capacity` uses 0 for both null and 0, which the code treats alike. `form` is
  whether registration is open at the moment (`isOpen` and the window) and
  whether it needs approval; no form is open without approval.
* `create.answered` stands for the outcome of `assertAnswers`.
* approve, reject and cancel read the database between their write and their
  publish. `AnnounceFails` is such a read failing: the answer is INTERNAL, the
  write stands and nothing more is announced. create and checkIn publish without
  an await, so nothing of theirs can fail there. `CancelledEventFails` is the
  same for the query that collects whom `event.cancelled` is for.
* `Deliverable`: a registration is named once it exists (its id and ticket are
  random and given out by create); a workshop name is created once.
* History, which no action reads but to update it: `told` is the last
  announcement about each registration, `ASTRAY` if it was lost after its commit
  (a crash, a failed read) or published when the row had moved on; `peak` the
  largest capacity a place ever had (0 if it was ever unlimited); `uncounted` the
  registrations that got their seat without create's test or a freed seat;
  `revived` those brought back from CANCELLED and not cancelled since; `unwarned`
  those that became PENDING, CONFIRMED or WAITLISTED at a cancelled event when
  nobody would collect the recipients any more, or that a failed collection left
  out.

### The events service: planning

* `Slugs` takes a name as the words slugify keeps or drops; "Talk 2" and the
  second candidate for "Talk" are one slug. The cut after 80 characters is left
  out. uniqueSlug's look-ups are one action each (`LooksForSlug`), the insert
  another; `beaten` remembers that another request took the candidate since.
* `Category.parent` may be anything update lets in. `Tree` is the nodes a caller
  reaches from the roots `tree()` returns, among the rows it listed; `Under`
  goes down from them level by level, at most once per category.
* `EventPlans` keeps dates, roles and the keys of forms. `unchecked` remembers
  rows whose dates were written without being compared. Whether a workshop still
  has registrations is not known here, so `DropTrack` may go either way.
* Both form upserts run in a transaction at READ COMMITTED and are two actions:
  `...Clears` up to deleteMany, which sees the rows committed by then (`seen`),
  and the insert with the commit. In between another upsert of the same form may
  commit, whose rows the deletion did not see: the form then has both lists, or
  the insert meets a key that is taken and everything is undone. Two upserts that
  both create the form row collide on its unique index (`BeingCreated`). An upsert
  that changes a column of the form row locks it; those are the behaviours in
  which nothing comes in between.
* A field carries history: `no`, the upsert of its form that inserted it, and
  `against`, how many upserts of the event's form had committed when a track's
  field was compared with it.
* `EventRole` has only OWNER rows: no operation of the service assigns another
  role. `assertExactlyOneOwner`, which a comment in the schema names, does not
  exist; the two upserts each write one owner.

### The notification service

* `slots` are the handlers, `todo` the recipients of a fan-out still to come in
  whatever order. enqueue is up to three actions: the preference, the row, the
  job. A crash between any two is possible; a redelivery starts over.
* `jobs` is BullMQ's queue. The worker's concurrency is 1, the default. A job
  is retried until its attempts are used up (backoff is "later"); a job whose
  process died is taken up again once (`maxStalledCount` 1) and then given up.
* The worker's steps are process's awaits: TakeJob (read and SENDING), ReadTemplate,
  CompileTemplate, SendMail, MarkSent, CatchFailure; each call can fail.
* `excuses` counts why a mail may be sent again, `stranded` holds rows that lost
  their job, `declined` those whose user had opted out when the fact was
  published.

### The auth service and the gateway

* A session is a refresh token and the access token issued with it; signing and
  hashing give back the number of the row. `age` is the passage of time for
  both tokens.
* `epoch` counts password changes and reuse alarms; `issued` and `read` are the
  epochs in which a session's handler wrote it and read what entitled it.
* login's last update (`lastLoginAt`) and what follows the last write of a
  handler are not steps of their own: a crash there is a client that repeats
  the request.
* `Gateway!Admitted` says which requests reach the service: the guards check the
  access token's expiry and role claim, nothing else.

### The composition

`Conference` runs one event. A publish of a handler takes a fact with its key and
recipients out of `Facts`; the notification service's side is `Mailbox`. Time is
counted in half hours: the job is due on the hour, may start a little late and
may be missed.

`FactsOfTheEvent` gives each kind of message as many identities as the
requests of a run can publish, so that no handler stops for want of a fact.

## The runs

`s` slots, `u` users, `r` registrations ever created, `k` crashes.

| Run | Workload | Bounds | Checks |
| --- | --- | --- | --- |
| `desk` | register for the event, approve, reject, cancel, check in | 2s 2u 2r 1k, 1 seat | `TypeOK`, `SeatAccounting`, `OneLiveRegistration`, `WaitlistBacked`, `ToldTheTruth`, `ImplementsLedger` |
| `lifecycle` | register at a workshop and cancel, while the event, its workshop, its capacity and its form change | 2s 2u 2r, 1 or 2 seats | `SeatAccounting`, `WaitlistBacked`, `WorkshopWaitersQueue`, `AttendeesWarned` |
| `attendance` | register, cancel, check in at a workshop that may be deleted; with fairness | 2s 2u 2r, 1 seat | `NoIdleSeat`, `ConfirmedIsTold`, `EveryRequestAnswered` |
| `mail` | a fan-out to two users and an admin's retry | 2s 2u, 2 attempts (1 for a retry), one failure | `TypeOK`, `SecondMailExplained`, `NoneForgotten`, `ImplementsMailbox` |
| `wording` | a mail and a text message of one template, an edit, an opt-out and an opt-in; with fairness | 1s, 2 attempts, one failure | `OptOutRespected`, `CacheExplained`, `ComesToRest` |
| `accounts` | any four requests for one account | 2s, 3 sessions, 2 links, one failure | `TypeOK`, `SignedOut`, `RotatedOnce`, `LinkWorksOnce`, `UsedLinkWorks`, `AccountGetsLink`, `RoleReachesTokens` |
| `planning` | any three of: create, rename, move categories; create and date events and tracks; forms | 2s, 3 categories, 2 events, 1 track | `TypeOK`, `ConflictNeedsRace`, `TreeComplete`, `KeysApart`, `DatesInOrder` |
| `conference` | three requests: register at a workshop, approve, cancel, cancel the event; hourly reminders | 1s 2u 2r, 1 seat, 1 missed run, fact lost or recipient skipped | `ConferenceTypeOK`, `RemindedInTime`, `ConfirmedIsMailed` |

Why these bounds are enough to be interesting: two slots give every pair of
handlers in every interleaving; one seat and two people make a full place and a
queue; two registrations let a person come back after a cancellation; in the
refuted runs a third and a fourth person give a promotion somebody wrong to take.
One crash or failing call reaches every point between two effects. Two attempts are a retry and a last
attempt; two recipients are a fan-out with somebody left when it breaks off.
Three sessions let one be rotated twice by racing handlers, four requests are a
login, a password change and two refreshes around it. Three categories make a
loop with something hanging on it, three requests and two slots a race for a slug
with a rename, or a form replaced while a track's is compared. A missed run is
the most the reminder window makes up for; with two in a row the reminder is
lost, and nothing in the code prevents that. `conference` has one slot: what
overlapping handlers do to announcements is what `desk` checks (`ToldTheTruth`),
and the theorems about `Conference` hold for any number of slots.

Bounds in the guards are `MaxRegs`, `MaxCrashes`, `MaxJobs` (never reached in the
runs), `MaxFailures`, `MaxSessions`, `MaxLinks`, `MaxRequests`, `MaxCategories`,
`MaxEvents`, `MaxTracks`, `LastHour`, `MaxMissed`, `MaxLost` and the set `Facts`,
which is never used up. Two runs have a constraint: in `lifecycle` nobody registers
for the event itself, so its capacity is fixed (`SmallHall`); in `conference` a run
is missed or a fact or recipient lost, not both (`OneFailure`). Deadlock is checked in the runs of `MCEventsService`; the
others end when their requests, facts or hours are used up. Users and slots are
symmetric in the safety runs where nothing tells them apart; the runs with
liveness use no symmetry.

What the properties allow for, and no more:

* `OneLiveRegistration`: a registration brought back from CANCELLED (approve,
  reject and a late check-in write over it) gives its owner a second live one.
* `ToldTheTruth`, `ConfirmedIsTold`, `ConfirmedIsMailed`: an announcement that a
  crash or a failed read lost after the commit (the redelivered create is refused
  as a duplicate, a redelivered cancel announces somebody else), or one that was
  published when another handler had written the row again.
* `AttendeesWarned`: a registration made, or brought back by an approval, after
  the recipients were collected, and a collection that failed. Who is CHECKED_IN
  is told nothing: the query leaves them out.
* `KeysApart`: a question of the event that was inserted after the track's was
  compared. So the code does not keep what `README.md:106-110` and
  `registrations.service.ts:100-103` promise: `upsertForm` compares with no track
  form and may take over a key at any time. Nor do two upserts of one form that
  overlap "replace the whole set" (`README.md:118`): both lists may stay, and with
  that a key only one of them had compared. What `KeysApart` says is that these
  are the only ways for two questions to share a key.
* `DatesInOrder`: dates written without being compared. update compares them only
  if it is given both, updateSession never; an event or a track written so may end
  before it starts.
* `NoIdleSeat` is checked and proved for traffic without approvals, rejections
  and changes of capacity. With a rejection it is false of the code: the waitlist
  row of the rejected stays, the next cancellation takes it off the queue and
  promotes nobody, and whoever is behind waits beside a free seat.

Refuted: what a comment or a message in the source or the README says and the code
does not do. Each run checks that one property and TLC prints the trace.

| Run | What happens |
| --- | --- |
| `capacity_enforced` | cancelling a waitlisted registration promotes the next one without a free seat |
| `first_in_first_promoted` | positions repeat after a promotion, so a later arrival may go first |
| `refusals_hold` | an event cancelled between publish's read and its write is published again |
| `all_signed_out` | a rotation that read its token before the password changed issues a session after everybody was signed out |

`RefusalsHold` is about three handlers that check in one access and write in
another. TLC prints the shortest trace, which is publish's. The same happens to
deleteSession, where a registration made between its count and its delete is
cascaded away, and to checkIn, where a registration cancelled between its read and
its write is checked in: the property without its first conjunct is violated by the
former, and with its last alone by the latter.

The comment on `create` also speaks of a retry after PostgreSQL aborts the loser
of a race. There is none: `TxAborts` answers INTERNAL.

Fairness: in the events service weak fairness of each slot's handler (`FairSpec`),
in the notification service also of each slot's next message and of the worker.
Node runs every callback that is ready, the broker delivers to a free slot, BullMQ
hands out a waiting job, and the database answers or fails. Nothing is assumed of
clients and publishers, no failure is ever forced, and `ComesToRest` holds
because failures end.

## What is proved

The theorems about `EventsService` hold for all constants that meet the named
assumptions of `EventsDb`: workshops, the event level and "nowhere" are different
things, "nobody" is no user, the bounds are natural numbers (any), capacities are
natural numbers and the workload is any set of requests.

* `TypeCorrect`: `Spec => []TypeOK`, one step per action. It carries facts the
  others need: the waitlist is finite and its positions are positive.
* The lemmas at the start of `Admission_proofs` reduce the thirty-two actions to five
  effects on the rows (`StepEffects`): an insert, a blind status write, a
  cancellation with its promotions, a deletion with its workshop, or nothing.
  Every later proof has one case per effect.
* `CapacityRemembered`: the capacity a create carries into its transaction is
  between 1 and the place's peak if the place was always limited. It rests on
  registrations and creates only ever being at workshops that were created.
* `SeatsAccounted`: `Spec => []SeatAccounting`. By itself the property is not
  inductive: an insert needs `CapacityRemembered`, and a cancellation, which
  takes one seat holder out and puts a *set* of waiting registrations in, needs
  that this set has at most one element (`NobodyWaitsTwice`). The counting is
  `Exchange`: one element out, at most one in, the set does not grow.
* `OneRegistrationEach`: `OneLiveRegistration` is inductive. A promotion or an
  approval of somebody waiting makes no second live registration, since the one
  that waits was live already.
* `WaitlistIsBacked`: `WaitlistBacked` with the bound on the ids of queue rows,
  so that a new registration's id is not in the queue yet.
* `WaitersKeepTheirPlace`: `WorkshopWaitersQueue`, from the previous one and
  `OneRowEachWorkshop`: cancelling removes queue rows by person, which is
  harmless only because a person has one row per workshop. For the event itself
  cancelling an old registration a second time takes the queue row of the newer
  one, so the property is stated for workshops.
* `OnePromotionAtATime`: the action property `SinglePromotion`. No run
  checks it: the ledger says as much of each seat.
* `SeatsFollowTheLedger`: `Spec => ImplementsLedger`. Each of the five effects is
  mapped to a step of `SeatLedger` at the place it touches and to a stutter
  elsewhere. It rests on `LedgerBooks`: the invariants above with the fact that a
  registration without create's test is known and does not wait.

The theorems about `Notifications` hold for any users, facts (each with any
recipients), orders, templates, slots and limits that meet the named assumptions
of `Templates` and `Notifications`.

* `NotificationsTyped`: `Spec => []TypeOK`. Beyond types it says that job numbers
  are unique and that the worker's job is the one that is active; both are needed
  for the worker's row to be a row, and for `CloseJob` to end the right job.
* `ServiceIsAMailbox`: `Spec => ImplementsMailbox`. The step that needs an
  argument is the acknowledgement: all recipients must have a row or an opt-out.
  The invariant `BoxInv` says why they do: a message a handler holds is held by
  that handler alone; each of its recipients is in `todo`, is the current one, or
  is covered by a row or an opt-out; at the step `add` the current one has its
  row; a retry names a row that exists. A redelivery after a crash starts over
  with everybody in `todo`, and rows and opt-outs are never taken back.
* `Delivery_proofs` has the other four invariants, on top of `BoxInv`.
  `MailsAccountedFor` adds that the delivery the worker is at is not yet SENT, and
  that a mail without an excuse is that of a row marked SENT or about to be
  (`MailInv`). `DeliveriesAccountedFor` (`JobInv`) accounts for each unfinished row
  by a job, a handler at `add`, or a record in `stranded`; closing a job is the
  step that needs care, so the invariant also says that once the last attempt is
  over, something other than the job being closed accounts for the row.
  `OptOutsRespected` needs that no handler is past the preference of somebody who
  declined, `CopiesExplained` that the wording between read and compile is current
  or overtaken.

The theorems about `Accounts` and `Gateway` assume that ADMIN and ATTENDEE are
among the roles and that the bounds are natural numbers. `AccountsTyped` proves
`TypeOK` with `Books`: each handler's steps fit its operation, what a request
names is in the tables, and sessions and links have owners that exist. Then

* `SessionsSignedOut`, `UsedLinksWork`, `AccountsGetLinks`: the properties name
  the handlers that are still to act, and with `Books` they are inductive.
* `TokensRotateOnce` (`RotationInv`) and `LinksWorkOnce` (`LinkInv`): unless the
  history says two handlers found it usable, at most one is between its read and
  its last write, and by then the row is revoked or used.
* `RolesReachTokens` (`RoleInv`): nobody knows a role from the future, and who
  knows the latest change knows the role it set.

The theorems about `Planning` hold for any names, numerals, times, keys, organisers,
slots and requests; they assume that "item" and the words of a number survive
slugify and that a number has one, that instants are numbers, that "no parent" and
"kept" are no categories, that there is a name and a pair of dates in order to
start from, and that the workload consists of requests the controllers accept.

* `PlanningTyped`: `TypeOK` with `NamedInv`, that neither a category about to be
  written nor the event of a track ever goes away.
* `DatesAreInOrder` adds the dates of an event about to be inserted;
  `FormsKeepApart` (`FormInv`) that what the event asks under a key that was
  compared, of a track's field or of one about to be written, was inserted by a
  later upsert, and that the count of upserts never goes back.
* `ConflictsAreRaces`: `ConflictNeedsRace` is inductive; one lemma says which slugs
  a step can make taken.
* `TreesAreComplete` is a statement about reachability. `Under`, the levels of the
  tree, is first shown to be the least set that holds its start and is closed under
  children (`UnderWithin`, `UnderClosed`): a level that adds nothing is closed, one
  that adds something has more members than its number, and there are no more
  categories than levels. The induction over levels goes through the least level
  at which a set of levels fails (`CountingUp`). The invariant `LoopInv` says that
  parents exist and that each non-empty set of categories whose parents are all
  in it has a member known to have been moved below itself. A new category is a
  leaf (`LeavesCloseNoLoop`); a category moved elsewhere takes all that is below
  it out of the set, and what remains was such a set before (`MovesAreKnown`). A
  category missing from the tree has only missing ancestors, and those it hangs
  below are such a set (`LostIsLooped`).

The theorems about `Conference` assume that the facts are facts, that times and
bounds are natural numbers, and what `EventsDb` assumes.

* `ServiceTakesPart`: `ConferenceSpec => Spec`, so every theorem about the events
  service holds in the composition. What becomes of facts and entries there is what
  `Mailbox` promises, which `ServiceIsAMailbox` shows the notification service to
  implement.
* `ConferenceTyped`; `TicketsAreMailed` (`TicketInv`: who was told CONFIRMED has a fact
  that says so in the outbox, published or further; `AnnouncementsAreTrue` says
  that who is CONFIRMED when all is done was told so, or it went astray).
* `RemindersAreTimely`: `RemindedInTime` as long as at most one run was missed,
  whatever `MaxMissed` is. `ReminderInv` says that who holds out was reminded, is
  in the list being sent, or is to be found by a run still to come, of which a
  missed one leaves one fewer.

Two more about the events service hold for any number of handlers, crashes and
failed reads:

* `CancellationsAreTold`, with `WarnedInv`: at a cancelled event each PENDING,
  CONFIRMED or WAITLISTED registration is warned, in `unwarned`, or somebody is
  still to collect the recipients.
* `AnnouncementsAreTrue`, with `TruthInv`: each registration was told what its row
  says, or `ASTRAY`, or some handler still owes it an announcement: the one that
  wrote the row, or the one whose cancellation promoted it. It rests on `NamesInv`:
  a handler that has somebody promoted to announce names the registration whose
  cancellation promoted them.

One is about a part of the traffic: `OnlyAttendance` (nobody approves, rejects or
changes a capacity, any number of slots and crashes): `SeatsAreNotIdle`. The queue
then holds only people who wait (`QueueWaits`), so that a cancellation that finds
no one to promote leaves nobody waiting; what checkIn and create go on to write
with is as they read it (`AsBooked`).

Each inductive invariant was first checked with TLC on the instance of a run.

Only model-checked: the liveness properties `ConfirmedIsTold`,
`EveryRequestAnswered` and `ComesToRest`. Liveness under fairness and ENABLED are
out of the prover's reach.

## Not modelled

* markRead and the listings of notifications, the profile update and the write of
  `lastLoginAt` at the end of a login: what they write is read by no operation
  that decides anything.
* `event.published`: its consumer writes to nobody, and no property is about it.
* `isActive`, which no operation changes, and `maxPerUser`, which none reads.
* The reads (lists, counts, finds), the wording of messages, HTTP status codes and
  the response envelope, validation of request bodies, health checks,
  configuration, module wiring and the seeds.
* More than one event at a time on the registrations' side: its queries all filter
  on one event.

## Plan

Every safety property of a passing run has its theorem. What is left:

1. `Conference` with the crashes of the events service: `ConfirmedIsMailed` and
   its proof already allow for the announcements a crash loses.
2. An abstract specification of sessions that `Gateway` implements: an account
   with the set of tokens that still open it.
