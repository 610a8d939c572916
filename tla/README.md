# TenderLens: a TLA+ verification project

TenderLens is a multi-tenant service for South African tenders: organisations
follow tenders, let an AI extract and summarise them, work on bids together,
get reminders and alerts, and pay for it through PayFast. The backend
(`src/backend`) is an Express API in TypeScript over Postgres (Prisma), with
BullMQ queues on Redis, worker processes and cron jobs; the frontend
(`src/frontend`) is a Next.js client.

The hard part of this code is not any one function. It is that nearly every
operation is a sequence of separate database calls outside a transaction, that
several of them run at once (API requests, cron jobs inside the API process,
workers that retry), and that any of them can stop between two calls. The
modules here cut each operation at exactly those calls.

Paths below without a prefix are under `src/backend/src/`.

## 1. Inventory

| Component | State | Operations | Talks to | Hard behaviour | Must be true | Module |
|---|---|---|---|---|---|---|
| **PayFast billing** (`modules/billing/billing.routes.ts`, `billing/payfast*.ts`, `jobs/payfastReconciliation.job.ts`, `billing/plan.middleware.ts`, `billing/accountTrial.service.ts`) | `OrgSubscription`, `PayFastCheckout`, `BillingEvent` | plan-checkout, payfast/notify, reconcile, `enforceTrial`, `enforceBillingWriteAccess`, trial sync at login | PayFast posts notices until it gets a 200; cron; every billed route | concurrent notices, retries, stopping between upsert and event, stale read in reconcile and the trial guard, trial/grace/renewal clocks | a payment that was acknowledged is granted; once; months add up; nobody is locked out early | `PayFastBilling` |
| **Notification delivery** (`modules/notifications/delivery.service.ts`, `queues/delivery.queue.ts`, `workers/delivery.worker.ts`) | `NotificationDelivery`, queue `notificationDelivery` | `enqueueDeliveries`, `processOne` | called by `emitEvent`; BullMQ; mail and SMS providers | two stores, at-least-once jobs, lost locks, early delayed jobs | nothing is left behind, nothing goes out twice or before its `deferUntil` | `NotificationDelivery`, `DeliveryContract` |
| **Tender and watchlist reminders** (`modules/deadlines/reminders.service.ts`) | `TenderReminder`, watchlist items, e-mail deliveries of the day | `scheduleReminders`, `fireDueReminders`, `flushWatchlistBatches` | cron, `emitEvent`, delivery worker | `firedAt` is written before the event, batches live in memory and are flushed at the end, a daily limit counted from sent mails only | whoever a stamped reminder is for is told, once, within the daily limit | `WatchlistReminders` |
| **Task reminders** (`modules/taskReminders/*.ts`, `jobs/reminders.job.ts`) | `TaskReminderLog`, reads `BidTask` | plan and fire due-soon, report overdue | cron; `emitEvent` | overlapping runs, dying runs, tasks edited meanwhile | log and events agree | `TaskReminders` |
| **Tender extraction pipeline** (`worker.ts`, `modules/queue`, `modules/tenders`, `modules/chat`) | `ProcessingJob`, `Tender`, `TenderExtract`, `TenderChunk`, `TenderInsight`, the BullMQ job, storage | upload, process, failed handler, chat preparation, list and repair, delete | BullMQ, storage, AI, frontend polling | four writes of an upload, retries and stalls over half-written chunks, failed handler racing the next attempt, two readers of one document, a repair that stops between the row and the queue | a completed document is searchable; a queued one is in the queue's hands | `ExtractionPipeline` |
| **Membership, invitations, seats** (`modules/org`, `modules/orgs`, `billing/seats.service.ts`) | `Membership`, `OrgInvite`, `OrgSubscription.seatsUsed` | invite, accept with and without account, add, remove, change role, billing admins | billing (plan's limit) | two requests and one free seat, three writes of an acceptance, cached count, roles read before use | never more members than seats; an accepted invitation joined; owners keep billing | `OrgMembership` |
| **Authentication and sessions** (`modules/auth`, `src/frontend/src/lib/api.ts`) | `RefreshToken`, the cookie, each tab's access token and pending calls | login, refresh (rotation), logout, reset password, loading a page, `apiFetch` | every API call | rotation is a read, an update and an insert; tabs share the cookie; calls share one refresh; a page that is loaded has no token and forgets the refreshes it sent | one live token per session; ended sessions stay ended; nobody waits for ever or is sent to the login page with a live session | `AuthSessions` |
| **Alert rules, event emission** (`modules/alerts`, `modules/notifications/notifications.service.ts`, `modules/watchlist/templates.service.ts`) | `AlertRule`, `NotificationEvent` | `emitEvent`, `evaluateRulesForEvent`, creating, editing and deleting rules | called by every job and many requests; delivery | the cooldown is read once for all rules and written one by one, and the event itself is queued after the loop | one alert per cooldown; no rule is passed over; the event is delivered | `AlertRules` |
| Plan limits, usage (`billing/usage.service.ts`, `billing/effective-plan.service.ts`) | `UsageCounter` | check limit, increment | AI routes | check then act | usage stays within the plan | – |
| Referral earnings, payouts (`billing/referralEarnings.service.ts`, `payouts/`) | `ReferralEarning`, `ReferralPayout` | create earnings, approve, pay batch | payout provider | crash between provider and database | an earning is paid once | – |
| Quiet hours (`utils/time.ts`) | none | minute arithmetic over midnight | delivery | boundaries | matches its definition | a constant of `NotificationDelivery` |
| eTenders import, workspaces and tasks, watchlist and preferences, deadlines extraction, compliance, chat and summaries, trial and retention campaigns, support, HTTP plumbing, frontend | rows of their own, mostly one call per operation | | | see `PROJECT.json` | | – |

How they interact. A cron job or a request calls `emitEvent`, which writes an
event, evaluates the alert rules, each of which may emit an event of its own, and
then calls `enqueueDeliveries`; that writes rows and queue jobs, which the
delivery worker runs. `TaskReminders` and `WatchlistReminders` stop at the event,
`AlertRules` is what happens to it up to its queueing, `NotificationDelivery`
what happens from there. `WatchlistReminders` reads back how many
e-mails the worker has sent, so its `Deliver` stands for a whole run of
`NotificationDelivery`. Billing writes the `OrgSubscription` row that every limit,
seat and guard reads; `OrgMembership` shares with it the row's `seatsUsed` only,
and takes the plan's limit as a constant. The client part of `AuthSessions` is
the frontend's; everything else in the frontend shows rules the API enforces.

`PROJECT.json` lists all components with what is and what is not modelled, and
every hazard at the line where it bites, with the properties that watch it.

## 2. Plan

| Order | Module | Checked | Proved | What a next step could add |
|---|---|---|---|---|
| 1 | `PayFastBilling` | yes | every safety property of its runs (`PayFastBillingProofs`) | |
| 2 | `NotificationDelivery` implements `DeliveryContract` | yes | every safety property and the refinement (`NotificationDeliveryProofs`) | |
| 3 | `TaskReminders` | yes | every safety property (`TaskRemindersProofs`) | |
| 4 | `WatchlistReminders` | yes | every safety property (`WatchlistRemindersProofs`) | site visits and `fireReminderById` |
| 5 | `OrgMembership` | yes | every property (`OrgMembershipProofs`) | workspace roles |
| 6 | `AuthSessions` | yes | every property (`AuthSessionsProofs`) | registration and verification |
| 7 | `AlertRules` | yes | every property (`AlertRulesProofs`) | webhooks |
| 8 | `ExtractionPipeline` | yes | every safety property (`ExtractionPipelineProofs`) | OCR as a step of its own |

The order follows what a mistake costs: money first, then messages, then the
jobs that produce them, then access, then derived data.

Every module declares its parameters as CONSTANTS with named assumptions, has
one action per database call (or one per indivisible operation), uses no
recursive operators, and keeps its history variables apart from the state of
the program: nothing in a guard reads them.

The properties have a common form. The code gives up most guarantees in a few
narrow schedules; a property names exactly those ("unless two runs had fetched
it at once") through a history variable that records that schedule and nothing
else, and says that there is no further way. Where the code gives way, a second
part of the property says how far: how many messages, reminders, months or
members too many there can be, in terms of how many actors can be at work at once
and how many faults strike. These five bounds are exact: with one less in any of
them TLC finds a behaviour of the run's instance that exceeds it.

## 3. The modules

### PayFastBilling

One organisation, because every row involved is keyed by `orgId`.

| Model | Code |
|---|---|
| `sub` | the `OrgSubscription` row |
| `checkouts` | `PayFastCheckout` rows by reference; `NONE` is no row |
| `completed` | payments with a `checkout_completed` `BillingEvent` |
| `handler` | POST `/payfast/notify` requests; `pc` is the next call, `base` and `seenEnd` are the locals of `activatePayFastSubscription` |
| `job` | `reconcilePayFastSubscriptions`, with its `now` and what its `findMany` saw |
| `guard` | `enforceTrial` between its read and its update |
| `notice`, `acked` | PayFast (external): what a notice says and which ones were answered 200 |

The handler is `LookUp` (reference, plan, or the organisation found through the
token), `Deduplicate`, then either `RejectAmount`, or `ReadPeriod`,
`UpsertSubscription`, `TrackCompleted` and `CompleteCheckout`, or `ApplyStatus`
and `MarkCheckout`; last `Acknowledge`. `Fail` is every way a request ends
without a 200 that PayFast saw: the catch block, a signature or gateway check
that refuses, a lost answer. `Crash` stops the API process with everything in
it, the reconciliation included because cron runs inside the API.
Reconciliation is four calls with one `now`; its per-row update names the
organisation only and does not look at the status again. `ReconcileFails` is
an exception in the middle.

The history variables: `granted` counts upserts per payment; `disturbed` holds
the payments that went through one of the two gaps around the
already-processed check; `credit` is the sum of the months granted and whether
an upsert overwrote a period it had not read.

### NotificationDelivery and DeliveryContract

One event. `Deliveries` is `allChannels` of the code; `DeferUntil` is the result
of quiet hours and a forced deferral. The `enqueuer` writes a row, then adds a
job, for each channel. A worker's `processOne` is `ReadItem`, then `Requeue` (too
early) or `CountAttempt`, `SendMessage`, `RecordSent`, and `Finish`, or
`MarkFailed` from the catch block. BullMQ is external and modelled from how the
code configures it: a job that threw goes back until `MaxAttempts`, a job whose
worker is gone goes back at most `MaxStalls` times, a lock can be lost under a
live worker, and only the lock's owner settles a job. Back-off is the time a
waiting job lies there before `Take`. `DELIVERY_QUEUE_ENABLED` is true; with
false no worker runs. `RecordThrows` covers a provider that accepted the message
and then failed the call, and an update to SENT that throws: both land in the
same catch.

`DeliveryContract` is what a caller of `emitEvent` may rely on, without queue,
workers, attempts or clock: a delivery is written, accepted by the provider,
confirmed or refused; nothing is accepted before the time it was deferred to (the end
of the quiet hours it was written in: a retry does not look at them again, and may
fall into later ones); short of having become
risky it is accepted once, and never called failed after that; a risky one is
accepted again at most once for each mishap. The refinement mapping is `status`
to the row's status, `accepted` to `mailed`, `mishaps` to `faults`, `held` to the
deliveries whose `DeferUntil` lies ahead, and `risky` to the two history
variables: a delivery becomes risky when a message may have gone out unrecorded
(`doubtful`) or when a second run of it may be under way (`doubled`). Queue
traffic maps to stuttering, `Tick` to `PassTime`, every fault to `Mishap`.

### TaskReminders

`rows` is `TaskReminderLog` in order of creation, without unique index, as in
`prisma/schema.prisma`. A due-soon run is `StartDueSoon` (findMany), `PlanOne` per
task, `FindDue`, then `EmitDueSoon` and `StampFired` per row; an overdue run is
`StartOverdue`, then `LogOverdue` and `EmitOverdue` per task. A `create` of the
plan that throws is caught and leaves one task out. Runs overlap:
`node-cron` starts a job whether or not the last run ended. `EditTask` is
`updateTask` as far as the jobs can see it. `StartWithoutPlan` lets firing
continue after the bound on scans, so that a bound never hides a lost reminder.

### WatchlistReminders

| Model | Code |
|---|---|
| `closing`, `watching` | `Tender.closingAt`, and the reminder types of each user's watchlist item |
| `rows`, `fired` | `TenderReminder` rows by their unique key, and those with `firedAt` |
| `mail` | e-mail deliveries of watchlist events by user and day: PENDING, SENT, FAILED, and how many were summaries |
| `run[r].plan` | the loop of `scheduleReminders` over open tenders, with the closing dates as its `findMany` read them |
| `run[r].due`, `row`, `todo` | the loop of `fireDueReminders`: rows fetched, the row in hand, its watchers still to tell |
| `run[r].batch` | the in-memory buckets of `addToWatchlistBatch` |
| `run[r].count` | the per-user cache of sent e-mails in `flushWatchlistBatches`; -1 is no entry |

`Stamp` writes `firedAt` first; `Collect` then puts the watchers in a bucket or
starts telling them one by one (`EmitUrgent`), and `StartFlush` begins the
summaries when all rows are through. `CountSent` counts SENT rows since the day
of the run began; `Flush` writes one summary, without its e-mail when the limit
is reached. `Dies` ends a run anywhere: whatever it held is in `lost`. This is the
opposite order from `TaskReminders`, which emits first: there a crash repeats a
reminder, here it loses one, and the two modules' properties differ in exactly
that.

### AlertRules

One organisation. `emitEvent` writes the event, evaluates the rules and only then
queues the event's own deliveries, so a throw in the evaluation costs the event.

| Model | Code |
|---|---|
| `rule` | `AlertRule` rows; `state` keeps a deleted one apart from one never made; `template` is the name by which `ensureTemplateAlertRule` finds its rule |
| `pc`, `about` | one call of `emitEvent` each: its next database call, and its arguments |
| `seen`, `todo`, `cur`, `at` | the locals of `evaluateRulesForEvent`: what `findMany` returned, the rest of the loop, the rule in hand and the `now` it will stamp |
| `request` | POST `/alerts/rules` or the application of a watchlist template, between its look and its write |

`Look` is one turn of the loop up to its `continue`s, `Stamp` the update of
`lastFiredAt`, `EmitAlert` and `EmitEscalation` the event of the alert with its
deliveries now and, when the organisation's automation escalates, later. `Stamp`
throws for a rule that is gone; `Fail` is any other call that throws. Keywords
and event texts are the flags `words` and `worded`; a tender id that the event
does not carry is `named = FALSE`, which is how deadline and document changes are
emitted.

### OrgMembership

One organisation, whose plan limits its members; a user stands for an e-mail
address.

| Model | Code |
|---|---|
| `role`, `billing`, `account` | `Membership` rows with `role` and `isBillingAdmin`, `User` rows |
| `invite` | `OrgInvite` rows by token |
| `seatsUsed` | `OrgSubscription.seatsUsed`, written by `refreshSeatsUsed` |
| `request` | a request in flight: `pc` the next call, `counted` what `membership.count` returned, `seen` the role it read |

`FindPending`, `RefuseMember` and `CreateInvite` are POST `/me/invites`;
`ReadInvite` (with the second call that marks an invitation EXPIRED), `FindMember`,
`Join` and `Consume` are the acceptance, where
`enforceMemberLimit` is `CountMembers` and `EnforceMemberLimit`; `JoinInOne` is
the transaction of accept-anonymous; `RemoveMember`, `UpdateRole`, `ReadBilling`
and `UpdateBilling` are the member routes. `Recount` and `Reseat` are
`refreshSeatsUsed` on its own. `Stop` ends a request after any call.

### AuthSessions

One user. A session is the login its refresh tokens descend from.

| Model | Code |
|---|---|
| `token` | `RefreshToken` rows |
| `cookie` | `tl_refresh`, shared by all tabs |
| `access`, `page`, `inFlight` | each tab's `accessToken`, what it shows, and `refreshInFlight` |
| `call` | one `apiFetch`: waiting for its first token (`need`) or for a new one after a 401 (`again`), sent, or sent again; `me` is the call of `/me` |
| `refresh` | POST `/auth/refresh` of the call that leads it: `RotateRead`, `RotateRevoke`, `RotateCreate`; `left` says that the page that asked is gone |

`Load` is a tab that is opened or loaded again, in the application or on the login
page: the token lives in the page's memory only, so its first call, `/me`, asks for
one, and the refreshes of the page before it go on at the server with nobody waiting.
`Ensure` is `ensureAccessToken`: wait for the page's refresh or start one.
`Resume` is what its outcome does to every call that waited: a 401 on a page of the
application goes to the login page and takes all its calls along, any other failure
does not; without an answer from `/me` (`Told`) the application gives way to the
login page too. `SetCookie` marks the refreshes under way as `crossed`: they
were sent with an older cookie. `RefreshFails` is a database call that throws, with
the cookie set or not, or an answer that is lost after the rotation; `RefreshUnread`
is an answer the browser drops because its page is gone; `LogoutFails` is a logout
that does not arrive, throws or is not answered, which the client takes for done.

`caught`, `forked`, `broken` and `lost` each record one schedule: a session that was
ended while a rotation of it was past its read, two rotations that read one token, a
rotation that stopped between its two writes, and a new token that no cookie named.

### ExtractionPipeline

| Model | Code |
|---|---|
| `upload` | how far the upload has come: object and `TenderFile`, `ProcessingJob`, `Tender.status`, `queue.add` |
| `job`, `tender` | `ProcessingJob.status` of each document, `Tender.status` |
| `hash`, `extracts`, `chunks`, `insights` | `contentHash`, `TenderExtract`, `TenderChunk` (by index), `TenderInsight` |
| `bull` | the BullMQ job: state, lock, attempts, stalls (external) |
| `run` | a worker at one of its calls, or the preparation of a document for a chat |
| `handler` | `worker.on("failed")`, which runs beside whatever comes next |
| `look`, `deletion` | the repair done by GET `/files`, and DELETE `/files/:fileId` |

The worker is `Begin`, `ReadFile`, `WriteHash`, `Check` (skip a document that has
its extract and an unchanged hash), `Extract`, `ClearChunks`, `CreateChunk` for
each part, `CreateInsight`, `Complete`; `Throw` and `Die` can strike at any of
them. `Nack` and `Stall` emit "failed" on every attempt, as the handler in the
code sees it. `Prepare` to `SettleTender` is what a chat does to a document
without chunks. GET `/files` is one request over all documents: `LookAtJobs`,
`LookAtExtracts` and `LookAtQueue` read the jobs that are not over, which documents
have an extract, and one snapshot of the queue; then it goes through the
documents one by one: `ReconcileJob` completes the job of a document that has an
extract, or resets it, and `QueueAgain` queues it again. It stops where a call
throws (`ListFails`, or an update of a row that a deletion has removed meanwhile): what
it has reset and not queued, and the documents it has not come to, are left as they
are. `AddBull` does nothing when the queue knows the job's identity. `looked` holds
the documents some request has gone through; `adrift` those whose failed handler was
lost or late, or that were reset although BullMQ knew their job.

## 4. What is checked

| Run | Question | States | Bounds |
|---|---|---|---|
| `payfast_notify` | two requests interleaved call by call over seven kinds of notice: does what PayFast is told agree with what was granted? | 0.98 M | 2 notices, 2 payments, 1 checkout, 2 requests, 2 faults, 1 tick |
| `payfast_clock` | trial, paid period, renewal, grace, expiry, with split reads: is anyone locked out or marked past due early, and is every payment granted in the end? | 0.21 M | 2 notices, 1 request at a time, month, grace and trial of one tick, 3 ticks, 1 fault |
| `delivery` | does the delivery keep its contract, is it followed and settled? | 0.17 M | 1 delivery deferred until 3, 2 workers, 2 attempts, 1 stall, 2 faults, 4 jobs, 3 ticks |
| `task_reminders` | do log and events agree when runs overlap and die and the task changes, and is a planned reminder emitted? | 0.26 M | 1 task, 2 runs, 2 scans, 1 edit, 2 faults, 3 ticks |
| `overdue_once_per_day` | the comment "once per day" | violated | 1 task, 2 scans, no fault |
| `watchlist_safety` | is a watcher told twice, or forgotten, or mailed beyond the daily limit? | 2.0 M | 1 tender, 1 user, a batched and an urgent type, a task, limit 1, 2 runs, a lagging worker, 1 edit, 1 death, 2 ticks |
| `alert_rules` | which alerts go out, when is the cooldown kept, when is an event lost? | 5.9 M | 2 events, about either of two tenders or none, 2 rules, one of them for one tender and one with keywords, 1 request or template, 1 edit, 1 fault, 1 tick, cooldown 1 |
| `org_membership` | seats, invitations, billing access under interleaved requests | 0.73 M | 4 users, limit 2, 2 invitations, 3 requests, two at once, 1 stop |
| `sessions` | rotation and the shared cookie against two tabs and a page load | 3.5 M | 2 tabs, 3 calls (two in one tab), 3 tokens, 1 page load, 1 failure, 1 logout or reset |
| `pipeline_index` | what is in the index when all are done, and does the job end? | 0.43 M | 1 document of 2 chunks, 2 workers, 2 chat preparations, 2 attempts, 1 stall, 1 fault |
| `pipeline_jobs` | do row and BullMQ job agree when all is quiet, and what does the repair repair? | 7.5 M | 2 documents, 1 worker, 1 request for the list at a time, 2 attempts, 1 deletion, 1 fault anywhere, the request for the list included |
| `still_processing_ends` | "Document is still processing. Try deleting again shortly." | violated | 1 document, 1 worker, the page polling, 2 faults |

Why the bounds are enough. Nearly every hazard in these components needs two
actors and at most two faults: a race is between two requests (workers, runs,
tabs), a crash leaves one half-done operation and the retry meets it, and a
second fault hits the retry.

- Billing: two payments are enough to lose a month, two copies of one payment to
  grant it twice (two notices may say the same thing). Three ticks in
  `payfast_clock` hold trial end, one paid month, its grace, and a late renewal.
- Delivery: deliveries of one event share nothing but the enqueuer, which the
  model stops after any write. `MaxJobs = 4` leaves room for a requeue and its
  successor; completed jobs free their number. `Skew` is larger than zero so that
  a delayed job really is picked early; two attempts and one stall (BullMQ's
  default) make the last of each happen.
- Task reminders: rows of different tasks never meet; two scans let a row be
  planned twice or be planned again after an edit.
- Watchlist: one row in each of the three branches of `fireDueReminders`, and two
  days' worth of ticks in which two runs can each make a summary against a limit
  of one.
- Alerts: a cooldown is a matter of two evaluations and one rule; the second rule
  makes the order of the loop matter, and is what a failure or a deletion in
  the middle of it leaves behind. The events are the change of a tender, of the
  rule's or of another, whose text has no keyword, and one without a tender;
  every other kind is the theorem's (`AlertsAreExact`).
- Membership: the owner and one more fill the plan, so that two requests fight
  for one seat; two more users would be the excess the bound in `WithinLimit`
  rules out; an invitation lives for one tick of two.
- Sessions: the third token is the successor of a successor; two calls in a tab
  share a refresh, and the other tab crosses it. Before the first login every tab
  is a login page; one load is enough for the page that meets a refresh of its
  own tab, of the other tab, a lost answer or an ended session, each of which
  the other bounds allow once.
- Pipeline: two chunks make a document that is half indexed; the second chat
  preparation finds what the first left. In `pipeline_jobs` a request for the list
  has a second document to come to or to leave, a deletion removes the row
  between its reads and its update, and the one fault can be the upload's, the
  worker's, the failed handler's or the request's own; `Parts = 1` and there are no
  stalls, because the index does not matter. Two requests for the list at once are
  the theorems' (`Lists` is any set).

`Tick` in `PayFastBilling` does not let a reconciliation run take longer than the
grace: days against seconds in the code (`PAYFAST_GRACE_DAYS` is 7).

Deadlock is not an error in these models: clocks, faults and requests are
bounded, and a program that has nothing left to do may stop.

Symmetry is used in runs without liveness only, over interchangeable requests
and unread notices, runs, workers, invited users and unused tokens; the action
properties checked beside it (`OwnerKeepsBilling`, `NotSentToLogin`,
`CollectedIsTold`, `CooldownKept`) mention none of them by name.

### Fairness

- A request, a worker or a run that has started goes on (`WF`), because nothing
  in the code blocks between calls; faults are bounded, not fair.
- PayFast posts a notice again until it gets a 200: `SF` on `Receive` of each
  notice, because the free slot for a request comes and goes. Nothing is
  assumed of checkouts being created or cron running.
- BullMQ hands out any due job in the end and looks for stalled jobs (external):
  in the delivery model `SF` on `Take` per job, since idle workers come and go; in
  the pipeline model `WF` on `Queue` and on `Stall` of an abandoned job.
- Cron keeps starting the jobs: `SF` in `TaskReminders`, where a bounded number of
  slots comes and goes; time passes (`WF` on `Tick`).
- `PollSpec` adds that the page which shows an organisation's documents asks for
  them again while one is active, as the frontend does (`WF` on `LookAtJobs`; a
  request that has begun goes on, `WF` on `List`). It is the most favourable
  assumption for the message it refutes.

### What the runs show

*Billing.* A 200 is never sent for a completed payment that was not granted.
A payment is granted at most once except through exactly two gaps, which the
property names: two requests for it in flight at once, or a stop between the
upsert and its `checkout_completed` event; and then it is granted no more often
than requests can be in flight, and as often again per fault. Months add up except when two upserts
interleave around `ReadPeriod`. A checkout that says COMPLETE is paid.
Access ends only when the trial or the grace is over, or through the trial
guard's stale read; a subscription turns past due only after its period, through
a FAILED notice, or through reconciliation's stale read. Every completed payment
of a known checkout is granted in the end, whatever fails on the way.

Visible in the model and not claimed, because nothing in the repository says what
should happen: a late CANCELED notice for an old checkout cancels the
subscription a newer payment started; a CANCELED subscription keeps write access
without end; a CANCELED notice with another amount is answered AMOUNT_MISMATCH
before it is looked at.

*Delivery.* The implementation keeps `DeliveryContract`, of which one message per
delivery (`OneMessage`, proved) is a part. One message per delivery
holds except after an unrecorded send, a lost lock, or a death between requeueing
and completing, and each fault costs one message more at most, however many
retries, stalls and workers there are; an unsent row is followed by a job except when the enqueuer
stopped between the row and the job, after which nothing looks for it again.

*Task reminders.* Because the event comes before `firedAt`, a crash repeats a
reminder and never loses one, which `PlannedIsSent` shows as well. It is emitted
at most once for each run there can be at a time and once more for each fault; a
run that is alone and does not stop emits it once. A reminder is
fired for a task that is done or was postponed meanwhile: firing reads the log
only. That is visible in the model and not claimed.

*Watchlist reminders.* A user is told of a reminder once unless two runs had
fetched its row, and then once by each run that can be at work; a death never
repeats one. Whoever a run has collected is told unless the run dies: a
death loses everything in its batches, and nothing looks for it again because
`firedAt` is set. The daily limit is exceeded in exactly two ways: e-mails that
were queued but not sent when the run counted, and another run counting at the
same time.

*Alerts.* An event alerts of the rules that are due to it, of none that was not
when it was looked at, and of none twice, whatever is edited meanwhile. A rule fires within its cooldown only if it was once stamped while
another evaluation held it, after which `lastFiredAt` may even have moved back. No
rule that applies and was ready when the event was emitted is passed over. An
event loses its own deliveries if a call threw, or if an administrator deleted a
rule between the load and its stamp: the update throws, the exception leaves
`emitEvent`, and nothing emits the event again, although the comment at
`modules/notifications/notifications.service.ts:56` reads "Queue for delivery
immediately for ALL events". An event that carries no tender id fires the rules
of every tender (`modules/alerts/alerts.service.ts:42`), although the form calls
a rule's tender its only one; both are visible in the model.

*Membership.* The limit is exceeded only by a member who joined on a count that
was no longer true, and never, through any sequence of joins and removals, by as
many members as there can be requests in flight: the excess does not add up. The cached count is right when all is quiet, unless a stale
count was written over a newer one or a request stopped before its recount. No
stop between the writes of an acceptance can burn an invitation. Two pending
invitations for one address need two requests at once. An owner loses billing
access only to a request that read the role before it was given.

*Sessions.* A session has two live tokens only if two rotations had read the same
one. With no refresh under way the cookie is live, or has run out, unless the session
was ended or forked, or a rotation of it was cut short or its answer lost. A session that was
ended has a live token in three cases only: a rotation of it was under way at that moment,
it had been forked, or the answer with its latest token had been lost, so that
the logout named the token before it (`ResetPassword` names them all). No call, the
first one of a page just loaded included, waits for a refresh that is over. Under a
live cookie the application is replaced by the login page only because the cookie was
replaced while its page was refreshing (within a page there is one refresh at a
time, so its calls cannot do this to each other): of two tabs that refresh at
once the losing one is thrown out although the session lives, and so is a tab that
is opened while another one refreshes. It gives way to the login page only on a logout or
when `/me` came to nothing, by a failure or a token that ran out on the way.

*Extraction.* A completed document that nobody works on has all its chunks,
unless somebody left it half indexed or two processes indexed it at once, and
short of such a collision its text is stored once through every retry, stall and
crash: the hash is written before the text, and a retry that finds both skips. Row and
BullMQ job agree unless an upload died between them, the failed handler was lost
or ran after the next attempt had begun, or the list reset a job BullMQ still
knew, which it then does not queue again: one that has just been completed, for
example, after the request had read it as active. A request that stops between a reset and
its `queue.add` adds nothing to that: a job that BullMQ did not know, that of a dead
upload, is as forgotten as before, and the next request that goes through the
document repairs it. No request repairs a job that BullMQ has failed.

### Findings

- `overdue_once_per_day`: the overdue job runs every six hours and reports a task
  every time; the comment says "once per day". `TaskReminderLog` has no unique index
  (`prisma/schema.prisma:1284`), so the `create` that should fail never does.
- `still_processing_ends`: a job whose row is active while BullMQ has failed it is
  reset to QUEUED and added again under the same `jobId`, which BullMQ ignores as
  long as it keeps the failed job. Every request repeats this, and the deletion
  is refused for ever with "Try deleting again shortly."

### Mutants

For every property of a passing run, `PROJECT.json` names a change of a modelled
definition, the way a plausible bug would change the code (answering 200 always,
deduplicating by checkout status, extending from now, stamping before emitting,
an attempt too many, counting the last seat twice, not looking at `revokedAt`,
waking only the call that asked, missing the last chunk). The mutated forms stand
in the modules before the definition they replace, marked `mutant`; TLC finds the
property violated for each.

## 5. What is proved

The proof modules hold for any number of actors, any durations and limits and any
bounds on faults, clocks and requests; the bounds are numbers, never small ones.

| Module | Theorem | Statement |
|---|---|---|
| `PayFastBillingProofs` | `TypeCorrect` | `Spec => []TypeOK` |
| | `AcknowledgedPaymentIsGranted` | `Spec => []AckedIsGranted` |
| | `CompleteCheckoutIsPaid` | `Spec => []CompleteIsPaid` |
| | `OneMonthPerPayment` | `Spec => []SingleGrant` |
| | `OneRequestOneMonth` | one request at a time and no fault: one month, no exception |
| | `PaidMonthsAddUp` | `Spec => []MonthsAddUp` |
| | `NobodyLockedOutEarly` | `Spec => LockedOutOnlyWhenDue` |
| | `NobodyPastDueEarly` | `Spec => PastDueOnlyWhenDue` |
| `NotificationDeliveryProofs` | `TypeCorrect` | `Spec => []TypeOK` |
| | `SentIsMailed` | a SENT row was handed to the provider |
| | `SentAtMostOnce` | `Spec => []OneMessage` |
| | `UnsentRowIsFollowed` | `Spec => []UnsentIsFollowed` |
| | `KeepsTheContract` | `Spec => KeepsContract`: the refinement |
| `TaskRemindersProofs` | `TypeCorrect` | `Spec => []TypeOK` |
| | `FiredRemindersWereSent` | `Spec => []FiredIsSent` |
| | `RemindersAreSentOnce` | `Spec => []SentOnce` |
| | `OneRunSendsOnce` | one run at a time and no fault: one event, no exception |
| | `ReportsAreLogged` | `Spec => []NaggedIsLogged` |
| `WatchlistRemindersProofs` | `TypeCorrect` | `Spec => []TypeOK` |
| | `ToldAtMostOnce` | `Spec => []ToldOnce` |
| | `AloneToldOnce` | one run at a time, any deaths: told once, no exception |
| | `DailyLimit` | `Spec => []WithinLimit` |
| | `CollectedAreTold` | `Spec => CollectedIsTold` |
| `AlertRulesProofs` | `TypeCorrect` | `Spec => []TypeOK` |
| | `EventsAreLostOnlyByDelete` | `Spec => []LostOnlyByDelete` |
| | `CooldownsAreKept` | `Spec => CooldownKept` |
| | `NoAlertIsMissed` | `Spec => []NothingMissed`, a part of `AlertsAreDue` |
| | `AlertsAreExact` | `Spec => []AlertsAreDue` |
| `OrgMembershipProofs` | `TypeCorrect` | `Spec => []TypeOK` |
| | `AcceptedInvitationsJoined` | `Spec => []AcceptedHasJoined` |
| | `OnePendingInvitation` | `Spec => []OnePending` |
| | `MembersWithinLimit` | `Spec => []WithinLimit` |
| | `OneAtATimeWithinLimit` | one request at a time: within the limit, no exception |
| | `SeatsAreMembers` | `Spec => []SeatsAgree` |
| | `OwnersKeepBilling` | `Spec => OwnerKeepsBilling` |
| `AuthSessionsProofs` | `TypeCorrect` | `Spec => []TypeOK` |
| | `WaitersHaveALeader` | `Spec => []WaitersAreWoken` |
| | `OneTokenPerSession` | `Spec => []OneLiveToken` |
| | `BrowserHoldsLiveToken` | `Spec => []CookieIsCurrent` |
| | `EndedForGood` | `Spec => []EndedStaysEnded` |
| | `LoginOnlyWhenReplaced` | `Spec => NotSentToLogin` |
| `ExtractionPipelineProofs` | `TypeCorrect` | `Spec => []TypeOK` |
| | `NoJobIsForgotten` | `Spec => []NobodyForgotten` |
| | `TheListRepairs` | `Spec => []ListRepairs` |
| | `CompletedMeansIndexed` | `Spec => []CompletedIsSearchable` |

`FiredIsSent` and `OnePending` are proved and no longer model-checked: the runs check
`SentOnce`, `PlannedIsSent` and `AcceptedHasJoined` in their place. `OneMessage` is
checked as part of `KeepsContract`.

The assumptions are the named ASSUMEs of the modules: the null values are none of
the values, durations and limits are numbers, sets that are counted are finite,
PayFast numbers every completed payment (`NoticeAssumption`), and in
`ReminderAssumption` the bound on the clock lies on the second day at most and
after every reminder. The processes that a bound counts (`Workers`, `Runs`,
`Handlers`, `Requests`) are finite sets. TLC evaluates each of them in the runs.

None of the properties is inductive alone. Each proof goes initial state, one
step, consequence, and the step lemmas abstract the next-state relation first,
so that an inductive step argues about what can happen to one request (worker,
run, token) and not about every action. The invariants that carry them:

*Billing.* `TInv`: types, and that a request in the paid branch has a notice that
says COMPLETE; without it a payment of `NoPayment` could be counted. `GrantInv`:
what is recorded as completed was granted, a request past the upsert has granted
its payment, one past the event has recorded it; `GrantsGrow` keeps it right.
`SingleInv`: a payment outside `disturbed` is handled by one request at most, and
while it is not recorded it is granted only if that request is between upsert
and event: the already-processed check has two gaps and no third. `GrantsInv` has
the bound: until the payment is recorded each of its grants has a request about to
record it or was forgotten in a fault, which can stop all requests at once;
afterwards only those that had passed the check still grant it. `MonthsInv`: a
request about to upsert carries a base not before the end it read. `ClockInv`:
the trial guard saw a TRIALING row after the trial, and what reconciliation is
about to mark was overdue by its own clock.

*Delivery.* `Fresh` (what an unwritten delivery cannot have), `Alone` (a job has
one process unless its delivery is doubled), `MailInv` (what a worker at each
step says about `mailed`), `Sole` (an undoubled delivery has one job), `Followed`
(which job or process an unsent row depends on). `Prospects` has the bound: the
messages that went out, the jobs that may still send, the workers that lost their
job and may still send, and the enqueuer that has yet to add the job are together
at most one more than the faults. The refinement theorem shows
that every action under them is one contract step or a stutter.

*Task reminders.* `Stamped`: a run about to stamp has emitted. `Single`: a row
that is not doubtful is in one run's hands. `Repeats`: until a row is stamped, each
of its events has a run about to stamp it or a fault; afterwards nobody fetches it. `Logged`: for every task and day the
events emitted plus the runs that have logged and not yet emitted are at most the
log's rows; this needs cardinalities, because each emission consumes a row of
its own.

*Watchlist.* `Shape` (where a run at each step can hold something), `Once` (a row
that was fetched by one run only is told by it or not at all), `Few` (the times
somebody was told and the runs that may still tell them are at most the runs
there can be: a stamped row is fetched by nobody), `Counted` (unless
`late`, a run's counter bounds the day's summaries that were not given up). The
last is where the code's order matters: the count is taken when nothing is
queued, and only one run counts.

*Alerts.* `Loaded` (what an evaluation has in hand was loaded live, and what it is
about to stamp was not cooling when it looked), `Known` (a rule that was loaded is
there or was deleted). `Fresh` carries the cooldown: outside contention the stamp
in the row is the latest one, and whoever holds the rule has read that stamp.
`Paying`: a rule that owes an alert is still in the loop, in hand, or has it.
`Answers` is the converse, event by event: what was stamped was due and is out of
the loop, and what was alerted was stamped.

*Membership.* `Accepts` (a request past the join has a member behind it),
`Inviting` (who may be making an invitation for an address), `Seated` (a count in
hand is the number of members unless something joined or left), `Booked` (the
members and the requests that were promised a seat stay below the limit and the
requests that can be in flight), `Seats` (the
cached count, or a request that will write it).

*Sessions.* `TInv` (every token descends from a login), `Leads` (waiters and
leaders of a page: a refresh under way that its page has not left is the one in flight,
so there are no two), `Uncrossed` (a refresh that is not crossed carries the cookie),
`Single` (a session not forked has one live token or one rotation that will make
it), `Unseen`, `Current` (the cookie is live, has run out, or a rotation of its session
is under way),
`Latest` (an answer on its way has the only live token of its session; otherwise only
the cookie can be live, unless an answer was lost: so that a logout, which names the
cookie, ends the session), `Over` (ended sessions).

*Extraction.* `TInv` also says which steps are a worker's and which a chat's, and
that a BullMQ job that may run again has attempts left. `JInv` is about one
document at a time: `Alone` (without a collision one process has it, and holds the
lock if it is a worker), `Early` (what cannot have happened before the upload has come
that far, or before BullMQ knows the job), `Seen` (a document whose job BullMQ never knew
has no extract, so that the list passes none of them by), `Decided` (a worker about to end has
completed the job), and `Cared` (a job that is not over and that BullMQ knows is in its hands
or the failed handler's). `XInv` is about the chunks:
`Extracted` (a job is completed only when there is an extract), and `Cut` (while
somebody cuts, the chunks are exactly those up to the part at hand, and all of
them when nobody does). `OInv` is about the text: a worker that found no hash finds
no text, a chat finds the text of a completed job in its place, and without a
collision whoever is about to store it is alone and the first.

Only model-checked: the liveness properties (`PaymentIsGranted`, `QueuedIsSettled`,
`PlannedIsSent`, `UploadedIsSettled`), which need fairness and
ENABLED and are out of the prover's reach. The two findings are counterexamples
and need no proof.

## 6. Not modelled

*In the modelled components.*

- Billing: POST `/billing/events` (`modules/billing/billing.routes.ts:801`), which lets a page write
  a `BillingEvent` of any name: `AlreadyProcessed` takes `checkout_completed` to be written by
  the notify handler alone, as the pages of the frontend send other names
  (`paywall_shown`, `pricing_viewed`, `upgrade_clicked`); the development-only route
  that completes the latest checkout,
  the signature and the gateway's confirmation (their refusal is an outcome of
  `Fail`), the notification rows and the audit log, which nothing reads back.
  `PaymentAssumption` says one payment belongs to one checkout, so that the unique
  index on `PayFastCheckout.payfastPaymentId` refuses nothing.
- Delivery: choosing recipients and channels (the constant `Deliveries`), quiet
  hours arithmetic (`DeferUntil`), the content of messages. Quiet hours are looked at once,
  when the delivery is written: nothing is said of those a retry falls into.
- Alerts: listing, webhooks, and how an organisation sets its automation (a constant
  of each event).
- Task reminders: tasks without owner and the limits of `findMany`, which are
  above the number of tasks here.
- Watchlist reminders: site-visit reminders, which have their own times and
  otherwise the life of an urgent one, `fireReminderById` (an administrator's
  single firing), and other organisations watching the same tender.
- Membership: organisations being created and deleted, workspace roles, and
  users editing their profile.
- Sessions: registration, e-mail verification, and the making of reset tokens;
  `ResetPassword` is the transaction that ends the sessions. The access token is
  fresh or stale, without signature. Logging in is one step with its `/me`; `/me` called
  again later, from the pages of organisations, is not modelled, nor are calls whose token is
  good, or calls without a token from a page that is being replaced. A logout that fails
  leaves session and cookie alive behind the login page: the model has it, no
  property speaks of it, because nothing in the repository says what should happen.
- Extraction: OCR, tender text from other sources than uploaded documents, and
  what the AI writes. The list's snapshot of the queue (`modules/orgDocs/orgDocs.routes.ts`) is cut at 501 jobs;
  with more, BullMQ would know a job the list resets, which the model has for other
  reasons (`adrift`). The order in which a request goes through the documents is any.

*Components without a module.* They share no state with the modelled ones beyond
what is said here.

- Plan limits and usage counters (`billing/usage.service.ts:28`): the check and the
  increment are two calls with the AI request between them, so requests in
  flight exceed the limit by their number. `OrgMembership` has the same pattern
  with its consequences (`WithinLimit`, `SeatsAgree`).
- Referral earnings (`billing/referralEarnings.service.ts:35`) and payouts
  (`payouts/payouts.service.ts:38`): looking for an earning and creating it are two
  calls, and paying is a call to a provider before the rows say PAID. The provider
  is a stub here, so whether a repeated payout is refused cannot be read from
  the code.
- Registration (`modules/auth/auth.service.ts:153`): user, organisation and
  membership are separate writes; a stop between them leaves an account without
  an organisation, which nothing repairs. There is no second actor, and the
  modelled components start from accounts that exist.
- Quiet hours (`utils/time.ts`): minute arithmetic without state.
- eTenders import, deadline extraction, compliance audit and bid review, chat and
  summaries: their results are text, dates or scores from an external page or
  model; `MoveClosing` and the chat preparation in `ExtractionPipeline` are what the
  modelled parts see of them.
- Workspaces and tasks, watchlist settings, trial and retention campaigns,
  support, administration: rows of their own, written by single calls.
- HTTP middleware, storage, realtime, cache and the pages of the frontend: plumbing
  and presentation.
