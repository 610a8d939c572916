--------------------------- MODULE PayFastBilling ---------------------------
(***************************************************************************)
(* How one organisation's subscription follows PayFast: plan checkouts,    *)
(* the handler of instant transaction notifications (POST /payfast/notify, *)
(* many requests at once, each a sequence of database calls), the hourly   *)
(* reconciliation job, and the trial guard and trial synchronisation that  *)
(* write the same OrgSubscription row.                                     *)
(*                                                                         *)
(* Every `await` of a database call is one step, so two requests interleave*)
(* between any two calls, and the API process can die between them.        *)
(* PayFast posts a notice again until it receives a 200.                   *)
(*                                                                         *)
(* Left out: the notification rows, the checkout_failed and                *)
(* checkout_started events and the audit log, which no code reads back to  *)
(* decide anything.  One organisation: every row is keyed by orgId.        *)
(***************************************************************************)
EXTENDS Integers, FiniteSets

CONSTANTS
  Notices,      \* the notices PayFast sends
  Payments,     \* values of pf_payment_id
  References,   \* checkout references (crypto.randomUUID)
  Tokens,       \* PayFast subscription tokens
  Handlers,     \* notify requests that can be in flight at once
  NoPayment, NoReference, NoToken,
  NoticeKinds,  \* what a notice may say
  PlanOf,       \* the plan a checkout reference was created for
  Month, Grace, FailedGrace, StaleAfter,  \* durations, in ticks
  TrialEnd,     \* when the owner's account trial ends
  MaxNow,       \* bound: the clock stops here
  MaxFaults     \* bound: exceptions, crashes and lost answers

NoDate == 0     \* a null DateTime; the clock starts at 1
PaidPlans == {"PRO", "ENTERPRISE"}

NoticeType ==
  [payment : Payments \cup {NoPayment}, ref : References \cup {NoReference},
   token   : Tokens \cup {NoToken},     plan : PaidPlans,
   status  : {"COMPLETE", "CANCELED", "FAILED", "OTHER"},
   priced  : BOOLEAN]   \* amount_gross is the plan's monthly price

ASSUME NoticeAssumption ==
  /\ NoPayment \notin Payments /\ NoReference \notin References
  /\ NoToken \notin Tokens
  /\ Notices # {} /\ IsFiniteSet(Handlers)
  /\ PlanOf \in [References -> PaidPlans]
  /\ NoticeKinds \subseteq NoticeType
  \* PayFast numbers every completed payment.
  /\ \A k \in NoticeKinds : k.status = "COMPLETE" => k.payment \in Payments

\* One payment is for one checkout at most, so that the unique index on
\* PayFastCheckout.payfastPaymentId never refuses an update.
ASSUME PaymentAssumption ==
  \A k, l \in NoticeKinds :
    (k.payment = l.payment /\ k.payment # NoPayment
       /\ k.ref # NoReference /\ l.ref # NoReference) => k.ref = l.ref

ASSUME TimeAssumption ==
  /\ Month \in Nat \ {0} /\ Grace \in Nat /\ FailedGrace \in Nat
  /\ StaleAfter \in Nat /\ TrialEnd \in Nat \ {0}
  /\ MaxNow \in Nat /\ MaxFaults \in Nat

VARIABLES
  now,        \* the clock
  sub,        \* the OrgSubscription row
  checkouts,  \* PayFastCheckout rows by reference
  completed,  \* payments that have a checkout_completed BillingEvent
  handler,    \* the notify requests in flight
  job,        \* reconcilePayFastSubscriptions
  guard,      \* one enforceTrial call between its read and its update
  notice,     \* what each notice says (PayFast)
  acked,      \* notices PayFast got a 200 for
  faults,     \* exceptions, crashes and lost answers so far
  granted,    \* history: subscription upserts made for each payment
  disturbed,  \* history: payments handled twice at once, or whose handler
              \*   failed between the upsert and the event
  credit      \* history: months granted, since when, and whether one upsert
              \*   overwrote another it had not read

db       == <<sub, checkouts, completed>>
external == <<notice, acked>>
history  == <<granted, disturbed, credit>>
vars == <<now, db, handler, job, guard, external, faults, history>>

-----------------------------------------------------------------------------
(* Rows and process states. *)

Statuses == {"TRIALING", "ACTIVE", "PAST_DUE", "CANCELED", "EXPIRED"}

Subscriptions ==
  [plan : PaidPlans \cup {"TRIAL"}, status : Statuses,
   gateway : {"NONE", "PAYFAST"}, token : Tokens \cup {NoToken},
   trialEndsAt : Nat, currentPeriodEnd : Nat, graceEndsAt : Nat]

CheckoutStatuses ==
  {"NONE", "PENDING", "COMPLETE", "CANCELED", "FAILED", "INVALID", "EXPIRED"}

Checkouts ==
  [status : CheckoutStatuses, createdAt : Nat,
   payment : Payments \cup {NoPayment}]

Steps == {"idle", "lookup", "dedup", "reject", "period", "upsert",
          "track", "complete", "apply", "mark", "ack"}

\* base and seenEnd: what activatePayFastSubscription read of the period.
Requests == [pc : Steps, notice : Notices, base : Nat, seenEnd : Nat]

IdleRequest ==
  [pc |-> "idle", notice |-> CHOOSE n \in Notices : TRUE,
   base |-> 0, seenEnd |-> 0]

\* now: the job's `now` argument; seen: the period end its findMany returned.
Jobs == [pc : {"idle", "mark", "expire", "stale"}, now : Nat, seen : Nat]

\* seen: the status enforceTrial read.
Guards == [pc : {"idle", "update"}, seen : Statuses]

-----------------------------------------------------------------------------
NewSubscription ==
  [plan |-> "TRIAL", status |-> "TRIALING", gateway |-> "NONE",
   token |-> NoToken, trialEndsAt |-> TrialEnd, currentPeriodEnd |-> NoDate,
   graceEndsAt |-> NoDate]

IdleJob   == [pc |-> "idle", now |-> 0, seen |-> NoDate]
IdleGuard == [pc |-> "idle", seen |-> "TRIALING"]

Init ==
  /\ now = 1
  /\ sub = NewSubscription
  /\ checkouts = [r \in References |->
       [status |-> "NONE", createdAt |-> NoDate, payment |-> NoPayment]]
  /\ completed = {}
  /\ handler = [h \in Handlers |-> IdleRequest]
  /\ job = IdleJob
  /\ guard = IdleGuard
  /\ notice \in [Notices -> NoticeKinds]
  /\ acked = {}
  /\ faults = 0
  /\ granted = [p \in Payments |-> 0]
  /\ disturbed = {}
  /\ credit = [months |-> 0, since |-> NoDate, torn |-> FALSE]

Known(r)  == r # NoReference /\ checkouts[r].status # "NONE"
Said(h)   == notice[handler[h].notice]
At(h, pc) == handler[h].pc = pc
Pays(n, p) == notice[n].status = "COMPLETE" /\ notice[n].payment = p
Goto(h, pc) == handler' = [handler EXCEPT ![h].pc = pc]

-----------------------------------------------------------------------------
(* POST /plan-checkout: a reference becomes a PENDING checkout. *)
CreateCheckout(r) ==
  /\ checkouts[r].status = "NONE"
  /\ checkouts' = [checkouts EXCEPT ![r] =
       [status |-> "PENDING", createdAt |-> now, payment |-> NoPayment]]
  /\ UNCHANGED <<now, sub, completed, handler, job, guard, external, faults,
                 history>>

-----------------------------------------------------------------------------
(* POST /payfast/notify, one action per database call. *)

\* A notice about a checkout can only exist once the checkout does; a notice
\* is posted (again) while PayFast has no 200 for it.
Receive(h, n) ==
  /\ At(h, "idle")
  /\ n \notin acked
  /\ notice[n].ref # NoReference => Known(notice[n].ref)
  /\ handler' = [handler EXCEPT ![h] =
       [IdleRequest EXCEPT !.pc = "lookup", !.notice = n]]
  /\ disturbed' = disturbed \cup
       {p \in Payments : /\ Pays(n, p)
                         /\ \E g \in Handlers : ~At(g, "idle")
                                               /\ Pays(handler[g].notice, p)}
  /\ UNCHANGED <<now, db, job, guard, external, faults, granted, credit>>

\* The answer that ends a request; only a 200 stops PayFast from retrying.
AnswerAlwaysOk(h, code) ==   \* mutant: every request is answered 200
  /\ handler' = [handler EXCEPT ![h] = IdleRequest]
  /\ acked' = acked \cup {handler[h].notice}

Answer(h, code) ==
  /\ handler' = [handler EXCEPT ![h] = IdleRequest]
  /\ acked' = IF code = 200 THEN acked \cup {handler[h].notice} ELSE acked

RecurringOfOrg(m) ==
  sub.gateway = "PAYFAST" /\ (m.token = NoToken \/ sub.token = m.token)

AcceptableWhilePending(m) ==   \* mutant: only a PENDING checkout can be paid
  IF Known(m.ref) THEN checkouts[m.ref].status = "PENDING"
                  ELSE RecurringOfOrg(m)

\* UNKNOWN_REFERENCE, and PLAN_MISMATCH against the checkout.
Acceptable(m) ==
  IF Known(m.ref) THEN PlanOf[m.ref] = m.plan ELSE RecurringOfOrg(m)

LookUp(h) ==
  /\ At(h, "lookup")
  /\ IF Acceptable(Said(h))
       THEN Goto(h, "dedup") /\ UNCHANGED acked
       ELSE Answer(h, 400)
  /\ UNCHANGED <<now, db, job, guard, notice, faults, history>>

AlreadyProcessedByCheckout(m) ==   \* mutant: looks at the checkout instead
  Known(m.ref) /\ checkouts[m.ref].status = "COMPLETE"

\* A checkout_completed event with the payment; the events that pages post to
\* /billing/events are taken to have other names, as those of the frontend do.
AlreadyProcessed(m) == m.payment \in completed

\* The alreadyProcessed check, then the branch on amount and status.
Deduplicate(h) ==
  /\ At(h, "dedup")
  /\ IF AlreadyProcessed(Said(h))
       THEN Answer(h, 200)
       ELSE /\ Goto(h, CASE ~Said(h).priced -> "reject"
                         [] Said(h).priced /\ Said(h).status = "COMPLETE" -> "period"
                         [] OTHER -> "apply")
            /\ UNCHANGED acked
  /\ UNCHANGED <<now, db, job, guard, notice, faults, history>>

\* payFastCheckout.update of the notice's checkout, when there is one.
Closed(m, status) ==
  IF Known(m.ref)
    THEN [checkouts EXCEPT ![m.ref] =
           [@ EXCEPT !.status = status, !.payment = m.payment]]
    ELSE checkouts

\* AMOUNT_MISMATCH.
RejectAmount(h) ==
  /\ At(h, "reject")
  /\ checkouts' = Closed(Said(h), "INVALID")
  /\ Answer(h, 400)
  /\ UNCHANGED <<now, sub, completed, job, guard, notice, faults, history>>

\* activatePayFastSubscription: read the period, upsert, record the event.
PeriodBaseFromNow == now   \* mutant: the rest of the paid period is forgotten

PeriodBase == IF sub.currentPeriodEnd > now THEN sub.currentPeriodEnd ELSE now

ReadPeriod(h) ==
  /\ At(h, "period")
  /\ handler' = [handler EXCEPT
       ![h].pc = "upsert",
       ![h].seenEnd = sub.currentPeriodEnd,
       ![h].base = PeriodBase]
  /\ UNCHANGED <<now, db, job, guard, external, faults, history>>

UpsertSubscription(h) ==
  LET m == Said(h) IN
  /\ At(h, "upsert")
  /\ sub' = [sub EXCEPT
       !.plan = m.plan, !.status = "ACTIVE", !.gateway = "PAYFAST",
       !.token = IF m.token = NoToken THEN @ ELSE m.token,
       !.trialEndsAt = NoDate, !.graceEndsAt = NoDate,
       !.currentPeriodEnd = handler[h].base + Month]
  /\ Goto(h, "track")
  /\ granted' = [granted EXCEPT ![m.payment] = @ + 1]
  /\ credit' = [months |-> credit.months + 1,
                since |-> IF credit.months = 0 THEN handler[h].base
                                               ELSE credit.since,
                torn |-> credit.torn \/ handler[h].seenEnd # sub.currentPeriodEnd]
  /\ UNCHANGED <<now, checkouts, completed, job, guard, external, faults,
                 disturbed>>

TrackCompleted(h) ==
  /\ At(h, "track")
  /\ completed' = completed \cup {Said(h).payment}
  /\ Goto(h, "complete")
  /\ UNCHANGED <<now, sub, checkouts, job, guard, external, faults, history>>

CompleteCheckout(h) ==
  /\ At(h, "complete")
  /\ checkouts' = Closed(Said(h), "COMPLETE")
  /\ Goto(h, "ack")
  /\ UNCHANGED <<now, sub, completed, job, guard, external, faults, history>>

\* A cancelled or failed recurring payment; any other status changes nothing.
ApplyStatus(h) ==
  /\ At(h, "apply")
  /\ sub' = CASE Said(h).status = "CANCELED" /\ sub.gateway = "PAYFAST" ->
                   [sub EXCEPT !.status = "CANCELED"]
              [] /\ Said(h).status = "FAILED" /\ sub.gateway = "PAYFAST"
                 /\ sub.status = "ACTIVE" ->
                   [sub EXCEPT !.status = "PAST_DUE",
                               !.graceEndsAt = now + FailedGrace]
              [] OTHER -> sub
  /\ Goto(h, "mark")
  /\ UNCHANGED <<now, checkouts, completed, job, guard, external, faults,
                 history>>

ClosingStatusDefault(m) ==   \* mutant: an unknown status completes
  IF m.status \in {"CANCELED", "FAILED"} THEN m.status ELSE "COMPLETE"

ClosingStatusVerbatim(m) == m.status   \* mutant: PayFast's status as it came

ClosingStatus(m) ==
  IF m.status \in {"CANCELED", "FAILED"} THEN m.status ELSE "PENDING"

MarkCheckout(h) ==
  /\ At(h, "mark")
  /\ checkouts' = Closed(Said(h), ClosingStatus(Said(h)))
  /\ Goto(h, "ack")
  /\ UNCHANGED <<now, sub, completed, job, guard, external, faults, history>>

Acknowledge(h) ==
  /\ At(h, "ack")
  /\ Answer(h, 200)
  /\ UNCHANGED <<now, db, job, guard, notice, faults, history>>

\* The payments whose upsert is made and whose event is not, by request h.
Unrecorded(h) == {p \in Payments : At(h, "track") /\ Said(h).payment = p}

\* The catch block (500), a gateway that does not confirm (400), or an answer
\* PayFast never saw: in each case PayFast posts the notice again.
Fail(h) ==
  /\ ~At(h, "idle")
  /\ faults < MaxFaults
  /\ faults' = faults + 1
  /\ handler' = [handler EXCEPT ![h] = IdleRequest]
  /\ disturbed' = disturbed \cup Unrecorded(h)
  /\ UNCHANGED <<now, db, job, guard, external, granted, credit>>

-----------------------------------------------------------------------------
(* reconcilePayFastSubscriptions, started by cron in the API process. *)

OverdueEarly(s, t) ==   \* mutant: every active subscription with a period
  s.gateway = "PAYFAST" /\ s.status = "ACTIVE" /\ s.currentPeriodEnd # NoDate

Overdue(s, t) ==
  /\ s.gateway = "PAYFAST" /\ s.status = "ACTIVE"
  /\ s.currentPeriodEnd # NoDate /\ s.currentPeriodEnd < t

FindOverdue ==
  /\ job.pc = "idle"
  /\ job' = IF Overdue(sub, now)
       THEN [pc |-> "mark", now |-> now, seen |-> sub.currentPeriodEnd]
       ELSE [IdleJob EXCEPT !.pc = "expire", !.now = now]
  /\ UNCHANGED <<now, db, handler, guard, external, faults, history>>

\* The update names the organisation only: it does not look again.
MarkPastDue ==
  /\ job.pc = "mark"
  /\ sub' = [sub EXCEPT !.status = "PAST_DUE",
                        !.graceEndsAt = job.now + Grace]
  /\ job' = [IdleJob EXCEPT !.pc = "expire", !.now = job.now]
  /\ UNCHANGED <<now, checkouts, completed, handler, guard, external, faults,
                 history>>

GraceOver(s, t) ==
  s.status = "PAST_DUE" /\ s.graceEndsAt # NoDate /\ s.graceEndsAt < t

LapsedAtOnce(s, t) ==   \* mutant: past due is expired, whatever the grace
  s.gateway = "PAYFAST" /\ s.status = "PAST_DUE"

Lapsed(s, t) == s.gateway = "PAYFAST" /\ GraceOver(s, t)

ExpirePastDue ==
  /\ job.pc = "expire"
  /\ sub' = IF Lapsed(sub, job.now)
             THEN [sub EXCEPT !.status = "EXPIRED"] ELSE sub
  /\ job' = [job EXCEPT !.pc = "stale"]
  /\ UNCHANGED <<now, checkouts, completed, handler, guard, external, faults,
                 history>>

ExpireStaleCheckouts ==
  /\ job.pc = "stale"
  /\ checkouts' = [r \in References |->
       IF /\ checkouts[r].status = "PENDING"
          /\ checkouts[r].createdAt < job.now - StaleAfter
       THEN [checkouts[r] EXCEPT !.status = "EXPIRED"] ELSE checkouts[r]]
  /\ job' = IdleJob
  /\ UNCHANGED <<now, sub, completed, handler, guard, external, faults, history>>

\* A call of the run throws: what it has done stays, the rest is left.
ReconcileFails ==
  /\ job.pc # "idle"
  /\ faults < MaxFaults
  /\ faults' = faults + 1
  /\ job' = IdleJob
  /\ UNCHANGED <<now, db, handler, guard, external, history>>

-----------------------------------------------------------------------------
(* enforceTrial, in front of the AI, export and workspace routes. *)

TrialOver(s, t) ==
  s.status = "TRIALING" /\ s.trialEndsAt # NoDate /\ t > s.trialEndsAt

ReadTrial ==
  /\ guard.pc = "idle"
  /\ TrialOver(sub, now)
  /\ guard' = [pc |-> "update", seen |-> sub.status]
  /\ UNCHANGED <<now, db, handler, job, external, faults, history>>

ExpireTrial ==
  /\ guard.pc = "update"
  /\ sub' = [sub EXCEPT !.status = "EXPIRED"]
  /\ guard' = IdleGuard
  /\ UNCHANGED <<now, checkouts, completed, handler, job, external, faults,
                 history>>

\* syncOwnerTrialSubscriptions at login: one updateMany over TRIAL plans.
SyncOwnerTrial ==
  /\ sub.plan = "TRIAL"
  /\ sub.status \in {"ACTIVE", "TRIALING", "EXPIRED"}
  /\ sub' = [sub EXCEPT !.status = IF now > TrialEnd THEN "EXPIRED"
                                                     ELSE "TRIALING",
                        !.trialEndsAt = TrialEnd]
  /\ UNCHANGED <<now, checkouts, completed, handler, job, guard, external,
                 faults, history>>

-----------------------------------------------------------------------------
\* Bounded clock; a reconciliation run takes less than the days of grace.
Tick ==
  /\ now < MaxNow
  /\ job.pc # "idle" => now < job.now + Grace
  /\ now' = now + 1
  /\ UNCHANGED <<db, handler, job, guard, external, faults, history>>

\* The API process dies: requests, job and guard stop where they are.
Crash ==
  /\ faults < MaxFaults
  /\ faults' = faults + 1
  /\ handler' = [h \in Handlers |-> IdleRequest]
  /\ job' = IdleJob
  /\ guard' = IdleGuard
  /\ disturbed' = disturbed \cup UNION {Unrecorded(h) : h \in Handlers}
  /\ UNCHANGED <<now, db, external, granted, credit>>

Handle(h) ==
  \/ LookUp(h) \/ Deduplicate(h) \/ RejectAmount(h)
  \/ ReadPeriod(h) \/ UpsertSubscription(h) \/ TrackCompleted(h)
  \/ CompleteCheckout(h) \/ ApplyStatus(h) \/ MarkCheckout(h)
  \/ Acknowledge(h)

Reconcile ==
  \/ FindOverdue \/ MarkPastDue \/ ExpirePastDue \/ ExpireStaleCheckouts
  \/ ReconcileFails

Next ==
  \/ \E r \in References : CreateCheckout(r)
  \/ \E h \in Handlers, n \in Notices : Receive(h, n)
  \/ \E h \in Handlers : Handle(h) \/ Fail(h)
  \/ Reconcile
  \/ ReadTrial \/ ExpireTrial \/ SyncOwnerTrial
  \/ Tick \/ Crash

Spec == Init /\ [][Next]_vars

\* A running request goes on; PayFast keeps posting what it has no 200 for
\* (strong: a free request slot comes and goes).
Fairness ==
  /\ \A h \in Handlers : WF_vars(Handle(h))
  /\ \A n \in Notices : SF_vars(\E h \in Handlers : Receive(h, n))

FairSpec == Spec /\ Fairness

-----------------------------------------------------------------------------
(* What the code should keep true. *)

TypeOK ==
  /\ now \in Nat
  /\ sub \in Subscriptions
  /\ checkouts \in [References -> Checkouts]
  /\ completed \subseteq Payments
  /\ handler \in [Handlers -> Requests]
  /\ job \in Jobs
  /\ guard \in Guards
  /\ notice \in [Notices -> NoticeKinds]
  /\ acked \subseteq Notices
  /\ faults \in 0..MaxFaults
  /\ granted \in [Payments -> Nat]
  /\ disturbed \subseteq Payments
  /\ credit \in [months : Nat, since : Nat, torn : BOOLEAN]

\* A completed payment PayFast got a 200 for has bought its month: the answer
\* is never sent before the subscription is extended, whatever dies between.
AckedIsGranted ==
  \A n \in acked : notice[n].status = "COMPLETE" =>
    granted[notice[n].payment] > 0

\* One payment buys one month, however often PayFast posts it, unless two of
\* its requests overlapped or one stopped between upsert and event: those are
\* the only two ways past the alreadyProcessed check.  Even then it buys no more
\* months than requests can be in flight at once, and as many again per fault.
SingleGrant ==
  /\ \A p \in Payments \ disturbed : granted[p] <= 1
  /\ \A p \in Payments : granted[p] <= Cardinality(Handlers) * (1 + faults)

\* A checkout is shown COMPLETE only for a payment that extended the
\* subscription and whose event will stop the next copy of the notice.
CompleteIsPaid ==
  \A r \in References : checkouts[r].status = "COMPLETE" =>
    /\ checkouts[r].payment \in completed
    /\ granted[checkouts[r].payment] > 0

\* Months add up: payments made one after the other extend the paid period
\* end to end, so that only an upsert computed from a period that another
\* upsert had meanwhile replaced can lose a month.
MonthsAddUp ==
  credit.months > 0 /\ ~credit.torn =>
    sub.currentPeriodEnd >= credit.since + Month * credit.months

\* enforceBillingWriteAccess: may this organisation still write?
MayWrite(s, t) ==
  s.status # "EXPIRED" /\ ~GraceOver(s, t)

\* An organisation is locked out only when its trial is over, when the grace it
\* was given is over, or by a trial guard that read the row before a payment
\* changed it.
LockedOutOnlyWhenDue ==
  [][MayWrite(sub, now) /\ ~MayWrite(sub', now') =>
       \/ GraceOver(sub, now')
       \/ sub.plan = "TRIAL" /\ now' > TrialEnd
       \/ guard.pc = "update" /\ guard.seen # sub.status]_vars

\* A paid-up subscription is not marked past due by the clock: only PayFast's
\* failure notice does that, or a reconciliation whose findMany saw the row
\* before the renewal.
PastDueOnlyWhenDue ==
  [][sub.status = "ACTIVE" /\ sub'.status = "PAST_DUE" =>
       \/ sub.currentPeriodEnd < now
       \/ \E h \in Handlers : At(h, "apply") /\ Said(h).status = "FAILED"
       \/ job.pc = "mark" /\ job.seen # sub.currentPeriodEnd]_vars

\* Every completed payment of a known checkout is granted in the end, through
\* any bounded number of exceptions, crashes and lost answers.
PaymentIsGranted ==
  \A n \in Notices : \A r \in References :
    (notice[n].status = "COMPLETE" /\ notice[n].priced /\ notice[n].ref = r
       /\ notice[n].plan = PlanOf[r] /\ checkouts[r].status # "NONE")
      ~> (granted[notice[n].payment] > 0)

=============================================================================
