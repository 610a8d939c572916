------------------------ MODULE PayFastBillingProofs ------------------------
(***************************************************************************)
(* Proofs about PayFastBilling, for every set of notices, payments,        *)
(* references and concurrent requests, and every bound.                    *)
(***************************************************************************)
EXTENDS PayFastBilling, FiniteSetTheorems, TLAPS

USE NoticeAssumption, TimeAssumption

LEMMA IdleRequestType == IdleRequest \in Requests
  BY DEF IdleRequest, Requests, Steps

\* What a request's notice says is one of the kinds of notices.
LEMMA SaidType ==
  ASSUME TypeOK, NEW h \in Handlers
  PROVE  /\ Said(h) \in NoticeType
         /\ Said(h).status = "COMPLETE" => Said(h).payment \in Payments
  BY DEF TypeOK, Said, Requests, NoticeType

\* A payment is applied only by a request whose notice says COMPLETE; only such
\* a notice is sure to carry a payment number.
StepInv ==
  \A h \in Handlers :
    /\ handler[h].pc \in {"period", "upsert", "track", "complete"}
         => Said(h).status = "COMPLETE"
    /\ handler[h].pc \in {"apply", "mark"} => Said(h).status # "COMPLETE"

TInv == TypeOK /\ StepInv

LEMMA CheckoutUpdate ==
  ASSUME NEW c \in Checkouts, NEW s \in CheckoutStatuses,
         NEW p \in Payments \cup {NoPayment}
  PROVE  [c EXCEPT !.status = s, !.payment = p] \in Checkouts
  BY DEF Checkouts

LEMMA ClosedType ==
  ASSUME TypeOK, NEW m \in NoticeType, NEW s \in CheckoutStatuses
  PROVE  Closed(m, s) \in [References -> Checkouts]
<1>1. CASE Known(m.ref)
  <2>1. m.ref \in References /\ m.payment \in Payments \cup {NoPayment}
    BY <1>1 DEF Known, NoticeType
  <2>2. [checkouts[m.ref] EXCEPT !.status = s, !.payment = m.payment] \in Checkouts
    BY <2>1, CheckoutUpdate DEF TypeOK
  <2>3. QED
    BY <1>1, <2>1, <2>2 DEF Closed, TypeOK
<1>2. CASE ~Known(m.ref)
  BY <1>2 DEF Closed, TypeOK
<1>3. QED
  BY <1>1, <1>2

LEMMA InitType == Init => TypeOK
<1> SUFFICES ASSUME Init PROVE TypeOK
  OBVIOUS
<1>1. sub \in Subscriptions /\ job \in Jobs /\ guard \in Guards
  BY DEF Init, NewSubscription, Subscriptions, Statuses, NoDate, IdleJob, Jobs,
         IdleGuard, Guards
<1>2. handler \in [Handlers -> Requests]
  BY IdleRequestType DEF Init
<1>3. checkouts \in [References -> Checkouts]
  BY DEF Init, Checkouts, CheckoutStatuses, NoDate
<1>4. QED
  BY <1>1, <1>2, <1>3 DEF Init, TypeOK, NoDate

\* The requests' own steps.
LEMMA HandleType ==
  ASSUME TInv, NEW h \in Handlers, Handle(h)
  PROVE  TypeOK'
<1> USE SaidType, IdleRequestType DEF TInv
<1>t. /\ handler[h] \in Requests /\ handler[h].notice \in Notices
      /\ Said(h) \in NoticeType
  BY DEF TypeOK, Requests
<1>g. ASSUME NEW pc \in Steps, Goto(h, pc)
      PROVE  handler' \in [Handlers -> Requests]
  BY <1>g DEF TypeOK, Requests, Goto
<1>a. ASSUME NEW code, Answer(h, code)
      PROVE  handler' \in [Handlers -> Requests] /\ acked' \subseteq Notices
  BY <1>a, <1>t DEF TypeOK, Answer
<1>1. CASE LookUp(h)
  <2>1. handler' \in [Handlers -> Requests] /\ acked' \subseteq Notices
    BY <1>1, <1>g, <1>a DEF LookUp, Steps, TypeOK
  <2>2. QED
    BY <1>1, <2>1 DEF LookUp, TypeOK, db, history, vars
<1>2. CASE Deduplicate(h)
  <2>1. handler' \in [Handlers -> Requests] /\ acked' \subseteq Notices
    BY <1>2, <1>g, <1>a DEF Deduplicate, Steps, TypeOK
  <2>2. QED
    BY <1>2, <2>1 DEF Deduplicate, TypeOK, db, history
<1>3. CASE RejectAmount(h)
  <2>1. checkouts' \in [References -> Checkouts]
    BY <1>3, <1>t, ClosedType DEF RejectAmount, CheckoutStatuses
  <2>2. QED
    BY <1>3, <1>a, <2>1 DEF RejectAmount, TypeOK, history
<1>4. CASE ReadPeriod(h)
  <2>1. handler' \in [Handlers -> Requests]
    <3>1. PeriodBase \in Nat /\ sub.currentPeriodEnd \in Nat
      BY DEF TypeOK, PeriodBase, Subscriptions
    <3> DEFINE p == [handler[h] EXCEPT !.pc = "upsert", !.seenEnd = sub.currentPeriodEnd,
                                       !.base = PeriodBase]
    <3>2. p \in Requests
      BY <1>t, <3>1 DEF Requests, Steps
    <3>3. handler' = [handler EXCEPT ![h] = p]
      BY <1>4 DEF ReadPeriod
    <3> HIDE DEF p
    <3>4. QED
      BY <3>2, <3>3 DEF TypeOK
  <2>2. QED
    BY <1>4, <2>1 DEF ReadPeriod, TypeOK, db, external, history
<1>5. CASE UpsertSubscription(h)
  <2>1. handler' \in [Handlers -> Requests]
    BY <1>5, <1>g DEF UpsertSubscription, Steps
  <2>2. sub' \in Subscriptions
    <3> DEFINE k == IF Said(h).token = NoToken THEN sub.token
                                               ELSE Said(h).token
               e == handler[h].base + Month
    <3>1. /\ Said(h).plan \in PaidPlans /\ e \in Nat
          /\ k \in Tokens \cup {NoToken}
      BY <1>t DEF TypeOK, Requests, NoticeType, Subscriptions
    <3>2. sub' = [sub EXCEPT
            !.plan = Said(h).plan, !.status = "ACTIVE", !.gateway = "PAYFAST",
            !.token = k, !.trialEndsAt = NoDate, !.graceEndsAt = NoDate,
            !.currentPeriodEnd = e]
      BY <1>5 DEF UpsertSubscription
    <3>3. sub \in Subscriptions
      BY DEF TypeOK
    <3> HIDE DEF k, e
    <3>4. QED
      BY <3>1, <3>2, <3>3 DEF Subscriptions, Statuses, NoDate
  <2>3. granted' \in [Payments -> Nat]
    <3>1. Said(h).payment \in Payments
      BY <1>5 DEF UpsertSubscription, StepInv, At
    <3>2. granted' = [granted EXCEPT ![Said(h).payment] =
                                       granted[Said(h).payment] + 1]
      BY <1>5 DEF UpsertSubscription
    <3>3. granted \in [Payments -> Nat]
      BY DEF TypeOK
    <3>4. QED
      BY <3>1, <3>2, <3>3
  <2>4. credit' \in [months : Nat, since : Nat, torn : BOOLEAN]
    <3> DEFINE s == IF credit.months = 0 THEN handler[h].base ELSE credit.since
               t == credit.torn \/ handler[h].seenEnd # sub.currentPeriodEnd
    <3>1. credit.months + 1 \in Nat /\ s \in Nat /\ t \in BOOLEAN
      BY <1>t DEF TypeOK, Requests
    <3>2. credit' = [months |-> credit.months + 1, since |-> s, torn |-> t]
      BY <1>5 DEF UpsertSubscription
    <3> HIDE DEF s, t
    <3>3. QED
      BY <3>1, <3>2
  <2>5. QED
    BY <1>5, <2>1, <2>2, <2>3, <2>4
       DEF UpsertSubscription, TypeOK, external, history
<1>6. CASE TrackCompleted(h)
  <2>1. handler' \in [Handlers -> Requests]
    BY <1>6, <1>g DEF TrackCompleted, Steps
  <2>2. completed' \subseteq Payments
    BY <1>6 DEF TrackCompleted, TypeOK, StepInv, At
  <2>3. QED
    BY <1>6, <2>1, <2>2 DEF TrackCompleted, TypeOK, external, history
<1>7. CASE CompleteCheckout(h)
  <2>1. checkouts' \in [References -> Checkouts]
    BY <1>7, <1>t, ClosedType DEF CompleteCheckout, CheckoutStatuses
  <2>2. handler' \in [Handlers -> Requests]
    BY <1>7, <1>g DEF CompleteCheckout, Steps
  <2>3. QED
    BY <1>7, <2>1, <2>2 DEF CompleteCheckout, TypeOK, external, history
<1>8. CASE ApplyStatus(h)
  <2>1. sub' \in Subscriptions
    <3>1. \/ sub' = [sub EXCEPT !.status = "CANCELED"]
          \/ sub' = [sub EXCEPT !.status = "PAST_DUE",
                                !.graceEndsAt = now + FailedGrace]
          \/ sub' = sub
      BY <1>8 DEF ApplyStatus
    <3>2. now + FailedGrace \in Nat /\ sub \in Subscriptions
      BY DEF TypeOK
    <3>3. QED
      BY <3>1, <3>2 DEF Subscriptions, Statuses
  <2>2. handler' \in [Handlers -> Requests]
    BY <1>8, <1>g DEF ApplyStatus, Steps
  <2>3. QED
    BY <1>8, <2>1, <2>2 DEF ApplyStatus, TypeOK, external, history
<1>9. CASE MarkCheckout(h)
  <2>1. ClosingStatus(Said(h)) \in CheckoutStatuses
    BY DEF ClosingStatus, CheckoutStatuses
  <2>2. checkouts' \in [References -> Checkouts]
    BY <1>9, <1>t, <2>1, ClosedType DEF MarkCheckout
  <2>3. handler' \in [Handlers -> Requests]
    BY <1>9, <1>g DEF MarkCheckout, Steps
  <2>4. QED
    BY <1>9, <2>2, <2>3 DEF MarkCheckout, TypeOK, external, history
<1>10. CASE Acknowledge(h)
  BY <1>10, <1>a DEF Acknowledge, TypeOK, db, history
<1>11. QED
  BY <1>1, <1>2, <1>3, <1>4, <1>5, <1>6, <1>7, <1>8, <1>9, <1>10 DEF Handle

LEMMA NextType ==
  ASSUME TInv, [Next]_vars
  PROVE  TypeOK'
<1> USE IdleRequestType DEF TInv
<1>u. Payments \cap disturbed \subseteq Payments
  OBVIOUS
<1>1. ASSUME NEW r \in References, CreateCheckout(r) PROVE TypeOK'
  <2>1. [status |-> "PENDING", createdAt |-> now, payment |-> NoPayment]
          \in Checkouts
    BY DEF Checkouts, CheckoutStatuses, TypeOK
  <2>2. checkouts' \in [References -> Checkouts]
    BY <1>1, <2>1 DEF CreateCheckout, TypeOK
  <2>3. QED
    BY <1>1, <2>2 DEF CreateCheckout, TypeOK, external, history
<1>2. ASSUME NEW h \in Handlers, NEW n \in Notices, Receive(h, n) PROVE TypeOK'
  <2>1. [IdleRequest EXCEPT !.pc = "lookup", !.notice = n] \in Requests
    BY DEF Requests, Steps
  <2>2. handler' \in [Handlers -> Requests]
    BY <1>2, <2>1 DEF Receive, TypeOK
  <2>3. disturbed' \subseteq Payments
    BY <1>2 DEF Receive, TypeOK
  <2>4. QED
    BY <1>2, <2>2, <2>3 DEF Receive, TypeOK, db, external
<1>3. ASSUME NEW h \in Handlers, Handle(h) PROVE TypeOK'
  BY <1>3, HandleType
<1>f. faults < MaxFaults /\ TypeOK => faults + 1 \in 0..MaxFaults
  BY DEF TypeOK
<1>4. ASSUME NEW h \in Handlers, Fail(h) PROVE TypeOK'
  <2>1. disturbed' \subseteq Payments
    BY <1>4 DEF Fail, TypeOK, Unrecorded
  <2>2. handler' \in [Handlers -> Requests]
    BY <1>4 DEF Fail, TypeOK
  <2>3. QED
    BY <1>4, <1>f, <2>1, <2>2 DEF Fail, TypeOK, db, external
<1>5. CASE FindOverdue
  <2>1. job' \in Jobs
    BY <1>5 DEF FindOverdue, TypeOK, Jobs, IdleJob, Subscriptions, NoDate
  <2>2. QED
    BY <1>5, <2>1 DEF FindOverdue, TypeOK, db, external, history
<1>6. CASE MarkPastDue
  <2>1. job' \in Jobs
    BY <1>6 DEF MarkPastDue, TypeOK, Jobs, IdleJob, NoDate
  <2>2. job.now + Grace \in Nat
    BY DEF TypeOK, Jobs
  <2>3. sub' \in Subscriptions
    BY <1>6, <2>2 DEF MarkPastDue, TypeOK, Subscriptions, Statuses
  <2>4. QED
    BY <1>6, <2>1, <2>3 DEF MarkPastDue, TypeOK, external, history
<1>7. CASE ExpirePastDue
  <2>1. job' \in Jobs
    BY <1>7 DEF ExpirePastDue, TypeOK, Jobs
  <2>2. sub' \in Subscriptions
    BY <1>7 DEF ExpirePastDue, TypeOK, Subscriptions, Statuses
  <2>3. QED
    BY <1>7, <2>1, <2>2 DEF ExpirePastDue, TypeOK, external, history
<1>8. CASE ExpireStaleCheckouts
  <2>1. job' \in Jobs
    BY <1>8 DEF ExpireStaleCheckouts, Jobs, IdleJob, NoDate
  <2>2. \A r \in References :
          [checkouts[r] EXCEPT !.status = "EXPIRED"] \in Checkouts
    BY DEF TypeOK, Checkouts, CheckoutStatuses
  <2>3. checkouts' \in [References -> Checkouts]
    BY <1>8, <2>2 DEF ExpireStaleCheckouts, TypeOK
  <2>4. QED
    BY <1>8, <2>1, <2>3 DEF ExpireStaleCheckouts, TypeOK, external, history
<1>9. CASE ReadTrial
  BY <1>9 DEF ReadTrial, TypeOK, Guards, Subscriptions, db, external, history
<1>10. CASE ExpireTrial
  <2>1. sub' \in Subscriptions /\ guard' \in Guards
    BY <1>10 DEF ExpireTrial, TypeOK, Guards, IdleGuard, Subscriptions, Statuses
  <2>2. QED
    BY <1>10, <2>1 DEF ExpireTrial, TypeOK, external, history
<1>11. CASE SyncOwnerTrial
  <2>1. sub' \in Subscriptions
    BY <1>11 DEF SyncOwnerTrial, TypeOK, Subscriptions, Statuses
  <2>2. QED
    BY <1>11, <2>1 DEF SyncOwnerTrial, TypeOK, external, history
<1>12. CASE Tick
  BY <1>12 DEF Tick, TypeOK, db, external, history
<1>13. CASE Crash
  <2>1. disturbed' \subseteq Payments
    BY <1>13 DEF Crash, TypeOK, Unrecorded
  <2>2. handler' \in [Handlers -> Requests]
    BY <1>13 DEF Crash
  <2>3. job' \in Jobs /\ guard' \in Guards
    BY <1>13 DEF Crash, IdleJob, IdleGuard, Jobs, Guards, NoDate, Statuses
  <2>4. QED
    BY <1>13, <1>f, <2>1, <2>2, <2>3 DEF Crash, TypeOK, db, external
<1>14. CASE UNCHANGED vars
  BY <1>14 DEF vars, TypeOK, db, external, history
<1>15. CASE ReconcileFails
  <2>1. job' \in Jobs
    BY <1>15 DEF ReconcileFails, Jobs, IdleJob, NoDate
  <2>2. QED
    BY <1>15, <1>f, <2>1 DEF ReconcileFails, TypeOK, db, external, history
<1>16. QED
  BY <1>1, <1>2, <1>3, <1>4, <1>5, <1>6, <1>7, <1>8, <1>9, <1>10, <1>11,
     <1>12, <1>13, <1>14, <1>15 DEF Next, Reconcile

\* Which request moves, and how: every step either leaves the notices and a
\* request alone, restarts it idle or at lookup, or is that request's own step.
LEMMA RequestMoves ==
  ASSUME TypeOK, [Next]_vars, NEW g \in Handlers
  PROVE  /\ notice' = notice
         /\ \/ handler'[g] = handler[g]
            \/ handler'[g].pc \in {"idle", "lookup"}
            \/ Handle(g) /\ handler'[g].notice = handler[g].notice
<1> USE IdleRequestType
<1>1. ASSUME NEW h \in Handlers, NEW n \in Notices, Receive(h, n)
      PROVE  /\ notice' = notice
             /\ handler'[g] = handler[g] \/ handler'[g].pc = "lookup"
  BY <1>1 DEF Receive, external, TypeOK, Requests
<1>2. ASSUME NEW h \in Handlers, Handle(h)
      PROVE  /\ notice' = notice
             /\ \/ handler'[g] = handler[g]
                \/ handler'[g].pc = "idle"
                \/ g = h /\ handler'[g].notice = handler[g].notice
  <2>1. ASSUME NEW pc, Goto(h, pc)
        PROVE  \/ handler'[g] = handler[g]
               \/ g = h /\ handler'[g].notice = handler[g].notice
    BY <2>1 DEF Goto, TypeOK, Requests
  <2>2. ASSUME NEW code, Answer(h, code)
        PROVE  handler'[g] = handler[g] \/ handler'[g].pc = "idle"
    BY <2>2 DEF Answer, TypeOK, Requests, IdleRequest
  <2>3. CASE LookUp(h) \/ Deduplicate(h)
    BY <2>3, <2>1, <2>2 DEF LookUp, Deduplicate
  <2>4. CASE RejectAmount(h) \/ Acknowledge(h)
    BY <2>4, <2>2 DEF RejectAmount, Acknowledge
  <2>5. CASE ReadPeriod(h)
    BY <2>5 DEF ReadPeriod, external, TypeOK, Requests
  <2>6. CASE UpsertSubscription(h) \/ TrackCompleted(h) \/ CompleteCheckout(h)
    BY <2>6, <2>1 DEF UpsertSubscription, TrackCompleted, CompleteCheckout,
       external
  <2>7. CASE ApplyStatus(h) \/ MarkCheckout(h)
    BY <2>7, <2>1 DEF ApplyStatus, MarkCheckout, external
  <2>8. QED
    BY <1>2, <2>3, <2>4, <2>5, <2>6, <2>7 DEF Handle
<1>3. ASSUME NEW h \in Handlers, Fail(h)
      PROVE  /\ notice' = notice
             /\ handler'[g] = handler[g] \/ handler'[g].pc = "idle"
  BY <1>3 DEF Fail, external, TypeOK, Requests, IdleRequest
<1>4. CASE Crash
  BY <1>4 DEF Crash, external, IdleRequest
<1>5. CASE \/ \E r \in References : CreateCheckout(r)
           \/ Reconcile \/ ReadTrial \/ ExpireTrial \/ SyncOwnerTrial
           \/ Tick \/ UNCHANGED vars
  BY <1>5 DEF CreateCheckout, Reconcile, FindOverdue, MarkPastDue,
     ExpirePastDue, ExpireStaleCheckouts, ReadTrial, ReconcileFails, ExpireTrial,
     SyncOwnerTrial, Tick, external, vars
<1>6. QED
  BY <1>1, <1>2, <1>3, <1>4, <1>5 DEF Next

\* A request's own step, by the step it is at.
LEMMA OwnStep ==
  ASSUME TypeOK, NEW g \in Handlers, Handle(g)
  PROVE  /\ handler[g].pc = "lookup"   => handler'[g].pc \in {"dedup", "idle"}
         /\ handler[g].pc = "dedup"    =>
              \/ handler'[g].pc = "idle"
              \/ handler'[g].pc = "reject"
              \/ /\ handler'[g].pc = "period" /\ Said(g).status = "COMPLETE"
                 /\ ~AlreadyProcessed(Said(g))
              \/ handler'[g].pc = "apply" /\ Said(g).status # "COMPLETE"
         /\ handler[g].pc = "reject"   => handler'[g].pc = "idle"
         /\ handler[g].pc = "period"   => handler'[g].pc = "upsert"
         /\ handler[g].pc = "upsert"   => handler'[g].pc = "track"
         /\ handler[g].pc = "track"    => handler'[g].pc = "complete"
         /\ handler[g].pc = "complete" => handler'[g].pc = "ack"
         /\ handler[g].pc = "apply"    => handler'[g].pc = "mark"
         /\ handler[g].pc = "mark"     => handler'[g].pc = "ack"
         /\ handler[g].pc = "ack"      => handler'[g].pc = "idle"
         /\ handler[g].pc # "idle"
<1>1. ASSUME NEW pc, Goto(g, pc) PROVE handler'[g].pc = pc
  BY <1>1 DEF Goto, TypeOK, Requests
<1>2. ASSUME NEW code, Answer(g, code) PROVE handler'[g].pc = "idle"
  BY <1>2 DEF Answer, TypeOK, IdleRequest
<1>3. CASE LookUp(g)
  BY <1>3, <1>1, <1>2 DEF LookUp, At
<1>4. CASE Deduplicate(g)
  <2>1. CASE AlreadyProcessed(Said(g))
    BY <1>4, <2>1, <1>2 DEF Deduplicate, At
  <2>2. CASE ~AlreadyProcessed(Said(g)) /\ ~Said(g).priced
    BY <1>4, <2>2, <1>1 DEF Deduplicate, At
  <2>3. CASE /\ ~AlreadyProcessed(Said(g)) /\ Said(g).priced
             /\ Said(g).status = "COMPLETE"
    BY <1>4, <2>3, <1>1 DEF Deduplicate, At
  <2>4. CASE /\ ~AlreadyProcessed(Said(g)) /\ Said(g).priced
             /\ Said(g).status # "COMPLETE"
    BY <1>4, <2>4, <1>1 DEF Deduplicate, At
  <2>5. QED
    BY <2>1, <2>2, <2>3, <2>4
<1>5. CASE RejectAmount(g)
  BY <1>5, <1>2 DEF RejectAmount, At
<1>6. CASE ReadPeriod(g)
  BY <1>6 DEF ReadPeriod, At, TypeOK, Requests
<1>7. CASE UpsertSubscription(g)
  BY <1>7, <1>1 DEF UpsertSubscription, At
<1>8. CASE TrackCompleted(g)
  BY <1>8, <1>1 DEF TrackCompleted, At
<1>9. CASE CompleteCheckout(g)
  BY <1>9, <1>1 DEF CompleteCheckout, At
<1>10. CASE ApplyStatus(g)
  BY <1>10, <1>1 DEF ApplyStatus, At
<1>11. CASE MarkCheckout(g)
  BY <1>11, <1>1 DEF MarkCheckout, At
<1>12. CASE Acknowledge(g)
  BY <1>12, <1>2 DEF Acknowledge, At
<1>13. QED
  BY <1>3, <1>4, <1>5, <1>6, <1>7, <1>8, <1>9, <1>10, <1>11, <1>12 DEF Handle

LEMMA NextStep ==
  ASSUME TInv, [Next]_vars
  PROVE  StepInv'
<1> SUFFICES ASSUME NEW g \in Handlers
             PROVE  /\ handler'[g].pc \in {"period", "upsert", "track", "complete"}
                         => Said(g)'.status = "COMPLETE"
                    /\ handler'[g].pc \in {"apply", "mark"}
                         => Said(g)'.status # "COMPLETE"
  BY DEF StepInv
<1> USE DEF TInv
<1>1. CASE handler'[g] = handler[g]
  BY <1>1, RequestMoves DEF StepInv, Said
<1>2. CASE handler'[g].pc \in {"idle", "lookup"}
  BY <1>2
<1>3. CASE Handle(g) /\ handler'[g].notice = handler[g].notice
  <2>1. Said(g)' = Said(g)
    BY <1>3, RequestMoves DEF Said
  <2>2. handler[g].pc \in Steps
    BY DEF TypeOK, Requests
  <2>3. QED
    BY <1>3, <2>1, <2>2, OwnStep DEF StepInv, Steps
<1>4. QED
  BY <1>1, <1>2, <1>3, RequestMoves

\* Every reachable state is well typed.
THEOREM TypeCorrect == Spec => []TypeOK
<1>1. Init => TInv
  BY InitType DEF Init, TInv, StepInv, IdleRequest
<1>2. TInv /\ [Next]_vars => TInv'
  BY NextType, NextStep DEF TInv
<1>3. QED
  BY <1>1, <1>2, PTL DEF Spec, TInv

-----------------------------------------------------------------------------
(* A payment is granted before it is recorded, and recorded or granted      *)
(* before it is acknowledged.                                               *)

GrantInv ==
  /\ \A p \in completed : granted[p] > 0
  /\ \A h \in Handlers :
       /\ handler[h].pc \in {"track", "complete", "ack"} =>
            (Said(h).status = "COMPLETE" => granted[Said(h).payment] > 0)
       /\ handler[h].pc = "complete" => Said(h).payment \in completed
  /\ AckedIsGranted
  /\ CompleteIsPaid

\* Grants and recorded payments are only ever added to, each by one step.
LEMMA GrantsGrow ==
  ASSUME TInv, [Next]_vars
  PROVE  /\ \A p \in Payments : granted'[p] >= granted[p]
         /\ completed \subseteq completed'
         /\ \/ granted' = granted /\ completed' = completed
            \/ /\ \E h \in Handlers : UpsertSubscription(h)
               /\ completed' = completed
            \/ /\ \E h \in Handlers : TrackCompleted(h)
               /\ granted' = granted
<1> USE DEF TInv
<1>1. ASSUME NEW h \in Handlers, UpsertSubscription(h)
      PROVE  completed' = completed /\ \A p \in Payments : granted'[p] >= granted[p]
  <2>1. Said(h).payment \in Payments
    BY <1>1, SaidType DEF UpsertSubscription, StepInv, At
  <2>2. granted' = [granted EXCEPT ![Said(h).payment] =
                                     granted[Said(h).payment] + 1]
    BY <1>1 DEF UpsertSubscription
  <2>3. granted \in [Payments -> Nat]
    BY DEF TypeOK
  <2>4. QED
    BY <1>1, <2>1, <2>2, <2>3 DEF UpsertSubscription
<1>2. ASSUME NEW h \in Handlers, TrackCompleted(h)
      PROVE  granted' = granted /\ completed \subseteq completed'
  BY <1>2 DEF TrackCompleted, history
<1>3. CASE /\ \A h \in Handlers : ~UpsertSubscription(h) /\ ~TrackCompleted(h)
  <2>1. granted' = granted /\ completed' = completed
    BY <1>3 DEF Next, vars, db, history, CreateCheckout, Receive, Handle,
       LookUp, Deduplicate, RejectAmount, ReadPeriod, CompleteCheckout,
       ApplyStatus, MarkCheckout, Acknowledge, Fail, Reconcile, FindOverdue,
       MarkPastDue, ExpirePastDue, ExpireStaleCheckouts, ReadTrial, ReconcileFails,
       ExpireTrial, SyncOwnerTrial, Tick, Crash
  <2>2. QED
    BY <2>1 DEF TypeOK
<1>4. granted \in [Payments -> Nat]
  BY DEF TypeOK
<1>5. QED
  BY <1>1, <1>2, <1>3, <1>4

\* A 200 goes only to a recorded payment or from the last step of a request.
LEMMA AckStep ==
  ASSUME TInv, GrantInv, [Next]_vars
  PROVE  AckedIsGranted'
<1> USE DEF TInv
<1> SUFFICES ASSUME NEW n \in acked', notice'[n].status = "COMPLETE"
             PROVE  granted'[notice'[n].payment] > 0
  BY DEF AckedIsGranted
<1>n. notice' = notice /\ n \in Notices
  BY NextType DEF TypeOK, Next, vars, external, CreateCheckout, Receive, Handle,
     LookUp, Deduplicate, RejectAmount, ReadPeriod, UpsertSubscription,
     TrackCompleted, CompleteCheckout, ApplyStatus, MarkCheckout, Acknowledge,
     Fail, Reconcile, FindOverdue, MarkPastDue, ExpirePastDue,
     ExpireStaleCheckouts, ReadTrial, ReconcileFails, ExpireTrial,
     SyncOwnerTrial, Tick, Crash
<1>p. notice[n].payment \in Payments
  BY <1>n DEF TypeOK
<1>s. granted \in [Payments -> Nat] /\ granted' \in [Payments -> Nat]
  BY NextType DEF TypeOK
<1>1. SUFFICES granted[notice[n].payment] > 0
  BY <1>n, <1>p, <1>s, GrantsGrow
<1>2. CASE n \in acked
  BY <1>2, <1>n DEF GrantInv, AckedIsGranted
<1>3. CASE n \notin acked
  <2>1. PICK h \in Handlers :
          /\ n = handler[h].notice
          /\ \/ Deduplicate(h) /\ AlreadyProcessed(Said(h))
             \/ Acknowledge(h)
    <3>1. PICK h \in Handlers : \/ LookUp(h) \/ Deduplicate(h)
                                \/ RejectAmount(h) \/ Acknowledge(h)
      BY <1>3 DEF Next, vars, external, CreateCheckout, Receive, Handle,
         ReadPeriod, UpsertSubscription, TrackCompleted, CompleteCheckout,
         ApplyStatus, MarkCheckout, Fail, Reconcile, FindOverdue, MarkPastDue,
         ExpirePastDue, ExpireStaleCheckouts, ReadTrial, ReconcileFails, ExpireTrial,
         SyncOwnerTrial, Tick, Crash
    <3>2. QED
      BY <1>3, <3>1 DEF LookUp, Deduplicate, RejectAmount, Acknowledge, Answer
  <2>2. CASE Deduplicate(h) /\ AlreadyProcessed(Said(h))
    BY <2>1, <2>2 DEF AlreadyProcessed, GrantInv, Said
  <2>3. CASE Acknowledge(h)
    BY <2>1, <2>3, <1>n DEF Acknowledge, At, GrantInv, Said
  <2>4. QED
    BY <2>1, <2>2, <2>3
<1>4. QED
  BY <1>2, <1>3

\* A checkout turns COMPLETE only in the step after its payment is recorded.
LEMMA CheckoutStep ==
  ASSUME TInv, GrantInv, [Next]_vars
  PROVE  CompleteIsPaid'
<1> USE DEF TInv
<1> SUFFICES ASSUME NEW r \in References, checkouts'[r].status = "COMPLETE"
             PROVE  checkouts'[r].payment \in completed
  <2>1. completed \subseteq Payments /\ granted' \in [Payments -> Nat]
        /\ granted \in [Payments -> Nat]
    BY NextType DEF TypeOK
  <2>2. \A p \in completed : p \in completed' /\ granted'[p] > 0
    BY <2>1, GrantsGrow DEF GrantInv
  <2>3. QED
    BY <2>2 DEF CompleteIsPaid
<1>t. /\ checkouts \in [References -> Checkouts]
      /\ checkouts[r] \in Checkouts
  BY DEF TypeOK
<1>o. checkouts'[r] = checkouts[r] => checkouts'[r].payment \in completed
  BY DEF GrantInv, CompleteIsPaid
<1>c. ASSUME NEW m, NEW s, checkouts' = Closed(m, s)
      PROVE  \/ checkouts'[r] = checkouts[r]
             \/ checkouts'[r].status = s /\ checkouts'[r].payment = m.payment
  <2>1. [checkouts[r] EXCEPT !.status = s, !.payment = m.payment].status = s
    BY <1>t DEF Checkouts
  <2>2. [checkouts[r] EXCEPT !.status = s, !.payment = m.payment].payment
          = m.payment
    BY <1>t DEF Checkouts
  <2>3. QED
    BY <1>c, <1>t, <2>1, <2>2 DEF Closed
<1>1. ASSUME NEW q \in References, CreateCheckout(q)
      PROVE  checkouts'[r] = checkouts[r]
  BY <1>1, <1>t DEF CreateCheckout
<1>2. ASSUME NEW h \in Handlers, RejectAmount(h)
      PROVE  checkouts'[r] = checkouts[r]
  BY <1>2, <1>c DEF RejectAmount
<1>3. ASSUME NEW h \in Handlers, MarkCheckout(h)
      PROVE  checkouts'[r] = checkouts[r]
  BY <1>3, <1>c DEF MarkCheckout, ClosingStatus
<1>4. ASSUME NEW h \in Handlers, CompleteCheckout(h)
      PROVE  checkouts'[r].payment \in completed
  BY <1>4, <1>c, <1>o DEF CompleteCheckout, GrantInv, At
<1>5. CASE ExpireStaleCheckouts
  <2>1. [checkouts[r] EXCEPT !.status = "EXPIRED"].status = "EXPIRED"
    BY <1>t DEF Checkouts
  <2>2. QED
    BY <1>5, <1>o, <2>1 DEF ExpireStaleCheckouts
<1>6. CASE checkouts' = checkouts
  BY <1>6, <1>o
<1>7. QED
  BY <1>1, <1>2, <1>3, <1>4, <1>5, <1>6, <1>o DEF Next, vars, db, Receive,
     Handle, LookUp, Deduplicate, ReadPeriod, UpsertSubscription,
     TrackCompleted, ApplyStatus, Acknowledge, Fail, Reconcile, FindOverdue,
     MarkPastDue, ExpirePastDue, ReadTrial, ReconcileFails, ExpireTrial,
     SyncOwnerTrial, Tick,
     Crash

LEMMA NextGrant ==
  ASSUME TInv, GrantInv, [Next]_vars
  PROVE  GrantInv'
<1> USE DEF TInv
<1>s. /\ granted \in [Payments -> Nat] /\ granted' \in [Payments -> Nat]
      /\ completed \subseteq Payments
  BY NextType DEF TypeOK
<1>1. \A p \in completed' : granted'[p] > 0
  <2>1. ASSUME NEW h \in Handlers, TrackCompleted(h), granted' = granted
        PROVE  \A p \in completed' : granted'[p] > 0
    BY <2>1 DEF TrackCompleted, At, GrantInv, StepInv
  <2>2. CASE completed' = completed
    BY <2>2, <1>s, GrantsGrow DEF GrantInv
  <2>3. QED
    BY <2>1, <2>2, GrantsGrow
<1>2. ASSUME NEW g \in Handlers
      PROVE  /\ handler'[g].pc \in {"track", "complete", "ack"} =>
                  (notice'[handler'[g].notice].status = "COMPLETE" =>
                     granted'[notice'[handler'[g].notice].payment] > 0)
             /\ handler'[g].pc = "complete"
                  => notice'[handler'[g].notice].payment \in completed'
  <2>1. CASE handler'[g] = handler[g]
    <3>1. notice'[handler'[g].notice] = Said(g)
      BY <2>1, RequestMoves DEF Said
    <3>2. Said(g).status = "COMPLETE" => Said(g).payment \in Payments
      BY SaidType
    <3>3. QED
      BY <1>s, <2>1, <3>1, <3>2, GrantsGrow DEF GrantInv
  <2>2. CASE handler'[g].pc \in {"idle", "lookup"}
    BY <2>2
  <2>3. CASE Handle(g) /\ handler'[g].notice = handler[g].notice
    <3>1. notice'[handler'[g].notice] = Said(g)
      BY <2>3, RequestMoves DEF Said
    <3>2. Said(g).status = "COMPLETE" => Said(g).payment \in Payments
      BY SaidType
    <3>3. handler[g].pc \in Steps
      BY DEF TypeOK, Requests
    <3>4. CASE handler[g].pc = "upsert"
      <4>1. UpsertSubscription(g)
        BY <2>3, <3>4 DEF Handle, LookUp, Deduplicate, RejectAmount, ReadPeriod,
           TrackCompleted, CompleteCheckout, ApplyStatus, MarkCheckout,
           Acknowledge, At
      <4>2. Said(g).payment \in Payments
        BY <3>2, <3>4 DEF StepInv
      <4>3. granted' = [granted EXCEPT ![Said(g).payment] =
                                         granted[Said(g).payment] + 1]
        BY <4>1 DEF UpsertSubscription
      <4>4. granted'[Said(g).payment] > 0
        BY <1>s, <4>2, <4>3
      <4>5. QED
        BY <2>3, <3>1, <3>4, <4>4, OwnStep
    <3>5. CASE handler[g].pc = "track"
      <4>1. TrackCompleted(g)
        BY <2>3, <3>5 DEF Handle, LookUp, Deduplicate, RejectAmount, ReadPeriod,
           UpsertSubscription, CompleteCheckout, ApplyStatus, MarkCheckout,
           Acknowledge, At
      <4>2. Said(g).payment \in completed'
        BY <4>1 DEF TrackCompleted
      <4>3. QED
        BY <1>1, <3>1, <4>2
    <3>6. CASE handler[g].pc \in {"complete", "mark"}
      BY <1>s, <2>3, <3>1, <3>2, <3>6, OwnStep, GrantsGrow DEF GrantInv, StepInv
    <3>7. CASE handler[g].pc \in Steps \ {"upsert", "track", "complete", "mark"}
      <4>1. handler'[g].pc \notin {"track", "complete", "ack"}
        BY <2>3, <3>7, OwnStep DEF Steps
      <4>2. QED
        BY <4>1
    <3>8. QED
      BY <3>3, <3>4, <3>5, <3>6, <3>7
  <2>4. QED
    BY <2>1, <2>2, <2>3, RequestMoves
<1>3. QED
  BY <1>1, <1>2, AckStep, CheckoutStep DEF GrantInv, Said

LEMMA InitGrant == Init => GrantInv
<1> SUFFICES ASSUME Init PROVE GrantInv
  OBVIOUS
<1>1. \A h \in Handlers : handler[h].pc = "idle"
  BY DEF Init, IdleRequest
<1>2. \A r \in References : checkouts[r].status = "NONE"
  BY DEF Init
<1>3. completed = {} /\ acked = {}
  BY DEF Init
<1>4. QED
  BY <1>1, <1>2, <1>3 DEF GrantInv, AckedIsGranted, CompleteIsPaid

\* A payment PayFast got its 200 for has bought a month.
THEOREM AcknowledgedPaymentIsGranted == Spec => []AckedIsGranted
<1>1. Init => TInv /\ GrantInv
  BY InitType, InitGrant DEF Init, TInv, StepInv, IdleRequest
<1>2. TInv /\ GrantInv /\ [Next]_vars => TInv' /\ GrantInv'
  BY NextType, NextStep, NextGrant DEF TInv
<1>3. QED
  BY <1>1, <1>2, PTL DEF Spec, GrantInv

\* A COMPLETE checkout has a recorded and granted payment.
THEOREM CompleteCheckoutIsPaid == Spec => []CompleteIsPaid
<1>1. Init => TInv /\ GrantInv
  BY InitType, InitGrant DEF Init, TInv, StepInv, IdleRequest
<1>2. TInv /\ GrantInv /\ [Next]_vars => TInv' /\ GrantInv'
  BY NextType, NextStep, NextGrant DEF TInv
<1>3. QED
  BY <1>1, <1>2, PTL DEF Spec, GrantInv

-----------------------------------------------------------------------------
(* One payment, one grant.  Of a payment that was never disturbed at most   *)
(* one request is in flight; between its upsert and its event that request  *)
(* is the witness of the grant, and after it the event is.                  *)

Busy(h, p) == handler[h].pc # "idle" /\ Pays(handler[h].notice, p)

\* The part of SingleInv about one payment.
Single(p) ==
  /\ \A g, h \in Handlers : Busy(g, p) /\ Busy(h, p) => g = h
  /\ granted[p] <= 1
  /\ p \in completed \/ granted[p] = 0
       \/ \E h \in Handlers : Busy(h, p) /\ handler[h].pc = "track"
  /\ \A h \in Handlers :
       Busy(h, p) /\ handler[h].pc \in {"period", "upsert"} => granted[p] = 0

SingleInv == \A p \in Payments \ disturbed : Single(p)

\* A request's own step leaves the other requests, the notices and the history
\* of disturbances alone.
LEMMA OwnFrame ==
  ASSUME TypeOK, NEW h \in Handlers, Handle(h)
  PROVE  /\ \A g \in Handlers \ {h} : handler'[g] = handler[g]
         /\ notice' = notice /\ disturbed' = disturbed
         /\ handler'[h].pc = "idle" \/ handler'[h].notice = handler[h].notice
<1>1. ASSUME NEW pc, Goto(h, pc)
      PROVE  /\ \A g \in Handlers \ {h} : handler'[g] = handler[g]
             /\ handler'[h].notice = handler[h].notice
  BY <1>1 DEF Goto, TypeOK, Requests
<1>2. ASSUME NEW code, Answer(h, code)
      PROVE  /\ \A g \in Handlers \ {h} : handler'[g] = handler[g]
             /\ handler'[h].pc = "idle"
  BY <1>2 DEF Answer, TypeOK, IdleRequest
<1>3. CASE LookUp(h) \/ Deduplicate(h)
  BY <1>3, <1>1, <1>2 DEF LookUp, Deduplicate, history
<1>4. CASE RejectAmount(h) \/ Acknowledge(h)
  BY <1>4, <1>2 DEF RejectAmount, Acknowledge, history
<1>5. CASE ReadPeriod(h)
  BY <1>5 DEF ReadPeriod, external, history, TypeOK, Requests
<1>6. CASE UpsertSubscription(h) \/ TrackCompleted(h) \/ CompleteCheckout(h)
  BY <1>6, <1>1 DEF UpsertSubscription, TrackCompleted, CompleteCheckout,
     external, history
<1>7. CASE ApplyStatus(h) \/ MarkCheckout(h)
  BY <1>7, <1>1 DEF ApplyStatus, MarkCheckout, external, history
<1>8. QED
  BY <1>3, <1>4, <1>5, <1>6, <1>7 DEF Handle

\* A request goes through the payment steps without another of its payment.
LEMMA SingleHandle ==
  ASSUME TInv, NEW p \in Payments, Single(p), NEW h \in Handlers, Handle(h)
  PROVE  Single(p)'
<1> USE DEF TInv
<1>f. /\ \A g \in Handlers \ {h} : handler'[g] = handler[g]
      /\ notice' = notice
      /\ handler'[h].pc = "idle" \/ handler'[h].notice = handler[h].notice
  BY OwnFrame
<1>b. /\ \A g \in Handlers \ {h} : Busy(g, p)' = Busy(g, p)
      /\ Busy(h, p)' => Busy(h, p)
  BY <1>f, OwnStep DEF Busy, Pays
<1>g. granted \in [Payments -> Nat] /\ granted' \in [Payments -> Nat]
  BY NextType DEF TypeOK, Next
<1>s. handler[h].pc \in Steps
  BY DEF TypeOK, Requests
<1>1. (\A g, k \in Handlers : Busy(g, p) /\ Busy(k, p) => g = k)'
  BY <1>b DEF Single
<1>2. CASE granted'[p] = granted[p] /\ (p \in completed' <=> p \in completed)
           /\ (Busy(h, p) => handler[h].pc \notin {"upsert", "track"})
  <2>1. \A g \in Handlers : Busy(g, p) /\ handler[g].pc = "track"
                             => Busy(g, p)' /\ handler'[g].pc = "track"
    BY <1>2, <1>b, <1>f
  <2>2. ASSUME NEW g \in Handlers, Busy(g, p)',
               handler'[g].pc \in {"period", "upsert"}
        PROVE  granted[p] = 0
    <3>1. CASE g # h
      BY <2>2, <3>1, <1>b, <1>f DEF Single
    <3>2. CASE g = h
      <4>1. handler[h].pc \in {"dedup", "period"}
        BY <2>2, <3>2, <1>s, OwnStep DEF Steps
      <4>2. CASE handler[h].pc = "period"
        BY <2>2, <3>2, <4>2, <1>b DEF Single
      <4>3. CASE handler[h].pc = "dedup"
        <5>1. p \notin completed
          <6>1. ~AlreadyProcessed(Said(h))
            BY <2>2, <3>2, <4>3, OwnStep
          <6>2. Said(h).payment = p
            BY <2>2, <3>2, <1>b DEF Busy, Pays, Said
          <6>3. QED
            BY <6>1, <6>2 DEF AlreadyProcessed
        <5>2. \A k \in Handlers : ~(Busy(k, p) /\ handler[k].pc = "track")
          BY <2>2, <3>2, <4>3, <1>b DEF Single
        <5>3. QED
          BY <5>1, <5>2 DEF Single
      <4>4. QED
        BY <4>1, <4>2, <4>3
    <3>3. QED
      BY <3>1, <3>2
  <2>3. QED
    BY <1>1, <1>2, <2>1, <2>2 DEF Single
<1>3. CASE UpsertSubscription(h) /\ Busy(h, p)
  <2>1. Said(h).payment = p /\ handler[h].pc = "upsert"
    BY <1>3 DEF UpsertSubscription, At, Busy, Pays, Said
  <2>2. granted[p] = 0
    BY <1>3, <2>1 DEF Single
  <2>3. granted' = [granted EXCEPT ![Said(h).payment] =
                                     granted[Said(h).payment] + 1]
    BY <1>3 DEF UpsertSubscription
  <2>4. granted'[p] = 1
    BY <1>g, <2>1, <2>2, <2>3
  <2>5. handler'[h].pc = "track"
    BY <2>1, OwnStep
  <2>6. Busy(h, p)'
    BY <1>3, <1>f, <2>5 DEF Busy, Pays
  <2>7. \A g \in Handlers : Busy(g, p)' => g = h
    BY <1>1, <2>6
  <2>8. QED
    BY <1>1, <2>4, <2>5, <2>6, <2>7 DEF Single
<1>4. CASE TrackCompleted(h) /\ Busy(h, p)
  <2>1. Said(h).payment = p /\ handler[h].pc = "track"
    BY <1>4 DEF TrackCompleted, At, Busy, Pays, Said
  <2>2. p \in completed' /\ granted' = granted
    BY <1>4, <2>1 DEF TrackCompleted, history
  <2>3. handler'[h].pc = "complete"
    BY <2>1, OwnStep
  <2>4. \A g \in Handlers : Busy(g, p)' => g = h
    BY <1>4, <1>b DEF Single
  <2>5. QED
    BY <1>1, <2>2, <2>3, <2>4 DEF Single
<1>5. CASE ~Busy(h, p) \/ (~UpsertSubscription(h) /\ ~TrackCompleted(h))
  <2>1. ~Busy(h, p) /\ handler[h].pc \in {"upsert", "track"}
          => Said(h).payment # p
    BY DEF Busy, Pays, Said, StepInv
  <2>2. UpsertSubscription(h) => granted'[p] = granted[p] /\ completed' = completed
    <3>1. UpsertSubscription(h) => granted' = [granted EXCEPT
            ![Said(h).payment] = granted[Said(h).payment] + 1]
      BY DEF UpsertSubscription
    <3>2. UpsertSubscription(h) => Said(h).payment # p /\ completed' = completed
      BY <1>5, <2>1 DEF UpsertSubscription, At
    <3>3. QED
      BY <1>g, <3>1, <3>2
  <2>3. TrackCompleted(h) => granted' = granted /\ (p \in completed' <=> p \in completed)
    BY <1>5, <2>1 DEF TrackCompleted, At, history
  <2>4. ~UpsertSubscription(h) /\ ~TrackCompleted(h)
          => granted' = granted /\ completed' = completed
    BY DEF Handle, db, history, LookUp, Deduplicate, RejectAmount, ReadPeriod,
       CompleteCheckout, ApplyStatus, MarkCheckout, Acknowledge
  <2>5. Busy(h, p) => handler[h].pc \notin {"upsert", "track"}
    BY <1>5 DEF Handle, LookUp, Deduplicate, RejectAmount, ReadPeriod,
       CompleteCheckout, ApplyStatus, MarkCheckout, Acknowledge, At
  <2>6. QED
    BY <1>2, <2>2, <2>3, <2>4, <2>5
<1>6. QED
  BY <1>3, <1>4, <1>5

LEMMA NextSingle ==
  ASSUME TInv, SingleInv, [Next]_vars
  PROVE  SingleInv'
<1> USE DEF TInv
<1> SUFFICES ASSUME NEW p \in Payments, p \notin disturbed' PROVE Single(p)'
  BY DEF SingleInv
<1>d. disturbed \subseteq disturbed'
  <2>1. ASSUME NEW h \in Handlers, Handle(h) PROVE disturbed' = disturbed
    BY <2>1, OwnFrame
  <2>2. QED
    BY <2>1 DEF Next, vars, history, CreateCheckout, Receive, Fail, Reconcile,
       FindOverdue, MarkPastDue, ExpirePastDue, ExpireStaleCheckouts,
       ReadTrial, ReconcileFails, ExpireTrial, SyncOwnerTrial, Tick, Crash
<1>p. Single(p)
  BY <1>d DEF SingleInv
<1>1. ASSUME NEW h \in Handlers, Handle(h) PROVE Single(p)'
  BY <1>1, <1>p, SingleHandle
<1>2. ASSUME NEW h \in Handlers, NEW n \in Notices, Receive(h, n)
      PROVE  Single(p)'
  <2>1. /\ handler[h].pc = "idle" /\ handler'[h].pc = "lookup"
        /\ handler'[h].notice = n /\ notice' = notice
        /\ \A g \in Handlers \ {h} : handler'[g] = handler[g]
        /\ granted' = granted /\ completed' = completed
    BY <1>2, IdleRequestType DEF Receive, At, external, db, TypeOK, Requests
  <2>2. ~Pays(n, p) \/ \A g \in Handlers : ~Busy(g, p)
    BY <1>2 DEF Receive, At, Busy
  <2>3. /\ \A g \in Handlers \ {h} : Busy(g, p)' = Busy(g, p)
        /\ Busy(h, p)' = Pays(n, p) /\ ~Busy(h, p)
    BY <2>1 DEF Busy, Pays
  <2>4. (\A g, k \in Handlers : Busy(g, p) /\ Busy(k, p) => g = k)'
    BY <1>p, <2>2, <2>3 DEF Single
  <2>5. \A g \in Handlers : Busy(g, p) => Busy(g, p)' /\ handler'[g] = handler[g]
    BY <2>1, <2>3
  <2>6. \A g \in Handlers : Busy(g, p)' /\ handler'[g].pc \in {"period", "upsert"}
                           => Busy(g, p) /\ handler'[g] = handler[g]
    BY <2>1, <2>3
  <2>7. QED
    BY <1>p, <2>1, <2>4, <2>5, <2>6 DEF Single
<1>3. ASSUME NEW h \in Handlers, Fail(h) PROVE Single(p)'
  <2>1. /\ handler'[h].pc = "idle" /\ notice' = notice
        /\ \A g \in Handlers \ {h} : handler'[g] = handler[g]
        /\ granted' = granted /\ completed' = completed
    BY <1>3 DEF Fail, external, db, TypeOK, IdleRequest
  <2>2. ~(Busy(h, p) /\ handler[h].pc = "track")
    BY <1>3 DEF Fail, Unrecorded, Busy, Pays, At, Said
  <2>3. /\ \A g \in Handlers \ {h} : Busy(g, p)' = Busy(g, p)
        /\ ~Busy(h, p)'
    BY <2>1 DEF Busy, Pays
  <2>4. QED
    BY <1>p, <2>1, <2>2, <2>3 DEF Single
<1>4. CASE Crash
  <2>1. /\ \A g \in Handlers : handler'[g].pc = "idle"
        /\ granted' = granted /\ completed' = completed
    BY <1>4 DEF Crash, db, IdleRequest
  <2>2. \A g \in Handlers : ~(Busy(g, p) /\ handler[g].pc = "track")
    BY <1>4 DEF Crash, Unrecorded, Busy, Pays, At, Said
  <2>3. \A g \in Handlers : ~Busy(g, p)'
    BY <2>1 DEF Busy
  <2>4. QED
    BY <1>p, <2>1, <2>2, <2>3 DEF Single
<1>5. CASE \/ \E r \in References : CreateCheckout(r)
           \/ Reconcile \/ ReadTrial \/ ExpireTrial \/ SyncOwnerTrial
           \/ Tick \/ UNCHANGED vars
  <2>1. /\ handler' = handler /\ notice' = notice
        /\ granted' = granted /\ completed' = completed
    BY <1>5 DEF CreateCheckout, Reconcile, FindOverdue, MarkPastDue,
       ExpirePastDue, ExpireStaleCheckouts, ReadTrial, ReconcileFails, ExpireTrial,
       SyncOwnerTrial, Tick, external, vars, history, db
  <2>2. QED
    BY <1>p, <2>1 DEF Single, Busy, Pays
<1>6. QED
  BY <1>1, <1>2, <1>3, <1>4, <1>5 DEF Next

LEMMA InitSingle == Init => SingleInv
<1> SUFFICES ASSUME Init PROVE SingleInv
  OBVIOUS
<1>1. \A h \in Handlers : handler[h].pc = "idle"
  BY DEF Init, IdleRequest
<1>2. \A p \in Payments : granted[p] = 0
  BY DEF Init
<1>3. QED
  BY <1>1, <1>2 DEF SingleInv, Single, Busy

-----------------------------------------------------------------------------
(* How many months a disturbed payment can buy.                             *)

\* The requests that have found the payment not processed and have yet to grant
\* it, and those that have granted it and have yet to record it.
Granting(p)  == {h \in Handlers : handler[h].pc \in {"period", "upsert"} /\ Busy(h, p)}
Recording(p) == {h \in Handlers : handler[h].pc = "track" /\ Busy(h, p)}

\* What faults can have taken away before the payment was recorded.
Forgotten == Cardinality(Handlers) * faults

\* Until the payment is recorded, each of its grants has a request about to record
\* it or was forgotten in a fault; afterwards no request passes the check, and each
\* of those that had passed it grants it once more.
GrantsAt(p) ==
  /\ granted[p] + Cardinality(Granting(p)) <= Cardinality(Handlers) + Forgotten
  /\ p \notin completed => granted[p] <= Cardinality(Recording(p)) + Forgotten

GrantsInv == \A p \in Payments : GrantsAt(p)

LEMMA HandlerCount ==
  ASSUME NEW S \in SUBSET Handlers
  PROVE  /\ IsFiniteSet(S) /\ Cardinality(S) \in Nat /\ Cardinality(Handlers) \in Nat
         /\ Cardinality(S) <= Cardinality(Handlers)
  BY NoticeAssumption, FS_Subset, FS_CardinalityType

LEMMA FewerHandlers ==
  ASSUME NEW S \in SUBSET Handlers, NEW T \in SUBSET S
  PROVE  Cardinality(T) <= Cardinality(S)
  BY HandlerCount, FS_Subset

LEMMA OneMoreHandler ==
  ASSUME NEW S \in SUBSET Handlers, NEW T \in SUBSET S, NEW h \in S \ T
  PROVE  Cardinality(T) + 1 <= Cardinality(S)
<1>1. /\ IsFiniteSet(T) /\ Cardinality(T) \in Nat /\ Cardinality(S) \in Nat
      /\ T \cup {h} \in SUBSET S
  BY HandlerCount
<1>2. Cardinality(T \cup {h}) = Cardinality(T) + 1
  BY <1>1, FS_AddElement
<1>3. Cardinality(T \cup {h}) <= Cardinality(S)
  BY <1>1, FewerHandlers
<1>4. QED
  BY <1>1, <1>2, <1>3

LEMMA DisjointHandlers ==
  ASSUME NEW S \in SUBSET Handlers, NEW T \in SUBSET Handlers, S \cap T = {}
  PROVE  Cardinality(S) + Cardinality(T) <= Cardinality(Handlers)
<1>1. /\ IsFiniteSet(S) /\ IsFiniteSet(T) /\ S \cup T \in SUBSET Handlers
      /\ Cardinality(S) \in Nat /\ Cardinality(T) \in Nat
  BY HandlerCount
<1>2. Cardinality(S \cup T) = Cardinality(S) + Cardinality(T)
  <2>1. Cardinality(S \cup T) = Cardinality(S) + Cardinality(T) - Cardinality(S \cap T)
    BY <1>1, FS_Union
  <2>2. Cardinality(S \cap T) = 0
    BY FS_EmptySet
  <2>3. QED
    BY <1>1, <2>1, <2>2
<1>3. QED
  BY <1>1, <1>2, HandlerCount

\* The counts of a payment, as numbers.
LEMMA GrantCounts ==
  ASSUME NEW p \in Payments, TypeOK
  PROVE  /\ Granting(p) \in SUBSET Handlers /\ Recording(p) \in SUBSET Handlers
         /\ Cardinality(Granting(p)) \in Nat /\ Cardinality(Recording(p)) \in Nat
         /\ Cardinality(Handlers) \in Nat /\ granted[p] \in Nat /\ Forgotten \in Nat
<1>1. Granting(p) \in SUBSET Handlers /\ Recording(p) \in SUBSET Handlers
  BY DEF Granting, Recording
<1>2. Cardinality(Handlers) \in Nat
  BY NoticeAssumption, FS_CardinalityType
<1>3. faults \in Nat /\ granted[p] \in Nat
  BY TimeAssumption DEF TypeOK
<1>4. Forgotten \in Nat
  BY <1>2, <1>3 DEF Forgotten
<1>5. QED
  BY <1>1, <1>2, <1>3, <1>4, HandlerCount

\* The same in the next state.
LEMMA GrantCountsNext ==
  ASSUME NEW p \in Payments, TypeOK'
  PROVE  /\ Granting(p)' \in SUBSET Handlers /\ Recording(p)' \in SUBSET Handlers
         /\ Cardinality(Granting(p)') \in Nat /\ Cardinality(Recording(p)') \in Nat
         /\ granted'[p] \in Nat /\ Forgotten' \in Nat
<1>1. Granting(p)' \in SUBSET Handlers /\ Recording(p)' \in SUBSET Handlers
  BY DEF Granting, Recording
<1>2. PICK f \in Nat : f = faults'
  BY TimeAssumption DEF TypeOK
<1>3. Cardinality(Handlers) \in Nat /\ Cardinality(Handlers) * f \in Nat
  BY NoticeAssumption, FS_CardinalityType
<1>4. granted'[p] \in Nat /\ Forgotten' \in Nat
  BY <1>2, <1>3 DEF TypeOK, Forgotten
<1>5. QED
  BY <1>1, <1>4, HandlerCount

LEMMA ForgottenStep ==
  ASSUME TypeOK
  PROVE  /\ faults' = faults => Forgotten' = Forgotten
         /\ faults' = faults + 1 => Forgotten' = Forgotten + Cardinality(Handlers)
<1>1. Cardinality(Handlers) \in Nat /\ faults \in Nat
  BY NoticeAssumption, TimeAssumption, FS_CardinalityType DEF TypeOK
<1>2. Cardinality(Handlers) * (faults + 1) = Cardinality(Handlers) * faults + Cardinality(Handlers)
  BY <1>1
<1>3. QED
  BY <1>2 DEF Forgotten

\* Until the payment is recorded, only a fault takes away a request that has
\* granted it.
RecordersKept(p) ==
  p \notin completed' =>
    /\ p \notin completed
    /\ Cardinality(Recording(p)) + Forgotten <= Cardinality(Recording(p)') + Forgotten'

\* Steps that neither grant the payment nor let a request past the check.
LEMMA GrantsStay ==
  ASSUME TypeOK, TypeOK', NEW p \in Payments, GrantsAt(p), granted'[p] = granted[p],
         Granting(p)' \subseteq Granting(p), Forgotten <= Forgotten', RecordersKept(p)
  PROVE  GrantsAt(p)'
<1>1. PICK n \in Nat, a \in Nat, c \in Nat, f \in Nat, g \in Nat :
        /\ n = Cardinality(Handlers) /\ a = Cardinality(Granting(p))
        /\ c = Cardinality(Recording(p)) /\ f = Forgotten /\ g = granted[p]
  BY GrantCounts
<1>2. PICK b \in Nat, d \in Nat, k \in Nat :
        /\ b = Cardinality(Granting(p)') /\ d = Cardinality(Recording(p)') /\ k = Forgotten'
  BY GrantCountsNext
<1>3. b <= a
  BY <1>1, <1>2, GrantCounts, FewerHandlers
<1>4. g + a <= n + f /\ f <= k
  BY <1>1, <1>2 DEF GrantsAt
<1>5. g + b <= n + k
  BY <1>3, <1>4
<1>6. ASSUME p \notin completed' PROVE g <= d + k
  <2>1. g <= c + f
    BY <1>1, <1>6 DEF GrantsAt, RecordersKept
  <2>2. c + f <= d + k
    BY <1>1, <1>2, <1>6 DEF RecordersKept
  <2>3. QED
    BY <2>1, <2>2
<1>7. QED
  BY <1>1, <1>2, <1>5, <1>6 DEF GrantsAt

\* A request's own step.
LEMMA GrantsHandle ==
  ASSUME TInv, TypeOK', NEW p \in Payments, GrantsAt(p), NEW h \in Handlers, Handle(h)
  PROVE  GrantsAt(p)'
<1> USE DEF TInv
<1>f. /\ \A g \in Handlers \ {h} : handler'[g] = handler[g]
      /\ notice' = notice
      /\ handler'[h].pc = "idle" \/ handler'[h].notice = handler[h].notice
  BY OwnFrame
<1>b. /\ \A g \in Handlers \ {h} : Busy(g, p)' = Busy(g, p)
      /\ Busy(h, p)' => Busy(h, p)
  BY <1>f, OwnStep DEF Busy, Pays
<1>g. granted \in [Payments -> Nat] /\ granted' \in [Payments -> Nat]
  BY DEF TypeOK
<1>s. handler[h].pc \in Steps
  BY DEF TypeOK, Requests
<1>w. Forgotten' = Forgotten /\ Forgotten \in Nat
  <2>1. faults' = faults
    BY DEF Handle, LookUp, Deduplicate, RejectAmount, ReadPeriod, UpsertSubscription,
       TrackCompleted, CompleteCheckout, ApplyStatus, MarkCheckout, Acknowledge
  <2>2. QED
    BY <2>1, ForgottenStep, GrantCounts
<1>u. /\ \A g \in Handlers \ {h} : /\ g \in Granting(p)' <=> g \in Granting(p)
                                   /\ g \in Recording(p)' <=> g \in Recording(p)
      /\ Granting(p) \subseteq Handlers /\ Granting(p)' \subseteq Handlers
      /\ Recording(p) \subseteq Handlers /\ Recording(p)' \subseteq Handlers
  BY <1>b, <1>f DEF Granting, Recording
<1>c. Cardinality(Recording(p)) \in Nat
  BY GrantCounts
<1>d. ~UpsertSubscription(h) /\ ~TrackCompleted(h)
        => granted' = granted /\ completed' = completed
  BY DEF Handle, db, history, LookUp, Deduplicate, RejectAmount, ReadPeriod,
     CompleteCheckout, ApplyStatus, MarkCheckout, Acknowledge
<1>1. CASE UpsertSubscription(h)
  <2>1. /\ handler[h].pc = "upsert" /\ handler'[h].pc = "track" /\ completed' = completed
        /\ granted' = [granted EXCEPT ![Said(h).payment] = granted[Said(h).payment] + 1]
    BY <1>1, OwnStep DEF UpsertSubscription, At
  <2>2. Busy(h, p) <=> Said(h).payment = p
    BY <2>1 DEF Busy, Pays, Said, StepInv
  <2>3. h \notin Recording(p) /\ h \notin Granting(p)'
    BY <2>1 DEF Recording, Granting
  <2>4. CASE Said(h).payment = p
    <3>1. /\ Granting(p)' \subseteq Granting(p) /\ h \in Granting(p)
          /\ Recording(p) \subseteq Recording(p)' /\ h \in Recording(p)'
      <4>1. h \in Granting(p)
        BY <2>1, <2>2, <2>4 DEF Granting
      <4>2. h \in Recording(p)'
        BY <1>f, <2>1, <2>2, <2>4 DEF Recording, Busy, Pays
      <4>3. QED
        BY <1>u, <2>3, <4>1, <4>2
    <3>2. PICK n \in Nat, a \in Nat, c \in Nat, f \in Nat, g \in Nat :
            /\ n = Cardinality(Handlers) /\ a = Cardinality(Granting(p))
            /\ c = Cardinality(Recording(p)) /\ f = Forgotten /\ g = granted[p]
      BY GrantCounts
    <3>3. PICK b \in Nat, d \in Nat :
            b = Cardinality(Granting(p)') /\ d = Cardinality(Recording(p)')
      BY GrantCountsNext
    <3>4. b + 1 <= a /\ c + 1 <= d
      BY <1>u, <2>3, <3>1, <3>2, <3>3, OneMoreHandler
    <3>5. granted'[p] = g + 1
      BY <1>g, <2>1, <2>4, <3>2
    <3>6. g + a <= n + f /\ (p \notin completed => g <= c + f)
      BY <3>2 DEF GrantsAt
    <3>7. g + 1 + b <= n + f
      BY <3>4, <3>6
    <3>8. ASSUME p \notin completed' PROVE g + 1 <= d + f
      BY <2>1, <3>4, <3>6, <3>8
    <3>9. QED
      BY <1>w, <3>2, <3>3, <3>5, <3>7, <3>8 DEF GrantsAt
  <2>5. CASE Said(h).payment # p
    <3>1. granted'[p] = granted[p]
      BY <1>g, <2>1, <2>5
    <3>2. h \notin Granting(p) /\ h \notin Recording(p)'
      BY <1>b, <2>2, <2>5 DEF Granting, Recording
    <3>3. Granting(p)' = Granting(p) /\ Recording(p)' = Recording(p)
      BY <1>u, <2>3, <3>2
    <3>4. QED
      BY <1>c, <1>w, <2>1, <3>1, <3>3, GrantsStay DEF RecordersKept
  <2>6. QED
    BY <2>4, <2>5
<1>2. CASE TrackCompleted(h)
  <2>1. /\ handler[h].pc = "track" /\ handler'[h].pc = "complete" /\ granted' = granted
        /\ completed' = completed \cup {Said(h).payment}
    BY <1>2, OwnStep DEF TrackCompleted, At, history
  <2>2. h \notin Granting(p)' /\ h \notin Granting(p)
    BY <2>1 DEF Granting
  <2>3. Busy(h, p) => Said(h).payment = p
    BY DEF Busy, Pays, Said
  <2>4. p \notin completed' => Recording(p)' = Recording(p)
    BY <1>u, <1>b, <2>1, <2>3 DEF Recording
  <2>5. RecordersKept(p)
    BY <1>c, <1>w, <2>1, <2>4 DEF RecordersKept
  <2>6. QED
    BY <1>u, <1>w, <2>1, <2>2, <2>5, GrantsStay
<1>3. CASE ~UpsertSubscription(h) /\ ~TrackCompleted(h) /\ ~(handler'[h].pc = "period" /\ Busy(h, p))
  <2>1. handler[h].pc \notin {"upsert", "track"}
    BY <1>3 DEF Handle, LookUp, Deduplicate, RejectAmount, ReadPeriod, CompleteCheckout,
       ApplyStatus, MarkCheckout, Acknowledge, At
  <2>2. handler'[h].pc # "track" /\ (handler'[h].pc = "upsert" => handler[h].pc = "period")
    BY <1>s, <2>1, OwnStep DEF Steps
  <2>3. Recording(p)' = Recording(p)
    BY <1>u, <2>1, <2>2 DEF Recording
  <2>4. Granting(p)' \subseteq Granting(p)
    BY <1>3, <1>b, <1>u, <2>2 DEF Granting
  <2>5. QED
    BY <1>3, <1>c, <1>d, <1>w, <2>3, <2>4, GrantsStay DEF RecordersKept
<1>4. CASE ~UpsertSubscription(h) /\ ~TrackCompleted(h) /\ handler'[h].pc = "period" /\ Busy(h, p)
  <2>1. handler[h].pc = "dedup"
    BY <1>4, <1>s, OwnStep DEF Steps
  <2>2. p \notin completed
    <3>1. ~AlreadyProcessed(Said(h))
      BY <1>4, <2>1, OwnStep
    <3>2. Said(h).payment = p
      BY <1>4 DEF Busy, Pays, Said
    <3>3. QED
      BY <3>1, <3>2 DEF AlreadyProcessed
  <2>3. Recording(p)' = Recording(p)
    BY <1>4, <1>u, <2>1 DEF Recording
  <2>4. Granting(p)' \cap Recording(p)' = {}
    BY DEF Granting, Recording
  <2>5. PICK n \in Nat, c \in Nat, f \in Nat, g \in Nat :
          /\ n = Cardinality(Handlers) /\ c = Cardinality(Recording(p))
          /\ f = Forgotten /\ g = granted[p]
    BY GrantCounts
  <2>6. PICK b \in Nat : b = Cardinality(Granting(p)')
    BY GrantCountsNext
  <2>7. b + c <= n
    BY <1>u, <2>3, <2>4, <2>5, <2>6, DisjointHandlers
  <2>8. g <= c + f
    BY <2>2, <2>5 DEF GrantsAt
  <2>9. g + b <= n + f
    BY <2>7, <2>8
  <2>10. QED
    BY <1>4, <1>d, <1>w, <2>3, <2>5, <2>6, <2>8, <2>9 DEF GrantsAt
<1>5. QED
  BY <1>1, <1>2, <1>3, <1>4

LEMMA NextGrants ==
  ASSUME TInv, TypeOK', GrantsInv, [Next]_vars
  PROVE  GrantsInv'
<1> USE DEF TInv
<1> SUFFICES ASSUME NEW p \in Payments PROVE GrantsAt(p)'
  BY DEF GrantsInv
<1>p. GrantsAt(p)
  BY DEF GrantsInv
<1>c. /\ Cardinality(Recording(p)) \in Nat /\ Forgotten \in Nat
      /\ Cardinality(Handlers) \in Nat
  BY GrantCounts
<1>1. ASSUME NEW h \in Handlers, Handle(h) PROVE GrantsAt(p)'
  BY <1>1, <1>p, GrantsHandle
<1>2. ASSUME NEW h \in Handlers, NEW n \in Notices, Receive(h, n)
      PROVE  GrantsAt(p)'
  <2>1. /\ handler[h].pc = "idle" /\ handler'[h].pc = "lookup"
        /\ handler'[h].notice = n /\ notice' = notice
        /\ \A g \in Handlers \ {h} : handler'[g] = handler[g]
        /\ granted' = granted /\ completed' = completed /\ faults' = faults
    BY <1>2, IdleRequestType DEF Receive, At, external, db, TypeOK, Requests
  <2>2. Granting(p)' = Granting(p) /\ Recording(p)' = Recording(p)
    BY <2>1 DEF Granting, Recording, Busy, Pays
  <2>3. Forgotten' = Forgotten
    BY <2>1, ForgottenStep
  <2>4. QED
    BY <1>c, <1>p, <2>1, <2>2, <2>3, GrantsStay DEF RecordersKept
<1>3. ASSUME \/ \E h \in Handlers : Fail(h)
             \/ Crash
             \/ ReconcileFails
      PROVE  GrantsAt(p)'
  <2>1. /\ \A g \in Handlers : handler'[g].pc = "idle" \/ handler'[g] = handler[g]
        /\ notice' = notice /\ granted' = granted /\ completed' = completed
        /\ faults' = faults + 1
    BY <1>3 DEF Fail, Crash, ReconcileFails, external, db, history, TypeOK, IdleRequest
  <2>2. Granting(p)' \subseteq Granting(p)
    BY <2>1 DEF Granting, Busy, Pays
  <2>3. Forgotten' = Forgotten + Cardinality(Handlers)
    BY <2>1, ForgottenStep
  <2>4. /\ Cardinality(Recording(p)) <= Cardinality(Handlers)
        /\ Cardinality(Recording(p)') \in Nat
    BY GrantCounts, GrantCountsNext, HandlerCount
  <2>5. /\ Forgotten <= Forgotten'
        /\ Cardinality(Recording(p)) + Forgotten <= Cardinality(Recording(p)') + Forgotten'
    BY <1>c, <2>3, <2>4
  <2>6. QED
    BY <1>p, <2>1, <2>2, <2>5, GrantsStay DEF RecordersKept
<1>4. CASE \/ \E r \in References : CreateCheckout(r)
           \/ Reconcile /\ ~ReconcileFails
           \/ ReadTrial \/ ExpireTrial \/ SyncOwnerTrial
           \/ Tick \/ UNCHANGED vars
  <2>1. /\ handler' = handler /\ notice' = notice
        /\ granted' = granted /\ completed' = completed /\ faults' = faults
    BY <1>4 DEF CreateCheckout, Reconcile, FindOverdue, MarkPastDue,
       ExpirePastDue, ExpireStaleCheckouts, ReadTrial, ExpireTrial,
       SyncOwnerTrial, Tick, external, vars, history, db
  <2>2. Granting(p)' = Granting(p) /\ Recording(p)' = Recording(p)
    BY <2>1 DEF Granting, Recording, Busy, Pays
  <2>3. Forgotten' = Forgotten
    BY <2>1, ForgottenStep
  <2>4. QED
    BY <1>c, <1>p, <2>1, <2>2, <2>3, GrantsStay DEF RecordersKept
<1>5. QED
  BY <1>1, <1>2, <1>3, <1>4 DEF Next, Reconcile

LEMMA InitGrants == Init => GrantsInv
<1> SUFFICES ASSUME Init, NEW p \in Payments PROVE GrantsAt(p)
  BY DEF GrantsInv
<1>1. Granting(p) = {} /\ Recording(p) = {} /\ granted[p] = 0
  BY DEF Init, IdleRequest, Granting, Recording
<1>2. Cardinality({}) = 0 /\ Forgotten \in Nat /\ Cardinality(Handlers) \in Nat
  BY InitType, GrantCounts, FS_EmptySet
<1>3. QED
  BY <1>1, <1>2 DEF GrantsAt

LEMMA AlwaysGrants == Spec => [](TypeOK /\ GrantsInv)
<1>1. Init => TInv /\ GrantsInv
  BY InitType, InitGrants DEF Init, TInv, StepInv, IdleRequest
<1>2. TInv /\ GrantsInv /\ [Next]_vars => TInv' /\ GrantsInv'
  BY NextType, NextStep, NextGrants DEF TInv
<1>3. QED
  BY <1>1, <1>2, PTL DEF Spec, TInv

LEMMA GrantsBounded ==
  ASSUME TypeOK, GrantsInv, NEW p \in Payments
  PROVE  granted[p] <= Cardinality(Handlers) * (1 + faults)
<1>1. PICK n \in Nat, a \in Nat, f \in Nat, g \in Nat :
        /\ n = Cardinality(Handlers) /\ a = Cardinality(Granting(p))
        /\ f = Forgotten /\ g = granted[p]
  BY GrantCounts
<1>2. g + a <= n + f
  BY <1>1 DEF GrantsInv, GrantsAt
<1>3. faults \in Nat
  BY TimeAssumption DEF TypeOK
<1>4. n * (1 + faults) = n + n * faults
  BY <1>1, <1>3
<1>5. QED
  BY <1>1, <1>2, <1>4 DEF Forgotten

\* A payment handled without overlap, and without a failure between its upsert
\* and its event, buys at most one month, however often PayFast posts it; one that
\* is disturbed buys at most a month for each request in flight, and as many more
\* for each fault.
THEOREM OneMonthPerPayment == Spec => []SingleGrant
<1>1. Init => TInv /\ SingleInv
  BY InitType, InitSingle DEF Init, TInv, StepInv, IdleRequest
<1>2. TInv /\ SingleInv /\ [Next]_vars => TInv' /\ SingleInv'
  BY NextType, NextStep, NextSingle DEF TInv
<1>3. SingleInv /\ TypeOK /\ GrantsInv => SingleGrant
  BY GrantsBounded DEF SingleInv, Single, SingleGrant
<1>4. QED
  BY <1>1, <1>2, <1>3, AlwaysGrants, PTL DEF Spec

\* One request at a time and no fault: every payment buys at most its month, so that
\* overlap and faults are all there is to guard against.
THEOREM OneRequestOneMonth ==
  ASSUME Cardinality(Handlers) = 1, MaxFaults = 0
  PROVE  Spec => [](\A p \in Payments : granted[p] <= 1)
<1>1. TypeOK /\ GrantsInv => \A p \in Payments : granted[p] <= 1
  <2>1. SUFFICES ASSUME TypeOK, GrantsInv, NEW p \in Payments PROVE granted[p] <= 1
    OBVIOUS
  <2>2. granted[p] <= Cardinality(Handlers) * (1 + faults) /\ faults = 0
    BY <2>1, GrantsBounded DEF TypeOK
  <2>3. QED
    BY <2>2
<1>2. QED
  BY <1>1, AlwaysGrants, PTL

-----------------------------------------------------------------------------
(* The paid months lie end to end.                                          *)

MonthsInv ==
  /\ \A h \in Handlers : handler[h].pc = "upsert" =>
       handler[h].base >= handler[h].seenEnd
  /\ MonthsAddUp

LEMMA NextMonths ==
  ASSUME TInv, MonthsInv, [Next]_vars
  PROVE  MonthsInv'
<1> USE DEF TInv
<1>t. /\ sub \in Subscriptions /\ now \in Nat
      /\ credit \in [months : Nat, since : Nat, torn : BOOLEAN]
      /\ \A h \in Handlers : handler[h] \in Requests
  BY DEF TypeOK
<1>1. ASSUME NEW g \in Handlers, handler'[g].pc = "upsert"
      PROVE  handler'[g].base >= handler'[g].seenEnd
  <2>1. CASE handler'[g] = handler[g]
    BY <1>1, <2>1 DEF MonthsInv
  <2>2. CASE Handle(g)
    <3>1. handler[g].pc = "period"
      BY <1>1, <1>t, <2>2, OwnStep DEF Requests, Steps
    <3>2. ReadPeriod(g)
      BY <2>2, <3>1 DEF Handle, LookUp, Deduplicate, RejectAmount,
         UpsertSubscription, TrackCompleted, CompleteCheckout, ApplyStatus,
         MarkCheckout, Acknowledge, At
    <3>3. /\ handler'[g].base = PeriodBase
          /\ handler'[g].seenEnd = sub.currentPeriodEnd
      BY <3>2, <1>t DEF ReadPeriod, TypeOK, Requests
    <3>4. PeriodBase >= sub.currentPeriodEnd
      BY <1>t DEF PeriodBase, Subscriptions
    <3>5. QED
      BY <3>3, <3>4
  <2>3. QED
    BY <1>1, <2>1, <2>2, RequestMoves
<1>2. ASSUME NEW h \in Handlers, UpsertSubscription(h) PROVE MonthsAddUp'
  <2> DEFINE b == handler[h].base
             e == sub.currentPeriodEnd
             n == credit.months
  <2>1. /\ handler[h].pc = "upsert" /\ b >= handler[h].seenEnd
        /\ b \in Nat /\ e \in Nat /\ n \in Nat /\ credit.since \in Nat
        /\ credit.torn \in BOOLEAN
    BY <1>2, <1>t DEF UpsertSubscription, At, MonthsInv, Requests, Subscriptions
  <2>2. sub'.currentPeriodEnd = b + Month
    BY <1>2, <1>t DEF UpsertSubscription, Subscriptions
  <2>3. /\ credit'.months = n + 1
        /\ credit'.since = IF n = 0 THEN b ELSE credit.since
        /\ ~credit'.torn => ~credit.torn /\ handler[h].seenEnd = e
    BY <1>2 DEF UpsertSubscription
  <2>4. Month \in Nat /\ Month * (n + 1) = Month * n + Month /\ Month * n \in Nat
    BY <2>1
  <2>5. CASE n = 0
    <3>1. Month * (n + 1) = Month
      BY <2>5
    <3>2. sub'.currentPeriodEnd >= credit'.since + Month * credit'.months
      BY <2>1, <2>2, <2>3, <2>5, <3>1
    <3>3. QED
      BY <3>2 DEF MonthsAddUp
  <2>6. CASE n > 0
    <3>1. Month * n \in Nat
      BY <2>1, <2>4
    <3>2. ~credit'.torn => b >= e /\ e >= credit.since + Month * n
      BY <2>1, <2>3, <2>6 DEF MonthsInv, MonthsAddUp
    <3>3. ~credit'.torn => b + Month >= credit.since + (Month * n + Month)
      BY <2>1, <2>4, <3>1, <3>2
    <3>4. ~credit'.torn =>
            sub'.currentPeriodEnd >= credit'.since + Month * credit'.months
      BY <2>2, <2>3, <2>4, <2>6, <3>3
    <3>5. QED
      BY <3>4 DEF MonthsAddUp
  <2>7. QED
    BY <2>1, <2>5, <2>6
<1>3. CASE \A h \in Handlers : ~UpsertSubscription(h)
  <2>1. credit' = credit
    BY <1>3 DEF Next, vars, history, CreateCheckout, Receive, Handle, LookUp,
       Deduplicate, RejectAmount, ReadPeriod, TrackCompleted, CompleteCheckout,
       ApplyStatus, MarkCheckout, Acknowledge, Fail, Reconcile, FindOverdue,
       MarkPastDue, ExpirePastDue, ExpireStaleCheckouts, ReadTrial, ReconcileFails,
       ExpireTrial, SyncOwnerTrial, Tick, Crash
  <2>2. sub'.currentPeriodEnd = sub.currentPeriodEnd
    <3>1. ASSUME NEW h \in Handlers, ApplyStatus(h)
          PROVE  sub'.currentPeriodEnd = sub.currentPeriodEnd
      BY <3>1, <1>t DEF ApplyStatus, Subscriptions
    <3>2. CASE MarkPastDue \/ ExpirePastDue \/ ExpireTrial \/ SyncOwnerTrial
      BY <3>2, <1>t DEF MarkPastDue, ExpirePastDue, ExpireTrial,
         SyncOwnerTrial, Subscriptions
    <3>3. CASE sub' = sub
      BY <3>3
    <3>4. QED
      BY <1>3, <3>1, <3>2, <3>3 DEF Next, vars, db, CreateCheckout, Receive,
         Handle, LookUp, Deduplicate, RejectAmount, ReadPeriod, TrackCompleted,
         CompleteCheckout, MarkCheckout, Acknowledge, Fail, Reconcile,
         FindOverdue, ExpireStaleCheckouts, ReadTrial, ReconcileFails, Tick, Crash
  <2>3. QED
    BY <1>1, <2>1, <2>2 DEF MonthsInv, MonthsAddUp
<1>4. QED
  BY <1>1, <1>2, <1>3 DEF MonthsInv

\* Months of payments applied one after the other add up.
THEOREM PaidMonthsAddUp == Spec => []MonthsAddUp
<1>1. Init => TInv /\ MonthsInv
  BY InitType DEF Init, TInv, StepInv, IdleRequest, MonthsInv, MonthsAddUp
<1>2. TInv /\ MonthsInv /\ [Next]_vars => TInv' /\ MonthsInv'
  BY NextType, NextStep, NextMonths DEF TInv
<1>3. QED
  BY <1>1, <1>2, PTL DEF Spec, MonthsInv

-----------------------------------------------------------------------------
(* Nobody is locked out or marked past due early. *)

\* What the clock has to do with a trial, its guard and the running job.
ClockInv ==
  /\ sub.status = "TRIALING" => sub.plan = "TRIAL" /\ sub.trialEndsAt = TrialEnd
  /\ guard.pc = "update" => guard.seen = "TRIALING" /\ now > TrialEnd
  /\ job.pc # "idle" => job.now <= now /\ now <= job.now + Grace
  /\ job.pc = "mark" => job.seen < job.now

LEMMA ClockTypes ==
  ASSUME TypeOK
  PROVE  /\ now \in Nat /\ job.now \in Nat /\ job.seen \in Nat /\ sub \in Subscriptions
         /\ sub.currentPeriodEnd \in Nat /\ sub.graceEndsAt \in Nat /\ sub.trialEndsAt \in Nat
         /\ Grace \in Nat /\ FailedGrace \in Nat /\ TrialEnd \in Nat
  BY DEF TypeOK, Jobs, Subscriptions

LEMMA UpsertEffect ==
  ASSUME TypeOK, NEW h \in Handlers, UpsertSubscription(h)
  PROVE  sub'.status = "ACTIVE" /\ UNCHANGED <<now, job, guard>>
<1>1. sub' = [sub EXCEPT
        !.plan = Said(h).plan, !.status = "ACTIVE", !.gateway = "PAYFAST",
        !.token = IF Said(h).token = NoToken THEN sub.token ELSE Said(h).token,
        !.trialEndsAt = NoDate, !.graceEndsAt = NoDate,
        !.currentPeriodEnd = handler[h].base + Month]
  BY DEF UpsertSubscription
<1>2. sub \in Subscriptions
  BY DEF TypeOK
<1>3. QED
  BY <1>1, <1>2 DEF Subscriptions, UpsertSubscription

LEMMA ApplyEffect ==
  ASSUME TypeOK, NEW h \in Handlers, ApplyStatus(h)
  PROVE  /\ UNCHANGED <<now, job, guard>> /\ At(h, "apply")
         /\ \/ sub' = sub
            \/ sub'.status = "CANCELED"
            \/ sub'.status = "PAST_DUE" /\ sub'.graceEndsAt = now + FailedGrace
               /\ Said(h).status = "FAILED"
<1>1. sub \in Subscriptions
  BY DEF TypeOK
<1>2. [sub EXCEPT !.status = "CANCELED"].status = "CANCELED"
  BY <1>1 DEF Subscriptions
<1>3. /\ [sub EXCEPT !.status = "PAST_DUE", !.graceEndsAt = now + FailedGrace].status = "PAST_DUE"
      /\ [sub EXCEPT !.status = "PAST_DUE", !.graceEndsAt = now + FailedGrace].graceEndsAt
           = now + FailedGrace
  BY <1>1 DEF Subscriptions
<1>4. QED
  BY <1>2, <1>3 DEF ApplyStatus

LEMMA JobEffect ==
  ASSUME TypeOK, Reconcile
  PROVE  /\ UNCHANGED <<now, guard, handler>>
         /\ \/ FindOverdue /\ sub' = sub
               /\ \/ job'.pc = "mark" /\ job'.now = now /\ job'.seen = sub.currentPeriodEnd
                     /\ sub.currentPeriodEnd < now
                  \/ job'.pc = "expire" /\ job'.now = now
            \/ /\ job.pc = "mark" /\ sub'.status = "PAST_DUE"
               /\ sub'.graceEndsAt = job.now + Grace
               /\ job'.pc = "expire" /\ job'.now = job.now
            \/ /\ job.pc = "expire" /\ job'.pc = "stale" /\ job'.now = job.now
               /\ \/ sub' = sub
                  \/ Lapsed(sub, job.now) /\ sub'.status = "EXPIRED"
            \/ job'.pc = "idle" /\ sub' = sub
<1>1. sub \in Subscriptions /\ job \in Jobs
  BY DEF TypeOK
<1>2. CASE FindOverdue
  BY <1>1, <1>2 DEF FindOverdue, Overdue, IdleJob, db
<1>3. CASE MarkPastDue
  BY <1>1, <1>3 DEF MarkPastDue, IdleJob, Subscriptions
<1>4. CASE ExpirePastDue
  BY <1>1, <1>4 DEF ExpirePastDue, Subscriptions, Jobs
<1>5. CASE ExpireStaleCheckouts \/ ReconcileFails
  BY <1>5 DEF ExpireStaleCheckouts, ReconcileFails, IdleJob, db
<1>6. QED
  BY <1>2, <1>3, <1>4, <1>5 DEF Reconcile

LEMMA TrialEffect ==
  ASSUME TypeOK, ReadTrial \/ ExpireTrial \/ SyncOwnerTrial
  PROVE  /\ UNCHANGED <<now, job, handler>>
         /\ \/ /\ sub' = sub /\ TrialOver(sub, now)
               /\ guard'.pc = "update" /\ guard'.seen = sub.status
            \/ guard.pc = "update" /\ guard'.pc = "idle" /\ sub'.status = "EXPIRED"
            \/ /\ guard' = guard /\ sub.plan = "TRIAL"
               /\ \/ sub'.status = "EXPIRED" /\ now > TrialEnd
                  \/ sub'.status = "TRIALING" /\ sub'.plan = "TRIAL" /\ sub'.trialEndsAt = TrialEnd
<1>1. sub \in Subscriptions /\ guard \in Guards
  BY DEF TypeOK
<1>2. CASE ReadTrial
  BY <1>1, <1>2 DEF ReadTrial, db
<1>3. CASE ExpireTrial
  BY <1>1, <1>3 DEF ExpireTrial, IdleGuard, Subscriptions
<1>4. CASE SyncOwnerTrial
  <2> DEFINE s == IF now > TrialEnd THEN "EXPIRED" ELSE "TRIALING"
  <2>1. sub' = [sub EXCEPT !.status = s, !.trialEndsAt = TrialEnd]
    BY <1>4 DEF SyncOwnerTrial
  <2>2. sub'.status = s /\ sub'.plan = sub.plan /\ sub'.trialEndsAt = TrialEnd
    BY <1>1, <2>1 DEF Subscriptions
  <2>3. QED
    BY <1>4, <2>2 DEF SyncOwnerTrial
<1>5. QED
  BY <1>2, <1>3, <1>4

\* Every other step leaves the subscription alone.
Idle == UNCHANGED <<now, sub, guard, job>>

LEMMA ClockCases ==
  ASSUME Next
  PROVE  \/ Idle
         \/ \E h \in Handlers : UpsertSubscription(h) \/ ApplyStatus(h)
         \/ Reconcile
         \/ ReadTrial \/ ExpireTrial \/ SyncOwnerTrial
         \/ Tick \/ Crash
<1>1. ASSUME NEW h \in Handlers, Handle(h)
      PROVE  Idle \/ UpsertSubscription(h) \/ ApplyStatus(h)
  BY <1>1 DEF Handle, LookUp, Deduplicate, RejectAmount, ReadPeriod, TrackCompleted,
     CompleteCheckout, MarkCheckout, Acknowledge, Idle, db
<1>2. ASSUME NEW h \in Handlers, Fail(h) PROVE Idle
  BY <1>2 DEF Fail, Idle, db
<1>3. ASSUME NEW r \in References, CreateCheckout(r) PROVE Idle
  BY <1>3 DEF CreateCheckout, Idle
<1>4. ASSUME NEW h \in Handlers, NEW n \in Notices, Receive(h, n) PROVE Idle
  BY <1>4 DEF Receive, Idle, db
<1>5. QED
  BY <1>1, <1>2, <1>3, <1>4 DEF Next

LEMMA ClockNext ==
  ASSUME TypeOK, ClockInv, [Next]_vars
  PROVE  ClockInv'
<1> USE ClockTypes
<1>1. CASE Idle \/ UNCHANGED vars
  BY <1>1 DEF Idle, vars, db, ClockInv
<1>2. ASSUME NEW h \in Handlers, UpsertSubscription(h) PROVE ClockInv'
  BY <1>2, UpsertEffect DEF ClockInv
<1>3. ASSUME NEW h \in Handlers, ApplyStatus(h) PROVE ClockInv'
  BY <1>3, ApplyEffect DEF ClockInv
<1>4. CASE Reconcile
  BY <1>4, JobEffect DEF ClockInv
<1>5. CASE ReadTrial \/ ExpireTrial \/ SyncOwnerTrial
  BY <1>5, TrialEffect DEF ClockInv, TrialOver
<1>6. CASE Tick
  BY <1>6 DEF Tick, ClockInv, db
<1>7. CASE Crash
  BY <1>7 DEF Crash, ClockInv, db, IdleJob, IdleGuard
<1>8. QED
  BY <1>1, <1>2, <1>3, <1>4, <1>5, <1>6, <1>7, ClockCases

LEMMA ClockInit == Init => ClockInv
  BY DEF Init, ClockInv, NewSubscription, IdleJob, IdleGuard

LEMMA LockedOutStep ==
  ASSUME TypeOK, ClockInv, Next, MayWrite(sub, now), ~MayWrite(sub', now')
  PROVE  \/ GraceOver(sub, now')
         \/ sub.plan = "TRIAL" /\ now' > TrialEnd
         \/ guard.pc = "update" /\ guard.seen # sub.status
<1> USE ClockTypes
<1>1. CASE Idle \/ Crash
  BY <1>1 DEF Idle, Crash, db
<1>2. ASSUME NEW h \in Handlers, UpsertSubscription(h) PROVE FALSE
  BY <1>2, UpsertEffect DEF MayWrite, GraceOver
<1>3. ASSUME NEW h \in Handlers, ApplyStatus(h) PROVE FALSE
  BY <1>3, ApplyEffect DEF MayWrite, GraceOver
<1>4. CASE Reconcile
  <2>1. now' = now
    BY <1>4, JobEffect
  <2>2. CASE sub' = sub
    BY <2>1, <2>2
  <2>3. CASE sub'.status = "PAST_DUE" /\ sub'.graceEndsAt = job.now + Grace /\ job.pc = "mark"
    BY <2>1, <2>3 DEF MayWrite, GraceOver, ClockInv
  <2>4. CASE Lapsed(sub, job.now) /\ job.pc = "expire"
    BY <2>1, <2>4 DEF MayWrite, GraceOver, Lapsed, ClockInv
  <2>5. QED
    BY <1>4, <2>2, <2>3, <2>4, JobEffect
<1>5. CASE ReadTrial \/ ExpireTrial \/ SyncOwnerTrial
  BY <1>5, TrialEffect DEF MayWrite, GraceOver, ClockInv
<1>6. CASE Tick
  BY <1>6 DEF Tick, MayWrite, db
<1>7. QED
  BY <1>1, <1>2, <1>3, <1>4, <1>5, <1>6, ClockCases

LEMMA PastDueStep ==
  ASSUME TypeOK, ClockInv, Next, sub.status = "ACTIVE", sub'.status = "PAST_DUE"
  PROVE  \/ sub.currentPeriodEnd < now
         \/ \E h \in Handlers : At(h, "apply") /\ Said(h).status = "FAILED"
         \/ job.pc = "mark" /\ job.seen # sub.currentPeriodEnd
<1> USE ClockTypes
<1>1. CASE Idle \/ Crash \/ Tick
  BY <1>1 DEF Idle, Crash, Tick, db
<1>2. ASSUME NEW h \in Handlers, UpsertSubscription(h) PROVE FALSE
  BY <1>2, UpsertEffect
<1>3. ASSUME NEW h \in Handlers, ApplyStatus(h)
      PROVE  At(h, "apply") /\ Said(h).status = "FAILED"
  BY <1>3, ApplyEffect
<1>4. CASE Reconcile
  <2>1. sub' = sub \/ sub'.status = "EXPIRED" \/ job.pc = "mark"
    BY <1>4, JobEffect
  <2>2. QED
    BY <2>1 DEF ClockInv
<1>5. CASE ReadTrial \/ ExpireTrial \/ SyncOwnerTrial
  BY <1>5, TrialEffect
<1>6. QED
  BY <1>1, <1>2, <1>3, <1>4, <1>5, ClockCases

LEMMA AlwaysClock == Spec => [](TypeOK /\ ClockInv)
<1>1. Init => ClockInv
  BY ClockInit
<1>2. TypeOK /\ ClockInv /\ [Next]_vars => ClockInv'
  BY ClockNext
<1>3. QED
  BY <1>1, <1>2, TypeCorrect, PTL DEF Spec

\* An organisation loses write access only when its trial or its grace is over,
\* or to a trial guard that read the row before a payment (cited for
\* LockedOutOnlyWhenDue).
THEOREM NobodyLockedOutEarly == Spec => LockedOutOnlyWhenDue
<1>1. TypeOK /\ ClockInv /\ [Next]_vars =>
        [MayWrite(sub, now) /\ ~MayWrite(sub', now') =>
           \/ GraceOver(sub, now')
           \/ sub.plan = "TRIAL" /\ now' > TrialEnd
           \/ guard.pc = "update" /\ guard.seen # sub.status]_vars
  BY LockedOutStep
<1>2. QED
  BY <1>1, AlwaysClock, PTL DEF Spec, LockedOutOnlyWhenDue

\* A paid-up subscription turns past due only by a failure notice or by a
\* reconciliation that read the row before the renewal (cited for
\* PastDueOnlyWhenDue).
THEOREM NobodyPastDueEarly == Spec => PastDueOnlyWhenDue
<1>1. TypeOK /\ ClockInv /\ [Next]_vars =>
        [sub.status = "ACTIVE" /\ sub'.status = "PAST_DUE" =>
           \/ sub.currentPeriodEnd < now
           \/ \E h \in Handlers : At(h, "apply") /\ Said(h).status = "FAILED"
           \/ job.pc = "mark" /\ job.seen # sub.currentPeriodEnd]_vars
  BY PastDueStep
<1>2. QED
  BY <1>1, AlwaysClock, PTL DEF Spec, PastDueOnlyWhenDue

=============================================================================
