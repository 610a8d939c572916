------------------------ MODULE NotificationDelivery ------------------------
(***************************************************************************)
(* From an emitted event to a sent message: enqueueDeliveries writes one   *)
(* NotificationDelivery row per recipient and channel and adds a BullMQ    *)
(* job for it; the delivery workers take jobs and run processOne.          *)
(*                                                                         *)
(* The rows live in Postgres and the jobs in Redis: nothing makes the two  *)
(* writes one.  BullMQ (external) gives at-least-once execution: a job     *)
(* whose worker died or lost its lock is run again, at most MaxStalls      *)
(* times, and a job that threw is retried up to MaxAttempts times.         *)
(*                                                                         *)
(* One event: emitEvent creates a new event each time, and the deliveries  *)
(* of different events share nothing.  Left out: the message's content.    *)
(***************************************************************************)
EXTENDS Integers, FiniteSets

CONSTANTS
  Deliveries,   \* the recipient-and-channel pairs of the event (allChannels)
  Workers,      \* delivery worker processes, one job at a time each
  DeferUntil,   \* deferUntil of each row, 0 for null: the end of the quiet hours it
                \* was written in or a forced deferral; a retry does not look again
  Skew,         \* how early a delayed job may be picked (clock differences)
  MaxAttempts,  \* DELIVERY_MAX_ATTEMPTS
  MaxStalls,    \* BullMQ's maxStalledCount
  NoWorker,
  MaxJobs, MaxNow, MaxFaults  \* bounds

JobIds == 1..MaxJobs

ASSUME DeliveryAssumption ==
  /\ NoWorker \notin Workers /\ IsFiniteSet(Workers)
  /\ Deliveries # {}
  /\ DeferUntil \in [Deliveries -> Nat]
  /\ Skew \in Nat /\ MaxAttempts \in Nat \ {0} /\ MaxStalls \in Nat
  /\ MaxJobs \in Nat \ {0} /\ MaxNow \in Nat /\ MaxFaults \in Nat

VARIABLES
  now,
  row,       \* NotificationDelivery rows
  enqueuer,  \* the enqueueDeliveries call
  jobs,      \* the notificationDelivery queue
  worker,    \* processOne in each worker
  mailed,    \* messages the mail or SMS provider accepted, by delivery
  faults,    \* errors, crashes and lost locks so far
  doubtful,  \* history: a message may have gone out unrecorded
  doubled    \* history: deliveries that got a second run beside the first

history == <<doubtful, doubled>>
vars == <<now, row, enqueuer, jobs, worker, mailed, faults, history>>

-----------------------------------------------------------------------------
Rows == [status : {"NONE", "PENDING", "SENT", "FAILED"}, attempts : Nat]

\* left: channels still to write; current: the row without a job.
Enqueuers == [pc : {"idle", "create", "add", "dead"},
              left : SUBSET Deliveries, current : Deliveries]

\* A completed job is dropped, so its number may be used again.
Jobs == [state : {"none", "waiting", "active", "failed"},
         delivery : Deliveries, runAt : Nat,
         made : 0..MaxAttempts, stalls : 0..(MaxStalls + 1),
         owner : Workers \cup {NoWorker}]

\* attempts: item.attempts as read.
Processes == [pc : {"idle", "read", "requeue", "count", "send", "record",
                    "fail", "finish"},
              job : JobIds, item : Deliveries, attempts : Nat]

AnyDelivery == CHOOSE d \in Deliveries : TRUE
NoJob    == [state |-> "none", delivery |-> AnyDelivery, runAt |-> 0,
             made |-> 0, stalls |-> 0, owner |-> NoWorker]
NewJob(d) == [state |-> "waiting", delivery |-> d, runAt |-> DeferUntil[d],
              made |-> 0, stalls |-> 0, owner |-> NoWorker]
IdleProcess == [pc |-> "idle", job |-> 1, item |-> AnyDelivery, attempts |-> 0]

Init ==
  /\ now = 1
  /\ row = [d \in Deliveries |-> [status |-> "NONE", attempts |-> 0]]
  /\ enqueuer = [pc |-> "create", left |-> Deliveries, current |-> AnyDelivery]
  /\ jobs = [j \in JobIds |-> NoJob]
  /\ worker = [w \in Workers |-> IdleProcess]
  /\ mailed = [d \in Deliveries |-> 0]
  /\ faults = 0
  /\ doubtful = {} /\ doubled = {}

At(w, pc)   == worker[w].pc = pc
Goto(w, pc) == worker' = [worker EXCEPT ![w].pc = pc]
Item(w)     == worker[w].item
Owns(w)     == jobs[worker[w].job].owner = w
Faulty      == faults < MaxFaults /\ faults' = faults + 1

\* queue.add
AddJob(d) ==
  \E j \in JobIds :
    /\ jobs[j].state = "none"
    /\ \A i \in JobIds : i < j => jobs[i].state # "none"
    /\ jobs' = [jobs EXCEPT ![j] = NewJob(d)]

-----------------------------------------------------------------------------
(* enqueueDeliveries: for each channel, create the row, then add the job. *)

CreateRow(d) ==
  /\ enqueuer.pc = "create"
  /\ d \in enqueuer.left
  /\ row' = [row EXCEPT ![d].status = "PENDING"]
  /\ enqueuer' = [pc |-> "add", left |-> enqueuer.left \ {d}, current |-> d]
  /\ UNCHANGED <<now, jobs, worker, mailed, faults, history>>

EnqueueRow ==
  /\ enqueuer.pc = "add"
  /\ AddJob(enqueuer.current)
  /\ enqueuer' = [enqueuer EXCEPT
       !.pc = IF enqueuer.left = {} THEN "idle" ELSE "create"]
  /\ UNCHANGED <<now, row, worker, mailed, faults, history>>

\* The process dies, or a call throws: nobody calls again for this event.
EnqueuerDies ==
  /\ enqueuer.pc \in {"create", "add"}
  /\ Faulty
  /\ enqueuer' = [enqueuer EXCEPT !.pc = "dead"]
  /\ UNCHANGED <<now, row, jobs, worker, mailed, history>>

-----------------------------------------------------------------------------
(* processOne, one action per call. *)

Take(w, j) ==
  /\ At(w, "idle")
  /\ jobs[j].state = "waiting"
  /\ jobs[j].runAt <= now + Skew
  /\ jobs' = [jobs EXCEPT ![j].state = "active", ![j].owner = w]
  /\ worker' = [worker EXCEPT ![w] = [pc |-> "read", job |-> j,
                              item |-> jobs[j].delivery, attempts |-> 0]]
  /\ UNCHANGED <<now, row, enqueuer, mailed, faults, history>>

DueLoosely(d) == TRUE   \* mutant: the job's delay is trusted

Due(d) == DeferUntil[d] <= now

AlreadySent(d) == row[d].status = "SENT"

ReadItem(w) ==
  LET d == Item(w) IN
  /\ At(w, "read")
  /\ worker' = [worker EXCEPT
       ![w].pc = CASE AlreadySent(d)              -> "finish"
                   [] ~AlreadySent(d) /\ ~Due(d)  -> "requeue"
                   [] ~AlreadySent(d) /\ Due(d)   -> "count",
       ![w].attempts = row[d].attempts]
  /\ UNCHANGED <<now, row, enqueuer, jobs, mailed, faults, history>>

RequeueNothing(w) ==   \* mutant: the early job just ends
  /\ At(w, "requeue")
  /\ Goto(w, "finish")
  /\ UNCHANGED <<now, row, enqueuer, jobs, mailed, faults, history>>

\* Picked too early: another job with the remaining delay, and this one ends.
Requeue(w) ==
  /\ At(w, "requeue")
  /\ AddJob(Item(w))
  /\ Goto(w, "finish")
  /\ UNCHANGED <<now, row, enqueuer, mailed, faults, history>>

CountAttempt(w) ==
  /\ At(w, "count")
  /\ row' = [row EXCEPT ![Item(w)].attempts = worker[w].attempts + 1]
  /\ Goto(w, "send")
  /\ UNCHANGED <<now, enqueuer, jobs, mailed, faults, history>>

SendMessage(w) ==
  /\ At(w, "send")
  /\ mailed' = [mailed EXCEPT ![Item(w)] = @ + 1]
  /\ Goto(w, "record")
  /\ UNCHANGED <<now, row, enqueuer, jobs, faults, history>>

\* The provider refuses.
SendThrows(w) ==
  /\ At(w, "send")
  /\ Faulty
  /\ Goto(w, "fail")
  /\ UNCHANGED <<now, row, enqueuer, jobs, mailed, history>>

RecordSent(w) ==
  /\ At(w, "record")
  /\ row' = [row EXCEPT ![Item(w)].status = "SENT"]
  /\ Goto(w, "finish")
  /\ UNCHANGED <<now, enqueuer, jobs, mailed, faults, history>>

\* The message was accepted, and then its sender times out or the update to
\* SENT throws, inside the same try block.
RecordThrows(w) ==
  /\ At(w, "record")
  /\ Faulty
  /\ doubtful' = doubtful \cup {Item(w)}
  /\ Goto(w, "fail")
  /\ UNCHANGED <<now, row, enqueuer, jobs, mailed, doubled>>

\* BullMQ's end of a job: only the lock's owner moves it.
ThrownOnce(j) == [jobs EXCEPT ![j] = NoJob]   \* mutant: no retry

ThrownOnceMore(j) ==   \* mutant: one attempt too many
  [jobs EXCEPT ![j].owner = NoWorker, ![j].made = @ + 1,
     ![j].state = IF jobs[j].made >= MaxAttempts THEN "failed" ELSE "waiting"]

Thrown(j) ==
  [jobs EXCEPT ![j].owner = NoWorker, ![j].made = @ + 1,
     ![j].state = IF jobs[j].made + 1 >= MaxAttempts THEN "failed" ELSE "waiting"]

\* The catch block, and the rethrow.
MarkFailed(w) ==
  /\ At(w, "fail")
  /\ row' = [row EXCEPT ![Item(w)].status = "FAILED"]
  /\ jobs' = IF Owns(w) THEN Thrown(worker[w].job) ELSE jobs
  /\ worker' = [worker EXCEPT ![w] = IdleProcess]
  /\ UNCHANGED <<now, enqueuer, mailed, faults, history>>

\* A database error outside the try block or in the catch block.
ProcessThrows(w) ==
  /\ worker[w].pc \in {"read", "requeue", "count", "fail"}
  /\ Faulty
  /\ jobs' = IF Owns(w) THEN Thrown(worker[w].job) ELSE jobs
  /\ worker' = [worker EXCEPT ![w] = IdleProcess]
  /\ UNCHANGED <<now, row, enqueuer, mailed, history>>

Finish(w) ==
  /\ At(w, "finish")
  /\ jobs' = IF Owns(w) THEN [jobs EXCEPT ![worker[w].job] = NoJob] ELSE jobs
  /\ worker' = [worker EXCEPT ![w] = IdleProcess]
  /\ UNCHANGED <<now, row, enqueuer, mailed, faults, history>>

-----------------------------------------------------------------------------
(* Crashes, and BullMQ's stalled-job check (external). *)

\* Requeued, and the job that was to end will run again.
Requeued(w) ==
  {d \in Deliveries : \E j \in JobIds \ {worker[w].job} :
     Item(w) = d /\ jobs[j].delivery = d /\ jobs[j].state \in {"waiting", "active"}}

Mailing(w) == {d \in Deliveries : At(w, "record") /\ Item(w) = d}

WorkerDies(w) ==
  /\ ~At(w, "idle")
  /\ Faulty
  /\ worker' = [worker EXCEPT ![w] = IdleProcess]
  /\ jobs' = IF Owns(w) THEN [jobs EXCEPT ![worker[w].job].owner = NoWorker]
                        ELSE jobs
  /\ doubtful' = doubtful \cup Mailing(w)
  /\ doubled' = doubled \cup Requeued(w)
  /\ UNCHANGED <<now, row, enqueuer, mailed>>

Stalled(j) ==
  [jobs EXCEPT ![j].owner = NoWorker, ![j].stalls = @ + 1,
     ![j].state = IF jobs[j].stalls >= MaxStalls THEN "failed" ELSE "waiting"]

RecoverStalled(j) ==
  /\ jobs[j].state = "active" /\ jobs[j].owner = NoWorker
  /\ jobs' = Stalled(j)
  /\ UNCHANGED <<now, row, enqueuer, worker, mailed, faults, history>>

\* The worker lives but could not renew its lock in time; it goes on.
LoseLock(j) ==
  /\ jobs[j].state = "active" /\ jobs[j].owner # NoWorker
  /\ Faulty
  /\ jobs' = Stalled(j)
  /\ doubled' = doubled \cup {jobs[j].delivery}
  /\ UNCHANGED <<now, row, enqueuer, worker, mailed, doubtful>>

Tick ==
  /\ now < MaxNow
  /\ now' = now + 1
  /\ UNCHANGED <<row, enqueuer, jobs, worker, mailed, faults, history>>

Process(w) ==
  \/ ReadItem(w) \/ Requeue(w) \/ CountAttempt(w) \/ SendMessage(w)
  \/ RecordSent(w) \/ MarkFailed(w) \/ Finish(w)

Enqueue == (\E d \in Deliveries : CreateRow(d)) \/ EnqueueRow

Next ==
  \/ Enqueue \/ EnqueuerDies
  \/ \E w \in Workers :
       \/ \E j \in JobIds : Take(w, j)
       \/ Process(w)
       \/ SendThrows(w) \/ RecordThrows(w) \/ ProcessThrows(w) \/ WorkerDies(w)
  \/ \E j \in JobIds : RecoverStalled(j) \/ LoseLock(j)
  \/ Tick

Spec == Init /\ [][Next]_vars

\* Workers go on and are restarted, an idle worker takes any due job in turn,
\* BullMQ checks for stalled jobs, and time passes.
Fairness ==
  /\ WF_vars(Enqueue) /\ WF_vars(Tick)
  /\ \A w \in Workers : WF_vars(Process(w))
  /\ \A j \in JobIds : /\ SF_vars(\E w \in Workers : Take(w, j))
                       /\ WF_vars(RecoverStalled(j))

FairSpec == Spec /\ Fairness

-----------------------------------------------------------------------------
TypeOK ==
  /\ now \in Nat
  /\ row \in [Deliveries -> Rows]
  /\ enqueuer \in Enqueuers
  /\ jobs \in [JobIds -> Jobs]
  /\ \A j \in JobIds : jobs[j].state = "waiting" => jobs[j].made < MaxAttempts
  /\ worker \in [Workers -> Processes]
  /\ mailed \in [Deliveries -> Nat]
  /\ faults \in 0..MaxFaults
  /\ doubtful \subseteq Deliveries /\ doubled \subseteq Deliveries

\* A row says SENT only when the provider accepted a message for it.
SentMeansMailed ==
  \A d \in Deliveries : row[d].status = "SENT" => mailed[d] > 0

\* At most one message goes out for a delivery, through every retry and every
\* second run of its job, unless an accepted message went unrecorded (crash or
\* error between the send and the update), a live worker lost its lock, or a
\* worker died between requeueing an early job and completing it; and each
\* fault costs at most one message more.
OneMessage ==
  /\ \A d \in Deliveries \ (doubtful \cup doubled) : mailed[d] <= 1
  /\ \A d \in Deliveries : mailed[d] <= 1 + faults

Live(d) == \E j \in JobIds : /\ jobs[j].delivery = d
                             /\ jobs[j].state \in {"waiting", "active"}
GivenUp(d) == \E j \in JobIds : jobs[j].delivery = d /\ jobs[j].state = "failed"

\* Postgres and Redis agree: an unsent row has a job that will still run, or
\* one BullMQ gave up on; the exceptions are a row whose enqueuer is about to
\* add the job or died before, and one with two runs side by side.
UnsentIsFollowed ==
  \A d \in Deliveries \ doubled :
    row[d].status \in {"PENDING", "FAILED"} =>
      \/ Live(d) \/ GivenUp(d)
      \/ enqueuer.pc \in {"add", "dead"} /\ enqueuer.current = d

Contract == INSTANCE DeliveryContract WITH
  status   <- [d \in Deliveries |-> row[d].status],
  accepted <- mailed,
  risky    <- doubtful \cup doubled,
  mishaps  <- faults,
  held     <- {d \in Deliveries : now < DeferUntil[d]}

\* The rows and the messages behave as the contract says: nothing is sent before
\* its deferUntil, SENT follows an accepted message and is final, nothing is sent
\* twice or called failed after it went out, unless the delivery has become
\* risky, and then it goes out at most once more for each fault so far.
KeepsContract == Contract!Spec

\* A queued delivery goes out, or BullMQ gives it up after the configured
\* attempts: it is never just left.
QueuedIsSettled ==
  \A d \in Deliveries : Live(d) ~> (mailed[d] > 0 \/ GivenUp(d))

=============================================================================
