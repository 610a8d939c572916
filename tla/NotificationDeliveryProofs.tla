--------------------- MODULE NotificationDeliveryProofs ---------------------
(***************************************************************************)
(* Proofs about NotificationDelivery, for every set of deliveries and      *)
(* workers and every bound: its types, when a second message can go out,   *)
(* that no unsent row is left without a job, and that the queue and its    *)
(* workers implement DeliveryContract.                                     *)
(***************************************************************************)
EXTENDS NotificationDelivery, FiniteSetTheorems, TLAPS

USE DeliveryAssumption

-----------------------------------------------------------------------------
(* Types, and who owns a job. *)

\* The owner of a job is a worker that is processing it.
Owned ==
  \A j \in JobIds : jobs[j].owner # NoWorker =>
    LET w == jobs[j].owner IN
    /\ jobs[j].state = "active"
    /\ ~At(w, "idle") /\ worker[w].job = j /\ Item(w) = jobs[j].delivery

\* A live job has an attempt and a stall left.
Counted ==
  \A j \in JobIds : jobs[j].state \in {"waiting", "active"} =>
    jobs[j].made < MaxAttempts /\ jobs[j].stalls <= MaxStalls

TInv == TypeOK /\ Owned /\ Counted

LEMMA AnyDeliveryType == AnyDelivery \in Deliveries
  BY DEF AnyDelivery

LEMMA NewJobType ==
  ASSUME NEW d \in Deliveries
  PROVE  /\ NewJob(d) \in Jobs
         /\ NewJob(d).state = "waiting" /\ NewJob(d).delivery = d
         /\ NewJob(d).owner = NoWorker /\ NewJob(d).made = 0 /\ NewJob(d).stalls = 0
  BY DEF NewJob, Jobs

LEMMA NoJobType ==
  NoJob \in Jobs /\ NoJob.state = "none" /\ NoJob.owner = NoWorker
  BY AnyDeliveryType DEF NoJob, Jobs

LEMMA IdleType == IdleProcess \in Processes /\ IdleProcess.pc = "idle"
  BY AnyDeliveryType DEF IdleProcess, Processes, JobIds

\* queue.add puts a fresh job in the place of one that is gone.
LEMMA AddJobType ==
  ASSUME TInv, NEW d \in Deliveries, AddJob(d)
  PROVE  \E j \in JobIds :
           /\ jobs[j].state = "none" /\ jobs[j].owner = NoWorker
           /\ jobs' = [jobs EXCEPT ![j] = NewJob(d)]
           /\ jobs' \in [JobIds -> Jobs]
<1>1. PICK j \in JobIds : /\ jobs[j].state = "none"
                          /\ jobs' = [jobs EXCEPT ![j] = NewJob(d)]
  BY DEF AddJob
<1>2. jobs[j].owner = NoWorker
  BY <1>1 DEF TInv, Owned
<1>3. jobs' \in [JobIds -> Jobs]
  BY <1>1, NewJobType DEF TInv, TypeOK
<1>4. QED
  BY <1>1, <1>2, <1>3

\* The job of a processor that threw, and one that was found stalled.
LEMMA ThrownType ==
  ASSUME TInv, NEW j \in JobIds, jobs[j].state = "active"
  PROVE  \E n \in Jobs :
           /\ Thrown(j) = [jobs EXCEPT ![j] = n]
           /\ n.state \in {"failed", "waiting"}
           /\ n.state = "waiting" => n.made < MaxAttempts
           /\ n.delivery = jobs[j].delivery /\ n.stalls = jobs[j].stalls
           /\ n.owner = NoWorker
<1> DEFINE s == IF jobs[j].made + 1 >= MaxAttempts THEN "failed" ELSE "waiting"
           n == [jobs[j] EXCEPT !.owner = NoWorker, !.made = jobs[j].made + 1,
                                !.state = s]
<1>1. /\ jobs \in [JobIds -> Jobs] /\ jobs[j] \in Jobs
      /\ jobs[j].made + 1 \in 0..MaxAttempts
  BY DEF TInv, TypeOK, Counted, Jobs
<1>2. Thrown(j) = [jobs EXCEPT ![j] = n]
  BY <1>1 DEF Thrown, Jobs
<1>3. s \in {"failed", "waiting"} /\ (s = "waiting" => jobs[j].made + 1 < MaxAttempts)
  BY <1>1
<1>4. /\ n \in Jobs /\ n.state = s /\ n.made = jobs[j].made + 1
      /\ n.delivery = jobs[j].delivery /\ n.stalls = jobs[j].stalls
      /\ n.owner = NoWorker
  <2> HIDE DEF s
  <2>1. QED
    BY <1>1, <1>3 DEF Jobs
<1>5. QED
  <2> HIDE DEF s, n
  <2>1. QED
    BY <1>2, <1>3, <1>4

LEMMA StalledType ==
  ASSUME TInv, NEW j \in JobIds, jobs[j].state = "active"
  PROVE  \E n \in Jobs :
           /\ Stalled(j) = [jobs EXCEPT ![j] = n]
           /\ n.state \in {"failed", "waiting"}
           /\ n.state = "waiting" => n.stalls <= MaxStalls
           /\ n.delivery = jobs[j].delivery /\ n.made = jobs[j].made
           /\ n.owner = NoWorker
<1> DEFINE s == IF jobs[j].stalls >= MaxStalls THEN "failed" ELSE "waiting"
           n == [jobs[j] EXCEPT !.owner = NoWorker, !.stalls = jobs[j].stalls + 1,
                                !.state = s]
<1>1. /\ jobs \in [JobIds -> Jobs] /\ jobs[j] \in Jobs
      /\ jobs[j].stalls \in Nat /\ jobs[j].stalls + 1 \in 0..(MaxStalls + 1)
  BY DEF TInv, TypeOK, Counted, Jobs
<1>2. Stalled(j) = [jobs EXCEPT ![j] = n]
  BY <1>1 DEF Stalled, Jobs
<1>3. s \in {"failed", "waiting"} /\ (s = "waiting" => jobs[j].stalls + 1 <= MaxStalls)
  BY <1>1
<1>4. /\ n \in Jobs /\ n.state = s /\ n.stalls = jobs[j].stalls + 1
      /\ n.delivery = jobs[j].delivery /\ n.made = jobs[j].made
      /\ n.owner = NoWorker
  <2> HIDE DEF s
  <2>1. QED
    BY <1>1, <1>3 DEF Jobs
<1>5. QED
  <2> HIDE DEF s, n
  <2>1. QED
    BY <1>2, <1>3, <1>4

\* The part of TInv about jobs and workers.
QInv == /\ jobs \in [JobIds -> Jobs] /\ worker \in [Workers -> Processes]
        /\ Owned /\ Counted

\* A worker takes a step with the job it has.
LEMMA GoesOn ==
  ASSUME TInv, NEW w \in Workers, ~At(w, "idle"), NEW p \in Processes,
         p.pc # "idle", p.job = worker[w].job, p.item = Item(w),
         worker' = [worker EXCEPT ![w] = p], UNCHANGED jobs
  PROVE  QInv'
  BY DEF TInv, TypeOK, QInv, Owned, Counted, At, Item, Jobs

\* A worker is done with its job, and the job's owner leaves n behind.
LEMMA LetsGo ==
  ASSUME TInv, NEW w \in Workers, ~At(w, "idle"), NEW n \in Jobs,
         n.owner = NoWorker,
         n.state \in {"waiting", "active"} =>
           n.made < MaxAttempts /\ n.stalls <= MaxStalls,
         worker' = [worker EXCEPT ![w] = IdleProcess],
         jobs' = IF Owns(w) THEN [jobs EXCEPT ![worker[w].job] = n] ELSE jobs
  PROVE  QInv'
<1>1. /\ jobs' \in [JobIds -> Jobs] /\ worker' \in [Workers -> Processes]
      /\ worker[w].job \in JobIds
  BY IdleType DEF TInv, TypeOK, Processes
<1>2. Counted'
  BY <1>1 DEF TInv, Counted, TypeOK
<1>3. ASSUME NEW j \in JobIds, jobs'[j].owner # NoWorker
      PROVE  /\ jobs'[j] = jobs[j] /\ jobs[j].owner # w
             /\ jobs[j].owner \in Workers
  BY <1>3, <1>1 DEF TInv, TypeOK, Owned, Owns, Jobs
<1>4. Owned'
  BY <1>3, <1>1 DEF TInv, TypeOK, Owned, At, Item
<1>5. QED
  BY <1>1, <1>2, <1>4 DEF QInv

\* A job nobody owns, or one that loses its owner, becomes n.
LEMMA JobMoves ==
  ASSUME TInv, NEW j \in JobIds, NEW n \in Jobs, n.owner = NoWorker,
         n.state \in {"waiting", "active"} =>
           n.made < MaxAttempts /\ n.stalls <= MaxStalls,
         jobs' = [jobs EXCEPT ![j] = n], UNCHANGED worker
  PROVE  QInv'
<1>1. /\ jobs' \in [JobIds -> Jobs] /\ worker' \in [Workers -> Processes]
  BY DEF TInv, TypeOK
<1>2. Counted'
  BY <1>1 DEF TInv, Counted, TypeOK
<1>3. Owned'
  BY <1>1 DEF TInv, TypeOK, Owned, At, Item
<1>4. QED
  BY <1>1, <1>2, <1>3 DEF QInv

LEMMA TakeMoves == ASSUME TInv, NEW w \in Workers, NEW j \in JobIds, Take(w, j)
                   PROVE  QInv'
<1> DEFINE n == [jobs[j] EXCEPT !.state = "active", !.owner = w]
           p == [pc |-> "read", job |-> j, item |-> jobs[j].delivery, attempts |-> 0]
<1>1. /\ jobs' = [jobs EXCEPT ![j] = n] /\ worker' = [worker EXCEPT ![w] = p]
      /\ n \in Jobs /\ n.state = "active" /\ n.owner = w /\ n.made = jobs[j].made
      /\ n.stalls = jobs[j].stalls /\ n.delivery = jobs[j].delivery
      /\ p \in Processes /\ p.pc = "read" /\ p.job = j /\ p.item = jobs[j].delivery
  BY DEF Take, TInv, TypeOK, Jobs, Processes
<1>2. At(w, "idle") /\ jobs[j].state = "waiting"
  BY DEF Take
<1> HIDE DEF n, p
<1>3. jobs' \in [JobIds -> Jobs] /\ worker' \in [Workers -> Processes]
  BY <1>1 DEF TInv, TypeOK
<1>4. Counted'
  BY <1>1, <1>2, <1>3 DEF TInv, Counted, TypeOK
<1>5. ASSUME NEW i \in JobIds, jobs'[i].owner # NoWorker, i # j
      PROVE  jobs'[i] = jobs[i] /\ jobs[i].owner # w
  BY <1>1, <1>2, <1>5 DEF TInv, TypeOK, Owned
<1>6. Owned'
  BY <1>1, <1>3, <1>5 DEF TInv, TypeOK, Owned, At, Item, Jobs
<1>7. QED
  BY <1>3, <1>4, <1>6 DEF QInv

LEMMA RequeueMoves == ASSUME TInv, NEW w \in Workers, Requeue(w) PROVE QInv'
<1> DEFINE p == [worker[w] EXCEPT !.pc = "finish"]
<1>1. /\ At(w, "requeue") /\ worker' = [worker EXCEPT ![w] = p]
      /\ p \in Processes /\ p.pc = "finish" /\ p.job = worker[w].job
      /\ p.item = Item(w) /\ AddJob(Item(w)) /\ Item(w) \in Deliveries
  BY DEF Requeue, Goto, TInv, TypeOK, Processes, Item
<1> HIDE DEF p
<1>2. PICK j \in JobIds : /\ jobs[j].state = "none" /\ jobs[j].owner = NoWorker
                          /\ jobs' = [jobs EXCEPT ![j] = NewJob(Item(w))]
                          /\ jobs' \in [JobIds -> Jobs]
  BY <1>1, AddJobType
<1>3. worker' \in [Workers -> Processes]
  BY <1>1 DEF TInv, TypeOK
<1>4. Counted'
  BY <1>1, <1>2, NewJobType DEF TInv, Counted, TypeOK
<1>5. Owned'
  BY <1>1, <1>2, <1>3, NewJobType DEF TInv, TypeOK, Owned, At, Item
<1>6. QED
  BY <1>2, <1>3, <1>4, <1>5 DEF QInv

LEMMA QueueNext == ASSUME TInv, Next PROVE QInv'
<1>s. ASSUME UNCHANGED <<jobs, worker>> PROVE QInv'
  BY <1>s DEF TInv, TypeOK, QInv, Owned, Counted, At, Item
<1>w. ASSUME NEW w \in Workers, ~At(w, "idle"), UNCHANGED jobs,
             NEW pc \in {"read", "requeue", "count", "send", "record", "fail", "finish"},
             NEW n \in Nat,
             \/ Goto(w, pc)
             \/ worker' = [worker EXCEPT ![w].pc = pc, ![w].attempts = n]
      PROVE  QInv'
  <2>1. worker[w] \in Processes
    BY DEF TInv, TypeOK
  <2>2. CASE Goto(w, pc)
    <3> DEFINE p == [worker[w] EXCEPT !.pc = pc]
    <3>1. /\ p \in Processes /\ p.pc = pc /\ p.job = worker[w].job
          /\ p.item = Item(w) /\ worker' = [worker EXCEPT ![w] = p]
      BY <2>1, <2>2 DEF Processes, Item, Goto
    <3>2. QED
      BY <3>1, <1>w, GoesOn
  <2>3. CASE worker' = [worker EXCEPT ![w].pc = pc, ![w].attempts = n]
    <3> DEFINE p == [worker[w] EXCEPT !.pc = pc, !.attempts = n]
    <3>1. /\ p \in Processes /\ p.pc = pc /\ p.job = worker[w].job /\ p.item = Item(w)
      BY <2>1 DEF Processes, Item
    <3>2. worker' = [worker EXCEPT ![w] = p]
      BY <2>1, <2>3 DEF TInv, TypeOK, Processes
    <3>3. QED
      BY <3>1, <3>2, <1>w, GoesOn
  <2>4. QED
    BY <1>w, <2>2, <2>3
<1>t. ASSUME NEW w \in Workers, ~At(w, "idle"),
             jobs' = IF Owns(w) THEN Thrown(worker[w].job) ELSE jobs,
             worker' = [worker EXCEPT ![w] = IdleProcess]
      PROVE  QInv'
  <2>1. CASE ~Owns(w)
    BY <1>t, <2>1, LetsGo, NoJobType
  <2>2. CASE Owns(w)
    <3>1. worker[w].job \in JobIds /\ jobs[worker[w].job].state = "active"
      BY <2>2 DEF TInv, TypeOK, Processes, Owns, Owned
    <3>2. jobs[worker[w].job].stalls <= MaxStalls
      BY <3>1 DEF TInv, Counted
    <3>3. PICK n \in Jobs :
            /\ Thrown(worker[w].job) = [jobs EXCEPT ![worker[w].job] = n]
            /\ n.state \in {"failed", "waiting"}
            /\ n.state = "waiting" => n.made < MaxAttempts
            /\ n.stalls = jobs[worker[w].job].stalls
            /\ n.owner = NoWorker
      BY <3>1, ThrownType
    <3>4. QED
      BY <1>t, <2>2, <3>2, <3>3, LetsGo
  <2>3. QED
    BY <2>1, <2>2
<1>l. ASSUME NEW j \in JobIds, jobs[j].state = "active", jobs' = Stalled(j),
             UNCHANGED worker
      PROVE  QInv'
  <2>1. PICK n \in Jobs :
          /\ Stalled(j) = [jobs EXCEPT ![j] = n]
          /\ n.state \in {"failed", "waiting"}
          /\ n.state = "waiting" => n.stalls <= MaxStalls
          /\ n.made = jobs[j].made /\ n.owner = NoWorker
    BY <1>l, StalledType
  <2>2. jobs[j].made < MaxAttempts
    BY <1>l DEF TInv, Counted
  <2>3. QED
    BY <1>l, <2>1, <2>2, JobMoves
<1>1. CASE \/ (\E d \in Deliveries : CreateRow(d)) \/ EnqueuerDies \/ Tick
  BY <1>1, <1>s DEF CreateRow, EnqueuerDies, Tick
<1>2. CASE EnqueueRow
  <2>1. PICK j \in JobIds : jobs' = [jobs EXCEPT ![j] = NewJob(enqueuer.current)]
    BY <1>2 DEF EnqueueRow, AddJob
  <2>2. enqueuer.current \in Deliveries /\ UNCHANGED worker
    BY <1>2 DEF TInv, TypeOK, Enqueuers, EnqueueRow
  <2>3. NewJob(enqueuer.current) \in Jobs /\ 0 < MaxAttempts /\ 0 <= MaxStalls
    BY <2>2, NewJobType
  <2>4. QED
    BY <2>1, <2>2, <2>3, NewJobType, JobMoves
<1>3. ASSUME NEW w \in Workers, NEW j \in JobIds, Take(w, j) PROVE QInv'
  BY <1>3, TakeMoves
<1>4. ASSUME NEW w \in Workers, ReadItem(w) PROVE QInv'
  <2>1. row[Item(w)].attempts \in Nat
    BY DEF TInv, TypeOK, Processes, Item, Rows
  <2>2. PICK pc \in {"finish", "requeue", "count"} :
          worker' = [worker EXCEPT ![w].pc = pc, ![w].attempts = row[Item(w)].attempts]
    BY <1>4 DEF ReadItem
  <2>3. QED
    BY <1>4, <2>1, <2>2, <1>w DEF ReadItem, At
<1>5. ASSUME NEW w \in Workers, Requeue(w) PROVE QInv'
  BY <1>5, RequeueMoves
<1>6. ASSUME NEW w \in Workers,
             \/ CountAttempt(w) \/ SendMessage(w) \/ SendThrows(w)
             \/ RecordSent(w) \/ RecordThrows(w)
      PROVE  QInv'
  BY <1>6, <1>w DEF CountAttempt, SendMessage, SendThrows, RecordSent, RecordThrows, At
<1>7. ASSUME NEW w \in Workers, MarkFailed(w) \/ ProcessThrows(w) PROVE QInv'
  BY <1>7, <1>t DEF MarkFailed, ProcessThrows, At
<1>8. ASSUME NEW w \in Workers, Finish(w) PROVE QInv'
  BY <1>8, NoJobType, LetsGo DEF Finish, At
<1>9. ASSUME NEW w \in Workers, WorkerDies(w) PROVE QInv'
  <2> DEFINE j == worker[w].job
             n == [jobs[j] EXCEPT !.owner = NoWorker]
  <2>1. /\ j \in JobIds /\ jobs[j] \in Jobs /\ n \in Jobs /\ n.owner = NoWorker
        /\ n.state = jobs[j].state /\ n.made = jobs[j].made
        /\ n.stalls = jobs[j].stalls
    BY DEF TInv, TypeOK, Processes, Jobs
  <2>2. jobs' = IF Owns(w) THEN [jobs EXCEPT ![j] = n] ELSE jobs
    BY <1>9 DEF WorkerDies, TInv, TypeOK
  <2>3. n.state \in {"waiting", "active"} => n.made < MaxAttempts /\ n.stalls <= MaxStalls
    BY <2>1 DEF TInv, Counted
  <2>4. ~At(w, "idle") /\ worker' = [worker EXCEPT ![w] = IdleProcess]
    BY <1>9 DEF WorkerDies
  <2> HIDE DEF n
  <2>5. QED
    BY <2>1, <2>2, <2>3, <2>4, LetsGo
<1>10. ASSUME NEW j \in JobIds, RecoverStalled(j) \/ LoseLock(j) PROVE QInv'
  BY <1>10, <1>l DEF RecoverStalled, LoseLock
<1>11. QED
  BY <1>1, <1>2, <1>3, <1>4, <1>5, <1>6, <1>7, <1>8, <1>9, <1>10
     DEF Next, Enqueue, Process

\* Which actions change what.
LEMMA WritesRow ==
  Next => \/ \E d \in Deliveries : CreateRow(d)
          \/ \E w \in Workers : CountAttempt(w) \/ RecordSent(w) \/ MarkFailed(w)
          \/ UNCHANGED row
  BY DEF Next, Enqueue, Process, CreateRow, EnqueueRow, EnqueuerDies, Take,
     ReadItem, Requeue, CountAttempt, SendMessage, SendThrows, RecordSent, RecordThrows,
     MarkFailed, ProcessThrows, Finish, WorkerDies, RecoverStalled, LoseLock, Tick,
     history

LEMMA MovesEnqueuer ==
  Next => \/ \E d \in Deliveries : CreateRow(d)
          \/ EnqueueRow \/ EnqueuerDies \/ UNCHANGED enqueuer
  BY DEF Next, Enqueue, Process, CreateRow, EnqueueRow, EnqueuerDies, Take,
     ReadItem, Requeue, CountAttempt, SendMessage, SendThrows, RecordSent, RecordThrows,
     MarkFailed, ProcessThrows, Finish, WorkerDies, RecoverStalled, LoseLock, Tick,
     history

LEMMA SendsMail ==
  Next => (\E w \in Workers : SendMessage(w)) \/ UNCHANGED mailed
  BY DEF Next, Enqueue, Process, CreateRow, EnqueueRow, EnqueuerDies, Take,
     ReadItem, Requeue, CountAttempt, SendMessage, SendThrows, RecordSent, RecordThrows,
     MarkFailed, ProcessThrows, Finish, WorkerDies, RecoverStalled, LoseLock, Tick,
     history

LEMMA PassesTime == Next => Tick \/ UNCHANGED now
  BY DEF Next, Enqueue, Process, CreateRow, EnqueueRow, EnqueuerDies, Take,
     ReadItem, Requeue, CountAttempt, SendMessage, SendThrows, RecordSent, RecordThrows,
     MarkFailed, ProcessThrows, Finish, WorkerDies, RecoverStalled, LoseLock, Tick,
     history

Fault ==
  \/ EnqueuerDies
  \/ \E w \in Workers :
       SendThrows(w) \/ RecordThrows(w) \/ ProcessThrows(w) \/ WorkerDies(w)
  \/ \E j \in JobIds : LoseLock(j)

LEMMA Faults == Next => Fault \/ UNCHANGED faults
  BY DEF Fault, Next, Enqueue, Process, CreateRow, EnqueueRow, EnqueuerDies, Take,
     ReadItem, Requeue, CountAttempt, SendMessage, SendThrows, RecordSent, RecordThrows,
     MarkFailed, ProcessThrows, Finish, WorkerDies, RecoverStalled, LoseLock, Tick,
     history

LEMMA CountsFaults == Next => Faulty \/ UNCHANGED faults
  BY DEF Next, Enqueue, Process, CreateRow, EnqueueRow, EnqueuerDies, Take,
     ReadItem, Requeue, CountAttempt, SendMessage, SendThrows, RecordSent, RecordThrows,
     MarkFailed, ProcessThrows, Finish, WorkerDies, RecoverStalled, LoseLock, Tick,
     history

LEMMA Endangers ==
  Next => \/ \E w \in Workers : RecordThrows(w) \/ WorkerDies(w)
          \/ \E j \in JobIds : LoseLock(j)
          \/ UNCHANGED <<doubtful, doubled>>
  BY DEF Next, Enqueue, Process, CreateRow, EnqueueRow, EnqueuerDies, Take,
     ReadItem, Requeue, CountAttempt, SendMessage, SendThrows, RecordSent, RecordThrows,
     MarkFailed, ProcessThrows, Finish, WorkerDies, RecoverStalled, LoseLock, Tick,
     history

LEMMA TypeNext == ASSUME TInv, Next PROVE TInv'
<1> USE DEF TInv, TypeOK
<1>1. QInv'
  BY QueueNext
<1>2. \A w \in Workers : Item(w) \in Deliveries /\ worker[w].attempts \in Nat
  BY DEF Processes, Item
<1>3. \A j \in JobIds : jobs[j].delivery \in Deliveries
  BY DEF Jobs
<1>4. row' \in [Deliveries -> Rows]
  <2>1. ASSUME NEW d \in Deliveries, NEW s \in {"PENDING", "SENT", "FAILED"},
               row' = [row EXCEPT ![d].status = s]
        PROVE  row' \in [Deliveries -> Rows]
    BY <2>1 DEF Rows
  <2>2. ASSUME NEW d \in Deliveries, NEW n \in Nat, row' = [row EXCEPT ![d].attempts = n]
        PROVE  row' \in [Deliveries -> Rows]
    BY <2>2 DEF Rows
  <2>3. CASE \E d \in Deliveries : CreateRow(d)
    BY <2>3, <2>1 DEF CreateRow
  <2>4. ASSUME NEW w \in Workers, CountAttempt(w) PROVE row' \in [Deliveries -> Rows]
    <3>1. /\ row' = [row EXCEPT ![Item(w)].attempts = worker[w].attempts + 1]
          /\ worker[w].attempts + 1 \in Nat /\ Item(w) \in Deliveries
      BY <2>4, <1>2 DEF CountAttempt
    <3>2. QED
      BY <3>1, <2>2
  <2>5. ASSUME NEW w \in Workers, RecordSent(w) \/ MarkFailed(w)
        PROVE  row' \in [Deliveries -> Rows]
    BY <2>5, <1>2, <2>1 DEF RecordSent, MarkFailed
  <2>6. QED
    BY <2>3, <2>4, <2>5, WritesRow
<1>5. enqueuer' \in Enqueuers
  BY MovesEnqueuer DEF Enqueuers, CreateRow, EnqueueRow, EnqueuerDies
<1>6. mailed' \in [Deliveries -> Nat] /\ now' \in Nat
  BY <1>2, SendsMail, PassesTime DEF SendMessage, Tick
<1>7. faults' \in 0..MaxFaults
  BY CountsFaults DEF Faulty
<1>8. doubtful' \subseteq Deliveries /\ doubled' \subseteq Deliveries
  BY <1>2, <1>3, Endangers DEF RecordThrows, Mailing, Requeued, WorkerDies, LoseLock
<1>9. QED
  BY <1>1, <1>4, <1>5, <1>6, <1>7, <1>8 DEF QInv, Counted

LEMMA TypeInit == Init => TInv
<1> SUFFICES ASSUME Init PROVE TInv
  OBVIOUS
<1>1. /\ jobs \in [JobIds -> Jobs] /\ worker \in [Workers -> Processes]
      /\ Owned /\ Counted
  BY NoJobType, IdleType DEF Init, Owned, Counted
<1>2. row \in [Deliveries -> Rows] /\ enqueuer \in Enqueuers
  BY AnyDeliveryType DEF Init, Rows, Enqueuers
<1>3. QED
  BY <1>1, <1>2 DEF Init, TInv, TypeOK, Counted

LEMMA TypeStutter == ASSUME TInv, UNCHANGED vars PROVE TInv'
  BY DEF TInv, TypeOK, Owned, Counted, At, Item, vars, history

\* Every reachable state is well typed, whatever fails: a job that lives has an
\* attempt left, and is owned by the worker that processes it or by nobody.
THEOREM TypeCorrect == Spec => []TypeOK
<1>1. TInv /\ [Next]_vars => TInv'
  BY TypeNext, TypeStutter
<1>2. TInv => TypeOK
  BY DEF TInv
<1>3. QED
  BY TypeInit, <1>1, <1>2, PTL DEF Spec

LEMMA TypeInvariant == Spec => []TInv
<1>1. TInv /\ [Next]_vars => TInv'
  BY TypeNext, TypeStutter
<1>2. QED
  BY TypeInit, <1>1, PTL DEF Spec

-----------------------------------------------------------------------------
(* What the steps do to the jobs, without their counters. *)

LEMMA OwnJob ==
  ASSUME TInv, NEW w \in Workers
  PROVE  /\ worker[w].job \in JobIds /\ Item(w) \in Deliveries
         /\ \A j \in JobIds : jobs[j].owner = w =>
              /\ j = worker[w].job /\ Owns(w) /\ ~At(w, "idle")
              /\ jobs[j].state = "active" /\ jobs[j].delivery = Item(w)
  BY DEF TInv, TypeOK, Processes, Owned, Owns, Item

LEMMA ThrownEffect ==
  ASSUME TInv, NEW w \in Workers, MarkFailed(w) \/ ProcessThrows(w),
         NEW j \in JobIds
  PROVE  /\ jobs[j].owner # w => jobs'[j] = jobs[j]
         /\ jobs[j].owner = w =>
              /\ jobs'[j].state \in {"failed", "waiting"}
              /\ jobs'[j].delivery = jobs[j].delivery /\ jobs'[j].owner = NoWorker
<1>1. jobs' = IF Owns(w) THEN Thrown(worker[w].job) ELSE jobs
  BY DEF MarkFailed, ProcessThrows
<1>2. CASE ~Owns(w)
  BY <1>1, <1>2, OwnJob
<1>3. CASE Owns(w)
  <2>1. worker[w].job \in JobIds /\ jobs[worker[w].job].owner = w
    BY <1>3, OwnJob DEF Owns
  <2>2. jobs[worker[w].job].state = "active"
    BY <2>1, OwnJob
  <2>3. PICK n \in Jobs :
          /\ Thrown(worker[w].job) = [jobs EXCEPT ![worker[w].job] = n]
          /\ n.state \in {"failed", "waiting"}
          /\ n.delivery = jobs[worker[w].job].delivery /\ n.owner = NoWorker
    BY <2>1, <2>2, ThrownType
  <2>4. QED
    BY <1>1, <1>3, <2>1, <2>3, OwnJob DEF TInv, TypeOK
<1>4. QED
  BY <1>2, <1>3

LEMMA FinishEffect ==
  ASSUME TInv, NEW w \in Workers, Finish(w), NEW j \in JobIds
  PROVE  /\ jobs[j].owner # w => jobs'[j] = jobs[j]
         /\ jobs[j].owner = w => jobs'[j].state = "none"
  BY OwnJob, NoJobType DEF Finish, Owns, TInv, TypeOK

LEMMA DiesEffect ==
  ASSUME TInv, NEW w \in Workers, WorkerDies(w), NEW j \in JobIds
  PROVE  /\ jobs[j].owner # w => jobs'[j] = jobs[j]
         /\ jobs[j].owner = w =>
              /\ jobs'[j].state = "active"
              /\ jobs'[j].delivery = jobs[j].delivery /\ jobs'[j].owner = NoWorker
  BY OwnJob DEF WorkerDies, Owns, TInv, TypeOK, Jobs

LEMMA StalledEffect ==
  ASSUME TInv, NEW j \in JobIds, RecoverStalled(j) \/ LoseLock(j), NEW i \in JobIds
  PROVE  /\ i # j => jobs'[i] = jobs[i]
         /\ i = j => /\ jobs[i].state = "active"
                     /\ jobs'[i].state \in {"failed", "waiting"}
                     /\ jobs'[i].delivery = jobs[i].delivery
                     /\ jobs'[i].owner = NoWorker
<1>1. jobs' = Stalled(j) /\ jobs[j].state = "active"
  BY DEF RecoverStalled, LoseLock
<1>2. PICK n \in Jobs :
        /\ Stalled(j) = [jobs EXCEPT ![j] = n]
        /\ n.state \in {"failed", "waiting"}
        /\ n.delivery = jobs[j].delivery /\ n.owner = NoWorker
  BY <1>1, StalledType
<1>3. QED
  BY <1>1, <1>2 DEF TInv, TypeOK

LEMMA AddEffect ==
  ASSUME TInv, NEW d \in Deliveries, AddJob(d)
  PROVE  \E j \in JobIds :
           /\ jobs[j].state = "none" /\ jobs[j].owner = NoWorker
           /\ jobs'[j].state = "waiting" /\ jobs'[j].delivery = d
           /\ jobs'[j].owner = NoWorker
           /\ \A i \in JobIds \ {j} : jobs'[i] = jobs[i]
<1>1. PICK j \in JobIds : /\ jobs[j].state = "none" /\ jobs[j].owner = NoWorker
                          /\ jobs' = [jobs EXCEPT ![j] = NewJob(d)]
  BY AddJobType
<1>2. QED
  BY <1>1, NewJobType DEF TInv, TypeOK

LEMMA TakeEffect ==
  ASSUME TInv, NEW w \in Workers, NEW j \in JobIds, Take(w, j), NEW i \in JobIds
  PROVE  /\ i # j => jobs'[i] = jobs[i] /\ jobs[i].owner # w
         /\ jobs[j].state = "waiting" /\ jobs[j].owner = NoWorker
         /\ jobs'[j].state = "active" /\ jobs'[j].owner = w
         /\ jobs'[j].delivery = jobs[j].delivery
         /\ worker'[w].pc = "read" /\ worker'[w].job = j
         /\ worker'[w].item = jobs[j].delivery
         /\ \A v \in Workers \ {w} : worker'[v] = worker[v]
  BY OwnJob DEF Take, TInv, TypeOK, Jobs, Owned

\* The steps of a worker that keeps its job: where it can go.
KeepsJob(w) ==
  \/ ReadItem(w) \/ CountAttempt(w) \/ SendMessage(w) \/ SendThrows(w)
  \/ RecordSent(w) \/ RecordThrows(w)

LEMMA KeepsEffect ==
  ASSUME TInv, NEW w \in Workers, KeepsJob(w)
  PROVE  /\ UNCHANGED jobs /\ ~At(w, "idle")
         /\ worker'[w].pc # "idle" /\ worker'[w].job = worker[w].job
         /\ worker'[w].item = Item(w)
         /\ \A v \in Workers \ {w} : worker'[v] = worker[v]
  BY DEF KeepsJob, ReadItem, CountAttempt, SendMessage, SendThrows, RecordSent,
     RecordThrows, Goto, At, Item, TInv, TypeOK, Processes

LEMMA RequeueEffect ==
  ASSUME TInv, NEW w \in Workers, Requeue(w)
  PROVE  /\ At(w, "requeue") /\ AddJob(Item(w)) /\ Item(w) \in Deliveries
         /\ worker'[w].pc = "finish" /\ worker'[w].job = worker[w].job
         /\ worker'[w].item = Item(w)
         /\ \A v \in Workers \ {w} : worker'[v] = worker[v]
  BY OwnJob DEF Requeue, Goto, At, Item, TInv, TypeOK, Processes

Leaves(w) == MarkFailed(w) \/ ProcessThrows(w) \/ Finish(w) \/ WorkerDies(w)

LEMMA LeavesEffect ==
  ASSUME TInv, NEW w \in Workers, Leaves(w)
  PROVE  /\ ~At(w, "idle") /\ worker'[w].pc = "idle"
         /\ \A v \in Workers \ {w} : worker'[v] = worker[v]
  BY IdleType DEF Leaves, MarkFailed, ProcessThrows, Finish, WorkerDies, At, TInv, TypeOK

\* Every step is one of these, or leaves jobs and workers alone.
LEMMA StepKinds ==
  ASSUME Next
  PROVE  \/ EnqueueRow
         \/ \E w \in Workers, j \in JobIds : Take(w, j)
         \/ \E w \in Workers : KeepsJob(w) \/ Requeue(w) \/ Leaves(w)
         \/ \E j \in JobIds : RecoverStalled(j) \/ LoseLock(j)
         \/ UNCHANGED <<jobs, worker>>
  BY DEF Next, Enqueue, Process, KeepsJob, Leaves, CreateRow, EnqueuerDies, Tick

-----------------------------------------------------------------------------
(* A row is written before it has a job, and once. *)

Begun(d) == row[d].status # "NONE" /\ ~(enqueuer.pc = "add" /\ enqueuer.current = d)

Fresh ==
  /\ enqueuer.pc \in {"create", "add"} =>
       \A d \in enqueuer.left : row[d].status = "NONE"
  /\ enqueuer.pc = "add" => row[enqueuer.current].status # "NONE"
  /\ \A j \in JobIds : jobs[j].state # "none" => Begun(jobs[j].delivery)
  /\ \A w \in Workers : ~At(w, "idle") => Begun(Item(w))

BegunNext(d) ==
  row'[d].status # "NONE" /\ ~(enqueuer'.pc = "add" /\ enqueuer'.current = d)

\* What is begun stays begun, and a row is written when there was none.
LEMMA StatusStep ==
  ASSUME TInv, Fresh, Next, NEW d \in Deliveries
  PROVE  \/ UNCHANGED row[d].status
         \/ /\ CreateRow(d) /\ row[d].status = "NONE" /\ row'[d].status = "PENDING"
         \/ \E w \in Workers :
              /\ Item(w) = d /\ ~At(w, "idle")
              /\ \/ RecordSent(w) /\ row'[d].status = "SENT"
                 \/ MarkFailed(w) /\ row'[d].status = "FAILED"
<1> USE DEF TInv, TypeOK, Rows
<1>1. ASSUME NEW c \in Deliveries, CreateRow(c), c # d
      PROVE  UNCHANGED row[d].status
  BY <1>1 DEF CreateRow
<1>2. CASE CreateRow(d)
  BY <1>2 DEF CreateRow, Fresh
<1>3. ASSUME NEW w \in Workers, CountAttempt(w) PROVE UNCHANGED row[d].status
  BY <1>3, OwnJob DEF CountAttempt
<1>4. ASSUME NEW w \in Workers, RecordSent(w) \/ MarkFailed(w)
      PROVE  \/ UNCHANGED row[d].status
             \/ /\ Item(w) = d /\ ~At(w, "idle")
                /\ \/ RecordSent(w) /\ row'[d].status = "SENT"
                   \/ MarkFailed(w) /\ row'[d].status = "FAILED"
  BY <1>4, OwnJob DEF RecordSent, MarkFailed, At
<1>5. QED
  BY <1>1, <1>2, <1>3, <1>4, WritesRow

LEMMA EnqueuerStep ==
  ASSUME TInv, Next
  PROVE  \/ UNCHANGED enqueuer
         \/ /\ enqueuer'.pc = "dead" /\ enqueuer'.current = enqueuer.current
         \/ /\ EnqueueRow /\ enqueuer.pc = "add" /\ enqueuer'.pc \in {"idle", "create"}
            /\ enqueuer'.left = enqueuer.left
         \/ /\ enqueuer.pc = "create" /\ enqueuer'.pc = "add"
            /\ enqueuer'.current \in enqueuer.left
            /\ enqueuer'.left = enqueuer.left \ {enqueuer'.current}
            /\ CreateRow(enqueuer'.current)
<1>1. enqueuer \in Enqueuers
  BY DEF TInv, TypeOK
<1>2. QED
  BY <1>1, MovesEnqueuer DEF Enqueuers, CreateRow, EnqueueRow, EnqueuerDies

LEMMA BegunStays ==
  ASSUME TInv, Fresh, Next, NEW d \in Deliveries, Begun(d)
  PROVE  BegunNext(d)
<1>1. row'[d].status # "NONE"
  BY StatusStep DEF Begun
<1>2. ~(enqueuer'.pc = "add" /\ enqueuer'.current = d)
  BY EnqueuerStep DEF Begun, Fresh
<1>3. QED
  BY <1>1, <1>2 DEF BegunNext

\* A job is there already, or is added for a delivery that is begun.
LEMMA JobsBegun ==
  ASSUME TInv, Fresh, Next, NEW j \in JobIds, jobs'[j].state # "none"
  PROVE  BegunNext(jobs'[j].delivery)
<1>t. \A i \in JobIds : jobs[i].delivery \in Deliveries
  BY DEF TInv, TypeOK, Jobs
<1>o. CASE jobs[j].state # "none" /\ jobs'[j].delivery = jobs[j].delivery
  BY <1>o, <1>t, BegunStays DEF Fresh
<1>1. CASE EnqueueRow
  <2>1. enqueuer.current \in Deliveries /\ AddJob(enqueuer.current)
    BY <1>1 DEF EnqueueRow, TInv, TypeOK, Enqueuers
  <2>2. BegunNext(enqueuer.current)
    BY <1>1 DEF EnqueueRow, BegunNext, Fresh, TInv, TypeOK, Enqueuers
  <2>3. QED
    BY <2>1, <2>2, AddEffect, <1>o
<1>2. ASSUME NEW w \in Workers, NEW i \in JobIds, Take(w, i)
      PROVE  jobs[j].state # "none" /\ jobs'[j].delivery = jobs[j].delivery
  BY <1>2, TakeEffect
<1>3. ASSUME NEW w \in Workers, KeepsJob(w)
      PROVE  jobs[j].state # "none" /\ jobs'[j].delivery = jobs[j].delivery
  BY <1>3, KeepsEffect
<1>4. ASSUME NEW w \in Workers, Requeue(w)
      PROVE  \/ jobs[j].state # "none" /\ jobs'[j].delivery = jobs[j].delivery
             \/ BegunNext(jobs'[j].delivery)
  <2>1. ~At(w, "idle") /\ Begun(Item(w)) /\ Item(w) \in Deliveries
    BY <1>4, RequeueEffect DEF Fresh, At
  <2>2. QED
    BY <1>4, <2>1, RequeueEffect, AddEffect, BegunStays
<1>5. ASSUME NEW w \in Workers, Leaves(w)
      PROVE  jobs[j].state # "none" /\ jobs'[j].delivery = jobs[j].delivery
  BY <1>5, OwnJob, ThrownEffect, FinishEffect, DiesEffect DEF Leaves
<1>6. ASSUME NEW i \in JobIds, RecoverStalled(i) \/ LoseLock(i)
      PROVE  jobs[j].state # "none" /\ jobs'[j].delivery = jobs[j].delivery
  BY <1>6, StalledEffect
<1>7. QED
  BY <1>o, <1>1, <1>2, <1>3, <1>4, <1>5, <1>6, StepKinds

LEMMA FreshNext == ASSUME TInv, Fresh, Next PROVE Fresh'
<1>1. enqueuer'.pc \in {"create", "add"} =>
        \A d \in enqueuer'.left : row'[d].status = "NONE"
  <2> SUFFICES ASSUME enqueuer'.pc \in {"create", "add"}, NEW d \in enqueuer'.left
               PROVE  row'[d].status = "NONE"
    OBVIOUS
  <2>1. enqueuer.pc \in {"create", "add"} /\ d \in enqueuer.left /\ ~CreateRow(d)
    BY EnqueuerStep DEF CreateRow
  <2>2. d \in Deliveries /\ row[d].status = "NONE"
    BY <2>1 DEF Fresh, TInv, TypeOK, Enqueuers
  <2>3. QED
    BY <2>1, <2>2, StatusStep DEF Fresh, Begun
<1>2. enqueuer'.pc = "add" => row'[enqueuer'.current].status # "NONE"
  <2> SUFFICES ASSUME enqueuer'.pc = "add" PROVE row'[enqueuer'.current].status # "NONE"
    OBVIOUS
  <2>1. CASE UNCHANGED enqueuer
    <3>1. enqueuer.current \in Deliveries
      BY DEF TInv, TypeOK, Enqueuers
    <3>2. QED
      BY <2>1, <3>1, StatusStep DEF Fresh
  <2>2. CASE CreateRow(enqueuer'.current) /\ enqueuer'.current \in enqueuer.left
    BY <2>2 DEF CreateRow, TInv, TypeOK, Enqueuers, Rows
  <2>3. QED
    BY <2>1, <2>2, EnqueuerStep
<1>3. \A j \in JobIds : jobs'[j].state # "none" => BegunNext(jobs'[j].delivery)
  BY JobsBegun
<1>4. ASSUME NEW w \in Workers, worker'[w].pc # "idle"
      PROVE  BegunNext(worker'[w].item)
  <2>t. Item(w) \in Deliveries /\ \A j \in JobIds : jobs[j].delivery \in Deliveries
    BY OwnJob DEF TInv, TypeOK, Jobs
  <2>1. ASSUME NEW j \in JobIds, Take(w, j) PROVE BegunNext(worker'[w].item)
    <3>1. Begun(jobs[j].delivery) /\ worker'[w].item = jobs[j].delivery
      BY <2>1, TakeEffect DEF Fresh
    <3>2. BegunNext(jobs[j].delivery)
      BY <3>1, <2>t, BegunStays
    <3>3. QED
      BY <3>1, <3>2
  <2>2. CASE ~At(w, "idle") /\ worker'[w].item = Item(w)
    <3>1. Begun(Item(w)) 
      BY <2>2 DEF Fresh
    <3>2. BegunNext(Item(w))
      BY <3>1, <2>t, BegunStays
    <3>3. QED
      BY <2>2, <3>2
  <2>3. CASE worker'[w] = worker[w]
    BY <2>2, <2>3, <1>4 DEF At, Item
  <2>4. QED
    BY <1>4, <2>1, <2>2, <2>3, StepKinds, TakeEffect, KeepsEffect, RequeueEffect,
       LeavesEffect DEF At, EnqueueRow, RecoverStalled, LoseLock
<1>5. QED
  BY <1>1, <1>2, <1>3, <1>4 DEF Fresh, At, Item, Begun, BegunNext

-----------------------------------------------------------------------------
(* One run of a delivery at a time, unless it is doubled. *)

\* A job whose worker is not about to complete it.
Kept(j) ==
  /\ jobs[j].state # "none"
  /\ jobs[j].owner # NoWorker => ~At(jobs[j].owner, "finish")

Open(j) == Kept(j) /\ jobs[j].state \in {"waiting", "active"}

Alone ==
  /\ \A w \in Workers : (~At(w, "idle") /\ Item(w) \notin doubled) => Owns(w)
  /\ \A i, j \in JobIds :
       (/\ Open(i) /\ Open(j) /\ jobs[i].delivery = jobs[j].delivery
        /\ jobs[i].delivery \notin doubled) => i = j

LEMMA DoubledGrows == Next => doubled \subseteq doubled'
  BY Endangers DEF RecordThrows, WorkerDies, LoseLock

\* Busy workers of a delivery own its open job, so there is one of them.
LEMMA OneRunner ==
  ASSUME TInv, Alone, NEW v \in Workers, NEW w \in Workers,
         Item(v) = Item(w), Item(v) \notin doubled,
         ~At(v, "idle"), ~At(v, "finish"), ~At(w, "idle"), ~At(w, "finish")
  PROVE  v = w
<1>1. Owns(v) /\ Owns(w)
  BY DEF Alone
<1>2. Open(worker[v].job) /\ Open(worker[w].job)
  BY <1>1, OwnJob DEF Open, Kept, Owns
<1>3. worker[v].job = worker[w].job
  BY <1>1, <1>2, OwnJob DEF Alone, Owns
<1>4. QED
  BY <1>1, <1>3 DEF Owns

OwnsNext(w) == jobs'[worker'[w].job].owner = w
OpenNext(j) ==
  /\ jobs'[j].state \in {"waiting", "active"}
  /\ jobs'[j].owner # NoWorker => worker'[jobs'[j].owner].pc # "finish"

\* Whoever is processing a delivery that is not doubled keeps owning its job.
LEMMA OwnsStays ==
  ASSUME TInv, Alone, Next, NEW w \in Workers, worker'[w].pc # "idle",
         worker'[w].item \notin doubled'
  PROVE  OwnsNext(w)
<1>d. doubled \subseteq doubled'
  BY DoubledGrows
<1>o. ~At(w, "idle") /\ worker'[w].item = Item(w) => Owns(w)
  BY <1>d DEF Alone
<1>j. worker[w].job \in JobIds
  BY OwnJob
<1>1. CASE EnqueueRow
  <2>1. enqueuer.current \in Deliveries /\ AddJob(enqueuer.current) /\ UNCHANGED worker
    BY <1>1 DEF EnqueueRow, TInv, TypeOK, Enqueuers
  <2>2. Owns(w)
    BY <1>o, <2>1 DEF At, Item
  <2>3. QED
    BY <1>j, <2>1, <2>2, AddEffect DEF Owns, OwnsNext, TInv, TypeOK
<1>2. ASSUME NEW v \in Workers, NEW j \in JobIds, Take(v, j) PROVE OwnsNext(w)
  <2>1. CASE v = w
    BY <1>2, <2>1, TakeEffect DEF OwnsNext
  <2>2. CASE v # w
    BY <1>o, <1>j, <1>2, <2>2, TakeEffect DEF OwnsNext, Owns, At, Item, TInv, TypeOK
  <2>3. QED
    BY <2>1, <2>2
<1>3. ASSUME NEW v \in Workers, KeepsJob(v) PROVE OwnsNext(w)
  BY <1>o, <1>j, <1>3, KeepsEffect DEF OwnsNext, Owns, At, Item
<1>4. ASSUME NEW v \in Workers, Requeue(v) PROVE OwnsNext(w)
  <2>1. Owns(w) /\ worker'[w].job = worker[w].job
    BY <1>o, <1>4, RequeueEffect DEF At, Item
  <2>2. QED
    BY <1>j, <1>4, <2>1, RequeueEffect, AddEffect DEF Owns, OwnsNext, TInv, TypeOK
<1>5. ASSUME NEW v \in Workers, Leaves(v) PROVE OwnsNext(w)
  <2>1. v # w /\ worker'[w] = worker[w]
    BY <1>5, LeavesEffect
  <2>2. Owns(w)
    BY <1>o, <2>1 DEF At, Item
  <2>3. QED
    BY <1>j, <1>5, <2>1, <2>2, ThrownEffect, FinishEffect, DiesEffect
       DEF Leaves, Owns, OwnsNext
<1>6. ASSUME NEW i \in JobIds, RecoverStalled(i) PROVE OwnsNext(w)
  <2>1. jobs[i].owner = NoWorker /\ UNCHANGED worker
    BY <1>6 DEF RecoverStalled
  <2>2. Owns(w)
    BY <1>o, <2>1 DEF At, Item
  <2>3. QED
    BY <1>j, <1>6, <2>1, <2>2, StalledEffect DEF Owns, OwnsNext
<1>7. ASSUME NEW i \in JobIds, LoseLock(i) PROVE OwnsNext(w)
  <2>1. UNCHANGED worker /\ jobs[i].delivery \in doubled'
    BY <1>7 DEF LoseLock
  <2>2. Owns(w)
    BY <1>o, <2>1 DEF At, Item
  <2>3. i # worker[w].job
    BY <2>1, <2>2, OwnJob DEF Owns, Item
  <2>4. QED
    BY <1>j, <1>7, <2>1, <2>2, <2>3, StalledEffect DEF Owns, OwnsNext
<1>8. CASE UNCHANGED <<jobs, worker>>
  BY <1>o, <1>8 DEF Owns, OwnsNext, At, Item
<1>9. QED
  BY <1>1, <1>2, <1>3, <1>4, <1>5, <1>6, <1>7, <1>8, StepKinds

\* A job is open after a step because it was before, or because it is new, or
\* because its worker died while completing it.
LEMMA OpenFrom ==
  ASSUME TInv, Next, NEW j \in JobIds, OpenNext(j)
  PROVE  \/ Open(j) /\ jobs'[j].delivery = jobs[j].delivery
         \/ /\ jobs[j].state = "none"
            /\ \A i \in JobIds \ {j} : jobs'[i] = jobs[i]
            /\ \/ EnqueueRow /\ jobs'[j].delivery = enqueuer.current
               \/ \E w \in Workers : Requeue(w) /\ jobs'[j].delivery = Item(w)
         \/ \E w \in Workers :
              /\ WorkerDies(w) /\ At(w, "finish") /\ jobs[j].owner = w
              /\ jobs'[j].delivery = jobs[j].delivery
         \/ jobs'[j].delivery \in doubled'
<1>t. \A i \in JobIds : jobs[i].owner \in Workers \cup {NoWorker}
  BY DEF TInv, TypeOK, Jobs
<1>s. CASE /\ jobs'[j] = jobs[j]
           /\ jobs[j].owner \in Workers =>
                worker'[jobs[j].owner].pc = "finish" \/ worker'[jobs[j].owner] = worker[jobs[j].owner]
  BY <1>s, <1>t DEF Open, Kept, OpenNext, At
<1>1. CASE EnqueueRow
  <2>1. enqueuer.current \in Deliveries /\ AddJob(enqueuer.current) /\ UNCHANGED worker
    BY <1>1 DEF EnqueueRow, TInv, TypeOK, Enqueuers
  <2>2. QED
    BY <1>1, <1>s, <2>1, AddEffect
<1>2. ASSUME NEW w \in Workers, NEW i \in JobIds, Take(w, i)
      PROVE  Open(j) /\ jobs'[j].delivery = jobs[j].delivery
  <2>1. CASE i = j
    BY <1>2, <2>1, TakeEffect DEF Open, Kept
  <2>2. CASE i # j
    <3>1. jobs'[j] = jobs[j] /\ jobs[j].owner # w
      BY <1>2, <2>2, TakeEffect
    <3>2. jobs[j].owner \in Workers => worker'[jobs[j].owner] = worker[jobs[j].owner]
      BY <1>2, <3>1, TakeEffect
    <3>3. QED
      BY <1>t, <3>1, <3>2 DEF Open, Kept, OpenNext, At
  <2>3. QED
    BY <2>1, <2>2
<1>3. ASSUME NEW w \in Workers, KeepsJob(w)
      PROVE  Open(j) /\ jobs'[j].delivery = jobs[j].delivery
  <2>1. At(w, "finish") => FALSE
    BY <1>3 DEF KeepsJob, ReadItem, CountAttempt, SendMessage, SendThrows,
       RecordSent, RecordThrows, At
  <2>2. QED
    BY <1>3, <1>t, <2>1, KeepsEffect DEF Open, Kept, OpenNext, At
<1>4. ASSUME NEW w \in Workers, Requeue(w)
      PROVE  \/ Open(j) /\ jobs'[j].delivery = jobs[j].delivery
             \/ /\ jobs[j].state = "none" /\ jobs'[j].delivery = Item(w)
                /\ \A i \in JobIds \ {j} : jobs'[i] = jobs[i]
  <2>1. PICK i \in JobIds :
          /\ jobs[i].state = "none" /\ jobs'[i].delivery = Item(w)
          /\ \A k \in JobIds \ {i} : jobs'[k] = jobs[k]
    BY <1>4, RequeueEffect, AddEffect
  <2>2. CASE i = j
    BY <2>1, <2>2
  <2>3. CASE i # j
    <3>1. jobs'[j] = jobs[j]
      BY <2>1, <2>3
    <3>2. QED
      BY <1>4, <1>t, <3>1, RequeueEffect DEF Open, Kept, OpenNext, At
  <2>4. QED
    BY <2>2, <2>3
<1>5. ASSUME NEW w \in Workers, Leaves(w)
      PROVE  \/ Open(j) /\ jobs'[j].delivery = jobs[j].delivery
             \/ /\ WorkerDies(w) /\ At(w, "finish") /\ jobs[j].owner = w
                /\ jobs'[j].delivery = jobs[j].delivery
  <2>1. CASE jobs[j].owner # w
    <3>1. jobs'[j] = jobs[j]
      BY <1>5, <2>1, ThrownEffect, FinishEffect, DiesEffect DEF Leaves
    <3>2. QED
      BY <1>5, <1>t, <2>1, <3>1, LeavesEffect DEF Open, Kept, OpenNext, At
  <2>2. CASE jobs[j].owner = w
    <3>1. jobs[j].state = "active" /\ jobs[j].delivery = Item(w)
      BY <2>2, OwnJob
    <3>2. ~Finish(w)
      BY <2>2, FinishEffect DEF OpenNext
    <3>3. CASE MarkFailed(w) \/ ProcessThrows(w)
      <4>1. ~At(w, "finish")
        BY <3>3 DEF MarkFailed, ProcessThrows, At
      <4>2. QED
        BY <2>2, <3>1, <3>3, <4>1, ThrownEffect DEF Open, Kept
    <3>4. CASE WorkerDies(w)
      BY <2>2, <3>1, <3>4, DiesEffect DEF Open, Kept
    <3>5. QED
      BY <1>5, <3>2, <3>3, <3>4 DEF Leaves
  <2>3. QED
    BY <2>1, <2>2
<1>6. ASSUME NEW i \in JobIds, RecoverStalled(i) \/ LoseLock(i)
      PROVE  \/ Open(j) /\ jobs'[j].delivery = jobs[j].delivery
             \/ jobs'[j].delivery \in doubled'
  <2>1. UNCHANGED worker
    BY <1>6 DEF RecoverStalled, LoseLock
  <2>2. CASE i # j
    BY <1>6, <2>1, <2>2, StalledEffect DEF Open, Kept, OpenNext, At
  <2>3. CASE i = j /\ RecoverStalled(i)
    BY <2>3, StalledEffect DEF RecoverStalled, Open, Kept
  <2>4. CASE i = j /\ LoseLock(i)
    BY <2>4, StalledEffect DEF LoseLock
  <2>5. QED
    BY <1>6, <2>2, <2>3, <2>4
<1>8. CASE UNCHANGED <<jobs, worker>>
  BY <1>8 DEF Open, Kept, OpenNext, At
<1>9. QED
  BY <1>1, <1>2, <1>3, <1>4, <1>5, <1>6, <1>8, StepKinds

LEMMA AloneNext == ASSUME TInv, Fresh, Alone, Next PROVE Alone'
<1>1. \A w \in Workers : (worker'[w].pc # "idle" /\ worker'[w].item \notin doubled') => OwnsNext(w)
  BY OwnsStays
<1>2. ASSUME NEW i \in JobIds, NEW j \in JobIds, OpenNext(i), OpenNext(j),
             jobs'[i].delivery = jobs'[j].delivery, jobs'[i].delivery \notin doubled'
      PROVE  i = j
  <2> SUFFICES ASSUME i # j PROVE FALSE
    OBVIOUS
  <2> DEFINE WasOpen(k)  == Open(k) /\ jobs'[k].delivery = jobs[k].delivery
             IsAdded(k)  == /\ jobs[k].state = "none"
                            /\ \A l \in JobIds \ {k} : jobs'[l] = jobs[l]
                            /\ \/ EnqueueRow /\ jobs'[k].delivery = enqueuer.current
                               \/ \E w \in Workers : Requeue(w) /\ jobs'[k].delivery = Item(w)
             Crashed(k)  == \E w \in Workers :
                              /\ WorkerDies(w) /\ At(w, "finish") /\ jobs[k].owner = w
                              /\ jobs'[k].delivery = jobs[k].delivery
  <2>d. doubled \subseteq doubled'
    BY DoubledGrows
  <2>k. \A k \in {i, j} : WasOpen(k) \/ IsAdded(k) \/ Crashed(k)
    BY <1>2, OpenFrom
  <2>a. ASSUME NEW k \in JobIds, NEW l \in JobIds, k # l, IsAdded(k), OpenNext(k), OpenNext(l),
               jobs'[k].delivery = jobs'[l].delivery, jobs'[k].delivery \notin doubled'
        PROVE  FALSE
    <3>1. jobs'[l] = jobs[l] /\ jobs[l].state # "none"
      BY <2>a DEF OpenNext
    <3>2. CASE EnqueueRow /\ jobs'[k].delivery = enqueuer.current
      BY <2>a, <3>1, <3>2 DEF EnqueueRow, Fresh, Begun
    <3>3. ASSUME NEW w \in Workers, Requeue(w), jobs'[k].delivery = Item(w) PROVE FALSE
      <4>1. /\ At(w, "requeue") /\ Item(w) \notin doubled
            /\ worker'[w].pc = "finish" /\ worker'[w].job = worker[w].job
        BY <2>a, <2>d, <3>3, RequeueEffect
      <4>2. Owns(w) /\ Open(worker[w].job)
        BY <4>1, OwnJob DEF Alone, At, Owns, Open, Kept
      <4>3. l # worker[w].job
        BY <2>a, <3>1, <4>1, <4>2 DEF OpenNext, Owns
      <4>4. Open(l)
        <5>1. jobs[l].owner # NoWorker => jobs[l].owner \in Workers \ {w}
          BY <4>3, OwnJob DEF TInv, TypeOK, Jobs
        <5>2. jobs[l].owner # NoWorker => worker'[jobs[l].owner] = worker[jobs[l].owner]
          BY <3>3, <5>1, RequeueEffect
        <5>3. QED
          BY <2>a, <3>1, <5>2 DEF Open, Kept, OpenNext, At
      <4>5. jobs[l].delivery = Item(w) /\ jobs[worker[w].job].delivery = Item(w)
        BY <2>a, <3>1, <3>3, <4>2, OwnJob DEF Owns
      <4>6. QED
        BY <4>1, <4>2, <4>3, <4>4, <4>5, OwnJob DEF Alone
    <3>4. QED
      BY <2>a, <3>2, <3>3
  <2>c. ASSUME NEW k \in JobIds, NEW l \in JobIds, k # l, Crashed(k), OpenNext(l),
               jobs'[k].delivery = jobs'[l].delivery, jobs'[k].delivery \notin doubled'
        PROVE  FALSE
    <3>1. PICK w \in Workers : /\ WorkerDies(w) /\ jobs[k].owner = w
                               /\ jobs'[k].delivery = jobs[k].delivery
      BY <2>c
    <3>2. k = worker[w].job /\ jobs[k].delivery = Item(w) /\ jobs[l].owner # w
      BY <2>c, <3>1, OwnJob
    <3>3. jobs'[l] = jobs[l]
      BY <3>1, <3>2, DiesEffect
    <3>4. Item(w) \in Requeued(w)
      <4>1. l \in JobIds \ {worker[w].job} /\ jobs[l].delivery = Item(w)
        BY <2>c, <3>1, <3>2, <3>3
      <4>2. jobs[l].state \in {"waiting", "active"}
        BY <2>c, <3>3 DEF OpenNext
      <4>3. QED
        BY <4>1, <4>2, OwnJob DEF Requeued
    <3>5. QED
      BY <2>c, <3>1, <3>2, <3>4 DEF WorkerDies
  <2>o. ASSUME WasOpen(i), WasOpen(j) PROVE FALSE
    BY <1>2, <2>d, <2>o DEF Alone
  <2> HIDE DEF WasOpen, IsAdded, Crashed
  <2>1. QED
    BY <1>2, <2>k, <2>a, <2>c, <2>o
<1>3. QED
  BY <1>1, <1>2 DEF Alone, OwnsNext, OpenNext, Open, Kept, Owns, At, Item

-----------------------------------------------------------------------------
(* Messages. *)

\* A message is recorded as sent after the provider accepted it, and goes out
\* when it is due.
MailInv ==
  /\ SentMeansMailed
  /\ \A w \in Workers : At(w, "record") => mailed[Item(w)] > 0
  /\ \A w \in Workers : worker[w].pc \in {"count", "send"} => Due(Item(w))

\* What a delivery that is not risky has been through.
Sole ==
  \A d \in Deliveries \ (doubtful \cup doubled) :
    /\ mailed[d] <= 1
    /\ mailed[d] > 0 =>
         \/ row[d].status = "SENT"
         \/ \E w \in Workers : At(w, "record") /\ Item(w) = d
    /\ \A w \in Workers :
         (Item(w) = d /\ worker[w].pc \in {"count", "send", "fail"}) =>
           row[d].status # "SENT" /\ mailed[d] = 0

\* Where a worker can come to by a step.
LEMMA WorkerStep ==
  ASSUME TInv, Next, NEW w \in Workers
  PROVE  \/ worker'[w] = worker[w]
         \/ worker'[w].pc \in {"idle", "read", "finish", "requeue"}
         \/ worker'[w].item = Item(w) /\
            \/ At(w, "read") /\ ReadItem(w) /\ worker'[w].pc = "count"
            \/ CountAttempt(w) /\ worker'[w].pc = "send"
            \/ SendMessage(w) /\ worker'[w].pc = "record"
            \/ SendThrows(w) /\ worker'[w].pc = "fail"
            \/ RecordThrows(w) /\ worker'[w].pc = "fail"
<1>t. worker \in [Workers -> Processes]
  BY DEF TInv, TypeOK
<1>1. ASSUME KeepsJob(w)
      PROVE  \/ worker'[w].pc \in {"idle", "read", "finish", "requeue"}
             \/ worker'[w].item = Item(w) /\
                \/ At(w, "read") /\ ReadItem(w) /\ worker'[w].pc = "count"
                \/ CountAttempt(w) /\ worker'[w].pc = "send"
                \/ SendMessage(w) /\ worker'[w].pc = "record"
                \/ SendThrows(w) /\ worker'[w].pc = "fail"
                \/ RecordThrows(w) /\ worker'[w].pc = "fail"
  <2>1. worker'[w].item = Item(w)
    BY <1>1, KeepsEffect
  <2>2. CASE ReadItem(w)
    BY <1>t, <2>1, <2>2 DEF ReadItem, At, Processes
  <2>3. CASE CountAttempt(w) \/ SendMessage(w) \/ SendThrows(w) \/ RecordSent(w) \/ RecordThrows(w)
    BY <1>t, <2>1, <2>3 DEF CountAttempt, SendMessage, SendThrows, RecordSent, RecordThrows,
       Goto, Processes
  <2>4. QED
    BY <1>1, <2>2, <2>3 DEF KeepsJob
<1>2. ASSUME NEW v \in Workers, v # w, KeepsJob(v) \/ Requeue(v) \/ Leaves(v)
      PROVE  worker'[w] = worker[w]
  BY <1>2, KeepsEffect, RequeueEffect, LeavesEffect
<1>3. ASSUME Requeue(w) \/ Leaves(w)
      PROVE  worker'[w].pc \in {"idle", "finish"}
  BY <1>3, RequeueEffect, LeavesEffect
<1>4. ASSUME NEW v \in Workers, NEW j \in JobIds, Take(v, j)
      PROVE  worker'[w] = worker[w] \/ worker'[w].pc = "read"
  BY <1>4, TakeEffect
<1>5. QED
  BY <1>1, <1>2, <1>3, <1>4, StepKinds DEF EnqueueRow, RecoverStalled, LoseLock

LEMMA MailStep ==
  ASSUME TInv, Next, NEW d \in Deliveries
  PROVE  \/ UNCHANGED mailed[d]
         \/ \E w \in Workers : /\ SendMessage(w) /\ Item(w) = d
                               /\ mailed'[d] = mailed[d] + 1
  BY SendsMail, OwnJob DEF SendMessage, TInv, TypeOK

LEMMA MailNext == ASSUME TInv, Fresh, MailInv, Next PROVE MailInv'
<1>t. \A d \in Deliveries : mailed[d] \in Nat /\ DeferUntil[d] \in Nat
  BY DEF TInv, TypeOK
<1>w. \A w \in Workers : Item(w) \in Deliveries
  BY OwnJob
<1>1. ASSUME NEW d \in Deliveries, mailed[d] > 0 PROVE mailed'[d] > 0
  BY <1>1, <1>t, MailStep
<1>2. ASSUME NEW d \in Deliveries, row'[d].status = "SENT" PROVE mailed'[d] > 0
  BY <1>2, <1>1, StatusStep DEF MailInv, SentMeansMailed, RecordSent
<1>3. ASSUME NEW w \in Workers, worker'[w].pc = "record" PROVE mailed'[worker'[w].item] > 0
  <2>1. CASE worker'[w] = worker[w]
    BY <1>1, <1>3, <1>w, <2>1 DEF MailInv, At, Item
  <2>2. CASE SendMessage(w) /\ worker'[w].item = Item(w)
    BY <1>t, <1>w, <2>2 DEF SendMessage, TInv, TypeOK
  <2>3. QED
    BY <1>3, <2>1, <2>2, WorkerStep
<1>4. now <= now'
  BY PassesTime DEF Tick, TInv, TypeOK
<1>5. ASSUME NEW w \in Workers, worker'[w].pc \in {"count", "send"}
      PROVE  DeferUntil[worker'[w].item] <= now'
  <2>n. now \in Nat /\ now' \in Nat
    BY TypeNext DEF TInv, TypeOK
  <2>1. CASE worker'[w] = worker[w]
    BY <1>t, <1>w, <1>4, <1>5, <2>n, <2>1 DEF MailInv, At, Item, Due
  <2>2. CASE ReadItem(w) /\ worker'[w].item = Item(w) /\ worker'[w].pc = "count"
    <3>1. Due(Item(w))
      BY <2>2 DEF ReadItem, TInv, TypeOK, Processes
    <3>2. QED
      BY <1>t, <1>w, <1>4, <2>n, <2>2, <3>1 DEF Due
  <2>3. CASE CountAttempt(w) /\ worker'[w].item = Item(w)
    BY <1>t, <1>w, <1>4, <2>n, <2>3 DEF CountAttempt, At, MailInv, Due
  <2>4. QED
    BY <1>5, <2>1, <2>2, <2>3, WorkerStep
<1>6. QED
  BY <1>2, <1>3, <1>5 DEF MailInv, SentMeansMailed, At, Item, Due

\* A delivery that becomes risky does so for good.
LEMMA RiskGrows == Next => (doubtful \cup doubled) \subseteq (doubtful' \cup doubled')
  BY Endangers DEF RecordThrows, WorkerDies, LoseLock

\* What one worker finds about a delivery that is not risky holds after the
\* steps of the others, because they do not have it.
LEMMA SoleNext == ASSUME TInv, Fresh, Alone, Sole, Next PROVE Sole'
<1> SUFFICES ASSUME NEW d \in Deliveries \ (doubtful' \cup doubled')
             PROVE  /\ mailed'[d] <= 1
                    /\ mailed'[d] > 0 =>
                         \/ row'[d].status = "SENT"
                         \/ \E w \in Workers : worker'[w].pc = "record" /\ worker'[w].item = d
                    /\ \A w \in Workers :
                         (worker'[w].item = d /\ worker'[w].pc \in {"count", "send", "fail"}) =>
                           row'[d].status # "SENT" /\ mailed'[d] = 0
  BY DEF Sole, At, Item
<1>d. d \in Deliveries \ (doubtful \cup doubled)
  BY RiskGrows
<1>t. mailed[d] \in Nat
  BY DEF TInv, TypeOK
<1>h. /\ mailed[d] <= 1
      /\ mailed[d] > 0 => \/ row[d].status = "SENT"
                          \/ \E w \in Workers : At(w, "record") /\ Item(w) = d
      /\ \A w \in Workers : (Item(w) = d /\ worker[w].pc \in {"count", "send", "fail"}) =>
           row[d].status # "SENT" /\ mailed[d] = 0
  BY <1>d DEF Sole
<1>1. ASSUME NEW w \in Workers, SendMessage(w), Item(w) = d
      PROVE  mailed[d] = 0 /\ row[d].status # "SENT"
  BY <1>1, <1>h DEF SendMessage, At
<1>2. mailed'[d] <= 1
  BY <1>1, <1>h, <1>t, MailStep
<1>3. ASSUME mailed'[d] > 0
      PROVE  \/ row'[d].status = "SENT"
             \/ \E w \in Workers : worker'[w].pc = "record" /\ worker'[w].item = d
  <2>1. ASSUME NEW w \in Workers, SendMessage(w), Item(w) = d
        PROVE  worker'[w].pc = "record" /\ worker'[w].item = d
    BY <2>1 DEF SendMessage, Goto, Item, TInv, TypeOK, Processes
  <2>2. CASE mailed[d] > 0 /\ row[d].status = "SENT"
    <3>1. ASSUME NEW w \in Workers, MarkFailed(w), Item(w) = d PROVE FALSE
      BY <1>h, <2>2, <3>1 DEF MarkFailed, At
    <3>2. QED
      BY <2>2, <3>1, StatusStep
  <2>3. ASSUME mailed[d] > 0, NEW w \in Workers, At(w, "record"), Item(w) = d
        PROVE  \/ row'[d].status = "SENT"
               \/ worker'[w].pc = "record" /\ worker'[w].item = d
    <3>1. CASE worker'[w] = worker[w]
      BY <2>3, <3>1 DEF At, Item
    <3>2. CASE RecordSent(w)
      BY <2>3, <3>2 DEF RecordSent, TInv, TypeOK, Rows
    <3>3. ~RecordThrows(w) /\ ~WorkerDies(w)
      BY <2>3 DEF RecordThrows, WorkerDies, Mailing
    <3>4. KeepsJob(w) => RecordSent(w)
      BY <2>3, <3>3 DEF KeepsJob, ReadItem, CountAttempt, SendMessage, SendThrows, At
    <3>5. ~Requeue(w) /\ ~Leaves(w) /\ \A j \in JobIds : ~Take(w, j)
      BY <2>3, <3>3 DEF Requeue, Leaves, MarkFailed, ProcessThrows, Finish, Take, At
    <3>6. RecordSent(w) \/ worker'[w] = worker[w]
      BY <3>4, <3>5, StepKinds, TakeEffect, KeepsEffect, RequeueEffect, LeavesEffect
         DEF EnqueueRow, RecoverStalled, LoseLock
    <3>7. QED
      BY <3>1, <3>2, <3>6
  <2>4. QED
    BY <1>3, <1>h, <1>t, <2>1, <2>2, <2>3, MailStep
<1>4. ASSUME NEW w \in Workers, worker'[w].item = d, worker'[w].pc \in {"count", "send", "fail"}
      PROVE  row'[d].status # "SENT" /\ mailed'[d] = 0
  <2>1. /\ Item(w) = d /\ worker[w].pc \in {"read", "count", "send", "fail"}
        /\ worker'[w].pc = "count" => At(w, "count") \/ ReadItem(w)
    <3>1. ~RecordThrows(w)
      BY <1>4, KeepsEffect DEF RecordThrows, KeepsJob
    <3>2. QED
      BY <1>4, <3>1, WorkerStep DEF CountAttempt, SendThrows, SendMessage, At, Item
  <2>2. row[d].status # "SENT" /\ mailed[d] = 0
    <3>1. CASE worker[w].pc \in {"count", "send", "fail"}
      BY <1>h, <2>1, <3>1
    <3>2. CASE At(w, "read")
      <4>1. ReadItem(w) /\ ~AlreadySent(d)
        <5>1. worker'[w] # worker[w] /\ worker'[w].pc \notin {"idle", "read", "finish", "requeue"}
          BY <1>4, <3>2 DEF At
        <5>2. ~CountAttempt(w) /\ ~SendMessage(w) /\ ~SendThrows(w) /\ ~RecordThrows(w)
          BY <3>2 DEF CountAttempt, SendMessage, SendThrows, RecordThrows, At
        <5>3. ReadItem(w) /\ worker'[w].pc = "count"
          BY <5>1, <5>2, WorkerStep
        <5>4. QED
          BY <2>1, <5>3, <1>t DEF ReadItem, At, Goto, Processes, TInv, TypeOK
      <4>2. ASSUME NEW v \in Workers, At(v, "record"), Item(v) = d PROVE FALSE
        BY <1>d, <2>1, <3>2, <4>2, OneRunner DEF At
      <4>3. QED
        BY <1>h, <1>t, <4>1, <4>2 DEF AlreadySent
    <3>3. QED
      BY <2>1, <3>1, <3>2 DEF At
  <2>3. ASSUME NEW v \in Workers, Item(v) = d, RecordSent(v) \/ SendMessage(v)
        PROVE  FALSE
    <3>1. v = w
      BY <1>d, <2>1, <2>3, OneRunner DEF RecordSent, SendMessage, At
    <3>2. QED
      BY <1>4, <2>1, <2>3, <3>1 DEF RecordSent, SendMessage, Goto, At, TInv, TypeOK, Processes
  <2>4. row'[d].status # "SENT"
    BY <2>2, <2>3, StatusStep
  <2>5. mailed'[d] = 0
    BY <2>2, <2>3, MailStep
  <2>6. QED
    BY <2>4, <2>5
<1>5. QED
  BY <1>2, <1>3, <1>4

-----------------------------------------------------------------------------
(* An unsent row is followed by a job. *)

KeptNext(j) ==
  /\ jobs'[j].state # "none"
  /\ jobs'[j].owner # NoWorker => worker'[jobs'[j].owner].pc # "finish"

Followed ==
  \A d \in Deliveries \ doubled :
    row[d].status \in {"PENDING", "FAILED"} =>
      \/ \E j \in JobIds : Kept(j) /\ jobs[j].delivery = d
      \/ enqueuer.pc \in {"add", "dead"} /\ enqueuer.current = d

\* A job that its worker is not about to complete stays, until its worker is:
\* because the row says SENT, or because there is another job.
LEMMA KeptStays ==
  ASSUME TInv, Alone, Next, NEW j \in JobIds, Kept(j), jobs[j].delivery \notin doubled'
  PROVE  \/ KeptNext(j) /\ jobs'[j].delivery = jobs[j].delivery
         \/ row'[jobs[j].delivery].status = "SENT"
         \/ \E i \in JobIds : KeptNext(i) /\ jobs'[i].delivery = jobs[j].delivery
<1>t. jobs[j].owner \in Workers \cup {NoWorker} /\ jobs[j].delivery \in Deliveries
  BY DEF TInv, TypeOK, Jobs
<1>s. ASSUME jobs'[j] = jobs[j],
             jobs[j].owner \in Workers =>
               worker'[jobs[j].owner] = worker[jobs[j].owner]
                 \/ worker'[jobs[j].owner].pc # "finish"
      PROVE  KeptNext(j) /\ jobs'[j].delivery = jobs[j].delivery
  BY <1>s, <1>t DEF Kept, KeptNext, At
<1>1. CASE EnqueueRow
  <2>1. enqueuer.current \in Deliveries /\ AddJob(enqueuer.current) /\ UNCHANGED worker
    BY <1>1 DEF EnqueueRow, TInv, TypeOK, Enqueuers
  <2>2. jobs'[j] = jobs[j]
    BY <2>1, AddEffect DEF Kept
  <2>3. QED
    BY <1>s, <2>1, <2>2
<1>2. ASSUME NEW w \in Workers, NEW i \in JobIds, Take(w, i)
      PROVE  KeptNext(j) /\ jobs'[j].delivery = jobs[j].delivery
  <2>1. CASE i = j
    BY <1>2, <2>1, TakeEffect DEF KeptNext
  <2>2. CASE i # j
    BY <1>2, <1>s, <2>2, TakeEffect
  <2>3. QED
    BY <2>1, <2>2
<1>3. ASSUME NEW w \in Workers, KeepsJob(w)
      PROVE  \/ KeptNext(j) /\ jobs'[j].delivery = jobs[j].delivery
             \/ row'[jobs[j].delivery].status = "SENT"
  <2>1. CASE jobs[j].owner = w /\ worker'[w].pc = "finish"
    <3>1. jobs[j].delivery = Item(w) /\ ~At(w, "finish")
      BY <2>1, OwnJob DEF Kept
    <3>2. (ReadItem(w) /\ AlreadySent(Item(w))) \/ RecordSent(w)
      BY <1>3, <2>1 DEF KeepsJob, ReadItem, CountAttempt, SendMessage, SendThrows,
         RecordSent, RecordThrows, Goto, TInv, TypeOK, Processes
    <3>3. QED
      BY <1>t, <3>1, <3>2 DEF ReadItem, AlreadySent, RecordSent, TInv, TypeOK, Rows
  <2>2. CASE ~(jobs[j].owner = w /\ worker'[w].pc = "finish")
    BY <1>3, <1>s, <2>2, KeepsEffect
  <2>3. QED
    BY <2>1, <2>2
<1>4. ASSUME NEW w \in Workers, Requeue(w)
      PROVE  \/ KeptNext(j) /\ jobs'[j].delivery = jobs[j].delivery
             \/ \E i \in JobIds : KeptNext(i) /\ jobs'[i].delivery = jobs[j].delivery
  <2>1. PICK i \in JobIds :
          /\ jobs[i].state = "none"
          /\ jobs'[i].state = "waiting" /\ jobs'[i].delivery = Item(w)
          /\ jobs'[i].owner = NoWorker
          /\ \A k \in JobIds \ {i} : jobs'[k] = jobs[k]
    BY <1>4, RequeueEffect, AddEffect
  <2>2. jobs'[j] = jobs[j]
    BY <2>1 DEF Kept
  <2>3. CASE jobs[j].owner = w
    <3>1. jobs[j].delivery = Item(w)
      BY <2>3, OwnJob
    <3>2. QED
      BY <2>1, <3>1 DEF KeptNext
  <2>4. CASE jobs[j].owner # w
    BY <1>4, <1>s, <2>2, <2>4, RequeueEffect
  <2>5. QED
    BY <2>3, <2>4
<1>5. ASSUME NEW w \in Workers, Leaves(w)
      PROVE  KeptNext(j) /\ jobs'[j].delivery = jobs[j].delivery
  <2>1. CASE jobs[j].owner # w
    <3>1. jobs'[j] = jobs[j]
      BY <1>5, <2>1, ThrownEffect, FinishEffect, DiesEffect DEF Leaves
    <3>2. QED
      BY <1>5, <1>s, <2>1, <3>1, LeavesEffect
  <2>2. CASE jobs[j].owner = w
    <3>1. ~Finish(w)
      BY <1>t, <2>2 DEF Finish, Kept
    <3>2. QED
      BY <1>5, <2>2, <3>1, ThrownEffect, DiesEffect DEF Leaves, KeptNext
  <2>3. QED
    BY <2>1, <2>2
<1>6. ASSUME NEW i \in JobIds, RecoverStalled(i) \/ LoseLock(i)
      PROVE  KeptNext(j) /\ jobs'[j].delivery = jobs[j].delivery
  <2>1. UNCHANGED worker
    BY <1>6 DEF RecoverStalled, LoseLock
  <2>2. CASE i # j
    BY <1>6, <1>s, <2>1, <2>2, StalledEffect
  <2>3. CASE i = j
    BY <1>6, <2>3, StalledEffect DEF KeptNext
  <2>4. QED
    BY <2>2, <2>3
<1>7. CASE UNCHANGED <<jobs, worker>>
  BY <1>7, <1>s
<1>8. QED
  BY <1>1, <1>2, <1>3, <1>4, <1>5, <1>6, <1>7, StepKinds

LEMMA FollowedNext == ASSUME TInv, Fresh, Alone, Followed, Next PROVE Followed'
<1> SUFFICES ASSUME NEW d \in Deliveries \ doubled', row'[d].status \in {"PENDING", "FAILED"}
             PROVE  \/ \E j \in JobIds : KeptNext(j) /\ jobs'[j].delivery = d
                    \/ enqueuer'.pc \in {"add", "dead"} /\ enqueuer'.current = d
  BY DEF Followed, Kept, KeptNext, At
<1>d. d \in Deliveries \ doubled
  BY DoubledGrows
<1>1. CASE CreateRow(d)
  BY <1>1 DEF CreateRow
<1>2. ASSUME NEW w \in Workers, MarkFailed(w), Item(w) = d
      PROVE  \E j \in JobIds : KeptNext(j) /\ jobs'[j].delivery = d
  <2>1. Owns(w)
    BY <1>d, <1>2 DEF MarkFailed, At, Alone
  <2>2. worker[w].job \in JobIds /\ jobs[worker[w].job].delivery = d
    BY <1>2, <2>1, OwnJob DEF Owns
  <2>3. QED
    BY <1>2, <2>1, <2>2, ThrownEffect DEF KeptNext, Owns
<1>3. CASE row[d].status \in {"PENDING", "FAILED"}
  <2>1. ASSUME NEW j \in JobIds, Kept(j), jobs[j].delivery = d
        PROVE  \E i \in JobIds : KeptNext(i) /\ jobs'[i].delivery = d
    BY <2>1, KeptStays
  <2>2. CASE enqueuer.pc \in {"add", "dead"} /\ enqueuer.current = d
    <3>1. CASE EnqueueRow
      BY <2>2, <3>1, AddEffect DEF EnqueueRow, KeptNext
    <3>2. CASE ~EnqueueRow
      <4>1. ~(enqueuer.pc = "create")
        BY <2>2
      <4>2. QED
        BY <2>2, <3>2, <4>1, EnqueuerStep
    <3>3. QED
      BY <3>1, <3>2
  <2>3. QED
    BY <1>3, <1>d, <2>1, <2>2 DEF Followed
<1>4. QED
  <2>1. UNCHANGED row[d].status => row[d].status \in {"PENDING", "FAILED"}
    OBVIOUS
  <2>2. QED
    BY <1>1, <1>2, <1>3, <2>1, StatusStep

-----------------------------------------------------------------------------
(* How many messages can go out for one delivery.  A run of its job that   *)
(* has not sent yet, a job that is to run, and the enqueuer before it adds *)
(* one can each lead to one more message.  No step adds to what went out   *)
(* and what can still go out but a fault, which adds one.                  *)

BeforeSend == {"read", "requeue", "count", "send"}

\* A job that is to run, or whose run has not sent, or is to run again.
Unspent(j) ==
  \/ jobs[j].state = "waiting"
  \/ /\ jobs[j].state = "active"
     /\ \/ jobs[j].owner = NoWorker
        \/ worker[jobs[j].owner].pc \in BeforeSend \cup {"fail"}

Ready(d) == {j \in JobIds : jobs[j].delivery = d /\ Unspent(j)}

\* Workers that lost their job and go on.
Strays(d) ==
  {w \in Workers : worker[w].pc \in BeforeSend /\ Item(w) = d /\ ~Owns(w)}

Unqueued(d) ==
  \/ enqueuer.pc \in {"create", "add"} /\ d \in enqueuer.left
  \/ enqueuer.pc = "add" /\ enqueuer.current = d

Queueing(d) == IF Unqueued(d) THEN 1 ELSE 0

Prospects ==
  \A d \in Deliveries :
    mailed[d] + Cardinality(Ready(d)) + Cardinality(Strays(d)) + Queueing(d)
      <= 1 + faults

\* Finite sets.
LEMMA Fewer ==
  ASSUME NEW S, IsFiniteSet(S), NEW T \in SUBSET S
  PROVE  /\ IsFiniteSet(T) /\ Cardinality(T) \in Nat /\ Cardinality(S) \in Nat
         /\ Cardinality(T) <= Cardinality(S)
  BY FS_Subset, FS_CardinalityType

LEMMA OneMore ==
  ASSUME NEW S, IsFiniteSet(S), NEW x, NEW T \in SUBSET (S \cup {x})
  PROVE  Cardinality(T) <= Cardinality(S) + 1
<1>1. IsFiniteSet(S \cup {x}) /\ Cardinality(S \cup {x}) <= Cardinality(S) + 1
  <2>1. Cardinality(S) \in Nat
    BY FS_CardinalityType
  <2>2. CASE x \in S
    <3>1. S \cup {x} = S
      BY <2>2
    <3>2. QED
      BY <2>1, <3>1
  <2>3. CASE x \notin S
    <3>1. IsFiniteSet(S \cup {x})
      BY FS_AddElement
    <3>2. Cardinality(S \cup {x}) = Cardinality(S) + 1
      BY <2>3, FS_AddElement
    <3>3. QED
      BY <2>1, <3>1, <3>2
  <2>4. QED
    BY <2>2, <2>3
<1>2. Cardinality(T) <= Cardinality(S \cup {x}) /\ Cardinality(T) \in Nat
      /\ Cardinality(S \cup {x}) \in Nat /\ Cardinality(S) \in Nat
  BY <1>1, Fewer, FS_CardinalityType
<1>3. QED
  BY <1>1, <1>2

LEMMA OneLess ==
  ASSUME NEW S, IsFiniteSet(S), NEW x \in S, NEW T \in SUBSET (S \ {x})
  PROVE  Cardinality(T) + 1 <= Cardinality(S)
<1>1. /\ IsFiniteSet(S \ {x})
      /\ Cardinality(S \ {x}) = Cardinality(S) - 1
  BY FS_RemoveElement
<1>2. Cardinality(T) <= Cardinality(S \ {x}) /\ Cardinality(T) \in Nat
      /\ Cardinality(S) \in Nat
  BY <1>1, Fewer, FS_CardinalityType
<1>3. QED
  BY <1>1, <1>2

LEMMA NotEmpty ==
  ASSUME NEW S, IsFiniteSet(S), NEW x \in S
  PROVE  Cardinality(S) >= 1
  BY FS_EmptySet, FS_CardinalityType

LEMMA Swapped ==
  ASSUME NEW S, IsFiniteSet(S), NEW x \in S, NEW y, NEW T \in SUBSET ((S \ {x}) \cup {y})
  PROVE  Cardinality(T) <= Cardinality(S)
<1>1. IsFiniteSet(S \ {x}) /\ Cardinality(S \ {x}) = Cardinality(S) - 1
  BY FS_RemoveElement
<1>2. Cardinality(T) <= Cardinality(S \ {x}) + 1
  BY <1>1, OneMore
<1>3. Cardinality(S) \in Nat
  BY FS_CardinalityType
<1>4. QED
  BY <1>1, <1>2, <1>3

LEMMA ProspectsFinite ==
  ASSUME NEW d \in Deliveries
  PROVE  /\ IsFiniteSet(Ready(d)) /\ IsFiniteSet(Strays(d))
         /\ Cardinality(Ready(d)) \in Nat /\ Cardinality(Strays(d)) \in Nat
<1>1. IsFiniteSet(JobIds)
  BY FS_Interval DEF JobIds
<1>2. Ready(d) \in SUBSET JobIds /\ Strays(d) \in SUBSET Workers
  BY DEF Ready, Strays
<1>3. QED
  BY <1>1, <1>2, Fewer

\* A job or a worker that a step leaves alone is what it was.
LEMMA ReadyStays ==
  ASSUME TInv, NEW i \in JobIds, jobs'[i] = jobs[i],
         jobs[i].owner \in Workers => worker'[jobs[i].owner] = worker[jobs[i].owner],
         NEW d \in Deliveries, i \in Ready(d)'
  PROVE  i \in Ready(d)
  BY DEF Ready, Unspent, TInv, TypeOK, Jobs

LEMMA StrayStays ==
  ASSUME TInv, NEW v \in Workers, worker'[v] = worker[v],
         \A i \in JobIds : jobs[i].owner = v => jobs'[i].owner = v,
         NEW d \in Deliveries, v \in Strays(d)'
  PROVE  v \in Strays(d)
  BY DEF Strays, Item, Owns, TInv, TypeOK, Processes

\* Nothing is gained.
Milder(d) == Ready(d)' \subseteq Ready(d) /\ Strays(d)' \subseteq Strays(d)

LEMMA WorkingMilder ==
  ASSUME TInv, NEW w \in Workers, NEW d \in Deliveries,
         ReadItem(w) \/ CountAttempt(w) \/ SendThrows(w) \/ RecordSent(w)
  PROVE  Milder(d)
<1>1. /\ jobs' = jobs /\ worker'[w].job = worker[w].job /\ worker'[w].item = Item(w)
      /\ \A v \in Workers \ {w} : worker'[v] = worker[v]
  BY KeepsEffect DEF KeepsJob
<1>2. worker'[w].pc \in BeforeSend \cup {"fail"} => worker[w].pc \in BeforeSend
  BY DEF ReadItem, CountAttempt, SendThrows, RecordSent, Goto, At, BeforeSend,
     TInv, TypeOK, Processes
<1>3. ASSUME NEW i \in JobIds, i \in Ready(d)' PROVE i \in Ready(d)
  <2>1. CASE jobs[i].owner = w
    BY <1>1, <1>2, <1>3, <2>1 DEF Ready, Unspent
  <2>2. CASE jobs[i].owner # w
    BY <1>1, <1>3, <2>2, ReadyStays
  <2>3. QED
    BY <2>1, <2>2
<1>4. ASSUME NEW v \in Workers, v \in Strays(d)' PROVE v \in Strays(d)
  <2>1. CASE v = w
    <3>1. w \in Strays(d)' => worker'[w].pc \in BeforeSend /\ worker'[w].item = d
                              /\ jobs'[worker'[w].job].owner # w
      BY DEF Strays, Item, Owns
    <3>2. worker'[w].pc \in BeforeSend => worker[w].pc \in BeforeSend
      BY <1>2
    <3>3. QED
      BY <1>1, <1>4, <2>1, <3>1, <3>2 DEF Strays, Owns
  <2>2. CASE v # w
    BY <1>1, <1>4, <2>2, StrayStays
  <2>3. QED
    BY <2>1, <2>2
<1>5. QED
  BY <1>3, <1>4 DEF Milder, Ready, Strays

\* One less, one more, and one for another.
Spends(d) ==
  \/ \E j \in Ready(d) : /\ Ready(d)' \subseteq Ready(d) \ {j}
                         /\ Strays(d)' \subseteq Strays(d)
  \/ \E w \in Strays(d) : /\ Ready(d)' \subseteq Ready(d)
                          /\ Strays(d)' \subseteq Strays(d) \ {w}

Gains(d) ==
  \/ \E j \in JobIds : /\ Ready(d)' \subseteq Ready(d) \cup {j}
                       /\ Strays(d)' \subseteq Strays(d)
  \/ \E w \in Workers : /\ Ready(d)' \subseteq Ready(d)
                        /\ Strays(d)' \subseteq Strays(d) \cup {w}

Swaps(d) ==
  \/ \E j \in Ready(d), i \in JobIds : /\ Ready(d)' \subseteq (Ready(d) \ {j}) \cup {i}
                                       /\ Strays(d)' \subseteq Strays(d)
  \/ \E w \in Strays(d), i \in JobIds : /\ Ready(d)' \subseteq Ready(d) \cup {i}
                                        /\ Strays(d)' \subseteq Strays(d) \ {w}

LEMMA SendSpends ==
  ASSUME TInv, NEW w \in Workers, SendMessage(w), NEW d \in Deliveries
  PROVE  IF Item(w) = d THEN Spends(d) ELSE Milder(d)
<1>1. /\ jobs' = jobs /\ worker'[w].pc = "record" /\ At(w, "send")
      /\ \A v \in Workers \ {w} : worker'[v] = worker[v]
  BY KeepsEffect DEF KeepsJob, SendMessage, Goto, TInv, TypeOK, Processes
<1>2. ASSUME NEW i \in JobIds, i \in Ready(d)' PROVE i \in Ready(d) /\ jobs[i].owner # w
  <2>1. jobs[i].owner # w
    BY <1>1, <1>2, OwnJob DEF Ready, Unspent, BeforeSend
  <2>2. QED
    BY <1>1, <1>2, <2>1, ReadyStays
<1>3. ASSUME NEW v \in Workers, v \in Strays(d)' PROVE v \in Strays(d) /\ v # w
  <2>1. v # w
    BY <1>1, <1>3 DEF Strays, BeforeSend
  <2>2. QED
    BY <1>1, <1>3, <2>1, StrayStays
<1>4. Milder(d)
  BY <1>2, <1>3 DEF Milder, Ready, Strays
<1>5. ASSUME Item(w) = d PROVE Spends(d)
  <2>1. CASE Owns(w)
    <3>1. worker[w].job \in Ready(d) /\ jobs[worker[w].job].owner = w
      BY <1>1, <1>5, <2>1, OwnJob DEF Ready, Unspent, Owns, At, BeforeSend
    <3>2. Ready(d)' \subseteq Ready(d) \ {worker[w].job} /\ Strays(d)' \subseteq Strays(d)
      BY <1>2, <1>4, <3>1 DEF Milder, Ready
    <3>3. QED
      BY <3>1, <3>2 DEF Spends
  <2>2. CASE ~Owns(w)
    <3>1. w \in Strays(d)
      BY <1>1, <1>5, <2>2 DEF Strays, At, BeforeSend
    <3>2. Ready(d)' \subseteq Ready(d) /\ Strays(d)' \subseteq Strays(d) \ {w}
      BY <1>3, <1>4 DEF Milder, Strays
    <3>3. QED
      BY <3>1, <3>2 DEF Spends
  <2>3. QED
    BY <2>1, <2>2
<1>6. QED
  BY <1>4, <1>5

\* A message that went out unrecorded, or whose worker died.
LEMMA ThrowsGain ==
  ASSUME TInv, NEW w \in Workers, RecordThrows(w) \/ WorkerDies(w), NEW d \in Deliveries
  PROVE  Gains(d)
<1>1. /\ worker[w].job \in JobIds
      /\ \A v \in Workers \ {w} : worker'[v] = worker[v]
      /\ \A i \in JobIds : jobs[i].owner # w => jobs'[i] = jobs[i]
      /\ worker'[w].pc \notin BeforeSend
  <2>1. worker[w].job \in JobIds
    BY OwnJob
  <2>2. CASE RecordThrows(w)
    BY <2>1, <2>2, KeepsEffect DEF KeepsJob, RecordThrows, Goto, TInv, TypeOK, Processes,
       BeforeSend
  <2>3. CASE WorkerDies(w)
    BY <2>1, <2>3, LeavesEffect, DiesEffect DEF Leaves, BeforeSend
  <2>4. QED
    BY <2>2, <2>3
<1>2. ASSUME NEW i \in JobIds, i \in Ready(d)' PROVE i \in Ready(d) \cup {worker[w].job}
  <2>1. CASE jobs[i].owner = w
    BY <2>1, OwnJob
  <2>2. CASE jobs[i].owner # w
    BY <1>1, <1>2, <2>2, ReadyStays
  <2>3. QED
    BY <2>1, <2>2
<1>3. ASSUME NEW v \in Workers, v \in Strays(d)' PROVE v \in Strays(d)
  <2>1. v # w
    BY <1>1, <1>3 DEF Strays
  <2>2. QED
    BY <1>1, <1>3, <2>1, StrayStays
<1>4. Ready(d)' \subseteq Ready(d) \cup {worker[w].job} /\ Strays(d)' \subseteq Strays(d)
  BY <1>2, <1>3 DEF Ready, Strays
<1>5. QED
  BY <1>1, <1>4 DEF Gains

\* The processor ended, well or not.
LEMMA EndsMilder ==
  ASSUME TInv, NEW w \in Workers, MarkFailed(w) \/ ProcessThrows(w) \/ Finish(w),
         NEW d \in Deliveries
  PROVE  Milder(d)
<1>1. /\ \A v \in Workers \ {w} : worker'[v] = worker[v]
      /\ worker'[w].pc = "idle"
  BY LeavesEffect DEF Leaves
<1>2. \A i \in JobIds : jobs[i].owner # w => jobs'[i] = jobs[i]
  BY ThrownEffect, FinishEffect
<1>3. ASSUME NEW i \in JobIds, i \in Ready(d)' PROVE i \in Ready(d)
  <2>1. CASE jobs[i].owner = w
    <3>1. CASE Finish(w)
      BY <1>3, <2>1, <3>1, FinishEffect DEF Ready, Unspent
    <3>2. CASE MarkFailed(w) \/ ProcessThrows(w)
      <4>1. worker[w].pc \in BeforeSend \cup {"fail"}
        BY <3>2 DEF MarkFailed, ProcessThrows, At, BeforeSend
      <4>2. jobs[i].state = "active" /\ jobs'[i].delivery = jobs[i].delivery
        BY <2>1, <3>2, OwnJob, ThrownEffect
      <4>3. QED
        BY <1>3, <2>1, <4>1, <4>2 DEF Ready, Unspent
    <3>3. QED
      BY <3>1, <3>2
  <2>2. CASE jobs[i].owner # w
    BY <1>1, <1>2, <1>3, <2>2, ReadyStays
  <2>3. QED
    BY <2>1, <2>2
<1>4. ASSUME NEW v \in Workers, v \in Strays(d)' PROVE v \in Strays(d)
  <2>1. v # w
    BY <1>1, <1>4 DEF Strays, BeforeSend
  <2>2. QED
    BY <1>1, <1>2, <1>4, <2>1, StrayStays
<1>5. QED
  BY <1>3, <1>4 DEF Milder, Ready, Strays

LEMMA TakeMilder ==
  ASSUME TInv, NEW w \in Workers, NEW j \in JobIds, Take(w, j), NEW d \in Deliveries
  PROVE  Milder(d)
<1>1. ASSUME NEW i \in JobIds, i \in Ready(d)' PROVE i \in Ready(d)
  <2>1. CASE i = j
    BY <1>1, <2>1, TakeEffect DEF Ready, Unspent
  <2>2. CASE i # j
    BY <1>1, <2>2, TakeEffect, ReadyStays
  <2>3. QED
    BY <2>1, <2>2
<1>2. ASSUME NEW v \in Workers, v \in Strays(d)' PROVE v \in Strays(d)
  <2>1. v # w
    BY <1>2, TakeEffect DEF Strays, Owns
  <2>2. \A i \in JobIds : jobs[i].owner = v => jobs'[i].owner = v
    BY TakeEffect DEF TInv, TypeOK, Jobs
  <2>3. worker'[v] = worker[v]
    BY <2>1, TakeEffect
  <2>4. QED
    BY <1>2, <2>2, <2>3, StrayStays
<1>3. QED
  BY <1>1, <1>2 DEF Milder, Ready, Strays

LEMMA RequeueSwaps ==
  ASSUME TInv, NEW w \in Workers, Requeue(w), NEW d \in Deliveries
  PROVE  Milder(d) \/ Swaps(d)
<1>1. PICK k \in JobIds :
        /\ jobs[k].state = "none" /\ jobs[k].owner = NoWorker
        /\ jobs'[k].state = "waiting" /\ jobs'[k].delivery = Item(w)
        /\ jobs'[k].owner = NoWorker
        /\ \A i \in JobIds \ {k} : jobs'[i] = jobs[i]
  BY RequeueEffect, AddEffect
<1>2. /\ worker'[w].pc = "finish" /\ At(w, "requeue")
      /\ \A v \in Workers \ {w} : worker'[v] = worker[v]
  BY RequeueEffect
<1>3. ASSUME NEW i \in JobIds, i \in Ready(d)', i # k
      PROVE  i \in Ready(d) /\ jobs[i].owner # w
  <2>1. jobs[i].owner # w
    BY <1>1, <1>2, <1>3, OwnJob DEF Ready, Unspent, BeforeSend
  <2>2. QED
    BY <1>1, <1>2, <1>3, <2>1, ReadyStays
<1>4. ASSUME NEW v \in Workers, v \in Strays(d)' PROVE v \in Strays(d) /\ v # w
  <2>1. v # w
    BY <1>2, <1>4 DEF Strays, BeforeSend
  <2>2. \A i \in JobIds : jobs[i].owner = v => jobs'[i].owner = v
    BY <1>1
  <2>3. QED
    BY <1>2, <1>4, <2>1, <2>2, StrayStays
<1>5. CASE Item(w) # d
  <2>1. k \notin Ready(d)'
    BY <1>1, <1>5 DEF Ready
  <2>2. QED
    BY <1>3, <1>4, <2>1 DEF Milder, Ready, Strays
<1>6. CASE Item(w) = d /\ Owns(w)
  <2>1. worker[w].job \in Ready(d) /\ jobs[worker[w].job].owner = w
    BY <1>2, <1>6, OwnJob DEF Ready, Unspent, Owns, At, BeforeSend
  <2>2. Ready(d)' \subseteq (Ready(d) \ {worker[w].job}) \cup {k}
    BY <1>3, <2>1 DEF Ready
  <2>3. Strays(d)' \subseteq Strays(d)
    BY <1>4 DEF Strays
  <2>4. QED
    BY <2>1, <2>2, <2>3 DEF Swaps
<1>7. CASE Item(w) = d /\ ~Owns(w)
  <2>1. w \in Strays(d)
    BY <1>2, <1>7 DEF Strays, At, BeforeSend
  <2>2. Ready(d)' \subseteq Ready(d) \cup {k}
    BY <1>3 DEF Ready
  <2>3. Strays(d)' \subseteq Strays(d) \ {w}
    BY <1>4 DEF Strays
  <2>4. QED
    BY <2>1, <2>2, <2>3 DEF Swaps
<1>8. QED
  BY <1>5, <1>6, <1>7

LEMMA RecoverMilder ==
  ASSUME TInv, NEW j \in JobIds, RecoverStalled(j), NEW d \in Deliveries
  PROVE  Milder(d)
<1>1. /\ jobs[j].state = "active" /\ jobs[j].owner = NoWorker /\ worker' = worker
  BY DEF RecoverStalled
<1>2. ASSUME NEW i \in JobIds, i \in Ready(d)' PROVE i \in Ready(d)
  <2>1. CASE i = j
    BY <1>1, <1>2, <2>1, StalledEffect DEF Ready, Unspent
  <2>2. CASE i # j
    BY <1>1, <1>2, <2>2, StalledEffect, ReadyStays
  <2>3. QED
    BY <2>1, <2>2
<1>3. ASSUME NEW v \in Workers, v \in Strays(d)' PROVE v \in Strays(d)
  <2>1. \A i \in JobIds : jobs[i].owner = v => jobs'[i].owner = v
    BY <1>1, StalledEffect
  <2>2. QED
    BY <1>1, <1>3, <2>1, StrayStays
<1>4. QED
  BY <1>2, <1>3 DEF Milder, Ready, Strays

\* The job runs again beside its worker, unless that one has sent already.
LEMMA LoseGains ==
  ASSUME TInv, NEW j \in JobIds, LoseLock(j), NEW d \in Deliveries
  PROVE  Gains(d)
<1> DEFINE w == jobs[j].owner
<1>1. /\ jobs[j].state = "active" /\ w \in Workers /\ worker' = worker
      /\ worker[w].job = j /\ Item(w) = jobs[j].delivery /\ ~At(w, "idle")
  BY OwnJob DEF LoseLock, TInv, TypeOK, Jobs, Owned
<1>2. \A i \in JobIds : i # j => jobs'[i] = jobs[i]
  BY StalledEffect
<1>3. ASSUME NEW i \in JobIds, i \in Ready(d)', i # j PROVE i \in Ready(d)
  BY <1>1, <1>2, <1>3, ReadyStays
<1>4. ASSUME NEW v \in Workers, v \in Strays(d)', v # w PROVE v \in Strays(d)
  <2>1. \A i \in JobIds : jobs[i].owner = v => jobs'[i].owner = v
    BY <1>2, <1>4
  <2>2. QED
    BY <1>1, <1>4, <2>1, StrayStays
<1>5. CASE worker[w].pc \in BeforeSend
  <2>1. j \in Ready(d)' => j \in Ready(d)
    BY <1>1, <1>5, StalledEffect DEF Ready, Unspent
  <2>2. Ready(d)' \subseteq Ready(d)
    BY <1>3, <2>1 DEF Ready
  <2>3. Strays(d)' \subseteq Strays(d) \cup {w}
    BY <1>4 DEF Strays
  <2>4. QED
    BY <1>1, <2>2, <2>3 DEF Gains
<1>6. CASE worker[w].pc \notin BeforeSend
  <2>1. w \notin Strays(d)'
    BY <1>1, <1>6 DEF Strays
  <2>2. Strays(d)' \subseteq Strays(d)
    BY <1>4, <2>1 DEF Strays
  <2>3. Ready(d)' \subseteq Ready(d) \cup {j}
    BY <1>3 DEF Ready
  <2>4. QED
    BY <2>2, <2>3 DEF Gains
<1>7. QED
  BY <1>5, <1>6

LEMMA RowGains ==
  ASSUME TInv, Fresh, EnqueueRow, NEW d \in Deliveries
  PROVE  IF enqueuer.current = d THEN Gains(d) /\ Unqueued(d) /\ ~Unqueued(d)'
                                 ELSE Milder(d)
<1>1. /\ enqueuer.current \in Deliveries /\ AddJob(enqueuer.current)
      /\ enqueuer \in Enqueuers /\ enqueuer.pc = "add" /\ worker' = worker
      /\ enqueuer'.pc \in {"idle", "create"} /\ enqueuer'.left = enqueuer.left
  BY DEF EnqueueRow, TInv, TypeOK, Enqueuers
<1>2. PICK k \in JobIds :
        /\ jobs[k].state = "none" /\ jobs[k].owner = NoWorker
        /\ jobs'[k].state = "waiting" /\ jobs'[k].delivery = enqueuer.current
        /\ jobs'[k].owner = NoWorker
        /\ \A i \in JobIds \ {k} : jobs'[i] = jobs[i]
  BY <1>1, AddEffect
<1>3. ASSUME NEW i \in JobIds, i \in Ready(d)', i # k PROVE i \in Ready(d)
  BY <1>1, <1>2, <1>3, ReadyStays
<1>4. ASSUME NEW v \in Workers, v \in Strays(d)' PROVE v \in Strays(d)
  <2>1. \A i \in JobIds : jobs[i].owner = v => jobs'[i].owner = v
    BY <1>2
  <2>2. QED
    BY <1>1, <1>4, <2>1, StrayStays
<1>5. Strays(d)' \subseteq Strays(d) /\ Ready(d)' \subseteq Ready(d) \cup {k}
  BY <1>3, <1>4 DEF Ready, Strays
<1>6. CASE enqueuer.current = d
  <2>1. Gains(d)
    BY <1>5 DEF Gains
  <2>2. d \notin enqueuer.left
    BY <1>1, <1>6 DEF Fresh
  <2>3. Unqueued(d) /\ ~Unqueued(d)'
    BY <1>1, <1>6, <2>2 DEF Unqueued
  <2>4. QED
    BY <1>6, <2>1, <2>3
<1>7. CASE enqueuer.current # d
  <2>1. k \notin Ready(d)'
    BY <1>2, <1>7 DEF Ready
  <2>2. QED
    BY <1>5, <1>7, <2>1 DEF Milder
<1>8. QED
  BY <1>6, <1>7

LEMMA UnqueuedStays ==
  ASSUME TInv, Next, NEW d \in Deliveries, Unqueued(d)'
  PROVE  Unqueued(d)
  BY EnqueuerStep DEF Unqueued, TInv, TypeOK, Enqueuers

\* What one step does to the prospects of a delivery.
LEMMA ProspectsStep ==
  ASSUME TInv, Fresh, Next, NEW d \in Deliveries
  PROVE  \/ /\ mailed'[d] = mailed[d] + 1 /\ Spends(d)
         \/ /\ mailed'[d] = mailed[d]
            /\ \/ Milder(d) \/ Swaps(d)
               \/ Gains(d) /\ Fault
               \/ Gains(d) /\ Unqueued(d) /\ ~Unqueued(d)'
<1>1. ASSUME NEW w \in Workers, SendMessage(w), Item(w) = d
      PROVE  mailed'[d] = mailed[d] + 1 /\ Spends(d)
  BY <1>1, SendSpends DEF SendMessage, TInv, TypeOK
<1>2. CASE \A w \in Workers : ~(SendMessage(w) /\ Item(w) = d)
  <2>1. mailed'[d] = mailed[d]
    BY <1>2, MailStep
  <2>2. CASE EnqueueRow
    BY <2>1, <2>2, RowGains
  <2>3. ASSUME NEW w \in Workers, NEW j \in JobIds, Take(w, j) PROVE Milder(d)
    BY <2>3, TakeMilder
  <2>4. ASSUME NEW w \in Workers, KeepsJob(w) PROVE Milder(d) \/ (Gains(d) /\ Fault)
    BY <1>2, <2>4, SendSpends, WorkingMilder, ThrowsGain DEF KeepsJob, Fault
  <2>5. ASSUME NEW w \in Workers, Requeue(w) PROVE Milder(d) \/ Swaps(d)
    BY <2>5, RequeueSwaps
  <2>6. ASSUME NEW w \in Workers, Leaves(w) PROVE Milder(d) \/ (Gains(d) /\ Fault)
    BY <2>6, EndsMilder, ThrowsGain DEF Leaves, Fault
  <2>7. ASSUME NEW j \in JobIds, RecoverStalled(j) \/ LoseLock(j)
        PROVE  Milder(d) \/ (Gains(d) /\ Fault)
    BY <2>7, RecoverMilder, LoseGains DEF Fault
  <2>8. CASE UNCHANGED <<jobs, worker>>
    BY <2>1, <2>8 DEF Milder, Ready, Unspent, Strays, Item, Owns
  <2>9. QED
    BY <2>1, <2>2, <2>3, <2>4, <2>5, <2>6, <2>7, <2>8, StepKinds
<1>3. QED
  BY <1>1, <1>2

LEMMA ProspectsCount ==
  ASSUME NEW d \in Deliveries, Milder(d) \/ Spends(d) \/ Gains(d) \/ Swaps(d)
  PROVE  \E r \in Nat, s \in Nat, r2 \in Nat, s2 \in Nat :
           /\ r = Cardinality(Ready(d)) /\ s = Cardinality(Strays(d))
           /\ r2 = Cardinality(Ready(d)') /\ s2 = Cardinality(Strays(d)')
           /\ Milder(d) \/ Swaps(d) => r2 + s2 <= r + s
           /\ Gains(d) => r2 + s2 <= r + s + 1
           /\ Spends(d) => r2 + s2 + 1 <= r + s
<1>1. /\ IsFiniteSet(Ready(d)) /\ IsFiniteSet(Strays(d))
      /\ Cardinality(Ready(d)) \in Nat /\ Cardinality(Strays(d)) \in Nat
  BY ProspectsFinite
<1>2. /\ IsFiniteSet(Ready(d)') /\ Cardinality(Ready(d)') \in Nat
      /\ IsFiniteSet(Strays(d)') /\ Cardinality(Strays(d)') \in Nat
  <2>1. IsFiniteSet(JobIds)
    BY FS_Interval DEF JobIds
  <2>2. Ready(d)' \in SUBSET JobIds /\ Strays(d)' \in SUBSET Workers
    BY DEF Ready, Strays
  <2>3. QED
    BY <2>1, <2>2, Fewer
<1>3. PICK r \in Nat, s \in Nat, r2 \in Nat, s2 \in Nat :
        /\ r = Cardinality(Ready(d)) /\ s = Cardinality(Strays(d))
        /\ r2 = Cardinality(Ready(d)') /\ s2 = Cardinality(Strays(d)')
  BY <1>1, <1>2
<1>4. /\ Ready(d)' \subseteq Ready(d) => r2 <= r
      /\ Strays(d)' \subseteq Strays(d) => s2 <= s
  BY <1>1, <1>3, Fewer
<1>5. Milder(d) => r2 + s2 <= r + s
  BY <1>4 DEF Milder
<1>6. ASSUME Gains(d) PROVE r2 + s2 <= r + s + 1
  <2>1. ASSUME NEW j \in JobIds, Ready(d)' \subseteq Ready(d) \cup {j} PROVE r2 <= r + 1
    BY <1>1, <1>3, <2>1, OneMore
  <2>2. ASSUME NEW w \in Workers, Strays(d)' \subseteq Strays(d) \cup {w} PROVE s2 <= s + 1
    BY <1>1, <1>3, <2>2, OneMore
  <2>3. QED
    BY <1>4, <1>6, <2>1, <2>2 DEF Gains
<1>7. ASSUME Spends(d) PROVE r2 + s2 + 1 <= r + s
  <2>1. ASSUME NEW j \in Ready(d), Ready(d)' \subseteq Ready(d) \ {j} PROVE r2 + 1 <= r
    BY <1>1, <1>3, <2>1, OneLess
  <2>2. ASSUME NEW w \in Strays(d), Strays(d)' \subseteq Strays(d) \ {w} PROVE s2 + 1 <= s
    BY <1>1, <1>3, <2>2, OneLess
  <2>3. QED
    BY <1>4, <1>7, <2>1, <2>2 DEF Spends
<1>8. ASSUME Swaps(d) PROVE r2 + s2 <= r + s
  <2>1. ASSUME NEW j \in Ready(d), NEW i \in JobIds,
               Ready(d)' \subseteq (Ready(d) \ {j}) \cup {i}
        PROVE  r2 <= r
    BY <1>1, <1>3, <2>1, Swapped
  <2>2. ASSUME NEW i \in JobIds, Ready(d)' \subseteq Ready(d) \cup {i} PROVE r2 <= r + 1
    BY <1>1, <1>3, <2>2, OneMore
  <2>3. ASSUME NEW w \in Strays(d), Strays(d)' \subseteq Strays(d) \ {w} PROVE s2 + 1 <= s
    BY <1>1, <1>3, <2>3, OneLess
  <2>4. QED
    BY <1>4, <1>8, <2>1, <2>2, <2>3 DEF Swaps
<1>9. QED
  BY <1>3, <1>5, <1>6, <1>7, <1>8

LEMMA ProspectsNext == ASSUME TInv, Fresh, Prospects, Next PROVE Prospects'
<1> SUFFICES ASSUME NEW d \in Deliveries
             PROVE  mailed'[d] + Cardinality(Ready(d)') + Cardinality(Strays(d)')
                      + Queueing(d)' <= 1 + faults'
  BY DEF Prospects
<1>1. Milder(d) \/ Spends(d) \/ Gains(d) \/ Swaps(d)
  BY ProspectsStep
<1>2. PICK r \in Nat, s \in Nat, r2 \in Nat, s2 \in Nat :
        /\ r = Cardinality(Ready(d)) /\ s = Cardinality(Strays(d))
        /\ r2 = Cardinality(Ready(d)') /\ s2 = Cardinality(Strays(d)')
        /\ Milder(d) \/ Swaps(d) => r2 + s2 <= r + s
        /\ Gains(d) => r2 + s2 <= r + s + 1
        /\ Spends(d) => r2 + s2 + 1 <= r + s
  BY <1>1, ProspectsCount
<1>3. TypeOK /\ TypeOK'
  BY TypeNext DEF TInv
<1>4. PICK m \in Nat, m2 \in Nat, f \in Nat, f2 \in Nat :
        m = mailed[d] /\ m2 = mailed'[d] /\ f = faults /\ f2 = faults'
  BY <1>3 DEF TypeOK
<1>5. PICK q \in {0, 1}, q2 \in {0, 1} : q = Queueing(d) /\ q2 = Queueing(d)'
  BY DEF Queueing
<1>6. /\ q2 <= q
      /\ Unqueued(d) /\ ~Unqueued(d)' => q = 1 /\ q2 = 0
  BY <1>5, UnqueuedStays DEF Queueing
<1>7. f2 >= f /\ (Fault => f2 = f + 1)
  <2>1. ASSUME Fault PROVE faults' = faults + 1
    BY <2>1 DEF Fault, EnqueuerDies, SendThrows, ProcessThrows, RecordThrows,
       WorkerDies, LoseLock, Faulty
  <2>2. Fault => f2 = f + 1
    BY <1>4, <2>1
  <2>3. Fault \/ f2 = f
    BY <1>4, Faults
  <2>4. QED
    BY <2>2, <2>3
<1>8. m + r + s + q <= 1 + f
  BY <1>2, <1>4, <1>5 DEF Prospects
<1>9. \/ m2 = m + 1 /\ Spends(d)
      \/ /\ m2 = m
         /\ \/ Milder(d) \/ Swaps(d)
            \/ Gains(d) /\ Fault
            \/ Gains(d) /\ Unqueued(d) /\ ~Unqueued(d)'
  BY <1>4, ProspectsStep
<1>10. m2 + r2 + s2 + q2 <= 1 + f2
  BY <1>2, <1>6, <1>7, <1>8, <1>9
<1>11. QED
  BY <1>2, <1>4, <1>5, <1>10

LEMMA ProspectsInit == Init => Prospects
<1> SUFFICES ASSUME Init, NEW d \in Deliveries
             PROVE  mailed[d] + Cardinality(Ready(d)) + Cardinality(Strays(d))
                      + Queueing(d) <= 1 + faults
  BY DEF Prospects
<1>1. Ready(d) = {} /\ Strays(d) = {}
  BY NoJobType, IdleType DEF Init, Ready, Unspent, Strays, BeforeSend
<1>2. Cardinality(Ready(d)) = 0 /\ Cardinality(Strays(d)) = 0
  BY <1>1, FS_EmptySet
<1>3. mailed[d] = 0 /\ faults = 0 /\ Queueing(d) \in {0, 1}
  BY DEF Init, Queueing
<1>4. QED
  BY <1>2, <1>3

\* A run that is about to send has a message left.
LEMMA ToSend ==
  ASSUME TInv, Prospects, NEW w \in Workers, At(w, "send")
  PROVE  mailed[Item(w)] <= faults
<1> DEFINE d == Item(w)
<1>1. /\ d \in Deliveries /\ worker[w].job \in JobIds
      /\ Owns(w) => worker[w].job \in Ready(d)
      /\ ~Owns(w) => w \in Strays(d)
  <2>1. d \in Deliveries /\ worker[w].job \in JobIds
    BY OwnJob
  <2>2. ASSUME Owns(w) PROVE worker[w].job \in Ready(d)
    BY <2>1, <2>2, OwnJob DEF Ready, Unspent, Owns, At, BeforeSend
  <2>3. ASSUME ~Owns(w) PROVE w \in Strays(d)
    BY <2>3 DEF Strays, At, BeforeSend
  <2>4. QED
    BY <2>1, <2>2, <2>3
<1> HIDE DEF d
<1>2. Cardinality(Ready(d)) >= 1 \/ Cardinality(Strays(d)) >= 1
  BY <1>1, ProspectsFinite, NotEmpty
<1>3. mailed[d] + Cardinality(Ready(d)) + Cardinality(Strays(d)) + Queueing(d) <= 1 + faults
  BY <1>1 DEF Prospects
<1>4. mailed[d] \in Nat /\ faults \in Nat /\ Queueing(d) \in {0, 1}
  BY <1>1 DEF TInv, TypeOK, Queueing
<1>5. mailed[d] <= faults
  BY <1>1, <1>2, <1>3, <1>4, ProspectsFinite
<1>6. QED
  BY <1>5 DEF d

-----------------------------------------------------------------------------
(* The invariant, and what it is for. *)

Inv == TInv /\ Fresh /\ Alone /\ MailInv /\ Sole /\ Followed /\ Prospects

LEMMA InvInit == Init => Inv
<1> SUFFICES ASSUME Init PROVE Inv
  OBVIOUS
<1>1. TInv
  BY TypeInit
<1>2. /\ \A j \in JobIds : jobs[j].state = "none"
      /\ \A w \in Workers : worker[w].pc = "idle"
      /\ \A d \in Deliveries : row[d].status = "NONE" /\ mailed[d] = 0
      /\ enqueuer.pc = "create" /\ enqueuer.left = Deliveries
  BY NoJobType, IdleType DEF Init
<1>3. QED
  BY <1>1, <1>2, ProspectsInit DEF Inv, Fresh, Begun, Alone, Open, Kept, MailInv,
     SentMeansMailed, Sole, Followed, At

LEMMA InvNext == ASSUME Inv, [Next]_vars PROVE Inv'
<1>1. CASE Next
  BY <1>1, TypeNext, FreshNext, AloneNext, MailNext, SoleNext, FollowedNext,
     ProspectsNext DEF Inv
<1>2. CASE UNCHANGED vars
  <2>1. Prospects'
    BY <1>2 DEF Inv, Prospects, Ready, Unspent, Strays, Queueing, Unqueued, Item, Owns,
       vars
  <2>2. QED
    BY <1>2, <2>1, TypeStutter DEF Inv, Fresh, Begun, Alone, Open, Kept, MailInv,
       SentMeansMailed, Sole, Followed, At, Item, Owns, Due, vars, history
<1>3. QED
  BY <1>1, <1>2

LEMMA Invariant == Spec => []Inv
  BY InvInit, InvNext, PTL DEF Spec

\* A row says SENT only when the provider accepted a message for the delivery.
THEOREM SentIsMailed == Spec => []SentMeansMailed
<1>1. Inv => SentMeansMailed
  BY DEF Inv, MailInv
<1>2. QED
  BY <1>1, Invariant, PTL

\* Through retries, second runs, requeues and crashes a delivery is sent at most
\* once, except in the three situations that doubtful and doubled record; and
\* whatever happens it is sent at most once more for each fault.
THEOREM SentAtMostOnce == Spec => []OneMessage
<1>1. Inv => OneMessage
  <2> SUFFICES ASSUME Inv PROVE OneMessage
    OBVIOUS
  <2>1. ASSUME NEW d \in Deliveries PROVE mailed[d] <= 1 + faults
    <3>1. mailed[d] + Cardinality(Ready(d)) + Cardinality(Strays(d)) + Queueing(d)
            <= 1 + faults
      BY DEF Inv, Prospects
    <3>2. /\ Queueing(d) \in {0, 1} /\ mailed[d] \in Nat /\ faults \in Nat
          /\ Cardinality(Ready(d)) \in Nat /\ Cardinality(Strays(d)) \in Nat
      BY ProspectsFinite DEF Inv, TInv, TypeOK, Queueing
    <3>3. QED
      BY <3>1, <3>2
  <2>2. QED
    BY <2>1 DEF Inv, Sole, OneMessage
<1>2. QED
  BY <1>1, Invariant, PTL

\* Postgres and Redis agree: no unsent row without a job, but for the gap between
\* the row and queue.add, and for deliveries with two runs.
THEOREM UnsentRowIsFollowed == Spec => []UnsentIsFollowed
<1>1. Inv => UnsentIsFollowed
  BY DEF Inv, TInv, TypeOK, Jobs, Followed, Kept, UnsentIsFollowed, Live, GivenUp
<1>2. QED
  BY <1>1, Invariant, PTL

-----------------------------------------------------------------------------
(* The contract. *)

Statuses == [d \in Deliveries |-> row[d].status]
Risky    == doubtful \cup doubled
Quiet    == {d \in Deliveries : now < DeferUntil[d]}

LEMMA StatusWritten ==
  ASSUME TInv, NEW d \in Deliveries, NEW s,
         row' = [row EXCEPT ![d].status = s]
  PROVE  [e \in Deliveries |-> row'[e].status] = [Statuses EXCEPT ![d] = s]
  BY DEF TInv, TypeOK, Rows, Statuses

LEMMA StatusKept ==
  ASSUME \A d \in Deliveries : row'[d].status = row[d].status
  PROVE  [e \in Deliveries |-> row'[e].status] = Statuses
  BY DEF Statuses

LEMMA ContractInit == Init => Contract!Init
<1> SUFFICES ASSUME Init PROVE Contract!Init
  OBVIOUS
<1>1. \A d \in Deliveries : row[d].status = "NONE"
  BY DEF Init
<1>2. QED
  BY <1>1 DEF Init, Contract!Init

\* The steps that write a row, each a step of the contract.
LEMMA RowStep ==
  ASSUME Inv, NEW d \in Deliveries,
         \/ CreateRow(d)
         \/ \E w \in Workers : Item(w) = d /\ (RecordSent(w) \/ MarkFailed(w))
  PROVE  Contract!Next
<1>1. UNCHANGED <<mailed, faults, doubtful, doubled, now>>
  BY DEF CreateRow, RecordSent, MarkFailed, history
<1>2. CASE CreateRow(d)
  <2>1. row[d].status = "NONE" /\ row' = [row EXCEPT ![d].status = "PENDING"]
    BY <1>2 DEF CreateRow, Inv, Fresh
  <2>2. Contract!Write(d)
    BY <1>1, <2>1, StatusWritten DEF Contract!Write, Statuses, Inv
  <2>3. QED
    BY <2>2 DEF Contract!Next
<1>3. ASSUME NEW w \in Workers, Item(w) = d, RecordSent(w) PROVE Contract!Next
  <2>1. mailed[d] > 0 /\ row' = [row EXCEPT ![d].status = "SENT"]
    BY <1>3 DEF RecordSent, Inv, MailInv
  <2>2. Contract!Confirm(d)
    BY <1>1, <2>1, StatusWritten DEF Contract!Confirm, Statuses, Inv
  <2>3. QED
    BY <2>2 DEF Contract!Next
<1>4. ASSUME NEW w \in Workers, Item(w) = d, MarkFailed(w) PROVE Contract!Next
  <2>1. row[d].status # "NONE" /\ row' = [row EXCEPT ![d].status = "FAILED"]
    BY <1>4 DEF MarkFailed, Inv, Fresh, Begun, At
  <2>2. d \in Risky \/ mailed[d] = 0
    BY <1>4 DEF MarkFailed, Inv, Sole, Risky, At
  <2>3. Contract!Refuse(d)
    BY <1>1, <2>1, <2>2, StatusWritten DEF Contract!Refuse, Statuses, Risky, Inv
  <2>4. QED
    BY <2>3 DEF Contract!Next
<1>5. QED
  BY <1>2, <1>3, <1>4

LEMMA SendStep == ASSUME Inv, NEW w \in Workers, SendMessage(w) PROVE Contract!Next
<1> DEFINE d == Item(w)
<1>1. /\ d \in Deliveries /\ mailed' = [mailed EXCEPT ![d] = @ + 1]
      /\ UNCHANGED <<row, faults, doubtful, doubled, now>>
  BY OwnJob DEF SendMessage, Inv, history
<1>2. row[d].status # "NONE"
  BY DEF SendMessage, Inv, Fresh, Begun, At
<1>3. d \notin Quiet
  <2>1. now \in Nat /\ DeferUntil[d] \in Nat /\ DeferUntil[d] <= now
    BY <1>1 DEF SendMessage, Inv, MailInv, Due, At, TInv, TypeOK
  <2>2. QED
    BY <2>1 DEF Quiet
<1>4. d \in Risky \/ (mailed[d] = 0 /\ row[d].status # "SENT")
  BY <1>1 DEF SendMessage, Inv, Sole, Risky, At
<1>5. mailed[d] <= faults
  BY ToSend DEF Inv, SendMessage
<1> HIDE DEF d
<1>6. Contract!Accept(d)
  BY <1>1, <1>2, <1>3, <1>4, <1>5, StatusKept DEF Contract!Accept, Statuses, Risky, Quiet
<1>7. QED
  BY <1>1, <1>6 DEF Contract!Next

\* The faults, after some of which a delivery is risky.
LEMMA FaultStep == ASSUME Inv, Fault PROVE Contract!Next
<1>1. UNCHANGED <<row, mailed, now>> /\ faults' = faults + 1
  BY DEF Fault, EnqueuerDies, SendThrows, ProcessThrows, RecordThrows, WorkerDies,
     LoseLock, Faulty
<1>2. \/ doubtful' \cup doubled' = Risky
      \/ \E d \in Deliveries :
           row[d].status # "NONE" /\ doubtful' \cup doubled' = Risky \cup {d}
  <2>1. ASSUME NEW w \in Workers, RecordThrows(w) \/ WorkerDies(w)
        PROVE  /\ Item(w) \in Deliveries /\ row[Item(w)].status # "NONE"
               /\ doubtful' \cup doubled' \in {Risky, Risky \cup {Item(w)}}
    <3>1. Item(w) \in Deliveries /\ row[Item(w)].status # "NONE"
      BY <2>1, OwnJob DEF RecordThrows, WorkerDies, Inv, Fresh, Begun, At
    <3>2. Mailing(w) \subseteq {Item(w)} /\ Requeued(w) \subseteq {Item(w)}
      BY DEF Mailing, Requeued
    <3>3. QED
      BY <2>1, <3>1, <3>2 DEF RecordThrows, WorkerDies, Risky
  <2>2. ASSUME NEW j \in JobIds, LoseLock(j)
        PROVE  /\ jobs[j].delivery \in Deliveries
               /\ row[jobs[j].delivery].status # "NONE"
               /\ doubtful' \cup doubled' = Risky \cup {jobs[j].delivery}
    BY <2>2 DEF LoseLock, Inv, TInv, TypeOK, Jobs, Fresh, Begun, Risky
  <2>3. CASE \/ EnqueuerDies
             \/ \E w \in Workers : SendThrows(w) \/ ProcessThrows(w)
    BY <2>3 DEF EnqueuerDies, SendThrows, ProcessThrows, history, Risky
  <2>4. QED
    BY <2>1, <2>2, <2>3 DEF Fault
<1>3. Contract!Mishap
  BY <1>1, <1>2 DEF Contract!Mishap, Statuses, Risky
<1>4. QED
  BY <1>3 DEF Contract!Next

LEMMA TickStep == ASSUME Inv, Tick PROVE Contract!Next
<1>1. /\ now \in Nat /\ now' = now + 1
      /\ UNCHANGED <<row, mailed, faults, doubtful, doubled>>
  BY DEF Tick, Inv, TInv, TypeOK, history
<1>2. {d \in Deliveries : now' < DeferUntil[d]} \subseteq Quiet
  BY <1>1 DEF Quiet
<1>3. Contract!PassTime
  BY <1>1, <1>2 DEF Contract!PassTime, Quiet
<1>4. QED
  BY <1>3 DEF Contract!Next

LEMMA ContractNext ==
  ASSUME Inv, [Next]_vars
  PROVE  [Contract!Next]_(Contract!vars)
<1>1. ASSUME Next,
             \A d \in Deliveries : ~CreateRow(d),
             \A w \in Workers : ~(RecordSent(w) \/ MarkFailed(w) \/ SendMessage(w)),
             ~Fault, ~Tick
      PROVE  UNCHANGED Contract!vars
  <2>1. UNCHANGED <<mailed, now, faults, doubtful, doubled>>
    BY <1>1, SendsMail, PassesTime, Endangers, Faults DEF Fault
  <2>2. \A d \in Deliveries : row'[d].status = row[d].status
    BY <1>1, StatusStep DEF Inv
  <2>3. QED
    BY <2>1, <2>2, StatusKept DEF Contract!vars, Statuses
<1>2. CASE UNCHANGED vars
  BY <1>2 DEF vars, history, Contract!vars
<1>3. \A w \in Workers : Item(w) \in Deliveries
  BY OwnJob DEF Inv
<1>4. QED
  BY <1>1, <1>2, <1>3, RowStep, SendStep, FaultStep, TickStep

\* The rows, the queue and the workers implement DeliveryContract: for every
\* number of deliveries, workers, retries and failures nothing is sent before its
\* deferUntil, SENT follows an accepted message, neither a second message nor a
\* FAILED after a message occurs before the delivery has become risky, and a
\* risky delivery goes out at most once more for each failure.
THEOREM KeepsTheContract == Spec => KeepsContract
<1>1. Inv /\ [Next]_vars => [Contract!Next]_(Contract!vars)
  BY ContractNext
<1>2. QED
  BY ContractInit, <1>1, Invariant, PTL DEF Spec, KeepsContract, Contract!Spec

=============================================================================
