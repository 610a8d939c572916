----------------------- MODULE WatchlistRemindersProofs -----------------------
(***************************************************************************)
(* Proofs about WatchlistReminders, for any tenders, users, runs of the    *)
(* job and reminder types, and every bound.                                *)
(***************************************************************************)
EXTENDS WatchlistReminders, FiniteSetTheorems, TLAPS

USE ReminderAssumption

-----------------------------------------------------------------------------
(* Days. *)

LEMMA DivFacts ==
  ASSUME NEW a \in Nat, NEW d \in Nat \ {0}
  PROVE  a \div d \in Nat /\ d * (a \div d) <= a /\ a < d * (a \div d) + d
  BY SMT

LEMMA DivMonotone ==
  ASSUME NEW a \in Nat, NEW b \in Nat, NEW d \in Nat \ {0}, a <= b
  PROVE  a \div d <= b \div d
<1> DEFINE x == a \div d
           y == b \div d
<1>1. x \in Nat /\ y \in Nat /\ d * x <= a /\ b < d * y + d
  BY DivFacts
<1> HIDE DEF x, y
<1>2. SUFFICES ASSUME x > y PROVE FALSE
  BY <1>1 DEF x, y
<1>3. d * x >= d * (y + 1)
  <2>1. d * (x - (y + 1)) >= 0
    BY <1>1, <1>2
  <2>2. d * (x - (y + 1)) = d * x - d * (y + 1)
    BY <1>1
  <2>3. QED
    BY <1>1, <2>1, <2>2
<1>4. d * (y + 1) = d * y + d
  BY <1>1
<1>5. QED
  BY <1>1, <1>3, <1>4

LEMMA DayType ==
  ASSUME NEW t \in Times
  PROVE  t \div Day \in Days
<1>1. /\ t \in Nat /\ MaxNow \in Nat /\ t <= MaxNow /\ Day \in Nat \ {0}
  BY DEF Times
<1>2. t \div Day <= MaxNow \div Day /\ t \div Day \in Nat /\ MaxNow \div Day \in Nat
  BY <1>1, DivMonotone, DivFacts
<1>3. QED
  BY <1>2 DEF Days

LEMMA TwoDays == Days \subseteq {0, 1}
<1> DEFINE y == MaxNow \div Day
<1>1. /\ MaxNow \in Nat /\ Day \in Nat \ {0} /\ MaxNow < 2 * Day
      /\ y \in Nat /\ Day * y <= MaxNow
  BY DivFacts
<1> HIDE DEF y
<1>2. ASSUME y >= 2 PROVE FALSE
  <2>1. Day * (y - 2) >= 0 /\ Day * (y - 2) = Day * y - Day * 2
    BY <1>1, <1>2
  <2>2. QED
    BY <1>1, <2>1
<1>3. QED
  BY <1>1, <1>2 DEF Days, y

-----------------------------------------------------------------------------
(* Types, and what a run holds at each step. *)

Shape(r) ==
  /\ run[r].pc \in {"idle", "plan", "find"} => run[r].due = {} /\ run[r].batch = {}
  /\ IF run[r].pc \in {"collect", "emit"} THEN \E x \in Rows : run[r].row = {x}
     ELSE run[r].row = {}
  /\ run[r].todo # {} => run[r].pc = "emit"
  /\ run[r].due \subseteq rows /\ run[r].at <= now

TInv == TypeOK /\ \A r \in Runs : Shape(r)


RType == run \in [Runs -> RunStates]

LEMMA IdleType ==
  /\ Idle \in RunStates /\ Idle.pc = "idle" /\ Idle.at = 0 /\ Idle.due = {} /\ Idle.row = {}
  /\ Idle.todo = {} /\ Idle.batch = {} /\ Idle.count = [u \in Users |-> -1]
  BY DEF Idle, RunStates, Times

Others(r) == \A q \in Runs : q # r => run'[q] = run[q]

LEMMA RunEffect ==
  ASSUME RType, NEW r \in Runs, NEW p \in RunStates, run' = [run EXCEPT ![r] = p]
  PROVE  RType' /\ Others(r) /\ run'[r] = p
  BY DEF RType, Others

Same(p, q)  == p.at = q.at /\ p.due = q.due /\ p.row = q.row /\ p.todo = q.todo /\ p.batch = q.batch
Begun(p)    == p.due = {} /\ p.row = {} /\ p.todo = {} /\ p.batch = {} /\ p.at = 0
               /\ p.count = [u \in Users |-> -1]

\* What each step of a run does to what the run holds.
Resets(r) == Begun(run'[r]) /\ run'[r].pc \in {"idle", "plan"}
Plans(r) == /\ run[r].pc = "plan" /\ run'[r].pc \in {"plan", "find"}
            /\ Same(run'[r], run[r]) /\ run'[r].count = run[r].count
Finds(r) == /\ run[r].pc = "find" /\ run'[r].pc = "stamp"
            /\ run'[r].due = Due /\ run'[r].at = now
            /\ run'[r].row = run[r].row /\ run'[r].todo = run[r].todo
            /\ run'[r].batch = run[r].batch /\ run'[r].count = run[r].count
Stamps(r, x) == /\ run[r].pc = "stamp" /\ run'[r].pc = "collect" /\ x \in run[r].due
                /\ run'[r].due = run[r].due \ {x} /\ run'[r].row = {x}
                /\ run'[r].at = run[r].at /\ run'[r].todo = run[r].todo
                /\ run'[r].batch = run[r].batch /\ run'[r].count = run[r].count
Batches(r, x) == /\ run[r].pc = "collect" /\ run'[r].pc = "stamp" /\ x \in run[r].row
                 /\ run'[r].row = {} /\ run'[r].batch = run[r].batch \cup ({x} \X Watchers(x))
                 /\ run'[r].at = run[r].at /\ run'[r].todo = run[r].todo
                 /\ run'[r].due = run[r].due /\ run'[r].count = run[r].count
Lists(r) == /\ run[r].pc = "collect" /\ run'[r].pc = "emit"
            /\ run'[r].todo \subseteq Users /\ run'[r].row = run[r].row
            /\ run'[r].at = run[r].at /\ run'[r].batch = run[r].batch
            /\ run'[r].due = run[r].due /\ run'[r].count = run[r].count
Emits(r, u) == /\ run[r].pc = "emit" /\ run'[r].pc = "emit" /\ u \in run[r].todo
               /\ run'[r].todo = run[r].todo \ {u} /\ run'[r].row = run[r].row
               /\ run'[r].at = run[r].at /\ run'[r].batch = run[r].batch
               /\ run'[r].due = run[r].due /\ run'[r].count = run[r].count
Closes(r) == /\ run[r].pc = "emit" /\ run'[r].pc = "stamp" /\ run[r].todo = {}
             /\ run'[r].row = {} /\ run'[r].todo = run[r].todo
             /\ run'[r].at = run[r].at /\ run'[r].batch = run[r].batch
             /\ run'[r].due = run[r].due /\ run'[r].count = run[r].count
Flushes(r) == /\ run[r].pc \in {"stamp", "flush"} /\ run'[r].pc = "flush"
              /\ run'[r].row = run[r].row /\ run'[r].todo = run[r].todo
              /\ run'[r].at = run[r].at /\ run'[r].batch \subseteq run[r].batch
              /\ run'[r].due = run[r].due

LEMMA ResetsRun ==
  ASSUME RType, closing \in [Tenders -> Closings],
         NEW r \in Runs, StartRun(r) \/ EndRun(r) \/ Dies(r)
  PROVE  RType' /\ Others(r) /\ Resets(r)
<1>1. CASE StartRun(r)
  <2> DEFINE plan == {<<t, closing[t]>> : t \in Tenders}
             p == [Idle EXCEPT !.pc = "plan", !.plan = plan]
  <2>0. plan \subseteq Tenders \X Closings
    OBVIOUS
  <2>1. p \in RunStates /\ Begun(p) /\ p.pc = "plan"
    <3> HIDE DEF plan
    <3>1. QED
      BY <2>0, IdleType DEF RunStates, Begun
  <2>2. run' = [run EXCEPT ![r] = p]
    BY <1>1 DEF StartRun
  <2> HIDE DEF p
  <2>3. QED
    BY <2>1, <2>2, RunEffect DEF Resets
<1>2. CASE EndRun(r) \/ Dies(r)
  BY <1>2, IdleType, RunEffect DEF EndRun, Dies, Resets, Begun
<1>3. QED
  BY <1>1, <1>2

LEMMA PlansRun ==
  ASSUME RType, NEW r \in Runs, PlanOne(r) \/ PlanTasks(r)
  PROVE  RType' /\ Others(r) /\ Plans(r)
<1>0. run[r] \in RunStates
  BY DEF RType
<1>1. CASE PlanOne(r)
  <2> DEFINE x == CHOOSE x \in run[r].plan : TRUE
  <2>0. run[r].pc = "plan"
    BY <1>1 DEF PlanOne, At
  <2>1. run' = [run EXCEPT ![r].plan = run[r].plan \ {x}]
    BY <1>1 DEF PlanOne
  <2> DEFINE p == [run[r] EXCEPT !.plan = run[r].plan \ {x}]
  <2>2. p \in RunStates /\ Same(p, run[r]) /\ p.count = run[r].count /\ p.pc = run[r].pc
    BY <1>0 DEF RunStates, Same
  <2>3. run' = [run EXCEPT ![r] = p]
    BY <2>1 DEF RType
  <2> HIDE DEF p
  <2>4. QED
    BY <2>0, <2>2, <2>3, RunEffect DEF Plans
<1>2. CASE PlanTasks(r)
  <2> DEFINE p == [run[r] EXCEPT !.pc = "find"]
  <2>2. p \in RunStates /\ Same(p, run[r]) /\ p.count = run[r].count /\ p.pc = "find"
    BY <1>0 DEF RunStates, Same
  <2>3. run' = [run EXCEPT ![r] = p]
    BY <1>2 DEF RType, PlanTasks, Goto
  <2> HIDE DEF p
  <2>4. QED
    BY <1>2, <2>2, <2>3, RunEffect DEF Plans, PlanTasks, At
<1>3. QED
  BY <1>1, <1>2


LEMMA FindsRun ==
  ASSUME TInv, NEW r \in Runs, FindDue(r)
  PROVE  RType' /\ Others(r) /\ Finds(r)
<1>0. run[r] \in RunStates /\ Due \subseteq Rows /\ now \in Times /\ RType
  BY DEF TInv, TypeOK, Due, RType
<1> DEFINE p == [run[r] EXCEPT !.pc = "stamp", !.due = Due, !.at = now]
<1>1. /\ p \in RunStates /\ p.pc = "stamp" /\ p.due = Due /\ p.at = now
      /\ p.row = run[r].row /\ p.todo = run[r].todo /\ p.batch = run[r].batch
      /\ p.count = run[r].count
  BY <1>0 DEF RunStates
<1>2. run' = [run EXCEPT ![r] = p] /\ run[r].pc = "find"
  BY <1>0 DEF RType, FindDue, At
<1> HIDE DEF p
<1>3. QED
  BY <1>0, <1>1, <1>2, RunEffect DEF Finds

LEMMA StampsRun ==
  ASSUME TInv, NEW r \in Runs, NEW x \in run[r].due, Stamp(r, x)
  PROVE  RType' /\ Others(r) /\ Stamps(r, x)
<1>0. run[r] \in RunStates /\ RType /\ x \in Rows
  BY DEF TInv, TypeOK, RType, RunStates
<1> DEFINE p == [run[r] EXCEPT !.pc = "collect", !.due = run[r].due \ {x}, !.row = {x}]
<1>1. /\ p \in RunStates /\ p.pc = "collect" /\ p.due = run[r].due \ {x} /\ p.row = {x}
      /\ p.at = run[r].at /\ p.todo = run[r].todo /\ p.batch = run[r].batch
      /\ p.count = run[r].count
  BY <1>0 DEF RunStates
<1>2. run' = [run EXCEPT ![r] = p] /\ run[r].pc = "stamp"
  BY <1>0 DEF RType, Stamp, At
<1> HIDE DEF p
<1>3. QED
  BY <1>0, <1>1, <1>2, RunEffect DEF Stamps

LEMMA CollectsRun ==
  ASSUME TInv, NEW r \in Runs, Collect(r)
  PROVE  RType' /\ Others(r) /\ ((\E x \in Rows : Batches(r, x)) \/ Lists(r))
<1>0. run[r] \in RunStates /\ RType /\ run[r].pc = "collect"
  BY DEF TInv, TypeOK, RType, Collect, At
<1>1. PICK x \in run[r].row :
        IF x.type \in Types \ Urgent
          THEN run' = [run EXCEPT ![r].pc = "stamp", ![r].row = {},
                                  ![r].batch = run[r].batch \cup ({x} \X Watchers(x))]
          ELSE run' = [run EXCEPT ![r].pc = "emit", ![r].todo =
                         IF x.type \in Urgent THEN Watchers(x) ELSE {}]
  BY DEF Collect
<1>2. x \in Rows /\ Watchers(x) \subseteq Users /\ {x} \X Watchers(x) \subseteq Pairs
  BY <1>0 DEF RunStates, Watchers, Pairs
<1>3. CASE x.type \in Types \ Urgent
  <2> DEFINE b == run[r].batch \cup ({x} \X Watchers(x))
             p == [run[r] EXCEPT !.pc = "stamp", !.row = {}, !.batch = b]
  <2>0. b \subseteq Pairs
    BY <1>0, <1>2 DEF RunStates
  <2>b. b = run[r].batch \cup ({x} \X Watchers(x))
    OBVIOUS
  <2>2. run' = [run EXCEPT ![r] = p]
    BY <1>0, <1>1, <1>3 DEF RType
  <2> HIDE DEF b
  <2>1. /\ p \in RunStates /\ p.pc = "stamp" /\ p.row = {} /\ p.batch = b
        /\ p.at = run[r].at /\ p.todo = run[r].todo /\ p.due = run[r].due
        /\ p.count = run[r].count
    BY <1>0, <2>0 DEF RunStates
  <2> HIDE DEF p
  <2>3. RType' /\ Others(r) /\ run'[r] = p
    BY <1>0, <2>1, <2>2, RunEffect
  <2>4. Batches(r, x)
    BY <1>0, <2>1, <2>3, <2>b DEF Batches
  <2>5. QED
    BY <1>2, <2>3, <2>4
<1>4. CASE x.type \notin Types \ Urgent
  <2> DEFINE w == IF x.type \in Urgent THEN Watchers(x) ELSE {}
             p == [run[r] EXCEPT !.pc = "emit", !.todo = w]
  <2>0. w \subseteq Users
    BY <1>2
  <2>2. run' = [run EXCEPT ![r] = p]
    BY <1>0, <1>1, <1>4 DEF RType
  <2> HIDE DEF w
  <2>1. /\ p \in RunStates /\ p.pc = "emit" /\ p.todo = w /\ p.row = run[r].row
        /\ p.at = run[r].at /\ p.batch = run[r].batch /\ p.due = run[r].due
        /\ p.count = run[r].count
    BY <1>0, <2>0 DEF RunStates
  <2> HIDE DEF p
  <2>3. QED
    BY <1>0, <2>0, <2>1, <2>2, RunEffect DEF Lists
<1>5. QED
  BY <1>3, <1>4

LEMMA EmitsRun ==
  ASSUME TInv, NEW r \in Runs, EmitUrgent(r)
  PROVE  RType' /\ Others(r)
         /\ \E u \in Users : /\ Emits(r, u) /\ Tell(run[r].row \X {u})
                             /\ mail' = Queue(u, 0)
<1>0. run[r] \in RunStates /\ RType /\ run[r].pc = "emit"
  BY DEF TInv, TypeOK, RType, EmitUrgent, At
<1>1. PICK u \in run[r].todo :
        /\ run' = [run EXCEPT ![r].todo = run[r].todo \ {u}]
        /\ mail' = Queue(u, 0)
        /\ Tell(run[r].row \X {u})
  BY DEF EmitUrgent
<1> DEFINE p == [run[r] EXCEPT !.todo = run[r].todo \ {u}]
<1>2. /\ p \in RunStates /\ p.pc = "emit" /\ p.todo = run[r].todo \ {u}
      /\ p.row = run[r].row /\ p.at = run[r].at /\ p.batch = run[r].batch
      /\ p.due = run[r].due /\ p.count = run[r].count /\ u \in Users
  BY <1>0 DEF RunStates
<1>3. run' = [run EXCEPT ![r] = p]
  BY <1>0, <1>1 DEF RType
<1> HIDE DEF p
<1>4. RType' /\ Others(r) /\ run'[r] = p
  BY <1>0, <1>2, <1>3, RunEffect
<1>5. Emits(r, u)
  BY <1>0, <1>2, <1>4 DEF Emits
<1>6. QED
  BY <1>1, <1>2, <1>4, <1>5

LEMMA ClosesRun ==
  ASSUME TInv, NEW r \in Runs, EmitDone(r)
  PROVE  RType' /\ Others(r) /\ Closes(r)
<1>0. run[r] \in RunStates /\ RType
  BY DEF TInv, TypeOK, RType
<1> DEFINE p == [run[r] EXCEPT !.pc = "stamp", !.row = {}]
<1>1. /\ p \in RunStates /\ p.pc = "stamp" /\ p.row = {} /\ p.todo = run[r].todo
      /\ p.at = run[r].at /\ p.batch = run[r].batch /\ p.due = run[r].due
      /\ p.count = run[r].count
  BY <1>0 DEF RunStates
<1>2. run' = [run EXCEPT ![r] = p] /\ run[r].pc = "emit" /\ run[r].todo = {}
  BY <1>0 DEF RType, EmitDone, At
<1> HIDE DEF p
<1>3. QED
  BY <1>0, <1>1, <1>2, RunEffect DEF Closes

LEMMA StartFlushRun ==
  ASSUME TInv, NEW r \in Runs, StartFlush(r)
  PROVE  /\ RType' /\ Others(r) /\ Flushes(r)
         /\ run'[r].batch = run[r].batch /\ run'[r].count = run[r].count
<1>0. run[r] \in RunStates /\ RType
  BY DEF TInv, TypeOK, RType
<1> DEFINE p == [run[r] EXCEPT !.pc = "flush"]
<1>1. /\ p \in RunStates /\ p.pc = "flush" /\ p.row = run[r].row /\ p.todo = run[r].todo
      /\ p.at = run[r].at /\ p.batch = run[r].batch /\ p.due = run[r].due
      /\ p.count = run[r].count
  BY <1>0 DEF RunStates
<1>2. run' = [run EXCEPT ![r] = p] /\ run[r].pc = "stamp"
  BY <1>0 DEF RType, StartFlush, Goto, At
<1> HIDE DEF p
<1>3. QED
  BY <1>0, <1>1, <1>2, RunEffect DEF Flushes

\* The flush of one user, and the count that comes before it.
CountSet(r, u, b, n) == run' = [run EXCEPT ![r].batch = b, ![r].count[u] = n]

LEMMA FlushEffect ==
  ASSUME RType, NEW r \in Runs, NEW u \in Users, NEW b \in SUBSET Pairs,
         NEW n \in Nat, b \subseteq run[r].batch, run[r].pc = "flush",
         CountSet(r, u, b, n)
  PROVE  /\ RType' /\ Others(r) /\ Flushes(r)
         /\ run'[r].batch = b /\ run'[r].count[u] = n
         /\ \A v \in Users : v # u => run'[r].count[v] = run[r].count[v]
<1>0. run[r] \in RunStates
  BY DEF RType
<1> DEFINE count == [run[r].count EXCEPT ![u] = n]
           p == [run[r] EXCEPT !.batch = b, !.count = count]
<1>1. /\ count \in [Users -> Nat \cup {-1}] /\ count[u] = n
      /\ \A v \in Users : v # u => count[v] = run[r].count[v]
  BY <1>0 DEF RunStates
<1>2. run' = [run EXCEPT ![r] = p]
  BY <1>0 DEF RType, RunStates, CountSet
<1> HIDE DEF count
<1>3. /\ p \in RunStates /\ p.pc = "flush" /\ p.row = run[r].row /\ p.todo = run[r].todo
      /\ p.at = run[r].at /\ p.batch = b /\ p.due = run[r].due /\ p.count = count
  BY <1>0, <1>1 DEF RunStates
<1> HIDE DEF p
<1>4. QED
  BY <1>0, <1>1, <1>2, <1>3, RunEffect DEF Flushes

-----------------------------------------------------------------------------
(* The e-mail counters. *)

Counters == [queued : Nat, sent : Nat, failed : Nat, summaries : Nat]

MailType == mail \in [Users -> [Days -> Counters]]

\* One e-mail is queued, a summary or not.
Queued(u, s) ==
  \A v \in Users, d \in Days :
    /\ mail'[v][d].sent = mail[v][d].sent /\ mail'[v][d].failed = mail[v][d].failed
    /\ IF v = u /\ d = now \div Day
         THEN /\ mail'[v][d].queued = mail[v][d].queued + 1
              /\ mail'[v][d].summaries = mail[v][d].summaries + s
         ELSE /\ mail'[v][d].queued = mail[v][d].queued
              /\ mail'[v][d].summaries = mail[v][d].summaries

LEMMA QueueEffect ==
  ASSUME MailType, now \in Times, NEW u \in Users, NEW s \in {0, 1}, mail' = Queue(u, s)
  PROVE  MailType' /\ Queued(u, s)
<1> DEFINE d0 == now \div Day
           m == [mail[u][d0] EXCEPT !.queued = mail[u][d0].queued + 1,
                                    !.summaries = mail[u][d0].summaries + s]
           days == [mail[u] EXCEPT ![d0] = m]
<1>1. d0 \in Days
  BY DayType
<1>2. mail' = [mail EXCEPT ![u] = days]
  BY <1>1 DEF Queue, MailType
<1> HIDE DEF d0
<1>3. /\ m \in Counters /\ m.sent = mail[u][d0].sent /\ m.failed = mail[u][d0].failed
      /\ m.queued = mail[u][d0].queued + 1 /\ m.summaries = mail[u][d0].summaries + s
  <2> DEFINE x == mail[u][d0]
  <2>1. x \in Counters
    BY <1>1 DEF MailType
  <2>a. x.queued + 1 \in Nat /\ x.summaries + s \in Nat
    <3>1. x.queued \in Nat /\ x.summaries \in Nat /\ s \in Nat
      BY <2>1 DEF Counters
    <3>2. QED
      BY <3>1
  <2> HIDE DEF x
  <2> DEFINE y == [x EXCEPT !.queued = x.queued + 1, !.summaries = x.summaries + s]
  <2>2. /\ y \in Counters /\ y.sent = x.sent /\ y.failed = x.failed
        /\ y.queued = x.queued + 1 /\ y.summaries = x.summaries + s
    BY <2>1, <2>a DEF Counters
  <2>3. QED
    BY <2>2 DEF x
<1> HIDE DEF m
<1>4. /\ days \in [Days -> Counters] /\ days[d0] = m
      /\ \A d \in Days : d # d0 => days[d] = mail[u][d]
  BY <1>1, <1>3 DEF MailType
<1> HIDE DEF days
<1>5. /\ MailType' /\ mail'[u] = days
      /\ \A v \in Users : v # u => mail'[v] = mail[v]
  BY <1>2, <1>4 DEF MailType
<1>6. QED
  BY <1>1, <1>3, <1>4, <1>5 DEF Queued, d0

\* One queued e-mail is sent or given up.
Delivered(u, d) ==
  /\ \A v \in Users, e \in Days : mail'[v][e].summaries = mail[v][e].summaries
  /\ \A v \in Users, e \in Days : v # u \/ e # d => mail'[v][e] = mail[v][e]
  /\ mail[u][d].queued > 0 /\ mail'[u][d].queued = mail[u][d].queued - 1
  /\ \/ mail'[u][d].sent = mail[u][d].sent + 1 /\ mail'[u][d].failed = mail[u][d].failed
     \/ mail'[u][d].sent = mail[u][d].sent /\ mail'[u][d].failed = mail[u][d].failed + 1

LEMMA DeliverEffect ==
  ASSUME MailType, NEW u \in Users, NEW d \in Days, NEW sent \in BOOLEAN, Deliver(u, d, sent)
  PROVE  MailType' /\ Delivered(u, d)
<1> DEFINE s == IF sent THEN mail[u][d].sent + 1 ELSE mail[u][d].sent
           f == IF sent THEN mail[u][d].failed ELSE mail[u][d].failed + 1
           m == [mail[u][d] EXCEPT !.queued = mail[u][d].queued - 1, !.sent = s, !.failed = f]
           days == [mail[u] EXCEPT ![d] = m]
<1>1. /\ mail[u][d] \in Counters /\ mail[u][d].queued > 0
      /\ s \in Nat /\ f \in Nat
      /\ \/ s = mail[u][d].sent + 1 /\ f = mail[u][d].failed
         \/ s = mail[u][d].sent /\ f = mail[u][d].failed + 1
  BY DEF MailType, Counters, Deliver
<1>2. mail' = [mail EXCEPT ![u] = days]
  BY DEF Deliver, MailType
<1> HIDE DEF s, f
<1>3. /\ m \in Counters /\ m.queued = mail[u][d].queued - 1 /\ m.sent = s /\ m.failed = f
      /\ m.summaries = mail[u][d].summaries
  <2> DEFINE x == mail[u][d]
  <2>1. x \in Counters /\ x.queued - 1 \in Nat /\ s \in Nat /\ f \in Nat
    BY <1>1 DEF Counters
  <2> HIDE DEF x
  <2> DEFINE y == [x EXCEPT !.queued = x.queued - 1, !.sent = s, !.failed = f]
  <2>2. /\ y \in Counters /\ y.queued = x.queued - 1 /\ y.sent = s /\ y.failed = f
        /\ y.summaries = x.summaries
    BY <2>1 DEF Counters
  <2>3. QED
    BY <2>2 DEF x
<1> HIDE DEF m
<1>4. /\ days \in [Days -> Counters] /\ days[d] = m
      /\ \A e \in Days : e # d => days[e] = mail[u][e]
  BY <1>3 DEF MailType
<1> HIDE DEF days
<1>5. /\ MailType' /\ mail'[u] = days
      /\ \A v \in Users : v # u => mail'[v] = mail[v]
  BY <1>2, <1>4 DEF MailType
<1>6. QED
  BY <1>1, <1>3, <1>4, <1>5 DEF Delivered

LEMMA TellEffect ==
  ASSUME told \in [Pairs -> Nat], NEW ps, Tell(ps)
  PROVE  /\ told' \in [Pairs -> Nat]
         /\ \A p \in Pairs : told'[p] = IF p \in ps THEN told[p] + 1 ELSE told[p]
  BY DEF Tell

-----------------------------------------------------------------------------
(* Counting and sending a summary. *)

LEMMA BucketFacts ==
  ASSUME NEW r \in Runs, NEW u \in Users
  PROVE  Bucket(r, u) \subseteq run[r].batch /\ \A p \in Bucket(r, u) : p[2] = u
  BY DEF Bucket, FirstWindow

LEMMA CountsRun ==
  ASSUME TInv, NEW r \in Runs, NEW u \in Users, CountSent(r, u)
  PROVE  /\ RType' /\ Others(r) /\ Flushes(r) /\ run'[r].batch = run[r].batch
         /\ \A v \in Users : v # u => run'[r].count[v] = run[r].count[v]
         /\ run'[r].count[u] \in Nat /\ run[r].count[u] = -1 /\ run[r].pc = "flush"
         /\ \A d \in Days : run[r].at \div Day <= d => mail[u][d].sent <= run'[r].count[u]
<1> DEFINE d0 == run[r].at \div Day
           since == {d \in Days : d >= d0}
           b == run[r].batch
           n == mail[u][d0].sent + (IF d0 + 1 \in since THEN mail[u][d0 + 1].sent ELSE 0)
<1>0. /\ run[r] \in RunStates /\ RType /\ run[r].at \in Times /\ b \in SUBSET Pairs
      /\ run[r].pc = "flush" /\ run[r].count[u] = -1 /\ MailType
  BY DEF TInv, TypeOK, RType, RunStates, CountSent, At, MailType, Counters
<1>1. d0 \in Days
  BY <1>0, DayType
<1>2. run' = [run EXCEPT ![r].count[u] = n]
  BY DEF CountSent
<1>3. n \in Nat /\ \A d \in Days : d0 <= d => mail[u][d].sent <= n
  <2>1. \A d \in Days : mail[u][d].sent \in Nat
    BY <1>0 DEF MailType, Counters
  <2>2. d0 \in {0, 1} /\ \A d \in Days : d \in {0, 1}
    BY <1>1, TwoDays
  <2>3. (IF d0 + 1 \in since THEN mail[u][d0 + 1].sent ELSE 0) \in Nat
    BY <2>1
  <2>4. n \in Nat
    BY <1>1, <2>1, <2>3
  <2> HIDE DEF d0
  <2>5. ASSUME NEW d \in Days, d0 <= d PROVE mail[u][d].sent <= n
    <3>1. CASE d = d0
      BY <1>1, <2>1, <2>3, <3>1
    <3>2. CASE d # d0
      <4>1. d = d0 + 1
        BY <2>2, <2>5, <3>2
      <4>2. d0 + 1 \in since
        BY <2>2, <2>5, <4>1
      <4>3. n = mail[u][d0].sent + mail[u][d].sent
        BY <4>1, <4>2
      <4>4. QED
        BY <1>1, <2>1, <4>3
    <3>3. QED
      BY <3>1, <3>2
  <2>6. QED
    BY <2>4, <2>5
<1> HIDE DEF n, d0
<1>4. CountSet(r, u, b, n)
  BY <1>0, <1>2 DEF RType, RunStates, CountSet
<1>5. RType' /\ Others(r) /\ Flushes(r) /\ run'[r].batch = b /\ run'[r].count[u] = n
      /\ \A v \in Users : v # u => run'[r].count[v] = run[r].count[v]
  BY <1>0, <1>3, <1>4, FlushEffect
<1>6. QED
  BY <1>0, <1>3, <1>5 DEF d0

LEMMA FlushRun ==
  ASSUME TInv, NEW r \in Runs, NEW u \in Users, Flush(r, u)
  PROVE  /\ RType' /\ Others(r) /\ Flushes(r) /\ run'[r].batch = run[r].batch \ Bucket(r, u)
         /\ run[r].pc = "flush" /\ run[r].count[u] \in Nat
         /\ \A v \in Users : v # u => run'[r].count[v] = run[r].count[v]
         /\ IF Capped(run[r].count[u])
              THEN run'[r].count[u] = run[r].count[u] /\ mail' = mail
              ELSE run'[r].count[u] = run[r].count[u] + 1 /\ mail' = Queue(u, 1)
<1> DEFINE b == run[r].batch \ Bucket(r, u)
           capped == Capped(run[r].count[u])
           n == IF capped THEN run[r].count[u] ELSE run[r].count[u] + 1
<1>0. /\ RType /\ b \in SUBSET Pairs /\ b \subseteq run[r].batch
      /\ run[r].pc = "flush" /\ run[r].count[u] \in Nat
  BY DEF TInv, TypeOK, RType, RunStates, Flush, At
<1>1. CountSet(r, u, b, n)
  BY DEF Flush, CountSet
<1>2. n \in Nat
  BY <1>0
<1>3. mail' = IF capped THEN mail ELSE Queue(u, 1)
  BY DEF Flush
<1> HIDE DEF b
<1>4. RType' /\ Others(r) /\ Flushes(r) /\ run'[r].batch = b /\ run'[r].count[u] = n
      /\ \A v \in Users : v # u => run'[r].count[v] = run[r].count[v]
  <2> HIDE DEF n
  <2> QED BY <1>0, <1>1, <1>2, FlushEffect
<1>5. QED
  BY <1>0, <1>3, <1>4 DEF b

-----------------------------------------------------------------------------
(* Every step keeps the types. *)

HoldsFired(r) == run[r].row \cup {p[1] : p \in run[r].batch} \subseteq fired

LEMMA OthersKeep ==
  ASSUME TInv, NEW r \in Runs, Others(r), rows \subseteq rows', fired \subseteq fired',
         now' = now, Shape(r)', HoldsFired(r)'
  PROVE  \A q \in Runs : Shape(q)' /\ HoldsFired(q)'
<1>1. ASSUME NEW q \in Runs, q # r PROVE Shape(q)' /\ HoldsFired(q)'
  <2>1. run'[q] = run[q] /\ Shape(q) /\ HoldsFired(q)
    BY <1>1 DEF Others, TInv, TypeOK, HoldsFired
  <2>2. Shape(q)'
    BY <2>1 DEF Shape
  <2>3. HoldsFired(q)'
    BY <2>1 DEF HoldsFired
  <2>4. QED
    BY <2>2, <2>3
<1>2. QED
  BY <1>1

\* What a step of a run does not touch, or only lets grow.
LEMMA StepKeepsType ==
  ASSUME TInv, NEW r \in Runs, RType', Others(r), now' = now,
         closing' = closing, watching' = watching,
         rows \subseteq rows', rows' \subseteq Rows, fired \subseteq fired', fired' \subseteq rows',
         MailType', edits' = edits, deaths' \in 0..MaxDeaths,
         told' \in [Pairs -> Nat], shared' \subseteq Rows, lost' \subseteq Pairs,
         late' \subseteq Users, Shape(r)', HoldsFired(r)'
  PROVE  TInv'
<1>1. \A q \in Runs : Shape(q)' /\ HoldsFired(q)'
  BY OthersKeep
<1>2. TypeOK'
  BY <1>1 DEF TInv, TypeOK, RType, MailType, Counters, HoldsFired
<1>3. QED
  BY <1>1, <1>2 DEF TInv

LEMMA TypeFacts ==
  ASSUME TInv
  PROVE  /\ RType /\ MailType /\ now \in Times /\ rows \subseteq Rows /\ fired \subseteq rows
         /\ told \in [Pairs -> Nat] /\ shared \subseteq Rows /\ lost \subseteq Pairs
         /\ late \subseteq Users /\ deaths \in 0..MaxDeaths /\ now \in Nat
         /\ closing \in [Tenders -> Closings] /\ watching \in [Users -> SUBSET Types]
         /\ \A r \in Runs : Shape(r) /\ HoldsFired(r) /\ run[r] \in RunStates
  BY DEF TInv, TypeOK, RType, MailType, Counters, HoldsFired, Times

LEMMA ResetsKeep ==
  ASSUME TInv, NEW r \in Runs, StartRun(r) \/ EndRun(r) \/ Dies(r)
  PROVE  TInv'
<1>1. RType' /\ Others(r) /\ Resets(r)
  BY TypeFacts, ResetsRun
<1>2. Shape(r)' /\ HoldsFired(r)'
  <2>1. rows' = rows /\ fired' = fired /\ now' = now
    BY DEF StartRun, EndRun, Dies
  <2>2. QED
    BY <1>1, <2>1, TypeFacts DEF Resets, Begun, Shape, HoldsFired
<1>3. Held(r) \subseteq Pairs
  BY TypeFacts DEF Held, RunStates, Pairs
<1>4. /\ rows' = rows /\ fired' = fired /\ now' = now /\ mail' = mail /\ told' = told
      /\ closing' = closing /\ watching' = watching /\ shared' = shared /\ late' = late
      /\ edits' = edits /\ lost' \subseteq Pairs /\ deaths' \in 0..MaxDeaths
  BY <1>3, TypeFacts DEF StartRun, EndRun, Dies, history
<1>5. MailType'
  BY <1>4, TypeFacts DEF MailType
<1>6. QED
  BY <1>1, <1>2, <1>4, <1>5, TypeFacts, StepKeepsType

LEMMA PlannedRows ==
  ASSUME TInv, NEW r \in Runs, PlanOne(r) \/ PlanTasks(r)
  PROVE  rows \subseteq rows' /\ rows' \subseteq Rows
<1>1. CASE PlanOne(r)
  <2> DEFINE x == CHOOSE x \in run[r].plan : TRUE
             wanted == {type \in Types : Plannable(x[2], type)
                                         /\ \E u \in Users : type \in watching[u]}
             new == {[tender |-> x[1], type |-> type, fireAt |-> x[2] - Lead[type]] :
                       type \in wanted}
  <2>1. x[1] \in Tenders /\ x[2] \in Closings
    <3>1. x \in Tenders \X Closings
      BY <1>1, TypeFacts DEF PlanOne, RunStates
    <3> HIDE DEF x
    <3>2. QED
      BY <3>1
  <2>2. rows' = rows \cup new
    BY <1>1 DEF PlanOne
  <2> HIDE DEF x
  <2>3. ASSUME NEW type \in wanted PROVE x[2] - Lead[type] \in Times
    <3>1. x[2] \in Closings /\ x[2] \in Nat /\ Lead[type] \in Nat /\ now \in Nat
      BY <2>1, TypeFacts
    <3>2. x[2] - Lead[type] > now
      BY DEF Plannable
    <3>3. x[2] - Lead[type] <= MaxNow
      BY <3>1
    <3>4. QED
      BY <3>1, <3>2, <3>3 DEF Times
  <2>4. new \subseteq Rows
    BY <2>1, <2>3 DEF Rows
  <2>5. QED
    BY <2>2, <2>4, TypeFacts
<1>2. CASE PlanTasks(r)
  BY <1>2, TypeFacts DEF PlanTasks
<1>3. QED
  BY <1>1, <1>2

LEMMA PlansKeep ==
  ASSUME TInv, NEW r \in Runs, PlanOne(r) \/ PlanTasks(r)
  PROVE  TInv'
<1>1. RType' /\ Others(r) /\ Plans(r)
  BY TypeFacts, PlansRun
<1>2. rows \subseteq rows' /\ rows' \subseteq Rows
  BY PlannedRows
<1>3. /\ fired' = fired /\ now' = now /\ mail' = mail /\ told' = told /\ deaths' = deaths
      /\ closing' = closing /\ watching' = watching /\ shared' = shared /\ late' = late
      /\ edits' = edits /\ lost' = lost
  BY DEF PlanOne, PlanTasks, history
<1>4. Shape(r)'
  BY <1>1, <1>2, <1>3, TypeFacts DEF Plans, Same, Shape
<1>5. HoldsFired(r)'
  BY <1>1, <1>3, TypeFacts DEF Plans, Same, HoldsFired
<1>6. MailType'
  BY <1>3, TypeFacts DEF MailType
<1>7. QED
  BY <1>1, <1>2, <1>3, <1>4, <1>5, <1>6, TypeFacts, StepKeepsType

LEMMA FindsKeep ==
  ASSUME TInv, NEW r \in Runs, FindDue(r)
  PROVE  TInv'
<1>1. RType' /\ Others(r) /\ Finds(r)
  BY FindsRun
<1>2. Due \subseteq rows /\ Due \subseteq Rows
  BY TypeFacts DEF Due
<1>3. /\ rows' = rows /\ fired' = fired /\ now' = now /\ mail' = mail /\ told' = told
      /\ deaths' = deaths /\ closing' = closing /\ watching' = watching /\ late' = late
      /\ edits' = edits /\ lost' = lost /\ shared' \subseteq Rows
  BY <1>2, TypeFacts DEF FindDue
<1>4. Shape(r)'
  BY <1>1, <1>2, <1>3, TypeFacts DEF Finds, Shape
<1>5. HoldsFired(r)'
  BY <1>1, <1>3, TypeFacts DEF Finds, HoldsFired
<1>6. MailType'
  BY <1>3, TypeFacts DEF MailType
<1>7. QED
  BY <1>1, <1>3, <1>4, <1>5, <1>6, TypeFacts, StepKeepsType

LEMMA StampsKeep ==
  ASSUME TInv, NEW r \in Runs, NEW x \in run[r].due, Stamp(r, x)
  PROVE  TInv'
<1>1. RType' /\ Others(r) /\ Stamps(r, x)
  BY StampsRun
<1>2. x \in rows /\ x \in Rows
  BY TypeFacts DEF Shape
<1>3. /\ rows' = rows /\ fired' = fired \cup {x} /\ now' = now /\ mail' = mail /\ told' = told
      /\ deaths' = deaths /\ closing' = closing /\ watching' = watching /\ late' = late
      /\ edits' = edits /\ lost' = lost /\ shared' = shared
  BY DEF Stamp, history
<1>4. Shape(r)'
  BY <1>1, <1>2, <1>3, TypeFacts DEF Stamps, Shape
<1>5. HoldsFired(r)'
  BY <1>1, <1>3, TypeFacts DEF Stamps, HoldsFired
<1>6. MailType'
  BY <1>3, TypeFacts DEF MailType
<1>7. QED
  BY <1>1, <1>2, <1>3, <1>4, <1>5, <1>6, TypeFacts, StepKeepsType

LEMMA CollectsKeep ==
  ASSUME TInv, NEW r \in Runs, Collect(r) \/ EmitDone(r) \/ StartFlush(r)
  PROVE  TInv'
<1>1. /\ rows' = rows /\ fired' = fired /\ now' = now /\ mail' = mail /\ told' = told
      /\ deaths' = deaths /\ closing' = closing /\ watching' = watching /\ late' = late
      /\ edits' = edits /\ lost' = lost /\ shared' = shared
  BY DEF Collect, EmitDone, StartFlush, history
<1>2. RType' /\ Others(r) /\ Shape(r)' /\ HoldsFired(r)'
  <2>1. CASE Collect(r)
    <3>1. RType' /\ Others(r) /\ ((\E x \in Rows : Batches(r, x)) \/ Lists(r))
      BY <2>1, CollectsRun
    <3>2. ASSUME NEW x \in Rows, Batches(r, x) PROVE Shape(r)' /\ HoldsFired(r)'
      <4>1. Shape(r)'
        BY <1>1, <3>2, TypeFacts DEF Batches, Shape
      <4>2. \A p \in run'[r].batch : p \in run[r].batch \/ p[1] = x
        BY <3>2 DEF Batches
      <4>3. QED
        BY <1>1, <3>2, <4>1, <4>2, TypeFacts DEF Batches, HoldsFired
    <3>3. CASE Lists(r)
      <4>1. Shape(r)'
        BY <1>1, <3>3, TypeFacts DEF Lists, Shape
      <4>2. run'[r].row = run[r].row /\ run'[r].batch = run[r].batch /\ HoldsFired(r)
        BY <3>3, TypeFacts DEF Lists
      <4>3. HoldsFired(r)'
        BY <1>1, <4>2 DEF HoldsFired
      <4>4. QED
        BY <3>1, <4>1, <4>3
    <3>4. QED
      BY <3>1, <3>2, <3>3
  <2>2. CASE EmitDone(r)
    <3>1. RType' /\ Others(r) /\ Closes(r)
      BY <2>2, ClosesRun
    <3>2. Shape(r)'
      BY <1>1, <3>1, TypeFacts DEF Closes, Shape
    <3>3. QED
      BY <1>1, <3>1, <3>2, TypeFacts DEF Closes, HoldsFired
  <2>3. CASE StartFlush(r)
    <3>1. RType' /\ Others(r) /\ Flushes(r) /\ run'[r].batch = run[r].batch
      BY <2>3, StartFlushRun
    <3>2. Shape(r)'
      BY <1>1, <3>1, TypeFacts DEF Flushes, Shape
    <3>3. QED
      BY <1>1, <3>1, <3>2, TypeFacts DEF Flushes, HoldsFired
  <2>4. QED
    BY <2>1, <2>2, <2>3
<1>3. MailType'
  BY <1>1, TypeFacts DEF MailType
<1>4. QED
  BY <1>1, <1>2, <1>3, TypeFacts, StepKeepsType

LEMMA EmitsKeep ==
  ASSUME TInv, NEW r \in Runs, EmitUrgent(r)
  PROVE  TInv'
<1>1. PICK u \in Users : /\ RType' /\ Others(r) /\ Emits(r, u) /\ Tell(run[r].row \X {u})
                         /\ mail' = Queue(u, 0)
  BY EmitsRun
<1>2. MailType' /\ told' \in [Pairs -> Nat]
  BY <1>1, TypeFacts, QueueEffect, TellEffect
<1>3. /\ rows' = rows /\ fired' = fired /\ now' = now /\ deaths' = deaths
      /\ closing' = closing /\ watching' = watching /\ late' = late
      /\ edits' = edits /\ lost' = lost /\ shared' = shared
  BY DEF EmitUrgent
<1>4. Shape(r)'
  BY <1>1, <1>3, TypeFacts DEF Emits, Shape
<1>5. HoldsFired(r)'
  BY <1>1, <1>3, TypeFacts DEF Emits, HoldsFired
<1>6. QED
  BY <1>1, <1>2, <1>3, <1>4, <1>5, TypeFacts, StepKeepsType

LEMMA FlushesKeep ==
  ASSUME TInv, NEW r \in Runs, NEW u \in Users, CountSent(r, u) \/ Flush(r, u)
  PROVE  TInv'
<1>1. /\ rows' = rows /\ fired' = fired /\ now' = now /\ deaths' = deaths
      /\ closing' = closing /\ watching' = watching /\ late' \subseteq Users
      /\ edits' = edits /\ lost' = lost /\ shared' = shared
  BY TypeFacts DEF CountSent, Flush
<1>2. RType' /\ Others(r) /\ Flushes(r)
  BY CountsRun, FlushRun
<1>3. MailType' /\ told' \in [Pairs -> Nat]
  <2>1. CASE CountSent(r, u)
    BY <2>1, TypeFacts DEF CountSent, MailType
  <2>2. CASE Flush(r, u)
    <3>1. mail' = mail \/ mail' = Queue(u, 1)
      BY <2>2, FlushRun
    <3>2. told' \in [Pairs -> Nat]
      BY <2>2, TypeFacts, TellEffect DEF Flush
    <3>3. CASE mail' = mail
      BY <3>2, <3>3, TypeFacts DEF MailType
    <3>4. CASE mail' = Queue(u, 1)
      BY <3>2, <3>4, TypeFacts, QueueEffect
    <3>5. QED
      BY <3>1, <3>3, <3>4
  <2>3. QED
    BY <2>1, <2>2
<1>4. Shape(r)'
  BY <1>1, <1>2, TypeFacts DEF Flushes, Shape
<1>5. HoldsFired(r)'
  BY <1>1, <1>2, TypeFacts DEF Flushes, HoldsFired
<1>6. QED
  BY <1>1, <1>2, <1>3, <1>4, <1>5, TypeFacts, StepKeepsType

\* The steps that are no run's.
Outside ==
  \/ \E u \in Users, d \in Days, sent \in BOOLEAN : Deliver(u, d, sent)
  \/ \E u \in Users, types \in SUBSET Types : EditWatch(u, types)
  \/ \E t \in Tenders, c \in Closings : MoveClosing(t, c)
  \/ Tick
  \/ UNCHANGED vars

LEMMA OutsideFacts ==
  ASSUME TInv, Outside
  PROVE  /\ rows' = rows /\ fired' = fired /\ run' = run /\ history' = history /\ now <= now'
         /\ deaths' = deaths /\ MailType'
         /\ mail' = mail \/ \E u \in Users, d \in Days : Delivered(u, d)
<1>1. ASSUME NEW u \in Users, NEW d \in Days, NEW sent \in BOOLEAN, Deliver(u, d, sent)
      PROVE  /\ rows' = rows /\ fired' = fired /\ run' = run /\ history' = history /\ now <= now'
             /\ deaths' = deaths /\ MailType' /\ Delivered(u, d)
  <2>1. MailType' /\ Delivered(u, d)
    BY <1>1, TypeFacts, DeliverEffect
  <2>2. QED
    BY <1>1, <2>1, TypeFacts DEF Deliver
<1>2. ASSUME ~ \E u \in Users, d \in Days, sent \in BOOLEAN : Deliver(u, d, sent)
      PROVE  /\ rows' = rows /\ fired' = fired /\ run' = run /\ history' = history /\ now <= now'
             /\ deaths' = deaths /\ mail' = mail
  BY <1>2, TypeFacts DEF Outside, EditWatch, MoveClosing, Tick, vars
<1>3. ASSUME mail' = mail PROVE MailType'
  BY <1>3, TypeFacts DEF MailType
<1>4. QED
  BY <1>1, <1>2, <1>3

LEMMA OutsideKeeps ==
  ASSUME TInv, Outside
  PROVE  TInv'
<1>1. /\ rows' = rows /\ fired' = fired /\ run' = run /\ history' = history /\ now <= now'
      /\ deaths' = deaths /\ MailType'
  BY OutsideFacts
<1>2. /\ now' \in Times /\ closing' \in [Tenders -> Closings]
      /\ watching' \in [Users -> SUBSET Types] /\ edits' \in 0..MaxEdits
  <2>1. /\ now \in Times /\ now \in Nat /\ MaxNow \in Nat
        /\ closing \in [Tenders -> Closings] /\ watching \in [Users -> SUBSET Types]
        /\ edits \in 0..MaxEdits /\ MaxEdits \in Nat
    BY TypeFacts DEF TInv, TypeOK
  <2>2. CASE \E u \in Users, d \in Days, sent \in BOOLEAN : Deliver(u, d, sent)
    BY <2>1, <2>2 DEF Deliver
  <2>3. CASE \E u \in Users, types \in SUBSET Types : EditWatch(u, types)
    BY <2>1, <2>3 DEF EditWatch
  <2>4. CASE \E t \in Tenders, c \in Closings : MoveClosing(t, c)
    BY <2>1, <2>4 DEF MoveClosing
  <2>5. CASE Tick
    BY <2>1, <2>5 DEF Tick, Times
  <2>6. CASE UNCHANGED vars
    BY <2>1, <2>6 DEF vars
  <2>7. QED
    BY <2>2, <2>3, <2>4, <2>5, <2>6 DEF Outside
<1>3. TypeOK'
  BY <1>1, <1>2 DEF TInv, TypeOK, MailType, Counters, history
<1>4. ASSUME NEW r \in Runs PROVE Shape(r)'
  BY <1>1, <1>2, TypeFacts DEF Shape, RunStates, Times
<1>5. QED
  BY <1>3, <1>4 DEF TInv

\* Next, with the steps of a run one by one.
LEMMA Steps ==
  ASSUME [Next]_vars
  PROVE  \/ Outside
         \/ \E r \in Runs :
              \/ StartRun(r) \/ EndRun(r) \/ Dies(r)
              \/ PlanOne(r) \/ PlanTasks(r) \/ FindDue(r)
              \/ \E x \in run[r].due : Stamp(r, x)
              \/ Collect(r) \/ EmitDone(r) \/ StartFlush(r) \/ EmitUrgent(r)
              \/ \E u \in Users : CountSent(r, u) \/ Flush(r, u)
  BY DEF Next, Work, Outside

LEMMA TypeNext ==
  ASSUME TInv, [Next]_vars
  PROVE  TInv'
  BY Steps, ResetsKeep, PlansKeep, FindsKeep, StampsKeep, CollectsKeep, EmitsKeep,
     FlushesKeep, OutsideKeeps

LEMMA TypeInit ==
  ASSUME Init
  PROVE  TInv
<1>1. RType /\ now \in Times /\ 0 \in Times
  BY IdleType DEF Init, RType, Times
<1>2. mail \in [Users -> [Days -> Counters]]
  BY DEF Init, Counters
<1>3. told \in [Pairs -> Nat] /\ watching \in [Users -> SUBSET Types]
  BY DEF Init
<1>4. \A r \in Runs : run[r] = Idle
  BY DEF Init
<1>5. TypeOK
  BY <1>1, <1>2, <1>3, <1>4, IdleType DEF TypeOK, Init, RType, Counters
<1>6. \A r \in Runs : Shape(r)
  BY <1>1, <1>4, IdleType DEF Shape, Init
<1>7. QED
  BY <1>5, <1>6 DEF TInv

\* A run, the rows and the counters have their types, and a run holds stamped
\* rows only (cited for TypeOK).
THEOREM TypeCorrect == Spec => []TypeOK
<1>1. TInv /\ UNCHANGED vars => TInv'
  BY TypeNext
<1>2. Spec => []TInv
  BY TypeInit, TypeNext, PTL DEF Spec
<1>3. TInv => TypeOK
  BY DEF TInv
<1>4. QED
  BY <1>2, <1>3, PTL

-----------------------------------------------------------------------------
(* A row is handled by one run, unless two had fetched it at once. *)

Touches(r, x) == \/ x \in run[r].due \cup run[r].row
                 \/ \E u \in Users : <<x, u>> \in run[r].batch

Fresh == \A x \in Rows \ fired, u \in Users : told[<<x, u>>] = 0

OneRun(x) == \A r, q \in Runs : Touches(r, x) /\ Touches(q, x) => r = q

\* What a run has not yet told anybody of.
Untold(r, x) ==
  /\ x \in run[r].due => x \notin fired
  /\ \A u \in Users :
       /\ <<x, u>> \in run[r].batch => told[<<x, u>>] = 0
       /\ x \in run[r].row =>
            /\ <<x, u>> \notin run[r].batch
            /\ u \in run[r].todo \/ run[r].pc = "collect" => told[<<x, u>>] = 0

AtMostOnce(x) == \A u \in Users : told[<<x, u>>] <= 1

Once ==
  /\ Fresh
  /\ \A x \in Rows \ shared : OneRun(x) /\ AtMostOnce(x) /\ \A r \in Runs : Untold(r, x)

PairFacts(x) == \A u \in Users : <<x, u>> \in Pairs

LEMMA InPairs == \A x \in Rows : PairFacts(x)
  BY DEF PairFacts, Pairs

\* A step of r keeps Once if it is right about what r holds, and changes only
\* what r touches.
LEMMA OnceStep ==
  ASSUME Once, NEW r \in Runs, Others(r), shared \subseteq shared', Fresh',
         \A x \in Rows \ shared' :
           /\ \/ Touches(r, x)
              \/ /\ x \in fired' <=> x \in fired
                 /\ \A u \in Users : told'[<<x, u>>] = told[<<x, u>>]
           /\ Touches(r, x)' => Touches(r, x) \/ \A q \in Runs \ {r} : ~Touches(q, x)
           /\ Untold(r, x)' /\ AtMostOnce(x)'
  PROVE  Once'
<1>1. ASSUME NEW x \in Rows \ shared', NEW q \in Runs, q # r
      PROVE  (Touches(q, x)' <=> Touches(q, x)) /\ Untold(q, x)'
  <2>1. run'[q] = run[q] /\ OneRun(x) /\ Untold(q, x)
    BY <1>1 DEF Others, Once
  <2>2. Touches(q, x)' <=> Touches(q, x)
    BY <2>1 DEF Touches
  <2>3. CASE Touches(r, x)
    <3>1. ~Touches(q, x)
      BY <1>1, <2>1, <2>3 DEF OneRun
    <3>2. QED
      BY <2>1, <2>2, <3>1 DEF Touches, Untold
  <2>4. CASE ~Touches(r, x)
    <3>1. (x \in fired' <=> x \in fired) /\ \A u \in Users : told'[<<x, u>>] = told[<<x, u>>]
      BY <1>1, <2>4
    <3>2. QED
      BY <2>1, <2>2, <3>1 DEF Untold
  <2>5. QED
    BY <2>3, <2>4
<1>2. ASSUME NEW x \in Rows \ shared'
      PROVE  OneRun(x)' /\ AtMostOnce(x)' /\ \A q \in Runs : Untold(q, x)'
  <2>1. OneRun(x)
    BY <1>2 DEF Once
  <2>2. ASSUME NEW p \in Runs, NEW q \in Runs, Touches(p, x)', Touches(q, x)' PROVE p = q
    <3>1. CASE p # r /\ q # r
      BY <1>1, <2>1, <2>2, <3>1 DEF OneRun
    <3>2. CASE p = r /\ q # r
      BY <1>1, <1>2, <2>1, <2>2, <3>2 DEF OneRun
    <3>3. CASE q = r /\ p # r
      BY <1>1, <1>2, <2>1, <2>2, <3>3 DEF OneRun
    <3>4. QED
      BY <3>1, <3>2, <3>3
  <2>3. OneRun(x)'
    BY <2>2 DEF OneRun
  <2>4. QED
    BY <1>1, <1>2, <2>3
<1>3. QED
  BY <1>2 DEF Once

\* The same for a step that tells nobody and stamps nothing.
LEMMA QuietStep ==
  ASSUME TInv, Once, NEW r \in Runs, Others(r),
         fired' = fired, told' = told, shared' = shared,
         \A x \in Rows \ shared :
           (Touches(r, x)' => Touches(r, x)) /\ (Untold(r, x) => Untold(r, x)')
  PROVE  Once'
<1>1. Fresh'
  BY DEF Once, Fresh
<1>2. \A x \in Rows \ shared' : AtMostOnce(x)'
  BY DEF Once, AtMostOnce
<1>3. \A x \in Rows \ shared' : Untold(r, x)'
  BY DEF Once
<1>4. QED
  BY <1>1, <1>2, <1>3, OnceStep

LEMMA QuietRuns ==
  ASSUME TInv, Once, NEW r \in Runs,
         \/ StartRun(r) \/ EndRun(r) \/ Dies(r) \/ PlanOne(r) \/ PlanTasks(r)
         \/ Collect(r) \/ EmitDone(r) \/ StartFlush(r)
         \/ \E u \in Users : CountSent(r, u)
  PROVE  Once'
<1>1. fired' = fired /\ told' = told /\ shared' = shared
  BY DEF StartRun, EndRun, Dies, PlanOne, PlanTasks, Collect, EmitDone, StartFlush, CountSent,
     history
<1>2. SUFFICES Others(r) /\ \A x \in Rows \ shared :
                 (Touches(r, x)' => Touches(r, x)) /\ (Untold(r, x) => Untold(r, x)')
  BY <1>1, QuietStep
<1>3. CASE StartRun(r) \/ EndRun(r) \/ Dies(r)
  <2>1. Others(r) /\ Resets(r)
    BY <1>3, TypeFacts, ResetsRun
  <2>2. QED
    BY <2>1 DEF Resets, Begun, Touches, Untold
<1>4. CASE PlanOne(r) \/ PlanTasks(r)
  <2>1. Others(r) /\ Plans(r)
    BY <1>4, TypeFacts, PlansRun
  <2>2. QED
    BY <1>1, <2>1 DEF Plans, Same, Touches, Untold
<1>5. CASE Collect(r)
  <2>1. Others(r) /\ ((\E y \in Rows : Batches(r, y)) \/ Lists(r))
    BY <1>5, CollectsRun
  <2>2. ASSUME NEW y \in Rows, Batches(r, y), NEW x \in Rows \ shared
        PROVE  (Touches(r, x)' => Touches(r, x)) /\ (Untold(r, x) => Untold(r, x)')
    <3>1. \A u \in Users : <<x, u>> \in run'[r].batch =>
            <<x, u>> \in run[r].batch \/ x = y
      BY <2>2 DEF Batches
    <3>2. y \in run[r].row /\ run[r].pc = "collect" /\ run'[r].due = run[r].due
          /\ run'[r].row = {}
      BY <2>2 DEF Batches
    <3>3. Touches(r, x)' => Touches(r, x)
      BY <3>1, <3>2 DEF Touches
    <3>4. Untold(r, x) => Untold(r, x)'
      BY <1>1, <3>1, <3>2 DEF Untold
    <3>5. QED
      BY <3>3, <3>4
  <2>3. ASSUME Lists(r), NEW x \in Rows \ shared
        PROVE  (Touches(r, x)' => Touches(r, x)) /\ (Untold(r, x) => Untold(r, x)')
    BY <1>1, <2>3 DEF Lists, Touches, Untold
  <2>4. QED
    BY <2>1, <2>2, <2>3
<1>6. CASE EmitDone(r)
  <2>1. Others(r) /\ Closes(r)
    BY <1>6, ClosesRun
  <2>2. QED
    BY <1>1, <2>1 DEF Closes, Touches, Untold
<1>7. CASE StartFlush(r) \/ \E u \in Users : CountSent(r, u)
  <2>1. Others(r) /\ Flushes(r) /\ run'[r].batch = run[r].batch
    BY <1>7, StartFlushRun, CountsRun
  <2>2. QED
    BY <1>1, <2>1 DEF Flushes, Touches, Untold
<1>8. QED
  BY <1>3, <1>4, <1>5, <1>6, <1>7

LEMMA FindsOnce ==
  ASSUME TInv, Once, NEW r \in Runs, FindDue(r)
  PROVE  Once'
<1>1. Others(r) /\ Finds(r) /\ run[r].batch = {} /\ run[r].row = {} /\ run[r].todo = {}
  BY FindsRun, TypeFacts DEF Finds, Shape
<1>2. /\ fired' = fired /\ told' = told
      /\ shared' = shared \cup (Due \cap UNION {run[q].due \cup run[q].row : q \in Runs \ {r}})
  BY DEF FindDue
<1>3. Fresh'
  BY <1>2 DEF Once, Fresh
<1>4. ASSUME NEW x \in Rows \ shared'
      PROVE  /\ Touches(r, x)' => \A q \in Runs \ {r} : ~Touches(q, x)
             /\ Untold(r, x)' /\ AtMostOnce(x)'
  <2>1. Touches(r, x)' <=> x \in Due
    BY <1>1 DEF Touches, Finds
  <2>2. ASSUME x \in Due, NEW q \in Runs \ {r} PROVE ~Touches(q, x)
    <3>1. x \notin fired
      BY <2>2 DEF Due
    <3>2. x \notin run[q].due \cup run[q].row
      BY <1>2, <1>4, <2>2
    <3>3. \A u \in Users : <<x, u>> \notin run[q].batch
      <4>1. HoldsFired(q)
        BY TypeFacts
      <4>2. \A p \in run[q].batch : p[1] # x
        BY <3>1, <4>1 DEF HoldsFired
      <4>3. QED
        BY <4>2
    <3>4. QED
      BY <3>2, <3>3 DEF Touches
  <2>3. Untold(r, x)'
    BY <1>1, <1>2 DEF Untold, Finds, Due
  <2>4. AtMostOnce(x)'
    BY <1>2 DEF Once, AtMostOnce
  <2>5. QED
    BY <2>1, <2>2, <2>3, <2>4
<1>5. QED
  BY <1>1, <1>2, <1>3, <1>4, OnceStep

LEMMA StampsOnce ==
  ASSUME TInv, Once, NEW r \in Runs, NEW x \in run[r].due, Stamp(r, x)
  PROVE  Once'
<1>1. Others(r) /\ Stamps(r, x) /\ run[r].row = {} /\ x \in Rows
  BY StampsRun, TypeFacts DEF Stamps, Shape
<1>2. fired' = fired \cup {x} /\ told' = told /\ shared' = shared
  BY DEF Stamp, history
<1>3. Fresh'
  BY <1>2 DEF Once, Fresh
<1>4. ASSUME NEW y \in Rows \ shared'
      PROVE  /\ Touches(r, y) \/ (y \in fired' <=> y \in fired)
             /\ Touches(r, y)' => Touches(r, y)
             /\ Untold(r, y)' /\ AtMostOnce(y)'
  <2>1. Untold(r, y)
    BY <1>2, <1>4 DEF Once
  <2>2. Untold(r, y)'
    <3>1. CASE y = x
      <4>1. x \notin fired
        BY <2>1, <3>1 DEF Untold
      <4>2. \A u \in Users : told[<<x, u>>] = 0
        BY <1>1, <4>1 DEF Once, Fresh
      <4>3. \A u \in Users : <<x, u>> \notin run[r].batch
        <5>1. \A p \in run[r].batch : p[1] # x
          BY <4>1, TypeFacts DEF HoldsFired
        <5>2. QED
          BY <5>1
      <4>4. QED
        BY <1>1, <1>2, <3>1, <4>2, <4>3 DEF Untold, Stamps
    <3>2. CASE y # x
      BY <1>1, <1>2, <2>1, <3>2 DEF Untold, Stamps
    <3>3. QED
      BY <3>1, <3>2
  <2>3. Touches(r, y)' => Touches(r, y)
    BY <1>1 DEF Touches, Stamps
  <2>4. AtMostOnce(y)'
    BY <1>2, <1>4 DEF Once, AtMostOnce
  <2>5. Touches(r, y) \/ (y \in fired' <=> y \in fired)
    BY <1>2 DEF Touches
  <2>6. QED
    BY <2>2, <2>3, <2>4, <2>5
<1>5. QED
  BY <1>1, <1>2, <1>3, <1>4, OnceStep

LEMMA EmitsOnce ==
  ASSUME TInv, Once, NEW r \in Runs, EmitUrgent(r)
  PROVE  Once'
<1>1. PICK u \in Users : /\ Others(r) /\ Emits(r, u) /\ Tell(run[r].row \X {u})
  BY EmitsRun
<1>2. fired' = fired /\ shared' = shared
  BY DEF EmitUrgent
<1>3. \A y \in Rows, v \in Users :
        told'[<<y, v>>] = IF y \in run[r].row /\ v = u THEN told[<<y, v>>] + 1
                          ELSE told[<<y, v>>]
  <2>1. \A p \in Pairs : told'[p] = IF p \in run[r].row \X {u} THEN told[p] + 1 ELSE told[p]
    BY <1>1, TypeFacts, TellEffect
  <2>2. \A y \in Rows, v \in Users :
          <<y, v>> \in Pairs /\ (<<y, v>> \in run[r].row \X {u} <=> y \in run[r].row /\ v = u)
    BY InPairs DEF PairFacts
  <2>3. QED
    BY <2>1, <2>2
<1>4. run[r].row \subseteq fired
  BY TypeFacts DEF HoldsFired
<1>5. Fresh'
  BY <1>2, <1>3, <1>4 DEF Once, Fresh
<1>6. ASSUME NEW y \in Rows \ shared'
      PROVE  /\ Touches(r, y) \/ \A v \in Users : told'[<<y, v>>] = told[<<y, v>>]
             /\ Touches(r, y)' => Touches(r, y)
             /\ Untold(r, y)' /\ AtMostOnce(y)'
  <2>1. Untold(r, y) /\ AtMostOnce(y)
    BY <1>2, <1>6 DEF Once
  <2>2. Touches(r, y)' => Touches(r, y)
    BY <1>1 DEF Touches, Emits
  <2>3. Untold(r, y)'
    BY <1>1, <1>2, <1>3, <2>1 DEF Untold, Emits
  <2>4. AtMostOnce(y)'
    BY <1>1, <1>3, <2>1 DEF Untold, AtMostOnce, Emits
  <2>5. Touches(r, y) \/ \A v \in Users : told'[<<y, v>>] = told[<<y, v>>]
    BY <1>3 DEF Touches
  <2>6. QED
    BY <2>2, <2>3, <2>4, <2>5
<1>7. QED
  BY <1>1, <1>2, <1>5, <1>6, OnceStep

LEMMA FlushOnce ==
  ASSUME TInv, Once, NEW r \in Runs, NEW u \in Users, Flush(r, u)
  PROVE  Once'
<1> DEFINE B == Bucket(r, u)
<1>1. /\ Others(r) /\ Flushes(r) /\ run'[r].batch = run[r].batch \ B
      /\ B \subseteq run[r].batch /\ run[r].row = {} /\ run[r].pc = "flush"
  BY FlushRun, BucketFacts, TypeFacts DEF Shape
<1>2. fired' = fired /\ shared' = shared /\ Tell(B)
  BY DEF Flush
<1>3. \A y \in Rows, v \in Users :
        told'[<<y, v>>] = IF <<y, v>> \in B THEN told[<<y, v>>] + 1 ELSE told[<<y, v>>]
  BY <1>2, TypeFacts, TellEffect, InPairs DEF PairFacts
<1> HIDE DEF B
<1>4. \A y \in Rows, v \in Users : <<y, v>> \in B => y \in fired
  <2>1. \A p \in run[r].batch : p[1] \in fired
    BY TypeFacts DEF HoldsFired
  <2>2. QED
    BY <1>1, <2>1
<1>5. Fresh'
  BY <1>2, <1>3, <1>4 DEF Once, Fresh
<1>6. ASSUME NEW y \in Rows \ shared'
      PROVE  /\ Touches(r, y) \/ \A v \in Users : told'[<<y, v>>] = told[<<y, v>>]
             /\ Touches(r, y)' => Touches(r, y)
             /\ Untold(r, y)' /\ AtMostOnce(y)'
  <2>1. Untold(r, y) /\ AtMostOnce(y)
    BY <1>2, <1>6 DEF Once
  <2>2. Touches(r, y)' => Touches(r, y)
    BY <1>1 DEF Touches, Flushes
  <2>3. Untold(r, y)'
    BY <1>1, <1>2, <1>3, <2>1 DEF Untold, Flushes
  <2>4. AtMostOnce(y)'
    BY <1>1, <1>3, <2>1 DEF Untold, AtMostOnce
  <2>5. Touches(r, y) \/ \A v \in Users : told'[<<y, v>>] = told[<<y, v>>]
    BY <1>1, <1>3 DEF Touches
  <2>6. QED
    BY <2>2, <2>3, <2>4, <2>5
<1>7. QED
  BY <1>1, <1>2, <1>5, <1>6, OnceStep

LEMMA OutsideOnce ==
  ASSUME TInv, Once, Outside
  PROVE  Once'
<1>1. run' = run /\ fired' = fired /\ told' = told /\ shared' = shared
  BY OutsideFacts DEF history
<1>2. QED
  BY <1>1 DEF Once, Fresh, OneRun, AtMostOnce, Untold, Touches

LEMMA OnceNext ==
  ASSUME TInv, Once, [Next]_vars
  PROVE  Once'
  BY Steps, QuietRuns, FindsOnce, StampsOnce, EmitsOnce, FlushOnce, OutsideOnce

LEMMA OnceInit ==
  ASSUME Init
  PROVE  Once
<1>1. \A r \in Runs : run[r].due = {} /\ run[r].row = {} /\ run[r].batch = {}
  BY IdleType DEF Init
<1>2. \A x \in Rows, u \in Users : told[<<x, u>>] = 0
  BY InPairs DEF Init, PairFacts
<1>3. Fresh /\ \A x \in Rows : AtMostOnce(x)
  BY <1>2 DEF Fresh, AtMostOnce
<1>4. \A x \in Rows : OneRun(x) /\ \A r \in Runs : Untold(r, x)
  BY <1>1 DEF OneRun, Untold, Touches
<1>5. QED
  BY <1>3, <1>4 DEF Once

-----------------------------------------------------------------------------
(* However many runs had fetched a row, each of them tells a user of it once. *)

\* The run may still tell the user of the row.
MayTell(r, x, u) ==
  \/ x \in run[r].due
  \/ x \in run[r].row /\ (run[r].pc = "collect" \/ u \in run[r].todo)
  \/ <<x, u>> \in run[r].batch
Tellers(x, u) == {r \in Runs : MayTell(r, x, u)}

\* A run holds a row in one place at a time.
OnePlace(r, x) ==
  /\ x \in run[r].due => x \notin run[r].row
  /\ x \in run[r].due \cup run[r].row => \A u \in Users : <<x, u>> \notin run[r].batch

\* A run that has told the user is no longer one that may, and none becomes one
\* once the row is stamped.
ToldBy(x, u) == told[<<x, u>>] + Cardinality(Tellers(x, u)) <= Cardinality(Runs)

Few ==
  /\ \A r \in Runs, x \in Rows : OnePlace(r, x)
  /\ \A x \in Rows, u \in Users : ToldBy(x, u)

LEMMA RunCount ==
  ASSUME NEW S \in SUBSET Runs
  PROVE  /\ IsFiniteSet(S) /\ Cardinality(S) \in Nat /\ Cardinality(Runs) \in Nat
         /\ Cardinality(S) <= Cardinality(Runs)
  BY ReminderAssumption, FS_Subset, FS_CardinalityType

LEMMA OneLessRun ==
  ASSUME NEW S \in SUBSET Runs, NEW T \in SUBSET S, NEW r \in S \ T
  PROVE  Cardinality(T) + 1 <= Cardinality(S)
<1>1. /\ IsFiniteSet(S) /\ IsFiniteSet(S \ {r}) /\ Cardinality(S) \in Nat
      /\ Cardinality(S \ {r}) = Cardinality(S) - 1
  BY RunCount, FS_RemoveElement
<1>2. Cardinality(T) <= Cardinality(S \ {r}) /\ Cardinality(T) \in Nat
  BY <1>1, RunCount, FS_Subset
<1>3. QED
  BY <1>1, <1>2

LEMMA FewStep ==
  ASSUME TInv, Few, NEW r \in Runs, Others(r), \A x \in Rows : OnePlace(r, x)',
         \A x \in Rows, u \in Users :
           \/ told'[<<x, u>>] = 0
           \/ told'[<<x, u>>] = told[<<x, u>>] /\ (MayTell(r, x, u)' => MayTell(r, x, u))
           \/ /\ told'[<<x, u>>] = told[<<x, u>>] + 1
              /\ MayTell(r, x, u) /\ ~MayTell(r, x, u)'
  PROVE  Few'
<1>1. ASSUME NEW q \in Runs, q # r
      PROVE  run'[q] = run[q]
  BY <1>1 DEF Others
<1>2. ASSUME NEW q \in Runs, NEW x \in Rows PROVE OnePlace(q, x)'
  <2>1. CASE q = r
    BY <2>1
  <2>2. CASE q # r
    BY <1>1, <2>2 DEF Few, OnePlace
  <2>3. QED
    BY <2>1, <2>2
<1>3. ASSUME NEW x \in Rows, NEW u \in Users PROVE ToldBy(x, u)'
  <2> DEFINE n == Cardinality(Runs)
             s == Cardinality(Tellers(x, u))
             t == Cardinality(Tellers(x, u)')
  <2>1. /\ Tellers(x, u) \in SUBSET Runs /\ Tellers(x, u)' \in SUBSET Runs
        /\ \A q \in Runs \ {r} : q \in Tellers(x, u)' <=> q \in Tellers(x, u)
        /\ r \in Tellers(x, u) <=> MayTell(r, x, u)
        /\ r \in Tellers(x, u)' <=> MayTell(r, x, u)'
    BY <1>1 DEF Tellers, MayTell
  <2>2. s \in Nat /\ t \in Nat /\ n \in Nat /\ t <= n
    BY <2>1, RunCount
  <2>3. told[<<x, u>>] \in Nat /\ told[<<x, u>>] + s <= n
    BY InPairs, TypeFacts DEF PairFacts, Few, ToldBy
  <2> HIDE DEF n, s, t
  <2>4. CASE told'[<<x, u>>] = 0
    BY <2>2, <2>4 DEF ToldBy, n, t
  <2>5. CASE told'[<<x, u>>] = told[<<x, u>>] /\ (MayTell(r, x, u)' => MayTell(r, x, u))
    <3>1. Tellers(x, u)' \subseteq Tellers(x, u)
      BY <2>1, <2>5
    <3>2. t <= s
      BY <2>1, <3>1, RunCount, FS_Subset DEF s, t
    <3>3. QED
      BY <2>2, <2>3, <2>5, <3>2 DEF ToldBy, n, t
  <2>6. CASE /\ told'[<<x, u>>] = told[<<x, u>>] + 1
             /\ MayTell(r, x, u) /\ ~MayTell(r, x, u)'
    <3>1. /\ Tellers(x, u)' \subseteq Tellers(x, u)
          /\ r \in Tellers(x, u) /\ r \notin Tellers(x, u)'
      BY <2>1, <2>6
    <3>2. t + 1 <= s
      BY <2>1, <3>1, OneLessRun DEF s, t
    <3>3. QED
      BY <2>2, <2>3, <2>6, <3>2 DEF ToldBy, n, t
  <2>7. QED
    BY <2>4, <2>5, <2>6
<1>4. QED
  BY <1>2, <1>3 DEF Few

\* A step that tells nobody.
LEMMA QuietFew ==
  ASSUME TInv, Few, NEW r \in Runs, Others(r), told' = told,
         \A x \in Rows : OnePlace(r, x) => OnePlace(r, x)',
         \A x \in Rows, u \in Users : MayTell(r, x, u)' => MayTell(r, x, u)
  PROVE  Few'
<1>1. \A x \in Rows : OnePlace(r, x)'
  BY DEF Few
<1>2. QED
  BY <1>1, FewStep

LEMMA QuietRunsFew ==
  ASSUME TInv, Few, NEW r \in Runs,
         \/ StartRun(r) \/ EndRun(r) \/ Dies(r) \/ PlanOne(r) \/ PlanTasks(r)
         \/ Collect(r) \/ EmitDone(r) \/ StartFlush(r)
         \/ (\E x \in run[r].due : Stamp(r, x)) \/ \E u \in Users : CountSent(r, u)
  PROVE  Few'
<1>1. told' = told
  BY DEF StartRun, EndRun, Dies, PlanOne, PlanTasks, Collect, EmitDone, StartFlush, CountSent,
     Stamp, history
<1>2. CASE StartRun(r) \/ EndRun(r) \/ Dies(r)
  <2>1. Others(r) /\ Resets(r)
    BY <1>2, TypeFacts, ResetsRun
  <2>2. QED
    BY <1>1, <2>1, QuietFew DEF Resets, Begun, OnePlace, MayTell
<1>3. CASE PlanOne(r) \/ PlanTasks(r)
  <2>1. Others(r) /\ Plans(r) /\ run[r].todo = {} /\ run[r].row = {}
    BY <1>3, TypeFacts, PlansRun DEF Plans, Shape
  <2>2. QED
    BY <1>1, <2>1, QuietFew DEF Plans, Same, OnePlace, MayTell
<1>4. CASE Collect(r)
  <2>1. Others(r) /\ ((\E y \in Rows : Batches(r, y)) \/ Lists(r))
    BY <1>4, CollectsRun
  <2>2. ASSUME NEW y \in Rows, Batches(r, y) PROVE Few'
    <3>1. \A x \in Rows, u \in Users : <<x, u>> \in run'[r].batch =>
            <<x, u>> \in run[r].batch \/ x = y
      BY <2>2 DEF Batches
    <3>2. /\ y \in run[r].row /\ run[r].pc = "collect" /\ run'[r].due = run[r].due
          /\ run'[r].row = {} /\ run'[r].pc = "stamp"
      BY <2>2 DEF Batches
    <3>3. \A x \in Rows : OnePlace(r, x) => OnePlace(r, x)'
      BY <3>1, <3>2 DEF OnePlace
    <3>4. \A x \in Rows, u \in Users : MayTell(r, x, u)' => MayTell(r, x, u)
      BY <3>1, <3>2 DEF MayTell
    <3>5. QED
      BY <1>1, <2>1, <3>3, <3>4, QuietFew
  <2>3. ASSUME Lists(r) PROVE Few'
    <3>1. \A x \in Rows : OnePlace(r, x) => OnePlace(r, x)'
      BY <2>3 DEF Lists, OnePlace
    <3>2. \A x \in Rows, u \in Users : MayTell(r, x, u)' => MayTell(r, x, u)
      BY <2>3 DEF Lists, MayTell
    <3>3. QED
      BY <1>1, <2>1, <3>1, <3>2, QuietFew
  <2>4. QED
    BY <2>1, <2>2, <2>3
<1>5. CASE EmitDone(r)
  <2>1. Others(r) /\ Closes(r)
    BY <1>5, ClosesRun
  <2>2. QED
    BY <1>1, <2>1, QuietFew DEF Closes, OnePlace, MayTell
<1>6. CASE StartFlush(r) \/ \E u \in Users : CountSent(r, u)
  <2>1. Others(r) /\ Flushes(r) /\ run'[r].batch = run[r].batch
    BY <1>6, StartFlushRun, CountsRun
  <2>2. /\ \A x \in Rows : OnePlace(r, x) => OnePlace(r, x)'
        /\ \A x \in Rows, u \in Users : MayTell(r, x, u)' => MayTell(r, x, u)
    BY <2>1 DEF Flushes, OnePlace, MayTell
  <2>3. QED
    BY <1>1, <2>1, <2>2, QuietFew
<1>7. ASSUME NEW y \in run[r].due, Stamp(r, y) PROVE Few'
  <2>1. Others(r) /\ Stamps(r, y) /\ y \in Rows
    BY <1>7, StampsRun, TypeFacts DEF Stamps, Shape
  <2>2. \A x \in Rows : OnePlace(r, x) => OnePlace(r, x)'
    BY <2>1 DEF Stamps, OnePlace
  <2>3. \A x \in Rows, u \in Users : MayTell(r, x, u)' => MayTell(r, x, u)
    BY <2>1 DEF Stamps, MayTell
  <2>4. QED
    BY <1>1, <2>1, <2>2, <2>3, QuietFew
<1>8. QED
  BY <1>2, <1>3, <1>4, <1>5, <1>6, <1>7

LEMMA FindsFew ==
  ASSUME TInv, Fresh, Few, NEW r \in Runs, FindDue(r)
  PROVE  Few'
<1>1. Others(r) /\ Finds(r) /\ run[r].batch = {} /\ run[r].row = {} /\ run[r].todo = {}
  BY FindsRun, TypeFacts DEF Finds, Shape
<1>2. told' = told /\ Due \subseteq Rows \ fired
  BY TypeFacts DEF FindDue, Due
<1>3. \A x \in Rows : OnePlace(r, x)'
  BY <1>1 DEF OnePlace, Finds
<1>4. ASSUME NEW x \in Rows, NEW u \in Users
      PROVE  told'[<<x, u>>] = 0 \/ ~MayTell(r, x, u)'
  <2>1. CASE x \in Due
    BY <1>2, <2>1 DEF Fresh
  <2>2. CASE x \notin Due
    BY <1>1, <2>2 DEF MayTell, Finds
  <2>3. QED
    BY <2>1, <2>2
<1>5. QED
  BY <1>1, <1>2, <1>3, <1>4, FewStep

LEMMA EmitsFew ==
  ASSUME TInv, Few, NEW r \in Runs, EmitUrgent(r)
  PROVE  Few'
<1>1. PICK u \in Users : /\ Others(r) /\ Emits(r, u) /\ Tell(run[r].row \X {u})
  BY EmitsRun
<1>2. \A y \in Rows, v \in Users :
        told'[<<y, v>>] = IF y \in run[r].row /\ v = u THEN told[<<y, v>>] + 1
                          ELSE told[<<y, v>>]
  <2>1. \A p \in Pairs : told'[p] = IF p \in run[r].row \X {u} THEN told[p] + 1 ELSE told[p]
    BY <1>1, TypeFacts, TellEffect
  <2>2. \A y \in Rows, v \in Users :
          <<y, v>> \in Pairs /\ (<<y, v>> \in run[r].row \X {u} <=> y \in run[r].row /\ v = u)
    BY InPairs DEF PairFacts
  <2>3. QED
    BY <2>1, <2>2
<1>3. \A y \in Rows : OnePlace(r, y) /\ OnePlace(r, y)'
  BY <1>1 DEF Few, OnePlace, Emits
<1>4. ASSUME NEW y \in Rows, NEW v \in Users, y \in run[r].row, v = u
      PROVE  MayTell(r, y, v) /\ ~MayTell(r, y, v)'
  BY <1>1, <1>3, <1>4 DEF OnePlace, MayTell, Emits
<1>5. ASSUME NEW y \in Rows, NEW v \in Users
      PROVE  MayTell(r, y, v)' => MayTell(r, y, v)
  BY <1>1 DEF MayTell, Emits
<1>6. QED
  BY <1>1, <1>2, <1>3, <1>4, <1>5, FewStep

LEMMA FlushFew ==
  ASSUME TInv, Few, NEW r \in Runs, NEW u \in Users, Flush(r, u)
  PROVE  Few'
<1> DEFINE B == Bucket(r, u)
<1>1. /\ Others(r) /\ Flushes(r) /\ run'[r].batch = run[r].batch \ B
      /\ B \subseteq run[r].batch /\ run[r].row = {} /\ run[r].pc = "flush"
  BY FlushRun, BucketFacts, TypeFacts DEF Shape
<1>2. \A y \in Rows, v \in Users :
        told'[<<y, v>>] = IF <<y, v>> \in B THEN told[<<y, v>>] + 1 ELSE told[<<y, v>>]
  <2>1. Tell(B)
    BY DEF Flush
  <2>2. QED
    BY <2>1, TypeFacts, TellEffect, InPairs DEF PairFacts
<1> HIDE DEF B
<1>3. \A y \in Rows : OnePlace(r, y) /\ OnePlace(r, y)'
  BY <1>1 DEF Few, OnePlace, Flushes
<1>4. ASSUME NEW y \in Rows, NEW v \in Users, <<y, v>> \in B
      PROVE  MayTell(r, y, v) /\ ~MayTell(r, y, v)'
  BY <1>1, <1>3, <1>4 DEF OnePlace, MayTell, Flushes
<1>5. ASSUME NEW y \in Rows, NEW v \in Users
      PROVE  MayTell(r, y, v)' => MayTell(r, y, v)
  BY <1>1 DEF MayTell, Flushes
<1>6. QED
  BY <1>1, <1>2, <1>3, <1>4, <1>5, FewStep

LEMMA FewNext ==
  ASSUME TInv, Fresh, Few, [Next]_vars
  PROVE  Few'
<1>1. CASE Outside
  <2>1. run' = run /\ told' = told
    BY <1>1, OutsideFacts DEF history
  <2>2. QED
    BY <2>1 DEF Few, OnePlace, ToldBy, Tellers, MayTell
<1>2. QED
  BY <1>1, Steps, QuietRunsFew, FindsFew, EmitsFew, FlushFew

LEMMA FewInit == Init => Few
<1> SUFFICES ASSUME Init PROVE Few
  OBVIOUS
<1>1. \A r \in Runs : run[r].due = {} /\ run[r].row = {} /\ run[r].batch = {}
  BY IdleType DEF Init
<1>2. ASSUME NEW x \in Rows, NEW u \in Users PROVE ToldBy(x, u)
  <2>1. told[<<x, u>>] = 0 /\ Tellers(x, u) = {}
    BY <1>1, InPairs DEF Init, PairFacts, Tellers, MayTell
  <2>2. QED
    BY <2>1, RunCount, FS_EmptySet DEF ToldBy
<1>3. QED
  BY <1>1, <1>2 DEF Few, OnePlace

LEMMA ToldByRuns ==
  ASSUME TInv, Few, NEW p \in Pairs
  PROVE  told[p] \in Nat /\ told[p] <= Cardinality(Runs)
<1>1. p[1] \in Rows /\ p[2] \in Users /\ p = <<p[1], p[2]>> /\ told[p] \in Nat
  BY TypeFacts DEF Pairs
<1>2. ToldBy(p[1], p[2]) /\ Tellers(p[1], p[2]) \in SUBSET Runs
  BY <1>1 DEF Few, Tellers
<1>3. told[p] + Cardinality(Tellers(p[1], p[2])) <= Cardinality(Runs)
  BY <1>1, <1>2 DEF ToldBy
<1>4. QED
  BY <1>1, <1>2, <1>3, RunCount

LEMMA OnceInvariant == Spec => [](TInv /\ Once /\ Few)
<1>1. Init => TInv /\ Once /\ Few
  BY TypeInit, OnceInit, FewInit
<1>2. TInv /\ Once /\ Few /\ [Next]_vars => (TInv /\ Once /\ Few)'
  BY TypeNext, OnceNext, FewNext DEF Once
<1>3. QED
  BY <1>1, <1>2, PTL DEF Spec

\* A user is told of a reminder once, unless two runs of the job had fetched its
\* row at once, and never more often than there are runs at a time (cited for
\* ToldOnce).
THEOREM ToldAtMostOnce == Spec => []ToldOnce
<1>1. TInv /\ Once /\ Few => ToldOnce
  <2>1. SUFFICES ASSUME TInv, Once, Few, NEW p \in Pairs
                 PROVE  (told[p] > 1 => p[1] \in shared) /\ told[p] <= Cardinality(Runs)
    BY DEF ToldOnce
  <2>2. ASSUME told[p] > 1, p[1] \notin shared PROVE FALSE
    <3>1. p[1] \in Rows /\ p[2] \in Users /\ p = <<p[1], p[2]>> /\ told[p] \in Nat
      BY <2>1, TypeFacts DEF Pairs
    <3>2. told[<<p[1], p[2]>>] <= 1
      BY <2>1, <2>2, <3>1 DEF Once, AtMostOnce
    <3>3. QED
      BY <2>2, <3>1, <3>2
  <2>3. QED
    BY <2>1, <2>2, ToldByRuns
<1>2. QED
  BY <1>1, OnceInvariant, PTL

\* When runs of the job do not overlap, nobody is told of a reminder twice, however
\* many of them die: what repeats a reminder is overlap and nothing else.
THEOREM AloneToldOnce ==
  ASSUME Cardinality(Runs) = 1
  PROVE  Spec => [](\A p \in Pairs : told[p] <= 1)
<1>1. TInv /\ Once /\ Few => \A p \in Pairs : told[p] <= 1
  BY ToldByRuns
<1>2. QED
  BY <1>1, OnceInvariant, PTL

-----------------------------------------------------------------------------
(* The daily limit. *)

\* Summaries that are or will be sent.
Unsent(u, d) == mail[u][d].summaries - mail[u][d].failed

Booked(u, d) == mail[u][d].summaries <= mail[u][d].queued + mail[u][d].sent + mail[u][d].failed

\* What a run counted is an upper bound from the day of the run on.
Bounds(r, u) ==
  run[r].count[u] # -1 =>
    \A d \in Days : run[r].at \div Day <= d => Unsent(u, d) <= run[r].count[u]

CountedAt(u) ==
  /\ \A d \in Days : Unsent(u, d) <= EmailLimit
  /\ \A r, q \in Runs : run[r].count[u] # -1 /\ run[q].count[u] # -1 => r = q
  /\ \A r \in Runs : Bounds(r, u)

Counted ==
  /\ \A u \in Users, d \in Days : Booked(u, d)
  /\ \A u \in Users \ late : CountedAt(u)

NoMore(u) == \A d \in Days : Unsent(u, d)' <= Unsent(u, d)

\* A run that counts nothing new.
NoCount(r, u) ==
  run'[r].count[u] # -1 =>
    run'[r].count[u] = run[r].count[u] /\ run[r].at \div Day <= run'[r].at \div Day

LEMMA MailFacts ==
  ASSUME MailType, NEW u \in Users, NEW d \in Days
  PROVE  /\ mail[u][d].queued \in Nat /\ mail[u][d].sent \in Nat /\ mail[u][d].failed \in Nat
         /\ mail[u][d].summaries \in Nat /\ Unsent(u, d) \in Int
  BY DEF MailType, Counters, Unsent

LEMMA CountFacts ==
  ASSUME RType, NEW r \in Runs, NEW u \in Users
  PROVE  run[r].count[u] \in Nat \cup {-1} /\ run[r].at \div Day \in Days
         /\ run[r].at \div Day \in Nat
<1>1. run[r] \in RunStates
  BY DEF RType
<1>2. run[r].at \in Times /\ run[r].count \in [Users -> Nat \cup {-1}]
  BY <1>1 DEF RunStates
<1>3. QED
  BY <1>2, DayType DEF Days

LEMMA DayNat == \A d \in Days : d \in Nat
  BY DEF Days

LEMMA QuietCount ==
  ASSUME TInv, TInv', Counted, NEW u \in Users, u \notin late, NoMore(u),
         \A r \in Runs : NoCount(r, u)
  PROVE  CountedAt(u)'
<1>1. /\ \A d \in Days : Unsent(u, d) \in Int /\ Unsent(u, d)' \in Int /\ d \in Nat
      /\ \A r \in Runs : /\ run[r].count[u] \in Nat \cup {-1}
                         /\ run'[r].count[u] \in Nat \cup {-1}
                         /\ run[r].at \div Day \in Nat /\ run'[r].at \div Day \in Nat
  <2>1. RType /\ MailType /\ RType' /\ MailType'
    BY DEF TInv, TypeOK, RType, MailType, Counters
  <2>2. \A d \in Days : Unsent(u, d) \in Int /\ d \in Nat
    BY <2>1, MailFacts, DayNat
  <2>3. \A d \in Days : Unsent(u, d)' \in Int
    BY <2>1 DEF MailType, Counters, Unsent
  <2>4. ASSUME NEW r \in Runs
        PROVE  run'[r].count[u] \in Nat \cup {-1} /\ run'[r].at \div Day \in Nat
    <3>1. run'[r] \in RunStates
      BY <2>1 DEF RType
    <3>2. run'[r].at \in Times /\ run'[r].count \in [Users -> Nat \cup {-1}]
      BY <3>1 DEF RunStates
    <3>3. QED
      BY <3>2, DayType, DayNat
  <2>5. QED
    BY <2>1, <2>2, <2>3, <2>4, CountFacts
<1>2. CountedAt(u)
  BY DEF Counted
<1>3. \A d \in Days : Unsent(u, d)' <= EmailLimit
  BY <1>1, <1>2 DEF CountedAt, NoMore
<1>4. \A r, q \in Runs : run'[r].count[u] # -1 /\ run'[q].count[u] # -1 => r = q
  BY <1>2 DEF CountedAt, NoCount
<1>5. ASSUME NEW r \in Runs, run'[r].count[u] # -1,
             NEW d \in Days, run'[r].at \div Day <= d
      PROVE  Unsent(u, d)' <= run'[r].count[u]
  <2>1. run'[r].count[u] = run[r].count[u] /\ run[r].at \div Day <= d
    BY <1>1, <1>5 DEF NoCount
  <2>2. Unsent(u, d) <= run[r].count[u]
    BY <1>2, <1>5, <2>1 DEF CountedAt, Bounds
  <2>3. Unsent(u, d)' <= Unsent(u, d)
    BY DEF NoMore
  <2>4. QED
    BY <1>1, <2>1, <2>2, <2>3
<1>6. QED
  BY <1>3, <1>4, <1>5 DEF CountedAt, Bounds

\* A step that queues no summary and counts nothing.
LEMMA QuietCounts ==
  ASSUME TInv, TInv', Counted, late' = late,
         \A u \in Users : /\ NoMore(u) /\ \A d \in Days : Booked(u, d)'
                          /\ \A r \in Runs : NoCount(r, u)
  PROVE  Counted'
  BY QuietCount DEF Counted

\* A step of a run that leaves its counts alone, or forgets them.
LEMMA CountsKept ==
  ASSUME TInv, TInv', NEW r \in Runs, Others(r),
         \/ run'[r].count = run[r].count /\ run[r].at <= run'[r].at
         \/ run'[r].count = [u \in Users |-> -1]
  PROVE  \A u \in Users, q \in Runs : NoCount(q, u)
<1>1. ASSUME NEW u \in Users, NEW q \in Runs, q # r PROVE NoCount(q, u)
  <2>1. run'[q] = run[q]
    BY <1>1 DEF Others
  <2>2. run[q].at \div Day \in Nat
    BY TypeFacts, CountFacts
  <2>3. QED
    BY <2>1, <2>2 DEF NoCount
<1>2. ASSUME NEW u \in Users PROVE NoCount(r, u)
  <2>1. CASE run'[r].count = [v \in Users |-> -1]
    BY <2>1 DEF NoCount
  <2>2. CASE run'[r].count = run[r].count /\ run[r].at <= run'[r].at
    <3>1. run[r] \in RunStates /\ run'[r] \in RunStates
      BY DEF TInv, TypeOK
    <3>2. run[r].at \in Nat /\ run'[r].at \in Nat
      BY <3>1 DEF RunStates, Times
    <3>3. run[r].at \div Day <= run'[r].at \div Day
      BY <2>2, <3>2, DivMonotone
    <3>4. QED
      BY <2>2, <3>3 DEF NoCount
  <2>3. QED
    BY <2>1, <2>2
<1>3. QED
  BY <1>1, <1>2

LEMMA SameMail ==
  ASSUME TInv, Counted, mail' = mail
  PROVE  \A u \in Users : NoMore(u) /\ \A d \in Days : Booked(u, d)'
<1>1. \A u \in Users, d \in Days : Unsent(u, d) \in Int
  BY TypeFacts, MailFacts
<1>2. \A u \in Users, d \in Days : Unsent(u, d)' = Unsent(u, d) /\ (Booked(u, d) <=> Booked(u, d)')
  BY DEF Unsent, Booked
<1>3. QED
  BY <1>1, <1>2 DEF Counted, NoMore

LEMMA QuietRunCounts ==
  ASSUME TInv, TInv', Counted, NEW r \in Runs,
         \/ StartRun(r) \/ EndRun(r) \/ Dies(r) \/ PlanOne(r) \/ PlanTasks(r) \/ FindDue(r)
         \/ \E x \in run[r].due : Stamp(r, x)
         \/ Collect(r) \/ EmitDone(r) \/ StartFlush(r)
  PROVE  Counted'
<1>1. mail' = mail /\ late' = late
  BY DEF StartRun, EndRun, Dies, PlanOne, PlanTasks, FindDue, Stamp, Collect, EmitDone,
     StartFlush, history
<1>2. run[r].at \in Nat /\ run[r].at <= now
  BY TypeFacts DEF Shape, RunStates, Times
<1>3. SUFFICES Others(r) /\ \/ run'[r].count = run[r].count /\ run[r].at <= run'[r].at
                            \/ run'[r].count = [u \in Users |-> -1]
  BY <1>1, SameMail, CountsKept, QuietCounts
<1>4. CASE StartRun(r) \/ EndRun(r) \/ Dies(r)
  BY <1>4, TypeFacts, ResetsRun DEF Resets, Begun
<1>5. CASE PlanOne(r) \/ PlanTasks(r)
  BY <1>2, <1>5, TypeFacts, PlansRun DEF Plans, Same
<1>6. CASE FindDue(r)
  BY <1>2, <1>6, FindsRun DEF Finds
<1>7. ASSUME NEW x \in run[r].due, Stamp(r, x)
      PROVE  Others(r) /\ run'[r].count = run[r].count /\ run[r].at <= run'[r].at
  BY <1>2, <1>7, StampsRun DEF Stamps
<1>8. CASE Collect(r)
  BY <1>2, <1>8, CollectsRun DEF Batches, Lists
<1>9. CASE EmitDone(r)
  BY <1>2, <1>9, ClosesRun DEF Closes
<1>10. CASE StartFlush(r)
  BY <1>2, <1>10, StartFlushRun DEF Flushes
<1>11. QED
  BY <1>4, <1>5, <1>6, <1>7, <1>8, <1>9, <1>10

LEMMA EmitsCount ==
  ASSUME TInv, TInv', Counted, NEW r \in Runs, EmitUrgent(r)
  PROVE  Counted'
<1>1. PICK u \in Users : Others(r) /\ Emits(r, u) /\ mail' = Queue(u, 0)
  BY EmitsRun
<1>2. late' = late /\ Queued(u, 0)
  BY <1>1, TypeFacts, QueueEffect DEF EmitUrgent
<1>3. run[r].at \in Nat
  BY TypeFacts DEF RunStates, Times
<1>4. \A v \in Users, q \in Runs : NoCount(q, v)
  BY <1>1, <1>3, CountsKept DEF Emits
<1>5. ASSUME NEW v \in Users, NEW d \in Days
      PROVE  Unsent(v, d)' <= Unsent(v, d) /\ Booked(v, d)'
  <2>1. Booked(v, d)
    BY DEF Counted
  <2>2. /\ mail[v][d].queued \in Nat /\ mail[v][d].sent \in Nat /\ mail[v][d].failed \in Nat
        /\ mail[v][d].summaries \in Nat
    BY TypeFacts, MailFacts
  <2>3. /\ mail'[v][d].sent = mail[v][d].sent /\ mail'[v][d].failed = mail[v][d].failed
        /\ mail'[v][d].summaries = mail[v][d].summaries
        /\ \/ mail'[v][d].queued = mail[v][d].queued + 1
           \/ mail'[v][d].queued = mail[v][d].queued
    BY <1>2, <2>2 DEF Queued
  <2>4. QED
    BY <2>1, <2>2, <2>3 DEF Unsent, Booked
<1>6. \A v \in Users : NoMore(v) /\ \A d \in Days : Booked(v, d)'
  BY <1>5 DEF NoMore
<1>7. QED
  BY <1>2, <1>4, <1>6, QuietCounts

LEMMA OutsideCounts ==
  ASSUME TInv, TInv', Counted, Outside
  PROVE  Counted'
<1>1. late' = late /\ run' = run /\ (mail' = mail \/ \E u \in Users, d \in Days : Delivered(u, d))
  BY OutsideFacts DEF history
<1>2. \A v \in Users, q \in Runs : NoCount(q, v)
  BY <1>1, TypeFacts, CountFacts DEF NoCount
<1>3. CASE mail' = mail
  BY <1>1, <1>2, <1>3, SameMail, QuietCounts
<1>4. ASSUME NEW u \in Users, NEW d \in Days, Delivered(u, d) PROVE Counted'
  <2>1. ASSUME NEW v \in Users, NEW e \in Days
        PROVE  Unsent(v, e)' <= Unsent(v, e) /\ Booked(v, e)'
    <3>1. Booked(v, e)
      BY DEF Counted
    <3>2. /\ mail[v][e].queued \in Nat /\ mail[v][e].sent \in Nat /\ mail[v][e].failed \in Nat
          /\ mail[v][e].summaries \in Nat
      BY TypeFacts, MailFacts
    <3>3. CASE v = u /\ e = d
      BY <1>4, <3>1, <3>2, <3>3 DEF Delivered, Unsent, Booked
    <3>4. CASE v # u \/ e # d
      <4>1. mail'[v][e] = mail[v][e]
        BY <1>4, <3>4 DEF Delivered
      <4>2. QED
        BY <3>1, <3>2, <4>1 DEF Unsent, Booked
    <3>5. QED
      BY <3>3, <3>4
  <2>2. \A v \in Users : NoMore(v) /\ \A e \in Days : Booked(v, e)'
    BY <2>1 DEF NoMore
  <2>3. QED
    BY <1>1, <1>2, <2>2, QuietCounts
<1>5. QED
  BY <1>1, <1>3, <1>4

\* Counting: nothing is queued and nobody else sends, or the user is late.
LEMMA CountsCount ==
  ASSUME TInv, TInv', Counted, NEW r \in Runs, NEW u \in Users, CountSent(r, u)
  PROVE  Counted'
<1>1. /\ Others(r) /\ Flushes(r) /\ \A v \in Users : v # u => run'[r].count[v] = run[r].count[v]
      /\ run'[r].count[u] \in Nat
      /\ \A d \in Days : run[r].at \div Day <= d => mail[u][d].sent <= run'[r].count[u]
  BY CountsRun
<1>2. /\ mail' = mail /\ late \subseteq late' /\ late' \subseteq late \cup {u}
      /\ u \notin late' =>
           /\ \A q \in Runs \ {r} : run[q].count[u] = -1
           /\ \A d \in Days : d >= run[r].at \div Day => ~(mail[u][d].queued > 0)
  BY DEF CountSent
<1>3. \A v \in Users : NoMore(v) /\ \A d \in Days : Booked(v, d)'
  BY <1>2, SameMail
<1>4. ASSUME NEW v \in Users \ late' PROVE CountedAt(v)'
  <2>1. CASE v # u
    <3>1. ASSUME NEW q \in Runs PROVE NoCount(q, v)
      <4>1. run'[q].count[v] = run[q].count[v] /\ run'[q].at = run[q].at
        BY <1>1, <2>1 DEF Others, Flushes
      <4>2. run[q].at \div Day \in Nat
        BY TypeFacts, CountFacts
      <4>3. QED
        BY <4>1, <4>2 DEF NoCount
    <3>2. QED
      BY <1>2, <1>3, <1>4, <3>1, QuietCount
  <2>2. CASE v = u
    <3>1. CountedAt(u) /\ \A q \in Runs : q # r => run'[q].count[u] = -1
      BY <1>1, <1>2, <1>4, <2>2 DEF Counted, Others
    <3>2. ASSUME NEW d \in Days, run'[r].at \div Day <= d
          PROVE  Unsent(u, d)' <= run'[r].count[u]
      <4>1. /\ mail[u][d].queued \in Nat /\ mail[u][d].sent \in Nat
            /\ mail[u][d].failed \in Nat /\ mail[u][d].summaries \in Nat
        BY TypeFacts, MailFacts
      <4>2. run[r].at \div Day <= d /\ d \in Nat /\ run[r].at \div Day \in Nat
        BY <1>1, <3>2, TypeFacts, CountFacts, DayNat DEF Flushes
      <4>3. mail[u][d].queued = 0
        BY <1>2, <1>4, <2>2, <4>1, <4>2
      <4>4. mail[u][d].sent <= run'[r].count[u]
        BY <1>1, <4>2
      <4>5. Booked(u, d)
        BY DEF Counted
      <4>6. Unsent(u, d)' = mail[u][d].summaries - mail[u][d].failed
        BY <1>2 DEF Unsent
      <4>7. QED
        BY <1>1, <4>1, <4>3, <4>4, <4>5, <4>6 DEF Booked
    <3>3. \A d \in Days : Unsent(u, d)' <= EmailLimit
      BY <1>2, <3>1 DEF CountedAt, Unsent
    <3>4. \A q \in Runs : Bounds(q, u)'
      BY <3>1, <3>2 DEF Bounds
    <3>5. QED
      BY <2>2, <3>1, <3>3, <3>4 DEF CountedAt
  <2>3. QED
    BY <2>1, <2>2
<1>5. QED
  BY <1>3, <1>4 DEF Counted

\* Flushing: the count stays an upper bound, and below the limit one more fits.
LEMMA FlushCounts ==
  ASSUME TInv, TInv', Counted, NEW r \in Runs, NEW u \in Users, Flush(r, u)
  PROVE  Counted'
<1>1. /\ Others(r) /\ Flushes(r) /\ run[r].count[u] \in Nat
      /\ \A v \in Users : v # u => run'[r].count[v] = run[r].count[v]
      /\ IF Capped(run[r].count[u])
           THEN run'[r].count[u] = run[r].count[u] /\ mail' = mail
           ELSE run'[r].count[u] = run[r].count[u] + 1 /\ mail' = Queue(u, 1)
  BY FlushRun
<1>2. late' = late
  BY DEF Flush
<1>3. \A q \in Runs, v \in Users : v # u \/ q # r => NoCount(q, v)
  <2>1. ASSUME NEW q \in Runs, NEW v \in Users, v # u \/ q # r PROVE NoCount(q, v)
    <3>1. run'[q].count[v] = run[q].count[v] /\ run'[q].at = run[q].at
      BY <1>1, <2>1 DEF Others, Flushes
    <3>2. run[q].at \div Day \in Nat
      BY TypeFacts, CountFacts
    <3>3. QED
      BY <3>1, <3>2 DEF NoCount
  <2>2. QED
    BY <2>1
<1>4. CASE Capped(run[r].count[u])
  <2>1. NoCount(r, u)
    <3>1. run[r].at \div Day \in Nat
      BY TypeFacts, CountFacts
    <3>2. QED
      BY <1>1, <1>4, <3>1 DEF NoCount, Flushes
  <2>2. \A v \in Users, q \in Runs : NoCount(q, v)
    BY <1>3, <2>1
  <2>3. mail' = mail
    BY <1>1, <1>4
  <2>4. QED
    BY <1>2, <2>2, <2>3, SameMail, QuietCounts
<1>5. CASE ~Capped(run[r].count[u])
  <2> DEFINE today == now \div Day
  <2>1. /\ run'[r].count[u] = run[r].count[u] + 1 /\ Queued(u, 1)
        /\ run[r].count[u] < EmailLimit
    BY <1>1, <1>5, TypeFacts, QueueEffect DEF Capped
  <2>2. today \in Days /\ run[r].at \div Day <= today
    <3>1. run[r].at \in Nat /\ run[r].at <= now
      BY TypeFacts DEF Shape, RunStates, Times
    <3>2. QED
      BY <3>1, TypeFacts, DivMonotone, DayType
  <2>3. Queued(u, 1) => \A v \in Users, d \in Days :
          /\ mail'[v][d].sent = mail[v][d].sent /\ mail'[v][d].failed = mail[v][d].failed
          /\ IF v = u /\ d = today
               THEN /\ mail'[v][d].queued = mail[v][d].queued + 1
                    /\ mail'[v][d].summaries = mail[v][d].summaries + 1
               ELSE /\ mail'[v][d].queued = mail[v][d].queued
                    /\ mail'[v][d].summaries = mail[v][d].summaries
    BY DEF Queued
  <2> HIDE DEF today
  <2>4. ASSUME NEW v \in Users, NEW d \in Days
        PROVE  /\ Booked(v, d)' /\ Unsent(v, d) \in Int
               /\ Unsent(v, d)' = IF v = u /\ d = today THEN Unsent(v, d) + 1 ELSE Unsent(v, d)
    <3>1. Booked(v, d)
      BY DEF Counted
    <3>2. /\ mail[v][d].queued \in Nat /\ mail[v][d].sent \in Nat /\ mail[v][d].failed \in Nat
          /\ mail[v][d].summaries \in Nat
      BY TypeFacts, MailFacts
    <3>3. QED
      BY <2>1, <2>3, <3>1, <3>2 DEF Unsent, Booked
  <2>5. ASSUME NEW v \in Users \ late' PROVE CountedAt(v)'
    <3>1. CASE v # u
      <4>1. NoMore(v)
        BY <2>4, <3>1 DEF NoMore
      <4>2. QED
        BY <1>2, <1>3, <2>5, <3>1, <4>1, QuietCount
    <3>2. CASE v = u
      <4>1. CountedAt(u)
        BY <1>2, <2>5, <3>2 DEF Counted
      <4>2. \A q \in Runs : q # r => run[q].count[u] = -1 /\ run'[q].count[u] = -1
        BY <1>1, <4>1 DEF CountedAt, Others
      <4>3. ASSUME NEW d \in Days, run[r].at \div Day <= d
            PROVE  Unsent(u, d)' <= run[r].count[u] + 1
        <5>1. Unsent(u, d) <= run[r].count[u]
          BY <1>1, <4>1, <4>3 DEF CountedAt, Bounds
        <5>2. QED
          BY <1>1, <2>4, <5>1
      <4>4. \A d \in Days : Unsent(u, d)' <= EmailLimit
        <5>1. ASSUME NEW d \in Days PROVE Unsent(u, d)' <= EmailLimit
          <6>1. CASE d = today
            BY <1>1, <2>1, <2>2, <2>4, <4>3, <6>1
          <6>2. CASE d # today
            BY <2>4, <4>1, <6>2 DEF CountedAt
          <6>3. QED
            BY <6>1, <6>2
        <5>2. QED
          BY <5>1
      <4>5. \A q \in Runs : Bounds(q, u)'
        <5>1. Bounds(r, u)'
          BY <1>1, <2>1, <4>3 DEF Bounds, Flushes
        <5>2. QED
          BY <4>2, <5>1 DEF Bounds
      <4>6. QED
        BY <3>2, <4>2, <4>4, <4>5 DEF CountedAt
    <3>3. QED
      BY <3>1, <3>2
  <2>6. QED
    BY <2>4, <2>5 DEF Counted
<1>6. QED
  BY <1>4, <1>5

LEMMA CountedNext ==
  ASSUME TInv, Counted, [Next]_vars
  PROVE  Counted'
<1>1. TInv'
  BY TypeNext
<1>2. QED
  BY <1>1, Steps, QuietRunCounts, EmitsCount, CountsCount, FlushCounts, OutsideCounts

LEMMA CountedInit ==
  ASSUME Init
  PROVE  Counted
<1>1. \A u \in Users, d \in Days : Unsent(u, d) = 0 /\ Booked(u, d)
  BY DEF Init, Unsent, Booked
<1>2. \A r \in Runs, u \in Users : run[r].count[u] = -1
  BY IdleType DEF Init
<1>3. QED
  BY <1>1, <1>2 DEF Counted, CountedAt, Bounds

\* The summaries of a user in a day stay within the limit, unless the user was
\* counted while e-mails were queued or another run was sending (cited for
\* WithinLimit).
THEOREM DailyLimit == Spec => []WithinLimit
<1>1. Init => TInv /\ Counted
  BY TypeInit, CountedInit
<1>2. TInv /\ Counted /\ [Next]_vars => (TInv /\ Counted)'
  BY TypeNext, CountedNext
<1>3. TInv /\ Counted => WithinLimit
  <2>1. SUFFICES ASSUME TInv, Counted, NEW u \in Users, NEW d \in Days, u \notin late
                 PROVE  ~(Unsent(u, d) > EmailLimit)
    BY DEF WithinLimit, Unsent
  <2>2. Unsent(u, d) <= EmailLimit /\ Unsent(u, d) \in Int
    BY <2>1, TypeFacts, MailFacts DEF Counted, CountedAt
  <2>3. QED
    BY <2>2
<1>4. QED
  BY <1>1, <1>2, <1>3, PTL DEF Spec

-----------------------------------------------------------------------------
(* Nobody is forgotten. *)

Kept(p, r) == p \in Held(r)' \/ told'[p] > told[p] \/ p \in lost'

LEMMA HeldFacts ==
  ASSUME TInv, NEW r \in Runs
  PROVE  /\ Held(r) \subseteq Pairs
         /\ run[r].pc # "emit" => Held(r) = run[r].batch
<1>1. run[r] \in RunStates /\ Shape(r)
  BY TypeFacts
<1>2. QED
  BY <1>1 DEF Held, Shape, RunStates, Pairs

LEMMA KeptByRun ==
  ASSUME TInv, NEW r \in Runs, NEW p \in Held(r),
         \/ StartRun(r) \/ EndRun(r) \/ Dies(r) \/ PlanOne(r) \/ PlanTasks(r) \/ FindDue(r)
         \/ \E x \in run[r].due : Stamp(r, x)
         \/ Collect(r) \/ EmitDone(r) \/ StartFlush(r) \/ EmitUrgent(r)
         \/ \E u \in Users : CountSent(r, u) \/ Flush(r, u)
  PROVE  Kept(p, r)
<1>1. p \in Pairs /\ (run[r].pc # "emit" => p \in run[r].batch) /\ told[p] \in Nat
  BY HeldFacts, TypeFacts
<1>2. ASSUME run'[r].batch = run[r].batch, run[r].pc # "emit" PROVE Kept(p, r)
  BY <1>1, <1>2 DEF Kept, Held
<1>3. CASE StartRun(r) \/ EndRun(r)
  <2>1. run[r].batch = {} /\ run[r].pc # "emit"
    BY <1>3, TypeFacts DEF StartRun, EndRun, At, Shape
  <2>2. QED
    BY <1>1, <2>1
<1>4. CASE Dies(r)
  BY <1>4 DEF Dies, Kept
<1>5. CASE PlanOne(r) \/ PlanTasks(r)
  BY <1>2, <1>5, TypeFacts, PlansRun DEF Plans, Same
<1>6. CASE FindDue(r)
  BY <1>2, <1>6, FindsRun DEF Finds
<1>7. CASE \E x \in run[r].due : Stamp(r, x)
  BY <1>2, <1>7, StampsRun DEF Stamps
<1>8. CASE Collect(r)
  <2>1. (\E x \in Rows : Batches(r, x)) \/ Lists(r)
    BY <1>8, CollectsRun
  <2>2. run[r].batch \subseteq run'[r].batch /\ run[r].pc # "emit"
    BY <2>1 DEF Batches, Lists
  <2>3. QED
    BY <1>1, <2>2 DEF Kept, Held
<1>9. CASE EmitDone(r)
  <2>1. Closes(r)
    BY <1>9, ClosesRun
  <2>2. QED
    BY <2>1 DEF Closes, Kept, Held
<1>10. CASE EmitUrgent(r)
  <2>1. PICK u \in Users : Emits(r, u) /\ Tell(run[r].row \X {u})
    BY <1>10, EmitsRun
  <2>2. told'[p] = IF p \in run[r].row \X {u} THEN told[p] + 1 ELSE told[p]
    BY <1>1, <2>1, TypeFacts, TellEffect
  <2>3. CASE p \in run[r].row \X {u}
    BY <1>1, <2>2, <2>3 DEF Kept
  <2>4. CASE p \notin run[r].row \X {u}
    <3>1. p \in run[r].batch \/ p \in run[r].row \X (run[r].todo \ {u})
      BY <2>4 DEF Held
    <3>2. QED
      BY <2>1, <3>1 DEF Emits, Kept, Held
  <2>5. QED
    BY <2>3, <2>4
<1>11. CASE StartFlush(r) \/ \E u \in Users : CountSent(r, u)
  <2>1. run'[r].batch = run[r].batch /\ Flushes(r)
    BY <1>11, StartFlushRun, CountsRun
  <2>2. QED
    BY <1>2, <2>1 DEF Flushes
<1>12. ASSUME NEW u \in Users, Flush(r, u) PROVE Kept(p, r)
  <2>1. run'[r].batch = run[r].batch \ Bucket(r, u) /\ run[r].pc = "flush" /\ Tell(Bucket(r, u))
    BY <1>12, FlushRun DEF Flush
  <2>2. told'[p] = IF p \in Bucket(r, u) THEN told[p] + 1 ELSE told[p]
    BY <1>1, <2>1, TypeFacts, TellEffect
  <2>3. QED
    BY <1>1, <2>1, <2>2 DEF Kept, Held
<1>13. QED
  BY <1>3, <1>4, <1>5, <1>6, <1>7, <1>8, <1>9, <1>10, <1>11, <1>12

LEMMA KeptByNext ==
  ASSUME TInv, [Next]_vars, NEW q \in Runs, NEW p \in Held(q)
  PROVE  Kept(p, q)
<1>1. CASE Outside
  BY <1>1, OutsideFacts DEF Kept, Held
<1>2. ASSUME NEW r \in Runs, r # q, Others(r) PROVE Kept(p, q)
  BY <1>2 DEF Others, Kept, Held
<1>3. ASSUME NEW r \in Runs,
             \/ StartRun(r) \/ EndRun(r) \/ Dies(r) \/ PlanOne(r) \/ PlanTasks(r) \/ FindDue(r)
             \/ \E x \in run[r].due : Stamp(r, x)
             \/ Collect(r) \/ EmitDone(r) \/ StartFlush(r) \/ EmitUrgent(r)
             \/ \E u \in Users : CountSent(r, u) \/ Flush(r, u)
      PROVE  Others(r)
  BY <1>3, TypeFacts, ResetsRun, PlansRun, FindsRun, StampsRun, CollectsRun, ClosesRun,
     StartFlushRun, EmitsRun, CountsRun, FlushRun
<1>4. QED
  BY <1>1, <1>2, <1>3, Steps, KeptByRun

\* Whoever a run holds stays held until told, or until the run dies (cited for
\* CollectedIsTold).
THEOREM CollectedAreTold == Spec => CollectedIsTold
<1>1. TInv /\ [Next]_vars =>
        [\A r \in Runs : \A p \in Held(r) :
           p \in Held(r)' \/ told'[p] > told[p] \/ p \in lost']_vars
  BY KeptByNext DEF Kept
<1>2. Spec => []TInv
  BY TypeInit, TypeNext, PTL DEF Spec
<1>3. QED
  BY <1>1, <1>2, PTL DEF Spec, CollectedIsTold

=============================================================================
