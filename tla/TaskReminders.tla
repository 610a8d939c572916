---------------------------- MODULE TaskReminders ----------------------------
(***************************************************************************)
(* Reminders about bid tasks: the cron job that plans and fires "due soon" *)
(* reminders (planDueSoonReminders, then fireDueTaskReminders) and the one *)
(* that reports overdue tasks (sendOverdueReminders).                      *)
(*                                                                         *)
(* Cron starts a job again whether or not its last run has ended, so runs  *)
(* overlap; each database call and each emitEvent is one step, between     *)
(* which users edit the tasks and the process can die.                     *)
(*                                                                         *)
(* TaskReminderLog has no unique index, so a create never fails as a       *)
(* duplicate.  Tasks all have an owner; the findMany limits (200 and 100)  *)
(* are above the number of tasks here.                                     *)
(***************************************************************************)
EXTENDS Integers, Sequences, FiniteSets

CONSTANTS
  Tasks, Runs,
  DueDates,   \* the values of dueAt
  DueHours,   \* TASK_REMINDER_DUE_HOURS, in ticks
  Lead,       \* the hour before dueAt, in ticks
  DayLength,  \* ticks in a day
  MaxNow, MaxScans, MaxEdits, MaxFaults  \* bounds

MaxRows == MaxScans * Cardinality(Tasks)

ASSUME ReminderAssumption ==
  /\ IsFiniteSet(Tasks) /\ Tasks # {} /\ IsFiniteSet(Runs)
  /\ DueDates \subseteq Nat
  /\ DueHours \in Nat /\ Lead \in Nat /\ DayLength \in Nat \ {0}
  /\ MaxNow \in Nat /\ MaxScans \in Nat /\ MaxEdits \in Nat /\ MaxFaults \in Nat

VARIABLES
  now,
  task,      \* the BidTask rows
  rows,      \* TaskReminderLog, in order of creation
  run,       \* the job runs
  scans,     \* findMany calls over the tasks so far
  edits,     \* task edits so far
  faults,    \* exceptions and crashes so far
  sent,      \* history: TASK_DUE_SOON events emitted for each row
  nagged,    \* history: TASK_OVERDUE events, by task and day of the run
  doubtful   \* history: rows fetched by two runs at once, or emitted by a run
             \*   that died before firedAt was written

history == <<sent, nagged, doubtful>>
vars == <<now, task, rows, run, scans, edits, faults, history>>

Day(t) == t \div DayLength

TaskRows == [done : BOOLEAN, dueAt : DueDates]
LogRows  == [task : Tasks, type : {"DUE_SOON", "OVERDUE"}, fireAt : Int,
             fired : BOOLEAN]

\* found: <<task, dueAt>> pairs from findMany; due: row numbers from findMany;
\* item: the task (overdue) or the row (due soon) in hand.
RunStates == [pc : {"idle", "plan", "fire", "stamp", "log", "emit"}, now : Nat,
              found : SUBSET (Tasks \X DueDates), due : SUBSET (1..MaxRows),
              task : Tasks, row : Nat]

IdleRun == [pc |-> "idle", now |-> 0, found |-> {}, due |-> {},
            task |-> CHOOSE t \in Tasks : TRUE, row |-> 0]

Init ==
  /\ now = 1
  /\ task \in [Tasks -> {x \in TaskRows : ~x.done}]
  /\ rows = <<>>
  /\ run = [r \in Runs |-> IdleRun]
  /\ scans = 0 /\ edits = 0 /\ faults = 0
  /\ sent = [i \in 1..MaxRows |-> 0]
  /\ nagged = [x \in Tasks \X (0..Day(MaxNow)) |-> 0]
  /\ doubtful = {}

At(r, pc) == run[r].pc = pc
Log(t, type, fireAt) ==
  rows' = Append(rows, [task |-> t, type |-> type, fireAt |-> fireAt,
                        fired |-> FALSE])
Found(dates) ==
  {<<t, task[t].dueAt>> :
     t \in {u \in Tasks : ~task[u].done /\ task[u].dueAt \in dates}}

\* A findMany over the tasks, as long as MaxScans allows.
Scan(r, pc, found) ==
  /\ At(r, "idle")
  /\ scans < MaxScans
  /\ scans' = scans + 1
  /\ run' = [run EXCEPT ![r] = [IdleRun EXCEPT !.pc = pc, !.now = now,
                                               !.found = found]]

-----------------------------------------------------------------------------
(* planDueSoonReminders, then fireDueTaskReminders. *)

StartDueSoon(r) ==
  /\ Scan(r, "plan", Found(now..(now + DueHours)))
  /\ UNCHANGED <<now, task, rows, edits, faults, history>>

\* Past the bound on scans a run has nothing to plan and goes on to fire.
StartWithoutPlan(r) ==
  /\ At(r, "idle")
  /\ scans = MaxScans
  /\ run' = [run EXCEPT ![r] = [IdleRun EXCEPT !.pc = "plan", !.now = now]]
  /\ UNCHANGED <<now, task, rows, scans, edits, faults, history>>

PlanAgain(r, x) ==   \* mutant: the same task is planned over and over
  LET fireAt == x[2] - Lead IN
  /\ At(r, "plan")
  /\ x \in run[r].found
  /\ IF fireAt < run[r].now THEN UNCHANGED rows
                            ELSE Log(x[1], "DUE_SOON", fireAt)
  /\ UNCHANGED <<now, task, run, scans, edits, faults, history>>

\* A create that throws leaves this task out; the run goes on.
PlanOne(r, x) ==
  LET fireAt == x[2] - Lead IN
  /\ At(r, "plan")
  /\ x \in run[r].found
  /\ \/ fireAt >= run[r].now /\ Log(x[1], "DUE_SOON", fireAt)
     \/ UNCHANGED rows
  /\ run' = [run EXCEPT ![r].found = @ \ {x}]
  /\ UNCHANGED <<now, task, scans, edits, faults, history>>

DueRowsFiredToo ==   \* mutant: rows that fired are found again
  {i \in DOMAIN rows : rows[i].type = "DUE_SOON" /\ rows[i].fireAt <= now}

DueRows == {i \in DOMAIN rows : /\ rows[i].type = "DUE_SOON"
                                /\ ~rows[i].fired
                                /\ rows[i].fireAt <= now}

InHand(q) == run[q].due \cup (IF At(q, "stamp") THEN {run[q].row} ELSE {})

FindDue(r) ==
  /\ At(r, "plan")
  /\ run[r].found = {}
  /\ run' = [run EXCEPT ![r].pc = "fire", ![r].due = DueRows]
  /\ doubtful' = doubtful \cup
       (DueRows \cap UNION {InHand(q) : q \in Runs \ {r}})
  /\ UNCHANGED <<now, task, rows, scans, edits, faults, sent, nagged>>

\* The oldest first: orderBy fireAt asc.
Oldest(r) == {i \in run[r].due :
                \A j \in run[r].due : rows[i].fireAt <= rows[j].fireAt}

EmitStampedFirst(r, i) ==   \* mutant: firedAt before the event, like fireDueReminders
  /\ At(r, "fire")
  /\ i \in Oldest(r)
  /\ rows' = [rows EXCEPT ![i].fired = TRUE]
  /\ run' = [run EXCEPT ![r].pc = "stamp", ![r].row = i, ![r].due = @ \ {i}]
  /\ UNCHANGED <<now, task, scans, edits, faults, history>>

EmitDueSoon(r, i) ==
  /\ At(r, "fire")
  /\ i \in Oldest(r)
  /\ sent' = [sent EXCEPT ![i] = @ + 1]
  /\ run' = [run EXCEPT ![r].pc = "stamp", ![r].row = i, ![r].due = @ \ {i}]
  /\ UNCHANGED <<now, task, rows, scans, edits, faults, nagged, doubtful>>

StampFired(r) ==
  /\ At(r, "stamp")
  /\ rows' = [rows EXCEPT ![run[r].row].fired = TRUE]
  /\ run' = [run EXCEPT ![r].pc = "fire"]
  /\ UNCHANGED <<now, task, scans, edits, faults, history>>

EndDueSoon(r) ==
  /\ At(r, "fire")
  /\ run[r].due = {}
  /\ run' = [run EXCEPT ![r] = IdleRun]
  /\ UNCHANGED <<now, task, rows, scans, edits, faults, history>>

-----------------------------------------------------------------------------
(* sendOverdueReminders. *)

StartOverdue(r) ==
  /\ Scan(r, "log", Found({d \in DueDates : d < now}))
  /\ UNCHANGED <<now, task, rows, edits, faults, history>>

\* fireAt: day = startOfDay(now).
LogNothing(r, x) ==   \* mutant: the row is not written
  /\ At(r, "log")
  /\ x \in run[r].found
  /\ run' = [run EXCEPT ![r].pc = "emit", ![r].task = x[1], ![r].found = @ \ {x}]
  /\ UNCHANGED <<now, task, rows, scans, edits, faults, history>>

LogOverdue(r, x) ==
  /\ At(r, "log")
  /\ x \in run[r].found
  /\ Log(x[1], "OVERDUE", Day(run[r].now) * DayLength)
  /\ run' = [run EXCEPT ![r].pc = "emit", ![r].task = x[1], ![r].found = @ \ {x}]
  /\ UNCHANGED <<now, task, scans, edits, faults, history>>

EmitOverdue(r) ==
  /\ At(r, "emit")
  /\ nagged' = [nagged EXCEPT ![<<run[r].task, Day(run[r].now)>>] = @ + 1]
  /\ run' = [run EXCEPT ![r].pc = "log"]
  /\ UNCHANGED <<now, task, rows, scans, edits, faults, sent, doubtful>>

EndOverdue(r) ==
  /\ At(r, "log")
  /\ run[r].found = {}
  /\ run' = [run EXCEPT ![r] = IdleRun]
  /\ UNCHANGED <<now, task, rows, scans, edits, faults, history>>

-----------------------------------------------------------------------------
\* A call throws, which cron's catch ends the run for, or the process dies.
RunDies(r) ==
  /\ ~At(r, "idle")
  /\ faults < MaxFaults
  /\ faults' = faults + 1
  /\ run' = [run EXCEPT ![r] = IdleRun]
  /\ doubtful' = doubtful \cup (IF At(r, "stamp") THEN {run[r].row} ELSE {})
  /\ UNCHANGED <<now, task, rows, scans, edits, sent, nagged>>

\* updateTask changes the status or the due date.
EditTask(t, x) ==
  /\ edits < MaxEdits
  /\ x # task[t]
  /\ edits' = edits + 1
  /\ task' = [task EXCEPT ![t] = x]
  /\ UNCHANGED <<now, rows, run, scans, faults, history>>

Tick ==
  /\ now < MaxNow
  /\ now' = now + 1
  /\ UNCHANGED <<task, rows, run, scans, edits, faults, history>>

DueSoonStep(r) ==
  \/ \E x \in run[r].found : PlanOne(r, x)
  \/ FindDue(r) \/ (\E i \in run[r].due : EmitDueSoon(r, i)) \/ StampFired(r)
  \/ EndDueSoon(r)

OverdueStep(r) ==
  \/ \E x \in run[r].found : LogOverdue(r, x)
  \/ EmitOverdue(r) \/ EndOverdue(r)

StartDue(r) == StartDueSoon(r) \/ StartWithoutPlan(r)

Next ==
  \/ \E r \in Runs : \/ StartDue(r) \/ StartOverdue(r)
                     \/ DueSoonStep(r) \/ OverdueStep(r) \/ RunDies(r)
  \/ \E t \in Tasks, x \in TaskRows : EditTask(t, x)
  \/ Tick

Spec == Init /\ [][Next]_vars

\* A run goes on, cron keeps starting the due-soon job, and time passes.
Fairness ==
  /\ WF_vars(Tick)
  /\ \A r \in Runs : WF_vars(DueSoonStep(r)) /\ WF_vars(OverdueStep(r))
  /\ SF_vars(\E r \in Runs : StartDue(r))

FairSpec == Spec /\ Fairness

-----------------------------------------------------------------------------
TypeOK ==
  /\ now \in Nat
  /\ task \in [Tasks -> TaskRows]
  /\ rows \in Seq(LogRows) /\ Len(rows) <= MaxRows
  /\ run \in [Runs -> RunStates]
  /\ scans \in 0..MaxScans /\ edits \in 0..MaxEdits /\ faults \in 0..MaxFaults
  /\ sent \in [1..MaxRows -> Nat]
  /\ nagged \in [Tasks \X (0..Day(MaxNow)) -> Nat]
  /\ doubtful \subseteq 1..MaxRows

\* A reminder whose firedAt is set was emitted: no crash or exception can make
\* the log claim a reminder that nobody got.
FiredIsSent == \A i \in DOMAIN rows : rows[i].fired => sent[i] > 0

\* A planned reminder is emitted once, unless two overlapping runs fetched it
\* or its run died between the event and firedAt; and even then at most once for
\* each run there can be at a time and once more for each run that died.
SentOnce ==
  \A i \in DOMAIN rows : /\ i \notin doubtful => sent[i] <= 1
                         /\ sent[i] <= Cardinality(Runs) + faults

\* Every overdue event is in the log under its day: the log never shows fewer
\* than went out, however runs overlap and die.
NaggedIsLogged ==
  \A t \in Tasks, d \in 0..Day(MaxNow) :
    nagged[<<t, d>>] <= Cardinality({i \in DOMAIN rows :
      /\ rows[i].type = "OVERDUE" /\ rows[i].task = t
      /\ rows[i].fireAt = d * DayLength})

\* A planned reminder is emitted in the end, through any bounded number of
\* failed runs.
PlannedIsSent ==
  \A i \in 1..MaxRows :
    (i \in DOMAIN rows /\ rows[i].type = "DUE_SOON" /\ rows[i].fireAt <= MaxNow)
      ~> (sent[i] > 0)

\* sendOverdueReminders' comment "once per day": at most one overdue event for
\* a task on one day.
OverdueOncePerDay == \A x \in DOMAIN nagged : nagged[x] <= 1

=============================================================================
