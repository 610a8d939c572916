------------------------ MODULE TaskRemindersProofs ------------------------
(***************************************************************************)
(* Proofs about TaskReminders, for every finite set of tasks, any number   *)
(* of overlapping runs, and every bound.                                   *)
(***************************************************************************)
EXTENDS TaskReminders, FiniteSetTheorems, SequenceTheorems, TLAPS

USE ReminderAssumption

-----------------------------------------------------------------------------
(* Types: a scan finds each task once, so the log has room for its rows. *)

\* What runs have found and not yet handled.
Pending == {p \in Runs \X (Tasks \X DueDates) : p[2] \in run[p[1]].found}

Room == /\ IsFiniteSet(Pending)
        /\ Len(rows) + Cardinality(Pending) <= scans * Cardinality(Tasks)

\* A run has numbers of rows that exist.
Handy == \A r \in Runs : /\ run[r].due \subseteq DOMAIN rows
                         /\ At(r, "stamp") => run[r].row \in DOMAIN rows

TInv == TypeOK /\ Room /\ Handy

\* The same of the next state, for what the steps of runs disturb.
QInv == /\ rows \in Seq(LogRows) /\ Len(rows) <= MaxRows
        /\ run \in [Runs -> RunStates] /\ Room /\ Handy

LEMMA TaskCount == Cardinality(Tasks) \in Nat
  BY FS_CardinalityType

LEMMA IdleRunType == /\ IdleRun \in RunStates /\ IdleRun.pc = "idle"
                     /\ IdleRun.found = {} /\ IdleRun.due = {}
  BY DEF IdleRun, RunStates

LEMMA RoomIsEnough ==
  ASSUME NEW s \in 0..MaxScans, NEW l \in Nat, NEW p \in Nat,
         l + p <= s * Cardinality(Tasks)
  PROVE  l <= MaxRows
<1> DEFINE k == Cardinality(Tasks)
<1>1. k \in Nat
  BY TaskCount
<1>2. s \in Nat /\ MaxScans \in Nat /\ s <= MaxScans
  OBVIOUS
<1>0. l + p <= s * k
  OBVIOUS
<1> HIDE DEF k
<1>3. s * k <= MaxScans * k /\ s * k \in Nat /\ MaxScans * k \in Nat
  <2>1. (MaxScans - s) * k >= 0
    BY <1>1, <1>2
  <2>2. (MaxScans - s) * k = MaxScans * k - s * k
    BY <1>1, <1>2
  <2>3. QED
    BY <1>1, <1>2, <2>1, <2>2
<1>4. l <= MaxScans * k
  BY <1>0, <1>3
<1>5. QED
  BY <1>4 DEF MaxRows, k

\* The steps that log nothing.
LEMMA GoesOn ==
  ASSUME TInv, NEW r \in Runs, NEW p \in RunStates, run' = [run EXCEPT ![r] = p],
         p.found \subseteq run[r].found, p.due \subseteq DOMAIN rows,
         p.pc = "stamp" => p.row \in DOMAIN rows,
         rows' \in Seq(LogRows), Len(rows') = Len(rows), UNCHANGED scans
  PROVE  QInv'
<1>1. run' \in [Runs -> RunStates] /\ Len(rows') <= MaxRows
  BY DEF TInv, TypeOK
<1>2. Handy'
  BY <1>1 DEF TInv, TypeOK, Handy, At
<1>3. Pending' \subseteq Pending
  BY <1>1 DEF TInv, TypeOK, Pending
<1>4. Room'
  <2>1. /\ IsFiniteSet(Pending') /\ Cardinality(Pending') <= Cardinality(Pending)
        /\ Cardinality(Pending') \in Nat /\ Cardinality(Pending) \in Nat
    BY <1>3, FS_Subset, FS_CardinalityType DEF TInv, Room
  <2>2. Len(rows) \in Nat /\ scans \in Nat /\ scans * Cardinality(Tasks) \in Nat
    BY TaskCount DEF TInv, TypeOK
  <2>3. QED
    BY <2>1, <2>2 DEF TInv, Room
<1>5. QED
  BY <1>1, <1>2, <1>4 DEF QInv

\* A scan finds at most every task.
LEMMA ScanFinds ==
  ASSUME TInv, NEW r \in Runs, NEW dates,
         NEW pc \in {"plan", "log"}, Scan(r, pc, Found(dates)), UNCHANGED rows
  PROVE  QInv'
<1> DEFINE F == {r} \X Found(dates)
           p == [IdleRun EXCEPT !.pc = pc, !.now = now, !.found = Found(dates)]
<1>0. Found(dates) \subseteq Tasks \X DueDates
  BY DEF Found, TInv, TypeOK, TaskRows
<1>1. p \in RunStates /\ p.pc = pc /\ p.found = Found(dates) /\ p.due = {}
  <2>1. now \in Nat
    BY DEF TInv, TypeOK
  <2>2. QED
    BY <1>0, <2>1, IdleRunType DEF RunStates
<1>2. /\ run' = [run EXCEPT ![r] = p] /\ run' \in [Runs -> RunStates]
      /\ scans' = scans + 1 /\ scans' \in 0..MaxScans
  BY <1>1 DEF Scan, TInv, TypeOK
<1> HIDE DEF p
<1>3. Handy'
  BY <1>1, <1>2 DEF TInv, TypeOK, Handy, At
<1>4. IsFiniteSet(F) /\ Cardinality(F) <= Cardinality(Tasks)
  <2> DEFINE f == [y \in F |-> y[2][1]]
  <2>1. \A y \in F : y = <<r, <<y[2][1], task[y[2][1]].dueAt>>>> /\ y[2][1] \in Tasks
    BY DEF Found
  <2>2. f \in [F -> Tasks]
    BY <2>1
  <2>3. \A a, b \in F : f[a] = f[b] => a = b
    BY <2>1
  <2>4. f \in Injection(F, Tasks)
    BY <2>2, <2>3 DEF Injection, IsInjective
  <2>5. QED
    BY <2>4, FS_Injection
<1>5. Pending' \subseteq Pending \cup F
  <2>1. SUFFICES ASSUME NEW y \in Runs \X (Tasks \X DueDates), y[2] \in run'[y[1]].found
                 PROVE  y \in Pending \cup F
    BY DEF Pending
  <2>2. CASE y[1] = r
    BY <1>0, <1>1, <1>2, <2>1, <2>2
  <2>3. CASE y[1] # r
    BY <1>2, <2>1, <2>3 DEF Pending, TInv, TypeOK
  <2>4. QED
    BY <2>2, <2>3
<1> HIDE DEF F
<1>6. /\ IsFiniteSet(Pending \cup F)
      /\ Cardinality(Pending \cup F) <= Cardinality(Pending) + Cardinality(Tasks)
  <2>1. /\ IsFiniteSet(Pending) /\ IsFiniteSet(Pending \cap F)
        /\ Cardinality(Pending) \in Nat /\ Cardinality(Pending \cap F) \in Nat
        /\ Cardinality(F) \in Nat
    BY <1>4, FS_CardinalityType, FS_Subset DEF TInv, Room
  <2>2. /\ IsFiniteSet(Pending \cup F)
        /\ Cardinality(Pending \cup F) =
             Cardinality(Pending) + Cardinality(F) - Cardinality(Pending \cap F)
    BY <1>4, <2>1, FS_Union
  <2>3. QED
    BY <1>4, <2>1, <2>2, TaskCount
<1>7. /\ IsFiniteSet(Pending') /\ Cardinality(Pending') \in Nat
      /\ Cardinality(Pending') <= Cardinality(Pending) + Cardinality(Tasks)
  <2>1. /\ IsFiniteSet(Pending')
        /\ Cardinality(Pending') <= Cardinality(Pending \cup F)
    BY <1>5, <1>6, FS_Subset
  <2>2. /\ Cardinality(Pending') \in Nat /\ Cardinality(Pending \cup F) \in Nat
        /\ Cardinality(Pending) \in Nat
    BY <1>6, <2>1, FS_CardinalityType DEF TInv, Room
  <2>3. QED
    BY <1>6, <2>1, <2>2, TaskCount
<1>8. Len(rows) + Cardinality(Pending') <= scans' * Cardinality(Tasks)
  <2> DEFINE k == Cardinality(Tasks)
  <2>1. /\ k \in Nat /\ scans \in Nat /\ Len(rows) \in Nat
        /\ Cardinality(Pending) \in Nat
    BY TaskCount, FS_CardinalityType DEF TInv, TypeOK, Room
  <2>2. Len(rows) + Cardinality(Pending) <= scans * k
    BY DEF TInv, Room
  <2> HIDE DEF k
  <2>3. (scans + 1) * k = scans * k + k /\ scans * k \in Nat
    BY <2>1
  <2>4. Cardinality(Pending') <= Cardinality(Pending) + k
    BY <1>7 DEF k
  <2>5. Len(rows) + Cardinality(Pending') <= (scans + 1) * k
    BY <1>7, <2>1, <2>2, <2>3, <2>4
  <2>6. QED
    BY <1>2, <2>5 DEF k
<1>9. QED
  BY <1>2, <1>3, <1>7, <1>8 DEF QInv, Room, TInv, TypeOK

\* What Log appends.
LEMMA LogEffect ==
  ASSUME TInv, NEW t \in Tasks, NEW type \in {"DUE_SOON", "OVERDUE"}, NEW f \in Int,
         Log(t, type, f)
  PROVE  /\ rows' \in Seq(LogRows) /\ Len(rows') = Len(rows) + 1
         /\ DOMAIN rows = 1..Len(rows) /\ DOMAIN rows' = 1..(Len(rows) + 1)
         /\ ~rows'[Len(rows) + 1].fired
         /\ \A i \in DOMAIN rows : rows'[i] = rows[i]
  BY DEF Log, TInv, TypeOK, LogRows

\* Of what it found a run turns one into a row.
LEMMA Logs ==
  ASSUME TInv, NEW r \in Runs, NEW x \in run[r].found, NEW p \in RunStates,
         NEW type \in {"DUE_SOON", "OVERDUE"}, NEW f \in Int,
         Log(x[1], type, f), run' = [run EXCEPT ![r] = p],
         p.found = run[r].found \ {x}, p.due = run[r].due, p.pc # "stamp",
         UNCHANGED scans
  PROVE  QInv'
<1>1. /\ x \in Tasks \X DueDates /\ x[1] \in Tasks
      /\ run' \in [Runs -> RunStates]
  BY DEF TInv, TypeOK, RunStates
<1>2. /\ rows' \in Seq(LogRows) /\ Len(rows') = Len(rows) + 1
      /\ DOMAIN rows = 1..Len(rows) /\ DOMAIN rows' = 1..(Len(rows) + 1)
  BY <1>1, LogEffect
<1>3. DOMAIN rows \subseteq DOMAIN rows'
  BY <1>2 DEF TInv, TypeOK
<1>4. Handy'
  BY <1>1, <1>3 DEF TInv, TypeOK, Handy, At
<1>5. Pending' \subseteq Pending \ {<<r, x>>} /\ <<r, x>> \in Pending
  BY <1>1 DEF Pending, TInv, TypeOK
<1>6. /\ IsFiniteSet(Pending') /\ Cardinality(Pending') \in Nat
      /\ Cardinality(Pending') + 1 <= Cardinality(Pending)
  <2>1. /\ IsFiniteSet(Pending \ {<<r, x>>})
        /\ Cardinality(Pending \ {<<r, x>>}) = Cardinality(Pending) - 1
    BY <1>5, FS_RemoveElement DEF TInv, Room
  <2>2. /\ IsFiniteSet(Pending')
        /\ Cardinality(Pending') <= Cardinality(Pending \ {<<r, x>>})
    BY <1>5, <2>1, FS_Subset
  <2>3. Cardinality(Pending') \in Nat /\ Cardinality(Pending) \in Nat
    BY <2>2, FS_CardinalityType DEF TInv, Room
  <2>4. QED
    BY <2>1, <2>2, <2>3
<1>7. Room'
  <2>1. /\ Len(rows) \in Nat /\ Cardinality(Pending) \in Nat
        /\ scans * Cardinality(Tasks) \in Nat
        /\ Len(rows) + Cardinality(Pending) <= scans * Cardinality(Tasks)
    BY TaskCount, FS_CardinalityType DEF TInv, TypeOK, Room
  <2>2. QED
    BY <1>2, <1>6, <2>1 DEF Room
<1>8. Len(rows') <= MaxRows
  <2>1. scans \in 0..MaxScans /\ Len(rows') \in Nat
    BY <1>2 DEF TInv, TypeOK
  <2>2. Len(rows') + Cardinality(Pending') <= scans * Cardinality(Tasks)
    BY <1>7 DEF Room
  <2>3. QED
    BY <1>6, <2>1, <2>2, RoomIsEnough
<1>9. QED
  BY <1>1, <1>2, <1>4, <1>7, <1>8 DEF QInv

LEMMA FireAtType ==
  ASSUME TInv, NEW r \in Runs
  PROVE  Day(run[r].now) * DayLength \in Int /\ Day(run[r].now) \in Int
<1>1. run[r].now \in Nat
  BY DEF TInv, TypeOK, RunStates
<1>2. Day(run[r].now) \in Int
  BY <1>1 DEF Day
<1>3. QED
  BY <1>2

\* The steps of a run after it found its tasks.
Emits(r) == (\E i \in run[r].due : EmitDueSoon(r, i)) \/ EmitOverdue(r)

LEMMA RunSteps ==
  Next => \/ \E r \in Runs :
               \/ StartDueSoon(r) \/ StartOverdue(r) \/ StartWithoutPlan(r)
               \/ \E x \in run[r].found : PlanOne(r, x) \/ LogOverdue(r, x)
               \/ FindDue(r) \/ StampFired(r) \/ Emits(r)
               \/ EndDueSoon(r) \/ EndOverdue(r) \/ RunDies(r)
          \/ UNCHANGED <<rows, run, scans>>
  BY DEF Next, StartDue, DueSoonStep, OverdueStep, Emits, EditTask, Tick

LEMMA PlanLogs ==
  ASSUME TInv, NEW r \in Runs, NEW x \in run[r].found, PlanOne(r, x) \/ LogOverdue(r, x)
  PROVE  QInv'
<1>t. /\ run[r] \in RunStates /\ rows \in Seq(LogRows)
      /\ x[1] \in Tasks /\ x[2] \in Int /\ x[2] - Lead \in Int
  <2>1. run[r] \in RunStates /\ rows \in Seq(LogRows)
    BY DEF TInv, TypeOK
  <2>2. x \in Tasks \X DueDates
    BY <2>1 DEF RunStates
  <2>3. x[1] \in Tasks /\ x[2] \in Nat
    BY <2>2
  <2>4. QED
    BY <2>1, <2>3
<1>1. CASE PlanOne(r, x)
  <2> DEFINE p == [run[r] EXCEPT !.found = @ \ {x}]
  <2>1. /\ p \in RunStates /\ p.found = run[r].found \ {x} /\ p.due = run[r].due
        /\ p.pc = "plan" /\ run' = [run EXCEPT ![r] = p] /\ UNCHANGED scans
    BY <1>1, <1>t DEF PlanOne, At, TInv, TypeOK, RunStates
  <2>2. UNCHANGED rows \/ Log(x[1], "DUE_SOON", x[2] - Lead)
    BY <1>1 DEF PlanOne
  <2> HIDE DEF p
  <2>3. CASE UNCHANGED rows
    BY <1>t, <2>1, <2>3, GoesOn DEF TInv, Handy
  <2>4. CASE Log(x[1], "DUE_SOON", x[2] - Lead)
    BY <1>t, <2>1, <2>4, Logs
  <2>5. QED
    BY <2>2, <2>3, <2>4
<1>2. CASE LogOverdue(r, x)
  <2> DEFINE p == [run[r] EXCEPT !.pc = "emit", !.task = x[1], !.found = @ \ {x}]
  <2>1. /\ p \in RunStates /\ p.found = run[r].found \ {x} /\ p.due = run[r].due
        /\ p.pc = "emit" /\ run' = [run EXCEPT ![r] = p] /\ UNCHANGED scans
        /\ Log(x[1], "OVERDUE", Day(run[r].now) * DayLength)
    BY <1>2, <1>t DEF LogOverdue, TInv, TypeOK, RunStates
  <2> HIDE DEF p
  <2>2. QED
    BY <1>t, <2>1, FireAtType, Logs
<1>3. QED
  BY <1>1, <1>2

LEMMA DueRowsType ==
  TInv => /\ DueRows \subseteq DOMAIN rows
          /\ DOMAIN rows \subseteq 1..MaxRows /\ DOMAIN rows \subseteq Nat
<1>1. MaxRows \in Nat
  BY TaskCount DEF MaxRows
<1>2. ASSUME TInv PROVE Len(rows) \in Nat /\ DOMAIN rows = 1..Len(rows) /\ Len(rows) <= MaxRows
  BY <1>2 DEF TInv, TypeOK
<1>3. QED
  BY <1>1, <1>2 DEF DueRows

LEMMA QueueNext == ASSUME TInv, Next PROVE QInv'
<1>t. /\ \A r \in Runs : run[r] \in RunStates /\ run[r].due \subseteq DOMAIN rows
      /\ rows \in Seq(LogRows) /\ DOMAIN rows \subseteq 1..MaxRows
      /\ DOMAIN rows \subseteq Nat
  BY DueRowsType DEF TInv, TypeOK, Handy
<1>k. ASSUME NEW r \in Runs, NEW p \in RunStates, run' = [run EXCEPT ![r] = p],
             p.found \subseteq run[r].found, p.due \subseteq DOMAIN rows,
             p.pc = "stamp" => p.row \in DOMAIN rows, UNCHANGED <<rows, scans>>
      PROVE  QInv'
  BY <1>k, <1>t, GoesOn
<1>1. ASSUME NEW r \in Runs, StartDueSoon(r) \/ StartOverdue(r) PROVE QInv'
  BY <1>1, ScanFinds DEF StartDueSoon, StartOverdue
<1>2. ASSUME NEW r \in Runs, StartWithoutPlan(r) PROVE QInv'
  <2> DEFINE p == [IdleRun EXCEPT !.pc = "plan", !.now = now]
  <2>1. p \in RunStates /\ p.pc = "plan" /\ p.found = {} /\ p.due = {}
    <3>1. now \in Nat
      BY DEF TInv, TypeOK
    <3>2. QED
      BY <3>1, IdleRunType DEF RunStates
  <2>2. run' = [run EXCEPT ![r] = p] /\ UNCHANGED <<rows, scans>>
    BY <1>2 DEF StartWithoutPlan
  <2> HIDE DEF p
  <2>3. QED
    BY <1>k, <2>1, <2>2
<1>3. ASSUME NEW r \in Runs, NEW x \in run[r].found, PlanOne(r, x) \/ LogOverdue(r, x)
      PROVE  QInv'
  BY <1>3, PlanLogs
<1>4. ASSUME NEW r \in Runs, FindDue(r) PROVE QInv'
  <2> DEFINE p == [run[r] EXCEPT !.pc = "fire", !.due = DueRows]
  <2>1. /\ p \in RunStates /\ p.pc = "fire" /\ p.found = run[r].found
        /\ p.due \subseteq DOMAIN rows
    BY <1>t, DueRowsType DEF RunStates
  <2>2. run' = [run EXCEPT ![r] = p] /\ UNCHANGED <<rows, scans>>
    BY <1>4 DEF FindDue, TInv, TypeOK, RunStates
  <2> HIDE DEF p
  <2>3. QED
    BY <1>k, <2>1, <2>2
<1>5. ASSUME NEW r \in Runs, NEW i \in run[r].due, EmitDueSoon(r, i) PROVE QInv'
  <2> DEFINE p == [run[r] EXCEPT !.pc = "stamp", !.row = i, !.due = @ \ {i}]
  <2>1. /\ p \in RunStates /\ p.found = run[r].found /\ p.row = i /\ i \in DOMAIN rows
        /\ p.due \subseteq DOMAIN rows
    BY <1>t DEF RunStates
  <2>2. run' = [run EXCEPT ![r] = p] /\ UNCHANGED <<rows, scans>>
    BY <1>5 DEF EmitDueSoon, TInv, TypeOK, RunStates
  <2> HIDE DEF p
  <2>3. QED
    BY <1>k, <2>1, <2>2
<1>6. ASSUME NEW r \in Runs, StampFired(r) PROVE QInv'
  <2> DEFINE p == [run[r] EXCEPT !.pc = "fire"]
  <2>1. /\ p \in RunStates /\ p.pc = "fire" /\ p.found = run[r].found
        /\ p.due = run[r].due
    BY <1>t DEF RunStates
  <2>2. run' = [run EXCEPT ![r] = p] /\ UNCHANGED scans
    BY <1>6 DEF StampFired, TInv, TypeOK, RunStates
  <2>3. rows' \in Seq(LogRows) /\ Len(rows') = Len(rows)
    <3> DEFINE i == run[r].row
               e == [rows[i] EXCEPT !.fired = TRUE]
    <3>1. i \in DOMAIN rows /\ rows' = [rows EXCEPT ![i].fired = TRUE]
      BY <1>6 DEF StampFired, At, TInv, Handy
    <3>2. rows[i] \in LogRows
      BY <1>t, <3>1
    <3>3. e \in LogRows /\ rows' = [rows EXCEPT ![i] = e]
      BY <3>1, <3>2 DEF LogRows
    <3> HIDE DEF i, e
    <3>4. i \in 1..Len(rows)
      BY <1>t, <3>1
    <3>5. QED
      BY <1>t, <3>3, <3>4, ExceptSeq
  <2> HIDE DEF p
  <2>4. QED
    BY <1>t, <2>1, <2>2, <2>3, GoesOn
<1>7. ASSUME NEW r \in Runs, EmitOverdue(r) PROVE QInv'
  <2> DEFINE p == [run[r] EXCEPT !.pc = "log"]
  <2>1. /\ p \in RunStates /\ p.pc = "log" /\ p.found = run[r].found
        /\ p.due = run[r].due
    BY <1>t DEF RunStates
  <2>2. run' = [run EXCEPT ![r] = p] /\ UNCHANGED <<rows, scans>>
    BY <1>7 DEF EmitOverdue, TInv, TypeOK, RunStates
  <2> HIDE DEF p
  <2>3. QED
    BY <1>k, <1>t, <2>1, <2>2
<1>8. ASSUME NEW r \in Runs, EndDueSoon(r) \/ EndOverdue(r) \/ RunDies(r) PROVE QInv'
  <2>1. run' = [run EXCEPT ![r] = IdleRun] /\ UNCHANGED <<rows, scans>>
    BY <1>8 DEF EndDueSoon, EndOverdue, RunDies
  <2>2. QED
    BY <1>k, <2>1, IdleRunType
<1>9. CASE UNCHANGED <<rows, run, scans>>
  BY <1>9 DEF TInv, TypeOK, QInv, Room, Pending, Handy, At
<1>10. QED
  BY <1>1, <1>2, <1>3, <1>4, <1>5, <1>6, <1>7, <1>8, <1>9, RunSteps DEF Emits

LEMMA TypeNext == ASSUME TInv, Next PROVE TInv'
<1>1. QInv'
  BY QueueNext
<1>2. /\ Tick \/ UNCHANGED now
      /\ (\E t \in Tasks, x \in TaskRows : EditTask(t, x)) \/ UNCHANGED <<task, edits>>
      /\ (\E r \in Runs : RunDies(r)) \/ UNCHANGED faults
      /\ (\E r \in Runs : StartDueSoon(r) \/ StartOverdue(r)) \/ UNCHANGED scans
  <2>1. ASSUME NEW r \in Runs, StartDue(r) \/ StartOverdue(r) \/ RunDies(r)
        PROVE  /\ UNCHANGED <<now, task, edits>>
               /\ RunDies(r) \/ UNCHANGED faults
               /\ StartDueSoon(r) \/ StartOverdue(r) \/ UNCHANGED scans
    BY <2>1 DEF StartDue, StartDueSoon, StartOverdue, StartWithoutPlan, RunDies
  <2>2. ASSUME NEW r \in Runs, DueSoonStep(r) \/ OverdueStep(r)
        PROVE  UNCHANGED <<now, task, edits, faults, scans>>
    BY <2>2 DEF DueSoonStep, OverdueStep, PlanOne, FindDue, EmitDueSoon, StampFired,
       EndDueSoon, LogOverdue, EmitOverdue, EndOverdue
  <2>3. ASSUME NEW t \in Tasks, NEW x \in TaskRows, EditTask(t, x)
        PROVE  UNCHANGED <<now, faults, scans>>
    BY <2>3 DEF EditTask
  <2>4. Tick => UNCHANGED <<task, edits, faults, scans>>
    BY DEF Tick
  <2>5. QED
    BY <2>1, <2>2, <2>3, <2>4 DEF Next
<1>3. /\ now' \in Nat /\ edits' \in 0..MaxEdits /\ task' \in [Tasks -> TaskRows]
      /\ scans' \in 0..MaxScans /\ faults' \in 0..MaxFaults
  <2>1. now' \in Nat /\ edits' \in 0..MaxEdits /\ task' \in [Tasks -> TaskRows]
    <3>1. now \in Nat /\ edits \in 0..MaxEdits /\ task \in [Tasks -> TaskRows]
      BY DEF TInv, TypeOK
    <3>2. UNCHANGED now \/ now' = now + 1
      BY <1>2 DEF Tick
    <3>3. \/ UNCHANGED <<task, edits>>
          \/ /\ edits < MaxEdits /\ edits' = edits + 1
             /\ \E t \in Tasks, x \in TaskRows : task' = [task EXCEPT ![t] = x]
      BY <1>2 DEF EditTask
    <3>4. QED
      BY <3>1, <3>2, <3>3
  <2>2. scans' \in 0..MaxScans
    <3>1. scans \in 0..MaxScans
      BY DEF TInv, TypeOK
    <3>2. UNCHANGED scans \/ (scans < MaxScans /\ scans' = scans + 1)
      BY <1>2 DEF StartDueSoon, StartOverdue, Scan
    <3>3. QED
      BY <3>1, <3>2
  <2>3. faults' \in 0..MaxFaults
    <3>1. faults \in 0..MaxFaults
      BY DEF TInv, TypeOK
    <3>2. UNCHANGED faults \/ (faults < MaxFaults /\ faults' = faults + 1)
      BY <1>2 DEF RunDies
    <3>3. QED
      BY <3>1, <3>2
  <2>4. QED
    BY <2>1, <2>2, <2>3
<1>4. \/ \E r \in Runs : \E i \in run[r].due : EmitDueSoon(r, i)
      \/ UNCHANGED sent
  BY DEF Next, StartDue, DueSoonStep, OverdueStep, StartDueSoon, StartOverdue,
     StartWithoutPlan, PlanOne, FindDue, StampFired, EndDueSoon, LogOverdue,
     EmitOverdue, EndOverdue, RunDies, EditTask, Tick, history
<1>5. (\E r \in Runs : EmitOverdue(r)) \/ UNCHANGED nagged
  BY DEF Next, StartDue, DueSoonStep, OverdueStep, StartDueSoon, StartOverdue,
     StartWithoutPlan, PlanOne, FindDue, EmitDueSoon, StampFired, EndDueSoon, LogOverdue,
     EndOverdue, RunDies, EditTask, Tick, history
<1>6. (\E r \in Runs : FindDue(r) \/ RunDies(r)) \/ UNCHANGED doubtful
  BY DEF Next, StartDue, DueSoonStep, OverdueStep, StartDueSoon, StartOverdue,
     StartWithoutPlan, PlanOne, EmitDueSoon, StampFired, EndDueSoon, LogOverdue,
     EmitOverdue, EndOverdue, EditTask, Tick, history
<1>7. sent' \in [1..MaxRows -> Nat]
  <2>1. sent \in [1..MaxRows -> Nat]
    BY DEF TInv, TypeOK
  <2>2. ASSUME NEW i, sent' = [sent EXCEPT ![i] = @ + 1]
        PROVE  sent' \in [1..MaxRows -> Nat]
    <3>1. \A j \in 1..MaxRows : sent'[j] \in Nat
      BY <2>1, <2>2
    <3>2. QED
      BY <2>1, <2>2, <3>1
  <2>3. QED
    BY <1>4, <2>1, <2>2 DEF EmitDueSoon
<1>8. nagged' \in [Tasks \X (0..Day(MaxNow)) -> Nat]
  <2>1. nagged \in [Tasks \X (0..Day(MaxNow)) -> Nat]
    BY DEF TInv, TypeOK
  <2>2. ASSUME NEW x, nagged' = [nagged EXCEPT ![x] = @ + 1]
        PROVE  nagged' \in [Tasks \X (0..Day(MaxNow)) -> Nat]
    <3>1. \A y \in Tasks \X (0..Day(MaxNow)) : nagged'[y] \in Nat
      BY <2>1, <2>2
    <3>2. QED
      BY <2>1, <2>2, <3>1
  <2>3. QED
    BY <1>5, <2>1, <2>2 DEF EmitOverdue
<1>9. doubtful' \subseteq 1..MaxRows
  <2>1. doubtful \subseteq 1..MaxRows
    BY DEF TInv, TypeOK
  <2>2. \A r \in Runs : FindDue(r) => doubtful' \subseteq doubtful \cup DueRows
    BY DEF FindDue
  <2>3. \A r \in Runs : RunDies(r) => doubtful' \subseteq doubtful \cup DOMAIN rows
    BY DEF RunDies, TInv, Handy
  <2>4. QED
    BY <1>6, <2>1, <2>2, <2>3, DueRowsType
<1>10. QED
  BY <1>1, <1>3, <1>7, <1>8, <1>9 DEF QInv, TInv, TypeOK

LEMMA TypeInit == Init => TInv
<1> SUFFICES ASSUME Init PROVE TInv
  OBVIOUS
<1>1. /\ run \in [Runs -> RunStates] /\ Handy /\ Pending = {}
  BY IdleRunType DEF Init, Handy, Pending, At
<1>2. rows \in Seq(LogRows) /\ Len(rows) = 0 /\ scans = 0
  BY DEF Init
<1>3. Room
  BY <1>1, <1>2, FS_EmptySet, TaskCount DEF Room
<1>4. Len(rows) <= MaxRows
  <2>1. 0 \in 0..MaxScans /\ 0 + 0 <= 0 * Cardinality(Tasks)
    BY TaskCount
  <2>2. 0 <= MaxRows
    BY <2>1, RoomIsEnough
  <2>3. QED
    BY <1>2, <2>2
<1>5. QED
  BY <1>1, <1>2, <1>3, <1>4 DEF Init, TInv, TypeOK

LEMMA TypeStutter == ASSUME TInv, UNCHANGED vars PROVE TInv'
  BY DEF TInv, TypeOK, Room, Pending, Handy, At, vars, history

\* Every reachable state is well typed: however runs overlap and die, the log
\* has no more rows than the scans found tasks.
THEOREM TypeCorrect == Spec => []TypeOK
<1>1. TInv /\ [Next]_vars => TInv'
  BY TypeNext, TypeStutter
<1>2. TInv => TypeOK
  BY DEF TInv
<1>3. QED
  BY TypeInit, <1>1, <1>2, PTL DEF Spec

-----------------------------------------------------------------------------
(* What was sent, and by whom. *)

\* A row whose firedAt is set, or is about to be, was sent.
Stamped ==
  /\ FiredIsSent
  /\ \A r \in Runs : At(r, "stamp") => sent[run[r].row] > 0

\* A row that is not doubtful is in the hands of one run at most, which has not
\* sent it, or has and is about to set firedAt.
Single ==
  /\ \A i \in 1..MaxRows : sent[i] > 0 => i \in DOMAIN rows
  /\ \A i \in DOMAIN rows : i \notin doubtful =>
       /\ sent[i] <= 1
       /\ sent[i] > 0 => \/ rows[i].fired
                         \/ \E r \in Runs : At(r, "stamp") /\ run[r].row = i
       /\ \A r \in Runs : i \in run[r].due => ~rows[i].fired /\ sent[i] = 0
       /\ \A q, r \in Runs : i \in InHand(q) /\ i \in InHand(r) => q = r
       /\ \A r \in Runs : i \in run[r].due => ~(At(r, "stamp") /\ run[r].row = i)

\* A run that neither fires nor stamps.
Plans(r) ==
  \/ StartDueSoon(r) \/ StartOverdue(r) \/ StartWithoutPlan(r)
  \/ \E x \in run[r].found : PlanOne(r, x) \/ LogOverdue(r, x)
  \/ EmitOverdue(r) \/ EndDueSoon(r) \/ EndOverdue(r)

\* After such a step the run is not at "stamp" and has nothing new in hand; rows
\* are only added.
LEMMA PlansEffect ==
  ASSUME TInv, NEW r \in Runs, Plans(r)
  PROVE  /\ UNCHANGED <<sent, doubtful>> /\ ~At(r, "stamp")
         /\ run'[r].pc # "stamp" /\ run'[r].due \subseteq run[r].due
         /\ \A q \in Runs \ {r} : run'[q] = run[q]
         /\ DOMAIN rows \subseteq DOMAIN rows'
         /\ \A i \in DOMAIN rows : rows'[i] = rows[i]
         /\ \A i \in DOMAIN rows' \ DOMAIN rows : ~rows'[i].fired
<1>t. /\ run \in [Runs -> RunStates] /\ IdleRun.due = {} /\ IdleRun \in RunStates
  BY IdleRunType DEF TInv, TypeOK
<1>1. CASE StartDueSoon(r) \/ StartOverdue(r) \/ StartWithoutPlan(r)
  <2>1. UNCHANGED <<rows, sent, doubtful>> /\ At(r, "idle")
    BY <1>1 DEF StartDueSoon, StartOverdue, StartWithoutPlan, Scan, history
  <2>2. /\ run'[r].pc \in {"plan", "log"} /\ run'[r].due = {}
        /\ \A q \in Runs \ {r} : run'[q] = run[q]
    <3>1. \/ \E found : \E pc \in {"plan", "log"} :
               run' = [run EXCEPT ![r] = [IdleRun EXCEPT !.pc = pc, !.now = now,
                                                         !.found = found]]
          \/ run' = [run EXCEPT ![r] = [IdleRun EXCEPT !.pc = "plan", !.now = now]]
      BY <1>1 DEF StartDueSoon, StartOverdue, StartWithoutPlan, Scan
    <3>2. PICK p : /\ run' = [run EXCEPT ![r] = p]
                   /\ \/ \E found : \E pc \in {"plan", "log"} :
                           p = [IdleRun EXCEPT !.pc = pc, !.now = now, !.found = found]
                      \/ p = [IdleRun EXCEPT !.pc = "plan", !.now = now]
      BY <3>1
    <3>3. p.pc \in {"plan", "log"} /\ p.due = {}
      BY <3>2 DEF IdleRun
    <3>4. QED
      BY <1>t, <3>2, <3>3
  <2>3. QED
    BY <2>1, <2>2 DEF At
<1>2. CASE EmitOverdue(r) \/ EndDueSoon(r) \/ EndOverdue(r)
  BY <1>t, <1>2, IdleRunType DEF EmitOverdue, EndDueSoon, EndOverdue, At, history, RunStates
<1>3. ASSUME NEW x \in run[r].found, PlanOne(r, x) \/ LogOverdue(r, x)
      PROVE  /\ UNCHANGED <<sent, doubtful>> /\ ~At(r, "stamp")
             /\ run'[r].pc # "stamp" /\ run'[r].due = run[r].due
             /\ \A q \in Runs \ {r} : run'[q] = run[q]
  BY <1>t, <1>3 DEF PlanOne, LogOverdue, At, history, RunStates
<1>4. ASSUME NEW x \in run[r].found, PlanOne(r, x) \/ LogOverdue(r, x)
      PROVE  /\ DOMAIN rows \subseteq DOMAIN rows'
             /\ \A i \in DOMAIN rows : rows'[i] = rows[i]
             /\ \A i \in DOMAIN rows' \ DOMAIN rows : ~rows'[i].fired
  <2>1. x \in Tasks \X DueDates /\ Len(rows) \in Nat
    BY <1>t DEF RunStates, TInv, TypeOK
  <2>2. x[1] \in Tasks /\ x[2] - Lead \in Int
    <3>1. x[1] \in Tasks /\ x[2] \in Nat
      BY <2>1
    <3>2. QED
      BY <3>1
  <2>3. ASSUME NEW type \in {"DUE_SOON", "OVERDUE"}, NEW f \in Int, Log(x[1], type, f)
        PROVE  /\ DOMAIN rows \subseteq DOMAIN rows'
               /\ \A i \in DOMAIN rows : rows'[i] = rows[i]
               /\ \A i \in DOMAIN rows' \ DOMAIN rows : ~rows'[i].fired
    <3>1. /\ DOMAIN rows = 1..Len(rows) /\ DOMAIN rows' = 1..(Len(rows) + 1)
          /\ ~rows'[Len(rows) + 1].fired
          /\ \A i \in DOMAIN rows : rows'[i] = rows[i]
      BY <2>2, <2>3, LogEffect
    <3>2. \A i \in 1..(Len(rows) + 1) : i \notin 1..Len(rows) => i = Len(rows) + 1
      BY <2>1
    <3>3. 1..Len(rows) \subseteq 1..(Len(rows) + 1)
      BY <2>1
    <3>4. QED
      BY <3>1, <3>2, <3>3
  <2>4. \/ UNCHANGED rows \/ Log(x[1], "DUE_SOON", x[2] - Lead)
        \/ Log(x[1], "OVERDUE", Day(run[r].now) * DayLength)
    BY <1>4 DEF PlanOne, LogOverdue
  <2>5. QED
    BY <2>2, <2>3, <2>4, FireAtType
<1>5. QED
  BY <1>1, <1>2, <1>3, <1>4 DEF Plans, StartDueSoon, StartOverdue, StartWithoutPlan,
     EmitOverdue, EndDueSoon, EndOverdue

LEMMA StepKinds ==
  Next => \/ \E r \in Runs :
               \/ Plans(r) \/ FindDue(r) \/ StampFired(r) \/ RunDies(r)
               \/ \E i \in run[r].due : EmitDueSoon(r, i)
          \/ UNCHANGED <<rows, run, sent, doubtful>>
  BY DEF Next, StartDue, DueSoonStep, OverdueStep, Plans, EditTask, Tick, history

LEMMA EmitEffect ==
  ASSUME TInv, NEW r \in Runs, NEW i \in run[r].due, EmitDueSoon(r, i)
  PROVE  /\ i \in DOMAIN rows /\ i \in 1..MaxRows /\ ~At(r, "stamp")
         /\ UNCHANGED <<rows, doubtful>>
         /\ sent'[i] = sent[i] + 1 /\ \A j \in 1..MaxRows \ {i} : sent'[j] = sent[j]
         /\ run'[r].pc = "stamp" /\ run'[r].row = i /\ run'[r].due = run[r].due \ {i}
         /\ \A q \in Runs \ {r} : run'[q] = run[q]
  BY DueRowsType DEF EmitDueSoon, At, TInv, TypeOK, Handy, RunStates

LEMMA StampEffect ==
  ASSUME TInv, NEW r \in Runs, StampFired(r)
  PROVE  /\ At(r, "stamp") /\ run[r].row \in DOMAIN rows
         /\ UNCHANGED <<sent, doubtful>> /\ DOMAIN rows' = DOMAIN rows
         /\ rows'[run[r].row].fired
         /\ \A i \in DOMAIN rows \ {run[r].row} : rows'[i] = rows[i]
         /\ run'[r].pc = "fire" /\ run'[r].due = run[r].due
         /\ \A q \in Runs \ {r} : run'[q] = run[q]
  BY DEF StampFired, At, TInv, TypeOK, Handy, RunStates, LogRows, history

LEMMA FindEffect ==
  ASSUME TInv, NEW r \in Runs, FindDue(r)
  PROVE  /\ At(r, "plan") /\ UNCHANGED <<rows, sent>>
         /\ doubtful' = doubtful \cup
              (DueRows \cap UNION {InHand(q) : q \in Runs \ {r}})
         /\ run'[r].pc = "fire" /\ run'[r].due = DueRows
         /\ \A q \in Runs \ {r} : run'[q] = run[q]
  BY DEF FindDue, TInv, TypeOK, RunStates

LEMMA DiesEffect ==
  ASSUME TInv, NEW r \in Runs, RunDies(r)
  PROVE  /\ UNCHANGED <<rows, sent>>
         /\ doubtful' = doubtful \cup (IF At(r, "stamp") THEN {run[r].row} ELSE {})
         /\ run'[r].pc = "idle" /\ run'[r].due = {}
         /\ \A q \in Runs \ {r} : run'[q] = run[q]
  BY IdleRunType DEF RunDies, TInv, TypeOK

LEMMA StampedNext == ASSUME TInv, Stamped, Single, Next PROVE Stamped'
<1>t. /\ sent \in [1..MaxRows -> Nat] /\ DOMAIN rows \subseteq 1..MaxRows
      /\ \A q \in Runs : At(q, "stamp") => run[q].row \in DOMAIN rows
  BY DueRowsType DEF TInv, TypeOK, Handy
<1>1. ASSUME NEW r \in Runs, Plans(r) PROVE Stamped'
  BY <1>1, <1>t, PlansEffect DEF Stamped, FiredIsSent, At
<1>2. ASSUME NEW r \in Runs, FindDue(r) \/ RunDies(r) PROVE Stamped'
  BY <1>2, <1>t, FindEffect, DiesEffect DEF Stamped, FiredIsSent, At
<1>3. ASSUME NEW r \in Runs, StampFired(r) PROVE Stamped'
  BY <1>3, <1>t, StampEffect DEF Stamped, FiredIsSent, At
<1>4. ASSUME NEW r \in Runs, NEW i \in run[r].due, EmitDueSoon(r, i) PROVE Stamped'
  <2>1. \A j \in 1..MaxRows : sent[j] > 0 => sent'[j] > 0
    BY <1>4, <1>t, EmitEffect
  <2>2. sent'[i] > 0
    BY <1>4, <1>t, EmitEffect
  <2>3. QED
    BY <1>4, <1>t, <2>1, <2>2, EmitEffect DEF Stamped, FiredIsSent, At
<1>5. CASE UNCHANGED <<rows, run, sent, doubtful>>
  BY <1>5 DEF Stamped, FiredIsSent, At
<1>6. QED
  BY <1>1, <1>2, <1>3, <1>4, <1>5, StepKinds

LEMMA SingleNext == ASSUME TInv, Stamped, Single, Next PROVE Single'
<1>t. /\ sent \in [1..MaxRows -> Nat] /\ DOMAIN rows \subseteq 1..MaxRows
      /\ \A q \in Runs : /\ At(q, "stamp") => run[q].row \in DOMAIN rows
                         /\ run[q].due \subseteq DOMAIN rows
  BY DueRowsType DEF TInv, TypeOK, Handy
<1> DEFINE Held(q) == run'[q].due \cup (IF run'[q].pc = "stamp" THEN {run'[q].row} ELSE {})
           Fine(i) ==
             /\ sent'[i] <= 1
             /\ sent'[i] > 0 => \/ rows'[i].fired
                                \/ \E r \in Runs : run'[r].pc = "stamp" /\ run'[r].row = i
             /\ \A r \in Runs : i \in run'[r].due => ~rows'[i].fired /\ sent'[i] = 0
             /\ \A q, r \in Runs : i \in Held(q) /\ i \in Held(r) => q = r
             /\ \A r \in Runs : i \in run'[r].due => ~(run'[r].pc = "stamp" /\ run'[r].row = i)
           Goal == /\ \A i \in 1..MaxRows : sent'[i] > 0 => i \in DOMAIN rows'
                   /\ \A i \in DOMAIN rows' : i \notin doubtful' => Fine(i)
<1>g. Goal => Single'
  BY DEF Single, InHand, At
<1>1. ASSUME NEW r \in Runs, Plans(r) PROVE Goal
  <2>1. \A i \in 1..MaxRows : sent'[i] > 0 => i \in DOMAIN rows'
    BY <1>1, <1>t, PlansEffect DEF Single
  <2>2. \A q \in Runs : Held(q) \subseteq InHand(q)
    BY <1>1, PlansEffect DEF InHand, At
  <2>3. ASSUME NEW i \in DOMAIN rows, i \notin doubtful' PROVE Fine(i)
    <3>1. /\ sent[i] <= 1
          /\ sent[i] > 0 => \/ rows[i].fired
                            \/ \E q \in Runs : At(q, "stamp") /\ run[q].row = i
          /\ \A q \in Runs : i \in run[q].due => ~rows[i].fired /\ sent[i] = 0
          /\ \A p, q \in Runs : i \in InHand(p) /\ i \in InHand(q) => p = q
          /\ \A q \in Runs : i \in run[q].due => ~(At(q, "stamp") /\ run[q].row = i)
      BY <1>1, <2>3, PlansEffect DEF Single
    <3>2. sent'[i] = sent[i] /\ rows'[i] = rows[i]
      BY <1>1, PlansEffect
    <3>3. \A q \in Runs : At(q, "stamp") => run'[q] = run[q]
      BY <1>1, PlansEffect
    <3>4. \A q \in Runs : /\ run'[q].due \subseteq run[q].due
                          /\ run'[q].pc = "stamp" => run'[q] = run[q]
      BY <1>1, PlansEffect
    <3>5. \A p, q \in Runs : i \in Held(p) /\ i \in Held(q) => p = q
      BY <2>2, <3>1
    <3> HIDE DEF Held
    <3>6. QED
      BY <3>1, <3>2, <3>3, <3>4, <3>5 DEF At
  <2>4. ASSUME NEW i \in DOMAIN rows' \ DOMAIN rows PROVE Fine(i)
    <3>1. \A q \in Runs : i \notin InHand(q)
      BY <1>t, <2>4 DEF InHand
    <3>2. i \in 1..MaxRows
      <4>1. rows' \in Seq(LogRows) /\ Len(rows') <= MaxRows
        BY QueueNext DEF QInv
      <4>2. MaxRows \in Nat
        BY TaskCount DEF MaxRows
      <4>3. QED
        BY <2>4, <4>1, <4>2
    <3>3. sent'[i] = 0
      <4>1. sent' = sent
        BY <1>1, PlansEffect
      <4>2. ~(sent[i] > 0) /\ sent[i] \in Nat
        BY <1>t, <2>4, <3>2 DEF Single
      <4>3. QED
        BY <4>1, <4>2
    <3>4. \A q \in Runs : i \notin Held(q)
      BY <2>2, <3>1
    <3>5. QED
      BY <3>3, <3>4
  <2>5. QED
    BY <2>1, <2>3, <2>4
<1>2. ASSUME NEW r \in Runs, FindDue(r) PROVE Goal
  <2>1. \A i \in 1..MaxRows : sent'[i] > 0 => i \in DOMAIN rows'
    BY <1>2, FindEffect DEF Single
  <2>2. \A q \in Runs \ {r} : Held(q) = InHand(q)
    BY <1>2, FindEffect DEF InHand, At
  <2>3. Held(r) = DueRows
    BY <1>2, FindEffect
  <2>4. ASSUME NEW i \in DOMAIN rows', i \notin doubtful' PROVE Fine(i)
    <3>1. /\ i \in DOMAIN rows /\ i \notin doubtful /\ sent'[i] = sent[i]
          /\ rows'[i] = rows[i]
      BY <1>2, <2>4, FindEffect
    <3>2. /\ sent[i] <= 1
          /\ sent[i] > 0 => \/ rows[i].fired
                            \/ \E q \in Runs : At(q, "stamp") /\ run[q].row = i
          /\ \A q \in Runs : i \in run[q].due => ~rows[i].fired /\ sent[i] = 0
          /\ \A p, q \in Runs : i \in InHand(p) /\ i \in InHand(q) => p = q
          /\ \A q \in Runs : i \in run[q].due => ~(At(q, "stamp") /\ run[q].row = i)
      BY <3>1 DEF Single
    <3>3. ASSUME i \in DueRows PROVE \A q \in Runs \ {r} : i \notin InHand(q)
      BY <1>2, <2>4, <3>3, FindEffect
    <3>4. \A q \in Runs : At(q, "stamp") => q # r /\ run'[q] = run[q]
      BY <1>2, FindEffect DEF At
    <3>5. ASSUME i \in DueRows PROVE ~rows[i].fired /\ sent[i] = 0
      <4>1. ~rows[i].fired /\ sent[i] \in Nat
        BY <1>t, <3>1, <3>5 DEF DueRows
      <4>2. ASSUME NEW q \in Runs, At(q, "stamp"), run[q].row = i PROVE FALSE
        BY <3>3, <3>4, <3>5, <4>2 DEF InHand
      <4>3. QED
        BY <3>2, <4>1, <4>2
    <3>6. \A q \in Runs \ {r} : run'[q] = run[q]
      BY <1>2, FindEffect
    <3>7. run'[r].due = DueRows /\ run'[r].pc = "fire"
      BY <1>2, FindEffect
    <3>8. \A p, q \in Runs : i \in Held(p) /\ i \in Held(q) => p = q
      <4> HIDE DEF Held
      <4>1. QED
        BY <2>2, <2>3, <3>2, <3>3
    <3> HIDE DEF Held
    <3>9. QED
      BY <3>1, <3>2, <3>4, <3>5, <3>6, <3>7, <3>8 DEF At
  <2>5. QED
    BY <2>1, <2>4
<1>3. ASSUME NEW r \in Runs, StampFired(r) PROVE Goal
  <2> DEFINE s == run[r].row
  <2>1. /\ DOMAIN rows' = DOMAIN rows /\ s \in DOMAIN rows /\ At(r, "stamp")
        /\ UNCHANGED <<sent, doubtful>> /\ rows'[s].fired
        /\ \A i \in DOMAIN rows \ {s} : rows'[i] = rows[i]
        /\ run'[r].pc = "fire" /\ run'[r].due = run[r].due
        /\ \A q \in Runs \ {r} : run'[q] = run[q]
    BY <1>3, StampEffect
  <2>2. \A q \in Runs : Held(q) \subseteq InHand(q)
    BY <2>1 DEF InHand, At
  <2>3. s \in InHand(r)
    BY <2>1 DEF InHand
  <2> HIDE DEF s
  <2>4. ASSUME NEW i \in DOMAIN rows, i \notin doubtful PROVE Fine(i)
    <3>1. /\ sent[i] <= 1
          /\ sent[i] > 0 => \/ rows[i].fired
                            \/ \E q \in Runs : At(q, "stamp") /\ run[q].row = i
          /\ \A q \in Runs : i \in run[q].due => ~rows[i].fired /\ sent[i] = 0
          /\ \A p, q \in Runs : i \in InHand(p) /\ i \in InHand(q) => p = q
          /\ \A q \in Runs : i \in run[q].due => ~(At(q, "stamp") /\ run[q].row = i)
      BY <2>4 DEF Single
    <3>2. \A p, q \in Runs : i \in Held(p) /\ i \in Held(q) => p = q
      BY <2>2, <3>1
    <3>3. ASSUME NEW q \in Runs, i \in run'[q].due
          PROVE  /\ ~rows'[i].fired /\ sent'[i] = 0
                 /\ ~(run'[q].pc = "stamp" /\ run'[q].row = i)
      <4>1. i \in run[q].due /\ i \in InHand(q)
        BY <2>1, <3>3 DEF InHand
      <4>2. i # s
        BY <2>1, <2>3, <3>1, <4>1 DEF s
      <4>3. QED
        BY <2>1, <3>1, <4>1, <4>2 DEF At
    <3>4. sent'[i] > 0 => \/ rows'[i].fired
                          \/ \E q \in Runs : run'[q].pc = "stamp" /\ run'[q].row = i
      BY <2>1, <3>1 DEF At, s
    <3> HIDE DEF Held
    <3>5. QED
      BY <2>1, <3>1, <3>2, <3>3, <3>4
  <2>5. QED
    BY <2>1, <2>4 DEF Single
<1>4. ASSUME NEW r \in Runs, RunDies(r) PROVE Goal
  <2>1. /\ UNCHANGED <<rows, sent>>
        /\ doubtful' = doubtful \cup (IF At(r, "stamp") THEN {run[r].row} ELSE {})
        /\ run'[r].pc = "idle" /\ run'[r].due = {}
        /\ \A q \in Runs \ {r} : run'[q] = run[q]
    BY <1>4, DiesEffect
  <2>2. \A q \in Runs : Held(q) \subseteq InHand(q)
    BY <2>1 DEF InHand, At
  <2>3. ASSUME NEW i \in DOMAIN rows, i \notin doubtful' PROVE Fine(i)
    <3>1. /\ sent[i] <= 1
          /\ sent[i] > 0 => \/ rows[i].fired
                            \/ \E q \in Runs : At(q, "stamp") /\ run[q].row = i
          /\ \A q \in Runs : i \in run[q].due => ~rows[i].fired /\ sent[i] = 0
          /\ \A p, q \in Runs : i \in InHand(p) /\ i \in InHand(q) => p = q
          /\ \A q \in Runs : i \in run[q].due => ~(At(q, "stamp") /\ run[q].row = i)
      BY <2>1, <2>3 DEF Single
    <3>2. \A p, q \in Runs : i \in Held(p) /\ i \in Held(q) => p = q
      BY <2>2, <3>1
    <3>3. ~(At(r, "stamp") /\ run[r].row = i)
      BY <2>1, <2>3
    <3> HIDE DEF Held
    <3>4. QED
      BY <2>1, <3>1, <3>2, <3>3 DEF At
  <2>4. QED
    BY <2>1, <2>3 DEF Single
<1>5. ASSUME NEW r \in Runs, NEW e \in run[r].due, EmitDueSoon(r, e) PROVE Goal
  <2>1. /\ e \in DOMAIN rows /\ e \in 1..MaxRows /\ ~At(r, "stamp")
        /\ UNCHANGED <<rows, doubtful>>
        /\ sent'[e] = sent[e] + 1 /\ \A j \in 1..MaxRows \ {e} : sent'[j] = sent[j]
        /\ run'[r].pc = "stamp" /\ run'[r].row = e /\ run'[r].due = run[r].due \ {e}
        /\ \A q \in Runs \ {r} : run'[q] = run[q]
    BY <1>5, EmitEffect
  <2>2. \A q \in Runs : Held(q) \subseteq InHand(q)
    BY <1>5, <2>1 DEF InHand, At
  <2>3. e \in InHand(r)
    BY <1>5 DEF InHand
  <2>4. ASSUME NEW i \in DOMAIN rows, i \notin doubtful PROVE Fine(i)
    <3>1. /\ sent[i] <= 1
          /\ sent[i] > 0 => \/ rows[i].fired
                            \/ \E q \in Runs : At(q, "stamp") /\ run[q].row = i
          /\ \A q \in Runs : i \in run[q].due => ~rows[i].fired /\ sent[i] = 0
          /\ \A p, q \in Runs : i \in InHand(p) /\ i \in InHand(q) => p = q
          /\ \A q \in Runs : i \in run[q].due => ~(At(q, "stamp") /\ run[q].row = i)
      BY <2>4 DEF Single
    <3>2. \A p, q \in Runs : i \in Held(p) /\ i \in Held(q) => p = q
      BY <2>2, <3>1
    <3>3. CASE i = e
      <4>1. sent'[i] = 1
        BY <1>5, <2>1, <3>1, <3>3
      <4>2. \A q \in Runs : i \notin run'[q].due
        BY <2>1, <2>3, <3>1, <3>3 DEF InHand
      <4> HIDE DEF Held
      <4>3. QED
        BY <2>1, <3>2, <3>3, <4>1, <4>2
    <3>4. CASE i # e
      <4>1. sent'[i] = sent[i] /\ rows'[i] = rows[i]
        BY <1>t, <2>1, <3>4
      <4>2. \A q \in Runs : /\ run'[q].due \subseteq run[q].due
                            /\ At(q, "stamp") => run'[q] = run[q]
                            /\ run'[q].pc = "stamp" /\ run'[q].row = i => run'[q] = run[q]
        BY <2>1, <3>4
      <4> HIDE DEF Held
      <4>3. QED
        BY <3>1, <3>2, <4>1, <4>2 DEF At
    <3>5. QED
      BY <3>3, <3>4
  <2>5. \A i \in 1..MaxRows : sent'[i] > 0 => i \in DOMAIN rows'
    BY <2>1 DEF Single
  <2>6. QED
    BY <2>1, <2>4, <2>5
<1>6. CASE UNCHANGED <<rows, run, sent, doubtful>>
  BY <1>6 DEF Single, InHand, At
<1>7. QED
  <2> HIDE DEF Goal
  <2>1. QED
    BY <1>g, <1>1, <1>2, <1>3, <1>4, <1>5, <1>6, StepKinds

\* The runs that have fetched a row, and those that have emitted it and are about
\* to set firedAt.
Fetched(i) == {r \in Runs : i \in run[r].due}
Telling(i) == {r \in Runs : At(r, "stamp") /\ run[r].row = i}
HasFired(i) == i \in DOMAIN rows /\ rows[i].fired

\* Until firedAt is set, each event of a row is owed to a run that still has to set
\* it or to one that died; afterwards nobody fetches the row, and each run that had
\* fetched it emits it once more at most.
RepeatAt(i) ==
  /\ sent[i] + Cardinality(Fetched(i)) <= Cardinality(Runs) + faults
  /\ ~HasFired(i) => sent[i] <= Cardinality(Telling(i)) + faults

Repeats ==
  /\ \A r \in Runs : At(r, "stamp") => run[r].row \notin run[r].due
  /\ \A i \in 1..MaxRows : RepeatAt(i)

LEMMA RunCount ==
  ASSUME NEW S \in SUBSET Runs
  PROVE  /\ IsFiniteSet(S) /\ Cardinality(S) \in Nat /\ Cardinality(Runs) \in Nat
         /\ Cardinality(S) <= Cardinality(Runs)
  BY FS_Subset, FS_CardinalityType

LEMMA FewerRuns ==
  ASSUME NEW S \in SUBSET Runs, NEW T \in SUBSET S
  PROVE  Cardinality(T) <= Cardinality(S)
  BY RunCount, FS_Subset

LEMMA OneMoreRun ==
  ASSUME NEW S \in SUBSET Runs, NEW T \in SUBSET S, NEW r \in S \ T
  PROVE  Cardinality(T) + 1 <= Cardinality(S)
<1>1. /\ IsFiniteSet(T) /\ Cardinality(T) \in Nat /\ Cardinality(S) \in Nat
      /\ T \cup {r} \in SUBSET S
  BY RunCount
<1>2. Cardinality(T \cup {r}) = Cardinality(T) + 1
  BY <1>1, FS_AddElement
<1>3. Cardinality(T \cup {r}) <= Cardinality(S)
  BY <1>1, FewerRuns
<1>4. QED
  BY <1>1, <1>2, <1>3

LEMMA DisjointRuns ==
  ASSUME NEW S \in SUBSET Runs, NEW T \in SUBSET Runs, S \cap T = {}
  PROVE  Cardinality(S) + Cardinality(T) <= Cardinality(Runs)
<1>1. /\ IsFiniteSet(S) /\ IsFiniteSet(T) /\ S \cup T \in SUBSET Runs
      /\ Cardinality(S) \in Nat /\ Cardinality(T) \in Nat
  BY RunCount
<1>2. Cardinality(S \cup T) = Cardinality(S) + Cardinality(T)
  <2>1. Cardinality(S \cup T) = Cardinality(S) + Cardinality(T) - Cardinality(S \cap T)
    BY <1>1, FS_Union
  <2>2. QED
    BY <1>1, <2>1, FS_EmptySet
<1>3. QED
  BY <1>1, <1>2, RunCount

LEMMA RunSets ==
  ASSUME NEW i
  PROVE  /\ Fetched(i) \in SUBSET Runs /\ Fetched(i)' \in SUBSET Runs
         /\ Telling(i) \in SUBSET Runs /\ Telling(i)' \in SUBSET Runs
  BY DEF Fetched, Telling

\* Until firedAt is set, only a fault takes away a run that is about to set it.
TellersKept(i) ==
  ~HasFired(i)' => /\ ~HasFired(i)
                   /\ Cardinality(Telling(i)) + faults <= Cardinality(Telling(i)') + faults'

\* Steps that do not emit the row, nor fetch it, nor lose a run that is telling it
\* but by a fault or by setting firedAt.
LEMMA RepeatStays ==
  ASSUME NEW i \in 1..MaxRows, TInv, TInv', RepeatAt(i),
         sent'[i] = sent[i], Fetched(i)' \subseteq Fetched(i), faults <= faults',
         TellersKept(i)
  PROVE  RepeatAt(i)'
<1> DEFINE f == Cardinality(Fetched(i))
           g == Cardinality(Fetched(i)')
           t == Cardinality(Telling(i))
           n == Cardinality(Runs)
<1>u. PICK u \in Nat : u = Cardinality(Telling(i)')
  BY RunSets, RunCount
<1>1. /\ f \in Nat /\ g \in Nat /\ t \in Nat /\ n \in Nat /\ g <= f
  BY RunSets, RunCount, FewerRuns
<1>2. sent[i] \in Nat /\ faults \in Nat /\ faults' \in Nat
  BY DEF TInv, TypeOK
<1>3. /\ sent[i] + f <= n + faults
      /\ ~HasFired(i) => sent[i] <= t + faults
  BY DEF RepeatAt
<1>4. ~HasFired(i)' => ~HasFired(i) /\ t + faults <= u + faults'
  BY <1>u DEF TellersKept
<1> HIDE DEF f, g, t, n
<1>5. sent'[i] + g <= n + faults'
  BY <1>1, <1>2, <1>3
<1>6. ASSUME ~HasFired(i)' PROVE sent'[i] <= u + faults'
  <2>1. t + faults <= u + faults' /\ sent[i] <= t + faults
    BY <1>3, <1>4, <1>6, Zenon
  <2>2. PICK x \in Nat : x = faults'
    BY <1>2
  <2>3. t + faults <= u + x
    BY <2>1, <2>2
  <2>4. sent[i] <= u + x
    BY <1>1, <1>2, <2>1, <2>3
  <2>5. QED
    BY <2>2, <2>4
<1>7. QED
  BY <1>u, <1>5, <1>6 DEF RepeatAt, g, n

LEMMA RepeatsNext == ASSUME TInv, TInv', Repeats, Next PROVE Repeats'
<1>t. /\ faults \in Nat /\ sent \in [1..MaxRows -> Nat] /\ DOMAIN rows \subseteq 1..MaxRows
  BY DueRowsType DEF TInv, TypeOK
<1>a. \A i \in 1..MaxRows : RepeatAt(i)
  BY DEF Repeats
<1>1. ASSUME NEW r \in Runs, Plans(r) PROVE Repeats'
  <2>1. /\ UNCHANGED <<sent, doubtful>> /\ ~At(r, "stamp")
        /\ run'[r].pc # "stamp" /\ run'[r].due \subseteq run[r].due
        /\ \A q \in Runs \ {r} : run'[q] = run[q]
        /\ DOMAIN rows \subseteq DOMAIN rows'
        /\ \A i \in DOMAIN rows : rows'[i] = rows[i]
    BY <1>1, PlansEffect
  <2>2. faults' = faults
    BY <1>1 DEF Plans, StartDueSoon, StartOverdue, StartWithoutPlan, PlanOne, LogOverdue,
       EmitOverdue, EndDueSoon, EndOverdue
  <2>3. ASSUME NEW i \in 1..MaxRows PROVE RepeatAt(i)'
    <3>1. Fetched(i)' \subseteq Fetched(i) /\ Telling(i)' = Telling(i)
      BY <2>1 DEF Fetched, Telling, At
    <3>2. ~HasFired(i)' => ~HasFired(i)
      BY <2>1 DEF HasFired
    <3>3. Cardinality(Telling(i)) \in Nat
      BY RunSets, RunCount
    <3>4. QED
      BY <1>a, <1>t, <2>1, <2>2, <3>1, <3>2, <3>3, RepeatStays DEF TellersKept
  <2>4. QED
    BY <2>1, <2>3 DEF Repeats, At
<1>2. ASSUME NEW r \in Runs, RunDies(r) PROVE Repeats'
  <2>1. /\ UNCHANGED <<rows, sent>> /\ run'[r].pc = "idle" /\ run'[r].due = {}
        /\ \A q \in Runs \ {r} : run'[q] = run[q] /\ faults' = faults + 1
    BY <1>2, DiesEffect DEF RunDies
  <2>f. faults' = faults + 1
    BY <1>2 DEF RunDies
  <2>2. ASSUME NEW i \in 1..MaxRows PROVE RepeatAt(i)'
    <3>1. Fetched(i)' \subseteq Fetched(i) /\ Telling(i)' = Telling(i) \ {r}
      BY <2>1 DEF Fetched, Telling, At
    <3>2. ~HasFired(i)' => ~HasFired(i)
      BY <2>1 DEF HasFired
    <3>3. /\ Cardinality(Telling(i)) \in Nat /\ Cardinality(Telling(i)') \in Nat
          /\ Cardinality(Telling(i)) <= Cardinality(Telling(i)') + 1
      <4>1. IsFiniteSet(Telling(i)) /\ Cardinality(Telling(i)) \in Nat
        BY RunSets, RunCount
      <4>2. Cardinality(Telling(i) \ {r}) = IF r \in Telling(i) THEN Cardinality(Telling(i)) - 1
                                            ELSE Cardinality(Telling(i))
        BY <4>1, FS_RemoveElement
      <4>3. Cardinality(Telling(i)') = Cardinality(Telling(i) \ {r})
        BY <3>1
      <4>4. Cardinality(Telling(i)') \in Nat
        BY RunSets, RunCount
      <4>5. QED
        BY <4>1, <4>2, <4>3, <4>4
    <3>4. /\ faults <= faults'
          /\ Cardinality(Telling(i)) + faults <= Cardinality(Telling(i)') + faults'
      BY <1>t, <2>f, <3>3
    <3>5. RepeatAt(i) /\ sent'[i] = sent[i]
      BY <1>a, <2>1
    <3>6. QED
      BY <3>1, <3>2, <3>4, <3>5, RepeatStays DEF TellersKept
  <2>3. QED
    BY <2>1, <2>2 DEF Repeats, At
<1>3. ASSUME NEW r \in Runs, StampFired(r) PROVE Repeats'
  <2>1. /\ At(r, "stamp") /\ run[r].row \in DOMAIN rows
        /\ UNCHANGED <<sent, doubtful>> /\ DOMAIN rows' = DOMAIN rows
        /\ rows'[run[r].row].fired
        /\ \A i \in DOMAIN rows \ {run[r].row} : rows'[i] = rows[i]
        /\ run'[r].pc = "fire" /\ run'[r].due = run[r].due
        /\ \A q \in Runs \ {r} : run'[q] = run[q]
    BY <1>3, StampEffect
  <2>2. faults' = faults
    BY <1>3 DEF StampFired
  <2>3. ASSUME NEW i \in 1..MaxRows PROVE RepeatAt(i)'
    <3>1. Fetched(i)' \subseteq Fetched(i)
      BY <2>1 DEF Fetched
    <3>2. i # run[r].row => Telling(i)' = Telling(i) /\ HasFired(i)' = HasFired(i)
      BY <2>1 DEF Telling, At, HasFired
    <3>3. i = run[r].row => HasFired(i)'
      BY <2>1 DEF HasFired
    <3>4. Cardinality(Telling(i)) \in Nat
      BY RunSets, RunCount
    <3>5. QED
      BY <1>a, <1>t, <2>1, <2>2, <3>1, <3>2, <3>3, <3>4, RepeatStays DEF TellersKept
  <2>4. QED
    BY <2>1, <2>3 DEF Repeats, At
<1>4. ASSUME NEW r \in Runs, FindDue(r) PROVE Repeats'
  <2>1. /\ At(r, "plan") /\ UNCHANGED <<rows, sent>>
        /\ run'[r].pc = "fire" /\ run'[r].due = DueRows
        /\ \A q \in Runs \ {r} : run'[q] = run[q]
    BY <1>4, FindEffect
  <2>2. faults' = faults
    BY <1>4 DEF FindDue
  <2>3. ASSUME NEW i \in 1..MaxRows PROVE RepeatAt(i)'
    <3>1. Telling(i)' = Telling(i) /\ HasFired(i)' = HasFired(i)
      BY <2>1 DEF Telling, At, HasFired
    <3>2. CASE i \notin DueRows
      <4>1. Fetched(i)' \subseteq Fetched(i)
        BY <2>1, <3>2 DEF Fetched
      <4>2. Cardinality(Telling(i)) \in Nat
        BY RunSets, RunCount
      <4>3. QED
        BY <1>a, <1>t, <2>1, <2>2, <3>1, <4>1, <4>2, RepeatStays DEF TellersKept
    <3>3. CASE i \in DueRows
      <4> DEFINE g == Cardinality(Fetched(i)')
                 t == Cardinality(Telling(i))
                 n == Cardinality(Runs)
      <4>1. ~HasFired(i)
        BY <3>3 DEF DueRows, HasFired
      <4>2. sent[i] <= t + faults
        BY <1>a, <4>1 DEF RepeatAt
      <4>3. Fetched(i)' \cap Telling(i) = {}
        BY <2>1 DEF Fetched, Telling, Repeats, At
      <4>4. g + t <= n
        BY <4>3, RunSets, DisjointRuns
      <4>5. g \in Nat /\ t \in Nat /\ n \in Nat /\ sent[i] \in Nat
        BY <1>t, RunSets, RunCount
      <4> HIDE DEF g, t, n
      <4>6. sent'[i] + g <= n + faults' /\ sent'[i] <= t + faults'
        BY <1>t, <2>1, <2>2, <4>2, <4>4, <4>5
      <4>7. QED
        BY <3>1, <4>6 DEF RepeatAt, g, t, n
    <3>4. QED
      BY <3>2, <3>3
  <2>4. QED
    BY <2>1, <2>3 DEF Repeats, At
<1>5. ASSUME NEW r \in Runs, NEW e \in run[r].due, EmitDueSoon(r, e) PROVE Repeats'
  <2>1. /\ e \in DOMAIN rows /\ e \in 1..MaxRows /\ ~At(r, "stamp")
        /\ UNCHANGED <<rows, doubtful>>
        /\ sent'[e] = sent[e] + 1 /\ \A j \in 1..MaxRows \ {e} : sent'[j] = sent[j]
        /\ run'[r].pc = "stamp" /\ run'[r].row = e /\ run'[r].due = run[r].due \ {e}
        /\ \A q \in Runs \ {r} : run'[q] = run[q]
    BY <1>5, EmitEffect
  <2>2. faults' = faults
    BY <1>5 DEF EmitDueSoon
  <2>3. ASSUME NEW i \in 1..MaxRows, i # e PROVE RepeatAt(i)'
    <3>1. /\ Fetched(i)' \subseteq Fetched(i) /\ Telling(i)' = Telling(i)
          /\ HasFired(i)' = HasFired(i)
      BY <2>1, <2>3 DEF Fetched, Telling, At, HasFired
    <3>2. Cardinality(Telling(i)) \in Nat
      BY RunSets, RunCount
    <3>3. QED
      BY <1>a, <1>t, <2>1, <2>2, <2>3, <3>1, <3>2, RepeatStays DEF TellersKept
  <2>4. RepeatAt(e)'
    <3> DEFINE f == Cardinality(Fetched(e))
               g == Cardinality(Fetched(e)')
               t == Cardinality(Telling(e))
               u == Cardinality(Telling(e)')
               n == Cardinality(Runs)
    <3>1. /\ Fetched(e)' \subseteq Fetched(e) /\ r \in Fetched(e) /\ r \notin Fetched(e)'
          /\ Telling(e) \subseteq Telling(e)' /\ r \in Telling(e)' /\ r \notin Telling(e)
          /\ HasFired(e)' = HasFired(e)
      BY <2>1 DEF Fetched, Telling, At, HasFired
    <3>2. /\ g + 1 <= f /\ t + 1 <= u
      BY <3>1, RunSets, OneMoreRun
    <3>3. /\ f \in Nat /\ g \in Nat /\ t \in Nat /\ u \in Nat /\ n \in Nat
          /\ sent[e] \in Nat
      BY <1>t, <2>1, RunSets, RunCount
    <3>4. /\ sent[e] + f <= n + faults
          /\ ~HasFired(e) => sent[e] <= t + faults
      BY <1>a, <2>1 DEF RepeatAt
    <3> HIDE DEF f, g, t, u, n
    <3>5. /\ sent'[e] + g <= n + faults'
          /\ ~HasFired(e) => sent'[e] <= u + faults'
      BY <1>t, <2>1, <2>2, <3>2, <3>3, <3>4
    <3>6. QED
      BY <3>1, <3>5 DEF RepeatAt, g, u, n
  <2>5. \A q \in Runs : run'[q].pc = "stamp" => run'[q].row \notin run'[q].due
    BY <2>1 DEF Repeats, At
  <2>6. QED
    BY <2>3, <2>4, <2>5 DEF Repeats, At
<1>6. CASE UNCHANGED <<rows, run, sent, doubtful>>
  <2>1. faults \in Nat /\ faults' \in Nat /\ faults <= faults'
    <3>1. faults' = faults \/ faults' = faults + 1
      BY DEF Next, StartDue, DueSoonStep, OverdueStep, StartDueSoon, StartOverdue,
         StartWithoutPlan, PlanOne, FindDue, EmitDueSoon, StampFired, EndDueSoon,
         LogOverdue, EmitOverdue, EndOverdue, RunDies, EditTask, Tick
    <3>2. QED
      BY <1>t, <3>1
  <2>2. ASSUME NEW i \in 1..MaxRows PROVE RepeatAt(i)'
    <3>1. /\ Fetched(i)' = Fetched(i) /\ Telling(i)' = Telling(i)
          /\ HasFired(i)' = HasFired(i)
      BY <1>6 DEF Fetched, Telling, At, HasFired
    <3>2. Cardinality(Telling(i)) \in Nat
      BY RunSets, RunCount
    <3>3. QED
      BY <1>6, <1>a, <2>1, <3>1, <3>2, RepeatStays DEF TellersKept
  <2>3. QED
    BY <1>6, <2>2 DEF Repeats, At
<1>7. QED
  BY <1>1, <1>2, <1>3, <1>4, <1>5, <1>6, StepKinds

Inv == TInv /\ Stamped /\ Single /\ Repeats

LEMMA InvInit == Init => Inv
<1> SUFFICES ASSUME Init PROVE Inv
  OBVIOUS
<1>1. /\ TInv /\ DOMAIN rows = {} /\ \A r \in Runs : ~At(r, "stamp")
      /\ \A i \in 1..MaxRows : sent[i] = 0
  BY TypeInit, IdleRunType DEF Init, At
<1>2. Repeats
  <2>1. ASSUME NEW i \in 1..MaxRows PROVE RepeatAt(i)
    <3>1. Fetched(i) = {} /\ Telling(i) = {} /\ sent[i] = 0 /\ faults = 0
      BY IdleRunType DEF Init, Fetched, Telling, At
    <3>2. Cardinality(Fetched(i)) = 0 /\ Cardinality(Telling(i)) = 0
      BY <3>1, FS_EmptySet
    <3>3. QED
      BY <3>1, <3>2, RunCount DEF RepeatAt
  <2>2. QED
    BY <1>1, <2>1 DEF Repeats
<1>3. QED
  BY <1>1, <1>2 DEF Inv, Stamped, FiredIsSent, Single

LEMMA Invariant == Spec => []Inv
<1>1. ASSUME Inv, [Next]_vars PROVE Inv'
  <2>1. CASE Next
    BY <1>1, <2>1, TypeNext, StampedNext, SingleNext, RepeatsNext DEF Inv
  <2>2. CASE UNCHANGED vars
    <3>1. (TInv /\ Stamped /\ Single)'
      BY <1>1, <2>2, TypeStutter DEF Inv, Stamped, FiredIsSent, Single, InHand, At, vars, history
    <3>2. Repeats'
      BY <1>1, <2>2 DEF Inv, Repeats, RepeatAt, Fetched, Telling, HasFired, At, vars, history
    <3>3. QED
      BY <3>1, <3>2 DEF Inv
  <2>3. QED
    BY <1>1, <2>1, <2>2
<1>2. QED
  BY InvInit, <1>1, PTL DEF Spec

\* No crash, exception or overlap makes the log claim a reminder nobody got.
THEOREM FiredRemindersWereSent == Spec => []FiredIsSent
<1>1. Inv => FiredIsSent
  BY DEF Inv, Stamped
<1>2. QED
  BY <1>1, Invariant, PTL

\* A reminder is emitted at most once unless two overlapping runs fetched it or
\* its run died between the event and firedAt: there is no third way; and never
\* more often than runs can overlap, and runs have died, however long it goes on.
THEOREM RemindersAreSentOnce == Spec => []SentOnce
<1>1. Inv => SentOnce
  <2>1. SUFFICES ASSUME Inv, NEW i \in DOMAIN rows
                 PROVE  /\ i \notin doubtful => sent[i] <= 1
                        /\ sent[i] <= Cardinality(Runs) + faults
    BY DEF SentOnce
  <2>2. i \notin doubtful => sent[i] <= 1
    BY <2>1 DEF Inv, Single
  <2>3. i \in 1..MaxRows /\ sent[i] \in Nat /\ faults \in Nat
    BY <2>1, DueRowsType DEF Inv, TInv, TypeOK
  <2>4. sent[i] <= Cardinality(Runs) + faults
    <3>1. sent[i] + Cardinality(Fetched(i)) <= Cardinality(Runs) + faults
      BY <2>1, <2>3 DEF Inv, Repeats, RepeatAt
    <3>2. Cardinality(Fetched(i)) \in Nat /\ Cardinality(Runs) \in Nat
      BY RunSets, RunCount
    <3>3. QED
      BY <2>3, <3>1, <3>2
  <2>5. QED
    BY <2>2, <2>4
<1>2. QED
  BY <1>1, Invariant, PTL

\* With one run at a time, and none that dies, every reminder is emitted once: the
\* overlap of runs and their deaths are all that can repeat it.
THEOREM OneRunSendsOnce ==
  ASSUME Cardinality(Runs) = 1, MaxFaults = 0
  PROVE  Spec => [](\A i \in DOMAIN rows : sent[i] <= 1)
<1>1. Inv => \A i \in DOMAIN rows : sent[i] <= 1
  <2>1. SUFFICES ASSUME Inv, NEW i \in DOMAIN rows PROVE sent[i] <= 1
    OBVIOUS
  <2>2. i \in 1..MaxRows /\ sent[i] \in Nat /\ faults = 0
    BY <2>1, DueRowsType DEF Inv, TInv, TypeOK
  <2>3. sent[i] + Cardinality(Fetched(i)) <= 1
    BY <2>1, <2>2 DEF Inv, Repeats, RepeatAt
  <2>4. Cardinality(Fetched(i)) \in Nat
    BY RunSets, RunCount
  <2>5. QED
    BY <2>2, <2>3, <2>4
<1>2. QED
  BY <1>1, Invariant, PTL

-----------------------------------------------------------------------------
(* Reports of overdue tasks. *)

\* The log rows of a task and day, and the runs that have written one of them
\* and not yet emitted its event.
Reports(t, d) == {i \in DOMAIN rows : /\ rows[i].type = "OVERDUE" /\ rows[i].task = t
                                      /\ rows[i].fireAt = d * DayLength}
Owed(t, d) == {r \in Runs : At(r, "emit") /\ run[r].task = t /\ Day(run[r].now) = d}

LoggedAt(t, d) ==
  /\ IsFiniteSet(Owed(t, d))
  /\ nagged[<<t, d>>] + Cardinality(Owed(t, d)) <= Cardinality(Reports(t, d))

Logged == \A t \in Tasks, d \in 0..Day(MaxNow) : LoggedAt(t, d)

LEMMA FiniteCount == ASSUME NEW n \in Nat PROVE IsFiniteSet(1..n)
  BY FS_Interval

LEMMA ReportFacts ==
  ASSUME TInv, NEW t, NEW d
  PROVE  IsFiniteSet(Reports(t, d)) /\ Cardinality(Reports(t, d)) \in Nat
<1>1. DOMAIN rows = 1..Len(rows) /\ Len(rows) \in Nat
  BY DEF TInv, TypeOK
<1>2. IsFiniteSet(DOMAIN rows)
  BY <1>1, FiniteCount
<1>3. QED
  BY <1>2, FS_Subset, FS_CardinalityType DEF Reports

LEMMA NaggedType ==
  ASSUME TypeOK, NEW t \in Tasks, NEW d \in 0..Day(MaxNow)
  PROVE  nagged[<<t, d>>] \in Nat
  BY DEF TypeOK

\* Rows keep what makes them a report.
RowsKept ==
  /\ DOMAIN rows \subseteq DOMAIN rows'
  /\ \A i \in DOMAIN rows : /\ rows'[i].type = rows[i].type /\ rows'[i].task = rows[i].task
                            /\ rows'[i].fireAt = rows[i].fireAt

LEMMA MoreReports ==
  ASSUME RowsKept, NEW t, NEW d
  PROVE  Reports(t, d) \subseteq Reports(t, d)'
  BY DEF RowsKept, Reports

LEMMA LoggedStays ==
  ASSUME TInv, TInv', RowsKept, NEW t \in Tasks, NEW d \in 0..Day(MaxNow),
         LoggedAt(t, d), Owed(t, d)' \subseteq Owed(t, d), nagged'[<<t, d>>] = nagged[<<t, d>>]
  PROVE  LoggedAt(t, d)'
<1> DEFINE owed == Owed(t, d)
           reports == Reports(t, d)
           owedN == Owed(t, d)'
           reportsN == Reports(t, d)'
<1>1. /\ IsFiniteSet(owed) /\ owedN \subseteq owed /\ reports \subseteq reportsN
      /\ nagged[<<t, d>>] \in Nat
      /\ nagged[<<t, d>>] + Cardinality(owed) <= Cardinality(reports)
  BY MoreReports, NaggedType DEF LoggedAt, TInv
<1>2. IsFiniteSet(reportsN)
  <2>1. DOMAIN rows' = 1..Len(rows') /\ Len(rows') \in Nat
    BY DEF TInv, TypeOK
  <2>2. IsFiniteSet(DOMAIN rows')
    <3>1. IsFiniteSet(1..Len(rows'))
      BY <2>1, FiniteCount
    <3>2. QED
      BY <2>1, <3>1, Zenon
  <2>3. reportsN \subseteq DOMAIN rows'
    BY DEF Reports
  <2>4. QED
    BY <2>2, <2>3, FS_Subset
<1> HIDE DEF owed, reports, owedN, reportsN
<1>3. /\ IsFiniteSet(owedN) /\ Cardinality(owedN) <= Cardinality(owed)
      /\ Cardinality(reports) <= Cardinality(reportsN)
      /\ IsFiniteSet(reports)
  BY <1>1, <1>2, FS_Subset
<1>4. /\ Cardinality(owed) \in Nat /\ Cardinality(owedN) \in Nat
      /\ Cardinality(reports) \in Nat /\ Cardinality(reportsN) \in Nat
  BY <1>1, <1>2, <1>3, FS_CardinalityType
<1>5. IsFiniteSet(owedN) /\ nagged'[<<t, d>>] + Cardinality(owedN) <= Cardinality(reportsN)
  BY <1>1, <1>3, <1>4
<1>6. QED
  BY <1>5 DEF LoggedAt, owedN, reportsN

\* Every step of a run but the report of an overdue task.
Silent(r) ==
  \/ StartDueSoon(r) \/ StartOverdue(r) \/ StartWithoutPlan(r)
  \/ \E x \in run[r].found : PlanOne(r, x)
  \/ FindDue(r) \/ StampFired(r) \/ RunDies(r) \/ EndDueSoon(r) \/ EndOverdue(r)
  \/ \E i \in run[r].due : EmitDueSoon(r, i)

LEMMA SilentEffect ==
  ASSUME TInv, NEW r \in Runs, Silent(r)
  PROVE  /\ nagged' = nagged /\ RowsKept /\ run'[r].pc # "emit"
         /\ \A q \in Runs \ {r} : run'[q] = run[q]
<1>t. run \in [Runs -> RunStates] /\ run[r] \in RunStates
  BY DEF TInv, TypeOK
<1>1. nagged' = nagged
  BY DEF Silent, StartDueSoon, StartOverdue, StartWithoutPlan, PlanOne, FindDue, StampFired,
     RunDies, EndDueSoon, EndOverdue, EmitDueSoon, history
<1>s. ASSUME NEW p, run' = [run EXCEPT ![r] = p], p.pc # "emit"
      PROVE  run'[r].pc # "emit" /\ \A q \in Runs \ {r} : run'[q] = run[q]
  BY <1>t, <1>s
<1>2. CASE StartDueSoon(r) \/ StartOverdue(r) \/ StartWithoutPlan(r)
  <2>1. \/ \E found : \E pc \in {"plan", "log"} :
             run' = [run EXCEPT ![r] = [IdleRun EXCEPT !.pc = pc, !.now = now,
                                                       !.found = found]]
        \/ run' = [run EXCEPT ![r] = [IdleRun EXCEPT !.pc = "plan", !.now = now]]
    BY <1>2 DEF StartDueSoon, StartOverdue, StartWithoutPlan, Scan
  <2>2. PICK p : /\ run' = [run EXCEPT ![r] = p]
                 /\ \/ \E found : \E pc \in {"plan", "log"} :
                         p = [IdleRun EXCEPT !.pc = pc, !.now = now, !.found = found]
                    \/ p = [IdleRun EXCEPT !.pc = "plan", !.now = now]
    BY <2>1
  <2>3. p.pc # "emit"
    BY <2>2 DEF IdleRun
  <2>4. rows' = rows
    BY <1>2 DEF StartDueSoon, StartOverdue, StartWithoutPlan
  <2>5. QED
    BY <1>1, <1>s, <2>2, <2>3, <2>4 DEF RowsKept
<1>3. ASSUME NEW x \in run[r].found, PlanOne(r, x)
      PROVE  RowsKept /\ run'[r].pc # "emit" /\ \A q \in Runs \ {r} : run'[q] = run[q]
  <2>1. run' = [run EXCEPT ![r].found = run[r].found \ {x}] /\ run[r].pc = "plan"
    BY <1>3 DEF PlanOne, At
  <2>2. run'[r].pc # "emit" /\ \A q \in Runs \ {r} : run'[q] = run[q]
    BY <1>t, <2>1 DEF RunStates
  <2>3. RowsKept
    BY <1>3, PlansEffect DEF Plans, RowsKept
  <2>4. QED
    BY <2>2, <2>3
<1>4. CASE FindDue(r)
  BY <1>1, <1>4, FindEffect DEF RowsKept
<1>5. CASE StampFired(r)
  <2>1. /\ rows' = [rows EXCEPT ![run[r].row].fired = TRUE] /\ rows \in Seq(LogRows)
        /\ run[r].row \in DOMAIN rows
    BY <1>5, StampEffect DEF StampFired, TInv, TypeOK
  <2>2. RowsKept
    BY <2>1 DEF RowsKept, LogRows
  <2>3. QED
    BY <1>1, <1>5, <2>2, StampEffect
<1>6. CASE RunDies(r)
  BY <1>1, <1>6, DiesEffect DEF RowsKept
<1>7. CASE EndDueSoon(r) \/ EndOverdue(r)
  <2>1. run' = [run EXCEPT ![r] = IdleRun] /\ rows' = rows
    BY <1>7 DEF EndDueSoon, EndOverdue
  <2>2. QED
    BY <1>1, <1>s, <2>1, IdleRunType DEF RowsKept
<1>8. ASSUME NEW i \in run[r].due, EmitDueSoon(r, i)
      PROVE  RowsKept /\ run'[r].pc # "emit" /\ \A q \in Runs \ {r} : run'[q] = run[q]
  BY <1>8, EmitEffect DEF RowsKept
<1>9. QED
  BY <1>1, <1>2, <1>3, <1>4, <1>5, <1>6, <1>7, <1>8 DEF Silent

\* The row comes before the event.
LEMMA ReportLogged ==
  ASSUME TInv, TInv', Logged, NEW r \in Runs, NEW x \in run[r].found, LogOverdue(r, x)
  PROVE  Logged'
<1> DEFINE day == Day(run[r].now)
           n == Len(rows) + 1
<1>t. /\ run[r] \in RunStates /\ run \in [Runs -> RunStates] /\ x[1] \in Tasks
      /\ Len(rows) \in Nat
  BY DEF TInv, TypeOK, RunStates
<1>1. /\ run'[r].pc = "emit" /\ run'[r].task = x[1] /\ run'[r].now = run[r].now
      /\ run[r].pc = "log" /\ \A q \in Runs \ {r} : run'[q] = run[q]
      /\ nagged' = nagged /\ Log(x[1], "OVERDUE", day * DayLength)
  BY <1>t DEF LogOverdue, At, RunStates, history
<1>2. /\ DOMAIN rows = 1..Len(rows) /\ DOMAIN rows' = 1..n
      /\ \A i \in DOMAIN rows : rows'[i] = rows[i]
  BY <1>1, <1>t, FireAtType, LogEffect
<1>3. /\ rows'[n].type = "OVERDUE" /\ rows'[n].task = x[1]
      /\ rows'[n].fireAt = day * DayLength
  BY <1>1, <1>t DEF Log, TInv, TypeOK
<1>4. RowsKept /\ n \in DOMAIN rows' /\ n \notin DOMAIN rows
  BY <1>2, <1>t DEF RowsKept
<1>5. ASSUME NEW t \in Tasks, NEW d \in 0..Day(MaxNow) PROVE LoggedAt(t, d)'
  <2>0. LoggedAt(t, d)
    BY DEF Logged
  <2>1. CASE t # x[1] \/ d # day
    <3>1. Owed(t, d)' \subseteq Owed(t, d)
      BY <1>1, <2>1 DEF Owed, At
    <3>2. QED
      BY <1>1, <1>4, <2>0, <3>1, LoggedStays
  <2>2. CASE t = x[1] /\ d = day
    <3> DEFINE owed == Owed(t, d)
               reports == Reports(t, d)
               owedN == Owed(t, d)'
               reportsN == Reports(t, d)'
    <3>1. owedN = owed \cup {r} /\ r \notin owed
      BY <1>1, <2>2 DEF Owed, At
    <3>2. reports \cup {n} \subseteq reportsN /\ n \notin reports
      <4>1. reports \subseteq reportsN /\ n \notin reports
        BY <1>4, MoreReports DEF Reports
      <4>2. n \in reportsN
        BY <1>3, <1>4, <2>2 DEF Reports
      <4>3. QED
        BY <4>1, <4>2
    <3>3. /\ IsFiniteSet(owed) /\ IsFiniteSet(reports) /\ nagged[<<t, d>>] \in Nat
          /\ nagged[<<t, d>>] + Cardinality(owed) <= Cardinality(reports)
      BY <2>0, ReportFacts, NaggedType DEF LoggedAt, TInv
    <3>4. IsFiniteSet(reportsN)
      <4>1. IsFiniteSet(DOMAIN rows')
        <5>1. IsFiniteSet(1..n)
          BY <1>t, FiniteCount
        <5>2. QED
          BY <1>2, <5>1, Zenon
      <4>2. reportsN \subseteq DOMAIN rows'
        BY DEF Reports
      <4>3. QED
        BY <4>1, <4>2, FS_Subset
    <3> HIDE DEF owed, reports, owedN, reportsN
    <3>5. /\ IsFiniteSet(owedN) /\ Cardinality(owedN) = Cardinality(owed) + 1
          /\ Cardinality(reports \cup {n}) = Cardinality(reports) + 1
      BY <3>1, <3>2, <3>3, FS_AddElement
    <3>6. Cardinality(reports \cup {n}) <= Cardinality(reportsN)
      BY <3>2, <3>4, FS_Subset
    <3>7. /\ Cardinality(owed) \in Nat /\ Cardinality(reports) \in Nat
          /\ Cardinality(reportsN) \in Nat
      BY <3>3, <3>4, FS_CardinalityType
    <3>8. nagged'[<<t, d>>] + Cardinality(owedN) <= Cardinality(reportsN)
      BY <1>1, <3>3, <3>5, <3>6, <3>7
    <3>9. QED
      BY <3>5, <3>8 DEF LoggedAt, owedN, reportsN
  <2>3. QED
    BY <2>1, <2>2
<1>6. QED
  BY <1>5 DEF Logged

LEMMA ReportEmitted ==
  ASSUME TInv, TInv', Logged, NEW r \in Runs, EmitOverdue(r)
  PROVE  Logged'
<1> DEFINE task0 == run[r].task
           day == Day(run[r].now)
<1>t. run[r] \in RunStates /\ run \in [Runs -> RunStates]
  BY DEF TInv, TypeOK
<1>1. /\ run'[r].pc = "log" /\ run[r].pc = "emit"
      /\ \A q \in Runs \ {r} : run'[q] = run[q] /\ rows' = rows
  BY <1>t DEF EmitOverdue, At, RunStates
<1>r. rows' = rows /\ RowsKept
  BY DEF EmitOverdue, RowsKept
<1>2. \A t \in Tasks, d \in 0..Day(MaxNow) :
        nagged'[<<t, d>>] = IF t = task0 /\ d = day THEN nagged[<<t, d>>] + 1
                            ELSE nagged[<<t, d>>]
  BY DEF EmitOverdue, TInv, TypeOK
<1>3. ASSUME NEW t \in Tasks, NEW d \in 0..Day(MaxNow) PROVE LoggedAt(t, d)'
  <2>0. LoggedAt(t, d)
    BY DEF Logged
  <2>1. CASE t # task0 \/ d # day
    <3>1. Owed(t, d)' \subseteq Owed(t, d)
      BY <1>1 DEF Owed, At
    <3>2. QED
      BY <1>r, <1>2, <2>0, <2>1, <3>1, LoggedStays
  <2>2. CASE t = task0 /\ d = day
    <3> DEFINE owed == Owed(t, d)
               reports == Reports(t, d)
               owedN == Owed(t, d)'
    <3>1. owedN = owed \ {r} /\ r \in owed
      BY <1>1, <2>2 DEF Owed, At
    <3>2. Reports(t, d)' = reports
      BY <1>r DEF Reports
    <3>3. /\ IsFiniteSet(owed) /\ IsFiniteSet(reports) /\ nagged[<<t, d>>] \in Nat
          /\ nagged[<<t, d>>] + Cardinality(owed) <= Cardinality(reports)
      BY <2>0, ReportFacts, NaggedType DEF LoggedAt, TInv
    <3> HIDE DEF owed, reports, owedN
    <3>4. /\ IsFiniteSet(owedN) /\ Cardinality(owedN) = Cardinality(owed) - 1
      BY <3>1, <3>3, FS_RemoveElement
    <3>5. Cardinality(owed) \in Nat /\ Cardinality(reports) \in Nat
      BY <3>3, FS_CardinalityType
    <3>6. nagged'[<<t, d>>] + Cardinality(owedN) <= Cardinality(reports)
      BY <1>2, <2>2, <3>3, <3>4, <3>5
    <3>7. QED
      BY <3>2, <3>4, <3>6 DEF LoggedAt, owedN
  <2>3. QED
    BY <2>1, <2>2
<1>4. QED
  BY <1>3 DEF Logged

LEMMA LoggedNext ==
  ASSUME TInv, Logged, [Next]_vars
  PROVE  Logged'
<1>0. TInv'
  BY TypeNext, TypeStutter
<1>1. ASSUME NEW r \in Runs, Silent(r) PROVE Logged'
  <2>1. ASSUME NEW t \in Tasks, NEW d \in 0..Day(MaxNow) PROVE LoggedAt(t, d)'
    <3>1. /\ nagged' = nagged /\ RowsKept /\ run'[r].pc # "emit"
          /\ \A q \in Runs \ {r} : run'[q] = run[q]
      BY <1>1, SilentEffect
    <3>2. Owed(t, d)' \subseteq Owed(t, d)
      BY <3>1 DEF Owed, At
    <3>3. LoggedAt(t, d)
      BY DEF Logged
    <3>4. QED
      BY <1>0, <3>1, <3>2, <3>3, LoggedStays
  <2>2. QED
    BY <2>1 DEF Logged
<1>2. CASE UNCHANGED <<rows, run, nagged>>
  BY <1>2 DEF Logged, LoggedAt, Owed, Reports, At
<1>3. \/ \E r \in Runs : \/ Silent(r) \/ EmitOverdue(r)
                         \/ \E x \in run[r].found : LogOverdue(r, x)
      \/ UNCHANGED <<rows, run, nagged>>
  BY DEF Next, StartDue, DueSoonStep, OverdueStep, Silent, EditTask, Tick, vars, history
<1>4. QED
  BY <1>0, <1>1, <1>2, <1>3, ReportLogged, ReportEmitted

LEMMA LoggedInit == Init => Logged
<1> SUFFICES ASSUME Init, NEW t \in Tasks, NEW d \in 0..Day(MaxNow) PROVE LoggedAt(t, d)
  BY DEF Logged
<1>1. Owed(t, d) = {}
  BY IdleRunType DEF Init, Owed, At
<1>2. Reports(t, d) = {} /\ nagged[<<t, d>>] = 0
  BY DEF Init, Reports
<1>3. QED
  BY <1>1, <1>2, FS_EmptySet DEF LoggedAt

\* The log has a row for every overdue event that went out.
THEOREM ReportsAreLogged == Spec => []NaggedIsLogged
<1>1. Init => TInv /\ Logged
  BY TypeInit, LoggedInit
<1>2. TInv /\ Logged /\ [Next]_vars => (TInv /\ Logged)'
  BY TypeNext, TypeStutter, LoggedNext
<1>3. TInv /\ Logged => NaggedIsLogged
  <2>1. SUFFICES ASSUME TInv, Logged, NEW t \in Tasks, NEW d \in 0..Day(MaxNow)
                 PROVE  nagged[<<t, d>>] <= Cardinality(Reports(t, d))
    BY DEF NaggedIsLogged, Reports
  <2>2. /\ nagged[<<t, d>>] + Cardinality(Owed(t, d)) <= Cardinality(Reports(t, d))
        /\ IsFiniteSet(Owed(t, d))
    BY <2>1 DEF Logged, LoggedAt
  <2>3. /\ Cardinality(Owed(t, d)) \in Nat /\ Cardinality(Reports(t, d)) \in Nat
        /\ nagged[<<t, d>>] \in Nat
    BY <2>1, <2>2, ReportFacts, NaggedType, FS_CardinalityType DEF TInv
  <2>4. QED
    BY <2>2, <2>3
<1>4. QED
  BY <1>1, <1>2, <1>3, PTL DEF Spec

=============================================================================
