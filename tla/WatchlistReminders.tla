-------------------------- MODULE WatchlistReminders --------------------------
(***************************************************************************)
(* Reminders for watched tenders: the cron job that writes TenderReminder  *)
(* rows ahead of the closing date and fires the rows that are due, urgent  *)
(* ones at once and the others as one summary per user and time window,    *)
(* with a daily limit on the summary e-mails of a user.                    *)
(*                                                                         *)
(* Nothing keeps two runs of the job apart, and a run may die anywhere:    *)
(* it stamps a row before it tells anybody and sends its summaries last.   *)
(* One organisation; a row is its unique key; a tick is a few hours, so    *)
(* rows that runs write for the same task within a tick are one.  Emitting *)
(* an event is one step here: NotificationDelivery has the rest.           *)
(***************************************************************************)
EXTENDS Integers, FiniteSets

CONSTANTS
  Tenders, Users,
  Runs,            \* runs of the job that can overlap
  Closings,        \* closing dates tenders are given; 0 is none
  Types, Urgent,   \* reminder types, and those that are never batched
  Lead,            \* ticks before the closing date, of each type
  TaskDueAt, TaskLead,  \* when a task of some tenders is due; none if outside
  EmailLimit,      \* WATCHLIST_MAX_EMAILS_PER_DAY
  Window, Day,     \* ticks of a batch window and of a day
  MaxNow, MaxEdits, MaxDeaths   \* bounds; MaxNow is on the second day at most,
                                \* and no reminder lies after it

ASSUME ReminderAssumption ==
  /\ Closings \subseteq Nat /\ "TASK_DUE" \notin Types
  /\ IsFiniteSet(Users) /\ IsFiniteSet(Runs)
  /\ Lead \in [Types -> Nat] /\ TaskLead \in Nat
  /\ EmailLimit \in Nat \ {0}
  /\ Window \in Nat \ {0} /\ Day \in Nat \ {0}
  /\ MaxNow \in 0..(2 * Day - 1) /\ MaxEdits \in Nat /\ MaxDeaths \in Nat
  /\ \A c \in Closings, type \in Types : c - Lead[type] <= MaxNow

VARIABLES
  now,
  closing,   \* closingAt of each tender
  watching,  \* the reminder types of each user's watchlist item; {} is no item
  rows,      \* TenderReminder
  fired,     \* rows with a firedAt
  mail,      \* watchlist e-mails by user and day: queued, sent, and summaries
  run,
  edits, deaths,
  told,      \* history: how often a user was told of a row
  shared,    \* history: rows two runs had fetched at once
  lost,      \* history: what dead runs had stamped and not told
  late       \* history: users counted while mails were queued or being made

history == <<told, shared, lost, late>>
vars    == <<now, closing, watching, rows, fired, mail, run, edits, deaths, history>>

Times == 0..MaxNow
Days  == 0..(MaxNow \div Day)
Rows  == [tender : Tenders, type : Types \cup {"TASK_DUE"}, fireAt : Times]
Pairs == Rows \X Users

RunStates ==
  [pc : {"idle", "plan", "find", "stamp", "collect", "emit", "flush"},
   at : Times, plan : SUBSET (Tenders \X Closings), due : SUBSET Rows,
   row : SUBSET Rows, todo : SUBSET Users, batch : SUBSET Pairs,
   count : [Users -> Nat \cup {-1}]]

Idle == [pc |-> "idle", at |-> 0, plan |-> {}, due |-> {}, row |-> {},
         todo |-> {}, batch |-> {}, count |-> [u \in Users |-> -1]]

Init ==
  /\ now = 0
  /\ closing \in [Tenders -> Closings]
  /\ watching \in [Users -> {{}, Types}]
  /\ rows = {} /\ fired = {}
  /\ mail = [u \in Users |-> [d \in Days |->
               [queued |-> 0, sent |-> 0, failed |-> 0, summaries |-> 0]]]
  /\ run = [r \in Runs |-> Idle]
  /\ edits = 0 /\ deaths = 0
  /\ told = [p \in Pairs |-> 0] /\ shared = {} /\ lost = {} /\ late = {}

At(r, pc) == run[r].pc = pc
Goto(r, pc) == run' = [run EXCEPT ![r].pc = pc]

-----------------------------------------------------------------------------
(* scheduleReminders. *)

\* One findMany reads all tenders with their closing dates.
StartRun(r) ==
  /\ At(r, "idle")
  /\ run' = [run EXCEPT ![r] = [Idle EXCEPT !.pc = "plan",
                                            !.plan = {<<t, closing[t]>> : t \in Tenders}]]
  /\ UNCHANGED <<now, closing, watching, rows, fired, mail, edits, deaths, history>>

Plannable(closes, type) == closes > now /\ closes - Lead[type] > now

\* One tender: for each reminder type, who watches it, and the upsert.
PlanOne(r) ==
  /\ At(r, "plan")
  /\ run[r].plan # {}
  /\ LET x == CHOOSE x \in run[r].plan : TRUE
         wanted == {type \in Types : Plannable(x[2], type)
                                     /\ \E u \in Users : type \in watching[u]}
     IN
     /\ rows' = rows \cup {[tender |-> x[1], type |-> type, fireAt |-> x[2] - Lead[type]] :
                             type \in wanted}
     /\ run' = [run EXCEPT ![r].plan = @ \ {x}]
  /\ UNCHANGED <<now, closing, watching, fired, mail, edits, deaths, history>>

\* Open tasks due within the lead time and an hour, less than a tick.
PlanTasks(r) ==
  /\ At(r, "plan") /\ run[r].plan = {}
  /\ rows' = rows \cup
       {x \in Rows : /\ x.type = "TASK_DUE"
                     /\ now < TaskDueAt /\ TaskDueAt <= now + TaskLead
                     /\ x.fireAt = now}
  /\ Goto(r, "find")
  /\ UNCHANGED <<now, closing, watching, fired, mail, edits, deaths, history>>

-----------------------------------------------------------------------------
(* fireDueReminders. *)

Due == {x \in rows \ fired : x.fireAt <= now}

FindDue(r) ==
  /\ At(r, "find")
  /\ run' = [run EXCEPT ![r].pc = "stamp", ![r].due = Due, ![r].at = now]
  /\ shared' = shared \cup (Due \cap UNION {run[q].due \cup run[q].row : q \in Runs \ {r}})
  /\ UNCHANGED <<now, closing, watching, rows, fired, mail, edits, deaths, told,
                 lost, late>>

StampNothing(r, x) ==   \* mutant: firedAt is left null
  /\ At(r, "stamp") /\ x \in run[r].due
  /\ run' = [run EXCEPT ![r].pc = "collect", ![r].due = @ \ {x}, ![r].row = {x}]
  /\ UNCHANGED <<now, closing, watching, rows, fired, mail, edits, deaths, history>>

Stamp(r, x) ==
  /\ At(r, "stamp") /\ x \in run[r].due
  /\ fired' = fired \cup {x}
  /\ run' = [run EXCEPT ![r].pc = "collect", ![r].due = @ \ {x}, ![r].row = {x}]
  /\ UNCHANGED <<now, closing, watching, rows, mail, edits, deaths, history>>

Watchers(x) == {u \in Users : x.type \in watching[u]}

\* The watchers of a batched reminder go to the buckets of the run, those of an
\* urgent one are told one by one; TASK_DUE is one event for the organisation.
Collect(r) ==
  /\ At(r, "collect")
  /\ \E x \in run[r].row :
       IF x.type \in Types \ Urgent
         THEN run' = [run EXCEPT ![r].pc = "stamp", ![r].row = {},
                                 ![r].batch = @ \cup ({x} \X Watchers(x))]
         ELSE run' = [run EXCEPT ![r].pc = "emit", ![r].todo =
                        IF x.type \in Urgent THEN Watchers(x) ELSE {}]
  /\ UNCHANGED <<now, closing, watching, rows, fired, mail, edits, deaths, history>>

\* An e-mail delivery row of today; summary is 1 or 0.
Queue(u, summary) == [mail EXCEPT ![u][now \div Day].queued = @ + 1,
                                  ![u][now \div Day].summaries = @ + summary]

Tell(pairs) == told' = [p \in Pairs |-> IF p \in pairs THEN told[p] + 1 ELSE told[p]]

EmitUrgent(r) ==
  /\ At(r, "emit")
  /\ \E u \in run[r].todo :
       /\ run' = [run EXCEPT ![r].todo = @ \ {u}]
       /\ mail' = Queue(u, 0)
       /\ Tell(run[r].row \X {u})
  /\ UNCHANGED <<now, closing, watching, rows, fired, edits, deaths, shared, lost, late>>

EmitDone(r) ==
  /\ At(r, "emit") /\ run[r].todo = {}
  /\ run' = [run EXCEPT ![r].pc = "stamp", ![r].row = {}]
  /\ UNCHANGED <<now, closing, watching, rows, fired, mail, edits, deaths, history>>

StartFlush(r) ==
  /\ At(r, "stamp") /\ run[r].due = {}
  /\ Goto(r, "flush")
  /\ UNCHANGED <<now, closing, watching, rows, fired, mail, edits, deaths, history>>

-----------------------------------------------------------------------------
(* flushWatchlistBatches. *)

WindowOf(x) == x.fireAt \div Window

\* The buckets of the earliest window, one for each user in it.
FirstWindow(r) ==
  {p \in run[r].batch : \A s \in run[r].batch : WindowOf(p[1]) <= WindowOf(s[1])}

Bucket(r, u) == {p \in FirstWindow(r) : p[2] = u}

\* SENT rows created since the day of the run began, once per run and user.
CountSent(r, u) ==
  LET since == {d \in Days : d >= run[r].at \div Day}
      Sent(d) == mail[u][d].sent
      other == {q \in Runs \ {r} : run[q].count[u] # -1}
  IN
  /\ At(r, "flush") /\ Bucket(r, u) # {} /\ run[r].count[u] = -1
  /\ run' = [run EXCEPT ![r].count[u] =
       Sent(run[r].at \div Day) +
       (IF (run[r].at \div Day) + 1 \in since THEN Sent((run[r].at \div Day) + 1) ELSE 0)]
  /\ late' = IF other # {} \/ \E d \in since : mail[u][d].queued > 0
               THEN late \cup {u} ELSE late
  /\ UNCHANGED <<now, closing, watching, rows, fired, mail, edits, deaths, told,
                 shared, lost>>

CappedPlusOne(n) == n > EmailLimit   \* mutant: one more than the limit

Capped(n) == n >= EmailLimit

FlushForgetful(r, u) ==   \* mutant: over the limit there is no event either
  /\ At(r, "flush") /\ Bucket(r, u) # {} /\ run[r].count[u] # -1
  /\ LET capped == Capped(run[r].count[u]) IN
     /\ run' = [run EXCEPT ![r].batch = @ \ Bucket(r, u),
                           ![r].count[u] = IF capped THEN @ ELSE @ + 1]
     /\ mail' = IF capped THEN mail ELSE Queue(u, 1)
     /\ Tell(IF capped THEN {} ELSE Bucket(r, u))
  /\ UNCHANGED <<now, closing, watching, rows, fired, edits, deaths, shared, lost, late>>

\* One summary.  Over the limit the event is still written and whatsapp still
\* used, only the e-mail is left out.
Flush(r, u) ==
  /\ At(r, "flush") /\ Bucket(r, u) # {} /\ run[r].count[u] # -1
  /\ LET capped == Capped(run[r].count[u]) IN
     /\ run' = [run EXCEPT ![r].batch = @ \ Bucket(r, u),
                           ![r].count[u] = IF capped THEN @ ELSE @ + 1]
     /\ mail' = IF capped THEN mail ELSE Queue(u, 1)
  /\ Tell(Bucket(r, u))
  /\ UNCHANGED <<now, closing, watching, rows, fired, edits, deaths, shared, lost, late>>

EndRun(r) ==
  /\ At(r, "flush") /\ run[r].batch = {}
  /\ run' = [run EXCEPT ![r] = Idle]
  /\ UNCHANGED <<now, closing, watching, rows, fired, mail, edits, deaths, history>>

-----------------------------------------------------------------------------
(* Around the job. *)

\* Whom a run still has to tell of what.
Held(r) == run[r].batch \cup (run[r].row \X run[r].todo)

Dies(r) ==
  /\ ~At(r, "idle") /\ deaths < MaxDeaths
  /\ deaths' = deaths + 1
  /\ lost' = lost \cup Held(r)
  /\ run' = [run EXCEPT ![r] = Idle]
  /\ UNCHANGED <<now, closing, watching, rows, fired, mail, edits, told, shared, late>>

\* The delivery worker sends a queued e-mail, or gives it up.
Deliver(u, d, sent) ==
  /\ mail[u][d].queued > 0
  /\ mail' = [mail EXCEPT ![u][d].queued = @ - 1,
                          ![u][d].sent = IF sent THEN @ + 1 ELSE @,
                          ![u][d].failed = IF sent THEN @ ELSE @ + 1]
  /\ UNCHANGED <<now, closing, watching, rows, fired, run, edits, deaths, history>>

\* addToWatchlist gives the default types, updateWatchlistItem any, and
\* removeFromWatchlist ends it.
EditWatch(u, types) ==
  /\ edits < MaxEdits /\ types # watching[u]
  /\ watching' = [watching EXCEPT ![u] = types]
  /\ edits' = edits + 1
  /\ UNCHANGED <<now, closing, rows, fired, mail, run, deaths, history>>

\* The tender is extracted again, or its deadline is corrected.
MoveClosing(t, c) ==
  /\ edits < MaxEdits /\ c # closing[t]
  /\ closing' = [closing EXCEPT ![t] = c]
  /\ edits' = edits + 1
  /\ UNCHANGED <<now, watching, rows, fired, mail, run, deaths, history>>

Tick ==
  /\ now < MaxNow
  /\ now' = now + 1
  /\ UNCHANGED <<closing, watching, rows, fired, mail, run, edits, deaths, history>>

Work(r) ==
  \/ PlanOne(r) \/ PlanTasks(r) \/ FindDue(r)
  \/ \E x \in run[r].due : Stamp(r, x)
  \/ Collect(r) \/ EmitUrgent(r) \/ EmitDone(r) \/ StartFlush(r)
  \/ \E u \in Users : CountSent(r, u) \/ Flush(r, u)
  \/ EndRun(r)

Next ==
  \/ \E r \in Runs : StartRun(r) \/ Work(r) \/ Dies(r)
  \/ \E u \in Users, d \in Days, sent \in BOOLEAN : Deliver(u, d, sent)
  \/ \E u \in Users, types \in SUBSET Types : EditWatch(u, types)
  \/ \E t \in Tenders, c \in Closings : MoveClosing(t, c)
  \/ Tick

Spec == Init /\ [][Next]_vars

-----------------------------------------------------------------------------
TypeOK ==
  /\ now \in Times
  /\ closing \in [Tenders -> Closings]
  /\ watching \in [Users -> SUBSET Types]
  /\ rows \subseteq Rows /\ fired \subseteq rows
  /\ mail \in [Users -> [Days -> [queued : Nat, sent : Nat, failed : Nat, summaries : Nat]]]
  /\ run \in [Runs -> RunStates]
  /\ \A r \in Runs : run[r].row \cup {p[1] : p \in run[r].batch} \subseteq fired
  /\ edits \in 0..MaxEdits /\ deaths \in 0..MaxDeaths
  /\ told \in [Pairs -> Nat] /\ shared \subseteq Rows /\ lost \subseteq Pairs
  /\ late \subseteq Users

\* Whoever is in a batch or on the list of an urgent reminder stays there until
\* told: only a run that dies forgets a watcher of a reminder it has stamped.
CollectedIsTold ==
  [][\A r \in Runs : \A p \in Held(r) :
       p \in Held(r)' \/ told'[p] > told[p] \/ p \in lost']_vars

\* A user is told of a reminder once, unless two runs had fetched it at once, and
\* then once by each run there can be at a time: not even a death adds another.
ToldOnce ==
  \A p \in Pairs : /\ told[p] > 1 => p[1] \in shared
                   /\ told[p] <= Cardinality(Runs)

\* The summary e-mails a user gets in a day stay within the limit, unless they
\* were counted while others were queued or another run was sending.
WithinLimit ==
  \A u \in Users, d \in Days : mail[u][d].summaries - mail[u][d].failed > EmailLimit => u \in late
=============================================================================
