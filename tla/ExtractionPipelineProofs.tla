---------------------- MODULE ExtractionPipelineProofs ----------------------
(***************************************************************************)
(* Proofs about ExtractionPipeline, for any number of documents, chunks,   *)
(* workers and chats, and any limits.  TInv has the types and who can be   *)
(* where; JInv says who takes care of a job that is not over; XInv says    *)
(* what the chunks of a document are while somebody indexes it, and OInv   *)
(* who may still store its text.                                           *)
(***************************************************************************)
EXTENDS ExtractionPipeline, TLAPS

Procs == Workers \cup Chats

WorkerSteps == {"idle", "begin", "mark", "read", "hash", "check", "skip", "extract", "clear",
                "chunk", "insight", "finish", "tender", "done", "threw"}
ChatSteps == {"idle", "count", "fill", "pending", "have", "save", "wipe", "put", "weigh",
              "settle"}
StepsOf(p) == IF p \in Workers THEN WorkerSteps ELSE ChatSteps

LEMMA Bounds ==
  /\ Parts \in Nat /\ Parts >= 1 /\ MaxTries \in Nat /\ MaxTries >= 1 /\ MaxStalls \in Nat
  /\ MaxFaults \in Nat /\ MaxChats \in Nat /\ MaxDeletes \in Nat
  /\ Workers \cap Chats = {} /\ None \notin Workers /\ None \notin Files
  BY PipelineAssumption

-----------------------------------------------------------------------------
(* Types, one conjunct per part of the state. *)

RowsOK ==
  /\ upload \in [Files -> {"none", "filed", "listed", "marked", "done", "died", "deleted"}]
  /\ object \subseteq Files /\ hash \subseteq Files /\ insights \subseteq Files
  /\ job \in [Files -> {"none"} \cup Active \cup Settled]
  /\ tender \in {"DRAFT"} \cup Active \cup Settled
  /\ extracts \in [Files -> Nat] /\ chunks \in [Files -> SUBSET (1..Parts)]

\* A job that may be tried again has been tried less often than the limit.
QueueOK ==
  /\ bull \in [Files -> BullJobs] /\ handler \in [Files -> {"none", "job", "tender"}]
  /\ \A f \in Files : (bull[f].state = "active") <=> (bull[f].lock # None)
  /\ \A f \in Files : bull[f].state \notin {"completed", "failed"} => bull[f].tries < MaxTries

\* Workers and chats are each at steps of their own, and idle without a document.
RunOK ==
  /\ run \in [Procs -> RunStates]
  /\ \A p \in Procs : /\ run[p].pc \in StepsOf(p)
                      /\ (run[p].pc = "idle") <=> (run[p].file = None)

RestOK ==
  /\ look \in [Lists -> ListStates]
  /\ \A l \in Lists : look[l].pc = "add" => look[l].file \in look[l].left
  /\ deletion \in [Files -> {"none", "object", "row"}]
  /\ faults \in 0..MaxFaults /\ prepared \in 0..MaxChats
  /\ looked \subseteq Files /\ deletes \in 0..MaxDeletes
  /\ torn \subseteq Files /\ overlap \subseteq Files /\ adrift \subseteq Files

TInv == RowsOK /\ QueueOK /\ RunOK /\ RestOK

LEMMA IdleType == Idle \in RunStates
  BY Bounds DEF Idle, RunStates

LEMMA TypeInit == Init => TInv
<1> SUFFICES ASSUME Init PROVE TInv
  OBVIOUS
<1>1. RowsOK
  BY DEF Init, RowsOK, Active, Settled
<1>2. QueueOK
  BY Bounds DEF Init, QueueOK, NewBull, BullJobs
<1>3. RunOK
  BY IdleType DEF Init, RunOK, Procs, Idle, StepsOf, WorkerSteps, ChatSteps
<1>4. RestOK
  BY Bounds DEF Init, RestOK, ListStates, NoList
<1>5. QED
  BY <1>1, <1>2, <1>3, <1>4 DEF TInv

\* Who is not idle has a document.
LEMMA HasFile ==
  ASSUME TInv, NEW p \in Procs, run[p].pc # "idle"
  PROVE  run[p] \in RunStates /\ run[p].file \in Files
  BY DEF TInv, RunOK, RunStates

\* One process moves.
LEMMA RunMoves ==
  ASSUME TInv, NEW p \in Procs, NEW s \in RunStates, run' = [run EXCEPT ![p] = s],
         s.pc \in StepsOf(p), (s.pc = "idle") <=> (s.file = None)
  PROVE  RunOK' /\ run'[p] = s /\ \A o \in Procs \ {p} : run'[o] = run[o]
<1>1. run' \in [Procs -> RunStates]
  BY DEF TInv, RunOK
<1>2. run'[p] = s /\ \A o \in Procs \ {p} : run'[o] = run[o]
  BY DEF TInv, RunOK
<1>3. \A o \in Procs : /\ run'[o].pc \in StepsOf(o)
                       /\ (run'[o].pc = "idle") <=> (run'[o].file = None)
  BY <1>2 DEF TInv, RunOK
<1>4. QED
  BY <1>1, <1>2, <1>3 DEF RunOK, StepsOf

\* It goes on with its document, at another step or part.
Moves(p, pc, part) ==
  /\ RunOK' /\ run'[p].pc = pc /\ run'[p].file = run[p].file /\ run'[p].part = part
  /\ \A o \in Procs \ {p} : run'[o] = run[o]

LEMMA GoMoves ==
  ASSUME TInv, NEW p \in Procs, NEW pc \in StepsOf(p), pc # "idle", run[p].pc # "idle",
         Go(p, pc)
  PROVE  Moves(p, pc, run[p].part)
<1> DEFINE s == [run[p] EXCEPT !.pc = pc]
<1>1. run[p] \in RunStates /\ run[p].file \in Files
  BY HasFile
<1>2. pc \in WorkerSteps \cup ChatSteps
  BY DEF StepsOf
<1>3. s \in RunStates /\ s.pc = pc /\ s.file = run[p].file /\ s.part = run[p].part
  BY <1>1, <1>2 DEF RunStates, WorkerSteps, ChatSteps
<1>4. run' = [run EXCEPT ![p] = s]
  BY DEF Go
<1>5. s.file # None
  BY <1>1, <1>3, Bounds
<1> HIDE DEF s
<1>6. QED
  BY <1>3, <1>4, <1>5, RunMoves DEF Moves

\* It comes to rest.
Rests(p) ==
  /\ RunOK' /\ run'[p].pc = "idle" /\ run'[p].file = None
  /\ \A o \in Procs \ {p} : run'[o] = run[o]

LEMMA IdleRests ==
  ASSUME TInv, NEW p \in Procs, run' = [run EXCEPT ![p] = Idle]
  PROVE  Rests(p)
<1>1. Idle \in RunStates /\ Idle.pc = "idle" /\ Idle.file = None /\ "idle" \in StepsOf(p)
  BY IdleType DEF Idle, StepsOf, WorkerSteps, ChatSteps
<1>2. QED
  BY <1>1, RunMoves DEF Rests

\* The next chunk is cut.
LEMMA PartMoves ==
  ASSUME TInv, NEW p \in Procs, run[p].pc # "idle", NEW i \in 1..Parts,
         run' = [run EXCEPT ![p].part = i]
  PROVE  Moves(p, run[p].pc, i)
<1> DEFINE s == [run[p] EXCEPT !.part = i]
<1>1. run[p] \in RunStates /\ run[p].file \in Files
  BY HasFile
<1>2. s \in RunStates /\ s.pc = run[p].pc /\ s.file = run[p].file /\ s.part = i
  BY <1>1 DEF RunStates
<1>3. s.file # None /\ s.pc \in StepsOf(p)
  BY <1>1, <1>2, Bounds DEF TInv, RunOK
<1>4. run' = [run EXCEPT ![p] = s]
  OBVIOUS
<1> HIDE DEF s
<1>5. QED
  BY <1>2, <1>3, <1>4, RunMoves DEF Moves

\* A chat goes on from the first chunk.
LEMMA AnewMoves ==
  ASSUME TInv, NEW c \in Chats, run[c].pc # "idle", NEW pc \in {"pending", "weigh"},
         run' = [run EXCEPT ![c].pc = pc, ![c].part = 1]
  PROVE  Moves(c, pc, 1)
<1> DEFINE s == [run[c] EXCEPT !.pc = pc, !.part = 1]
<1>0. c \in Procs /\ StepsOf(c) = ChatSteps /\ 1 \in 1..Parts
  BY Bounds DEF Procs, StepsOf
<1>1. run[c] \in RunStates /\ run[c].file \in Files
  BY <1>0, HasFile
<1>2. s \in RunStates /\ s.pc = pc /\ s.file = run[c].file /\ s.part = 1
  BY <1>0, <1>1 DEF RunStates
<1>3. s.file # None /\ s.pc \in StepsOf(c) /\ s.pc # "idle"
  BY <1>0, <1>1, <1>2, Bounds DEF ChatSteps
<1>4. run' = [run EXCEPT ![c] = s]
  OBVIOUS
<1> HIDE DEF s
<1>5. QED
  BY <1>0, <1>2, <1>3, <1>4, RunMoves DEF Moves

LEMMA FaultCounts == TInv /\ Fault => faults' \in 0..MaxFaults
  BY Bounds DEF TInv, RestOK, Fault

\* The processor of a job, up to where it ends or throws.
Processes(w) ==
  \/ Begin(w) \/ ReadFile(w) \/ WriteHash(w) \/ Check(w) \/ Extract(w) \/ ClearChunks(w)
  \/ CreateChunk(w) \/ CreateInsight(w) \/ Complete(w) \/ Throw(w)

LEMMA TypeProcesses ==
  ASSUME TInv, NEW w \in Workers, Processes(w)
  PROVE  TInv'
<1> DEFINE f == run[w].file
<1>0. w \in Procs /\ StepsOf(w) = WorkerSteps
  BY DEF Procs, StepsOf
<1>1. run[w] \in RunStates /\ f \in Files /\ run[w].pc # "idle"
  <2>1. run[w].pc # "idle"
    BY DEF Processes, Begin, ReadFile, WriteHash, Check, Extract, ClearChunks, CreateChunk,
           CreateInsight, Complete, Throw
  <2>2. QED
    BY <1>0, <2>1, HasFile
<1>2. ASSUME NEW pc \in WorkerSteps \ {"idle"}, Go(w, pc)
      PROVE  RunOK'
  BY <1>0, <1>1, <1>2, GoMoves DEF Moves
<1>3. CASE Begin(w)
  <2>1. RunOK'
    BY <1>2, <1>3 DEF Begin, WorkerSteps
  <2>2. RowsOK'
    BY <1>1, <1>3 DEF Begin, TInv, RowsOK, UpdateJob, Active, Settled
  <2>3. QED
    BY <1>3, <2>1, <2>2 DEF Begin, TInv, QueueOK, RestOK, limits, history
<1>4. CASE ReadFile(w)
  <2>1. RunOK'
    <3>1. CASE Go(w, "threw")
      BY <1>2, <3>1 DEF WorkerSteps
    <3>2. CASE run' = [run EXCEPT ![w].pc = "hash", ![w].seen = f \in hash]
      <4>0. PICK v \in BOOLEAN : v = (f \in hash)
        <5>1. (f \in hash) \in BOOLEAN
          OBVIOUS
        <5>2. QED
          BY <5>1, Zenon
      <4> DEFINE s == [run[w] EXCEPT !.pc = "hash", !.seen = v]
      <4>1. s \in RunStates /\ s.pc = "hash" /\ s.file = f
        BY <1>1 DEF RunStates
      <4>2. run' = [run EXCEPT ![w] = s]
        BY <3>2, <4>0
      <4>3. "hash" \in StepsOf(w) /\ f # None
        BY <1>0, <1>1, Bounds DEF WorkerSteps
      <4> HIDE DEF s
      <4>4. QED
        BY <1>0, <4>1, <4>2, <4>3, RunMoves
    <3>3. QED
      BY <1>4, <3>1, <3>2 DEF ReadFile
  <2>2. QED
    BY <1>4, <2>1 DEF ReadFile, TInv, RowsOK, QueueOK, RestOK, rows, limits, history
<1>5. CASE WriteHash(w)
  <2>1. RunOK'
    BY <1>2, <1>5 DEF WriteHash, WorkerSteps
  <2>2. RowsOK'
    BY <1>1, <1>5 DEF WriteHash, TInv, RowsOK
  <2>3. QED
    BY <1>5, <2>1, <2>2 DEF WriteHash, TInv, QueueOK, RestOK, limits, history
<1>6. CASE Check(w)
  <2>1. RunOK'
    BY <1>2, <1>6 DEF Check, WorkerSteps
  <2>2. QED
    BY <1>6, <2>1 DEF Check, TInv, RowsOK, QueueOK, RestOK, rows, limits, history
<1>7. CASE Extract(w)
  <2>1. RunOK'
    BY <1>2, <1>7 DEF Extract, WorkerSteps
  <2>2. RowsOK'
    BY <1>1, <1>7 DEF Extract, TInv, RowsOK
  <2>3. QED
    BY <1>7, <2>1, <2>2 DEF Extract, TInv, QueueOK, RestOK, limits, history
<1>8. CASE ClearChunks(w)
  <2>1. RunOK'
    BY <1>2, <1>8 DEF ClearChunks, WorkerSteps
  <2>2. RowsOK'
    BY <1>1, <1>8 DEF ClearChunks, TInv, RowsOK
  <2>3. QED
    BY <1>8, <2>1, <2>2 DEF ClearChunks, TInv, QueueOK, RestOK, limits, history
<1>9. CASE CreateChunk(w)
  <2>0. run[w].part \in 1..Parts
    BY <1>1 DEF RunStates
  <2>1. RunOK'
    <3>1. CASE run' = [run EXCEPT ![w].part = run[w].part + 1] /\ run[w].part # Parts
      <4>1. run[w].part + 1 \in 1..Parts
        BY <2>0, <3>1, Bounds
      <4>2. QED
        BY <1>0, <1>1, <3>1, <4>1, PartMoves DEF Moves
    <3>2. CASE Go(w, "insight") \/ Go(w, "threw")
      BY <1>2, <3>2 DEF WorkerSteps
    <3>3. QED
      BY <1>9, <3>1, <3>2 DEF CreateChunk
  <2>2. RowsOK'
    BY <1>1, <1>9, <2>0 DEF CreateChunk, TInv, RowsOK
  <2>3. QED
    BY <1>1, <1>9, <2>1, <2>2 DEF CreateChunk, TInv, QueueOK, RestOK, limits
<1>10. CASE CreateInsight(w)
  <2>1. RunOK'
    BY <1>2, <1>10 DEF CreateInsight, WorkerSteps
  <2>2. RowsOK'
    BY <1>1, <1>10 DEF CreateInsight, TInv, RowsOK
  <2>3. QED
    BY <1>10, <2>1, <2>2 DEF CreateInsight, TInv, QueueOK, RestOK, limits, history
<1>11. CASE Complete(w)
  <2>1. RunOK'
    BY <1>2, <1>11 DEF Complete, WorkerSteps
  <2>2. RowsOK'
    BY <1>1, <1>11 DEF Complete, TInv, RowsOK, UpdateJob, Active, Settled
  <2>3. QED
    BY <1>11, <2>1, <2>2 DEF Complete, TInv, QueueOK, RestOK, limits, history
<1>12. CASE Throw(w)
  <2>1. RunOK'
    BY <1>2, <1>12 DEF Throw, WorkerSteps
  <2>2. QED
    BY <1>1, <1>12, <2>1, FaultCounts DEF Throw, TInv, RowsOK, QueueOK, RestOK, rows
<1>13. QED
  BY <1>3, <1>4, <1>5, <1>6, <1>7, <1>8, <1>9, <1>10, <1>11, <1>12 DEF Processes

\* A process takes up a document.
Starts(p, f, pc) ==
  /\ RunOK' /\ run'[p].pc = pc /\ run'[p].file = f /\ run'[p].part = 1
  /\ \A o \in Procs \ {p} : run'[o] = run[o]

LEMMA BeginsStarts ==
  ASSUME TInv, NEW p \in Procs, NEW f \in Files, NEW pc \in StepsOf(p), pc # "idle",
         Begins(p, f, pc)
  PROVE  Starts(p, f, pc)
<1> DEFINE s == [Idle EXCEPT !.pc = pc, !.file = f]
<1>1. pc \in WorkerSteps \cup ChatSteps
  BY DEF StepsOf
<1>2. s \in RunStates /\ s.pc = pc /\ s.file = f /\ s.part = 1
  <2>1. Idle \in RunStates /\ Idle.part = 1
    BY IdleType DEF Idle
  <2>2. QED
    BY <1>1, <2>1 DEF RunStates, WorkerSteps, ChatSteps
<1>3. run' = [run EXCEPT ![p] = s] /\ f # None
  BY Bounds DEF Begins
<1> HIDE DEF s
<1>4. QED
  BY <1>2, <1>3, RunMoves DEF Starts

\* One BullMQ job changes.
LEMMA BullMoves ==
  ASSUME TInv, NEW f \in Files, NEW b \in BullJobs, bull' = [bull EXCEPT ![f] = b],
         (b.state = "active") <=> (b.lock # None),
         b.state \notin {"completed", "failed"} => b.tries < MaxTries,
         handler' \in [Files -> {"none", "job", "tender"}]
  PROVE  QueueOK' /\ bull'[f] = b /\ \A g \in Files \ {f} : bull'[g] = bull[g]
  BY DEF TInv, QueueOK

\* What BullMQ does, and the processes that end.
Queues ==
  \/ \E f \in Files : \/ Retry(f) \/ Stall(f) \/ OnFailed(f) \/ OnFailedLost(f)
                      \/ \E w \in Workers : Take(w, f)
  \/ \E w \in Workers : Ack(w) \/ Nack(w) \/ Die(w)

LEMMA TypeTake ==
  ASSUME TInv, NEW f \in Files, NEW w \in Workers, Take(w, f)
  PROVE  /\ TInv' /\ Starts(w, f, "begin") /\ bull'[f].state = "active" /\ bull'[f].lock = w
         /\ \A g \in Files \ {f} : bull'[g] = bull[g]
<1>1. w \in Procs /\ "begin" \in StepsOf(w) /\ Begins(w, f, "begin")
  BY DEF Procs, StepsOf, WorkerSteps, Take
<1>2. Starts(w, f, "begin")
  BY <1>1, BeginsStarts
<1> DEFINE b == [bull[f] EXCEPT !.state = "active", !.lock = w]
<1>3. bull[f] \in BullJobs /\ bull[f].state = "waiting" /\ bull[f].tries < MaxTries
  BY DEF TInv, QueueOK, Take
<1>4. b \in BullJobs /\ b.state = "active" /\ b.lock = w /\ b.lock # None /\ b.tries < MaxTries
  BY <1>3, Bounds DEF BullJobs
<1>5. bull' = [bull EXCEPT ![f] = b]
  BY DEF Take
<1>6. handler' \in [Files -> {"none", "job", "tender"}]
  BY DEF Take, TInv, QueueOK
<1> HIDE DEF b
<1>7. QueueOK' /\ bull'[f] = b /\ \A g \in Files \ {f} : bull'[g] = bull[g]
  BY <1>4, <1>5, <1>6, BullMoves
<1>8. RowsOK' /\ RestOK'
  BY DEF Take, Begins, TInv, RowsOK, RestOK, rows, limits
<1>9. QED
  BY <1>2, <1>4, <1>7, <1>8 DEF TInv, Starts

LEMMA TypeAck ==
  ASSUME TInv, NEW w \in Workers, Ack(w)
  PROVE  /\ TInv' /\ Rests(w)
         /\ \A g \in Files : \/ bull'[g] = bull[g]
                             \/ /\ g = run[w].file /\ bull[g].lock = w
                                /\ bull'[g].state = "completed"
<1> DEFINE f == run[w].file
           b == [bull[f] EXCEPT !.state = "completed", !.lock = None]
<1>0. w \in Procs /\ f \in Files
  BY HasFile DEF Procs, Ack
<1>1. Rests(w)
  BY <1>0, IdleRests DEF Ack
<1>2. RowsOK' /\ RestOK'
  BY DEF Ack, TInv, RowsOK, RestOK, rows, limits, history
<1>3. CASE bull[f].lock = w
  <2>0. bull[f] \in BullJobs
    BY <1>0 DEF TInv, QueueOK
  <2>1. b \in BullJobs /\ b.state = "completed" /\ b.lock = None
    BY <2>0 DEF BullJobs
  <2>2. bull' = [bull EXCEPT ![f] = b] /\ handler' \in [Files -> {"none", "job", "tender"}]
    BY <1>3 DEF Ack, TInv, QueueOK
  <2> HIDE DEF b
  <2>3. QueueOK' /\ bull'[f] = b /\ \A g \in Files \ {f} : bull'[g] = bull[g]
    BY <1>0, <2>1, <2>2, BullMoves
  <2>4. QED
    BY <1>1, <1>2, <1>3, <2>1, <2>3 DEF TInv, Rests
<1>4. CASE bull[f].lock # w
  BY <1>1, <1>2, <1>4 DEF Ack, TInv, QueueOK, Rests
<1>5. QED
  BY <1>3, <1>4

LEMMA TypeNack ==
  ASSUME TInv, NEW w \in Workers, Nack(w)
  PROVE  /\ TInv' /\ Rests(w)
         /\ \A g \in Files : \/ bull'[g] = bull[g] /\ handler'[g] = handler[g]
                             \/ /\ g = run[w].file /\ bull'[g].state \in {"delayed", "failed"}
                                /\ handler'[g] = "job"
<1> DEFINE f == run[w].file
           tries == bull[f].tries + 1
           b == [bull[f] EXCEPT !.state = IF tries < MaxTries THEN "delayed" ELSE "failed",
                                !.lock = None, !.tries = tries]
<1>0. w \in Procs /\ f \in Files
  BY HasFile DEF Procs, Nack
<1>1. Rests(w)
  BY <1>0, IdleRests DEF Nack
<1>2. RowsOK' /\ RestOK'
  BY DEF Nack, TInv, RowsOK, RestOK, rows, limits, history
<1>3. CASE bull[f].lock = w
  <2>0. bull[f] \in BullJobs /\ bull[f].tries < MaxTries
    BY <1>0, <1>3, Bounds DEF TInv, QueueOK
  <2>1. /\ b \in BullJobs /\ b.state \in {"delayed", "failed"} /\ b.lock = None
        /\ b.state = "delayed" => b.tries < MaxTries
    <3>1. tries \in 0..MaxTries
      BY <2>0, Bounds DEF BullJobs
    <3>2. CASE tries < MaxTries
      BY <2>0, <3>1, <3>2 DEF BullJobs
    <3>3. CASE ~(tries < MaxTries)
      BY <2>0, <3>1, <3>3 DEF BullJobs
    <3>4. QED
      BY <3>2, <3>3
  <2>2. bull' = [bull EXCEPT ![f] = b]
    BY <1>3 DEF Nack
  <2>3. handler' \in [Files -> {"none", "job", "tender"}] /\ handler'[f] = "job"
        /\ \A g \in Files \ {f} : handler'[g] = handler[g]
    BY <1>0, <1>3 DEF Nack, TInv, QueueOK
  <2> HIDE DEF b
  <2>4. QueueOK' /\ bull'[f] = b /\ \A g \in Files \ {f} : bull'[g] = bull[g]
    BY <1>0, <2>1, <2>2, <2>3, BullMoves
  <2>5. QED
    BY <1>1, <1>2, <2>1, <2>3, <2>4 DEF TInv, Rests
<1>4. CASE bull[f].lock # w
  BY <1>1, <1>2, <1>4 DEF Nack, TInv, QueueOK, Rests
<1>5. QED
  BY <1>3, <1>4

LEMMA TypeDie ==
  ASSUME TInv, NEW w \in Workers, Die(w)
  PROVE  TInv' /\ Rests(w)
<1>0. w \in Procs /\ run[w].file \in Files
  BY HasFile DEF Procs, Die
<1>1. Rests(w)
  BY <1>0, IdleRests DEF Die
<1>2. QED
  BY <1>0, <1>1, FaultCounts DEF Die, TInv, RowsOK, QueueOK, RestOK, Rests, rows

LEMMA TypeStall ==
  ASSUME TInv, NEW f \in Files, Stall(f)
  PROVE  /\ TInv' /\ UNCHANGED run
         /\ \A g \in Files \ {f} : bull'[g] = bull[g] /\ handler'[g] = handler[g]
         /\ \/ bull'[f].state = "waiting" /\ handler'[f] = handler[f]
            \/ bull'[f].state = "failed" /\ handler'[f] = "job"
<1>0. faults' \in 0..MaxFaults
  BY FaultCounts DEF Stall, TInv, RestOK
<1>1. RowsOK' /\ RunOK' /\ RestOK' /\ UNCHANGED run
  BY <1>0 DEF Stall, TInv, RowsOK, RunOK, RestOK, rows
<1>2. bull[f] \in BullJobs /\ bull[f].state = "active" /\ bull[f].tries < MaxTries
  BY DEF Stall, TInv, QueueOK
<1>3. CASE bull[f].stalls < MaxStalls
  <2> DEFINE b == [bull[f] EXCEPT !.state = "waiting", !.lock = None, !.stalls = bull[f].stalls + 1]
  <2>1. b \in BullJobs /\ b.state = "waiting" /\ b.lock = None /\ b.tries < MaxTries
    <3>1. bull[f].stalls + 1 \in 0..MaxStalls
      BY <1>2, <1>3, Bounds DEF BullJobs
    <3>2. QED
      BY <1>2, <3>1 DEF BullJobs
  <2>2. bull' = [bull EXCEPT ![f] = b]
    BY <1>3 DEF Stall
  <2>3. handler' = handler /\ handler' \in [Files -> {"none", "job", "tender"}]
    BY <1>3 DEF Stall, TInv, QueueOK
  <2> HIDE DEF b
  <2>4. QueueOK' /\ bull'[f] = b /\ \A g \in Files \ {f} : bull'[g] = bull[g]
    BY <2>1, <2>2, <2>3, BullMoves
  <2>5. QED
    BY <1>1, <2>1, <2>3, <2>4 DEF TInv
<1>4. CASE ~(bull[f].stalls < MaxStalls)
  <2> DEFINE b == [bull[f] EXCEPT !.state = "failed", !.lock = None]
  <2>1. b \in BullJobs /\ b.state = "failed" /\ b.lock = None
    BY <1>2 DEF BullJobs
  <2>2. bull' = [bull EXCEPT ![f] = b]
    BY <1>4 DEF Stall
  <2>3. /\ handler' \in [Files -> {"none", "job", "tender"}] /\ handler'[f] = "job"
        /\ \A g \in Files \ {f} : handler'[g] = handler[g]
    BY <1>4 DEF Stall, TInv, QueueOK
  <2> HIDE DEF b
  <2>4. QueueOK' /\ bull'[f] = b /\ \A g \in Files \ {f} : bull'[g] = bull[g]
    BY <2>1, <2>2, <2>3, BullMoves
  <2>5. QED
    BY <1>1, <2>1, <2>3, <2>4 DEF TInv
<1>5. QED
  BY <1>3, <1>4

\* Adding a job the queue does not know, or retrying one that is delayed.
LEMMA TypeWaiting ==
  ASSUME TInv, NEW f \in Files, bull[f].state \in {"none", "delayed"},
         bull' = [bull EXCEPT ![f].state = "waiting"], UNCHANGED handler
  PROVE  /\ QueueOK' /\ bull'[f].state = "waiting"
         /\ \A g \in Files \ {f} : bull'[g] = bull[g]
<1> DEFINE b == [bull[f] EXCEPT !.state = "waiting"]
<1>1. /\ bull[f] \in BullJobs /\ bull[f].lock = None /\ bull[f].tries < MaxTries
      /\ handler' \in [Files -> {"none", "job", "tender"}]
  BY DEF TInv, QueueOK
<1>2. b \in BullJobs /\ b.state = "waiting" /\ b.lock = None /\ b.tries < MaxTries
  BY <1>1 DEF BullJobs
<1>3. bull' = [bull EXCEPT ![f] = b]
  OBVIOUS
<1> HIDE DEF b
<1>4. QED
  BY <1>1, <1>2, <1>3, BullMoves

LEMMA TypeRetry ==
  ASSUME TInv, NEW f \in Files, Retry(f)
  PROVE  /\ TInv' /\ UNCHANGED run /\ bull'[f].state = "waiting"
         /\ \A g \in Files \ {f} : bull'[g] = bull[g]
<1>1. /\ QueueOK' /\ bull'[f].state = "waiting"
      /\ \A g \in Files \ {f} : bull'[g] = bull[g]
  BY TypeWaiting DEF Retry
<1>2. QED
  BY <1>1 DEF Retry, TInv, RowsOK, RunOK, RestOK, rows, limits, history

LEMMA TypeFailed ==
  ASSUME TInv, NEW f \in Files, OnFailed(f) \/ OnFailedLost(f)
  PROVE  TInv' /\ UNCHANGED run
<1>1. CASE OnFailed(f)
  BY <1>1 DEF OnFailed, TInv, RowsOK, RunOK, QueueOK, RestOK, UpdateJob, Active, Settled, limits,
              history
<1>2. CASE OnFailedLost(f)
  BY <1>2, FaultCounts DEF OnFailedLost, TInv, RowsOK, RunOK, QueueOK, RestOK, rows
<1>3. QED
  BY <1>1, <1>2

LEMMA TypeQueues == TInv /\ Queues => TInv'
  BY TypeTake, TypeAck, TypeNack, TypeDie, TypeStall, TypeRetry, TypeFailed DEF Queues

\* A chat goes on, starts or comes to rest.
LEMMA TypeChat ==
  ASSUME TInv, NEW c \in Chats, Chat(c)
  PROVE  TInv'
<1> DEFINE f == run[c].file
<1>0. c \in Procs /\ StepsOf(c) = ChatSteps
  BY Bounds DEF Procs, StepsOf
<1>1. run[c] \in RunStates /\ f \in Files /\ run[c].pc # "idle"
  <2>1. run[c].pc # "idle"
    BY DEF Chat, CountChunks, CreateChunkSafe, PersistExtract, WeighTender, SettleTender
  <2>2. QED
    BY <1>0, <2>1, HasFile
<1>2. ASSUME NEW pc \in ChatSteps \ {"idle"}, Go(c, pc)
      PROVE  RunOK'
  BY <1>0, <1>1, <1>2, GoMoves DEF Moves
<1>3. ASSUME run' = [run EXCEPT ![c] = Idle]
      PROVE  RunOK'
  BY <1>0, <1>3, IdleRests DEF Rests
<1>4. CASE CountChunks(c)
  <2>1. PICK pc \in {"pending", "weigh", "fill", "have"} : Go(c, pc)
    BY <1>4 DEF CountChunks
  <2>2. RunOK'
    BY <1>2, <2>1 DEF ChatSteps
  <2>3. QED
    BY <1>4, <2>2 DEF CountChunks, TInv, RowsOK, QueueOK, RestOK, rows, limits, history
<1>5. CASE CreateChunkSafe(c)
  <2>0. run[c].part \in 1..Parts /\ run[c].pc \in {"fill", "put"}
    BY <1>1, <1>5 DEF RunStates, CreateChunkSafe
  <2>1. RunOK'
    <3>1. CASE run' = [run EXCEPT ![c].part = run[c].part + 1] /\ run[c].part # Parts
      <4>1. run[c].part + 1 \in 1..Parts
        BY <2>0, <3>1, Bounds
      <4>2. QED
        BY <1>0, <1>1, <3>1, <4>1, PartMoves DEF Moves
    <3>2. ASSUME NEW pc \in {"pending", "weigh"},
                 run' = [run EXCEPT ![c].pc = pc, ![c].part = 1]
          PROVE  RunOK'
      BY <1>1, <3>2, AnewMoves DEF Moves
    <3>3. QED
      BY <1>5, <3>1, <3>2 DEF CreateChunkSafe
  <2>2. RowsOK'
    BY <1>1, <1>5, <2>0 DEF CreateChunkSafe, TInv, RowsOK
  <2>3. QED
    BY <1>5, <2>1, <2>2 DEF CreateChunkSafe, TInv, QueueOK, RestOK, limits, history
<1>6. CASE PersistExtract(c)
  <2>1. PICK pc \in {"wipe", "save", "weigh", "put"} : Go(c, pc)
    BY <1>6 DEF PersistExtract
  <2>2. RunOK'
    BY <1>2, <2>1 DEF ChatSteps
  <2>3. RowsOK'
    BY <1>1, <1>6 DEF PersistExtract, TInv, RowsOK
  <2>4. overlap' \subseteq Files
    BY <1>1, <1>6 DEF PersistExtract, TInv, RestOK
  <2>5. QED
    BY <1>6, <2>2, <2>3, <2>4 DEF PersistExtract, TInv, QueueOK, RestOK, limits
<1>7. CASE WeighTender(c)
  <2>1. RunOK'
    BY <1>2, <1>3, <1>7 DEF WeighTender, ChatSteps
  <2>2. QED
    BY <1>7, <2>1 DEF WeighTender, TInv, RowsOK, QueueOK, RestOK, rows, limits, history
<1>8. CASE SettleTender(c)
  <2>1. RunOK'
    BY <1>3, <1>8 DEF SettleTender
  <2>2. QED
    BY <1>8, <2>1 DEF SettleTender, TInv, RowsOK, QueueOK, RestOK, Settled, limits, history
<1>9. QED
  BY <1>4, <1>5, <1>6, <1>7, <1>8 DEF Chat

LEMMA TypePrepare ==
  ASSUME TInv, NEW c \in Chats, NEW f \in Files, Prepare(c, f)
  PROVE  TInv' /\ \E pc \in {"count", "pending"} : Starts(c, f, pc)
<1>0. c \in Procs /\ {"count", "pending"} \subseteq StepsOf(c)
  BY Bounds DEF Procs, StepsOf, ChatSteps
<1>1. PICK pc \in {"count", "pending"} : Begins(c, f, pc)
  BY DEF Prepare
<1>2. Starts(c, f, pc)
  BY <1>0, <1>1, BeginsStarts
<1>3. RestOK'
  BY <1>1, Bounds DEF Prepare, Begins, TInv, RestOK
<1>4. QED
  BY <1>2, <1>3 DEF Prepare, TInv, RowsOK, QueueOK, Starts, rows

LEMMA TypePrepareFails ==
  ASSUME TInv, NEW c \in Chats, PrepareFails(c)
  PROVE  TInv'
<1> DEFINE f == run[c].file
<1>0. c \in Procs /\ StepsOf(c) = ChatSteps /\ run[c] \in RunStates /\ f \in Files
  BY Bounds, HasFile DEF Procs, StepsOf, PrepareFails
<1>1. RunOK'
  <2>1. CASE run[c].pc \in {"count", "fill"}
    <3>1. run' = [run EXCEPT ![c].pc = "pending", ![c].part = 1]
      BY <2>1 DEF PrepareFails
    <3>2. QED
      BY <2>1, <3>1, AnewMoves DEF Moves
  <2>2. CASE run[c].pc \in {"pending", "have", "save", "wipe", "put"}
    <3>1. Go(c, "weigh")
      BY <2>2 DEF PrepareFails, Go
    <3>2. "weigh" \in StepsOf(c) /\ run[c].pc # "idle"
      BY <1>0, <2>2 DEF ChatSteps
    <3>3. QED
      BY <1>0, <3>1, <3>2, GoMoves DEF Moves
  <2>3. CASE run[c].pc \notin {"count", "fill", "pending", "have", "save", "wipe", "put"}
    <3>1. run' = [run EXCEPT ![c] = Idle]
      BY <2>3 DEF PrepareFails
    <3>2. QED
      BY <1>0, <3>1, IdleRests DEF Rests
  <2>4. QED
    BY <2>1, <2>2, <2>3
<1>2. RestOK'
  BY <1>0, FaultCounts DEF PrepareFails, TInv, RestOK
<1>3. QED
  BY <1>1, <1>2 DEF PrepareFails, TInv, RowsOK, QueueOK, rows

LEMMA TypeRequests ==
  ASSUME TInv, NEW f \in Files, Upload(f) \/ UploadDies(f) \/ Request(f) \/ StartDelete(f)
  PROVE  TInv' /\ UNCHANGED run
<1>1. CASE Upload(f)
  BY <1>1 DEF Upload, TInv, RowsOK, QueueOK, RunOK, RestOK, limits, history
<1>2. CASE UploadDies(f)
  BY <1>2, FaultCounts DEF UploadDies, TInv, RowsOK, QueueOK, RunOK, RestOK, history
<1>3. CASE CreateProcessingJob(f)
  BY <1>3 DEF CreateProcessingJob, TInv, RowsOK, QueueOK, RunOK, RestOK, UpdateJob, Active, Settled,
              limits, history
<1>4. CASE Enqueue(f)
  <2>1. QueueOK'
    <3>1. CASE bull[f].state = "none"
      BY <1>4, <3>1, TypeWaiting DEF Enqueue, AddBull
    <3>2. CASE bull[f].state # "none"
      BY <1>4, <3>2 DEF Enqueue, AddBull, TInv, QueueOK
    <3>3. QED
      BY <3>1, <3>2
  <2>2. QED
    BY <1>4, <2>1 DEF Enqueue, TInv, RowsOK, RunOK, RestOK, limits, history
<1>7. CASE DeleteObject(f)
  BY <1>7 DEF DeleteObject, TInv, RowsOK, QueueOK, RunOK, RestOK, limits, history
<1>8. CASE DeleteRow(f)
  BY <1>8 DEF DeleteRow, TInv, RowsOK, QueueOK, RunOK, RestOK, UpdateJob, limits, history
<1>10. CASE StartDelete(f)
  BY <1>10, Bounds DEF StartDelete, TInv, RowsOK, QueueOK, RunOK, RestOK, rows, history
<1>11. QED
  BY <1>1, <1>2, <1>3, <1>4, <1>7, <1>8, <1>10 DEF Request

-----------------------------------------------------------------------------
(* The requests for the list. *)

Listings(l) == LookAtJobs(l) \/ List(l) \/ ListFails(l)

\* One request moves.
LEMMA ListMoves ==
  ASSUME TInv, NEW l \in Lists, NEW s \in ListStates, look' = [look EXCEPT ![l] = s],
         s.pc = "add" => s.file \in s.left
  PROVE  /\ look'[l] = s /\ \A m \in Lists \ {l} : look'[m] = look[m]
         /\ look' \in [Lists -> ListStates]
         /\ \A m \in Lists : look'[m].pc = "add" => look'[m].file \in look'[m].left
<1>1. /\ look'[l] = s /\ \A m \in Lists \ {l} : look'[m] = look[m]
      /\ look' \in [Lists -> ListStates]
  BY DEF TInv, RestOK
<1>2. QED
  BY <1>1 DEF TInv, RestOK

\* It goes on with fewer documents, or ends.
LEMMA WalkMoves ==
  ASSUME TInv, NEW l \in Lists, NEW left \in SUBSET Files, Walk(l, left)
  PROVE  /\ look'[l].left = left /\ look'[l].have \in {look[l].have, {}}
         /\ \A m \in Lists \ {l} : look'[m] = look[m]
         /\ look' \in [Lists -> ListStates]
         /\ \A m \in Lists : look'[m].pc = "add" => look'[m].file \in look'[m].left
<1>0. look[l] \in ListStates
  BY DEF TInv, RestOK
<1> DEFINE s == IF left = {} THEN NoList ELSE [look[l] EXCEPT !.pc = "walk", !.left = left]
<1>1. /\ s \in ListStates /\ s.left = left /\ s.have \in {look[l].have, {}} /\ s.pc # "add"
  <2>1. CASE left = {}
    BY <2>1 DEF NoList, ListStates
  <2>2. CASE left # {}
    BY <1>0, <2>2 DEF ListStates
  <2>3. QED
    BY <2>1, <2>2
<1>2. look' = [look EXCEPT ![l] = s]
  BY DEF Walk
<1> HIDE DEF s
<1>3. QED
  BY <1>1, <1>2, ListMoves

\* It is over.
LEMMA ListEnds ==
  ASSUME TInv, NEW l \in Lists, look' = [look EXCEPT ![l] = NoList]
  PROVE  /\ look'[l].left = {} /\ look'[l].have = {}
         /\ \A m \in Lists \ {l} : look'[m] = look[m]
         /\ look' \in [Lists -> ListStates]
         /\ \A m \in Lists : look'[m].pc = "add" => look'[m].file \in look'[m].left
<1>1. /\ NoList \in ListStates /\ NoList.pc # "add" /\ NoList.left = {} /\ NoList.have = {}
  BY DEF NoList, ListStates
<1>2. QED
  BY <1>1, ListMoves

\* It goes through the documents of its one read only, and knows of an extract
\* only where there is one.
ListReads(l) ==
  /\ \A m \in Lists \ {l} : look'[m] = look[m]
  /\ look' \in [Lists -> ListStates]
  /\ \A m \in Lists : look'[m].pc = "add" => look'[m].file \in look'[m].left
  /\ \A f \in Files : /\ f \in look'[l].left =>
                           f \in look[l].left \cup look[l].have \/ job[f] \in Active
                      /\ f \in look'[l].have =>
                           f \in look[l].have \/ (f \in look[l].left /\ extracts[f] > 0)

\* What it does to a document.
ListWrites(l, f) ==
  \/ job'[f] = job[f] /\ bull'[f] = bull[f] /\ (f \in looked' <=> f \in looked)
  \/ /\ job'[f] = job[f] /\ bull'[f] = bull[f] /\ f \in looked'
     /\ InQueue(f) /\ f \in look[l].left
  \/ /\ job[f] # "none" /\ job'[f] = "COMPLETED" /\ bull'[f] = bull[f] /\ f \in looked'
     /\ f \in look[l].left /\ f \in look[l].have
  \/ /\ job[f] # "none" /\ job'[f] = "QUEUED" /\ bull'[f] = bull[f]
     /\ (f \in looked' <=> f \in looked) /\ f \in look[l].left
     /\ bull[f].state # "none" => f \in adrift'
  \/ /\ job'[f] = job[f] /\ f \in looked' /\ bull'[f].state = "waiting"
     /\ bull[f].state = "none" /\ bull'[f].lock = bull[f].lock
     /\ look[l].pc = "add" /\ look[l].file = f
  \/ /\ job'[f] = job[f] /\ f \in looked' /\ bull'[f] = bull[f] /\ bull[f].state # "none"
     /\ look[l].pc = "add" /\ look[l].file = f

LEMMA TypeLists ==
  ASSUME TInv, NEW l \in Lists, Listings(l)
  PROVE  /\ TInv' /\ ListReads(l) /\ (\A f \in Files : ListWrites(l, f))
         /\ adrift \subseteq adrift'
         /\ UNCHANGED <<upload, handler, run, deletion, hash, extracts, chunks, torn, overlap>>
<1>0. look[l] \in ListStates /\ look[l].left \subseteq Files /\ look[l].have \subseteq Files
  BY DEF TInv, RestOK, ListStates
<1> DEFINE Goal ==
      /\ TInv' /\ ListReads(l) /\ (\A f \in Files : ListWrites(l, f))
      /\ adrift \subseteq adrift'
      /\ UNCHANGED <<upload, handler, run, deletion, hash, extracts, chunks, torn, overlap>>
<1>1. ASSUME LookAtJobs(l) PROVE Goal
  <2> DEFINE s == [look[l] EXCEPT !.pc = "extracts", !.left = {f \in Files : job[f] \in Active}]
  <2>1. /\ s \in ListStates /\ s.pc = "extracts" /\ s.left = {f \in Files : job[f] \in Active}
        /\ s.have = look[l].have
    BY <1>0 DEF ListStates
  <2>2. look' = [look EXCEPT ![l] = s]
    BY <1>1 DEF LookAtJobs
  <2> HIDE DEF s
  <2>3. ListReads(l)
    BY <2>1, <2>2, ListMoves DEF ListReads
  <2>4. TInv'
    BY <1>1, <2>3 DEF LookAtJobs, ListReads, TInv, RowsOK, QueueOK, RunOK, RestOK, rows, limits,
                      history
  <2>5. \A f \in Files : ListWrites(l, f)
    BY <1>1 DEF LookAtJobs, ListWrites, rows, limits
  <2>6. QED
    BY <1>1, <2>3, <2>4, <2>5 DEF LookAtJobs, rows, history
<1>2. ASSUME LookAtExtracts(l) PROVE Goal
  <2> DEFINE s == [look[l] EXCEPT !.pc = "queue",
                                  !.have = {f \in look[l].left : extracts[f] > 0}]
  <2>1. /\ s \in ListStates /\ s.pc = "queue" /\ s.left = look[l].left
        /\ s.have = {f \in look[l].left : extracts[f] > 0}
    BY <1>0 DEF ListStates
  <2>2. look' = [look EXCEPT ![l] = s]
    BY <1>2 DEF LookAtExtracts
  <2> HIDE DEF s
  <2>3. ListReads(l)
    BY <2>1, <2>2, ListMoves DEF ListReads
  <2>4. TInv'
    BY <1>2, <2>3 DEF LookAtExtracts, ListReads, TInv, RowsOK, QueueOK, RunOK, RestOK, rows, limits,
                      history
  <2>5. \A f \in Files : ListWrites(l, f)
    BY <1>2 DEF LookAtExtracts, ListWrites, rows, limits
  <2>6. QED
    BY <1>2, <2>3, <2>4, <2>5 DEF LookAtExtracts, rows, history
<1>3. ASSUME LookAtQueue(l) PROVE Goal
  <2>1. PICK left \in SUBSET Files : /\ left = look[l].have \cup {f \in look[l].left : ~InQueue(f)}
                                     /\ Walk(l, left) /\ looked' = looked \cup (look[l].left \ left)
    BY <1>0, <1>3 DEF LookAtQueue
  <2>2. ListReads(l)
    BY <2>1, WalkMoves DEF ListReads
  <2>3. looked' \subseteq Files
    BY <1>0, <2>1 DEF TInv, RestOK
  <2>4. TInv'
    BY <1>3, <2>2, <2>3 DEF LookAtQueue, ListReads, TInv, RowsOK, QueueOK, RunOK, RestOK, rows,
                            history
  <2>5. \A f \in Files : ListWrites(l, f)
    BY <1>3, <2>1 DEF LookAtQueue, ListWrites, rows
  <2>6. QED
    BY <1>3, <2>2, <2>4, <2>5 DEF LookAtQueue, rows, history
<1>4. ASSUME ReconcileJob(l) PROVE Goal
  <2>0. /\ look[l].pc = "walk"
        /\ UNCHANGED <<upload, object, tender, hash, extracts, chunks, insights, bull, handler, run,
                       deletion, faults, prepared, deletes, torn, overlap>>
    BY <1>4 DEF ReconcileJob
  <2>1. PICK f \in look[l].left :
       \/ /\ job[f] = "none"
          /\ look' = [look EXCEPT ![l] = NoList]
          /\ UNCHANGED <<job, looked, adrift>>
       \/ /\ job[f] # "none" /\ f \in look[l].have
          /\ UpdateJob(f, "COMPLETED") /\ looked' = looked \cup {f}
          /\ Walk(l, look[l].left \ {f})
          /\ UNCHANGED adrift
       \/ /\ job[f] # "none" /\ f \notin look[l].have
          /\ UpdateJob(f, "QUEUED")
          /\ look' = [look EXCEPT ![l].pc = "add", ![l].file = f]
          /\ adrift' = IF bull[f].state = "none" THEN adrift ELSE adrift \cup {f}
          /\ UNCHANGED looked
    BY <1>4 DEF ReconcileJob
  <2>f. f \in Files
    BY <1>0
  <2>2. ASSUME job' \in [Files -> {"none"} \cup Active \cup Settled],
               looked' \subseteq Files, adrift' \subseteq Files,
               adrift \subseteq adrift', ListReads(l), \A g \in Files : ListWrites(l, g)
        PROVE  Goal
    <3>1. RowsOK'
      BY <2>0, <2>2 DEF TInv, RowsOK
    <3>2. RestOK'
      BY <2>0, <2>2 DEF ListReads, TInv, RestOK
    <3>3. QueueOK' /\ RunOK'
      BY <2>0 DEF TInv, QueueOK, RunOK
    <3>4. QED
      BY <2>0, <2>2, <3>1, <3>2, <3>3 DEF TInv
  <2>3. CASE /\ job[f] = "none"
             /\ look' = [look EXCEPT ![l] = NoList]
             /\ UNCHANGED <<job, looked, adrift>>
    <3>1. ListReads(l)
      BY <2>3, ListEnds DEF ListReads
    <3>2. \A g \in Files : ListWrites(l, g)
      BY <2>0, <2>3 DEF ListWrites
    <3>3. QED
      BY <2>2, <2>3, <3>1, <3>2 DEF TInv, RowsOK, RestOK
  <2>4. CASE /\ job[f] # "none" /\ f \in look[l].have
             /\ UpdateJob(f, "COMPLETED") /\ looked' = looked \cup {f}
             /\ Walk(l, look[l].left \ {f})
             /\ UNCHANGED adrift
    <3>1. PICK left \in SUBSET Files : left = look[l].left \ {f} /\ Walk(l, left)
      BY <1>0, <2>4
    <3>2. ListReads(l)
      BY <3>1, WalkMoves DEF ListReads
    <3>3. /\ job'[f] = "COMPLETED" /\ \A g \in Files \ {f} : job'[g] = job[g]
          /\ job' \in [Files -> {"none"} \cup Active \cup Settled]
      BY <2>f, <2>4 DEF UpdateJob, TInv, RowsOK, Settled
    <3>4. \A g \in Files : ListWrites(l, g)
      <4>1. ListWrites(l, f)
        BY <2>0, <2>4, <3>3 DEF ListWrites
      <4>2. \A g \in Files \ {f} : ListWrites(l, g)
        BY <2>0, <2>4, <3>3 DEF ListWrites
      <4>3. QED
        BY <4>1, <4>2
    <3>5. looked' \subseteq Files /\ adrift' = adrift /\ adrift \subseteq Files
      BY <2>f, <2>4 DEF TInv, RestOK
    <3>6. QED
      BY <2>2, <3>2, <3>3, <3>4, <3>5
  <2>5. CASE /\ job[f] # "none" /\ f \notin look[l].have
             /\ UpdateJob(f, "QUEUED")
             /\ look' = [look EXCEPT ![l].pc = "add", ![l].file = f]
             /\ adrift' = IF bull[f].state = "none" THEN adrift ELSE adrift \cup {f}
             /\ UNCHANGED looked
    <3> DEFINE s == [look[l] EXCEPT !.pc = "add", !.file = f]
    <3>1. /\ s \in ListStates /\ s.pc = "add" /\ s.left = look[l].left /\ s.have = look[l].have
          /\ s.file = f
      BY <1>0, <2>f DEF ListStates
    <3>2. look' = [look EXCEPT ![l] = s]
      BY <2>5
    <3> HIDE DEF s
    <3>3. ListReads(l)
      BY <2>f, <3>1, <3>2, ListMoves DEF ListReads
    <3>4. /\ job'[f] = "QUEUED" /\ \A g \in Files \ {f} : job'[g] = job[g]
          /\ job' \in [Files -> {"none"} \cup Active \cup Settled]
      BY <2>f, <2>5 DEF UpdateJob, TInv, RowsOK, Active
    <3>5. /\ adrift \subseteq adrift' /\ adrift' \subseteq Files /\ looked' \subseteq Files
          /\ bull[f].state # "none" => f \in adrift'
      BY <2>f, <2>5 DEF TInv, RestOK
    <3>6. \A g \in Files : ListWrites(l, g)
      <4>1. ListWrites(l, f)
        BY <2>0, <2>5, <3>4, <3>5 DEF ListWrites
      <4>2. \A g \in Files \ {f} : ListWrites(l, g)
        BY <2>0, <2>5, <3>4 DEF ListWrites
      <4>3. QED
        BY <4>1, <4>2
    <3>7. QED
      BY <2>2, <3>3, <3>4, <3>5, <3>6
  <2>6. QED
    BY <2>1, <2>3, <2>4, <2>5
<1>5. ASSUME QueueAgain(l) PROVE Goal
  <2>1. PICK f \in Files : f = look[l].file
    BY <1>0, <1>5 DEF QueueAgain, TInv, RestOK
  <2>2. /\ look[l].pc = "add" /\ AddBull(f) /\ looked' = looked \cup {f}
        /\ Walk(l, look[l].left \ {f})
        /\ UNCHANGED <<rows, handler, run, deletion, faults, prepared, deletes, history>>
    BY <1>5, <2>1 DEF QueueAgain
  <2>3. PICK left \in SUBSET Files : left = look[l].left \ {f} /\ Walk(l, left)
    BY <1>0, <2>2
  <2>4. ListReads(l)
    BY <2>3, WalkMoves DEF ListReads
  <2>5. /\ QueueOK' /\ \A g \in Files \ {f} : bull'[g] = bull[g]
        /\ \/ bull[f].state = "none" /\ bull'[f].state = "waiting" /\ bull'[f].lock = bull[f].lock
           \/ bull[f].state # "none" /\ bull'[f] = bull[f]
    <3>1. CASE bull[f].state = "none"
      <4>1. bull' = [bull EXCEPT ![f].state = "waiting"]
        BY <2>2, <3>1 DEF AddBull
      <4>2. bull[f] \in BullJobs
        BY DEF TInv, QueueOK
      <4>3. /\ \A g \in Files \ {f} : bull'[g] = bull[g]
            /\ bull'[f].state = "waiting" /\ bull'[f].lock = bull[f].lock
        BY <4>1, <4>2 DEF TInv, QueueOK, BullJobs
      <4>4. QueueOK'
        BY <2>2, <3>1, <4>1, TypeWaiting
      <4>5. QED
        BY <3>1, <4>3, <4>4
    <3>2. CASE bull[f].state # "none"
      BY <2>2, <3>2 DEF AddBull, TInv, QueueOK
    <3>3. QED
      BY <3>1, <3>2
  <2>6. \A g \in Files : ListWrites(l, g)
    <3>1. ListWrites(l, f)
      BY <2>1, <2>2, <2>5 DEF ListWrites, rows
    <3>2. \A g \in Files \ {f} : ListWrites(l, g)
      BY <2>2, <2>5 DEF ListWrites, rows
    <3>3. QED
      BY <3>1, <3>2
  <2>7. looked' \subseteq Files
    BY <2>2 DEF TInv, RestOK
  <2>8. TInv'
    BY <2>2, <2>4, <2>5, <2>7 DEF ListReads, TInv, RowsOK, RunOK, RestOK, rows, history
  <2>9. QED
    BY <2>2, <2>4, <2>6, <2>8 DEF rows, history
<1>6. ASSUME ListFails(l) PROVE Goal
  <2>1. ListReads(l)
    BY <1>6, ListEnds DEF ListFails, ListReads
  <2>2. faults' \in 0..MaxFaults
    BY <1>6, FaultCounts DEF ListFails
  <2>3. TInv'
    BY <1>6, <2>1, <2>2 DEF ListFails, ListReads, TInv, RowsOK, QueueOK, RunOK, RestOK, rows, history
  <2>4. \A f \in Files : ListWrites(l, f)
    BY <1>6 DEF ListFails, ListWrites, rows
  <2>5. QED
    BY <1>6, <2>1, <2>3, <2>4 DEF ListFails, rows, history
<1>7. QED
  BY <1>1, <1>2, <1>3, <1>4, <1>5, <1>6 DEF Listings, List

LEMMA TypeStutter == TInv /\ UNCHANGED vars => TInv'
  BY DEF TInv, RowsOK, QueueOK, RunOK, RestOK, vars, rows, limits, history

LEMMA TypeNext == TInv /\ [Next]_vars => TInv'
<1> SUFFICES ASSUME TInv, [Next]_vars PROVE TInv'
  OBVIOUS
<1>1. CASE \E f \in Files : Upload(f) \/ UploadDies(f) \/ Request(f) \/ StartDelete(f)
  BY <1>1, TypeRequests
<1>2. CASE Queues
  BY <1>2, TypeQueues
<1>3. CASE \E w \in Workers : Processes(w)
  BY <1>3, TypeProcesses
<1>4. CASE \E c \in Chats : Chat(c) \/ PrepareFails(c) \/ \E f \in Files : Prepare(c, f)
  BY <1>4, TypeChat, TypePrepareFails, TypePrepare
<1>5. CASE UNCHANGED vars
  BY <1>5, TypeStutter
<1>6. CASE \E l \in Lists : Listings(l)
  BY <1>6, TypeLists
<1>7. QED
  BY <1>1, <1>2, <1>3, <1>4, <1>5, <1>6 DEF Next, Queue, Queues, Work, Processes, Listings

\* Every reachable state is of the right type: a BullMQ job has a lock exactly
\* while it is active, and is never tried more often than the options allow.
THEOREM TypeCorrect == Spec => []TypeOK
<1>1. TInv => TypeOK
  BY DEF TInv, RowsOK, QueueOK, RunOK, RestOK, TypeOK, Procs
<1>2. Spec => []TInv
  BY TypeInit, TypeNext, PTL DEF Spec
<1>3. QED
  BY <1>1, <1>2, PTL

-----------------------------------------------------------------------------
(* Who takes care of a job. *)

\* Without a collision one process at most has a document, and the lock of its
\* BullMQ job if it is a worker.
Alone(f) ==
  f \notin overlap =>
    /\ \A p, q \in Procs : run[p].file = f /\ run[q].file = f => p = q
    /\ \A w \in Workers : run[w].file = f => bull[f].lock = w

\* What cannot have happened before the upload has come that far, or BullMQ
\* knows the job.
Early(f) ==
  /\ upload[f] \in {"none", "filed"} =>
       /\ job[f] = "none" /\ f \notin looked /\ bull[f].state = "none"
       /\ \A l \in Lists : f \notin look[l].left \cup look[l].have
  /\ upload[f] = "done" => bull[f].state # "none"
  /\ bull[f].state = "none" => \A w \in Workers : run[w].file # f

\* Only a collision extracts a document whose job BullMQ never knew, so the
\* list goes through no such document without queueing it.
Seen(f) ==
  (bull[f].state = "none" /\ f \notin overlap) =>
    /\ f \notin looked /\ extracts[f] = 0 /\ \A l \in Lists : f \notin look[l].have

\* A worker that is about to end has completed the job.
Decided(f) ==
  f \notin overlap \cup adrift =>
    \A w \in Workers : run[w].file = f /\ run[w].pc \in {"tender", "done"} => job[f] \notin Active

\* A job that is not over and that BullMQ knows is in its hands or the
\* handler's.
Cared(f) ==
  (job[f] \in Active /\ f \notin overlap \cup adrift /\ bull[f].state # "none") =>
    InQueue(f) \/ handler[f] = "job"

JFile(f) == Alone(f) /\ Early(f) /\ Seen(f) /\ Decided(f) /\ Cared(f)
JInv == \A f \in Files : JFile(f)

LEMMA JInit == Init => JInv
  BY Bounds DEF Init, JInv, JFile, Alone, Early, Seen, Decided, Cared, Procs, Idle, NewBull, NoList,
                Active

\* A step that leaves what JFile is about as it is, except that a process may
\* go on or leave.
LEMMA JFrame ==
  ASSUME NEW f \in Files, JFile(f),
         upload'[f] = upload[f], job'[f] = job[f], look' = look, bull'[f] = bull[f],
         handler'[f] = handler[f], f \in looked' <=> f \in looked,
         extracts'[f] = extracts[f] \/ bull[f].state # "none" \/ f \in overlap',
         f \in overlap => f \in overlap', f \in adrift => f \in adrift',
         \A p \in Procs : run'[p].file = f =>
           run[p].file = f /\ (run'[p].pc \in {"tender", "done"} => run[p].pc \in {"tender", "done"})
  PROVE  JFile(f)'
<1>0. Workers \subseteq Procs
  BY DEF Procs
<1>1. Alone(f)'
  BY <1>0 DEF JFile, Alone, Procs
<1>2. Early(f)'
  BY <1>0 DEF JFile, Early
<1>3. Seen(f)'
  BY DEF JFile, Seen
<1>4. Decided(f)'
  BY <1>0 DEF JFile, Decided
<1>5. Cared(f)'
  BY DEF JFile, Cared, InQueue
<1>6. QED
  BY <1>1, <1>2, <1>3, <1>4, <1>5 DEF JFile

\* Requests: no process moves.
LEMMA JUpload ==
  ASSUME TInv, JInv, NEW f \in Files,
         Upload(f) \/ CreateProcessingJob(f) \/ Enqueue(f) \/ UploadDies(f)
  PROVE  JInv'
<1>0. UNCHANGED <<run, look, handler, looked, extracts, overlap, adrift>>
  BY DEF Upload, CreateProcessingJob, Enqueue, UploadDies, limits, history
<1>1. ASSUME NEW g \in Files, g # f PROVE JFile(g)'
  <2>1. upload'[g] = upload[g] /\ job'[g] = job[g] /\ bull'[g] = bull[g]
    BY <1>1 DEF Upload, CreateProcessingJob, Enqueue, UploadDies, UpdateJob, AddBull, TInv, RowsOK,
                QueueOK
  <2>2. QED
    BY <1>0, <2>1, JFrame DEF JInv
<1>2. JFile(f)
  BY DEF JInv
<1>3. /\ \/ job'[f] = job[f]
         \/ upload[f] = "filed" /\ job'[f] = "QUEUED" /\ UNCHANGED bull
      /\ \/ upload[f] = "none" /\ upload'[f] = "filed" /\ UNCHANGED bull
         \/ upload'[f] \in {"listed", "marked", "died"} /\ UNCHANGED bull
         \/ upload'[f] = "done"
  BY DEF Upload, CreateProcessingJob, Enqueue, UploadDies, UpdateJob, TInv, RowsOK
<1>4. \/ bull'[f] = bull[f] /\ (Enqueue(f) => bull[f].state # "none")
      \/ Enqueue(f) /\ bull'[f].state = "waiting" /\ bull[f].state = "none"
  <2>1. CASE Enqueue(f) /\ bull[f].state = "none"
    BY <2>1, TypeWaiting DEF Enqueue, AddBull
  <2>2. CASE ~(Enqueue(f) /\ bull[f].state = "none")
    BY <2>2 DEF Upload, CreateProcessingJob, Enqueue, UploadDies, AddBull
  <2>3. QED
    BY <2>1, <2>2
<1>5. upload'[f] = "done" => Enqueue(f)
  BY DEF Upload, CreateProcessingJob, Enqueue, UploadDies, TInv, RowsOK
<1>6. Alone(f)'
  BY <1>0, <1>2, <1>4 DEF JFile, Alone, Early
<1>7. Early(f)'
  BY <1>0, <1>2, <1>3, <1>4, <1>5 DEF JFile, Early
<1>8. Seen(f)'
  BY <1>0, <1>2, <1>4 DEF JFile, Seen
<1>9. Decided(f)'
  BY <1>0, <1>2, <1>3 DEF JFile, Early, Decided
<1>10. Cared(f)'
  BY <1>0, <1>2, <1>3, <1>4 DEF JFile, Early, Cared, InQueue
<1>11. QED
  BY <1>1, <1>6, <1>7, <1>8, <1>9, <1>10 DEF JInv, JFile

\* The list: a reset leaves a job that BullMQ does not know to the next
\* request, and is named otherwise.
LEMMA JList ==
  ASSUME TInv, JInv, NEW l \in Lists, Listings(l)
  PROVE  JInv'
<1>1. /\ ListReads(l) /\ adrift \subseteq adrift'
      /\ UNCHANGED <<upload, handler, run, extracts, overlap>>
  BY TypeLists
<1>2. ASSUME NEW f \in Files PROVE JFile(f)'
  <2>1. JFile(f) /\ ListWrites(l, f)
    BY TypeLists DEF JInv
  <2>2. /\ look[l].pc = "add" => look[l].file \in look[l].left
        /\ f \in adrift => f \in adrift'
    BY <1>1 DEF TInv, RestOK
  <2>3. Alone(f)'
    BY <1>1, <2>1 DEF ListWrites, JFile, Alone, Early
  <2>4. Early(f)'
    <3>1. upload[f] \in {"none", "filed"} =>
            /\ job'[f] = "none" /\ f \notin looked' /\ bull'[f].state = "none"
      BY <2>1, <2>2 DEF ListWrites, JFile, Early, InQueue
    <3>2. upload[f] \in {"none", "filed"} =>
            \A m \in Lists : f \notin look'[m].left \cup look'[m].have
      BY <1>1, <2>1 DEF ListReads, JFile, Early, Active
    <3>3. bull'[f].state = "none" <=> bull[f].state = "none" /\ bull'[f] = bull[f]
      BY <2>1 DEF ListWrites
    <3>4. QED
      BY <1>1, <2>1, <3>1, <3>2, <3>3 DEF JFile, Early
  <2>5. Seen(f)'
    <3>1. SUFFICES ASSUME bull'[f].state = "none", f \notin overlap
                   PROVE  f \notin looked' /\ \A m \in Lists : f \notin look'[m].have
      BY <1>1, <2>1 DEF ListWrites, JFile, Seen
    <3>2. bull[f].state = "none" /\ f \notin looked /\ extracts[f] = 0
          /\ \A m \in Lists : f \notin look[m].have
      BY <2>1, <3>1 DEF ListWrites, JFile, Seen
    <3>3. f \notin looked'
      BY <2>1, <3>1, <3>2 DEF ListWrites, InQueue
    <3>4. \A m \in Lists : f \notin look'[m].have
      BY <1>1, <3>2 DEF ListReads
    <3>5. QED
      BY <3>3, <3>4
  <2>6. Decided(f)'
    BY <1>1, <2>1, <2>2 DEF ListWrites, JFile, Early, Decided, Active
  <2>7. Cared(f)'
    BY <1>1, <2>1, <2>2 DEF ListWrites, JFile, Cared, InQueue, Active
  <2>8. QED
    BY <2>3, <2>4, <2>5, <2>6, <2>7 DEF JFile
<1>3. QED
  BY <1>2 DEF JInv

LEMMA JDelete ==
  ASSUME TInv, JInv, NEW f \in Files, StartDelete(f) \/ DeleteObject(f) \/ DeleteRow(f)
  PROVE  JInv'
<1>0. UNCHANGED <<run, look, handler, looked, bull, overlap, adrift>>
  BY DEF StartDelete, DeleteObject, DeleteRow, limits, history
<1>1. ASSUME NEW g \in Files,
             upload'[g] = upload[g] /\ job'[g] = job[g] /\ extracts'[g] = extracts[g]
      PROVE  JFile(g)'
  BY <1>0, <1>1, JFrame DEF JInv
<1>2. CASE StartDelete(f) \/ DeleteObject(f)
  BY <1>1, <1>2 DEF StartDelete, DeleteObject, JInv, rows
<1>3. CASE DeleteRow(f)
  <2>0. /\ upload'[f] = "deleted" /\ job'[f] = "none" /\ extracts'[f] = 0
        /\ \A g \in Files \ {f} : upload'[g] = upload[g] /\ job'[g] = job[g]
                                  /\ extracts'[g] = extracts[g]
    BY <1>3 DEF DeleteRow, UpdateJob, TInv, RowsOK
  <2>1. JFile(f)'
    BY <1>0, <2>0 DEF JInv, JFile, Alone, Early, Seen, Decided, Cared, Active
  <2>2. QED
    BY <1>1, <2>0, <2>1 DEF JInv
<1>4. QED
  BY <1>2, <1>3

\* The processor: it changes a job when it begins and when it ends.
LEMMA JProcesses ==
  ASSUME TInv, JInv, NEW w \in Workers, Processes(w)
  PROVE  JInv'
<1>. PICK f \in Files \cup {None} : f = run[w].file
  BY DEF TInv, RunOK, RunStates, Procs
<1>0. /\ w \in Procs /\ run \in [Procs -> RunStates] /\ f \in Files /\ f = run[w].file
      /\ UNCHANGED <<upload, look, handler, bull, looked, adrift, overlap>>
  <2>1. run[w].pc # "idle"
    BY DEF Processes, Begin, ReadFile, WriteHash, Check, Extract, ClearChunks, CreateChunk,
           CreateInsight, Complete, Throw
  <2>2. w \in Procs /\ run \in [Procs -> RunStates] /\ f \in Files /\ f = run[w].file
    BY <2>1, HasFile DEF Procs, TInv, RunOK
  <2>3. UNCHANGED <<upload, look, handler, bull, looked, adrift, overlap>>
    BY DEF Processes, Begin, ReadFile, WriteHash, Check, Extract, ClearChunks, CreateChunk,
           CreateInsight, Complete, Throw, rows, limits, history
  <2>4. QED
    BY <2>2, <2>3
<1>1. run'[w].file = f /\ \A p \in Procs \ {w} : run'[p] = run[p]
  BY <1>0 DEF Processes, Begin, ReadFile, WriteHash, Check, Extract, ClearChunks, CreateChunk,
              CreateInsight, Complete, Throw, Go, RunStates
<1>2. ASSUME NEW g \in Files, job'[g] = job[g],
             g = f /\ run'[w].pc \in {"tender", "done"} => run[w].pc \in {"tender", "done"}
      PROVE  JFile(g)'
  <2>1. JFile(g) /\ JFile(f)
    BY <1>0 DEF JInv
  <2>2. \A p \in Procs : run'[p].file = g =>
          run[p].file = g /\ (run'[p].pc \in {"tender", "done"} => run[p].pc \in {"tender", "done"})
    BY <1>0, <1>1, <1>2
  <2>3. extracts'[g] = extracts[g] \/ bull[g].state # "none"
    <3>1. g # f => extracts'[g] = extracts[g]
      BY <1>0 DEF Processes, Begin, ReadFile, WriteHash, Check, Extract, ClearChunks, CreateChunk,
                  CreateInsight, Complete, Throw, TInv, RowsOK, rows
    <3>2. bull[f].state # "none"
      BY <1>0, <2>1 DEF JFile, Early
    <3>3. QED
      BY <3>1, <3>2
  <2>4. QED
    BY <1>0, <1>2, <2>1, <2>2, <2>3, JFrame
<1>3. CASE Begin(w) /\ run[w].pc = "begin" /\ job[f] # "none"
  <2>1. /\ run'[w].pc = "mark" /\ job'[f] = "PROCESSING"
        /\ \A g \in Files \ {f} : job'[g] = job[g]
    BY <1>0, <1>3 DEF Begin, Go, UpdateJob, TInv, RowsOK, RunStates
  <2>2. JFile(f)
    BY <1>0 DEF JInv
  <2>3. Alone(f)'
    BY <1>0, <1>1, <2>2 DEF JFile, Alone, Procs
  <2>4. Early(f)'
    BY <1>0, <1>1, <1>3, <2>1, <2>2 DEF JFile, Early
  <2>5. Decided(f)'
    BY <1>0, <1>1, <2>1, <2>2 DEF JFile, Alone, Decided, Procs
  <2>s. Seen(f)'
    BY <1>0, <1>3, <2>2 DEF Begin, JFile, Early, Seen
  <2>6. Cared(f)'
    <3>1. f \notin overlap => InQueue(f)
      BY <1>0, <2>2, Bounds DEF JFile, Alone, InQueue, TInv, QueueOK
    <3>2. QED
      BY <1>0, <3>1 DEF Cared, InQueue
  <2>7. QED
    BY <1>2, <2>1, <2>s, <2>3, <2>4, <2>5, <2>6 DEF JInv, JFile
<1>4. CASE Complete(w) /\ run[w].pc \in {"skip", "finish"} /\ job[f] # "none"
  <2>1. job'[f] = "COMPLETED" /\ \A g \in Files \ {f} : job'[g] = job[g]
    BY <1>0, <1>4 DEF Complete, UpdateJob, TInv, RowsOK
  <2>2. JFile(f)
    BY <1>0 DEF JInv
  <2>3. Alone(f)'
    BY <1>0, <1>1, <2>2 DEF JFile, Alone, Procs
  <2>4. Early(f)'
    BY <1>0, <1>1, <1>4, <2>1, <2>2 DEF JFile, Early
  <2>5. Decided(f)' /\ Cared(f)'
    BY <2>1 DEF Decided, Cared, Active
  <2>6. Seen(f)'
    BY <1>0, <2>2 DEF JFile, Early, Seen
  <2>7. QED
    BY <1>2, <2>1, <2>3, <2>4, <2>5, <2>6 DEF JInv, JFile
<1>5. CASE ~(Begin(w) /\ run[w].pc = "begin" /\ job[f] # "none")
           /\ ~(Complete(w) /\ run[w].pc \in {"skip", "finish"} /\ job[f] # "none")
  <2>1. UNCHANGED job
    BY <1>5 DEF Processes, Begin, ReadFile, WriteHash, Check, Extract, ClearChunks, CreateChunk,
                CreateInsight, Complete, Throw, rows
  <2>2. run'[w].pc \in {"tender", "done"} => run[w].pc \in {"tender", "done"}
    BY <1>0, <1>5 DEF Processes, Begin, ReadFile, WriteHash, Check, Extract, ClearChunks,
                      CreateChunk, CreateInsight, Complete, Throw, Go, RunStates
  <2>3. QED
    BY <1>2, <2>1, <2>2 DEF JInv
<1>6. QED
  BY <1>3, <1>4, <1>5

\* A worker takes a job: two on one document are a collision.
LEMMA JTake ==
  ASSUME TInv, JInv, NEW f \in Files, NEW w \in Workers, Take(w, f)
  PROVE  JInv'
<1>0. /\ UNCHANGED <<upload, job, look, handler, looked, extracts>>
      /\ overlap \subseteq overlap' /\ adrift \subseteq adrift' /\ w \in Procs
  BY DEF Take, Begins, rows, limits, Procs
<1>1. /\ Starts(w, f, "begin") /\ bull'[f].state = "active" /\ bull'[f].lock = w
      /\ \A g \in Files \ {f} : bull'[g] = bull[g]
  BY TypeTake
<1>2. ASSUME NEW g \in Files \ {f} PROVE JFile(g)'
  BY <1>0, <1>1, JFrame DEF JInv, Starts
<1>3. f \notin overlap' => \A p \in Procs : run[p].file # f
  BY DEF Take, Begins, Running, Procs
<1>4. JFile(f) /\ bull[f].state = "waiting"
  BY DEF JInv, Take
<1>5. Alone(f)'
  BY <1>0, <1>1, <1>3 DEF Alone, Starts, Procs
<1>6. Early(f)'
  BY <1>0, <1>1, <1>4 DEF JFile, Early
<1>7. Decided(f)'
  BY <1>0, <1>1, <1>3 DEF Decided, Starts, Procs
<1>8. Cared(f)' /\ Seen(f)'
  BY <1>1 DEF Cared, Seen, InQueue
<1>9. QED
  BY <1>2, <1>5, <1>6, <1>7, <1>8 DEF JInv, JFile

\* A worker ends: what it leaves behind is decided, or the handler's.
LEMMA JAck ==
  ASSUME TInv, JInv, NEW w \in Workers, Ack(w) \/ Nack(w)
  PROVE  JInv'
<1>. PICK f \in Files \cup {None} : f = run[w].file
  BY DEF TInv, RunOK, RunStates, Procs
<1>0. /\ UNCHANGED <<upload, job, look, looked, extracts, overlap, adrift>> /\ w \in Procs /\ f \in Files
      /\ f = run[w].file /\ Rests(w)
  BY TypeAck, TypeNack, HasFile DEF Ack, Nack, rows, limits, history, Procs
<1>1. ASSUME NEW g \in Files, bull'[g] = bull[g], handler'[g] = handler[g]
      PROVE  JFile(g)'
  BY <1>0, <1>1, Bounds, JFrame DEF JInv, Rests
<1>2. ASSUME bull[f].lock = w
      PROVE  /\ f \notin overlap => \A p \in Procs : run'[p].file # f
             /\ bull[f].state = "active" /\ JFile(f)
  <2>1. JFile(f) /\ bull[f].state = "active"
    BY <1>0, <1>2, Bounds DEF JInv, TInv, QueueOK
  <2>2. QED
    BY <1>0, <2>1, Bounds DEF JFile, Alone, Rests
<1>3. ASSUME bull[f].lock = w, bull'[f].state # "none",
             Ack(w) \/ handler'[f] = "job" \/ InQueue(f)'
      PROVE  JFile(f)'
  <2>0. Seen(f)'
    BY <1>3 DEF Seen
  <2>1. Alone(f)'
    BY <1>0, <1>2, <1>3 DEF Alone, Procs
  <2>2. Early(f)'
    BY <1>0, <1>2, <1>3 DEF JFile, Early
  <2>3. Decided(f)'
    BY <1>0, <1>2, <1>3 DEF Decided, Procs
  <2>4. Cared(f)'
    BY <1>0, <1>2, <1>3 DEF JFile, Decided, Cared, Ack
  <2>5. QED
    BY <2>0, <2>1, <2>2, <2>3, <2>4 DEF JFile
<1>4. CASE Ack(w)
  <2>1. \A g \in Files : \/ bull'[g] = bull[g]
                         \/ g = f /\ bull[g].lock = w /\ bull'[g].state = "completed"
    BY <1>0, <1>4, TypeAck
  <2>2. UNCHANGED handler
    BY <1>4 DEF Ack
  <2>3. QED
    BY <1>1, <1>3, <1>4, <2>1, <2>2 DEF JInv
<1>5. CASE Nack(w)
  <2>1. \A g \in Files : \/ bull'[g] = bull[g] /\ handler'[g] = handler[g]
                         \/ g = f /\ bull'[g].state \in {"delayed", "failed"} /\ handler'[g] = "job"
    BY <1>0, <1>5, TypeNack
  <2>2. bull[f].lock # w => UNCHANGED <<bull, handler>>
    BY <1>0, <1>5 DEF Nack
  <2>3. QED
    BY <1>1, <1>3, <2>1, <2>2 DEF JInv
<1>6. QED
  BY <1>4, <1>5

LEMMA JStall ==
  ASSUME TInv, JInv, NEW f \in Files, Stall(f)
  PROVE  JInv'
<1>0. /\ UNCHANGED <<upload, job, look, looked, extracts, adrift, run>> /\ overlap \subseteq overlap'
      /\ \A g \in Files \ {f} : bull'[g] = bull[g] /\ handler'[g] = handler[g]
      /\ \/ bull'[f].state = "waiting" /\ handler'[f] = handler[f]
         \/ bull'[f].state = "failed" /\ handler'[f] = "job"
  BY TypeStall DEF Stall, rows
<1>1. ASSUME NEW g \in Files \ {f} PROVE JFile(g)'
  BY <1>0, JFrame DEF JInv
<1>2. JFile(f) /\ bull[f].state = "active" /\ bull[f].lock \in Workers
  BY Bounds DEF JInv, Stall, TInv, QueueOK, BullJobs
<1>3. f \notin overlap' => f \notin overlap /\ \A w \in Workers : run[w].file # f
  BY <1>2 DEF Stall, JFile, Alone
<1>4. Alone(f)'
  BY <1>0, <1>2, <1>3 DEF JFile, Alone
<1>5. Early(f)'
  BY <1>0, <1>2 DEF JFile, Early
<1>6. Decided(f)'
  BY <1>0, <1>3 DEF Decided
<1>7. Cared(f)' /\ Seen(f)'
  BY <1>0 DEF Cared, Seen, InQueue
<1>8. QED
  BY <1>1, <1>4, <1>5, <1>6, <1>7 DEF JInv, JFile

LEMMA JRetry ==
  ASSUME TInv, JInv, NEW f \in Files, Retry(f)
  PROVE  JInv'
<1>0. /\ UNCHANGED <<upload, job, look, looked, handler, extracts, adrift, overlap, run>>
      /\ bull'[f].state = "waiting" /\ \A g \in Files \ {f} : bull'[g] = bull[g]
  BY TypeRetry DEF Retry, rows, limits, history
<1>1. ASSUME NEW g \in Files \ {f} PROVE JFile(g)'
  BY <1>0, JFrame DEF JInv
<1>2. JFile(f) /\ bull[f].state = "delayed" /\ bull[f].lock \notin Workers
  BY Bounds DEF JInv, Retry, TInv, QueueOK
<1>3. Alone(f)'
  BY <1>0, <1>2 DEF JFile, Alone
<1>4. Early(f)'
  BY <1>0, <1>2 DEF JFile, Early
<1>5. Decided(f)'
  BY <1>0, <1>2 DEF JFile, Decided
<1>6. Cared(f)' /\ Seen(f)'
  BY <1>0 DEF Cared, Seen, InQueue
<1>7. QED
  BY <1>1, <1>3, <1>4, <1>5, <1>6 DEF JInv, JFile

LEMMA JFailed ==
  ASSUME TInv, JInv, NEW f \in Files, OnFailed(f) \/ OnFailedLost(f)
  PROVE  JInv'
<1>0. /\ UNCHANGED <<upload, look, looked, bull, extracts, overlap, run>> /\ adrift \subseteq adrift'
      /\ \A g \in Files \ {f} : job'[g] = job[g] /\ handler'[g] = handler[g]
  BY DEF OnFailed, OnFailedLost, UpdateJob, TInv, RowsOK, QueueOK, rows, limits, history
<1>1. ASSUME NEW g \in Files \ {f} PROVE JFile(g)'
  BY <1>0, JFrame DEF JInv
<1>2. JFile(f)
  BY DEF JInv
<1>3. \/ job'[f] = job[f] /\ (handler'[f] = handler[f] \/ handler[f] # "job" \/ job[f] = "none")
      \/ job[f] # "none" /\ job'[f] = "FAILED"
      \/ job'[f] = job[f] /\ f \in adrift'
  BY DEF OnFailed, OnFailedLost, UpdateJob, TInv, RowsOK, QueueOK, rows
<1>4. Alone(f)'
  BY <1>0, <1>2 DEF JFile, Alone
<1>5. Early(f)'
  BY <1>0, <1>2, <1>3 DEF JFile, Early
<1>6. Decided(f)'
  BY <1>0, <1>2, <1>3 DEF JFile, Decided, Active
<1>7. Cared(f)' /\ Seen(f)'
  BY <1>0, <1>2, <1>3 DEF JFile, Cared, Seen, InQueue, Active
<1>8. QED
  BY <1>1, <1>4, <1>5, <1>6, <1>7 DEF JInv, JFile

LEMMA JDie ==
  ASSUME TInv, JInv, NEW w \in Workers, Die(w)
  PROVE  JInv'
<1>1. Rests(w) /\ UNCHANGED <<upload, job, look, handler, bull, looked, extracts, adrift, overlap>>
  BY TypeDie DEF Die, rows
<1>2. ASSUME NEW g \in Files PROVE JFile(g)'
  BY <1>1, Bounds, JFrame DEF JInv, Rests
<1>3. QED
  BY <1>2 DEF JInv

LEMMA JChat ==
  ASSUME TInv, JInv, NEW c \in Chats, Chat(c) \/ PrepareFails(c)
  PROVE  JInv'
<1>1. /\ UNCHANGED <<upload, job, look, handler, bull, looked, adrift>> /\ overlap \subseteq overlap'
      /\ c \in Procs
  BY DEF Chat, CountChunks, CreateChunkSafe, PersistExtract, WeighTender, SettleTender,
         PrepareFails, rows, limits, history, Procs
<1>2. run'[c].pc \in ChatSteps
  BY <1>1, TypeChat, TypePrepareFails, Bounds DEF TInv, RunOK, StepsOf
<1>3. /\ \A p \in Procs \ {c} : run'[p] = run[p]
      /\ run'[c].file \in {run[c].file, None}
  <2>1. run \in [Procs -> RunStates]
    BY DEF TInv, RunOK
  <2>2. CASE CountChunks(c)
    BY <1>1, <2>1, <2>2 DEF CountChunks, Go, RunStates
  <2>3. CASE CreateChunkSafe(c)
    BY <1>1, <2>1, <2>3 DEF CreateChunkSafe, RunStates
  <2>4. CASE PersistExtract(c)
    BY <1>1, <2>1, <2>4 DEF PersistExtract, Go, RunStates
  <2>5. CASE WeighTender(c) \/ SettleTender(c)
    BY <1>1, <2>1, <2>5 DEF WeighTender, SettleTender, Go, Idle, RunStates
  <2>6. CASE PrepareFails(c)
    BY <1>1, <2>1, <2>6 DEF PrepareFails, Idle, RunStates
  <2>7. QED
    BY <2>2, <2>3, <2>4, <2>5, <2>6 DEF Chat
<1>4. ASSUME NEW g \in Files PROVE JFile(g)'
  <2>1. JFile(g)
    BY DEF JInv
  <2>2. extracts'[g] = extracts[g] \/ bull[g].state # "none" \/ g \in overlap'
    BY DEF Chat, CountChunks, CreateChunkSafe, PersistExtract, WeighTender, SettleTender,
           PrepareFails, TInv, RowsOK, rows
  <2>3. \A p \in Procs : run'[p].file = g =>
          run[p].file = g /\ (run'[p].pc \in {"tender", "done"} => run[p].pc \in {"tender", "done"})
    BY <1>1, <1>2, <1>3, Bounds DEF ChatSteps
  <2>4. QED
    BY <1>1, <2>1, <2>2, <2>3, JFrame
<1>5. QED
  BY <1>4 DEF JInv

LEMMA JPrepare ==
  ASSUME TInv, JInv, NEW c \in Chats, NEW f \in Files, Prepare(c, f)
  PROVE  JInv'
<1>0. /\ UNCHANGED <<upload, job, look, handler, looked, bull, extracts, adrift>>
      /\ overlap \subseteq overlap' /\ c \in Procs /\ c \notin Workers
  BY Bounds DEF Prepare, Begins, rows, limits, Procs
<1>1. PICK pc \in {"count", "pending"} : Starts(c, f, pc)
  BY TypePrepare
<1>2. ASSUME NEW g \in Files \ {f} PROVE JFile(g)'
  BY <1>0, <1>1, JFrame DEF JInv, Starts
<1>3. f \notin overlap' => \A p \in Procs : run[p].file # f
  BY DEF Prepare, Begins, Running, Procs
<1>4. JFile(f)
  BY DEF JInv
<1>5. Alone(f)'
  BY <1>0, <1>1, <1>3 DEF Alone, Starts, Procs
<1>6. Early(f)'
  BY <1>0, <1>1, <1>4 DEF JFile, Early, Starts, Procs
<1>7. Decided(f)'
  BY <1>0, <1>1, <1>3 DEF Decided, Starts, Procs
<1>8. Cared(f)' /\ Seen(f)'
  BY <1>0, <1>4 DEF JFile, Cared, Seen, InQueue
<1>9. QED
  BY <1>2, <1>5, <1>6, <1>7, <1>8 DEF JInv, JFile

LEMMA JNext == TInv /\ JInv /\ [Next]_vars => JInv'
<1> SUFFICES ASSUME TInv, JInv, [Next]_vars PROVE JInv'
  OBVIOUS
<1>1. CASE \E f \in Files : Upload(f) \/ UploadDies(f) \/ Request(f) \/ StartDelete(f)
  BY <1>1, JUpload, JDelete DEF Request
<1>2. CASE \E f \in Files : \/ Retry(f) \/ Stall(f) \/ OnFailed(f) \/ OnFailedLost(f)
                            \/ \E w \in Workers : Take(w, f)
  BY <1>2, JRetry, JStall, JFailed, JTake
<1>3. CASE \E w \in Workers : Processes(w) \/ Ack(w) \/ Nack(w) \/ Die(w)
  BY <1>3, JProcesses, JAck, JDie
<1>4. CASE \E c \in Chats : Chat(c) \/ PrepareFails(c) \/ \E f \in Files : Prepare(c, f)
  BY <1>4, JChat, JPrepare
<1>5. CASE UNCHANGED vars
  BY <1>5, JFrame DEF JInv, vars, rows, limits, history
<1>6. CASE \E l \in Lists : Listings(l)
  BY <1>6, JList
<1>7. QED
  BY <1>1, <1>2, <1>3, <1>4, <1>5, <1>6 DEF Next, Queue, Work, Processes, Listings

LEMMA JobsKept == Spec => [](TInv /\ JInv)
<1>1. Init => TInv /\ JInv
  BY TypeInit, JInit
<1>2. TInv /\ JInv /\ [Next]_vars => (TInv /\ JInv)'
  BY TypeNext, JNext
<1>3. QED
  BY <1>1, <1>2, PTL DEF Spec

\* No job whose row says that it is queued or in process is forgotten, wherever
\* workers, uploads and requests for the list stop: BullMQ has it, unless its
\* upload died, two processes collided, its failed handler was lost or late, or
\* the list reset it although BullMQ knew it.
THEOREM NoJobIsForgotten == Spec => []NobodyForgotten
<1>1. TInv /\ JInv => NobodyForgotten
  BY DEF JInv, JFile, Early, Cared, NobodyForgotten, Quiet, Apart
<1>2. QED
  BY <1>1, JobsKept, PTL

\* A request for the list that has gone through a document leaves its job in
\* BullMQ's hands, even when the upload died before it was queued; the last three
\* exceptions of NoJobIsForgotten remain.
THEOREM TheListRepairs == Spec => []ListRepairs
<1>1. TInv /\ JInv => ListRepairs
  BY DEF JInv, JFile, Seen, Cared, ListRepairs, Quiet
<1>2. QED
  BY <1>1, JobsKept, PTL

-----------------------------------------------------------------------------
(* What the chunks of a document are while somebody indexes it. *)

\* The steps before any chunk is written.
Fresh == {"begin", "mark", "read", "hash", "check", "extract", "clear",
          "count", "pending", "have", "save", "wipe"}

\* Nobody has a document that is not uploaded, and one without a row has
\* neither a job nor an extract.
Born(f) ==
  /\ upload[f] = "none" => \A p \in Procs : run[p].file # f
  /\ upload[f] \in {"none", "deleted"} => job[f] = "none" /\ extracts[f] = 0

\* A job is completed only for a document with an extract.
Extracted(f) ==
  /\ job[f] = "COMPLETED" => extracts[f] > 0
  /\ \A l \in Lists : f \in look[l].have => extracts[f] > 0 \/ upload[f] = "deleted"
  /\ \A w \in Workers :
       run[w].file = f /\ run[w].pc \in {"skip", "clear", "chunk", "insight", "finish"}
         => extracts[f] > 0 \/ upload[f] = "deleted"

First(f) == \A p \in Procs : run[p].file = f /\ run[p].pc \in Fresh => run[p].part = 1

\* The chunks are those up to the part of who cuts them, and all of them when
\* a document with an extract is in nobody's cut.
Cut(f) ==
  (f \notin torn \cup overlap /\ Listed(f)) =>
    /\ \A p \in Procs : run[p].file = f =>
         /\ run[p].pc \in {"chunk", "fill", "put"} => chunks[f] = 1..(run[p].part - 1)
         /\ run[p].pc = "insight" => chunks[f] = 1..Parts
    /\ (extracts[f] > 0 /\ \A p \in Procs : run[p].file = f => run[p].pc \notin Half)
         => chunks[f] = 1..Parts

XFile(f) == Born(f) /\ Extracted(f) /\ First(f) /\ Cut(f)
XInv == \A f \in Files : XFile(f)

LEMMA XInit == Init => XInv
  BY Bounds DEF Init, XInv, XFile, Born, Extracted, First, Cut, Listed, Procs, Idle, NoList

\* A step that leaves what XFile is about as it is, except that a process that
\* is not in the middle of a cut may leave.
LEMMA XFrame ==
  ASSUME NEW f \in Files, XFile(f),
         upload'[f] = upload[f], look' = look, extracts'[f] = extracts[f],
         chunks'[f] = chunks[f], job'[f] \in {job[f], "QUEUED", "PROCESSING", "FAILED"},
         job[f] = "none" => job'[f] = "none",
         f \in torn => f \in torn', f \in overlap => f \in overlap',
         \A p \in Procs : \/ run'[p] = run[p]
                          \/ /\ run'[p].file # f
                             /\ run[p].file = f /\ run[p].pc \in Half => f \in torn'
  PROVE  XFile(f)'
<1>0. Workers \subseteq Procs
  BY DEF Procs
<1>1. Born(f)'
  BY DEF XFile, Born
<1>2. Extracted(f)'
  BY <1>0 DEF XFile, Extracted
<1>3. First(f)'
  BY DEF XFile, First
<1>4. Cut(f)'
  BY DEF XFile, Cut, Listed
<1>5. QED
  BY <1>1, <1>2, <1>3, <1>4 DEF XFile

\* A process that has the document moves: what is left to show of the step.
XMoves(p, f) ==
  /\ run'[p].file \in {f, None} /\ \A o \in Procs \ {p} : run'[o] = run[o]
  /\ upload'[f] = upload[f] /\ look' = look
  /\ extracts'[f] \in Nat /\ extracts'[f] >= extracts[f]
  /\ extracts'[f] # extracts[f] => Listed(f)
  /\ \/ job'[f] = job[f]
     \/ job[f] # "none" /\ (job'[f] = "COMPLETED" => extracts[f] > 0)
  /\ f \in torn => f \in torn'
  /\ f \in overlap => f \in overlap'
  /\ (p \in Workers /\ run'[p].file = f
        /\ run'[p].pc \in {"skip", "clear", "chunk", "insight", "finish"})
       => extracts'[f] > 0 \/ upload[f] = "deleted"
  /\ run'[p].file = f /\ run'[p].pc \in Fresh => run'[p].part = 1
  /\ (f \notin torn' \cup overlap' /\ Listed(f)) =>
       /\ run'[p].file = f =>
            /\ run'[p].pc \in {"chunk", "fill", "put"} => chunks'[f] = 1..(run'[p].part - 1)
            /\ run'[p].pc = "insight" => chunks'[f] = 1..Parts
       /\ (extracts'[f] > 0 /\ (run'[p].file = f => run'[p].pc \notin Half))
            => chunks'[f] = 1..Parts

LEMMA XStep ==
  ASSUME TInv, NEW f \in Files, XFile(f), Alone(f), NEW p \in Procs, run[p].file = f, XMoves(p, f)
  PROVE  XFile(f)'
<1>0. Workers \subseteq Procs /\ extracts[f] \in Nat /\ upload[f] # "none"
  BY DEF Procs, TInv, RowsOK, XFile, Born
<1>1. Born(f)'
  BY <1>0 DEF XFile, Born, XMoves, Listed
<1>2. Extracted(f)'
  BY <1>0 DEF XFile, Extracted, XMoves
<1>3. First(f)'
  BY DEF XFile, First, XMoves
<1>4. Cut(f)'
  <2>1. f \notin overlap => \A o \in Procs \ {p} : run[o].file # f
    BY DEF Alone
  <2>2. QED
    BY <2>1, Bounds DEF Cut, XMoves, Listed
<1>5. QED
  BY <1>1, <1>2, <1>3, <1>4 DEF XFile

\* It moves from a step outside the cut to another one, and writes nothing but
\* the job.
XOutside(p, f) ==
  /\ run[p].pc \notin Half /\ \A o \in Procs \ {p} : run'[o] = run[o]
  /\ \/ run'[p].file = None
     \/ /\ run'[p].file = f /\ run'[p].pc \notin Half
        /\ run'[p].pc \in Fresh => run'[p].part = 1
        /\ (p \in Workers /\ run'[p].pc \in {"skip", "finish"})
             => extracts[f] > 0 \/ upload[f] = "deleted"
  /\ upload'[f] = upload[f] /\ look' = look
  /\ extracts'[f] = extracts[f] /\ chunks'[f] = chunks[f]
  /\ \/ job'[f] = job[f]
     \/ job[f] # "none" /\ (job'[f] = "COMPLETED" => extracts[f] > 0)
  /\ f \in torn => f \in torn'
  /\ f \in overlap => f \in overlap'

LEMMA XGoes ==
  ASSUME TInv, NEW f \in Files, XFile(f), Alone(f), NEW p \in Procs, run[p].file = f,
         XOutside(p, f)
  PROVE  XFile(f)'
<1>1. f \notin overlap => \A o \in Procs : run[o].file = f => run[o].pc \notin Half
  BY DEF Alone, XOutside
<1>2. f \notin torn' \cup overlap' /\ Listed(f) /\ extracts[f] > 0 => chunks[f] = 1..Parts
  BY <1>1 DEF XFile, Cut, XOutside
<1>3. run'[p].file = f => run'[p].pc \notin {"clear", "chunk", "insight", "fill", "put"}
  BY Bounds DEF Half, XOutside
<1>4. XMoves(p, f)
  <2>1. extracts[f] \in Nat
    BY DEF TInv, RowsOK
  <2>2. QED
    BY <1>2, <1>3, <2>1, Bounds DEF XMoves, XOutside
<1>5. QED
  BY <1>4, XStep

\* Every other document is left alone.
LEMMA XOthers ==
  ASSUME XInv, NEW f \in Files, NEW g \in Files \ {f}, NEW p \in Procs, run[p].file \in {f, None},
         run'[p].file \in {f, None}, \A o \in Procs \ {p} : run'[o] = run[o],
         upload'[g] = upload[g], look' = look, extracts'[g] = extracts[g],
         chunks'[g] = chunks[g], job'[g] = job[g], torn \subseteq torn', overlap \subseteq overlap'
  PROVE  XFile(g)'
  BY Bounds, XFrame DEF XInv

\* The worker indexes: extract, clear, one chunk after the other, insight.
LEMMA XProcesses ==
  ASSUME TInv, JInv, XInv, NEW w \in Workers, Processes(w)
  PROVE  XInv'
<1>. PICK f \in Files \cup {None} : f = run[w].file
  BY DEF TInv, RunOK, RunStates, Procs
<1>0. /\ w \in Procs /\ run \in [Procs -> RunStates] /\ f \in Files /\ f = run[w].file
      /\ UNCHANGED <<upload, look, overlap>> /\ torn \subseteq torn'
  <2>1. run[w].pc # "idle"
    BY DEF Processes, Begin, ReadFile, WriteHash, Check, Extract, ClearChunks, CreateChunk,
           CreateInsight, Complete, Throw
  <2>2. w \in Procs /\ run \in [Procs -> RunStates] /\ f \in Files /\ f = run[w].file
    BY <2>1, HasFile DEF Procs, TInv, RunOK
  <2>3. UNCHANGED <<upload, look, overlap>> /\ torn \subseteq torn'
    BY DEF Processes, Begin, ReadFile, WriteHash, Check, Extract, ClearChunks, CreateChunk,
           CreateInsight, Complete, Throw, rows, limits, history
  <2>4. QED
    BY <2>2, <2>3
<1>1. run'[w].file = f /\ \A p \in Procs \ {w} : run'[p] = run[p]
  BY <1>0 DEF Processes, Begin, ReadFile, WriteHash, Check, Extract, ClearChunks, CreateChunk,
              CreateInsight, Complete, Throw, Go, RunStates
<1>2. /\ XFile(f) /\ Alone(f) /\ run[w] \in RunStates /\ run[w].part \in 1..Parts
      /\ extracts \in [Files -> Nat] /\ chunks \in [Files -> SUBSET (1..Parts)]
      /\ job \in [Files -> {"none"} \cup Active \cup Settled]
  BY <1>0 DEF XInv, JInv, JFile, TInv, RowsOK, RunStates
<1>3. ASSUME NEW g \in Files \ {f} PROVE XFile(g)'
  <2>1. extracts'[g] = extracts[g] /\ chunks'[g] = chunks[g] /\ job'[g] = job[g]
    BY <1>0, <1>2 DEF Processes, Begin, ReadFile, WriteHash, Check, Extract, ClearChunks, CreateChunk,
                      CreateInsight, Complete, Throw, UpdateJob, rows
  <2>2. QED
    BY <1>0, <1>1, <2>1, XOthers
<1>4. ASSUME XFile(f)' PROVE XInv'
  BY <1>3, <1>4 DEF XInv
<1>5. CASE Begin(w)
  <2>1. /\ UNCHANGED <<extracts, chunks>> /\ run[w].pc \in {"begin", "mark"}
        /\ run'[w].pc \in {"mark", "read", "threw"} /\ run'[w].part = run[w].part
        /\ job'[f] = job[f] \/ (job[f] # "none" /\ job'[f] = "PROCESSING")
    BY <1>0, <1>2, <1>5 DEF Begin, Go, RunStates, UpdateJob
  <2>2. run'[w].part = 1
    BY <1>0, <1>2, <2>1 DEF XFile, First, Fresh
  <2>3. XOutside(w, f)
    BY <1>0, <1>1, <1>2, <2>1, <2>2 DEF XOutside, Half
  <2>4. QED
    BY <1>0, <1>2, <1>4, <2>3, XGoes
<1>6. CASE ReadFile(w) \/ WriteHash(w) \/ Check(w)
  <2>1. /\ UNCHANGED <<extracts, chunks, job>> /\ run[w].pc \in {"read", "hash", "check"}
        /\ run'[w].pc \in {"hash", "check", "skip", "extract", "threw"}
        /\ run'[w].pc = "skip" => extracts[f] > 0
        /\ run'[w].part = run[w].part
    BY <1>0, <1>2, <1>6 DEF ReadFile, WriteHash, Check, Go, RunStates, rows
  <2>2. run'[w].part = 1
    BY <1>0, <1>2, <2>1 DEF XFile, First, Fresh
  <2>3. XOutside(w, f)
    BY <1>0, <1>1, <1>2, <2>1, <2>2 DEF XOutside, Half
  <2>4. QED
    BY <1>0, <1>2, <1>4, <2>3, XGoes
<1>7. CASE Complete(w)
  <2>1. /\ UNCHANGED <<extracts, chunks>> /\ run[w].pc \in {"skip", "finish", "tender"}
        /\ run'[w].pc \in {"tender", "done", "threw"}
        /\ job'[f] = job[f] \/ (job[f] # "none" /\ run[w].pc \in {"skip", "finish"})
    BY <1>0, <1>2, <1>7 DEF Complete, Go, RunStates, UpdateJob
  <2>2. job'[f] = job[f] \/ (job[f] # "none" /\ extracts[f] > 0)
    BY <1>0, <1>2, <2>1 DEF XFile, Born, Extracted
  <2>3. XOutside(w, f)
    BY <1>0, <1>1, <1>2, <2>1, <2>2 DEF XOutside, Half, Fresh
  <2>4. QED
    BY <1>0, <1>2, <1>4, <2>3, XGoes
<1>8. CASE Extract(w)
  <2>1. UNCHANGED <<chunks, job>> /\ run[w].pc = "extract"
    BY <1>8 DEF Extract
  <2>2. run[w].part = 1
    BY <1>0, <1>2, <2>1 DEF XFile, First, Fresh
  <2>3. CASE Listed(f)
    <3>1. run'[w].pc = "clear" /\ run'[w].part = 1 /\ extracts'[f] = extracts[f] + 1
      BY <1>0, <1>2, <1>8, <2>2, <2>3 DEF Extract, Go, RunStates
    <3>2. XMoves(w, f)
      BY <1>0, <1>1, <1>2, <2>1, <2>3, <3>1 DEF XMoves, Half
    <3>3. QED
      BY <1>0, <1>2, <1>4, <3>2, XStep
  <2>4. CASE ~Listed(f)
    <3>1. run'[w].pc = "threw" /\ UNCHANGED extracts
      BY <1>0, <1>2, <1>8, <2>4 DEF Extract, Go, RunStates
    <3>2. XOutside(w, f)
      BY <1>0, <1>1, <1>2, <2>1, <3>1 DEF XOutside, Half, Fresh
    <3>3. QED
      BY <1>0, <1>2, <1>4, <3>2, XGoes
  <2>5. QED
    BY <2>3, <2>4
<1>9. CASE ClearChunks(w)
  <2>1. /\ UNCHANGED <<extracts, job>> /\ run[w].pc = "clear" /\ run'[w].pc = "chunk"
        /\ run'[w].part = run[w].part /\ chunks'[f] = {}
    BY <1>0, <1>2, <1>9 DEF ClearChunks, Go, RunStates
  <2>2. run'[w].part = 1 /\ 1..(1 - 1) = {}
    BY <1>0, <1>2, <2>1 DEF XFile, First, Fresh
  <2>3. extracts[f] > 0 \/ upload[f] = "deleted"
    BY <1>0, <1>2, <2>1 DEF XFile, Extracted
  <2>4. XMoves(w, f)
    BY <1>0, <1>1, <1>2, <2>1, <2>2, <2>3 DEF XMoves, Half, Fresh
  <2>5. QED
    BY <1>0, <1>2, <1>4, <2>4, XStep
<1>10. CASE CreateChunk(w)
  <2>1. UNCHANGED <<extracts, job>> /\ run[w].pc = "chunk"
    BY <1>10 DEF CreateChunk
  <2>2. extracts[f] > 0 \/ upload[f] = "deleted"
    BY <1>0, <1>2, <2>1 DEF XFile, Extracted
  <2>3. f \notin torn \cup overlap /\ Listed(f) => chunks[f] = 1..(run[w].part - 1)
    BY <1>0, <1>2, <2>1 DEF XFile, Cut
  <2>4. 1..(run[w].part - 1) \cup {run[w].part} = 1..run[w].part
    BY <1>2
  <2>5. CASE Listed(f) /\ run[w].part \notin chunks[f] /\ run[w].part = Parts
    <3>1. /\ run'[w].pc = "insight" /\ chunks'[f] = chunks[f] \cup {run[w].part}
          /\ UNCHANGED torn
      BY <1>0, <1>2, <1>10, <2>5 DEF CreateChunk, Go, RunStates
    <3>2. f \notin torn \cup overlap => chunks'[f] = 1..Parts
      BY <2>3, <2>4, <2>5, <3>1
    <3>3. XMoves(w, f)
      BY <1>0, <1>1, <1>2, <2>1, <2>2, <3>1, <3>2 DEF XMoves, Fresh
    <3>4. QED
      BY <1>0, <1>2, <1>4, <3>3, XStep
  <2>6. CASE Listed(f) /\ run[w].part \notin chunks[f] /\ run[w].part # Parts
    <3>1. /\ run'[w].pc = "chunk" /\ chunks'[f] = chunks[f] \cup {run[w].part}
          /\ run'[w].part = run[w].part + 1 /\ UNCHANGED torn
      BY <1>0, <1>2, <1>10, <2>1, <2>6 DEF CreateChunk, RunStates
    <3>2. f \notin torn \cup overlap => chunks'[f] = 1..(run'[w].part - 1)
      BY <1>2, <2>3, <2>4, <2>6, <3>1
    <3>3. XMoves(w, f)
      BY <1>0, <1>1, <1>2, <2>1, <2>2, <3>1, <3>2 DEF XMoves, Fresh, Half
    <3>4. QED
      BY <1>0, <1>2, <1>4, <3>3, XStep
  <2>7. CASE ~(Listed(f) /\ run[w].part \notin chunks[f])
    <3>1. run'[w].pc = "threw" /\ f \in torn'
      BY <1>0, <1>2, <1>10, <2>7 DEF CreateChunk, Go, RunStates
    <3>2. XMoves(w, f)
      BY <1>0, <1>1, <1>2, <2>1, <3>1 DEF XMoves, Fresh
    <3>3. QED
      BY <1>0, <1>2, <1>4, <3>2, XStep
  <2>8. QED
    BY <2>5, <2>6, <2>7
<1>11. CASE CreateInsight(w)
  <2>1. /\ UNCHANGED <<extracts, chunks, job>> /\ run[w].pc = "insight"
        /\ run'[w].pc \in {"finish", "threw"}
        /\ run'[w].pc = "threw" => ~Listed(f)
    BY <1>0, <1>2, <1>11 DEF CreateInsight, Go, RunStates
  <2>2. extracts[f] > 0 \/ upload[f] = "deleted"
    BY <1>0, <1>2, <2>1 DEF XFile, Extracted
  <2>3. f \notin torn \cup overlap /\ Listed(f) => chunks[f] = 1..Parts
    BY <1>0, <1>2, <2>1 DEF XFile, Cut
  <2>4. XMoves(w, f)
    BY <1>0, <1>1, <1>2, <2>1, <2>2, <2>3 DEF XMoves, Fresh
  <2>5. QED
    BY <1>0, <1>2, <1>4, <2>4, XStep
<1>12. CASE Throw(w)
  <2>1. /\ UNCHANGED <<extracts, chunks, job>> /\ run'[w].pc = "threw"
        /\ run[w].pc \in Half => f \in torn'
    BY <1>0, <1>2, <1>12 DEF Throw, Go, RunStates, rows
  <2>2. CASE run[w].pc \notin Half
    <3>1. XOutside(w, f)
      BY <1>0, <1>1, <1>2, <2>1, <2>2 DEF XOutside, Half, Fresh
    <3>2. QED
      BY <1>0, <1>2, <1>4, <3>1, XGoes
  <2>3. CASE run[w].pc \in Half
    <3>1. XMoves(w, f)
      BY <1>0, <1>1, <1>2, <2>1, <2>3 DEF XMoves, Fresh
    <3>2. QED
      BY <1>0, <1>2, <1>4, <3>1, XStep
  <2>4. QED
    BY <2>2, <2>3
<1>13. QED
  BY <1>5, <1>6, <1>7, <1>8, <1>9, <1>10, <1>11, <1>12 DEF Processes

\* A process starts on a document nobody has, or collides.
LEMMA XTake ==
  ASSUME TInv, JInv, XInv, NEW f \in Files, NEW p \in Procs,
         UNCHANGED rows, torn' = torn, overlap \subseteq overlap',
         f \notin overlap' => \A o \in Procs : run[o].file # f,
         run[p].pc = "idle", upload[f] # "none",
         NEW pc \in {"begin", "count", "pending"}, Starts(p, f, pc), UNCHANGED look
  PROVE  XInv'
<1>0. run[p].file = None
  BY DEF TInv, RunOK
<1>1. ASSUME NEW g \in Files \ {f} PROVE XFile(g)'
  BY <1>0, XOthers DEF Starts, rows
<1>2. XFile(f)
  BY DEF XInv
<1>3. Born(f)'
  BY <1>2 DEF XFile, Born, rows
<1>4. Extracted(f)'
  BY <1>2, Bounds DEF XFile, Extracted, Starts, rows, Procs
<1>5. First(f)'
  BY <1>2 DEF XFile, First, Starts
<1>6. Cut(f)'
  BY <1>2 DEF XFile, Cut, Starts, Listed, rows
<1>7. QED
  BY <1>1, <1>3, <1>4, <1>5, <1>6 DEF XInv, XFile

\* A worker ends or dies.
LEMMA XEnds ==
  ASSUME TInv, JInv, XInv, NEW w \in Workers, Ack(w) \/ Nack(w) \/ Die(w)
  PROVE  XInv'
<1>1. /\ Rests(w) /\ UNCHANGED <<rows, look, overlap>> /\ torn \subseteq torn'
      /\ run[w].pc \in Half => run[w].file \in torn'
  BY TypeAck, TypeNack, TypeDie DEF Ack, Nack, Die, history, Half
<1>2. ASSUME NEW g \in Files PROVE XFile(g)'
  BY <1>1, Bounds, XFrame DEF XInv, Rests, rows
<1>3. QED
  BY <1>2 DEF XInv

\* BullMQ and the failed handler.
LEMMA XQueue ==
  ASSUME TInv, JInv, XInv, NEW f \in Files,
         Retry(f) \/ Stall(f) \/ OnFailed(f) \/ OnFailedLost(f)
  PROVE  XInv'
<1>1. /\ UNCHANGED <<upload, look, extracts, chunks, run>>
      /\ torn \subseteq torn' /\ overlap \subseteq overlap'
  BY DEF Retry, Stall, OnFailed, OnFailedLost, rows, limits, history
<1>2. \A g \in Files : \/ job'[g] = job[g]
                       \/ job[g] # "none" /\ job'[g] = "FAILED"
  BY DEF Retry, Stall, OnFailed, OnFailedLost, UpdateJob, TInv, RowsOK, rows
<1>3. ASSUME NEW g \in Files PROVE XFile(g)'
  BY <1>1, <1>2, XFrame DEF XInv
<1>4. QED
  BY <1>3 DEF XInv

\* Uploads, the list and deletions write no chunk; a deletion removes them all.
LEMMA XRequests ==
  ASSUME TInv, JInv, XInv, NEW f \in Files,
         Upload(f) \/ UploadDies(f) \/ Request(f) \/ StartDelete(f)
  PROVE  XInv'
<1>1. UNCHANGED <<run, look, torn, overlap>>
  BY DEF Upload, UploadDies, Request, StartDelete, CreateProcessingJob, Enqueue, DeleteObject,
         DeleteRow, history
<1>2. ASSUME NEW g \in Files \ {f} PROVE XFile(g)'
  <2>1. /\ upload'[g] = upload[g] /\ extracts'[g] = extracts[g]
        /\ chunks'[g] = chunks[g] /\ job'[g] = job[g]
    BY DEF Upload, UploadDies, Request, StartDelete, CreateProcessingJob, Enqueue, DeleteObject,
           DeleteRow, UpdateJob, TInv, RowsOK, rows
  <2>2. QED
    BY <1>1, <2>1, XFrame DEF XInv
<1>3. XFile(f) /\ extracts[f] \in Nat /\ Early(f)
  BY DEF XInv, JInv, JFile, TInv, RowsOK
<1>4. ASSUME XFile(f)' PROVE XInv'
  BY <1>2, <1>4 DEF XInv
<1>5. CASE Upload(f)
  <2>1. upload[f] = "none" /\ upload'[f] = "filed" /\ UNCHANGED <<job, extracts, chunks>>
    BY <1>5 DEF Upload, TInv, RowsOK
  <2>2. \A p \in Procs : run[p].file # f
    BY <1>3, <2>1 DEF XFile, Born
  <2>3. Born(f)' /\ Extracted(f)' /\ First(f)'
    BY <1>1, <1>3, <2>1, <2>2 DEF XFile, Early, Born, Extracted, First, Procs
  <2>4. Cut(f)'
    BY <1>1, <1>3, <2>1, <2>2 DEF XFile, Born, Cut
  <2>5. QED
    BY <1>4, <2>3, <2>4 DEF XFile
<1>6. CASE CreateProcessingJob(f) \/ Enqueue(f) \/ UploadDies(f)
  <2>1. /\ upload[f] \in {"filed", "listed", "marked"}
        /\ upload'[f] \in {"listed", "marked", "done", "died"}
        /\ UNCHANGED <<extracts, chunks>> /\ job'[f] \in {job[f], "QUEUED"}
    BY <1>6 DEF CreateProcessingJob, Enqueue, UploadDies, UpdateJob, TInv, RowsOK
  <2>2. Born(f)' /\ Extracted(f)' /\ First(f)'
    BY <1>1, <1>3, <2>1 DEF XFile, Born, Extracted, First
  <2>3. Cut(f)'
    BY <1>1, <1>3, <2>1 DEF XFile, Cut, Listed
  <2>4. QED
    BY <1>4, <2>2, <2>3 DEF XFile
<1>7. CASE StartDelete(f) \/ DeleteObject(f)
  <2>1. UNCHANGED <<upload, extracts, chunks, job>>
    BY <1>7 DEF StartDelete, DeleteObject, rows
  <2>2. QED
    BY <1>1, <1>3, <1>4, <2>1, XFrame
<1>9. CASE DeleteRow(f)
  <2>1. upload'[f] = "deleted" /\ job'[f] = "none" /\ extracts'[f] = 0
    BY <1>9 DEF DeleteRow, UpdateJob, TInv, RowsOK
  <2>2. Born(f)' /\ Extracted(f)' /\ First(f)' /\ Cut(f)'
    BY <1>1, <1>3, <2>1 DEF XFile, Born, Extracted, First, Cut, Listed
  <2>3. QED
    BY <1>4, <2>2 DEF XFile
<1>10. QED
  BY <1>5, <1>6, <1>7, <1>9 DEF Request

\* The list completes the jobs of documents it found an extract of.
LEMMA XList ==
  ASSUME TInv, JInv, XInv, NEW l \in Lists, Listings(l)
  PROVE  XInv'
<1>1. ListReads(l) /\ UNCHANGED <<upload, run, extracts, chunks, torn, overlap>>
  BY TypeLists
<1>2. ASSUME NEW f \in Files PROVE XFile(f)'
  <2>1. XFile(f) /\ ListWrites(l, f)
    BY TypeLists DEF XInv
  <2>2. \/ job'[f] = job[f]
        \/ job[f] # "none" /\ job'[f] = "QUEUED"
        \/ job[f] # "none" /\ job'[f] = "COMPLETED" /\ f \in look[l].have
    BY <2>1 DEF ListWrites
  <2>3. job'[f] = "COMPLETED" => extracts[f] > 0
    BY <2>1, <2>2 DEF XFile, Born, Extracted
  <2>4. \A m \in Lists : f \in look'[m].have => extracts[f] > 0 \/ upload[f] = "deleted"
    BY <1>1, <2>1 DEF ListReads, XFile, Extracted
  <2>5. Born(f)' /\ First(f)'
    BY <1>1, <2>1, <2>2 DEF XFile, Born, First
  <2>6. Extracted(f)'
    BY <1>1, <2>1, <2>3, <2>4 DEF XFile, Extracted
  <2>7. Cut(f)'
    BY <1>1, <2>1 DEF XFile, Cut, Listed
  <2>8. QED
    BY <2>5, <2>6, <2>7 DEF XFile
<1>3. QED
  BY <1>2 DEF XInv

\* A chat keeps its document or leaves it.
LEMMA ChatMoves ==
  ASSUME TInv, NEW c \in Chats, Chat(c) \/ PrepareFails(c)
  PROVE  /\ run'[c].file \in {run[c].file, None}
         /\ \A p \in Procs \ {c} : run'[p] = run[p]
<1>0. c \in Procs /\ run \in [Procs -> RunStates]
  BY DEF Procs, TInv, RunOK
<1>1. CASE CountChunks(c)
  BY <1>0, <1>1 DEF CountChunks, Go, RunStates
<1>2. CASE CreateChunkSafe(c)
  BY <1>0, <1>2 DEF CreateChunkSafe, RunStates
<1>3. CASE PersistExtract(c)
  BY <1>0, <1>3 DEF PersistExtract, Go, RunStates
<1>4. CASE WeighTender(c) \/ SettleTender(c)
  BY <1>0, <1>4 DEF WeighTender, SettleTender, Go, Idle, RunStates
<1>5. CASE PrepareFails(c)
  BY <1>0, <1>5 DEF PrepareFails, Idle, RunStates
<1>6. QED
  BY <1>1, <1>2, <1>3, <1>4, <1>5 DEF Chat

\* The chat fills in what is missing, or wipes and cuts again.
LEMMA XChat ==
  ASSUME TInv, JInv, XInv, NEW c \in Chats, Chat(c) \/ PrepareFails(c)
  PROVE  XInv'
<1>. PICK f \in Files \cup {None} : f = run[c].file
  BY DEF TInv, RunOK, RunStates, Procs
<1>0. /\ c \in Procs /\ run \in [Procs -> RunStates] /\ f \in Files /\ f = run[c].file
      /\ c \notin Workers
      /\ UNCHANGED <<upload, look, job>> /\ torn \subseteq torn' /\ overlap \subseteq overlap'
  <2>1. run[c].pc # "idle"
    BY DEF Chat, CountChunks, CreateChunkSafe, PersistExtract, WeighTender, SettleTender, PrepareFails
  <2>2. c \in Procs /\ run \in [Procs -> RunStates] /\ f \in Files /\ f = run[c].file
    BY <2>1, HasFile DEF Procs, TInv, RunOK
  <2>3. UNCHANGED <<upload, look, job>> /\ torn \subseteq torn' /\ overlap \subseteq overlap'
    BY DEF Chat, CountChunks, CreateChunkSafe, PersistExtract, WeighTender, SettleTender, PrepareFails,
           rows, limits, history
  <2>4. QED
    BY <2>2, <2>3, Bounds
<1>1. run'[c].file \in {f, None} /\ \A p \in Procs \ {c} : run'[p] = run[p]
  BY <1>0, ChatMoves
<1>2. /\ XFile(f) /\ Alone(f) /\ run[c] \in RunStates /\ run[c].part \in 1..Parts
      /\ extracts \in [Files -> Nat] /\ chunks \in [Files -> SUBSET (1..Parts)]
  BY <1>0 DEF XInv, JInv, JFile, TInv, RowsOK, RunStates
<1>3. ASSUME NEW g \in Files \ {f} PROVE XFile(g)'
  <2>1. extracts'[g] = extracts[g] /\ chunks'[g] = chunks[g]
    BY <1>0, <1>2 DEF Chat, CountChunks, CreateChunkSafe, PersistExtract, WeighTender, SettleTender,
                      PrepareFails, rows
  <2>2. QED
    BY <1>0, <1>1, <2>1, XOthers
<1>4. ASSUME XFile(f)' PROVE XInv'
  BY <1>3, <1>4 DEF XInv
<1>5. CASE CountChunks(c)
  <2>1. /\ UNCHANGED <<extracts, chunks>> /\ run[c].pc \in {"count", "pending"}
        /\ run'[c].file = f
        /\ run'[c].pc \in {"pending", "weigh", "fill", "have"} /\ run'[c].part = run[c].part
        /\ run'[c].pc = "fill" => chunks[f] = {}
    <3>1. PICK pc \in {"pending", "weigh", "fill", "have"} :
             Go(c, pc) /\ (pc = "fill" => chunks[f] = {})
      BY <1>0, <1>5 DEF CountChunks
    <3>2. QED
      BY <1>0, <1>2, <1>5, <3>1 DEF CountChunks, Go, RunStates, rows
  <2>2. run'[c].part = 1 /\ 1..(1 - 1) = {}
    BY <1>0, <1>2, <2>1 DEF XFile, First, Fresh
  <2>3. CASE run'[c].pc # "fill"
    <3>1. XOutside(c, f)
      BY <1>0, <1>1, <1>2, <2>1, <2>2, <2>3 DEF XOutside, Half
    <3>2. QED
      BY <1>0, <1>2, <1>4, <3>1, XGoes
  <2>4. CASE run'[c].pc = "fill"
    <3>1. XMoves(c, f)
      BY <1>0, <1>1, <1>2, <2>1, <2>2, <2>4, Bounds DEF XMoves, Fresh, Half
    <3>2. QED
      BY <1>0, <1>2, <1>4, <3>1, XStep
  <2>5. QED
    BY <2>3, <2>4
<1>6. CASE CreateChunkSafe(c)
  <2>1. UNCHANGED extracts /\ run[c].pc \in {"fill", "put"}
    BY <1>6 DEF CreateChunkSafe
  <2>2. f \notin torn \cup overlap /\ Listed(f) => chunks[f] = 1..(run[c].part - 1)
    BY <1>0, <1>2, <2>1 DEF XFile, Cut
  <2>3. 1..(run[c].part - 1) \cup {run[c].part} = 1..run[c].part
    BY <1>2
  <2>4. Listed(f) => chunks'[f] = chunks[f] \cup {run[c].part}
    BY <1>0, <1>2, <1>6 DEF CreateChunkSafe
  <2>5. CASE run[c].part = Parts \/ ~Listed(f)
    <3>1. run'[c].pc \in {"pending", "weigh"} /\ run'[c].part = 1
      BY <1>0, <1>2, <1>6, <2>5 DEF CreateChunkSafe, RunStates
    <3>2. f \notin torn \cup overlap /\ Listed(f) => chunks'[f] = 1..Parts
      BY <2>2, <2>3, <2>4, <2>5
    <3>3. XMoves(c, f)
      BY <1>0, <1>1, <1>2, <2>1, <3>1, <3>2 DEF XMoves
    <3>4. QED
      BY <1>0, <1>2, <1>4, <3>3, XStep
  <2>6. CASE run[c].part # Parts /\ Listed(f)
    <3>1. run'[c].pc = run[c].pc /\ run'[c].part = run[c].part + 1 /\ run'[c].file = f
      BY <1>0, <1>2, <1>6, <2>6 DEF CreateChunkSafe, RunStates
    <3>2. f \notin torn \cup overlap => chunks'[f] = 1..(run'[c].part - 1)
      <4>1. run'[c].part - 1 = run[c].part
        BY <1>2, <3>1
      <4>2. f \notin torn \cup overlap => chunks'[f] = 1..run[c].part
        BY <2>2, <2>3, <2>4, <2>6
      <4>3. QED
        BY <4>1, <4>2
    <3>3. XMoves(c, f)
      BY <1>0, <1>1, <1>2, <2>1, <3>1, <3>2, Bounds DEF XMoves, Fresh, Half
    <3>4. QED
      BY <1>0, <1>2, <1>4, <3>3, XStep
  <2>7. QED
    BY <2>5, <2>6
<1>7. CASE PersistExtract(c)
  <2>0. run[c].pc \in {"have", "save", "wipe"} /\ run[c].part = 1
    <3>1. run[c].pc \in {"have", "save", "wipe"}
      BY <1>7 DEF PersistExtract
    <3>2. QED
      BY <1>0, <1>2, <3>1 DEF XFile, First, Fresh
  <2>1. CASE run[c].pc = "have" \/ (run[c].pc = "save" /\ ~Listed(f))
    <3>1. /\ UNCHANGED <<extracts, chunks>> /\ run'[c].pc \in {"wipe", "save", "weigh"}
          /\ run'[c].part = 1
          /\ run'[c].pc = "weigh" => ~Listed(f)
      BY <1>0, <1>2, <1>7, <2>0, <2>1 DEF PersistExtract, Go, RunStates
    <3>2. CASE run'[c].pc # "wipe"
      <4>1. XOutside(c, f)
        BY <1>0, <1>1, <1>2, <2>1, <3>1, <3>2 DEF XOutside, Half
      <4>2. QED
        BY <1>0, <1>2, <1>4, <4>1, XGoes
    <3>3. CASE run'[c].pc = "wipe"
      <4>1. run'[c].file = f
        BY <1>0, <1>2, <1>7 DEF PersistExtract, Go, RunStates
      <4>2. XMoves(c, f)
        BY <1>0, <1>1, <1>2, <3>1, <3>3, <4>1 DEF XMoves, Half
      <4>3. QED
        BY <1>0, <1>2, <1>4, <4>2, XStep
    <3>4. QED
      BY <3>2, <3>3
  <2>2. CASE run[c].pc = "save" /\ Listed(f)
    <3>1. /\ run'[c].pc = "wipe" /\ run'[c].part = 1 /\ run'[c].file = f
          /\ extracts'[f] = extracts[f] + 1
      BY <1>0, <1>2, <1>7, <2>0, <2>2 DEF PersistExtract, Go, RunStates
    <3>2. XMoves(c, f)
      BY <1>0, <1>1, <1>2, <2>2, <3>1 DEF XMoves, Half
    <3>3. QED
      BY <1>0, <1>2, <1>4, <3>2, XStep
  <2>3. CASE run[c].pc = "wipe"
    <3>1. /\ run'[c].pc = "put" /\ run'[c].part = 1 /\ run'[c].file = f /\ UNCHANGED extracts
          /\ chunks'[f] = {} /\ 1..(1 - 1) = {}
      BY <1>0, <1>2, <1>7, <2>0, <2>3 DEF PersistExtract, Go, RunStates
    <3>2. XMoves(c, f)
      BY <1>0, <1>1, <1>2, <3>1 DEF XMoves, Half
    <3>3. QED
      BY <1>0, <1>2, <1>4, <3>2, XStep
  <2>4. QED
    BY <2>0, <2>1, <2>2, <2>3
<1>8. CASE WeighTender(c) \/ SettleTender(c)
  <2>1. /\ UNCHANGED <<extracts, chunks>> /\ run[c].pc \in {"weigh", "settle"}
        /\ run'[c].file = None \/ run'[c].pc = "settle"
    BY <1>0, <1>2, <1>8 DEF WeighTender, SettleTender, Go, Idle, RunStates, rows
  <2>2. XOutside(c, f)
    BY <1>0, <1>1, <1>2, <2>1 DEF XOutside, Half, Fresh
  <2>3. QED
    BY <1>0, <1>2, <1>4, <2>2, XGoes
<1>9. CASE PrepareFails(c)
  <2>1. /\ UNCHANGED <<extracts, chunks>>
        /\ run[c].pc \in Half => f \in torn'
        /\ \/ run'[c].file = None
           \/ run'[c].pc = "pending" /\ run'[c].part = 1
           \/ run'[c].pc = "weigh"
    <3>1. UNCHANGED <<extracts, chunks>> /\ (run[c].pc \in Half => f \in torn')
      BY <1>0, <1>9 DEF PrepareFails, rows
    <3>2. CASE run[c].pc \in {"count", "fill"}
      BY <1>0, <1>2, <1>9, <3>1, <3>2 DEF PrepareFails, RunStates
    <3>3. CASE run[c].pc \in {"pending", "have", "save", "wipe", "put"}
      BY <1>0, <1>2, <1>9, <3>1, <3>3 DEF PrepareFails, RunStates
    <3>4. CASE run[c].pc \notin {"count", "fill", "pending", "have", "save", "wipe", "put"}
      BY <1>0, <1>2, <1>9, <3>1, <3>4 DEF PrepareFails, Idle
    <3>5. QED
      BY <3>1, <3>2, <3>3, <3>4
  <2>2. CASE run[c].pc \notin Half
    <3>1. XOutside(c, f)
      BY <1>0, <1>1, <1>2, <2>1, <2>2 DEF XOutside, Half, Fresh
    <3>2. QED
      BY <1>0, <1>2, <1>4, <3>1, XGoes
  <2>3. CASE run[c].pc \in Half
    <3>1. f \in torn' /\ extracts'[f] = extracts[f] /\ extracts[f] \in Nat
      BY <1>0, <1>2, <2>1, <2>3
    <3>2. run'[c].file = f /\ run'[c].pc \in Fresh => run'[c].part = 1
      BY <1>0, <2>1, Bounds DEF Fresh
    <3>3. XMoves(c, f)
      BY <1>0, <1>1, <3>1, <3>2 DEF XMoves
    <3>4. QED
      BY <1>0, <1>2, <1>4, <3>3, XStep
  <2>4. QED
    BY <2>2, <2>3
<1>10. QED
  BY <1>5, <1>6, <1>7, <1>8, <1>9 DEF Chat

LEMMA XStarts ==
  ASSUME TInv, JInv, XInv, NEW f \in Files,
         (\E w \in Workers : Take(w, f)) \/ (\E c \in Chats : Prepare(c, f))
  PROVE  XInv'
<1>1. ASSUME NEW w \in Workers, Take(w, f) PROVE XInv'
  <2>1. Starts(w, f, "begin") /\ w \in Procs /\ Early(f)
    BY <1>1, TypeTake DEF Procs, JInv, JFile
  <2>2. QED
    BY <1>1, <2>1, XTake DEF Take, Begins, Running, Procs, Early
<1>2. ASSUME NEW c \in Chats, Prepare(c, f) PROVE XInv'
  <2>1. PICK pc \in {"count", "pending"} : Starts(c, f, pc)
    BY <1>2, TypePrepare
  <2>2. c \in Procs
    BY DEF Procs
  <2>3. QED
    BY <1>2, <2>1, <2>2, XTake DEF Prepare, Begins, Running, Procs, Listed
<1>3. QED
  BY <1>1, <1>2

LEMMA XNext == TInv /\ JInv /\ XInv /\ [Next]_vars => XInv'
<1> SUFFICES ASSUME TInv, JInv, XInv, [Next]_vars PROVE XInv'
  OBVIOUS
<1>1. CASE \E f \in Files : Upload(f) \/ UploadDies(f) \/ Request(f) \/ StartDelete(f)
  BY <1>1, XRequests
<1>2. CASE \E f \in Files : Retry(f) \/ Stall(f) \/ OnFailed(f) \/ OnFailedLost(f)
  BY <1>2, XQueue
<1>3. CASE \E f \in Files : \/ \E w \in Workers : Take(w, f)
                            \/ \E c \in Chats : Prepare(c, f)
  BY <1>3, XStarts
<1>4. CASE \E w \in Workers : Processes(w) \/ Ack(w) \/ Nack(w) \/ Die(w)
  BY <1>4, XProcesses, XEnds
<1>5. CASE \E c \in Chats : Chat(c) \/ PrepareFails(c)
  BY <1>5, XChat
<1>6. CASE UNCHANGED vars
  BY <1>6, XFrame DEF XInv, vars, rows, limits, history
<1>7. CASE \E l \in Lists : Listings(l)
  BY <1>7, XList
<1>8. QED
  BY <1>1, <1>2, <1>3, <1>4, <1>5, <1>6, <1>7 DEF Next, Queue, Work, Processes, Listings

-----------------------------------------------------------------------------
(* A document's text is stored once.  A worker writes the hash before the  *)
(* text, so one that finds no hash finds no text either; and a chat stores *)
(* a text of its own only before a worker has completed the job.           *)

Stored(f) == extracts[f] > 0 \/ upload[f] = "deleted"

\* The steps after a worker stored the text, or found it.
HasText == {"skip", "clear", "chunk", "insight", "finish", "tender", "done"}

\* A worker is about to store the text, or will be after the next read.
ToStore(s) == s.pc = "extract" \/ (s.pc \in {"hash", "check"} /\ ~s.seen)

Once(f) ==
  /\ bull[f].state = "completed" => Stored(f)
  /\ \A w \in Workers : run[w].file = f =>
       /\ run[w].pc \in HasText => Stored(f)
       /\ run[w].pc \in {"check", "extract"} => f \in hash \/ upload[f] = "deleted"
  /\ f \notin overlap =>
       /\ extracts[f] <= 1
       /\ extracts[f] > 0 => f \in hash
       /\ \A w \in Workers : run[w].file = f /\ ToStore(run[w]) => extracts[f] = 0
       /\ \A c \in Chats : run[c].file = f /\ run[c].pc = "save" => extracts[f] = 0

OInv == \A f \in Files : Once(f)

LEMMA OInit == Init => OInv
  BY Bounds DEF Init, OInv, Once, Idle, NewBull

\* A process that moved is where Once says nothing of it, or what it says holds.
Fits(p, f) ==
  /\ p \in Workers =>
       /\ run'[p].pc \in HasText => Stored(f)
       /\ run'[p].pc \in {"check", "extract"} => f \in hash' \/ upload[f] = "deleted"
       /\ f \notin overlap /\ ToStore(run'[p]) => extracts[f] = 0
  /\ p \in Chats /\ run'[p].pc = "save" /\ f \notin overlap => extracts[f] = 0

\* A step that stores or deletes nothing.
LEMMA OFrame ==
  ASSUME NEW f \in Files, Once(f), extracts'[f] = extracts[f], f \in hash => f \in hash',
         upload[f] = "deleted" => upload'[f] = "deleted", f \in overlap => f \in overlap',
         bull'[f].state = "completed" => bull[f].state = "completed" \/ Stored(f),
         \A p \in Procs : run'[p] = run[p] \/ run'[p].file # f \/ Fits(p, f)
  PROVE  Once(f)'
<1>0. Workers \subseteq Procs /\ Chats \subseteq Procs
  BY DEF Procs
<1>1. Stored(f) => Stored(f)'
  BY DEF Stored
<1>2. ASSUME NEW w \in Workers, run'[w].file = f
      PROVE  /\ run'[w].pc \in HasText => Stored(f)'
             /\ run'[w].pc \in {"check", "extract"} => f \in hash' \/ upload'[f] = "deleted"
             /\ f \notin overlap' /\ ToStore(run'[w]) => extracts'[f] = 0
  <2>1. run'[w] = run[w] \/ Fits(w, f)
    BY <1>0, <1>2
  <2>2. CASE run'[w] = run[w]
    BY <1>1, <1>2, <2>2 DEF Once
  <2>3. CASE Fits(w, f)
    BY <1>1, <1>2, <2>3 DEF Fits
  <2>4. QED
    BY <2>1, <2>2, <2>3
<1>3. ASSUME NEW c \in Chats, run'[c].file = f, run'[c].pc = "save", f \notin overlap'
      PROVE  extracts'[f] = 0
  BY <1>0, <1>3 DEF Once, Fits
<1>4. QED
  BY <1>1, <1>2, <1>3 DEF Once, ToStore

LEMMA OProcesses ==
  ASSUME TInv, JInv, OInv, NEW w \in Workers, Processes(w)
  PROVE  OInv'
<1>. PICK f \in Files \cup {None} : f = run[w].file
  BY DEF TInv, RunOK, RunStates, Procs
<1>0. /\ w \in Procs /\ w \notin Chats /\ run \in [Procs -> RunStates] /\ f \in Files
      /\ f = run[w].file /\ run[w] \in RunStates
      /\ UNCHANGED <<upload, bull, overlap>> /\ hash \subseteq hash'
  <2>1. run[w].pc # "idle"
    BY DEF Processes, Begin, ReadFile, WriteHash, Check, Extract, ClearChunks, CreateChunk,
           CreateInsight, Complete, Throw
  <2>2. w \in Procs /\ run \in [Procs -> RunStates] /\ f \in Files /\ f = run[w].file
    BY <2>1, HasFile DEF Procs, TInv, RunOK
  <2>3. UNCHANGED <<upload, bull, overlap>> /\ hash \subseteq hash'
    BY DEF Processes, Begin, ReadFile, WriteHash, Check, Extract, ClearChunks, CreateChunk,
           CreateInsight, Complete, Throw, rows, limits, history
  <2>4. QED
    BY <2>2, <2>3, Bounds
<1>1. run'[w].file = f /\ \A p \in Procs \ {w} : run'[p] = run[p]
  BY <1>0 DEF Processes, Begin, ReadFile, WriteHash, Check, Extract, ClearChunks, CreateChunk,
              CreateInsight, Complete, Throw, Go, RunStates
<1>2. Once(f) /\ Alone(f) /\ extracts \in [Files -> Nat]
  BY <1>0 DEF OInv, JInv, JFile, TInv, RowsOK
<1>3. ASSUME NEW g \in Files \ {f} PROVE Once(g)'
  <2>1. extracts'[g] = extracts[g]
    BY <1>0, <1>2 DEF Processes, Begin, ReadFile, WriteHash, Check, Extract, ClearChunks,
                      CreateChunk, CreateInsight, Complete, Throw, rows
  <2>2. QED
    BY <1>0, <1>1, <2>1, OFrame DEF OInv
<1>4. ASSUME extracts'[f] = extracts[f], Fits(w, f) PROVE OInv'
  <2>1. Once(f)'
    BY <1>0, <1>1, <1>2, <1>4, OFrame
  <2>2. QED
    BY <1>3, <2>1 DEF OInv
<1>5. CASE Begin(w) \/ Throw(w)
  <2>1. UNCHANGED extracts /\ run'[w].pc \in {"mark", "read", "threw"}
    BY <1>0, <1>5 DEF Begin, Throw, Go, RunStates, rows
  <2>2. QED
    BY <1>0, <1>4, <2>1 DEF Fits, HasText, ToStore
<1>6. CASE ReadFile(w)
  <2>1. UNCHANGED extracts
    BY <1>6 DEF ReadFile, rows
  <2>2. CASE Go(w, "threw")
    <3>1. run'[w].pc = "threw"
      BY <1>0, <2>2 DEF Go, RunStates
    <3>2. QED
      BY <1>0, <1>4, <2>1, <3>1 DEF Fits, HasText, ToStore
  <2>3. CASE run' = [run EXCEPT ![w].pc = "hash", ![w].seen = f \in hash]
    <3>1. PICK v \in BOOLEAN : v = (f \in hash)
      <4>1. (f \in hash) \in BOOLEAN
        OBVIOUS
      <4>2. QED
        BY <4>1, Zenon
    <3>2. run'[w].pc = "hash" /\ run'[w].seen = v
      BY <1>0, <2>3, <3>1 DEF RunStates
    <3>3. f \notin overlap /\ ~v => extracts[f] = 0
      <4>1. f \notin overlap /\ extracts[f] > 0 => f \in hash
        BY <1>2 DEF Once
      <4>2. extracts[f] \in Nat
        BY <1>0, <1>2
      <4>3. ~v => f \notin hash
        BY <3>1, Zenon
      <4>4. QED
        BY <4>1, <4>2, <4>3
    <3>4. QED
      BY <1>0, <1>4, <2>1, <3>2, <3>3 DEF Fits, HasText, ToStore
  <2>4. QED
    BY <1>0, <1>6, <2>2, <2>3 DEF ReadFile
<1>7. CASE WriteHash(w)
  <2>1. /\ UNCHANGED extracts /\ run[w].pc = "hash" /\ run'[w].seen = run[w].seen
        /\ run'[w].pc = "threw" \/ (run'[w].pc = "check" /\ f \in hash')
    BY <1>0, <1>7 DEF WriteHash, Go, RunStates
  <2>2. f \notin overlap /\ ~run[w].seen => extracts[f] = 0
    BY <1>0, <1>2, <2>1 DEF Once, ToStore
  <2>3. QED
    BY <1>0, <1>4, <2>1, <2>2 DEF Fits, HasText, ToStore
<1>8. CASE Check(w)
  <2>1. /\ UNCHANGED extracts /\ run[w].pc = "check"
        /\ \/ run'[w].pc = "skip" /\ extracts[f] > 0
           \/ run'[w].pc = "extract" /\ (extracts[f] = 0 \/ ~run[w].seen)
    BY <1>0, <1>2, <1>8 DEF Check, Go, RunStates, rows
  <2>2. /\ f \notin overlap /\ ~run[w].seen => extracts[f] = 0
        /\ f \in hash \/ upload[f] = "deleted"
    BY <1>0, <1>2, <2>1 DEF Once, ToStore
  <2>3. QED
    BY <1>0, <1>4, <2>1, <2>2 DEF Fits, HasText, ToStore, Stored
<1>9. CASE Extract(w)
  <2>1. run[w].pc = "extract"
    BY <1>9 DEF Extract
  <2>2. CASE ~Listed(f)
    <3>1. UNCHANGED extracts /\ run'[w].pc = "threw"
      BY <1>0, <1>9, <2>2 DEF Extract, Go, RunStates
    <3>2. QED
      BY <1>0, <1>4, <3>1 DEF Fits, HasText, ToStore
  <2>3. CASE Listed(f)
    <3>1. /\ run'[w].pc = "clear" /\ extracts'[f] = extracts[f] + 1 /\ upload[f] # "deleted"
      BY <1>0, <1>2, <1>9, <2>3 DEF Extract, Go, RunStates, Listed
    <3>2. f \in hash /\ (f \notin overlap => extracts[f] = 0) /\ extracts[f] \in Nat
      BY <1>0, <1>2, <2>1, <3>1 DEF Once, ToStore
    <3>3. f \notin overlap => \A p \in Procs \ {w} : run'[p].file # f
      BY <1>0, <1>1, <1>2 DEF Alone
    <3>4. Stored(f)' /\ f \in hash'
      BY <1>0, <3>1, <3>2 DEF Stored
    <3>5. Once(f)'
      BY <1>0, <1>1, <1>2, <3>1, <3>2, <3>3, <3>4, Bounds DEF Once, Procs, HasText, ToStore
    <3>6. QED
      BY <1>3, <3>5 DEF OInv
  <2>4. QED
    BY <2>2, <2>3
<1>10. CASE ClearChunks(w) \/ CreateChunk(w) \/ CreateInsight(w) \/ Complete(w)
  <2>1. /\ UNCHANGED extracts /\ run[w].pc \in HasText
        /\ run'[w].pc \in {"chunk", "insight", "finish", "tender", "done", "threw"}
    <3>1. CASE ClearChunks(w) \/ CreateInsight(w) \/ Complete(w)
      BY <1>0, <3>1 DEF ClearChunks, CreateInsight, Complete, Go, RunStates, HasText
    <3>2. CASE CreateChunk(w)
      BY <1>0, <3>2 DEF CreateChunk, Go, RunStates, HasText
    <3>3. QED
      BY <1>10, <3>1, <3>2
  <2>2. Stored(f)
    BY <1>0, <1>2, <2>1 DEF Once
  <2>3. QED
    BY <1>0, <1>4, <2>1, <2>2 DEF Fits, ToStore
<1>11. QED
  BY <1>5, <1>6, <1>7, <1>8, <1>9, <1>10 DEF Processes

\* A worker ends or dies; only one that is done completes the BullMQ job.
LEMMA OEnds ==
  ASSUME TInv, OInv, NEW w \in Workers, Ack(w) \/ Nack(w) \/ Die(w)
  PROVE  OInv'
<1>. PICK f \in Files \cup {None} : f = run[w].file
  BY DEF TInv, RunOK, RunStates, Procs
<1>1. Rests(w) /\ UNCHANGED <<rows, overlap>>
  BY TypeAck, TypeNack, TypeDie DEF Ack, Nack, Die, history
<1>2. f \in Files
  <2>1. run[w].pc # "idle" /\ w \in Procs
    BY DEF Ack, Nack, Die, Procs
  <2>2. QED
    BY <2>1, HasFile
<1>3. Ack(w) => Stored(f)
  BY <1>2 DEF Ack, OInv, Once, HasText
<1>4. ASSUME NEW g \in Files, bull'[g].state = "completed"
      PROVE  bull[g].state = "completed" \/ Stored(g)
  <2>0. bull \in [Files -> BullJobs]
    BY DEF TInv, QueueOK
  <2>1. CASE g # f \/ Die(w)
    BY <1>2, <1>4, <2>0, <2>1 DEF Ack, Nack, Die
  <2>2. CASE g = f /\ Ack(w)
    BY <1>3, <2>2
  <2>3. CASE g = f /\ Nack(w)
    <3>0. bull[f] \in BullJobs
      BY <1>2, <2>0
    <3>1. CASE bull[f].lock = w
      <4>1. PICK s \in {"delayed", "failed"} : bull'[f] =
              [bull[f] EXCEPT !.state = s, !.lock = None, !.tries = bull[f].tries + 1]
        BY <1>2, <2>0, <2>3, <3>1 DEF Nack
      <4>2. bull'[f].state = s
        BY <3>0, <4>1 DEF BullJobs
      <4>3. QED
        BY <1>4, <2>3, <4>2
    <3>2. CASE bull[f].lock # w
      BY <1>4, <2>3, <3>2 DEF Nack
    <3>3. QED
      BY <3>1, <3>2
  <2>4. QED
    BY <2>1, <2>2, <2>3
<1>5. ASSUME NEW g \in Files PROVE Once(g)'
  <2>1. \A p \in Procs : run'[p] = run[p] \/ run'[p].file # g
    BY <1>1, Bounds DEF Rests
  <2>2. QED
    BY <1>1, <1>4, <2>1, OFrame DEF OInv, rows
<1>6. QED
  BY <1>5 DEF OInv

LEMMA OQueue ==
  ASSUME TInv, OInv, NEW f \in Files,
         Retry(f) \/ Stall(f) \/ OnFailed(f) \/ OnFailedLost(f)
  PROVE  OInv'
<1>1. UNCHANGED <<upload, extracts, hash, run>> /\ overlap \subseteq overlap'
  BY DEF Retry, Stall, OnFailed, OnFailedLost, rows, limits, history
<1>2. ASSUME NEW g \in Files, bull'[g].state = "completed" PROVE bull[g].state = "completed"
  <2>0. bull \in [Files -> BullJobs]
    BY DEF TInv, QueueOK
  <2>1. CASE Retry(f)
    BY <1>2, <2>0, <2>1 DEF Retry, BullJobs
  <2>2. CASE Stall(f)
    BY <1>2, <2>0, <2>2 DEF Stall, BullJobs
  <2>3. CASE OnFailed(f) \/ OnFailedLost(f)
    BY <1>2, <2>3 DEF OnFailed, OnFailedLost
  <2>4. QED
    BY <2>1, <2>2, <2>3
<1>3. ASSUME NEW g \in Files PROVE Once(g)'
  BY <1>1, <1>2, OFrame DEF OInv
<1>4. QED
  BY <1>3 DEF OInv

LEMMA ORequests ==
  ASSUME TInv, OInv, NEW f \in Files,
         Upload(f) \/ UploadDies(f) \/ Request(f) \/ StartDelete(f)
  PROVE  OInv'
<1>1. UNCHANGED <<run, overlap>>
  BY DEF Upload, UploadDies, Request, StartDelete, CreateProcessingJob, Enqueue, DeleteObject,
         DeleteRow, history
<1>2. ASSUME NEW g \in Files, bull'[g].state = "completed" PROVE bull[g].state = "completed"
  <2>0. bull \in [Files -> BullJobs]
    BY DEF TInv, QueueOK
  <2>1. bull' = bull \/ AddBull(f)
    BY DEF Upload, UploadDies, Request, StartDelete, CreateProcessingJob, Enqueue, DeleteObject,
           DeleteRow
  <2>2. QED
    BY <1>2, <2>0, <2>1 DEF AddBull, BullJobs
<1>3. ASSUME NEW g \in Files, ~(DeleteRow(f) /\ g = f) PROVE Once(g)'
  <2>1. /\ extracts'[g] = extracts[g]
        /\ g \in hash => g \in hash'
        /\ upload[g] = "deleted" => upload'[g] = "deleted"
    BY <1>3 DEF Upload, UploadDies, Request, StartDelete, CreateProcessingJob, Enqueue,
                DeleteObject, DeleteRow, TInv, RowsOK, rows
  <2>2. QED
    BY <1>1, <1>2, <2>1, OFrame DEF OInv
<1>4. ASSUME DeleteRow(f) PROVE Once(f)'
  BY <1>1, <1>4 DEF DeleteRow, Once, Stored, TInv, RowsOK
<1>5. QED
  BY <1>3, <1>4 DEF OInv

\* The list stores no text, and BullMQ completes no job by it.
LEMMA OList ==
  ASSUME TInv, OInv, NEW l \in Lists, Listings(l)
  PROVE  OInv'
<1>1. UNCHANGED <<upload, run, hash, extracts, overlap>>
  BY TypeLists
<1>2. ASSUME NEW g \in Files PROVE Once(g)'
  <2>1. bull'[g].state = "completed" => bull[g].state = "completed"
    BY TypeLists DEF ListWrites
  <2>2. QED
    BY <1>1, <2>1, OFrame DEF OInv
<1>3. QED
  BY <1>2 DEF OInv

LEMMA OStarts ==
  ASSUME TInv, OInv, NEW f \in Files,
         (\E w \in Workers : Take(w, f)) \/ (\E c \in Chats : Prepare(c, f))
  PROVE  OInv'
<1>1. PICK p \in Procs, pc \in {"begin", "count", "pending"} : Starts(p, f, pc)
  BY TypeTake, TypePrepare DEF Procs
<1>2. UNCHANGED <<upload, extracts, hash>> /\ overlap \subseteq overlap'
  BY DEF Take, Prepare, Begins, rows
<1>3. ASSUME NEW g \in Files, bull'[g].state = "completed" PROVE bull[g].state = "completed"
  BY <1>3 DEF Take, Prepare, TInv, QueueOK, BullJobs
<1>4. Fits(p, f)
  BY <1>1 DEF Starts, Fits, HasText, ToStore
<1>5. ASSUME NEW g \in Files PROVE Once(g)'
  <2>1. \A o \in Procs : run'[o] = run[o] \/ run'[o].file # g \/ Fits(o, g)
    BY <1>1, <1>4 DEF Starts
  <2>2. QED
    BY <1>2, <1>3, <2>1, OFrame DEF OInv
<1>6. QED
  BY <1>5 DEF OInv

\* A chat stores a text for a document without one only where it collides.
LEMMA OChat ==
  ASSUME TInv, JInv, OInv, NEW c \in Chats, Chat(c) \/ PrepareFails(c)
  PROVE  OInv'
<1>. PICK f \in Files \cup {None} : f = run[c].file
  BY DEF TInv, RunOK, RunStates, Procs
<1>0. /\ c \in Procs /\ run \in [Procs -> RunStates] /\ f \in Files /\ f = run[c].file
      /\ c \notin Workers /\ run[c] \in RunStates
      /\ UNCHANGED <<upload, hash, bull>> /\ overlap \subseteq overlap'
  <2>1. run[c].pc # "idle"
    BY DEF Chat, CountChunks, CreateChunkSafe, PersistExtract, WeighTender, SettleTender, PrepareFails
  <2>2. c \in Procs /\ run \in [Procs -> RunStates] /\ f \in Files /\ f = run[c].file
    BY <2>1, HasFile DEF Procs, TInv, RunOK
  <2>3. UNCHANGED <<upload, hash, bull>> /\ overlap \subseteq overlap'
    BY DEF Chat, CountChunks, CreateChunkSafe, PersistExtract, WeighTender, SettleTender, PrepareFails,
           rows, limits, history
  <2>4. QED
    BY <2>2, <2>3, Bounds
<1>1. run'[c].file \in {f, None} /\ \A p \in Procs \ {c} : run'[p] = run[p]
  BY <1>0, ChatMoves
<1>2. Once(f) /\ Alone(f) /\ extracts \in [Files -> Nat]
  BY <1>0 DEF OInv, JInv, JFile, TInv, RowsOK
<1>3. ASSUME NEW g \in Files \ {f} PROVE Once(g)'
  <2>1. extracts'[g] = extracts[g] /\ run'[c].file # g
    BY <1>0, <1>1, <1>2, Bounds DEF Chat, CountChunks, CreateChunkSafe, PersistExtract,
       WeighTender, SettleTender, PrepareFails, rows
  <2>2. QED
    BY <1>0, <1>1, <2>1, OFrame DEF OInv
<1>4. ASSUME extracts'[f] = extracts[f],
             run'[c].pc = "save" /\ f \notin overlap => extracts[f] = 0
      PROVE OInv'
  <2>1. Fits(c, f)
    BY <1>0, <1>4 DEF Fits
  <2>2. Once(f)'
    BY <1>0, <1>1, <1>2, <1>4, <2>1, OFrame
  <2>3. QED
    BY <1>3, <2>2 DEF OInv
<1>5. CASE ~PersistExtract(c)
  <2>1. UNCHANGED extracts
    BY <1>5 DEF Chat, CountChunks, CreateChunkSafe, WeighTender, SettleTender, PrepareFails, rows
  <2>2. run'[c].pc # "save"
    <3>1. CASE CountChunks(c) \/ WeighTender(c) \/ SettleTender(c)
      BY <1>0, <3>1 DEF CountChunks, WeighTender, SettleTender, Go, Idle, RunStates
    <3>2. CASE CreateChunkSafe(c)
      BY <1>0, <3>2 DEF CreateChunkSafe, RunStates
    <3>3. CASE PrepareFails(c)
      BY <1>0, <3>3 DEF PrepareFails, Idle, RunStates
    <3>4. QED
      BY <1>5, <3>1, <3>2, <3>3 DEF Chat
  <2>3. QED
    BY <1>4, <2>1, <2>2
<1>6. CASE PersistExtract(c) /\ ~(run[c].pc = "save" /\ Listed(f))
  <2>1. /\ UNCHANGED extracts
        /\ run'[c].pc = "save" => extracts[f] = 0
    BY <1>0, <1>2, <1>6 DEF PersistExtract, Go, RunStates
  <2>2. QED
    BY <1>4, <2>1
<1>7. CASE PersistExtract(c) /\ run[c].pc = "save" /\ Listed(f)
  <2>1. /\ extracts'[f] = extracts[f] + 1 /\ run'[c].pc = "wipe"
        /\ bull[f].state = "completed" \/ f \in overlap'
    BY <1>0, <1>2, <1>7 DEF PersistExtract, Go, RunStates
  <2>2. f \in overlap'
    <3>1. f \notin overlap => extracts[f] = 0
      BY <1>0, <1>2, <1>7 DEF Once
    <3>2. bull[f].state = "completed" => extracts[f] > 0
      BY <1>2, <1>7 DEF Once, Stored, Listed
    <3>3. QED
      BY <1>0, <2>1, <3>1, <3>2
  <2>3. Stored(f)'
    <3>1. PICK x \in Nat : x = extracts'[f]
      BY <1>0, <1>2, <2>1
    <3>2. x > 0
      BY <1>0, <1>2, <2>1, <3>1
    <3>3. QED
      BY <3>1, <3>2 DEF Stored
  <2>4. \A w \in Workers : run'[w] = run[w]
    BY <1>0, <1>1 DEF Procs
  <2>5. Once(f)'
    BY <1>0, <1>2, <2>2, <2>3, <2>4 DEF Once
  <2>6. QED
    BY <1>3, <2>5 DEF OInv
<1>8. QED
  BY <1>5, <1>6, <1>7

LEMMA ONext == TInv /\ JInv /\ OInv /\ [Next]_vars => OInv'
<1> SUFFICES ASSUME TInv, JInv, OInv, [Next]_vars PROVE OInv'
  OBVIOUS
<1>1. CASE \E f \in Files : Upload(f) \/ UploadDies(f) \/ Request(f) \/ StartDelete(f)
  BY <1>1, ORequests
<1>2. CASE \E f \in Files : Retry(f) \/ Stall(f) \/ OnFailed(f) \/ OnFailedLost(f)
  BY <1>2, OQueue
<1>3. CASE \E f \in Files : \/ \E w \in Workers : Take(w, f)
                            \/ \E c \in Chats : Prepare(c, f)
  BY <1>3, OStarts
<1>4. CASE \E w \in Workers : Processes(w) \/ Ack(w) \/ Nack(w) \/ Die(w)
  BY <1>4, OProcesses, OEnds
<1>5. CASE \E c \in Chats : Chat(c) \/ PrepareFails(c)
  BY <1>5, OChat
<1>6. CASE UNCHANGED vars
  BY <1>6, OFrame DEF OInv, vars, rows, limits, history
<1>7. CASE \E l \in Lists : Listings(l)
  BY <1>7, OList
<1>8. QED
  BY <1>1, <1>2, <1>3, <1>4, <1>5, <1>6, <1>7 DEF Next, Queue, Work, Processes, Listings

\* Once nobody works on a document its completed job means that every chunk of
\* it can be found, unless a process died in the middle of the cut or two
\* collided: neither the order of the writes nor a skip leaves a part out.  And
\* its text is stored once, through every retry, stall and crash.
THEOREM CompletedMeansIndexed == Spec => []CompletedIsSearchable
<1>1. Init => XInv /\ OInv
  BY XInit, OInit
<1>2. TInv /\ JInv /\ XInv /\ OInv /\ [Next]_vars => XInv' /\ OInv'
  BY XNext, ONext
<1>3. TInv /\ XInv /\ OInv => CompletedIsSearchable
  <2> SUFFICES ASSUME TInv, XInv, OInv PROVE CompletedIsSearchable
    OBVIOUS
  <2>1. \A f \in Files : extracts[f] \in Nat /\ (f \notin overlap => extracts[f] <= 1)
    BY DEF TInv, RowsOK, OInv, Once
  <2>2. ASSUME NEW f \in Files, job[f] = "COMPLETED", Quiet(f), f \notin torn \cup overlap
        PROVE  extracts[f] > 0 /\ chunks[f] = 1..Parts
    BY <2>2 DEF TInv, RowsOK, XInv, XFile, Extracted, Cut, Quiet, Running, Listed, Procs
  <2>3. QED
    BY <2>1, <2>2 DEF CompletedIsSearchable
<1>4. QED
  BY <1>1, <1>2, <1>3, JobsKept, PTL DEF Spec
=============================================================================
