------------------------- MODULE ExtractionPipeline -------------------------
(***************************************************************************)
(* From an uploaded document to text that can be searched: the upload, the *)
(* BullMQ job the workers of worker.ts process, the preparation a chat     *)
(* does of the same document, the list of an organisation's documents,     *)
(* which repairs the jobs it shows, and the deletion of a document.        *)
(*                                                                         *)
(* A document has one processing job, which has the same identity as its   *)
(* BullMQ job.  Its text and the chunks the text is cut into (Parts) are   *)
(* the same whoever reads it.  Notifications and OCR are left out: both    *)
(* can only fail or not.                                                   *)
(***************************************************************************)
EXTENDS Naturals, FiniteSets

CONSTANTS
  Files, Parts,      \* documents, and chunks of a document: 1..Parts
  Workers, Chats,    \* processes: extraction workers, preparations for a chat
  Lists,             \* requests for the list of documents under way at once: none
                     \* when the tender is not the profile of its organisation
  None,
  MaxTries,          \* attempts of EXTRACTION_JOB_OPTIONS
  MaxStalls,         \* BullMQ's maxStalledCount
  MaxFaults, MaxChats, MaxDeletes  \* bounds

ASSUME PipelineAssumption ==
  /\ Parts \in Nat \ {0} /\ MaxTries \in Nat \ {0} /\ MaxStalls \in Nat
  /\ {MaxFaults, MaxChats, MaxDeletes} \subseteq Nat
  /\ Workers \cap Chats = {} /\ None \notin Workers \cup Files

VARIABLES
  upload,    \* how far the request that uploads a document is
  object,    \* documents whose content is in storage
  job,       \* ProcessingJob.status
  tender,    \* Tender.status
  hash,      \* documents with a contentHash
  extracts,  \* number of TenderExtract rows
  chunks,    \* indices of the TenderChunk rows
  insights,  \* documents with a TenderInsight
  bull,      \* the BullMQ job
  handler,   \* worker.on("failed") of a document's job: the update it is at
  run,       \* the step of each worker and chat
  look,      \* GET /files as it repairs the jobs it shows
  deletion,  \* DELETE /files/:fileId
  faults, prepared, looked, deletes,
  torn,      \* history: documents some process left half indexed
  overlap,   \* history: documents two processes indexed at once, or a chat
             \* extracted before their job was over
  adrift     \* history: documents whose failed handler was lost or late, or
             \* whose job the list reset to QUEUED although BullMQ knew it

rows    == <<upload, object, job, tender, hash, extracts, chunks, insights>>
limits  == <<faults, prepared, looked, deletes>>
history == <<torn, overlap, adrift>>
vars    == <<rows, bull, handler, run, look, deletion, limits, history>>

Active == {"QUEUED", "PROCESSING"}
Settled == {"COMPLETED", "FAILED"}
BullJobs == [state : {"none", "waiting", "active", "delayed", "completed", "failed"},
             lock : Workers \cup {None}, tries : 0..MaxTries, stalls : 0..MaxStalls]
RunStates ==
  [pc : {"idle", "begin", "mark", "read", "hash", "check", "skip", "extract", "clear", "chunk",
         "insight", "finish", "tender", "done", "threw",
         "count", "fill", "pending", "have", "save", "wipe", "put", "weigh", "settle"},
   file : Files \cup {None}, seen : BOOLEAN, part : 1..Parts]

Idle    == [pc |-> "idle", file |-> None, seen |-> FALSE, part |-> 1]
NewBull == [state |-> "none", lock |-> None, tries |-> 0, stalls |-> 0]

\* A request for the list: the documents it still has to go through, those it
\* found an extract of, and the one whose job it has reset.
ListStates == [pc : {"idle", "extracts", "queue", "walk", "add"},
               left : SUBSET Files, have : SUBSET Files, file : Files \cup {None}]
NoList     == [pc |-> "idle", left |-> {}, have |-> {}, file |-> None]

Init ==
  /\ upload = [f \in Files |-> "none"] /\ object = {} /\ job = [f \in Files |-> "none"]
  /\ tender = "DRAFT" /\ hash = {}
  /\ extracts = [f \in Files |-> 0] /\ chunks = [f \in Files |-> {}] /\ insights = {}
  /\ bull = [f \in Files |-> NewBull] /\ handler = [f \in Files |-> "none"]
  /\ run = [p \in Workers \cup Chats |-> Idle]
  /\ look = [l \in Lists |-> NoList] /\ deletion = [f \in Files |-> "none"]
  /\ faults = 0 /\ prepared = 0 /\ looked = {} /\ deletes = 0
  /\ torn = {} /\ overlap = {} /\ adrift = {}

Listed(f)  == upload[f] \notin {"none", "deleted"}      \* the TenderFile row exists
Running(f) == {p \in Workers \cup Chats : run[p].file = f}
Fault      == faults < MaxFaults /\ faults' = faults + 1
UpdateJob(f, status) == job' = [job EXCEPT ![f] = status]

-----------------------------------------------------------------------------
(* The upload: four writes, any of which may be the last. *)

Upload(f) ==
  /\ upload[f] = "none"
  /\ upload' = [upload EXCEPT ![f] = "filed"]
  /\ object' = object \cup {f}
  /\ UNCHANGED <<job, tender, hash, extracts, chunks, insights, bull, handler, run, look,
                 deletion, limits, history>>

CreateProcessingJob(f) ==
  /\ \/ /\ upload[f] = "filed"
        /\ upload' = [upload EXCEPT ![f] = "listed"]
        /\ UpdateJob(f, "QUEUED")
        /\ UNCHANGED tender
     \/ /\ upload[f] = "listed"
        /\ upload' = [upload EXCEPT ![f] = "marked"]
        /\ tender' = "QUEUED"
        /\ UNCHANGED job
  /\ UNCHANGED <<object, hash, extracts, chunks, insights, bull, handler, run, look,
                 deletion, limits, history>>

\* queue.add with jobId: nothing happens when the queue knows the job, as it
\* does the last completed and failed ones.
AddBull(f) ==
  bull' = IF bull[f].state = "none" THEN [bull EXCEPT ![f].state = "waiting"] ELSE bull

Enqueue(f) ==
  /\ upload[f] = "marked"
  /\ upload' = [upload EXCEPT ![f] = "done"]
  /\ AddBull(f)
  /\ UNCHANGED <<object, job, tender, hash, extracts, chunks, insights, handler, run, look,
                 deletion, limits, history>>

UploadDies(f) ==
  /\ upload[f] \in {"filed", "listed", "marked"} /\ Fault
  /\ upload' = [upload EXCEPT ![f] = "died"]
  /\ UNCHANGED <<object, job, tender, hash, extracts, chunks, insights, bull, handler, run,
                 look, deletion, prepared, looked, deletes, history>>

-----------------------------------------------------------------------------
(* The worker: one action per call of the processor. *)

Begins(p, f, pc) ==
  /\ run' = [run EXCEPT ![p] = [Idle EXCEPT !.pc = pc, !.file = f]]
  /\ overlap' = IF Running(f) = {} THEN overlap ELSE overlap \cup {f}

Go(p, pc) == run' = [run EXCEPT ![p].pc = pc]

Take(w, f) ==
  /\ run[w].pc = "idle" /\ bull[f].state = "waiting"
  /\ bull' = [bull EXCEPT ![f].state = "active", ![f].lock = w]
  /\ Begins(w, f, "begin")
  /\ adrift' = IF handler[f] = "none" THEN adrift ELSE adrift \cup {f}
  /\ UNCHANGED <<rows, handler, look, deletion, limits, torn>>

\* The job is marked, then the tender.
Begin(w) ==
  LET f == run[w].file IN
  /\ \/ /\ run[w].pc = "begin"
        /\ IF job[f] = "none" THEN Go(w, "threw") /\ UNCHANGED job
           ELSE Go(w, "mark") /\ UpdateJob(f, "PROCESSING")
        /\ UNCHANGED tender
     \/ /\ run[w].pc = "mark"
        /\ Go(w, "read") /\ tender' = "PROCESSING"
        /\ UNCHANGED job
  /\ UNCHANGED <<upload, object, hash, extracts, chunks, insights, bull, handler, look,
                 deletion, limits, history>>

\* The row, with the hash it had, and the content.
ReadFile(w) ==
  LET f == run[w].file IN
  /\ run[w].pc = "read"
  /\ IF Listed(f) /\ f \in object
       THEN run' = [run EXCEPT ![w].pc = "hash", ![w].seen = f \in hash]
       ELSE Go(w, "threw")
  /\ UNCHANGED <<rows, bull, handler, look, deletion, limits, history>>

WriteHash(w) ==
  LET f == run[w].file IN
  /\ run[w].pc = "hash"
  /\ IF Listed(f) THEN Go(w, "check") /\ hash' = hash \cup {f}
                  ELSE Go(w, "threw") /\ UNCHANGED hash
  /\ UNCHANGED <<upload, object, job, tender, extracts, chunks, insights, bull, handler,
                 look, deletion, limits, history>>

CheckAndLeave(w) ==   \* mutant: a document that is skipped leaves its job as it is
  /\ run[w].pc = "check"
  /\ Go(w, IF extracts[run[w].file] > 0 /\ run[w].seen THEN "done" ELSE "extract")
  /\ UNCHANGED <<rows, bull, handler, look, deletion, limits, history>>

Check(w) ==
  /\ run[w].pc = "check"
  /\ Go(w, IF extracts[run[w].file] > 0 /\ run[w].seen THEN "skip" ELSE "extract")
  /\ UNCHANGED <<rows, bull, handler, look, deletion, limits, history>>

\* An insert for a document whose row is gone fails.
Extract(w) ==
  LET f == run[w].file IN
  /\ run[w].pc = "extract"
  /\ IF Listed(f) THEN Go(w, "clear") /\ extracts' = [extracts EXCEPT ![f] = @ + 1]
                  ELSE Go(w, "threw") /\ UNCHANGED extracts
  /\ UNCHANGED <<upload, object, job, tender, hash, chunks, insights, bull, handler, look,
                 deletion, limits, history>>

\* deleteMany, then one insert per chunk; an index that is taken is an error.
ClearChunks(w) ==
  /\ run[w].pc = "clear"
  /\ Go(w, "chunk")
  /\ chunks' = [chunks EXCEPT ![run[w].file] = {}]
  /\ UNCHANGED <<upload, object, job, tender, hash, extracts, insights, bull, handler, look,
                 deletion, limits, history>>

CreateChunkShort(w) ==   \* mutant: the last chunk is missed
  LET f == run[w].file
      i == run[w].part
  IN
  /\ run[w].pc = "chunk"
  /\ chunks' = [chunks EXCEPT ![f] = @ \cup {i}]
  /\ IF i >= Parts - 1 THEN Go(w, "insight") ELSE run' = [run EXCEPT ![w].part = i + 1]
  /\ UNCHANGED <<upload, object, job, tender, hash, extracts, insights, bull, handler, look,
                 deletion, limits, history>>

CreateChunk(w) ==
  LET f == run[w].file
      i == run[w].part
  IN
  /\ run[w].pc = "chunk"
  /\ IF Listed(f) /\ i \notin chunks[f]
       THEN /\ chunks' = [chunks EXCEPT ![f] = @ \cup {i}]
            /\ IF i = Parts THEN Go(w, "insight") ELSE run' = [run EXCEPT ![w].part = i + 1]
            /\ UNCHANGED torn
       ELSE Go(w, "threw") /\ torn' = torn \cup {f} /\ UNCHANGED chunks
  /\ UNCHANGED <<upload, object, job, tender, hash, extracts, insights, bull, handler, look,
                 deletion, limits, overlap, adrift>>

CreateInsight(w) ==
  LET f == run[w].file IN
  /\ run[w].pc = "insight"
  /\ IF Listed(f) THEN Go(w, "finish") /\ insights' = insights \cup {f}
                  ELSE Go(w, "threw") /\ UNCHANGED insights
  /\ UNCHANGED <<upload, object, job, tender, hash, extracts, chunks, bull, handler, look,
                 deletion, limits, history>>

Complete(w) ==
  LET f == run[w].file IN
  /\ \/ /\ run[w].pc \in {"skip", "finish"}
        /\ IF job[f] = "none" THEN Go(w, "threw") /\ UNCHANGED job
           ELSE Go(w, "tender") /\ UpdateJob(f, "COMPLETED")
        /\ UNCHANGED tender
     \/ /\ run[w].pc = "tender"
        /\ Go(w, "done") /\ tender' = "COMPLETED"
        /\ UNCHANGED job
  /\ UNCHANGED <<upload, object, hash, extracts, chunks, insights, bull, handler, look,
                 deletion, limits, history>>

Half == {"clear", "chunk", "insight", "fill", "wipe", "put"}   \* half indexed

Throw(w) ==
  /\ run[w].pc \notin {"idle", "done", "threw"} /\ Fault
  /\ Go(w, "threw")
  /\ torn' = IF run[w].pc \in Half THEN torn \cup {run[w].file} ELSE torn
  /\ UNCHANGED <<rows, bull, handler, look, deletion, prepared, looked, deletes, overlap, adrift>>

-----------------------------------------------------------------------------
(* BullMQ: acknowledgement, retries and stalled jobs (external). *)

Ack(w) ==
  LET f == run[w].file IN
  /\ run[w].pc = "done"
  /\ run' = [run EXCEPT ![w] = Idle]
  /\ bull' = IF bull[f].lock = w
               THEN [bull EXCEPT ![f].state = "completed", ![f].lock = None] ELSE bull
  /\ UNCHANGED <<rows, handler, look, deletion, limits, history>>

\* The job is retried later or fails; either way "failed" is emitted.
Nack(w) ==
  LET f == run[w].file
      tries == bull[f].tries + 1
  IN
  /\ run[w].pc = "threw"
  /\ run' = [run EXCEPT ![w] = Idle]
  /\ IF bull[f].lock = w
       THEN /\ bull' = [bull EXCEPT ![f] =
                 [@ EXCEPT !.state = IF tries < MaxTries THEN "delayed" ELSE "failed",
                           !.lock = None, !.tries = tries]]
            /\ handler' = [handler EXCEPT ![f] = "job"]
       ELSE UNCHANGED <<bull, handler>>
  /\ UNCHANGED <<rows, look, deletion, limits, history>>

Retry(f) ==
  /\ bull[f].state = "delayed"
  /\ bull' = [bull EXCEPT ![f].state = "waiting"]
  /\ UNCHANGED <<rows, handler, run, look, deletion, limits, history>>

StallKeepsLock(f) ==   \* mutant: the lock is not released
  LET blocked == run[bull[f].lock].file = f IN
  /\ bull[f].state = "active" /\ bull[f].stalls < MaxStalls
  /\ IF blocked THEN Fault ELSE UNCHANGED faults
  /\ bull' = [bull EXCEPT ![f].state = "waiting", ![f].stalls = @ + 1]
  /\ overlap' = IF blocked THEN overlap \cup {f} ELSE overlap
  /\ UNCHANGED <<rows, handler, run, look, deletion, prepared, looked, deletes, torn, adrift>>

\* The lock of a dead or blocked worker runs out.
Stall(f) ==
  LET w == bull[f].lock
      blocked == run[w].file = f
  IN
  /\ bull[f].state = "active"
  /\ IF blocked THEN Fault ELSE UNCHANGED faults
  /\ IF bull[f].stalls < MaxStalls
       THEN /\ bull' = [bull EXCEPT ![f].state = "waiting", ![f].lock = None,
                                    ![f].stalls = @ + 1]
            /\ UNCHANGED handler
       ELSE /\ bull' = [bull EXCEPT ![f].state = "failed", ![f].lock = None]
            /\ handler' = [handler EXCEPT ![f] = "job"]
  /\ overlap' = IF blocked THEN overlap \cup {f} ELSE overlap
  /\ UNCHANGED <<rows, run, look, deletion, prepared, looked, deletes, torn, adrift>>

Die(w) ==
  /\ run[w].pc # "idle" /\ Fault
  /\ run' = [run EXCEPT ![w] = Idle]
  /\ torn' = IF run[w].pc \in Half THEN torn \cup {run[w].file} ELSE torn
  /\ UNCHANGED <<rows, bull, handler, look, deletion, prepared, looked, deletes, overlap, adrift>>

OnFailedTender(f) ==   \* mutant: only the tender is updated
  /\ handler[f] # "none"
  /\ handler' = [handler EXCEPT ![f] = "none"] /\ tender' = "FAILED"
  /\ UNCHANGED <<upload, object, job, hash, extracts, chunks, insights, bull, run, look, deletion,
                 limits, history>>

\* worker.on("failed"): the job, then the tender; an error ends it.
OnFailed(f) ==
  /\ \/ /\ handler[f] = "job"
        /\ IF job[f] = "none"
             THEN handler' = [handler EXCEPT ![f] = "none"] /\ UNCHANGED job
             ELSE handler' = [handler EXCEPT ![f] = "tender"] /\ UpdateJob(f, "FAILED")
        /\ UNCHANGED tender
     \/ /\ handler[f] = "tender"
        /\ handler' = [handler EXCEPT ![f] = "none"] /\ tender' = "FAILED"
        /\ UNCHANGED job
  /\ UNCHANGED <<upload, object, hash, extracts, chunks, insights, bull, run, look, deletion,
                 limits, history>>

OnFailedLost(f) ==
  /\ handler[f] # "none" /\ Fault
  /\ handler' = [handler EXCEPT ![f] = "none"]
  /\ adrift' = adrift \cup {f}
  /\ UNCHANGED <<rows, bull, run, look, deletion, prepared, looked, deletes, torn, overlap>>

-----------------------------------------------------------------------------
(* The preparation for a chat, of one document. *)

\* ensureChunksFromExtracts: a document with an extract and no chunk is cut.
Prepare(c, f) ==
  /\ run[c].pc = "idle" /\ Listed(f) /\ prepared < MaxChats
  /\ prepared' = prepared + 1
  /\ Begins(c, f, IF extracts[f] > 0 THEN "count" ELSE "pending")
  /\ UNCHANGED <<rows, bull, handler, look, deletion, faults, looked, deletes, torn, adrift>>

CountChunks(c) ==
  LET f == run[c].file IN
  /\ \/ /\ run[c].pc = "count"
        /\ Go(c, IF chunks[f] = {} THEN "fill" ELSE "pending")
     \/ /\ run[c].pc = "pending"
        /\ Go(c, IF chunks[f] = {} /\ f \in object /\ Listed(f) THEN "have" ELSE "weigh")
  /\ UNCHANGED <<rows, bull, handler, look, deletion, limits, history>>

\* createChunkSafe, in either phase; an error ends the phase.
CreateChunkSafe(c) ==
  LET f == run[c].file
      i == run[c].part
      next == IF run[c].pc = "fill" THEN "pending" ELSE "weigh"
  IN
  /\ run[c].pc \in {"fill", "put"}
  /\ chunks' = IF Listed(f) THEN [chunks EXCEPT ![f] = @ \cup {i}] ELSE chunks
  /\ run' = IF i = Parts \/ ~Listed(f) THEN [run EXCEPT ![c].pc = next, ![c].part = 1]
                                       ELSE [run EXCEPT ![c].part = i + 1]
  /\ UNCHANGED <<upload, object, job, tender, hash, extracts, insights, bull, handler, look,
                 deletion, limits, history>>

\* persistExtractAndChunks
PersistExtract(c) ==
  LET f == run[c].file IN
  /\ \/ /\ run[c].pc = "have"
        /\ Go(c, IF extracts[f] > 0 THEN "wipe" ELSE "save")
        /\ UNCHANGED <<extracts, chunks, overlap>>
     \/ /\ run[c].pc = "save"
        /\ IF Listed(f) THEN Go(c, "wipe") /\ extracts' = [extracts EXCEPT ![f] = @ + 1]
                        ELSE Go(c, "weigh") /\ UNCHANGED extracts
        /\ overlap' = IF bull[f].state = "completed" THEN overlap ELSE overlap \cup {f}
        /\ UNCHANGED chunks
     \/ /\ run[c].pc = "wipe"
        /\ Go(c, "put") /\ chunks' = [chunks EXCEPT ![f] = {}]
        /\ UNCHANGED <<extracts, overlap>>
  /\ UNCHANGED <<upload, object, job, tender, hash, insights, bull, handler, look, deletion,
                 limits, torn, adrift>>

\* reconcileTenderStatusForChat: what it reads, and what it writes.
WeighTender(c) ==
  /\ run[c].pc = "weigh"
  /\ IF /\ tender \notin Settled /\ (\A f \in Files : job[f] \notin Active)
        /\ \E f \in Files : chunks[f] # {}
       THEN Go(c, "settle") ELSE run' = [run EXCEPT ![c] = Idle]
  /\ UNCHANGED <<rows, bull, handler, look, deletion, limits, history>>

SettleTender(c) ==
  /\ run[c].pc = "settle"
  /\ tender' = "COMPLETED"
  /\ run' = [run EXCEPT ![c] = Idle]
  /\ UNCHANGED <<upload, object, job, hash, extracts, chunks, insights, bull, handler, look,
                 deletion, limits, history>>

\* An error ends the phase, death the preparation.
PrepareFails(c) ==
  LET pc == run[c].pc IN
  /\ pc # "idle" /\ Fault
  /\ run' = [run EXCEPT ![c] =
       CASE pc \in {"count", "fill"} -> [@ EXCEPT !.pc = "pending", !.part = 1]
         [] pc \in {"pending", "have", "save", "wipe", "put"} -> [@ EXCEPT !.pc = "weigh"]
         [] OTHER -> Idle]
  /\ torn' = IF pc \in Half THEN torn \cup {run[c].file} ELSE torn
  /\ UNCHANGED <<rows, bull, handler, look, deletion, prepared, looked, deletes, overlap, adrift>>

-----------------------------------------------------------------------------
(* The list of an organisation's documents, and the deletion of one. *)

InQueue(f) == bull[f].state \in {"waiting", "active", "delayed"}

\* The request goes on with the documents left; it is over when there are none.
Walk(l, left) ==
  look' = [look EXCEPT ![l] = IF left = {} THEN NoList ELSE [@ EXCEPT !.pc = "walk", !.left = left]]

\* GET /files reads the jobs that are not over, ...
LookAtJobs(l) ==
  /\ look[l].pc = "idle" /\ \E f \in Files : job[f] \in Active
  /\ look' = [look EXCEPT ![l].pc = "extracts", ![l].left = {f \in Files : job[f] \in Active}]
  /\ UNCHANGED <<rows, bull, handler, run, deletion, limits, history>>

\* ... which documents have an extract, ...
LookAtExtracts(l) ==
  /\ look[l].pc = "extracts"
  /\ look' = [look EXCEPT ![l].pc = "queue", ![l].have = {f \in look[l].left : extracts[f] > 0}]
  /\ UNCHANGED <<rows, bull, handler, run, deletion, limits, history>>

\* ... and the queue, whose jobs are left to it.
LookAtQueue(l) ==
  LET left == look[l].have \cup {f \in look[l].left : ~InQueue(f)} IN
  /\ look[l].pc = "queue"
  /\ Walk(l, left)
  /\ looked' = looked \cup (look[l].left \ left)
  /\ UNCHANGED <<rows, bull, handler, run, deletion, faults, prepared, deletes, history>>

\* One document after the other: a job whose document has an extract is
\* completed, another one reset; the update of a row that is gone throws.
ReconcileJob(l) ==
  /\ look[l].pc = "walk"
  /\ \E f \in look[l].left :
       \/ /\ job[f] = "none"
          /\ look' = [look EXCEPT ![l] = NoList]
          /\ UNCHANGED <<job, looked, adrift>>
       \/ /\ job[f] # "none" /\ f \in look[l].have
          /\ UpdateJob(f, "COMPLETED") /\ looked' = looked \cup {f}
          /\ Walk(l, look[l].left \ {f})
          /\ UNCHANGED adrift
       \/ /\ job[f] # "none" /\ f \notin look[l].have
          /\ UpdateJob(f, "QUEUED")
          /\ look' = [look EXCEPT ![l].pc = "add", ![l].file = f]
          /\ adrift' = IF bull[f].state = "none" THEN adrift ELSE adrift \cup {f}
          /\ UNCHANGED looked
  /\ UNCHANGED <<upload, object, tender, hash, extracts, chunks, insights, bull, handler, run,
                 deletion, faults, prepared, deletes, torn, overlap>>

ForgetToQueue(l) ==   \* mutant: the row is reset and nothing is queued
  /\ look[l].pc = "add"
  /\ looked' = looked \cup {look[l].file}
  /\ Walk(l, look[l].left \ {look[l].file})
  /\ UNCHANGED <<rows, bull, handler, run, deletion, faults, prepared, deletes, history>>

\* The job that was reset is queued again.
QueueAgain(l) ==
  LET f == look[l].file IN
  /\ look[l].pc = "add"
  /\ AddBull(f)
  /\ looked' = looked \cup {f}
  /\ Walk(l, look[l].left \ {f})
  /\ UNCHANGED <<rows, handler, run, deletion, faults, prepared, deletes, history>>

\* A call that throws, or the death of the API process, ends the request
\* wherever it is: the documents left are not gone through.
ListFails(l) ==
  /\ look[l].pc # "idle" /\ Fault
  /\ look' = [look EXCEPT ![l] = NoList]
  /\ UNCHANGED <<rows, bull, handler, run, deletion, prepared, looked, deletes, history>>

StartDelete(f) ==
  /\ upload[f] \in {"done", "died"} /\ deletion[f] = "none" /\ deletes < MaxDeletes
  /\ job[f] \notin Active
  /\ deletes' = deletes + 1
  /\ deletion' = [deletion EXCEPT ![f] = "object"]
  /\ UNCHANGED <<rows, bull, handler, run, look, faults, prepared, looked, history>>

DeleteObject(f) ==
  /\ deletion[f] = "object"
  /\ object' = object \ {f}
  /\ deletion' = [deletion EXCEPT ![f] = "row"]
  /\ UNCHANGED <<upload, job, tender, hash, extracts, chunks, insights, bull, handler, run,
                 look, limits, history>>

\* The row and, by cascade, everything that refers to it.
DeleteRow(f) ==
  /\ deletion[f] = "row"
  /\ deletion' = [deletion EXCEPT ![f] = "none"]
  /\ upload' = [upload EXCEPT ![f] = "deleted"]
  /\ UpdateJob(f, "none") /\ hash' = hash \ {f} /\ insights' = insights \ {f}
  /\ extracts' = [extracts EXCEPT ![f] = 0] /\ chunks' = [chunks EXCEPT ![f] = {}]
  /\ UNCHANGED <<object, tender, bull, handler, run, look, limits, history>>

-----------------------------------------------------------------------------
Work(w) ==
  \/ Begin(w) \/ ReadFile(w) \/ WriteHash(w) \/ Check(w) \/ Extract(w) \/ ClearChunks(w)
  \/ CreateChunk(w) \/ CreateInsight(w) \/ Complete(w) \/ Ack(w) \/ Nack(w)
Chat(c) ==
  \/ CountChunks(c) \/ CreateChunkSafe(c) \/ PersistExtract(c) \/ WeighTender(c)
  \/ SettleTender(c)
Request(f) == CreateProcessingJob(f) \/ Enqueue(f) \/ DeleteObject(f) \/ DeleteRow(f)
List(l) == LookAtExtracts(l) \/ LookAtQueue(l) \/ ReconcileJob(l) \/ QueueAgain(l)
Queue(f) == \/ Retry(f) \/ OnFailed(f) \/ \E w \in Workers : Take(w, f)

Next ==
  \/ \E f \in Files : \/ Upload(f) \/ UploadDies(f) \/ Request(f) \/ Queue(f) \/ Stall(f)
                      \/ OnFailedLost(f) \/ StartDelete(f)
  \/ \E w \in Workers : Work(w) \/ Throw(w) \/ Die(w)
  \/ \E c \in Chats : Chat(c) \/ PrepareFails(c) \/ \E f \in Files : Prepare(c, f)
  \/ \E l \in Lists : LookAtJobs(l) \/ List(l) \/ ListFails(l)

Spec == Init /\ [][Next]_vars

Abandoned(f) == bull[f].state = "active" /\ run[bull[f].lock].file # f

\* Processes that live go on, BullMQ hands out jobs and notices dead workers.
FairSpec ==
  /\ Spec
  /\ \A w \in Workers : WF_vars(Work(w))
  /\ \A c \in Chats : WF_vars(Chat(c))
  /\ \A l \in Lists : WF_vars(List(l))
  /\ \A f \in Files : /\ WF_vars(Request(f)) /\ WF_vars(Queue(f))
                       /\ WF_vars(Abandoned(f) /\ Stall(f))

\* The page that shows the documents asks for them again while one is active.
PollSpec == FairSpec /\ \A l \in Lists : WF_vars(LookAtJobs(l))

-----------------------------------------------------------------------------
TypeOK ==
  /\ upload \in [Files -> {"none", "filed", "listed", "marked", "done", "died", "deleted"}]
  /\ object \cup hash \cup insights \cup torn \cup overlap \cup adrift \subseteq Files
  /\ job \in [Files -> {"none"} \cup Active \cup Settled]
  /\ tender \in {"DRAFT"} \cup Active \cup Settled
  /\ extracts \in [Files -> Nat] /\ chunks \in [Files -> SUBSET (1..Parts)]
  /\ bull \in [Files -> BullJobs] /\ handler \in [Files -> {"none", "job", "tender"}]
  /\ \A f \in Files : (bull[f].state = "active") <=> (bull[f].lock # None)
  /\ run \in [Workers \cup Chats -> RunStates]
  /\ look \in [Lists -> ListStates]
  /\ deletion \in [Files -> {"none", "object", "row"}]
  /\ faults \in 0..MaxFaults /\ prepared \in 0..MaxChats
  /\ looked \subseteq Files /\ deletes \in 0..MaxDeletes

\* Nobody works on a document.
Quiet(f) ==
  /\ upload[f] \in {"done", "died"} /\ deletion[f] = "none"
  /\ \A l \in Lists : f \notin look[l].left
  /\ Running(f) = {} /\ handler[f] = "none" /\ ~InQueue(f)

\* A document whose job is completed has all its chunks, and its text once, when
\* nobody works on it, unless somebody left it half indexed or two processes
\* collided; short of a collision no retry ever stores the text again.
CompletedIsSearchable ==
  /\ \A f \in Files : (job[f] = "COMPLETED" /\ Quiet(f) /\ f \notin torn \cup overlap)
                       => chunks[f] = 1..Parts /\ extracts[f] = 1
  /\ \A f \in Files \ overlap : extracts[f] <= 1

\* Row and BullMQ may have come apart.
Apart(f) == f \in adrift \cup overlap \/ upload[f] = "died"

\* A job whose row says that it is queued or in process is in BullMQ's hands,
\* wherever requests for the list stop, unless the two came apart.
NobodyForgotten ==
  \A f \in Files : (Quiet(f) /\ job[f] \in Active) => Apart(f)

\* A request for the list that has gone through a document, even one whose
\* upload died, leaves its job in BullMQ's hands, with two exceptions: its
\* failed handler was lost or late or BullMQ knew the job when it was reset, and
\* two processes collided.
ListRepairs ==
  \A f \in Files : (Quiet(f) /\ job[f] \in Active /\ f \in looked) => f \in adrift \cup overlap

\* The job of an uploaded document is completed or failed in the end, with the
\* same exceptions.
UploadedIsSettled ==
  \A f \in Files : (job[f] \in Active) ~> (job[f] \notin Active \/ Apart(f))

\* "Document is still processing. Try deleting again shortly.": shortly it can be.
StillProcessingEnds == \A f \in Files : (job[f] \in Active) ~> (job[f] \notin Active)
=============================================================================
