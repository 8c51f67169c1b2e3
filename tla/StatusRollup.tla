---------------------------- MODULE StatusRollup ----------------------------
(***************************************************************************)
(* How the status of a document follows the status of its page jobs, and   *)
(* the status of a batch that of its documents (recompute_document_status  *)
(* and recompute_batch_status of batches/repositories.py), when several    *)
(* database sessions do it at the same time.                               *)
(*                                                                         *)
(* Every handler that moves a job recomputes both in the same transaction. *)
(* PostgreSQL runs the transactions at READ COMMITTED: a session sees its  *)
(* own writes and what others have committed; an UPDATE waits until no     *)
(* other open transaction has written the row, a SELECT never waits.  Each *)
(* SELECT and each UPDATE is a step here.                                  *)
(*                                                                         *)
(* Who moves a job, and when, is the business of OcrJobs; here a job makes *)
(* any move its repository function allows.  A clean ORM object is dropped *)
(* when the function that loaded it returns, so a row is read anew by      *)
(* every recomputation.                                                    *)
(***************************************************************************)
EXTENDS Naturals, FiniteSets

CONSTANTS
  Jobs,      \* page jobs
  Documents, \* the documents of one batch
  DocumentOf,\* the document of each job
  Batch,     \* the batch
  Sessions,  \* requests, workers and periodic tasks at work at once
  Reopens    \* how many retries there may be: bounds the model

ASSUME StatusRollupAssumption ==
  /\ DocumentOf \in [Jobs -> Documents]
  /\ Batch \notin Documents
  /\ Reopens \in Nat

VARIABLES
  job,      \* ocr_jobs.status, as committed
  shown,    \* documents.status and batches.status, as committed
  kind,     \* what each session is doing
  pc,       \* where it is
  moved,    \* the jobs it moves
  todo,     \* the rows it has still to recompute
  target,   \* the row it is recomputing
  next,     \* the status it has read; then next_status, or NoWrite when they agree
  wrote,    \* what it has written to rows and not committed, else NoWrite
  alone,    \* history: no other session was at work since it started
  reopened, \* history: jobs that were open again after being settled
  left      \* what remains of Reopens

sessionVars == <<kind, pc, moved, todo, target, next, wrote, alone>>
vars == <<job, shown, sessionVars, reopened, left>>

Rows    == Documents \cup {Batch}
NoWrite == "noWrite"
Open    == {"PENDING", "PROCESSING"}
Settled == {"COMPLETED", "FAILED", "CANCELLED"}
JobStatus == {"ABSENT"} \cup Open \cup Settled
RowStatus == {"ABSENT", "UPLOADED", "PROCESSING", "PROCESSED", "FAILED",
              "CANCELLED", "DRAFT", "COMPLETED"}

\* The repository functions that move jobs: from which status, and to which.
Move(from, to) == [from |-> from, to |-> to]
Moves == [mark_processing        |-> Move({"PENDING"}, "PROCESSING"),
          mark_completed         |-> Move({"PROCESSING"}, "COMPLETED"),
          mark_failed            |-> Move(Open, "FAILED"),
          mark_cancelled         |-> Move(Open \cup {"CANCELLED"}, "CANCELLED"),
          mark_pending_for_retry |-> Move({"FAILED", "CANCELLED"}, "PENDING"),
          cancel_batch           |-> Move(Open, "CANCELLED"),
          recover                |-> Move({"PROCESSING"}, "FAILED"),
          submit_failed          |-> Move({"PENDING"}, "FAILED")]

\* The handlers that move one job.
OneJob == {"mark_processing", "mark_completed", "mark_failed", "mark_cancelled",
           "mark_pending_for_retry"}
Kind == DOMAIN Moves \cup {"idle", "ingest", "fetched"}

DocumentsOf(js) == {DocumentOf[j] : j \in js}
PagesOf(d) == {j \in Jobs : DocumentOf[j] = d}

Init ==
  /\ job      = [j \in Jobs |-> "ABSENT"]
  /\ shown    = [x \in Rows |-> IF x = Batch THEN "DRAFT" ELSE "ABSENT"]
  /\ kind     = [s \in Sessions |-> "idle"]
  /\ pc       = [s \in Sessions |-> "idle"]
  /\ moved    = [s \in Sessions |-> {}]
  /\ todo     = [s \in Sessions |-> {}]
  /\ target   = [s \in Sessions |-> Batch]
  /\ next     = [s \in Sessions |-> NoWrite]
  /\ wrote    = [s \in Sessions |-> [x \in Rows |-> NoWrite]]
  /\ alone    = [s \in Sessions |-> TRUE]
  /\ reopened = {}
  /\ left     = Reopens

-----------------------------------------------------------------------------
(* The two aggregations *)

\* Mutant: a page that is queued does not hold its document back.
DocumentStatusOfRunning(js) ==
  IF "PROCESSING" \in js THEN "PROCESSING"
  ELSE IF js = {"FAILED"} THEN "FAILED"
  ELSE IF "CANCELLED" \in js /\ "COMPLETED" \notin js THEN "CANCELLED"
  ELSE "PROCESSED"

\* recompute_document_status: from the statuses of the document's jobs.
DocumentStatus(js) ==
  IF js \cap Open # {} THEN "PROCESSING"
  ELSE IF js = {"FAILED"} THEN "FAILED"
  ELSE IF "CANCELLED" \in js /\ "COMPLETED" \notin js THEN "CANCELLED"
  ELSE "PROCESSED"

\* recompute_batch_status: from the statuses of the batch's documents.
BatchStatus(ds) ==
  IF ds = {"PROCESSED"} THEN "COMPLETED"
  ELSE IF "FAILED" \in ds THEN "FAILED"
  ELSE IF "PROCESSING" \in ds THEN "PROCESSING"
  ELSE IF "CANCELLED" \in ds THEN "CANCELLED"
  ELSE "DRAFT"

\* What the rows should show, given job statuses and document statuses.
StatusOfPages(jobs, d) == DocumentStatus({jobs[j] : j \in PagesOf(d)})
StatusOfDocuments(rows) == BatchStatus({rows[d] : d \in Documents} \ {"ABSENT"})

-----------------------------------------------------------------------------
(* Sessions *)

\* A session holds the rows it has written until its transaction ends.  The
\* claim of a job commits at once, before it recomputes anything.
HoldsJobs(s) ==
  IF pc[s] \in {"read", "select", "write"} /\ kind[s] # "mark_processing"
  THEN moved[s] ELSE {}

\* What a session sees of jobs and rows.
JobSeen(s) ==
  [j \in Jobs |-> IF j \in HoldsJobs(s) THEN Moves[kind[s]].to ELSE job[j]]
RowSeen(s) ==
  [x \in Rows |-> IF wrote[s][x] # NoWrite THEN wrote[s][x] ELSE shown[x]]

\* A session starts: no one else is alone any more, and it is if no one else is
\* at work.
Start(s, k, js, at) ==
  /\ pc[s] = "idle"
  /\ kind'  = [kind EXCEPT ![s] = k]
  /\ pc'    = [pc EXCEPT ![s] = at]
  /\ moved' = [moved EXCEPT ![s] = js]
  /\ alone' = [u \in Sessions |->
                 IF u = s THEN \A v \in Sessions \ {s} : pc[v] = "idle" ELSE FALSE]

End(s) ==
  /\ kind'   = [kind EXCEPT ![s] = "idle"]
  /\ pc'     = [pc EXCEPT ![s] = "idle"]
  /\ moved'  = [moved EXCEPT ![s] = {}]
  /\ todo'   = [todo EXCEPT ![s] = {}]
  /\ target' = [target EXCEPT ![s] = Batch]
  /\ next'   = [next EXCEPT ![s] = NoWrite]
  /\ wrote'  = [wrote EXCEPT ![s] = [x \in Rows |-> NoWrite]]
  /\ alone'  = [alone EXCEPT ![s] = TRUE]

\* Mutant: a retry recomputes nothing.
BeginWithoutRollup(s, k, js) ==
  /\ Start(s, k, js, "update")
  /\ \A j \in js : job[j] \in Moves[k].from
  /\ todo' = [todo EXCEPT ![s] = IF k = "mark_pending_for_retry" THEN {}
                                 ELSE DocumentsOf(js) \cup {Batch}]
  /\ left' = IF k = "mark_pending_for_retry" THEN left - 1 ELSE left
  /\ left' \in Nat
  /\ UNCHANGED <<job, shown, target, next, wrote, reopened>>

\* A handler SELECTs jobs and checks that they may move.
Begin(s, k, js) ==
  /\ Start(s, k, js, "update")
  /\ \A j \in js : job[j] \in Moves[k].from
  /\ todo' = [todo EXCEPT ![s] = DocumentsOf(js) \cup {Batch}]
  /\ left' = IF k = "mark_pending_for_retry" THEN left - 1 ELSE left
  /\ left' \in Nat
  /\ UNCHANGED <<job, shown, target, next, wrote, reopened>>

MoveOneJob(s) == \E k \in OneJob, j \in Jobs : Begin(s, k, {j})

\* cancel_batch_processing takes every open job of the batch.
CancelBatch(s) ==
  LET open == {j \in Jobs : job[j] \in Open} IN
  open # {} /\ Begin(s, "cancel_batch", open)

\* recover_stale_jobs takes the jobs that are too old, recover_interrupted_jobs
\* all that are PROCESSING.
Recover(s) == \E js \in SUBSET Jobs : js # {} /\ Begin(s, "recover", js)

\* _ingest_one_file inserts a document with its page jobs and commits; it
\* recomputes nothing.
Ingest(s, d) ==
  /\ shown[d] = "ABSENT"
  /\ PagesOf(d) # {}
  /\ Start(s, "ingest", PagesOf(d), "submit")
  /\ shown' = [shown EXCEPT ![d] = "UPLOADED"]
  /\ job'   = [j \in Jobs |-> IF j \in PagesOf(d) THEN "PENDING" ELSE job[j]]
  /\ UNCHANGED <<todo, target, next, wrote, reopened, left>>

\* The end of run_onedrive_fetch recomputes the batch.
Fetched(s) ==
  /\ Start(s, "fetched", {}, "read")
  /\ \E d \in Documents : shown[d] # "ABSENT"
  /\ todo' = [todo EXCEPT ![s] = {Batch}]
  /\ UNCHANGED <<job, shown, target, next, wrote, reopened, left>>

\* The UPDATE of the jobs waits for their locks, and does not check again.
UpdateJobs(s) ==
  /\ pc[s] = "update"
  /\ \A u \in Sessions \ {s} : HoldsJobs(u) \cap moved[s] = {}
  /\ pc' = [pc EXCEPT ![s] = "read"]
  /\ IF kind[s] = "mark_processing"
     THEN /\ job' = [j \in Jobs |-> IF j \in moved[s] THEN "PROCESSING" ELSE job[j]]
          /\ reopened' = reopened \cup {j \in moved[s] : job[j] \in Settled}
     ELSE UNCHANGED <<job, reopened>>
  /\ UNCHANGED <<shown, kind, moved, todo, target, next, wrote, alone, left>>

\* The batch comes after the documents, except in _recompute_status_for_jobs:
\* there it comes right after the document of the first job.
BatchIsNext(s) ==
  /\ Batch \in todo[s]
  /\ \/ todo[s] = {Batch}
     \/ kind[s] = "recover" /\ ~ (DocumentsOf(moved[s]) \subseteq todo[s])

\* A recomputation reads its row ...
ReadRow(s, x) ==
  /\ pc[s] = "read"
  /\ x \in todo[s]
  /\ x = Batch <=> BatchIsNext(s)
  /\ pc'     = [pc EXCEPT ![s] = "select"]
  /\ target' = [target EXCEPT ![s] = x]
  /\ next'   = [next EXCEPT ![s] = RowSeen(s)[x]]
  /\ UNCHANGED <<job, shown, kind, moved, todo, wrote, alone, reopened, left>>

\* ... then the statuses of what belongs to it, and decides.
Recompute(s, x, status) ==
  /\ pc[s] = "select"
  /\ target[s] = x
  /\ pc'     = [pc EXCEPT ![s] = "write"]
  /\ todo'   = [todo EXCEPT ![s] = @ \ {x}]
  /\ next'   = [next EXCEPT ![s] = IF @ = status THEN NoWrite ELSE status]
  /\ UNCHANGED <<job, shown, kind, moved, target, wrote, alone, reopened, left>>

RecomputeDocument(s, d) == Recompute(s, d, StatusOfPages(JobSeen(s), d))
RecomputeBatch(s) == Recompute(s, Batch, StatusOfDocuments(RowSeen(s)))

\* The UPDATE of a document or the batch, if there is one.
WriteRow(s) ==
  /\ pc[s] = "write"
  /\ next[s] # NoWrite =>
       \A u \in Sessions \ {s} : wrote[u][target[s]] = NoWrite
  /\ pc' = [pc EXCEPT ![s] = "read"]
  /\ wrote' = IF next[s] = NoWrite THEN wrote
              ELSE [wrote EXCEPT ![s][target[s]] = next[s]]
  /\ next' = [next EXCEPT ![s] = NoWrite]
  /\ UNCHANGED <<job, shown, kind, moved, todo, target, alone, reopened, left>>

\* The commit.  A retry goes on to submit its job.
Commit(s) ==
  /\ pc[s] = "read"
  /\ todo[s] = {}
  /\ job'   = JobSeen(s)
  /\ shown' = RowSeen(s)
  /\ reopened' = reopened \cup {j \in Jobs : job[j] \in Settled /\ job'[j] \in Open}
  /\ IF kind[s] = "mark_pending_for_retry"
     THEN /\ pc'    = [pc EXCEPT ![s] = "submit"]
          /\ wrote' = [wrote EXCEPT ![s] = [x \in Rows |-> NoWrite]]
          /\ UNCHANGED <<kind, moved, todo, target, next, alone>>
     ELSE End(s)
  /\ UNCHANGED left

\* executor.submit took every job.
Submitted(s) ==
  /\ pc[s] = "submit"
  /\ End(s)
  /\ UNCHANGED <<job, shown, reopened, left>>

\* executor.submit raised: the session marks its own copies FAILED, which still
\* say PENDING.  After an ingest the batch is not recomputed.
SubmitFailed(s, js) ==
  /\ pc[s] = "submit"
  /\ js # {}
  /\ js \subseteq moved[s]
  /\ kind'  = [kind EXCEPT ![s] = "submit_failed"]
  /\ pc'    = [pc EXCEPT ![s] = "update"]
  /\ moved' = [moved EXCEPT ![s] = js]
  /\ todo'  = [todo EXCEPT ![s] =
                 DocumentsOf(js) \cup (IF kind[s] = "ingest" THEN {} ELSE {Batch})]
  /\ UNCHANGED <<job, shown, target, next, wrote, alone, reopened, left>>

\* Mutant: the session is given back to its pool without a rollback.
RollbackWithoutRelease(s) ==
  /\ pc[s] # "idle"
  /\ kind' = [kind EXCEPT ![s] = "idle"]
  /\ pc'   = [pc EXCEPT ![s] = "idle"]
  /\ UNCHANGED <<job, shown, moved, todo, target, next, wrote, alone, reopened, left>>

\* A statement fails, the process dies, or PostgreSQL breaks a deadlock.
Rollback(s) ==
  /\ pc[s] # "idle"
  /\ End(s)
  /\ UNCHANGED <<job, shown, reopened, left>>

Next ==
  \E s \in Sessions :
    \/ MoveOneJob(s) \/ CancelBatch(s) \/ Recover(s) \/ Fetched(s)
    \/ UpdateJobs(s) \/ RecomputeBatch(s) \/ WriteRow(s) \/ Commit(s)
    \/ Submitted(s) \/ Rollback(s)
    \/ \E d \in Documents : Ingest(s, d) \/ RecomputeDocument(s, d)
    \/ \E x \in Rows : ReadRow(s, x)
    \/ \E js \in SUBSET Jobs : SubmitFailed(s, js)

Spec == Init /\ [][Next]_vars

-----------------------------------------------------------------------------
(* Properties *)

\* Every variable keeps its type, and a session that is not at work holds no
\* row and no job.
RollupTypeOK ==
  /\ job      \in [Jobs -> JobStatus]
  /\ shown    \in [Rows -> RowStatus]
  /\ kind     \in [Sessions -> Kind]
  /\ pc       \in [Sessions -> {"idle", "update", "read", "select", "write", "submit"}]
  /\ moved    \in [Sessions -> SUBSET Jobs]
  /\ todo     \in [Sessions -> SUBSET Rows]
  /\ target   \in [Sessions -> Rows]
  /\ next     \in [Sessions -> RowStatus \cup {NoWrite}]
  /\ wrote    \in [Sessions -> [Rows -> RowStatus \cup {NoWrite}]]
  /\ alone    \in [Sessions -> BOOLEAN]
  /\ reopened \subseteq Jobs
  /\ left     \in Nat
  /\ \A s \in Sessions : pc[s] = "idle" =>
       moved[s] = {} /\ wrote[s] = [x \in Rows |-> NoWrite]

\* However sessions interleave, a document is shown as settled while one of its
\* pages is open only if that page was reopened after it had been settled: by a
\* retry, or by a claim that overwrote a cancellation.
SettledEarlyOnlyByReopening ==
  \A j \in Jobs :
    job[j] \in Open /\ shown[DocumentOf[j]] \in {"PROCESSED", "FAILED", "CANCELLED"} =>
      j \in reopened

\* Whatever races went before, what a session that works alone is about to
\* commit is right: the documents of the jobs it moved show what their pages
\* make them, and the batch what its documents make it.  (After a recovery of
\* several documents the batch may be wrong: see NoBatchLeftProcessing.)
LoneSessionHeals ==
  \A s \in Sessions : alone[s] /\ pc[s] = "read" /\ todo[s] = {} =>
    /\ \A d \in DocumentsOf(moved[s]) : RowSeen(s)[d] = StatusOfPages(JobSeen(s), d)
    /\ kind[s] \in OneJob \cup {"cancel_batch", "fetched"} =>
         RowSeen(s)[Batch] = StatusOfDocuments(RowSeen(s))

AtRest == \A s \in Sessions : pc[s] = "idle"

\* Claimed by recompute_document_status and broken by two sessions that settle
\* the last two pages at once: a document none of whose pages is open any more
\* is not left PROCESSING.
NoDocumentLeftProcessing ==
  AtRest => \A d \in Documents :
    shown[d] = "PROCESSING" => \E j \in PagesOf(d) : job[j] \in Open

\* Claimed by _recompute_status_for_jobs and broken by its own loop: a batch
\* none of whose jobs is open any more is not left PROCESSING.
NoBatchLeftProcessing ==
  AtRest => (shown[Batch] = "PROCESSING" => \E j \in Jobs : job[j] \in Open)
=============================================================================
