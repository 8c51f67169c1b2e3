------------------------------ MODULE OcrJobs ------------------------------
(***************************************************************************)
(* The life of an OCR job: its row in PostgreSQL, its messages in the      *)
(* Celery queue, the workers that run process_ocr_job, the requests that   *)
(* create, retry and cancel jobs, and the periodic recovery of jobs whose  *)
(* worker died.                                                            *)
(*                                                                         *)
(* The database runs at READ COMMITTED and no job row is ever locked for   *)
(* reading: every repository function SELECTs the row, checks its status   *)
(* in Python, then UPDATEs it by primary key.  The two halves are two      *)
(* actions here, so another process may commit between them.               *)
(*                                                                         *)
(* Time is kept as ages: how long ago a job's started_at was set, how long *)
(* a worker has held its task.  Database work takes no time on that scale; *)
(* the OCR subprocess, the Gemini prepare step and uploads do.             *)
(***************************************************************************)
EXTENDS Integers, FiniteSets

CONSTANTS
  Jobs,         \* OCR jobs (one per page of a split document)
  Workers,      \* Celery worker processes, or the thread of the local pool
  Requests,     \* API requests and OneDrive ingest loops in flight
  NoJob,        \* what an idle worker works on
  Backend,      \* JOB_EXECUTOR_BACKEND
  BatchEnabled, \* GEMINI_BATCH_ENABLED
  Visibility,   \* the broker redelivers a message unacknowledged this long
  TimeLimit,    \* Celery kills a task this old  (ocr_timeout_seconds + 60)
  StaleAfter,   \* recovery fails a job older than this (ocr_timeout + 300)
  Budget        \* how often each of Spendable may happen: bounds the model

Spendable == {"retry", "cancel", "workerLost", "redelivery", "dbError",
              "requestLost", "restart", "requeue", "submitError"}

ASSUME OcrJobsAssumption ==
  /\ NoJob \notin Jobs
  /\ Backend \in {"celery", "thread_pool"}
  /\ BatchEnabled \in BOOLEAN
  /\ Visibility \in Nat
  /\ TimeLimit \in Nat
  /\ StaleAfter \in Nat
  /\ TimeLimit <= StaleAfter
  /\ Budget \in [Spendable -> Nat]

VARIABLES
  status,   \* ocr_jobs.status; "ABSENT" before the row is inserted
  started,  \* age of ocr_jobs.started_at, NotStarted when it is NULL
  stage,    \* ocr_jobs.gemini_batch_stage
  queue,    \* number of run_ocr_job messages waiting for each job
  lost,     \* history: jobs whose message died with its carrier
  raced,    \* history: jobs sent a second message, or overwritten by an UPDATE
            \* that found the row no longer as it had been read
  wpc,      \* where each worker is in process_ocr_job
  wjob,     \* the job it works on
  wbatch,   \* what should_batch answers for the row it read
  wage,     \* age of the task it holds
  rpc,      \* where each request is
  rjobs,    \* the jobs it has SELECTed, or has still to submit
  rfailed,  \* the jobs it could not submit
  rnulls,   \* the columns that are NULL in the row a retry has read
  sweep,    \* the rows recover_stale_jobs has SELECTed
  left      \* what remains of Budget

jobVars     == <<status, started, stage>>
queueVars   == <<queue, lost, raced>>
workerVars  == <<wpc, wjob, wbatch, wage>>
requestVars == <<rpc, rjobs, rfailed, rnulls>>
vars == <<jobVars, queueVars, workerVars, requestVars, sweep, left>>

NotStarted == -1
Unfinished == {"PENDING", "PROCESSING"}
Retryable  == {"FAILED", "CANCELLED"}
Status     == {"ABSENT", "COMPLETED"} \cup Unfinished \cup Retryable

\* The stages in which a PROCESSING job waits on Google, in no process.
BATCH_WAITING_STAGES == {"PREPARED", "SUBMITTING", "SUBMITTED", "FINISHING"}
Stage == {"none", "SYNC"} \cup BATCH_WAITING_STAGES

\* Where process_ocr_job may spend a long time.
LongSteps == {"prepare", "run", "upload"}
\* The worker took the job to PROCESSING and its OCR has not been settled.
RunSteps  == LongSteps \cup {"complete"}
\* The worker has still to decide what becomes of a job it was handed.
OpenSteps == {"start", "claim", "fail", "fail_write"}
WorkerPc  == {"idle", "killed", "cancel"} \cup RunSteps \cup OpenSteps
RequestPc == {"idle", "retry", "cancel", "submit"}

Init ==
  /\ status  = [j \in Jobs |-> "ABSENT"]
  /\ started = [j \in Jobs |-> NotStarted]
  /\ stage   = [j \in Jobs |-> "none"]
  /\ queue   = [j \in Jobs |-> 0]
  /\ lost    = {}
  /\ raced   = {}
  /\ wpc     = [w \in Workers |-> "idle"]
  /\ wjob    = [w \in Workers |-> NoJob]
  /\ wbatch  = [w \in Workers |-> FALSE]
  /\ wage    = [w \in Workers |-> 0]
  /\ rpc     = [r \in Requests |-> "idle"]
  /\ rjobs   = [r \in Requests |-> {}]
  /\ rfailed = [r \in Requests |-> {}]
  /\ rnulls  = [r \in Requests |-> {}]
  /\ sweep   = {}
  /\ left    = Budget

-----------------------------------------------------------------------------
(* Building blocks *)

Spend(what) ==
  /\ left[what] > 0
  /\ left' = [left EXCEPT ![what] = @ - 1]

SetStatus(js, s) ==
  status' = [j \in Jobs |-> IF j \in js THEN s ELSE status[j]]

\* The rows js were read with a status in `read` and are written by id: those that
\* have another status by now are overwritten.
Overwrite(js, read) == raced' = raced \cup {j \in js : status[j] \notin read}

\* executor.submit: one more run_ocr_job message for the job.
Enqueue(j) ==
  /\ queue' = [queue EXCEPT ![j] = @ + 1]
  /\ lost'  = lost \ {j}

\* The worker moves on within process_ocr_job.
Goto(w, to) ==
  /\ wpc' = [wpc EXCEPT ![w] = to]
  /\ UNCHANGED <<wjob, wbatch, wage>>

\* process_ocr_job returns (or its process dies): the worker is free again.
Release(w) ==
  /\ wpc'    = [wpc EXCEPT ![w] = "idle"]
  /\ wjob'   = [wjob EXCEPT ![w] = NoJob]
  /\ wbatch' = [wbatch EXCEPT ![w] = FALSE]
  /\ wage'   = [wage EXCEPT ![w] = 0]

\* The request is over, whether it answered or its process died.
EndRequest(r) ==
  /\ rpc'     = [rpc EXCEPT ![r] = "idle"]
  /\ rjobs'   = [rjobs EXCEPT ![r] = {}]
  /\ rfailed' = [rfailed EXCEPT ![r] = {}]
  /\ rnulls'  = [rnulls EXCEPT ![r] = {}]

StillToSubmit(r) == IF rpc[r] = "submit" THEN rjobs[r] \cup rfailed[r] ELSE {}

\* A message, a worker or a request will still act on the job.
BeingHandled(j) ==
  \/ queue[j] > 0
  \/ \E w \in Workers : wjob[w] = j
  \/ \E r \in Requests : rpc[r] = "submit" /\ j \in rjobs[r]

-----------------------------------------------------------------------------
(* The worker: process_ocr_job, complete_job and _mark_failed_safe *)

\* Mutant: a worker is handed a job no message asks for.
DeliverUnasked(w, j) ==
  /\ wpc[w] = "idle"
  /\ queue' = [queue EXCEPT ![j] = @ - 1]
  /\ wpc'   = [wpc EXCEPT ![w] = "start"]
  /\ wjob'  = [wjob EXCEPT ![w] = j]
  /\ UNCHANGED <<jobVars, lost, raced, wbatch, wage, requestVars, sweep, left>>

\* A worker takes a message.  It acknowledges it only when the task returns.
Deliver(w, j) ==
  /\ wpc[w] = "idle"
  /\ queue[j] > 0
  /\ queue' = [queue EXCEPT ![j] = @ - 1]
  /\ wpc'   = [wpc EXCEPT ![w] = "start"]
  /\ wjob'  = [wjob EXCEPT ![w] = j]
  /\ UNCHANGED <<jobVars, lost, raced, wbatch, wage, requestVars, sweep, left>>

\* get_job: a CANCELLED job is skipped, a PENDING one is claimed next, and for
\* any other status mark_processing raises, which ends in _mark_failed_safe.
ReadJob(w) ==
  LET j == wjob[w] IN
  /\ wpc[w] = "start"
  /\ \/ status[j] = "CANCELLED" /\ Release(w)
     \/ /\ status[j] = "PENDING"
        /\ wpc'    = [wpc EXCEPT ![w] = "claim"]
        /\ wbatch' = [wbatch EXCEPT ![w] = BatchEnabled /\ stage[j] = "none"]
        /\ UNCHANGED <<wjob, wage>>
     \/ status[j] \notin {"CANCELLED", "PENDING"} /\ Goto(w, "fail")
  /\ UNCHANGED <<jobVars, queueVars, requestVars, sweep, left>>

\* Mutant: mark_processing does not set started_at.
MarkProcessingUndated(w) ==
  LET j == wjob[w] IN
  /\ wpc[w] = "claim"
  /\ status' = [status EXCEPT ![j] = "PROCESSING"]
  /\ Overwrite({j}, {"PENDING"})
  /\ wpc'    = [wpc EXCEPT ![w] = IF wbatch[w] THEN "prepare" ELSE "run"]
  /\ wbatch' = [wbatch EXCEPT ![w] = FALSE]
  /\ UNCHANGED <<started, stage, queue, lost, wjob, wage, requestVars, sweep, left>>

\* mark_processing's UPDATE and the commit.
MarkProcessing(w) ==
  LET j == wjob[w] IN
  /\ wpc[w] = "claim"
  /\ status'  = [status EXCEPT ![j] = "PROCESSING"]
  /\ started' = [started EXCEPT ![j] = 0]
  /\ Overwrite({j}, {"PENDING"})
  /\ wpc'     = [wpc EXCEPT ![w] = IF wbatch[w] THEN "prepare" ELSE "run"]
  /\ wbatch'  = [wbatch EXCEPT ![w] = FALSE]
  /\ UNCHANGED <<stage, queue, lost, wjob, wage, requestVars, sweep, left>>

\* prepare_job: the job now waits for a Gemini batch, or is run live.  The
\* stage is written by id, whatever the row has become meanwhile.
PrepareJob(w) ==
  /\ wpc[w] = "prepare"
  /\ \/ stage' = [stage EXCEPT ![wjob[w]] = "PREPARED"] /\ Release(w)
     \/ Goto(w, "run") /\ UNCHANGED stage
  /\ UNCHANGED <<status, started, queueVars, requestVars, sweep, left>>

\* The OCR subprocess ends: with output, or not (exit code, timeout, no file).
OcrExits(w) ==
  /\ wpc[w] = "run"
  /\ Goto(w, "upload") \/ Goto(w, "fail")
  /\ UNCHANGED <<jobVars, queueVars, requestVars, sweep, left>>

\* The cancellation watcher polls the row and kills the subprocess.
WatcherSeesCancel(w) ==
  /\ wpc[w] = "run"
  /\ status[wjob[w]] = "CANCELLED"
  /\ Goto(w, "killed")
  /\ UNCHANGED <<jobVars, queueVars, requestVars, sweep, left>>

\* mark_cancelled's SELECT and check, after the kill.  On a row that is already
\* CANCELLED only the timestamps change.
ReadForCancel(w) ==
  LET s == status[wjob[w]] IN
  /\ wpc[w] = "killed"
  /\ \/ s \in Unfinished /\ Goto(w, "cancel")
     \/ s = "CANCELLED" /\ Release(w)
     \/ s \notin Unfinished \cup {"CANCELLED"} /\ Goto(w, "fail")
  /\ UNCHANGED <<jobVars, queueVars, requestVars, sweep, left>>

MarkCancelled(w) ==
  /\ wpc[w] = "cancel"
  /\ status' = [status EXCEPT ![wjob[w]] = "CANCELLED"]
  /\ Overwrite({wjob[w]}, Unfinished)
  /\ Release(w)
  /\ UNCHANGED <<started, stage, queue, lost, requestVars, sweep, left>>

\* complete_job uploads the output, then mark_completed SELECTs and checks; a
\* failed upload or a row that is not PROCESSING raises.
ReadForComplete(w) ==
  /\ wpc[w] = "upload"
  /\ \/ status[wjob[w]] = "PROCESSING" /\ Goto(w, "complete")
     \/ Goto(w, "fail")
  /\ UNCHANGED <<jobVars, queueVars, requestVars, sweep, left>>

\* mark_completed's UPDATE, the record import and the commit; a failing import
\* rolls it all back.
MarkCompleted(w) ==
  /\ wpc[w] = "complete"
  /\ \/ /\ status' = [status EXCEPT ![wjob[w]] = "COMPLETED"]
        /\ Overwrite({wjob[w]}, {"PROCESSING"})
        /\ Release(w)
     \/ Goto(w, "fail") /\ UNCHANGED <<status, raced>>
  /\ UNCHANGED <<started, stage, queue, lost, requestVars, sweep, left>>

\* Mutant: mark_failed accepts PROCESSING jobs only.
ReadForFailProcessing(w) ==
  /\ wpc[w] = "fail"
  /\ \/ status[wjob[w]] = "PROCESSING" /\ Goto(w, "fail_write")
     \/ status[wjob[w]] # "PROCESSING" /\ Release(w)
  /\ UNCHANGED <<jobVars, queueVars, requestVars, sweep, left>>

\* Mutant: mark_failed fails a job whatever its status.
ReadForFailUnchecked(w) ==
  /\ wpc[w] = "fail"
  /\ Goto(w, "fail_write")
  /\ UNCHANGED <<jobVars, queueVars, requestVars, sweep, left>>

\* _mark_failed_safe: mark_failed's SELECT and check.  The error it raises on a
\* settled job is swallowed, and the message is acknowledged.
ReadForFail(w) ==
  /\ wpc[w] = "fail"
  /\ \/ status[wjob[w]] \in Unfinished /\ Goto(w, "fail_write")
     \/ status[wjob[w]] \notin Unfinished /\ Release(w)
  /\ UNCHANGED <<jobVars, queueVars, requestVars, sweep, left>>

MarkFailed(w) ==
  /\ wpc[w] = "fail_write"
  /\ status' = [status EXCEPT ![wjob[w]] = "FAILED"]
  /\ Overwrite({wjob[w]}, Unfinished)
  /\ Release(w)
  /\ UNCHANGED <<started, stage, queue, lost, requestVars, sweep, left>>

\* The steps that take a statement or two of the database.
DatabaseStep(w) ==
  \/ ReadJob(w) \/ MarkProcessing(w) \/ ReadForCancel(w) \/ MarkCancelled(w)
  \/ MarkCompleted(w) \/ ReadForFail(w) \/ MarkFailed(w)

WorkerStep(w) ==
  \/ DatabaseStep(w) \/ PrepareJob(w) \/ OcrExits(w) \/ WatcherSeesCancel(w)
  \/ ReadForComplete(w)

\* The database fails a statement: process_ocr_job goes to _mark_failed_safe,
\* and _mark_failed_safe swallows it, leaving the row as it is.
DbError(w) ==
  /\ Spend("dbError")
  /\ \/ /\ wpc[w] \in {"start", "claim", "prepare", "killed", "cancel"}
        /\ Goto(w, "fail")
        /\ UNCHANGED lost
     \/ /\ wpc[w] \in {"fail", "fail_write"}
        /\ Release(w)
        /\ lost' = lost \cup {wjob[w]}
  /\ UNCHANGED <<jobVars, queue, raced, requestVars, sweep>>

-----------------------------------------------------------------------------
(* Celery: time limits, lost workers, redelivery *)

\* Mutant: task_reject_on_worker_lost is off, the message dies with the worker.
WorkerLostWithMessage(w) ==
  /\ Backend = "celery"
  /\ wpc[w] # "idle"
  /\ Spend("workerLost")
  /\ Release(w)
  /\ UNCHANGED <<jobVars, queueVars, requestVars, sweep>>

\* The worker process is OOM-killed: its message is rejected and redelivered.
WorkerLost(w) ==
  /\ Backend = "celery"
  /\ wpc[w] # "idle"
  /\ Spend("workerLost")
  /\ queue' = [queue EXCEPT ![wjob[w]] = @ + 1]
  /\ Release(w)
  /\ UNCHANGED <<jobVars, lost, raced, requestVars, sweep>>

\* The hard time limit: the task is killed and its message acknowledged.
HardTimeLimit(w) ==
  /\ Backend = "celery"
  /\ wpc[w] \in LongSteps
  /\ wage[w] >= TimeLimit
  /\ Release(w)
  /\ UNCHANGED <<jobVars, queueVars, requestVars, sweep, left>>

\* The broker's visibility timeout: a second copy of an unacknowledged message.
Redeliver(w) ==
  /\ Backend = "celery"
  /\ wpc[w] \in LongSteps
  /\ wage[w] >= Visibility
  /\ Spend("redelivery")
  /\ queue' = [queue EXCEPT ![wjob[w]] = @ + 1]
  /\ raced' = raced \cup {wjob[w]}
  /\ UNCHANGED <<jobVars, lost, workerVars, requestVars, sweep>>

\* Time passes: only while every busy worker is in a long step, and not past
\* the point where Celery must kill one.
TimePasses ==
  /\ \A w \in Workers :
       /\ wpc[w] \in LongSteps \cup {"idle"}
       /\ Backend = "celery" /\ wpc[w] # "idle" => wage[w] < TimeLimit
  /\ started' = [j \in Jobs |->
       IF started[j] \in {NotStarted, StaleAfter + 1} THEN started[j]
                                                      ELSE started[j] + 1]
  /\ wage' = [w \in Workers |->
       IF wpc[w] = "idle" \/ wage[w] >= TimeLimit THEN wage[w] ELSE wage[w] + 1]
  /\ UNCHANGED <<status, stage, queueVars, wpc, wjob, wbatch, requestVars,
                 sweep, left>>

-----------------------------------------------------------------------------
(* Requests: ingest, retry, cancel *)

\* _ingest_one_file commits a document with its jobs, then submits each.
IngestFile(r, js) ==
  /\ rpc[r] = "idle"
  /\ js # {}
  /\ \A j \in js : status[j] = "ABSENT"
  /\ SetStatus(js, "PENDING")
  /\ rpc'   = [rpc EXCEPT ![r] = "submit"]
  /\ rjobs' = [rjobs EXCEPT ![r] = js]
  /\ UNCHANGED <<started, stage, queueVars, workerVars, rfailed, rnulls, sweep,
                 left>>

\* executor.submit, after the commit that made the job PENDING.
Submit(r, j) ==
  /\ rpc[r] = "submit"
  /\ j \in rjobs[r]
  /\ Enqueue(j)
  /\ rjobs' = [rjobs EXCEPT ![r] = @ \ {j}]
  /\ UNCHANGED <<jobVars, raced, workerVars, rpc, rfailed, rnulls, sweep, left>>

\* executor.submit raises: the job is to be marked FAILED.
SubmitError(r, j) ==
  /\ rpc[r] = "submit"
  /\ j \in rjobs[r]
  /\ Spend("submitError")
  /\ rjobs'   = [rjobs EXCEPT ![r] = @ \ {j}]
  /\ rfailed' = [rfailed EXCEPT ![r] = @ \cup {j}]
  /\ UNCHANGED <<jobVars, queueVars, workerVars, rpc, rnulls, sweep>>

\* The commit after the submit loop.  mark_failed checks the session's own copy
\* of the row, which still says PENDING.
CommitSubmits(r) ==
  /\ rpc[r] = "submit"
  /\ rjobs[r] = {}
  /\ SetStatus(rfailed[r], "FAILED")
  /\ Overwrite(rfailed[r], {"PENDING"})
  /\ EndRequest(r)
  /\ UNCHANGED <<started, stage, queue, lost, workerVars, sweep, left>>

NullColumns(j) ==
  {c \in {"started", "stage"} : \/ c = "started" /\ started[j] = NotStarted
                                \/ c = "stage" /\ stage[j] = "none"}

\* retry_job reads the row; any other status is a 409.
RetryRead(r, j) ==
  /\ rpc[r] = "idle"
  /\ status[j] \in Retryable
  /\ Spend("retry")
  /\ rpc'    = [rpc EXCEPT ![r] = "retry"]
  /\ rjobs'  = [rjobs EXCEPT ![r] = {j}]
  /\ rnulls' = [rnulls EXCEPT ![r] = NullColumns(j)]
  /\ UNCHANGED <<jobVars, queueVars, workerVars, rfailed, sweep>>

\* mark_pending_for_retry's UPDATE and the commit; the submit comes after.  The
\* ORM writes a column only when it changes the copy that was read: one that was
\* NULL in the copy is left as it now is in the row.
RetryCommit(r) ==
  /\ rpc[r] = "retry"
  /\ SetStatus(rjobs[r], "PENDING")
  /\ started' = [j \in Jobs |-> IF j \in rjobs[r] /\ "started" \notin rnulls[r]
                                THEN NotStarted ELSE started[j]]
  /\ stage'   = [j \in Jobs |-> IF j \in rjobs[r] /\ "stage" \notin rnulls[r]
                                THEN "none" ELSE stage[j]]
  /\ raced' = raced \cup {j \in rjobs[r] :
       BeingHandled(j) \/ status[j] \notin Retryable \/ NullColumns(j) # rnulls[r]}
  /\ rpc'     = [rpc EXCEPT ![r] = "submit"]
  /\ rnulls'  = [rnulls EXCEPT ![r] = {}]
  /\ UNCHANGED <<queue, lost, workerVars, rjobs, rfailed, sweep, left>>

\* cancel_batch_processing reads the batch's unfinished jobs ("Stop processing").
CancelRead(r) ==
  /\ rpc[r] = "idle"
  /\ \E j \in Jobs : status[j] \in Unfinished
  /\ Spend("cancel")
  /\ rpc'   = [rpc EXCEPT ![r] = "cancel"]
  /\ rjobs' = [rjobs EXCEPT ![r] = {j \in Jobs : status[j] \in Unfinished}]
  /\ UNCHANGED <<jobVars, queueVars, workerVars, rfailed, rnulls, sweep>>

CancelCommit(r) ==
  /\ rpc[r] = "cancel"
  /\ SetStatus(rjobs[r], "CANCELLED")
  /\ Overwrite(rjobs[r], Unfinished)
  /\ EndRequest(r)
  /\ UNCHANGED <<started, stage, queue, lost, workerVars, sweep, left>>

\* The process serving the request dies between two of its steps.
RequestLost(r) ==
  /\ rpc[r] # "idle"
  /\ Spend("requestLost")
  /\ lost' = lost \cup StillToSubmit(r)
  /\ EndRequest(r)
  /\ UNCHANGED <<jobVars, queue, raced, workerVars, sweep>>

\* scripts/requeue_pending_jobs.py: another message for a job that has been
\* PENDING for long; whether its first message is really gone it cannot tell.
RequeuePending(j) ==
  /\ status[j] = "PENDING"
  /\ Spend("requeue")
  /\ Enqueue(j)
  /\ raced' = IF BeingHandled(j) THEN raced \cup {j} ELSE raced
  /\ UNCHANGED <<jobVars, workerVars, requestVars, sweep>>

RequestStep(r) ==
  \/ RetryCommit(r) \/ CancelCommit(r) \/ CommitSubmits(r)
  \/ \E j \in Jobs : Submit(r, j)

-----------------------------------------------------------------------------
(* Recovery *)

\* Mutant: the stale threshold has no margin over the time limit.
StaleWithoutMargin(j) ==
  /\ status[j] = "PROCESSING"
  /\ started[j] >= TimeLimit
  /\ stage[j] \notin BATCH_WAITING_STAGES

\* fail_stale_processing_jobs' SELECT.
StaleEligible(j) ==
  /\ status[j] = "PROCESSING"
  /\ started[j] # NotStarted
  /\ started[j] > StaleAfter
  /\ stage[j] \notin BATCH_WAITING_STAGES

StaleRead ==
  /\ Backend = "celery"
  /\ sweep = {}
  /\ sweep' = {j \in Jobs : StaleEligible(j)}
  /\ sweep' # {}
  /\ UNCHANGED <<jobVars, queueVars, workerVars, requestVars, left>>

\* Its UPDATEs and the commit of recover_stale_jobs_task.
StaleCommit ==
  /\ sweep # {}
  /\ SetStatus(sweep, "FAILED")
  /\ raced' = raced \cup {j \in sweep : ~ StaleEligible(j)}
  /\ sweep' = {}
  /\ UNCHANGED <<started, stage, queue, lost, workerVars, requestVars, left>>

\* Mutant: recover_interrupted_jobs is not called at startup.
RestartWithoutRecovery ==
  /\ Backend = "thread_pool"
  /\ Spend("restart")
  /\ rpc'     = [r \in Requests |-> "idle"]
  /\ rjobs'   = [r \in Requests |-> {}]
  /\ rfailed' = [r \in Requests |-> {}]
  /\ rnulls'  = [r \in Requests |-> {}]
  /\ lost'    = lost \cup {j \in Jobs : status[j] = "PENDING"}
  /\ queue'   = [j \in Jobs |-> 0]
  /\ wpc'     = [w \in Workers |-> "idle"]
  /\ wjob'    = [w \in Workers |-> NoJob]
  /\ wbatch'  = [w \in Workers |-> FALSE]
  /\ wage'    = [w \in Workers |-> 0]
  /\ UNCHANGED <<jobVars, raced, sweep>>

\* Mutant: the startup hook runs beside the threads of a pool that goes on.
RestartBesideThreads ==
  /\ Backend = "thread_pool"
  /\ Spend("restart")
  /\ SetStatus({j \in Jobs : /\ status[j] = "PROCESSING"
                             /\ stage[j] \notin BATCH_WAITING_STAGES}, "FAILED")
  /\ UNCHANGED <<started, stage, queueVars, workerVars, requestVars, sweep>>

\* The API process is restarted.  With the in-process pool everything queued
\* or running dies with it, and the startup hook fails the PROCESSING jobs;
\* under Celery only the requests in flight die.
Restart ==
  /\ Spend("restart")
  /\ rpc'     = [r \in Requests |-> "idle"]
  /\ rjobs'   = [r \in Requests |-> {}]
  /\ rfailed' = [r \in Requests |-> {}]
  /\ rnulls'  = [r \in Requests |-> {}]
  /\ \/ /\ Backend = "celery"
        /\ lost' = lost \cup UNION {StillToSubmit(r) : r \in Requests}
        /\ UNCHANGED <<status, queue, workerVars>>
     \/ /\ Backend = "thread_pool"
        /\ SetStatus({j \in Jobs : /\ status[j] = "PROCESSING"
                                   /\ stage[j] \notin BATCH_WAITING_STAGES}, "FAILED")
        /\ lost'   = lost \cup {j \in Jobs : status[j] = "PENDING"}
        /\ queue'  = [j \in Jobs |-> 0]
        /\ wpc'    = [w \in Workers |-> "idle"]
        /\ wjob'   = [w \in Workers |-> NoJob]
        /\ wbatch' = [w \in Workers |-> FALSE]
        /\ wage'   = [w \in Workers |-> 0]
  /\ UNCHANGED <<started, stage, raced, sweep>>

-----------------------------------------------------------------------------
\* Every step but the passing of time.
UntimedNext ==
  \/ \E w \in Workers :
       \/ WorkerStep(w) \/ DbError(w)
       \/ WorkerLost(w) \/ HardTimeLimit(w) \/ Redeliver(w)
       \/ \E j \in Jobs : Deliver(w, j)
  \/ \E r \in Requests :
       \/ RequestStep(r) \/ CancelRead(r) \/ RequestLost(r)
       \/ \E j \in Jobs : SubmitError(r, j) \/ RetryRead(r, j)
       \/ \E js \in SUBSET Jobs : IngestFile(r, js)
  \/ \E j \in Jobs : RequeuePending(j)
  \/ StaleRead \/ StaleCommit \/ Restart

Next == UntimedNext \/ TimePasses

Spec == Init /\ [][Next]_vars

\* Worker containers are restarted unless stopped and every live request runs
\* on; beat fires the stale sweep every five minutes; time passes.  Nothing is
\* assumed of the OCR subprocess, an upload or the cancellation watcher: only
\* Celery's hard limit is sure to end them.
Fairness ==
  /\ \A w \in Workers : WF_vars(DatabaseStep(w)) /\ WF_vars(HardTimeLimit(w))
  /\ \A j \in Jobs : WF_vars(\E w \in Workers : Deliver(w, j))
  /\ \A r \in Requests : WF_vars(RequestStep(r))
  /\ WF_vars(TimePasses) /\ WF_vars(StaleRead) /\ WF_vars(StaleCommit)

FairSpec == Spec /\ Fairness

-----------------------------------------------------------------------------
(* Properties *)

Runs(w, j)    == wjob[w] = j /\ wpc[w] \in RunSteps
Decides(w, j) == wjob[w] = j /\ wpc[w] \in OpenSteps

\* Every variable keeps its type; a busy worker has a job, an idle one none.
TypeOK ==
  /\ status  \in [Jobs -> Status]
  /\ started \in [Jobs -> NotStarted .. StaleAfter + 1]
  /\ stage   \in [Jobs -> Stage]
  /\ queue   \in [Jobs -> Nat]
  /\ lost    \subseteq Jobs
  /\ raced   \subseteq Jobs
  /\ wpc     \in [Workers -> WorkerPc]
  /\ wjob    \in [Workers -> Jobs \cup {NoJob}]
  /\ wbatch  \in [Workers -> BOOLEAN]
  /\ wage    \in [Workers -> 0 .. TimeLimit]
  /\ rpc     \in [Requests -> RequestPc]
  /\ rjobs   \in [Requests -> SUBSET Jobs]
  /\ rfailed \in [Requests -> SUBSET Jobs]
  /\ rnulls  \in [Requests -> SUBSET {"started", "stage"}]
  /\ sweep   \subseteq Jobs
  /\ left    \in [Spendable -> Nat]
  /\ \A w \in Workers : wpc[w] = "idle" <=> wjob[w] = NoJob

Carried(j) ==
  \/ queue[j] > 0
  \/ \E w \in Workers : Decides(w, j)
  \/ \E r \in Requests : j \in StillToSubmit(r)
  \/ j \in lost

\* A PENDING job is never forgotten in silence: a message for it is queued, a
\* worker that took one has still to decide, or the request that made it
\* PENDING has still to submit it.  The exceptions are known: the process
\* between commit and submit died (jobs/service.py, retry_job), the pool was
\* restarted, or _mark_failed_safe swallowed a database error.
PendingIsCarried == \A j \in Jobs : status[j] = "PENDING" => Carried(j)

\* fail_stale_processing_jobs never picks a job that a worker is still running,
\* however slow it is: Celery's hard limit comes before the stale threshold.
StaleSparesLiveRuns ==
  Backend = "celery" =>
    \A j \in Jobs : StaleEligible(j) => ~ \E w \in Workers : Runs(w, j)

Attended(j) == queue[j] > 0 \/ j \in lost \/ \E w \in Workers : wjob[w] = j

\* With the in-process pool a PROCESSING job that does not wait for Gemini is
\* being worked on, or about to be, even across a restart; the one exception is
\* a database error swallowed by _mark_failed_safe.
ProcessingIsAttended ==
  Backend = "thread_pool" =>
    \A j \in Jobs :
      status[j] = "PROCESSING" /\ stage[j] \notin BATCH_WAITING_STAGES =>
        Attended(j)

\* The rows and the workers implement the life of a job the API promises, through
\* lost workers and messages, restarts, timeouts and database errors; only a job that
\* raced is left out, from there on.
LiveJobs  == {j \in Jobs : \E w \in Workers : Runs(w, j)}
Lifecycle == INSTANCE JobLifecycle WITH live <- LiveJobs
LifecycleSpec == Lifecycle!Spec

\* Somebody has read the row of the job and has still to write its status.
WriteIsDue(j) ==
  \/ \E w \in Workers :
       wjob[w] = j /\ wpc[w] \in {"claim", "cancel", "complete", "fail_write"}
  \/ \E r \in Requests :
       \/ rpc[r] \in {"retry", "cancel"} /\ j \in rjobs[r]
       \/ j \in StillToSubmit(r)
  \/ j \in sweep

Settled(j) == status[j] \in {"COMPLETED"} \cup Retryable /\ ~ WriteIsDue(j)

\* Once a job is settled and nobody acts on an older read of it, only a user who
\* retries it moves it again: no message that comes late or twice, no run that is
\* still going on, no watcher, sweep, restart or requeue script, raced or not.
SettledStays ==
  [][\A j \in Jobs : Settled(j) =>
       /\ status'[j] = status[j]
       /\ \/ Settled(j)'
          \/ status[j] \in Retryable /\ \E r \in Requests :
               rpc[r] = "idle" /\ rpc'[r] = "retry" /\ rjobs'[r] = {j}]_vars

\* A job does not stay PROCESSING for ever, whatever its worker or the database
\* do: it completes, fails, is cancelled, or the periodic recovery fails it.
NoJobStuckProcessing ==
  \A j \in Jobs : status[j] = "PROCESSING" ~> status[j] # "PROCESSING"

\* A PENDING job is taken up, unless its message was lost.
PendingIsServed ==
  \A j \in Jobs : status[j] = "PENDING" ~> status[j] # "PENDING" \/ j \in lost
=============================================================================
