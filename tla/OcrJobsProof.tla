---------------------------- MODULE OcrJobsProof ----------------------------
(***************************************************************************)
(* Proofs that the invariants of OcrJobs hold for any number of jobs,      *)
(* workers and requests, any budget and any limits with                    *)
(* TimeLimit <= StaleAfter.                                                *)
(***************************************************************************)
EXTENDS OcrJobsTypes

-----------------------------------------------------------------------------
(* PENDING jobs are carried *)

\* A worker's step keeps a job carried if the worker, when it was the one to
\* decide, still is, or left a message, or left a mark in lost.
LEMMA WorkerCarries ==
  ASSUME NEW w \in Workers, NEW j \in Jobs, Carried(j),
         queue[j] > 0 => queue'[j] > 0 \/ Decides(w, j)',
         lost \subseteq lost', UNCHANGED requestVars,
         \A v \in Workers \ {w} : wpc'[v] = wpc[v] /\ wjob'[v] = wjob[v],
         Decides(w, j) => Decides(w, j)' \/ queue'[j] > 0 \/ j \in lost'
  PROVE  Carried(j)'
BY DEF Carried, Decides, requestVars, StillToSubmit

\* A step of a request keeps a job carried if the request, when it had still to
\* submit the job, still has, or left a message, or left a mark in lost.
LEMMA RequestCarries ==
  ASSUME NEW r \in Requests, NEW j \in Jobs, Carried(j),
         queue[j] > 0 => queue'[j] > 0,
         j \in lost => j \in lost' \/ queue'[j] > 0,
         UNCHANGED workerVars,
         \A q \in Requests \ {r} : rpc'[q] = rpc[q] /\ rjobs'[q] = rjobs[q]
                                   /\ rfailed'[q] = rfailed[q],
         j \in StillToSubmit(r) =>
           j \in StillToSubmit(r)' \/ queue'[j] > 0 \/ j \in lost'
  PROVE  Carried(j)'
BY DEF Carried, Decides, workerVars, StillToSubmit

\* Nothing is PENDING at first.
LEMMA CarriedInit == Init => PendingIsCarried
BY DEF Init, PendingIsCarried

\* Steps of workers and of the broker.
LEMMA CarriedByWorkers ==
  ASSUME TypeOK, NEW w \in Workers,
         \/ WorkerStep(w) \/ DbError(w) \/ WorkerLost(w) \/ HardTimeLimit(w)
         \/ Redeliver(w) \/ \E k \in Jobs : Deliver(w, k),
         NEW j \in Jobs, status[j] = "PENDING" => Carried(j), status'[j] = "PENDING"
  PROVE  Carried(j)'
<1>1. status[j] = "PENDING" /\ Carried(j)
  BY DEF WorkerStep, DatabaseStep, ReadJob, MarkProcessing, PrepareJob,
         OcrExits, WatcherSeesCancel, ReadForCancel, MarkCancelled, ReadForComplete,
         MarkCompleted, ReadForFail, MarkFailed, DbError, WorkerLost, HardTimeLimit,
         Redeliver, Deliver, jobVars, TypeOK
<1>2. status \in [Jobs -> Status] /\ wpc \in [Workers -> WorkerPc]
      /\ wjob \in [Workers -> Jobs \cup {NoJob}] /\ queue \in [Jobs -> Nat]
      /\ \A v \in Workers : wpc[v] # "idle" => wjob[v] \in Jobs
  BY DEF TypeOK
<1>3. CASE ReadJob(w)
  BY <1>1, <1>2, <1>3, WorkerCarries
  DEF ReadJob, Release, Goto, Decides, OpenSteps, queueVars
<1>4. CASE MarkProcessing(w)
  BY <1>1, <1>2, <1>4, WorkerCarries DEF MarkProcessing, Decides, queueVars
<1>5. CASE PrepareJob(w) \/ OcrExits(w) \/ WatcherSeesCancel(w)
  BY <1>1, <1>2, <1>5, WorkerCarries
  DEF PrepareJob, OcrExits, WatcherSeesCancel, Release, Goto, Decides, OpenSteps,
      queueVars
<1>6. CASE ReadForCancel(w) \/ MarkCancelled(w)
  BY <1>1, <1>2, <1>6, WorkerCarries
  DEF ReadForCancel, MarkCancelled, Release, Goto, Decides, OpenSteps, queueVars
<1>7. CASE ReadForComplete(w) \/ MarkCompleted(w)
  BY <1>1, <1>2, <1>7, WorkerCarries
  DEF ReadForComplete, MarkCompleted, Release, Goto, Decides, OpenSteps, queueVars
<1>8. CASE ReadForFail(w)
  BY <1>1, <1>2, <1>8, WorkerCarries
  DEF ReadForFail, Release, Goto, Decides, OpenSteps, queueVars, Unfinished
<1>9. CASE MarkFailed(w)
  BY <1>1, <1>2, <1>9, WorkerCarries DEF MarkFailed, Release, Decides, queueVars
<1>10. CASE DbError(w)
  BY <1>1, <1>2, <1>10, WorkerCarries
  DEF DbError, Release, Goto, Decides, OpenSteps
<1>11. CASE WorkerLost(w)
  BY <1>1, <1>2, <1>11, WorkerCarries DEF WorkerLost, Release, Decides
<1>12. CASE HardTimeLimit(w)
  BY <1>1, <1>2, <1>12, WorkerCarries
  DEF HardTimeLimit, Release, Decides, LongSteps, OpenSteps, queueVars
<1>13. CASE Redeliver(w)
  BY <1>1, <1>2, <1>13, WorkerCarries DEF Redeliver, Decides, workerVars, LongSteps
<1>14. ASSUME NEW k \in Jobs, Deliver(w, k) PROVE Carried(j)'
  BY <1>1, <1>2, <1>14, WorkerCarries DEF Deliver, Decides, OpenSteps
<1> QED BY <1>3, <1>4, <1>5, <1>6, <1>7, <1>8, <1>9, <1>10, <1>11, <1>12, <1>13, <1>14
        DEF WorkerStep, DatabaseStep

\* Steps of requests.
LEMMA CarriedByRequests ==
  ASSUME TypeOK, NEW r \in Requests,
         \/ RequestStep(r) \/ CancelRead(r) \/ RequestLost(r)
         \/ \E k \in Jobs : SubmitError(r, k) \/ RetryRead(r, k)
         \/ \E js \in SUBSET Jobs : IngestFile(r, js),
         NEW j \in Jobs, status[j] = "PENDING" => Carried(j), status'[j] = "PENDING"
  PROVE  Carried(j)'
<1>1. /\ status \in [Jobs -> Status] /\ queue \in [Jobs -> Nat]
      /\ rpc \in [Requests -> RequestPc]
      /\ rjobs \in [Requests -> SUBSET Jobs] /\ rfailed \in [Requests -> SUBSET Jobs]
  BY DEF TypeOK
<1>2. status[j] = "PENDING" => Carried(j)
  OBVIOUS
<1>3. CASE RetryCommit(r)
  <2>1. CASE j \in rjobs[r]
    <3>1. j \in StillToSubmit(r)' BY <1>1, <1>3, <2>1 DEF RetryCommit, StillToSubmit
    <3> QED BY <3>1 DEF Carried
  <2>2. CASE j \notin rjobs[r]
    BY <1>1, <1>2, <1>3, <2>2, RequestCarries
    DEF RetryCommit, SetStatus, StillToSubmit, queueVars
  <2> QED BY <2>1, <2>2
<1>4. CASE CancelCommit(r)
  BY <1>1, <1>2, <1>4, RequestCarries
  DEF CancelCommit, SetStatus, EndRequest, StillToSubmit, queueVars
<1>5. CASE CommitSubmits(r)
  BY <1>1, <1>2, <1>5, RequestCarries
  DEF CommitSubmits, SetStatus, EndRequest, StillToSubmit, queueVars
<1>6. ASSUME NEW k \in Jobs, Submit(r, k) PROVE Carried(j)'
  BY <1>1, <1>2, <1>6, RequestCarries DEF Submit, Enqueue, StillToSubmit, jobVars
<1>7. CASE CancelRead(r)
  BY <1>1, <1>2, <1>7, RequestCarries DEF CancelRead, StillToSubmit, jobVars, queueVars
<1>8. CASE RequestLost(r)
  BY <1>1, <1>2, <1>8, RequestCarries
  DEF RequestLost, EndRequest, StillToSubmit, jobVars
<1>9. ASSUME NEW k \in Jobs, SubmitError(r, k) PROVE Carried(j)'
  BY <1>1, <1>2, <1>9, RequestCarries
  DEF SubmitError, StillToSubmit, jobVars, queueVars
<1>10. ASSUME NEW k \in Jobs, RetryRead(r, k) PROVE Carried(j)'
  BY <1>1, <1>2, <1>10, RequestCarries
  DEF RetryRead, StillToSubmit, jobVars, queueVars
<1>11. ASSUME NEW js \in SUBSET Jobs, IngestFile(r, js) PROVE Carried(j)'
  <2>1. CASE j \in js
    <3>1. j \in StillToSubmit(r)' BY <1>1, <1>11, <2>1 DEF IngestFile, StillToSubmit
    <3> QED BY <3>1 DEF Carried
  <2>2. CASE j \notin js
    BY <1>1, <1>2, <1>11, <2>2, RequestCarries
    DEF IngestFile, SetStatus, StillToSubmit, queueVars
  <2> QED BY <2>1, <2>2
<1> QED BY <1>3, <1>4, <1>5, <1>6, <1>7, <1>8, <1>9, <1>10, <1>11 DEF RequestStep

\* The requeue script, recovery, restarts and time.
LEMMA CarriedByOthers ==
  ASSUME TypeOK,
         \/ \E k \in Jobs : RequeuePending(k)
         \/ TimePasses \/ StaleRead \/ StaleCommit \/ Restart,
         NEW j \in Jobs, status[j] = "PENDING" => Carried(j), status'[j] = "PENDING"
  PROVE  Carried(j)'
<1>1. status \in [Jobs -> Status] /\ queue \in [Jobs -> Nat]
  BY DEF TypeOK
<1>2. status[j] = "PENDING" => Carried(j)
  OBVIOUS
<1> USE DEF Carried, Decides, StillToSubmit, jobVars, queueVars, workerVars, requestVars
<1>3. ASSUME NEW k \in Jobs, RequeuePending(k) PROVE Carried(j)'
  BY <1>1, <1>2, <1>3 DEF RequeuePending, Enqueue
<1>4. CASE TimePasses BY <1>2, <1>4 DEF TimePasses
<1>5. CASE StaleRead BY <1>2, <1>5 DEF StaleRead
<1>6. CASE StaleCommit BY <1>1, <1>2, <1>6 DEF StaleCommit, SetStatus
<1>7. CASE Restart BY <1>1, <1>2, <1>7 DEF Restart, SetStatus
<1> QED BY <1>3, <1>4, <1>5, <1>6, <1>7

\* Every step keeps each PENDING job carried, whatever becomes of the others.
LEMMA JobStaysCarried ==
  ASSUME TypeOK, [Next]_vars,
         NEW j \in Jobs, status[j] = "PENDING" => Carried(j), status'[j] = "PENDING"
  PROVE  Carried(j)'
<1>1. CASE UNCHANGED vars
  BY <1>1 DEF Carried, Decides, StillToSubmit, vars, jobVars, queueVars, workerVars,
              requestVars
<1> QED BY <1>1, CarriedByWorkers, CarriedByRequests, CarriedByOthers DEF Next, UntimedNext

LEMMA CarriedNext == TypeOK /\ PendingIsCarried /\ [Next]_vars => PendingIsCarried'
BY JobStaysCarried DEF PendingIsCarried

\* No PENDING job is forgotten in silence: at every moment a message, a worker or
\* a request carries it on, or a crash or a swallowed error is known to have
\* taken what carried it.
THEOREM PendingAlwaysCarried == Spec => []PendingIsCarried
BY CarriedInit, CarriedNext, TypeCorrect, PTL DEF Spec

-----------------------------------------------------------------------------
(* The stale sweep *)

\* Under Celery a run is never younger than the started_at of its job: every
\* claim sets it anew, and both grow old together.  With the limit on the age of
\* a task this keeps the job of a live run from being stale.
RunsAreNotYounger ==
  Backend = "celery" =>
    \A w \in Workers : wpc[w] \in RunSteps => started[wjob[w]] <= wage[w]

\* Nothing runs at first.
LEMMA YoungInit == Init => RunsAreNotYounger
BY DEF Init, RunsAreNotYounger, RunSteps, LongSteps

\* Steps of workers and of the broker: a claim dates the job anew, and nothing else
\* starts a run.
LEMMA YoungByWorkers ==
  ASSUME TypeOK, RunsAreNotYounger, NEW w \in Workers,
         \/ WorkerStep(w) \/ DbError(w) \/ WorkerLost(w) \/ HardTimeLimit(w)
         \/ Redeliver(w) \/ \E k \in Jobs : Deliver(w, k)
  PROVE  RunsAreNotYounger'
<1>1. /\ started \in [Jobs -> NotStarted .. StaleAfter + 1]
      /\ wpc \in [Workers -> WorkerPc] /\ wage \in [Workers -> 0 .. TimeLimit]
      /\ wjob \in [Workers -> Jobs \cup {NoJob}]
      /\ \A v \in Workers : wpc[v] # "idle" => wjob[v] \in Jobs
  BY DEF TypeOK
<1> USE DEF RunsAreNotYounger, RunSteps, LongSteps
<1>2. CASE MarkProcessing(w)
  BY <1>1, <1>2 DEF MarkProcessing
<1>3. CASE UNCHANGED <<started, wage, wjob>> /\
           \A v \in Workers : wpc'[v] \in RunSteps => wpc[v] \in RunSteps
  BY <1>1, <1>3
<1>4. CASE Release(w) /\ UNCHANGED started
  BY <1>1, <1>4 DEF Release
<1>5. CASE ReadJob(w)
  BY <1>1, <1>3, <1>4, <1>5 DEF ReadJob, Goto, jobVars
<1>6. CASE PrepareJob(w)
  BY <1>1, <1>3, <1>4, <1>6 DEF PrepareJob, Goto
<1>7. CASE OcrExits(w) \/ WatcherSeesCancel(w) \/ ReadForComplete(w)
  BY <1>1, <1>3, <1>7
  DEF OcrExits, WatcherSeesCancel, ReadForComplete, Goto, jobVars
<1>8. CASE ReadForCancel(w) \/ ReadForFail(w) \/ MarkCompleted(w)
  BY <1>1, <1>3, <1>4, <1>8 DEF ReadForCancel, ReadForFail, MarkCompleted, Goto, jobVars
<1>9. CASE MarkCancelled(w) \/ MarkFailed(w) \/ WorkerLost(w) \/ HardTimeLimit(w)
  BY <1>4, <1>9 DEF MarkCancelled, MarkFailed, WorkerLost, HardTimeLimit, jobVars
<1>10. CASE DbError(w)
  BY <1>1, <1>3, <1>4, <1>10 DEF DbError, Goto, jobVars
<1>11. CASE Redeliver(w)
  BY <1>1, <1>3, <1>11 DEF Redeliver, jobVars, workerVars
<1>12. ASSUME NEW k \in Jobs, Deliver(w, k) PROVE RunsAreNotYounger'
  BY <1>1, <1>12 DEF Deliver, jobVars
<1> QED BY <1>2, <1>5, <1>6, <1>7, <1>8, <1>9, <1>10, <1>11, <1>12
        DEF WorkerStep, DatabaseStep

\* Every step keeps RunsAreNotYounger.
LEMMA YoungNext == TypeOK /\ RunsAreNotYounger /\ [Next]_vars => RunsAreNotYounger'
<1> SUFFICES ASSUME TypeOK, RunsAreNotYounger, [Next]_vars
             PROVE  RunsAreNotYounger'
  OBVIOUS
<1>1. /\ started \in [Jobs -> NotStarted .. StaleAfter + 1]
      /\ wpc \in [Workers -> WorkerPc] /\ wage \in [Workers -> 0 .. TimeLimit]
      /\ \A v \in Workers : wpc[v] # "idle" => wjob[v] \in Jobs
  BY DEF TypeOK
<1>2. CASE UNCHANGED <<workerVars, started>>
  BY <1>2 DEF RunsAreNotYounger, workerVars
<1>3. ASSUME NEW r \in Requests, RetryCommit(r) PROVE RunsAreNotYounger'
  BY <1>1, <1>3 DEF RetryCommit, RunsAreNotYounger, RunSteps, LongSteps, NotStarted,
                    workerVars
<1>4. ASSUME NEW r \in Requests,
             \/ CancelCommit(r) \/ CommitSubmits(r) \/ CancelRead(r) \/ RequestLost(r)
             \/ \E k \in Jobs : Submit(r, k) \/ SubmitError(r, k) \/ RetryRead(r, k)
             \/ \E js \in SUBSET Jobs : IngestFile(r, js)
      PROVE  RunsAreNotYounger'
  BY <1>2, <1>4
  DEF CancelCommit, CommitSubmits, CancelRead, RequestLost, Submit, SubmitError,
      RetryRead, IngestFile, jobVars
<1>5. ASSUME NEW k \in Jobs, RequeuePending(k) PROVE RunsAreNotYounger'
  BY <1>2, <1>5 DEF RequeuePending, jobVars
<1>6. CASE TimePasses
  <2> SUFFICES ASSUME Backend = "celery", NEW w \in Workers, wpc[w] \in RunSteps
               PROVE  started'[wjob[w]] <= wage'[w]
    BY <1>6 DEF TimePasses, RunsAreNotYounger
  <2>1. wage[w] < TimeLimit /\ wjob[w] \in Jobs
    BY <1>1, <1>6 DEF TimePasses, RunSteps, LongSteps
  <2>2. started[wjob[w]] <= wage[w] BY DEF RunsAreNotYounger
  <2>3. wage'[w] = wage[w] + 1
    BY <1>1, <1>6, <2>1, OcrJobsAssumption DEF TimePasses, RunSteps, LongSteps
  <2>4. started'[wjob[w]] <= started[wjob[w]] + 1
    BY <1>1, <1>6, <2>1 DEF TimePasses, NotStarted
  <2>5. started[wjob[w]] \in Int /\ started'[wjob[w]] \in Int /\ wage[w] \in Int
    BY <1>1, <1>6, <2>1, OcrJobsAssumption DEF TimePasses, NotStarted
  <2> QED BY <2>2, <2>3, <2>4, <2>5
<1>7. CASE StaleRead \/ StaleCommit
  BY <1>2, <1>7 DEF StaleRead, StaleCommit, jobVars
<1>8. CASE Restart
  BY <1>2, <1>8 DEF Restart, RunsAreNotYounger
<1>9. CASE UNCHANGED vars
  BY <1>2, <1>9 DEF vars, jobVars
<1> QED BY <1>3, <1>4, <1>5, <1>6, <1>7, <1>8, <1>9, YoungByWorkers
        DEF Next, UntimedNext, RequestStep

\* A task is killed before the row of its job is stale.
LEMMA SparesLiveRuns == TypeOK /\ RunsAreNotYounger => StaleSparesLiveRuns
<1> SUFFICES ASSUME TypeOK, RunsAreNotYounger, Backend = "celery", NEW j \in Jobs,
                    NEW w \in Workers, StaleEligible(j), Runs(w, j)
             PROVE  FALSE
  BY DEF StaleSparesLiveRuns
<1>1. started[j] \in Int /\ wage[w] \in Int /\ wage[w] <= TimeLimit
  BY OcrJobsAssumption DEF TypeOK, NotStarted
<1>2. started[j] <= wage[w] BY DEF RunsAreNotYounger, Runs
<1>3. started[j] > StaleAfter BY DEF StaleEligible
<1> QED BY <1>1, <1>2, <1>3, OcrJobsAssumption

\* The periodic recovery never selects a job whose OCR a worker is still running,
\* whatever happened before: redeliveries, second messages, retries, lost workers.
THEOREM StaleSweepIsSafe == Spec => []StaleSparesLiveRuns
BY SparesLiveRuns, YoungInit, YoungNext, TypeCorrect, PTL DEF Spec

-----------------------------------------------------------------------------
(* The in-process pool *)

\* Nothing is PROCESSING at first.
LEMMA AttendedInit == Init => ProcessingIsAttended
BY DEF Init, ProcessingIsAttended

\* A worker's step keeps a PROCESSING job attended if the worker keeps the job,
\* settles it, parks it with Gemini, or marks it in lost.
LEMMA AttendedByWorkers ==
  ASSUME TypeOK, ProcessingIsAttended, Backend = "thread_pool", NEW w \in Workers,
         \/ WorkerStep(w) \/ DbError(w) \/ WorkerLost(w) \/ HardTimeLimit(w)
         \/ Redeliver(w) \/ \E k \in Jobs : Deliver(w, k),
         NEW j \in Jobs, status'[j] = "PROCESSING", stage'[j] \notin BATCH_WAITING_STAGES
  PROVE  Attended(j)'
<1>1. /\ status \in [Jobs -> Status] /\ stage \in [Jobs -> Stage]
      /\ wpc \in [Workers -> WorkerPc] /\ wjob \in [Workers -> Jobs \cup {NoJob}]
      /\ queue \in [Jobs -> Nat]
      /\ \A v \in Workers : wpc[v] # "idle" => wjob[v] \in Jobs
      /\ \A v \in Workers : wpc[v] = "idle" => wjob[v] \notin Jobs
  BY OcrJobsAssumption DEF TypeOK
<1>2. status[j] = "PROCESSING" /\ stage[j] \notin BATCH_WAITING_STAGES => Attended(j)
  BY DEF ProcessingIsAttended
<1> USE DEF Attended, Goto, Release, jobVars, queueVars
<1>3. CASE MarkProcessing(w) BY <1>1, <1>2, <1>3 DEF MarkProcessing
<1>4. CASE PrepareJob(w) BY <1>1, <1>2, <1>4 DEF PrepareJob, BATCH_WAITING_STAGES
<1>5. CASE ReadJob(w) BY <1>1, <1>2, <1>5 DEF ReadJob
<1>6. CASE OcrExits(w) \/ WatcherSeesCancel(w) \/ ReadForComplete(w)
  BY <1>1, <1>2, <1>6 DEF OcrExits, WatcherSeesCancel, ReadForComplete
<1>7. CASE ReadForCancel(w) \/ ReadForFail(w)
  BY <1>1, <1>2, <1>7 DEF ReadForCancel, ReadForFail, Unfinished
<1>8. CASE MarkCancelled(w) \/ MarkFailed(w) \/ MarkCompleted(w)
  BY <1>1, <1>2, <1>8 DEF MarkCancelled, MarkFailed, MarkCompleted
<1>9. CASE DbError(w) BY <1>1, <1>2, <1>9 DEF DbError
<1>10. CASE WorkerLost(w) \/ HardTimeLimit(w) \/ Redeliver(w)
  BY <1>10 DEF WorkerLost, HardTimeLimit, Redeliver
<1>11. ASSUME NEW k \in Jobs, Deliver(w, k) PROVE Attended(j)'
  BY <1>1, <1>2, <1>11 DEF Deliver
<1> QED BY <1>3, <1>4, <1>5, <1>6, <1>7, <1>8, <1>9, <1>10, <1>11
        DEF WorkerStep, DatabaseStep

\* Every step keeps PROCESSING jobs of the pool attended.
LEMMA AttendedNext == TypeOK /\ ProcessingIsAttended /\ [Next]_vars => ProcessingIsAttended'
<1> SUFFICES ASSUME TypeOK, ProcessingIsAttended, [Next]_vars, Backend = "thread_pool",
                    NEW j \in Jobs, status'[j] = "PROCESSING",
                    stage'[j] \notin BATCH_WAITING_STAGES
             PROVE  Attended(j)'
  BY DEF ProcessingIsAttended
<1>1. /\ status \in [Jobs -> Status] /\ stage \in [Jobs -> Stage]
      /\ queue \in [Jobs -> Nat]
  BY DEF TypeOK
<1>2. status[j] = "PROCESSING" /\ stage[j] \notin BATCH_WAITING_STAGES => Attended(j)
  BY DEF ProcessingIsAttended
<1> USE DEF Attended, jobVars, queueVars, workerVars
<1>3. ASSUME NEW r \in Requests, RequestStep(r) PROVE Attended(j)'
  <2>1. CASE RetryCommit(r) \/ CancelCommit(r) \/ CommitSubmits(r)
    BY <1>1, <1>2, <2>1 DEF RetryCommit, CancelCommit, CommitSubmits, SetStatus
  <2>2. ASSUME NEW k \in Jobs, Submit(r, k) PROVE Attended(j)'
    BY <1>1, <1>2, <2>2 DEF Submit, Enqueue
  <2> QED BY <1>3, <2>1, <2>2 DEF RequestStep
<1>4. ASSUME NEW r \in Requests,
             \/ CancelRead(r) \/ RequestLost(r)
             \/ \E k \in Jobs : SubmitError(r, k) \/ RetryRead(r, k)
             \/ \E js \in SUBSET Jobs : IngestFile(r, js)
      PROVE  Attended(j)'
  BY <1>1, <1>2, <1>4
  DEF CancelRead, RequestLost, SubmitError, RetryRead, IngestFile, SetStatus
<1>5. ASSUME NEW k \in Jobs, RequeuePending(k) PROVE Attended(j)'
  BY <1>1, <1>2, <1>5 DEF RequeuePending, Enqueue
<1>6. CASE TimePasses \/ StaleRead \/ StaleCommit
  BY <1>1, <1>2, <1>6 DEF TimePasses, StaleRead, StaleCommit, SetStatus
<1>7. CASE Restart
  BY <1>1, <1>2, <1>7 DEF Restart, SetStatus
<1>8. CASE UNCHANGED vars
  BY <1>2, <1>8 DEF vars
<1> QED BY <1>3, <1>4, <1>5, <1>6, <1>7, <1>8, AttendedByWorkers DEF Next, UntimedNext

\* With the in-process pool no job stays PROCESSING with nothing to move it on,
\* restarts included, unless a database error was swallowed while it was failed.
THEOREM PoolAttendsItsJobs == Spec => []ProcessingIsAttended
BY AttendedInit, AttendedNext, TypeCorrect, PTL DEF Spec

-----------------------------------------------------------------------------
(* Settled jobs *)

\* Only a request that submits has jobs it could not submit.
RefusedBySubmits == \A r \in Requests : rpc[r] # "submit" => rfailed[r] = {}

\* No request has any at first.
LEMMA RefusedInit == Init => RefusedBySubmits
BY DEF Init, RefusedBySubmits

\* A request that ends forgets them.
LEMMA RefusedNext == TypeOK /\ RefusedBySubmits /\ [Next]_vars => RefusedBySubmits'
<1> SUFFICES ASSUME TypeOK, RefusedBySubmits, [Next]_vars PROVE RefusedBySubmits'
  OBVIOUS
<1>1. rpc \in [Requests -> RequestPc] /\ rfailed \in [Requests -> SUBSET Jobs]
  BY DEF TypeOK
<1> USE DEF RefusedBySubmits
<1>2. CASE UNCHANGED requestVars BY <1>2 DEF requestVars
<1>3. ASSUME NEW r \in Requests,
             \/ RequestStep(r) \/ CancelRead(r) \/ RequestLost(r)
             \/ \E k \in Jobs : SubmitError(r, k) \/ RetryRead(r, k)
             \/ \E js \in SUBSET Jobs : IngestFile(r, js)
      PROVE  RefusedBySubmits'
  BY <1>1, <1>3
  DEF RequestStep, RetryCommit, CancelCommit, CommitSubmits, Submit, CancelRead, RequestLost,
      SubmitError, RetryRead, IngestFile, EndRequest
<1>4. ASSUME NEW w \in Workers,
             \/ WorkerStep(w) \/ DbError(w) \/ WorkerLost(w) \/ HardTimeLimit(w)
             \/ Redeliver(w) \/ \E k \in Jobs : Deliver(w, k)
      PROVE  UNCHANGED requestVars
  BY <1>4
  DEF WorkerStep, DatabaseStep, ReadJob, MarkProcessing, PrepareJob, OcrExits,
      WatcherSeesCancel, ReadForCancel, MarkCancelled, ReadForComplete, MarkCompleted,
      ReadForFail, MarkFailed, DbError, WorkerLost, HardTimeLimit, Redeliver, Deliver
<1>5. CASE \/ \E k \in Jobs : RequeuePending(k)
           \/ TimePasses \/ StaleRead \/ StaleCommit
  BY <1>2, <1>5 DEF RequeuePending, TimePasses, StaleRead, StaleCommit
<1>6. CASE Restart BY <1>6 DEF Restart
<1>7. CASE UNCHANGED vars BY <1>2, <1>7 DEF vars
<1> QED BY <1>2, <1>3, <1>4, <1>5, <1>6, <1>7 DEF Next, UntimedNext

\* What a worker reads of a settled job gives it nothing to write.
LEMMA SettledByWorkers ==
  ASSUME TypeOK, NEW w \in Workers, NEW j \in Jobs, Settled(j),
         \/ WorkerStep(w) \/ DbError(w) \/ WorkerLost(w) \/ HardTimeLimit(w)
         \/ Redeliver(w) \/ \E k \in Jobs : Deliver(w, k)
  PROVE  status'[j] = status[j] /\ Settled(j)'
<1>1. /\ status \in [Jobs -> Status] /\ wpc \in [Workers -> WorkerPc]
      /\ wjob \in [Workers -> Jobs \cup {NoJob}] /\ NoJob \notin Jobs
  BY OcrJobsAssumption DEF TypeOK
<1> DEFINE Writes == {"claim", "cancel", "complete", "fail_write"}
<1>2. status[j] \notin Unfinished /\ \A v \in Workers : wjob[v] = j => wpc[v] \notin Writes
  BY DEF Settled, WriteIsDue, Retryable, Unfinished
<1>3. UNCHANGED <<requestVars, sweep>> /\ \A v \in Workers \ {w} : wpc'[v] = wpc[v] /\ wjob'[v] = wjob[v]
  BY <1>1
  DEF WorkerStep, DatabaseStep, ReadJob, MarkProcessing, PrepareJob, OcrExits,
      WatcherSeesCancel, ReadForCancel, MarkCancelled, ReadForComplete, MarkCompleted,
      ReadForFail, MarkFailed, DbError, WorkerLost, HardTimeLimit, Redeliver, Deliver,
      Goto, Release, workerVars
<1>4. status'[j] = status[j] /\ (wjob'[w] = j => wpc'[w] \notin Writes)
  <2> USE <1>1, <1>2 DEF jobVars, Goto, Release, Unfinished
  <2>1. CASE ReadJob(w) \/ MarkProcessing(w) \/ PrepareJob(w) \/ OcrExits(w)
    BY <2>1 DEF ReadJob, MarkProcessing, PrepareJob, OcrExits
  <2>2. CASE WatcherSeesCancel(w) \/ ReadForCancel(w) \/ MarkCancelled(w)
    BY <2>2 DEF WatcherSeesCancel, ReadForCancel, MarkCancelled
  <2>3. CASE ReadForComplete(w) \/ MarkCompleted(w) \/ ReadForFail(w) \/ MarkFailed(w)
    BY <2>3 DEF ReadForComplete, MarkCompleted, ReadForFail, MarkFailed
  <2>4. CASE DbError(w) \/ WorkerLost(w) \/ HardTimeLimit(w) \/ Redeliver(w)
    BY <2>4 DEF DbError, WorkerLost, HardTimeLimit, Redeliver, LongSteps, workerVars
  <2>5. ASSUME NEW k \in Jobs, Deliver(w, k)
        PROVE  status'[j] = status[j] /\ (wjob'[w] = j => wpc'[w] \notin Writes)
    BY <2>5 DEF Deliver
  <2> QED BY <2>1, <2>2, <2>3, <2>4, <2>5 DEF WorkerStep, DatabaseStep
<1>5. ~ WriteIsDue(j)'
  BY <1>2, <1>3, <1>4 DEF Settled, WriteIsDue, StillToSubmit, requestVars
<1> QED BY <1>4, <1>5 DEF Settled

\* A request takes up a settled job to retry it, and not otherwise.
LEMMA SettledByRequests ==
  ASSUME TypeOK, RefusedBySubmits, NEW r \in Requests, NEW j \in Jobs, Settled(j),
         \/ RequestStep(r) \/ CancelRead(r) \/ RequestLost(r)
         \/ \E k \in Jobs : SubmitError(r, k) \/ RetryRead(r, k)
         \/ \E js \in SUBSET Jobs : IngestFile(r, js)
  PROVE  /\ status'[j] = status[j]
         /\ Settled(j)' \/ RetryRead(r, j)
<1>1. /\ status \in [Jobs -> Status] /\ rpc \in [Requests -> RequestPc]
      /\ rjobs \in [Requests -> SUBSET Jobs] /\ rfailed \in [Requests -> SUBSET Jobs]
  BY DEF TypeOK
<1>2. /\ status[j] \notin Unfinished \cup {"ABSENT"} /\ j \notin sweep
      /\ \A q \in Requests : /\ rpc[q] \in {"retry", "cancel"} => j \notin rjobs[q]
                             /\ j \notin StillToSubmit(q)
  BY DEF Settled, WriteIsDue, Retryable, Unfinished
<1>3. UNCHANGED <<workerVars, sweep>>
      /\ \A q \in Requests \ {r} : rpc'[q] = rpc[q] /\ rjobs'[q] = rjobs[q] /\ rfailed'[q] = rfailed[q]
  BY <1>1
  DEF RequestStep, RetryCommit, CancelCommit, CommitSubmits, Submit, CancelRead, RequestLost,
      SubmitError, RetryRead, IngestFile, EndRequest
<1>4. /\ status'[j] = status[j]
      /\ RetryRead(r, j) \/ /\ rpc'[r] \in {"retry", "cancel"} => j \notin rjobs'[r]
                            /\ j \notin StillToSubmit(r)'
  <2> USE <1>1, <1>2 DEF jobVars, StillToSubmit, SetStatus, EndRequest
  <2>1. CASE RetryCommit(r) \/ CancelCommit(r) \/ CommitSubmits(r) \/ RequestLost(r)
    BY <2>1 DEF RetryCommit, CancelCommit, CommitSubmits, RequestLost, RefusedBySubmits
  <2>2. CASE CancelRead(r)
    BY <2>2 DEF CancelRead
  <2>3. ASSUME NEW k \in Jobs, Submit(r, k) \/ SubmitError(r, k)
        PROVE  status'[j] = status[j] /\ rpc'[r] = "submit" /\ j \notin StillToSubmit(r)'
    BY <2>3 DEF Submit, SubmitError
  <2>4. ASSUME NEW k \in Jobs, RetryRead(r, k), ~ RetryRead(r, j)
        PROVE  status'[j] = status[j] /\ rpc'[r] = "retry" /\ j \notin rjobs'[r]
    BY <2>4 DEF RetryRead
  <2>5. ASSUME NEW k \in Jobs, RetryRead(r, k) PROVE status'[j] = status[j]
    BY <2>5 DEF RetryRead
  <2>6. ASSUME NEW js \in SUBSET Jobs, IngestFile(r, js)
        PROVE  status'[j] = status[j] /\ rpc'[r] = "submit" /\ j \notin StillToSubmit(r)'
    BY <2>6 DEF IngestFile, RefusedBySubmits
  <2> QED BY <2>1, <2>2, <2>3, <2>4, <2>5, <2>6 DEF RequestStep
<1>5. ASSUME ~ RetryRead(r, j) PROVE ~ WriteIsDue(j)'
  <2>1. \A q \in Requests : /\ rpc'[q] \in {"retry", "cancel"} => j \notin rjobs'[q]
                            /\ j \notin StillToSubmit(q)'
    BY <1>2, <1>3, <1>4, <1>5 DEF StillToSubmit
  <2> QED BY <1>3, <2>1 DEF Settled, WriteIsDue, workerVars
<1> QED BY <1>4, <1>5 DEF Settled

\* Recovery, restarts, the requeue script and time leave it alone.
LEMMA SettledByOthers ==
  ASSUME TypeOK, NEW j \in Jobs, Settled(j),
         \/ \E k \in Jobs : RequeuePending(k)
         \/ TimePasses \/ StaleRead \/ StaleCommit \/ Restart
  PROVE  status'[j] = status[j] /\ Settled(j)'
<1>1. status \in [Jobs -> Status] /\ status[j] \notin Unfinished /\ j \notin sweep
  BY DEF TypeOK, Settled, WriteIsDue, Retryable, Unfinished
<1> USE DEF Settled, WriteIsDue, StillToSubmit, jobVars, workerVars, requestVars, Unfinished
<1>2. ASSUME NEW k \in Jobs, RequeuePending(k) PROVE status'[j] = status[j] /\ Settled(j)'
  BY <1>2 DEF RequeuePending
<1>3. CASE TimePasses BY <1>3 DEF TimePasses
<1>4. CASE StaleRead BY <1>1, <1>4 DEF StaleRead, StaleEligible
<1>5. CASE StaleCommit BY <1>1, <1>5 DEF StaleCommit, SetStatus
<1>6. CASE Restart BY <1>1, <1>6 DEF Restart, SetStatus
<1> QED BY <1>2, <1>3, <1>4, <1>5, <1>6

\* For any number of jobs, workers and requests, and whatever was sent twice, came late
\* or was written on a stale read before: a settled job that nobody acts on an older
\* read of stays as it is until a user retries it.
THEOREM SettledJobsStay == Spec => SettledStays
<1>1. TypeOK /\ RefusedBySubmits /\ [Next]_vars =>
        [\A j \in Jobs : Settled(j) =>
           /\ status'[j] = status[j]
           /\ \/ Settled(j)'
              \/ status[j] \in Retryable /\ \E r \in Requests :
                   rpc[r] = "idle" /\ rpc'[r] = "retry" /\ rjobs'[r] = {j}]_vars
  <2> SUFFICES ASSUME TypeOK, RefusedBySubmits, Next, NEW j \in Jobs, Settled(j)
               PROVE  /\ status'[j] = status[j]
                      /\ \/ Settled(j)'
                         \/ status[j] \in Retryable /\ \E r \in Requests :
                              rpc[r] = "idle" /\ rpc'[r] = "retry" /\ rjobs'[r] = {j}
    OBVIOUS
  <2>1. ASSUME NEW r \in Requests, RetryRead(r, j)
        PROVE  status[j] \in Retryable /\ rpc[r] = "idle" /\ rpc'[r] = "retry" /\ rjobs'[r] = {j}
    BY <2>1 DEF RetryRead, TypeOK
  <2> QED BY <2>1, SettledByWorkers, SettledByRequests, SettledByOthers DEF Next, UntimedNext
<1> QED BY <1>1, RefusedInit, RefusedNext, TypeCorrect, PTL DEF Spec, SettledStays
-----------------------------------------------------------------------------
(* The life of a job *)

\* The places a job can be in, as far as anything will act on it; queue[j] > 0 is
\* the third.
AtWorker(j) == \E w \in Workers : wjob[w] = j
ToSubmit(j) == \E r \in Requests : rpc[r] = "submit" /\ j \in rjobs[r]

\* A job is in one of them at a time, once, and in none before it exists.
OneMessage(j) ==
  /\ queue[j] > 0 => ~ ToSubmit(j) /\ ~ AtWorker(j)
  /\ AtWorker(j) => ~ ToSubmit(j)
  /\ queue[j] <= 1
  /\ \A w \in Workers : \A v \in Workers \ {w} : wjob[w] = j => wjob[v] # j
  /\ \A r \in Requests : \A q \in Requests \ {r} :
       ~ (rpc[r] = "submit" /\ rpc[q] = "submit" /\ j \in rjobs[r] \cap rjobs[q])
  /\ status[j] = "ABSENT" => queue[j] = 0 /\ ~ ToSubmit(j) /\ ~ AtWorker(j)

\* The status of a job that is run: a cancellation does not stop the run at once.
RunsAreShown(j) == j \in LiveJobs => status[j] \in {"PROCESSING", "CANCELLED"}

\* What is so of every job that did not race; and the sweep is Celery's.
LifeInv ==
  /\ \A j \in Jobs \ raced : OneMessage(j) /\ RunsAreShown(j)
  /\ Backend = "thread_pool" => sweep = {}

\* A step that gives nobody the job.
LEMMA NobodyNew ==
  ASSUME TypeOK, TypeOK', NEW j \in Jobs, OneMessage(j), queue'[j] <= queue[j],
         \A w \in Workers : wjob'[w] = j => wjob[w] = j,
         \A r \in Requests : rpc'[r] = "submit" /\ j \in rjobs'[r] =>
                               rpc[r] = "submit" /\ j \in rjobs[r],
         status'[j] = "ABSENT" => status[j] = "ABSENT"
  PROVE  OneMessage(j)'
<1>1. AtWorker(j)' => AtWorker(j) BY DEF AtWorker
<1>2. ToSubmit(j)' => ToSubmit(j) BY DEF ToSubmit
<1>3. \A w \in Workers : \A v \in Workers \ {w} : wjob'[w] = j => wjob'[v] # j
  BY DEF OneMessage
<1>4. \A r \in Requests : \A q \in Requests \ {r} :
        ~ (rpc'[r] = "submit" /\ rpc'[q] = "submit" /\ j \in rjobs'[r] \cap rjobs'[q])
  BY DEF OneMessage
<1>5. queue[j] \in Nat /\ queue'[j] \in Nat
  BY DEF TypeOK
<1>6. queue'[j] <= 1 /\ (queue[j] = 0 => queue'[j] = 0) /\ (queue'[j] > 0 => queue[j] > 0)
  BY <1>5 DEF OneMessage
<1> QED BY <1>1, <1>2, <1>3, <1>4, <1>6 DEF OneMessage

\* Workers and the broker hand a job back and forth; a redelivery makes it race.
LEMMA OneMessageByWorkers ==
  ASSUME TypeOK, TypeOK', NEW j \in Jobs \ raced', OneMessage(j), NEW w \in Workers,
         \/ WorkerStep(w) \/ DbError(w) \/ WorkerLost(w) \/ HardTimeLimit(w)
         \/ Redeliver(w) \/ \E k \in Jobs : Deliver(w, k)
  PROVE  OneMessage(j)'
<1>1. /\ status \in [Jobs -> Status] /\ queue \in [Jobs -> Nat]
      /\ wpc \in [Workers -> WorkerPc] /\ wjob \in [Workers -> Jobs \cup {NoJob}]
      /\ \A v \in Workers : wpc[v] = "idle" <=> wjob[v] = NoJob
      /\ NoJob \notin Jobs
  BY OcrJobsAssumption DEF TypeOK
<1>2. ASSUME UNCHANGED <<queue, requestVars>>, Release(w) \/ UNCHANGED wjob,
             status'[j] = "ABSENT" => status[j] = "ABSENT"
      PROVE  OneMessage(j)'
  BY <1>1, <1>2, NobodyNew DEF Release, requestVars
<1> USE DEF jobVars, queueVars, Goto
<1>3. CASE ReadJob(w) \/ MarkProcessing(w) \/ PrepareJob(w)
  BY <1>1, <1>2, <1>3 DEF ReadJob, MarkProcessing, PrepareJob
<1>4. CASE OcrExits(w) \/ WatcherSeesCancel(w) \/ ReadForCancel(w) \/ MarkCancelled(w)
  BY <1>1, <1>2, <1>4 DEF OcrExits, WatcherSeesCancel, ReadForCancel, MarkCancelled
<1>5. CASE ReadForComplete(w) \/ MarkCompleted(w) \/ ReadForFail(w) \/ MarkFailed(w)
  BY <1>1, <1>2, <1>5 DEF ReadForComplete, MarkCompleted, ReadForFail, MarkFailed
<1>6. CASE DbError(w) \/ HardTimeLimit(w)
  BY <1>1, <1>2, <1>6 DEF DbError, HardTimeLimit
<1>7. CASE WorkerLost(w)
  <2>1. wjob[w] \in Jobs BY <1>1, <1>7 DEF WorkerLost
  <2>2. CASE wjob[w] # j
    BY <1>1, <1>7, <2>1, <2>2, NobodyNew DEF WorkerLost, Release, requestVars
  <2>3. CASE wjob[w] = j
    <3>1. AtWorker(j) BY <2>3 DEF AtWorker
    <3>2. ~ AtWorker(j)' BY <1>1, <1>7, <2>3 DEF AtWorker, OneMessage, WorkerLost, Release
    <3>3. queue'[j] = 1 BY <1>1, <1>7, <2>3, <3>1 DEF OneMessage, WorkerLost
    <3>4. ~ ToSubmit(j)' BY <1>7, <3>1 DEF OneMessage, WorkerLost, ToSubmit, requestVars
    <3>5. status'[j] # "ABSENT" BY <1>7, <3>1 DEF OneMessage, WorkerLost
    <3> QED BY <1>7, <3>2, <3>3, <3>4, <3>5
            DEF OneMessage, AtWorker, ToSubmit, WorkerLost, requestVars
  <2> QED BY <2>2, <2>3
<1>8. ASSUME NEW k \in Jobs, Deliver(w, k) PROVE OneMessage(j)'
  <2>1. CASE k # j
    BY <1>1, <1>8, <2>1, NobodyNew DEF Deliver, requestVars
  <2>2. CASE k = j
    <3>1. queue[j] > 0 BY <1>8, <2>2 DEF Deliver
    <3>2. queue'[j] = 0 BY <1>1, <1>8, <2>2, <3>1 DEF OneMessage, Deliver
    <3>3. \A v \in Workers \ {w} : wjob'[v] # j
      BY <1>1, <1>8, <3>1 DEF OneMessage, AtWorker, Deliver
    <3>4. ~ ToSubmit(j)' BY <1>8, <3>1 DEF OneMessage, Deliver, ToSubmit, requestVars
    <3>5. status'[j] # "ABSENT" BY <1>8, <3>1 DEF OneMessage, Deliver
    <3> QED BY <3>2, <3>3, <3>4, <3>5 DEF OneMessage, ToSubmit
  <2> QED BY <2>1, <2>2
<1>9. CASE Redeliver(w)
  <2>1. wjob[w] # j BY <1>9 DEF Redeliver
  <2>2. wjob[w] \in Jobs BY <1>1, <1>9 DEF Redeliver, LongSteps
  <2> QED BY <1>1, <1>9, <2>1, <2>2, NobodyNew DEF Redeliver, requestVars, workerVars
<1> QED BY <1>3, <1>4, <1>5, <1>6, <1>7, <1>8, <1>9 DEF WorkerStep, DatabaseStep

\* Requests take up a job that nothing handles, and give it to the queue.
LEMMA OneMessageByRequests ==
  ASSUME TypeOK, TypeOK', NEW j \in Jobs \ raced', OneMessage(j), NEW r \in Requests,
         \/ RequestStep(r) \/ CancelRead(r) \/ RequestLost(r)
         \/ \E k \in Jobs : SubmitError(r, k) \/ RetryRead(r, k)
         \/ \E js \in SUBSET Jobs : IngestFile(r, js)
  PROVE  OneMessage(j)'
<1>1. /\ status \in [Jobs -> Status] /\ queue \in [Jobs -> Nat]
      /\ rpc \in [Requests -> RequestPc] /\ rjobs \in [Requests -> SUBSET Jobs]
  BY DEF TypeOK
<1>2. ASSUME UNCHANGED <<queue, wjob>>, status'[j] = "ABSENT" => status[j] = "ABSENT",
             \A q \in Requests : rpc'[q] = "submit" /\ j \in rjobs'[q] =>
                                   rpc[q] = "submit" /\ j \in rjobs[q]
      PROVE  OneMessage(j)'
  BY <1>1, <1>2, NobodyNew
<1> USE DEF jobVars, queueVars, workerVars
\* From nobody to the request.
<1>3. ASSUME ~ BeingHandled(j), status'[j] # "ABSENT", UNCHANGED <<queue, wjob>>,
             \A q \in Requests \ {r} : rpc'[q] = rpc[q] /\ rjobs'[q] = rjobs[q]
      PROVE  OneMessage(j)'
  <2>1. queue'[j] = 0 BY <1>1, <1>3 DEF BeingHandled
  <2>2. ~ AtWorker(j)' BY <1>3 DEF BeingHandled, AtWorker
  <2>3. \A q \in Requests \ {r} : ~ (rpc'[q] = "submit" /\ j \in rjobs'[q])
    BY <1>3 DEF BeingHandled
  <2> QED BY <1>3, <2>1, <2>2, <2>3 DEF OneMessage, AtWorker
<1>4. CASE RetryCommit(r)
  <2>1. \A q \in Requests \ {r} : rpc'[q] = rpc[q] /\ rjobs'[q] = rjobs[q]
    BY <1>1, <1>4 DEF RetryCommit
  <2>2. CASE j \in rjobs[r]
    <3>1. ~ BeingHandled(j) BY <1>4, <2>2 DEF RetryCommit
    <3> QED BY <1>3, <1>4, <2>1, <2>2, <3>1 DEF RetryCommit, SetStatus
  <2>3. CASE j \notin rjobs[r]
    BY <1>1, <1>2, <1>4, <2>1, <2>3 DEF RetryCommit, SetStatus
  <2> QED BY <2>2, <2>3
<1>5. CASE CancelCommit(r)
  BY <1>1, <1>2, <1>5 DEF CancelCommit, SetStatus, EndRequest
<1>6. CASE CommitSubmits(r)
  BY <1>1, <1>2, <1>6 DEF CommitSubmits, SetStatus, EndRequest
<1>7. ASSUME NEW k \in Jobs, Submit(r, k) PROVE OneMessage(j)'
  <2>1. CASE k # j
    BY <1>1, <1>7, <2>1, NobodyNew DEF Submit, Enqueue
  <2>2. CASE k = j
    <3>1. ToSubmit(j) BY <1>7, <2>2 DEF Submit, ToSubmit
    <3>2. queue'[j] = 1 BY <1>1, <1>7, <2>2, <3>1 DEF OneMessage, Submit, Enqueue
    <3>3. ~ AtWorker(j)' BY <1>7, <3>1 DEF OneMessage, AtWorker, Submit
    <3>4. ~ ToSubmit(j)' BY <1>1, <1>7, <2>2 DEF OneMessage, ToSubmit, Submit
    <3>5. status'[j] # "ABSENT" BY <1>7, <3>1 DEF OneMessage, Submit
    <3> QED BY <3>2, <3>3, <3>4, <3>5 DEF OneMessage, AtWorker, ToSubmit
  <2> QED BY <2>1, <2>2
<1>8. CASE CancelRead(r) BY <1>1, <1>2, <1>8 DEF CancelRead
<1>9. CASE RequestLost(r) BY <1>1, <1>2, <1>9 DEF RequestLost, EndRequest
<1>10. ASSUME NEW k \in Jobs, SubmitError(r, k) PROVE OneMessage(j)'
  BY <1>1, <1>2, <1>10 DEF SubmitError
<1>11. ASSUME NEW k \in Jobs, RetryRead(r, k) PROVE OneMessage(j)'
  BY <1>1, <1>2, <1>11 DEF RetryRead
<1>12. ASSUME NEW js \in SUBSET Jobs, IngestFile(r, js) PROVE OneMessage(j)'
  <2>1. \A q \in Requests \ {r} : rpc'[q] = rpc[q] /\ rjobs'[q] = rjobs[q]
    BY <1>1, <1>12 DEF IngestFile
  <2>2. CASE j \in js
    <3>1. status[j] = "ABSENT" BY <1>12, <2>2 DEF IngestFile
    <3>2. ~ BeingHandled(j)
      BY <1>1, <3>1 DEF OneMessage, BeingHandled, AtWorker, ToSubmit
    <3> QED BY <1>3, <1>12, <2>1, <2>2, <3>2 DEF IngestFile, SetStatus
  <2>3. CASE j \notin js
    BY <1>1, <1>2, <1>12, <2>1, <2>3 DEF IngestFile, SetStatus
  <2> QED BY <2>2, <2>3
<1> QED BY <1>4, <1>5, <1>6, <1>7, <1>8, <1>9, <1>10, <1>11, <1>12 DEF RequestStep

\* Recovery, restarts and time give nobody a job; the requeue script sends a message
\* for one that nothing handles, or makes it race.
LEMMA OneMessageByOthers ==
  ASSUME TypeOK, TypeOK', NEW j \in Jobs \ raced', OneMessage(j),
         \/ \E k \in Jobs : RequeuePending(k)
         \/ TimePasses \/ StaleRead \/ StaleCommit \/ Restart \/ UNCHANGED vars
  PROVE  OneMessage(j)'
<1>1. /\ status \in [Jobs -> Status] /\ queue \in [Jobs -> Nat]
      /\ rpc \in [Requests -> RequestPc] /\ NoJob \notin Jobs
  BY OcrJobsAssumption DEF TypeOK
<1>2. CASE TimePasses \/ StaleRead \/ StaleCommit \/ Restart \/ UNCHANGED vars
  <2>1. status'[j] = "ABSENT" => status[j] = "ABSENT"
    BY <1>1, <1>2 DEF TimePasses, StaleRead, StaleCommit, Restart, SetStatus, vars, jobVars
  <2>2. queue'[j] <= queue[j]
    BY <1>1, <1>2 DEF TimePasses, StaleRead, StaleCommit, Restart, vars, queueVars
  <2>3. \A w \in Workers : wjob'[w] = j => wjob[w] = j
    BY <1>1, <1>2 DEF TimePasses, StaleRead, StaleCommit, Restart, vars, workerVars
  <2>4. \A r \in Requests : rpc'[r] = "submit" /\ j \in rjobs'[r] =>
                              rpc[r] = "submit" /\ j \in rjobs[r]
    BY <1>1, <1>2 DEF TimePasses, StaleRead, StaleCommit, Restart, vars, requestVars
  <2> QED BY <2>1, <2>2, <2>3, <2>4, NobodyNew
<1>3. ASSUME NEW k \in Jobs, RequeuePending(k) PROVE OneMessage(j)'
  <2> USE DEF jobVars, workerVars, requestVars
  <2>1. CASE k # j
    BY <1>1, <1>3, <2>1, NobodyNew DEF RequeuePending, Enqueue
  <2>2. CASE k = j
    <3>1. ~ BeingHandled(j) BY <1>3, <2>2 DEF RequeuePending
    <3>2. queue'[j] = 1 BY <1>1, <1>3, <2>2, <3>1 DEF RequeuePending, Enqueue, BeingHandled
    <3>3. ~ AtWorker(j)' /\ ~ ToSubmit(j)' /\ status'[j] # "ABSENT"
      BY <1>3, <2>2, <3>1 DEF RequeuePending, BeingHandled, AtWorker, ToSubmit
    <3> QED BY <3>2, <3>3 DEF OneMessage, AtWorker, ToSubmit
  <2> QED BY <2>1, <2>2
<1> QED BY <1>2, <1>3

\* Who is run is what the one worker that has the job does with it.
LEMMA LiveByWorker ==
  ASSUME NEW w \in Workers, NEW j \in Jobs, OneMessage(j),
         \A v \in Workers \ {w} : wpc'[v] = wpc[v] /\ wjob'[v] = wjob[v]
  PROVE  /\ wjob[w] = j => (j \in LiveJobs <=> wpc[w] \in RunSteps)
         /\ wjob[w] = j => (j \in LiveJobs' <=> Runs(w, j)')
         /\ wjob[w] # j /\ ~ Runs(w, j)' => (j \in LiveJobs' <=> j \in LiveJobs)
BY DEF OneMessage, LiveJobs, Runs

\* What a step of a worker is in the life of a job.
LEMMA WorkerLife ==
  ASSUME TypeOK, NEW w \in Workers, NEW j \in Jobs \ raced', OneMessage(j),
         \/ WorkerStep(w) \/ DbError(w) \/ WorkerLost(w) \/ HardTimeLimit(w)
         \/ Redeliver(w) \/ \E k \in Jobs : Deliver(w, k)
  PROVE  Lifecycle!Step(j)
<1>1. /\ status \in [Jobs -> Status] /\ wpc \in [Workers -> WorkerPc]
      /\ wjob \in [Workers -> Jobs \cup {NoJob}] /\ NoJob \notin Jobs
      /\ wpc[w] = "idle" <=> wjob[w] = NoJob
  BY OcrJobsAssumption DEF TypeOK
<1> USE DEF jobVars, Goto, Release, RunSteps, LongSteps
<1>2. \A v \in Workers \ {w} : wpc'[v] = wpc[v] /\ wjob'[v] = wjob[v]
  BY <1>1
  DEF WorkerStep, DatabaseStep, ReadJob, MarkProcessing, PrepareJob, OcrExits,
      WatcherSeesCancel, ReadForCancel, MarkCancelled, ReadForComplete, MarkCompleted,
      ReadForFail, MarkFailed, DbError, WorkerLost, HardTimeLimit, Redeliver, Deliver,
      workerVars
\* The worker works on another job, or on none.
<1>3. CASE wjob[w] # j
  <2>1. status'[j] = status[j] /\ ~ Runs(w, j)'
    BY <1>1, <1>3
    DEF WorkerStep, DatabaseStep, ReadJob, MarkProcessing, PrepareJob, OcrExits,
        WatcherSeesCancel, ReadForCancel, MarkCancelled, ReadForComplete, MarkCompleted,
        ReadForFail, MarkFailed, DbError, WorkerLost, HardTimeLimit, Redeliver, Deliver,
        Runs, workerVars
  <2> QED BY <1>2, <1>3, <2>1, LiveByWorker DEF Lifecycle!Step, Lifecycle!Rest
<1>4. CASE wjob[w] = j
  <2>1. wpc[w] # "idle" BY <1>1, <1>4
  <2>2. /\ j \in LiveJobs <=> wpc[w] \in RunSteps
        /\ j \in LiveJobs' <=> wjob'[w] = j /\ wpc'[w] \in RunSteps
    BY <1>2, <1>4, LiveByWorker DEF Runs
  \* It moves on, or gives the job up.
  <2>3. ASSUME status'[j] = status[j], wjob'[w] = j /\ wpc'[w] \in RunSteps => wpc[w] \in RunSteps
        PROVE  Lifecycle!Step(j)
    BY <2>2, <2>3 DEF Lifecycle!Step, Lifecycle!EndRun, Lifecycle!Rest
  <2>4. CASE ReadJob(w) \/ PrepareJob(w) \/ OcrExits(w) \/ WatcherSeesCancel(w)
    BY <1>1, <1>4, <2>3, <2>4 DEF ReadJob, PrepareJob, OcrExits, WatcherSeesCancel
  <2>5. CASE ReadForCancel(w) \/ ReadForComplete(w) \/ ReadForFail(w)
    BY <1>1, <1>4, <2>3, <2>5 DEF ReadForCancel, ReadForComplete, ReadForFail
  <2>6. CASE MarkProcessing(w)
    <3>1. status[j] = "PENDING" BY <1>4, <2>6 DEF MarkProcessing, Overwrite
    <3>2. status'[j] = "PROCESSING" BY <1>1, <1>4, <2>6 DEF MarkProcessing
    <3>3. j \in LiveJobs' \ LiveJobs BY <1>1, <1>4, <2>2, <2>6 DEF MarkProcessing
    <3> QED BY <3>1, <3>2, <3>3 DEF Lifecycle!Step, Lifecycle!Claim, Lifecycle!Moves
  <2>7. CASE MarkCancelled(w)
    <3>1. status[j] \in Unfinished BY <1>4, <2>7 DEF MarkCancelled, Overwrite
    <3>2. status'[j] = "CANCELLED" BY <1>1, <1>4, <2>7 DEF MarkCancelled
    <3>3. j \notin LiveJobs' /\ j \notin LiveJobs BY <1>1, <1>4, <2>2, <2>7 DEF MarkCancelled
    <3> QED BY <3>1, <3>2, <3>3
            DEF Lifecycle!Step, Lifecycle!Cancel, Lifecycle!Moves, Unfinished
  <2>8. CASE MarkFailed(w)
    <3>1. status[j] \in Unfinished BY <1>4, <2>8 DEF MarkFailed, Overwrite
    <3>2. status'[j] = "FAILED" BY <1>1, <1>4, <2>8 DEF MarkFailed
    <3>3. j \notin LiveJobs' BY <1>1, <1>4, <2>2, <2>8 DEF MarkFailed
    <3> QED BY <3>1, <3>2, <3>3
            DEF Lifecycle!Step, Lifecycle!Fail, Lifecycle!Moves, Unfinished
  <2>9. CASE MarkCompleted(w)
    <3>1. CASE Goto(w, "fail") /\ UNCHANGED status BY <1>1, <2>3, <3>1
    <3>2. CASE ~ (Goto(w, "fail") /\ UNCHANGED status)
      <4>1. status[j] = "PROCESSING" BY <1>4, <2>9, <3>2 DEF MarkCompleted, Overwrite
      <4>2. status'[j] = "COMPLETED" BY <1>1, <1>4, <2>9, <3>2 DEF MarkCompleted
      <4>3. j \in LiveJobs \ LiveJobs' BY <1>1, <1>4, <2>2, <2>9, <3>2 DEF MarkCompleted
      <4> QED BY <4>1, <4>2, <4>3
              DEF Lifecycle!Step, Lifecycle!Complete, Lifecycle!Moves
    <3> QED BY <3>1, <3>2
  <2>10. CASE DbError(w) \/ WorkerLost(w) \/ HardTimeLimit(w)
    BY <1>1, <1>4, <2>3, <2>10 DEF DbError, WorkerLost, HardTimeLimit
  <2>11. CASE Redeliver(w)
    BY <1>4, <2>11 DEF Redeliver
  <2>12. ASSUME NEW k \in Jobs, Deliver(w, k) PROVE FALSE
    BY <2>1, <2>12 DEF Deliver
  <2> QED BY <2>4, <2>5, <2>6, <2>7, <2>8, <2>9, <2>10, <2>11, <2>12
          DEF WorkerStep, DatabaseStep
<1> QED BY <1>3, <1>4

\* What a step of a request is in the life of a job.
LEMMA RequestLife ==
  ASSUME TypeOK, NEW r \in Requests, NEW j \in Jobs \ raced', RunsAreShown(j),
         \/ RequestStep(r) \/ CancelRead(r) \/ RequestLost(r)
         \/ \E k \in Jobs : SubmitError(r, k) \/ RetryRead(r, k)
         \/ \E js \in SUBSET Jobs : IngestFile(r, js)
  PROVE  Lifecycle!Step(j)
<1>1. /\ status \in [Jobs -> Status]
      /\ rjobs \in [Requests -> SUBSET Jobs] /\ rfailed \in [Requests -> SUBSET Jobs]
  BY DEF TypeOK
<1>2. j \in LiveJobs' <=> j \in LiveJobs
  BY DEF LiveJobs, Runs, workerVars, RequestStep, RetryCommit, CancelCommit, CommitSubmits,
         Submit, CancelRead, RequestLost, SubmitError, RetryRead, IngestFile
<1>3. CASE status'[j] = status[j] BY <1>2, <1>3 DEF Lifecycle!Step, Lifecycle!Rest
<1>4. CASE RetryCommit(r) /\ j \in rjobs[r]
  <2>1. status[j] \in Retryable /\ ~ BeingHandled(j) BY <1>4 DEF RetryCommit
  <2>2. j \notin LiveJobs BY <2>1 DEF BeingHandled, LiveJobs, Runs
  <2>3. status'[j] = "PENDING" BY <1>1, <1>4 DEF RetryCommit, SetStatus
  <2> QED BY <1>2, <2>1, <2>2, <2>3
          DEF Lifecycle!Step, Lifecycle!Retry, Lifecycle!Moves, Retryable
<1>5. CASE CancelCommit(r) /\ j \in rjobs[r]
  <2>1. status[j] \in Unfinished BY <1>5 DEF CancelCommit, Overwrite
  <2>2. status'[j] = "CANCELLED" BY <1>1, <1>5 DEF CancelCommit, SetStatus
  <2> QED BY <1>2, <2>1, <2>2
          DEF Lifecycle!Step, Lifecycle!Cancel, Lifecycle!Moves, Unfinished
<1>6. CASE CommitSubmits(r) /\ j \in rfailed[r]
  <2>1. status[j] = "PENDING" BY <1>6 DEF CommitSubmits, Overwrite
  <2>2. j \notin LiveJobs BY <2>1 DEF RunsAreShown
  <2>3. status'[j] = "FAILED" BY <1>1, <1>6 DEF CommitSubmits, SetStatus
  <2> QED BY <1>2, <2>1, <2>2, <2>3
          DEF Lifecycle!Step, Lifecycle!Fail, Lifecycle!Moves
<1>7. ASSUME NEW js \in SUBSET Jobs, IngestFile(r, js), j \in js PROVE Lifecycle!Step(j)
  <2>1. status[j] = "ABSENT" /\ status'[j] = "PENDING" BY <1>1, <1>7 DEF IngestFile, SetStatus
  <2>2. j \notin LiveJobs BY <2>1 DEF RunsAreShown
  <2> QED BY <1>2, <2>1, <2>2 DEF Lifecycle!Step, Lifecycle!Create, Lifecycle!Moves
<1>8. CASE /\ ~ (RetryCommit(r) /\ j \in rjobs[r]) /\ ~ (CancelCommit(r) /\ j \in rjobs[r])
           /\ ~ (CommitSubmits(r) /\ j \in rfailed[r])
           /\ ~ (\E js \in SUBSET Jobs : IngestFile(r, js) /\ j \in js)
  <2>1. status'[j] = status[j]
    BY <1>1, <1>8
    DEF RequestStep, RetryCommit, CancelCommit, CommitSubmits, Submit, CancelRead,
        RequestLost, SubmitError, RetryRead, IngestFile, SetStatus, jobVars
  <2> QED BY <1>3, <2>1
<1> QED BY <1>4, <1>5, <1>6, <1>7, <1>8

\* What recovery, a restart, the requeue script and time are in the life of a job.
LEMMA OtherLife ==
  ASSUME TypeOK, NEW j \in Jobs \ raced', StaleSparesLiveRuns,
         Backend = "thread_pool" => sweep = {},
         \/ \E k \in Jobs : RequeuePending(k)
         \/ TimePasses \/ StaleRead \/ StaleCommit \/ Restart \/ UNCHANGED vars
  PROVE  Lifecycle!Step(j)
<1>1. status \in [Jobs -> Status] BY DEF TypeOK
<1> USE DEF LiveJobs, Runs, jobVars, workerVars
<1>2. CASE (\E k \in Jobs : RequeuePending(k)) \/ TimePasses \/ StaleRead \/ UNCHANGED vars
  BY <1>2 DEF RequeuePending, TimePasses, StaleRead, vars, Lifecycle!Step, Lifecycle!Rest
<1>3. CASE StaleCommit
  <2>1. j \in LiveJobs' <=> j \in LiveJobs BY <1>3 DEF StaleCommit
  <2>2. CASE j \in sweep
    <3>1. StaleEligible(j) BY <1>3, <2>2 DEF StaleCommit
    <3>2. j \notin LiveJobs BY <2>2, <3>1, OcrJobsAssumption DEF StaleSparesLiveRuns
    <3>3. status'[j] = "FAILED" BY <1>1, <1>3, <2>2 DEF StaleCommit, SetStatus
    <3> QED BY <2>1, <3>1, <3>2, <3>3
            DEF StaleEligible, Lifecycle!Step, Lifecycle!Fail, Lifecycle!Moves
  <2>3. CASE j \notin sweep
    <3>1. status'[j] = status[j] BY <1>1, <1>3, <2>3 DEF StaleCommit, SetStatus
    <3> QED BY <2>1, <3>1 DEF Lifecycle!Step, Lifecycle!Rest
  <2> QED BY <2>2, <2>3
<1>4. CASE Restart /\ Backend = "celery"
  BY <1>4 DEF Restart, Lifecycle!Step, Lifecycle!Rest
<1>5. CASE Restart /\ Backend = "thread_pool"
  <2>1. j \notin LiveJobs' BY <1>5 DEF Restart, RunSteps, LongSteps
  <2>2. \/ status'[j] = status[j]
        \/ status[j] = "PROCESSING" /\ status'[j] = "FAILED"
    BY <1>1, <1>5 DEF Restart, SetStatus
  <2> QED BY <2>1, <2>2
          DEF Lifecycle!Step, Lifecycle!Fail, Lifecycle!EndRun, Lifecycle!Rest, Lifecycle!Moves
<1> QED BY <1>2, <1>3, <1>4, <1>5, OcrJobsAssumption

\* The status that shows a run goes on doing so along the life of a job.
LEMMA LifeShowsRuns ==
  ASSUME NEW j \in Jobs, Lifecycle!Step(j), RunsAreShown(j)
  PROVE  RunsAreShown(j)'
BY DEF RunsAreShown, Lifecycle!Step, Lifecycle!Create, Lifecycle!Claim, Lifecycle!EndRun,
       Lifecycle!Complete, Lifecycle!Fail, Lifecycle!Cancel, Lifecycle!Retry, Lifecycle!Rest,
       Lifecycle!Moves

-----------------------------------------------------------------------------
(* Jobs lead the life the API promises *)

LEMMA LifeInit == Init => LifeInv /\ Lifecycle!Init
<1> SUFFICES ASSUME Init PROVE LifeInv /\ Lifecycle!Init
  OBVIOUS
<1>1. LiveJobs = {} BY DEF Init, LiveJobs, Runs, RunSteps, LongSteps
<1>2. ASSUME NEW j \in Jobs PROVE OneMessage(j) /\ RunsAreShown(j)
  <2>1. queue[j] = 0 /\ ~ AtWorker(j) /\ ~ ToSubmit(j)
    BY OcrJobsAssumption DEF Init, AtWorker, ToSubmit
  <2> QED BY <1>1, <2>1, OcrJobsAssumption DEF Init, OneMessage, RunsAreShown
<1> QED BY <1>1, <1>2 DEF Init, LifeInv, Lifecycle!Init

\* What raced stays on record; only Celery's recovery sweeps.
LEMMA RacesAreKept ==
  ASSUME [Next]_vars
  PROVE  /\ raced \subseteq raced'
         /\ (Backend = "thread_pool" => sweep = {}) => (Backend = "thread_pool" => sweep' = {})
<1> USE DEF queueVars, Overwrite
<1>1. ASSUME NEW w \in Workers,
             \/ WorkerStep(w) \/ DbError(w) \/ WorkerLost(w) \/ HardTimeLimit(w)
             \/ Redeliver(w) \/ \E k \in Jobs : Deliver(w, k)
      PROVE  raced \subseteq raced' /\ sweep' = sweep
  BY <1>1
  DEF WorkerStep, DatabaseStep, ReadJob, MarkProcessing, PrepareJob, OcrExits,
      WatcherSeesCancel, ReadForCancel, MarkCancelled, ReadForComplete, MarkCompleted,
      ReadForFail, MarkFailed, DbError, WorkerLost, HardTimeLimit, Redeliver, Deliver
<1>2. ASSUME NEW r \in Requests,
             \/ RequestStep(r) \/ CancelRead(r) \/ RequestLost(r)
             \/ \E k \in Jobs : SubmitError(r, k) \/ RetryRead(r, k)
             \/ \E js \in SUBSET Jobs : IngestFile(r, js)
      PROVE  raced \subseteq raced' /\ sweep' = sweep
  BY <1>2
  DEF RequestStep, RetryCommit, CancelCommit, CommitSubmits, Submit, CancelRead, RequestLost,
      SubmitError, RetryRead, IngestFile
<1>3. CASE \/ \E k \in Jobs : RequeuePending(k)
           \/ TimePasses \/ StaleRead \/ StaleCommit \/ Restart \/ UNCHANGED vars
  BY <1>3, OcrJobsAssumption
  DEF RequeuePending, TimePasses, StaleRead, StaleCommit, Restart, vars
<1> QED BY <1>1, <1>2, <1>3 DEF Next, UntimedNext

\* Every step is, for each job that did not race, a step of its life.
LEMMA JobLife ==
  ASSUME TypeOK, TypeOK', RunsAreNotYounger, LifeInv, [Next]_vars, NEW j \in Jobs \ raced'
  PROVE  Lifecycle!Step(j) /\ OneMessage(j)' /\ RunsAreShown(j)'
<1>1. StaleSparesLiveRuns BY SparesLiveRuns
<1>2. OneMessage(j) /\ RunsAreShown(j) /\ (Backend = "thread_pool" => sweep = {})
  BY RacesAreKept DEF LifeInv
<1>3. Lifecycle!Step(j) /\ OneMessage(j)'
  <2>1. ASSUME NEW w \in Workers,
               \/ WorkerStep(w) \/ DbError(w) \/ WorkerLost(w) \/ HardTimeLimit(w)
               \/ Redeliver(w) \/ \E k \in Jobs : Deliver(w, k)
        PROVE  Lifecycle!Step(j) /\ OneMessage(j)'
    BY <1>2, <2>1, WorkerLife, OneMessageByWorkers
  <2>2. ASSUME NEW r \in Requests,
               \/ RequestStep(r) \/ CancelRead(r) \/ RequestLost(r)
               \/ \E k \in Jobs : SubmitError(r, k) \/ RetryRead(r, k)
               \/ \E js \in SUBSET Jobs : IngestFile(r, js)
        PROVE  Lifecycle!Step(j) /\ OneMessage(j)'
    BY <1>2, <2>2, RequestLife, OneMessageByRequests
  <2>3. CASE \/ \E k \in Jobs : RequeuePending(k)
             \/ TimePasses \/ StaleRead \/ StaleCommit \/ Restart \/ UNCHANGED vars
    BY <1>1, <1>2, <2>3, OtherLife, OneMessageByOthers
  <2> QED BY <2>1, <2>2, <2>3 DEF Next, UntimedNext
<1> QED BY <1>2, <1>3, LifeShowsRuns

\* The job system implements the life of a job: for any number of jobs, workers and
\* requests, both backends, and through lost workers and messages, cancellations,
\* retries, restarts, timeouts and database errors, a job is run at most once at a time,
\* a run that goes on keeps its job from failing and from being retried, and a completed
\* job stays completed.  A job that was sent a second message or was overwritten on a
\* stale read is left out from that step on; the others are not.
THEOREM JobsLeadTheirLife == Spec => LifecycleSpec
<1>1. Init => TypeOK /\ RunsAreNotYounger /\ LifeInv /\ Lifecycle!Init
  BY TypeInit, YoungInit, LifeInit
<1>2. TypeOK /\ RunsAreNotYounger /\ LifeInv /\ [Next]_vars =>
        TypeOK' /\ RunsAreNotYounger' /\ LifeInv' /\ [Lifecycle!Next]_(Lifecycle!vars)
  <2> SUFFICES ASSUME TypeOK, RunsAreNotYounger, LifeInv, [Next]_vars
               PROVE  /\ TypeOK' /\ RunsAreNotYounger' /\ LifeInv'
                      /\ [Lifecycle!Next]_(Lifecycle!vars)
    OBVIOUS
  <2>1. TypeOK' /\ RunsAreNotYounger' BY TypeNext, YoungNext
  <2>2. \A j \in Jobs \ raced' : Lifecycle!Step(j) /\ OneMessage(j)' /\ RunsAreShown(j)'
    BY <2>1, JobLife
  <2>3. LifeInv' BY <2>2, RacesAreKept DEF LifeInv
  <2>4. Lifecycle!Next BY <2>2, RacesAreKept DEF Lifecycle!Next
  <2> QED BY <2>1, <2>3, <2>4
<1> QED BY <1>1, <1>2, PTL DEF Spec, LifecycleSpec, Lifecycle!Spec
=============================================================================
