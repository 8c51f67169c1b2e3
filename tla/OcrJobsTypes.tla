---------------------------- MODULE OcrJobsTypes ----------------------------
(***************************************************************************)
(* The proof that OcrJobs is type-correct, for any number of jobs, workers *)
(* and requests, any budget and both backends.                             *)
(***************************************************************************)
EXTENDS OcrJobs, TLAPS

USE OcrJobsAssumption

-----------------------------------------------------------------------------
(* Type correctness *)

\* The part of TypeOK about the workers, and the rest of it.
WorkersTypeOK ==
  /\ wpc     \in [Workers -> WorkerPc]
  /\ wjob    \in [Workers -> Jobs \cup {NoJob}]
  /\ wbatch  \in [Workers -> BOOLEAN]
  /\ wage    \in [Workers -> 0 .. TimeLimit]
  /\ \A w \in Workers : wpc[w] = "idle" <=> wjob[w] = NoJob

RowsTypeOK ==
  /\ status  \in [Jobs -> Status]
  /\ started \in [Jobs -> NotStarted .. StaleAfter + 1]
  /\ stage   \in [Jobs -> Stage]
  /\ queue   \in [Jobs -> Nat]
  /\ lost    \subseteq Jobs
  /\ raced   \subseteq Jobs
  /\ rpc     \in [Requests -> RequestPc]
  /\ rjobs   \in [Requests -> SUBSET Jobs]
  /\ rfailed \in [Requests -> SUBSET Jobs]
  /\ rnulls  \in [Requests -> SUBSET {"started", "stage"}]
  /\ sweep   \subseteq Jobs
  /\ left    \in [Spendable -> Nat]

\* The initial state is well typed.
LEMMA TypeInit == Init => TypeOK
BY DEF Init, TypeOK, Status, Stage, WorkerPc, RequestPc, NotStarted

\* A busy worker that moves on keeps its job; one that is freed has none.
LEMMA GotoType ==
  ASSUME WorkersTypeOK, NEW w \in Workers, NEW to \in WorkerPc \ {"idle"},
         wpc[w] # "idle", Goto(w, to)
  PROVE  WorkersTypeOK'
BY Zenon DEF WorkersTypeOK, Goto

\* Releasing a worker keeps the worker variables well typed.
LEMMA ReleaseType ==
  ASSUME WorkersTypeOK, NEW w \in Workers, Release(w)
  PROVE  WorkersTypeOK'
<1>1. wbatch' \in [Workers -> BOOLEAN] BY Zenon DEF WorkersTypeOK, Release
<1> QED BY <1>1 DEF WorkersTypeOK, Release, WorkerPc

\* Spending a budget keeps it a budget.
LEMMA SpendType ==
  ASSUME RowsTypeOK, NEW what \in Spendable, Spend(what)
  PROVE  left' \in [Spendable -> Nat]
BY DEF RowsTypeOK, Spend

\* A busy worker has a job.
LEMMA BusyWorker ==
  ASSUME WorkersTypeOK, NEW w \in Workers, wpc[w] # "idle"
  PROVE  wjob[w] \in Jobs
BY DEF WorkersTypeOK

\* Rows that exist are overwritten.
LEMMA OverwriteType ==
  ASSUME RowsTypeOK, NEW js \in SUBSET Jobs, NEW read, Overwrite(js, read)
  PROVE  raced' \subseteq Jobs
BY DEF RowsTypeOK, Overwrite

\* What a worker does in the database keeps the types.
LEMMA TypeDatabaseStep ==
  ASSUME WorkersTypeOK, RowsTypeOK, NEW w \in Workers, DatabaseStep(w)
  PROVE  WorkersTypeOK' /\ RowsTypeOK'
<1> USE DEF jobVars, queueVars, requestVars, WorkerPc, RunSteps, LongSteps, OpenSteps
<1>1. CASE ReadJob(w)
  <2>1. RowsTypeOK' BY <1>1 DEF ReadJob, RowsTypeOK
  <2>2. CASE Goto(w, "fail") \/ Release(w)
    BY <1>1, <2>1, <2>2, GotoType, ReleaseType DEF ReadJob
  <2>3. CASE /\ wpc' = [wpc EXCEPT ![w] = "claim"]
             /\ wbatch' = [wbatch EXCEPT ![w] = BatchEnabled /\ stage[wjob[w]] = "none"]
             /\ UNCHANGED <<wjob, wage>>
    <3>1. wbatch' \in [Workers -> BOOLEAN]
      BY <2>3, Zenon DEF WorkersTypeOK
    <3>2. WorkersTypeOK' BY <3>1, <2>3, <1>1 DEF ReadJob, WorkersTypeOK
    <3> QED BY <3>2, <2>1
  <2> QED BY <1>1, <2>2, <2>3 DEF ReadJob
<1>2. CASE MarkProcessing(w)
  <2>1. wbatch' \in [Workers -> BOOLEAN]
    BY <1>2, Zenon DEF MarkProcessing, WorkersTypeOK
  <2>2. WorkersTypeOK' BY <2>1, <1>2 DEF MarkProcessing, WorkersTypeOK
  <2>3. wjob[w] \in Jobs BY <1>2, BusyWorker DEF MarkProcessing
  <2>4. raced' \subseteq Jobs BY <1>2, <2>3, OverwriteType DEF MarkProcessing
  <2>5. RowsTypeOK'
    BY <1>2, <2>3, <2>4
    DEF MarkProcessing, RowsTypeOK, NotStarted, Status, Unfinished
  <2> QED BY <2>2, <2>5
<1>3. CASE ReadForCancel(w)
  <2>1. WorkersTypeOK' BY <1>3, GotoType, ReleaseType DEF ReadForCancel
  <2> QED BY <2>1, <1>3 DEF ReadForCancel, RowsTypeOK
<1>4. CASE MarkCancelled(w)
  <2>1. WorkersTypeOK' BY <1>4, ReleaseType DEF MarkCancelled
  <2>2. wjob[w] \in Jobs BY <1>4, BusyWorker DEF MarkCancelled
  <2>3. raced' \subseteq Jobs BY <1>4, <2>2, OverwriteType DEF MarkCancelled
  <2> QED BY <2>1, <2>3, <1>4 DEF MarkCancelled, RowsTypeOK, Status, Retryable
<1>5. CASE MarkCompleted(w)
  <2>1. WorkersTypeOK' BY <1>5, GotoType, ReleaseType DEF MarkCompleted
  <2>2. wjob[w] \in Jobs BY <1>5, BusyWorker DEF MarkCompleted
  <2>3. raced' \subseteq Jobs BY <1>5, <2>2, OverwriteType DEF MarkCompleted, RowsTypeOK
  <2> QED BY <2>1, <2>3, <1>5 DEF MarkCompleted, RowsTypeOK, Status
<1>6. CASE ReadForFail(w)
  <2>1. WorkersTypeOK' BY <1>6, GotoType, ReleaseType DEF ReadForFail
  <2> QED BY <2>1, <1>6 DEF ReadForFail, RowsTypeOK
<1>7. CASE MarkFailed(w)
  <2>1. WorkersTypeOK' BY <1>7, ReleaseType DEF MarkFailed
  <2>2. wjob[w] \in Jobs BY <1>7, BusyWorker DEF MarkFailed
  <2>3. raced' \subseteq Jobs BY <1>7, <2>2, OverwriteType DEF MarkFailed
  <2> QED BY <2>1, <2>3, <1>7 DEF MarkFailed, RowsTypeOK, Status, Retryable
<1> QED BY <1>1, <1>2, <1>3, <1>4, <1>5, <1>6, <1>7 DEF DatabaseStep

\* The rest of what happens to a worker keeps the types.
LEMMA TypeWorkers ==
  ASSUME WorkersTypeOK, NEW w \in Workers,
         \/ WorkerStep(w) \/ DbError(w) \/ WorkerLost(w) \/ HardTimeLimit(w)
         \/ Redeliver(w) \/ \E j \in Jobs : Deliver(w, j),
         ~ DatabaseStep(w)
  PROVE  WorkersTypeOK'
<1> USE DEF WorkerPc, RunSteps, LongSteps, OpenSteps
<1>1. CASE PrepareJob(w) BY <1>1, GotoType, ReleaseType DEF PrepareJob
<1>2. CASE OcrExits(w) BY <1>2, GotoType DEF OcrExits
<1>3. CASE WatcherSeesCancel(w) BY <1>3, GotoType DEF WatcherSeesCancel
<1>4. CASE ReadForComplete(w) BY <1>4, GotoType DEF ReadForComplete
<1>5. CASE DbError(w) BY <1>5, GotoType, ReleaseType DEF DbError
<1>6. CASE WorkerLost(w) BY <1>6, ReleaseType DEF WorkerLost
<1>7. CASE HardTimeLimit(w) BY <1>7, ReleaseType DEF HardTimeLimit
<1>8. CASE Redeliver(w) BY <1>8 DEF Redeliver, WorkersTypeOK, workerVars
<1>9. ASSUME NEW j \in Jobs, Deliver(w, j) PROVE WorkersTypeOK'
  BY <1>9 DEF Deliver, WorkersTypeOK
<1> QED BY <1>1, <1>2, <1>3, <1>4, <1>5, <1>6, <1>7, <1>8, <1>9 DEF WorkerStep

\* A worker's step keeps the rows and the queue well typed.
LEMMA TypeRows ==
  ASSUME WorkersTypeOK, RowsTypeOK, NEW w \in Workers,
         \/ WorkerStep(w) \/ DbError(w) \/ WorkerLost(w) \/ HardTimeLimit(w)
         \/ Redeliver(w) \/ \E j \in Jobs : Deliver(w, j),
         ~ DatabaseStep(w)
  PROVE  RowsTypeOK'
<1> USE DEF RowsTypeOK, jobVars, queueVars, requestVars
<1>1. CASE PrepareJob(w)
  <2>1. wjob[w] \in Jobs BY <1>1, BusyWorker DEF PrepareJob
  <2> QED BY <1>1, <2>1 DEF PrepareJob, Stage, BATCH_WAITING_STAGES
<1>2. CASE OcrExits(w) BY <1>2 DEF OcrExits
<1>3. CASE WatcherSeesCancel(w) BY <1>3 DEF WatcherSeesCancel
<1>4. CASE ReadForComplete(w) BY <1>4 DEF ReadForComplete
<1>5. CASE DbError(w)
  <2>1. left' \in [Spendable -> Nat] BY <1>5, SpendType DEF DbError, Spendable
  <2>2. lost' \subseteq Jobs BY <1>5 DEF DbError, WorkersTypeOK
  <2> QED BY <1>5, <2>1, <2>2 DEF DbError
<1>6. CASE WorkerLost(w)
  <2>1. left' \in [Spendable -> Nat] BY <1>6, SpendType DEF WorkerLost, Spendable
  <2>2. queue' \in [Jobs -> Nat] BY <1>6, BusyWorker DEF WorkerLost
  <2> QED BY <1>6, <2>1, <2>2 DEF WorkerLost
<1>7. CASE HardTimeLimit(w) BY <1>7 DEF HardTimeLimit
<1>8. CASE Redeliver(w)
  <2>1. left' \in [Spendable -> Nat] BY <1>8, SpendType DEF Redeliver, Spendable
  <2>2. queue' \in [Jobs -> Nat] BY <1>8, BusyWorker DEF Redeliver, LongSteps
  <2> QED BY <1>8, <2>1, <2>2 DEF Redeliver
<1>9. ASSUME NEW j \in Jobs, Deliver(w, j) PROVE RowsTypeOK'
  <2>1. queue' \in [Jobs -> Nat] BY <1>9 DEF Deliver
  <2> QED BY <1>9, <2>1 DEF Deliver
<1> QED BY <1>1, <1>2, <1>3, <1>4, <1>5, <1>6, <1>7, <1>8, <1>9 DEF WorkerStep

\* Setting the status of some jobs keeps it well typed.
LEMMA SetStatusType ==
  ASSUME RowsTypeOK, NEW js, NEW s \in Status, SetStatus(js, s)
  PROVE  status' \in [Jobs -> Status]
BY DEF RowsTypeOK, SetStatus

\* Ending a request keeps the request variables well typed.
LEMMA EndRequestType ==
  ASSUME RowsTypeOK, NEW r \in Requests, EndRequest(r)
  PROVE  /\ rpc'     \in [Requests -> RequestPc]
         /\ rjobs'   \in [Requests -> SUBSET Jobs]
         /\ rfailed' \in [Requests -> SUBSET Jobs]
         /\ rnulls'  \in [Requests -> SUBSET {"started", "stage"}]
<1>1. {} \in SUBSET Jobs /\ {} \in SUBSET {"started", "stage"}
  OBVIOUS
<1> QED BY <1>1 DEF RowsTypeOK, EndRequest, RequestPc

\* The steps of a request and of the requeue script keep the types.
LEMMA TypeRequest ==
  ASSUME WorkersTypeOK, RowsTypeOK, NEW r \in Requests,
         \/ RequestStep(r) \/ CancelRead(r) \/ RequestLost(r)
         \/ \E j \in Jobs : SubmitError(r, j) \/ RetryRead(r, j)
         \/ \E js \in SUBSET Jobs : IngestFile(r, js)
  PROVE  WorkersTypeOK' /\ RowsTypeOK'
<1> USE DEF RowsTypeOK, jobVars, queueVars
<1>1. WorkersTypeOK'
  <2>1. UNCHANGED workerVars
    BY DEF RequestStep, RetryCommit, CancelCommit, CommitSubmits, Submit, CancelRead,
           RequestLost, SubmitError, RetryRead, IngestFile
  <2> QED BY <2>1 DEF WorkersTypeOK, workerVars
<1>2. CASE RetryCommit(r)
  <2>1. status' \in [Jobs -> Status] BY <1>2, SetStatusType DEF RetryCommit, Status, Unfinished
  <2>2. /\ started' \in [Jobs -> NotStarted .. StaleAfter + 1]
        /\ stage' \in [Jobs -> Stage]
    BY <1>2 DEF RetryCommit, NotStarted, Stage
  <2>3. rnulls' \in [Requests -> SUBSET {"started", "stage"}]
    BY <1>2 DEF RetryCommit
  <2>4. rpc' \in [Requests -> RequestPc] BY <1>2 DEF RetryCommit, RequestPc
  <2> QED BY <1>1, <1>2, <2>1, <2>2, <2>3, <2>4 DEF RetryCommit
<1>3. CASE CancelCommit(r)
  <2>1. status' \in [Jobs -> Status] BY <1>3, SetStatusType DEF CancelCommit, Status, Retryable
  <2>2. raced' \subseteq Jobs BY <1>3, OverwriteType DEF CancelCommit
  <2> QED BY <1>1, <1>3, <2>1, <2>2, EndRequestType DEF CancelCommit
<1>4. CASE CommitSubmits(r)
  <2>1. status' \in [Jobs -> Status] BY <1>4, SetStatusType DEF CommitSubmits, Status, Retryable
  <2>2. raced' \subseteq Jobs BY <1>4, OverwriteType DEF CommitSubmits
  <2> QED BY <1>1, <1>4, <2>1, <2>2, EndRequestType DEF CommitSubmits
<1>5. ASSUME NEW j \in Jobs, Submit(r, j) PROVE RowsTypeOK'
  BY <1>5 DEF Submit, Enqueue
<1>6. CASE CancelRead(r)
  <2>1. left' \in [Spendable -> Nat] BY <1>6, SpendType DEF CancelRead, Spendable
  <2>2. rjobs' \in [Requests -> SUBSET Jobs]
    <3>1. {j \in Jobs : status[j] \in Unfinished} \in SUBSET Jobs OBVIOUS
    <3> QED BY <1>6, <3>1 DEF CancelRead
  <2>3. rpc' \in [Requests -> RequestPc] BY <1>6 DEF CancelRead, RequestPc
  <2> QED BY <1>1, <1>6, <2>1, <2>2, <2>3 DEF CancelRead
<1>7. CASE RequestLost(r)
  <2>1. left' \in [Spendable -> Nat] BY <1>7, SpendType DEF RequestLost, Spendable
  <2>2. lost' \subseteq Jobs BY <1>7 DEF RequestLost, StillToSubmit
  <2> QED BY <1>1, <1>7, <2>1, <2>2, EndRequestType DEF RequestLost
<1>8. ASSUME NEW j \in Jobs, SubmitError(r, j) PROVE RowsTypeOK'
  <2>1. left' \in [Spendable -> Nat] BY <1>8, SpendType DEF SubmitError, Spendable
  <2> QED BY <1>8, <2>1 DEF SubmitError
<1>9. ASSUME NEW j \in Jobs, RetryRead(r, j) PROVE RowsTypeOK'
  <2>1. left' \in [Spendable -> Nat] BY <1>9, SpendType DEF RetryRead, Spendable
  <2> QED BY <1>9, <2>1 DEF RetryRead, NullColumns, RequestPc
<1>10. ASSUME NEW js \in SUBSET Jobs, IngestFile(r, js) PROVE RowsTypeOK'
  BY <1>10 DEF IngestFile, SetStatus, Status, Unfinished, RequestPc
<1> QED BY <1>1, <1>2, <1>3, <1>4, <1>5, <1>6, <1>7, <1>8, <1>9, <1>10
        DEF RequestStep

\* Recovery, restarts, the requeue script and the clock keep the types.
LEMMA TypeOthers ==
  ASSUME WorkersTypeOK, RowsTypeOK,
         \/ \E j \in Jobs : RequeuePending(j)
         \/ TimePasses \/ StaleRead \/ StaleCommit \/ Restart
  PROVE  WorkersTypeOK' /\ RowsTypeOK'
<1> USE DEF jobVars, queueVars, requestVars, workerVars
<1>1. ASSUME NEW j \in Jobs, RequeuePending(j) PROVE WorkersTypeOK' /\ RowsTypeOK'
  <2>1. left' \in [Spendable -> Nat]
    BY <1>1, SpendType DEF RequeuePending, Spendable
  <2>2. RowsTypeOK' BY <1>1, <2>1 DEF RequeuePending, Enqueue, RowsTypeOK
  <2> QED BY <1>1, <2>2 DEF RequeuePending, WorkersTypeOK
<1>2. CASE TimePasses
  <2>1. WorkersTypeOK' BY <1>2 DEF TimePasses, WorkersTypeOK
  <2>2. started' \in [Jobs -> NotStarted .. StaleAfter + 1]
    BY <1>2 DEF TimePasses, RowsTypeOK, NotStarted
  <2> QED BY <1>2, <2>1, <2>2 DEF TimePasses, RowsTypeOK
<1>3. CASE StaleRead
  <2>1. WorkersTypeOK' BY <1>3 DEF StaleRead, WorkersTypeOK
  <2> QED BY <1>3, <2>1 DEF StaleRead, RowsTypeOK
<1>4. CASE StaleCommit
  <2>1. WorkersTypeOK' BY <1>4 DEF StaleCommit, WorkersTypeOK
  <2> QED BY <1>4, <2>1 DEF StaleCommit, SetStatus, RowsTypeOK, Status, Retryable
<1>5. CASE Restart
  <2>1. left' \in [Spendable -> Nat] BY <1>5, SpendType DEF Restart, Spendable
  <2>2. status' \in [Jobs -> Status] /\ queue' \in [Jobs -> Nat]
    BY <1>5 DEF Restart, SetStatus, RowsTypeOK, Status, Retryable
  <2>3. lost' \subseteq Jobs BY <1>5 DEF Restart, StillToSubmit, RowsTypeOK
  <2>4. RowsTypeOK' BY <1>5, <2>1, <2>2, <2>3 DEF Restart, RowsTypeOK, RequestPc
  <2>5. WorkersTypeOK'
    <3>1. CASE UNCHANGED workerVars BY <3>1 DEF WorkersTypeOK
    <3>2. CASE /\ wpc'    = [w \in Workers |-> "idle"]
               /\ wjob'   = [w \in Workers |-> NoJob]
               /\ wbatch' = [w \in Workers |-> FALSE]
               /\ wage'   = [w \in Workers |-> 0]
      <4>1. wbatch' \in [Workers -> BOOLEAN] BY <3>2, Zenon
      <4> QED BY <4>1, <3>2 DEF WorkersTypeOK, WorkerPc
    <3> QED BY <1>5, <3>1, <3>2 DEF Restart
  <2> QED BY <2>4, <2>5
<1> QED BY <1>1, <1>2, <1>3, <1>4, <1>5

\* Every step keeps the type invariant.
LEMMA TypeNext == TypeOK /\ [Next]_vars => TypeOK'
<1> SUFFICES ASSUME WorkersTypeOK, RowsTypeOK, [Next]_vars
             PROVE  WorkersTypeOK' /\ RowsTypeOK'
  BY DEF TypeOK, WorkersTypeOK, RowsTypeOK
<1>1. CASE UNCHANGED vars
  BY <1>1 DEF vars, jobVars, queueVars, workerVars, requestVars, WorkersTypeOK,
              RowsTypeOK
<1> QED BY <1>1, TypeDatabaseStep, TypeWorkers, TypeRows, TypeRequest, TypeOthers
        DEF Next, UntimedNext

\* Every reachable state of the job system is well-typed: no step of a worker, a
\* request or the recovery writes a value the others do not expect.
THEOREM TypeCorrect == Spec => []TypeOK
BY TypeInit, TypeNext, PTL DEF Spec
=============================================================================
