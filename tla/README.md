# Verification of the marriage register OCR backend

TLA+ models of this repository's backend (`src/marriage_ocr_api`), TLC runs on
small instances, and TLAPS proofs for every instance. Paths below are relative
to `src/marriage_ocr_api` unless they start with `scripts/`.

## 1. The system

The backend takes scanned marriage registers, mostly from OneDrive links,
splits them into pages, runs the external program `marriage-ocr` on every page,
and offers the records for review and export. State is kept in PostgreSQL at
READ COMMITTED (`db/session.py`, no autoflush, no expiry on commit), in a Celery
broker (Valkey), on local disks and in object storage.

| Component | State | Operations | Made correct by |
|---|---|---|---|
| OCR jobs (`jobs/processing.py`, `db/repositories.py`, `jobs/service.py`) | `ocr_jobs`: status, `started_at`, `gemini_batch_stage`; messages in the broker | create, claim, complete, fail, cancel, retry, recover | no job forgotten; no job stuck; one run at a time; a live run not failed under its feet |
| Gemini Batch Mode (`jobs/gemini_batch.py`) | the stage and batch name of a job, batches at Google | prepare; `tick`: submit, collect, finish, fall back | a job waits on Google or is run live, never both; no job waits for ever |
| Document and batch status (`batches/repositories.py`) | `documents.status`, `batches.status` | two recomputations, in the session of whoever moves a job | the status follows the jobs |
| OneDrive submissions (`onedrive/`) | submission status, heartbeat, attempts, skipped files | fetch, ingest, resume, re-fetch, reclassify, delete | every file ingested once or listed as skipped; no fetch stuck |
| Records (`records/`, `scripts/`) | record version, status and values (as read, normalized, corrected); revisions | import, correct, approve, bulk approve, delete; approve, backfill and reprocess scripts | no lost correction; revisions match versions; corrections win; each row imported once |
| Exports (`exports/`) | export rows and files | create, delete, expire | a completed export has its file; it shows what the record shows |
| Users (`auth/`) | role, active flag, token version | create, update, reset password | an active admin remains |
| Files (`storage/`, `maintenance/`) | objects in storage, copies on each node's disk | store, materialize, remove after a run, daily cleanup, delete with link or batch | originals stay; no copy removed under a run; deleted rows take their files with them |
| Activity log, HTTP, configuration, scripts | | | |

Interactions: the API and the OneDrive task insert jobs and send one message
per job *after* the commit; workers take messages and move the row; every move
recomputes document and batch in the same transaction; a run that completes
imports its records in that transaction too; beat sends three kinds of messages
every five minutes (stale jobs, Gemini tick, stale submissions) and two every day
(local copies, exports). The processes share nothing but the database, the broker
and object storage. There is no row lock
on a job: repository functions SELECT, check in Python, and UPDATE by id.

What is hard: two processes between each other's SELECT and UPDATE; a message
lost, doubled or late; a worker killed at any statement; commits followed by
sends; scheduler passes that overlap; uncommitted writes that others do not see.
The list, line by line, is under `hazards` in `PROJECT.json`.

## 2. Modules

| Module | Models |
|---|---|
| `JobLifecycle` | abstract: what the API promises of a job |
| `OcrJobs` | jobs, broker, workers, requests, recovery |
| `GeminiBatch` (extends `OcrJobs`) | passes of `gemini_batch_tick` and Google's batches |
| `StatusRollup` | recomputing documents and batches in concurrent transactions |
| `OneDriveFetch` | one OneDrive link: its row, its runs, requests and the sweep |
| `SkippedFiles` | the skipped files of a link: reviewers, re-downloads, the reclassify, the sweep |
| `Records` | the records of a job: imports, reviewers, scripts, and what an export shows |
| `BatchStorage` | the files of a batch: ingest, runs, cleanup, exports, deletions |
| `OcrJobsTypes`, `OcrJobsProof`, and `XProof` of each other module (`GeminiBatchProof` extends `OcrJobsProof`) | proofs |
| `MCOcrJobs`, `MCGeminiBatch`, `MCStatusRollup`, `MCOneDriveFetch`, `MCRecords`, `MCBatchStorage` | instances for TLC |

### OcrJobs

`status`, `started` (an age) and `stage` are the row; `queue[j]` counts messages;
`wpc` says where a worker is inside `process_ocr_job`. A repository function is
two actions: `ReadForComplete` then `MarkCompleted`, `ReadForFail` then
`MarkFailed`, `ReadJob` then `MarkProcessing`, and so on, because another
process may commit between its SELECT and its UPDATE. `CancelRead`/`CancelCommit`
and `StaleRead`/`StaleCommit` do the same for the functions that take many jobs.
`rnulls` models a detail of the ORM that matters: `mark_pending_for_retry` sets
`started_at` and the stage to NULL, but a column already NULL in the copy it
read is not written.

Messages: `Deliver` takes one and the task keeps it unacknowledged until the
task returns (`task_acks_late`). `WorkerLost` puts it back, `HardTimeLimit`
acknowledges it, `Redeliver` is the broker's visibility timeout. Time is discrete and
passes only while every busy worker is inside the subprocess, the Gemini prepare
step or an upload; database statements take none of it. `TimeLimit` is Celery's
hard limit, `StaleAfter` the sweep's threshold; the code's numbers are
`ocr_timeout + 60` and `ocr_timeout + 300`, and the model assumes only their order.

`lost` is a history variable. It marks the places where the code itself gives a
job up: the process that had still to submit it died, the pool was restarted, or
`_mark_failed_safe` swallowed a database error. `PendingIsCarried` says these
are all.

`raced` is another one: the jobs sent a second message while something still handled
them (a redelivery, the requeue script, a retry before the first worker has noticed the
cancellation), and those whose row no longer was as a repository function had read it when
its UPDATE wrote it by id. The code has a guard against neither. `LifecycleSpec`, that rows
and workers implement `JobLifecycle`, speaks of each job until it races: its next-state
relation leaves out the jobs of `raced'` and goes on to hold of the others. `SettledStays`
has no such exception: once a job is settled and nobody still acts on an older read of it,
no message, run, watcher, sweep, restart or script moves it, only a user who retries it.
An `AND status IN (...)` in the UPDATEs would leave only second messages to race.

### GeminiBatch

A pass is a program with a program counter: recover stuck steps, submit, read
batch names, and per batch collect, finish or fall back. `FallBack` is the
conditional UPDATE and commit, `Requeue` one `executor.submit` of the loop after
it. A pass holds job ids in `tjobs` across its subprocesses, as the code does.

Passes may overlap, hold the same job, and die. The two properties about live runs speak of
`TakenInTurn`, the jobs that have not raced and are not in `reopened`: the history of jobs
that a request, or another pass, has taken up for a run while a pass had them in hand.
Two passes that read the same job are not among them until one has put it back; the
conditional UPDATEs see to that much. From then on the other one does put it back
once more, under its live run (`jobs/gemini_batch.py:242` asks for the status only). An
`executor.submit` that raises ends the tick; only the first fall-back of `_finish_job` is
inside a `try`, which falls back a second time and finds nothing PROCESSING (`RequeueError`).

### StatusRollup

A session reads jobs, updates them, and for each document and then the batch
reads the row (`ReadRow`), reads the statuses it depends on and decides (`Recompute`), and
writes (`WriteRow`), in statements of their own; nothing is visible to others before `Commit`, an
UPDATE waits for the row's lock, a SELECT does not. `BatchIsNext` states the
order in which the code goes through documents and batch; it differs in
`_recompute_status_for_jobs`. The claim of a job commits before it recomputes.
Who may move a job is left to `OcrJobs`: here every move its repository function
allows may happen.

### OneDriveFetch

`status`, `age` (of `updated_at`), `attempts` and `skipped` are the row;
`documents` counts, for each file of the link, the documents that hold it;
`downloaded`, `ledger` and `kept` are the link's directory on a worker's disk. A
run of `run_onedrive_fetch` or `run_skipped_files_reclassify` goes through its
files one by one: `Ingest` is the commit, `Unlink` and `Record` follow, and a
worker may die between any two of them, and between the removals at the end of a fetch
(`RemoveDownloads`, `Cleanup`: the ledger goes last). `StartFails` is an exception before the
claim, whose handler marks the link FAILED whoever holds it. What classification says of a file is a
free choice, so the cache, stacks, neighbours and batch names need no state.

`claim_for_fetch` is one conditional UPDATE and one action (`StartFetch`,
`DropFetch`). All other writers read the status first and write it later by
primary key: `ReadRetry`/`WriteRetry`, `ReadReclassify`/`WriteReclassify`,
`SweepRead`/`SweepWrite`, and the ends of the runs. `SetStatus` records in
`mishaps` when the status was no longer the one the writer expected; `Silence`
records that a live run's heartbeats failed, and `Overlap` that a run began
beside another. The properties say what holds as long as these did not happen;
without that proviso TLC refutes each of them.

A fetch is acknowledged on receipt, so `WorkerLost` and `TaskLost` lose its
message; a reclassify is acknowledged late and delivered again. Time advances
the age, except that a live run's heartbeat resets it while the link is FETCHING.

### SkippedFiles

An entry of `skipped_files` is its status (`entry`) and its `refetch_status`
(`refetch`); `kept` are the files whose bytes object storage still has, and
`documents` counts the documents made of each. `update_skipped_file` and
`remove_skipped_file` lock the submission's row, but what they do was decided on
an earlier plain read, so a request or run is a chain of actions: `Classify`
(the checks of `classify_skipped_file`), then `ClassifyIngests`,
`ClassifyRemoves`, or `QueueRefetch`, `SubmitRefetch`. A run of
`run_skipped_files_refetch` reads what is QUEUED, claims it, downloads, and settles file
by file; `view` is the list as its session has loaded it, which is what
`get_skipped_file` looks at. A run of `run_skipped_files_reclassify` classifies
all files first (`AlreadyIngested`, `DuplicateFound`, `ClassifyAgain`,
`Unclassified`) and ingests afterwards. `SweepReads`/`SweepWrites` are
`_fail_stale_refetches`. `raced` and `mishaps` are history: which files two
had in hand at once, and how requests and runs slipped past each other's checks.

### Records

A row has the three JSON columns that hold its values (`values`, `normalized`,
`corrected`); a text is modelled by where it came from. A reviewer's request is
`Open` (the page it was written on), `Read` (the comparison of versions, in
Python, without a lock), `Write` (the INSERT of the revision, which waits for
whoever has written the record, and the UPDATE) and `Commit`; a bulk approval
goes through its records with `ReadNext` and commits them together. A correction and a
single approval carry the version of the page; a bulk approval names ids only, so it
vouches for nothing (`Vouched`) and `ReviewIsOfWhatWasSeen` leaves it out. `Update` is
what SQLAlchemy sends: the columns that differ from what the session read.
`WriteRefused` is the IntegrityError of the unique key `(record_id, version)`.
`Import` takes the lock on the job's row with `mark_completed`'s UPDATE before it
looks for existing rows. The scripts read all they are going to change first
(`Select`) and write it by primary key later, in one commit or several
(`Rewrite`); `rewritten` remembers the
records they wrote under a reviewer, `discarded` the reviewed ones a reprocess
deleted. `Effective` is `_effective_values` of the export.

### BatchStorage

`objects` is what object storage has (the document's source, an input for each
page of a split document, outputs, exports), `local` the working copies on each
node; the rows are what `OcrJobs` has, reduced to the statuses that decide about files.
Every place where code puts, removes or looks for a file is an action of its own, so that a
crash may come between it and the commit it belongs to. A cleanup is
three actions with anything in between: `CleanReads` has the rows of all jobs, `CleanPlans` looks at
disk and object storage when the document's turn comes, by then with old rows, and
`CleanRemoves` removes what was planned for all documents. A
deletion of a link or a batch reads the keys (`DeleteReads`), deletes jobs
(`DeleteJobs`) and the rest (`DeleteCommits`, which waits for those who have
inserted under the row it deletes), then the objects and folders one by one.
History variables name what the properties have to except: `strays` (objects no
committed row named when the deletion looked, or that were put later), `late`, `crossed`
(jobs run twice at once, or reopened after a cleanup had read their row), `begun`.

## 3. Runs

| Run | Instance | Shows |
|---|---|---|
| `JobsCelery` | 1 job, 2 workers, 1 request, fairness; retry, cancel, lost worker, redelivery, database error, restart once each | `PendingIsCarried`, `StaleSparesLiveRuns`, `LifecycleSpec`, `SettledStays`, `NoJobStuckProcessing`, `PendingIsServed` |
| `JobsPool` | 2 jobs, 1 thread, 1 request; retry, cancel, restart, database error, lost request, failed submit, requeue script once each | `ProcessingIsAttended`, `LifecycleSpec` |
| `GeminiPass` | 1 job, 1 worker, 1 request, 1 batch, 2 passes that may overlap; a cancellation, and a pass that dies or a collect that fails; fairness | the properties of `GeminiBatch`, liveness included |
| `RollupPass` | 1 document of 2 pages, 2 sessions, 1 retry | `SettledEarlyOnlyByReopening`, `LoneSessionHeals` |
| `FetchPass` | 1 file, 2 workers, 1 request, 1 resume; any 3 of retry, reclassify, lost worker, lost message, redelivery, silence, exception, lost request, failed submit | `OneFetchAtATime`, `IngestedOnce`, `EveryFileAccountedFor` |
| `FetchProgress` | the same with any 3 lost workers and messages, fairness | `LinkSettles` |
| `RecordsPass` | 2 records, 2 keys, 1 field, 2 reviewers, 2 overlapping imports; any 4 of import, correction, approval, bulk approval, deletion, abort and the four scripts | the invariants of `Records` but `MissingNeedsApproval` |
| `SkippedPass` | 1 file, 2 reviewers, 2 workers; any 4 of classify, reclassify, failed submit, ingest or download, lost worker, lost message, early sweep; fairness | `NoFileForgotten`, `IngestedTwiceOnlyByRace`, `ReclassifyHasThemAlone`, `RefetchSettles` |
| `FilesPass` | 2 jobs, 1 export, the API's node and a worker's, 2 workers, 2 deleters; any 2 of failed run, failure under a run, retry, reprocess, deletion, export, crash; fairness | `OriginalsStay`, `RunsKeepTheirCopies`, `DeletedFilesAreGone`, `OrphansCameLate`, `DiskFreed`, `ExportsExpire` |

Three runs show that the code does not do what its comments and designs say:

| Run | Found |
|---|---|
| `RollupRecover` | Recovery of jobs of two documents leaves their batch PROCESSING for good: `_recompute_status_for_jobs` computes the batch after the first document and marks it as seen. No concurrency is needed. |
| `RollupSkew` | Two sessions settle the last two pages of a document at once; neither sees the other's page settled, and the document stays PROCESSING. |
| `RecordsExport` | A handwritten record that the importer approves by itself has a `normalized_data` with nothing but the audit entry, and the export takes `normalized_data` whenever it is not empty: the row is exported blank. No concurrency is needed here either. A typed record that the backfill completed is exported as it was before. |

The first two have an obvious repair (recompute the batch after the loop; lock
the document row before reading its jobs); for the third, the export can lay
`normalized_data` and `corrected_data` over `field_values`.

Other divergences came up for which no run is kept; each is a behaviour of
the modules that a larger `Budget` or another constant reaches:

* A second message for a running job, as `scripts/requeue_pending_jobs.py` may
  send it, makes `mark_processing` raise and marks the running job FAILED
  (`jobs/processing.py:184`), though the script says that it does not modify the
  job's state. It comes from a repository function that does not put the expected status
  in the UPDATE; for the same reason a job cancelled between `get_job` and
  `mark_processing` is started.
* `fall_back_to_live` (`jobs/gemini_batch.py:242`) asks for PROCESSING and not for the
  stage its caller read. Two overlapping passes put a job back twice, the second
  time under the worker that runs it; so does a pass that still holds a job which a user
  has cancelled and retried meanwhile.
* `clean_local_copies` reads the status of every job first and removes directories long
  after: a job that a reprocess reopened in between loses the copies of its live run, though
  the docstring (`maintenance/clean_local_copies.py:7-9`) leaves untouched what is unfinished.
  Reading the statuses again before the removal would narrow the window.
* A bulk approval (`records/response_models.py:102`) has no versions: it approves values that
  were corrected after the page was loaded. The review design would have it fail
  on a stale record, as a single approval does.
* An exception before `claim_for_fetch` marks FAILED a link that another run is fetching
  (`onedrive/service.py:854`).
* A reclassify that waits in the queue for longer than
  `STALE_HEARTBEAT_SECONDS` (600 s, behind one long fetch) is swept as an
  interrupted fetch: the link is fetched again in full, and the reclassify then
  runs whatever the status is, against the docstring at `onedrive/service.py:1220`.
  A claim at the start of the reclassify, like `claim_for_fetch`, would close it.
* A deletion never removes the inputs of split pages from object storage
  (`DeletedFilesAreGone` has to except them).
* Maintenance scripts write by primary key what they have read; a correction
  committed in between keeps its revision and loses the columns the script writes
  (`rewritten`).

### Bounds, and why they are enough

* Disturbances are counted in `Budget` (`Reopens`): each happens once. `TickBudget` counts
  passes that die and collects that fail, and nothing else; fall-backs, submits and
  finishing steps may fail any number of times. The code treats the second retry,
  crash or redelivery of a job like the first: no counter of it is kept.
* Jobs meet only in the queue, in a request's list and in a worker. Two jobs
  show a request that submits one and loses the other; a second worker shows
  two runs of one job. The proofs cover every number.
* `TimeLimit = Visibility = 1`, `StaleAfter = 2`: the smallest values in which
  a task can be redelivered, be killed and become stale in that order. In `GeminiPass`,
  where no property is about the sweep, `StaleAfter` is 1.
* `GeminiPass` has two passes, so that they overlap over the one job, and a cancellation
  under them. With a retry there are too many states for liveness; safety alone was
  explored with one. Two workers and a second message beside overlapping passes are left
  to the proofs, which cover every number.
* `JobsCelery` has what races: two workers, a redelivery, a retry under a run, a
  cancellation under every read. `JobsPool` has the requeue script, and a second job that goes
  on to lead its life when the first one has raced. Two jobs with two workers are left to
  the proofs.
* Ages are capped at or one above the threshold they are compared with where the row now
  is: a larger age cannot be told from the cap. `touched` and the age of a link do not
  grow where nothing looks at them.
* `RollupPass` has two sessions because a lock and an unseen write involve
  two; three pages in two documents are used where order matters
  (`RollupRecover`).
* The files of a link meet only at the end of a run, where `skipped` is replaced
  as a whole; one file shows every crash point, and the proofs of
  `OneDriveFetch` cover every number of files, workers and mishaps. Three
  mishaps allow a crash, a resume that crashes, and a retry. `MaxResumes` of 1
  reaches the FAILED branch; `StaleHeartbeat = 1 < LostPending = 2`, the order in
  the code. `MaxQueue = 2` holds a message and its duplicate; a third would be
  dropped by the same guard.
* `RecordsPass`: a lost update takes two requests on one record, a broken bulk
  approval two records, a duplicate import two imports of one key. Four events are
  an import, two reviews that cross and a script, an admin or an abort beside them;
  `MaxVersion = 3` lets both reviews commit. Fields are independent of one another
  but for `missing`, so one is enough there; `RecordsExport` has two, one of them corrected.
* `SkippedPass`: the entries of a link are independent but for `status` and the
  list that a session loads; four events on one file are two requests that cross,
  a crash and a retry. Two files with three events have been checked too.
* `FilesPass`: two jobs make a split document, one a whole one; two events
  are a crash and a deletion, or two deletions; two deleters, one of them the
  daily expiry, meet over one export. The invariants were checked with three.
* `RollupPass` has no deadlock exception: `Rollback` stands for the abort with
  which PostgreSQL ends a lock cycle. In the job runs the system may stop (all
  jobs settled, no budget left), so deadlock is not an error there.

### Fairness

`Fairness` in `OcrJobs`: weak fairness of a worker's database statements, of
the hard time limit, of delivering a job's message to some worker, of a
request's own steps, of time, and of the stale sweep (beat, every 300 s).
Compose restarts workers and beat unless stopped. Nothing is assumed of the OCR
program, of uploads or of the cancellation watcher: a run may hang, and then
only Celery ends it. `BatchFairness` needs less of the job system: workers
end their statements or are killed, passes go on, and beat's ticks are taken. Nothing is
assumed of Google, so `NoJobWaitsForEver` holds by the fallback age and not by
Google's answer. It is checked with one failing collect: a
`gemini-batch-collect` that fails on every tick skips the age check
(`jobs/gemini_batch.py:404-408`) and would hold its jobs for ever.

`Fairness` in `OneDriveFetch`: a run goes on (the download and each
classification end, by their own time limits or Celery's), some worker takes
each message, the sweep runs its steps (beat, every 300 s), time passes. Nothing
is assumed of requests: one may die before it sends, and the sweep makes up for it.

`Fairness` in `SkippedFiles`: requests in flight are served, each worker goes on
with its run and takes messages when it is idle, and beat runs the sweep; whether
a download succeeds is not assumed. `Fairness` in `BatchStorage`: every worker's node
plans and removes (beat, daily, `CLEAN_COMMAND` broadcast), and the daily
`cleanup_stale_exports_task` reads, deletes the file and the row. Nothing is
assumed of runs, of ingest or of admins.

## 4. Proofs

`OcrJobsAssumption` is all that is assumed of the constants: sets without
`NoJob`, natural numbers, and `TimeLimit <= StaleAfter`.

* `TypeCorrect`: `TypeOK` is inductive. It is split into the workers' part, the
  rows' part and the requests' part, each action proved against the part it changes.
* `PendingAlwaysCarried`: `PendingIsCarried` is inductive relative to `TypeOK`.
  Two lemmas say once what a worker's and a request's step must do to keep a
  job carried; each action is then an instance.
* `StaleSweepIsSafe`: the property is not inductive. The strengthening is
  `RunsAreNotYounger`: under Celery the age of `started_at` of a job that
  a worker runs is at most the age of the worker's task. Every claim dates the
  job, both ages grow together, and `TimeLimit <= StaleAfter` gives the property.
* `PoolAttendsItsJobs`: `ProcessingIsAttended` is inductive relative to `TypeOK`.
* `SettledJobsStay`: needs of the invariants only that a request which does not
  submit has nothing it could not submit (`RefusedBySubmits`). One lemma for workers, one
  for requests and one for the rest say what each reads of a settled job: nothing that gives
  it a write, but for a retry.
* `JobsLeadTheirLife`: the refinement, `Spec => LifecycleSpec`, with `live`
  mapped to the jobs that a worker runs. `JobLife` says that a step is, for each job that has
  not raced, one of `JobLifecycle` or no change; `WorkerLife`, `RequestLife` and `OtherLife`
  go through the actions. They need `LifeInv`, of each job outside `raced`: it is in one place at
  a time, the queue, a worker or a request that has to submit it (`OneMessage`), so that the
  step of one worker is the whole change of `live`; and while it is run it shows PROCESSING or
  CANCELLED (`RunsAreShown`), so that a job the code fails as PENDING has no run. That a sweep
  spares live runs is `StaleSweepIsSafe` again. `RunsAreShown` need not be
  proved per action: it is kept along `JobLifecycle` (`LifeShowsRuns`). Nothing is
  assumed of the order of messages and writes; what races is only left out.

* `BatchTypeCorrect`: `BatchTypeOK`, with the lemmas of `OcrJobsTypes` for the steps of the
  job system.
* `BatchPendingAlwaysCarried`: inductive relative to it. `JobStaysCarried`, which says of one
  job what `PendingAlwaysCarried` says of all, covers the job system; `CarriedByPasses`
  the passes, where `Requeue` hands a job from the pass to the queue.
* `WaitingJobsRest`, `LiveRunsAreLeft`: of `BatchSpec`, for every job in `TakenInTurn`. `TurnInv`
  says what a pass has in hand at each of its steps (`PassShape`), and of each such job
  (`InTurn`): while a message, a worker or a request has it, no pass does and it is in no
  waiting stage; and the pass that puts it back is the only one to have it. Several passes may
  hold it before that. A job in a waiting stage is then with no worker, and
  `fall_back_to_live` takes it from nobody else.

* `RollupTypeCorrect`: `RollupTypeOK` with `Shape`, which says that a session
  has written rows only between its UPDATE of the jobs and its commit. From
  `StatusRollupAssumption` (every job has a document, the batch is not one).
* `SettledEarlyCorrect`: the property speaks of committed rows, and the races
  are about uncommitted ones. `RollupInv` adds that the same holds of what each
  session sees and has written or is about to write (`SettlesWhatItSees`), that
  it only handles documents that exist (`HandlesRows`), and that a document and
  its jobs come together (`TogetherIngested`), so that no ingest can open a page
  behind a session's back. `OtherSession` says once what a step may do to the
  sessions that take no part in it; each action then has its own lemma.
* `LoneSessionAlwaysHeals`: `HealInv`, for each session that is alone: every other one is idle,
  what it has moved is still to be recomputed, and what it has recomputed is right
  as it will see it once a decided UPDATE is done (`Right`, `WillSee`). Nothing is assumed of
  what was committed before.

* `FetchTypeCorrect`: `FetchTypeOK` with `Shape`, which says what a worker holds
  where, and that a decided resume is below the limit.
* `OneFetchCorrect`: `OneFetchInv` says that, unless a status was overwritten
  or heartbeats failed, a running fetch holds the link: the status keeps every
  claim out and is not stale. `StatusWritten` says once which writes may not
  disturb that.
* `IngestedOnceCorrect`: `OnceInv`, that runs have not overlapped and what the one
  run has still to settle has no document yet. This is the check by hash at the
  start of a run; with it the crash that the comment at
  `onedrive/service.py:317-320` fears between commit and unlink ingests nothing twice.
* `AccountedCorrect`: `AccountedInv`, relative to `OnceInv`: the ledger names only
  ingested files, a fetch has met, listed or still to settle every file, and once
  a link is FETCHED or someone may put it back to FETCHED, every file is
  ingested or listed. The last part must include reclassify messages
  and requests in flight, since these write FETCHED without looking.

* `NoFileIsForgotten` and `SkippedTypesHold`: `NoFileForgotten` is inductive with
  `Held`: who is about to remove an entry has a document of its file. Everyone
  ingests before removing, and nothing deletes documents here.
* `NoneIngestedTwiceInTurn`: `OnceInv`, for every file that has never been in two hands: one
  reviewer or worker has it at most, it has no document before that one ingests it,
  and once it has one its entry is gone or about to go with whoever has it. Dying with
  a file counts as a second hand in `raced`, as the one who comes next ingests it again.
* `ReclassifyIsAlone`: `AloneInv`, as long as `mishaps` is empty: one reclassify of the link is in
  flight at most, request, message or run; the status keeps other requests out
  meanwhile (`FlightInv`); and a file that is downloaded again says so, while one
  that is classified again does not (`ApartInv`). The reclassify reads that mark.
* `OriginalsAlwaysStay`: with `StorageInv`, which says where each worker's output
  is by its `pc` (uploaded before `Complete`), that a deletion's `keys` are of
  rows it has deleted once it has committed, and that the ingest has stored what
  it has inserted. `CompletedExportsHaveFiles`, `DeletedFilesGo` and `OrphansOnlyCameLate`
  are conjuncts of the same invariant: a file put beside a deletion
  is a stray, a document committed between its statements is late.
* `CopiesOfLiveRunsStay`: `CopiesInv`, for jobs that were not reopened under a cleanup and have
  one run: the rows a cleanup has read, and its plan, are of jobs that are done or
  deleted only, and a job with a live run is neither done nor in them.
* `Records`: `RecordsInv` has a part for the table, for imports, for what readers
  and writers hold, and for the script. Nothing locks a row that has only been
  read, so a snapshot may be stale. The argument is that `(record_id, version)` is unique and the
  revisions of a record are exactly `2 .. version`: if version + 1 of a snapshot is free,
  the record still has the version of the snapshot, and with the same version
  it is the same row (`WriteIsOfRow`). Hence a write is of the current row, and
  `AuditTrailsReplay`, `ReviewsAreOfWhatWasSeen`, `CorrectionsAreShown` and
  `MissingNeedsAnApproval` follow for any number of reviewers. `ReviewsAreOfWhatWasSeen` is of
  corrections and single approvals, whose requests carry the version of the page.
  `EachKeyHasOneRecord` rests on the import that holds the job's row being alone;
  `ReviewsAlwaysSurvive` on a script selecting version 1 only.

Every invariant and action property of a passing run is stated by a theorem, and so is the
refinement. `CompletedExportHasFile` and `MissingNeedsApproval` are proved only: their runs
are kept for what is harder to see. Only model-checked: liveness (`NoJobStuckProcessing`, `PendingIsServed`,
`NoJobWaitsForEver`, `LinkSettles`, `RefetchSettles`, `DiskFreed`, `ExportsExpire`), which
is out of the prover's reach.

## 5. Not modelled

* Of the OneDrive component: the thread-pool executor, local intake, and links
  that share files. `OneDriveFetch` takes all workers to share a disk; on
  separate disks a resumed run finds no ledger, downloads more, and passes over
  ingested files by their hash just the same. The link's content does not change
  between runs. In `SkippedFiles` a document of another link with the same bytes
  is a choice (`DuplicateFound`).
* Users and sessions. `auth/user_admin.py:134` counts the other active admins and
  updates one row: two admins can disable each other at once. It is listed as a
  hazard; a model would only restate it.
* The local storage backend, where a working copy is the original
  (`STORAGE_BACKEND=local`): the cleanup does nothing there.
* The activity log, HTTP, schemas, migrations: no state that decides anything.
* `backfill_onedrive_titles.py`, `fix_typed_image_jobs.py` and the other scripts that
  repair data once, without a rule of their own.
* A submit to Google that splits jobs over several batches; the limit
  `gemini_batch_max_jobs`; the order in which jobs are taken.
* What the OCR reads. In `OcrJobs` an import is a step that may fail; in `Records` its
  result is any of the forms the two importers can write.
* `README.md:33-35` of the repository says that startup recovery happens
  whichever backend is active. The code (`main.py:58`) does it for the pool
  only, with a comment saying why; `Restart` follows the code.

## 6. Plan

1. Proofs: the safety half of the liveness properties, that is, for each job or fetch that
   waits, the message, worker, sweep or pass whose step it waits for.
2. Links that share files, and `OneDriveFetch` with a disk for each worker.
3. The thread-pool executor of the OneDrive tasks, as `OcrJobs` has it for jobs.
