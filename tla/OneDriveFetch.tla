--------------------------- MODULE OneDriveFetch ---------------------------
(***************************************************************************)
(* One OneDrive link under Celery: its row in onedrive_submissions, the    *)
(* runs that fetch it (run_onedrive_fetch) or classify its skipped files   *)
(* again (run_skipped_files_reclassify), the requests that post, retry and *)
(* reclassify it, and the sweep that resumes a run whose heartbeat stopped.*)
(*                                                                         *)
(* claim_for_fetch is one conditional UPDATE.  Everyone else reads the     *)
(* status, and writes it later by primary key whatever it is by then: the  *)
(* two halves are two actions.                                             *)
(*                                                                         *)
(* A file stands for its bytes, and the files of the link are different.   *)
(* What a classification says is chosen freely, for each file and run: the *)
(* cache, the stacks, and what neighbours or the batch's name decide are   *)
(* in that choice.  The OCR jobs of a document are those of OcrJobs.       *)
(***************************************************************************)
EXTENDS Naturals, FiniteSets

CONSTANTS
  Files,          \* the files of the link
  Workers,        \* Celery worker processes on one disk
  Requests,       \* API requests in flight
  NoFile,         \* what a run that ingests nothing has in hand
  StaleHeartbeat, \* STALE_HEARTBEAT_SECONDS
  LostPending,    \* LOST_PENDING_AFTER_SECONDS
  MaxResumes,     \* MAX_FETCH_RESUMES
  MaxQueue,       \* how many messages of a task may wait: bounds the model
  Allowed,        \* which of Spendable may happen
  Budget          \* how many of them, all in all: bounds the model

Spendable == {"retry", "reclassify", "workerLost", "taskLost", "redelivery",
              "silence", "runError", "requestLost", "submitError"}

ASSUME OneDriveFetchAssumption ==
  /\ NoFile \notin Files
  /\ StaleHeartbeat \in Nat \ {0}
  /\ LostPending \in Nat \ {0}
  /\ MaxResumes \in Nat
  /\ MaxQueue \in Nat
  /\ Allowed \subseteq Spendable
  /\ Budget \in Nat

VARIABLES
  status,     \* onedrive_submissions.status; "ABSENT" before the link is posted
  age,        \* age of updated_at
  attempts,   \* fetch_attempts
  skipped,    \* the status of each file in skipped_files, NotSkipped if not there
  documents,  \* how many documents of the link hold each file
  downloaded, \* files in the link's download directory
  ledger,     \* files named in ingested.txt
  kept,       \* files preserved for skipped_files entries
  queue,      \* number of messages waiting for each task
  run,        \* the task each worker runs
  pc,         \* where it is
  todo,       \* files it has still to settle
  hand,       \* the file it has just ingested
  skips,      \* skipped_files as its run collects them
  rpc,        \* where each request is
  sweep,      \* what recover_stale_submissions has decided
  seen,       \* the fetch_attempts it has read
  mishaps,    \* history: a status was overwritten, a live run fell silent, runs overlapped
  left        \* what remains of Budget

rowVars  == <<status, age, attempts, skipped>>
fileVars == <<documents, downloaded, ledger, kept>>
runVars  == <<run, pc, todo, hand, skips>>
vars == <<rowVars, fileVars, queue, runVars, rpc, sweep, seen, mishaps, left>>

Task   == {"fetch", "reclassify"}
Status == {"ABSENT", "PENDING", "FETCHING", "FETCHED", "FAILED"}

\* CLASSIFY_FAILED stands for the statuses of _RECLASSIFIABLE_STATUSES, and
\* SKIPPED_JAWI for those a reclassify leaves alone, DUPLICATE of another link's
\* document among them.
NotSkipped == "none"
Reclassifiable == {"CLASSIFY_FAILED"}
SkipStatus == Reclassifiable \cup {"SKIPPED_JAWI"}

Nothing == [f \in Files |-> NotSkipped]
MaxAge  == IF StaleHeartbeat < LostPending THEN LostPending ELSE StaleHeartbeat

Init ==
  /\ status = "ABSENT" /\ age = 0 /\ attempts = 0 /\ skipped = Nothing
  /\ documents = [f \in Files |-> 0]
  /\ downloaded = {} /\ ledger = {} /\ kept = {}
  /\ queue = [t \in Task |-> 0]
  /\ run   = [w \in Workers |-> "idle"]
  /\ pc    = [w \in Workers |-> "idle"]
  /\ todo  = [w \in Workers |-> {}]
  /\ hand  = [w \in Workers |-> NoFile]
  /\ skips = [w \in Workers |-> Nothing]
  /\ rpc   = [r \in Requests |-> "idle"]
  /\ sweep = "idle" /\ seen = 0
  /\ mishaps = {}
  /\ left  = Budget

-----------------------------------------------------------------------------
(* Building blocks *)

Spend(what) ==
  /\ what \in Allowed
  /\ left > 0
  /\ left' = left - 1

\* The row is written by primary key; `expected` says whether it is still what
\* the writer takes it to be.
SetStatus(new, expected) ==
  /\ status'  = new
  /\ age'     = 0
  /\ mishaps' = IF expected THEN mishaps ELSE mishaps \cup {"overwritten"}

Stale == status = "FETCHING" /\ age >= StaleHeartbeat
Lost  == status = "PENDING"  /\ age >= LostPending

Running(w) == run[w] # "idle"
Enqueue(t) == queue[t] < MaxQueue /\ queue' = [queue EXCEPT ![t] = @ + 1]
Dequeue(t) == queue[t] > 0 /\ queue' = [queue EXCEPT ![t] = @ - 1]

Goto(w, to) ==
  /\ pc' = [pc EXCEPT ![w] = to]
  /\ UNCHANGED <<run, hand>>

\* The task returns, or its process dies.
End(w) ==
  /\ run'   = [run EXCEPT ![w] = "idle"]
  /\ pc'    = [pc EXCEPT ![w] = "idle"]
  /\ todo'  = [todo EXCEPT ![w] = {}]
  /\ hand'  = [hand EXCEPT ![w] = NoFile]
  /\ skips' = [skips EXCEPT ![w] = Nothing]

Overlap(m) == IF \E u \in Workers : Running(u) THEN m \cup {"overlap"} ELSE m

-----------------------------------------------------------------------------
(* run_onedrive_fetch *)

\* Mutant: a link can be claimed while it is being fetched.
ClaimableWhileFetching == status \in {"PENDING", "FETCHING"}

\* claim_for_fetch: only a PENDING link, or one whose run fell silent.
Claimable == status = "PENDING" \/ Stale

\* The message is acknowledged on receipt.
StartFetch(w) ==
  /\ run[w] = "idle"
  /\ Dequeue("fetch")
  /\ Claimable
  /\ status'  = "FETCHING"
  /\ age'     = 0
  /\ mishaps' = Overlap(mishaps)
  /\ run'     = [run EXCEPT ![w] = "fetch"]
  /\ pc'      = [pc EXCEPT ![w] = "download"]
  /\ UNCHANGED <<attempts, skipped, fileVars, todo, hand, skips, rpc, sweep, seen, left>>

\* A duplicate task exits.
DropFetch(w) ==
  /\ run[w] = "idle"
  /\ Dequeue("fetch")
  /\ ~ Claimable
  /\ UNCHANGED <<rowVars, fileVars, runVars, rpc, sweep, seen, mishaps, left>>

\* The claim raises, or what the run reads before it: the link is FAILED by
\* mark_failed, whoever holds it.
StartFails(w) ==
  /\ run[w] = "idle"
  /\ Dequeue("fetch")
  /\ Spend("runError")
  /\ SetStatus("FAILED", Claimable \/ status = "FAILED")
  /\ UNCHANGED <<attempts, skipped, fileVars, runVars, rpc, sweep, seen>>

\* fetch-public downloads what the ledger does not name.
Download(w) ==
  /\ pc[w] = "download"
  /\ downloaded' = downloaded \cup (Files \ ledger)
  /\ Goto(w, "check")
  /\ UNCHANGED <<rowVars, documents, ledger, kept, queue, todo, skips, rpc, sweep, seen, mishaps, left>>

\* Mutant: everything that was downloaded is settled.
CheckNothing(w) ==
  /\ pc[w] = "check"
  /\ todo' = [todo EXCEPT ![w] = downloaded]
  /\ Goto(w, "settle")
  /\ UNCHANGED <<rowVars, fileVars, queue, skips, rpc, sweep, seen, mishaps, left>>

\* Files this link has ingested already are passed over.
Check(w) ==
  /\ pc[w] = "check"
  /\ todo' = [todo EXCEPT ![w] = {f \in downloaded : documents[f] = 0}]
  /\ Goto(w, "settle")
  /\ UNCHANGED <<rowVars, fileVars, queue, skips, rpc, sweep, seen, mishaps, left>>

\* Mutant: a skipped file is entered in the ledger, to spare it the next run.
SkipIntoLedger(w, f, st) ==
  /\ run[w] = "fetch" /\ pc[w] = "settle" /\ f \in todo[w]
  /\ todo'  = [todo EXCEPT ![w] = @ \ {f}]
  /\ skips' = [skips EXCEPT ![w][f] = st]
  /\ downloaded' = downloaded \ {f}
  /\ kept'   = kept \cup {f}
  /\ ledger' = ledger \cup {f}
  /\ UNCHANGED <<rowVars, documents, queue, run, pc, hand, rpc, sweep, seen, mishaps, left>>

\* _record_skipped_file: the file could not be classified, routed or ingested.
\* Its bytes are moved away, unless they are gone or the move fails.
Skip(w, f, st) ==
  /\ run[w] = "fetch" /\ pc[w] = "settle" /\ f \in todo[w]
  /\ todo'  = [todo EXCEPT ![w] = @ \ {f}]
  /\ skips' = [skips EXCEPT ![w][f] = st]
  /\ \/ /\ f \in downloaded
        /\ downloaded' = downloaded \ {f}
        /\ kept' = kept \cup {f}
     \/ UNCHANGED <<downloaded, kept>>
  /\ UNCHANGED <<rowVars, documents, ledger, queue, run, pc, hand, rpc, sweep, seen, mishaps, left>>

\* mark_fetched replaces skipped_files by what this run collected.
FinishFetch(w) ==
  /\ run[w] = "fetch" /\ pc[w] = "settle" /\ todo[w] = {}
  /\ SetStatus("FETCHED", status = "FETCHING")
  /\ attempts' = 0
  /\ skipped'  = skips[w]
  /\ Goto(w, "cleanup")
  /\ UNCHANGED <<fileVars, queue, todo, skips, rpc, sweep, seen, left>>

RemoveDownloads(w) ==
  /\ pc[w] = "cleanup"
  /\ downloaded # {}
  /\ downloaded' = {}
  /\ UNCHANGED <<rowVars, documents, ledger, kept, queue, runVars, rpc, sweep, seen, mishaps, left>>

\* The ledger goes last.  What could not be removed before it stays: rmtree
\* ignores errors.
Cleanup(w) ==
  /\ pc[w] = "cleanup"
  /\ ledger' = {}
  /\ End(w)
  /\ UNCHANGED <<rowVars, documents, downloaded, kept, queue, rpc, sweep, seen, mishaps, left>>

\* The download fails, or anything else raises (the soft time limit does): the
\* link is FAILED by mark_failed, or put back to FETCHED after a reclassify.
RunFails(w) ==
  /\ Running(w)
  /\ Spend("runError")
  /\ SetStatus(IF run[w] = "fetch" THEN "FAILED" ELSE "FETCHED",
               status = IF pc[w] = "cleanup" THEN "FETCHED" ELSE "FETCHING")
  /\ End(w)
  /\ UNCHANGED <<attempts, skipped, fileVars, queue, rpc, sweep, seen>>

-----------------------------------------------------------------------------
(* _ingest_one_file, in either run *)

\* The document and its jobs are committed.
Ingest(w, f) ==
  /\ pc[w] = "settle" /\ f \in todo[w]
  /\ IF run[w] = "fetch" THEN f \in downloaded
     ELSE f \in kept /\ skipped[f] # NotSkipped
  /\ documents' = [documents EXCEPT ![f] = @ + 1]
  /\ hand' = [hand EXCEPT ![w] = f]
  /\ pc'   = [pc EXCEPT ![w] = "ingested"]
  /\ UNCHANGED <<rowVars, downloaded, ledger, kept, queue, run, todo, skips, rpc, sweep, seen, mishaps, left>>

\* source_path.unlink, which may fail; then the jobs are submitted.
Unlink(w) ==
  /\ pc[w] = "ingested"
  /\ \/ UNCHANGED <<downloaded, kept>>
     \/ run[w] = "fetch" /\ downloaded' = downloaded \ {hand[w]} /\ UNCHANGED kept
     \/ run[w] = "reclassify" /\ kept' = kept \ {hand[w]} /\ UNCHANGED downloaded
  /\ Goto(w, "unlinked")
  /\ UNCHANGED <<rowVars, documents, ledger, queue, todo, skips, rpc, sweep, seen, mishaps, left>>

\* A fetch enters the file in its ledger, if it can be written; a reclassify takes
\* it off skipped_files.
Record(w) ==
  /\ pc[w] = "unlinked"
  /\ IF run[w] = "fetch"
     THEN ledger' \in {ledger \cup {hand[w]}, ledger} /\ UNCHANGED <<skipped, age>>
     ELSE skipped' = [skipped EXCEPT ![hand[w]] = NotSkipped] /\ age' = 0 /\ UNCHANGED ledger
  /\ todo' = [todo EXCEPT ![w] = @ \ {hand[w]}]
  /\ hand' = [hand EXCEPT ![w] = NoFile]
  /\ pc'   = [pc EXCEPT ![w] = "settle"]
  /\ UNCHANGED <<status, attempts, documents, downloaded, kept, queue, run, skips, rpc, sweep, seen, mishaps, left>>

\* The database refuses what follows the submits: the file counts as
\* INGEST_FAILED although its document is there.
IngestRaises(w) ==
  LET f == hand[w] IN
  /\ pc[w] = "unlinked"
  /\ Spend("runError")
  /\ IF run[w] = "fetch"
     THEN /\ skips' = [skips EXCEPT ![w][f] = "CLASSIFY_FAILED"]
          /\ downloaded' = downloaded \ {f}
          /\ kept' = IF f \in downloaded THEN kept \cup {f} ELSE kept
          /\ UNCHANGED <<skipped, age>>
     ELSE /\ skipped' = [skipped EXCEPT ![f] = IF @ = NotSkipped THEN @ ELSE "CLASSIFY_FAILED"]
          /\ age' = 0
          /\ UNCHANGED <<skips, downloaded, kept>>
  /\ todo' = [todo EXCEPT ![w] = @ \ {f}]
  /\ hand' = [hand EXCEPT ![w] = NoFile]
  /\ pc'   = [pc EXCEPT ![w] = "settle"]
  /\ UNCHANGED <<status, attempts, documents, ledger, queue, run, rpc, sweep, seen, mishaps>>

-----------------------------------------------------------------------------
(* run_skipped_files_reclassify *)

\* Takes the entries whose bytes are there, and drops those whose file the link
\* has ingested.  It does not look at the status of the link.
StartReclassify(w) ==
  LET present  == {f \in kept : skipped[f] \in Reclassifiable}
      ingested == {f \in present : documents[f] > 0}
  IN
  /\ run[w] = "idle"
  /\ Dequeue("reclassify")
  /\ run'     = [run EXCEPT ![w] = "reclassify"]
  /\ pc'      = [pc EXCEPT ![w] = "settle"]
  /\ todo'    = [todo EXCEPT ![w] = present \ ingested]
  /\ skipped' = [f \in Files |-> IF f \in ingested THEN NotSkipped ELSE skipped[f]]
  /\ age'     = IF ingested = {} THEN age ELSE 0
  /\ mishaps' = Overlap(mishaps)
  /\ UNCHANGED <<status, attempts, fileVars, hand, skips, rpc, sweep, seen, left>>

\* The file cannot be classified, and its entry stays as it is; or it cannot be
\* routed or ingested, and its entry, if it is still there, gets the new status.
SkipAgain(w, f, st) ==
  /\ run[w] = "reclassify" /\ pc[w] = "settle" /\ f \in todo[w]
  /\ todo' = [todo EXCEPT ![w] = @ \ {f}]
  /\ \/ UNCHANGED <<skipped, age>>
     \/ /\ skipped[f] # NotSkipped
        /\ skipped' = [skipped EXCEPT ![f] = st]
        /\ age' = 0
  /\ UNCHANGED <<status, attempts, fileVars, queue, run, pc, hand, skips, rpc, sweep, seen, mishaps, left>>

\* restore_fetched.
FinishReclassify(w) ==
  /\ run[w] = "reclassify" /\ pc[w] = "settle" /\ todo[w] = {}
  /\ SetStatus("FETCHED", status = "FETCHING")
  /\ End(w)
  /\ UNCHANGED <<attempts, skipped, fileVars, queue, rpc, sweep, seen, left>>

-----------------------------------------------------------------------------
(* Requests *)

\* get_or_create_submission makes the row; a second POST finds it.
Post(r) ==
  /\ rpc[r] = "idle"
  /\ status = "ABSENT"
  /\ status' = "PENDING" /\ age' = 0
  /\ rpc' = [rpc EXCEPT ![r] = "sendFetch"]
  /\ UNCHANGED <<attempts, skipped, fileVars, queue, runVars, sweep, seen, mishaps, left>>

\* retry_submission reads the row, also for a POST of a link that has FAILED ...
ReadRetry(r) ==
  /\ rpc[r] = "idle"
  /\ status = "FAILED"
  /\ Spend("retry")
  /\ rpc' = [rpc EXCEPT ![r] = "retry"]
  /\ UNCHANGED <<rowVars, fileVars, queue, runVars, sweep, seen, mishaps>>

\* ... and writes it.
WriteRetry(r) ==
  /\ rpc[r] = "retry"
  /\ SetStatus("PENDING", status = "FAILED")
  /\ rpc' = [rpc EXCEPT ![r] = "sendFetch"]
  /\ UNCHANGED <<attempts, skipped, fileVars, queue, runVars, sweep, seen, left>>

\* reclassify_skipped_files reads the row ...
ReadReclassify(r) ==
  /\ rpc[r] = "idle"
  /\ status = "FETCHED"
  /\ \E f \in Files : skipped[f] \in Reclassifiable
  /\ Spend("reclassify")
  /\ rpc' = [rpc EXCEPT ![r] = "reclassify"]
  /\ UNCHANGED <<rowVars, fileVars, queue, runVars, sweep, seen, mishaps>>

\* ... and writes it.
WriteReclassify(r) ==
  /\ rpc[r] = "reclassify"
  /\ SetStatus("FETCHING", status = "FETCHED")
  /\ rpc' = [rpc EXCEPT ![r] = "sendReclassify"]
  /\ UNCHANGED <<attempts, skipped, fileVars, queue, runVars, sweep, seen, left>>

Sends(r) == rpc[r] \in {"sendFetch", "sendReclassify"}

Send(r) ==
  /\ Sends(r)
  /\ Enqueue(IF rpc[r] = "sendFetch" THEN "fetch" ELSE "reclassify")
  /\ rpc' = [rpc EXCEPT ![r] = "idle"]
  /\ UNCHANGED <<rowVars, fileVars, runVars, sweep, seen, mishaps, left>>

\* The broker refuses: mark_failed, or restore_fetched.
SendFails(r) ==
  /\ Sends(r)
  /\ Spend("submitError")
  /\ IF rpc[r] = "sendFetch" THEN SetStatus("FAILED", status = "PENDING")
     ELSE SetStatus("FETCHED", status = "FETCHING")
  /\ rpc' = [rpc EXCEPT ![r] = "idle"]
  /\ UNCHANGED <<attempts, skipped, fileVars, queue, runVars, sweep, seen>>

RequestLost(r) ==
  /\ rpc[r] # "idle"
  /\ Spend("requestLost")
  /\ rpc' = [rpc EXCEPT ![r] = "idle"]
  /\ UNCHANGED <<rowVars, fileVars, queue, runVars, sweep, seen, mishaps>>

-----------------------------------------------------------------------------
(* recover_stale_submissions *)

\* Mutant: only a link that is FETCHING is looked at.
SweepReadFetching ==
  /\ sweep = "idle"
  /\ Stale
  /\ sweep' = IF attempts < MaxResumes THEN "resume" ELSE "fail"
  /\ seen'  = attempts
  /\ UNCHANGED <<rowVars, fileVars, queue, runVars, rpc, mishaps, left>>

\* Mutant: one resume too many.
SweepReadOneMore ==
  /\ sweep = "idle"
  /\ Stale \/ Lost
  /\ sweep' = IF Lost THEN "requeue" ELSE IF attempts <= MaxResumes THEN "resume" ELSE "fail"
  /\ seen'  = attempts
  /\ UNCHANGED <<rowVars, fileVars, queue, runVars, rpc, mishaps, left>>

SweepRead ==
  /\ sweep = "idle"
  /\ Stale \/ Lost
  /\ sweep' = IF Lost THEN "requeue" ELSE IF attempts < MaxResumes THEN "resume" ELSE "fail"
  /\ seen'  = attempts
  /\ UNCHANGED <<rowVars, fileVars, queue, runVars, rpc, mishaps, left>>

SweepWrite ==
  /\ \/ /\ sweep = "resume"
        /\ SetStatus("PENDING", Stale)
        /\ attempts' = seen + 1
        /\ sweep' = "send"
     \/ /\ sweep = "fail"
        /\ SetStatus("FAILED", Stale)
        /\ sweep' = "idle"
        /\ UNCHANGED attempts
     \/ /\ sweep = "requeue"
        /\ age' = 0
        /\ sweep' = "send"
        /\ UNCHANGED <<status, attempts, mishaps>>
  /\ seen' = 0
  /\ UNCHANGED <<skipped, fileVars, queue, runVars, rpc, left>>

SweepSend ==
  /\ sweep = "send"
  /\ sweep' = "idle"
  /\ Enqueue("fetch")
  /\ UNCHANGED <<rowVars, fileVars, runVars, rpc, seen, mishaps, left>>

\* The broker refuses, which is logged; or the worker that sweeps dies.
SweepLost ==
  /\ sweep # "idle"
  /\ Spend("workerLost") \/ (sweep = "send" /\ Spend("submitError"))
  /\ sweep' = "idle" /\ seen' = 0
  /\ UNCHANGED <<rowVars, fileVars, queue, runVars, rpc, mishaps>>

-----------------------------------------------------------------------------
(* Time, and what may go wrong outside *)

\* A live run touches the row of a link that is FETCHING.
Beating == status = "FETCHING" /\ \E w \in Workers : Running(w)

\* The age that is looked at: beyond it the row only gets older, and every write of
\* the status begins a new one.
Horizon ==
  IF status = "PENDING" THEN LostPending ELSE IF status = "FETCHING" THEN StaleHeartbeat ELSE 0

TimePasses ==
  /\ \/ Beating /\ age' = 0
     \/ ~ Beating /\ age < Horizon /\ age' = age + 1
  /\ UNCHANGED <<status, attempts, skipped, fileVars, queue, runVars, rpc, sweep, seen, mishaps, left>>

\* The heartbeats of a live run fail for as long.
Silence ==
  /\ Beating
  /\ age < Horizon
  /\ Spend("silence")
  /\ age' = age + 1
  /\ mishaps' = mishaps \cup {"silent"}
  /\ UNCHANGED <<status, attempts, skipped, fileVars, queue, runVars, rpc, sweep, seen>>

\* A worker is killed: a reclassify was not acknowledged and is delivered again.
WorkerLost(w) ==
  /\ Running(w)
  /\ Spend("workerLost")
  /\ End(w)
  /\ IF run[w] = "reclassify" THEN Enqueue("reclassify") ELSE UNCHANGED queue
  /\ UNCHANGED <<rowVars, fileVars, rpc, sweep, seen, mishaps>>

\* A message dies with the worker that had received it.
TaskLost ==
  /\ Dequeue("fetch")
  /\ Spend("taskLost")
  /\ UNCHANGED <<rowVars, fileVars, runVars, rpc, sweep, seen, mishaps>>

\* A reclassify that outlives the visibility timeout is delivered again.
Redeliver(w) ==
  /\ run[w] = "reclassify"
  /\ Spend("redelivery")
  /\ Enqueue("reclassify")
  /\ UNCHANGED <<rowVars, fileVars, runVars, rpc, sweep, seen, mishaps>>

-----------------------------------------------------------------------------

RunStep(w) ==
  \/ Download(w) \/ Check(w) \/ FinishFetch(w) \/ RemoveDownloads(w) \/ Cleanup(w)
  \/ Unlink(w) \/ Record(w) \/ FinishReclassify(w)
  \/ \E f \in Files : \/ Ingest(w, f)
                      \/ \E st \in SkipStatus : Skip(w, f, st) \/ SkipAgain(w, f, st)

Next ==
  \/ \E w \in Workers :
       \/ StartFetch(w) \/ DropFetch(w) \/ StartFails(w) \/ StartReclassify(w) \/ RunStep(w)
       \/ IngestRaises(w) \/ RunFails(w) \/ WorkerLost(w) \/ Redeliver(w)
  \/ \E r \in Requests :
       \/ Post(r) \/ ReadRetry(r) \/ WriteRetry(r)
       \/ ReadReclassify(r) \/ WriteReclassify(r)
       \/ Send(r) \/ SendFails(r) \/ RequestLost(r)
  \/ SweepRead \/ SweepWrite \/ SweepSend \/ SweepLost
  \/ TimePasses \/ Silence \/ TaskLost

Spec == Init /\ [][Next]_vars

Fairness ==
  /\ \A w \in Workers : WF_vars(RunStep(w))
  /\ WF_vars(\E w \in Workers : StartFetch(w) \/ DropFetch(w))
  /\ WF_vars(\E w \in Workers : StartReclassify(w))
  /\ WF_vars(SweepRead) /\ WF_vars(SweepWrite) /\ WF_vars(SweepSend)
  /\ WF_vars(TimePasses)

FairSpec == Spec /\ Fairness

-----------------------------------------------------------------------------
(* Properties *)

FetchTypeOK ==
  /\ status \in Status
  /\ age \in 0..MaxAge
  /\ attempts \in 0..MaxResumes
  /\ skipped \in [Files -> SkipStatus \cup {NotSkipped}]
  /\ documents \in [Files -> Nat]
  /\ downloaded \subseteq Files /\ ledger \subseteq Files /\ kept \subseteq Files
  /\ queue \in [Task -> Nat]
  /\ run \in [Workers -> Task \cup {"idle"}]
  /\ pc \in [Workers -> {"idle", "download", "check", "settle", "ingested", "unlinked", "cleanup"}]
  /\ todo \in [Workers -> SUBSET Files]
  /\ hand \in [Workers -> Files \cup {NoFile}]
  /\ skips \in [Workers -> [Files -> SkipStatus \cup {NotSkipped}]]
  /\ rpc \in [Requests -> {"idle", "retry", "reclassify", "sendFetch", "sendReclassify"}]
  /\ sweep \in {"idle", "resume", "fail", "requeue", "send"}
  /\ seen \in 0..MaxResumes
  /\ mishaps \subseteq {"overwritten", "silent", "overlap"}
  /\ left \in 0..Budget

\* claim_for_fetch keeps duplicate tasks apart: the link is fetched by one run at
\* a time, unless the heartbeats of a run failed or someone overwrote a status
\* that was no longer the one it had read.
OneFetchAtATime ==
  \A v, w \in Workers :
    run[v] = "fetch" /\ run[w] = "fetch" /\ v # w =>
      mishaps \cap {"overwritten", "silent"} # {}

\* However often its runs are killed, resumed, retried and reclassified, a file
\* of the link becomes one document, unless two runs were alive at once.
IngestedOnce ==
  \A f \in Files : documents[f] > 1 => "overlap" \in mishaps

\* A link shown as FETCHED has every file ingested or listed as skipped: what an
\* interrupted run had got through, and what it had skipped, is not lost.  Unless
\* two runs were alive at once: one of them removes the other's downloads.
EveryFileAccountedFor ==
  status = "FETCHED" /\ "overlap" \notin mishaps =>
    \A f \in Files : documents[f] > 0 \/ skipped[f] # NotSkipped

\* A link does not stay PENDING or FETCHING for ever: a lost task is queued again
\* and a run that died is resumed or, in the end, FAILED.
LinkSettles == status \in {"PENDING", "FETCHING"} ~> status \in {"FETCHED", "FAILED"}
=============================================================================
