---------------------------- MODULE SkippedFiles ----------------------------
(***************************************************************************)
(* The skipped files of one fetched OneDrive link: the reviewers who pick  *)
(* a document type for one (classify_skipped_file), the tasks that get its *)
(* bytes again when they are gone (run_skipped_files_refetch), the run     *)
(* that classifies them again (run_skipped_files_reclassify), and the      *)
(* sweep that gives up on a re-download (_fail_stale_refetches).           *)
(*                                                                         *)
(* An entry is written under the lock of its submission's row, and decided *)
(* on before, from a plain read: the two halves are two actions.  Object   *)
(* storage keeps the bytes until the entry is gone.  What becomes of the   *)
(* link itself while it is FETCHING is in OneDriveFetch.                   *)
(***************************************************************************)
EXTENDS Naturals, FiniteSets

CONSTANTS
  Files,      \* the skipped files of the link
  Reviewers,  \* their requests
  Workers,    \* Celery worker processes
  NoFile,     \* what an idle request has in hand
  MaxQueue,   \* messages of a task that may wait: bounds the model
  Allowed,    \* which of Spendable may happen
  Budget      \* how many of them, all in all: bounds the model

Spendable == {"classify", "reclassify", "submitError", "ingestError", "downloadError",
              "workerLost", "taskLost", "stale"}

ASSUME SkippedFilesAssumption ==
  /\ NoFile \notin Files
  /\ MaxQueue \in Nat
  /\ Allowed \subseteq Spendable
  /\ Budget \in Nat

VARIABLES
  status,    \* of the submission
  entry,     \* skipped_files: the status of each file's entry, "none" if it has none
  refetch,   \* refetch_status of each entry, "none" if it has none
  kept,      \* files whose bytes are in object storage
  documents, \* how many documents of the link hold each file
  queue,     \* messages waiting for each task
  rpc, file, \* where each request is, and its file
  run, pc,   \* the task each worker runs, and where it is
  todo,      \* the files it has still to settle
  got,       \* those of which it has the bytes
  view,      \* the entries as its session has loaded them
  hand,      \* the file it has ingested and not yet removed
  sweep,     \* entries the sweep has found stale
  raced,     \* history: files that two had in hand at once, or one died with
  mishaps,   \* history: how requests and runs slipped past each other's checks
  left       \* what remains of Budget

linkVars == <<status, entry, refetch, kept, documents>>
reqVars  == <<rpc, file>>
runVars  == <<run, pc, todo, got, view, hand>>
vars == <<linkVars, queue, reqVars, runVars, sweep, raced, mishaps, left>>

Task == {"refetch", "reclassify"}

\* CLASSIFY_FAILED stands for _RECLASSIFIABLE_STATUSES, SKIPPED_JAWI for the
\* statuses that nobody may classify, DUPLICATE among them, and UNKNOWN for those
\* that only a reviewer may.
Reclassifiable == {"CLASSIFY_FAILED"}
Settled        == {"SKIPPED_JAWI"}
EntryStatus    == {"none", "UNKNOWN"} \cup Reclassifiable \cup Settled
Refetching     == {"QUEUED", "IN_PROGRESS"}

Entries == {f \in Files : entry[f] # "none"}

Init ==
  /\ status = "FETCHED"
  /\ entry \in [Files -> Reclassifiable \cup {"UNKNOWN"}]
  /\ refetch = [f \in Files |-> "none"]
  /\ kept \in SUBSET Files
  /\ documents = [f \in Files |-> 0]
  /\ queue = [t \in Task |-> 0]
  /\ rpc  = [r \in Reviewers |-> "idle"] /\ file = [r \in Reviewers |-> NoFile]
  /\ run  = [w \in Workers |-> "idle"]   /\ pc   = [w \in Workers |-> "idle"]
  /\ todo = [w \in Workers |-> {}] /\ got = [w \in Workers |-> {}]
  /\ view = [w \in Workers |-> {}] /\ hand = [w \in Workers |-> NoFile]
  /\ sweep = {} /\ raced = {} /\ mishaps = {}
  /\ left = Budget

-----------------------------------------------------------------------------
(* Building blocks *)

Spend(what) ==
  /\ what \in Allowed
  /\ left > 0
  /\ left' = left - 1

Enqueue(t) == queue[t] < MaxQueue /\ queue' = [queue EXCEPT ![t] = @ + 1]
Dequeue(t) == queue[t] > 0 /\ queue' = [queue EXCEPT ![t] = @ - 1]

\* Who may still ingest a file, or has ingested it and not removed its entry.
Requested(f) == \E r \in Reviewers : file[r] = f /\ rpc[r] \in {"ingest", "remove"}
Worked(f, tasks) == \E w \in Workers : run[w] \in tasks /\ f \in todo[w] \cup {hand[w]}
InHand(f)    == Requested(f) \/ Worked(f, Task)
Taken(fs)    == raced' = raced \cup {f \in fs : InHand(f)}

\* refetch_status is written under a run that has read it.
Overwritten(fs) == IF \E f \in fs : Worked(f, {"refetch"}) THEN {"overwritten"} ELSE {}

\* update_skipped_file: a file without an entry stays without.
SetRefetch(fs, to) == refetch' = [f \in Files |-> IF f \in fs \cap Entries THEN to ELSE refetch[f]]

\* remove_skipped_file
Remove(f) ==
  /\ entry'   = [entry EXCEPT ![f] = "none"]
  /\ refetch' = [refetch EXCEPT ![f] = "none"]

\* _ingest_one_file: the document and its jobs are committed.  Its jobs are those
\* of OcrJobs; a file that cannot be stored or submitted leaves no document.
Ingest(f) == documents' = [documents EXCEPT ![f] = @ + 1]

-----------------------------------------------------------------------------
(* classify_skipped_file *)

At(r, where, f) == rpc' = [rpc EXCEPT ![r] = where] /\ file' = [file EXCEPT ![r] = f]
Done(r) == At(r, "idle", NoFile)

\* Mutant: a link that is being reclassified is not busy.
ClassifiableWhileBusy(f) ==
  /\ entry[f] \notin Settled \cup {"none"}
  /\ refetch[f] \notin Refetching

\* Its answers 404 and 409 are the guards.
Classifiable(f) ==
  /\ status # "FETCHING"
  /\ entry[f] \notin Settled \cup {"none"}
  /\ refetch[f] \notin Refetching

Classify(r, f) ==
  /\ rpc[r] = "idle" /\ Spend("classify")
  /\ Classifiable(f)
  /\ IF f \in kept THEN At(r, "ingest", f) /\ Taken({f})
                   ELSE At(r, "queue", f) /\ UNCHANGED raced
  /\ UNCHANGED <<linkVars, queue, runVars, sweep, mishaps>>

ClassifyIngests(r) ==
  /\ rpc[r] = "ingest"
  /\ Ingest(file[r])
  /\ At(r, "remove", file[r])
  /\ UNCHANGED <<status, entry, refetch, kept, queue, runVars, sweep, raced, mishaps, left>>

\* UploadValidationError, or the bytes were used up by another request.
ClassifyRefused(r) ==
  /\ rpc[r] = "ingest" /\ Spend("ingestError")
  /\ Done(r)
  /\ UNCHANGED <<linkVars, queue, runVars, sweep, raced, mishaps>>

\* Mutant: the entry stays.
ClassifyKeepsEntry(r) ==
  /\ rpc[r] = "remove"
  /\ Done(r)
  /\ UNCHANGED <<linkVars, queue, runVars, sweep, raced, mishaps, left>>

\* The bytes in object storage go after the commit, if that works.
ClassifyRemoves(r) ==
  /\ rpc[r] = "remove"
  /\ Remove(file[r])
  /\ kept' \in {kept, kept \ {file[r]}}
  /\ Done(r)
  /\ UNCHANGED <<status, documents, queue, runVars, sweep, raced, mishaps, left>>

\* The API process dies with the file ingested.
ClassifyDies(r) ==
  /\ rpc[r] = "remove" /\ Spend("workerLost")
  /\ raced' = raced \cup {file[r]}
  /\ Done(r)
  /\ UNCHANGED <<linkVars, queue, runVars, sweep, mishaps>>

\* _queue_skipped_file_refetch: the entry is QUEUED whatever it was by then.
QueueRefetch(r) ==
  /\ rpc[r] = "queue"
  /\ SetRefetch({file[r]}, "QUEUED")
  /\ mishaps' = mishaps \cup Overwritten({file[r]})
  /\ At(r, "submit", file[r])
  /\ UNCHANGED <<status, entry, kept, documents, queue, runVars, sweep, raced, left>>

SubmitRefetch(r) ==
  /\ rpc[r] = "submit"
  /\ Enqueue("refetch")
  /\ Done(r)
  /\ UNCHANGED <<linkVars, runVars, sweep, raced, mishaps, left>>

\* The broker cannot be reached: the entry is given back, whose ever it is.
SubmitRefetchFails(r) ==
  /\ rpc[r] = "submit" /\ Spend("submitError")
  /\ SetRefetch({file[r]}, "FAILED")
  /\ mishaps' = mishaps \cup Overwritten({file[r]})
  /\ Done(r)
  /\ UNCHANGED <<status, entry, kept, documents, queue, runVars, sweep, raced>>

-----------------------------------------------------------------------------
(* reclassify_skipped_files *)

CanReclassify(f) == entry[f] \in Reclassifiable /\ refetch[f] \notin Refetching

Reclassify(r) ==
  /\ rpc[r] = "idle" /\ Spend("reclassify")
  /\ status = "FETCHED" /\ \E f \in Files : CanReclassify(f)
  /\ At(r, "mark", NoFile)
  /\ UNCHANGED <<linkVars, queue, runVars, sweep, raced, mishaps>>

\* mark_fetching.  A request that has passed its check goes on.
MarkFetching(r) ==
  /\ rpc[r] = "mark"
  /\ status'  = "FETCHING"
  /\ mishaps' = IF \E q \in Reviewers \ {r} : rpc[q] # "idle"
                  THEN mishaps \cup {"straddled"} ELSE mishaps
  /\ At(r, "send", NoFile)
  /\ UNCHANGED <<entry, refetch, kept, documents, queue, runVars, sweep, raced, left>>

SubmitReclassify(r) ==
  /\ rpc[r] = "send"
  /\ Enqueue("reclassify")
  /\ Done(r)
  /\ UNCHANGED <<linkVars, runVars, sweep, raced, mishaps, left>>

\* restore_fetched
SubmitReclassifyFails(r) ==
  /\ rpc[r] = "send" /\ Spend("submitError")
  /\ status' = "FETCHED"
  /\ Done(r)
  /\ UNCHANGED <<entry, refetch, kept, documents, queue, runVars, sweep, raced, mishaps>>

-----------------------------------------------------------------------------
(* Runs of the two tasks *)

Start(w, t, where, files) ==
  /\ run[w] = "idle" /\ Dequeue(t)
  /\ run'  = [run EXCEPT ![w] = t]
  /\ pc'   = [pc EXCEPT ![w] = where]
  /\ todo' = [todo EXCEPT ![w] = files]
  /\ Taken(files)
  /\ UNCHANGED <<got, view, hand>>

End(w) ==
  /\ run'  = [run EXCEPT ![w] = "idle"]
  /\ pc'   = [pc EXCEPT ![w] = "idle"]
  /\ todo' = [todo EXCEPT ![w] = {}] /\ got'  = [got EXCEPT ![w] = {}]
  /\ view' = [view EXCEPT ![w] = {}] /\ hand' = [hand EXCEPT ![w] = NoFile]

Goto(w, where) == pc' = [pc EXCEPT ![w] = where]
Settle(w, f) == todo' = [todo EXCEPT ![w] = @ \ {f}]

\* run_skipped_files_refetch: a plain read of what is QUEUED.
StartRefetch(w) ==
  /\ LET queued == {f \in Entries : refetch[f] = "QUEUED"}
     IN  /\ Start(w, "refetch", "claim", queued)
         /\ mishaps' = mishaps \cup Overwritten(queued)
  /\ UNCHANGED <<linkVars, reqVars, sweep, left>>

\* The claim: IN_PROGRESS, whatever it is by then.
Claim(w) ==
  /\ pc[w] = "claim"
  /\ SetRefetch(todo[w], "IN_PROGRESS")
  /\ IF todo[w] = {} THEN End(w)
                     ELSE Goto(w, "download") /\ UNCHANGED <<run, todo, got, view, hand>>
  /\ UNCHANGED <<status, entry, kept, documents, queue, reqVars, sweep, raced, mishaps, left>>

\* fetch-public --only.  The session that settles loads the entries now.
Download(w) ==
  /\ pc[w] = "download"
  /\ \E fs \in SUBSET todo[w] :
       /\ fs # todo[w] => "downloadError" \in Allowed
       /\ got' = [got EXCEPT ![w] = fs]
  /\ view' = [view EXCEPT ![w] = Entries]
  /\ Goto(w, "settle")
  /\ UNCHANGED <<linkVars, queue, reqVars, run, todo, hand, sweep, raced, mishaps, left>>

\* OneDriveFetchError, or an exception that nothing catches before.
RefetchFails(w) ==
  /\ run[w] = "refetch" /\ pc[w] \in {"download", "settle"} /\ Spend("downloadError")
  /\ SetRefetch(todo[w], "FAILED")
  /\ End(w)
  /\ UNCHANGED <<status, entry, kept, documents, queue, reqVars, sweep, raced, mishaps>>

\* Classified or deleted some other way before the session loaded the entries.
SkipGone(w, f) ==
  /\ pc[w] = "settle" /\ f \in todo[w] \ view[w]
  /\ Settle(w, f)
  /\ UNCHANGED <<linkVars, queue, reqVars, run, pc, got, view, hand, sweep, raced, mishaps, left>>

\* It is no longer in the link, or cannot be ingested.
SettleFails(w, f) ==
  /\ run[w] = "refetch" /\ pc[w] = "settle" /\ f \in todo[w] \cap view[w]
  /\ \/ f \notin got[w] /\ UNCHANGED left
     \/ f \in got[w] /\ Spend("ingestError")
  /\ SetRefetch({f}, "FAILED")
  /\ Settle(w, f)
  /\ UNCHANGED <<status, entry, kept, documents, queue, reqVars, run, pc, got, view, hand,
                 sweep, raced, mishaps>>

\* Mutant: the entry goes before the document is there.
RemoveFirst(w, f) ==
  /\ pc[w] = "settle" /\ f \in todo[w] \cap view[w] \cap got[w]
  /\ Remove(f)
  /\ Settle(w, f)
  /\ UNCHANGED <<status, kept, documents, queue, reqVars, run, pc, got, view, hand, sweep,
                 raced, mishaps, left>>

\* Either task: the document, and the loop's next file.
RunIngests(w, f) ==
  /\ pc[w] = "settle" /\ f \in todo[w] \cap view[w] \cap got[w]
  /\ Ingest(f)
  /\ hand' = [hand EXCEPT ![w] = f]
  /\ Settle(w, f)
  /\ Goto(w, "remove")
  /\ UNCHANGED <<status, entry, refetch, kept, queue, reqVars, run, got, view, sweep,
                 raced, mishaps, left>>

\* remove_skipped_file loads the row again, under its lock.
RunRemoves(w) ==
  /\ pc[w] = "remove"
  /\ Remove(hand[w])
  /\ kept' \in {kept, kept \ {hand[w]}}
  /\ view' = [view EXCEPT ![w] = Entries \ {hand[w]}]
  /\ hand' = [hand EXCEPT ![w] = NoFile]
  /\ Goto(w, "settle")
  /\ UNCHANGED <<status, documents, queue, reqVars, run, todo, got, sweep, raced, mishaps, left>>

FinishRefetch(w) ==
  /\ run[w] = "refetch" /\ pc[w] = "settle" /\ todo[w] = {}
  /\ End(w)
  /\ UNCHANGED <<linkVars, queue, reqVars, sweep, raced, mishaps, left>>

\* run_skipped_files_reclassify: a plain read of what it may classify.
StartReclassify(w) ==
  /\ Start(w, "reclassify", "classify", {f \in Files : CanReclassify(f)})
  /\ UNCHANGED <<linkVars, reqVars, sweep, mishaps, left>>

Untodo(w, f) == Settle(w, f) /\ UNCHANGED <<run, pc, got, view, hand>>

\* A file without bytes, or that cannot be classified, is left to a reviewer.
Unclassified(w, f) ==
  /\ pc[w] = "classify" /\ f \in todo[w] \ got[w]
  /\ f \in kept => "ingestError" \in Allowed
  /\ Untodo(w, f)
  /\ UNCHANGED <<linkVars, queue, reqVars, sweep, raced, mishaps, left>>

\* _ALREADY_INGESTED: a run or request has died with it.
AlreadyIngested(w, f) ==
  /\ pc[w] = "classify" /\ f \in (todo[w] \cap kept) \ got[w]
  /\ documents[f] > 0
  /\ Remove(f)
  /\ Untodo(w, f)
  /\ UNCHANGED <<status, kept, documents, queue, reqVars, sweep, raced, mishaps, left>>

\* A document of another link has the same bytes, or a file of this run: it stays
\* on the list as DUPLICATE.
DuplicateFound(w, f) ==
  /\ pc[w] = "classify" /\ f \in (todo[w] \cap kept) \ got[w]
  /\ documents[f] = 0
  /\ \E to \in Settled : entry' = [entry EXCEPT ![f] = IF @ = "none" THEN @ ELSE to]
  /\ Untodo(w, f)
  /\ UNCHANGED <<status, refetch, kept, documents, queue, reqVars, sweep, raced, mishaps, left>>

\* Its bytes are read, and a document of the same bytes is looked for.
ClassifyAgain(w, f) ==
  /\ pc[w] = "classify" /\ f \in (todo[w] \cap kept) \ got[w]
  /\ documents[f] = 0
  /\ got' = [got EXCEPT ![w] = @ \cup {f}]
  /\ UNCHANGED <<linkVars, queue, reqVars, run, pc, todo, view, hand, sweep, raced, mishaps, left>>

StartIngesting(w) ==
  /\ pc[w] = "classify" /\ todo[w] \subseteq got[w]
  /\ view' = [view EXCEPT ![w] = Entries]
  /\ Goto(w, "settle")
  /\ UNCHANGED <<linkVars, queue, reqVars, run, todo, got, hand, sweep, raced, mishaps, left>>

\* Not routable, or not ingested: the entry stays, with a status of its own.
KeepSkipped(w, f) ==
  /\ run[w] = "reclassify" /\ pc[w] = "settle" /\ f \in todo[w] \cap view[w]
  /\ \E to \in Reclassifiable \cup Settled :
       entry' = [entry EXCEPT ![f] = IF @ = "none" THEN @ ELSE to]
  /\ Untodo(w, f)
  /\ UNCHANGED <<status, refetch, kept, documents, queue, reqVars, sweep, raced, mishaps, left>>

\* Mutant: the link is left with the status of a job.
FinishReclassifyCompleted(w) ==
  /\ run[w] = "reclassify" /\ pc[w] = "settle" /\ todo[w] = {}
  /\ status' = "COMPLETED"
  /\ End(w)
  /\ UNCHANGED <<entry, refetch, kept, documents, queue, reqVars, sweep, raced, mishaps, left>>

FinishReclassify(w) ==
  /\ run[w] = "reclassify" /\ pc[w] = "settle" /\ todo[w] = {}
  /\ status' = "FETCHED"
  /\ End(w)
  /\ UNCHANGED <<entry, refetch, kept, documents, queue, reqVars, sweep, raced, mishaps, left>>

\* The worker dies: its message comes back (task_acks_late).
WorkerLost(w) ==
  /\ run[w] # "idle" /\ Spend("workerLost")
  /\ Enqueue(run[w])
  /\ raced' = raced \cup ({hand[w]} \cap Files)
  /\ End(w)
  /\ UNCHANGED <<linkVars, reqVars, sweep, mishaps>>

TaskLost ==
  /\ Spend("taskLost")
  /\ Dequeue("refetch")
  /\ UNCHANGED <<linkVars, reqVars, runVars, sweep, raced, mishaps>>

-----------------------------------------------------------------------------
(* _fail_stale_refetches *)

\* A run that has claimed an entry is killed before the entry is stale; one that
\* waits in the queue may become so.
Abandoned(f) ==
  \/ refetch[f] = "IN_PROGRESS" /\ ~Worked(f, {"refetch"})
  \/ refetch[f] = "QUEUED" /\ queue["refetch"] = 0
       /\ ~Worked(f, {"refetch"}) /\ \A r \in Reviewers : file[r] # f

SweepReads ==
  /\ sweep = {}
  /\ \E fs \in (SUBSET {f \in Files : refetch[f] \in Refetching}) \ {{}} :
       /\ \/ fs = {f \in Files : Abandoned(f)} /\ UNCHANGED left
          \/ /\ fs = {f \in Files : Abandoned(f) \/ refetch[f] = "QUEUED"}
             /\ Spend("stale")
       /\ sweep' = fs
  /\ UNCHANGED <<linkVars, queue, reqVars, runVars, raced, mishaps>>

\* Mutant: only a re-download that has begun is given up.
SweepWritesBegun ==
  /\ sweep # {}
  /\ SetRefetch({f \in sweep : refetch[f] = "IN_PROGRESS"}, "FAILED")
  /\ mishaps' = mishaps \cup Overwritten(sweep)
  /\ sweep' = {}
  /\ UNCHANGED <<status, entry, kept, documents, queue, reqVars, runVars, raced, left>>

\* Under the row's lock, but without looking at refetch_status again.
SweepWrites ==
  /\ sweep # {}
  /\ SetRefetch(sweep, "FAILED")
  /\ mishaps' = mishaps \cup Overwritten(sweep)
  /\ sweep' = {}
  /\ UNCHANGED <<status, entry, kept, documents, queue, reqVars, runVars, raced, left>>

-----------------------------------------------------------------------------

RequestStep(r) ==
  \/ ClassifyIngests(r) \/ ClassifyRemoves(r) \/ QueueRefetch(r) \/ SubmitRefetch(r)
  \/ MarkFetching(r) \/ SubmitReclassify(r)

RunStep(w) ==
  \/ StartRefetch(w) \/ Claim(w) \/ Download(w) \/ FinishRefetch(w)
  \/ StartReclassify(w) \/ StartIngesting(w) \/ FinishReclassify(w) \/ RunRemoves(w)
  \/ \E f \in Files : \/ SkipGone(w, f) \/ SettleFails(w, f) \/ RunIngests(w, f)
                      \/ Unclassified(w, f) \/ AlreadyIngested(w, f) \/ ClassifyAgain(w, f)
                      \/ DuplicateFound(w, f) \/ KeepSkipped(w, f)

Next ==
  \/ \E r \in Reviewers :
       \/ RequestStep(r) \/ Reclassify(r) \/ \E f \in Files : Classify(r, f)
       \/ ClassifyRefused(r) \/ ClassifyDies(r)
       \/ SubmitRefetchFails(r) \/ SubmitReclassifyFails(r)
  \/ \E w \in Workers : RunStep(w) \/ RefetchFails(w) \/ WorkerLost(w)
  \/ TaskLost \/ SweepReads \/ SweepWrites

Spec == Init /\ [][Next]_vars

\* Requests are served, workers take messages and work, and beat runs the sweep.
Fairness ==
  /\ \A r \in Reviewers : WF_vars(RequestStep(r))
  /\ \A w \in Workers : WF_vars(RunStep(w))
  /\ WF_vars(SweepReads) /\ WF_vars(SweepWrites)

FairSpec == Spec /\ Fairness

-----------------------------------------------------------------------------
(* Properties *)

SkippedTypeOK ==
  /\ status \in {"FETCHED", "FETCHING"}
  /\ entry \in [Files -> EntryStatus]
  /\ refetch \in [Files -> Refetching \cup {"none", "FAILED"}]
  /\ kept \subseteq Files
  /\ documents \in [Files -> Nat]
  /\ queue \in [Task -> 0 .. MaxQueue]
  /\ rpc \in [Reviewers -> {"idle", "ingest", "remove", "queue", "submit", "mark", "send"}]
  /\ file \in [Reviewers -> Files \cup {NoFile}]
  /\ run \in [Workers -> Task \cup {"idle"}]
  /\ pc \in [Workers -> {"idle", "claim", "download", "classify", "settle", "remove"}]
  /\ todo \in [Workers -> SUBSET Files] /\ got \in [Workers -> SUBSET Files]
  /\ view \in [Workers -> SUBSET Files] /\ hand \in [Workers -> Files \cup {NoFile}]
  /\ sweep \subseteq Files /\ raced \subseteq Files
  /\ mishaps \subseteq {"straddled", "overwritten"}
  /\ left \in Nat

\* A skipped file leaves the list only as a document: whatever request, run, sweep
\* or crash meets it, a reviewer still finds it, or the OCR does
\* (_ingest_one_file before remove_skipped_file).
NoFileForgotten ==
  \A f \in Files : entry[f] = "none" => documents[f] > 0

\* A file becomes two documents only if two had it in hand at once, or one died
\* between the document and the entry: one after the other they never do.
IngestedTwiceOnlyByRace ==
  \A f \in Files : documents[f] > 1 => f \in raced

\* "The submission is FETCHING while this runs, which also blocks manual
\* classification of the same files meanwhile" (reclassify_skipped_files): so it
\* does, but for requests that had passed their check, and re-downloads that were
\* given up while they ran.
ReclassifyHasThemAlone ==
  \A f \in Files :
    Worked(f, {"reclassify"}) /\ (Requested(f) \/ Worked(f, {"refetch"})) => mishaps # {}

\* A re-download ends, also when its worker dies or its message is lost: the file
\* is ingested, or its Classify button is enabled again (_fail_stale_refetches).
RefetchSettles ==
  \A f \in Files : refetch[f] \in Refetching ~> refetch[f] \notin Refetching
=============================================================================
