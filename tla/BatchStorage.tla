---------------------------- MODULE BatchStorage ----------------------------
(***************************************************************************)
(* Where the files of a batch are, with STORAGE_BACKEND=s3, and what takes *)
(* them away: the ingest of a document of a link, the runs that leave      *)
(* working copies on their node's disk, the daily cleanup of those copies, *)
(* the exports of the batch and their expiry, and the deletions of the     *)
(* link and of the batch.                                                  *)
(*                                                                         *)
(* Rows are deleted in a transaction of several statements, whose last one *)
(* waits for the transactions that have inserted rows under the batch or   *)
(* the link (their foreign keys lock it).  Object storage knows nothing of *)
(* transactions: a file is there or not, whatever the rows say.            *)
(***************************************************************************)
EXTENDS Naturals, FiniteSets

CONSTANTS
  Doc,      \* the document that is ingested
  Jobs,     \* the OCR jobs it may get: one, or one for each page
  Exports,  \* exports of the batch
  Nodes,    \* machines with a disk
  ApiNode,  \* the one that serves the API; the cleanup runs on the others
  Workers,  \* Celery worker processes
  NodeOf,   \* the node of each worker
  Deleters, \* who deletes an export: requests of admins, and the beat task
  Expiry,   \* the beat task, cleanup_stale_exports_task
  NoJob,    \* what an idle worker has in hand
  NoExport, \* what an idle deleter has in hand
  Allowed,  \* which of Spendable may happen
  Budget    \* how many of them, all in all: bounds the model

Spendable == {"runFails", "failUnder", "retry", "reprocess", "delete", "export", "crash"}

ASSUME BatchStorageAssumption ==
  /\ ApiNode \in Nodes
  /\ NodeOf \in [Workers -> Nodes \ {ApiNode}]
  /\ Expiry \in Deleters
  /\ NoJob \notin Jobs /\ NoExport \notin Exports
  /\ Doc \notin Jobs \cup Exports
  /\ Allowed \subseteq Spendable
  /\ Budget \in Nat

VARIABLES
  batch, link, \* the rows of the batch and of its OneDrive link: "live" or "deleted"
  document,    \* the document's row: "inserted" until the ingest commits it
  pages,       \* the document's jobs
  job,         \* the status of each job's row
  keyed,       \* jobs with an output_relative_path
  export,      \* the row of each export: "inserted" until it is committed
  objects,     \* what is in object storage
  local,       \* working copies on each node's disk
  ingest,      \* where the ingest is
  pc, hand,    \* where each worker is, and its job
  scan,        \* jobs each node's cleanup has read as completed, and not looked at yet
  plan,        \* job folders it has decided to remove
  writer,      \* where the request is that creates each export
  xpc, xrow,   \* where each deletion of an export is, and its export
  del,         \* where the deletion of the link or of the batch is
  scope,       \* which of the two it is
  doomed,      \* the jobs it has deleted and not committed
  keys,        \* objects it has still to delete
  strays,      \* history: objects of no row when a deletion looked, or put since
  late,        \* history: jobs committed while a deletion was between its statements
  crossed,     \* history: jobs run twice at once, or reopened under a cleanup
  begun,       \* history: exports whose file a deletion has removed
  left         \* what remains of Budget

rowVars    == <<batch, link, document, pages, job, keyed, export>>
fileVars   == <<objects, local>>
workVars   == <<ingest, pc, hand, scan, plan>>
exportVars == <<writer, xpc, xrow>>
deleteVars == <<del, scope, doomed, keys>>
history    == <<strays, late, crossed, begun>>
vars == <<rowVars, fileVars, workVars, exportVars, deleteVars, history, left>>

JobStatus == {"none", "PENDING", "PROCESSING", "COMPLETED", "FAILED", "deleted"}
Source    == <<"source", Doc>>
Input(j)  == <<"input", j>>
Output(j) == <<"output", j>>
File(e)   == <<"export", e>>
Object    == {Source} \cup {Input(j) : j \in Jobs} \cup {Output(j) : j \in Jobs}
               \cup {File(e) : e \in Exports}
Copy      == {Input(j) : j \in Jobs} \cup {Output(j) : j \in Jobs}

Init ==
  /\ batch = "live" /\ link = "live" /\ document = "none" /\ pages = {}
  /\ job    = [j \in Jobs |-> "none"] /\ keyed = {}
  /\ export = [e \in Exports |-> "none"]
  /\ objects = {}
  /\ local  = [n \in Nodes |-> {}]
  /\ ingest = "idle"
  /\ pc     = [w \in Workers |-> "idle"] /\ hand = [w \in Workers |-> NoJob]
  /\ scan   = [n \in Nodes |-> {}] /\ plan = [n \in Nodes |-> {}]
  /\ writer = [e \in Exports |-> "idle"]
  /\ xpc    = [x \in Deleters |-> "idle"] /\ xrow = [x \in Deleters |-> NoExport]
  /\ del = "idle" /\ scope = "link" /\ doomed = {} /\ keys = {}
  /\ strays = {} /\ late = {} /\ crossed = {} /\ begun = {}
  /\ left = Budget

-----------------------------------------------------------------------------
(* Building blocks *)

Spend(what) ==
  /\ what \in Allowed
  /\ left > 0
  /\ left' = left - 1

\* storage.put_file.  What is put while a deletion is under way, or after one, it
\* may not know of.
Deleting == del # "idle" \/ batch = "deleted" \/ link = "deleted"
Put(os) ==
  /\ objects' = objects \cup os
  /\ strays'  = IF Deleting THEN strays \cup os ELSE strays

\* A page of a split document has an input of its own; the only job of a document
\* reads the document's source.
Split == Cardinality(pages) > 1
InputObject(j) == IF Split THEN Input(j) ELSE Source
Folder(js) == {Input(j) : j \in js} \cup {Output(j) : j \in js}

Row(j) == job[j] \notin {"none", "deleted"}

\* A row that is deleted and not committed can be read, and not written.
Writable(j) == Row(j) /\ j \notin doomed

-----------------------------------------------------------------------------
(* _ingest_one_file and create_document_page_jobs *)

IngestStores(js) ==
  /\ ingest = "idle" /\ js # {}
  /\ ingest' = "insert"
  /\ pages'  = js
  /\ Put({Source})
  /\ UNCHANGED <<batch, link, document, job, keyed, export, local, pc, hand, scan, plan,
                 exportVars, deleteVars, late, crossed, begun, left>>

\* The rows, and the pages' inputs, which stay on this node's disk.
IngestInserts(n) ==
  /\ ingest = "insert"
  /\ batch = "live" /\ link = "live"
  /\ document' = "inserted"
  /\ ingest'   = "commit"
  /\ Put(IF Split THEN {Input(j) : j \in pages} ELSE {})
  /\ local'    = [local EXCEPT ![n] = @ \cup {Input(j) : j \in pages}]
  /\ UNCHANGED <<batch, link, pages, job, keyed, export, pc, hand, scan, plan, exportVars,
                 deleteVars, late, crossed, begun, left>>

\* The document and its jobs; from here on their messages are those of OcrJobs.
IngestCommits ==
  /\ ingest = "commit"
  /\ document' = "committed"
  /\ job'      = [j \in Jobs |-> IF j \in pages THEN "PENDING" ELSE job[j]]
  /\ ingest'   = "done"
  /\ late'     = IF del = "batchRow" THEN late \cup pages ELSE late
  /\ UNCHANGED <<batch, link, pages, keyed, export, fileVars, pc, hand, scan, plan, exportVars,
                 deleteVars, strays, crossed, begun, left>>

\* No batch or link to insert under, or any other exception: rolled back, and the
\* folders on the disk removed.  What is in object storage stays there.
IngestFails ==
  /\ ingest \in {"insert", "commit"}
  /\ \/ ingest = "insert" /\ (batch = "deleted" \/ link = "deleted") /\ UNCHANGED left
     \/ Spend("crash")
  /\ document' = "none"
  /\ ingest'   = "done"
  /\ local'    = [n \in Nodes |-> local[n] \ Folder(pages)]
  /\ UNCHANGED <<batch, link, pages, job, keyed, export, objects, pc, hand, scan, plan, exportVars,
                 deleteVars, history>>

-----------------------------------------------------------------------------
(* process_ocr_job, as far as its files go *)

Goto(w, where) == pc' = [pc EXCEPT ![w] = where] /\ UNCHANGED hand
Idle(w) == pc' = [pc EXCEPT ![w] = "idle"] /\ hand' = [hand EXCEPT ![w] = NoJob]
SetJob(j, to) == job' = [job EXCEPT ![j] = to]

\* mark_processing.  A run of a job that was taken for dead may still be going on.
Claim(w, j) ==
  /\ pc[w] = "idle"
  /\ Writable(j) /\ job[j] = "PENDING"
  /\ SetJob(j, "PROCESSING")
  /\ pc'      = [pc EXCEPT ![w] = "fetch"]
  /\ hand'    = [hand EXCEPT ![w] = j]
  /\ crossed' = IF \E v \in Workers : hand[v] = j THEN crossed \cup {j} ELSE crossed
  /\ UNCHANGED <<batch, link, document, pages, keyed, export, fileVars, ingest, scan, plan,
                 exportVars, deleteVars, strays, late, begun, left>>

\* _ensure_input_materialized: from object storage, unless it is here already.
Materialize(w) ==
  LET j == hand[w]
      n == NodeOf[w]
  IN  /\ pc[w] = "fetch"
      /\ Input(j) \in local[n] \/ InputObject(j) \in objects
      /\ local' = [local EXCEPT ![n] = @ \cup {Input(j)}]
      /\ Goto(w, "run")
      /\ UNCHANGED <<rowVars, objects, ingest, scan, plan, exportVars, deleteVars, history, left>>

\* The OCR subprocess writes its output into the job's folder.
OcrWrites(w) ==
  LET n == NodeOf[w]
  IN  /\ pc[w] = "run" /\ Input(hand[w]) \in local[n]
      /\ local' = [local EXCEPT ![n] = @ \cup {Output(hand[w])}]
      /\ Goto(w, "upload")
      /\ UNCHANGED <<rowVars, objects, ingest, scan, plan, exportVars, deleteVars, history, left>>

\* Mutant: the row says COMPLETED before the output is in object storage.
UploadAfterwards(w) ==
  LET j == hand[w]
  IN  /\ pc[w] = "upload" /\ Output(j) \in local[NodeOf[w]]
      /\ Writable(j) /\ job[j] = "PROCESSING"
      /\ SetJob(j, "COMPLETED")
      /\ keyed' = keyed \cup {j}
      /\ Goto(w, "complete")
      /\ UNCHANGED <<batch, link, document, pages, export, fileVars, ingest, scan, plan,
                     exportVars, deleteVars, history, left>>

\* complete_job: the output is put into object storage ...
Upload(w) ==
  LET j == hand[w]
  IN  /\ pc[w] = "upload" /\ Output(j) \in local[NodeOf[w]]
      /\ Put({Output(j)})
      /\ Goto(w, "complete")
      /\ UNCHANGED <<rowVars, local, ingest, scan, plan, exportVars, deleteVars, late, crossed,
                     begun, left>>

\* ... then mark_completed and the records are committed ...
Complete(w) ==
  LET j == hand[w]
  IN  /\ pc[w] = "complete"
      /\ Writable(j) /\ job[j] = "PROCESSING"
      /\ SetJob(j, "COMPLETED")
      /\ keyed' = keyed \cup {j}
      /\ Goto(w, "clean")
      /\ UNCHANGED <<batch, link, document, pages, export, fileVars, ingest, scan, plan,
                     exportVars, deleteVars, history, left>>

\* ... and remove_local_copies_for_job removes the job's own folder.
CleanAfterRun(w) ==
  LET n == NodeOf[w]
  IN  /\ pc[w] = "clean"
      /\ local' = [local EXCEPT ![n] = @ \ Folder({hand[w]})]
      /\ Idle(w)
      /\ UNCHANGED <<rowVars, objects, ingest, scan, plan, exportVars, deleteVars, history, left>>

\* No input anywhere, no output, or a row that is gone or not PROCESSING: the row
\* is marked FAILED, if that is still possible, and the folder stays.
Lacks(w) ==
  LET j == hand[w]
      n == NodeOf[w]
  IN  \/ pc[w] = "fetch" /\ Input(j) \notin local[n] /\ InputObject(j) \notin objects
      \/ pc[w] = "run" /\ Input(j) \notin local[n]
      \/ pc[w] = "upload" /\ Output(j) \notin local[n]
      \/ pc[w] = "complete" /\ job[j] # "PROCESSING"

RunFails(w) ==
  LET j == hand[w]
  IN  /\ pc[w] \in {"fetch", "run", "upload", "complete"}
      /\ (Lacks(w) /\ UNCHANGED left) \/ Spend("runFails")
      /\ Row(j) => Writable(j)
      /\ job' = IF job[j] \in {"PENDING", "PROCESSING"} THEN [job EXCEPT ![j] = "FAILED"] ELSE job
      /\ Idle(w)
      /\ UNCHANGED <<batch, link, document, pages, keyed, export, fileVars, ingest, scan, plan,
                     exportVars, deleteVars, history>>

\* The worker process dies, before or after complete_job's commit.
WorkerLost(w) ==
  /\ pc[w] # "idle" /\ Spend("crash")
  /\ Idle(w)
  /\ UNCHANGED <<rowVars, fileVars, ingest, scan, plan, exportVars, deleteVars, history>>

\* A job fails without its run: a second message, or recovery (OcrJobs).
FailUnder(j) ==
  /\ Writable(j) /\ job[j] = "PROCESSING" /\ Spend("failUnder")
  /\ SetJob(j, "FAILED")
  /\ UNCHANGED <<batch, link, document, pages, keyed, export, fileVars, workVars,
                 exportVars, deleteVars, history>>

Retry(j) ==
  /\ Writable(j) /\ job[j] = "FAILED" /\ Spend("retry")
  /\ SetJob(j, "PENDING")
  /\ UNCHANGED <<batch, link, document, pages, keyed, export, fileVars, workVars,
                 exportVars, deleteVars, history>>

\* reprocess_typed_jobs, reprocess_hollow_handwritten: a COMPLETED job is PENDING
\* again, and keeps its output_relative_path.
Reprocess(j) ==
  /\ Writable(j) /\ job[j] = "COMPLETED" /\ InputObject(j) \in objects
  /\ Spend("reprocess")
  /\ SetJob(j, "PENDING")
  /\ crossed' = IF (\E n \in Nodes : j \in scan[n] \cup plan[n]) \/ \E w \in Workers : hand[w] = j
                  THEN crossed \cup {j} ELSE crossed
  /\ UNCHANGED <<batch, link, document, pages, keyed, export, fileVars, workVars,
                 exportVars, deleteVars, strays, late, begun>>

-----------------------------------------------------------------------------
(* clean_local_copies, on each worker's node: one at a time, by its lock *)

\* Mutant: the status of the jobs is not looked at.
FinishedOrNot == document = "committed" /\ \A j \in pages : Row(j) /\ j \in keyed

\* The rows of a document that is removed from the disk, if its files are found.
Finished ==
  document = "committed" /\ \A j \in pages : Row(j) /\ job[j] = "COMPLETED" /\ j \in keyed

\* plan reads the rows of all jobs and documents before it looks at any disk.
CleanReads(n) ==
  /\ scan[n] = {} /\ plan[n] = {}
  /\ Finished
  /\ scan' = [scan EXCEPT ![n] = pages]
  /\ UNCHANGED <<rowVars, fileVars, ingest, pc, hand, plan, exportVars, deleteVars, history, left>>

\* Mutant: only a folder with an output is looked at.
RemovableOutputs(n) ==
  IF Source \in objects /\ \A j \in scan[n] : Output(j) \in objects
    THEN {j \in scan[n] : Output(j) \in local[n]} ELSE {}

\* The folders that are there, if source and outputs are confirmed in object storage.
Removable(n) ==
  IF Source \in objects /\ \A j \in scan[n] : Output(j) \in objects
    THEN {j \in scan[n] : Folder({j}) \cap local[n] # {}} ELSE {}

\* The document's turn comes, by then with rows that may be more than an hour old.
CleanPlans(n) ==
  /\ scan[n] # {}
  /\ plan' = [plan EXCEPT ![n] = Removable(n)]
  /\ scan' = [scan EXCEPT ![n] = {}]
  /\ UNCHANGED <<rowVars, fileVars, ingest, pc, hand, exportVars, deleteVars, history, left>>

\* When the plan for all documents is made.
CleanRemoves(n) ==
  /\ plan[n] # {}
  /\ local' = [local EXCEPT ![n] = @ \ Folder(plan[n])]
  /\ plan'  = [plan EXCEPT ![n] = {}]
  /\ UNCHANGED <<rowVars, objects, ingest, pc, hand, scan, exportVars, deleteVars, history, left>>

CleanDies(n) ==
  /\ scan[n] \cup plan[n] # {} /\ Spend("crash")
  /\ scan' = [scan EXCEPT ![n] = {}] /\ plan' = [plan EXCEPT ![n] = {}]
  /\ UNCHANGED <<rowVars, fileVars, ingest, pc, hand, exportVars, deleteVars, history>>

-----------------------------------------------------------------------------
(* Exports *)

SetExport(e, to) == export' = [export EXCEPT ![e] = to]
Writing(e, where) == writer' = [writer EXCEPT ![e] = where]

\* create_export_artifact: the row is flushed, which needs the batch ...
ExportInserts(e) ==
  /\ export[e] = "none" /\ writer[e] = "idle" /\ batch = "live" /\ Spend("export")
  /\ SetExport(e, "inserted")
  /\ Writing(e, "put")
  /\ UNCHANGED <<batch, link, document, pages, job, keyed, fileVars, workVars, xpc, xrow,
                 deleteVars, history>>

\* ... the file is put into object storage ...
ExportPuts(e) ==
  /\ writer[e] = "put"
  /\ Put({File(e)})
  /\ Writing(e, "commit")
  /\ UNCHANGED <<rowVars, local, workVars, xpc, xrow, deleteVars, late, crossed, begun, left>>

\* ... and the row is committed with its key.
ExportCommits(e) ==
  /\ writer[e] = "commit"
  /\ SetExport(e, "COMPLETED")
  /\ Writing(e, "done")
  /\ UNCHANGED <<batch, link, document, pages, job, keyed, fileVars, workVars, xpc, xrow,
                 deleteVars, history, left>>

\* A query or the upload raises: FAILED, without a key.
ExportFails(e) ==
  /\ writer[e] = "put" /\ Spend("crash")
  /\ SetExport(e, "FAILED")
  /\ Writing(e, "done")
  /\ UNCHANGED <<batch, link, document, pages, job, keyed, fileVars, workVars, xpc, xrow,
                 deleteVars, history>>

\* The API process dies: there never was a row.
ExportDies(e) ==
  /\ writer[e] \in {"put", "commit"} /\ Spend("crash")
  /\ SetExport(e, "none")
  /\ Writing(e, "done")
  /\ UNCHANGED <<batch, link, document, pages, job, keyed, fileVars, workVars, xpc, xrow,
                 deleteVars, history>>

XGoto(x, where, e) == xpc' = [xpc EXCEPT ![x] = where] /\ xrow' = [xrow EXCEPT ![x] = e]

\* delete_one_export, and list_stale_exports in its time: a plain read.
DeleteExportReads(x, e) ==
  /\ xpc[x] = "idle" /\ export[e] \in {"COMPLETED", "FAILED"}
  /\ IF x = Expiry THEN UNCHANGED left ELSE Spend("delete")
  /\ XGoto(x, IF export[e] = "COMPLETED" THEN "file" ELSE "row", e)
  /\ UNCHANGED <<rowVars, fileVars, workVars, writer, deleteVars, history>>

\* Mutant: a file that is missing is an error.
DeleteMissingFileFails(x) ==
  /\ xpc[x] = "file" /\ File(xrow[x]) \in objects
  /\ objects' = objects \ {File(xrow[x])}
  /\ begun'   = begun \cup {xrow[x]}
  /\ XGoto(x, "row", xrow[x])
  /\ UNCHANGED <<rowVars, local, workVars, writer, deleteVars, strays, late, crossed, left>>

\* delete_export_artifact: the file first, there or not ...
DeleteExportFile(x) ==
  /\ xpc[x] = "file"
  /\ objects' = objects \ {File(xrow[x])}
  /\ begun'   = begun \cup {xrow[x]}
  /\ XGoto(x, "row", xrow[x])
  /\ UNCHANGED <<rowVars, local, workVars, writer, deleteVars, strays, late, crossed, left>>

\* Mutant: the row is marked and stays.
ExportRowExpires(x) ==
  /\ xpc[x] = "row"
  /\ SetExport(xrow[x], "EXPIRED")
  /\ XGoto(x, "idle", NoExport)
  /\ UNCHANGED <<batch, link, document, pages, job, keyed, fileVars, workVars, writer,
                 deleteVars, history, left>>

\* ... then the row, which another deletion may have deleted.
DeleteExportRow(x) ==
  /\ xpc[x] = "row"
  /\ SetExport(xrow[x], "deleted")
  /\ XGoto(x, "idle", NoExport)
  /\ UNCHANGED <<batch, link, document, pages, job, keyed, fileVars, workVars, writer,
                 deleteVars, history, left>>

\* The process dies, or object storage or the database refuses.
DeleteExportDies(x) ==
  /\ xpc[x] # "idle" /\ Spend("crash")
  /\ XGoto(x, "idle", NoExport)
  /\ UNCHANGED <<rowVars, fileVars, workVars, writer, deleteVars, history>>

-----------------------------------------------------------------------------
(* delete_submission and delete_batch *)

\* The objects that committed rows of the batch, or of the link, name.
Named(what) ==
  (IF document = "committed" /\ (link = "live" \/ what = "batch") THEN {Source} ELSE {})
    \cup {Output(j) : j \in {i \in keyed : Row(i) /\ document = "committed"}}
    \cup (IF what = "batch" THEN {File(e) : e \in {f \in Exports : export[f] = "COMPLETED"}}
                            ELSE {})

\* The objects that belong to a committed row, looked for or not.
Owned ==
  (IF document = "committed"
     THEN {Source} \cup {Input(j) : j \in pages} \cup {Output(j) : j \in {i \in keyed : Row(i)}}
     ELSE {})
    \cup {File(e) : e \in {f \in Exports : export[f] = "COMPLETED"}}

\* Mutant: the keys are read when the rows are gone.
DeleteReadsNothing(what) ==
  /\ del = "idle" /\ Spend("delete")
  /\ batch = "live" /\ (what = "link" => link = "live")
  /\ del'    = "rows"
  /\ scope'  = what
  /\ keys'   = {}
  /\ strays' = strays \cup (objects \ Owned)
  /\ UNCHANGED <<rowVars, fileVars, workVars, exportVars, doomed, late, crossed, begun>>

DeleteReads(what) ==
  /\ del = "idle" /\ Spend("delete")
  /\ batch = "live" /\ (what = "link" => link = "live")
  /\ del'    = "rows"
  /\ scope'  = what
  /\ keys'   = Named(what)
  /\ strays' = strays \cup (objects \ Owned)
  /\ UNCHANGED <<rowVars, fileVars, workVars, exportVars, doomed, late, crossed, begun>>

\* Mutant: the jobs are left to the foreign keys.
DeleteNoJobs ==
  /\ del = "rows"
  /\ doomed' = {}
  /\ del'    = "batchRow"
  /\ UNCHANGED <<rowVars, fileVars, workVars, exportVars, scope, keys, history, left>>

\* delete_batch_row, delete_submission_row: the statements that delete the jobs
\* and their records.  They see what is committed, of a document of the link.
DeleteJobs ==
  /\ del = "rows"
  /\ doomed' = IF document = "committed" /\ (link = "live" \/ scope = "batch")
                 THEN {j \in pages : Row(j)} ELSE {}
  /\ del'    = "batchRow"
  /\ UNCHANGED <<rowVars, fileVars, workVars, exportVars, scope, keys, history, left>>

\* The rest of them, and the commit.  The row of the batch, or of the link, waits
\* for those who have inserted under it; a document they have committed meanwhile
\* goes with its batch, and its jobs stay without either; with a link it goes if
\* the statement before has seen it.
DeleteCommits ==
  /\ del = "batchRow"
  /\ document # "inserted"
  /\ scope = "batch" => \A e \in Exports : export[e] # "inserted"
  /\ batch' = IF scope = "batch" THEN "deleted" ELSE batch
  /\ link'  = "deleted"
  /\ job'   = [j \in Jobs |-> IF j \in doomed THEN "deleted" ELSE job[j]]
  /\ \/ document = "committed" /\ document' = "deleted"
     \/ document # "committed" /\ UNCHANGED document
     \/ /\ document = "committed" /\ scope = "link" /\ doomed = {}
        /\ UNCHANGED document
  /\ export' = [e \in Exports |-> IF scope = "batch" /\ export[e] \in {"COMPLETED", "FAILED"}
                                    THEN "deleted" ELSE export[e]]
  /\ doomed' = {}
  /\ del'    = "files"
  /\ UNCHANGED <<pages, keyed, fileVars, workVars, exportVars, scope, keys, history, left>>

DeleteObject(o) ==
  /\ del = "files" /\ o \in keys
  /\ objects' = objects \ {o}
  /\ keys'    = keys \ {o}
  /\ UNCHANGED <<rowVars, local, workVars, exportVars, del, scope, doomed, history, left>>

\* The folders on the disk of the API's node.
DeleteFolders ==
  /\ del = "files" /\ keys = {}
  /\ local' = IF document = "deleted"
                THEN [local EXCEPT ![ApiNode] = @ \ Folder({j \in pages : job[j] = "deleted"})]
                ELSE local
  /\ del'   = "idle"
  /\ UNCHANGED <<rowVars, objects, workVars, exportVars, scope, doomed, keys, history, left>>

\* The process dies or object storage refuses; before the commit, nothing happened.
DeleteDies ==
  /\ del # "idle" /\ Spend("crash")
  /\ del'    = "idle"
  /\ doomed' = {} /\ keys' = {}
  /\ strays' = strays \cup keys
  /\ UNCHANGED <<rowVars, fileVars, workVars, exportVars, scope, late, crossed, begun>>

-----------------------------------------------------------------------------

WorkerStep(w) ==
  \/ Materialize(w) \/ OcrWrites(w) \/ Upload(w) \/ Complete(w) \/ CleanAfterRun(w)
  \/ RunFails(w)

Next ==
  \/ \E js \in SUBSET Jobs : IngestStores(js)
  \/ \E n \in Nodes : IngestInserts(n)
  \/ IngestCommits \/ IngestFails
  \/ \E w \in Workers : WorkerStep(w) \/ WorkerLost(w) \/ \E j \in Jobs : Claim(w, j)
  \/ \E j \in Jobs : FailUnder(j) \/ Retry(j) \/ Reprocess(j)
  \/ \E n \in Nodes \ {ApiNode} : CleanReads(n) \/ CleanPlans(n) \/ CleanRemoves(n) \/ CleanDies(n)
  \/ \E e \in Exports : \/ ExportInserts(e) \/ ExportPuts(e) \/ ExportCommits(e)
                        \/ ExportFails(e) \/ ExportDies(e)
                        \/ \E x \in Deleters : DeleteExportReads(x, e)
  \/ \E x \in Deleters : DeleteExportFile(x) \/ DeleteExportRow(x) \/ DeleteExportDies(x)
  \/ \E what \in {"link", "batch"} : DeleteReads(what)
  \/ DeleteJobs \/ DeleteCommits \/ DeleteFolders \/ DeleteDies
  \/ \E o \in Object : DeleteObject(o)

Spec == Init /\ [][Next]_vars

\* Each worker's node cleans up every day, and exports expire.
Fairness ==
  /\ \A n \in Nodes \ {ApiNode} :
       WF_vars(CleanReads(n)) /\ WF_vars(CleanPlans(n)) /\ WF_vars(CleanRemoves(n))
  /\ \A e \in Exports : WF_vars(DeleteExportReads(Expiry, e))
  /\ WF_vars(DeleteExportFile(Expiry)) /\ WF_vars(DeleteExportRow(Expiry))

FairSpec == Spec /\ Fairness

-----------------------------------------------------------------------------
(* Properties *)

StorageTypeOK ==
  /\ batch \in {"live", "deleted"} /\ link \in {"live", "deleted"}
  /\ document \in {"none", "inserted", "committed", "deleted"}
  /\ pages \subseteq Jobs /\ keyed \subseteq Jobs
  /\ job \in [Jobs -> JobStatus]
  /\ export \in [Exports -> {"none", "inserted", "COMPLETED", "FAILED", "deleted"}]
  /\ objects \subseteq Object
  /\ local \in [Nodes -> SUBSET Copy]
  /\ ingest \in {"idle", "insert", "commit", "done"}
  /\ pc \in [Workers -> {"idle", "fetch", "run", "upload", "complete", "clean"}]
  /\ hand \in [Workers -> Jobs \cup {NoJob}]
  /\ scan \in [Nodes -> SUBSET Jobs] /\ plan \in [Nodes -> SUBSET Jobs]
  /\ writer \in [Exports -> {"idle", "put", "commit", "done"}]
  /\ xpc \in [Deleters -> {"idle", "file", "row"}]
  /\ xrow \in [Deleters -> Exports \cup {NoExport}]
  /\ del \in {"idle", "rows", "batchRow", "files"} /\ scope \in {"link", "batch"}
  /\ doomed \subseteq Jobs /\ keys \subseteq Object
  /\ strays \subseteq Object /\ late \subseteq Jobs /\ crossed \subseteq Jobs
  /\ begun \subseteq Exports
  /\ left \in Nat

\* While its document is there, a job can be run again anywhere and its result can
\* be downloaded: the input of every job and the output of every completed one are
\* in object storage, so that a working copy is never the last one
\* (create_document_page_jobs, complete_job, clean_local_copies).
OriginalsStay ==
  document = "committed" =>
    \A j \in pages : /\ InputObject(j) \in objects
                     /\ job[j] = "COMPLETED" => Output(j) \in objects

\* No cleanup takes the working copies of a live run (plan, clean,
\* remove_local_copies_for_job), though the row may be read long before the disk is
\* looked at, and the disk long before anything is removed: unless the job was
\* reopened after its row was read, or two runs of it shared the folder.
RunsKeepTheirCopies ==
  \A w \in Workers :
    pc[w] = "run" /\ Input(hand[w]) \notin local[NodeOf[w]] => hand[w] \in crossed

\* A completed export has its file, unless a deletion of it has begun.
CompletedExportHasFile ==
  \A e \in Exports : export[e] = "COMPLETED" /\ e \notin begun => File(e) \in objects

\* Deletes "everything scoped to it ... plus their stored files" (delete_batch,
\* delete_submission): but for the inputs of split pages, which nothing looks for,
\* the exports of a batch whose link is deleted, and strays.
DeletedFilesAreGone ==
  del = "idle" =>
    /\ document = "deleted" => \A o \in objects \ strays : o[1] \in {"input", "export"}
    /\ batch = "deleted"    => \A o \in objects \ strays : o[1] = "input"

\* "A deleted batch takes its jobs/records with it rather than leaving them
\* orphaned" (delete_batch_row): only a job whose ingest was committed between the
\* statements of the deletion is left behind.
OrphansCameLate ==
  document = "deleted" => \A j \in Jobs : Row(j) => j \in late

\* The copies of a document that is done leave each worker's disk, whatever has
\* failed to remove them before.
AllDone == document = "committed" /\ \A j \in pages : job[j] = "COMPLETED"
DiskFreed ==
  \A n \in Nodes \ {ApiNode} : AllDone /\ local[n] # {} ~> ~AllDone \/ local[n] = {}

\* An export does not stay for ever, nor does one whose deletion broke off: "must
\* still succeed and remove the DB row" (delete_export_artifact).
ExportsExpire ==
  \A e \in Exports : export[e] \in {"COMPLETED", "FAILED"} ~> export[e] = "deleted"
=============================================================================
