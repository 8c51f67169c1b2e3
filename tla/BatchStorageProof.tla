------------------------- MODULE BatchStorageProof -------------------------
(***************************************************************************)
(* Proofs about BatchStorage, for any number of jobs, exports, nodes,      *)
(* workers and mishaps: the types, the originals in object storage, the    *)
(* files of the exports, what a deletion leaves behind, and the working    *)
(* copies of a live run.                                                   *)
(***************************************************************************)
EXTENDS BatchStorage, TLAPS

Sources == {Source}
Inputs  == {Input(j) : j \in Jobs}
Outputs == {Output(j) : j \in Jobs}
Files   == {File(e) : e \in Exports}

-----------------------------------------------------------------------------
(* The invariant *)

\* What is busy has something in hand.
InHand ==
  /\ \A w \in Workers : pc[w] # "idle" => hand[w] \in Jobs
  /\ \A x \in Deleters : xpc[x] # "idle" => xrow[x] \in Exports

TypeInv == StorageTypeOK /\ InHand

\* Where the ingest is says what has come of the document; what it has stored stays.
IngestInv ==
  /\ ingest \in {"idle", "insert"} => document = "none"
  /\ ingest = "commit" => document = "inserted"
  /\ document \notin {"committed", "deleted"} => \A j \in Jobs : ~Row(j)
  /\ document = "committed" => pages # {} /\ \A j \in pages : Row(j)
  /\ \A j \in Jobs : Row(j) => j \in pages
  /\ ingest # "idle" => pages # {}
  /\ ingest \in {"insert", "commit"} => Source \in objects
  /\ ingest = "commit" => \A j \in pages : InputObject(j) \in objects
  /\ document = "deleted" => ingest = "done" /\ link = "deleted"

\* A run that is about to complete its job has put the output into object storage.
RunInv ==
  \A w \in Workers :
    /\ pc[w] # "idle" => ingest = "done"
    /\ pc[w] = "complete" /\ document = "committed" => Output(hand[w]) \in objects

\* An export is written once, by a request that then never touches it again.
ExportInv ==
  /\ \A e \in Exports :
       /\ export[e] \in {"COMPLETED", "FAILED", "deleted"} => writer[e] = "done"
       /\ writer[e] = "commit" => File(e) \in objects
  /\ \A x \in Deleters : xpc[x] # "idle" => writer[xrow[x]] = "done"

\* A deletion has only the keys of what it deletes: before its commit the rows are
\* there, and after it they are not.
DeleteInv ==
  /\ del = "idle" => keys = {}
  /\ keys \subseteq Sources \cup Outputs \cup Files
  /\ del # "idle" /\ keys \cap (Sources \cup Outputs) # {} =>
       \/ document = "deleted"
       \/ del # "files" /\ document = "committed" /\ (link = "live" \/ scope = "batch")
            /\ (del = "batchRow" => doomed # {})
  /\ \A e \in Exports : File(e) \in keys =>
       writer[e] = "done" /\ scope = "batch" /\ (del = "files" => export[e] # "COMPLETED")
  /\ del = "batchRow" /\ document = "committed" => pages \subseteq doomed \cup late
  /\ del \in {"rows", "batchRow"} => batch = "live" /\ (scope = "link" => link = "live")
  /\ del = "files" => link = "deleted" /\ (batch = "deleted" <=> scope = "batch")
  /\ batch = "deleted" => link = "deleted"

\* What a deletion has still to delete, or knows nothing of.
LeftBehind ==
  /\ del # "idle" => objects \subseteq strays \cup keys \cup Inputs \cup
                       (IF scope = "link" THEN Files ELSE {})
  /\ del = "idle" /\ link = "deleted" => objects \subseteq strays \cup Inputs \cup Files
  /\ del = "idle" /\ batch = "deleted" => objects \subseteq strays \cup Inputs

StorageInv ==
  /\ TypeInv
  /\ IngestInv /\ RunInv /\ ExportInv /\ DeleteInv /\ LeftBehind
  /\ OriginalsStay /\ CompletedExportHasFile /\ OrphansCameLate

-----------------------------------------------------------------------------
(* The actions, by what they are about *)

IngestAct ==
  \/ \E js \in SUBSET Jobs : IngestStores(js)
  \/ \E n \in Nodes : IngestInserts(n)
  \/ IngestCommits \/ IngestFails

WorkAct ==
  \/ \E w \in Workers : WorkerStep(w) \/ WorkerLost(w) \/ \E j \in Jobs : Claim(w, j)
  \/ \E j \in Jobs : FailUnder(j) \/ Retry(j) \/ Reprocess(j)

CleanAct == \E n \in Nodes \ {ApiNode} : CleanReads(n) \/ CleanPlans(n) \/ CleanRemoves(n) \/ CleanDies(n)

ExportAct ==
  \E e \in Exports : \/ ExportInserts(e) \/ ExportPuts(e) \/ ExportCommits(e)
                     \/ ExportFails(e) \/ ExportDies(e)

DeleteExportAct ==
  \E x \in Deleters : \/ DeleteExportFile(x) \/ DeleteExportRow(x) \/ DeleteExportDies(x)
                      \/ \E e \in Exports : DeleteExportReads(x, e)

DeleteAct ==
  \/ \E what \in {"link", "batch"} : DeleteReads(what)
  \/ DeleteJobs \/ DeleteCommits \/ DeleteFolders \/ DeleteDies
  \/ \E o \in Object : DeleteObject(o)

LEMMA NextActs ==
  Next => IngestAct \/ WorkAct \/ CleanAct \/ ExportAct \/ DeleteExportAct \/ DeleteAct
BY DEF Next, IngestAct, WorkAct, CleanAct, ExportAct, DeleteExportAct, DeleteAct

-----------------------------------------------------------------------------
(* Types *)

LEMMA TypeFacts ==
  /\ Source \in Object
  /\ \A j \in Jobs : Input(j) \in Object /\ Output(j) \in Object /\ Input(j) \in Copy /\ Output(j) \in Copy
  /\ \A e \in Exports : File(e) \in Object
  /\ \A s \in {"none", "PENDING", "PROCESSING", "COMPLETED", "FAILED", "deleted"} : s \in JobStatus
BY DEF Object, Copy, JobStatus

LEMMA InputTypes ==
  ASSUME StorageTypeOK
  PROVE  {Input(j) : j \in pages} \subseteq Object \cap Copy
BY DEF StorageTypeOK, Object, Copy

LEMMA Numbers ==
  ASSUME StorageTypeOK
  PROVE  \A what : Spend(what) => left' \in Nat
<1>1. left \in Nat
  BY DEF StorageTypeOK
<1> QED BY <1>1 DEF Spend

LEMMA IngestTypes ==
  ASSUME TypeInv, IngestAct
  PROVE  TypeInv'
<1> USE TypeFacts, Numbers, BatchStorageAssumption DEF TypeInv, StorageTypeOK, InHand, rowVars, fileVars, workVars, exportVars, deleteVars, history
<1>1. ASSUME NEW js \in SUBSET Jobs, IngestStores(js)
      PROVE  TypeInv'
  BY <1>1 DEF IngestStores, Put
<1>2. ASSUME NEW n \in Nodes, IngestInserts(n)
      PROVE  TypeInv'
  <2> DEFINE New == {Input(j) : j \in pages}
  <2>1. New \subseteq Object /\ New \subseteq Copy
    BY InputTypes
  <2>2. local' = [local EXCEPT ![n] = @ \cup New] /\ Put(IF Split THEN New ELSE {})
    BY <1>2 DEF IngestInserts
  <2> HIDE DEF New
  <2>3. local' \in [Nodes -> SUBSET Copy]
    BY <2>1, <2>2
  <2>4. objects' \subseteq Object /\ strays' \subseteq Object
    BY <2>1, <2>2 DEF Put
  <2> QED BY <1>2, <2>3, <2>4 DEF IngestInserts
<1>3. CASE IngestCommits
  BY <1>3 DEF IngestCommits
<1>4. CASE IngestFails
  BY <1>4 DEF IngestFails, Folder
<1> QED BY <1>1, <1>2, <1>3, <1>4 DEF IngestAct

LEMMA WorkTypes ==
  ASSUME TypeInv, WorkAct
  PROVE  TypeInv'
<1> USE TypeFacts, Numbers, BatchStorageAssumption DEF TypeInv, StorageTypeOK, InHand, rowVars, fileVars, workVars, exportVars, deleteVars, history
<1>1. ASSUME NEW w \in Workers, NEW j \in Jobs, Claim(w, j)
      PROVE  TypeInv'
  BY <1>1 DEF Claim, Writable, SetJob
<1>2. ASSUME NEW w \in Workers, Materialize(w)
      PROVE  TypeInv'
  <2>1. Input(hand[w]) \in Copy /\ pc' = [pc EXCEPT ![w] = "run"] /\ hand' = hand
    BY <1>2 DEF Materialize, Goto
  <2>2. local' \in [Nodes -> SUBSET Copy]
    BY <1>2, <2>1 DEF Materialize
  <2>3. UNCHANGED <<rowVars, objects, ingest, scan, plan, exportVars, deleteVars, history, left>>
    BY <1>2 DEF Materialize
  <2>4. InHand'
    BY <1>2, <2>1, <2>3 DEF Materialize
  <2> QED BY <2>1, <2>2, <2>3, <2>4
<1>3. ASSUME NEW w \in Workers, OcrWrites(w)
      PROVE  TypeInv'
  <2>1. Output(hand[w]) \in Copy /\ pc' = [pc EXCEPT ![w] = "upload"] /\ hand' = hand
    BY <1>3 DEF OcrWrites, Goto
  <2>2. local' \in [Nodes -> SUBSET Copy]
    BY <1>3, <2>1 DEF OcrWrites
  <2>3. UNCHANGED <<rowVars, objects, ingest, scan, plan, exportVars, deleteVars, history, left>>
    BY <1>3 DEF OcrWrites
  <2>4. InHand'
    BY <1>3, <2>1, <2>3 DEF OcrWrites
  <2> QED BY <2>1, <2>2, <2>3, <2>4
<1>4. ASSUME NEW w \in Workers, Upload(w)
      PROVE  TypeInv'
  BY <1>4 DEF Upload, Goto, Put
<1>5. ASSUME NEW w \in Workers, Complete(w)
      PROVE  TypeInv'
  BY <1>5 DEF Complete, Goto, Writable, SetJob
<1>6. ASSUME NEW w \in Workers, CleanAfterRun(w)
      PROVE  TypeInv'
  BY <1>6 DEF CleanAfterRun, Idle, Folder
<1>7. ASSUME NEW w \in Workers, RunFails(w)
      PROVE  TypeInv'
  BY <1>7 DEF RunFails, Idle
<1>8. ASSUME NEW w \in Workers, WorkerLost(w)
      PROVE  TypeInv'
  BY <1>8 DEF WorkerLost, Idle
<1>9. ASSUME NEW j \in Jobs, FailUnder(j)
      PROVE  TypeInv'
  BY <1>9 DEF FailUnder, Writable, SetJob
<1>10. ASSUME NEW j \in Jobs, Retry(j)
      PROVE  TypeInv'
  BY <1>10 DEF Retry, Writable, SetJob
<1>11. ASSUME NEW j \in Jobs, Reprocess(j)
      PROVE  TypeInv'
  BY <1>11 DEF Reprocess, Writable, SetJob
<1> QED BY <1>1, <1>2, <1>3, <1>4, <1>5, <1>6, <1>7, <1>8, <1>9, <1>10, <1>11 DEF WorkAct, WorkerStep

LEMMA CleanTypes ==
  ASSUME TypeInv, CleanAct
  PROVE  TypeInv'
<1> USE TypeFacts, Numbers, BatchStorageAssumption DEF TypeInv, StorageTypeOK, InHand, rowVars, fileVars, workVars, exportVars, deleteVars, history
<1>0. ASSUME NEW n \in Nodes, CleanReads(n)
      PROVE  TypeInv'
  BY <1>0 DEF CleanReads
<1>1. ASSUME NEW n \in Nodes, CleanPlans(n)
      PROVE  TypeInv'
  BY <1>1 DEF CleanPlans, Removable
<1>2. ASSUME NEW n \in Nodes, CleanRemoves(n)
      PROVE  TypeInv'
  BY <1>2 DEF CleanRemoves, Folder
<1>3. ASSUME NEW n \in Nodes, CleanDies(n)
      PROVE  TypeInv'
  BY <1>3 DEF CleanDies
<1> QED BY <1>0, <1>1, <1>2, <1>3 DEF CleanAct

LEMMA ExportTypes ==
  ASSUME TypeInv, ExportAct
  PROVE  TypeInv'
<1> USE TypeFacts, Numbers, BatchStorageAssumption DEF TypeInv, StorageTypeOK, InHand, rowVars, fileVars, workVars, exportVars, deleteVars, history
<1>1. ASSUME NEW e \in Exports, ExportInserts(e)
      PROVE  TypeInv'
  BY <1>1 DEF ExportInserts, SetExport, Writing
<1>2. ASSUME NEW e \in Exports, ExportPuts(e)
      PROVE  TypeInv'
  BY <1>2 DEF ExportPuts, Put, Writing
<1>3. ASSUME NEW e \in Exports, ExportCommits(e)
      PROVE  TypeInv'
  BY <1>3 DEF ExportCommits, SetExport, Writing
<1>4. ASSUME NEW e \in Exports, ExportFails(e)
      PROVE  TypeInv'
  BY <1>4 DEF ExportFails, SetExport, Writing
<1>5. ASSUME NEW e \in Exports, ExportDies(e)
      PROVE  TypeInv'
  BY <1>5 DEF ExportDies, SetExport, Writing
<1> QED BY <1>1, <1>2, <1>3, <1>4, <1>5 DEF ExportAct

LEMMA DeleteExportTypes ==
  ASSUME TypeInv, DeleteExportAct
  PROVE  TypeInv'
<1> USE TypeFacts, Numbers, BatchStorageAssumption DEF TypeInv, StorageTypeOK, InHand, rowVars, fileVars, workVars, exportVars, deleteVars, history
<1>1. ASSUME NEW x \in Deleters, NEW e \in Exports, DeleteExportReads(x, e)
      PROVE  TypeInv'
  <2>1. left' \in Nat
    BY <1>1 DEF DeleteExportReads, Spend
  <2>2. PICK where \in {"file", "row"} : XGoto(x, where, e)
    BY <1>1 DEF DeleteExportReads
  <2>3. /\ xpc' \in [Deleters -> {"idle", "file", "row"}]
        /\ xrow' \in [Deleters -> Exports \cup {NoExport}]
        /\ \A y \in Deleters : xpc'[y] # "idle" => xrow'[y] \in Exports
    BY <2>2 DEF XGoto
  <2>4. UNCHANGED <<rowVars, fileVars, workVars, writer, deleteVars, history>>
    BY <1>1 DEF DeleteExportReads
  <2> QED BY <2>1, <2>3, <2>4
<1>2. ASSUME NEW x \in Deleters, DeleteExportFile(x)
      PROVE  TypeInv'
  BY <1>2 DEF DeleteExportFile, XGoto
<1>3. ASSUME NEW x \in Deleters, DeleteExportRow(x)
      PROVE  TypeInv'
  BY <1>3 DEF DeleteExportRow, XGoto, SetExport
<1>4. ASSUME NEW x \in Deleters, DeleteExportDies(x)
      PROVE  TypeInv'
  BY <1>4 DEF DeleteExportDies, XGoto
<1> QED BY <1>1, <1>2, <1>3, <1>4 DEF DeleteExportAct

LEMMA DeleteTypes ==
  ASSUME TypeInv, DeleteAct
  PROVE  TypeInv'
<1> USE TypeFacts, Numbers, BatchStorageAssumption DEF TypeInv, StorageTypeOK, InHand, rowVars, fileVars, workVars, exportVars, deleteVars, history
<1>1. ASSUME NEW what \in {"link", "batch"}, DeleteReads(what)
      PROVE  TypeInv'
  BY <1>1 DEF DeleteReads, Named, Owned
<1>2. CASE DeleteJobs
  BY <1>2 DEF DeleteJobs
<1>3. CASE DeleteCommits
  BY <1>3 DEF DeleteCommits
<1>4. ASSUME NEW o \in Object, DeleteObject(o)
      PROVE  TypeInv'
  BY <1>4 DEF DeleteObject
<1>5. CASE DeleteFolders
  BY <1>5 DEF DeleteFolders, Folder
<1>6. CASE DeleteDies
  BY <1>6 DEF DeleteDies
<1> QED BY <1>1, <1>2, <1>3, <1>4, <1>5, <1>6 DEF DeleteAct

-----------------------------------------------------------------------------
(* What the actions leave alone *)

LEMMA ObjectFacts ==
  /\ \A o \in Object : o \in Sources \cup Inputs \cup Outputs \cup Files
  /\ Sources \cap Files = {} /\ Inputs \cap Files = {} /\ Outputs \cap Files = {}
  /\ Inputs \cap Sources = {} /\ Inputs \cap Outputs = {}
  /\ Source \in Sources
  /\ \A j \in Jobs : Input(j) \in Inputs /\ Output(j) \in Outputs
  /\ \A e \in Exports : File(e) \in Files
  /\ \A o \in Inputs : o[1] = "input"
  /\ \A o \in Files : o[1] = "export"
BY DEF Input, Output, Source, File, Object, Sources, Inputs, Outputs, Files

LEMMA FileIsItsOwn ==
  \A d, e : File(d) = File(e) => d = e
BY DEF File

\* What is put while a deletion is under way is a stray.
Stored ==
  /\ objects \subseteq objects'
  /\ strays \subseteq strays'
  /\ Deleting => objects' \subseteq objects \cup strays'

LEMMA PutStores ==
  ASSUME NEW os, Put(os)
  PROVE  Stored
BY DEF Put, Stored

LEMMA IngestFrame ==
  ASSUME IngestAct
  PROVE  /\ UNCHANGED <<batch, link, keyed, export, pc, hand, exportVars, deleteVars, begun>>
         /\ Stored
         /\ late \subseteq late'
<1>1. ASSUME NEW js, IngestStores(js)
      PROVE  /\ UNCHANGED <<batch, link, keyed, export, pc, hand, exportVars, deleteVars, begun>>
             /\ Stored
             /\ late \subseteq late'
  BY <1>1, PutStores DEF IngestStores
<1>2. ASSUME NEW n, IngestInserts(n)
      PROVE  /\ UNCHANGED <<batch, link, keyed, export, pc, hand, exportVars, deleteVars, begun>>
             /\ Stored
             /\ late \subseteq late'
  BY <1>2, PutStores DEF IngestInserts
<1>3. CASE IngestCommits
  BY <1>3 DEF IngestCommits, fileVars, Stored
<1>4. CASE IngestFails
  BY <1>4 DEF IngestFails, history, Stored
<1> QED BY <1>1, <1>2, <1>3, <1>4 DEF IngestAct

\* A run moves a row that is there, and no row appears or goes.
LEMMA WorkFrame ==
  ASSUME TypeInv, WorkAct
  PROVE  /\ UNCHANGED <<batch, link, document, pages, export, ingest, exportVars, deleteVars,
                        late, begun>>
         /\ Stored
         /\ \A j \in Jobs : Row(j)' <=> Row(j)
<1> DEFINE Goal == /\ UNCHANGED <<batch, link, document, pages, export, ingest, exportVars,
                                  deleteVars, late, begun>>
                   /\ Stored
                   /\ \A j \in Jobs : Row(j)' <=> Row(j)
<1> USE PutStores DEF TypeInv, InHand, StorageTypeOK, rowVars, fileVars, workVars, history
<1>1. ASSUME NEW w \in Workers, NEW j \in Jobs, Claim(w, j) PROVE Goal
  BY <1>1 DEF Claim, Writable, SetJob, Row, Stored
<1>2. ASSUME NEW w \in Workers, Materialize(w) PROVE Goal
  BY <1>2 DEF Materialize, Row, Stored
<1>3. ASSUME NEW w \in Workers, OcrWrites(w) PROVE Goal
  BY <1>3 DEF OcrWrites, Row, Stored
<1>4. ASSUME NEW w \in Workers, Upload(w) PROVE Goal
  BY <1>4 DEF Upload, Row
<1>5. ASSUME NEW w \in Workers, Complete(w) PROVE Goal
  BY <1>5 DEF Complete, Writable, SetJob, Row, Stored
<1>6. ASSUME NEW w \in Workers, CleanAfterRun(w) PROVE Goal
  BY <1>6 DEF CleanAfterRun, Row, Stored
<1>7. ASSUME NEW w \in Workers, RunFails(w) PROVE Goal
  BY <1>7 DEF RunFails, Row, Stored
<1>8. ASSUME NEW w \in Workers, WorkerLost(w) PROVE Goal
  BY <1>8 DEF WorkerLost, Row, Stored
<1>9. ASSUME NEW j \in Jobs, FailUnder(j) \/ Retry(j) \/ Reprocess(j) PROVE Goal
  BY <1>9 DEF FailUnder, Retry, Reprocess, Writable, SetJob, Row, Stored
<1> QED BY <1>1, <1>2, <1>3, <1>4, <1>5, <1>6, <1>7, <1>8, <1>9 DEF WorkAct, WorkerStep

LEMMA CleanFrame ==
  ASSUME CleanAct
  PROVE  UNCHANGED <<rowVars, objects, ingest, pc, hand, exportVars, deleteVars, history>>
BY DEF CleanAct, CleanReads, CleanPlans, CleanRemoves, CleanDies, rowVars, fileVars, history, exportVars,
       deleteVars

LEMMA ExportFrame ==
  ASSUME ExportAct
  PROVE  /\ UNCHANGED <<batch, link, document, pages, job, keyed, ingest, pc, hand, xpc, xrow,
                        deleteVars, late, begun>>
         /\ Stored
<1> PICK e \in Exports : \/ ExportInserts(e) \/ ExportPuts(e) \/ ExportCommits(e)
                         \/ ExportFails(e) \/ ExportDies(e)
  BY DEF ExportAct
<1>1. CASE ExportPuts(e)
  BY <1>1, PutStores DEF ExportPuts, rowVars, workVars
<1>2. CASE ExportInserts(e) \/ ExportCommits(e) \/ ExportFails(e) \/ ExportDies(e)
  BY <1>2 DEF ExportInserts, ExportCommits, ExportFails, ExportDies, Stored, fileVars, workVars,
              history
<1> QED BY <1>1, <1>2

LEMMA DeleteExportFrame ==
  ASSUME TypeInv, DeleteExportAct
  PROVE  /\ UNCHANGED <<batch, link, document, pages, job, keyed, ingest, pc, hand, writer,
                        deleteVars, strays, late>>
         /\ objects' \subseteq objects
         /\ objects \ Files \subseteq objects'
         /\ begun \subseteq begun'
<1> DEFINE Goal == /\ UNCHANGED <<batch, link, document, pages, job, keyed, ingest, pc, hand,
                                  writer, deleteVars, strays, late>>
                   /\ objects' \subseteq objects
                   /\ objects \ Files \subseteq objects'
                   /\ begun \subseteq begun'
<1>1. ASSUME NEW x \in Deleters, DeleteExportFile(x) PROVE Goal
  <2>1. File(xrow[x]) \in Files
    BY <1>1, ObjectFacts DEF DeleteExportFile, TypeInv, InHand
  <2> QED BY <1>1, <2>1 DEF DeleteExportFile, rowVars, workVars
<1>2. ASSUME NEW x \in Deleters, DeleteExportRow(x) \/ DeleteExportDies(x) PROVE Goal
  BY <1>2 DEF DeleteExportRow, DeleteExportDies, rowVars, fileVars, workVars, history
<1>3. ASSUME NEW x \in Deleters, NEW e \in Exports, DeleteExportReads(x, e) PROVE Goal
  BY <1>3 DEF DeleteExportReads, rowVars, fileVars, workVars, history
<1> QED BY <1>1, <1>2, <1>3 DEF DeleteExportAct

\* A deletion takes an object only after its commit, and only one it has the key of.
LEMMA DeleteFrame ==
  ASSUME DeleteAct
  PROVE  /\ UNCHANGED <<pages, keyed, ingest, pc, hand, exportVars, late, begun>>
         /\ objects' \subseteq objects
         /\ del = "files" \/ objects' = objects
         /\ objects \ keys \subseteq objects'
         /\ strays \subseteq strays'
         /\ UNCHANGED <<batch, link, document, job, export>> \/ DeleteCommits
<1> USE DEF rowVars, fileVars, workVars, exportVars, deleteVars, history
<1>1. CASE \E what \in {"link", "batch"} : DeleteReads(what)
  BY <1>1 DEF DeleteReads
<1>2. CASE DeleteJobs
  BY <1>2 DEF DeleteJobs
<1>3. CASE DeleteCommits
  BY <1>3 DEF DeleteCommits
<1>4. CASE DeleteFolders \/ DeleteDies
  BY <1>4 DEF DeleteFolders, DeleteDies
<1>5. CASE \E o \in Object : DeleteObject(o)
  BY <1>5 DEF DeleteObject
<1> QED BY <1>1, <1>2, <1>3, <1>4, <1>5 DEF DeleteAct

\* What a document consists of stays in object storage while the document is there.
LEMMA OriginalsKept ==
  ASSUME StorageInv, Next, document # "deleted"
  PROVE  objects \ Files \subseteq objects'
<1> USE DEF StorageInv
<1>1. CASE IngestAct
  BY <1>1, IngestFrame DEF Stored
<1>2. CASE WorkAct
  BY <1>2, WorkFrame DEF Stored
<1>3. CASE CleanAct
  BY <1>3, CleanFrame
<1>4. CASE ExportAct
  BY <1>4, ExportFrame DEF Stored
<1>5. CASE DeleteExportAct
  BY <1>5, DeleteExportFrame
<1>6. CASE DeleteAct
  <2>1. del = "files" => keys \subseteq Files
    BY DEF DeleteInv
  <2> QED BY <1>6, <2>1, DeleteFrame
<1> QED BY <1>1, <1>2, <1>3, <1>4, <1>5, <1>6, NextActs

\* The input of a job depends on how many there are.
LEMMA InputFacts ==
  ASSUME TypeInv
  PROVE  /\ \A j \in Jobs : InputObject(j) \in Sources \cup Inputs
         /\ pages' = pages => \A j \in Jobs : InputObject(j)' = InputObject(j)
BY ObjectFacts DEF InputObject, Split


-----------------------------------------------------------------------------
(* Each part of the invariant *)

LEMMA IngestInvStep ==
  ASSUME StorageInv, Next
  PROVE  IngestInv'
<1> USE DEF StorageInv
<1>1. CASE UNCHANGED <<ingest, document, pages, link>> /\ \A j \in Jobs : Row(j)' <=> Row(j)
  <2>1. document # "deleted" => objects \ Files \subseteq objects'
    BY OriginalsKept
  <2>2. ingest # "done" => document # "deleted"
    BY DEF IngestInv
  <2>3. Source \in objects => Source \in objects \ Files
    BY ObjectFacts
  <2>4. pages \subseteq Jobs /\ \A j \in pages : InputObject(j)' = InputObject(j) /\ InputObject(j) \notin Files
    BY <1>1, InputFacts, ObjectFacts DEF TypeInv, StorageTypeOK
  <2> QED BY <1>1, <2>1, <2>2, <2>3, <2>4 DEF IngestInv
<1>2. CASE IngestAct
  <2>1. link' = link /\ objects \subseteq objects' /\ pages \subseteq Jobs
    BY <1>2, IngestFrame DEF Stored, TypeInv, StorageTypeOK
  <2>2. ASSUME NEW js \in SUBSET Jobs, IngestStores(js)
        PROVE  IngestInv'
    BY <2>1, <2>2 DEF IngestInv, IngestStores, Put, Row
  <2>3. ASSUME NEW n \in Nodes, IngestInserts(n)
        PROVE  IngestInv'
    <3>1. \A j \in pages : InputObject(j)' \in objects'
      BY <2>1, <2>3, InputFacts DEF IngestInv, IngestInserts, Put, InputObject
    <3> QED BY <2>1, <2>3, <3>1 DEF IngestInv, IngestInserts, Row
  <2>4. CASE IngestCommits
    BY <2>1, <2>4 DEF IngestInv, IngestCommits, Row, TypeInv, StorageTypeOK
  <2>5. CASE IngestFails
    BY <2>1, <2>5 DEF IngestInv, IngestFails, Row
  <2> QED BY <1>2, <2>2, <2>3, <2>4, <2>5 DEF IngestAct
<1>3. CASE WorkAct
  BY <1>1, <1>3, WorkFrame
<1>4. CASE CleanAct \/ ExportAct \/ DeleteExportAct
  <2>1. UNCHANGED <<ingest, document, pages, link, job>>
    BY <1>4, CleanFrame, ExportFrame, DeleteExportFrame DEF rowVars
  <2> QED BY <1>1, <2>1 DEF Row
<1>5. CASE DeleteAct /\ ~DeleteCommits
  <2>1. UNCHANGED <<ingest, document, pages, link, job>>
    BY <1>5, DeleteFrame
  <2> QED BY <1>1, <2>1 DEF Row
<1>6. CASE DeleteCommits
  <2>1. UNCHANGED <<ingest, pages, objects>>
    BY <1>6 DEF DeleteCommits, fileVars, workVars
  <2>2. link' = "deleted" /\ document # "inserted"
    BY <1>6 DEF DeleteCommits
  <2>3. \A j \in Jobs : Row(j)' => Row(j)
    BY <1>6 DEF DeleteCommits, Row
  <2>4. document' = document \/ (document = "committed" /\ document' = "deleted")
    BY <1>6 DEF DeleteCommits
  <2>5. document' = "committed" => doomed = {}
    <3>1. document' = "committed" => document = "committed"
      BY <2>4
    <3> QED BY <1>6, <3>1 DEF DeleteCommits
  <2>6. document' = "committed" => job' = job
    BY <1>6, <2>5 DEF DeleteCommits, TypeInv, StorageTypeOK
  <2>7. document = "committed" => ingest = "done"
    BY DEF IngestInv, TypeInv, StorageTypeOK
  <2>8. \A j \in pages : InputObject(j)' = InputObject(j)
    BY <2>1, InputFacts DEF TypeInv, StorageTypeOK
  <2> QED BY <2>1, <2>2, <2>3, <2>4, <2>6, <2>7, <2>8 DEF IngestInv, Row
<1> QED BY <1>2, <1>3, <1>4, <1>5, <1>6, NextActs

LEMMA RunInvStep ==
  ASSUME StorageInv, Next
  PROVE  RunInv'
<1> USE DEF StorageInv
<1>1. document = "committed" => \A w \in Workers :
        pc[w] = "complete" => Output(hand[w]) \in objects'
  <2>1. SUFFICES ASSUME document = "committed", NEW w \in Workers, pc[w] = "complete"
                 PROVE  Output(hand[w]) \in objects'
    OBVIOUS
  <2>2. Output(hand[w]) \in objects /\ Output(hand[w]) \notin Files
    BY <2>1, ObjectFacts DEF RunInv, TypeInv, InHand
  <2> QED BY <2>1, <2>2, OriginalsKept
<1>2. CASE UNCHANGED <<pc, hand, ingest>> /\ (document' = "committed" => document = "committed")
  BY <1>1, <1>2 DEF RunInv
<1>3. CASE IngestAct
  <2>1. UNCHANGED <<pc, hand>> /\ ingest # "done"
    BY <1>3, IngestFrame DEF IngestAct, IngestStores, IngestInserts, IngestCommits, IngestFails
  <2> QED BY <2>1 DEF RunInv
<1>4. CASE WorkAct
  <2>1. UNCHANGED <<document, ingest>>
    BY <1>4, WorkFrame
  <2>2. ASSUME NEW w \in Workers, WorkerStep(w) \/ WorkerLost(w)
        PROVE  RunInv'
    <3>1. pc[w] # "idle" /\ (\A v \in Workers \ {w} : pc'[v] = pc[v] /\ hand'[v] = hand[v])
      BY <2>2 DEF WorkerStep, WorkerLost, Materialize, OcrWrites, Upload, Complete, CleanAfterRun,
                  RunFails, Goto, Idle, TypeInv, StorageTypeOK
    <3>2. pc'[w] = "complete" => Upload(w) /\ hand'[w] = hand[w] /\ Output(hand'[w]) \in objects'
      BY <2>2 DEF WorkerStep, WorkerLost, Materialize, OcrWrites, Upload, Complete, CleanAfterRun,
                  RunFails, Goto, Idle, TypeInv, StorageTypeOK, Put
    <3> QED BY <1>1, <2>1, <3>1, <3>2 DEF RunInv
  <2>3. ASSUME NEW w \in Workers, NEW j \in Jobs, Claim(w, j)
        PROVE  RunInv'
    <3>1. pc' = [pc EXCEPT ![w] = "fetch"] /\ hand' = [hand EXCEPT ![w] = j] /\ Row(j)
      BY <2>3 DEF Claim, Writable
    <3>2. ingest = "done"
      BY <3>1 DEF IngestInv, TypeInv, StorageTypeOK
    <3> QED BY <1>1, <2>1, <3>1, <3>2 DEF RunInv, TypeInv, StorageTypeOK
  <2>4. ASSUME NEW j \in Jobs, FailUnder(j) \/ Retry(j) \/ Reprocess(j)
        PROVE  RunInv'
    BY <1>2, <2>1, <2>4 DEF FailUnder, Retry, Reprocess, workVars
  <2> QED BY <1>4, <2>2, <2>3, <2>4 DEF WorkAct
<1>5. CASE CleanAct \/ ExportAct \/ DeleteExportAct
  BY <1>2, <1>5, CleanFrame, ExportFrame, DeleteExportFrame DEF rowVars
<1>6. CASE DeleteAct
  <2>1. UNCHANGED <<pc, hand, ingest>>
    BY <1>6, DeleteFrame
  <2>2. document' = "committed" => document = "committed"
    BY <1>6, DeleteFrame DEF DeleteCommits
  <2> QED BY <1>2, <2>1, <2>2
<1> QED BY <1>3, <1>4, <1>5, <1>6, NextActs

LEMMA ExportInvStep ==
  ASSUME StorageInv, Next
  PROVE  ExportInv'
<1> USE DEF StorageInv
<1>1. CASE UNCHANGED <<export, writer, xpc, xrow>> /\ objects \subseteq objects'
  BY <1>1 DEF ExportInv
<1>2. CASE IngestAct \/ WorkAct \/ CleanAct
  BY <1>1, <1>2, IngestFrame, WorkFrame, CleanFrame DEF Stored, exportVars, rowVars
<1>3. CASE ExportAct
  <2> PICK e \in Exports : \/ ExportInserts(e) \/ ExportPuts(e) \/ ExportCommits(e)
                           \/ ExportFails(e) \/ ExportDies(e)
    BY <1>3 DEF ExportAct
  <2>1. objects \subseteq objects' /\ UNCHANGED <<xpc, xrow>> /\ writer[e] # "done"
    BY <1>3, ExportFrame DEF Stored, ExportInserts, ExportPuts, ExportCommits, ExportFails, ExportDies
  <2>2. \A d \in Exports : d # e => export'[d] = export[d] /\ writer'[d] = writer[d]
    BY DEF ExportInserts, ExportPuts, ExportCommits, ExportFails, ExportDies, SetExport, Writing,
           TypeInv, StorageTypeOK, rowVars
  <2>3. writer'[e] = "commit" => File(e) \in objects'
    BY <2>1 DEF ExportInserts, ExportPuts, ExportCommits, ExportFails, ExportDies, Writing, Put,
           TypeInv, StorageTypeOK
  <2>4. export'[e] \in {"COMPLETED", "FAILED", "deleted"} => writer'[e] = "done"
    BY <2>1 DEF ExportInserts, ExportPuts, ExportCommits, ExportFails, ExportDies, SetExport, Writing,
           TypeInv, StorageTypeOK, ExportInv, rowVars
  <2>5. \A x \in Deleters : xpc[x] # "idle" => xrow[x] # e /\ xrow[x] \in Exports
    BY <2>1 DEF ExportInv, TypeInv, InHand
  <2> QED BY <2>1, <2>2, <2>3, <2>4, <2>5 DEF ExportInv
<1>4. CASE DeleteExportAct
  <2>1. writer' = writer
    BY <1>4, DeleteExportFrame DEF exportVars
  <2>2. ASSUME NEW x \in Deleters, DeleteExportFile(x)
        PROVE  ExportInv'
    <3>1. xrow[x] \in Exports /\ writer[xrow[x]] = "done"
      BY <2>2 DEF DeleteExportFile, ExportInv, TypeInv, InHand
    <3>2. \A e \in Exports : e # xrow[x] /\ File(e) \in objects => File(e) \in objects'
      BY <2>2, FileIsItsOwn DEF DeleteExportFile
    <3>3. xpc' = [xpc EXCEPT ![x] = "row"] /\ xrow' = [xrow EXCEPT ![x] = xrow[x]] /\ export' = export
      BY <2>2 DEF DeleteExportFile, XGoto, rowVars
    <3>4. \A y \in Deleters : xpc'[y] # "idle" => writer[xrow'[y]] = "done"
      BY <3>1, <3>3 DEF ExportInv, TypeInv, StorageTypeOK
    <3>5. \A e \in Exports : writer[e] = "commit" => File(e) \in objects'
      BY <3>1, <3>2 DEF ExportInv
    <3> QED BY <2>1, <3>3, <3>4, <3>5 DEF ExportInv
  <2>3. ASSUME NEW x \in Deleters, DeleteExportRow(x)
        PROVE  ExportInv'
    <3>1. xrow[x] \in Exports /\ writer[xrow[x]] = "done"
      BY <2>3 DEF DeleteExportRow, ExportInv, TypeInv, InHand
    <3>2. objects' = objects /\ export' = [export EXCEPT ![xrow[x]] = "deleted"]
          /\ xpc' = [xpc EXCEPT ![x] = "idle"] /\ xrow' = [xrow EXCEPT ![x] = NoExport]
      BY <2>3 DEF DeleteExportRow, SetExport, XGoto, fileVars
    <3>3. \A y \in Deleters : xpc'[y] # "idle" => writer[xrow'[y]] = "done"
      BY <3>2 DEF ExportInv, TypeInv, StorageTypeOK
    <3>4. \A e \in Exports : export'[e] \in {"COMPLETED", "FAILED", "deleted"} => writer[e] = "done"
      BY <3>1, <3>2 DEF ExportInv, TypeInv, StorageTypeOK
    <3> QED BY <2>1, <3>2, <3>3, <3>4 DEF ExportInv
  <2>4. ASSUME NEW x \in Deleters, DeleteExportDies(x)
        PROVE  ExportInv'
    <3>1. UNCHANGED <<objects, export>>
          /\ xpc' = [xpc EXCEPT ![x] = "idle"] /\ xrow' = [xrow EXCEPT ![x] = NoExport]
      BY <2>4 DEF DeleteExportDies, XGoto, fileVars, rowVars
    <3>2. \A y \in Deleters : xpc'[y] # "idle" => writer[xrow'[y]] = "done"
      BY <3>1 DEF ExportInv, TypeInv, StorageTypeOK
    <3> QED BY <2>1, <3>1, <3>2 DEF ExportInv
  <2>5. ASSUME NEW x \in Deleters, NEW e \in Exports, DeleteExportReads(x, e)
        PROVE  ExportInv'
    <3>1. UNCHANGED <<objects, export>> /\ writer[e] = "done"
      BY <2>5 DEF DeleteExportReads, fileVars, rowVars, ExportInv
    <3>2. \A y \in Deleters : xpc'[y] # "idle" => writer[xrow'[y]] = "done"
      BY <2>5, <3>1 DEF DeleteExportReads, XGoto, ExportInv, TypeInv, StorageTypeOK
    <3> QED BY <2>1, <3>1, <3>2 DEF ExportInv
  <2> QED BY <1>4, <2>2, <2>3, <2>4, <2>5 DEF DeleteExportAct
<1>5. CASE DeleteAct
  <2>1. UNCHANGED <<writer, xpc, xrow>> /\ objects \ keys \subseteq objects'
    BY <1>5, DeleteFrame DEF exportVars
  <2>2. \A e \in Exports : writer[e] = "commit" => File(e) \notin keys
    BY DEF DeleteInv
  <2>3. \A e \in Exports : export'[e] \in {"COMPLETED", "FAILED", "deleted"}
                             => export[e] \in {"COMPLETED", "FAILED", "deleted"}
    BY <1>5, DeleteFrame DEF DeleteCommits, TypeInv, StorageTypeOK
  <2> QED BY <2>1, <2>2, <2>3 DEF ExportInv
<1> QED BY <1>2, <1>3, <1>4, <1>5, NextActs

LEMMA DeleteInvStep ==
  ASSUME StorageInv, Next
  PROVE  DeleteInv'
<1> USE DEF StorageInv
<1>1. CASE /\ UNCHANGED <<batch, link, document, pages, export, writer, deleteVars>>
           /\ late \subseteq late'
  BY <1>1 DEF DeleteInv, deleteVars
<1>2. CASE IngestAct
  <2>1. UNCHANGED <<batch, link, export, writer, deleteVars>> /\ late \subseteq late'
    BY <1>2, IngestFrame DEF exportVars
  <2>2. ~(document \in {"committed", "deleted"})
    BY <1>2 DEF IngestAct, IngestStores, IngestInserts, IngestCommits, IngestFails, IngestInv
  <2>3. keys \cap (Sources \cup Outputs) = {} \/ del = "idle"
    BY <2>2 DEF DeleteInv
  <2>4. del = "batchRow" /\ document' = "committed" => pages' \subseteq late'
    BY <1>2, <2>2 DEF IngestAct, IngestStores, IngestInserts, IngestCommits, IngestFails, rowVars
  <2> QED BY <2>1, <2>3, <2>4 DEF DeleteInv, deleteVars
<1>3. CASE WorkAct \/ CleanAct
  BY <1>1, <1>3, WorkFrame, CleanFrame DEF rowVars, exportVars, history
<1>4. CASE ExportAct
  <2>1. UNCHANGED <<batch, link, document, pages, deleteVars, late>>
    BY <1>4, ExportFrame
  <2>2. \A e \in Exports : writer[e] = "done" => writer'[e] = "done" /\ export'[e] = export[e]
    <3> PICK e \in Exports : \/ ExportInserts(e) \/ ExportPuts(e) \/ ExportCommits(e)
                             \/ ExportFails(e) \/ ExportDies(e)
      BY <1>4 DEF ExportAct
    <3>1. writer[e] # "done"
      BY DEF ExportInserts, ExportPuts, ExportCommits, ExportFails, ExportDies
    <3>2. \A d \in Exports : d # e => export'[d] = export[d] /\ writer'[d] = writer[d]
      BY DEF ExportInserts, ExportPuts, ExportCommits, ExportFails, ExportDies, SetExport, Writing,
             TypeInv, StorageTypeOK, rowVars
    <3> QED BY <3>1, <3>2
  <2> QED BY <2>1, <2>2 DEF DeleteInv, deleteVars
<1>5. CASE DeleteExportAct
  <2>1. UNCHANGED <<batch, link, document, pages, writer, deleteVars, late>>
    BY <1>5, DeleteExportFrame
  <2>2. \A e \in Exports : export'[e] = "COMPLETED" => export[e] = "COMPLETED"
    BY <1>5 DEF DeleteExportAct, DeleteExportReads, DeleteExportFile, DeleteExportRow,
                DeleteExportDies, SetExport, TypeInv, StorageTypeOK, rowVars
  <2> QED BY <2>1, <2>2 DEF DeleteInv, deleteVars
<1>6. ASSUME NEW what \in {"link", "batch"}, DeleteReads(what)
      PROVE  DeleteInv'
  <2>1. UNCHANGED <<batch, link, document, pages, export, writer, doomed, late>>
    BY <1>6 DEF DeleteReads, rowVars, exportVars
  <2>2. del' = "rows" /\ scope' = what /\ batch = "live" /\ (what = "link" => link = "live")
    BY <1>6 DEF DeleteReads
  <2>3. keys' = Named(what)
    BY <1>6 DEF DeleteReads
  <2>4. keys' \subseteq Sources \cup Outputs \cup Files
    <3>1. keyed \subseteq Jobs
      BY DEF TypeInv, StorageTypeOK
    <3> QED BY <2>3, <3>1 DEF Named, Sources, Outputs, Files
  <2>5. keys' \cap (Sources \cup Outputs) # {} => document = "committed"
    BY <2>3, ObjectFacts DEF Named
  <2>6. ASSUME NEW e \in Exports, File(e) \in keys'
        PROVE  writer[e] = "done" /\ what = "batch"
    <3>1. File(e) # Source /\ \A j \in Jobs : File(e) # Output(j)
      BY ObjectFacts
    <3>2. \E f \in Exports : export[f] = "COMPLETED" /\ File(e) = File(f) /\ what = "batch"
      BY <2>3, <2>6, <3>1 DEF Named, TypeInv, StorageTypeOK
    <3> QED BY <3>2, FileIsItsOwn DEF ExportInv
  <2> QED BY <2>1, <2>2, <2>4, <2>5, <2>6 DEF DeleteInv
<1>7. CASE DeleteJobs
  <2>1. UNCHANGED <<batch, link, document, pages, export, writer, keys, scope, late>>
        /\ del = "rows" /\ del' = "batchRow"
    BY <1>7 DEF DeleteJobs, rowVars, exportVars, history
  <2>2. document = "committed" => doomed' = pages /\ pages # {}
    BY <1>7, <2>1 DEF DeleteJobs, IngestInv, DeleteInv, TypeInv, StorageTypeOK
  <2> QED BY <2>1, <2>2 DEF DeleteInv
<1>8. CASE DeleteCommits
  <2>1. UNCHANGED <<writer, keys, scope>> /\ del = "batchRow" /\ del' = "files"
        /\ link' = "deleted" /\ batch' = IF scope = "batch" THEN "deleted" ELSE batch
    BY <1>8 DEF DeleteCommits, exportVars
  <2>2. keys \cap (Sources \cup Outputs) # {} => document' = "deleted"
    BY <1>8, <2>1 DEF DeleteCommits, DeleteInv
  <2>3. \A e \in Exports : scope = "batch" => export'[e] # "COMPLETED"
    BY <1>8 DEF DeleteCommits, TypeInv, StorageTypeOK
  <2>4. batch = "live" /\ scope \in {"link", "batch"}
    BY <2>1 DEF DeleteInv, TypeInv, StorageTypeOK
  <2> QED BY <2>1, <2>2, <2>3, <2>4 DEF DeleteInv
<1>9. ASSUME NEW o \in Object, DeleteObject(o)
      PROVE  DeleteInv'
  <2>1. UNCHANGED <<batch, link, document, export, writer, del, scope>> /\ del = "files"
        /\ keys' \subseteq keys
    BY <1>9 DEF DeleteObject, rowVars, exportVars
  <2> QED BY <2>1 DEF DeleteInv
<1>10. CASE DeleteFolders \/ DeleteDies
  <2>1. UNCHANGED <<batch, link>> /\ del' = "idle" /\ keys' = {}
    BY <1>10 DEF DeleteFolders, DeleteDies, rowVars
  <2> QED BY <2>1 DEF DeleteInv
<1> QED BY <1>2, <1>3, <1>4, <1>5, <1>6, <1>7, <1>8, <1>9, <1>10, NextActs DEF DeleteAct

LEMMA LeftBehindStep ==
  ASSUME StorageInv, Next
  PROVE  LeftBehind'
<1> USE DEF StorageInv
<1>1. CASE UNCHANGED <<batch, link, deleteVars>> /\ Stored
  BY <1>1 DEF LeftBehind, Stored, Deleting, deleteVars, DeleteInv
<1>2. CASE IngestAct \/ WorkAct \/ ExportAct
  BY <1>1, <1>2, IngestFrame, WorkFrame, ExportFrame
<1>3. CASE UNCHANGED <<batch, link, deleteVars>> /\ objects' \subseteq objects /\ strays' = strays
  BY <1>3 DEF LeftBehind, deleteVars
<1>4. CASE CleanAct \/ DeleteExportAct
  BY <1>3, <1>4, CleanFrame, DeleteExportFrame DEF rowVars, history
<1>5. ASSUME NEW what \in {"link", "batch"}, DeleteReads(what)
      PROVE  LeftBehind'
  <2>1. objects' = objects /\ del' = "rows" /\ scope' = what /\ keys' = Named(what)
        /\ strays' = strays \cup (objects \ Owned) /\ (what = "link" => link = "live")
    BY <1>5 DEF DeleteReads, fileVars
  <2>2. Owned \subseteq Named(what) \cup Inputs \cup (IF what = "link" THEN Files ELSE {})
    <3>1. pages \subseteq Jobs
      BY DEF TypeInv, StorageTypeOK
    <3> QED BY <2>1, <3>1 DEF Owned, Named, Inputs, Files
  <2> QED BY <2>1, <2>2 DEF LeftBehind
<1>6. CASE DeleteJobs
  BY <1>6 DEF DeleteJobs, LeftBehind, rowVars, fileVars, history
<1>7. CASE DeleteCommits
  BY <1>7 DEF DeleteCommits, LeftBehind, fileVars, history
<1>8. ASSUME NEW o \in Object, DeleteObject(o)
      PROVE  LeftBehind'
  BY <1>8 DEF DeleteObject, LeftBehind, history
<1>9. CASE DeleteFolders
  <2>1. UNCHANGED <<batch, link, objects, strays>> /\ del = "files" /\ keys = {} /\ del' = "idle"
    BY <1>9 DEF DeleteFolders, rowVars, history
  <2>2. scope = "link" \/ (scope = "batch" /\ objects \subseteq strays \cup Inputs)
    BY <2>1 DEF LeftBehind, TypeInv, StorageTypeOK
  <2> QED BY <2>1, <2>2 DEF LeftBehind, DeleteInv
<1>10. CASE DeleteDies
  <2>1. UNCHANGED <<batch, link, objects>> /\ del # "idle" /\ del' = "idle"
        /\ strays' = strays \cup keys
    BY <1>10 DEF DeleteDies, rowVars, fileVars
  <2>2. batch = "deleted" => scope = "batch"
    BY <2>1 DEF DeleteInv, TypeInv, StorageTypeOK
  <2> QED BY <2>1, <2>2 DEF LeftBehind
<1> QED BY <1>2, <1>4, <1>5, <1>6, <1>7, <1>8, <1>9, <1>10, NextActs DEF DeleteAct

-----------------------------------------------------------------------------
(* The properties *)

LEMMA OriginalsStep ==
  ASSUME StorageInv, Next
  PROVE  OriginalsStay'
<1> USE DEF StorageInv
<1>1. SUFFICES ASSUME document' = "committed", NEW j \in pages'
               PROVE  InputObject(j)' \in objects' /\ (job'[j] = "COMPLETED" => Output(j) \in objects')
  BY DEF OriginalsStay
<1>2. CASE /\ document = "committed" /\ pages' = pages
           /\ job'[j] = "COMPLETED" => job[j] = "COMPLETED" \/ Output(j) \in objects
  <2>1. j \in Jobs /\ InputObject(j)' = InputObject(j)
        /\ InputObject(j) \notin Files /\ Output(j) \notin Files
    BY <1>1, <1>2, InputFacts, ObjectFacts DEF TypeInv, StorageTypeOK
  <2> QED BY <1>1, <1>2, <2>1, OriginalsKept DEF OriginalsStay
<1>3. CASE IngestAct
  <2>1. IngestCommits
    BY <1>1, <1>3 DEF IngestAct, IngestStores, IngestInserts, IngestFails, IngestInv, rowVars
  <2>2. pages' = pages /\ objects' = objects /\ job'[j] # "COMPLETED" /\ j \in Jobs
    BY <1>1, <2>1 DEF IngestCommits, fileVars, TypeInv, StorageTypeOK
  <2> QED BY <1>1, <2>1, <2>2, InputFacts DEF IngestCommits, IngestInv
<1>4. CASE WorkAct
  <2>1. document = "committed" /\ pages' = pages
    BY <1>1, <1>4, WorkFrame
  <2>2. ASSUME NEW w \in Workers, Complete(w)
        PROVE  job'[j] = "COMPLETED" => job[j] = "COMPLETED" \/ Output(j) \in objects
    <3>1. Output(hand[w]) \in objects
      BY <2>1, <2>2 DEF Complete, RunInv
    <3> QED BY <2>2, <3>1 DEF Complete, SetJob, TypeInv, StorageTypeOK
  <2>3. ASSUME NEW w \in Workers, NEW i \in Jobs, Claim(w, i)
        PROVE  job'[j] = "COMPLETED" => job[j] = "COMPLETED"
    BY <2>3 DEF Claim, SetJob, TypeInv, StorageTypeOK
  <2>4. ASSUME NEW w \in Workers,
               Materialize(w) \/ OcrWrites(w) \/ Upload(w) \/ CleanAfterRun(w) \/ WorkerLost(w)
        PROVE  job' = job
    BY <2>4 DEF Materialize, OcrWrites, Upload, CleanAfterRun, WorkerLost, rowVars
  <2>5. ASSUME NEW w \in Workers, RunFails(w)
        PROVE  job'[j] = "COMPLETED" => job[j] = "COMPLETED"
    BY <2>5 DEF RunFails, TypeInv, StorageTypeOK
  <2>6. ASSUME NEW i \in Jobs, FailUnder(i) \/ Retry(i) \/ Reprocess(i)
        PROVE  job'[j] = "COMPLETED" => job[j] = "COMPLETED"
    BY <2>6 DEF FailUnder, Retry, Reprocess, SetJob, TypeInv, StorageTypeOK
  <2> QED BY <1>2, <1>4, <2>1, <2>2, <2>3, <2>4, <2>5, <2>6 DEF WorkAct, WorkerStep
<1>5. CASE CleanAct \/ ExportAct \/ DeleteExportAct
  BY <1>1, <1>2, <1>5, CleanFrame, ExportFrame, DeleteExportFrame DEF rowVars
<1>6. CASE DeleteAct
  <2>1. pages' = pages /\ document = "committed"
    BY <1>1, <1>6, DeleteFrame DEF DeleteCommits
  <2>2. job'[j] = "COMPLETED" => job[j] = "COMPLETED"
    BY <1>1, <1>6, <2>1, DeleteFrame DEF DeleteCommits, TypeInv, StorageTypeOK
  <2> QED BY <1>2, <2>1, <2>2
<1> QED BY <1>3, <1>4, <1>5, <1>6, NextActs

LEMMA ExportFileStep ==
  ASSUME StorageInv, Next
  PROVE  CompletedExportHasFile'
<1> USE DEF StorageInv
<1>1. SUFFICES ASSUME NEW e \in Exports, export'[e] = "COMPLETED", e \notin begun'
               PROVE  File(e) \in objects'
  BY DEF CompletedExportHasFile
<1>2. CASE export[e] = "COMPLETED" /\ e \notin begun /\ (File(e) \in objects => File(e) \in objects')
  BY <1>2 DEF CompletedExportHasFile
<1>3. CASE IngestAct \/ WorkAct \/ CleanAct
  BY <1>1, <1>2, <1>3, IngestFrame, WorkFrame, CleanFrame DEF Stored, rowVars, history
<1>4. CASE ExportAct
  <2>1. objects \subseteq objects' /\ begun' = begun
    BY <1>4, ExportFrame DEF Stored
  <2>2. export'[e] = export[e] \/ ExportCommits(e)
    <3> PICK d \in Exports : \/ ExportInserts(d) \/ ExportPuts(d) \/ ExportCommits(d)
                             \/ ExportFails(d) \/ ExportDies(d)
      BY <1>4 DEF ExportAct
    <3>1. e # d => export'[e] = export[e]
      BY DEF ExportInserts, ExportPuts, ExportFails, ExportDies, ExportCommits, SetExport, TypeInv,
             StorageTypeOK, rowVars
    <3>2. e = d => ExportPuts(d) \/ ExportCommits(d)
      BY <1>1 DEF ExportInserts, ExportFails, ExportDies, SetExport, TypeInv, StorageTypeOK
    <3> QED BY <3>1, <3>2 DEF ExportPuts, rowVars
  <2>3. ExportCommits(e) => File(e) \in objects
    BY DEF ExportCommits, ExportInv
  <2> QED BY <1>1, <1>2, <2>1, <2>2, <2>3
<1>5. CASE DeleteExportAct
  <2>1. begun \subseteq begun'
    BY <1>5, DeleteExportFrame
  <2>2. export[e] = "COMPLETED"
    BY <1>1, <1>5 DEF DeleteExportAct, DeleteExportReads, DeleteExportFile, DeleteExportRow,
                      DeleteExportDies, SetExport, TypeInv, StorageTypeOK, rowVars
  <2>3. File(e) \in objects => File(e) \in objects'
    BY <1>1, <1>5, FileIsItsOwn DEF DeleteExportAct, DeleteExportReads, DeleteExportFile,
       DeleteExportRow, DeleteExportDies, fileVars
  <2> QED BY <1>1, <1>2, <2>1, <2>2, <2>3
<1>6. CASE DeleteAct
  <2>1. begun' = begun /\ objects \ keys \subseteq objects' /\ (del = "files" \/ objects' = objects)
    BY <1>6, DeleteFrame
  <2>2. export[e] = "COMPLETED"
    BY <1>1, <1>6, DeleteFrame DEF DeleteCommits, TypeInv, StorageTypeOK
  <2>3. del = "files" => File(e) \notin keys
    BY <2>2 DEF DeleteInv
  <2> QED BY <1>1, <1>2, <2>1, <2>2, <2>3
<1> QED BY <1>3, <1>4, <1>5, <1>6, NextActs

LEMMA OrphansStep ==
  ASSUME StorageInv, Next
  PROVE  OrphansCameLate'
<1> USE DEF StorageInv
<1>1. CASE document' = document /\ late \subseteq late' /\ \A j \in Jobs : Row(j)' => Row(j)
  BY <1>1 DEF OrphansCameLate
<1>2. CASE IngestAct
  BY <1>2 DEF IngestAct, IngestStores, IngestInserts, IngestCommits, IngestFails, IngestInv,
              OrphansCameLate, rowVars
<1>3. CASE WorkAct
  BY <1>1, <1>3, WorkFrame
<1>4. CASE CleanAct \/ ExportAct \/ DeleteExportAct
  <2>1. UNCHANGED <<document, job, late>>
    BY <1>4, CleanFrame, ExportFrame, DeleteExportFrame DEF rowVars, history
  <2> QED BY <1>1, <2>1 DEF Row
<1>5. CASE DeleteAct /\ ~DeleteCommits
  <2>1. UNCHANGED <<document, job, late>>
    BY <1>5, DeleteFrame
  <2> QED BY <1>1, <2>1 DEF Row
<1>6. CASE DeleteCommits
  <2>1. SUFFICES ASSUME document' = "deleted", NEW j \in Jobs, Row(j)'
                 PROVE  j \in late'
    BY DEF OrphansCameLate
  <2>2. late' = late /\ j \notin doomed /\ Row(j)
    BY <1>6, <2>1 DEF DeleteCommits, Row, history, TypeInv, StorageTypeOK
  <2>3. CASE document = "committed"
    BY <1>6, <2>2, <2>3 DEF DeleteCommits, DeleteInv, IngestInv
  <2>4. CASE document # "committed"
    BY <1>6, <2>1, <2>2, <2>4 DEF DeleteCommits, OrphansCameLate
  <2> QED BY <2>3, <2>4
<1> QED BY <1>2, <1>3, <1>4, <1>5, <1>6, NextActs

LEMMA StorageInvHolds == Spec => []StorageInv
<1>1. Init => StorageInv
  <2> SUFFICES ASSUME Init PROVE StorageInv
    OBVIOUS
  <2> USE BatchStorageAssumption DEF Init
  <2>1. TypeInv
    BY TypeFacts DEF TypeInv, StorageTypeOK, InHand
  <2>2. IngestInv /\ RunInv /\ ExportInv /\ OriginalsStay /\ CompletedExportHasFile /\ OrphansCameLate
    BY DEF IngestInv, RunInv, ExportInv, OriginalsStay, CompletedExportHasFile, OrphansCameLate, Row
  <2>3. DeleteInv /\ LeftBehind
    BY DEF DeleteInv, LeftBehind
  <2> QED BY <2>1, <2>2, <2>3 DEF StorageInv
<1>2. StorageInv /\ [Next]_vars => StorageInv'
  <2> SUFFICES ASSUME StorageInv, [Next]_vars PROVE StorageInv'
    OBVIOUS
  <2>1. CASE Next
    <3>1. TypeInv'
      BY <2>1, NextActs, IngestTypes, WorkTypes, CleanTypes, ExportTypes, DeleteExportTypes,
         DeleteTypes DEF StorageInv
    <3> QED BY <2>1, <3>1, IngestInvStep, RunInvStep, ExportInvStep, DeleteInvStep, LeftBehindStep,
               OriginalsStep, ExportFileStep, OrphansStep DEF StorageInv
  <2>2. CASE UNCHANGED vars
    <3> USE <2>2 DEF StorageInv, vars, rowVars, fileVars, workVars, exportVars, deleteVars, history
    <3>1. TypeInv'
      BY DEF TypeInv, StorageTypeOK, InHand
    <3>2. \A j \in Jobs : InputObject(j)' = InputObject(j)
      BY InputFacts
    <3>3. pages \subseteq Jobs
      BY DEF TypeInv, StorageTypeOK
    <3>4. IngestInv' /\ OriginalsStay' /\ OrphansCameLate'
      BY <3>2, <3>3 DEF IngestInv, OriginalsStay, OrphansCameLate, Row
    <3>5. RunInv' /\ ExportInv' /\ CompletedExportHasFile'
      BY DEF RunInv, ExportInv, CompletedExportHasFile
    <3>6. DeleteInv' /\ LeftBehind'
      BY DEF DeleteInv, LeftBehind
    <3> QED BY <3>1, <3>4, <3>5, <3>6
  <2> QED BY <2>1, <2>2
<1> QED BY <1>1, <1>2, PTL DEF Spec

-----------------------------------------------------------------------------
(* The working copies of a live run *)

Live(w) == pc[w] \in {"fetch", "run", "upload", "complete"}

\* The jobs whose row the cleanup of a node has read, or whose folder it will remove.
Sight(n) == scan[n] \cup plan[n]

\* A cleanup has in sight only jobs that are done, and a job that is done has no
\* live run, unless two runs shared it or it was reopened meanwhile.
CopiesInv ==
  /\ \A v, w \in Workers : hand[v] = hand[w] /\ hand[w] \in Jobs => v = w \/ hand[w] \in crossed
  /\ \A w \in Workers : Live(w) /\ job[hand[w]] = "COMPLETED" => hand[w] \in crossed
  /\ \A n \in Nodes, w \in Workers : Live(w) /\ hand[w] \in Sight(n) => hand[w] \in crossed
  /\ \A n \in Nodes : \A j \in Sight(n) : job[j] \in {"COMPLETED", "deleted"} \/ j \in crossed
  /\ \A n \in Nodes : Sight(n) # {} => ingest = "done"
  /\ RunsKeepTheirCopies

\* A step that no run takes, and that removes no copy, reopens no job and completes
\* none.
LEMMA CopiesFrame ==
  ASSUME StorageInv, CopiesInv, UNCHANGED <<pc, hand, crossed>>,
         \A n \in Nodes : Sight(n)' \subseteq Sight(n),
         ingest = "done" => ingest' = "done",
         \A j \in Jobs : \/ job'[j] = job[j]
                         \/ job'[j] # "COMPLETED" /\ job[j] # "COMPLETED" /\ ingest # "done"
                         \/ job'[j] # "COMPLETED" /\ job[j] \notin {"COMPLETED", "deleted"}
                         \/ job'[j] = "deleted",
         \A w \in Workers : pc[w] = "run" => local[NodeOf[w]] \subseteq local'[NodeOf[w]]
  PROVE  CopiesInv'
<1>1. /\ \A n \in Nodes : Sight(n) \subseteq Jobs
      /\ \A w \in Workers : Live(w) => hand[w] \in Jobs
  BY DEF StorageInv, TypeInv, StorageTypeOK, InHand, Live, Sight
<1>2. \A w \in Workers : Live(w)' <=> Live(w)
  BY DEF Live
<1>3. RunsKeepTheirCopies'
  BY DEF CopiesInv, RunsKeepTheirCopies
<1>4. \A w \in Workers : Live(w)' /\ job'[hand'[w]] = "COMPLETED" => hand'[w] \in crossed'
  BY <1>1, <1>2 DEF CopiesInv
<1>5. \A n \in Nodes : \A j \in Sight(n)' : job'[j] \in {"COMPLETED", "deleted"} \/ j \in crossed'
  BY <1>1 DEF CopiesInv
<1> QED BY <1>2, <1>3, <1>4, <1>5 DEF CopiesInv

LEMMA CopiesWork ==
  ASSUME StorageInv, CopiesInv, WorkAct
  PROVE  CopiesInv'
<1>1. StorageTypeOK /\ InHand
  BY DEF StorageInv, TypeInv
<1>2. \A w \in Workers : NodeOf[w] \in Nodes
  BY BatchStorageAssumption
<1> USE DEF CopiesInv, Sight, rowVars, fileVars, workVars, history
<1>3. ASSUME NEW w \in Workers, NEW j \in Jobs, Claim(w, j)
      PROVE  CopiesInv'
  <2>1. /\ pc' = [pc EXCEPT ![w] = "fetch"] /\ hand' = [hand EXCEPT ![w] = j]
        /\ job[j] = "PENDING" /\ job' = [job EXCEPT ![j] = "PROCESSING"]
        /\ UNCHANGED <<local, scan, plan, ingest>>
        /\ crossed \subseteq crossed'
        /\ \A v \in Workers : hand[v] = j => j \in crossed'
    BY <1>3 DEF Claim, SetJob
  <2>2. \A v \in Workers \ {w} : hand'[v] = hand[v] /\ pc'[v] = pc[v]
    BY <1>1, <2>1 DEF StorageTypeOK
  <2>3. hand'[w] = j /\ pc'[w] = "fetch" /\ job'[j] = "PROCESSING"
        /\ \A i \in Jobs \ {j} : job'[i] = job[i]
    BY <1>1, <2>1 DEF StorageTypeOK
  <2>4. \A u, v \in Workers : hand'[u] = hand'[v] /\ hand'[v] \in Jobs => u = v \/ hand'[v] \in crossed'
    BY <2>1, <2>2, <2>3
  <2>5. \A v \in Workers : Live(v)' /\ job'[hand'[v]] = "COMPLETED" => hand'[v] \in crossed'
    BY <1>1, <2>1, <2>2, <2>3 DEF Live, InHand
  <2>6. \A n \in Nodes : j \in Sight(n) => j \in crossed'
    BY <2>1
  <2>7. \A n \in Nodes, v \in Workers : Live(v)' /\ hand'[v] \in Sight(n)' => hand'[v] \in crossed'
    BY <2>1, <2>2, <2>3, <2>6 DEF Live
  <2>8. \A n \in Nodes : \A i \in Sight(n)' : job'[i] \in {"COMPLETED", "deleted"} \/ i \in crossed'
    BY <1>1, <2>1, <2>3, <2>6 DEF StorageTypeOK
  <2>9. RunsKeepTheirCopies'
    BY <2>1, <2>2, <2>3 DEF RunsKeepTheirCopies
  <2> QED BY <2>1, <2>4, <2>5, <2>7, <2>8, <2>9
<1>4. ASSUME NEW w \in Workers, Materialize(w)
      PROVE  CopiesInv'
  <2>1. /\ pc[w] = "fetch" /\ pc' = [pc EXCEPT ![w] = "run"]
        /\ local' = [local EXCEPT ![NodeOf[w]] = @ \cup {Input(hand[w])}]
        /\ UNCHANGED <<hand, job, scan, plan, crossed, ingest>>
    BY <1>4 DEF Materialize, Goto
  <2>2. \A v \in Workers : Live(v)' <=> Live(v)
    BY <1>1, <2>1 DEF Live, StorageTypeOK
  <2>3. RunsKeepTheirCopies'
    BY <1>1, <1>2, <2>1 DEF RunsKeepTheirCopies, StorageTypeOK
  <2> QED BY <2>1, <2>2, <2>3
<1>5. ASSUME NEW w \in Workers, OcrWrites(w)
      PROVE  CopiesInv'
  <2>1. /\ pc[w] = "run" /\ pc' = [pc EXCEPT ![w] = "upload"]
        /\ local' = [local EXCEPT ![NodeOf[w]] = @ \cup {Output(hand[w])}]
        /\ UNCHANGED <<hand, job, scan, plan, crossed, ingest>>
    BY <1>5 DEF OcrWrites, Goto
  <2>2. \A v \in Workers : Live(v)' <=> Live(v)
    BY <1>1, <2>1 DEF Live, StorageTypeOK
  <2>3. RunsKeepTheirCopies'
    BY <1>1, <1>2, <2>1 DEF RunsKeepTheirCopies, StorageTypeOK
  <2> QED BY <2>1, <2>2, <2>3
<1>6. ASSUME NEW w \in Workers, Upload(w)
      PROVE  CopiesInv'
  <2>1. /\ pc[w] = "upload" /\ pc' = [pc EXCEPT ![w] = "complete"]
        /\ UNCHANGED <<local, hand, job, scan, plan, crossed, ingest>>
    BY <1>6 DEF Upload, Goto
  <2>2. \A v \in Workers : (Live(v)' <=> Live(v)) /\ (pc'[v] = "run" => pc[v] = "run")
    BY <1>1, <2>1 DEF Live, StorageTypeOK
  <2> QED BY <2>1, <2>2 DEF RunsKeepTheirCopies
<1>7. ASSUME NEW w \in Workers, Complete(w)
      PROVE  CopiesInv'
  <2>1. /\ pc[w] = "complete" /\ pc' = [pc EXCEPT ![w] = "clean"]
        /\ job' = [job EXCEPT ![hand[w]] = "COMPLETED"] /\ job[hand[w]] = "PROCESSING"
        /\ hand[w] \in Jobs
        /\ UNCHANGED <<local, hand, scan, plan, crossed, ingest>>
    BY <1>1, <1>7 DEF Complete, Goto, SetJob, InHand
  <2>2. \A v \in Workers : (Live(v)' => Live(v) /\ v # w) /\ (pc'[v] = "run" => pc[v] = "run")
    BY <1>1, <2>1 DEF Live, StorageTypeOK
  <2>3. \A v \in Workers : Live(v)' /\ job'[hand'[v]] = "COMPLETED" => hand'[v] \in crossed'
    BY <1>1, <2>1, <2>2 DEF StorageTypeOK
  <2>4. \A n \in Nodes : \A i \in Sight(n)' : job'[i] \in {"COMPLETED", "deleted"} \/ i \in crossed'
    BY <1>1, <2>1 DEF StorageTypeOK
  <2> QED BY <2>1, <2>2, <2>3, <2>4 DEF RunsKeepTheirCopies
<1>8. ASSUME NEW w \in Workers, Idle(w), UNCHANGED <<scan, plan, crossed, ingest>>,
             \A v \in Workers \ {w} : pc[v] = "run" /\ hand[v] \notin crossed =>
               (Input(hand[v]) \in local[NodeOf[v]] => Input(hand[v]) \in local'[NodeOf[v]]),
             \A j \in Jobs : job'[j] = job[j] \/ (job'[j] = "FAILED" /\ job[j] \notin {"COMPLETED", "deleted"})
      PROVE  CopiesInv'
  <2>1. \A v \in Workers : /\ hand'[v] \in Jobs => v # w /\ hand'[v] = hand[v]
                           /\ pc'[v] # "idle" => v # w /\ pc'[v] = pc[v]
    BY <1>1, <1>8, BatchStorageAssumption DEF Idle, StorageTypeOK
  <2>2. \A v \in Workers : Live(v)' => Live(v) /\ v # w /\ hand'[v] = hand[v] /\ hand[v] \in Jobs
    BY <1>1, <1>8, <2>1 DEF Live, InHand, Idle, StorageTypeOK
  <2>3. RunsKeepTheirCopies'
    BY <1>8, <2>1, <2>2 DEF RunsKeepTheirCopies, Live
  <2>4. \A n \in Nodes : \A i \in Sight(n)' : job'[i] \in {"COMPLETED", "deleted"} \/ i \in crossed'
    BY <1>1, <1>8 DEF StorageTypeOK
  <2> QED BY <1>8, <2>1, <2>2, <2>3, <2>4
<1>9. ASSUME NEW w \in Workers, CleanAfterRun(w)
      PROVE  CopiesInv'
  <2>1. /\ Idle(w) /\ pc[w] = "clean"
        /\ local' = [local EXCEPT ![NodeOf[w]] = @ \ Folder({hand[w]})]
        /\ UNCHANGED <<job, scan, plan, crossed, ingest>>
    BY <1>9 DEF CleanAfterRun
  <2>2. \A v \in Workers \ {w} : pc[v] = "run" /\ hand[v] \notin crossed => hand[v] \in Jobs /\ hand[v] # hand[w]
    BY <1>1 DEF InHand
  <2>3. \A v \in Workers \ {w} : pc[v] = "run" /\ hand[v] \notin crossed => Input(hand[v]) \notin Folder({hand[w]})
    BY <2>2 DEF Folder, Input, Output
  <2>4. \A v \in Workers \ {w} : pc[v] = "run" /\ hand[v] \notin crossed =>
               (Input(hand[v]) \in local[NodeOf[v]] => Input(hand[v]) \in local'[NodeOf[v]])
    BY <1>1, <1>2, <2>1, <2>3 DEF StorageTypeOK
  <2> QED BY <1>8, <2>1, <2>4
<1>10. ASSUME NEW w \in Workers, RunFails(w)
       PROVE  CopiesInv'
  <2>1. /\ Idle(w) /\ UNCHANGED <<local, scan, plan, crossed, ingest>>
        /\ \A j \in Jobs : job'[j] = job[j] \/ (job'[j] = "FAILED" /\ job[j] \notin {"COMPLETED", "deleted"})
    BY <1>1, <1>10 DEF RunFails, StorageTypeOK
  <2> QED BY <1>8, <2>1
<1>11. ASSUME NEW w \in Workers, WorkerLost(w)
       PROVE  CopiesInv'
  BY <1>8, <1>11 DEF WorkerLost
<1>12. ASSUME NEW j \in Jobs, FailUnder(j) \/ Retry(j)
       PROVE  CopiesInv'
  <2>1. /\ UNCHANGED <<local, pc, hand, scan, plan, crossed, ingest>>
        /\ \A i \in Jobs : job'[i] = job[i] \/ (job'[i] # "COMPLETED" /\ job[i] \notin {"COMPLETED", "deleted"})
    BY <1>1, <1>12 DEF FailUnder, Retry, SetJob, StorageTypeOK
  <2> HIDE DEF CopiesInv
  <2> QED BY <2>1, CopiesFrame
<1>13. ASSUME NEW j \in Jobs, Reprocess(j)
       PROVE  CopiesInv'
  <2>1. /\ UNCHANGED <<local, pc, hand, scan, plan, ingest>>
        /\ job' = [job EXCEPT ![j] = "PENDING"]
        /\ crossed \subseteq crossed'
        /\ \A n \in Nodes : j \in Sight(n) => j \in crossed'
    BY <1>13 DEF Reprocess, SetJob
  <2>2. \A w \in Workers : Live(w)' <=> Live(w)
    BY <2>1 DEF Live
  <2>3. \A i \in Jobs : job'[i] = IF i = j THEN "PENDING" ELSE job[i]
    BY <1>1, <2>1 DEF StorageTypeOK
  <2>4. \A w \in Workers : Live(w)' /\ job'[hand'[w]] = "COMPLETED" => hand'[w] \in crossed'
    BY <1>1, <2>1, <2>2, <2>3 DEF InHand, Live
  <2>5. \A n \in Nodes : \A i \in Sight(n)' : job'[i] \in {"COMPLETED", "deleted"} \/ i \in crossed'
    BY <1>1, <2>1, <2>3 DEF StorageTypeOK
  <2> QED BY <2>1, <2>2, <2>4, <2>5 DEF RunsKeepTheirCopies
<1> QED BY <1>3, <1>4, <1>5, <1>6, <1>7, <1>9, <1>10, <1>11, <1>12, <1>13 DEF WorkAct, WorkerStep

LEMMA CopiesClean ==
  ASSUME StorageInv, CopiesInv, CleanAct
  PROVE  CopiesInv'
<1>1. StorageTypeOK /\ InHand
  BY DEF StorageInv, TypeInv
<1>2. UNCHANGED <<pc, hand, crossed, job, ingest>>
  BY CleanFrame DEF rowVars, history
<1>3. \A w \in Workers : Live(w)' <=> Live(w)
  BY <1>2 DEF Live
<1>4. ASSUME NEW n \in Nodes, CleanReads(n)
      PROVE  CopiesInv'
  <2>1. scan' = [scan EXCEPT ![n] = pages] /\ plan' = plan /\ local' = local /\ Finished
    BY <1>4 DEF CleanReads, fileVars
  <2>2. document = "committed" /\ \A j \in pages : job[j] = "COMPLETED"
    BY <2>1 DEF Finished
  <2>3. ingest = "done"
    BY <1>1, <2>2 DEF StorageInv, IngestInv, StorageTypeOK
  <2>4. \A m \in Nodes : Sight(m)' = Sight(m) \/ Sight(m)' = Sight(m) \cup pages
    BY <1>1, <2>1, <1>4 DEF StorageTypeOK, Sight, CleanReads
  <2> QED BY <1>2, <1>3, <2>1, <2>2, <2>3, <2>4 DEF CopiesInv, RunsKeepTheirCopies
<1>5. ASSUME NEW n \in Nodes, CleanPlans(n)
      PROVE  CopiesInv'
  <2>1. /\ plan' = [plan EXCEPT ![n] = Removable(n)] /\ scan' = [scan EXCEPT ![n] = {}]
        /\ local' = local
    BY <1>5 DEF CleanPlans, fileVars
  <2>2. Removable(n) \subseteq scan[n]
    BY DEF Removable
  <2>3. \A m \in Nodes : Sight(m)' \subseteq Sight(m)
    BY <1>1, <2>1, <2>2 DEF StorageTypeOK, Sight
  <2> QED BY <1>2, <2>1, <2>3, CopiesFrame
<1>6. ASSUME NEW n \in Nodes, CleanRemoves(n)
      PROVE  CopiesInv'
  <2>1. /\ plan' = [plan EXCEPT ![n] = {}] /\ scan' = scan
        /\ local' = [local EXCEPT ![n] = @ \ Folder(plan[n])]
    BY <1>6 DEF CleanRemoves
  <2>2. \A m \in Nodes : Sight(m)' \subseteq Sight(m)
    BY <1>1, <2>1 DEF StorageTypeOK, Sight
  <2>3. RunsKeepTheirCopies'
    <3>1. \A w \in Workers : pc[w] = "run" /\ hand[w] \notin crossed => hand[w] \notin plan[n]
      BY DEF CopiesInv, Live, Sight
    <3>2. \A w \in Workers : pc[w] = "run" /\ hand[w] \notin crossed => Input(hand[w]) \notin Folder(plan[n])
      BY <3>1 DEF Folder, Input, Output
    <3>3. \A w \in Workers : Input(hand[w]) \in local[NodeOf[w]] /\ Input(hand[w]) \notin Folder(plan[n])
                               => Input(hand[w]) \in local'[NodeOf[w]]
      BY <1>1, <2>1, BatchStorageAssumption DEF StorageTypeOK
    <3> QED BY <1>2, <3>2, <3>3 DEF CopiesInv, RunsKeepTheirCopies
  <2>4. \A m \in Nodes, w \in Workers : Live(w)' /\ hand'[w] \in Sight(m)' => hand'[w] \in crossed'
    BY <1>2, <1>3, <2>2 DEF CopiesInv
  <2>5. \A m \in Nodes : \A j \in Sight(m)' : job'[j] \in {"COMPLETED", "deleted"} \/ j \in crossed'
    BY <1>2, <2>2 DEF CopiesInv
  <2>6. \A m \in Nodes : Sight(m)' # {} => ingest' = "done"
    BY <1>2, <2>2 DEF CopiesInv
  <2> QED BY <1>2, <1>3, <2>3, <2>4, <2>5, <2>6 DEF CopiesInv
<1>7. ASSUME NEW n \in Nodes, CleanDies(n)
      PROVE  CopiesInv'
  <2>1. /\ local' = local
        /\ plan' = [plan EXCEPT ![n] = {}] /\ scan' = [scan EXCEPT ![n] = {}]
    BY <1>7 DEF CleanDies, fileVars
  <2>2. \A m \in Nodes : Sight(m)' \subseteq Sight(m)
    BY <1>1, <2>1 DEF StorageTypeOK, Sight
  <2> QED BY <1>2, <2>1, <2>2, CopiesFrame
<1> QED BY <1>4, <1>5, <1>6, <1>7 DEF CleanAct

LEMMA CopiesNext ==
  ASSUME StorageInv, CopiesInv, Next
  PROVE  CopiesInv'
<1>1. StorageTypeOK /\ InHand
  BY DEF StorageInv, TypeInv
<1>2. CASE IngestAct
  <2>1. UNCHANGED <<pc, hand>>
    BY <1>2, IngestFrame
  <2>2. UNCHANGED <<scan, plan, crossed>> /\ ingest # "done"
    BY <1>2 DEF IngestAct, IngestStores, IngestInserts, IngestCommits, IngestFails, history
  <2>3. \A w \in Workers : pc[w] # "run"
    BY <2>2 DEF StorageInv, RunInv
  <2>4. \A j \in Jobs : job'[j] = job[j] \/ (job'[j] # "COMPLETED" /\ job[j] # "COMPLETED")
    <3>1. CASE IngestCommits
      <4>1. \A j \in Jobs : ~ Row(j)
        BY <3>1 DEF IngestCommits, StorageInv, IngestInv
      <4> QED BY <3>1, <4>1 DEF IngestCommits, Row
    <3>2. CASE UNCHANGED job
      BY <3>2
    <3> QED BY <1>2, <3>1, <3>2 DEF IngestAct, IngestStores, IngestInserts, IngestFails
  <2> QED BY <2>1, <2>2, <2>3, <2>4, CopiesFrame DEF Sight
<1>3. CASE ExportAct \/ DeleteExportAct
  <2>1. UNCHANGED <<local, pc, hand, scan, plan, crossed, job, ingest>>
    BY <1>3 DEF ExportAct, DeleteExportAct, ExportInserts, ExportPuts, ExportCommits, ExportFails,
       ExportDies, DeleteExportReads, DeleteExportFile, DeleteExportRow, DeleteExportDies,
       rowVars, fileVars, workVars, history
  <2> QED BY <2>1, CopiesFrame DEF Sight
<1>4. CASE DeleteAct
  <2>1. UNCHANGED <<pc, hand, ingest, scan, plan, crossed>>
    BY <1>4 DEF DeleteAct, DeleteReads, DeleteJobs, DeleteCommits, DeleteFolders, DeleteDies,
       DeleteObject, workVars, history
  <2>2. \A j \in Jobs : job'[j] = job[j] \/ job'[j] = "deleted"
    BY <1>4, DeleteFrame DEF DeleteCommits
  <2>3. \A w \in Workers : local'[NodeOf[w]] = local[NodeOf[w]]
    <3>1. CASE UNCHANGED local
      BY <3>1
    <3>2. CASE DeleteFolders
      BY <1>1, <3>2, BatchStorageAssumption DEF DeleteFolders, StorageTypeOK
    <3> QED BY <1>4, <3>1, <3>2 DEF DeleteAct, DeleteReads, DeleteJobs, DeleteCommits, DeleteDies,
                DeleteObject, fileVars
  <2> QED BY <2>1, <2>2, <2>3, CopiesFrame DEF Sight
<1> QED BY <1>2, <1>3, <1>4, CopiesWork, CopiesClean, NextActs

-----------------------------------------------------------------------------
(* Theorems *)

\* Every variable keeps its type.
THEOREM StorageTypesHold == Spec => []StorageTypeOK
<1>1. StorageInv => StorageTypeOK
  BY DEF StorageInv, TypeInv
<1> QED BY <1>1, StorageInvHolds, PTL

\* A document that is there has its originals in object storage: a working copy is
\* never the last one, whatever node, run or cleanup removes it.
THEOREM OriginalsAlwaysStay == Spec => []OriginalsStay
<1>1. StorageInv => OriginalsStay
  BY DEF StorageInv
<1> QED BY <1>1, StorageInvHolds, PTL

\* A completed export has its file until a deletion of it begins.
THEOREM CompletedExportsHaveFiles == Spec => []CompletedExportHasFile
<1>1. StorageInv => CompletedExportHasFile
  BY DEF StorageInv
<1> QED BY <1>1, StorageInvHolds, PTL

\* A deletion leaves the inputs of split pages, the exports of a batch that stays,
\* and strays, in object storage: nothing else.
THEOREM DeletedFilesGo == Spec => []DeletedFilesAreGone
<1>1. StorageInv => DeletedFilesAreGone
  BY ObjectFacts DEF StorageInv, DeletedFilesAreGone, LeftBehind, IngestInv
<1> QED BY <1>1, StorageInvHolds, PTL

\* A job outlives the document it belongs to only if its ingest was committed
\* between the statements of the deletion.
THEOREM OrphansOnlyCameLate == Spec => []OrphansCameLate
<1>1. StorageInv => OrphansCameLate
  BY DEF StorageInv
<1> QED BY <1>1, StorageInvHolds, PTL

LEMMA CopiesHold == Spec => []CopiesInv
<1>1. Init => CopiesInv
  BY BatchStorageAssumption DEF Init, CopiesInv, Sight, Live, RunsKeepTheirCopies
<1>2. StorageInv /\ CopiesInv /\ [Next]_vars => CopiesInv'
  <2> SUFFICES ASSUME StorageInv, CopiesInv, [Next]_vars PROVE CopiesInv'
    OBVIOUS
  <2>1. CASE UNCHANGED vars
    BY <2>1, CopiesFrame DEF Sight, vars, rowVars, fileVars, workVars, history
  <2> QED BY <2>1, CopiesNext
<1> QED BY <1>1, <1>2, StorageInvHolds, PTL DEF Spec

\* A cleanup takes the working copies of a live run only if its job was reopened
\* after the cleanup had read its row, or has two runs: on any number of nodes, each
\* with as many workers, and however long the cleanup takes over its plan.
THEOREM CopiesOfLiveRunsStay == Spec => []RunsKeepTheirCopies
<1>1. CopiesInv => RunsKeepTheirCopies
  BY DEF CopiesInv
<1> QED BY <1>1, CopiesHold, PTL
=============================================================================
