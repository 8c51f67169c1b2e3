------------------------- MODULE SkippedFilesProof -------------------------
(***************************************************************************)
(* Proofs about SkippedFiles, for any number of files, reviewers, workers  *)
(* and mishaps: the types, that no file is forgotten, that none becomes    *)
(* two documents in turn, and that a reclassify has its files alone.       *)
(***************************************************************************)
EXTENDS SkippedFiles, TLAPS

\* Where a request or a run is says what it has in hand, and that a file which is
\* about to lose its entry has its document.
Held ==
  /\ \A r \in Reviewers : rpc[r] \in {"ingest", "remove", "queue", "submit"} => file[r] \in Files
  /\ \A r \in Reviewers : rpc[r] = "remove" => documents[file[r]] > 0
  /\ \A w \in Workers : pc[w] = "remove" => hand[w] \in Files /\ documents[hand[w]] > 0

SkippedInv == SkippedTypeOK /\ Held /\ NoFileForgotten

-----------------------------------------------------------------------------
(* Building blocks *)

LEMMA NumberTypes ==
  ASSUME SkippedTypeOK
  PROVE  /\ \A what : Spend(what) => left' \in Nat
         /\ \A t \in Task : Enqueue(t) \/ Dequeue(t) => queue' \in [Task -> 0 .. MaxQueue]
<1>1. ASSUME NEW what, Spend(what)
      PROVE  left' \in Nat
  <2>1. left \in Nat
    BY DEF SkippedTypeOK
  <2> QED BY <1>1, <2>1 DEF Spend
<1>2. ASSUME NEW t \in Task, Enqueue(t) \/ Dequeue(t)
      PROVE  queue' \in [Task -> 0 .. MaxQueue]
  <2>1. queue \in [Task -> 0 .. MaxQueue]
    BY DEF SkippedTypeOK
  <2> QED BY <1>2, <2>1, SkippedFilesAssumption DEF Enqueue, Dequeue
<1> QED BY <1>1, <1>2

LEMMA RefetchTypes ==
  ASSUME SkippedTypeOK, NEW fs, NEW to \in {"QUEUED", "IN_PROGRESS", "FAILED"}, SetRefetch(fs, to)
  PROVE  refetch' \in [Files -> Refetching \cup {"none", "FAILED"}]
BY DEF SkippedTypeOK, SetRefetch, Refetching

LEMMA MishapTypes ==
  ASSUME SkippedTypeOK, NEW fs
  PROVE  mishaps \cup Overwritten(fs) \subseteq {"straddled", "overwritten"}
BY DEF SkippedTypeOK, Overwritten

LEMMA RequestTypes ==
  ASSUME SkippedTypeOK, NEW r \in Reviewers, NEW f \in Files \cup {NoFile},
         NEW where \in {"idle", "ingest", "remove", "queue", "submit", "mark", "send"},
         At(r, where, f)
  PROVE  /\ rpc' \in [Reviewers -> {"idle", "ingest", "remove", "queue", "submit", "mark", "send"}]
         /\ file' \in [Reviewers -> Files \cup {NoFile}]
BY DEF SkippedTypeOK, At

LEMMA EndTypes ==
  ASSUME SkippedTypeOK, NEW w \in Workers, End(w)
  PROVE  /\ run' \in [Workers -> Task \cup {"idle"}]
         /\ pc' \in [Workers -> {"idle", "claim", "download", "classify", "settle", "remove"}]
         /\ todo' \in [Workers -> SUBSET Files] /\ got' \in [Workers -> SUBSET Files]
         /\ view' \in [Workers -> SUBSET Files] /\ hand' \in [Workers -> Files \cup {NoFile}]
BY DEF SkippedTypeOK, End

\* An ingest gives its file a document, and takes none away.
LEMMA Ingested ==
  ASSUME SkippedTypeOK, NEW f \in Files, Ingest(f)
  PROVE  /\ documents' \in [Files -> Nat]
         /\ documents'[f] > 0
         /\ \A g \in Files : documents[g] > 0 => documents'[g] > 0
<1>1. documents \in [Files -> Nat]
  BY DEF SkippedTypeOK
<1> QED BY <1>1 DEF Ingest

-----------------------------------------------------------------------------
(* Each action *)

\* A reviewer's request keeps the invariant.
LEMMA RequestInv ==
  ASSUME SkippedInv, NEW r \in Reviewers,
         \/ RequestStep(r) \/ Reclassify(r) \/ (\E f \in Files : Classify(r, f))
         \/ ClassifyRefused(r) \/ ClassifyDies(r)
         \/ SubmitRefetchFails(r) \/ SubmitReclassifyFails(r)
  PROVE  SkippedInv'
<1> USE SkippedFilesAssumption, NumberTypes, MishapTypes, RefetchTypes, RequestTypes
    DEF SkippedInv, linkVars, runVars
<1>1. CASE ClassifyIngests(r)
  <2>1. file[r] \in Files /\ Ingest(file[r]) /\ At(r, "remove", file[r])
    BY <1>1 DEF ClassifyIngests, Held
  <2>2. /\ documents' \in [Files -> Nat]
        /\ documents'[file[r]] > 0
        /\ \A g \in Files : documents[g] > 0 => documents'[g] > 0
    BY <2>1, Ingested
  <2>3. SkippedTypeOK'
    BY <1>1, <2>1, <2>2 DEF ClassifyIngests, SkippedTypeOK
  <2>4. Held'
    <3>1. rpc' = [rpc EXCEPT ![r] = "remove"] /\ file' = [file EXCEPT ![r] = file[r]]
          /\ pc' = pc /\ hand' = hand
      BY <1>1, <2>1 DEF ClassifyIngests, At
    <3>2. file' = file
      BY <3>1 DEF SkippedTypeOK
    <3> QED BY <2>1, <2>2, <3>1, <3>2 DEF SkippedTypeOK, Held
  <2>5. NoFileForgotten'
    BY <1>1, <2>2 DEF ClassifyIngests, NoFileForgotten
  <2> QED BY <2>3, <2>4, <2>5
<1>2. CASE ClassifyRemoves(r)
  <2>1. file[r] \in Files /\ documents[file[r]] > 0
    BY <1>2 DEF ClassifyRemoves, Held
  <2>2. SkippedTypeOK'
    BY <1>2, <2>1 DEF ClassifyRemoves, SkippedTypeOK, Done, At, Remove, EntryStatus
  <2>3. Held'
    BY <1>2 DEF ClassifyRemoves, SkippedTypeOK, Held, Done, At
  <2>4. NoFileForgotten'
    BY <1>2, <2>1 DEF ClassifyRemoves, NoFileForgotten, Remove, SkippedTypeOK
  <2> QED BY <2>2, <2>3, <2>4
<1>3. CASE QueueRefetch(r)
  <2>1. file[r] \in Files
    BY <1>3 DEF QueueRefetch, Held
  <2> QED BY <1>3, <2>1 DEF QueueRefetch, SkippedTypeOK, Held, NoFileForgotten, At
<1>4. CASE SubmitRefetch(r)
  BY <1>4 DEF SubmitRefetch, SkippedTypeOK, Held, NoFileForgotten, Done, At, Task
<1>5. CASE MarkFetching(r)
  BY <1>5 DEF MarkFetching, SkippedTypeOK, Held, NoFileForgotten, At
<1>6. CASE SubmitReclassify(r)
  BY <1>6 DEF SubmitReclassify, SkippedTypeOK, Held, NoFileForgotten, Done, At, Task
<1>7. CASE Reclassify(r)
  BY <1>7 DEF Reclassify, SkippedTypeOK, Held, NoFileForgotten, At
<1>8. ASSUME NEW f \in Files, Classify(r, f)
      PROVE  SkippedInv'
  <2>1. raced' \subseteq Files
    BY <1>8 DEF Classify, Taken, SkippedTypeOK
  <2>2. PICK where \in {"ingest", "queue"} : At(r, where, f)
    BY <1>8 DEF Classify
  <2>3. /\ rpc' \in [Reviewers -> {"idle", "ingest", "remove", "queue", "submit", "mark", "send"}]
        /\ file' \in [Reviewers -> Files \cup {NoFile}]
    BY <2>2 DEF At, SkippedTypeOK
  <2> QED BY <1>8, <2>1, <2>2, <2>3 DEF Classify, SkippedTypeOK, Held, NoFileForgotten, At
<1>9. CASE ClassifyRefused(r)
  BY <1>9 DEF ClassifyRefused, SkippedTypeOK, Held, NoFileForgotten, Done, At
<1>10. CASE ClassifyDies(r)
  <2>1. file[r] \in Files
    BY <1>10 DEF ClassifyDies, Held
  <2> QED BY <1>10, <2>1 DEF ClassifyDies, SkippedTypeOK, Held, NoFileForgotten, Done, At
<1>11. CASE SubmitRefetchFails(r)
  BY <1>11 DEF SubmitRefetchFails, SkippedTypeOK, Held, NoFileForgotten, Done, At
<1>12. CASE SubmitReclassifyFails(r)
  BY <1>12 DEF SubmitReclassifyFails, SkippedTypeOK, Held, NoFileForgotten, Done, At
<1> QED BY <1>1, <1>2, <1>3, <1>4, <1>5, <1>6, <1>7, <1>8, <1>9, <1>10, <1>11, <1>12 DEF RequestStep

\* A run's step.
LEMMA RunInv ==
  ASSUME SkippedInv, NEW w \in Workers, RunStep(w) \/ RefetchFails(w) \/ WorkerLost(w)
  PROVE  SkippedInv'
<1> USE SkippedFilesAssumption, NumberTypes, MishapTypes, RefetchTypes, EndTypes
    DEF SkippedInv, linkVars, reqVars
<1>1. CASE StartRefetch(w)
  <2>1. PICK files \in SUBSET Files : /\ Start(w, "refetch", "claim", files)
                                      /\ mishaps' = mishaps \cup Overwritten(files)
    BY <1>1 DEF StartRefetch, Entries
  <2>2. /\ run' \in [Workers -> Task \cup {"idle"}]
        /\ pc' \in [Workers -> {"idle", "claim", "download", "classify", "settle", "remove"}]
        /\ todo' \in [Workers -> SUBSET Files] /\ UNCHANGED <<got, view, hand>>
    BY <2>1 DEF Start, SkippedTypeOK, Task
  <2>3. raced' \subseteq Files
    BY <2>1 DEF Start, Taken, SkippedTypeOK
  <2>4. queue' \in [Task -> 0 .. MaxQueue]
    BY <2>1 DEF Start, SkippedTypeOK, Task
  <2>5. UNCHANGED <<linkVars, reqVars, sweep, left>>
    BY <1>1 DEF StartRefetch
  <2>6. Held'
    BY <2>1, <2>2, <2>5 DEF Start, Held, SkippedTypeOK
  <2> QED BY <2>1, <2>2, <2>3, <2>4, <2>5, <2>6 DEF SkippedTypeOK, NoFileForgotten
<1>2. CASE Claim(w)
  <2>1. SkippedTypeOK'
    BY <1>2 DEF Claim, Goto, SkippedTypeOK
  <2> QED BY <1>2, <2>1 DEF Claim, Goto, End, Held, NoFileForgotten, SkippedTypeOK
<1>3. CASE Download(w)
  BY <1>3 DEF Download, Goto, Entries, SkippedTypeOK, Held, NoFileForgotten
<1>4. CASE FinishRefetch(w)
  <2>1. SkippedTypeOK'
    BY <1>4 DEF FinishRefetch, SkippedTypeOK
  <2> QED BY <1>4, <2>1 DEF FinishRefetch, End, Held, NoFileForgotten, SkippedTypeOK
<1>5. CASE StartReclassify(w)
  BY <1>5 DEF StartReclassify, Start, Taken, SkippedTypeOK, Held, NoFileForgotten, Task
<1>6. CASE StartIngesting(w)
  BY <1>6 DEF StartIngesting, Goto, Entries, SkippedTypeOK, Held, NoFileForgotten
<1>7. CASE FinishReclassify(w)
  <2>1. SkippedTypeOK'
    BY <1>7 DEF FinishReclassify, SkippedTypeOK
  <2> QED BY <1>7, <2>1 DEF FinishReclassify, End, Held, NoFileForgotten, SkippedTypeOK
<1>8. CASE RunRemoves(w)
  <2>1. hand[w] \in Files /\ documents[hand[w]] > 0
    BY <1>8 DEF RunRemoves, Held
  <2>2. SkippedTypeOK'
    BY <1>8, <2>1 DEF RunRemoves, Goto, Remove, Entries, SkippedTypeOK, EntryStatus
  <2>3. Held'
    BY <1>8 DEF RunRemoves, Goto, Held, SkippedTypeOK
  <2>4. NoFileForgotten'
    BY <1>8, <2>1 DEF RunRemoves, Remove, NoFileForgotten, SkippedTypeOK
  <2> QED BY <2>2, <2>3, <2>4
<1>9. ASSUME NEW f \in Files, SkipGone(w, f)
      PROVE  SkippedInv'
  BY <1>9 DEF SkipGone, Settle, SkippedTypeOK, Held, NoFileForgotten
<1>10. ASSUME NEW f \in Files, SettleFails(w, f)
       PROVE  SkippedInv'
  BY <1>10 DEF SettleFails, Settle, SkippedTypeOK, Held, NoFileForgotten
<1>11. ASSUME NEW f \in Files, RunIngests(w, f)
       PROVE  SkippedInv'
  <2>1. /\ documents' \in [Files -> Nat]
        /\ documents'[f] > 0
        /\ \A g \in Files : documents[g] > 0 => documents'[g] > 0
    BY <1>11, Ingested DEF RunIngests
  <2>2. SkippedTypeOK'
    BY <1>11, <2>1 DEF RunIngests, Settle, Goto, SkippedTypeOK
  <2>3. Held'
    BY <1>11, <2>1 DEF RunIngests, Goto, Held, SkippedTypeOK
  <2>4. NoFileForgotten'
    BY <1>11, <2>1 DEF RunIngests, NoFileForgotten
  <2> QED BY <2>2, <2>3, <2>4
<1>12. ASSUME NEW f \in Files, Unclassified(w, f)
       PROVE  SkippedInv'
  BY <1>12 DEF Unclassified, Untodo, Settle, SkippedTypeOK, Held, NoFileForgotten
<1>13. ASSUME NEW f \in Files, AlreadyIngested(w, f)
       PROVE  SkippedInv'
  <2>1. SkippedTypeOK'
    BY <1>13 DEF AlreadyIngested, Remove, Untodo, Settle, SkippedTypeOK, EntryStatus
  <2> QED BY <1>13, <2>1 DEF AlreadyIngested, Remove, Untodo, Held, NoFileForgotten, SkippedTypeOK
<1>14. ASSUME NEW f \in Files, ClassifyAgain(w, f)
       PROVE  SkippedInv'
  BY <1>14 DEF ClassifyAgain, SkippedTypeOK, Held, NoFileForgotten
<1>15. ASSUME NEW f \in Files, KeepSkipped(w, f)
       PROVE  SkippedInv'
  <2>1. entry' \in [Files -> EntryStatus] /\ \A g \in Files : entry'[g] = "none" => entry[g] = "none"
    BY <1>15 DEF KeepSkipped, SkippedTypeOK, EntryStatus, Reclassifiable, Settled
  <2> QED BY <1>15, <2>1 DEF KeepSkipped, Untodo, Settle, SkippedTypeOK, Held, NoFileForgotten
<1>16. ASSUME NEW f \in Files, DuplicateFound(w, f)
       PROVE  SkippedInv'
  <2>1. entry' \in [Files -> EntryStatus] /\ \A g \in Files : entry'[g] = "none" => entry[g] = "none"
    BY <1>16 DEF DuplicateFound, SkippedTypeOK, EntryStatus, Reclassifiable, Settled
  <2> QED BY <1>16, <2>1 DEF DuplicateFound, Untodo, Settle, SkippedTypeOK, Held, NoFileForgotten
<1>17. CASE RefetchFails(w)
  <2>1. SkippedTypeOK'
    BY <1>17 DEF RefetchFails, SkippedTypeOK
  <2> QED BY <1>17, <2>1 DEF RefetchFails, End, Held, NoFileForgotten, SkippedTypeOK
<1>18. CASE WorkerLost(w)
  <2>1. run[w] \in Task /\ raced' \subseteq Files
    BY <1>18 DEF WorkerLost, SkippedTypeOK
  <2>2. SkippedTypeOK'
    BY <1>18, <2>1 DEF WorkerLost, SkippedTypeOK
  <2> QED BY <1>18, <2>2 DEF WorkerLost, End, Held, NoFileForgotten, SkippedTypeOK
<1> QED BY <1>1, <1>2, <1>3, <1>4, <1>5, <1>6, <1>7, <1>8, <1>9, <1>10, <1>11, <1>12,
           <1>13, <1>14, <1>15, <1>16, <1>17, <1>18 DEF RunStep

\* The sweep, and a lost message.
LEMMA SweepInv ==
  ASSUME SkippedInv, TaskLost \/ SweepReads \/ SweepWrites
  PROVE  SkippedInv'
<1> USE SkippedFilesAssumption, NumberTypes, MishapTypes, RefetchTypes
    DEF SkippedInv, linkVars, reqVars, runVars
<1>1. CASE TaskLost
  BY <1>1 DEF TaskLost, Task, SkippedTypeOK, Held, NoFileForgotten
<1>2. CASE SweepReads
  BY <1>2 DEF SweepReads, SkippedTypeOK, Held, NoFileForgotten
<1>3. CASE SweepWrites
  BY <1>3 DEF SweepWrites, SkippedTypeOK, Held, NoFileForgotten
<1> QED BY <1>1, <1>2, <1>3

-----------------------------------------------------------------------------
(* Who has a file in hand *)

Asked(r, f) == file[r] = f /\ rpc[r] \in {"ingest", "remove"}
Works(w, f) == f \in todo[w] \/ hand[w] = f

\* A worker between two runs has nothing, and only one about to remove an entry has
\* a document in hand.
WorkInv ==
  \A w \in Workers : /\ run[w] = "idle" <=> pc[w] = "idle"
                     /\ run[w] = "idle" => todo[w] = {}
                     /\ pc[w] # "remove" => hand[w] = NoFile
                     /\ pc[w] \in {"claim", "download"} => run[w] = "refetch"
                     /\ pc[w] = "classify" => run[w] = "reclassify"

\* A file that has never been in two hands: one has it at most, it has no document
\* before that one ingests it, and once it has one its entry goes.
OnceFor(f) ==
  /\ \A q, r \in Reviewers : Asked(q, f) /\ Asked(r, f) => q = r
  /\ \A v, w \in Workers : Works(v, f) /\ Works(w, f) => v = w
  /\ \A r \in Reviewers, w \in Workers : ~ (Asked(r, f) /\ Works(w, f))
  /\ documents[f] <= 1
  /\ \A r \in Reviewers : file[r] = f /\ rpc[r] = "ingest" => documents[f] = 0
  /\ \A w \in Workers : f \in todo[w] => documents[f] = 0
  /\ documents[f] > 0 => \/ entry[f] = "none"
                         \/ \E r \in Reviewers : file[r] = f /\ rpc[r] = "remove"
                         \/ \E w \in Workers : hand[w] = f

OnceInv == WorkInv /\ \A f \in Files \ raced : OnceFor(f)

\* At most one reclassify of the link is in flight, as a request that is about to
\* send it, a message or a run.  The link is FETCHING meanwhile, and then no other
\* request is under way.
FlightInv ==
  /\ \A r \in Reviewers : rpc[r] = "mark" => status = "FETCHED"
  /\ \A r \in Reviewers : rpc[r] = "send" => status = "FETCHING"
  /\ \A w \in Workers : run[w] = "reclassify" => status = "FETCHING"
  /\ queue["reclassify"] > 0 => status = "FETCHING"
  /\ status = "FETCHING" => \A r \in Reviewers : rpc[r] \in {"idle", "send"}
  /\ queue["reclassify"] <= 1
  /\ \A q, r \in Reviewers : rpc[q] = "send" /\ rpc[r] = "send" => q = r
  /\ \A v, w \in Workers : run[v] = "reclassify" /\ run[w] = "reclassify" => v = w
  /\ \A r \in Reviewers : rpc[r] = "send" => queue["reclassify"] = 0
  /\ \A w \in Workers : run[w] = "reclassify" => queue["reclassify"] = 0
  /\ \A r \in Reviewers, w \in Workers : ~ (rpc[r] = "send" /\ run[w] = "reclassify")

\* A file that is downloaded again says so, and only that run has it; one that is
\* classified again does not.
ApartInv ==
  /\ \A f \in Files, w \in Workers : Works(w, f) /\ run[w] = "refetch" =>
        /\ refetch[f] \in Refetching \/ entry[f] = "none"
        /\ \A v \in Workers : Works(v, f) => v = w
  /\ \A f \in Files, w \in Workers :
        Works(w, f) /\ run[w] = "reclassify" => refetch[f] \notin Refetching

\* So it is as long as nothing has slipped past a check.
AloneInv == mishaps = {} => FlightInv /\ ApartInv

\* A step that adds no hand and no document, and drops a hand about to remove an
\* entry only with the entry, keeps a file in one hand.
LEMMA OnceFrame ==
  ASSUME SkippedTypeOK, OnceInv, NEW f \in Files, f \notin raced', raced \subseteq raced',
         documents'[f] = documents[f],
         entry[f] = "none" => entry'[f] = "none",
         \A r \in Reviewers :
           /\ file'[r] = f /\ rpc'[r] = "ingest" => file[r] = f /\ rpc[r] = "ingest"
           /\ file'[r] = f /\ rpc'[r] = "remove" => file[r] = f /\ rpc[r] = "remove"
           /\ file[r] = f /\ rpc[r] = "remove" =>
                (file'[r] = f /\ rpc'[r] = "remove") \/ entry'[f] = "none",
         \A w \in Workers :
           /\ f \in todo'[w] => f \in todo[w]
           /\ hand'[w] = f => hand[w] = f
           /\ hand[w] = f => hand'[w] = f \/ entry'[f] = "none"
  PROVE  OnceFor(f)'
<1>1. OnceFor(f)
  BY DEF OnceInv
<1>2. \A r \in Reviewers : Asked(r, f)' => Asked(r, f)
  BY DEF Asked
<1>3. \A w \in Workers : Works(w, f)' => Works(w, f)
  BY DEF Works
<1> QED BY <1>1, <1>2, <1>3 DEF OnceFor

\* A step that takes a file nobody had, and that has its entry, begins well.
LEMMA NobodyHas ==
  ASSUME OnceInv, SkippedInv, NEW f \in Files, f \notin raced, entry[f] # "none",
         \A r \in Reviewers : ~ Asked(r, f), \A w \in Workers : ~ Works(w, f)
  PROVE  documents[f] = 0
<1>1. OnceFor(f) /\ documents[f] \in Nat
  BY DEF OnceInv, SkippedInv, SkippedTypeOK
<1> QED BY <1>1 DEF OnceFor, Asked, Works

\* What is in no hand is what InHand says.
LEMMA HandsOf ==
  ASSUME SkippedTypeOK, WorkInv, NEW f \in Files, ~ InHand(f)
  PROVE  /\ \A r \in Reviewers : ~ Asked(r, f)
         /\ \A w \in Workers : ~ Works(w, f)
<1>1. ASSUME NEW w \in Workers, Works(w, f)
      PROVE  FALSE
  <2>1. f # NoFile
    BY SkippedFilesAssumption
  <2>2. run[w] # "idle"
    BY <1>1, <2>1 DEF Works, WorkInv
  <2>3. run[w] \in Task
    BY <2>2 DEF SkippedTypeOK
  <2> QED BY <1>1, <2>3 DEF Works, InHand, Worked
<1> QED BY <1>1 DEF InHand, Requested, Asked

LEMMA WorkNext ==
  ASSUME SkippedInv, WorkInv, Next
  PROVE  WorkInv'
<1> USE DEF WorkInv, SkippedInv, SkippedTypeOK
<1>1. CASE UNCHANGED runVars
  BY <1>1 DEF runVars
<1>2. ASSUME NEW r \in Reviewers,
             \/ RequestStep(r) \/ Reclassify(r) \/ (\E f \in Files : Classify(r, f))
             \/ ClassifyRefused(r) \/ ClassifyDies(r)
             \/ SubmitRefetchFails(r) \/ SubmitReclassifyFails(r)
      PROVE  UNCHANGED runVars
  BY <1>2 DEF RequestStep, Reclassify, Classify, ClassifyRefused, ClassifyDies, SubmitRefetchFails,
     SubmitReclassifyFails, ClassifyIngests, ClassifyRemoves, QueueRefetch, SubmitRefetch,
     MarkFetching, SubmitReclassify
<1>3. CASE TaskLost \/ SweepReads \/ SweepWrites
  BY <1>1, <1>3 DEF TaskLost, SweepReads, SweepWrites
<1>4. ASSUME NEW w \in Workers, End(w)
      PROVE  WorkInv'
  BY <1>4 DEF End
<1>5. ASSUME NEW w \in Workers, NEW files,
             \/ Start(w, "refetch", "claim", files)
             \/ Start(w, "reclassify", "classify", files)
      PROVE  WorkInv'
  BY <1>5 DEF Start
<1>6. ASSUME NEW w \in Workers, RefetchFails(w) \/ WorkerLost(w) \/ FinishRefetch(w) \/ FinishReclassify(w)
      PROVE  WorkInv'
  BY <1>4, <1>6 DEF RefetchFails, WorkerLost, FinishRefetch, FinishReclassify
<1>7. ASSUME NEW w \in Workers, StartRefetch(w) \/ StartReclassify(w)
      PROVE  WorkInv'
  BY <1>5, <1>7 DEF StartRefetch, StartReclassify, Task
<1>8. ASSUME NEW w \in Workers, Claim(w)
      PROVE  WorkInv'
  BY <1>4, <1>8 DEF Claim, Goto
<1>9. ASSUME NEW w \in Workers, Download(w) \/ StartIngesting(w) \/ RunRemoves(w)
      PROVE  WorkInv'
  BY <1>9 DEF Download, StartIngesting, RunRemoves, Goto
<1>10. ASSUME NEW w \in Workers, NEW f \in Files,
              \/ SkipGone(w, f) \/ SettleFails(w, f) \/ RunIngests(w, f)
              \/ Unclassified(w, f) \/ AlreadyIngested(w, f) \/ ClassifyAgain(w, f)
              \/ DuplicateFound(w, f) \/ KeepSkipped(w, f)
       PROVE  WorkInv'
  BY <1>10 DEF SkipGone, SettleFails, RunIngests, Unclassified, AlreadyIngested, ClassifyAgain,
     DuplicateFound, KeepSkipped, Untodo, Settle, Goto
<1> QED BY <1>1, <1>2, <1>3, <1>6, <1>7, <1>8, <1>9, <1>10 DEF Next, RunStep

\* A request's step keeps every file that is still alone in one hand.
LEMMA OnceRequest ==
  ASSUME SkippedInv, OnceInv, NEW r \in Reviewers,
         \/ RequestStep(r) \/ Reclassify(r) \/ (\E g \in Files : Classify(r, g))
         \/ ClassifyRefused(r) \/ ClassifyDies(r)
         \/ SubmitRefetchFails(r) \/ SubmitReclassifyFails(r),
         NEW f \in Files, f \notin raced'
  PROVE  OnceFor(f)'
<1>1. SkippedTypeOK /\ f # NoFile
  BY SkippedFilesAssumption DEF SkippedInv
<1>2. CASE ClassifyIngests(r)
  <2>1. file[r] \in Files /\ f \notin raced
    BY <1>2 DEF ClassifyIngests, SkippedInv, Held
  <2>2. OnceFor(f)
    BY <2>1 DEF OnceInv
  <2>3. /\ rpc[r] = "ingest"
        /\ rpc' = [rpc EXCEPT ![r] = "remove"] /\ file' = file
        /\ UNCHANGED <<entry, todo, hand>>
    BY <1>1, <1>2 DEF ClassifyIngests, At, SkippedTypeOK, runVars
  <2>4. documents'[f] = IF f = file[r] THEN documents[f] + 1 ELSE documents[f]
    BY <1>1, <1>2 DEF ClassifyIngests, Ingest, SkippedTypeOK
  <2>5. \A q \in Reviewers : Asked(q, f)' <=> Asked(q, f)
    BY <1>1, <2>3 DEF Asked, SkippedTypeOK
  <2>6. \A w \in Workers : Works(w, f)' <=> Works(w, f)
    BY <2>3 DEF Works
  <2>7. CASE file[r] = f
    <3>1. Asked(r, f) /\ documents[f] = 0
      BY <2>2, <2>3, <2>7 DEF OnceFor, Asked
    <3>2. documents'[f] = 1 /\ file'[r] = f /\ rpc'[r] = "remove"
      BY <1>1, <2>3, <2>4, <2>7, <3>1 DEF SkippedTypeOK
    <3>3. \A q \in Reviewers : Asked(q, f)' => q = r
      BY <2>2, <2>5, <3>1 DEF OnceFor
    <3>4. \A w \in Workers : ~ Works(w, f)'
      BY <2>2, <2>6, <3>1 DEF OnceFor
    <3> QED BY <3>2, <3>3, <3>4 DEF OnceFor, Asked, Works
  <2>8. CASE file[r] # f
    <3>1. documents'[f] = documents[f] /\ raced' = raced
      BY <1>2, <2>4, <2>8 DEF ClassifyIngests
    <3>2. \A q \in Reviewers : file[q] = f => rpc'[q] = rpc[q]
      BY <1>1, <2>3, <2>8 DEF SkippedTypeOK
    <3> QED BY <1>1, <2>3, <3>1, <3>2, OnceFrame
  <2> QED BY <2>7, <2>8
<1>3. ASSUME NEW g \in Files, Classify(r, g)
      PROVE  OnceFor(f)'
  <2>1. /\ rpc[r] = "idle"
        /\ UNCHANGED <<entry, documents, todo, hand>>
        /\ raced \subseteq raced'
        /\ Classifiable(g)
    BY <1>3 DEF Classify, Taken, linkVars, runVars
  <2>2. CASE g = f /\ f \in kept
    <3>1. At(r, "ingest", f) /\ ~ InHand(f) /\ f \notin raced
      BY <1>3, <2>2 DEF Classify, Taken
    <3>2. /\ \A q \in Reviewers : ~ Asked(q, f)
          /\ \A w \in Workers : ~ Works(w, f)
      BY <1>1, <3>1, HandsOf DEF OnceInv
    <3>3. documents[f] = 0
      BY <2>1, <2>2, <3>1, <3>2, NobodyHas DEF Classifiable
    <3>4. \A q \in Reviewers : Asked(q, f)' => q = r
      BY <1>1, <3>1, <3>2 DEF Asked, At, SkippedTypeOK
    <3>5. \A w \in Workers : ~ Works(w, f)'
      BY <2>1, <3>2 DEF Works
    <3> QED BY <2>1, <3>3, <3>4, <3>5 DEF OnceFor, Works
  <2>3. CASE ~ (g = f /\ f \in kept)
    <3>1. \A q \in Reviewers : file'[q] = f /\ rpc'[q] \in {"ingest", "remove"} => q # r
      BY <1>1, <1>3, <2>3 DEF Classify, At, SkippedTypeOK
    <3>2. \A q \in Reviewers \ {r} : file'[q] = file[q] /\ rpc'[q] = rpc[q]
      BY <1>1, <1>3 DEF Classify, At, SkippedTypeOK
    <3> QED BY <1>1, <2>1, <3>1, <3>2, OnceFrame
  <2> QED BY <2>2, <2>3
<1>4. CASE ClassifyRemoves(r)
  <2>1. /\ entry' = [entry EXCEPT ![file[r]] = "none"] /\ file[r] \in Files
        /\ rpc' = [rpc EXCEPT ![r] = "idle"] /\ file' = [file EXCEPT ![r] = NoFile]
        /\ UNCHANGED <<documents, raced, todo, hand>>
    BY <1>4 DEF ClassifyRemoves, Remove, Done, At, runVars, SkippedInv, Held
  <2> QED BY <1>1, <2>1, OnceFrame DEF SkippedTypeOK
<1>5. CASE ClassifyDies(r)
  <2>1. /\ rpc' = [rpc EXCEPT ![r] = "idle"] /\ file' = [file EXCEPT ![r] = NoFile]
        /\ UNCHANGED <<entry, documents, todo, hand>> /\ raced' = raced \cup {file[r]}
    BY <1>5 DEF ClassifyDies, Done, At, linkVars, runVars
  <2> QED BY <1>1, <2>1, OnceFrame DEF SkippedTypeOK
<1>6. CASE ClassifyRefused(r)
  <2>1. /\ rpc' = [rpc EXCEPT ![r] = "idle"] /\ file' = [file EXCEPT ![r] = NoFile]
        /\ UNCHANGED <<entry, documents, todo, hand, raced>> /\ rpc[r] = "ingest"
    BY <1>6 DEF ClassifyRefused, Done, At, linkVars, runVars
  <2> QED BY <1>1, <2>1, OnceFrame DEF SkippedTypeOK
<1>7. CASE \/ QueueRefetch(r) \/ SubmitRefetch(r) \/ SubmitRefetchFails(r) \/ Reclassify(r)
           \/ MarkFetching(r) \/ SubmitReclassify(r) \/ SubmitReclassifyFails(r)
  <2>1. /\ rpc[r] \in {"queue", "submit", "idle", "mark", "send"}
        /\ UNCHANGED <<entry, documents, todo, hand, raced>>
    BY <1>7 DEF QueueRefetch, SubmitRefetch, SubmitRefetchFails, Reclassify, MarkFetching,
       SubmitReclassify, SubmitReclassifyFails, linkVars, runVars
  <2>2. PICK where \in {"submit", "idle", "mark", "send"}, g \in Files \cup {NoFile} : At(r, where, g)
    BY <1>1, <1>7 DEF QueueRefetch, SubmitRefetch, SubmitRefetchFails, Reclassify, MarkFetching,
       SubmitReclassify, SubmitReclassifyFails, Done, SkippedTypeOK
  <2>3. /\ rpc' = [rpc EXCEPT ![r] = where] /\ file' = [file EXCEPT ![r] = g]
    BY <2>2 DEF At
  <2> QED BY <1>1, <2>1, <2>3, OnceFrame DEF SkippedTypeOK
<1> QED BY <1>2, <1>3, <1>4, <1>5, <1>6, <1>7 DEF RequestStep

\* A run that ends without a file in hand gives up those it had still to settle.
LEMMA OnceEnd ==
  ASSUME SkippedTypeOK, OnceInv, NEW w \in Workers, End(w), NEW f \in Files, f \notin raced',
         hand[w] # f, UNCHANGED <<entry, documents, reqVars>>, raced \subseteq raced'
  PROVE  OnceFor(f)'
<1>1. \A v \in Workers : todo'[v] \subseteq todo[v]
  BY DEF End, SkippedTypeOK
<1>2. \A v \in Workers : (hand'[v] = f => hand[v] = f) /\ (hand[v] = f => hand'[v] = f)
  BY SkippedFilesAssumption DEF End, SkippedTypeOK
<1>3. rpc' = rpc /\ file' = file /\ documents'[f] = documents[f] /\ entry' = entry
  BY DEF reqVars
<1> QED BY <1>1, <1>2, <1>3, OnceFrame

\* A run takes no file that another has in hand.
LEMMA OnceStart ==
  ASSUME SkippedInv, OnceInv, NEW w \in Workers, NEW t \in Task, NEW where, NEW files \in SUBSET Entries,
         Start(w, t, where, files), UNCHANGED <<entry, documents, reqVars>>,
         NEW f \in Files, f \notin raced'
  PROVE  OnceFor(f)'
<1>1. SkippedTypeOK /\ f # NoFile
  BY SkippedFilesAssumption DEF SkippedInv
<1>2. /\ todo' = [todo EXCEPT ![w] = files] /\ hand' = hand
      /\ raced \subseteq raced' /\ rpc' = rpc /\ file' = file
  BY DEF Start, Taken, reqVars
<1>3. CASE f \in files
  <2>1. ~ InHand(f) /\ f \notin raced /\ entry[f] # "none"
    BY <1>3 DEF Start, Taken, Entries
  <2>2. /\ \A q \in Reviewers : ~ Asked(q, f)
        /\ \A v \in Workers : ~ Works(v, f)
    BY <1>1, <2>1, HandsOf DEF OnceInv
  <2>3. documents[f] = 0
    BY <2>1, <2>2, NobodyHas
  <2>4. \A v \in Workers : Works(v, f)' => v = w
    BY <1>1, <1>2, <2>2 DEF Works, SkippedTypeOK
  <2>5. \A q \in Reviewers : ~ Asked(q, f)'
    BY <1>2, <2>2 DEF Asked
  <2> QED BY <2>3, <2>4, <2>5 DEF OnceFor, Asked
<1>4. CASE f \notin files
  BY <1>1, <1>2, <1>4, OnceFrame DEF SkippedTypeOK
<1> QED BY <1>3, <1>4

\* A run's step keeps every file that is still alone in one hand.
LEMMA OnceRun ==
  ASSUME SkippedInv, OnceInv, NEW w \in Workers, RunStep(w) \/ RefetchFails(w) \/ WorkerLost(w),
         NEW f \in Files, f \notin raced'
  PROVE  OnceFor(f)'
<1>1. SkippedTypeOK /\ f # NoFile /\ WorkInv
  BY SkippedFilesAssumption DEF SkippedInv, OnceInv
<1>2. CASE StartRefetch(w)
  <2>1. PICK files \in SUBSET Entries : Start(w, "refetch", "claim", files)
    BY <1>2 DEF StartRefetch
  <2> QED BY <1>2, <2>1, OnceStart DEF StartRefetch, Task, linkVars
<1>3. CASE StartReclassify(w)
  <2>1. PICK files \in SUBSET Entries : Start(w, "reclassify", "classify", files)
    BY <1>3 DEF StartReclassify, CanReclassify, Entries, Reclassifiable
  <2> QED BY <1>3, <2>1, OnceStart DEF StartReclassify, Task, linkVars
<1>4. CASE FinishRefetch(w) \/ FinishReclassify(w) \/ RefetchFails(w)
  <2>1. End(w) /\ UNCHANGED <<entry, documents, reqVars, raced>>
    BY <1>4 DEF FinishRefetch, FinishReclassify, RefetchFails, linkVars
  <2>2. hand[w] # f
    BY <1>1, <1>4 DEF FinishRefetch, FinishReclassify, RefetchFails, WorkInv
  <2> QED BY <1>1, <2>1, <2>2, OnceEnd
<1>5. CASE WorkerLost(w)
  <2>1. End(w) /\ UNCHANGED <<entry, documents, reqVars>> /\ raced' = raced \cup ({hand[w]} \cap Files)
    BY <1>5 DEF WorkerLost, linkVars
  <2> QED BY <1>1, <2>1, OnceEnd
<1>6. CASE Claim(w)
  <2>1. UNCHANGED <<entry, documents, reqVars, raced>> /\ hand[w] # f
    BY <1>1, <1>6 DEF Claim, WorkInv
  <2>2. CASE End(w)
    BY <1>1, <2>1, <2>2, OnceEnd
  <2>3. CASE UNCHANGED <<todo, hand>>
    BY <1>1, <2>1, <2>3, OnceFrame DEF reqVars
  <2> QED BY <1>6, <2>2, <2>3 DEF Claim
<1>7. CASE Download(w) \/ StartIngesting(w) \/ \E g \in Files : ClassifyAgain(w, g)
  <2>1. UNCHANGED <<entry, documents, raced, rpc, file, todo, hand>>
    BY <1>7 DEF Download, StartIngesting, ClassifyAgain, linkVars, reqVars
  <2> QED BY <1>1, <2>1, OnceFrame
<1>8. ASSUME NEW g \in Files, \/ SkipGone(w, g) \/ SettleFails(w, g) \/ Unclassified(w, g)
                              \/ DuplicateFound(w, g) \/ KeepSkipped(w, g)
      PROVE  OnceFor(f)'
  <2>1. UNCHANGED <<documents, raced, rpc, file, hand>> /\ todo' = [todo EXCEPT ![w] = @ \ {g}]
    BY <1>8 DEF SkipGone, SettleFails, Unclassified, DuplicateFound, KeepSkipped, Settle, Untodo,
       linkVars, reqVars
  <2>2. entry[f] = "none" => entry'[f] = "none"
    BY <1>1, <1>8 DEF SkipGone, SettleFails, Unclassified, DuplicateFound, KeepSkipped, linkVars,
       SkippedTypeOK
  <2> QED BY <1>1, <2>1, <2>2, OnceFrame DEF SkippedTypeOK
<1>9. ASSUME NEW g \in Files, AlreadyIngested(w, g)
      PROVE  OnceFor(f)'
  <2>1. /\ UNCHANGED <<documents, raced, rpc, file, hand>> /\ todo' = [todo EXCEPT ![w] = @ \ {g}]
        /\ entry' = [entry EXCEPT ![g] = "none"]
    BY <1>9 DEF AlreadyIngested, Remove, Settle, Untodo, linkVars, reqVars
  <2> QED BY <1>1, <2>1, OnceFrame DEF SkippedTypeOK
<1>10. CASE RunRemoves(w)
  <2>1. /\ UNCHANGED <<documents, raced, rpc, file, todo>>
        /\ hand[w] \in Files /\ hand' = [hand EXCEPT ![w] = NoFile]
        /\ entry' = [entry EXCEPT ![hand[w]] = "none"]
    BY <1>10 DEF RunRemoves, Remove, reqVars, SkippedInv, Held
  <2> QED BY <1>1, <2>1, OnceFrame DEF SkippedTypeOK
<1>11. ASSUME NEW g \in Files, RunIngests(w, g)
       PROVE  OnceFor(f)'
  <2>1. /\ UNCHANGED <<entry, raced, rpc, file>> /\ hand[w] = NoFile /\ g \in todo[w]
        /\ todo' = [todo EXCEPT ![w] = @ \ {g}] /\ hand' = [hand EXCEPT ![w] = g]
    BY <1>1, <1>11 DEF RunIngests, Settle, reqVars, WorkInv
  <2>2. documents'[f] = IF f = g THEN documents[f] + 1 ELSE documents[f]
    BY <1>1, <1>11 DEF RunIngests, Ingest, SkippedTypeOK
  <2>3. OnceFor(f)
    BY <2>1 DEF OnceInv
  <2>4. CASE g = f
    <3>1. Works(w, f) /\ documents[f] = 0
      BY <2>1, <2>3, <2>4 DEF OnceFor, Works
    <3>2. \A v \in Workers : Works(v, f)' => v = w
      BY <1>1, <2>1, <2>3, <3>1 DEF OnceFor, Works, SkippedTypeOK
    <3>3. \A q \in Reviewers : ~ Asked(q, f)'
      BY <2>1, <2>3, <3>1 DEF OnceFor, Asked
    <3>4. documents'[f] = 1 /\ hand'[w] = f /\ \A v \in Workers : f \notin todo'[v]
      BY <1>1, <2>1, <2>2, <2>3, <2>4, <3>1 DEF OnceFor, Works, SkippedTypeOK
    <3> QED BY <3>2, <3>3, <3>4 DEF OnceFor, Asked
  <2>5. CASE g # f
    BY <1>1, <2>1, <2>2, <2>5, OnceFrame DEF SkippedTypeOK
  <2> QED BY <2>4, <2>5
<1> QED BY <1>2, <1>3, <1>4, <1>5, <1>6, <1>7, <1>8, <1>9, <1>10, <1>11 DEF RunStep

LEMMA OnceNext ==
  ASSUME SkippedInv, OnceInv, Next
  PROVE  OnceInv'
<1>1. WorkInv'
  BY WorkNext DEF OnceInv
<1>2. CASE TaskLost \/ SweepReads \/ SweepWrites
  <2>1. UNCHANGED <<entry, documents, raced, rpc, file, todo, hand>>
    BY <1>2 DEF TaskLost, SweepReads, SweepWrites, linkVars, reqVars, runVars
  <2> QED BY <1>1, <2>1 DEF OnceInv, OnceFor, Asked, Works
<1> QED BY <1>1, <1>2, OnceRequest, OnceRun DEF Next, OnceInv

-----------------------------------------------------------------------------
(* The reclassify has its files alone *)

LEMMA MishapsGrow ==
  ASSUME Next
  PROVE  mishaps \subseteq mishaps'
<1>1. ASSUME NEW r \in Reviewers,
             \/ RequestStep(r) \/ Reclassify(r) \/ (\E f \in Files : Classify(r, f))
             \/ ClassifyRefused(r) \/ ClassifyDies(r)
             \/ SubmitRefetchFails(r) \/ SubmitReclassifyFails(r)
      PROVE  mishaps \subseteq mishaps'
  BY <1>1 DEF RequestStep, Reclassify, Classify, ClassifyRefused, ClassifyDies, SubmitRefetchFails,
     SubmitReclassifyFails, ClassifyIngests, ClassifyRemoves, QueueRefetch, SubmitRefetch,
     MarkFetching, SubmitReclassify
<1>2. ASSUME NEW w \in Workers, RunStep(w) \/ RefetchFails(w) \/ WorkerLost(w)
      PROVE  mishaps \subseteq mishaps'
  BY <1>2 DEF RunStep, RefetchFails, WorkerLost, StartRefetch, Claim, Download, FinishRefetch,
     StartReclassify, StartIngesting, FinishReclassify, RunRemoves, SkipGone, SettleFails,
     RunIngests, Unclassified, AlreadyIngested, ClassifyAgain, DuplicateFound, KeepSkipped
<1> QED BY <1>1, <1>2 DEF Next, TaskLost, SweepReads, SweepWrites

LEMMA FlightRequest ==
  ASSUME SkippedTypeOK, FlightInv, mishaps' = {}, NEW r \in Reviewers,
         \/ RequestStep(r) \/ Reclassify(r) \/ (\E f \in Files : Classify(r, f))
         \/ ClassifyRefused(r) \/ ClassifyDies(r)
         \/ SubmitRefetchFails(r) \/ SubmitReclassifyFails(r)
  PROVE  FlightInv'
<1> USE DEF FlightInv, SkippedTypeOK, At, Done, linkVars, runVars
<1>1. CASE Reclassify(r)
  BY <1>1 DEF Reclassify
<1>2. CASE MarkFetching(r)
  BY <1>2 DEF MarkFetching, Task
<1>3. CASE SubmitReclassify(r)
  BY <1>3 DEF SubmitReclassify, Enqueue, Task
<1>4. CASE SubmitReclassifyFails(r)
  BY <1>4 DEF SubmitReclassifyFails, Task
<1>5. CASE SubmitRefetch(r)
  BY <1>5 DEF SubmitRefetch, Enqueue, Task
<1>6. ASSUME NEW f \in Files, Classify(r, f)
      PROVE  FlightInv'
  BY <1>6 DEF Classify, Classifiable
<1>7. CASE ClassifyIngests(r)
  BY <1>7 DEF ClassifyIngests
<1>8. CASE ClassifyRemoves(r)
  BY <1>8 DEF ClassifyRemoves
<1>9. CASE ClassifyRefused(r)
  BY <1>9 DEF ClassifyRefused
<1>10. CASE ClassifyDies(r)
  BY <1>10 DEF ClassifyDies
<1>11. CASE QueueRefetch(r)
  BY <1>11 DEF QueueRefetch
<1>12. CASE SubmitRefetchFails(r)
  BY <1>12 DEF SubmitRefetchFails
<1> QED BY <1>1, <1>2, <1>3, <1>4, <1>5, <1>6, <1>7, <1>8, <1>9, <1>10, <1>11, <1>12 DEF RequestStep

LEMMA FlightRun ==
  ASSUME SkippedTypeOK, FlightInv, NEW w \in Workers, RunStep(w) \/ RefetchFails(w) \/ WorkerLost(w)
  PROVE  FlightInv'
<1> USE DEF FlightInv, SkippedTypeOK, linkVars, reqVars
<1>1. CASE StartRefetch(w)
  BY <1>1 DEF StartRefetch, Start, Dequeue, Task
<1>2. CASE StartReclassify(w)
  BY <1>2 DEF StartReclassify, Start, Dequeue, Task
<1>3. CASE FinishRefetch(w) \/ RefetchFails(w)
  BY <1>3 DEF FinishRefetch, RefetchFails, End
<1>4. CASE FinishReclassify(w)
  BY <1>4 DEF FinishReclassify, End
<1>5. CASE WorkerLost(w)
  <2>1. CASE run[w] = "reclassify"
    BY <1>5, <2>1 DEF WorkerLost, End, Enqueue, Task
  <2>2. CASE run[w] = "refetch"
    BY <1>5, <2>2 DEF WorkerLost, End, Enqueue, Task
  <2> QED BY <1>5, <2>1, <2>2 DEF WorkerLost, Task
<1>6. CASE Claim(w)
  BY <1>6 DEF Claim, End
<1>7. CASE \/ Download(w) \/ StartIngesting(w) \/ RunRemoves(w)
           \/ \E f \in Files : \/ SkipGone(w, f) \/ SettleFails(w, f) \/ RunIngests(w, f)
                               \/ Unclassified(w, f) \/ AlreadyIngested(w, f) \/ ClassifyAgain(w, f)
                               \/ DuplicateFound(w, f) \/ KeepSkipped(w, f)
  <2>1. UNCHANGED <<status, queue, rpc, run>>
    BY <1>7 DEF Download, StartIngesting, RunRemoves, SkipGone, SettleFails, RunIngests,
       Unclassified, AlreadyIngested, ClassifyAgain, DuplicateFound, KeepSkipped, Untodo
  <2> QED BY <2>1
<1> QED BY <1>1, <1>2, <1>3, <1>4, <1>5, <1>6, <1>7 DEF RunStep

\* A step that takes no file, and leaves refetch_status alone where the entry stays,
\* keeps the runs apart.
LEMMA ApartFrame ==
  ASSUME SkippedTypeOK, ApartInv,
         \A f \in Files, w \in Workers : Works(w, f)' => Works(w, f) /\ run'[w] = run[w],
         \A f \in Files :
           /\ entry[f] = "none" => entry'[f] = "none"
           /\ \/ refetch'[f] = refetch[f]
              \/ entry'[f] = "none" /\ refetch'[f] = "none"
              \/ \A w \in Workers : ~ Works(w, f)'
  PROVE  ApartInv'
BY DEF ApartInv, Refetching

\* Nobody but the run that downloads a file writes refetch_status meanwhile.
LEMMA ApartWritten ==
  ASSUME SkippedTypeOK, ApartInv, NEW fs, NEW to \in {"QUEUED", "FAILED"}, SetRefetch(fs, to),
         Overwritten(fs) = {}, UNCHANGED <<entry, runVars>>,
         to \in Refetching => \A w \in Workers : run[w] # "reclassify"
  PROVE  ApartInv'
<1>1. \A f \in fs, w \in Workers : run[w] = "refetch" => ~ Works(w, f)
  BY DEF Overwritten, Worked, Works
<1>2. \A f \in Files : refetch'[f] = IF f \in fs /\ entry[f] # "none" THEN to ELSE refetch[f]
  BY DEF SetRefetch, Entries
<1>3. \A f \in Files, w \in Workers : (Works(w, f)' <=> Works(w, f)) /\ run'[w] = run[w]
  BY DEF Works, runVars
<1> QED BY <1>1, <1>2, <1>3 DEF ApartInv, Refetching, runVars

LEMMA ApartRequest ==
  ASSUME SkippedInv, FlightInv, ApartInv, mishaps' = {}, NEW r \in Reviewers,
         \/ RequestStep(r) \/ Reclassify(r) \/ (\E f \in Files : Classify(r, f))
         \/ ClassifyRefused(r) \/ ClassifyDies(r)
         \/ SubmitRefetchFails(r) \/ SubmitReclassifyFails(r)
  PROVE  ApartInv'
<1>1. SkippedTypeOK
  BY DEF SkippedInv
<1>2. CASE QueueRefetch(r)
  <2>1. /\ SetRefetch({file[r]}, "QUEUED") /\ Overwritten({file[r]}) = {}
        /\ UNCHANGED <<entry, runVars>> /\ rpc[r] = "queue"
    BY <1>2 DEF QueueRefetch
  <2>2. \A w \in Workers : run[w] # "reclassify"
    BY <2>1 DEF FlightInv
  <2> QED BY <1>1, <2>1, <2>2, ApartWritten
<1>3. CASE SubmitRefetchFails(r)
  <2>1. /\ SetRefetch({file[r]}, "FAILED") /\ Overwritten({file[r]}) = {}
        /\ UNCHANGED <<entry, runVars>>
    BY <1>3 DEF SubmitRefetchFails
  <2> QED BY <1>1, <2>1, ApartWritten DEF Refetching
<1>4. CASE ClassifyRemoves(r)
  <2>1. /\ entry' = [entry EXCEPT ![file[r]] = "none"]
        /\ refetch' = [refetch EXCEPT ![file[r]] = "none"]
        /\ UNCHANGED <<run, todo, hand>>
    BY <1>4 DEF ClassifyRemoves, Remove, runVars
  <2> QED BY <1>1, <2>1, ApartFrame DEF SkippedTypeOK, Works
<1>5. CASE \/ ClassifyIngests(r) \/ SubmitRefetch(r) \/ MarkFetching(r) \/ SubmitReclassify(r)
           \/ Reclassify(r) \/ (\E f \in Files : Classify(r, f)) \/ ClassifyRefused(r)
           \/ ClassifyDies(r) \/ SubmitReclassifyFails(r)
  <2>1. UNCHANGED <<entry, refetch, run, todo, hand>>
    BY <1>5 DEF ClassifyIngests, SubmitRefetch, MarkFetching, SubmitReclassify, Reclassify, Classify,
       ClassifyRefused, ClassifyDies, SubmitReclassifyFails, linkVars, runVars
  <2> QED BY <1>1, <2>1, ApartFrame DEF Works
<1> QED BY <1>2, <1>3, <1>4, <1>5 DEF RequestStep

\* A worker that ends its run has no file of either kind left.
LEMMA EndsWork ==
  ASSUME SkippedTypeOK, NEW w \in Workers, End(w)
  PROVE  \A f \in Files, v \in Workers : Works(v, f)' => v # w /\ Works(v, f) /\ run'[v] = run[v]
BY SkippedFilesAssumption DEF SkippedTypeOK, End, Works

LEMMA ApartRun ==
  ASSUME SkippedInv, WorkInv, ApartInv, mishaps' = {}, NEW w \in Workers,
         RunStep(w) \/ RefetchFails(w) \/ WorkerLost(w)
  PROVE  ApartInv'
<1>1. SkippedTypeOK /\ NoFile \notin Files
  BY SkippedFilesAssumption DEF SkippedInv
<1>2. CASE StartRefetch(w)
  <2> DEFINE queued == {f \in Entries : refetch[f] = "QUEUED"}
  <2>1. /\ run[w] = "idle" /\ Overwritten(queued) = {}
        /\ run' = [run EXCEPT ![w] = "refetch"] /\ todo' = [todo EXCEPT ![w] = queued]
        /\ UNCHANGED <<entry, refetch, hand>>
    BY <1>2 DEF StartRefetch, Start, linkVars
  <2>2. \A f \in queued, v \in Workers : ~ Works(v, f)
    <3>1. \A f \in queued, v \in Workers : run[v] \in Task => ~ Works(v, f)
      BY <2>1 DEF Overwritten, Worked, Works, ApartInv, Refetching, Entries, Task
    <3>2. \A f \in queued, v \in Workers : run[v] = "idle" => ~ Works(v, f)
      BY <1>1 DEF WorkInv, Works, Entries
    <3> QED BY <1>1, <3>1, <3>2 DEF SkippedTypeOK
  <2>3. \A f \in Files, v \in Workers : Works(v, f)' <=> (v = w /\ f \in queued) \/ (v # w /\ Works(v, f))
    BY <1>1, <2>1 DEF WorkInv, Works, SkippedTypeOK
  <2>4. \A v \in Workers : run'[v] = IF v = w THEN "refetch" ELSE run[v]
    BY <1>1, <2>1 DEF SkippedTypeOK
  <2>5. \A f \in queued : f \in Files /\ refetch[f] \in Refetching
    BY DEF Entries, Refetching
  <2> HIDE DEF queued
  <2> QED BY <2>1, <2>2, <2>3, <2>4, <2>5 DEF ApartInv
<1>3. CASE StartReclassify(w)
  <2> DEFINE files == {f \in Files : CanReclassify(f)}
  <2>1. /\ run[w] = "idle"
        /\ run' = [run EXCEPT ![w] = "reclassify"] /\ todo' = [todo EXCEPT ![w] = files]
        /\ UNCHANGED <<entry, refetch, hand>>
    BY <1>3 DEF StartReclassify, Start, linkVars
  <2>2. \A f \in files : f \in Files /\ entry[f] # "none" /\ refetch[f] \notin Refetching
    BY DEF CanReclassify, Reclassifiable
  <2>3. \A f \in Files, v \in Workers : Works(v, f)' <=> (v = w /\ f \in files) \/ (v # w /\ Works(v, f))
    BY <1>1, <2>1 DEF WorkInv, Works, SkippedTypeOK
  <2>4. \A v \in Workers : run'[v] = IF v = w THEN "reclassify" ELSE run[v]
    BY <1>1, <2>1 DEF SkippedTypeOK
  <2> HIDE DEF files
  <2> QED BY <2>1, <2>2, <2>3, <2>4 DEF ApartInv
<1>4. CASE FinishRefetch(w) \/ FinishReclassify(w) \/ WorkerLost(w)
  <2>1. End(w) /\ UNCHANGED <<entry, refetch>>
    BY <1>4 DEF FinishRefetch, FinishReclassify, WorkerLost, linkVars
  <2> QED BY <1>1, <2>1, EndsWork, ApartFrame
<1>5. CASE RefetchFails(w)
  <2>1. /\ End(w) /\ UNCHANGED entry /\ run[w] = "refetch"
        /\ \A f \in Files \ todo[w] : refetch'[f] = refetch[f]
    BY <1>5 DEF RefetchFails, SetRefetch
  <2>2. \A f \in todo[w], v \in Workers : f \in Files => ~ Works(v, f)'
    BY <1>1, <2>1, EndsWork DEF ApartInv, Works
  <2> QED BY <1>1, <2>1, <2>2, EndsWork, ApartFrame
<1>6. CASE Claim(w)
  <2>1. /\ UNCHANGED entry /\ run[w] = "refetch"
        /\ \A f \in Files : refetch'[f] = IF f \in todo[w] /\ entry[f] # "none" THEN "IN_PROGRESS" ELSE refetch[f]
    BY <1>6 DEF Claim, SetRefetch, Entries, WorkInv
  <2>2. CASE End(w) /\ todo[w] = {}
    BY <1>1, <2>1, <2>2, EndsWork, ApartFrame
  <2>3. CASE UNCHANGED <<run, todo, hand>>
    <3>1. \A f \in Files, v \in Workers : (Works(v, f)' <=> Works(v, f)) /\ run'[v] = run[v]
      BY <2>3 DEF Works
    <3>2. \A f \in todo[w], v \in Workers : f \in Files /\ Works(v, f) => v = w
      BY <2>1 DEF ApartInv, Works
    <3> QED BY <2>1, <3>1, <3>2 DEF ApartInv, Refetching
  <2> QED BY <1>6, <2>2, <2>3 DEF Claim
<1>7. CASE Download(w) \/ StartIngesting(w) \/ \E f \in Files : ClassifyAgain(w, f)
  <2>1. UNCHANGED <<entry, refetch, run, todo, hand>>
    BY <1>7 DEF Download, StartIngesting, ClassifyAgain, linkVars
  <2> QED BY <1>1, <2>1, ApartFrame DEF Works
<1>8. ASSUME NEW f \in Files, SettleFails(w, f)
      PROVE  ApartInv'
  <2>1. /\ UNCHANGED <<entry, run, hand>> /\ todo' = [todo EXCEPT ![w] = @ \ {f}]
        /\ run[w] = "refetch" /\ f \in todo[w] /\ hand[w] # f
        /\ \A g \in Files \ {f} : refetch'[g] = refetch[g]
    BY <1>1, <1>8 DEF SettleFails, Settle, SetRefetch, WorkInv
  <2>2. \A v \in Workers : ~ Works(v, f)'
    BY <1>1, <2>1 DEF ApartInv, Works, SkippedTypeOK
  <2>3. \A g \in Files, v \in Workers : Works(v, g)' => Works(v, g) /\ run'[v] = run[v]
    BY <1>1, <2>1 DEF Works, SkippedTypeOK
  <2> QED BY <1>1, <2>1, <2>2, <2>3, ApartFrame
<1>9. ASSUME NEW f \in Files, \/ SkipGone(w, f) \/ Unclassified(w, f)
                              \/ DuplicateFound(w, f) \/ KeepSkipped(w, f)
      PROVE  ApartInv'
  <2>1. UNCHANGED <<refetch, run, hand>> /\ todo' = [todo EXCEPT ![w] = @ \ {f}]
    BY <1>9 DEF SkipGone, Unclassified, DuplicateFound, KeepSkipped, Settle, Untodo, linkVars
  <2>2. \A g \in Files : entry[g] = "none" => entry'[g] = "none"
    BY <1>1, <1>9 DEF SkipGone, Unclassified, DuplicateFound, KeepSkipped, linkVars, SkippedTypeOK
  <2>3. \A g \in Files, v \in Workers : Works(v, g)' => Works(v, g) /\ run'[v] = run[v]
    BY <1>1, <2>1 DEF Works, SkippedTypeOK
  <2> QED BY <1>1, <2>1, <2>2, <2>3, ApartFrame
<1>10. ASSUME NEW f \in Files, AlreadyIngested(w, f)
       PROVE  ApartInv'
  <2>1. /\ UNCHANGED <<run, hand>> /\ todo' = [todo EXCEPT ![w] = @ \ {f}]
        /\ entry' = [entry EXCEPT ![f] = "none"] /\ refetch' = [refetch EXCEPT ![f] = "none"]
    BY <1>10 DEF AlreadyIngested, Remove, Settle, Untodo
  <2>2. \A g \in Files, v \in Workers : Works(v, g)' => Works(v, g) /\ run'[v] = run[v]
    BY <1>1, <2>1 DEF Works, SkippedTypeOK
  <2> QED BY <1>1, <2>1, <2>2, ApartFrame DEF SkippedTypeOK
<1>11. CASE RunRemoves(w)
  <2>1. /\ UNCHANGED <<run, todo>> /\ hand' = [hand EXCEPT ![w] = NoFile]
        /\ entry' = [entry EXCEPT ![hand[w]] = "none"]
        /\ refetch' = [refetch EXCEPT ![hand[w]] = "none"]
    BY <1>11 DEF RunRemoves, Remove
  <2>2. \A g \in Files, v \in Workers : Works(v, g)' => Works(v, g) /\ run'[v] = run[v]
    BY <1>1, <2>1 DEF Works, SkippedTypeOK
  <2> QED BY <1>1, <2>1, <2>2, ApartFrame DEF SkippedTypeOK
<1>12. ASSUME NEW f \in Files, RunIngests(w, f)
       PROVE  ApartInv'
  <2>1. /\ UNCHANGED <<entry, refetch, run>> /\ f \in todo[w]
        /\ todo' = [todo EXCEPT ![w] = @ \ {f}] /\ hand' = [hand EXCEPT ![w] = f]
    BY <1>12 DEF RunIngests, Settle
  <2>2. \A g \in Files, v \in Workers : Works(v, g)' => Works(v, g) /\ run'[v] = run[v]
    BY <1>1, <2>1 DEF Works, SkippedTypeOK
  <2> QED BY <1>1, <2>1, <2>2, ApartFrame
<1> QED BY <1>2, <1>3, <1>4, <1>5, <1>6, <1>7, <1>8, <1>9, <1>10, <1>11, <1>12 DEF RunStep

LEMMA AloneNext ==
  ASSUME SkippedInv, WorkInv, AloneInv, Next
  PROVE  AloneInv'
<1> SUFFICES ASSUME mishaps' = {} PROVE FlightInv' /\ ApartInv'
  BY DEF AloneInv
<1>1. SkippedTypeOK /\ FlightInv /\ ApartInv
  BY MishapsGrow DEF AloneInv, SkippedInv
<1>2. CASE TaskLost
  BY <1>1, <1>2 DEF TaskLost, Dequeue, Task, FlightInv, ApartInv, Works, SkippedTypeOK,
     linkVars, reqVars, runVars
<1>3. CASE SweepReads
  BY <1>1, <1>3 DEF SweepReads, FlightInv, ApartInv, Works, linkVars, reqVars, runVars
<1>4. CASE SweepWrites
  <2>1. ApartInv'
    BY <1>1, <1>4, ApartWritten DEF SweepWrites, Refetching
  <2> QED BY <1>1, <1>4, <2>1 DEF SweepWrites, FlightInv, reqVars, runVars
<1> QED BY <1>1, <1>2, <1>3, <1>4, FlightRequest, FlightRun, ApartRequest, ApartRun DEF Next

-----------------------------------------------------------------------------
(* Theorems *)

LEMMA SkippedInvHolds == Spec => []SkippedInv
<1>1. Init => SkippedInv
  BY SkippedFilesAssumption
  DEF Init, SkippedInv, SkippedTypeOK, Held, NoFileForgotten, EntryStatus, Reclassifiable,
      Refetching, Task
<1>2. SkippedInv /\ [Next]_vars => SkippedInv'
  <2> SUFFICES ASSUME SkippedInv, [Next]_vars PROVE SkippedInv'
    OBVIOUS
  <2>1. CASE Next
    BY <2>1, RequestInv, RunInv, SweepInv DEF Next
  <2>2. CASE UNCHANGED vars
    BY <2>2 DEF vars, linkVars, reqVars, runVars, SkippedInv, SkippedTypeOK, Held, NoFileForgotten
  <2> QED BY <2>1, <2>2
<1> QED BY <1>1, <1>2, PTL DEF Spec

\* Every variable keeps its type, through requests, runs, sweeps and crashes.
THEOREM SkippedTypesHold == Spec => []SkippedTypeOK
<1>1. SkippedInv => SkippedTypeOK
  BY DEF SkippedInv
<1> QED BY <1>1, SkippedInvHolds, PTL

\* A skipped file leaves the list only as a document, for any number of files,
\* reviewers and workers and whatever is lost on the way.
THEOREM NoFileIsForgotten == Spec => []NoFileForgotten
<1>1. SkippedInv => NoFileForgotten
  BY DEF SkippedInv
<1> QED BY <1>1, SkippedInvHolds, PTL

LEMMA OnceHolds == Spec => []OnceInv
<1>1. Init => OnceInv
  <2> SUFFICES ASSUME Init PROVE OnceInv
    OBVIOUS
  <2>1. \A f \in Files : f # NoFile
    BY SkippedFilesAssumption
  <2>2. \A f \in Files : /\ \A r \in Reviewers : ~ Asked(r, f)
                        /\ \A w \in Workers : ~ Works(w, f)
    BY <2>1 DEF Init, Asked, Works
  <2>3. WorkInv
    BY DEF Init, WorkInv
  <2>4. \A f \in Files : OnceFor(f)
    BY <2>2 DEF Init, OnceFor, Asked, Works
  <2> QED BY <2>3, <2>4 DEF OnceInv
<1>2. SkippedInv /\ OnceInv /\ [Next]_vars => OnceInv'
  <2> SUFFICES ASSUME SkippedInv, OnceInv, [Next]_vars PROVE OnceInv'
    OBVIOUS
  <2>1. CASE UNCHANGED vars
    BY <2>1 DEF vars, linkVars, reqVars, runVars, OnceInv, WorkInv, OnceFor, Asked, Works
  <2> QED BY <2>1, OnceNext
<1> QED BY <1>1, <1>2, SkippedInvHolds, PTL DEF Spec

\* A skipped file becomes two documents only if two had it in hand at once, or one
\* died with it: a request or run that comes later finds its entry gone.
THEOREM NoneIngestedTwiceInTurn == Spec => []IngestedTwiceOnlyByRace
<1>1. SkippedInv /\ OnceInv => IngestedTwiceOnlyByRace
  BY DEF SkippedInv, SkippedTypeOK, OnceInv, OnceFor, IngestedTwiceOnlyByRace
<1> QED BY <1>1, SkippedInvHolds, OnceHolds, PTL

LEMMA AloneHolds == Spec => []AloneInv
<1>1. Init => AloneInv
  BY DEF Init, AloneInv, FlightInv, ApartInv, Works, Task
<1>2. SkippedInv /\ OnceInv /\ AloneInv /\ [Next]_vars => AloneInv'
  <2> SUFFICES ASSUME SkippedInv, OnceInv, AloneInv, [Next]_vars PROVE AloneInv'
    OBVIOUS
  <2>1. CASE UNCHANGED vars
    BY <2>1 DEF vars, linkVars, reqVars, runVars, AloneInv, FlightInv, ApartInv, Works
  <2> QED BY <2>1, AloneNext DEF OnceInv
<1> QED BY <1>1, <1>2, SkippedInvHolds, OnceHolds, PTL DEF Spec

\* While a link is classified again nobody else has one of its files, unless a
\* request was past its check by then or a re-download was given up under its run.
THEOREM ReclassifyIsAlone == Spec => []ReclassifyHasThemAlone
<1>1. AloneInv => ReclassifyHasThemAlone
  <2> SUFFICES ASSUME FlightInv, ApartInv, NEW f \in Files, NEW w \in Workers,
                      run[w] = "reclassify", Works(w, f),
                      Requested(f) \/ Worked(f, {"refetch"})
               PROVE  FALSE
    BY DEF AloneInv, ReclassifyHasThemAlone, Worked, Works
  <2>1. CASE Requested(f)
    BY <2>1 DEF Requested, FlightInv
  <2>2. CASE Worked(f, {"refetch"})
    BY <2>2 DEF Worked, Works, ApartInv
  <2> QED BY <2>1, <2>2
<1> QED BY <1>1, AloneHolds, PTL
=============================================================================
