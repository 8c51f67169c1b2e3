------------------------- MODULE OneDriveFetchProof -------------------------
(***************************************************************************)
(* Proofs about OneDriveFetch, for any number of files, workers, requests  *)
(* and mishaps: the types, one fetch at a time, every file ingested once,  *)
(* and every file of a FETCHED link accounted for.                         *)
(***************************************************************************)
EXTENDS OneDriveFetch, TLAPS

-----------------------------------------------------------------------------
(* Types *)

\* Where a worker is says what it holds; a resume has been decided below the limit.
Shape ==
  /\ \A w \in Workers :
       /\ run[w] = "idle" <=> pc[w] = "idle"
       /\ pc[w] \in {"download", "check", "cleanup"} => run[w] = "fetch"
       /\ pc[w] \in {"idle", "download", "check", "cleanup"} => todo[w] = {}
       /\ IF pc[w] \in {"ingested", "unlinked"} THEN hand[w] \in Files ELSE hand[w] = NoFile
  /\ sweep = "resume" => seen < MaxResumes

FetchInv == FetchTypeOK /\ Shape

\* Ages start at zero and grow up to the one that is looked at.
LEMMA MaxAgeFact ==
  /\ 0 \in 0..MaxAge
  /\ \A a \in 0..MaxAge : a < Horizon => a + 1 \in 0..MaxAge
BY OneDriveFetchAssumption DEF MaxAge, Horizon

\* What the building blocks leave.
LEMMA BlockTypes ==
  ASSUME FetchTypeOK
  PROVE  /\ \A what : Spend(what) => left' \in 0..Budget
         /\ \A t \in Task : Enqueue(t) \/ Dequeue(t) => queue' \in [Task -> Nat]
         /\ Overlap(mishaps) \subseteq {"overwritten", "silent", "overlap"}
<1>1. ASSUME NEW what, Spend(what)
      PROVE  left' \in 0..Budget
  <2>1. left \in 0..Budget
    BY DEF FetchTypeOK
  <2> QED BY <1>1, <2>1, OneDriveFetchAssumption DEF Spend
<1>2. ASSUME NEW t \in Task, Enqueue(t) \/ Dequeue(t)
      PROVE  queue' \in [Task -> Nat]
  <2>1. queue \in [Task -> Nat]
    BY DEF FetchTypeOK
  <2> QED BY <1>2, <2>1 DEF Enqueue, Dequeue
<1>3. Overlap(mishaps) \subseteq {"overwritten", "silent", "overlap"}
  BY DEF FetchTypeOK, Overlap
<1> QED BY <1>1, <1>2, <1>3

\* A decided write finds attempts within the limit.
LEMMA ResumeTypes ==
  ASSUME FetchInv
  PROVE  /\ 0 \in 0..MaxResumes
         /\ SweepRead => seen' \in 0..MaxResumes /\ (sweep' = "resume" => seen' < MaxResumes)
         /\ SweepWrite => attempts' \in 0..MaxResumes
<1>1. attempts \in 0..MaxResumes /\ seen \in 0..MaxResumes /\ (sweep = "resume" => seen < MaxResumes)
  BY DEF FetchInv, FetchTypeOK, Shape
<1> QED BY <1>1, OneDriveFetchAssumption DEF SweepRead, SweepWrite

LEMMA EndTypes ==
  ASSUME FetchInv, NEW w \in Workers, End(w), seen' = seen, sweep' = sweep
  PROVE  /\ run' \in [Workers -> Task \cup {"idle"}]
         /\ pc' \in [Workers -> {"idle", "download", "check", "settle", "ingested", "unlinked", "cleanup"}]
         /\ todo' \in [Workers -> SUBSET Files]
         /\ hand' \in [Workers -> Files \cup {NoFile}]
         /\ skips' \in [Workers -> [Files -> SkipStatus \cup {NotSkipped}]]
         /\ Shape'
BY DEF FetchInv, FetchTypeOK, Shape, End, Nothing, Task

\* A run's step keeps the types.
LEMMA RunTypes ==
  ASSUME FetchInv, NEW w \in Workers, RunStep(w)
  PROVE  FetchInv'
<1> USE MaxAgeFact, BlockTypes, ResumeTypes DEF FetchInv
<1>1. CASE Download(w)
  BY <1>1 DEF Download, Goto, FetchTypeOK, Shape, rowVars, fileVars
<1>2. CASE Check(w)
  BY <1>2 DEF Check, Goto, FetchTypeOK, Shape, rowVars, fileVars
<1>3. CASE FinishFetch(w)
  <2>1. skips[w] \in [Files -> SkipStatus \cup {NotSkipped}]
    BY DEF FetchTypeOK
  <2> QED BY <1>3, <2>1 DEF FinishFetch, SetStatus, Goto, FetchTypeOK, Shape, Status, fileVars
<1>4. CASE Cleanup(w)
  <2>1. End(w) /\ seen' = seen /\ sweep' = sweep
    BY <1>4 DEF Cleanup
  <2> QED BY <1>4, <2>1, EndTypes DEF Cleanup, FetchTypeOK, rowVars
<1>5. CASE Unlink(w)
  BY <1>5 DEF Unlink, Goto, FetchTypeOK, Shape, rowVars
<1>6. CASE Record(w)
  <2>1. hand[w] \in Files /\ run[w] # "idle"
    BY <1>6 DEF Record, Shape
  <2>2. FetchTypeOK'
    BY <1>6, <2>1 DEF Record, FetchTypeOK
  <2>3. Shape'
    BY <1>6, <2>1 DEF Record, FetchTypeOK, Shape
  <2> QED BY <2>2, <2>3
<1>7. CASE FinishReclassify(w)
  <2>1. End(w) /\ seen' = seen /\ sweep' = sweep
    BY <1>7 DEF FinishReclassify
  <2> QED BY <1>7, <2>1, EndTypes DEF FinishReclassify, SetStatus, FetchTypeOK, Status, fileVars
<1>8. ASSUME NEW f \in Files, Ingest(w, f)
      PROVE  FetchInv'
  <2>1. documents' \in [Files -> Nat]
    <3>1. documents \in [Files -> Nat]
      BY DEF FetchTypeOK
    <3> QED BY <1>8, <3>1 DEF Ingest
  <2> QED BY <1>8, <2>1 DEF Ingest, FetchTypeOK, Shape, rowVars
<1>9. ASSUME NEW f \in Files, NEW st \in SkipStatus, Skip(w, f, st)
      PROVE  FetchInv'
  BY <1>9 DEF Skip, FetchTypeOK, Shape, rowVars
<1>10. ASSUME NEW f \in Files, NEW st \in SkipStatus, SkipAgain(w, f, st)
       PROVE  FetchInv'
  <2>1. skipped' \in [Files -> SkipStatus \cup {NotSkipped}]
    <3>1. skipped \in [Files -> SkipStatus \cup {NotSkipped}]
      BY DEF FetchTypeOK
    <3> QED BY <1>10, <3>1 DEF SkipAgain
  <2> QED BY <1>10, <2>1 DEF SkipAgain, FetchTypeOK, Shape, fileVars
<1>11. CASE RemoveDownloads(w)
  BY <1>11 DEF RemoveDownloads, FetchTypeOK, Shape, rowVars, runVars
<1> QED BY <1>1, <1>2, <1>3, <1>4, <1>5, <1>6, <1>7, <1>8, <1>9, <1>10, <1>11 DEF RunStep

\* So does whatever else happens to a worker.
LEMMA WorkerTypes ==
  ASSUME FetchInv, NEW w \in Workers,
         \/ StartFetch(w) \/ DropFetch(w) \/ StartFails(w) \/ StartReclassify(w)
         \/ IngestRaises(w) \/ RunFails(w) \/ WorkerLost(w) \/ Redeliver(w)
  PROVE  FetchInv'
<1> USE MaxAgeFact, BlockTypes, ResumeTypes DEF FetchInv
<1>1. CASE StartFetch(w)
  BY <1>1 DEF StartFetch, FetchTypeOK, Shape, Status, Task, fileVars
<1>2. CASE DropFetch(w)
  BY <1>2 DEF DropFetch, FetchTypeOK, Shape, Task, rowVars, fileVars, runVars
<1>3. CASE StartReclassify(w)
  BY <1>3 DEF StartReclassify, FetchTypeOK, Shape, Task, fileVars
<1>4. CASE IngestRaises(w)
  <2>1. hand[w] \in Files /\ run[w] # "idle"
    BY <1>4 DEF IngestRaises, Shape
  <2>2. "CLASSIFY_FAILED" \in SkipStatus
    BY DEF SkipStatus, Reclassifiable
  <2>3. /\ skips' \in [Workers -> [Files -> SkipStatus \cup {NotSkipped}]]
        /\ skipped' \in [Files -> SkipStatus \cup {NotSkipped}]
    <3>1. /\ skips \in [Workers -> [Files -> SkipStatus \cup {NotSkipped}]]
          /\ skipped \in [Files -> SkipStatus \cup {NotSkipped}]
      BY DEF FetchTypeOK
    <3> QED BY <1>4, <2>1, <2>2, <3>1 DEF IngestRaises
  <2>4. FetchTypeOK'
    BY ZenonT(60), <1>4, <2>1, <2>3 DEF IngestRaises, FetchTypeOK
  <2>5. Shape'
    BY <1>4, <2>1 DEF IngestRaises, FetchTypeOK, Shape
  <2> QED BY <2>4, <2>5
<1>5. CASE RunFails(w)
  <2>1. End(w) /\ seen' = seen /\ sweep' = sweep
    BY <1>5 DEF RunFails
  <2> QED BY <1>5, <2>1, EndTypes DEF RunFails, SetStatus, FetchTypeOK, Status, fileVars
<1>6. CASE WorkerLost(w)
  <2>1. End(w) /\ seen' = seen /\ sweep' = sweep
    BY <1>6 DEF WorkerLost
  <2> QED BY <1>6, <2>1, EndTypes DEF WorkerLost, FetchTypeOK, Task, rowVars, fileVars
<1>7. CASE Redeliver(w)
  BY <1>7 DEF Redeliver, FetchTypeOK, Shape, Task, rowVars, fileVars, runVars
<1>8. CASE StartFails(w)
  BY <1>8 DEF StartFails, SetStatus, FetchTypeOK, Shape, Status, Task, fileVars, runVars
<1> QED BY <1>1, <1>2, <1>3, <1>4, <1>5, <1>6, <1>7, <1>8

\* A request's step keeps the types.
LEMMA RequestTypes ==
  ASSUME FetchInv, NEW r \in Requests,
         \/ Post(r) \/ ReadRetry(r) \/ WriteRetry(r) \/ ReadReclassify(r) \/ WriteReclassify(r)
         \/ Send(r) \/ SendFails(r) \/ RequestLost(r)
  PROVE  FetchInv'
<1> USE MaxAgeFact, BlockTypes, ResumeTypes DEF FetchInv, FetchTypeOK, Shape, Status, fileVars, runVars
<1>1. CASE Post(r)
  BY <1>1 DEF Post
<1>2. CASE ReadRetry(r)
  BY <1>2 DEF ReadRetry, rowVars
<1>3. CASE WriteRetry(r)
  BY <1>3 DEF WriteRetry, SetStatus
<1>4. CASE ReadReclassify(r)
  BY <1>4 DEF ReadReclassify, rowVars
<1>5. CASE WriteReclassify(r)
  BY <1>5 DEF WriteReclassify, SetStatus
<1>6. CASE Send(r)
  BY <1>6 DEF Send, Task, rowVars
<1>7. CASE SendFails(r)
  BY <1>7 DEF SendFails, SetStatus
<1>8. CASE RequestLost(r)
  BY <1>8 DEF RequestLost, rowVars
<1> QED BY <1>1, <1>2, <1>3, <1>4, <1>5, <1>6, <1>7, <1>8

\* The sweep, time and the broker keep the types.
LEMMA OtherTypes ==
  ASSUME FetchInv,
         SweepRead \/ SweepWrite \/ SweepSend \/ SweepLost \/ TimePasses \/ Silence \/ TaskLost
  PROVE  FetchInv'
<1> USE MaxAgeFact, BlockTypes, ResumeTypes DEF FetchInv, FetchTypeOK, Shape, Status, fileVars, runVars
<1>1. CASE SweepRead
  BY <1>1 DEF SweepRead, rowVars
<1>2. CASE SweepWrite
  BY <1>2 DEF SweepWrite, SetStatus
<1>3. CASE SweepSend
  BY <1>3 DEF SweepSend, Task, rowVars
<1>4. CASE SweepLost
  BY <1>4 DEF SweepLost, rowVars
<1>5. CASE TimePasses
  BY <1>5 DEF TimePasses
<1>6. CASE Silence
  BY <1>6 DEF Silence
<1>7. CASE TaskLost
  BY <1>7 DEF TaskLost, Task, rowVars
<1> QED BY <1>1, <1>2, <1>3, <1>4, <1>5, <1>6, <1>7

LEMMA TypesStep == FetchInv /\ [Next]_vars => FetchInv'
<1> SUFFICES ASSUME FetchInv, [Next]_vars
             PROVE  FetchInv'
  OBVIOUS
<1>1. CASE Next
  BY <1>1, RunTypes, WorkerTypes, RequestTypes, OtherTypes DEF Next
<1>2. CASE UNCHANGED vars
  BY <1>2 DEF vars, rowVars, fileVars, runVars, FetchInv, FetchTypeOK, Shape
<1> QED BY <1>1, <1>2

LEMMA TypesInit == Init => FetchInv
BY OneDriveFetchAssumption, MaxAgeFact
   DEF Init, FetchInv, FetchTypeOK, Shape, Status, Task, Nothing

LEMMA TypesAlways == Spec => []FetchInv
BY TypesInit, TypesStep, PTL DEF Spec

\* Every variable of a submission and of its runs, requests and sweep keeps its
\* type; fetch_attempts stays within MAX_FETCH_RESUMES.
THEOREM FetchTypeCorrect == Spec => []FetchTypeOK
<1>1. FetchInv => FetchTypeOK
  BY DEF FetchInv
<1> QED BY <1>1, TypesAlways, PTL

-----------------------------------------------------------------------------
(* One fetch at a time *)

Trusted == "overwritten" \notin mishaps /\ "silent" \notin mishaps

\* The status is one that keeps every other fetch out.
Held == status \in {"FETCHING", "FETCHED"} /\ ~ Stale

OneFetchInv ==
  Trusted =>
    \A w \in Workers : run[w] = "fetch" =>
      Held /\ \A v \in Workers : run[v] = "fetch" => v = w

\* No fetch begins.
NoneStarts == \A w \in Workers : run'[w] = "fetch" => run[w] = "fetch"

LEMMA FreshFact == age' = 0 => ~ Stale'
BY OneDriveFetchAssumption DEF Stale

\* A step that leaves the status, and at most dates it anew.
LEMMA StatusKept ==
  ASSUME OneFetchInv, NoneStarts, mishaps \subseteq mishaps', status' = status, age' \in {age, 0}
  PROVE  OneFetchInv'
<1>1. Held => Held'
  BY FreshFact DEF Held, Stale
<1> QED BY <1>1 DEF OneFetchInv, NoneStarts, Trusted

\* A step that writes the status: to one that keeps fetches out, or from one that
\* did not, or against what was expected.
LEMMA StatusWritten ==
  ASSUME OneFetchInv, NoneStarts, NEW new, NEW expected \in BOOLEAN, SetStatus(new, expected),
         new \in {"FETCHING", "FETCHED"} \/ ~ expected \/ ~ Held
  PROVE  OneFetchInv'
<1>1. CASE new \in {"FETCHING", "FETCHED"}
  <2>1. Held' /\ mishaps \subseteq mishaps'
    BY <1>1, FreshFact DEF SetStatus, Held
  <2> QED BY <2>1 DEF OneFetchInv, NoneStarts, Trusted
<1>2. CASE ~ expected
  BY <1>2 DEF SetStatus, OneFetchInv, Trusted
<1>3. CASE ~ Held
  BY <1>3 DEF SetStatus, OneFetchInv, NoneStarts, Trusted
<1> QED BY <1>1, <1>2, <1>3

\* Which steps of a worker leave the status, and begin no fetch.
LEMMA WorkerKeepsStatus ==
  ASSUME FetchInv, NEW w \in Workers,
         \/ DropFetch(w) \/ StartReclassify(w) \/ IngestRaises(w) \/ WorkerLost(w) \/ Redeliver(w)
         \/ Download(w) \/ Check(w) \/ RemoveDownloads(w) \/ Cleanup(w) \/ Unlink(w) \/ Record(w)
         \/ \E f \in Files : \/ Ingest(w, f)
                             \/ \E st \in SkipStatus : Skip(w, f, st) \/ SkipAgain(w, f, st)
  PROVE  NoneStarts /\ mishaps \subseteq mishaps' /\ status' = status /\ age' \in {age, 0}
<1>1. run \in [Workers -> Task \cup {"idle"}]
  BY DEF FetchInv, FetchTypeOK
<1>2. CASE StartReclassify(w)
  BY <1>1, <1>2 DEF StartReclassify, NoneStarts, Overlap
<1>3. CASE IngestRaises(w) \/ Record(w) \/ Redeliver(w)
  BY <1>1, <1>3 DEF IngestRaises, Record, Redeliver, NoneStarts, rowVars, runVars
<1>4. CASE WorkerLost(w) \/ Cleanup(w)
  BY <1>1, <1>4 DEF WorkerLost, Cleanup, End, NoneStarts, rowVars
<1>5. CASE DropFetch(w) \/ Download(w) \/ Check(w) \/ RemoveDownloads(w) \/ Unlink(w)
  BY <1>1, <1>5 DEF DropFetch, Download, Check, RemoveDownloads, Unlink, Goto, NoneStarts, rowVars, runVars
<1>6. ASSUME NEW f \in Files, NEW st \in SkipStatus, Ingest(w, f) \/ Skip(w, f, st) \/ SkipAgain(w, f, st)
      PROVE  NoneStarts /\ mishaps \subseteq mishaps' /\ status' = status /\ age' \in {age, 0}
  BY <1>1, <1>6 DEF Ingest, Skip, SkipAgain, NoneStarts, rowVars
<1>7. "CLASSIFY_FAILED" \in SkipStatus
  BY DEF SkipStatus, Reclassifiable
<1> QED BY <1>2, <1>3, <1>4, <1>5, <1>6, <1>7

LEMMA OneFetchStep == FetchInv /\ OneFetchInv /\ [Next]_vars => OneFetchInv'
<1> SUFFICES ASSUME FetchInv, OneFetchInv, [Next]_vars
             PROVE  OneFetchInv'
  OBVIOUS
<1> USE DEF FetchInv
<1>t. run \in [Workers -> Task \cup {"idle"}]
  BY DEF FetchTypeOK
<1>1. ASSUME NEW w \in Workers, StartFetch(w)
      PROVE  OneFetchInv'
  <2>1. Held' /\ ~ Held
    BY <1>1, FreshFact DEF StartFetch, Claimable, Held
  <2>2. mishaps \subseteq mishaps'
    BY <1>1 DEF StartFetch, Overlap
  <2>3. Trusted' => \A v \in Workers : run'[v] = "fetch" => v = w
    BY <1>1, <1>t, <2>1, <2>2 DEF StartFetch, OneFetchInv, Trusted
  <2> QED BY <2>1, <2>3 DEF OneFetchInv
<1>2. ASSUME NEW w \in Workers, FinishFetch(w) \/ FinishReclassify(w)
      PROVE  OneFetchInv'
  <2>1. NoneStarts /\ SetStatus("FETCHED", status = "FETCHING")
    BY <1>2, <1>t DEF FinishFetch, FinishReclassify, Goto, End, NoneStarts
  <2> QED BY <2>1, StatusWritten
<1>3. ASSUME NEW w \in Workers, RunFails(w)
      PROVE  OneFetchInv'
  <2>1. NoneStarts /\ run'[w] = "idle" /\ mishaps \subseteq mishaps'
    BY <1>3, <1>t DEF RunFails, SetStatus, End, NoneStarts
  <2>2. CASE run[w] = "fetch"
    BY <2>1, <2>2 DEF OneFetchInv, NoneStarts, Trusted
  <2>3. CASE run[w] # "fetch"
    <3> DEFINE expected == status = IF pc[w] = "cleanup" THEN "FETCHED" ELSE "FETCHING"
    <3>1. SetStatus("FETCHED", expected)
      BY <1>3, <2>3 DEF RunFails
    <3>2. expected \in BOOLEAN
      OBVIOUS
    <3> HIDE DEF expected
    <3> QED BY <2>1, <3>1, <3>2, StatusWritten
  <2> QED BY <2>2, <2>3
<1>4. ASSUME NEW w \in Workers, RunStep(w), ~ FinishFetch(w), ~ FinishReclassify(w)
      PROVE  OneFetchInv'
  BY <1>4, WorkerKeepsStatus, StatusKept DEF RunStep
<1>5. ASSUME NEW w \in Workers,
             DropFetch(w) \/ StartReclassify(w) \/ IngestRaises(w) \/ WorkerLost(w) \/ Redeliver(w)
      PROVE  OneFetchInv'
  BY <1>5, WorkerKeepsStatus, StatusKept
<1>6. ASSUME NEW r \in Requests,
             Post(r) \/ WriteRetry(r) \/ WriteReclassify(r) \/ SendFails(r)
      PROVE  OneFetchInv'
  <2>1. NoneStarts
    BY <1>6 DEF Post, WriteRetry, WriteReclassify, SendFails, NoneStarts, runVars
  <2>2. CASE Post(r)
    BY <2>1, <2>2 DEF Post, OneFetchInv, NoneStarts, Trusted, Held
  <2>3. CASE WriteRetry(r)
    <3>1. SetStatus("PENDING", status = "FAILED") /\ ~ (status = "FAILED" /\ Held)
      BY <2>3 DEF WriteRetry, Held
    <3> QED BY <2>1, <3>1, StatusWritten
  <2>4. CASE WriteReclassify(r)
    BY <2>1, <2>4, StatusWritten DEF WriteReclassify
  <2>5. CASE SendFails(r)
    <3>1. \/ SetStatus("FAILED", status = "PENDING")
          \/ SetStatus("FETCHED", status = "FETCHING")
      BY <2>5 DEF SendFails
    <3>2. ~ (status = "PENDING" /\ Held)
      BY DEF Held
    <3> QED BY <2>1, <3>1, <3>2, StatusWritten
  <2> QED BY <1>6, <2>2, <2>3, <2>4, <2>5
<1>7. ASSUME NEW r \in Requests,
             ReadRetry(r) \/ ReadReclassify(r) \/ Send(r) \/ RequestLost(r)
      PROVE  OneFetchInv'
  <2>1. NoneStarts /\ mishaps' = mishaps /\ status' = status /\ age' = age
    BY <1>7 DEF ReadRetry, ReadReclassify, Send, RequestLost, NoneStarts, rowVars, runVars
  <2> QED BY <2>1, StatusKept
<1>8. CASE SweepRead \/ SweepSend \/ SweepLost \/ TaskLost \/ UNCHANGED vars
  <2>1. NoneStarts /\ mishaps' = mishaps /\ status' = status /\ age' = age
    BY <1>8 DEF SweepRead, SweepSend, SweepLost, TaskLost, NoneStarts, vars, rowVars, runVars
  <2> QED BY <2>1, StatusKept
<1>9. CASE SweepWrite
  <2>1. NoneStarts
    BY <1>9 DEF SweepWrite, NoneStarts, runVars
  <2>2. \/ SetStatus("PENDING", Stale) \/ SetStatus("FAILED", Stale)
        \/ age' = 0 /\ status' = status /\ mishaps' = mishaps
    BY <1>9 DEF SweepWrite
  <2>3. Stale \in BOOLEAN /\ (~ Stale \/ ~ Held)
    BY DEF Stale, Held
  <2> QED BY <2>1, <2>2, <2>3, StatusWritten, StatusKept
<1>10. CASE TimePasses
  <2>1. NoneStarts /\ mishaps' = mishaps /\ status' = status
    BY <1>10 DEF TimePasses, NoneStarts, runVars
  <2>2. CASE Beating
    BY <1>10, <2>1, <2>2, StatusKept DEF TimePasses
  <2>3. CASE ~ Beating
    BY <2>1, <2>3 DEF Beating, Running, OneFetchInv, NoneStarts, Trusted, Held, Stale
  <2> QED BY <2>2, <2>3
<1>11. CASE Silence
  BY <1>11 DEF Silence, OneFetchInv, Trusted
<1>12. ASSUME NEW w \in Workers, StartFails(w)
       PROVE  OneFetchInv'
  <2> DEFINE expected == Claimable \/ status = "FAILED"
  <2>1. NoneStarts /\ SetStatus("FAILED", expected)
    BY <1>12 DEF StartFails, NoneStarts, runVars
  <2>2. expected \in BOOLEAN /\ (~ expected \/ ~ Held)
    BY DEF Claimable, Held
  <2> QED BY <2>1, <2>2, StatusWritten
<1> QED BY <1>1, <1>2, <1>3, <1>4, <1>5, <1>6, <1>7, <1>8, <1>9, <1>10, <1>11, <1>12 DEF Next

\* claim_for_fetch keeps duplicate tasks apart: a link is fetched by one run at a
\* time, unless heartbeats failed or a stale status was written over a newer one.
THEOREM OneFetchCorrect == Spec => []OneFetchAtATime
<1>1. Init => OneFetchInv
  BY DEF Init, OneFetchInv
<1>2. OneFetchInv => OneFetchAtATime
  BY DEF OneFetchInv, OneFetchAtATime, Trusted
<1> QED BY <1>1, <1>2, TypesAlways, OneFetchStep, PTL DEF Spec

-----------------------------------------------------------------------------
(* Every file ingested once *)

NoOverlap == "overlap" \notin mishaps

\* Runs have not overlapped, and what the one run has still to settle is new.
OnceInv ==
  NoOverlap =>
    /\ \A v, w \in Workers : Running(v) /\ Running(w) => v = w
    /\ \A f \in Files : documents[f] \in {0, 1}
    /\ \A w \in Workers, f \in Files : f \in todo[w] /\ f # hand[w] => documents[f] = 0

\* A step that ingests nothing, begins no run and gives none more to settle.
LEMMA NothingIngested ==
  ASSUME OnceInv, mishaps \subseteq mishaps', documents' = documents,
         \A w \in Workers : /\ run'[w] # "idle" => run[w] # "idle"
                            /\ todo'[w] \ {hand'[w]} \subseteq todo[w] \ {hand[w]}
  PROVE  OnceInv'
BY DEF OnceInv, NoOverlap, Running

\* A step that takes a file off a run's list.
LEMMA FileSettled ==
  ASSUME FetchInv, NEW w \in Workers, NEW f \in Files, OnceInv,
         run' = run, documents' = documents, mishaps' = mishaps,
         todo' = [todo EXCEPT ![w] = @ \ {f}],
         hand' = hand \/ (f = hand[w] /\ hand' = [hand EXCEPT ![w] = NoFile])
  PROVE  OnceInv'
<1>1. todo \in [Workers -> SUBSET Files] /\ hand \in [Workers -> Files \cup {NoFile}]
  BY DEF FetchInv, FetchTypeOK
<1>2. \A v \in Workers : todo'[v] \ {hand'[v]} \subseteq todo[v] \ {hand[v]}
  BY <1>1
<1> QED BY <1>2, NothingIngested

LEMMA RunEnded ==
  ASSUME FetchInv, NEW w \in Workers, OnceInv, End(w),
         documents' = documents, mishaps \subseteq mishaps'
  PROVE  OnceInv'
<1>1. /\ run \in [Workers -> Task \cup {"idle"}]
      /\ todo \in [Workers -> SUBSET Files]
      /\ hand \in [Workers -> Files \cup {NoFile}]
  BY DEF FetchInv, FetchTypeOK
<1>2. \A v \in Workers : /\ run'[v] # "idle" => run[v] # "idle"
                         /\ todo'[v] \ {hand'[v]} \subseteq todo[v] \ {hand[v]}
  BY <1>1 DEF End
<1> QED BY <1>2, NothingIngested

LEMMA OnceStep == FetchInv /\ OnceInv /\ [Next]_vars => OnceInv'
<1> SUFFICES ASSUME FetchInv, OnceInv, [Next]_vars
             PROVE  OnceInv'
  OBVIOUS
<1>t. /\ run \in [Workers -> Task \cup {"idle"}]
      /\ pc \in [Workers -> {"idle", "download", "check", "settle", "ingested", "unlinked", "cleanup"}]
      /\ todo \in [Workers -> SUBSET Files]
      /\ hand \in [Workers -> Files \cup {NoFile}]
      /\ documents \in [Files -> Nat]
  BY DEF FetchInv, FetchTypeOK
<1>s. \A w \in Workers :
        /\ run[w] = "idle" <=> pc[w] = "idle"
        /\ pc[w] \in {"idle", "download", "check", "cleanup"} => todo[w] = {}
        /\ pc[w] \notin {"ingested", "unlinked"} => hand[w] = NoFile
        /\ pc[w] \in {"ingested", "unlinked"} => hand[w] \in Files
  BY DEF FetchInv, Shape
<1>1. ASSUME NEW w \in Workers, StartFetch(w)
      PROVE  OnceInv'
  <2>1. mishaps' = Overlap(mishaps) /\ run' = [run EXCEPT ![w] = "fetch"]
        /\ documents' = documents /\ todo' = todo /\ hand' = hand
    BY <1>1 DEF StartFetch, fileVars
  <2> QED BY <1>t, <2>1 DEF OnceInv, NoOverlap, Overlap, Running
<1>2. ASSUME NEW w \in Workers, StartReclassify(w)
      PROVE  OnceInv'
  <2>1. /\ mishaps' = Overlap(mishaps) /\ run' = [run EXCEPT ![w] = "reclassify"]
        /\ documents' = documents /\ hand' = hand
        /\ \E new \in SUBSET Files :
             /\ todo' = [todo EXCEPT ![w] = new]
             /\ \A f \in new : ~ (documents[f] > 0)
    <3> DEFINE present == {f \in kept : skipped[f] \in Reclassifiable}
               new == present \ {f \in present : documents[f] > 0}
    <3>1. todo' = [todo EXCEPT ![w] = new]
      BY <1>2 DEF StartReclassify
    <3>2. new \in SUBSET Files
      BY DEF FetchInv, FetchTypeOK
    <3>3. \A f \in new : ~ (documents[f] > 0)
      OBVIOUS
    <3>4. /\ mishaps' = Overlap(mishaps) /\ run' = [run EXCEPT ![w] = "reclassify"]
          /\ documents' = documents /\ hand' = hand
      BY <1>2 DEF StartReclassify, fileVars
    <3> HIDE DEF new
    <3> QED BY <3>1, <3>2, <3>3, <3>4
  <2>2. \A f \in Files : ~ (documents[f] > 0) => documents[f] = 0
    BY <1>t
  <2> QED BY <1>t, <2>1, <2>2 DEF OnceInv, NoOverlap, Overlap, Running
<1>3. ASSUME NEW w \in Workers, Check(w)
      PROVE  OnceInv'
  <2>1. todo' = [todo EXCEPT ![w] = {f \in downloaded : documents[f] = 0}]
        /\ UNCHANGED <<run, hand, documents, mishaps>>
    BY <1>3 DEF Check, Goto, fileVars
  <2> QED BY <1>t, <2>1 DEF OnceInv, NoOverlap, Running
<1>4. ASSUME NEW w \in Workers, NEW f \in Files, Ingest(w, f)
      PROVE  OnceInv'
  <2>1. /\ f \in todo[w] /\ hand[w] = NoFile /\ run[w] # "idle"
        /\ documents' = [documents EXCEPT ![f] = @ + 1]
        /\ hand' = [hand EXCEPT ![w] = f]
        /\ UNCHANGED <<run, todo, mishaps>>
    BY <1>4, <1>s DEF Ingest
  <2>2. NoOverlap => documents[f] = 0 /\ \A v \in Workers : v # w => todo[v] = {}
    BY <1>s, <1>t, <2>1, OneDriveFetchAssumption DEF OnceInv, Running
  <2>3. ASSUME NoOverlap
        PROVE  /\ documents'[f] = 1
               /\ \A g \in Files : g # f => documents'[g] = documents[g]
    <3>1. documents \in [Files -> Nat] /\ documents[f] = 0
      BY <1>t, <2>2, <2>3
    <3> QED BY <2>1, <3>1
  <2>4. ASSUME NoOverlap, NEW v \in Workers, NEW g \in Files, g \in todo[v], g # hand'[v]
        PROVE  documents'[g] = 0
    <3>1. v = w /\ g # f
      BY <1>t, <2>1, <2>2, <2>4
    <3>2. documents[g] = 0
      BY <2>1, <2>4, <3>1, OneDriveFetchAssumption DEF OnceInv
    <3> QED BY <2>3, <2>4, <3>1, <3>2
  <2>5. NoOverlap' => NoOverlap
    BY <2>1 DEF NoOverlap
  <2> QED BY <2>1, <2>3, <2>4, <2>5 DEF OnceInv, Running
<1>5. ASSUME NEW w \in Workers, NEW f \in Files, NEW st \in SkipStatus, Skip(w, f, st) \/ SkipAgain(w, f, st)
      PROVE  OnceInv'
  <2>1. /\ UNCHANGED <<run, documents, mishaps, hand>>
        /\ todo' = [todo EXCEPT ![w] = @ \ {f}]
    BY <1>5 DEF Skip, SkipAgain, fileVars
  <2> QED BY <2>1, FileSettled
<1>6. ASSUME NEW w \in Workers, Record(w) \/ IngestRaises(w)
      PROVE  OnceInv'
  <2>1. /\ hand[w] \in Files
        /\ UNCHANGED <<run, documents, mishaps>>
        /\ todo' = [todo EXCEPT ![w] = @ \ {hand[w]}]
        /\ hand' = [hand EXCEPT ![w] = NoFile]
    BY <1>6, <1>s DEF Record, IngestRaises
  <2> QED BY <2>1, FileSettled
<1>7. ASSUME NEW w \in Workers, Cleanup(w) \/ FinishReclassify(w) \/ RunFails(w) \/ WorkerLost(w)
      PROVE  OnceInv'
  <2>1. End(w) /\ documents' = documents /\ mishaps \subseteq mishaps'
    BY <1>7 DEF Cleanup, FinishReclassify, RunFails, WorkerLost, SetStatus, fileVars
  <2> QED BY <2>1, RunEnded
<1>8. ASSUME NEW w \in Workers,
             \/ DropFetch(w) \/ StartFails(w) \/ Redeliver(w)
             \/ Download(w) \/ FinishFetch(w) \/ RemoveDownloads(w) \/ Unlink(w)
      PROVE  OnceInv'
  <2>1. UNCHANGED <<run, documents, todo, hand>> /\ mishaps \subseteq mishaps'
    BY <1>8 DEF DropFetch, StartFails, Redeliver, Download, FinishFetch, RemoveDownloads, Unlink,
                SetStatus, Goto, runVars, fileVars
  <2> QED BY <2>1, NothingIngested
<1>9. ASSUME NEW r \in Requests,
             \/ Post(r) \/ ReadRetry(r) \/ WriteRetry(r) \/ ReadReclassify(r) \/ WriteReclassify(r)
             \/ Send(r) \/ SendFails(r) \/ RequestLost(r)
      PROVE  OnceInv'
  <2>1. UNCHANGED <<run, documents, todo, hand>> /\ mishaps \subseteq mishaps'
    BY <1>9 DEF Post, ReadRetry, WriteRetry, ReadReclassify, WriteReclassify,
                Send, SendFails, RequestLost, SetStatus, runVars, fileVars
  <2> QED BY <2>1, NothingIngested
<1>10. CASE \/ SweepRead \/ SweepWrite \/ SweepSend \/ SweepLost
            \/ TimePasses \/ Silence \/ TaskLost \/ UNCHANGED vars
  <2>1. UNCHANGED <<run, documents, todo, hand>> /\ mishaps \subseteq mishaps'
    BY <1>10 DEF SweepRead, SweepWrite, SweepSend, SweepLost, TimePasses, Silence, TaskLost,
                 SetStatus, vars, runVars, fileVars
  <2> QED BY <2>1, NothingIngested
<1> QED BY <1>1, <1>2, <1>3, <1>4, <1>5, <1>6, <1>7, <1>8, <1>9, <1>10 DEF Next, RunStep

\* However often its runs are killed, resumed, retried and reclassified, a file of
\* the link becomes at most one document, unless two runs were alive at once.
THEOREM IngestedOnceCorrect == Spec => []IngestedOnce
<1>1. Init => OnceInv
  BY DEF Init, OnceInv, Running
<1>2. OnceInv => IngestedOnce
  BY DEF OnceInv, IngestedOnce, NoOverlap
<1> QED BY <1>1, <1>2, TypesAlways, OnceStep, PTL DEF Spec

-----------------------------------------------------------------------------
(* Every file accounted for *)

Accounted == \A f \in Files : documents[f] # 0 \/ skipped[f] # NotSkipped

\* The link is FETCHED, or someone may still put it back to FETCHED.
Fetched ==
  \/ status = "FETCHED"
  \/ queue["reclassify"] # 0
  \/ \E w \in Workers : run[w] = "reclassify"
  \/ \E r \in Requests : rpc[r] \in {"reclassify", "sendReclassify"}

LedgerIsTrue == \A f \in ledger : documents[f] # 0
HandIsIngested == \A w \in Workers : pc[w] \in {"ingested", "unlinked"} => documents[hand[w]] # 0
AllDownloaded == \A w \in Workers : pc[w] = "check" => Files \subseteq downloaded \cup ledger
AllMet ==
  \A w \in Workers, f \in Files :
    run[w] = "fetch" /\ pc[w] \in {"settle", "ingested", "unlinked"} =>
      documents[f] # 0 \/ f \in todo[w] \/ skips[w][f] # NotSkipped

AccountedParts ==
  LedgerIsTrue /\ HandIsIngested /\ AllDownloaded /\ AllMet /\ (Fetched => Accounted)

AccountedInv == NoOverlap => AccountedParts

\* Without overlaps everyone but the worker that runs is idle.
LEMMA LoneRun ==
  ASSUME FetchInv, OnceInv, NoOverlap, NEW w \in Workers, Running(w)
  PROVE  \A v \in Workers : v # w => run[v] = "idle" /\ pc[v] = "idle"
BY DEF FetchInv, Shape, OnceInv, Running

\* A step that leaves files and runs alone.
LEMMA RunsKept ==
  ASSUME AccountedInv, mishaps \subseteq mishaps', UNCHANGED <<documents, downloaded, ledger, skipped>>,
         UNCHANGED runVars, Fetched' => Fetched
  PROVE  AccountedInv'
BY DEF AccountedInv, AccountedParts, NoOverlap, LedgerIsTrue, HandIsIngested, AllDownloaded, AllMet,
       Accounted, runVars

\* The end of the one run.
LEMMA RunOver ==
  ASSUME FetchInv, OnceInv, AccountedInv, NEW w \in Workers, Running(w), End(w),
         mishaps \subseteq mishaps', documents' = documents, ledger' \subseteq ledger, skipped' = skipped,
         Fetched' => Fetched
  PROVE  AccountedInv'
<1> SUFFICES ASSUME NoOverlap'
             PROVE  AccountedParts'
  BY DEF AccountedInv
<1>1. NoOverlap /\ AccountedParts
  BY DEF NoOverlap, AccountedInv
<1>2. \A v \in Workers : pc'[v] = "idle"
  BY <1>1, LoneRun DEF End, FetchInv, FetchTypeOK
<1> QED BY <1>1, <1>2 DEF AccountedParts, LedgerIsTrue, HandIsIngested, AllDownloaded, AllMet, Accounted

LEMMA StartAccounted ==
  ASSUME FetchInv, OnceInv, AccountedInv, NEW w \in Workers, StartFetch(w) \/ StartReclassify(w)
  PROVE  AccountedInv'
<1> SUFFICES ASSUME NoOverlap'
             PROVE  AccountedParts'
  BY DEF AccountedInv
<1>t. /\ run \in [Workers -> Task \cup {"idle"}]
      /\ pc \in [Workers -> {"idle", "download", "check", "settle", "ingested", "unlinked", "cleanup"}]
      /\ queue \in [Task -> Nat]
      /\ documents \in [Files -> Nat]
      /\ \A v \in Workers : run[v] = "idle" <=> pc[v] = "idle"
  BY DEF FetchInv, FetchTypeOK, Shape
<1>1. NoOverlap /\ AccountedParts /\ \A v \in Workers : run[v] = "idle"
  BY DEF StartFetch, StartReclassify, Overlap, NoOverlap, AccountedInv, Running
<1>2. UNCHANGED <<documents, downloaded, ledger, rpc>>
  BY DEF StartFetch, StartReclassify, fileVars
<1>3. LedgerIsTrue'
  BY <1>1, <1>2 DEF AccountedParts, LedgerIsTrue
<1>4. HandIsIngested' /\ AllDownloaded' /\ AllMet'
  BY <1>t, <1>1 DEF StartFetch, StartReclassify, HandIsIngested, AllDownloaded, AllMet
<1>5. Fetched' => Accounted'
  <2>1. CASE StartFetch(w)
    <3>1. queue'["reclassify"] = queue["reclassify"] /\ status' = "FETCHING" /\ skipped' = skipped
          /\ \A v \in Workers : run'[v] # "reclassify"
      BY <1>t, <1>1, <2>1 DEF StartFetch, Dequeue, Task
    <3> QED BY <1>1, <1>2, <3>1 DEF AccountedParts, Fetched, Accounted
  <2>2. CASE StartReclassify(w)
    <3>1. queue["reclassify"] > 0
      BY <2>2 DEF StartReclassify, Dequeue
    <3>2. queue["reclassify"] # 0
      BY <1>t, <3>1 DEF Task
    <3>3. Accounted
      BY <1>1, <3>2 DEF AccountedParts, Fetched
    <3>4. \A f \in Files : skipped'[f] = skipped[f] \/ documents[f] > 0
      BY <2>2 DEF StartReclassify
    <3>5. \A f \in Files : documents[f] > 0 => documents[f] # 0
      BY <1>t
    <3> QED BY <1>2, <3>3, <3>4, <3>5 DEF Accounted
  <2> QED BY <2>1, <2>2
<1> QED BY <1>3, <1>4, <1>5 DEF AccountedParts

\* The one run's own steps, one by one.
LEMMA RunAccounted ==
  ASSUME FetchInv, OnceInv, AccountedInv, NEW w \in Workers, Running(w),
         \/ Download(w) \/ Check(w) \/ FinishFetch(w) \/ RemoveDownloads(w)
         \/ Unlink(w) \/ Record(w) \/ IngestRaises(w)
         \/ \E f \in Files : \/ Ingest(w, f)
                             \/ \E st \in SkipStatus : Skip(w, f, st) \/ SkipAgain(w, f, st)
  PROVE  AccountedInv'
<1> SUFFICES ASSUME NoOverlap'
             PROVE  AccountedParts'
  BY DEF AccountedInv
<1>t. /\ run \in [Workers -> Task \cup {"idle"}]
      /\ pc \in [Workers -> {"idle", "download", "check", "settle", "ingested", "unlinked", "cleanup"}]
      /\ todo \in [Workers -> SUBSET Files]
      /\ hand \in [Workers -> Files \cup {NoFile}]
      /\ skips \in [Workers -> [Files -> SkipStatus \cup {NotSkipped}]]
      /\ skipped \in [Files -> SkipStatus \cup {NotSkipped}]
      /\ documents \in [Files -> Nat]
  BY DEF FetchInv, FetchTypeOK
<1>n. /\ \A st \in SkipStatus : st # NotSkipped
      /\ "CLASSIFY_FAILED" \in SkipStatus
  BY DEF SkipStatus, Reclassifiable, NotSkipped
<1>1. NoOverlap /\ AccountedParts
  BY DEF NoOverlap, AccountedInv, Download, Check, FinishFetch, RemoveDownloads, Unlink, Record, IngestRaises,
         Ingest, Skip, SkipAgain, SetStatus
<1>2. \A v \in Workers : v # w => run[v] = "idle" /\ pc[v] = "idle"
  BY <1>1, LoneRun
<1> USE DEF AccountedParts
<1>3. CASE Download(w)
  <2>1. /\ UNCHANGED <<status, skipped, documents, ledger, queue, run, todo, hand, skips, rpc>>
        /\ downloaded' = downloaded \cup (Files \ ledger)
        /\ pc' = [pc EXCEPT ![w] = "check"]
    BY <1>3 DEF Download, Goto, rowVars
  <2> QED BY <1>t, <1>1, <1>2, <2>1
          DEF LedgerIsTrue, HandIsIngested, AllDownloaded, AllMet, Fetched, Accounted
<1>4. CASE Check(w)
  <2>1. /\ UNCHANGED <<status, skipped, documents, downloaded, ledger, queue, run, hand, skips, rpc>>
        /\ pc[w] = "check"
        /\ todo' = [todo EXCEPT ![w] = {f \in downloaded : documents[f] = 0}]
        /\ pc' = [pc EXCEPT ![w] = "settle"]
    BY <1>4 DEF Check, Goto, rowVars, fileVars
  <2>2. AllMet'
    BY <1>t, <1>1, <1>2, <2>1 DEF LedgerIsTrue, AllDownloaded, AllMet
  <2> QED BY <1>t, <1>1, <1>2, <2>1, <2>2
          DEF LedgerIsTrue, HandIsIngested, AllDownloaded, Fetched, Accounted
<1>5. CASE FinishFetch(w)
  <2>1. /\ UNCHANGED <<documents, downloaded, ledger, run, todo, hand, skips>>
        /\ run[w] = "fetch" /\ pc[w] = "settle" /\ todo[w] = {}
        /\ skipped' = skips[w]
        /\ pc' = [pc EXCEPT ![w] = "cleanup"]
    BY <1>5 DEF FinishFetch, Goto, fileVars
  <2>2. Accounted'
    BY <1>1, <2>1 DEF AllMet, Accounted
  <2> QED BY <1>t, <1>1, <1>2, <2>1, <2>2 DEF LedgerIsTrue, HandIsIngested, AllDownloaded, AllMet
<1>6. CASE Unlink(w)
  <2>1. /\ UNCHANGED <<status, skipped, documents, ledger, queue, run, todo, hand, skips, rpc>>
        /\ pc[w] = "ingested" /\ pc' = [pc EXCEPT ![w] = "unlinked"]
    BY <1>6 DEF Unlink, Goto, rowVars
  <2> QED BY <1>t, <1>1, <1>2, <2>1
          DEF LedgerIsTrue, HandIsIngested, AllDownloaded, AllMet, Fetched, Accounted
<1>7. CASE Record(w)
  <2>1. /\ UNCHANGED <<status, documents, downloaded, queue, run, skips, rpc>>
        /\ pc[w] = "unlinked" /\ pc' = [pc EXCEPT ![w] = "settle"]
        /\ todo' = [todo EXCEPT ![w] = @ \ {hand[w]}]
        /\ ledger' \subseteq ledger \cup {hand[w]}
        /\ \A f \in Files : f = hand[w] \/ skipped'[f] = skipped[f]
    BY <1>7, <1>t DEF Record
  <2>2. documents[hand[w]] # 0
    BY <1>1, <2>1 DEF HandIsIngested
  <2>3. LedgerIsTrue' /\ (Fetched' => Accounted')
    BY <1>1, <2>1, <2>2 DEF LedgerIsTrue, Fetched, Accounted
  <2>4. HandIsIngested' /\ AllDownloaded'
    BY <1>t, <1>2, <2>1 DEF HandIsIngested, AllDownloaded
  <2>5. AllMet'
    BY <1>t, <1>1, <1>2, <2>1, <2>2 DEF AllMet
  <2> QED BY <2>3, <2>4, <2>5
<1>8. CASE IngestRaises(w)
  <2>1. /\ UNCHANGED <<status, documents, ledger, queue, run, rpc>>
        /\ pc[w] = "unlinked" /\ pc' = [pc EXCEPT ![w] = "settle"]
        /\ todo' = [todo EXCEPT ![w] = @ \ {hand[w]}]
        /\ \A f \in Files : f = hand[w] \/ skipped'[f] = skipped[f]
        /\ \A f \in Files : f = hand[w] \/ skips'[w][f] = skips[w][f]
    BY <1>8, <1>t DEF IngestRaises
  <2>2. documents[hand[w]] # 0
    BY <1>1, <2>1 DEF HandIsIngested
  <2>3. LedgerIsTrue' /\ (Fetched' => Accounted')
    BY <1>1, <2>1, <2>2 DEF LedgerIsTrue, Fetched, Accounted
  <2>4. HandIsIngested' /\ AllDownloaded'
    BY <1>t, <1>2, <2>1 DEF HandIsIngested, AllDownloaded
  <2>5. AllMet'
    BY <1>t, <1>1, <1>2, <2>1, <2>2 DEF AllMet
  <2> QED BY <2>3, <2>4, <2>5
<1>9. ASSUME NEW f \in Files, Ingest(w, f)
      PROVE  AccountedParts'
  <2>1. /\ UNCHANGED <<status, skipped, downloaded, ledger, queue, run, todo, skips, rpc>>
        /\ documents' = [documents EXCEPT ![f] = @ + 1]
        /\ hand' = [hand EXCEPT ![w] = f]
        /\ pc[w] = "settle" /\ pc' = [pc EXCEPT ![w] = "ingested"]
    BY <1>9 DEF Ingest, rowVars
  <2>2. documents'[f] # 0 /\ \A g \in Files : documents[g] # 0 => documents'[g] # 0
    <3>1. documents \in [Files -> Nat]
      BY <1>t
    <3> QED BY <2>1, <3>1
  <2>3. ledger \subseteq Files
    BY DEF FetchInv, FetchTypeOK
  <2>4. LedgerIsTrue' /\ AllDownloaded' /\ (Fetched' => Accounted')
    BY <1>1, <1>2, <1>t, <2>1, <2>2, <2>3 DEF LedgerIsTrue, AllDownloaded, Fetched, Accounted
  <2>5. HandIsIngested'
    BY <1>2, <1>t, <2>1, <2>2 DEF HandIsIngested
  <2>6. AllMet'
    BY <1>1, <1>2, <1>t, <2>1, <2>2 DEF AllMet
  <2> QED BY <2>4, <2>5, <2>6
<1>10. ASSUME NEW f \in Files, NEW st \in SkipStatus, Skip(w, f, st)
       PROVE  AccountedParts'
  <2>1. /\ UNCHANGED <<status, skipped, documents, ledger, queue, run, pc, hand, rpc>>
        /\ pc[w] = "settle"
        /\ todo' = [todo EXCEPT ![w] = @ \ {f}]
        /\ skips' = [skips EXCEPT ![w][f] = st]
    BY <1>10 DEF Skip, rowVars
  <2>2. AllMet'
    BY <1>t, <1>n, <1>1, <1>2, <2>1 DEF AllMet
  <2> QED BY <1>1, <1>2, <2>1, <2>2
          DEF LedgerIsTrue, HandIsIngested, AllDownloaded, Fetched, Accounted
<1>11. ASSUME NEW f \in Files, NEW st \in SkipStatus, SkipAgain(w, f, st)
       PROVE  AccountedParts'
  <2>1. /\ UNCHANGED <<status, documents, downloaded, ledger, queue, run, pc, hand, skips, rpc>>
        /\ run[w] = "reclassify" /\ pc[w] = "settle"
        /\ todo' = [todo EXCEPT ![w] = @ \ {f}]
        /\ \A g \in Files : skipped'[g] = skipped[g] \/ skipped'[g] = st
    BY <1>11, <1>t DEF SkipAgain, fileVars
  <2> QED BY <1>t, <1>n, <1>1, <1>2, <2>1
          DEF LedgerIsTrue, HandIsIngested, AllDownloaded, AllMet, Fetched, Accounted
<1>12. CASE RemoveDownloads(w)
  <2>1. /\ UNCHANGED <<status, skipped, documents, ledger, queue, rpc>> /\ UNCHANGED runVars
        /\ pc[w] = "cleanup"
    BY <1>12 DEF RemoveDownloads, rowVars
  <2>2. AllDownloaded'
    BY <1>2, <2>1 DEF AllDownloaded, runVars
  <2> QED BY <1>1, <2>1, <2>2 DEF LedgerIsTrue, HandIsIngested, AllMet, Fetched, Accounted, runVars
<1> QED BY <1>3, <1>4, <1>5, <1>6, <1>7, <1>8, <1>9, <1>10, <1>11, <1>12

LEMMA AccountedStep == FetchInv /\ OnceInv /\ AccountedInv /\ [Next]_vars => AccountedInv'
<1> SUFFICES ASSUME FetchInv, OnceInv, AccountedInv, [Next]_vars
             PROVE  AccountedInv'
  OBVIOUS
<1>t. /\ run \in [Workers -> Task \cup {"idle"}]
      /\ rpc \in [Requests -> {"idle", "retry", "reclassify", "sendFetch", "sendReclassify"}]
      /\ queue \in [Task -> Nat]
      /\ \A w \in Workers : run[w] = "idle" <=> pc[w] = "idle"
  BY DEF FetchInv, FetchTypeOK, Shape
<1>1. ASSUME NEW w \in Workers, StartFetch(w) \/ StartReclassify(w)
      PROVE  AccountedInv'
  BY <1>1, StartAccounted
<1>2. ASSUME NEW w \in Workers,
             \/ Download(w) \/ Check(w) \/ FinishFetch(w) \/ RemoveDownloads(w)
             \/ Unlink(w) \/ Record(w) \/ IngestRaises(w)
             \/ \E f \in Files : \/ Ingest(w, f)
                                 \/ \E st \in SkipStatus : Skip(w, f, st) \/ SkipAgain(w, f, st)
      PROVE  AccountedInv'
  <2>1. Running(w)
    BY <1>2, <1>t DEF Download, Check, FinishFetch, RemoveDownloads, Unlink, Record, IngestRaises,
                      Ingest, Skip, SkipAgain, Running
  <2> QED BY <1>2, <2>1, RunAccounted
<1>3. ASSUME NEW w \in Workers, Cleanup(w) \/ FinishReclassify(w) \/ RunFails(w) \/ WorkerLost(w)
      PROVE  AccountedInv'
  <2>1. /\ Running(w) /\ End(w) /\ mishaps \subseteq mishaps'
        /\ UNCHANGED <<documents, skipped>> /\ ledger' \subseteq ledger
    BY <1>3, <1>t DEF Cleanup, FinishReclassify, RunFails, WorkerLost, SetStatus, Running, rowVars, fileVars
  <2>2. /\ rpc' = rpc
        /\ \A v \in Workers : run'[v] = "reclassify" => run[v] = "reclassify"
        /\ status' = "FETCHED" => status = "FETCHED" \/ run[w] = "reclassify"
        /\ queue'["reclassify"] = queue["reclassify"] \/ run[w] = "reclassify"
    <3>1. CASE Cleanup(w) \/ FinishReclassify(w)
      BY <1>t, <3>1 DEF Cleanup, FinishReclassify, SetStatus, End, rowVars
    <3>2. CASE RunFails(w)
      BY <1>t, <3>2 DEF RunFails, Running, SetStatus, End, Task
    <3>3. CASE WorkerLost(w)
      BY <1>t, <3>3 DEF WorkerLost, End, rowVars
    <3> QED BY <1>3, <3>1, <3>2, <3>3
  <2>3. Fetched' => Fetched
    BY <2>2 DEF Fetched
  <2> QED BY <2>1, <2>3, RunOver
<1>4. ASSUME NEW w \in Workers, DropFetch(w) \/ StartFails(w) \/ Redeliver(w)
      PROVE  AccountedInv'
  <2>1. /\ UNCHANGED <<skipped, documents, downloaded, ledger, rpc>> /\ UNCHANGED runVars
        /\ mishaps \subseteq mishaps' /\ status' \in {status, "FAILED"}
        /\ queue'["reclassify"] = queue["reclassify"] \/ run[w] = "reclassify"
    BY <1>4, <1>t DEF DropFetch, StartFails, Redeliver, SetStatus, Dequeue, Task, rowVars, fileVars
  <2>2. Fetched' => Fetched
    BY <2>1 DEF Fetched, runVars
  <2> QED BY <2>1, <2>2, RunsKept
<1>5. ASSUME NEW r \in Requests,
             \/ Post(r) \/ ReadRetry(r) \/ WriteRetry(r) \/ ReadReclassify(r) \/ WriteReclassify(r)
             \/ Send(r) \/ SendFails(r) \/ RequestLost(r)
      PROVE  AccountedInv'
  <2>1. /\ UNCHANGED <<skipped, documents, downloaded, ledger>> /\ UNCHANGED runVars
        /\ mishaps \subseteq mishaps'
    BY <1>5 DEF Post, ReadRetry, WriteRetry, ReadReclassify, WriteReclassify,
                Send, SendFails, RequestLost, SetStatus, rowVars, fileVars
  <2>2. /\ \A q \in Requests : q # r => rpc'[q] = rpc[q]
        /\ rpc'[r] \in {"reclassify", "sendReclassify"} => status = "FETCHED" \/ rpc[r] = "reclassify"
        /\ status' = "FETCHED" => status = "FETCHED" \/ rpc[r] = "sendReclassify"
        /\ queue'["reclassify"] = queue["reclassify"] \/ rpc[r] = "sendReclassify"
    <3>1. CASE Post(r) \/ ReadRetry(r) \/ WriteRetry(r) \/ RequestLost(r)
      BY <1>t, <3>1 DEF Post, ReadRetry, WriteRetry, RequestLost, SetStatus, rowVars
    <3>2. CASE ReadReclassify(r) \/ WriteReclassify(r)
      BY <1>t, <3>2 DEF ReadReclassify, WriteReclassify, SetStatus, rowVars
    <3>3. CASE Send(r)
      BY <1>t, <3>3 DEF Send, Sends, Enqueue, Task, rowVars
    <3>4. CASE SendFails(r)
      BY <1>t, <3>4 DEF SendFails, Sends, SetStatus
    <3> QED BY <1>5, <3>1, <3>2, <3>3, <3>4
  <2>3. Fetched' => Fetched
    BY <2>1, <2>2 DEF Fetched, runVars
  <2> QED BY <2>1, <2>3, RunsKept
<1>6. CASE \/ SweepRead \/ SweepWrite \/ SweepSend \/ SweepLost
           \/ TimePasses \/ Silence \/ TaskLost \/ UNCHANGED vars
  <2>1. /\ UNCHANGED <<skipped, documents, downloaded, ledger, rpc>> /\ UNCHANGED runVars
        /\ mishaps \subseteq mishaps'
        /\ status' = "FETCHED" => status = "FETCHED"
    BY <1>6 DEF SweepRead, SweepWrite, SweepSend, SweepLost, TimePasses, Silence, TaskLost,
                SetStatus, vars, rowVars, fileVars
  <2>2. queue'["reclassify"] = queue["reclassify"]
    BY <1>6, <1>t DEF SweepRead, SweepWrite, SweepSend, SweepLost, TimePasses, Silence, TaskLost,
                      Enqueue, Dequeue, Task, vars
  <2>3. Fetched' => Fetched
    BY <2>1, <2>2 DEF Fetched, runVars
  <2> QED BY <2>1, <2>3, RunsKept
<1> QED BY <1>1, <1>2, <1>3, <1>4, <1>5, <1>6 DEF Next, RunStep

\* A link shown as FETCHED has every file ingested or listed as skipped, whatever
\* interrupted its runs, unless two of them were alive at once.
THEOREM AccountedCorrect == Spec => []EveryFileAccountedFor
<1>1. Init => OnceInv
  BY DEF Init, OnceInv, Running
<1>2. Init => AccountedInv
  BY DEF Init, AccountedInv, AccountedParts, LedgerIsTrue, HandIsIngested, AllDownloaded, AllMet, Fetched, Task
<1>3. FetchInv /\ AccountedInv => EveryFileAccountedFor
  <2>1. FetchInv => documents \in [Files -> Nat]
    BY DEF FetchInv, FetchTypeOK
  <2> QED BY <2>1 DEF AccountedInv, AccountedParts, Fetched, Accounted, NoOverlap, EveryFileAccountedFor
<1> QED BY <1>1, <1>2, <1>3, TypesAlways, OnceStep, AccountedStep, PTL DEF Spec
=============================================================================
