------------------------- MODULE StatusRollupProof -------------------------
(***************************************************************************)
(* Proofs that the variables of StatusRollup keep their types, that a      *)
(* document settles early only when a page is reopened, and that a session *)
(* alone puts right what others left wrong, for any number of documents,   *)
(* pages and sessions.                                                     *)
(***************************************************************************)
EXTENDS StatusRollup, TLAPS

Nothing == [x \in Rows |-> NoWrite]

-----------------------------------------------------------------------------
(* Types *)

\* What a session is doing where: only a mover of jobs holds any, and nothing is
\* written outside the recomputations.
Shape ==
  \A s \in Sessions :
    /\ pc[s] = "update" => kind[s] \in DOMAIN Moves
    /\ pc[s] \in {"read", "select", "write"} => kind[s] \in DOMAIN Moves \/ moved[s] = {}
    /\ pc[s] \in {"idle", "update", "submit"} => wrote[s] = Nothing

\* The repository functions move jobs that exist, to a status of a job.
LEMMA MovesFact ==
  /\ DOMAIN Moves \subseteq Kind
  /\ OneJob \cup {"cancel_batch", "recover", "submit_failed"} \subseteq DOMAIN Moves
  /\ \A k \in DOMAIN Moves : /\ Moves[k].to \in Open \cup Settled
                             /\ Moves[k].from \subseteq Open \cup Settled
<1>1. DOMAIN Moves = OneJob \cup {"cancel_batch", "recover", "submit_failed"}
  BY DEF Moves, OneJob
<1>2. ASSUME NEW k \in DOMAIN Moves
      PROVE  Moves[k].to \in Open \cup Settled /\ Moves[k].from \subseteq Open \cup Settled
  BY <1>1, <1>2 DEF Moves, Move, OneJob, Open, Settled
<1> QED BY <1>1, <1>2 DEF Kind

\* The aggregations give statuses of rows, and never "ABSENT".
LEMMA AggregateFact ==
  ASSUME NEW js
  PROVE  /\ DocumentStatus(js) \in RowStatus \ {"ABSENT"}
         /\ BatchStatus(js) \in RowStatus \ {"ABSENT"}
BY DEF DocumentStatus, BatchStatus, RowStatus

\* Ending a session keeps the types and the shape.
LEMMA EndType ==
  ASSUME RollupTypeOK, Shape, NEW s \in Sessions, End(s),
         job' \in [Jobs -> JobStatus], shown' \in [Rows -> RowStatus],
         reopened' \subseteq Jobs, UNCHANGED left
  PROVE  RollupTypeOK' /\ Shape'
<1>1. RollupTypeOK'
  BY DEF RollupTypeOK, End, Kind, Rows
<1>2. Shape'
  BY DEF RollupTypeOK, Shape, End, Nothing
<1> QED BY <1>1, <1>2

\* What a session sees is well typed.
LEMMA SeenType ==
  ASSUME RollupTypeOK, Shape, NEW s \in Sessions
  PROVE  /\ JobSeen(s) \in [Jobs -> JobStatus]
         /\ RowSeen(s) \in [Rows -> RowStatus]
<1>1. JobSeen(s) \in [Jobs -> JobStatus]
  BY MovesFact DEF RollupTypeOK, Shape, JobSeen, HoldsJobs, JobStatus
<1>2. RowSeen(s) \in [Rows -> RowStatus]
  BY DEF RollupTypeOK, RowSeen
<1> QED BY <1>1, <1>2

\* Starting to move jobs keeps the types and the shape.
LEMMA BeginType ==
  ASSUME RollupTypeOK, Shape, NEW s \in Sessions, NEW k \in DOMAIN Moves,
         NEW js \in SUBSET Jobs, Begin(s, k, js)
  PROVE  RollupTypeOK' /\ Shape'
<1>1. k \in Kind BY MovesFact
<1>2. DocumentsOf(js) \cup {Batch} \subseteq Rows
  BY StatusRollupAssumption DEF DocumentsOf, Rows
<1>3. alone' \in [Sessions -> BOOLEAN]
  BY DEF Begin, Start
<1>4. RollupTypeOK'
  BY <1>1, <1>2, <1>3 DEF RollupTypeOK, Begin, Start
<1>5. Shape'
  BY DEF RollupTypeOK, Shape, Begin, Start
<1> QED BY <1>4, <1>5

\* The initial state is well typed.
LEMMA RollupTypeInit == Init => RollupTypeOK /\ Shape
BY StatusRollupAssumption
DEF Init, RollupTypeOK, Shape, Nothing, JobStatus, RowStatus, Kind, Rows

\* Every step keeps the types and the shape.
LEMMA RollupTypeNext == RollupTypeOK /\ Shape /\ [Next]_vars => RollupTypeOK' /\ Shape'
<1> SUFFICES ASSUME RollupTypeOK, Shape, [Next]_vars
             PROVE  RollupTypeOK' /\ Shape'
  OBVIOUS
<1>1. CASE UNCHANGED vars
  BY <1>1 DEF vars, sessionVars, RollupTypeOK, Shape
<1>2. ASSUME NEW s \in Sessions, MoveOneJob(s) PROVE RollupTypeOK' /\ Shape'
  BY <1>2, BeginType, MovesFact DEF MoveOneJob
<1>3. ASSUME NEW s \in Sessions, CancelBatch(s) PROVE RollupTypeOK' /\ Shape'
  BY <1>3, BeginType, MovesFact DEF CancelBatch
<1>4. ASSUME NEW s \in Sessions, Recover(s) PROVE RollupTypeOK' /\ Shape'
  BY <1>4, BeginType, MovesFact DEF Recover
<1>5. ASSUME NEW s \in Sessions, Fetched(s) PROVE RollupTypeOK' /\ Shape'
  <2>1. alone' \in [Sessions -> BOOLEAN] BY <1>5 DEF Fetched, Start
  <2>2. RollupTypeOK' BY <1>5, <2>1 DEF RollupTypeOK, Fetched, Start, Kind, Rows
  <2>3. Shape' BY <1>5 DEF RollupTypeOK, Shape, Fetched, Start
  <2> QED BY <2>2, <2>3
<1>6. ASSUME NEW s \in Sessions, UpdateJobs(s) PROVE RollupTypeOK' /\ Shape'
  <2>1. job' \in [Jobs -> JobStatus] /\ reopened' \subseteq Jobs
    BY <1>6 DEF UpdateJobs, RollupTypeOK, JobStatus, Open
  <2>2. RollupTypeOK' BY <1>6, <2>1 DEF RollupTypeOK, UpdateJobs
  <2>3. Shape' BY <1>6 DEF RollupTypeOK, Shape, UpdateJobs
  <2> QED BY <2>2, <2>3
<1>7. ASSUME NEW s \in Sessions, NEW x \in Rows, NEW st \in RowStatus,
             Recompute(s, x, st)
      PROVE  RollupTypeOK' /\ Shape'
  <2>1. RollupTypeOK' BY <1>7 DEF RollupTypeOK, Recompute
  <2>2. Shape' BY <1>7 DEF RollupTypeOK, Shape, Recompute
  <2> QED BY <2>1, <2>2
<1>15. ASSUME NEW s \in Sessions, NEW x \in Rows, ReadRow(s, x) PROVE RollupTypeOK' /\ Shape'
  <2>1. RowSeen(s)[x] \in RowStatus BY SeenType
  <2>2. RollupTypeOK' BY <1>15, <2>1 DEF RollupTypeOK, ReadRow
  <2>3. Shape' BY <1>15 DEF RollupTypeOK, Shape, ReadRow
  <2> QED BY <2>2, <2>3
<1>8. ASSUME NEW s \in Sessions, RecomputeBatch(s) PROVE RollupTypeOK' /\ Shape'
  BY <1>7, <1>8, AggregateFact DEF RecomputeBatch, StatusOfDocuments, Rows
<1>9. ASSUME NEW s \in Sessions, NEW d \in Documents, RecomputeDocument(s, d)
      PROVE  RollupTypeOK' /\ Shape'
  BY <1>7, <1>9, AggregateFact DEF RecomputeDocument, StatusOfPages, Rows
<1>10. ASSUME NEW s \in Sessions, WriteRow(s) PROVE RollupTypeOK' /\ Shape'
  <2>1. wrote' \in [Sessions -> [Rows -> RowStatus \cup {NoWrite}]]
    BY <1>10 DEF WriteRow, RollupTypeOK
  <2>2. RollupTypeOK' BY <1>10, <2>1 DEF RollupTypeOK, WriteRow
  <2>3. Shape' BY <1>10 DEF RollupTypeOK, Shape, WriteRow
  <2> QED BY <2>2, <2>3
<1>11. ASSUME NEW s \in Sessions, Commit(s) PROVE RollupTypeOK' /\ Shape'
  <2>1. /\ job' \in [Jobs -> JobStatus] /\ shown' \in [Rows -> RowStatus]
        /\ reopened' \subseteq Jobs
    BY <1>11, SeenType DEF Commit, RollupTypeOK
  <2>2. CASE kind[s] = "mark_pending_for_retry"
    <3>0. /\ pc' = [pc EXCEPT ![s] = "submit"]
          /\ wrote' = [wrote EXCEPT ![s] = [x \in Rows |-> NoWrite]]
          /\ UNCHANGED <<kind, moved, todo, target, next, alone, left>>
      BY <1>11, <2>2 DEF Commit
    <3>1. RollupTypeOK' BY <2>1, <3>0 DEF RollupTypeOK
    <3>2. Shape' BY <1>11, <2>2 DEF RollupTypeOK, Shape, Commit, Nothing
    <3> QED BY <3>1, <3>2
  <2>3. CASE kind[s] # "mark_pending_for_retry"
    BY <1>11, <2>1, <2>3, EndType DEF Commit
  <2> QED BY <2>2, <2>3
<1>12. ASSUME NEW s \in Sessions, Submitted(s) \/ Rollback(s) PROVE RollupTypeOK' /\ Shape'
  BY <1>12, EndType DEF Submitted, Rollback, RollupTypeOK
<1>13. ASSUME NEW s \in Sessions, NEW d \in Documents, Ingest(s, d)
       PROVE  RollupTypeOK' /\ Shape'
  <2>1. alone' \in [Sessions -> BOOLEAN] BY <1>13 DEF Ingest, Start
  <2>2. job' \in [Jobs -> JobStatus] /\ shown' \in [Rows -> RowStatus]
    BY <1>13 DEF Ingest, RollupTypeOK, JobStatus, RowStatus, Open
  <2>3. RollupTypeOK'
    BY <1>13, <2>1, <2>2 DEF RollupTypeOK, Ingest, Start, Kind, PagesOf
  <2>4. Shape' BY <1>13 DEF RollupTypeOK, Shape, Ingest, Start
  <2> QED BY <2>3, <2>4
<1>14. ASSUME NEW s \in Sessions, NEW js \in SUBSET Jobs, SubmitFailed(s, js)
       PROVE  RollupTypeOK' /\ Shape'
  <2>1. DocumentsOf(js) \cup {Batch} \subseteq Rows
    BY StatusRollupAssumption DEF DocumentsOf, Rows
  <2>2. "submit_failed" \in DOMAIN Moves /\ "submit_failed" \in Kind BY MovesFact
  <2>3. RollupTypeOK' BY <1>14, <2>1, <2>2 DEF RollupTypeOK, SubmitFailed
  <2>4. Shape' BY <1>14, <2>2 DEF RollupTypeOK, Shape, SubmitFailed
  <2> QED BY <2>3, <2>4
<1> QED BY <1>1, <1>2, <1>3, <1>4, <1>5, <1>6, <1>8, <1>9, <1>10, <1>11, <1>12, <1>13,
           <1>14, <1>15 DEF Next

\* Every variable keeps its type, and an idle session holds no row and no job.
THEOREM RollupTypeCorrect == Spec => [](RollupTypeOK /\ Shape)
BY RollupTypeInit, RollupTypeNext, PTL DEF Spec

-----------------------------------------------------------------------------
(* A document settles early only when a page is reopened *)

SettledRow == {"PROCESSED", "FAILED", "CANCELLED"}

\* The batch is there, and a page job comes with the row of its document.
TogetherIngested ==
  /\ shown[Batch] # "ABSENT"
  /\ \A j \in Jobs : job[j] = "ABSENT" <=> shown[DocumentOf[j]] = "ABSENT"

\* A session handles rows that exist, and writes statuses that rows have.
HandlesRows(s) ==
  /\ \A x \in Rows :
       \/ x \in todo[s]
       \/ x = target[s]
       \/ x \in DocumentsOf(moved[s])
       \/ wrote[s][x] # NoWrite
       => shown[x] # "ABSENT"
  /\ \A x \in Rows : wrote[s][x] # "ABSENT"
  /\ next[s] # "ABSENT"

\* A session has settled document d, or is about to.
Settles(s, d) ==
  \/ wrote[s][d] \in SettledRow
  \/ pc[s] = "write" /\ target[s] = d /\ next[s] \in SettledRow

\* What a session sees open of a document it settles has been reopened.
SettlesWhatItSees(s) ==
  \A j \in Jobs :
    JobSeen(s)[j] \in Open /\ Settles(s, DocumentOf[j]) => j \in reopened

SessionInv(s) == HandlesRows(s) /\ SettlesWhatItSees(s)

RowInv == TogetherIngested /\ SettledEarlyOnlyByReopening

RollupInv ==
  /\ RollupTypeOK /\ Shape
  /\ RowInv
  /\ \A s \in Sessions : SessionInv(s)

\* What a step may do to the committed rows: rows stay, what was reopened is
\* remembered, and a job opens only by a reopening or an ingest.
Grows ==
  /\ \A x \in Rows : shown[x] # "ABSENT" => shown'[x] # "ABSENT"
  /\ reopened \subseteq reopened'
  /\ \A j \in Jobs : job'[j] \in Open =>
       job[j] \in Open \/ j \in reopened' \/ shown[DocumentOf[j]] = "ABSENT"

\* A session that takes no part in the step.
Same(u) ==
  /\ kind'[u] = kind[u] /\ pc'[u] = pc[u] /\ moved'[u] = moved[u]
  /\ todo'[u] = todo[u] /\ target'[u] = target[u] /\ next'[u] = next[u]
  /\ wrote'[u] = wrote[u]

\* The document of a job is a row, and not the batch.
LEMMA DocumentRow == \A j \in Jobs : DocumentOf[j] \in Rows /\ DocumentOf[j] # Batch
BY StatusRollupAssumption DEF Rows

\* A settled row is there.
LEMMA SettledNotAbsent == \A d : shown[d] \in SettledRow => shown[d] # "ABSENT"
BY DEF SettledRow

\* A session that takes no part keeps its invariant.
LEMMA OtherSession ==
  ASSUME RollupInv, Grows, NEW u \in Sessions, Same(u)
  PROVE  SessionInv(u)'
<1>1. SessionInv(u) BY DEF RollupInv
<1>2. HandlesRows(u)'
  BY <1>1 DEF SessionInv, HandlesRows, Same, Grows, DocumentsOf
<1>3. ASSUME NEW j \in Jobs, JobSeen(u)'[j] \in Open, Settles(u, DocumentOf[j])'
      PROVE  j \in reopened'
  <2>1. Settles(u, DocumentOf[j]) BY <1>3 DEF Settles, Same
  <2>2. shown[DocumentOf[j]] # "ABSENT"
    BY <1>1, <2>1, DocumentRow DEF SessionInv, HandlesRows, Settles, SettledRow, NoWrite
  <2>3. HoldsJobs(u)' = HoldsJobs(u) BY DEF HoldsJobs, Same
  <2>4. CASE j \in HoldsJobs(u)
    <3>1. JobSeen(u)[j] \in Open BY <1>3, <2>3, <2>4 DEF JobSeen, Same
    <3> QED BY <1>1, <2>1, <3>1 DEF SessionInv, SettlesWhatItSees, Grows
  <2>5. CASE j \notin HoldsJobs(u)
    <3>1. job'[j] \in Open BY <1>3, <2>3, <2>5 DEF JobSeen
    <3>2. CASE job[j] \in Open
      BY <1>1, <2>1, <2>5, <3>2 DEF SessionInv, SettlesWhatItSees, Grows, JobSeen
    <3> QED BY <2>2, <3>1, <3>2 DEF Grows
  <2> QED BY <2>4, <2>5
<1> QED BY <1>2, <1>3 DEF SessionInv, SettlesWhatItSees

\* A session that writes nothing and recomputes nothing settles nothing.
LEMMA QuietSession ==
  ASSUME NEW s \in Sessions, wrote'[s] = Nothing, pc'[s] # "write"
  PROVE  SettlesWhatItSees(s)'
BY DocumentRow DEF SettlesWhatItSees, Settles, Nothing, SettledRow, NoWrite

\* A step that leaves the committed rows alone keeps what is said of them.
LEMMA SameRows ==
  ASSUME RollupInv, UNCHANGED <<job, shown, reopened>>
  PROVE  RowInv' /\ Grows
BY DEF RollupInv, RowInv, TogetherIngested, SettledEarlyOnlyByReopening, Grows

\* Ending a session.
LEMMA EndSession ==
  ASSUME RollupInv, NEW s \in Sessions, End(s), Grows
  PROVE  \A u \in Sessions : SessionInv(u)'
<1>1. \A u \in Sessions \ {s} : Same(u)
  BY DEF RollupInv, RollupTypeOK, End, Same
<1>2. wrote'[s] = Nothing /\ pc'[s] # "write"
  BY DEF RollupInv, RollupTypeOK, End, Nothing
<1>3. HandlesRows(s)'
  <2>1. shown[Batch] # "ABSENT" BY DEF RollupInv, RowInv, TogetherIngested
  <2> QED
    BY <1>2, <2>1 DEF RollupInv, RollupTypeOK, HandlesRows, End, DocumentsOf, Nothing, NoWrite,
                      Grows, Rows
<1> QED BY <1>1, <1>2, <1>3, OtherSession, QuietSession DEF SessionInv

\* The initial state.
LEMMA RollupInit == Init => RollupInv
<1> SUFFICES ASSUME Init PROVE RollupInv
  OBVIOUS
<1>1. RowInv
  BY DocumentRow DEF Init, RowInv, TogetherIngested, SettledEarlyOnlyByReopening, Open, Rows
<1>2. ASSUME NEW s \in Sessions PROVE SessionInv(s)
  BY DocumentRow DEF Init, SessionInv, HandlesRows, SettlesWhatItSees, Settles, SettledRow,
                     NoWrite, Rows, DocumentsOf
<1> QED BY <1>1, <1>2, RollupTypeInit DEF RollupInv

\* A session that begins to move jobs has found their documents.
LEMMA BeginInv ==
  ASSUME RollupInv, NEW s \in Sessions, NEW k \in DOMAIN Moves,
         NEW js \in SUBSET Jobs, Begin(s, k, js)
  PROVE  RollupInv'
<1>1. RollupTypeOK' /\ Shape' BY BeginType DEF RollupInv
<1>2. RowInv' /\ Grows BY SameRows DEF Begin
<1>3. \A u \in Sessions \ {s} : Same(u)
  BY DEF RollupInv, RollupTypeOK, Begin, Start, Same
<1>4. wrote'[s] = Nothing /\ pc'[s] # "write"
  BY DEF RollupInv, RollupTypeOK, Shape, Begin, Start
<1>5. \A d \in DocumentsOf(js) : shown[d] # "ABSENT"
  <2>1. "ABSENT" \notin Moves[k].from BY MovesFact DEF Open, Settled
  <2> QED BY <2>1 DEF RollupInv, RowInv, TogetherIngested, DocumentsOf, Begin
<1>6. HandlesRows(s)'
  <2>1. shown[Batch] # "ABSENT" BY DEF RollupInv, RowInv, TogetherIngested
  <2>2. HandlesRows(s) BY DEF RollupInv, SessionInv
  <2> QED
    BY <1>5, <2>1, <2>2 DEF RollupInv, RollupTypeOK, HandlesRows, Begin, Start
<1> QED BY <1>1, <1>2, <1>3, <1>4, <1>6, OtherSession, QuietSession DEF RollupInv, SessionInv

\* A recomputation settles a document only when it sees none of its pages open.
LEMMA RecomputeInv ==
  ASSUME RollupInv, NEW s \in Sessions, NEW x \in Rows,
         NEW st \in RowStatus \ {"ABSENT"}, Recompute(s, x, st),
         RollupTypeOK', Shape',
         x \in Documents /\ st \in SettledRow =>
           \A j \in PagesOf(x) : JobSeen(s)[j] \notin Open
  PROVE  RollupInv'
<1>1. RowInv' /\ Grows BY SameRows DEF Recompute
<1>2. \A u \in Sessions \ {s} : Same(u)
  BY DEF RollupInv, RollupTypeOK, Recompute, Same
<1>3. HandlesRows(s)'
  <2>1. HandlesRows(s) BY DEF RollupInv, SessionInv
  <2>2. /\ todo'[s] \subseteq todo[s]
        /\ next'[s] \in {st, NoWrite}
        /\ UNCHANGED <<moved, target, wrote, shown>>
    BY DEF RollupInv, RollupTypeOK, Recompute
  <2> QED BY <2>1, <2>2 DEF HandlesRows, DocumentsOf, NoWrite
<1>4. SettlesWhatItSees(s)'
  <2>1. SettlesWhatItSees(s) BY DEF RollupInv, SessionInv
  <2>2. JobSeen(s)' = JobSeen(s)
    BY DEF RollupInv, RollupTypeOK, Recompute, JobSeen, HoldsJobs
  <2>3. ASSUME NEW j \in Jobs, JobSeen(s)[j] \in Open, Settles(s, DocumentOf[j])'
        PROVE  j \in reopened
    <3>1. CASE wrote[s][DocumentOf[j]] \in SettledRow
      BY <2>1, <2>3, <3>1 DEF SettlesWhatItSees, Settles
    <3>2. CASE x = DocumentOf[j] /\ st \in SettledRow
      BY <2>3, <3>2, StatusRollupAssumption DEF PagesOf
    <3>3. wrote'[s] = wrote[s] /\ target'[s] = x /\ next'[s] \in {st, NoWrite}
      BY DEF RollupInv, RollupTypeOK, Recompute
    <3> QED BY <2>3, <3>1, <3>2, <3>3 DEF Settles, SettledRow, NoWrite
  <2> QED BY <2>2, <2>3 DEF SettlesWhatItSees, Recompute
<1> QED BY <1>1, <1>2, <1>3, <1>4, OtherSession DEF RollupInv, SessionInv

\* Reading a row decides nothing.
LEMMA ReadRowInv ==
  ASSUME RollupInv, NEW s \in Sessions, NEW x \in Rows, ReadRow(s, x), RollupTypeOK', Shape'
  PROVE  RollupInv'
<1>1. RowInv' /\ Grows BY SameRows DEF ReadRow
<1>2. \A u \in Sessions \ {s} : Same(u)
  BY DEF RollupInv, RollupTypeOK, ReadRow, Same
<1>3. HandlesRows(s) /\ SettlesWhatItSees(s) BY DEF RollupInv, SessionInv
<1>4. /\ pc[s] = "read" /\ pc'[s] = "select" /\ x \in todo[s]
      /\ target'[s] = x /\ next'[s] = RowSeen(s)[x]
      /\ UNCHANGED <<job, shown, kind, moved, todo, wrote, reopened>>
  BY DEF RollupInv, RollupTypeOK, ReadRow
<1>5. RowSeen(s)[x] # "ABSENT" BY <1>3, <1>4 DEF HandlesRows, RowSeen
<1>6. HandlesRows(s)' BY <1>3, <1>4, <1>5 DEF HandlesRows, DocumentsOf
<1>7. SettlesWhatItSees(s)'
  <2>1. JobSeen(s)' = JobSeen(s) BY <1>4 DEF JobSeen, HoldsJobs
  <2> QED BY <1>3, <1>4, <2>1 DEF SettlesWhatItSees, Settles
<1> QED BY <1>1, <1>2, <1>6, <1>7, OtherSession DEF RollupInv, SessionInv

\* A document is settled when the session sees none of its pages open.
LEMMA RecomputeDocumentInv ==
  ASSUME RollupInv, NEW s \in Sessions, NEW d \in Documents, RecomputeDocument(s, d),
         RollupTypeOK', Shape'
  PROVE  RollupInv'
<1> DEFINE st == StatusOfPages(JobSeen(s), d)
<1>1. st \in RowStatus \ {"ABSENT"} BY AggregateFact DEF StatusOfPages
<1>2. ASSUME st \in SettledRow, NEW j \in PagesOf(d) PROVE JobSeen(s)[j] \notin Open
  <2>1. JobSeen(s)[j] \in {JobSeen(s)[i] : i \in PagesOf(d)} OBVIOUS
  <2> QED BY <1>2, <2>1 DEF StatusOfPages, DocumentStatus, SettledRow
<1> HIDE DEF st
<1>3. Recompute(s, d, st) BY DEF RecomputeDocument, st
<1> QED BY <1>1, <1>2, <1>3, RecomputeInv DEF Rows

\* The batch's own status says nothing of a document.
LEMMA RecomputeBatchInv ==
  ASSUME RollupInv, NEW s \in Sessions, RecomputeBatch(s), RollupTypeOK', Shape'
  PROVE  RollupInv'
<1> DEFINE st == StatusOfDocuments(RowSeen(s))
<1>1. st \in RowStatus \ {"ABSENT"} BY AggregateFact DEF StatusOfDocuments
<1> HIDE DEF st
<1>2. Recompute(s, Batch, st) BY DEF RecomputeBatch, st
<1> QED BY <1>1, <1>2, RecomputeInv, StatusRollupAssumption DEF Rows

\* The UPDATE of a row.
LEMMA WriteRowInv ==
  ASSUME RollupInv, NEW s \in Sessions, WriteRow(s), RollupTypeOK', Shape'
  PROVE  RollupInv'
<1>1. RowInv' /\ Grows BY SameRows DEF WriteRow
<1>2. \A u \in Sessions \ {s} : Same(u)
  BY DEF RollupInv, RollupTypeOK, WriteRow, Same
<1>3. SessionInv(s) BY DEF RollupInv
<1>4. /\ UNCHANGED <<job, shown, kind, moved, todo, target, reopened>>
      /\ pc[s] = "write" /\ pc'[s] = "read" /\ next'[s] = NoWrite
      /\ \A x \in Rows : wrote'[s][x] = wrote[s][x] \/ (x = target[s] /\ wrote'[s][x] = next[s])
  BY DEF RollupInv, RollupTypeOK, WriteRow
<1>5. HandlesRows(s)' BY <1>3, <1>4 DEF SessionInv, HandlesRows, DocumentsOf, NoWrite
<1>6. SettlesWhatItSees(s)'
  <2>1. JobSeen(s)' = JobSeen(s) BY <1>4 DEF JobSeen, HoldsJobs
  <2>2. \A j \in Jobs : Settles(s, DocumentOf[j])' => Settles(s, DocumentOf[j])
    BY <1>4, DocumentRow DEF Settles, SettledRow, NoWrite
  <2> QED BY <1>3, <1>4, <2>1, <2>2 DEF SessionInv, SettlesWhatItSees
<1> QED BY <1>1, <1>2, <1>5, <1>6, OtherSession DEF RollupInv, SessionInv

\* The UPDATE of the jobs: only a claim commits at once.
LEMMA UpdateJobsInv ==
  ASSUME RollupInv, NEW s \in Sessions, UpdateJobs(s), RollupTypeOK', Shape'
  PROVE  RollupInv'
<1>1. \A j \in moved[s] : shown[DocumentOf[j]] # "ABSENT" /\ job[j] # "ABSENT"
  <2>1. HandlesRows(s) BY DEF RollupInv, SessionInv
  <2>2. moved[s] \subseteq Jobs BY DEF RollupInv, RollupTypeOK
  <2> QED
    BY <2>1, <2>2, DocumentRow
    DEF RollupInv, RowInv, TogetherIngested, HandlesRows, DocumentsOf
<1>2. \A j \in Jobs : job'[j] = job[j] \/ (j \in moved[s] /\ job'[j] = "PROCESSING")
  BY DEF UpdateJobs, RollupInv, RollupTypeOK
<1>3. /\ shown' = shown /\ reopened \subseteq reopened'
      /\ \A j \in moved[s] : job'[j] # job[j] /\ job[j] \in Settled => j \in reopened'
  BY DEF UpdateJobs
<1>4. \A j \in Jobs : job[j] \in {"ABSENT"} \cup Open \cup Settled
  BY DEF RollupInv, RollupTypeOK, JobStatus
<1>5. Grows
  BY <1>1, <1>2, <1>3, <1>4 DEF Grows
<1>6. RowInv'
  <2>1. TogetherIngested'
    BY <1>1, <1>2, <1>3 DEF RollupInv, RowInv, TogetherIngested
  <2>2. SettledEarlyOnlyByReopening'
    BY <1>3, <1>5, SettledNotAbsent
    DEF RollupInv, RowInv, SettledEarlyOnlyByReopening, Grows
  <2> QED BY <2>1, <2>2 DEF RowInv
<1>7. \A u \in Sessions \ {s} : Same(u)
  BY DEF RollupInv, RollupTypeOK, UpdateJobs, Same
<1>8. wrote'[s] = Nothing /\ pc'[s] # "write"
  BY DEF RollupInv, RollupTypeOK, Shape, UpdateJobs
<1>9. HandlesRows(s)'
  <2>1. HandlesRows(s) BY DEF RollupInv, SessionInv
  <2> QED BY <2>1 DEF HandlesRows, UpdateJobs
<1> QED BY <1>5, <1>6, <1>7, <1>8, <1>9, OtherSession, QuietSession DEF RollupInv, SessionInv

\* The commit of a session.
LEMMA CommitInv ==
  ASSUME RollupInv, NEW s \in Sessions, Commit(s), RollupTypeOK', Shape'
  PROVE  RollupInv'
<1> DEFINE held == HoldsJobs(s)
<1>1. held \subseteq moved[s] /\ moved[s] \subseteq Jobs
  BY DEF HoldsJobs, RollupInv, RollupTypeOK
<1>2. HandlesRows(s) /\ SettlesWhatItSees(s) BY DEF RollupInv, SessionInv
<1>3. \A j \in held : shown[DocumentOf[j]] # "ABSENT" /\ Moves[kind[s]].to \in Open \cup Settled
  <2>1. kind[s] \in DOMAIN Moves \/ moved[s] = {} BY DEF RollupInv, Shape, Commit
  <2> QED BY <1>1, <1>2, <2>1, DocumentRow, MovesFact DEF HandlesRows, DocumentsOf
<1> HIDE DEF held
<1>4. /\ \A j \in Jobs : job'[j] = JobSeen(s)[j]
      /\ \A j \in Jobs : IF j \in held THEN job'[j] = Moves[kind[s]].to ELSE job'[j] = job[j]
  BY DEF Commit, JobSeen, held
<1>5. \A x \in Rows : /\ wrote[s][x] # NoWrite => shown'[x] = wrote[s][x]
                      /\ wrote[s][x] = NoWrite => shown'[x] = shown[x]
  BY DEF Commit, RowSeen
<1>6. /\ reopened \subseteq reopened'
      /\ \A j \in Jobs : job[j] \in Settled /\ job'[j] \in Open => j \in reopened'
  BY DEF Commit
<1>7. \A j \in Jobs : job[j] \in {"ABSENT"} \cup Open \cup Settled
  BY DEF RollupInv, RollupTypeOK, JobStatus
<1>8. TogetherIngested BY DEF RollupInv, RowInv
<1>9. \A x \in Rows : shown'[x] = "ABSENT" <=> shown[x] = "ABSENT"
  BY <1>2, <1>5 DEF HandlesRows
<1>10. Grows
  BY <1>3, <1>4, <1>6, <1>7, <1>8, <1>9 DEF Grows, TogetherIngested
<1>11. RowInv'
  <2>1. TogetherIngested'
    BY <1>3, <1>4, <1>8, <1>9, DocumentRow DEF TogetherIngested, Rows, Open, Settled
  <2>2. ASSUME NEW j \in Jobs, job'[j] \in Open, shown'[DocumentOf[j]] \in SettledRow
        PROVE  j \in reopened'
    <3>1. CASE wrote[s][DocumentOf[j]] = NoWrite
      <4>1. shown[DocumentOf[j]] \in SettledRow BY <2>2, <3>1, <1>5, DocumentRow
      <4>2. shown[DocumentOf[j]] # "ABSENT" BY <4>1 DEF SettledRow
      <4>3. CASE job[j] \in Open
        BY <4>1, <4>3, <1>6 DEF RollupInv, RowInv, SettledEarlyOnlyByReopening, SettledRow
      <4> QED BY <2>2, <4>2, <4>3, <1>10 DEF Grows
    <3>2. CASE wrote[s][DocumentOf[j]] # NoWrite
      <4>1. Settles(s, DocumentOf[j]) BY <2>2, <3>2, <1>5, DocumentRow DEF Settles
      <4> QED BY <2>2, <4>1, <1>2, <1>4, <1>6 DEF SettlesWhatItSees
    <3> QED BY <3>1, <3>2
  <2> QED BY <2>1, <2>2 DEF RowInv, SettledEarlyOnlyByReopening, SettledRow
<1>12. CASE kind[s] = "mark_pending_for_retry"
  <2>1. /\ pc' = [pc EXCEPT ![s] = "submit"]
        /\ wrote' = [wrote EXCEPT ![s] = Nothing]
        /\ UNCHANGED <<kind, moved, todo, target, next>>
    BY <1>12 DEF Commit, Nothing
  <2>2. \A u \in Sessions \ {s} : Same(u)
    BY <2>1 DEF RollupInv, RollupTypeOK, Same
  <2>3. wrote'[s] = Nothing /\ pc'[s] # "write"
    BY <2>1 DEF RollupInv, RollupTypeOK
  <2>4. HandlesRows(s)'
    <3>1. \A x \in Rows : wrote'[s][x] = NoWrite BY <2>3 DEF Nothing
    <3> QED BY <1>2, <1>9, <2>1, <3>1 DEF HandlesRows, DocumentsOf, NoWrite
  <2> QED BY <1>10, <1>11, <2>2, <2>3, <2>4, OtherSession, QuietSession DEF RollupInv, SessionInv
<1>13. CASE kind[s] # "mark_pending_for_retry"
  BY <1>10, <1>11, <1>13, EndSession DEF Commit, RollupInv
<1> QED BY <1>12, <1>13

\* The end of a fetch.
LEMMA FetchedInv ==
  ASSUME RollupInv, NEW s \in Sessions, Fetched(s), RollupTypeOK', Shape'
  PROVE  RollupInv'
<1>1. RowInv' /\ Grows BY SameRows DEF Fetched
<1>2. \A u \in Sessions \ {s} : Same(u)
  BY DEF RollupInv, RollupTypeOK, Fetched, Start, Same
<1>3. wrote'[s] = Nothing /\ pc'[s] # "write"
  BY DEF RollupInv, RollupTypeOK, Shape, Fetched, Start
<1>4. HandlesRows(s)'
  <2>1. shown[Batch] # "ABSENT" BY DEF RollupInv, RowInv, TogetherIngested
  <2>2. HandlesRows(s) BY DEF RollupInv, SessionInv
  <2>3. /\ moved'[s] = {} /\ todo'[s] = {Batch}
        /\ UNCHANGED <<shown, target, next, wrote>>
    BY DEF RollupInv, RollupTypeOK, Fetched, Start
  <2> QED BY <2>1, <2>2, <2>3 DEF HandlesRows, DocumentsOf
<1> QED BY <1>1, <1>2, <1>3, <1>4, OtherSession, QuietSession DEF RollupInv, SessionInv

\* The session that could not submit has the rows of its jobs still.
LEMMA SubmitFailedInv ==
  ASSUME RollupInv, NEW s \in Sessions, NEW js \in SUBSET Jobs, SubmitFailed(s, js),
         RollupTypeOK', Shape'
  PROVE  RollupInv'
<1>1. RowInv' /\ Grows BY SameRows DEF SubmitFailed
<1>2. \A u \in Sessions \ {s} : Same(u)
  BY DEF RollupInv, RollupTypeOK, SubmitFailed, Same
<1>3. wrote'[s] = Nothing /\ pc'[s] # "write"
  BY DEF RollupInv, RollupTypeOK, Shape, SubmitFailed
<1>4. HandlesRows(s)'
  <2>1. shown[Batch] # "ABSENT" BY DEF RollupInv, RowInv, TogetherIngested
  <2>2. HandlesRows(s) BY DEF RollupInv, SessionInv
  <2>3. /\ moved'[s] = js /\ js \subseteq moved[s]
        /\ todo'[s] \subseteq DocumentsOf(js) \cup {Batch}
        /\ UNCHANGED <<shown, target, next, wrote>>
    BY DEF RollupInv, RollupTypeOK, SubmitFailed
  <2> QED BY <2>1, <2>2, <2>3 DEF HandlesRows, DocumentsOf
<1> QED BY <1>1, <1>2, <1>3, <1>4, OtherSession, QuietSession DEF RollupInv, SessionInv

\* An ingest adds a document that no session has touched.
LEMMA IngestInv ==
  ASSUME RollupInv, NEW s \in Sessions, NEW d \in Documents, Ingest(s, d),
         RollupTypeOK', Shape'
  PROVE  RollupInv'
<1>1. d \in Rows /\ d # Batch BY StatusRollupAssumption DEF Rows
<1>2. /\ shown[d] = "ABSENT" /\ shown'[d] = "UPLOADED"
      /\ \A x \in Rows \ {d} : shown'[x] = shown[x]
      /\ \A j \in Jobs : IF DocumentOf[j] = d THEN job'[j] = "PENDING" ELSE job'[j] = job[j]
      /\ UNCHANGED <<todo, target, next, wrote, reopened>>
  BY <1>1 DEF RollupInv, RollupTypeOK, Ingest, PagesOf
<1>3. Grows BY <1>2, DocumentRow DEF Grows
<1>4. RowInv'
  <2>1. TogetherIngested'
    BY <1>1, <1>2, DocumentRow, StatusRollupAssumption
    DEF RollupInv, RowInv, TogetherIngested, Rows
  <2>2. SettledEarlyOnlyByReopening'
    BY <1>2, DocumentRow DEF RollupInv, RowInv, SettledEarlyOnlyByReopening
  <2> QED BY <2>1, <2>2 DEF RowInv
<1>5. \A u \in Sessions \ {s} : Same(u)
  BY <1>2 DEF RollupInv, RollupTypeOK, Ingest, Start, Same
<1>6. wrote'[s] = Nothing /\ pc'[s] # "write" /\ moved'[s] = PagesOf(d)
  BY <1>2 DEF RollupInv, RollupTypeOK, Shape, Ingest, Start
<1>7. HandlesRows(s)'
  <2>1. HandlesRows(s) BY DEF RollupInv, SessionInv
  <2>2. DocumentsOf(moved'[s]) \subseteq {d} BY <1>6 DEF DocumentsOf, PagesOf
  <2> QED BY <1>1, <1>2, <2>1, <2>2 DEF HandlesRows, DocumentsOf
<1> QED BY <1>3, <1>4, <1>5, <1>6, <1>7, OtherSession, QuietSession DEF RollupInv, SessionInv

\* Every step keeps the invariant.
LEMMA RollupNext == RollupInv /\ [Next]_vars => RollupInv'
<1> SUFFICES ASSUME RollupInv, [Next]_vars PROVE RollupInv'
  OBVIOUS
<1>1. RollupTypeOK' /\ Shape' BY RollupTypeNext DEF RollupInv
<1>2. CASE UNCHANGED vars
  <2>1. RowInv' /\ Grows BY <1>2, SameRows DEF vars
  <2>2. \A u \in Sessions : Same(u) BY <1>2 DEF vars, sessionVars, Same
  <2> QED BY <1>1, <2>1, <2>2, OtherSession DEF RollupInv
<1>3. ASSUME NEW s \in Sessions, MoveOneJob(s) \/ CancelBatch(s) \/ Recover(s)
      PROVE  RollupInv'
  BY <1>3, BeginInv, MovesFact DEF MoveOneJob, CancelBatch, Recover
<1>4. ASSUME NEW s \in Sessions, Submitted(s) \/ Rollback(s) PROVE RollupInv'
  <2>1. RowInv' /\ Grows BY <1>4, SameRows DEF Submitted, Rollback
  <2> QED BY <1>1, <1>4, <2>1, EndSession DEF RollupInv, Submitted, Rollback
<1> QED BY <1>1, <1>2, <1>3, <1>4, FetchedInv, UpdateJobsInv, ReadRowInv, RecomputeBatchInv,
           WriteRowInv, CommitInv, IngestInv, RecomputeDocumentInv, SubmitFailedInv DEF Next

\* For any number of sessions, documents and pages: a document shown as settled
\* (recompute_document_status) while a page is open had that page reopened.
THEOREM SettledEarlyCorrect == Spec => []SettledEarlyOnlyByReopening
<1>1. RollupInv => SettledEarlyOnlyByReopening BY DEF RollupInv, RowInv
<1> QED BY <1>1, RollupInit, RollupNext, PTL DEF Spec

-----------------------------------------------------------------------------
(* A session that works alone puts things right *)

TypesAndShape == RollupTypeOK /\ Shape

\* The handlers that recompute the batch after all their documents.
BatchLast == OneJob \cup {"cancel_batch", "fetched"}

\* What a session will see once the UPDATE it has decided on is done.
WillSee(s) ==
  [x \in Rows |-> IF pc[s] = "write" /\ target[s] = x /\ next[s] # NoWrite
                  THEN next[s] ELSE RowSeen(s)[x]]

\* What it has recomputed is right, as long as nobody else comes.
Right(s) ==
  /\ \A d \in DocumentsOf(moved[s]) \ todo[s] : WillSee(s)[d] = StatusOfPages(JobSeen(s), d)
  /\ kind[s] \in BatchLast =>
       \/ Batch \in todo[s]
       \/ todo[s] = {} /\ WillSee(s)[Batch] = StatusOfDocuments(WillSee(s))

\* A session that is alone has everything it has touched still to recompute, or
\* right.
HealInv(s) ==
  alone[s] /\ pc[s] # "idle" =>
    /\ \A u \in Sessions \ {s} : pc[u] = "idle"
    /\ pc[s] = "update" => /\ DocumentsOf(moved[s]) \subseteq todo[s]
                           /\ kind[s] \in BatchLast => Batch \in todo[s]
    /\ pc[s] \in {"read", "select", "write"} => Right(s)
    /\ pc[s] = "select" => /\ target[s] \in todo[s] /\ next[s] = RowSeen(s)[target[s]]
                           /\ target[s] = Batch <=> BatchIsNext(s)

\* A step of a session that is at work finds no other one alone.
LEMMA OthersNotAlone ==
  ASSUME TypesAndShape, NEW s \in Sessions, NEW u \in Sessions \ {s}, HealInv(u),
         \/ pc[s] # "idle" /\ alone'[u] = alone[u]
         \/ alone'[u] = FALSE,
         pc'[u] = pc[u]
  PROVE  HealInv(u)'
BY DEF HealInv

LEMMA HealInit == Init => \A s \in Sessions : HealInv(s)
BY DEF Init, HealInv

\* Starting to move jobs: everything is still to be recomputed.
LEMMA BeginHeals ==
  ASSUME TypesAndShape, \A u \in Sessions : HealInv(u), NEW s \in Sessions, NEW k \in DOMAIN Moves,
         NEW js \in SUBSET Jobs, Begin(s, k, js)
  PROVE  \A u \in Sessions : HealInv(u)'
<1>1. /\ \A u \in Sessions \ {s} : alone'[u] = FALSE /\ pc'[u] = pc[u]
      /\ alone'[s] = (\A v \in Sessions \ {s} : pc[v] = "idle")
      /\ pc'[s] = "update" /\ moved'[s] = js /\ todo'[s] = DocumentsOf(js) \cup {Batch}
  BY DEF TypesAndShape, RollupTypeOK, Begin, Start
<1>2. HealInv(s)'
  BY <1>1 DEF HealInv
<1>3. \A u \in Sessions \ {s} : HealInv(u)'
  BY <1>1, OthersNotAlone
<1> QED BY <1>2, <1>3

\* A recomputation decides what the row shall show, and changes nothing else.
LEMMA RecomputeSees ==
  ASSUME TypesAndShape, NEW s \in Sessions, NEW x \in Rows, NEW st \in RowStatus, Recompute(s, x, st)
  PROVE  /\ next[s] = RowSeen(s)[x] => WillSee(s)' = [RowSeen(s) EXCEPT ![x] = st]
         /\ WillSee(s) = RowSeen(s) /\ RowSeen(s) \in [Rows -> RowStatus]
         /\ JobSeen(s)' = JobSeen(s)
         /\ pc[s] = "select" /\ pc'[s] = "write" /\ todo'[s] = todo[s] \ {x}
         /\ UNCHANGED <<kind, moved, alone>>
         /\ \A u \in Sessions \ {s} : pc'[u] = pc[u]
<1> USE DEF TypesAndShape
<1>1. RowSeen(s) \in [Rows -> RowStatus]
  BY SeenType
<1>2. /\ pc[s] = "select" /\ pc' = [pc EXCEPT ![s] = "write"]
      /\ todo' = [todo EXCEPT ![s] = @ \ {x}]
      /\ target[s] = x
      /\ next' = [next EXCEPT ![s] = IF @ = st THEN NoWrite ELSE st]
      /\ UNCHANGED <<job, shown, kind, moved, target, wrote, alone>>
  BY DEF Recompute
<1>3. /\ pc'[s] = "write" /\ todo'[s] = todo[s] \ {x} /\ target'[s] = x
      /\ next'[s] = IF next[s] = st THEN NoWrite ELSE st
      /\ \A u \in Sessions \ {s} : pc'[u] = pc[u]
  BY <1>2 DEF RollupTypeOK
<1>4. RowSeen(s)' = RowSeen(s)
  BY <1>2 DEF RowSeen
<1>5. JobSeen(s)' = JobSeen(s)
  BY <1>2, <1>3 DEF JobSeen, HoldsJobs
<1>6. st # NoWrite
  BY DEF RowStatus, NoWrite
<1>7. next[s] = RowSeen(s)[x] => WillSee(s)' = [y \in Rows |-> IF y = x THEN st ELSE RowSeen(s)[y]]
  BY <1>3, <1>4, <1>6 DEF WillSee
<1>8. WillSee(s) = RowSeen(s)
  BY <1>1, <1>2 DEF WillSee
<1> QED BY <1>1, <1>2, <1>3, <1>5, <1>7, <1>8

\* A session that is alone reads the row as it will still be when it decides.
LEMMA ReadHeals ==
  ASSUME TypesAndShape, \A u \in Sessions : HealInv(u), NEW s \in Sessions, NEW x \in Rows, ReadRow(s, x)
  PROVE  \A u \in Sessions : HealInv(u)'
<1> USE DEF TypesAndShape
<1>1. /\ pc[s] = "read" /\ pc'[s] = "select" /\ x \in todo[s] /\ (x = Batch <=> BatchIsNext(s))
      /\ target'[s] = x /\ next'[s] = RowSeen(s)[x]
      /\ UNCHANGED <<job, shown, kind, moved, todo, wrote, alone>>
      /\ \A u \in Sessions \ {s} : pc'[u] = pc[u]
  BY DEF RollupTypeOK, ReadRow
<1>2. RowSeen(s)' = RowSeen(s) /\ JobSeen(s)' = JobSeen(s) /\ (BatchIsNext(s)' <=> BatchIsNext(s))
  BY <1>1 DEF RowSeen, JobSeen, HoldsJobs, BatchIsNext
<1>3. WillSee(s)' = WillSee(s)
  BY <1>1, <1>2 DEF WillSee
<1>4. alone[s] => Right(s)'
  <2>1. \A e : StatusOfPages(JobSeen(s), e)' = StatusOfPages(JobSeen(s), e)
    BY <1>2 DEF StatusOfPages
  <2>2. StatusOfDocuments(WillSee(s))' = StatusOfDocuments(WillSee(s))
    BY <1>3 DEF StatusOfDocuments
  <2> QED BY <1>1, <1>3, <2>1, <2>2 DEF Right, HealInv
<1>5. HealInv(s)'
  BY <1>1, <1>2, <1>4 DEF HealInv
<1>6. \A u \in Sessions \ {s} : HealInv(u)'
  BY <1>1, OthersNotAlone
<1> QED BY <1>5, <1>6

LEMMA DocumentHeals ==
  ASSUME TypesAndShape, \A u \in Sessions : HealInv(u), NEW s \in Sessions, NEW d \in Documents,
         RecomputeDocument(s, d)
  PROVE  \A u \in Sessions : HealInv(u)'
<1> DEFINE st == StatusOfPages(JobSeen(s), d)
<1>1. st \in RowStatus /\ d \in Rows /\ d # Batch
  BY AggregateFact, StatusRollupAssumption DEF StatusOfPages, Rows
<1>2. Recompute(s, d, st) /\ target[s] = d
  BY DEF RecomputeDocument, Recompute
<1>3. /\ next[s] = RowSeen(s)[d] => WillSee(s)' = [RowSeen(s) EXCEPT ![d] = st]
      /\ WillSee(s) = RowSeen(s) /\ RowSeen(s) \in [Rows -> RowStatus]
      /\ JobSeen(s)' = JobSeen(s)
      /\ pc[s] = "select" /\ pc'[s] = "write" /\ todo'[s] = todo[s] \ {d}
      /\ UNCHANGED <<kind, moved, alone>>
      /\ \A u \in Sessions \ {s} : pc'[u] = pc[u]
  BY <1>1, <1>2, RecomputeSees
<1>4. ASSUME alone[s]
      PROVE  Right(s)'
  <2>1. Right(s) /\ WillSee(s)' = [RowSeen(s) EXCEPT ![d] = st]
    BY <1>2, <1>3, <1>4 DEF HealInv
  <2>2. \A e \in DocumentsOf(moved[s]) : e \in Rows
    BY StatusRollupAssumption DEF TypesAndShape, RollupTypeOK, DocumentsOf, Rows
  <2>3. ASSUME NEW e \in DocumentsOf(moved'[s]) \ todo'[s]
        PROVE  WillSee(s)'[e] = StatusOfPages(JobSeen(s), e)
    <3>1. CASE e = d
      BY <1>1, <1>3, <2>1, <3>1
    <3>2. CASE e # d
      BY <1>3, <2>1, <2>2, <2>3, <3>2 DEF Right
    <3> QED BY <3>1, <3>2
  <2>4. kind[s] \in BatchLast => Batch \in todo'[s]
    <3>1. d \in todo[s]
      BY <1>2, <1>3, <1>4 DEF HealInv
    <3> QED BY <1>1, <1>3, <2>1, <3>1 DEF Right
  <2>5. \A e : StatusOfPages(JobSeen(s), e)' = StatusOfPages(JobSeen(s), e)
    BY <1>3 DEF StatusOfPages
  <2> QED BY <1>3, <2>3, <2>4, <2>5 DEF Right
<1> HIDE DEF st
<1>5. HealInv(s)'
  BY <1>3, <1>4 DEF HealInv
<1>6. \A u \in Sessions \ {s} : HealInv(u)'
  BY <1>3, OthersNotAlone
<1> QED BY <1>5, <1>6

LEMMA BatchHeals ==
  ASSUME TypesAndShape, \A u \in Sessions : HealInv(u), NEW s \in Sessions, RecomputeBatch(s)
  PROVE  \A u \in Sessions : HealInv(u)'
<1> DEFINE st == StatusOfDocuments(RowSeen(s))
<1>1. st \in RowStatus /\ Batch \in Rows /\ Batch \notin Documents /\ Documents \subseteq Rows
  BY AggregateFact, StatusRollupAssumption DEF StatusOfDocuments, Rows
<1>2. Recompute(s, Batch, st) /\ target[s] = Batch
  BY DEF RecomputeBatch, Recompute
<1>3. /\ next[s] = RowSeen(s)[Batch] => WillSee(s)' = [RowSeen(s) EXCEPT ![Batch] = st]
      /\ WillSee(s) = RowSeen(s) /\ RowSeen(s) \in [Rows -> RowStatus]
      /\ JobSeen(s)' = JobSeen(s)
      /\ pc[s] = "select" /\ pc'[s] = "write" /\ todo'[s] = todo[s] \ {Batch}
      /\ UNCHANGED <<kind, moved, alone>>
      /\ \A u \in Sessions \ {s} : pc'[u] = pc[u]
  BY <1>1, <1>2, RecomputeSees
<1>6. ASSUME alone[s]
      PROVE  Right(s)'
  <2>1. Right(s) /\ BatchIsNext(s) /\ WillSee(s)' = [RowSeen(s) EXCEPT ![Batch] = st]
    BY <1>2, <1>3, <1>6 DEF HealInv
  <2>8. \A d \in Documents : WillSee(s)'[d] = RowSeen(s)[d]
    BY <1>1, <1>3, <2>1
  <2>9. StatusOfDocuments(WillSee(s)') = st
    BY <2>8 DEF StatusOfDocuments
  <2>2. \A d \in DocumentsOf(moved[s]) : d \in Documents
    BY StatusRollupAssumption DEF TypesAndShape, RollupTypeOK, DocumentsOf
  <2>3. \A d \in DocumentsOf(moved'[s]) \ todo'[s] : WillSee(s)'[d] = StatusOfPages(JobSeen(s), d)
    BY <1>1, <1>3, <2>1, <2>2, <2>8 DEF Right
  <2>4. kind[s] \in BatchLast => todo'[s] = {}
    BY <1>3, <2>1 DEF BatchIsNext, BatchLast, OneJob
  <2>5. \A e : StatusOfPages(JobSeen(s), e)' = StatusOfPages(JobSeen(s), e)
    BY <1>3 DEF StatusOfPages
  <2>6. WillSee(s)'[Batch] = st
    BY <1>1, <1>3, <2>1
  <2>7. StatusOfDocuments(WillSee(s))' = StatusOfDocuments(WillSee(s)')
    BY DEF StatusOfDocuments
  <2> HIDE DEF st
  <2> QED BY <1>3, <2>3, <2>4, <2>5, <2>6, <2>7, <2>9 DEF Right
<1> HIDE DEF st
<1>7. HealInv(s)'
  BY <1>3, <1>6 DEF HealInv
<1>8. \A u \in Sessions \ {s} : HealInv(u)'
  BY <1>3, OthersNotAlone
<1> QED BY <1>7, <1>8

\* The UPDATE makes the session see what it has decided on.
LEMMA WriteHeals ==
  ASSUME TypesAndShape, \A u \in Sessions : HealInv(u), NEW s \in Sessions, WriteRow(s)
  PROVE  \A u \in Sessions : HealInv(u)'
<1> USE DEF TypesAndShape
<1>1. /\ pc[s] = "write" /\ pc' = [pc EXCEPT ![s] = "read"]
      /\ wrote' = IF next[s] = NoWrite THEN wrote ELSE [wrote EXCEPT ![s][target[s]] = next[s]]
      /\ UNCHANGED <<job, shown, kind, moved, todo, target, alone>>
  BY DEF WriteRow
<1>2. pc'[s] = "read" /\ \A u \in Sessions \ {s} : pc'[u] = pc[u]
  BY <1>1 DEF RollupTypeOK
<1>3. \A x \in Rows : wrote'[s][x] = IF target[s] = x /\ next[s] # NoWrite THEN next[s] ELSE wrote[s][x]
  BY <1>1 DEF RollupTypeOK
<1>4. WillSee(s)' = WillSee(s)
  <2>1. \A x \in Rows : WillSee(s)'[x] = RowSeen(s)'[x]
    BY <1>2 DEF WillSee
  <2>2. \A x \in Rows : RowSeen(s)'[x] = IF wrote'[s][x] # NoWrite THEN wrote'[s][x] ELSE shown[x]
    BY <1>1 DEF RowSeen
  <2>3. \A x \in Rows : RowSeen(s)[x] = IF wrote[s][x] # NoWrite THEN wrote[s][x] ELSE shown[x]
    BY DEF RowSeen
  <2>4. \A x \in Rows : WillSee(s)[x] = IF target[s] = x /\ next[s] # NoWrite THEN next[s] ELSE RowSeen(s)[x]
    BY <1>1 DEF WillSee
  <2>5. \A x \in Rows : WillSee(s)'[x] = WillSee(s)[x]
    BY <1>3, <2>1, <2>2, <2>3, <2>4
  <2> QED BY <2>5 DEF WillSee
<1>5. JobSeen(s)' = JobSeen(s)
  BY <1>1, <1>2 DEF JobSeen, HoldsJobs
<1>6. alone[s] => Right(s)'
  <2>1. \A e : StatusOfPages(JobSeen(s), e)' = StatusOfPages(JobSeen(s), e)
    BY <1>5 DEF StatusOfPages
  <2>2. StatusOfDocuments(WillSee(s))' = StatusOfDocuments(WillSee(s))
    BY <1>4 DEF StatusOfDocuments
  <2> QED BY <1>1, <1>4, <2>1, <2>2 DEF Right, HealInv
<1>7. HealInv(s)'
  BY <1>1, <1>2, <1>6 DEF HealInv
<1>8. \A u \in Sessions \ {s} : HealInv(u)'
  BY <1>1, <1>2, OthersNotAlone
<1> QED BY <1>7, <1>8

\* A step after which the session has nothing to be right about.
LEMMA NothingToHeal ==
  ASSUME TypesAndShape, \A u \in Sessions : HealInv(u), NEW s \in Sessions,
         \/ pc[s] # "idle" /\ \A u \in Sessions \ {s} : alone'[u] = alone[u]
         \/ \A u \in Sessions \ {s} : alone'[u] = FALSE,
         \A u \in Sessions \ {s} : pc'[u] = pc[u],
         \/ pc'[s] = "idle"
         \/ pc'[s] = "submit"
              /\ (alone'[s] => \A u \in Sessions \ {s} : pc[u] = "idle")
  PROVE  \A u \in Sessions : HealInv(u)'
<1>1. \A u \in Sessions \ {s} : HealInv(u)'
  BY OthersNotAlone
<1>2. HealInv(s)'
  BY DEF HealInv
<1> QED BY <1>1, <1>2

LEMMA HealNext ==
  ASSUME TypesAndShape, \A u \in Sessions : HealInv(u), [Next]_vars
  PROVE  \A u \in Sessions : HealInv(u)'
<1>1. CASE UNCHANGED vars
  <2> USE <1>1 DEF vars, sessionVars
  <2>1. ASSUME NEW s \in Sessions
        PROVE  WillSee(s)' = WillSee(s) /\ JobSeen(s)' = JobSeen(s)
    <3>1. RowSeen(s)' = RowSeen(s) /\ JobSeen(s)' = JobSeen(s)
      BY DEF RowSeen, JobSeen, HoldsJobs
    <3> QED BY <3>1 DEF WillSee
  <2>2. \A s \in Sessions : Right(s)' <=> Right(s)
    BY <2>1 DEF Right, StatusOfPages, StatusOfDocuments
  <2> QED BY <2>2 DEF HealInv, RowSeen, BatchIsNext
<1>2. ASSUME NEW s \in Sessions, MoveOneJob(s) \/ CancelBatch(s) \/ Recover(s)
      PROVE  \A u \in Sessions : HealInv(u)'
  BY <1>2, BeginHeals, MovesFact DEF MoveOneJob, CancelBatch, Recover
<1>3. ASSUME NEW s \in Sessions, Fetched(s)
      PROVE  \A u \in Sessions : HealInv(u)'
  <2>1. /\ \A u \in Sessions \ {s} : alone'[u] = FALSE /\ pc'[u] = pc[u]
        /\ alone'[s] = (\A v \in Sessions \ {s} : pc[v] = "idle")
        /\ pc'[s] = "read" /\ moved'[s] = {} /\ todo'[s] = {Batch}
    BY <1>3 DEF TypesAndShape, RollupTypeOK, Fetched, Start
  <2>2. Right(s)'
    BY <2>1 DEF Right, DocumentsOf
  <2>3. HealInv(s)'
    BY <2>1, <2>2 DEF HealInv
  <2> QED BY <2>1, <2>3, OthersNotAlone
<1>4. ASSUME NEW s \in Sessions, UpdateJobs(s)
      PROVE  \A u \in Sessions : HealInv(u)'
  <2>1. /\ \A u \in Sessions \ {s} : pc'[u] = pc[u]
        /\ pc[s] = "update" /\ pc'[s] = "read"
        /\ UNCHANGED <<kind, moved, todo, alone>>
    BY <1>4 DEF TypesAndShape, RollupTypeOK, UpdateJobs
  <2>2. alone[s] => Right(s)'
    BY <2>1 DEF HealInv, Right
  <2>3. HealInv(s)'
    BY <2>1, <2>2 DEF HealInv
  <2> QED BY <2>1, <2>3, OthersNotAlone
<1>5. ASSUME NEW s \in Sessions, NEW d \in Documents, Ingest(s, d)
      PROVE  \A u \in Sessions : HealInv(u)'
  <2>1. /\ \A u \in Sessions \ {s} : alone'[u] = FALSE /\ pc'[u] = pc[u]
        /\ alone'[s] = (\A v \in Sessions \ {s} : pc[v] = "idle")
        /\ pc'[s] = "submit"
    BY <1>5 DEF TypesAndShape, RollupTypeOK, Ingest, Start
  <2> QED BY <2>1, NothingToHeal
<1>6. ASSUME NEW s \in Sessions, pc[s] # "idle", End(s)
      PROVE  \A u \in Sessions : HealInv(u)'
  <2>1. /\ \A u \in Sessions \ {s} : alone'[u] = alone[u] /\ pc'[u] = pc[u]
        /\ pc'[s] = "idle"
    BY <1>6 DEF TypesAndShape, RollupTypeOK, End
  <2> QED BY <1>6, <2>1, NothingToHeal
<1>7. ASSUME NEW s \in Sessions, Commit(s)
      PROVE  \A u \in Sessions : HealInv(u)'
  <2>1. CASE kind[s] = "mark_pending_for_retry"
    <3>1. /\ \A u \in Sessions \ {s} : alone'[u] = alone[u] /\ pc'[u] = pc[u]
          /\ pc[s] = "read" /\ pc'[s] = "submit" /\ alone'[s] = alone[s]
      BY <1>7, <2>1 DEF TypesAndShape, RollupTypeOK, Commit
    <3>2. alone[s] => \A u \in Sessions \ {s} : pc[u] = "idle"
      BY <3>1 DEF HealInv
    <3> QED BY <3>1, <3>2, NothingToHeal
  <2>2. CASE kind[s] # "mark_pending_for_retry"
    BY <1>6, <1>7, <2>2 DEF Commit
  <2> QED BY <2>1, <2>2
<1>8. ASSUME NEW s \in Sessions, NEW js \in SUBSET Jobs, SubmitFailed(s, js)
      PROVE  \A u \in Sessions : HealInv(u)'
  <2>1. /\ \A u \in Sessions \ {s} : pc'[u] = pc[u]
        /\ pc[s] = "submit" /\ pc'[s] = "update" /\ moved'[s] = js
        /\ DocumentsOf(js) \subseteq todo'[s] /\ kind'[s] = "submit_failed"
        /\ alone' = alone
    BY <1>8 DEF TypesAndShape, RollupTypeOK, SubmitFailed
  <2>2. HealInv(s)'
    BY <2>1 DEF HealInv, BatchLast, OneJob
  <2> QED BY <2>1, <2>2, OthersNotAlone
<1>9. ASSUME NEW s \in Sessions, Submitted(s) \/ Rollback(s)
      PROVE  \A u \in Sessions : HealInv(u)'
  BY <1>6, <1>9 DEF Submitted, Rollback
<1> QED BY <1>1, <1>2, <1>3, <1>4, <1>5, <1>7, <1>8, <1>9,
           BatchHeals, ReadHeals, WriteHeals, DocumentHeals DEF Next

\* Whatever went wrong before, and with any number of documents, pages and
\* sessions: a session that nobody interrupts commits documents that show what
\* their pages make them (recompute_document_status), and but for a recovery a
\* batch that shows what its documents make it (recompute_batch_status).
THEOREM LoneSessionAlwaysHeals == Spec => []LoneSessionHeals
<1>1. TypesAndShape /\ (\A s \in Sessions : HealInv(s)) => LoneSessionHeals
  <2> SUFFICES ASSUME TypesAndShape, NEW s \in Sessions, HealInv(s), alone[s], pc[s] = "read",
                      todo[s] = {}
               PROVE  /\ \A d \in DocumentsOf(moved[s]) : RowSeen(s)[d] = StatusOfPages(JobSeen(s), d)
                      /\ kind[s] \in BatchLast => RowSeen(s)[Batch] = StatusOfDocuments(RowSeen(s))
    BY DEF LoneSessionHeals, BatchLast
  <2>1. Right(s)
    BY DEF HealInv
  <2>2. WillSee(s) = RowSeen(s)
    BY SeenType DEF WillSee, TypesAndShape
  <2> QED BY <2>1, <2>2 DEF Right
<1>2. Init => \A s \in Sessions : HealInv(s)
  BY HealInit
<1>3. TypesAndShape /\ (\A s \in Sessions : HealInv(s)) /\ [Next]_vars => (\A s \in Sessions : HealInv(s))'
  BY HealNext
<1>4. Spec => []TypesAndShape
  BY RollupTypeInit, RollupTypeNext, PTL DEF Spec, TypesAndShape
<1> QED BY <1>1, <1>2, <1>3, <1>4, PTL DEF Spec
=============================================================================
