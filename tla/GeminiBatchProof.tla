-------------------------- MODULE GeminiBatchProof --------------------------
(***************************************************************************)
(* Proofs about Gemini Batch Mode, for any number of jobs, workers,        *)
(* requests, passes and batches, any budget and any limits.                *)
(***************************************************************************)
EXTENDS GeminiBatch, OcrJobsProof

USE GeminiBatchAssumption

-----------------------------------------------------------------------------
(* Type correctness *)

\* The part of BatchTypeOK that is about passes and Google.
PassTypeOK ==
  /\ name    \in [Jobs -> Batches \cup {NoBatch}]
  /\ touched \in [Jobs -> Nat]
  /\ google  \in [Batches -> {"unused", "running", "succeeded", "failed"}]
  /\ due     \in BOOLEAN
  /\ tpc     \in [Passes -> PassPc]
  /\ tjobs   \in [Passes -> SUBSET Jobs]
  /\ tfinish \in [Passes -> SUBSET Jobs]
  /\ told    \in [Passes -> BOOLEAN]
  /\ tnames  \in [Passes -> SUBSET Batches]
  /\ tbatch  \in [Passes -> Batches \cup {NoBatch}]
  /\ tnext   \in [Passes -> PassPc]
  /\ tage    \in [Passes -> 0 .. StepLimit]
  /\ reopened \subseteq Jobs
  /\ tleft   \in Nat

\* The initial state is well typed.
LEMMA BatchTypeInit == BatchInit => BatchTypeOK
<1> SUFFICES ASSUME BatchInit PROVE BatchTypeOK
  OBVIOUS
<1>1. TypeOK BY TypeInit DEF BatchInit
<1>2. told \in [Passes -> BOOLEAN] /\ due \in BOOLEAN
  BY Zenon DEF BatchInit
<1>3. /\ tjobs   \in [Passes -> SUBSET Jobs]
      /\ tfinish \in [Passes -> SUBSET Jobs]
      /\ tnames  \in [Passes -> SUBSET Batches]
  BY DEF BatchInit
<1>4. /\ tpc     \in [Passes -> PassPc]
      /\ tnext   \in [Passes -> PassPc]
      /\ tage    \in [Passes -> 0 .. StepLimit]
      /\ tbatch  \in [Passes -> Batches \cup {NoBatch}]
  BY DEF BatchInit, PassPc
<1>5. /\ name    \in [Jobs -> Batches \cup {NoBatch}]
      /\ touched \in [Jobs -> Nat]
      /\ google  \in [Batches -> {"unused", "running", "succeeded", "failed"}]
      /\ tleft   \in Nat /\ reopened \subseteq Jobs
  BY DEF BatchInit
<1> QED BY <1>1, <1>2, <1>3, <1>4, <1>5 DEF BatchTypeOK

\* Where a pass goes, and with which jobs, is well typed.
LEMMA PassToType ==
  ASSUME PassTypeOK, NEW p \in Passes, NEW to \in PassPc, NEW js \in SUBSET Jobs,
         PassTo(p, to, js)
  PROVE  /\ tpc'   \in [Passes -> PassPc]
         /\ tjobs' \in [Passes -> SUBSET Jobs]
         /\ tage'  \in [Passes -> 0 .. StepLimit]
<1>1. 0 \in 0 .. StepLimit
  OBVIOUS
<1>2. tpc' \in [Passes -> PassPc]
  BY Zenon DEF PassTo, PassTypeOK
<1>3. tjobs' \in [Passes -> SUBSET Jobs]
  BY Zenon DEF PassTo, PassTypeOK
<1> QED BY <1>1, <1>2, <1>3 DEF PassTo, PassTypeOK

LEMMA PassFallsBackType ==
  ASSUME PassTypeOK, NEW p \in Passes, NEW js \in SUBSET Jobs, NEW next \in PassPc,
         PassFallsBack(p, js, next)
  PROVE  /\ tpc'   \in [Passes -> PassPc]
         /\ tjobs' \in [Passes -> SUBSET Jobs]
         /\ tage'  \in [Passes -> 0 .. StepLimit]
         /\ tnext' \in [Passes -> PassPc]
<1>1. (IF js = {} THEN next ELSE "fallback") \in PassPc
  BY DEF PassPc
<1>2. tnext' \in [Passes -> PassPc]
  BY DEF PassFallsBack, PassTypeOK
<1> QED BY <1>1, <1>2, PassToType DEF PassFallsBack

LEMMA EndPassType ==
  ASSUME PassTypeOK, NEW p \in Passes, EndPass(p)
  PROVE  /\ tpc'     \in [Passes -> PassPc]
         /\ tjobs'   \in [Passes -> SUBSET Jobs]
         /\ tage'    \in [Passes -> 0 .. StepLimit]
         /\ tfinish' \in [Passes -> SUBSET Jobs]
         /\ told'    \in [Passes -> BOOLEAN]
         /\ tnames'  \in [Passes -> SUBSET Batches]
         /\ tbatch'  \in [Passes -> Batches \cup {NoBatch}]
<1>1. "idle" \in PassPc BY DEF PassPc
<1>2. /\ tpc'   \in [Passes -> PassPc]
      /\ tjobs' \in [Passes -> SUBSET Jobs]
      /\ tage'  \in [Passes -> 0 .. StepLimit]
  BY <1>1, PassToType DEF EndPass
<1>3. told' \in [Passes -> BOOLEAN] BY Zenon DEF EndPass, PassTypeOK
<1>4. /\ tfinish' \in [Passes -> SUBSET Jobs]
      /\ tnames' \in [Passes -> SUBSET Batches]
      /\ tbatch' \in [Passes -> Batches \cup {NoBatch}]
  BY DEF EndPass, PassTypeOK
<1> QED BY <1>2, <1>3, <1>4

LEMMA SpendTickType ==
  ASSUME PassTypeOK, SpendTick
  PROVE  tleft' \in Nat
BY DEF PassTypeOK, SpendTick

LEMMA SetStageType ==
  ASSUME TypeOK, PassTypeOK, NEW js, NEW s \in Stage, SetStage(js, s)
  PROVE  stage' \in [Jobs -> Stage] /\ touched' \in [Jobs -> Nat]
BY DEF TypeOK, PassTypeOK, SetStage

\* A step that leaves workers, requests and the sweep alone keeps the type of the job
\* system.
LEMMA RestTyped ==
  ASSUME TypeOK, UNCHANGED <<workerVars, requestVars, sweep, left, raced>>,
         status' \in [Jobs -> Status], stage' \in [Jobs -> Stage],
         started' \in [Jobs -> NotStarted .. StaleAfter + 1],
         queue' \in [Jobs -> Nat], lost' \subseteq Jobs
  PROVE  TypeOK'
BY DEF TypeOK, workerVars, requestVars

\* The same for a step that leaves the rows alone too.
LEMMA RowsKeptTyped ==
  ASSUME TypeOK, PassTypeOK, rowsUnchanged, othersUnchanged, UNCHANGED raced,
         queue' \in [Jobs -> Nat], lost' \subseteq Jobs
  PROVE  /\ TypeOK'
         /\ name' \in [Jobs -> Batches \cup {NoBatch}]
         /\ touched' \in [Jobs -> Nat]
         /\ reopened' \subseteq Jobs
<1>1. /\ status' \in [Jobs -> Status] /\ stage' \in [Jobs -> Stage]
      /\ started' \in [Jobs -> NotStarted .. StaleAfter + 1]
  BY DEF TypeOK, rowsUnchanged, jobVars
<1>2. /\ name' \in [Jobs -> Batches \cup {NoBatch}] /\ touched' \in [Jobs -> Nat]
      /\ reopened' \subseteq Jobs
  BY DEF PassTypeOK, rowsUnchanged, othersUnchanged
<1> QED BY <1>1, <1>2, RestTyped DEF othersUnchanged

LEMMA InStageJobs == \A stages : InStage(stages) \in SUBSET Jobs
BY DEF InStage

\* The steps of a pass that only read the rows.
LEMMA TypeReaders ==
  ASSUME TypeOK, PassTypeOK, NEW p \in Passes,
         \/ StartTick(p) \/ SwitchedOff(p) \/ SubmitFails(p) \/ ReadNames(p)
         \/ ReadRows(p) \/ Collected(p) \/ CollectFails(p) \/ FinishRead(p)
         \/ FinishFails(p) \/ EndFinish(p) \/ EndTick(p)
  PROVE  TypeOK' /\ PassTypeOK'
<1>1. UNCHANGED queueVars /\ rowsUnchanged /\ othersUnchanged
  BY DEF StartTick, SwitchedOff, SubmitFails, ReadNames, ReadRows, Collected,
         CollectFails, FinishRead, FinishFails, EndFinish, EndTick
<1>2. queue' \in [Jobs -> Nat] /\ lost' \subseteq Jobs /\ UNCHANGED raced
  BY <1>1 DEF queueVars, TypeOK
<1>3. /\ TypeOK'
      /\ name' \in [Jobs -> Batches \cup {NoBatch}]
      /\ touched' \in [Jobs -> Nat] /\ reopened' \subseteq Jobs
  BY <1>1, <1>2, RowsKeptTyped
<1>4. {} \in SUBSET Jobs /\ tjobs[p] \in SUBSET Jobs /\ NoBatch \in Batches \cup {NoBatch}
  BY DEF PassTypeOK
<1>5. {"idle", "submit", "names", "check", "finish", "complete", "collecting"} \subseteq PassPc
  BY DEF PassPc, LongPassSteps
<1>7. ASSUME told' = [told EXCEPT ![p] = FALSE], tbatch' = [tbatch EXCEPT ![p] = NoBatch]
      PROVE  told' \in [Passes -> BOOLEAN] /\ tbatch' \in [Passes -> Batches \cup {NoBatch}]
  <2>1. told' \in [Passes -> BOOLEAN] BY <1>7, Zenon DEF PassTypeOK
  <2>2. tbatch' \in [Passes -> Batches \cup {NoBatch}] BY <1>4, <1>7 DEF PassTypeOK
  <2> QED BY <2>1, <2>2
<1> USE DEF PassTypeOK
<1>8. CASE StartTick(p)
  <2> DEFINE js == {j \in InStage({"SUBMITTING", "FINISHING"}) : touched[j] > StuckAfter}
  <2>1. js \in SUBSET Jobs BY DEF InStage
  <2>2. PassFallsBack(p, js, "submit") BY <1>8 DEF StartTick
  <2>3. due' \in BOOLEAN BY <1>8, Zenon DEF StartTick
  <2> HIDE DEF js
  <2> QED BY <1>3, <1>5, <1>8, <2>1, <2>2, <2>3, PassFallsBackType DEF StartTick
<1>9. CASE SwitchedOff(p)
  BY <1>3, <1>5, <1>9, InStageJobs, PassFallsBackType DEF SwitchedOff
<1>10. CASE SubmitFails(p)
  BY <1>3, <1>4, <1>5, <1>10, PassFallsBackType DEF SubmitFails
<1>11. CASE ReadNames(p)
  <2> DEFINE ns == {name[j] : j \in InStage({"SUBMITTED"})} \ {NoBatch}
  <2>1. ns \in SUBSET Batches BY DEF InStage
  <2>2. tnames' = [tnames EXCEPT ![p] = ns] BY <1>11 DEF ReadNames
  <2> HIDE DEF ns
  <2>3. tnames' \in [Passes -> SUBSET Batches] BY <2>1, <2>2
  <2> QED BY <1>3, <1>4, <1>5, <1>11, <2>3, PassToType DEF ReadNames
<1>12. CASE ReadRows(p)
  <2>1. PICK b \in tnames[p] :
          LET js == {j \in InStage({"SUBMITTED"}) : name[j] = b} IN
            /\ tnames' = [tnames EXCEPT ![p] = @ \ {b}]
            /\ tbatch' = [tbatch EXCEPT ![p] = b]
            /\ told'   = [told EXCEPT ![p] = \E j \in js : touched[j] > FallbackAfter]
            /\ PassTo(p, "collecting", js)
    BY <1>12 DEF ReadRows
  <2>2. b \in Batches OBVIOUS
  <2>3. tnames' \in [Passes -> SUBSET Batches] BY <2>1
  <2>4. tbatch' \in [Passes -> Batches \cup {NoBatch}] BY <2>1, <2>2
  <2>5. told' \in [Passes -> BOOLEAN] BY <2>1, Zenon
  <2>6. {j \in InStage({"SUBMITTED"}) : name[j] = b} \in SUBSET Jobs BY DEF InStage
  <2> QED BY <1>3, <1>5, <1>12, <2>1, <2>3, <2>4, <2>5, <2>6, PassToType DEF ReadRows
<1>13. CASE Collected(p)
  <2>1. \/ \E js \in SUBSET Jobs : PassFallsBack(p, js, "check") /\ UNCHANGED tfinish
        \/ /\ PassTo(p, "finish", {})
           /\ tfinish' = [tfinish EXCEPT ![p] = tjobs[p]]
           /\ UNCHANGED tnext
    BY <1>4, <1>13 DEF Collected
  <2>2. /\ told' \in [Passes -> BOOLEAN]
        /\ tbatch' \in [Passes -> Batches \cup {NoBatch}]
    BY <1>7, <1>13 DEF Collected
  <2>3. /\ tpc'   \in [Passes -> PassPc]
        /\ tjobs' \in [Passes -> SUBSET Jobs]
        /\ tage'  \in [Passes -> 0 .. StepLimit]
        /\ tnext' \in [Passes -> PassPc]
    BY <1>4, <1>5, <2>1, PassToType, PassFallsBackType
  <2>4. tfinish' \in [Passes -> SUBSET Jobs] BY <1>4, <2>1
  <2> QED BY <1>3, <1>13, <2>2, <2>3, <2>4 DEF Collected
<1>14. CASE CollectFails(p)
  <2>1. tleft' \in Nat BY <1>14, SpendTickType DEF CollectFails
  <2>2. /\ told' \in [Passes -> BOOLEAN]
        /\ tbatch' \in [Passes -> Batches \cup {NoBatch}]
    BY <1>7, <1>14 DEF CollectFails
  <2> QED BY <1>3, <1>4, <1>5, <1>14, <2>1, <2>2, PassToType DEF CollectFails
<1>15. CASE FinishRead(p)
  BY <1>3, <1>4, <1>5, <1>15, PassToType, PassFallsBackType DEF FinishRead
<1>16. CASE FinishFails(p)
  BY <1>3, <1>4, <1>5, <1>16, PassFallsBackType DEF FinishFails
<1>17. CASE EndFinish(p)
  BY <1>3, <1>4, <1>5, <1>17, PassToType DEF EndFinish
<1>18. CASE EndTick(p)
  BY <1>3, <1>4, <1>5, <1>18, PassToType DEF EndTick
<1> QED BY <1>8, <1>9, <1>10, <1>11, <1>12, <1>13, <1>14, <1>15, <1>16, <1>17, <1>18

\* The steps of a pass that write rows or send messages, and its end.
LEMMA TypeWriters ==
  ASSUME TypeOK, PassTypeOK, NEW p \in Passes,
         \/ FallBack(p) \/ Requeue(p) \/ RequeueError(p) \/ ClaimPrepared(p)
         \/ FinishClaim(p) \/ FinishWrite(p) \/ TickLost(p)
         \/ \E b \in Batches : SubmitDone(p, b)
  PROVE  TypeOK' /\ PassTypeOK'
<1>1. /\ status \in [Jobs -> Status] /\ stage \in [Jobs -> Stage]
      /\ started \in [Jobs -> NotStarted .. StaleAfter + 1]
      /\ queue \in [Jobs -> Nat] /\ lost \subseteq Jobs
  BY DEF TypeOK
<1>2. /\ UNCHANGED <<workerVars, requestVars, sweep, left, raced>>
      /\ reopened' \subseteq Jobs
  BY DEF FallBack, Requeue, RequeueError, ClaimPrepared, FinishClaim, FinishWrite,
         TickLost, SubmitDone, othersUnchanged, queueVars, PassTypeOK
<1>3. {} \in SUBSET Jobs /\ tjobs[p] \in SUBSET Jobs /\ tfinish[p] \in SUBSET Jobs
      /\ tnext[p] \in PassPc
  BY DEF PassTypeOK
<1>4. {"idle", "submitting", "names", "finish", "finishing", "fallback", "requeue"} \subseteq PassPc
  BY DEF PassPc, LongPassSteps
<1>6. {"SYNC", "SUBMITTING", "SUBMITTED", "FINISHING"} \subseteq Stage
  BY DEF Stage, BATCH_WAITING_STAGES
<1>7. {"PENDING", "COMPLETED"} \subseteq Status
  BY DEF Status, Unfinished
<1>8. RowsTypeOK
  BY DEF TypeOK, RowsTypeOK
<1>9. CASE FallBack(p)
  <2> DEFINE js == {j \in tjobs[p] : status[j] = "PROCESSING"}
  <2>1. js \in SUBSET Jobs BY <1>3
  <2>2. /\ SetStatus(js, "PENDING")
        /\ started' = [j \in Jobs |-> IF j \in js THEN NotStarted ELSE started[j]]
        /\ SetStage(js, "SYNC")
        /\ PassTo(p, "requeue", js)
    BY <1>9 DEF FallBack
  <2> HIDE DEF js
  <2>3. status' \in [Jobs -> Status] BY <1>7, <1>8, <2>2, SetStatusType
  <2>4. started' \in [Jobs -> NotStarted .. StaleAfter + 1]
    BY <1>1, <2>2, OcrJobsAssumption DEF NotStarted
  <2>5. stage' \in [Jobs -> Stage] /\ touched' \in [Jobs -> Nat]
    BY <1>6, <2>2, SetStageType
  <2>6. queue' \in [Jobs -> Nat] /\ lost' \subseteq Jobs
    BY <1>1, <1>9 DEF FallBack, queueVars
  <2>7. TypeOK' BY <1>2, <2>3, <2>4, <2>5, <2>6, RestTyped
  <2>8. /\ tpc'   \in [Passes -> PassPc]
        /\ tjobs' \in [Passes -> SUBSET Jobs]
        /\ tage'  \in [Passes -> 0 .. StepLimit]
    BY <1>4, <2>1, <2>2, PassToType
  <2> QED BY <1>2, <1>9, <2>5, <2>7, <2>8 DEF FallBack, PassTypeOK
<1>10. CASE Requeue(p)
  <2>1. queue' \in [Jobs -> Nat] /\ lost' \subseteq Jobs
    <3>1. ASSUME NEW k \in tjobs[p], Enqueue(k)
          PROVE  queue' \in [Jobs -> Nat] /\ lost' \subseteq Jobs
      BY <1>1, <1>3, <3>1 DEF Enqueue
    <3>2. CASE UNCHANGED queueVars BY <1>1, <3>2 DEF queueVars
    <3> QED BY <1>10, <3>1, <3>2 DEF Requeue
  <2>2. /\ TypeOK'
        /\ name' \in [Jobs -> Batches \cup {NoBatch}]
        /\ touched' \in [Jobs -> Nat]
    BY <1>10, <2>1, RowsKeptTyped DEF Requeue, queueVars
  <2>3. \E to \in PassPc, js \in SUBSET Jobs : PassTo(p, to, js)
    BY <1>3, <1>4, <1>10 DEF Requeue
  <2>4. /\ tpc'   \in [Passes -> PassPc]
        /\ tjobs' \in [Passes -> SUBSET Jobs]
        /\ tage'  \in [Passes -> 0 .. StepLimit]
    BY <2>3, PassToType
  <2> QED BY <1>2, <1>10, <2>2, <2>4 DEF Requeue, PassTypeOK
<1>11. CASE RequeueError(p)
  <2>1. queue' \in [Jobs -> Nat] /\ lost' \subseteq Jobs
    BY <1>1, <1>3, <1>11 DEF RequeueError
  <2>2. /\ TypeOK'
        /\ name' \in [Jobs -> Batches \cup {NoBatch}]
        /\ touched' \in [Jobs -> Nat]
    BY <1>11, <2>1, RowsKeptTyped DEF RequeueError
  <2>4. CASE EndPass(p)
    BY <1>2, <1>11, <2>2, <2>4, EndPassType DEF RequeueError, PassTypeOK
  <2>5. CASE PassTo(p, "fallback", tjobs[p]) /\ UNCHANGED <<tfinish, told, tnames, tbatch>>
    <3>1. /\ tpc'   \in [Passes -> PassPc]
          /\ tjobs' \in [Passes -> SUBSET Jobs]
          /\ tage'  \in [Passes -> 0 .. StepLimit]
      BY <1>3, <1>4, <2>5, PassToType
    <3> QED BY <1>2, <1>11, <2>2, <2>5, <3>1 DEF RequeueError, PassTypeOK
  <2> QED BY <1>11, <2>4, <2>5 DEF RequeueError
<1>12. CASE ClaimPrepared(p)
  <2>1. stage' \in [Jobs -> Stage] /\ touched' \in [Jobs -> Nat]
    BY <1>6, <1>12, SetStageType DEF ClaimPrepared
  <2>2. TypeOK'
    BY <1>1, <1>2, <1>12, <2>1, RestTyped DEF ClaimPrepared, queueVars
  <2>3. \E to \in PassPc, js \in SUBSET Jobs : PassTo(p, to, js)
    BY <1>4, <1>12, InStageJobs DEF ClaimPrepared
  <2>4. /\ tpc'   \in [Passes -> PassPc]
        /\ tjobs' \in [Passes -> SUBSET Jobs]
        /\ tage'  \in [Passes -> 0 .. StepLimit]
    BY <2>3, PassToType
  <2> QED BY <1>2, <1>12, <2>1, <2>2, <2>4 DEF ClaimPrepared, PassTypeOK
<1>13. CASE FinishClaim(p)
  <2>1. PICK k \in tfinish[p] :
          LET js == {k} \cap InStage({"SUBMITTED"}) IN
            /\ SetStage(js, "FINISHING")
            /\ PassTo(p, IF js = {} THEN "finish" ELSE "finishing", js)
            /\ tfinish' = [tfinish EXCEPT ![p] = @ \ {k}]
    BY <1>13 DEF FinishClaim
  <2>2. stage' \in [Jobs -> Stage] /\ touched' \in [Jobs -> Nat]
    BY <1>6, <2>1, SetStageType
  <2>3. TypeOK'
    BY <1>1, <1>2, <1>13, <2>2, RestTyped DEF FinishClaim, queueVars
  <2>4. {k} \cap InStage({"SUBMITTED"}) \in SUBSET Jobs
    BY DEF InStage
  <2>5. \E to \in PassPc, js \in SUBSET Jobs : PassTo(p, to, js)
    BY <1>4, <2>1, <2>4
  <2>6. /\ tpc'   \in [Passes -> PassPc]
        /\ tjobs' \in [Passes -> SUBSET Jobs]
        /\ tage'  \in [Passes -> 0 .. StepLimit]
    BY <2>5, PassToType
  <2>7. tfinish' \in [Passes -> SUBSET Jobs] BY <2>1 DEF PassTypeOK
  <2> QED BY <1>2, <1>13, <2>2, <2>3, <2>6, <2>7 DEF FinishClaim, PassTypeOK
<1>14. CASE FinishWrite(p)
  <2>1. status' \in [Jobs -> Status]
    BY <1>7, <1>8, <1>14, SetStatusType DEF FinishWrite
  <2>2. TypeOK'
    BY <1>1, <1>2, <1>14, <2>1, RestTyped DEF FinishWrite, queueVars
  <2>3. /\ tpc'   \in [Passes -> PassPc]
        /\ tjobs' \in [Passes -> SUBSET Jobs]
        /\ tage'  \in [Passes -> 0 .. StepLimit]
    BY <1>3, <1>4, <1>14, PassToType DEF FinishWrite
  <2> QED BY <1>2, <1>14, <2>2, <2>3 DEF FinishWrite, PassTypeOK
<1>15. CASE TickLost(p)
  <2>1. queue' \in [Jobs -> Nat] /\ lost' \subseteq Jobs
    BY <1>1, <1>3, <1>15 DEF TickLost
  <2>2. /\ TypeOK'
        /\ name' \in [Jobs -> Batches \cup {NoBatch}]
        /\ touched' \in [Jobs -> Nat]
    BY <1>15, <2>1, RowsKeptTyped DEF TickLost
  <2>3. tleft' \in Nat BY <1>15, SpendTickType DEF TickLost
  <2> QED BY <1>2, <1>15, <2>2, <2>3, EndPassType DEF TickLost, PassTypeOK
<1>16. ASSUME NEW b \in Batches, SubmitDone(p, b) PROVE TypeOK' /\ PassTypeOK'
  <2>1. stage' \in [Jobs -> Stage] /\ touched' \in [Jobs -> Nat]
    BY <1>6, <1>16, SetStageType DEF SubmitDone
  <2>2. TypeOK'
    BY <1>1, <1>2, <1>16, <2>1, RestTyped DEF SubmitDone, queueVars
  <2>3. /\ tpc'   \in [Passes -> PassPc]
        /\ tjobs' \in [Passes -> SUBSET Jobs]
        /\ tage'  \in [Passes -> 0 .. StepLimit]
    BY <1>3, <1>4, <1>16, PassToType DEF SubmitDone
  <2>4. name' \in [Jobs -> Batches \cup {NoBatch}]
    BY <1>16 DEF SubmitDone, PassTypeOK
  <2>5. google' \in [Batches -> {"unused", "running", "succeeded", "failed"}]
    BY <1>16 DEF SubmitDone, PassTypeOK
  <2> QED BY <1>2, <1>16, <2>1, <2>2, <2>3, <2>4, <2>5 DEF SubmitDone, PassTypeOK
<1> QED BY <1>9, <1>10, <1>11, <1>12, <1>13, <1>14, <1>15, <1>16

\* Every step keeps the type invariant.
LEMMA BatchTypeNext == BatchTypeOK /\ [BatchNext]_allVars => BatchTypeOK'
<1> SUFFICES ASSUME TypeOK, PassTypeOK, [BatchNext]_allVars
             PROVE  TypeOK' /\ PassTypeOK'
  BY DEF BatchTypeOK, PassTypeOK
<1>1. CASE UNCHANGED allVars
  BY <1>1, TypeNext DEF allVars, batchVars, passVars, PassTypeOK
<1>2. ASSUME NEW b \in Batches, BatchEnds(b) PROVE TypeOK' /\ PassTypeOK'
  <2>1. UNCHANGED <<vars, name, touched, due, passVars, reopened, tleft>>
    BY <1>2 DEF BatchEnds
  <2>2. TypeOK' BY <2>1, TypeNext
  <2>3. google' \in [Batches -> {"unused", "running", "succeeded", "failed"}]
    BY <1>2 DEF BatchEnds, PassTypeOK
  <2> QED BY <2>1, <2>2, <2>3 DEF PassTypeOK, passVars
<1>3. CASE BatchTimePasses
  <2>1. TypeOK' BY <1>3, TypeNext DEF BatchTimePasses, Next
  <2>2. tage' \in [Passes -> 0 .. StepLimit]
    <3> SUFFICES ASSUME NEW p \in Passes
                 PROVE  (IF tpc[p] = "idle" THEN 0 ELSE tage[p] + 1) \in 0 .. StepLimit
      BY <1>3 DEF BatchTimePasses
    <3>1. tpc[p] = "idle" \/ tage[p] < StepLimit BY <1>3 DEF BatchTimePasses
    <3> QED BY <3>1 DEF PassTypeOK
  <2>3. touched' \in [Jobs -> Nat] BY <1>3 DEF BatchTimePasses, PassTypeOK
  <2>4. due' \in BOOLEAN BY <1>3, Zenon DEF BatchTimePasses
  <2> QED BY <1>3, <2>1, <2>2, <2>3, <2>4 DEF BatchTimePasses, PassTypeOK
<1>4. CASE Beside(UntimedNext)
  <2>1. TypeOK' BY <1>4, TypeNext DEF Beside, Next
  <2>2. reopened' \subseteq Jobs BY <1>4 DEF Beside, PassTypeOK
  <2> QED BY <1>4, <2>1, <2>2 DEF Beside, passVars, PassTypeOK
<1> QED BY <1>1, <1>2, <1>3, <1>4, TypeReaders, TypeWriters DEF BatchNext, PassStep

\* Every reachable state of Gemini Batch Mode is well-typed, however many passes
\* of the scheduler overlap: what one writes, the others and the job system expect.
THEOREM BatchTypeCorrect == BatchSpec => []BatchTypeOK
BY BatchTypeInit, BatchTypeNext, PTL DEF BatchSpec

-----------------------------------------------------------------------------
(* PENDING jobs are carried *)

\* A pass has committed the job as PENDING and has still to send its message.
ToRequeue(j) == \E p \in Passes : tpc[p] = "requeue" /\ j \in tjobs[p]

\* A step of a pass keeps a job carried if the pass, when it had still to send its
\* message, still has, or has sent it, or left a mark in lost.
LEMMA PassCarries ==
  ASSUME NEW p \in Passes, NEW j \in Jobs, Carried(j) \/ ToRequeue(j),
         UNCHANGED <<workerVars, requestVars>>,
         queue[j] > 0 => queue'[j] > 0,
         j \in lost => j \in lost' \/ queue'[j] > 0,
         \A q \in Passes \ {p} : tpc'[q] = tpc[q] /\ tjobs'[q] = tjobs[q],
         tpc[p] = "requeue" /\ j \in tjobs[p] =>
           \/ tpc'[p] = "requeue" /\ j \in tjobs'[p]
           \/ queue'[j] > 0 \/ j \in lost'
  PROVE  Carried(j)' \/ ToRequeue(j)'
BY DEF Carried, Decides, StillToSubmit, ToRequeue, workerVars, requestVars

\* Steps of the job system leave what passes hold alone.
LEMMA CarriedBesidePasses ==
  ASSUME TypeOK, UNCHANGED passVars, [Next]_vars,
         NEW j \in Jobs, status[j] = "PENDING" => Carried(j) \/ ToRequeue(j),
         status'[j] = "PENDING"
  PROVE  Carried(j)' \/ ToRequeue(j)'
<1>1. CASE ToRequeue(j) BY <1>1 DEF ToRequeue, passVars
<1>2. CASE ~ ToRequeue(j) BY <1>2, JobStaysCarried
<1> QED BY <1>1, <1>2

\* Steps of passes: only FallBack makes a job PENDING, and it keeps the job in hand.
LEMMA CarriedByPasses ==
  ASSUME BatchTypeOK, NEW p \in Passes,
         \/ StartTick(p) \/ PassStep(p) \/ RequeueError(p) \/ SwitchedOff(p)
         \/ SubmitFails(p) \/ CollectFails(p) \/ FinishFails(p) \/ TickLost(p),
         NEW j \in Jobs, status[j] = "PENDING" => Carried(j) \/ ToRequeue(j),
         status'[j] = "PENDING"
  PROVE  Carried(j)' \/ ToRequeue(j)'
<1>1. /\ status \in [Jobs -> Status] /\ queue \in [Jobs -> Nat]
      /\ tpc \in [Passes -> PassPc] /\ tjobs \in [Passes -> SUBSET Jobs]
  BY DEF BatchTypeOK, TypeOK
<1>2. UNCHANGED <<workerVars, requestVars>>
  BY DEF StartTick, PassStep, RequeueError, SwitchedOff, SubmitFails, CollectFails,
         FinishFails, TickLost, FallBack, Requeue, ClaimPrepared, ReadNames, ReadRows,
         Collected, FinishClaim, FinishRead, FinishWrite, EndFinish, EndTick, SubmitDone,
         othersUnchanged
<1>3. ASSUME NEW to, NEW js, PassTo(p, to, js)
      PROVE  /\ \A q \in Passes \ {p} : tpc'[q] = tpc[q] /\ tjobs'[q] = tjobs[q]
             /\ tpc'[p] = to /\ tjobs'[p] = js
  BY <1>1, <1>3 DEF PassTo
<1>4. ASSUME UNCHANGED <<status, queueVars>>, tpc[p] # "requeue",
             \E to, js : PassTo(p, to, js)
      PROVE  Carried(j)' \/ ToRequeue(j)'
  BY <1>2, <1>3, <1>4, PassCarries DEF queueVars
<1> USE DEF PassFallsBack, rowsUnchanged, jobVars
<1>5. CASE StartTick(p) \/ SwitchedOff(p) \/ SubmitFails(p) \/ FinishFails(p)
  BY <1>4, <1>5 DEF StartTick, SwitchedOff, SubmitFails, FinishFails
<1>6. CASE ReadNames(p) \/ ReadRows(p) \/ CollectFails(p)
  BY <1>4, <1>6 DEF ReadNames, ReadRows, CollectFails
<1>7. CASE Collected(p) \/ FinishRead(p) \/ EndFinish(p) \/ EndTick(p)
  BY <1>4, <1>7 DEF Collected, FinishRead, EndFinish, EndTick
<1>8. CASE ClaimPrepared(p) \/ FinishClaim(p)
  BY <1>4, <1>8 DEF ClaimPrepared, FinishClaim
<1>9. ASSUME NEW b \in Batches, SubmitDone(p, b) PROVE Carried(j)' \/ ToRequeue(j)'
  BY <1>4, <1>9 DEF SubmitDone
<1>10. CASE FallBack(p)
  <2>1. PassTo(p, "requeue", {k \in tjobs[p] : status[k] = "PROCESSING"})
    BY <1>10 DEF FallBack
  <2>2. CASE j \in tjobs[p] /\ status[j] = "PROCESSING"
    BY <1>3, <2>1, <2>2 DEF ToRequeue
  <2>3. CASE ~ (j \in tjobs[p] /\ status[j] = "PROCESSING")
    <3>1. status[j] = "PENDING" BY <1>1, <1>10, <2>3 DEF FallBack, SetStatus
    <3>2. tpc[p] # "requeue" BY <1>10 DEF FallBack
    <3> QED BY <1>2, <1>3, <1>10, <2>1, <3>1, <3>2, PassCarries DEF FallBack, queueVars
  <2> QED BY <2>2, <2>3
<1>11. CASE Requeue(p)
  <2>1. status[j] = "PENDING" BY <1>11 DEF Requeue
  <2>2. ASSUME NEW k \in tjobs[p], Enqueue(k), PassTo(p, "requeue", tjobs[p] \ {k})
        PROVE  Carried(j)' \/ ToRequeue(j)'
    <3>1. queue[j] > 0 => queue'[j] > 0 BY <1>1, <2>2 DEF Enqueue
    <3>2. j = k => queue'[j] > 0 BY <1>1, <2>2 DEF Enqueue
    <3>3. j # k => (j \in lost => j \in lost') BY <2>2 DEF Enqueue
    <3> QED BY <1>2, <1>3, <2>1, <2>2, <3>1, <3>2, <3>3, PassCarries
  <2>3. CASE tjobs[p] = {} /\ PassTo(p, tnext[p], {}) /\ UNCHANGED queueVars
    BY <1>2, <1>3, <2>1, <2>3, PassCarries DEF queueVars
  <2> QED BY <1>11, <2>2, <2>3 DEF Requeue
<1>12. CASE RequeueError(p)
  BY <1>2, <1>3, <1>12, PassCarries DEF RequeueError, EndPass
<1>13. CASE TickLost(p)
  BY <1>2, <1>3, <1>13, PassCarries DEF TickLost, EndPass
<1>14. CASE FinishWrite(p)
  <2>1. status[j] = "PENDING" BY <1>1, <1>14 DEF FinishWrite, SetStatus
  <2> QED BY <1>2, <1>3, <1>14, <2>1, PassCarries DEF FinishWrite, queueVars
<1> QED BY <1>5, <1>6, <1>7, <1>8, <1>9, <1>10, <1>11, <1>12, <1>13, <1>14 DEF PassStep

\* Every step keeps PENDING jobs carried.
LEMMA BatchCarriedNext ==
  BatchTypeOK /\ BatchPendingIsCarried /\ [BatchNext]_allVars => BatchPendingIsCarried'
<1> SUFFICES ASSUME BatchTypeOK, BatchPendingIsCarried, [BatchNext]_allVars,
                    NEW j \in Jobs, status'[j] = "PENDING"
             PROVE  Carried(j)' \/ ToRequeue(j)'
  BY DEF BatchPendingIsCarried, ToRequeue
<1>1. status[j] = "PENDING" => Carried(j) \/ ToRequeue(j)
  BY DEF BatchPendingIsCarried, ToRequeue
<1>2. TypeOK BY DEF BatchTypeOK
<1>3. CASE Beside(UntimedNext) \/ UNCHANGED allVars \/ \E b \in Batches : BatchEnds(b)
  <2>1. UNCHANGED passVars /\ [Next]_vars
    BY <1>3 DEF Beside, allVars, batchVars, BatchEnds, Next
  <2> QED BY <1>1, <1>2, <2>1, CarriedBesidePasses
<1>4. CASE BatchTimePasses
  <2>1. TimePasses /\ UNCHANGED <<tpc, tjobs>> BY <1>4 DEF BatchTimePasses
  <2>2. CASE ToRequeue(j) BY <2>1, <2>2 DEF ToRequeue
  <2>3. CASE ~ ToRequeue(j) BY <1>1, <1>2, <2>1, <2>3, JobStaysCarried DEF Next
  <2> QED BY <2>2, <2>3
<1> QED BY <1>1, <1>3, <1>4, CarriedByPasses DEF BatchNext

\* A job that falls back to a live run is not forgotten either: from the commit that
\* makes it PENDING to its message the pass carries it, and where the pass dies or
\* executor.submit raises the job is known to be lost.
THEOREM BatchPendingAlwaysCarried == BatchSpec => []BatchPendingIsCarried
<1>1. BatchInit => BatchPendingIsCarried
  BY DEF BatchInit, Init, BatchPendingIsCarried
<1> QED BY <1>1, BatchCarriedNext, BatchTypeCorrect, PTL DEF BatchSpec

-----------------------------------------------------------------------------
(* A job waits on Google or is run, never both *)

\* What a pass has in hand where.
PassShape(p) ==
  /\ tjobs[p] \cap tfinish[p] = {}
  /\ tpc[p] \in {"idle", "submit", "names", "check", "finish"} => tjobs[p] = {}
  /\ tpc[p] \in {"fallback", "requeue"} => tnext[p] \in {"submit", "names", "check", "finish"}
  /\ \/ tfinish[p] = {}
     \/ tpc[p] \in {"finish", "finishing", "complete"}
     \/ tpc[p] \in {"fallback", "requeue"} /\ tnext[p] = "finish"

\* What is so of a job that is taken in turn.  Several passes may have it in hand; but
\* while a message, a worker or a request has it none does, and it does not wait for
\* one; and the pass that puts it back is the only one to have it.
InTurn(j) ==
  /\ OneMessage(j)
  /\ BeingHandled(j) =>
       stage[j] \notin BATCH_WAITING_STAGES /\ \A p \in Passes : j \notin Hand(p)
  /\ status[j] \in {"ABSENT", "PENDING"} => stage[j] \notin BATCH_WAITING_STAGES
  /\ \A w \in Workers : wjob[w] = j /\ wpc[w] = "prepare" => status[j] # "PENDING"
  /\ \A p \in Passes : tpc[p] = "submitting" /\ j \in tjobs[p] =>
       status[j] \notin {"ABSENT", "PENDING"}
  /\ \A p \in Passes : tpc[p] = "requeue" /\ j \in tjobs[p] =>
       /\ stage[j] \notin BATCH_WAITING_STAGES /\ status[j] # "ABSENT"
       /\ j \notin tfinish[p]
       /\ \A q \in Passes \ {p} : j \notin Hand(q)

TurnInv ==
  /\ \A p \in Passes : PassShape(p)
  /\ \A j \in TakenInTurn : InTurn(j)

LEMMA HandledSomewhere ==
  ASSUME NEW j \in Jobs
  PROVE  BeingHandled(j) <=> queue[j] > 0 \/ AtWorker(j) \/ ToSubmit(j)
BY DEF BeingHandled, AtWorker, ToSubmit

\* A step of the job system: what it hands on stays out of the hands of passes, and what
\* it takes up is in none, or is on record.
LEMMA InTurnBesidePasses ==
  ASSUME TypeOK, UNCHANGED passVars, NEW j \in Jobs, InTurn(j), OneMessage(j)',
         BeingHandled(j)' => BeingHandled(j) \/ \A p \in Passes : j \notin Hand(p),
         stage'[j] \in BATCH_WAITING_STAGES =>
           /\ ~ BeingHandled(j)'
           /\ status'[j] \notin {"ABSENT", "PENDING"}
           /\ stage'[j] = stage[j] \/ \A p \in Passes : j \notin Hand(p),
         status'[j] = "ABSENT" => status[j] = "ABSENT",
         status'[j] = "PENDING" =>
           status[j] = "PENDING" \/ (BeingHandled(j)' /\ \A p \in Passes : j \notin Hand(p)),
         \A w \in Workers : wjob'[w] = j /\ wpc'[w] = "prepare" => status'[j] # "PENDING"
  PROVE  InTurn(j)'
<1>1. UNCHANGED <<tpc, tjobs, tfinish>> BY DEF passVars
<1>2. \A p \in Passes : Hand(p)' = Hand(p) BY <1>1 DEF Hand
<1>3. BeingHandled(j)' => stage'[j] \notin BATCH_WAITING_STAGES /\ \A p \in Passes : j \notin Hand(p)'
  BY <1>2 DEF InTurn
<1>4. \A p \in Passes : tpc[p] = "submitting" /\ j \in tjobs[p] =>
        status'[j] \notin {"ABSENT", "PENDING"}
  BY DEF InTurn, Hand
<1>5. \A p \in Passes : tpc[p] = "requeue" /\ j \in tjobs[p] =>
       /\ stage'[j] \notin BATCH_WAITING_STAGES /\ status'[j] # "ABSENT"
       /\ j \notin tfinish[p]
       /\ \A q \in Passes \ {p} : j \notin Hand(q)'
  BY <1>2 DEF InTurn, Hand
<1> QED BY <1>1, <1>3, <1>4, <1>5 DEF InTurn

\* Steps of workers and of the broker move a job from the queue to a worker, back, or
\* on to Google.
LEMMA InTurnByWorkers ==
  ASSUME TypeOK, TypeOK', UNCHANGED passVars, NEW j \in Jobs \ raced', InTurn(j),
         BeingHandled(j)' => BeingHandled(j) \/ \A p \in Passes : j \notin Hand(p),
         NEW w \in Workers,
         \/ WorkerStep(w) \/ DbError(w) \/ WorkerLost(w) \/ HardTimeLimit(w)
         \/ Redeliver(w) \/ \E k \in Jobs : Deliver(w, k)
  PROVE  InTurn(j)'
<1>1. /\ status \in [Jobs -> Status] /\ stage \in [Jobs -> Stage]
      /\ queue \in [Jobs -> Nat]
      /\ wpc \in [Workers -> WorkerPc] /\ wjob \in [Workers -> Jobs \cup {NoJob}]
      /\ \A v \in Workers : wpc[v] = "idle" <=> wjob[v] = NoJob
      /\ NoJob \notin Jobs
  BY OcrJobsAssumption DEF TypeOK
<1>2. OneMessage(j) /\ OneMessage(j)' BY OneMessageByWorkers DEF InTurn
<1> DEFINE Parks == /\ wjob[w] = j /\ wpc[w] = "prepare" /\ Release(w)
                    /\ UNCHANGED <<status, queue, requestVars>>
           Fact == /\ queue'[j] > 0 => queue[j] > 0 \/ AtWorker(j)
                   /\ \A v \in Workers : wjob'[v] = j => wjob[v] = j \/ queue[j] > 0
                   /\ UNCHANGED requestVars
                   /\ stage'[j] = stage[j] \/ Parks
                   /\ wjob[w] # j => status'[j] = status[j]
                   /\ status'[j] \in {"ABSENT", "PENDING"} => status[j] = status'[j]
                   /\ \A v \in Workers : wjob'[v] = j /\ wpc'[v] = "prepare" =>
                        \/ wjob[v] = j /\ wpc[v] = "prepare"
                        \/ status'[j] = "PROCESSING"
<1>3. Fact
  <2> USE <1>1 DEF jobVars, queueVars, Goto, AtWorker
  <2>1. CASE ReadJob(w) BY <2>1 DEF ReadJob, Release
  <2>2. CASE MarkProcessing(w) BY <2>2 DEF MarkProcessing
  <2>3. CASE PrepareJob(w)
    <3>1. CASE UNCHANGED stage BY <2>3, <3>1 DEF PrepareJob, Release
    <3>2. CASE ~ UNCHANGED stage
      <4>1. stage' = [stage EXCEPT ![wjob[w]] = "PREPARED"] /\ Release(w)
        BY <2>3, <3>2 DEF PrepareJob
      <4>2. wjob[w] = j \/ stage'[j] = stage[j] BY <4>1
      <4>3. /\ \A v \in Workers : wjob'[v] = j => wjob[v] = j
            /\ \A v \in Workers : wpc'[v] = "prepare" => wpc[v] = "prepare"
        BY <4>1 DEF Release
      <4> QED BY <2>3, <4>1, <4>2, <4>3 DEF PrepareJob
    <3> QED BY <3>1, <3>2
  <2>4. CASE OcrExits(w) \/ WatcherSeesCancel(w) BY <2>4 DEF OcrExits, WatcherSeesCancel
  <2>5. CASE ReadForCancel(w) \/ MarkCancelled(w)
    BY <2>5 DEF ReadForCancel, MarkCancelled, Release
  <2>6. CASE ReadForComplete(w) \/ MarkCompleted(w)
    BY <2>6 DEF ReadForComplete, MarkCompleted, Release
  <2>7. CASE ReadForFail(w) \/ MarkFailed(w) BY <2>7 DEF ReadForFail, MarkFailed, Release
  <2>8. CASE DbError(w) \/ HardTimeLimit(w) BY <2>8 DEF DbError, HardTimeLimit, Release
  <2>9. CASE WorkerLost(w) BY <2>9 DEF WorkerLost, Release
  <2>10. CASE Redeliver(w) BY <2>10 DEF Redeliver, workerVars, LongSteps
  <2>11. ASSUME NEW k \in Jobs, Deliver(w, k) PROVE Fact BY <2>11 DEF Deliver
  <2> QED BY <2>1, <2>2, <2>3, <2>4, <2>5, <2>6, <2>7, <2>8, <2>9, <2>10, <2>11
          DEF WorkerStep, DatabaseStep
<1> HIDE DEF Fact
<1>4. BeingHandled(j)' => BeingHandled(j)
  BY <1>1, <1>3, HandledSomewhere DEF Fact, BeingHandled, AtWorker, requestVars
<1>5. AtWorker(j) => BeingHandled(j) BY DEF AtWorker, BeingHandled
<1>6. CASE stage'[j] \in BATCH_WAITING_STAGES /\ stage'[j] = stage[j]
  <2>1. ~ BeingHandled(j) /\ status[j] \notin {"ABSENT", "PENDING"} BY <1>6 DEF InTurn
  <2>2. wjob[w] # j BY <1>5, <2>1 DEF AtWorker
  <2>3. status'[j] = status[j] BY <1>3, <2>2 DEF Fact
  <2>4. \A v \in Workers : wjob'[v] # j BY <1>4, <2>1 DEF BeingHandled
  <2> QED BY <1>2, <1>4, <1>6, <2>1, <2>3, <2>4, InTurnBesidePasses
<1>7. CASE stage'[j] \in BATCH_WAITING_STAGES /\ stage'[j] # stage[j]
  <2>1. Parks BY <1>3, <1>7 DEF Fact
  <2>2. AtWorker(j) BY <2>1 DEF AtWorker
  <2>3. \A v \in Workers : wjob'[v] # j
    BY <1>1, <1>2, <2>1 DEF OneMessage, Release
  <2>4. ~ BeingHandled(j)'
    BY <1>2, <2>1, <2>2, <2>3 DEF OneMessage, BeingHandled, ToSubmit, requestVars
  <2>5. status'[j] \notin {"ABSENT", "PENDING"}
    BY <1>2, <2>1, <2>2 DEF InTurn, OneMessage
  <2>6. \A p \in Passes : j \notin Hand(p) BY <1>5, <2>2 DEF InTurn
  <2> QED BY <1>2, <2>3, <2>4, <2>5, <2>6, InTurnBesidePasses
<1>8. CASE stage'[j] \notin BATCH_WAITING_STAGES
  <2>1. \A v \in Workers : wjob'[v] = j /\ wpc'[v] = "prepare" => status'[j] # "PENDING"
    BY <1>3 DEF Fact, InTurn
  <2> QED BY <1>2, <1>3, <1>4, <1>8, <2>1, InTurnBesidePasses DEF Fact
<1> QED BY <1>6, <1>7, <1>8

\* Steps of requests move a job to the request that will submit it, and to the queue.
LEMMA InTurnByRequests ==
  ASSUME TypeOK, TypeOK', UNCHANGED passVars, NEW j \in Jobs \ raced', InTurn(j),
         BeingHandled(j)' => BeingHandled(j) \/ \A p \in Passes : j \notin Hand(p),
         NEW r \in Requests,
         \/ RequestStep(r) \/ CancelRead(r) \/ RequestLost(r)
         \/ \E k \in Jobs : SubmitError(r, k) \/ RetryRead(r, k)
         \/ \E js \in SUBSET Jobs : IngestFile(r, js)
  PROVE  InTurn(j)'
<1>1. /\ status \in [Jobs -> Status] /\ stage \in [Jobs -> Stage]
      /\ queue \in [Jobs -> Nat] /\ rpc \in [Requests -> RequestPc]
      /\ rjobs \in [Requests -> SUBSET Jobs]
  BY DEF TypeOK
<1>2. OneMessage(j) /\ OneMessage(j)' BY OneMessageByRequests DEF InTurn
<1>3. UNCHANGED workerVars
  BY DEF RequestStep, RetryCommit, CancelCommit, CommitSubmits, Submit, CancelRead,
         RequestLost, SubmitError, RetryRead, IngestFile
<1>4. ASSUME stage'[j] = stage[j], queue'[j] > 0 => queue[j] > 0 \/ ToSubmit(j),
             ToSubmit(j)' => ToSubmit(j),
             status'[j] = status[j] \/ status'[j] \notin {"ABSENT", "PENDING"}
      PROVE  InTurn(j)'
  <2>1. BeingHandled(j)' => BeingHandled(j)
    BY <1>3, <1>4 DEF BeingHandled, ToSubmit, workerVars
  <2>2. stage'[j] \in BATCH_WAITING_STAGES =>
          ~ BeingHandled(j)' /\ status'[j] \notin {"ABSENT", "PENDING"}
    BY <1>4, <2>1 DEF InTurn
  <2>3. \A v \in Workers : wjob'[v] = j /\ wpc'[v] = "prepare" => status'[j] # "PENDING"
    BY <1>3, <1>4 DEF InTurn, workerVars
  <2> QED BY <1>2, <1>4, <2>2, <2>3, InTurnBesidePasses
\* From nowhere to the request.
<1>5. ASSUME ~ BeingHandled(j), rpc'[r] = "submit", j \in rjobs'[r],
             stage'[j] \notin BATCH_WAITING_STAGES, status'[j] = "PENDING"
      PROVE  InTurn(j)'
  <2>1. BeingHandled(j)' BY <1>5 DEF BeingHandled
  <2>2. \A v \in Workers : wjob'[v] # j BY <1>3, <1>5 DEF BeingHandled, workerVars
  <2> QED BY <1>2, <1>5, <2>1, <2>2, InTurnBesidePasses
<1> USE DEF jobVars, queueVars
<1>6. CASE RetryCommit(r)
  <2>1. CASE j \in rjobs[r]
    <3>1. ~ BeingHandled(j) /\ NullColumns(j) = rnulls[r] BY <1>6, <2>1 DEF RetryCommit
    <3>2. stage'[j] = "none" BY <1>1, <1>6, <2>1, <3>1 DEF RetryCommit, NullColumns
    <3>3. status'[j] = "PENDING" /\ rpc'[r] = "submit" /\ rjobs' = rjobs
      BY <1>1, <1>6, <2>1 DEF RetryCommit, SetStatus
    <3> QED BY <1>5, <2>1, <3>1, <3>2, <3>3 DEF BATCH_WAITING_STAGES
  <2>2. CASE j \notin rjobs[r]
    BY <1>1, <1>4, <1>6, <2>2 DEF RetryCommit, SetStatus, ToSubmit
  <2> QED BY <2>1, <2>2
<1>7. CASE CancelCommit(r) \/ CommitSubmits(r)
  BY <1>1, <1>4, <1>7 DEF CancelCommit, CommitSubmits, SetStatus, EndRequest, ToSubmit
<1>8. ASSUME NEW k \in Jobs, Submit(r, k) PROVE InTurn(j)'
  BY <1>1, <1>4, <1>8 DEF Submit, Enqueue, ToSubmit
<1>9. CASE CancelRead(r) \/ RequestLost(r)
  BY <1>1, <1>4, <1>9 DEF CancelRead, RequestLost, EndRequest, ToSubmit
<1>10. ASSUME NEW k \in Jobs, SubmitError(r, k) \/ RetryRead(r, k) PROVE InTurn(j)'
  BY <1>1, <1>4, <1>10 DEF SubmitError, RetryRead, ToSubmit
<1>11. ASSUME NEW js \in SUBSET Jobs, IngestFile(r, js) PROVE InTurn(j)'
  <2>1. CASE j \in js
    <3>1. status[j] = "ABSENT" BY <1>11, <2>1 DEF IngestFile
    <3>2. ~ BeingHandled(j)
      BY <1>1, <1>2, <3>1, HandledSomewhere DEF OneMessage
    <3>3. stage'[j] \notin BATCH_WAITING_STAGES BY <1>11, <3>1 DEF InTurn, IngestFile
    <3>4. status'[j] = "PENDING" /\ rpc'[r] = "submit" /\ rjobs'[r] = js
      BY <1>1, <1>11, <2>1 DEF IngestFile, SetStatus
    <3> QED BY <1>5, <2>1, <3>2, <3>3, <3>4
  <2>2. CASE j \notin js
    BY <1>1, <1>4, <1>11, <2>2 DEF IngestFile, SetStatus, ToSubmit
  <2> QED BY <2>1, <2>2
<1> QED BY <1>6, <1>7, <1>8, <1>9, <1>10, <1>11 DEF RequestStep

\* The requeue script sends a message for a job that waits for nobody; recovery,
\* restarts and time move no job.
LEMMA InTurnByOthers ==
  ASSUME TypeOK, TypeOK', UNCHANGED passVars, NEW j \in Jobs \ raced', InTurn(j),
         BeingHandled(j)' => BeingHandled(j) \/ \A p \in Passes : j \notin Hand(p),
         \/ \E k \in Jobs : RequeuePending(k)
         \/ TimePasses \/ StaleRead \/ StaleCommit \/ Restart \/ UNCHANGED vars
  PROVE  InTurn(j)'
<1>1. /\ status \in [Jobs -> Status] /\ queue \in [Jobs -> Nat] /\ NoJob \notin Jobs
  BY OcrJobsAssumption DEF TypeOK
<1>2. OneMessage(j)' BY OneMessageByOthers DEF InTurn
<1>3. /\ stage' = stage
      /\ status'[j] = status[j] \/ status'[j] = "FAILED"
      /\ \A v \in Workers : wjob'[v] = j => wjob[v] = j /\ wpc'[v] = wpc[v]
  BY <1>1 DEF RequeuePending, TimePasses, StaleRead, StaleCommit, Restart, SetStatus, vars,
              jobVars, workerVars
<1>4. stage[j] \in BATCH_WAITING_STAGES => ~ BeingHandled(j)'
  <2> SUFFICES ASSUME stage[j] \in BATCH_WAITING_STAGES PROVE ~ BeingHandled(j)'
    OBVIOUS
  <2>1. ~ BeingHandled(j) /\ status[j] # "PENDING" BY DEF InTurn
  <2>2. ASSUME NEW k \in Jobs, RequeuePending(k) PROVE ~ BeingHandled(j)'
    <3>1. k # j BY <2>1, <2>2 DEF RequeuePending
    <3> QED BY <1>1, <2>1, <2>2, <3>1
            DEF RequeuePending, Enqueue, BeingHandled, workerVars, requestVars
  <2>3. CASE TimePasses \/ StaleRead \/ StaleCommit \/ UNCHANGED vars
    BY <2>1, <2>3
    DEF TimePasses, StaleRead, StaleCommit, vars, BeingHandled, queueVars, workerVars, requestVars
  <2>4. CASE Restart BY <1>1, <2>1, <2>4 DEF Restart, BeingHandled, workerVars
  <2> QED BY <2>2, <2>3, <2>4
<1>5. stage'[j] \in BATCH_WAITING_STAGES => status'[j] \notin {"ABSENT", "PENDING"}
  BY <1>3 DEF InTurn
<1>6. \A v \in Workers : wjob'[v] = j /\ wpc'[v] = "prepare" => status'[j] # "PENDING"
  BY <1>3 DEF InTurn
<1> QED BY <1>2, <1>3, <1>4, <1>5, <1>6, InTurnBesidePasses

\* What the step of a pass does to its program counter and to what it has in hand.
LEMMA PassToHand ==
  ASSUME BatchTypeOK, NEW p \in Passes, NEW to, NEW js, PassTo(p, to, js)
  PROVE  /\ tpc'[p] = to /\ tjobs'[p] = js
         /\ \A q \in Passes \ {p} : tpc'[q] = tpc[q] /\ tjobs'[q] = tjobs[q]
BY DEF PassTo, BatchTypeOK

\* The shape of a pass outlives its own steps.
LEMMA PassShapeByPass ==
  ASSUME BatchTypeOK, NEW p \in Passes, PassShape(p),
         \/ StartTick(p) \/ PassStep(p) \/ RequeueError(p) \/ SwitchedOff(p)
         \/ SubmitFails(p) \/ CollectFails(p) \/ FinishFails(p) \/ TickLost(p)
  PROVE  /\ PassShape(p)'
         /\ \A q \in Passes \ {p} : UNCHANGED <<tpc[q], tjobs[q], tfinish[q], tnext[q]>>
<1>1. /\ tpc \in [Passes -> PassPc] /\ tjobs \in [Passes -> SUBSET Jobs]
      /\ tfinish \in [Passes -> SUBSET Jobs] /\ tnext \in [Passes -> PassPc]
  BY DEF BatchTypeOK
<1> DEFINE Goal == /\ PassShape(p)'
                   /\ \A q \in Passes \ {p} :
                        UNCHANGED <<tpc[q], tjobs[q], tfinish[q], tnext[q]>>
<1>2. ASSUME NEW js, NEW next \in {"submit", "names", "check"},
             PassFallsBack(p, js, next), tfinish[p] = {}, UNCHANGED tfinish
      PROVE  Goal
  <2>1. tnext'[p] = next /\ \A q \in Passes \ {p} : tnext'[q] = tnext[q]
    BY <1>1, <1>2 DEF PassFallsBack
  <2>2. CASE js = {} BY <1>2, <2>1, <2>2, PassToHand DEF PassFallsBack, PassShape
  <2>3. CASE js # {} BY <1>2, <2>1, <2>3, PassToHand DEF PassFallsBack, PassShape
  <2> QED BY <2>2, <2>3
<1>3. ASSUME PassFallsBack(p, tjobs[p], "finish"), UNCHANGED tfinish
      PROVE  Goal
  <2>1. tnext'[p] = "finish" /\ \A q \in Passes \ {p} : tnext'[q] = tnext[q]
    BY <1>1, <1>3 DEF PassFallsBack
  <2>2. CASE tjobs[p] = {} BY <1>3, <2>1, <2>2, PassToHand DEF PassFallsBack, PassShape
  <2>3. CASE tjobs[p] # {} BY <1>3, <2>1, <2>3, PassToHand DEF PassFallsBack, PassShape
  <2> QED BY <2>2, <2>3
<1>4. ASSUME NEW to \in {"names", "check", "idle", "submitting", "collecting"}, NEW js,
             PassTo(p, to, js), js = {} \/ to \in {"submitting", "collecting"},
             tfinish[p] = {}, UNCHANGED <<tfinish, tnext>>
      PROVE  Goal
  BY <1>4, PassToHand DEF PassShape
<1>5. CASE StartTick(p) BY <1>2, <1>5 DEF StartTick, PassShape
<1>6. CASE SwitchedOff(p) BY <1>2, <1>6 DEF SwitchedOff, PassShape
<1>7. CASE SubmitFails(p) BY <1>2, <1>7 DEF SubmitFails, PassShape
<1>8. CASE FinishFails(p) BY <1>3, <1>8 DEF FinishFails
<1>9. CASE ClaimPrepared(p) BY <1>4, <1>9 DEF ClaimPrepared, PassShape
<1>10. ASSUME NEW b \in Batches, SubmitDone(p, b) PROVE Goal
  BY <1>4, <1>10 DEF SubmitDone, PassShape
<1>11. CASE ReadNames(p) \/ ReadRows(p)
  BY <1>4, <1>11 DEF ReadNames, ReadRows, PassShape
<1>12. CASE CollectFails(p) BY <1>4, <1>12 DEF CollectFails, PassShape
<1>13. CASE Collected(p)
  <2>1. tfinish[p] = {} BY <1>13 DEF Collected, PassShape
  <2>2. CASE \E js : PassFallsBack(p, js, "check") /\ UNCHANGED tfinish
    BY <1>2, <2>1, <2>2
  <2>3. CASE /\ PassTo(p, "finish", {})
             /\ tfinish' = [tfinish EXCEPT ![p] = tjobs[p]]
             /\ UNCHANGED tnext
    BY <1>1, <2>3, PassToHand DEF PassShape
  <2> QED BY <1>13, <2>2, <2>3 DEF Collected
<1>14. CASE FinishClaim(p)
  <2>1. PICK k \in tfinish[p] :
          LET js == {k} \cap InStage({"SUBMITTED"}) IN
            /\ PassTo(p, IF js = {} THEN "finish" ELSE "finishing", js)
            /\ tfinish' = [tfinish EXCEPT ![p] = @ \ {k}]
    BY <1>14 DEF FinishClaim
  <2> DEFINE js == {k} \cap InStage({"SUBMITTED"})
  <2>2. tfinish'[p] = tfinish[p] \ {k} /\ \A q \in Passes \ {p} : tfinish'[q] = tfinish[q]
    BY <1>1, <2>1
  <2>3. js \cap tfinish'[p] = {} BY <2>2
  <2>4. UNCHANGED tnext BY <1>14 DEF FinishClaim
  <2>5. PassTo(p, IF js = {} THEN "finish" ELSE "finishing", js) BY <2>1
  <2> HIDE DEF js
  <2>6. CASE js = {} BY <2>2, <2>3, <2>4, <2>5, <2>6, PassToHand DEF PassShape
  <2>7. CASE js # {} BY <2>2, <2>3, <2>4, <2>5, <2>7, PassToHand DEF PassShape
  <2> QED BY <2>6, <2>7
<1>15. CASE FinishRead(p)
  <2>1. CASE PassTo(p, "complete", tjobs[p]) /\ UNCHANGED tnext
    BY <1>15, <2>1, PassToHand DEF FinishRead, PassShape
  <2>2. CASE PassFallsBack(p, tjobs[p], "finish") BY <1>3, <1>15, <2>2 DEF FinishRead
  <2> QED BY <1>15, <2>1, <2>2 DEF FinishRead
<1>16. CASE FinishWrite(p) BY <1>16, PassToHand DEF FinishWrite, PassShape
<1>17. CASE EndFinish(p) \/ EndTick(p) BY <1>4, <1>17 DEF EndFinish, EndTick, PassShape
<1>18. CASE FallBack(p) BY <1>18, PassToHand DEF FallBack, PassShape
<1>19. CASE Requeue(p)
  <2>1. tpc[p] = "requeue" /\ UNCHANGED <<tfinish, tnext>> BY <1>19 DEF Requeue
  <2>2. ASSUME NEW k \in tjobs[p], PassTo(p, "requeue", tjobs[p] \ {k}) PROVE Goal
    BY <2>1, <2>2, PassToHand DEF PassShape
  <2>3. CASE PassTo(p, tnext[p], {}) BY <2>1, <2>3, PassToHand DEF PassShape
  <2> QED BY <1>19, <2>2, <2>3 DEF Requeue
<1>20. ASSUME EndPass(p), UNCHANGED tnext PROVE Goal
  BY <1>1, <1>20, PassToHand DEF EndPass, PassShape
<1>21. CASE RequeueError(p)
  <2>1. CASE tnext[p] = "finish" /\ PassTo(p, "fallback", tjobs[p]) /\ UNCHANGED tfinish
    BY <1>21, <2>1, PassToHand DEF RequeueError, PassShape
  <2> QED BY <1>20, <1>21, <2>1 DEF RequeueError
<1>22. CASE TickLost(p) BY <1>20, <1>22 DEF TickLost
<1> QED BY <1>5, <1>6, <1>7, <1>8, <1>9, <1>10, <1>11, <1>12, <1>13, <1>14, <1>15, <1>16,
           <1>17, <1>18, <1>19, <1>21, <1>22 DEF PassStep

\* A pass's step other than FallBack and Requeue takes up only jobs that wait for it.
LEMMA InTurnByTaking ==
  ASSUME TypeOK, TypeOK', othersUnchanged, UNCHANGED queue, NEW p \in Passes,
         NEW j \in Jobs, InTurn(j),
         \A q \in Passes \ {p} : UNCHANGED <<tpc[q], tjobs[q], tfinish[q]>>,
         tpc'[p] # "requeue",
         tpc'[p] = "submitting" /\ j \in tjobs'[p] => status[j] = "PROCESSING",
         j \in Hand(p)' => j \in Hand(p) \/ j \in InStage(BATCH_WAITING_STAGES),
         stage'[j] \in BATCH_WAITING_STAGES =>
           \/ stage[j] \in BATCH_WAITING_STAGES
           \/ tpc[p] = "submitting" /\ j \in tjobs[p],
         status'[j] = status[j] \/ (status'[j] = "COMPLETED" /\ j \in Hand(p))
  PROVE  InTurn(j)'
<1>1. OneMessage(j)'
  BY NobodyNew DEF InTurn, othersUnchanged, workerVars, requestVars, TypeOK
<1>2. BeingHandled(j)' <=> BeingHandled(j)
  BY DEF BeingHandled, othersUnchanged, workerVars, requestVars
<1>3. stage'[j] \in BATCH_WAITING_STAGES => ~ BeingHandled(j)
  BY DEF InTurn, Hand
<1>4. \A q \in Passes \ {p} : j \in Hand(q)' <=> j \in Hand(q)
  BY DEF Hand
<1>5. BeingHandled(j) => \A q \in Passes : j \notin Hand(q)'
  BY <1>4 DEF InTurn, InStage
<1>6. status'[j] \in {"ABSENT", "PENDING"} => stage'[j] \notin BATCH_WAITING_STAGES
  BY DEF InTurn
<1>7. \A w \in Workers : wjob'[w] = j /\ wpc'[w] = "prepare" => status'[j] # "PENDING"
  BY DEF InTurn, othersUnchanged, workerVars
<1>8. \A q \in Passes : tpc'[q] = "submitting" /\ j \in tjobs'[q] =>
        status'[j] \notin {"ABSENT", "PENDING"}
  BY DEF InTurn
<1>9. ASSUME NEW q \in Passes, tpc'[q] = "requeue", j \in tjobs'[q]
      PROVE  /\ stage'[j] \notin BATCH_WAITING_STAGES /\ status'[j] # "ABSENT"
             /\ j \notin tfinish'[q]
             /\ \A o \in Passes \ {q} : j \notin Hand(o)'
  <2>1. q # p /\ tpc[q] = "requeue" /\ j \in tjobs[q] BY <1>9
  <2>2. /\ stage[j] \notin BATCH_WAITING_STAGES /\ status[j] # "ABSENT" /\ j \notin tfinish[q]
        /\ \A o \in Passes \ {q} : j \notin Hand(o)
    BY <2>1 DEF InTurn
  <2>3. j \notin Hand(p)' BY <2>1, <2>2 DEF InStage
  <2>4. j \notin tjobs[p] BY <2>1, <2>2 DEF Hand
  <2> QED BY <1>4, <2>1, <2>2, <2>3, <2>4
<1> QED BY <1>1, <1>2, <1>3, <1>5, <1>6, <1>7, <1>8, <1>9 DEF InTurn

\* Steps of passes move a job from Google to the pass that puts it back, and from
\* there to the queue.
LEMMA InTurnByPasses ==
  ASSUME BatchTypeOK, BatchTypeOK', NEW p \in Passes, PassShape(p),
         \/ StartTick(p) \/ PassStep(p) \/ RequeueError(p) \/ SwitchedOff(p)
         \/ SubmitFails(p) \/ CollectFails(p) \/ FinishFails(p) \/ TickLost(p),
         NEW j \in TakenInTurn', InTurn(j)
  PROVE  InTurn(j)'
<1>1. /\ TypeOK /\ TypeOK' /\ status \in [Jobs -> Status] /\ stage \in [Jobs -> Stage]
      /\ queue \in [Jobs -> Nat] /\ queue' \in [Jobs -> Nat]
      /\ tpc \in [Passes -> PassPc] /\ tjobs \in [Passes -> SUBSET Jobs]
      /\ tfinish \in [Passes -> SUBSET Jobs] /\ j \in Jobs
  BY DEF BatchTypeOK, TypeOK, TakenInTurn
<1>2. \A q \in Passes \ {p} : UNCHANGED <<tpc[q], tjobs[q], tfinish[q]>>
  BY PassShapeByPass
<1>3. ASSUME othersUnchanged, NEW to, NEW js, PassTo(p, to, js), to # "requeue", UNCHANGED queue,
             to = "submitting" /\ j \in js => status[j] = "PROCESSING",
             j \in js => j \in Hand(p) \/ j \in InStage(BATCH_WAITING_STAGES),
             j \in tfinish'[p] => j \in Hand(p),
             stage'[j] \in BATCH_WAITING_STAGES =>
               \/ stage[j] \in BATCH_WAITING_STAGES
               \/ tpc[p] = "submitting" /\ j \in tjobs[p],
             status'[j] = status[j] \/ (status'[j] = "COMPLETED" /\ j \in Hand(p))
      PROVE  InTurn(j)'
  <2>1. tpc'[p] = to /\ tjobs'[p] = js BY <1>1, <1>3, PassToHand
  <2>2. j \in Hand(p)' => j \in Hand(p) \/ j \in InStage(BATCH_WAITING_STAGES)
    BY <1>3, <2>1 DEF Hand
  <2> QED BY <1>1, <1>2, <1>3, <2>1, <2>2, InTurnByTaking
<1>4. tjobs[p] \subseteq Hand(p) /\ tfinish[p] \subseteq Hand(p)
  BY DEF Hand
<1>5. \A stages \in SUBSET BATCH_WAITING_STAGES :
        j \in InStage(stages) => j \in InStage(BATCH_WAITING_STAGES)
  BY DEF InStage
<1>6. /\ {"PREPARED"} \in SUBSET BATCH_WAITING_STAGES
      /\ {"SUBMITTED"} \in SUBSET BATCH_WAITING_STAGES
      /\ {"SUBMITTING", "FINISHING"} \in SUBSET BATCH_WAITING_STAGES
  BY DEF BATCH_WAITING_STAGES
<1>7. ASSUME othersUnchanged, UNCHANGED <<queue, tfinish>>, rowsUnchanged, NEW js,
             NEW next \in {"submit", "names", "check", "finish"}, PassFallsBack(p, js, next),
             j \in js => j \in Hand(p) \/ j \in InStage(BATCH_WAITING_STAGES)
      PROVE  InTurn(j)'
  BY <1>3, <1>4, <1>7 DEF PassFallsBack, rowsUnchanged, jobVars
<1> USE DEF queueVars, rowsUnchanged, jobVars
<1>8. CASE StartTick(p) BY <1>5, <1>6, <1>7, <1>8 DEF StartTick
<1>9. CASE SwitchedOff(p) BY <1>5, <1>6, <1>7, <1>9 DEF SwitchedOff
<1>10. CASE SubmitFails(p) BY <1>4, <1>7, <1>10 DEF SubmitFails
<1>11. CASE FinishFails(p) BY <1>4, <1>7, <1>11 DEF FinishFails
<1>12. CASE ClaimPrepared(p)
  <2> DEFINE js == InStage({"PREPARED"})
  <2>1. /\ SetStage(js, "SUBMITTING") /\ othersUnchanged /\ UNCHANGED <<status, queue, tfinish>>
        /\ PassTo(p, IF js = {} THEN "names" ELSE "submitting", js)
    BY <1>12 DEF ClaimPrepared
  <2>2. j \in js => j \in InStage(BATCH_WAITING_STAGES) /\ status[j] = "PROCESSING"
    BY <1>5, <1>6 DEF InStage
  <2> HIDE DEF js
  <2>3. stage'[j] \in BATCH_WAITING_STAGES => stage[j] \in BATCH_WAITING_STAGES
    BY <1>1, <2>1, <2>2 DEF SetStage, InStage
  <2> QED BY <1>3, <1>4, <2>1, <2>2, <2>3
<1>13. ASSUME NEW b \in Batches, SubmitDone(p, b) PROVE InTurn(j)'
  <2>1. stage'[j] \in BATCH_WAITING_STAGES =>
          stage[j] \in BATCH_WAITING_STAGES \/ (tpc[p] = "submitting" /\ j \in tjobs[p])
    BY <1>1, <1>13 DEF SubmitDone, SetStage
  <2> QED BY <1>3, <1>4, <1>13, <2>1 DEF SubmitDone
<1>14. CASE ReadNames(p) BY <1>3, <1>4, <1>14 DEF ReadNames
<1>15. CASE ReadRows(p)
  <2>1. PICK b \in tnames[p] :
          PassTo(p, "collecting", {k \in InStage({"SUBMITTED"}) : name[k] = b})
    BY <1>15 DEF ReadRows
  <2> QED BY <1>3, <1>4, <1>5, <1>6, <1>15, <2>1 DEF ReadRows
<1>16. CASE Collected(p)
  <2>1. CASE \E js \in SUBSET tjobs[p] : PassFallsBack(p, js, "check") /\ UNCHANGED tfinish
    BY <1>4, <1>7, <1>16, <2>1 DEF Collected
  <2>2. CASE /\ PassTo(p, "finish", {})
             /\ tfinish' = [tfinish EXCEPT ![p] = tjobs[p]]
    BY <1>1, <1>3, <1>4, <1>16, <2>2 DEF Collected
  <2> QED BY <1>16, <2>1, <2>2 DEF Collected
<1>17. CASE CollectFails(p) BY <1>3, <1>4, <1>17 DEF CollectFails
<1>18. CASE FinishClaim(p)
  <2>1. PICK k \in tfinish[p] :
          LET js == {k} \cap InStage({"SUBMITTED"}) IN
            /\ SetStage(js, "FINISHING")
            /\ PassTo(p, IF js = {} THEN "finish" ELSE "finishing", js)
            /\ tfinish' = [tfinish EXCEPT ![p] = @ \ {k}]
    BY <1>18 DEF FinishClaim
  <2> DEFINE js == {k} \cap InStage({"SUBMITTED"})
  <2>2. j \in js => j \in InStage(BATCH_WAITING_STAGES) BY <1>5, <1>6
  <2>3. SetStage(js, "FINISHING") /\ PassTo(p, IF js = {} THEN "finish" ELSE "finishing", js)
    BY <2>1
  <2> HIDE DEF js
  <2>4. stage'[j] \in BATCH_WAITING_STAGES => stage[j] \in BATCH_WAITING_STAGES
    BY <1>1, <2>2, <2>3 DEF SetStage, InStage
  <2>5. j \in tfinish'[p] => j \in Hand(p) BY <1>1, <1>4, <2>1
  <2>6. UNCHANGED <<queue, status>> /\ othersUnchanged BY <1>18 DEF FinishClaim
  <2> QED BY <1>3, <2>2, <2>3, <2>4, <2>5, <2>6
<1>19. CASE FinishRead(p)
  <2>1. CASE PassTo(p, "complete", tjobs[p]) BY <1>3, <1>4, <1>19, <2>1 DEF FinishRead
  <2>2. CASE PassFallsBack(p, tjobs[p], "finish") BY <1>4, <1>7, <1>19, <2>2 DEF FinishRead
  <2> QED BY <1>19, <2>1, <2>2 DEF FinishRead
<1>20. CASE FinishWrite(p)
  <2>1. status'[j] = status[j] \/ (status'[j] = "COMPLETED" /\ j \in Hand(p))
    BY <1>1, <1>4, <1>20 DEF FinishWrite, SetStatus
  <2> QED BY <1>3, <1>4, <1>20, <2>1 DEF FinishWrite
<1>21. CASE EndFinish(p) \/ EndTick(p) BY <1>3, <1>4, <1>21 DEF EndFinish, EndTick
<1>22. ASSUME EndPass(p), othersUnchanged, UNCHANGED queue, rowsUnchanged PROVE InTurn(j)'
  <2>1. j \notin tfinish'[p] BY <1>1, <1>22 DEF EndPass
  <2> QED BY <1>3, <1>22, <2>1 DEF EndPass
<1>23. CASE RequeueError(p)
  <2>1. CASE PassTo(p, "fallback", tjobs[p]) /\ UNCHANGED tfinish
    BY <1>3, <1>4, <1>23, <2>1 DEF RequeueError
  <2> QED BY <1>22, <1>23, <2>1 DEF RequeueError
<1>24. CASE TickLost(p) BY <1>22, <1>24 DEF TickLost
<1>25. CASE FallBack(p)
  <2> DEFINE js == {k \in tjobs[p] : status[k] = "PROCESSING"}
  <2>1. /\ SetStatus(js, "PENDING") /\ SetStage(js, "SYNC") /\ PassTo(p, "requeue", js)
        /\ UNCHANGED <<queueVars, workerVars, requestVars, tfinish>> /\ tpc[p] = "fallback"
        /\ reopened' = reopened \cup {k \in js : \E q \in Passes \ {p} : k \in Hand(q)}
    BY <1>25 DEF FallBack
  <2>2. js \subseteq tjobs[p]
    OBVIOUS
  <2> HIDE DEF js
  <2>3. /\ tpc'[p] = "requeue" /\ tjobs'[p] = js
        /\ queue'[j] <= queue[j] /\ UNCHANGED <<wjob, rpc, rjobs>>
    BY <1>1, <2>1, PassToHand DEF workerVars, requestVars
  <2>4. BeingHandled(j)' <=> BeingHandled(j)
    BY <2>1 DEF BeingHandled, workerVars, requestVars
  <2>5. j \in Hand(p)' => j \in Hand(p) BY <2>1, <2>2, <2>3 DEF Hand
  <2>6. \A q \in Passes \ {p} : j \in Hand(q)' <=> j \in Hand(q) BY <1>2 DEF Hand
  <2>7. CASE j \notin js
    <3>1. status'[j] = status[j] /\ stage'[j] = stage[j]
      BY <1>1, <2>1, <2>7 DEF SetStatus, SetStage
    <3>2. OneMessage(j)'
      BY <1>1, <2>3, <3>1, NobodyNew DEF InTurn
    <3>3. \A w \in Workers : wjob'[w] = j /\ wpc'[w] = "prepare" => status'[j] # "PENDING"
      BY <2>1, <3>1 DEF InTurn, workerVars
    <3>4. \A q \in Passes : tpc'[q] = "submitting" /\ j \in tjobs'[q] =>
            status'[j] \notin {"ABSENT", "PENDING"}
      BY <1>2, <2>3, <3>1 DEF InTurn
    <3>5. \A q \in Passes : tpc'[q] = "requeue" /\ j \in tjobs'[q] =>
            /\ stage'[j] \notin BATCH_WAITING_STAGES /\ status'[j] # "ABSENT"
            /\ j \notin tfinish'[q]
            /\ \A o \in Passes \ {q} : j \notin Hand(o)'
      BY <1>2, <2>3, <2>5, <2>6, <2>7, <3>1 DEF InTurn
    <3>6. BeingHandled(j)' =>
            stage'[j] \notin BATCH_WAITING_STAGES /\ \A q \in Passes : j \notin Hand(q)'
      BY <2>4, <2>5, <2>6, <3>1 DEF InTurn
    <3> QED BY <3>1, <3>2, <3>3, <3>4, <3>5, <3>6 DEF InTurn
  <2>8. CASE j \in js
    <3>1. status'[j] = "PENDING" /\ stage'[j] \notin BATCH_WAITING_STAGES
      BY <1>1, <2>1, <2>8 DEF SetStatus, SetStage, BATCH_WAITING_STAGES
    <3>2. ~ BeingHandled(j) BY <1>4, <2>2, <2>8 DEF InTurn
    <3>3. \A q \in Passes \ {p} : j \notin Hand(q)
      BY <2>1, <2>8 DEF TakenInTurn
    <3>4. j \notin tfinish'[p] BY <2>1, <2>2, <2>8 DEF PassShape
    <3>5. OneMessage(j)'
      BY <1>1, <2>3, <3>1, NobodyNew DEF InTurn
    <3>6. \A w \in Workers : wjob'[w] # j BY <2>1, <3>2 DEF BeingHandled, workerVars
    <3>7. \A q \in Passes : tpc'[q] = "submitting" => j \notin tjobs'[q]
      BY <2>3, <2>6, <3>3 DEF Hand
    <3>8. \A q \in Passes : tpc'[q] = "requeue" /\ j \in tjobs'[q] => q = p
      BY <2>6, <3>3 DEF Hand
    <3> QED BY <2>4, <2>6, <3>1, <3>2, <3>3, <3>4, <3>5, <3>6, <3>7, <3>8 DEF InTurn
  <2> QED BY <2>7, <2>8
<1>26. CASE Requeue(p)
  <2>1. UNCHANGED <<status, stage, tfinish>> /\ tpc[p] = "requeue" /\ othersUnchanged
    BY <1>26 DEF Requeue
  <2>2. CASE PassTo(p, tnext[p], {}) /\ UNCHANGED queueVars
    <3>1. tnext[p] \in {"submit", "names", "check", "finish"} BY <2>1 DEF PassShape
    <3> QED BY <1>3, <1>4, <2>1, <2>2, <3>1
  <2>3. ASSUME NEW k \in tjobs[p], Enqueue(k), PassTo(p, "requeue", tjobs[p] \ {k})
        PROVE  InTurn(j)'
    <3>1. tpc'[p] = "requeue" /\ tjobs'[p] = tjobs[p] \ {k} BY <2>3, PassToHand
    <3>2. \A q \in Passes : j \in Hand(q)' => j \in Hand(q)
      BY <1>2, <2>1, <3>1 DEF Hand
    <3>3. \A w \in Workers : wjob'[w] = j /\ wpc'[w] = "prepare" => status'[j] # "PENDING"
      BY <2>1 DEF InTurn, othersUnchanged, workerVars
    <3>4. \A q \in Passes : tpc'[q] = "submitting" /\ j \in tjobs'[q] =>
            status'[j] \notin {"ABSENT", "PENDING"}
      BY <1>2, <2>1, <3>1 DEF InTurn
    <3>5. \A q \in Passes : tpc'[q] = "requeue" /\ j \in tjobs'[q] =>
            /\ stage'[j] \notin BATCH_WAITING_STAGES /\ status'[j] # "ABSENT"
            /\ j \notin tfinish'[q]
            /\ \A o \in Passes \ {q} : j \notin Hand(o)'
      BY <1>2, <2>1, <3>1, <3>2 DEF InTurn
    <3>6. CASE j # k
      <4>1. queue'[j] = queue[j] BY <1>1, <2>3, <3>6 DEF Enqueue
      <4>2. OneMessage(j)'
        <5>1. UNCHANGED <<wjob, rpc, rjobs>> BY <2>1 DEF othersUnchanged, workerVars, requestVars
        <5>2. queue'[j] <= queue[j] BY <1>1, <4>1
        <5> QED BY <1>1, <2>1, <5>1, <5>2, NobodyNew DEF InTurn
      <4>3. BeingHandled(j)' => BeingHandled(j)
        BY <2>1, <4>1 DEF BeingHandled, othersUnchanged, workerVars, requestVars
      <4> QED BY <2>1, <3>2, <3>3, <3>4, <3>5, <4>2, <4>3 DEF InTurn
    <3>7. CASE j = k
      <4>1. /\ ~ BeingHandled(j) /\ stage[j] \notin BATCH_WAITING_STAGES /\ status[j] # "ABSENT"
            /\ j \notin tfinish[p] /\ \A q \in Passes \ {p} : j \notin Hand(q)
        BY <1>4, <2>1, <2>3, <3>7 DEF InTurn
      <4>2. queue'[j] = 1 BY <1>1, <2>3, <3>7, <4>1 DEF Enqueue, BeingHandled
      <4>3. ~ AtWorker(j)' /\ ~ ToSubmit(j)'
        BY <2>1, <4>1
        DEF BeingHandled, AtWorker, ToSubmit, othersUnchanged, workerVars, requestVars
      <4>4. OneMessage(j)' BY <2>1, <4>1, <4>2, <4>3 DEF OneMessage, AtWorker, ToSubmit
      <4>5. \A q \in Passes : j \notin Hand(q)'
        BY <1>2, <2>1, <3>1, <3>2, <3>7, <4>1 DEF Hand
      <4> QED BY <2>1, <3>3, <3>4, <3>5, <4>1, <4>4, <4>5 DEF InTurn
    <3> QED BY <3>6, <3>7
  <2> QED BY <1>26, <2>2, <2>3 DEF Requeue
<1>27. CASE FallBack(p) \/ Requeue(p) BY <1>25, <1>26, <1>27
<1> QED BY <1>8, <1>9, <1>10, <1>11, <1>12, <1>13, <1>14, <1>15, <1>16, <1>17, <1>18,
           <1>19, <1>20, <1>21, <1>23, <1>24, <1>27 DEF PassStep

\* At first nothing exists.
LEMMA TurnInit == BatchInit => TurnInv
<1> SUFFICES ASSUME BatchInit PROVE TurnInv
  OBVIOUS
<1> USE DEF BatchInit, Init
<1>1. \A p \in Passes : PassShape(p)
  BY DEF PassShape
<1>2. ASSUME NEW j \in Jobs PROVE InTurn(j)
  <2>1. queue[j] = 0 /\ stage[j] = "none"
    OBVIOUS
  <2>2. ~ AtWorker(j) /\ ~ ToSubmit(j)
    BY OcrJobsAssumption DEF AtWorker, ToSubmit
  <2>3. \A p \in Passes : tpc[p] = "idle"
    OBVIOUS
  <2>4. OneMessage(j) BY <2>1, <2>2 DEF OneMessage, AtWorker, ToSubmit
  <2>5. ~ BeingHandled(j) BY <2>1, <2>2, HandledSomewhere
  <2>6. \A w \in Workers : wpc[w] = "idle"
    OBVIOUS
  <2> QED BY <2>1, <2>3, <2>4, <2>5, <2>6 DEF InTurn, BATCH_WAITING_STAGES
<1> QED BY <1>1, <1>2 DEF TurnInv, TakenInTurn

\* Every step keeps the jobs that are taken in turn in one place, and the passes in shape.
LEMMA TurnNext ==
  BatchTypeOK /\ TurnInv /\ [BatchNext]_allVars => TurnInv'
<1> SUFFICES ASSUME BatchTypeOK, TurnInv, [BatchNext]_allVars
             PROVE  TurnInv'
  OBVIOUS
<1>1. BatchTypeOK' /\ TypeOK /\ TypeOK'
  BY BatchTypeNext DEF BatchTypeOK
<1>2. ASSUME UNCHANGED <<tpc, tjobs, tfinish, tnext>>
      PROVE  \A p \in Passes : PassShape(p)'
  BY <1>2 DEF TurnInv, PassShape
<1>3. ASSUME UNCHANGED <<vars, tpc, tjobs, tfinish, tnext, reopened>> PROVE TurnInv'
  <2>1. TakenInTurn' = TakenInTurn BY <1>3 DEF TakenInTurn, vars, queueVars
  <2>2. ASSUME NEW j \in TakenInTurn PROVE InTurn(j)'
    BY <1>3, <2>2
    DEF TurnInv, InTurn, OneMessage, AtWorker, ToSubmit, BeingHandled, Hand, vars, jobVars,
        queueVars, workerVars, requestVars
  <2> QED BY <1>2, <1>3, <2>1, <2>2 DEF TurnInv
<1>4. CASE UNCHANGED allVars BY <1>3, <1>4 DEF allVars, batchVars, passVars
<1>5. CASE Beside(UntimedNext)
  <2>1. /\ UntimedNext /\ UNCHANGED passVars
        /\ reopened' = reopened \cup {j \in Jobs : /\ ~ BeingHandled(j) /\ BeingHandled(j)'
                                                  /\ \E p \in Passes : j \in Hand(p)}
    BY <1>5 DEF Beside
  <2>2. raced \subseteq raced' BY <2>1, RacesAreKept DEF Next
  <2>3. ASSUME NEW j \in TakenInTurn' PROVE InTurn(j)'
    <3>1. j \in Jobs \ raced' /\ j \in TakenInTurn
      BY <2>1, <2>2, <2>3 DEF TakenInTurn
    <3>2. InTurn(j) BY <3>1 DEF TurnInv
    <3>3. BeingHandled(j)' => BeingHandled(j) \/ \A p \in Passes : j \notin Hand(p)
      BY <2>1, <2>3, <3>1 DEF TakenInTurn
    <3>4. ASSUME NEW w \in Workers,
                 \/ WorkerStep(w) \/ DbError(w) \/ WorkerLost(w) \/ HardTimeLimit(w)
                 \/ Redeliver(w) \/ \E k \in Jobs : Deliver(w, k)
          PROVE  InTurn(j)'
      BY <1>1, <2>1, <3>1, <3>2, <3>3, <3>4, InTurnByWorkers
    <3>5. ASSUME NEW r \in Requests,
                 \/ RequestStep(r) \/ CancelRead(r) \/ RequestLost(r)
                 \/ \E k \in Jobs : SubmitError(r, k) \/ RetryRead(r, k)
                 \/ \E js \in SUBSET Jobs : IngestFile(r, js)
          PROVE  InTurn(j)'
      BY <1>1, <2>1, <3>1, <3>2, <3>3, <3>5, InTurnByRequests
    <3>6. CASE (\E k \in Jobs : RequeuePending(k)) \/ StaleRead \/ StaleCommit \/ Restart
      BY <1>1, <2>1, <3>1, <3>2, <3>3, <3>6, InTurnByOthers
    <3> QED BY <2>1, <3>4, <3>5, <3>6 DEF UntimedNext
  <2> QED BY <1>2, <2>1, <2>3 DEF TurnInv, passVars
<1>6. ASSUME NEW p \in Passes,
             \/ StartTick(p) \/ PassStep(p) \/ RequeueError(p) \/ SwitchedOff(p)
             \/ SubmitFails(p) \/ CollectFails(p) \/ FinishFails(p) \/ TickLost(p)
      PROVE  TurnInv'
  <2>1. TakenInTurn' \subseteq TakenInTurn
    BY <1>6
    DEF TakenInTurn, StartTick, PassStep, RequeueError, SwitchedOff, SubmitFails,
        CollectFails, FinishFails, TickLost, FallBack, Requeue, ClaimPrepared, ReadNames,
        ReadRows, Collected, FinishClaim, FinishRead, FinishWrite, EndFinish, EndTick,
        SubmitDone, othersUnchanged, queueVars
  <2>2. \A j \in TakenInTurn' : InTurn(j)'
    BY <1>1, <1>6, <2>1, InTurnByPasses DEF TurnInv
  <2>3. \A q \in Passes : PassShape(q)'
    <3> SUFFICES ASSUME NEW q \in Passes PROVE PassShape(q)'
      OBVIOUS
    <3>1. PassShape(p)' /\ \A o \in Passes \ {p} :
            UNCHANGED <<tpc[o], tjobs[o], tfinish[o], tnext[o]>>
      BY <1>6, PassShapeByPass DEF TurnInv
    <3> QED BY <3>1 DEF TurnInv, PassShape
  <2> QED BY <2>2, <2>3 DEF TurnInv
<1>7. ASSUME NEW b \in Batches, BatchEnds(b) PROVE TurnInv'
  BY <1>3, <1>7 DEF BatchEnds, passVars
<1>8. CASE BatchTimePasses
  <2>1. TimePasses /\ UNCHANGED <<tpc, tjobs, tfinish, tnext, reopened>>
    BY <1>8 DEF BatchTimePasses
  <2>2. TakenInTurn' = TakenInTurn BY <2>1 DEF TakenInTurn, TimePasses, queueVars
  <2>3. ASSUME NEW j \in TakenInTurn PROVE InTurn(j)'
    BY <2>1, <2>3
    DEF TurnInv, InTurn, OneMessage, AtWorker, ToSubmit, BeingHandled, Hand, TimePasses,
        queueVars, requestVars
  <2> QED BY <1>2, <2>1, <2>2, <2>3 DEF TurnInv
<1> QED BY <1>4, <1>5, <1>6, <1>7, <1>8 DEF BatchNext

LEMMA TurnAlways == BatchSpec => [](BatchTypeOK /\ TurnInv)
BY BatchTypeInit, BatchTypeNext, TurnInit, TurnNext, PTL DEF BatchSpec

\* However many passes overlap and have a job in hand together, a job that waits for
\* Google's answer, or for a pass, is run by no worker; only a job that was sent a second
\* message or overwritten on a stale read, or that a request or another pass took up
\* while a pass had it in hand, is left out, from there on.
THEOREM WaitingJobsRest == BatchSpec => []WaitingJobsAreNotRun
<1>1. TurnInv => WaitingJobsAreNotRun
  BY DEF TurnInv, InTurn, BeingHandled, WaitingJobsAreNotRun, InStage, Runs
<1> QED BY <1>1, TurnAlways, PTL

\* fall_back_to_live, which asks for no more than PROCESSING, meets no job that a
\* worker runs: the jobs left out are the same.
THEOREM LiveRunsAreLeft == BatchSpec => LiveRunIsNotRequeued
<1> DEFINE Left == \A j \in TakenInTurn \ raced' :
                     status[j] = "PROCESSING" /\ status'[j] = "PENDING" =>
                       ~ \E w \in Workers : Runs(w, j)
<1>1. ASSUME BatchTypeOK, TurnInv, BatchNext PROVE Left
  <2> SUFFICES ASSUME NEW j \in Jobs, j \in TakenInTurn, j \notin raced',
                      status[j] = "PROCESSING", status'[j] = "PENDING"
               PROVE  ~ AtWorker(j)
    BY DEF AtWorker, Runs, TakenInTurn
  <2>1. status \in [Jobs -> Status] BY <1>1 DEF BatchTypeOK, TypeOK
  <2>2. CASE Beside(UntimedNext)
    <3> USE <2>1 DEF jobVars
    <3>1. ASSUME NEW w \in Workers,
                 \/ WorkerStep(w) \/ DbError(w) \/ WorkerLost(w) \/ HardTimeLimit(w)
                 \/ Redeliver(w) \/ \E k \in Jobs : Deliver(w, k)
          PROVE  FALSE
      BY <3>1
      DEF WorkerStep, DatabaseStep, ReadJob, MarkProcessing, PrepareJob, OcrExits,
          WatcherSeesCancel, ReadForCancel, MarkCancelled, ReadForComplete,
          MarkCompleted, ReadForFail, MarkFailed, DbError, WorkerLost, HardTimeLimit,
          Redeliver, Deliver
    <3>2. ASSUME NEW r \in Requests,
                 \/ RequestStep(r) \/ CancelRead(r) \/ RequestLost(r)
                 \/ \E k \in Jobs : SubmitError(r, k) \/ RetryRead(r, k)
                 \/ \E js \in SUBSET Jobs : IngestFile(r, js)
          PROVE  FALSE
      BY <3>2
      DEF RequestStep, RetryCommit, CancelCommit, CommitSubmits, Submit, CancelRead,
          RequestLost, SubmitError, RetryRead, IngestFile, SetStatus, Retryable
    <3>3. ASSUME \/ \E k \in Jobs : RequeuePending(k)
                 \/ StaleRead \/ StaleCommit \/ Restart
          PROVE  FALSE
      BY <3>3 DEF RequeuePending, StaleRead, StaleCommit, Restart, SetStatus
    <3> QED BY <2>2, <3>1, <3>2, <3>3 DEF Beside, UntimedNext
  <2>3. ASSUME NEW p \in Passes, FallBack(p) PROVE ~ AtWorker(j)
    <3>1. j \in Hand(p) BY <2>1, <2>3 DEF FallBack, SetStatus, Hand
    <3> QED BY <1>1, <3>1 DEF TurnInv, InTurn, BeingHandled, AtWorker
  <2>4. ASSUME NEW p \in Passes,
               \/ StartTick(p) \/ PassStep(p) \/ RequeueError(p) \/ SwitchedOff(p)
               \/ SubmitFails(p) \/ CollectFails(p) \/ FinishFails(p) \/ TickLost(p),
               ~ FallBack(p)
        PROVE  FALSE
    BY <2>1, <2>4
    DEF StartTick, PassStep, RequeueError, SwitchedOff, SubmitFails, CollectFails,
        FinishFails, TickLost, Requeue, ClaimPrepared, ReadNames, ReadRows, Collected,
        FinishClaim, FinishRead, FinishWrite, EndFinish, EndTick, SubmitDone,
        rowsUnchanged, jobVars, SetStatus
  <2>5. CASE (\E b \in Batches : BatchEnds(b)) \/ BatchTimePasses
    BY <2>5 DEF BatchEnds, BatchTimePasses, TimePasses, vars, jobVars
  <2> QED BY <1>1, <2>2, <2>3, <2>4, <2>5 DEF BatchNext
<1>2. ASSUME UNCHANGED allVars PROVE Left
  BY <1>2 DEF allVars, vars, jobVars
<1>3. BatchTypeOK /\ TurnInv /\ [BatchNext]_allVars => [Left]_allVars
  BY <1>1, <1>2
<1> QED BY <1>3, TurnAlways, PTL DEF BatchSpec, LiveRunIsNotRequeued
=============================================================================
