---------------------------- MODULE GeminiBatch ----------------------------
(***************************************************************************)
(* Gemini Batch Mode (jobs/gemini_batch.py) on top of the job system: jobs *)
(* a worker has prepared wait in the database, and passes of the scheduler *)
(* task gemini_batch_tick submit them to Google, collect the results,      *)
(* finish the jobs, or put them back through the live run.                 *)
(*                                                                         *)
(* Beat sends a tick every five minutes to a queue every worker listens    *)
(* to, and a pass may last much longer, so passes overlap.  Only the       *)
(* conditional UPDATEs keep them apart.                                    *)
(*                                                                         *)
(* gemini_batch_updated_at and gemini_batch_name are read only in stages   *)
(* that a pass sets together with them; what prepare_job and a retry do to *)
(* them is left out.  Google's batches are external.                       *)
(***************************************************************************)
EXTENDS OcrJobs

CONSTANTS
  Passes,        \* scheduler passes that may run at the same time
  Batches,       \* names Google may give to batches
  NoBatch,
  StuckAfter,    \* _STUCK_STEP_AFTER
  FallbackAfter, \* gemini_batch_fallback_hours
  StepLimit,     \* the longest a step of a pass may take (a subprocess)
  TickBudget     \* how often a pass may die or a collect may fail: bounds the model

ASSUME GeminiBatchAssumption ==
  /\ NoBatch \notin Batches
  /\ {StuckAfter, FallbackAfter, StepLimit} \subseteq Nat
  /\ TickBudget \in Nat

VARIABLES
  name,     \* ocr_jobs.gemini_batch_name
  touched,  \* age of ocr_jobs.gemini_batch_updated_at
  google,   \* the state of each batch at Google
  due,      \* beat has sent a tick that no pass has taken yet
  tpc,      \* where each pass is
  tjobs,    \* the jobs it is working on
  tfinish,  \* the jobs of a finished batch it has still to finish
  told,     \* the oldest row it read for the batch is past the fallback age
  tnames,   \* the batches it has still to check
  tbatch,   \* the batch it is checking
  tnext,    \* where it goes on after falling back to live runs
  tage,     \* how long its current long step has taken
  reopened, \* history: jobs taken up for a run while a pass had them in hand
  tleft     \* what remains of TickBudget

passVars  == <<tpc, tjobs, tfinish, told, tnames, tbatch, tnext, tage>>
batchVars == <<name, touched, google, due, passVars, reopened, tleft>>
allVars   == <<vars, batchVars>>

\* A pass waits here for a subprocess of marriage-ocr.
LongPassSteps == {"submitting", "collecting", "finishing"}
PassPc == {"idle", "submit", "names", "check", "finish", "complete", "fallback",
           "requeue"} \cup LongPassSteps

BatchInit ==
  /\ Init
  /\ name    = [j \in Jobs |-> NoBatch]
  /\ touched = [j \in Jobs |-> 0]
  /\ google  = [b \in Batches |-> "unused"]
  /\ due     = FALSE
  /\ tpc     = [p \in Passes |-> "idle"]
  /\ tjobs   = [p \in Passes |-> {}]
  /\ tfinish = [p \in Passes |-> {}]
  /\ told    = [p \in Passes |-> FALSE]
  /\ tnames  = [p \in Passes |-> {}]
  /\ tbatch  = [p \in Passes |-> NoBatch]
  /\ tnext   = [p \in Passes |-> "idle"]
  /\ tage    = [p \in Passes |-> 0]
  /\ reopened = {}
  /\ tleft   = TickBudget

-----------------------------------------------------------------------------
(* Building blocks *)

SpendTick ==
  /\ tleft > 0
  /\ tleft' = tleft - 1

\* The jobs a pass has taken up.
Hand(p) == tjobs[p] \cup tfinish[p]

InStage(stages) ==
  {j \in Jobs : status[j] = "PROCESSING" /\ stage[j] \in stages}

\* The pass goes to step "to" with the jobs js in hand.
PassTo(p, to, js) ==
  /\ tpc'   = [tpc EXCEPT ![p] = to]
  /\ tjobs' = [tjobs EXCEPT ![p] = js]
  /\ tage'  = [tage EXCEPT ![p] = 0]

\* fall_back_to_live(js), then on to "next".
PassFallsBack(p, js, next) ==
  /\ PassTo(p, IF js = {} THEN next ELSE "fallback", js)
  /\ tnext' = [tnext EXCEPT ![p] = next]

\* The UPDATE of _claim and _set_stage.
SetStage(js, s) ==
  /\ stage'   = [j \in Jobs |-> IF j \in js THEN s ELSE stage[j]]
  /\ touched' = [j \in Jobs |-> IF j \in js THEN 0 ELSE touched[j]]

rowsUnchanged == UNCHANGED <<jobVars, name, touched>>
othersUnchanged == UNCHANGED <<workerVars, requestVars, sweep, left, reopened>>

\* The pass is over, to its end or not.
EndPass(p) ==
  /\ PassTo(p, "idle", {})
  /\ tfinish' = [tfinish EXCEPT ![p] = {}]
  /\ told'    = [told EXCEPT ![p] = FALSE]
  /\ tnames'  = [tnames EXCEPT ![p] = {}]
  /\ tbatch'  = [tbatch EXCEPT ![p] = NoBatch]

-----------------------------------------------------------------------------
(* A pass: _recover_stuck_steps, _submit_prepared, _collect_submitted *)

\* Mutant: _recover_stuck_steps reads jobs of any stage; those that were in none so far
\* have no gemini_batch_updated_at, and count as stuck.
StartTickAnyStage(p) ==
  /\ tpc[p] = "idle"
  /\ due
  /\ due' = FALSE
  /\ PassFallsBack(p, {j \in InStage(Stage) : stage[j] = "none" \/ touched[j] > StuckAfter},
                   "submit")
  /\ rowsUnchanged /\ othersUnchanged
  /\ UNCHANGED <<queueVars, google, tfinish, told, tnames, tbatch, tleft>>

\* A tick is taken from the queue; _recover_stuck_steps reads the jobs that a
\* dead pass seems to have left mid-step.
StartTick(p) ==
  /\ tpc[p] = "idle"
  /\ due
  /\ due' = FALSE
  /\ PassFallsBack(p, {j \in InStage({"SUBMITTING", "FINISHING"}) :
                         touched[j] > StuckAfter}, "submit")
  /\ rowsUnchanged /\ othersUnchanged
  /\ UNCHANGED <<queueVars, google, tfinish, told, tnames, tbatch, tleft>>

\* Mutant: fall_back_to_live leaves gemini_batch_stage as it is.
FallBackKeepingStage(p) ==
  /\ tpc[p] = "fallback"
  /\ LET js == {j \in tjobs[p] : status[j] = "PROCESSING"} IN
       /\ SetStatus(js, "PENDING")
       /\ started' = [j \in Jobs |-> IF j \in js THEN NotStarted ELSE started[j]]
       /\ UNCHANGED <<stage, touched>>
       /\ PassTo(p, "requeue", js)
  /\ othersUnchanged
  /\ UNCHANGED <<queueVars, name, google, due, tfinish, told, tnames, tbatch, tnext, tleft>>

\* fall_back_to_live: the conditional UPDATEs and their commit; they ask for the
\* status and not for the stage, so two passes may put a job back.
FallBack(p) ==
  /\ tpc[p] = "fallback"
  /\ LET js == {j \in tjobs[p] : status[j] = "PROCESSING"} IN
       /\ SetStatus(js, "PENDING")
       /\ started' = [j \in Jobs |-> IF j \in js THEN NotStarted ELSE started[j]]
       /\ SetStage(js, "SYNC")
       /\ PassTo(p, "requeue", js)
       /\ reopened' = reopened \cup {j \in js : \E q \in Passes \ {p} : j \in Hand(q)}
  /\ UNCHANGED <<queueVars, workerVars, requestVars, sweep, left, name, google, due,
                 tfinish, told, tnames, tbatch, tnext, tleft>>

\* Mutant: fall_back_to_live commits the jobs as PENDING and submits none.
RequeueNothing(p) ==
  /\ tpc[p] = "requeue"
  /\ PassTo(p, tnext[p], {})
  /\ UNCHANGED queueVars
  /\ rowsUnchanged /\ othersUnchanged
  /\ UNCHANGED <<google, due, tfinish, told, tnames, tbatch, tnext, tleft>>

\* executor.submit for one of the jobs put back, and the end of that loop.
Requeue(p) ==
  /\ tpc[p] = "requeue"
  /\ \/ /\ \E j \in tjobs[p] : Enqueue(j) /\ PassTo(p, "requeue", tjobs[p] \ {j})
        /\ UNCHANGED raced
     \/ /\ tjobs[p] = {}
        /\ PassTo(p, tnext[p], {})
        /\ UNCHANGED queueVars
  /\ rowsUnchanged /\ othersUnchanged
  /\ UNCHANGED <<google, due, tfinish, told, tnames, tbatch, tnext, tleft>>

\* executor.submit raises, with the jobs committed as PENDING and not submitted: the
\* exception leaves tick.  Only the first fall-back of _finish_job is inside its try,
\* and its except falls back once more before it goes on.
RequeueError(p) ==
  /\ tpc[p] = "requeue"
  /\ tjobs[p] # {}
  /\ lost' = lost \cup tjobs[p]
  /\ \/ EndPass(p)
     \/ /\ tnext[p] = "finish"
        /\ PassTo(p, "fallback", tjobs[p])
        /\ UNCHANGED <<tfinish, told, tnames, tbatch>>
  /\ rowsUnchanged /\ othersUnchanged
  /\ UNCHANGED <<queue, raced, google, due, tnext, tleft>>

\* _submit_prepared claims the PREPARED jobs; gemini-batch-submit starts.
ClaimPrepared(p) ==
  /\ tpc[p] = "submit"
  /\ LET js == InStage({"PREPARED"}) IN
       /\ SetStage(js, "SUBMITTING")
       /\ PassTo(p, IF js = {} THEN "names" ELSE "submitting", js)
  /\ othersUnchanged
  /\ UNCHANGED <<status, started, queueVars, name, google, due, tfinish, told, tnames, tbatch,
                 tnext, tleft>>

\* Batch mode has been switched off: the jobs merely PREPARED run live.
SwitchedOff(p) ==
  /\ tpc[p] = "submit"
  /\ PassFallsBack(p, InStage({"PREPARED"}), "names")
  /\ rowsUnchanged /\ othersUnchanged
  /\ UNCHANGED <<queueVars, google, due, tfinish, told, tnames, tbatch, tleft>>

\* Google took the batch: the jobs become SUBMITTED by id, whatever their rows
\* say by now.
SubmitDone(p, b) ==
  /\ tpc[p] = "submitting"
  /\ google[b] = "unused"
  /\ google' = [google EXCEPT ![b] = "running"]
  /\ SetStage(tjobs[p], "SUBMITTED")
  /\ name' = [j \in Jobs |-> IF j \in tjobs[p] THEN b ELSE name[j]]
  /\ PassTo(p, "names", {})
  /\ othersUnchanged
  /\ UNCHANGED <<status, started, queueVars, due, tfinish, told, tnames, tbatch, tnext, tleft>>

SubmitFails(p) ==
  /\ tpc[p] = "submitting"
  /\ PassFallsBack(p, tjobs[p], "names")
  /\ rowsUnchanged /\ othersUnchanged
  /\ UNCHANGED <<queueVars, google, due, tfinish, told, tnames, tbatch, tleft>>

\* _collect_submitted reads the names of the batches that jobs wait for.
ReadNames(p) ==
  /\ tpc[p] = "names"
  /\ tnames' = [tnames EXCEPT ![p] = {name[j] : j \in InStage({"SUBMITTED"})} \ {NoBatch}]
  /\ PassTo(p, "check", {})
  /\ rowsUnchanged /\ othersUnchanged
  /\ UNCHANGED <<queueVars, google, due, tfinish, told, tbatch, tnext, tleft>>

\* It reads the jobs of the next batch; gemini-batch-collect starts.
ReadRows(p) ==
  /\ tpc[p] = "check"
  /\ \E b \in tnames[p] :
       LET js == {j \in InStage({"SUBMITTED"}) : name[j] = b} IN
         /\ tnames' = [tnames EXCEPT ![p] = @ \ {b}]
         /\ tbatch' = [tbatch EXCEPT ![p] = b]
         /\ told'   = [told EXCEPT ![p] = \E j \in js : touched[j] > FallbackAfter]
         /\ PassTo(p, "collecting", js)
  /\ rowsUnchanged /\ othersUnchanged
  /\ UNCHANGED <<queueVars, google, due, tfinish, tnext, tleft>>

\* Mutant: a batch that is not done is waited for, however old it is.
CollectedWithoutFallback(p) ==
  /\ tpc[p] = "collecting"
  /\ LET state == google[tbatch[p]] IN
       /\ PassFallsBack(p, IF state = "failed" THEN tjobs[p] ELSE {},
                        IF state = "succeeded" THEN "finish" ELSE "check")
       /\ tfinish' = IF state = "succeeded" THEN [tfinish EXCEPT ![p] = tjobs[p]]
                                            ELSE tfinish
  /\ told'   = [told EXCEPT ![p] = FALSE]
  /\ tbatch' = [tbatch EXCEPT ![p] = NoBatch]
  /\ rowsUnchanged /\ othersUnchanged
  /\ UNCHANGED <<queueVars, google, due, tnames, tleft>>

\* What Google answers decides: wait on, fall back, or finish the jobs.
Collected(p) ==
  /\ tpc[p] = "collecting"
  /\ LET state == google[tbatch[p]] IN
       \/ /\ state = "running"
          /\ PassFallsBack(p, IF told[p] THEN tjobs[p] ELSE {}, "check")
          /\ UNCHANGED tfinish
       \/ /\ state = "failed"
          /\ PassFallsBack(p, tjobs[p], "check")
          /\ UNCHANGED tfinish
       \/ /\ state = "succeeded"
          /\ PassTo(p, "finish", {})
          /\ tfinish' = [tfinish EXCEPT ![p] = tjobs[p]]
          /\ UNCHANGED tnext
  /\ told'   = [told EXCEPT ![p] = FALSE]
  /\ tbatch' = [tbatch EXCEPT ![p] = NoBatch]
  /\ rowsUnchanged /\ othersUnchanged
  /\ UNCHANGED <<queueVars, google, due, tnames, tleft>>

\* gemini-batch-collect raises: the batch is left to the next tick, however old
\* it is.
CollectFails(p) ==
  /\ tpc[p] = "collecting"
  /\ SpendTick
  /\ PassTo(p, "check", {})
  /\ told'   = [told EXCEPT ![p] = FALSE]
  /\ tbatch' = [tbatch EXCEPT ![p] = NoBatch]
  /\ rowsUnchanged /\ othersUnchanged
  /\ UNCHANGED <<queueVars, google, due, tfinish, tnames, tnext>>

\* _finish_job claims the next job of a finished batch; a job that is not
\* SUBMITTED any more is passed over.  gemini-batch-finish starts.
FinishClaim(p) ==
  /\ tpc[p] = "finish"
  /\ \E j \in tfinish[p] :
       LET js == {j} \cap InStage({"SUBMITTED"}) IN
         /\ SetStage(js, "FINISHING")
         /\ PassTo(p, IF js = {} THEN "finish" ELSE "finishing", js)
         /\ tfinish' = [tfinish EXCEPT ![p] = @ \ {j}]
  /\ othersUnchanged
  /\ UNCHANGED <<status, started, queueVars, name, google, due, told, tnames, tbatch,
                 tnext, tleft>>

\* gemini-batch-finish wrote the output; complete_job's mark_completed reads the
\* row, and raises if the job is not PROCESSING.
FinishRead(p) ==
  /\ tpc[p] = "finishing"
  /\ \/ /\ tjobs[p] \subseteq InStage(Stage)
        /\ PassTo(p, "complete", tjobs[p])
        /\ UNCHANGED tnext
     \/ /\ ~ (tjobs[p] \subseteq InStage(Stage))
        /\ PassFallsBack(p, tjobs[p], "finish")
  /\ rowsUnchanged /\ othersUnchanged
  /\ UNCHANGED <<queueVars, google, due, tfinish, told, tnames, tbatch, tleft>>

FinishWrite(p) ==
  /\ tpc[p] = "complete"
  /\ SetStatus(tjobs[p], "COMPLETED")
  /\ PassTo(p, "finish", {})
  /\ othersUnchanged
  /\ UNCHANGED <<started, stage, name, touched, queueVars, google, due, tfinish, told,
                 tnames, tbatch, tnext, tleft>>

\* A page has no result, or finishing or importing fails.
FinishFails(p) ==
  /\ tpc[p] \in {"finishing", "complete"}
  /\ PassFallsBack(p, tjobs[p], "finish")
  /\ rowsUnchanged /\ othersUnchanged
  /\ UNCHANGED <<queueVars, google, due, tfinish, told, tnames, tbatch, tleft>>

EndFinish(p) ==
  /\ tpc[p] = "finish"
  /\ tfinish[p] = {}
  /\ PassTo(p, "check", {})
  /\ rowsUnchanged /\ othersUnchanged
  /\ UNCHANGED <<queueVars, google, due, tfinish, told, tnames, tbatch, tnext, tleft>>

EndTick(p) ==
  /\ tpc[p] = "check"
  /\ tnames[p] = {}
  /\ PassTo(p, "idle", {})
  /\ rowsUnchanged /\ othersUnchanged
  /\ UNCHANGED <<queueVars, google, due, tfinish, told, tnames, tbatch, tnext, tleft>>

\* The worker running the pass is killed.
TickLost(p) ==
  /\ tpc[p] # "idle"
  /\ SpendTick
  /\ lost' = IF tpc[p] = "requeue" THEN lost \cup tjobs[p] ELSE lost
  /\ EndPass(p)
  /\ rowsUnchanged /\ othersUnchanged
  /\ UNCHANGED <<queue, raced, google, due, tnext>>

\* The steps of a pass that take a statement of the database or of the broker,
\* and the end of its subprocesses, which have a timeout.
PassStep(p) ==
  \/ FallBack(p) \/ Requeue(p) \/ ClaimPrepared(p) \/ ReadNames(p) \/ ReadRows(p)
  \/ Collected(p) \/ FinishClaim(p) \/ FinishRead(p) \/ FinishWrite(p) \/ EndFinish(p)
  \/ EndTick(p) \/ \E b \in Batches : SubmitDone(p, b)

-----------------------------------------------------------------------------
(* Google, beat and time *)

BatchEnds(b) ==
  /\ google[b] = "running"
  /\ \E state \in {"succeeded", "failed"} : google' = [google EXCEPT ![b] = state]
  /\ UNCHANGED <<vars, name, touched, due, passVars, reopened, tleft>>

\* Mutant: the subprocesses of a pass have no timeout.
BatchTimeWithoutTimeout ==
  /\ TimePasses
  /\ \A p \in Passes : tpc[p] \in LongPassSteps \cup {"idle"}
  /\ due' = TRUE
  /\ tage' = [p \in Passes |-> IF tpc[p] = "idle" THEN 0 ELSE tage[p] + 1]
  /\ touched' = [j \in Jobs |-> touched[j] + 1]
  /\ UNCHANGED <<name, google, tpc, tjobs, tfinish, told, tnames, tbatch, tnext, reopened,
                 tleft>>

\* Time passes for the jobs, and beat sends a tick.  A pass's subprocess does
\* not outlast StepLimit.
BatchTimePasses ==
  /\ TimePasses
  /\ \A p \in Passes : \/ tpc[p] = "idle"
                       \/ tpc[p] \in LongPassSteps /\ tage[p] < StepLimit
  /\ due' = TRUE
  /\ tage' = [p \in Passes |-> IF tpc[p] = "idle" THEN 0 ELSE tage[p] + 1]
  /\ touched' = [j \in Jobs |->
       IF \/ stage[j] \in {"SUBMITTING", "FINISHING"} /\ touched[j] <= StuckAfter
          \/ stage[j] = "SUBMITTED" /\ touched[j] <= FallbackAfter
         THEN touched[j] + 1 ELSE touched[j]]
  /\ UNCHANGED <<name, google, tpc, tjobs, tfinish, told, tnames, tbatch, tnext, reopened,
                 tleft>>

\* A step of the job system beside the passes.  A job that a retry or the requeue
\* script takes up while a pass has it in hand is on record.
Beside(Step) ==
  /\ Step
  /\ reopened' = reopened \cup
       {j \in Jobs : /\ ~ BeingHandled(j) /\ BeingHandled(j)'
                    /\ \E p \in Passes : j \in Hand(p)}
  /\ UNCHANGED <<name, touched, google, due, passVars, tleft>>

BatchNext ==
  \/ Beside(UntimedNext)
  \/ \E p \in Passes :
       \/ StartTick(p) \/ PassStep(p) \/ RequeueError(p) \/ SwitchedOff(p)
       \/ SubmitFails(p) \/ CollectFails(p) \/ FinishFails(p) \/ TickLost(p)
  \/ \E b \in Batches : BatchEnds(b)
  \/ BatchTimePasses

BatchSpec == BatchInit /\ [][BatchNext]_allVars

\* Workers end their statements or are killed, passes go on, beat and a worker for the
\* maintenance queue keep running.  Nothing is assumed of Google, nor of the rest of the
\* job system.
BatchFairness ==
  /\ \A w \in Workers : WF_allVars(Beside(DatabaseStep(w) \/ HardTimeLimit(w)))
  /\ \A p \in Passes : WF_allVars(PassStep(p))
  /\ WF_allVars(\E p \in Passes : StartTick(p))
  /\ WF_allVars(BatchTimePasses)

FairBatchSpec == BatchSpec /\ BatchFairness

-----------------------------------------------------------------------------
(* Properties *)

\* Every variable keeps its type.
BatchTypeOK ==
  /\ TypeOK
  /\ name    \in [Jobs -> Batches \cup {NoBatch}]
  /\ touched \in [Jobs -> Nat]
  /\ google  \in [Batches -> {"unused", "running", "succeeded", "failed"}]
  /\ due     \in BOOLEAN
  /\ tpc     \in [Passes -> PassPc]
  /\ tjobs   \in [Passes -> SUBSET Jobs]
  /\ tfinish \in [Passes -> SUBSET Jobs]
  /\ told    \in [Passes -> BOOLEAN]
  /\ tnames  \in [Passes -> SUBSET Batches]
  /\ tbatch  \in [Passes -> Batches \cup {NoBatch}]
  /\ tnext   \in [Passes -> PassPc]
  /\ tage    \in [Passes -> 0 .. StepLimit]
  /\ reopened \subseteq Jobs
  /\ tleft   \in Nat

\* A job put back for a live run is carried like any other PENDING job; until
\* its message is sent the pass that put it back carries it.
BatchPendingIsCarried ==
  \A j \in Jobs : status[j] = "PENDING" =>
    \/ Carried(j)
    \/ \E p \in Passes : tpc[p] = "requeue" /\ j \in tjobs[p]

\* The jobs that were sent no second message, overwritten on no stale read, and taken
\* up by no request and no other pass while a pass had them in hand.  Passes may
\* overlap and have a job in hand together: the conditional UPDATEs are there for that.
TakenInTurn == Jobs \ (raced \cup reopened)

\* What db/repositories.py says of BATCH_WAITING_STAGES: a PROCESSING job in one
\* of them is not running in any process.
WaitingJobsAreNotRun ==
  \A j \in TakenInTurn \cap InStage(BATCH_WAITING_STAGES) :
    ~ \E w \in Workers : Runs(w, j)

\* fall_back_to_live never takes a job back from a worker that runs it live.  (What puts
\* a job back besides it is a retry that overwrites the run of another: it races.)
LiveRunIsNotRequeued ==
  [][\A j \in TakenInTurn \ raced' : status[j] = "PROCESSING" /\ status'[j] = "PENDING" =>
       ~ \E w \in Workers : Runs(w, j)]_allVars

\* No job waits on Google for ever, even if Google never ends a batch: it is
\* finished, or falls back to a live run.
NoJobWaitsForEver ==
  \A j \in Jobs : j \in InStage(BATCH_WAITING_STAGES) ~>
                    j \notin InStage(BATCH_WAITING_STAGES)
=============================================================================
