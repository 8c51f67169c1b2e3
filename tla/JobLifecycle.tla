---------------------------- MODULE JobLifecycle ----------------------------
(***************************************************************************)
(* What the API promises of an OCR job, without workers, messages or       *)
(* time: the status the database shows and whether an OCR run is being     *)
(* made for it.  A job is run at most once at a time; only a failed or     *)
(* cancelled job that nothing runs any more may be retried; a completed    *)
(* job stays completed; no job fails under a run that goes on.             *)
(*                                                                         *)
(* The code guards none of this against a second message for a job or a    *)
(* write after a stale read.  A job that met one of these is in raced, and *)
(* from then on nothing is promised of it; of the others all is.           *)
(***************************************************************************)
CONSTANT Jobs

VARIABLES
  status,  \* the status of each job, "ABSENT" before it exists
  live,    \* the jobs an OCR run is being made for
  raced    \* the jobs nothing is promised of any more

vars == <<status, live, raced>>

Init ==
  /\ status = [j \in Jobs |-> "ABSENT"]
  /\ live = {}
  /\ raced = {}

-----------------------------------------------------------------------------
(* The steps of one job *)

Moves(j, from, to) == status[j] \in from /\ status'[j] = to

Create(j)   == j \notin live' /\ Moves(j, {"ABSENT"}, "PENDING")
Claim(j)    == j \in live' \ live /\ Moves(j, {"PENDING"}, "PROCESSING")
\* The run stops without a verdict, or hands the job to a Gemini batch.
EndRun(j)   == j \in live \ live' /\ status'[j] = status[j]
Complete(j) == j \in live \ live' /\ Moves(j, {"PROCESSING"}, "COMPLETED")
Fail(j)     == j \notin live' /\ Moves(j, {"PENDING", "PROCESSING"}, "FAILED")
\* A run goes on until its watcher sees the cancellation.
Cancel(j)   == (j \in live' <=> j \in live) /\ Moves(j, {"PENDING", "PROCESSING"}, "CANCELLED")
Retry(j)    == j \notin live \cup live' /\ Moves(j, {"FAILED", "CANCELLED"}, "PENDING")
Rest(j)     == (j \in live' <=> j \in live) /\ status'[j] = status[j]

Step(j) ==
  \/ Create(j) \/ Claim(j) \/ EndRun(j) \/ Complete(j) \/ Fail(j) \/ Cancel(j)
  \/ Retry(j) \/ Rest(j)

-----------------------------------------------------------------------------
Next ==
  /\ raced \subseteq raced'
  /\ \A j \in Jobs \ raced' : Step(j)

Spec == Init /\ [][Next]_vars
=============================================================================
