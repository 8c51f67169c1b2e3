----------------------------- MODULE MCOcrJobs -----------------------------
(* Instances of OcrJobs for TLC: how often each disturbance may happen.     *)
EXTENDS OcrJobs, TLC

Allow(what) == [s \in Spendable |-> IF s \in what THEN 1 ELSE 0]

\* What can disturb a job under Celery, once each.  With one request at a time a
\* restart of the API loses what requestLost would; submitError and the requeue script
\* are in PoolBudget.
CeleryBudget == Allow({"retry", "cancel", "workerLost", "redelivery", "dbError",
                       "restart"})

\* The same for the in-process pool, which has no lost workers and no redelivery.
PoolBudget == Allow({"retry", "cancel", "dbError", "requestLost", "restart", "requeue",
                    "submitError"})

AnySymmetry == Permutations(Workers) \cup Permutations(Requests) \cup Permutations(Jobs)
=============================================================================
