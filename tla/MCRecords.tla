----------------------------- MODULE MCRecords -----------------------------
(* Records on small instances. *)
EXTENDS Records, TLC

Symmetric == Permutations(Records) \cup Permutations(Keys) \cup Permutations(Reviewers)
               \cup Permutations(Imports)

Everything == Spendable
ScriptRace == {"import", "correct", "not_recorded", "backfill"}
=============================================================================
