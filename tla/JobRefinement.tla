---------------------------- MODULE JobRefinement ----------------------------
(* JobWorker implements JobLifecycle: four row states are one "pending".   *)
EXTENDS JobWorker

outcomeOf(j) == IF job[j].state \in Live THEN "pending" ELSE job[j].state

Lifecycle == INSTANCE JobLifecycle WITH
  outcome <- [j \in Jobs |-> outcomeOf(j)],
  billed <- posts,
  songs <- {j \in Jobs : song[j] # NoFile}

\* Every behaviour of the worker, its restarts, failed statements and racing
\* requests included, is one of the abstract job: no step bills a second time,
\* succeeds without a song, publishes twice or reopens an ended job.
ImplementsLifecycle == Lifecycle!Spec
=============================================================================
