----------------------------- MODULE MCJobHistory -----------------------------
(* JobWorker with a history variable, on the instances of MCJobWorker.     *)
EXTENDS MCJobWorker

VARIABLE completed    \* the jobs whose generation was reported COMPLETED

HInit == Init /\ completed = {}

HNext ==
  /\ Next
  /\ completed' = IF step = "status" /\ step' = "lookup" THEN completed \cup {cur} ELSE completed

HSpec == HInit /\ [][HNext]_<<vars, completed>>

\* A completed generation is not discarded over a transient failure: trouble with
\* storing its song may end it, an error of a later poll may not.
CompletedNotDiscarded ==
  \A j \in completed : job[j].state = "failed" => job[j].error # "transient"
=============================================================================
