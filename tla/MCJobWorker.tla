----------------------------- MODULE MCJobWorker -----------------------------
(* JobWorker on small instances.                                           *)
EXTENDS JobRefinement, TLC

CONSTANTS u1, u2, e1

\* One account for everything, or the first job in one account and the rest in another.
OneOwner == [j \in Jobs |-> u1]
TwoOwners == [j \in Jobs |-> IF j = 1 THEN u1 ELSE u2]

OneEngine == [j \in Jobs |-> e1]

\* Run budgets, in ticks.
RunZero == [j \in Jobs |-> 0]
RunOne == [j \in Jobs |-> 1]

\* The store operations whose errors the worker handles on its own.
AllOps == {"TransitionJob", "FailJob", "OrphanSubmission", "BumpRetries", "CreateSong",
           "SongForJob", "ActiveJobs", "SubmittingJobs", "DequeueQueued"}
SongOps == {"CreateSong"}
NoOps == {}

FileSymmetry == Permutations(Files)
=============================================================================
