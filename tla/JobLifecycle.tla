----------------------------- MODULE JobLifecycle -----------------------------
(***************************************************************************)
(* What a generation job promises the account that asked for it, without   *)
(* the machinery: it waits, is billed at most once, may publish one song   *)
(* and then ends for good.  JobRefinement shows that JobWorker implements  *)
(* it.  Deleting does not recall a generation already under way: a deleted *)
(* job may still be billed and may still publish.                          *)
(***************************************************************************)
EXTENDS Naturals

CONSTANT Jobs

VARIABLES
  outcome,    \* "none", "pending", "succeeded", "failed" or "gone"
  billed,     \* how many generations the job has been billed for
  songs       \* the jobs that have a song in the library

vars == <<outcome, billed, songs>>

Init ==
  /\ outcome = [j \in Jobs |-> "none"]
  /\ billed = [j \in Jobs |-> 0]
  /\ songs = {}

Become(j, from, to) ==
  /\ outcome[j] = from
  /\ outcome' = [outcome EXCEPT ![j] = to]

Queue(j) == Become(j, "none", "pending") /\ UNCHANGED <<billed, songs>>

UnderWay(j) == outcome[j] \in {"pending", "gone"}

Bill(j) ==
  /\ UnderWay(j)
  /\ billed[j] = 0
  /\ billed' = [billed EXCEPT ![j] = 1]
  /\ UNCHANGED <<outcome, songs>>

Publish(j) ==
  /\ UnderWay(j)
  /\ billed[j] = 1
  /\ j \notin songs
  /\ songs' = songs \cup {j}
  /\ UNCHANGED <<outcome, billed>>

Succeed(j) ==
  /\ j \in songs
  /\ Become(j, "pending", "succeeded")
  /\ UNCHANGED <<billed, songs>>

Fail(j) == Become(j, "pending", "failed") /\ UNCHANGED <<billed, songs>>

Delete(S) ==
  /\ outcome' = [j \in Jobs |-> IF j \in S /\ outcome[j] # "none" THEN "gone" ELSE outcome[j]]
  /\ songs' = songs \ S
  /\ UNCHANGED billed

Next ==
  \/ \E j \in Jobs : Queue(j) \/ Bill(j) \/ Publish(j) \/ Succeed(j) \/ Fail(j)
  \/ \E S \in SUBSET Jobs : Delete(S)

Spec == Init /\ [][Next]_vars
=============================================================================
