------------------------------ MODULE JobWorker ------------------------------
(***************************************************************************)
(* The background worker (internal/worker/worker.go): one goroutine that   *)
(* recovers at boot and then, tick after tick, polls the active jobs and   *)
(* submits queued ones, over the tables of JobStore and the RunPod client. *)
(*                                                                         *)
(* One action is one database statement or one remote call together with   *)
(* the local decisions up to the next one, so a request, the clock or a    *)
(* crash can come between any two of them.  RunPod itself is external: it  *)
(* may give any answer at any time, and posts counts what it has accepted. *)
(***************************************************************************)
EXTENDS JobStore

CONSTANTS
  Engines,            \* the generation engines
  Engine,             \* the engine each job names
  MaxInFlight,        \* MM3_MAX_IN_FLIGHT
  ScanLimit,          \* the LIMIT of the active and submitting scans (100)
  QueueBudget,        \* queueBudget
  RunBudget,          \* runBudgetFor each job's engine and mode
  YoungFor, PollFast, PollSlow,      \* pollDelay's minute and its two delays
  SubmitBackoff, MaxSubmitBackoff,   \* submitDelay's first step and its cap
  MaxTransient, MaxStoreRetries      \* consecutive failures tolerated

ASSUME EngineAssumption == Engine \in [Jobs -> Engines]
ASSUME LimitsAssumption == MaxInFlight \in Nat \ {0} /\ ScanLimit \in Nat \ {0}
\* Saturation loses nothing: every threshold lies below the caps.
ASSUME SaturationAssumption ==
  /\ {QueueBudget, YoungFor, PollFast, PollSlow, SubmitBackoff, MaxSubmitBackoff} \subseteq 0..Horizon
  /\ RunBudget \in [Jobs -> 0..(Horizon - 1)] /\ QueueBudget < Horizon
  /\ {MaxTransient, MaxStoreRetries} \subseteq 1..RetryCap
  /\ SubmitBackoff * 2^(RetryCap - 1) >= MaxSubmitBackoff

VARIABLES
  phase,      \* which loop of Run the worker is in
  rows,       \* the rows its last scan returned and it has not finished with
  cur,        \* the job of the row it is in the middle of, or NoJob
  step,       \* what it does next for cur; "loop" between rows
  budget,     \* submitQueued's remaining in-flight budget
  file,       \* the audio file finish() has written and not yet filed
  engines,    \* the engines this process has a client for
  posts       \* per job, the POSTs to /run that RunPod accepted (each is billed)

workerVars == <<phase, rows, cur, step, budget, file, engines>>
vars == <<storeVars, workerVars, posts>>

NoJob == 0

Phases == {"boot", "orphan", "expire", "poll", "dequeue", "submit"}
FailSteps == [failConfig |-> "other", failTransient |-> "transient", failStore |-> "store"]
Steps == {"loop", "status", "lookup", "encode", "insert", "succeed", "storeFailure",
          "post", "record", "bump", "requeue", "disown", "disownId"}
         \cup DOMAIN FailSteps

-----------------------------------------------------------------------------
(* Budgets and delays, decided on the scanned copy of the row.             *)

expired_NoQueueBudget(r, j) == r.started # NeverStarted /\ r.started > RunBudget[j]

expired(r, j) ==
  IF r.started = NeverStarted THEN r.created > QueueBudget ELSE r.started > RunBudget[j]

pollDelay(r) == IF r.created < YoungFor THEN PollFast ELSE PollSlow

submitDelay(retries) ==
  IF retries <= 0 THEN 0 ELSE UpTo(SubmitBackoff * 2^(retries - 1), MaxSubmitBackoff)

clientFor(j) == Engine[j] \in engines

-----------------------------------------------------------------------------
(* Walking the scanned rows.                                               *)

\* ActiveJobs lists the submitted rows before the running ones, each by age.
First(j) ==
  /\ j \in DOMAIN rows
  /\ \A k \in DOMAIN rows \ {j} :
       \/ rows[j].state = "submitted" /\ rows[k].state = "running"
       \/ rows[j].state = rows[k].state /\ j < k

Turn(p, j) == phase = p /\ step = "loop" /\ First(j)
At(s) == step = s /\ cur \in Jobs

Without(j) == [k \in DOMAIN rows \ {j} |-> rows[k]]

\* Finished with job j: on to the next scanned row.
Done(j) ==
  /\ rows' = Without(j)
  /\ cur' = NoJob
  /\ step' = "loop"
  /\ UNCHANGED <<phase, budget>>

Goto(j, s) ==
  /\ cur' = j
  /\ step' = s
  /\ UNCHANGED <<phase, rows, budget>>

\* A loop is over when every scanned row is done with.
Over(p) == phase = p /\ step = "loop" /\ DOMAIN rows = {}

Scanned(S) == rows' = [j \in S |-> job[j]]

\* The two SELECTs of ActiveJobs.
ScannedActive(R, S) ==
  /\ Oldest(R, InState({"submitted"}), ScanLimit)
  /\ Oldest(S, InState({"running"}), ScanLimit)

\* A scan that returns an error leaves its loop with nothing to do.
ScanFails(op) == Failing(op) /\ Scanned({})

Elsewhere == UNCHANGED <<song, users, disk, requestVars, file, engines, posts>>

-----------------------------------------------------------------------------
(* Boot: failAmbiguousSubmissions, then failExpired.                       *)

ScanSubmitting ==
  /\ phase = "boot"
  /\ \/ \E R \in SUBSET Jobs :
          Oldest(R, InState({"submitting"}), ScanLimit) /\ Scanned(R)
     \/ ScanFails("SubmittingJobs")
  /\ phase' = "orphan"
  /\ UNCHANGED <<job, cur, step, budget>>
  /\ Elsewhere

failAmbiguousSubmission_Resubmits(j) ==
  /\ Turn("orphan", j)
  /\ TransitionJob(j, "submitting", Moved(job[j], "queued"))
  /\ Done(j)
  /\ Elsewhere

failAmbiguousSubmission(j) ==
  /\ Turn("orphan", j)
  /\ OrphanSubmission(j, rows[j].runpod_id)
  /\ Done(j)
  /\ Elsewhere

ScanRecovery ==
  /\ Over("orphan")
  /\ \/ \E R, S \in SUBSET Jobs : ScannedActive(R, S) /\ Scanned(R \cup S)
     \/ ScanFails("ActiveJobs")
  /\ phase' = "expire"
  /\ UNCHANGED <<job, cur, step, budget>>
  /\ Elsewhere

failExpired(j) ==
  /\ Turn("expire", j)
  /\ IF expired(rows[j], j) THEN FailJob(j, "timeout") ELSE UNCHANGED job
  /\ Done(j)
  /\ Elsewhere

-----------------------------------------------------------------------------
(* pollActive.                                                             *)

\* A tick of Run: recovery or the previous tick's submitQueued has returned.
ScanActive ==
  /\ Over("expire") \/ Over("submit")
  /\ \/ \E R, S \in SUBSET Jobs : ScannedActive(R, S) /\ Scanned(R \cup S)
     \/ ScanFails("ActiveJobs")
  /\ phase' = "poll"
  /\ UNCHANGED <<job, cur, step, budget>>
  /\ Elsewhere

pollSkip(j) ==
  /\ Turn("poll", j)
  /\ \/ ~rows[j].runpod_id
     \/ /\ clientFor(j)
        /\ ~expired(rows[j], j)
        /\ rows[j].updated < pollDelay(rows[j])
  /\ Done(j)
  /\ UNCHANGED job
  /\ Elsewhere

\* Cancel is best effort and leaves nothing behind on this side.
pollGiveUp(j) ==
  /\ Turn("poll", j)
  /\ rows[j].runpod_id
  /\ \/ ~clientFor(j) /\ FailJob(j, "other")
     \/ clientFor(j) /\ expired(rows[j], j) /\ FailJob(j, "timeout")
  /\ Done(j)
  /\ Elsewhere

pollStatus(j) ==
  /\ Turn("poll", j)
  /\ rows[j].runpod_id /\ clientFor(j) /\ ~expired(rows[j], j)
  /\ rows[j].updated >= pollDelay(rows[j])
  /\ Goto(j, "status")
  /\ UNCHANGED job
  /\ Elsewhere

\* A transition that no longer applies, or errors, is dropped.
transition(j, from, r) == TransitionJob(j, from, r) \/ TransitionLost(j, from)

\* applyStatus: IN_QUEUE, also from running when the endpoint requeues the job.
applyInQueue ==
  /\ At("status")
  /\ transition(cur, rows[cur].state, [Moved(job[cur], "submitted") EXCEPT !.retries = 0])
  /\ Done(cur)
  /\ Elsewhere

applyInProgress_Restamps ==
  /\ At("status")
  /\ transition(cur, rows[cur].state,
       [Moved(job[cur], "running") EXCEPT !.retries = 0, !.started = 0])
  /\ Done(cur)
  /\ Elsewhere

\* applyStatus: IN_PROGRESS; started_at is stamped once.
applyInProgress ==
  /\ At("status")
  /\ transition(cur, rows[cur].state,
       [Moved(job[cur], "running") EXCEPT
          !.retries = 0,
          !.started = IF rows[cur].started = NeverStarted THEN 0 ELSE @])
  /\ Done(cur)
  /\ Elsewhere

\* A permanent error, FAILED, CANCELLED, an unknown status, or COMPLETED with
\* an output OutputOf refuses.
applyFailure ==
  /\ At("status")
  /\ FailJob(cur, "other")
  /\ Done(cur)
  /\ Elsewhere

\* classify: a transient poll error is counted, and fails the job at the limit.
Exhausted(j, limit) == job[j].retries + 1 >= limit

classifyTransient ==
  /\ At("status")
  /\ \/ /\ BumpRetries(cur)
        /\ IF Exhausted(cur, MaxTransient) THEN Goto(cur, "failTransient") ELSE Done(cur)
     \/ BumpLost(cur) /\ Done(cur)
  /\ Elsewhere

applyCompleted_CasFirst ==
  /\ At("status")
  /\ Goto(cur, "succeed")
  /\ UNCHANGED job
  /\ Elsewhere

applyCompleted ==
  /\ At("status")
  /\ Goto(cur, "lookup")
  /\ UNCHANGED job
  /\ Elsewhere

-----------------------------------------------------------------------------
(* complete and finish: the song is stored before the job succeeds.        *)

SongForJob ==
  /\ At("lookup")
  /\ \/ song[cur] # NoFile /\ Goto(cur, "succeed")
     \/ (song[cur] = NoFile \/ Failing("SongForJob")) /\ Goto(cur, "encode")
  /\ UNCHANGED job
  /\ Elsewhere

\* A name newID has not given out before.
Fresh == Files \ (disk \cup unlinking \cup {song[j] : j \in Jobs})

\* audioBytes and EncodeAudioToM4A.
encodeAudio ==
  /\ At("encode")
  /\ \E f \in Fresh : file' = f /\ disk' = disk \cup {f}
  /\ Goto(cur, "insert")
  /\ UNCHANGED <<job, song, users, requestVars, engines, posts>>

\* The download, the directory or the transcode fails; ffmpeg's output is removed.
encodeFails ==
  /\ At("encode")
  /\ Goto(cur, "storeFailure")
  /\ UNCHANGED job
  /\ Elsewhere

insertSong ==
  /\ At("insert")
  /\ \/ CreateSong(cur, file) /\ Goto(cur, "succeed")
     \/ Failing("CreateSong") /\ UNCHANGED song /\ Goto(cur, "storeFailure")
  /\ file' = NoFile
  /\ UNCHANGED <<job, users, disk, requestVars, engines, posts>>

succeed ==
  /\ At("succeed")
  /\ transition(cur, rows[cur].state, Ended(job[cur], "succeeded", ""))
  /\ Done(cur)
  /\ Elsewhere

storeFailure ==
  /\ At("storeFailure")
  /\ \/ /\ BumpRetries(cur)
        /\ IF Exhausted(cur, MaxStoreRetries) THEN Goto(cur, "failStore") ELSE Done(cur)
     \/ BumpLost(cur) /\ Goto(cur, "failStore")
  /\ Elsewhere

\* fail, as the second statement of a decision made one statement earlier.
fail ==
  /\ \E s \in DOMAIN FailSteps : At(s) /\ FailJob(cur, FailSteps[s])
  /\ Done(cur)
  /\ Elsewhere

-----------------------------------------------------------------------------
(* submitQueued.                                                           *)

\* What is left of the in-flight cap, from the rows the scan returned.
Remaining_OffByOne(R, S) == (MaxInFlight - Cardinality(R \cup S)) + 1

Remaining(R, S) == MaxInFlight - Cardinality(R \cup S)

CountActive ==
  /\ Over("poll")
  /\ \/ \E R, S \in SUBSET Jobs :
          /\ ScannedActive(R, S)
          /\ IF Remaining(R, S) <= 0
               THEN phase' = "submit" /\ UNCHANGED budget
               ELSE phase' = "dequeue" /\ budget' = Remaining(R, S)
     \/ Failing("ActiveJobs") /\ phase' = "submit" /\ UNCHANGED budget
  /\ UNCHANGED <<job, rows, cur, step>>
  /\ Elsewhere

DequeueQueued ==
  /\ phase = "dequeue"
  /\ \/ \E R \in SUBSET Jobs :
          Oldest(R, InState({"queued"}), budget) /\ Scanned(R)
     \/ ScanFails("DequeueQueued")
  /\ phase' = "submit"
  /\ budget' = 0
  /\ UNCHANGED <<job, cur, step>>
  /\ Elsewhere

submitSkip(j) ==
  /\ Turn("submit", j)
  /\ \/ rows[j].runpod_id
     \/ ~expired(rows[j], j) /\ rows[j].updated < submitDelay(rows[j].retries)
  /\ Done(j)
  /\ UNCHANGED job
  /\ Elsewhere

submitExpired_NoReturn(j) ==
  /\ Turn("submit", j)
  /\ ~rows[j].runpod_id /\ expired(rows[j], j)
  /\ FailJob(j, "timeout")
  /\ Goto(j, "post")
  /\ Elsewhere

submitExpired(j) ==
  /\ Turn("submit", j)
  /\ ~rows[j].runpod_id /\ expired(rows[j], j)
  /\ FailJob(j, "timeout")
  /\ Done(j)
  /\ Elsewhere

\* Claim locally before the remote call.
submitClaim(j) ==
  /\ Turn("submit", j)
  /\ ~rows[j].runpod_id /\ ~expired(rows[j], j)
  /\ rows[j].updated >= submitDelay(rows[j].retries)
  /\ \/ /\ TransitionJob(j, "queued", Moved(job[j], "submitting"))
        /\ Goto(j, IF clientFor(j) THEN "post" ELSE "failConfig")
     \/ TransitionLost(j, "queued") /\ Done(j)
  /\ Elsewhere

\* RunPod takes the job: the answer with its id arrives, or is lost on the way.
postAccepted ==
  /\ At("post")
  /\ \E s \in {"record", "disown"} : Goto(cur, s)
  /\ posts' = [posts EXCEPT ![cur] = UpTo(@ + 1, 2)]
  /\ UNCHANGED <<storeVars, file, engines>>

\* classifySubmit, when nothing was enqueued: a refusal that may be retried (429,
\* 503, 409, no id), or one that is final or looks ambiguous.
postRefused ==
  /\ At("post")
  /\ \E s \in {"bump", "disown"} : Goto(cur, s)
  /\ UNCHANGED job
  /\ Elsewhere

recordId_NoId ==
  /\ At("record")
  /\ \/ /\ TransitionJob(cur, "submitting", [Moved(job[cur], "submitted") EXCEPT !.retries = 0])
        /\ Done(cur)
     \/ TransitionLost(cur, "submitting") /\ Goto(cur, "disownId")
  /\ Elsewhere

\* The remote id becomes durable.
recordId ==
  /\ At("record")
  /\ \/ /\ TransitionJob(cur, "submitting",
             [Moved(job[cur], "submitted") EXCEPT !.runpod_id = TRUE, !.retries = 0])
        /\ Done(cur)
     \/ TransitionLost(cur, "submitting") /\ Goto(cur, "disownId")
  /\ Elsewhere

bumpRefused_Stays ==
  /\ At("bump")
  /\ BumpRetries(cur) \/ BumpLost(cur)
  /\ Done(cur)
  /\ Elsewhere

bumpRefused ==
  /\ At("bump")
  /\ \/ BumpRetries(cur) /\ Goto(cur, "requeue")
     \/ BumpLost(cur) /\ Done(cur)
  /\ Elsewhere

requeue ==
  /\ At("requeue")
  /\ \/ TransitionJob(cur, "submitting", Moved(job[cur], "queued")) /\ Done(cur)
     \/ TransitionLost(cur, "submitting") /\ Goto(cur, "disown")
  /\ Elsewhere

\* OrphanSubmission ends a claimed submission; with an id, after Cancel.
disown ==
  /\ \/ At("disown") /\ OrphanSubmission(cur, FALSE)
     \/ At("disownId") /\ OrphanSubmission(cur, TRUE)
  /\ Done(cur)
  /\ Elsewhere

-----------------------------------------------------------------------------
(* The rest of the world.                                                  *)

Tick ==
  /\ job' = [j \in Jobs |-> Aged(job[j])]
  /\ rows' = [j \in DOMAIN rows |-> Aged(rows[j])]
  /\ <<job', rows'>> # <<job, rows>>
  /\ UNCHANGED <<song, users, disk, requestVars, phase, cur, step, budget, file, engines, posts>>

\* The process stops and starts again, perhaps with other endpoints configured.
Restart(E) ==
  /\ phase' = "boot"
  /\ rows' = [j \in {} |-> job[j]]
  /\ cur' = NoJob
  /\ step' = "loop"
  /\ budget' = 0
  /\ file' = NoFile
  /\ engines' = E
  /\ asked' = {}
  /\ unlinking' = {}
  /\ UNCHANGED <<job, song, users, disk, posts>>

Init ==
  /\ StoreInit
  /\ phase = "boot"
  /\ rows = [j \in {} |-> job[j]]
  /\ cur = NoJob
  /\ step = "loop"
  /\ budget = 0
  /\ file = NoFile
  /\ engines \in SUBSET Engines
  /\ posts = [j \in Jobs |-> 0]

WorkerStep ==
  \/ ScanSubmitting \/ ScanRecovery \/ ScanActive \/ CountActive \/ DequeueQueued
  \/ \E j \in Jobs :
       \/ failAmbiguousSubmission(j) \/ failExpired(j)
       \/ pollSkip(j) \/ pollGiveUp(j) \/ pollStatus(j)
       \/ submitSkip(j) \/ submitExpired(j) \/ submitClaim(j)
  \/ applyInQueue \/ applyInProgress \/ applyFailure \/ classifyTransient \/ applyCompleted
  \/ SongForJob \/ encodeAudio \/ encodeFails \/ insertSong \/ succeed \/ storeFailure \/ fail
  \/ postAccepted \/ postRefused \/ recordId \/ bumpRefused \/ requeue \/ disown

Request ==
  /\ \/ \E j \in Jobs : AskForJob(j) \/ CreateJob(j) \/ DeleteSong(j)
     \/ \E u \in Users : DeleteUser(u)
     \/ \E f \in Files : Unlink(f)
  /\ UNCHANGED <<workerVars, posts>>

Next == WorkerStep \/ Request \/ Tick \/ \E E \in SUBSET Engines : Restart(E)

Spec == Init /\ [][Next]_vars

-----------------------------------------------------------------------------
(* Properties.                                                             *)

\* Every variable keeps its type; the worker holds a job exactly between the
\* statements it makes for it, and a file exactly until CreateSong.
TypeOK ==
  /\ StoreTypeOK
  /\ phase \in Phases
  /\ DOMAIN rows \subseteq Jobs /\ rows \in [DOMAIN rows -> Row]
  /\ step \in Steps
  /\ IF step = "loop" THEN cur = NoJob ELSE cur \in DOMAIN rows
  /\ budget \in 0..MaxInFlight
  /\ IF step = "insert" THEN file \in Files ELSE file = NoFile
  /\ engines \subseteq Engines
  /\ posts \in [Jobs -> 0..2]

\* No job is ever billed twice: RunPod accepts at most one POST for it, across
\* refusals, lost answers, failed statements, restarts and deletions (submitOne
\* claims before it posts, recovery never resubmits).
BilledOnce == \A j \in Jobs : posts[j] <= 1

\* The jobs RunPod is working on never exceed MaxInFlight (submitQueued counts
\* before it dequeues, and recounts only after everything dequeued is settled).
InFlightCap == Cardinality(InState(Active)) <= MaxInFlight

\* An active row carries the id of the one generation billed for it, so that
\* pollActive never passes it over as unsubmitted.
ActiveIsBilled ==
  \A j \in InState(Active) : job[j].runpod_id /\ posts[j] = 1

\* A succeeded job has its song: complete() stores first and only then moves the
\* job, and DeleteSong takes the job along.
SucceededHasSong == \A j \in InState({"succeeded"}) : song[j] # NoFile

\* A song row names a file that is there, that no other song shares and that no
\* delete request is about to remove: finish() writes before it inserts, and
\* deletes commit before they unlink.
SongHasAudio ==
  \A j \in Jobs : song[j] # NoFile =>
    /\ song[j] \in disk \ unlinking
    /\ \A k \in Jobs \ {j} : song[k] # song[j]

\* When no statement on a claim fails, a row is `submitting` only while the worker is
\* posting it or recovery is about to fail it: no claim is ever left behind.
ClaimIsHeld ==
  \A j \in InState({"submitting"}) :
    \/ phase = "boot"
    \/ phase = "orphan" /\ j \in DOMAIN rows
    \/ phase = "submit" /\ cur = j

\* The run budget counts from the first IN_PROGRESS: while a job lives its
\* started_at never moves, even if the endpoint queues and starts it again.
RunClockStands ==
  [][\A j \in InState(Live) :
       (job[j].started # NeverStarted /\ job'[j].state \in Live)
         => job'[j].started >= job[j].started]_vars

-----------------------------------------------------------------------------
(* Progress.  The worker's calls all have timeouts and its ticker never    *)
(* stops, so it always takes its next step, and time passes.  Users need   *)
(* do nothing.  Restarts are not fair, but there must be an end to them.   *)

Restarts == \E E \in SUBSET Engines : Restart(E)

FairSpec == Spec /\ WF_vars(WorkerStep) /\ WF_vars(Tick)

\* If the process stays up from some point on, every job that is queued ends or
\* is deleted, whatever RunPod answers: a budget runs out for it in every state.
EveryJobEnds ==
  <>[][~Restarts]_vars => \A j \in Jobs : job[j].state \in Live ~> job[j].state \notin Live

-----------------------------------------------------------------------------
(* What the comments promise and the code does not keep.                   *)

\* Deleting an account leaves no song filed under it: DeleteUser removes every
\* song of the account and no later step of the worker brings one back.
NoOrphanSongs == \A j \in Jobs : song[j] # NoFile => Owner[j] \in users

\* A job that failed has no song in the library: losing the transition to
\* succeeded is harmless, because the next poll finishes the job.
FailedHasNoSong == \A j \in InState({"failed"}) : song[j] = NoFile
=============================================================================
