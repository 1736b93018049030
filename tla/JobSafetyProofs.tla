--------------------------- MODULE JobSafetyProofs ---------------------------
(* What JobWorker keeps safe, each part with the invariant it needs beside *)
(* TypeInv, and that it implements JobLifecycle.                           *)
EXTENDS JobRefinement, JobWorkerProofs

-----------------------------------------------------------------------------
(* Billing: no generation is billed twice.                                 *)

Unbilled == {"post", "bump", "requeue"}

\* Inductive with TypeInv: nothing that may still be posted has been billed, and
\* what the worker is about to post or to put back in the queue is its own claim.
Billing ==
  /\ \A j \in Jobs : posts[j] <= 1
  /\ \A j \in Jobs : job[j].state \in {"none", "queued"} => posts[j] = 0
  /\ \A j \in Jobs : job[j].state \in Active => job[j].runpod_id /\ posts[j] = 1
  /\ step \in Unbilled => posts[cur] = 0 /\ job[cur].state \in {"submitting", "gone"}
  /\ step = "record" => posts[cur] = 1

BillInv == TypeInv /\ Billing

\* A step that neither posts nor comes nearer to a POST.
LEMMA BillQuiet ==
  ASSUME BillInv, WorkerStep, posts' = posts, step' \notin Unbilled \cup {"record"}
  PROVE  Billing'
  <1>1. \A k \in Jobs : RowStep(k)
    BY RowEffects, EachRow DEF BillInv
  <1>2. ASSUME NEW k \in Jobs
        PROVE  /\ posts[k] <= 1
               /\ job'[k].state \in {"none", "queued"} => posts[k] = 0
               /\ job'[k].state \in Active => job'[k].runpod_id /\ posts[k] = 1
    <2>1. CASE Stays(k)
      BY <2>1 DEF Stays, BillInv, Billing
    <2>2. CASE Fails(k) \/ Claimed(k) \/ Succeeds(k)
      BY <2>2 DEF Fails, Claimed, Succeeds, BillInv, Billing, Active
    <2>3. CASE Requeued(k)
      BY <2>3 DEF Requeued, BillInv, Billing, Active, Unbilled
    <2>4. CASE Recorded(k)
      BY <2>4 DEF Recorded, BillInv, Billing, Active
    <2>5. CASE Progresses(k)
      BY <2>5 DEF Progresses, BillInv, Billing, Active
    <2>. QED BY <1>1, <2>1, <2>2, <2>3, <2>4, <2>5 DEF RowStep
  <1>. QED BY <1>2 DEF Billing

\* The claim, the POST and its refusals.
LEMMA BillSubmit ==
  ASSUME BillInv, (\E j \in Jobs : submitClaim(j)) \/ postAccepted \/ postRefused \/ bumpRefused
  PROVE  Billing'
  <1>. USE DEF BillInv
  <1>0. \A k \in Jobs : RowStep(k)
    BY RowEffects, EachRow DEF WorkerStep
  <1>1. ASSUME NEW j \in Jobs, submitClaim(j), step' = "post"
        PROVE  Billing'
    <2>1. /\ job[j].state = "queued" /\ job'[j].state = "submitting" /\ cur' = j
          /\ \A k \in Jobs \ {j} : job'[k] = job[k]
      <3>. DEFINE q == Moved(job[j], "submitting")
      <3>1. q \in Row /\ q.state = "submitting"
        BY MovedType DEF TypeInv, StoreTypeOK, JobStates, Live
      <3>2. TransitionJob(j, "queued", q) /\ StoreElsewhere /\ cur' = j
        BY <1>1, ElsewhereSplit DEF submitClaim, Done, Goto
      <3>. HIDE DEF q
      <3>. QED BY <3>1, <3>2, TransitionStep DEF TypeInv, Live
    <2>2. posts' = posts
      BY <1>1, ElsewhereSplit DEF submitClaim, SameProcess
    <2>. QED BY <1>1, <2>1, <2>2 DEF Billing, Active
  <1>2. CASE postAccepted
    <2>1. cur \in Jobs /\ posts[cur] = 0 /\ job[cur].state \in {"submitting", "gone"}
      BY <1>2, AtStep DEF postAccepted, At, SubmitSteps, Billing, Unbilled
    <2>2. /\ posts'[cur] = 1
          /\ \A k \in Jobs \ {cur} : posts'[k] = posts[k]
      BY <1>2, <2>1 DEF postAccepted, UpTo, TypeInv, WorkerTypeOK
    <2>3. job' = job /\ cur' = cur /\ step' \in {"record", "disown"}
      BY <1>2 DEF postAccepted, storeVars, Goto
    <2>. QED BY <2>1, <2>2, <2>3 DEF Billing, Active, Unbilled
  <1>3. CASE postRefused
    <2>1. posts[cur] = 0 /\ job[cur].state \in {"submitting", "gone"}
      BY <1>3 DEF postRefused, At, Billing, Unbilled
    <2>2. job' = job /\ cur' = cur /\ step' \in {"bump", "disown"} /\ posts' = posts
      BY <1>3, ElsewhereSplit DEF postRefused, Goto, SameProcess
    <2>. QED BY <2>1, <2>2 DEF Billing, Unbilled
  <1>4. CASE bumpRefused
    <2>1. StoreElsewhere /\ posts' = posts
      BY <1>4, ElsewhereSplit DEF bumpRefused, SameProcess
    <2>2. cur \in Jobs /\ posts[cur] = 0 /\ job[cur].state \in {"submitting", "gone"}
      BY <1>4, AtStep DEF bumpRefused, At, SubmitSteps, Billing, Unbilled
    <2>3. \A k \in Jobs : job'[k].state = job[k].state /\ job'[k].runpod_id = job[k].runpod_id
      BY <1>4, <2>1, <2>2, BumpStep DEF bumpRefused, TypeInv
    <2>4. (cur' = cur /\ step' = "requeue") \/ step' = "loop"
      BY <1>4 DEF bumpRefused, Done, Goto
    <2>. QED BY <2>1, <2>2, <2>3, <2>4 DEF Billing, Unbilled
  <1>5. ASSUME NEW j \in Jobs, submitClaim(j), step' # "post"
        PROVE  Billing'
    <2>1. posts' = posts /\ step' \notin Unbilled \cup {"record"}
      BY <1>5, ElsewhereSplit DEF submitClaim, SameProcess, Done, Goto, Unbilled
    <2>. QED BY <1>5, <2>1, BillQuiet DEF WorkerStep
  <1>. QED BY <1>1, <1>2, <1>3, <1>4, <1>5

\* Which steps of the worker are quiet.
LEMMA BillWorker ==
  ASSUME BillInv, WorkerStep
  PROVE  Billing'
  <1>1. CASE ScanSubmitting \/ ScanRecovery \/ ScanActive \/ CountActive \/ DequeueQueued
    <2>1. UNCHANGED <<job, step, cur, posts>>
      BY <1>1, ElsewhereSplit DEF ScanSubmitting, ScanRecovery, ScanActive, CountActive, DequeueQueued, SameProcess
    <2>. QED BY <2>1 DEF BillInv, Billing
  <1>2. CASE (\E j \in Jobs : submitClaim(j)) \/ postAccepted \/ postRefused \/ bumpRefused
    BY <1>2, BillSubmit
  <1>3. CASE \E j \in Jobs :
               \/ failAmbiguousSubmission(j) \/ failExpired(j) \/ pollSkip(j) \/ pollGiveUp(j)
               \/ pollStatus(j) \/ submitSkip(j) \/ submitExpired(j)
    <2>1. posts' = posts /\ step' \in {"loop", "status"}
      BY <1>3, ElsewhereSplit DEF failAmbiguousSubmission, failExpired, pollSkip, pollGiveUp, pollStatus,
         submitSkip, submitExpired, Done, Goto, SameProcess
    <2>. QED BY <2>1, BillQuiet DEF Unbilled
  <1>4. CASE \/ applyInQueue \/ applyInProgress \/ applyFailure \/ classifyTransient \/ applyCompleted
             \/ SongForJob \/ encodeAudio \/ encodeFails \/ insertSong \/ succeed \/ storeFailure \/ fail
             \/ recordId \/ requeue \/ disown
    <2>1. posts' = posts
      BY <1>4, ElsewhereSplit DEF SameProcess, applyInQueue, applyInProgress, applyFailure,
         classifyTransient, applyCompleted, SongForJob, encodeAudio, encodeFails, insertSong,
         succeed, storeFailure, fail, recordId, requeue, disown
    <2>2. step' \notin Unbilled \cup {"record"}
      BY <1>4 DEF applyInQueue, applyInProgress, applyFailure, classifyTransient, applyCompleted,
         SongForJob, encodeAudio, encodeFails, insertSong, succeed, storeFailure, fail, recordId,
         requeue, disown, Done, Goto, Unbilled
    <2>. QED BY <2>1, <2>2, BillQuiet
  <1>. QED BY <1>1, <1>2, <1>3, <1>4 DEF WorkerStep

LEMMA BillWorld ==
  ASSUME BillInv, Request \/ Tick \/ \E E \in SUBSET Engines : Restart(E)
  PROVE  Billing'
  <1>1. \A k \in Jobs : \/ Stays(k)
                        \/ job[k].state = "none" /\ job'[k].state = "queued"
                        \/ job[k].state # "none" /\ job'[k].state = "gone"
    BY WorldEffects DEF BillInv
  <1>2. posts' = posts /\ ((step' = step /\ cur' = cur) \/ step' = "loop")
    BY DEF Request, Tick, Restart, workerVars
  <1>3. step \in Unbilled => cur \in Jobs
    BY DEF BillInv, TypeInv, WorkerTypeOK, Unbilled
  <1>. QED BY <1>1, <1>2, <1>3 DEF BillInv, Billing, Stays, Active, Unbilled

LEMMA BillAlways == Spec => []BillInv
  <1>1. Init => BillInv
    <2>. SUFFICES ASSUME Init PROVE Billing
      BY TypeInit DEF BillInv
    <2>1. \A j \in Jobs : job[j].state = "none" /\ posts[j] = 0
      BY DEF Init, StoreInit, NewRow
    <2>2. step = "loop"
      BY DEF Init
    <2>. QED BY <2>1, <2>2 DEF Billing, Active, Unbilled
  <1>2. BillInv /\ [Next]_vars => BillInv'
    <2>. SUFFICES ASSUME BillInv, [Next]_vars PROVE Billing'
      BY TypeStep DEF BillInv
    <2>1. CASE UNCHANGED vars
      BY <2>1 DEF vars, storeVars, workerVars, BillInv, Billing
    <2>. QED BY <2>1, BillWorker, BillWorld DEF Next
  <1>. QED BY <1>1, <1>2, PTL DEF Spec

\* RunPod accepts at most one POST for a job, whatever fails, restarts or races.
THEOREM NeverBilledTwice == Spec => []BilledOnce
  <1>1. BillInv => BilledOnce
    BY DEF BillInv, Billing, BilledOnce
  <1>. QED BY <1>1, BillAlways, PTL

\* What the worker polls is a generation that was billed and that it can name.
THEOREM ActiveAlwaysBilled == Spec => []ActiveIsBilled
  <1>1. BillInv => ActiveIsBilled
    BY DEF BillInv, Billing, ActiveIsBilled, InState
  <1>. QED BY <1>1, BillAlways, PTL

-----------------------------------------------------------------------------
(* Cap: the in-flight cap holds as long as it lies below the scan's LIMIT. *)

InFlight == Cardinality(InState(Active))

\* Inductive with TypeInv: what submitQueued has counted as free, and then what
\* it has dequeued and not settled, is room that nothing else takes.
Room ==
  /\ InFlight <= MaxInFlight
  /\ phase = "dequeue" => InFlight + budget <= MaxInFlight
  /\ phase = "submit" => InFlight + Cardinality(DOMAIN rows) <= MaxInFlight

CapInv == TypeInv /\ Room

LEMMA Finite ==
  /\ \A S \in SUBSET Jobs : IsFiniteSet(S) /\ Cardinality(S) \in Nat
  /\ \A S, T \in SUBSET Jobs : S \subseteq T => Cardinality(S) <= Cardinality(T)
  BY JobsAssumption, FS_Subset, FS_CardinalityType

LEMMA Fits ==
  ASSUME NEW a \in Nat, NEW b \in Nat, NEW c \in Nat, NEW d \in Nat, a <= b, c <= d,
         b + d <= MaxInFlight
  PROVE  a + c <= MaxInFlight
  BY LimitsAssumption

LEMMA InFlightType == InFlight \in Nat /\ InFlight' \in Nat
  BY Finite DEF InFlight, InState

\* Nothing but recording an id makes a job active.
LEMMA NoMoreInFlight ==
  ASSUME \A k \in Jobs : job'[k].state \in Active => job[k].state \in Active
  PROVE  InFlight' <= InFlight
  <1>1. InState(Active)' \subseteq InState(Active) /\ InState(Active) \in SUBSET Jobs
    BY DEF InState
  <1>. QED BY <1>1, Finite DEF InFlight

\* A step that takes no room, and scans nothing.
LEMMA RoomKept ==
  ASSUME CapInv, InFlight' <= InFlight, phase' = phase, budget' = budget, DOMAIN rows' \subseteq DOMAIN rows
  PROVE  Room'
  <1>. DEFINE n == Cardinality(DOMAIN rows)
  <1>1. n' <= n /\ n \in Nat /\ n' \in Nat
    BY Finite DEF CapInv, TypeInv, WorkerTypeOK
  <1>2. budget \in Nat /\ MaxInFlight \in Nat
    BY LimitsAssumption DEF CapInv, TypeInv, WorkerTypeOK
  <1>3. /\ InFlight <= MaxInFlight
        /\ phase = "dequeue" => InFlight + budget <= MaxInFlight
        /\ phase = "submit" => InFlight + n <= MaxInFlight
    BY DEF CapInv, Room
  <1>. HIDE DEF n
  <1>4. InFlight' <= MaxInFlight
    BY <1>2, <1>3, InFlightType
  <1>5. phase' = "dequeue" => InFlight' + budget' <= MaxInFlight
    <2>1. budget <= budget
      BY <1>2
    <2>. QED BY <1>2, <1>3, <2>1, InFlightType, Fits
  <1>6. phase' = "submit" => InFlight' + n' <= MaxInFlight
    BY <1>1, <1>3, InFlightType, Fits
  <1>. QED BY <1>4, <1>5, <1>6 DEF Room, n

\* The row that recordId makes active is one the worker had dequeued.
LEMMA RoomRecord ==
  ASSUME CapInv, recordId
  PROVE  Room'
  <1>0. \A k \in Jobs : RowStep(k)
    BY RowEffects, EachRow DEF CapInv, WorkerStep
  <1>1. cur \in DOMAIN rows /\ cur \in Jobs /\ phase = "submit"
    BY AtStep DEF recordId, SubmitSteps, CapInv
  <1>2. CASE Done(cur)
    <2>1. /\ DOMAIN rows' = DOMAIN rows \ {cur} /\ phase' = "submit"
      BY <1>1, <1>2 DEF Done, Without
    <2>2. IsFiniteSet(DOMAIN rows) /\ Cardinality(DOMAIN rows) \in Nat /\ Cardinality(DOMAIN rows') \in Nat
      BY <2>1, Finite DEF CapInv, TypeInv, WorkerTypeOK
    <2>3. Cardinality(DOMAIN rows') = Cardinality(DOMAIN rows) - 1
      BY <1>1, <2>1, <2>2, FS_RemoveElement
    <2>4. InFlight' <= InFlight + 1
      <3>1. InState(Active)' \subseteq InState(Active) \cup {cur}
        BY <1>0, <1>2 DEF InState, RowStep, Stays, Fails, Claimed, Requeued, Recorded, Progresses, Succeeds, Active
      <3>2. InState(Active) \cup {cur} \in SUBSET Jobs /\ InState(Active)' \in SUBSET Jobs /\ IsFiniteSet(InState(Active))
        BY <1>1, Finite DEF InState
      <3>3. Cardinality(InState(Active) \cup {cur}) <= InFlight + 1
        <4>1. \/ Cardinality(InState(Active) \cup {cur}) = InFlight
              \/ Cardinality(InState(Active) \cup {cur}) = InFlight + 1
          BY <3>2, FS_AddElement, Zenon DEF InFlight
        <4>. QED BY <4>1, InFlightType
      <3>4. Cardinality(InState(Active) \cup {cur}) \in Nat
        BY <3>2, Finite
      <3>. QED BY <3>1, <3>2, <3>3, <3>4, Finite, InFlightType DEF InFlight
    <2>. QED BY <1>1, <2>1, <2>2, <2>3, <2>4, InFlightType, LimitsAssumption DEF CapInv, Room
  <1>3. CASE TransitionLost(cur, "submitting") /\ Goto(cur, "disownId")
    <2>1. job' = job /\ phase' = phase /\ budget' = budget /\ rows' = rows
      BY <1>3 DEF TransitionLost, Goto
    <2>. QED BY <2>1 DEF CapInv, Room, InFlight, InState
  <1>. QED BY <1>2, <1>3 DEF recordId

\* CountActive sees every active row, or none are left to submit.
LEMMA RoomCount ==
  ASSUME CapInv, MaxInFlight <= ScanLimit, CountActive
  PROVE  Room'
  <1>1. job' = job /\ rows' = rows /\ DOMAIN rows = {}
    BY DEF CountActive, Over
  <1>2. InFlight' = InFlight
    BY <1>1 DEF InFlight, InState
  <1>3. Cardinality(DOMAIN rows') = 0
    BY <1>1, FS_EmptySet
  <1>4. CASE phase' = "submit"
    BY <1>2, <1>3, <1>4, InFlightType, LimitsAssumption DEF CapInv, Room
  <1>5. CASE phase' = "dequeue"
    <2>1. PICK R \in SUBSET Jobs, S \in SUBSET Jobs :
            ScannedActive(R, S) /\ ~(Remaining(R, S) <= 0) /\ budget' = Remaining(R, S)
      BY <1>5 DEF CountActive
    <2>2. /\ Cardinality(R) \in Nat /\ Cardinality(S) \in Nat /\ Cardinality(R \cup S) \in Nat
          /\ Cardinality(R) <= Cardinality(R \cup S) /\ Cardinality(S) <= Cardinality(R \cup S)
      BY Finite
    <2>3. Cardinality(R \cup S) < ScanLimit
      BY <2>1, <2>2, LimitsAssumption DEF Remaining
    <2>4. R = InState({"submitted"}) /\ S = InState({"running"})
      BY <2>1, <2>2, <2>3, LimitsAssumption DEF ScannedActive, Oldest
    <2>5. R \cup S = InState(Active)
      BY <2>4 DEF InState, Active
    <2>. QED BY <1>2, <1>5, <2>1, <2>2, <2>5, InFlightType, LimitsAssumption DEF CapInv, Room, Remaining, InFlight
  <1>. QED BY <1>4, <1>5 DEF CountActive

LEMMA RoomDequeue ==
  ASSUME CapInv, DequeueQueued
  PROVE  Room'
  <1>1. job' = job /\ phase = "dequeue" /\ phase' = "submit"
    BY DEF DequeueQueued
  <1>2. InFlight' = InFlight
    BY <1>1 DEF InFlight, InState
  <1>3. budget \in Nat
    BY LimitsAssumption DEF CapInv, TypeInv, WorkerTypeOK
  <1>4. Cardinality(DOMAIN rows') \in Nat /\ Cardinality(DOMAIN rows') <= budget
    <2>1. CASE Scanned({})
      BY <1>3, <2>1, FS_EmptySet DEF Scanned
    <2>2. CASE \E R \in SUBSET Jobs : Oldest(R, InState({"queued"}), budget) /\ Scanned(R)
      BY <1>3, <2>2, Finite DEF Scanned, Oldest
    <2>. QED BY <2>1, <2>2 DEF DequeueQueued, ScanFails
  <1>. QED BY <1>1, <1>2, <1>3, <1>4, InFlightType, LimitsAssumption DEF CapInv, Room

LEMMA RoomWorker ==
  ASSUME CapInv, MaxInFlight <= ScanLimit, WorkerStep
  PROVE  Room'
  <1>1. CASE CountActive \/ DequeueQueued \/ recordId
    BY <1>1, RoomCount, RoomDequeue, RoomRecord
  <1>2. CASE ScanSubmitting \/ ScanRecovery \/ ScanActive
    <2>1. job' = job /\ phase' \notin {"dequeue", "submit"}
      BY <1>2 DEF ScanSubmitting, ScanRecovery, ScanActive
    <2>. QED BY <2>1 DEF CapInv, Room, InFlight, InState
  <1>3. CASE ~(CountActive \/ DequeueQueued \/ recordId \/ ScanSubmitting \/ ScanRecovery \/ ScanActive)
    <2>1. \A k \in Jobs : job'[k].state \in Active => job[k].state \in Active
      <3>1. \A k \in Jobs : RowStep(k)
        BY RowEffects, EachRow DEF CapInv
      <3>2. \A k \in Jobs : ~Recorded(k) \/ UNCHANGED job
        BY <1>3 DEF WorkerStep, Recorded, At, failAmbiguousSubmission, failExpired, pollSkip, pollGiveUp,
           pollStatus, submitSkip, submitExpired, submitClaim, Turn, applyInQueue, applyInProgress,
           applyFailure, classifyTransient, applyCompleted, SongForJob, encodeAudio, encodeFails,
           insertSong, succeed, storeFailure, fail, FailSteps, postAccepted, postRefused, bumpRefused,
           requeue, disown
      <3>. QED BY <3>1, <3>2 DEF RowStep, Stays, Fails, Claimed, Requeued, Progresses, Succeeds, Active
    <2>2. phase' = phase /\ budget' = budget /\ DOMAIN rows' \subseteq DOMAIN rows
      BY <1>3 DEF WorkerStep, failAmbiguousSubmission, failExpired, pollSkip, pollGiveUp,
         pollStatus, submitSkip, submitExpired, submitClaim, applyInQueue, applyInProgress,
         applyFailure, classifyTransient, applyCompleted, SongForJob, encodeAudio, encodeFails,
         insertSong, succeed, storeFailure, fail, postAccepted, postRefused, bumpRefused,
         requeue, disown, Done, Goto, Without
    <2>. QED BY <2>1, <2>2, NoMoreInFlight, RoomKept
  <1>. QED BY <1>1, <1>2, <1>3

LEMMA RoomWorld ==
  ASSUME CapInv, Request \/ Tick \/ \E E \in SUBSET Engines : Restart(E)
  PROVE  Room'
  <1>1. InFlight' <= InFlight
    <2>1. \A k \in Jobs : \/ Stays(k)
                          \/ job[k].state = "none" /\ job'[k].state = "queued"
                          \/ job[k].state # "none" /\ job'[k].state = "gone"
      BY WorldEffects DEF CapInv
    <2>. QED BY <2>1, NoMoreInFlight DEF Stays, Active
  <1>2. CASE Request \/ Tick
    <2>1. phase' = phase /\ budget' = budget /\ DOMAIN rows' = DOMAIN rows
      BY <1>2 DEF Request, Tick, workerVars
    <2>. QED BY <1>1, <2>1, RoomKept
  <1>3. CASE \E E \in SUBSET Engines : Restart(E)
    <2>1. phase' = "boot"
      BY <1>3 DEF Restart
    <2>. QED BY <1>1, <2>1, InFlightType, LimitsAssumption DEF CapInv, Room
  <1>. QED BY <1>2, <1>3

\* With MM3_MAX_IN_FLIGHT no larger than the scan's LIMIT of 100, the jobs RunPod is
\* working on never exceed it.
THEOREM CapHolds ==
  ASSUME MaxInFlight <= ScanLimit
  PROVE  Spec => []InFlightCap
  <1>1. Init => CapInv
    <2>. SUFFICES ASSUME Init PROVE Room
      BY TypeInit DEF CapInv
    <2>1. InState(Active) = {} /\ phase = "boot"
      BY DEF Init, StoreInit, NewRow, InState, Active
    <2>. QED BY <2>1, FS_EmptySet, LimitsAssumption DEF Room, InFlight
  <1>2. CapInv /\ [Next]_vars => CapInv'
    <2>. SUFFICES ASSUME CapInv, [Next]_vars PROVE Room'
      BY TypeStep DEF CapInv
    <2>1. CASE UNCHANGED vars
      BY <2>1 DEF vars, storeVars, workerVars, CapInv, Room, InFlight, InState
    <2>. QED BY <2>1, RoomWorker, RoomWorld DEF Next
  <1>3. CapInv => InFlightCap
    BY DEF CapInv, Room, InFlight, InFlightCap
  <1>. QED BY <1>1, <1>2, <1>3, PTL DEF Spec

-----------------------------------------------------------------------------
(* Songs: a succeeded job has its song, and a song has its audio.          *)

\* Inductive with TypeInv: before its job may succeed the song is in the library.
Library ==
  /\ \A j \in Jobs : job[j].state = "succeeded" => song[j] # NoFile
  /\ step = "succeed" /\ job[cur].state \in Active => song[cur] # NoFile

\* Inductive with TypeInv: a file is filed under one song and kept for it, and the
\* file that waits for CreateSong is nobody's yet.
Audio ==
  /\ \A j \in Jobs : song[j] # NoFile =>
       /\ song[j] \in disk \ unlinking
       /\ \A k \in Jobs \ {j} : song[k] # song[j]
  /\ step = "insert" => file \in disk \ unlinking /\ \A j \in Jobs : song[j] # file

SongInv == TypeInv /\ Library /\ Audio

\* Most of the worker's steps leave the songs and the audio directory alone.
LEMMA SongsUntouched ==
  ASSUME TypeInv, WorkerStep, ~(encodeAudio \/ insertSong)
  PROVE  /\ UNCHANGED <<song, disk, unlinking>>
         /\ step' = step \/ step' \in Steps \ {"succeed", "insert"} \/ SongForJob
         /\ step' = step => cur' = cur
  <1>1. CASE ScanSubmitting \/ ScanRecovery \/ ScanActive \/ CountActive \/ DequeueQueued
    BY <1>1, ElsewhereSplit DEF ScanSubmitting, ScanRecovery, ScanActive, CountActive, DequeueQueued,
       StoreElsewhere, requestVars
  <1>2. CASE \E j \in Jobs :
               \/ failAmbiguousSubmission(j) \/ failExpired(j) \/ pollSkip(j) \/ pollGiveUp(j)
               \/ pollStatus(j) \/ submitSkip(j) \/ submitExpired(j) \/ submitClaim(j)
    <2>1. UNCHANGED <<song, disk, unlinking>>
      BY <1>2, ElsewhereSplit DEF failAmbiguousSubmission, failExpired, pollSkip, pollGiveUp, pollStatus,
         submitSkip, submitExpired, submitClaim, StoreElsewhere, requestVars
    <2>2. step = "loop" /\ cur = NoJob
      BY <1>2 DEF failAmbiguousSubmission, failExpired, pollSkip, pollGiveUp, pollStatus,
         submitSkip, submitExpired, submitClaim, Turn, TypeInv, WorkerTypeOK
    <2>3. (step' = "loop" /\ cur' = NoJob) \/ step' \in {"status", "post", "failConfig"}
      BY <1>2 DEF failAmbiguousSubmission, failExpired, pollSkip, pollGiveUp, pollStatus,
         submitSkip, submitExpired, submitClaim, Done, Goto
    <2>. QED BY <2>1, <2>2, <2>3, StepSets DEF PollSteps, SubmitSteps
  <1>3. CASE \/ applyInQueue \/ applyInProgress \/ applyFailure \/ classifyTransient \/ applyCompleted
             \/ SongForJob \/ encodeFails \/ succeed \/ storeFailure \/ fail
             \/ postAccepted \/ postRefused \/ recordId \/ bumpRefused \/ requeue \/ disown
    <2>1. UNCHANGED <<song, disk, unlinking>>
      BY <1>3, ElsewhereSplit DEF applyInQueue, applyInProgress, applyFailure, classifyTransient,
         applyCompleted, SongForJob, encodeFails, succeed, storeFailure, fail, postAccepted, postRefused,
         recordId, bumpRefused, requeue, disown, StoreElsewhere, requestVars, storeVars
    <2>2. step # "loop"
      BY <1>3, StepSets DEF applyInQueue, applyInProgress, applyFailure, classifyTransient,
         applyCompleted, SongForJob, encodeFails, succeed, storeFailure, fail, postAccepted, postRefused,
         recordId, bumpRefused, requeue, disown, At
    <2>3. \/ step' = "loop"
          \/ cur' = cur /\ step' \in Steps \ {"succeed", "insert"}
          \/ SongForJob /\ cur' = cur
      BY <1>3, StepSets DEF applyInQueue, applyInProgress, applyFailure, classifyTransient,
         applyCompleted, SongForJob, encodeFails, succeed, storeFailure, fail, postAccepted, postRefused,
         recordId, bumpRefused, requeue, disown, Done, Goto, PollSteps, SubmitSteps
    <2>. QED BY <2>1, <2>2, <2>3, StepSets DEF PollSteps, SubmitSteps
  <1>. QED BY <1>1, <1>2, <1>3 DEF WorkerStep

LEMMA LibraryWorker ==
  ASSUME SongInv, WorkerStep
  PROVE  Library'
  <1>0. \A k \in Jobs : RowStep(k)
    BY RowEffects, EachRow DEF SongInv
  <1>1. CASE insertSong
    <2>1. cur \in Jobs /\ job' = job /\ cur' = cur /\ file # NoFile
      BY <1>1, AtStep, FilesAssumption DEF insertSong, PollSteps, SongInv, Goto, At, TypeInv, WorkerTypeOK
    <2>2. \/ CreateSong(cur, file) /\ step' = "succeed"
          \/ song' = song /\ step' = "storeFailure"
      BY <1>1 DEF insertSong, Goto
    <2>3. /\ \A j \in Jobs : song[j] # NoFile => song'[j] # NoFile
          /\ step' = "succeed" => song'[cur] # NoFile
      BY <2>1, <2>2 DEF CreateSong, SongInv, TypeInv, StoreTypeOK
    <2>. QED BY <2>1, <2>3 DEF SongInv, Library
  <1>2. CASE encodeAudio
    BY <1>2 DEF encodeAudio, Goto, SongInv, Library
  <1>3. CASE SongForJob
    <2>1. job' = job /\ song' = song /\ cur' = cur /\ (step' = "succeed" => song[cur] # NoFile)
      BY <1>3, ElsewhereSplit DEF SongForJob, Goto, StoreElsewhere
    <2>. QED BY <2>1 DEF SongInv, Library
  <1>4. CASE ~(insertSong \/ encodeAudio \/ SongForJob)
    <2>1. song' = song /\ (step' = "succeed" => step = "succeed" /\ cur' = cur)
      BY <1>4, SongsUntouched DEF SongInv
    <2>2. step = "succeed" => cur \in Jobs
      BY DEF SongInv, TypeInv, WorkerTypeOK
    <2>3. ASSUME NEW k \in Jobs, job'[k].state = "succeeded"
          PROVE  song[k] # NoFile
      BY <1>0, <2>3 DEF RowStep, Stays, Fails, Claimed, Requeued, Recorded, Progresses, Succeeds,
         SongInv, Library, Active
    <2>4. ASSUME step = "succeed", cur \in Jobs, job'[cur].state \in Active
          PROVE  song[cur] # NoFile
      BY <1>0, <2>4 DEF RowStep, Stays, Fails, Claimed, Requeued, Recorded, Progresses, Succeeds,
         SongInv, Library, Active
    <2>. QED BY <2>1, <2>2, <2>3, <2>4 DEF Library
  <1>. QED BY <1>1, <1>2, <1>3, <1>4

LEMMA AudioWorker ==
  ASSUME SongInv, WorkerStep
  PROVE  Audio'
  <1>1. CASE encodeAudio
    <2>1. PICK f \in Fresh : file' = f /\ disk' = disk \cup {f}
      BY <1>1 DEF encodeAudio
    <2>2. UNCHANGED <<song, unlinking>>
      BY <1>1 DEF encodeAudio, requestVars
    <2>. QED BY <2>1, <2>2 DEF Fresh, SongInv, Audio
  <1>2. CASE insertSong
    <2>1. /\ cur \in Jobs /\ step = "insert" /\ step' # "insert"
          /\ UNCHANGED <<disk, unlinking>>
      BY <1>2, AtStep DEF insertSong, PollSteps, SongInv, Goto, At, requestVars
    <2>2. song' = song \/ song' = [song EXCEPT ![cur] = file]
      BY <1>2 DEF insertSong, CreateSong
    <2>3. /\ song \in [Jobs -> Files \cup {NoFile}]
          /\ file \in disk \ unlinking /\ \A j \in Jobs : song[j] # file
      BY <2>1 DEF SongInv, Audio, TypeInv, StoreTypeOK
    <2>. QED BY <2>1, <2>2, <2>3 DEF SongInv, Audio
  <1>3. CASE ~(encodeAudio \/ insertSong)
    <2>1. UNCHANGED <<song, disk, unlinking>>
      BY <1>3, SongsUntouched DEF SongInv
    <2>2. step' # "insert"
      <3>1. CASE SongForJob
        BY <3>1 DEF SongForJob, Goto
      <3>2. CASE step = "insert"
        BY <1>3, <3>2, StepSets, ElsewhereSplit DEF WorkerStep, Done, Goto, At, Turn, SongInv, TypeInv, Discipline,
           ScanSubmitting, ScanRecovery, ScanActive, CountActive, DequeueQueued, Over, PollSteps, SubmitSteps,
           failAmbiguousSubmission, failExpired, pollSkip, pollGiveUp, pollStatus,
           submitSkip, submitExpired, submitClaim, applyInQueue, applyInProgress, applyFailure,
           classifyTransient, applyCompleted, SongForJob, encodeFails, succeed, storeFailure, fail,
           postAccepted, postRefused, recordId, bumpRefused, requeue, disown
      <3>. QED BY <1>3, <3>1, <3>2, SongsUntouched DEF SongInv
    <2>. QED BY <2>1, <2>2 DEF SongInv, Audio
  <1>. QED BY <1>1, <1>2, <1>3

LEMMA SongWorld ==
  ASSUME SongInv, Request \/ Tick \/ \E E \in SUBSET Engines : Restart(E)
  PROVE  Library' /\ Audio'
  <1>1. \A k \in Jobs : \/ Stays(k)
                        \/ job[k].state = "none" /\ job'[k].state = "queued"
                        \/ job[k].state # "none" /\ job'[k].state = "gone"
    BY WorldEffects DEF SongInv
  <1>2. step = "succeed" => cur \in Jobs
    BY DEF SongInv, TypeInv, WorkerTypeOK
  <1>3. CASE Tick \/ \E E \in SUBSET Engines : Restart(E)
    <2>1. /\ song' = song /\ disk' = disk /\ unlinking' \subseteq unlinking
          /\ step' = "loop" \/ (step' = step /\ cur' = cur /\ file' = file)
      BY <1>3 DEF Tick, Restart, requestVars
    <2>. QED BY <1>1, <1>2, <2>1 DEF SongInv, Library, Audio, Stays, Active
  <1>4. CASE Request
    <2>1. step' = step /\ cur' = cur /\ file' = file
      BY <1>4 DEF Request, workerVars
    <2>2. ASSUME NEW S \in SUBSET Jobs, DeleteRows(S), disk' = disk
          PROVE  Library' /\ Audio'
      <3>1. /\ \A j \in Jobs : song'[j] = IF j \in S THEN NoFile ELSE song[j]
            /\ unlinking' = unlinking \cup FilesOf(S)
        BY <2>2 DEF DeleteRows
      <3>2. \A j \in S : job'[j].state \in {"none", "gone"}
        BY <2>2 DEF DeleteRows, NewRow, RowExists
      <3>3. Library'
        BY <1>1, <1>2, <2>1, <3>1, <3>2 DEF SongInv, Library, Stays, Active
      <3>4. step = "insert" => file \in Files
        BY DEF SongInv, TypeInv, WorkerTypeOK
      <3>5. Audio'
        BY <2>1, <2>2, <3>1, <3>4, FilesAssumption DEF SongInv, Audio, FilesOf
      <3>. QED BY <3>3, <3>5
    <2>3. ASSUME NEW f \in Files, Unlink(f)
          PROVE  Library' /\ Audio'
      BY <1>1, <1>2, <2>1, <2>3 DEF Unlink, SongInv, Library, Audio
    <2>4. CASE UNCHANGED <<song, disk, unlinking>>
      BY <1>1, <1>2, <2>1, <2>4 DEF SongInv, Library, Audio, Stays, Active
    <2>5. \/ UNCHANGED <<song, disk, unlinking>>
          \/ \E S \in SUBSET Jobs : DeleteRows(S) /\ disk' = disk
          \/ \E f \in Files : Unlink(f)
      BY <1>4 DEF Request, AskForJob, CreateJob, DeleteSong, DeleteUser
    <2>. QED BY <2>2, <2>3, <2>4, <2>5
  <1>. QED BY <1>3, <1>4

LEMMA SongAlways == Spec => []SongInv
  <1>1. Init => SongInv
    <2>. SUFFICES ASSUME Init PROVE Library /\ Audio
      BY TypeInit DEF SongInv
    <2>1. \A j \in Jobs : job[j].state = "none" /\ song[j] = NoFile
      BY DEF Init, StoreInit, NewRow
    <2>2. step = "loop"
      BY DEF Init
    <2>. QED BY <2>1, <2>2 DEF Library, Audio
  <1>2. SongInv /\ [Next]_vars => SongInv'
    <2>. SUFFICES ASSUME SongInv, [Next]_vars PROVE Library' /\ Audio'
      BY TypeStep DEF SongInv
    <2>1. CASE UNCHANGED vars
      BY <2>1 DEF vars, storeVars, requestVars, workerVars, SongInv, Library, Audio
    <2>2. CASE WorkerStep
      BY <2>2, LibraryWorker, AudioWorker
    <2>. QED BY <2>1, <2>2, SongWorld DEF Next
  <1>. QED BY <1>1, <1>2, PTL DEF Spec

\* complete() never leaves a succeeded job without its song, and neither does a
\* deletion.
THEOREM SucceededAlwaysHasSong == Spec => []SucceededHasSong
  <1>1. SongInv => SucceededHasSong
    BY DEF SongInv, Library, SucceededHasSong, InState
  <1>. QED BY <1>1, SongAlways, PTL

\* No song row ever points at a file that is missing, shared or about to go.
THEOREM SongAlwaysHasAudio == Spec => []SongHasAudio
  <1>1. SongInv => SongHasAudio
    BY DEF SongInv, Audio, SongHasAudio
  <1>. QED BY <1>1, SongAlways, PTL

-----------------------------------------------------------------------------
(* Clock: the run budget counts from the first IN_PROGRESS.                *)

\* Inductive with TypeInv: what a scanned copy says of started_at still holds of a
\* live row, so "not stamped yet" is never stale when IN_PROGRESS is recorded.
Copied ==
  \A j \in DOMAIN rows :
    rows[j].started = NeverStarted /\ job[j].state \in Live => job[j].started = NeverStarted

ClockInv == TypeInv /\ Copied

Stamps(k) == applyInProgress /\ k = cur /\ rows[k].started = NeverStarted

\* A row that lives on after a step of the worker lived before it and keeps its
\* started_at, unless the step stamps it.
Keeps(k) ==
  job'[k].state \in Live =>
    job[k].state \in Live /\ (job'[k].started = job[k].started \/ Stamps(k))

LEMMA SetRowKeeps ==
  ASSUME TypeInv, NEW j \in Jobs, NEW r, SetRow(j, r),
         \/ r.state \notin Live
         \/ job[j].state \in Live /\ (r.started = job[j].started \/ Stamps(j))
  PROVE  \A k \in Jobs : Keeps(k)
  <1>1. job'[j] = r /\ \A k \in Jobs \ {j} : job'[k] = job[k]
    BY DEF SetRow, TypeInv, StoreTypeOK
  <1>. QED BY <1>1 DEF Keeps

LEMMA SameRowsKept ==
  ASSUME UNCHANGED job
  PROVE  \A k \in Jobs : Keeps(k)
  BY DEF Keeps

LEMMA FailKeeps ==
  ASSUME TypeInv, NEW j \in Jobs, NEW why \in Reasons, FailJob(j, why)
  PROVE  \A k \in Jobs : Keeps(k)
  <1>1. CASE UNCHANGED job
    BY <1>1, SameRowsKept
  <1>2. CASE SetRow(j, Ended(job[j], "failed", why))
    <2>1. Ended(job[j], "failed", why).state \notin Live
      BY EndedType DEF TypeInv, StoreTypeOK, JobStates, Terminal, Live, Active
    <2>. QED BY <1>2, <2>1, SetRowKeeps
  <1>. QED BY <1>1, <1>2 DEF FailJob

LEMMA OrphanKeeps ==
  ASSUME TypeInv, NEW j \in Jobs, NEW id \in BOOLEAN, OrphanSubmission(j, id)
  PROVE  \A k \in Jobs : Keeps(k)
  <1>1. CASE UNCHANGED job
    BY <1>1, SameRowsKept
  <1>. DEFINE e == Ended(job[j], "failed", "submit")
              q == [e EXCEPT !.runpod_id = id]
  <1>2. CASE SetRow(j, q)
    <2>1. e \in Row /\ e.state = "failed"
      BY EndedType DEF TypeInv, StoreTypeOK, JobStates, Terminal, Reasons
    <2>2. q.state \notin Live
      <3>. HIDE DEF e
      <3>. QED BY <2>1 DEF Row, Live, Active
    <2>. HIDE DEF q
    <2>. QED BY <1>2, <2>2, SetRowKeeps
  <1>. QED BY <1>1, <1>2 DEF OrphanSubmission

LEMMA BumpKeeps ==
  ASSUME TypeInv, NEW j \in Jobs, BumpRetries(j) \/ BumpLost(j)
  PROVE  \A k \in Jobs : Keeps(k)
  <1>1. CASE BumpLost(j)
    BY <1>1, SameRowsKept DEF BumpLost
  <1>2. CASE BumpRetries(j)
    <2>. DEFINE q == [job[j] EXCEPT !.retries = UpTo(@ + 1, RetryCap), !.updated = 0]
    <2>1. q.state = job[j].state /\ q.started = job[j].started
      BY DEF TypeInv, StoreTypeOK, Row
    <2>2. SetRow(j, q)
      BY <1>2 DEF BumpRetries
    <2>. HIDE DEF q
    <2>. QED BY <2>1, <2>2, SetRowKeeps
  <1>. QED BY <1>1, <1>2

\* A transition to a row with the same started_at, or one that stamps it.
LEMMA TransitionKeeps ==
  ASSUME TypeInv, NEW j \in Jobs, NEW from \in Live, NEW r, TransitionJob(j, from, r),
         r.state \notin Live \/ r.started = job[j].started \/ Stamps(j)
  PROVE  \A k \in Jobs : Keeps(k)
  BY SetRowKeeps DEF TransitionJob

LEMMA KeepsWorker ==
  ASSUME TypeInv, WorkerStep
  PROVE  \A k \in Jobs : Keeps(k)
  <1>1. CASE ScanSubmitting \/ ScanRecovery \/ ScanActive \/ CountActive \/ DequeueQueued
    BY <1>1, SameRowsKept DEF ScanSubmitting, ScanRecovery, ScanActive, CountActive, DequeueQueued
  <1>2. ASSUME NEW j \in Jobs,
               \/ failAmbiguousSubmission(j) \/ failExpired(j) \/ pollSkip(j) \/ pollGiveUp(j)
               \/ pollStatus(j) \/ submitSkip(j) \/ submitExpired(j)
        PROVE  \A k \in Jobs : Keeps(k)
    <2>1. CASE FailJob(j, "timeout") \/ FailJob(j, "other")
      BY <2>1, FailKeeps DEF Reasons
    <2>2. CASE failAmbiguousSubmission(j)
      <3>1. rows[j].runpod_id \in BOOLEAN
        BY <2>2, TurnStep DEF failAmbiguousSubmission, Row
      <3>. QED BY <2>2, <3>1, OrphanKeeps DEF failAmbiguousSubmission
    <2>. QED BY <1>2, <2>1, <2>2, SameRowsKept DEF failExpired, pollSkip, pollGiveUp, pollStatus,
            submitSkip, submitExpired
  <1>3. ASSUME NEW j \in Jobs, submitClaim(j)
        PROVE  \A k \in Jobs : Keeps(k)
    <2>1. CASE TransitionLost(j, "queued")
      BY <2>1, SameRowsKept DEF TransitionLost
    <2>2. CASE TransitionJob(j, "queued", Moved(job[j], "submitting"))
      <3>1. Moved(job[j], "submitting").started = job[j].started
        BY MovedType DEF TypeInv, StoreTypeOK, JobStates, Live
      <3>. QED BY <2>2, <3>1, TransitionKeeps DEF Live
    <2>. QED BY <1>3, <2>1, <2>2 DEF submitClaim
  <1>4. CASE \/ applyCompleted \/ SongForJob \/ encodeAudio \/ encodeFails \/ insertSong
             \/ postAccepted \/ postRefused
    BY <1>4, SameRowsKept DEF applyCompleted, SongForJob, encodeAudio, encodeFails, insertSong,
       postAccepted, postRefused, storeVars
  <1>5. CASE classifyTransient \/ storeFailure \/ bumpRefused
    <2>1. BumpRetries(cur) \/ BumpLost(cur)
      BY <1>5 DEF classifyTransient, storeFailure, bumpRefused
    <2>2. cur \in Jobs
      BY <1>5 DEF classifyTransient, storeFailure, bumpRefused, At
    <2>. QED BY <2>1, <2>2, BumpKeeps
  <1>6. CASE applyFailure \/ fail
    <2>1. cur \in Jobs /\ \E why \in Reasons : FailJob(cur, why)
      <3>1. CASE applyFailure
        BY <3>1 DEF applyFailure, At, Reasons
      <3>2. CASE fail
        BY <3>2, FailReason DEF fail, At
      <3>. QED BY <1>6, <3>1, <3>2
    <2>. QED BY <2>1, FailKeeps
  <1>7. CASE disown
    BY <1>7, OrphanKeeps DEF disown, At
  <1>8. CASE recordId
    <2>1. cur \in Jobs /\ job[cur] \in Row
      BY <1>8 DEF recordId, At, TypeInv, StoreTypeOK
    <2>. DEFINE m == Moved(job[cur], "submitted")
                q == [m EXCEPT !.runpod_id = TRUE, !.retries = 0]
    <2>2. m \in Row /\ m.started = job[cur].started
      BY <2>1, MovedType DEF JobStates, Live, Active
    <2>3. TransitionJob(cur, "submitting", q) \/ UNCHANGED job
      BY <1>8 DEF recordId, TransitionLost
    <2>. HIDE DEF m
    <2>4. q.started = job[cur].started
      BY <2>2 DEF Row
    <2>. HIDE DEF q
    <2>. QED BY <2>1, <2>3, <2>4, TransitionKeeps, SameRowsKept DEF Live
  <1>9. CASE requeue
    <2>1. cur \in Jobs /\ job[cur] \in Row
      BY <1>9 DEF requeue, At, TypeInv, StoreTypeOK
    <2>2. Moved(job[cur], "queued").started = job[cur].started
      BY <2>1, MovedType DEF JobStates, Live
    <2>3. TransitionJob(cur, "submitting", Moved(job[cur], "queued")) \/ UNCHANGED job
      BY <1>9 DEF requeue, TransitionLost
    <2>. QED BY <2>1, <2>2, <2>3, TransitionKeeps, SameRowsKept DEF Live
  <1>10. CASE applyInQueue \/ applyInProgress \/ succeed
    <2>1. cur \in Jobs /\ job[cur] \in Row /\ rows[cur].state \in Live
      BY <1>10, AtStep DEF applyInQueue, applyInProgress, succeed, PollSteps, TypeInv, StoreTypeOK, Live
    <2>2. ASSUME NEW q, transition(cur, rows[cur].state, q),
                 q.state \notin Live \/ q.started = job[cur].started \/ Stamps(cur)
          PROVE  \A k \in Jobs : Keeps(k)
      BY <2>1, <2>2, TransitionKeeps, SameRowsKept DEF transition, TransitionLost
    <2>3. CASE applyInQueue
      <3>. DEFINE m == Moved(job[cur], "submitted")
                  q == [m EXCEPT !.retries = 0]
      <3>1. m \in Row /\ m.started = job[cur].started
        BY <2>1, MovedType DEF JobStates, Live, Active
      <3>2. transition(cur, rows[cur].state, q)
        BY <2>3 DEF applyInQueue
      <3>. HIDE DEF m
      <3>3. q.started = job[cur].started
        BY <3>1 DEF Row
      <3>. HIDE DEF q
      <3>. QED BY <2>2, <3>2, <3>3
    <2>4. CASE applyInProgress
      <3>. DEFINE b == rows[cur].started = NeverStarted
                  m == Moved(job[cur], "running")
                  q == [m EXCEPT !.retries = 0, !.started = IF b THEN 0 ELSE @]
      <3>1. m \in Row /\ m.started = job[cur].started
        BY <2>1, MovedType DEF JobStates, Live, Active
      <3>2. transition(cur, rows[cur].state, q)
        BY <2>4 DEF applyInProgress
      <3>3. b => Stamps(cur)
        BY <2>4 DEF Stamps
      <3>. HIDE DEF b, m
      <3>4. ~b => q.started = job[cur].started
        BY <3>1 DEF Row
      <3>. HIDE DEF q
      <3>. QED BY <2>2, <3>2, <3>3, <3>4
    <2>5. CASE succeed
      <3>. DEFINE q == Ended(job[cur], "succeeded", "")
      <3>1. q.state = "succeeded"
        BY <2>1, EndedType DEF JobStates, Terminal, Reasons
      <3>2. transition(cur, rows[cur].state, q)
        BY <2>5 DEF succeed
      <3>. HIDE DEF q
      <3>. QED BY <2>2, <3>1, <3>2 DEF Live, Active
    <2>. QED BY <1>10, <2>3, <2>4, <2>5
  <1>. QED BY <1>1, <1>2, <1>3, <1>4, <1>5, <1>6, <1>7, <1>8, <1>9, <1>10 DEF WorkerStep

\* The clock moves a row and its copy alike, and no stamp backwards.
LEMMA AgedStarted ==
  ASSUME NEW r \in Row
  PROVE  /\ Aged(r).started = NeverStarted <=> r.started = NeverStarted
         /\ r.started # NeverStarted => Aged(r).started >= r.started
  <1>1. CASE r.state \notin Live
    BY <1>1 DEF Aged, Row, NeverStarted
  <1>2. CASE r.state \in Live
    <2>1. Aged(r).started = IF r.started = NeverStarted THEN r.started ELSE UpTo(r.started + 1, Horizon)
      BY <1>2 DEF Aged, Row
    <2>2. r.started # NeverStarted => r.started \in 0..Horizon
      BY DEF Row
    <2>. QED BY <2>1, <2>2, CapsAssumption DEF UpTo, NeverStarted
  <1>. QED BY <1>1, <1>2

\* What requests and a restart leave of a live row.
LEMMA KeepsWorld ==
  ASSUME TypeInv, Request \/ \E E \in SUBSET Engines : Restart(E)
  PROVE  \A k \in Jobs : job'[k].state \in Live =>
           job'[k] = job[k] \/ (job[k].state = "none" /\ job'[k].started = NeverStarted)
  <1>1. ASSUME NEW j \in Jobs, CreateJob(j)
        PROVE  \A k \in Jobs : job'[k] = job[k] \/ (job[k].state = "none" /\ job'[k].started = NeverStarted)
    <2>1. SetRow(j, NewRow("queued")) /\ job[j].state = "none" /\ job \in [Jobs -> Row]
      BY <1>1 DEF CreateJob, TypeInv, StoreTypeOK
    <2>2. NewRow("queued").started = NeverStarted
      BY DEF NewRow
    <2>3. job'[j] = NewRow("queued") /\ \A k \in Jobs \ {j} : job'[k] = job[k]
      BY <2>1 DEF SetRow
    <2>. QED BY <2>1, <2>2, <2>3
  <1>2. ASSUME NEW S \in SUBSET Jobs, DeleteRows(S)
        PROVE  \A k \in Jobs : job'[k] = job[k] \/ job'[k].state = "gone"
    BY <1>2 DEF DeleteRows, NewRow
  <1>. QED BY <1>1, <1>2 DEF Request, AskForJob, DeleteSong, DeleteUser, Unlink, Restart, Live, Active

LEMMA ClockWorker ==
  ASSUME ClockInv, WorkerStep
  PROVE  Copied'
  <1>. USE DEF ClockInv
  <1>1. \A k \in Jobs : Keeps(k)
    BY KeepsWorker
  <1>2. ASSUME NEW S \in SUBSET Jobs, Scanned(S), job' = job
        PROVE  Copied'
    BY <1>2 DEF Copied, Scanned
  <1>3. ASSUME DOMAIN rows' \subseteq DOMAIN rows, \A k \in DOMAIN rows' : rows'[k] = rows[k] /\ ~Stamps(k)
        PROVE  Copied'
    <2>1. DOMAIN rows \subseteq Jobs
      BY DEF TypeInv, WorkerTypeOK
    <2>. QED BY <1>1, <1>3, <2>1 DEF Copied, Keeps
  <1>4. CASE ScanSubmitting \/ ScanRecovery \/ ScanActive \/ DequeueQueued
    BY <1>2, <1>4 DEF ScanSubmitting, ScanRecovery, ScanActive, DequeueQueued, ScanFails
  <1>5. CASE CountActive
    BY <1>5 DEF CountActive, Copied
  <1>6. CASE applyInProgress
    BY <1>3, <1>6 DEF applyInProgress, Done, Without, Stamps
  <1>7. CASE ~(ScanSubmitting \/ ScanRecovery \/ ScanActive \/ DequeueQueued \/ CountActive \/ applyInProgress)
    <2>1. rows' = rows \/ \E j \in Jobs : rows' = Without(j)
      BY <1>7 DEF WorkerStep, failAmbiguousSubmission, failExpired, pollSkip, pollGiveUp,
         pollStatus, submitSkip, submitExpired, submitClaim, applyInQueue,
         applyFailure, classifyTransient, applyCompleted, SongForJob, encodeAudio, encodeFails,
         insertSong, succeed, storeFailure, fail, postAccepted, postRefused, recordId, bumpRefused,
         requeue, disown, Done, Goto, At
    <2>2. DOMAIN rows' \subseteq DOMAIN rows /\ \A k \in DOMAIN rows' : rows'[k] = rows[k]
      BY <2>1 DEF Without
    <2>. QED BY <1>3, <1>7, <2>2 DEF Stamps
  <1>. QED BY <1>4, <1>5, <1>6, <1>7

LEMMA ClockWorld ==
  ASSUME ClockInv, Request \/ Tick \/ \E E \in SUBSET Engines : Restart(E)
  PROVE  Copied'
  <1>. USE DEF ClockInv
  <1>1. DOMAIN rows \subseteq Jobs /\ (\A j \in DOMAIN rows : rows[j] \in Row) /\ \A j \in Jobs : job[j] \in Row
    BY DEF TypeInv, WorkerTypeOK, StoreTypeOK
  <1>2. CASE Request
    <2>1. rows' = rows
      BY <1>2 DEF Request, workerVars
    <2>. QED BY <1>1, <1>2, <2>1, KeepsWorld DEF Copied
  <1>3. CASE Tick
    <2>1. /\ \A j \in Jobs : job'[j] = Aged(job[j])
          /\ DOMAIN rows' = DOMAIN rows
          /\ \A j \in DOMAIN rows : rows'[j] = Aged(rows[j])
      BY <1>3 DEF Tick
    <2>. QED BY <1>1, <2>1, AgedStarted, AgedType DEF Copied
  <1>4. CASE \E E \in SUBSET Engines : Restart(E)
    BY <1>4 DEF Restart, Copied
  <1>. QED BY <1>2, <1>3, <1>4

LEMMA ClockAlways == Spec => []ClockInv
  <1>1. Init => ClockInv
    BY TypeInit DEF ClockInv, Copied, Init
  <1>2. ClockInv /\ [Next]_vars => ClockInv'
    <2>. SUFFICES ASSUME ClockInv, [Next]_vars PROVE Copied'
      BY TypeStep DEF ClockInv
    <2>1. CASE UNCHANGED vars
      BY <2>1 DEF vars, storeVars, workerVars, ClockInv, Copied
    <2>. QED BY <2>1, ClockWorker, ClockWorld DEF Next
  <1>. QED BY <1>1, <1>2, PTL DEF Spec

\* started_at is stamped once: while a job lives, what the run budget has counted
\* is never taken back, however often the endpoint requeues and restarts it.
THEOREM RunClockAlwaysStands == Spec => RunClockStands
  <1>. DEFINE Stand ==
         \A j \in InState(Live) :
           (job[j].started # NeverStarted /\ job'[j].state \in Live)
             => job'[j].started >= job[j].started
  <1>1. ASSUME ClockInv, Next
        PROVE  Stand
    <2>. SUFFICES ASSUME NEW j \in Jobs, job[j].state \in Live, job[j].started # NeverStarted,
                         job'[j].state \in Live
                  PROVE  job'[j].started >= job[j].started
      BY DEF InState
    <2>1. job[j] \in Row /\ job[j].started \in Int
      BY <1>1 DEF ClockInv, TypeInv, StoreTypeOK, Row, NeverStarted
    <2>2. CASE WorkerStep
      <3>1. job'[j].started = job[j].started \/ Stamps(j)
        BY <1>1, <2>2, KeepsWorker DEF ClockInv, Keeps
      <3>2. ~Stamps(j)
        BY <1>1, AtStep DEF Stamps, applyInProgress, PollSteps, ClockInv, Copied
      <3>. QED BY <2>1, <3>1, <3>2
    <2>3. CASE Tick
      BY <2>1, <2>3, AgedStarted DEF Tick
    <2>4. CASE Request \/ \E E \in SUBSET Engines : Restart(E)
      BY <1>1, <2>1, <2>4, KeepsWorld DEF ClockInv, Live, Active
    <2>. QED BY <1>1, <2>2, <2>3, <2>4 DEF Next
  <1>2. ClockInv /\ [Next]_vars => [Stand]_vars
    BY <1>1
  <1>3. RunClockStands <=> [][Stand]_vars
    BY DEF RunClockStands
  <1>. HIDE DEF Stand
  <1>. QED BY <1>2, <1>3, ClockAlways, PTL DEF Spec

-----------------------------------------------------------------------------
(* Claims: with statements that succeed, none is left behind.              *)

\* The statements that take a row out of `submitting`, and the scan that finds it.
ClaimStatements == {"SubmittingJobs", "TransitionJob", "BumpRetries", "FailJob", "OrphanSubmission"}

\* Inductive with TypeInv: there is one claim at most, so the scan's LIMIT hides none
\* from recovery, and recovery is through with it before anything is claimed.
Held ==
  /\ \A j, k \in InState({"submitting"}) : j = k
  /\ ClaimIsHeld

ClaimInv == TypeInv /\ Held

Claim(k) == job[k].state = "submitting"

LEMMA ClaimSources ==
  ASSUME TypeInv, Next
  PROVE  \A k \in Jobs : Claim(k)' => Claim(k) \/ (Claimed(k) /\ \E j \in Jobs : submitClaim(j))
  <1>1. CASE WorkerStep
    <2>1. \A k \in Jobs : RowStep(k)
      BY <1>1, RowEffects, EachRow
    <2>2. \A k \in Jobs : Claimed(k) => k # NoJob /\ step' # "loop" /\ cur' = k
      BY JobsAssumption DEF Claimed, NoJob
    <2>3. ASSUME NEW k \in Jobs, Claimed(k), ~\E j \in Jobs : submitClaim(j)
          PROVE  FALSE
      <3>1. job' # job /\ step' \in {"post", "failConfig"}
        BY <2>3 DEF Claimed
      <3>. QED BY <1>1, <2>3, <3>1, ElsewhereSplit DEF WorkerStep, Done, Goto,
           ScanSubmitting, ScanRecovery, ScanActive, CountActive, DequeueQueued, failAmbiguousSubmission,
           failExpired, pollSkip, pollGiveUp, pollStatus, submitSkip, submitExpired, applyInQueue,
           applyInProgress, applyFailure, classifyTransient, applyCompleted, SongForJob, encodeAudio,
           encodeFails, insertSong, succeed, storeFailure, fail, postAccepted, postRefused, recordId,
           bumpRefused, requeue, disown, Over, Turn
    <2>. QED BY <2>1, <2>3 DEF Claim, RowStep, Stays, Fails, Claimed, Requeued, Recorded, Progresses,
         Succeeds, Active
  <1>2. CASE Request \/ Tick \/ \E E \in SUBSET Engines : Restart(E)
    BY <1>2, WorldEffects DEF Claim, Stays
  <1>. QED BY <1>1, <1>2 DEF Next

\* A statement that cannot fail takes row j out of `submitting`, if it was there.
LEMMA ClaimDropped ==
  ASSUME TypeInv, Faulty \cap ClaimStatements = {}, NEW j \in Jobs,
         \/ \E id \in BOOLEAN : OrphanSubmission(j, id)
         \/ \E why \in Reasons : FailJob(j, why)
         \/ \E r \in Row : r.state # "submitting" /\ TransitionJob(j, "submitting", r)
         \/ TransitionLost(j, "submitting")
         \/ BumpLost(j)
  PROVE  job'[j].state # "submitting"
  <1>. USE DEF SetRow, TypeInv, StoreTypeOK
  <1>1. ASSUME NEW id \in BOOLEAN, OrphanSubmission(j, id)
        PROVE  job'[j].state # "submitting"
    <2>. DEFINE e == Ended(job[j], "failed", "submit")
                q == [e EXCEPT !.runpod_id = id]
    <2>1. e \in Row /\ e.state = "failed"
      BY EndedType DEF JobStates, Terminal, Reasons
    <2>2. CASE SetRow(j, q)
      <3>. HIDE DEF e
      <3>1. q.state = "failed"
        BY <2>1 DEF Row
      <3>. HIDE DEF q
      <3>. QED BY <2>2, <3>1
    <2>. QED BY <1>1, <2>2 DEF OrphanSubmission, Failing, ClaimStatements
  <1>2. ASSUME NEW why \in Reasons, FailJob(j, why)
        PROVE  job'[j].state # "submitting"
    <2>1. Ended(job[j], "failed", why).state = "failed"
      BY EndedType DEF JobStates, Terminal
    <2>2. CASE SetRow(j, Ended(job[j], "failed", why))
      BY <2>1, <2>2
    <2>. QED BY <1>2, <2>2 DEF FailJob, Failing, ClaimStatements, Live
  <1>3. ASSUME NEW r \in Row, r.state # "submitting", TransitionJob(j, "submitting", r)
        PROVE  job'[j].state # "submitting"
    BY <1>3 DEF TransitionJob
  <1>4. CASE TransitionLost(j, "submitting")
    BY <1>4 DEF TransitionLost, Failing, ClaimStatements
  <1>5. CASE BumpLost(j)
    BY <1>5 DEF BumpLost, RowExists, Failing, ClaimStatements
  <1>. QED BY <1>1, <1>2, <1>3, <1>4, <1>5

\* A step of the worker that claims nothing.
LEMMA HeldKept ==
  ASSUME ClaimInv, Next, ~\E j \in Jobs : submitClaim(j),
         \A k \in Jobs : Claim(k) /\ Claim(k)' =>
            \/ phase' = "boot"
            \/ phase' = "orphan" /\ k \in DOMAIN rows'
            \/ phase' = "submit" /\ cur' = k
  PROVE  Held'
  <1>1. \A k \in Jobs : Claim(k)' => Claim(k)
    BY ClaimSources DEF ClaimInv
  <1>. QED BY <1>1 DEF Claim, ClaimInv, Held, ClaimIsHeld, InState

LEMMA HeldWorker ==
  ASSUME ClaimInv, Faulty \cap ClaimStatements = {}, WorkerStep
  PROVE  Held'
  <1>. USE DEF ClaimInv
  <1>0. Next /\ NoJob \notin Jobs
    BY JobsAssumption DEF Next, NoJob
  <1>1. CASE ScanSubmitting
    <2>1. phase' = "orphan" /\ job' = job
      BY <1>1 DEF ScanSubmitting
    <2>2. PICK R \in SUBSET Jobs : Oldest(R, InState({"submitting"}), ScanLimit) /\ Scanned(R)
      BY <1>1 DEF ScanSubmitting, ScanFails, Failing, ClaimStatements
    <2>3. R = InState({"submitting"})
      <3>1. SUFFICES ASSUME R # InState({"submitting"}) PROVE FALSE
        OBVIOUS
      <3>2. R \subseteq InState({"submitting"}) /\ Cardinality(R) = ScanLimit /\ R # {}
        BY <2>2, <3>1, FS_EmptySet, LimitsAssumption DEF Oldest
      <3>. QED BY <3>1, <3>2 DEF Held
    <2>4. DOMAIN rows' = R
      BY <2>2 DEF Scanned
    <2>. QED BY <2>1, <2>3, <2>4 DEF Held, ClaimIsHeld, InState
  <1>2. CASE \/ ScanRecovery \/ ScanActive \/ CountActive \/ DequeueQueued
             \/ \E j \in Jobs : failExpired(j) \/ pollSkip(j) \/ pollGiveUp(j) \/ pollStatus(j)
                                \/ submitSkip(j) \/ submitExpired(j)
    <2>1. \A k \in Jobs : ~Claim(k)
      <3>1. phase # "boot" /\ (phase = "orphan" => DOMAIN rows = {}) /\ (phase = "submit" => cur = NoJob)
        BY <1>2 DEF ScanRecovery, ScanActive, CountActive, DequeueQueued, failExpired, pollSkip, pollGiveUp,
           pollStatus, submitSkip, submitExpired, Over, Turn, TypeInv, WorkerTypeOK
      <3>. QED BY <1>0, <3>1 DEF Held, ClaimIsHeld, InState, Claim
    <2>2. ~\E j \in Jobs : submitClaim(j) /\ step' \in {"post", "failConfig"}
      BY <1>2 DEF ScanRecovery, ScanActive, CountActive, DequeueQueued, failExpired, pollSkip, pollGiveUp,
         pollStatus, submitSkip, submitExpired, Over, Turn, submitClaim, Done, Goto
    <2>3. \A k \in Jobs : ~Claim(k)'
      BY <1>0, <2>1, ClaimSources, <2>2, RowEffects, EachRow DEF Claimed
    <2>. QED BY <2>3 DEF Held, ClaimIsHeld, InState, Claim
  <1>3. ASSUME NEW j \in Jobs, failAmbiguousSubmission(j)
        PROVE  Held'
    <2>1. phase = "orphan" /\ phase' = "orphan" /\ DOMAIN rows' = DOMAIN rows \ {j} /\ step = "loop"
      BY <1>3 DEF failAmbiguousSubmission, Turn, Done, Without
    <2>2. job'[j].state # "submitting"
      <3>1. rows[j].runpod_id \in BOOLEAN
        BY <1>3, TurnStep DEF failAmbiguousSubmission, Row
      <3>. QED BY <1>3, <3>1, ClaimDropped DEF failAmbiguousSubmission
    <2>3. ~\E k \in Jobs : submitClaim(k)
      BY <2>1 DEF submitClaim, Turn
    <2>4. \A k \in Jobs : Claim(k) => k \in DOMAIN rows
      BY <1>0, <2>1 DEF Held, ClaimIsHeld, InState, Claim
    <2>. QED BY <1>0, <2>1, <2>2, <2>3, <2>4, HeldKept DEF Claim
  <1>4. ASSUME NEW j \in Jobs, submitClaim(j)
        PROVE  Held'
    <2>1. phase = "submit" /\ phase' = "submit" /\ cur = NoJob
      BY <1>4 DEF submitClaim, Turn, Done, Goto, TypeInv, WorkerTypeOK
    <2>2. \A k \in Jobs : ~Claim(k)
      BY <1>0, <2>1 DEF Held, ClaimIsHeld, InState, Claim
    <2>3. \A k \in Jobs : Claim(k)' => cur' = k
      BY <1>0, <2>2, ClaimSources DEF Claimed
    <2>. QED BY <2>1, <2>3 DEF Held, ClaimIsHeld, InState, Claim
  <1>5. CASE \/ applyInQueue \/ applyInProgress \/ applyFailure \/ classifyTransient \/ applyCompleted
             \/ SongForJob \/ encodeAudio \/ encodeFails \/ insertSong \/ succeed \/ storeFailure \/ fail
             \/ postAccepted \/ postRefused \/ recordId \/ bumpRefused \/ requeue \/ disown
    <2>1. step # "loop" /\ cur \in Jobs /\ phase' = phase /\ phase \in {"poll", "submit"}
      <3>1. \E s \in PollSteps \cup SubmitSteps : At(s)
        BY <1>5, FailReason DEF applyInQueue, applyInProgress, applyFailure, classifyTransient,
           applyCompleted, SongForJob, encodeAudio, encodeFails, insertSong, succeed, storeFailure, fail,
           postAccepted, postRefused, recordId, bumpRefused, requeue, disown, PollSteps, SubmitSteps
      <3>2. phase' = phase
        BY <1>5 DEF applyInQueue, applyInProgress, applyFailure, classifyTransient,
           applyCompleted, SongForJob, encodeAudio, encodeFails, insertSong, succeed, storeFailure, fail,
           postAccepted, postRefused, recordId, bumpRefused, requeue, disown, Done, Goto
      <3>. QED BY <3>1, <3>2, AtStep, StepSets DEF At
    <2>2. ~\E k \in Jobs : submitClaim(k)
      BY <2>1 DEF submitClaim, Turn
    <2>3. \A k \in Jobs : Claim(k) => phase = "submit" /\ cur = k
      BY <1>0, <2>1 DEF Held, ClaimIsHeld, InState, Claim
    <2>4. phase = "submit" => cur' = cur \/ job'[cur].state # "submitting"
      <3>1. CASE cur' = cur
        BY <3>1
      <3>2. CASE phase # "submit"
        BY <3>2
      <3>3. CASE fail /\ phase = "submit"
        BY <2>1, <3>3, FailReason, ClaimDropped DEF fail
      <3>4. CASE disown
        BY <2>1, <3>4, ClaimDropped DEF disown
      <3>5. CASE recordId
        <4>. DEFINE q == [Moved(job[cur], "submitted") EXCEPT !.runpod_id = TRUE, !.retries = 0]
        <4>1. q \in Row /\ q.state = "submitted"
          BY <2>1, RecordedType DEF TypeInv, StoreTypeOK, JobStates, Live, Active
        <4>2. TransitionJob(cur, "submitting", q) \/ TransitionLost(cur, "submitting")
          BY <3>5 DEF recordId
        <4>. HIDE DEF q
        <4>. QED BY <2>1, <4>1, <4>2, ClaimDropped
      <3>6. CASE requeue
        <4>1. Moved(job[cur], "queued") \in Row /\ Moved(job[cur], "queued").state = "queued"
          BY <2>1, MovedType DEF TypeInv, StoreTypeOK, JobStates, Live
        <4>2. TransitionJob(cur, "submitting", Moved(job[cur], "queued")) \/ TransitionLost(cur, "submitting")
          BY <3>6 DEF requeue
        <4>. QED BY <2>1, <4>1, <4>2, ClaimDropped
      <3>7. CASE bumpRefused /\ cur' # cur
        BY <2>1, <3>7, ClaimDropped DEF bumpRefused, Goto
      <3>8. CASE postAccepted \/ postRefused
        BY <3>8 DEF postAccepted, postRefused, Goto
      <3>9. CASE \/ applyInQueue \/ applyInProgress \/ applyFailure \/ classifyTransient \/ applyCompleted
                 \/ SongForJob \/ encodeAudio \/ encodeFails \/ insertSong \/ succeed \/ storeFailure
        <4>1. \E s \in PollSteps : At(s)
          BY <3>9 DEF applyInQueue, applyInProgress, applyFailure, classifyTransient, applyCompleted,
             SongForJob, encodeAudio, encodeFails, insertSong, succeed, storeFailure, PollSteps
        <4>. QED BY <4>1, AtStep
      <3>. QED BY <1>5, <3>1, <3>2, <3>3, <3>4, <3>5, <3>6, <3>7, <3>8, <3>9
    <2>. QED BY <1>0, <2>1, <2>2, <2>3, <2>4, HeldKept DEF Claim
  <1>. QED BY <1>1, <1>2, <1>3, <1>4, <1>5 DEF WorkerStep

LEMMA HeldWorld ==
  ASSUME ClaimInv, Request \/ Tick \/ \E E \in SUBSET Engines : Restart(E)
  PROVE  Held'
  <1>1. \A k \in Jobs : Claim(k)' => Claim(k)
    BY WorldEffects DEF Claim, Stays, ClaimInv
  <1>2. phase' = "boot" \/ (phase' = phase /\ cur' = cur /\ DOMAIN rows' = DOMAIN rows)
    BY DEF Request, Tick, Restart, workerVars
  <1>. QED BY <1>1, <1>2 DEF ClaimInv, Held, ClaimIsHeld, InState, Claim

\* If none of the statements that settle a claim fails, a row is `submitting` only
\* while the worker is posting it or a restart is about to fail it.
THEOREM ClaimAlwaysHeld ==
  ASSUME Faulty \cap ClaimStatements = {}
  PROVE  Spec => []ClaimIsHeld
  <1>1. Init => ClaimInv
    <2>. SUFFICES ASSUME Init PROVE Held
      BY TypeInit DEF ClaimInv
    <2>1. InState({"submitting"}) = {}
      BY DEF Init, StoreInit, NewRow, InState
    <2>. QED BY <2>1 DEF Held, ClaimIsHeld
  <1>2. ClaimInv /\ [Next]_vars => ClaimInv'
    <2>. SUFFICES ASSUME ClaimInv, [Next]_vars PROVE Held'
      BY TypeStep DEF ClaimInv
    <2>1. CASE UNCHANGED vars
      BY <2>1 DEF vars, storeVars, workerVars, ClaimInv, Held, ClaimIsHeld, InState
    <2>. QED BY <2>1, HeldWorker, HeldWorld DEF Next
  <1>3. ClaimInv => ClaimIsHeld
    BY DEF ClaimInv, Held
  <1>. QED BY <1>1, <1>2, <1>3, PTL DEF Spec

-----------------------------------------------------------------------------
(* Refinement: JobWorker implements JobLifecycle.                          *)

\* Inductive with the other invariants: what the worker walks through in pollActive
\* is under way, and billed, until it is deleted.
Tracked ==
  phase = "poll" =>
    \A j \in DOMAIN rows : job[j].state \in Active \cup {"gone"} /\ posts[j] = 1

RefInv == BillInv /\ SongInv /\ Tracked

\* In the poll loop a row is dropped by the statement that ends its job.
LEMMA PollTurns ==
  ASSUME TypeInv, WorkerStep, phase = "poll", phase' = "poll"
  PROVE  /\ posts' = posts
         /\ DOMAIN rows' \subseteq DOMAIN rows
         /\ \A k \in DOMAIN rows' : Stays(k)
  <1>1. DOMAIN rows \subseteq Jobs
    BY DEF TypeInv, WorkerTypeOK
  <1>2. ASSUME NEW j \in Jobs, pollSkip(j) \/ pollStatus(j)
        PROVE  posts' = posts /\ DOMAIN rows' \subseteq DOMAIN rows /\ job' = job
    BY <1>2, ElsewhereSplit DEF pollSkip, pollStatus, Done, Goto, Without, SameProcess
  <1>3. ASSUME NEW j \in Jobs, Done(j), posts' = posts, \A k \in Jobs \ {j} : job'[k] = job[k]
        PROVE  /\ posts' = posts /\ DOMAIN rows' \subseteq DOMAIN rows
               /\ \A k \in DOMAIN rows' : Stays(k)
    BY <1>1, <1>3 DEF Done, Without, Stays
  <1>4. ASSUME NEW j \in Jobs, pollGiveUp(j)
        PROVE  Done(j) /\ posts' = posts /\ \A k \in Jobs \ {j} : job'[k] = job[k]
    <2>1. StoreElsewhere /\ posts' = posts /\ Done(j)
      BY <1>4, ElsewhereSplit DEF pollGiveUp, SameProcess
    <2>2. FailJob(j, "timeout") \/ FailJob(j, "other")
      BY <1>4 DEF pollGiveUp
    <2>. QED BY <2>1, <2>2, FailStep DEF TypeInv, Reasons, Moves
  <1>5. CASE \/ applyCompleted \/ SongForJob \/ encodeAudio \/ encodeFails \/ insertSong
    BY <1>1, <1>5, ElsewhereSplit DEF applyCompleted, SongForJob, encodeAudio, encodeFails, insertSong,
       Goto, SameProcess, Stays
  <1>6. CASE classifyTransient \/ storeFailure
    <2>1. /\ StoreElsewhere /\ posts' = posts /\ (BumpRetries(cur) \/ BumpLost(cur))
          /\ DOMAIN rows' \subseteq DOMAIN rows
      BY <1>6, ElsewhereSplit DEF classifyTransient, storeFailure, SameProcess, Done, Goto, Without
    <2>2. cur \in Jobs
      BY <1>6, AtStep DEF classifyTransient, storeFailure, PollSteps
    <2>. QED BY <1>1, <2>1, <2>2, BumpStep DEF TypeInv, Stays
  <1>7. CASE applyInQueue \/ applyInProgress \/ applyFailure \/ succeed \/ fail
    <2>1. posts' = posts /\ Done(cur)
      BY <1>7, ElsewhereSplit DEF applyInQueue, applyInProgress, applyFailure, succeed, fail, SameProcess
    <2>2. cur \in Jobs
      BY <1>7, AtStep, FailReason DEF applyInQueue, applyInProgress, applyFailure, succeed, fail, PollSteps
    <2>3. \A k \in Jobs \ {cur} : job'[k] = job[k]
      <3>1. job \in [Jobs -> Row]
        BY DEF TypeInv, StoreTypeOK
      <3>. QED BY <1>7, <2>2, <3>1 DEF applyInQueue, applyInProgress, applyFailure, succeed, fail,
             transition, TransitionJob, TransitionLost, FailJob, SetRow
    <2>. QED BY <1>3, <2>1, <2>2, <2>3
  <1>8. CASE \/ postAccepted \/ postRefused \/ recordId \/ bumpRefused \/ requeue \/ disown
             \/ ScanSubmitting \/ ScanRecovery \/ ScanActive \/ CountActive \/ DequeueQueued
             \/ \E j \in Jobs : \/ failAmbiguousSubmission(j) \/ failExpired(j)
                                \/ submitSkip(j) \/ submitExpired(j) \/ submitClaim(j)
    <2>1. ~\E s \in SubmitSteps : At(s)
      BY AtStep, StepSets
    <2>. QED BY <1>8, <2>1 DEF postAccepted, postRefused, recordId, bumpRefused, requeue, disown,
            ScanSubmitting, ScanRecovery, ScanActive, CountActive, DequeueQueued, Over, SubmitSteps,
            failAmbiguousSubmission, failExpired, submitSkip, submitExpired, submitClaim, Turn
  <1>. QED BY <1>1, <1>2, <1>3, <1>4, <1>5, <1>6, <1>7, <1>8 DEF WorkerStep, Stays

LEMMA TrackedStep ==
  ASSUME RefInv, Next
  PROVE  Tracked'
  <1>. USE DEF RefInv
  <1>1. CASE WorkerStep /\ phase = "poll" /\ phase' = "poll"
    BY <1>1, PollTurns DEF BillInv, Tracked, Stays
  <1>2. CASE WorkerStep /\ phase # "poll" /\ phase' = "poll"
    <2>1. ScanActive
      BY <1>2 DEF WorkerStep, ScanSubmitting, ScanRecovery, CountActive, DequeueQueued,
         failAmbiguousSubmission, failExpired, pollSkip, pollGiveUp, pollStatus, submitSkip, submitExpired,
         submitClaim, applyInQueue, applyInProgress, applyFailure, classifyTransient, applyCompleted,
         SongForJob, encodeAudio, encodeFails, insertSong, succeed, storeFailure, fail, postAccepted,
         postRefused, recordId, bumpRefused, requeue, disown, Done, Goto
    <2>2. job' = job /\ posts' = posts
      BY <2>1, ElsewhereSplit DEF ScanActive, SameProcess
    <2>3. \A j \in DOMAIN rows' : j \in Jobs /\ job[j].state \in Active
      BY <2>1 DEF ScanActive, ScannedActive, Scanned, ScanFails, Oldest, InState, Active
    <2>. QED BY <2>2, <2>3 DEF Tracked, BillInv, Billing
  <1>3. CASE Request \/ Tick
    <2>1. \A k \in Jobs : \/ Stays(k)
                          \/ job[k].state = "none" /\ job'[k].state = "queued"
                          \/ job[k].state # "none" /\ job'[k].state = "gone"
      BY <1>3, WorldEffects DEF BillInv
    <2>2. phase' = phase /\ DOMAIN rows' = DOMAIN rows /\ posts' = posts
      BY <1>3 DEF Request, Tick, workerVars
    <2>3. DOMAIN rows \subseteq Jobs
      BY DEF BillInv, TypeInv, WorkerTypeOK
    <2>. QED BY <2>1, <2>2, <2>3 DEF Tracked, Stays, Active
  <1>4. CASE \E E \in SUBSET Engines : Restart(E)
    BY <1>4 DEF Restart, Tracked
  <1>5. CASE phase' # "poll"
    BY <1>5 DEF Tracked
  <1>. QED BY <1>1, <1>2, <1>3, <1>4, <1>5 DEF Next

-----------------------------------------------------------------------------
(* Each step maps to a step of the abstract job or to none.                *)

Outcome == [j \in Jobs |-> outcomeOf(j)]
Published == {j \in Jobs : song[j] # NoFile}

LEMMA SameOutcome ==
  ASSUME \A k \in Jobs : outcomeOf(k)' = outcomeOf(k)
  PROVE  Outcome' = Outcome
  BY DEF Outcome

LEMMA OneOutcome ==
  ASSUME NEW j \in Jobs, NEW to, outcomeOf(j)' = to,
         \A k \in Jobs \ {j} : outcomeOf(k)' = outcomeOf(k)
  PROVE  Outcome' = [Outcome EXCEPT ![j] = to]
  BY DEF Outcome

\* A worker step that posts nothing and files nothing moves at most one row.
LEMMA RefineRow ==
  ASSUME RefInv, WorkerStep, posts' = posts, song' = song
  PROVE  [Lifecycle!Next]_Lifecycle!vars
  <1>0. Published' = Published
    BY DEF Published
  <1>1. RowsStep
    BY RowEffects DEF RefInv, BillInv
  <1>2. CASE job' = job
    <2>1. Outcome' = Outcome
      BY <1>2, SameOutcome DEF outcomeOf
    <2>. QED BY <1>0, <2>1 DEF Lifecycle!vars, Outcome, Published
  <1>3. ASSUME NEW j \in Jobs, RowStep(j), \A k \in Jobs \ {j} : job'[k] = job[k]
        PROVE  [Lifecycle!Next]_Lifecycle!vars
    <2>1. \A k \in Jobs \ {j} : outcomeOf(k)' = outcomeOf(k)
      BY <1>3 DEF outcomeOf
    <2>2. CASE Stays(j) \/ Claimed(j) \/ Requeued(j) \/ Recorded(j) \/ Progresses(j)
      <3>1. outcomeOf(j)' = outcomeOf(j)
        BY <2>2 DEF outcomeOf, Stays, Claimed, Requeued, Recorded, Progresses, Live, Active
      <3>2. Outcome' = Outcome
        BY <2>1, <3>1, SameOutcome
      <3>. QED BY <1>0, <3>2 DEF Lifecycle!vars, Outcome, Published
    <2>3. CASE Fails(j)
      <3>1. outcomeOf(j) = "pending" /\ outcomeOf(j)' = "failed"
        BY <2>3 DEF Fails, outcomeOf, Live, Active
      <3>2. Outcome' = [Outcome EXCEPT ![j] = "failed"]
        BY <2>1, <3>1, OneOutcome
      <3>3. Lifecycle!Fail(j)
        BY <1>0, <3>1, <3>2 DEF Lifecycle!Fail, Lifecycle!Become, Outcome, Published
      <3>. QED BY <3>3 DEF Lifecycle!Next
    <2>4. CASE Succeeds(j)
      <3>1. outcomeOf(j) = "pending" /\ outcomeOf(j)' = "succeeded"
        BY <2>4 DEF Succeeds, outcomeOf, Live, Active
      <3>2. Outcome' = [Outcome EXCEPT ![j] = "succeeded"]
        BY <2>1, <3>1, OneOutcome
      <3>3. j \in Published
        BY <2>4 DEF Succeeds, Published, RefInv, SongInv, Library
      <3>4. Lifecycle!Succeed(j)
        BY <1>0, <3>1, <3>2, <3>3 DEF Lifecycle!Succeed, Lifecycle!Become, Outcome, Published
      <3>. QED BY <3>4 DEF Lifecycle!Next
    <2>. QED BY <1>3, <2>2, <2>3, <2>4 DEF RowStep
  <1>. QED BY <1>1, <1>2, <1>3 DEF RowsStep

LEMMA RefinePost ==
  ASSUME RefInv, postAccepted
  PROVE  [Lifecycle!Next]_Lifecycle!vars
  <1>1. cur \in Jobs /\ posts[cur] = 0 /\ job[cur].state \in {"submitting", "gone"}
    BY AtStep DEF postAccepted, At, SubmitSteps, RefInv, BillInv, Billing, Unbilled
  <1>2. job' = job /\ song' = song
    BY DEF postAccepted, storeVars
  <1>3. Outcome' = Outcome /\ Published' = Published
    BY <1>2, SameOutcome DEF outcomeOf, Published
  <1>4. posts' = [posts EXCEPT ![cur] = 1]
    BY <1>1 DEF postAccepted, UpTo
  <1>5. outcomeOf(cur) \in {"pending", "gone"}
    BY <1>1 DEF outcomeOf, Live
  <1>6. Lifecycle!Bill(cur)
    BY <1>1, <1>3, <1>4, <1>5 DEF Lifecycle!Bill, Lifecycle!UnderWay, Outcome, Published
  <1>. QED BY <1>1, <1>6 DEF Lifecycle!Next

LEMMA RefinePublish ==
  ASSUME RefInv, insertSong
  PROVE  [Lifecycle!Next]_Lifecycle!vars
  <1>1. cur \in Jobs /\ cur \in DOMAIN rows /\ phase = "poll" /\ job' = job /\ posts' = posts /\ file # NoFile
    BY AtStep, FilesAssumption DEF insertSong, PollSteps, RefInv, SongInv, At, TypeInv, WorkerTypeOK
  <1>2. Outcome' = Outcome
    BY <1>1, SameOutcome DEF outcomeOf
  <1>3. CASE song' = song
    BY <1>1, <1>2, <1>3 DEF Lifecycle!vars, Outcome
  <1>4. CASE song[cur] = NoFile /\ song' = [song EXCEPT ![cur] = file]
    <2>1. Published' = Published \cup {cur} /\ cur \notin Published
      BY <1>1, <1>4 DEF Published, RefInv, SongInv, TypeInv, StoreTypeOK
    <2>2. job[cur].state \in Active \cup {"gone"} /\ posts[cur] = 1
      BY <1>1 DEF RefInv, Tracked
    <2>3. outcomeOf(cur) \in {"pending", "gone"}
      BY <2>2 DEF outcomeOf, Live, Active
    <2>4. Lifecycle!UnderWay(cur)
      BY <1>1, <2>3 DEF Lifecycle!UnderWay
    <2>5. ASSUME NEW j \in Jobs, j = cur
          PROVE  Lifecycle!Publish(j)
      BY <1>1, <1>2, <2>1, <2>2, <2>4, <2>5 DEF Lifecycle!Publish, Lifecycle!UnderWay, Outcome, Published
    <2>6. \E j \in Jobs : Lifecycle!Publish(j)
      BY <1>1, <2>5
    <2>. QED BY <2>6 DEF Lifecycle!Next
  <1>. QED BY <1>3, <1>4 DEF insertSong, CreateSong

LEMMA RefineWorld ==
  ASSUME RefInv, Request \/ Tick \/ \E E \in SUBSET Engines : Restart(E)
  PROVE  [Lifecycle!Next]_Lifecycle!vars
  <1>0. posts' = posts /\ job \in [Jobs -> Row]
    BY DEF Request, Tick, Restart, RefInv, SongInv, TypeInv, StoreTypeOK
  <1>1. CASE (\A k \in Jobs : Stays(k)) /\ song' = song
    <2>1. Outcome' = Outcome /\ Published' = Published
      BY <1>1, SameOutcome DEF Stays, outcomeOf, Published
    <2>. QED BY <1>0, <2>1 DEF Lifecycle!vars, Outcome, Published
  <1>2. CASE Tick
    <2>1. \A k \in Jobs : Stays(k)
      BY <1>0, <1>2, AgedType DEF Tick, Stays
    <2>. QED BY <1>1, <1>2, <2>1 DEF Tick
  <1>3. CASE \E E \in SUBSET Engines : Restart(E)
    BY <1>1, <1>3 DEF Restart, Stays
  <1>4. ASSUME NEW j \in Jobs, CreateJob(j)
        PROVE  [Lifecycle!Next]_Lifecycle!vars
    <2>1. job[j].state = "none" /\ song' = song /\ job' = [job EXCEPT ![j] = NewRow("queued")]
      BY <1>4 DEF CreateJob, SetRow, RefInv, SongInv, TypeInv, StoreTypeOK
    <2>2. /\ outcomeOf(j) = "none" /\ outcomeOf(j)' = "pending"
          /\ \A k \in Jobs \ {j} : outcomeOf(k)' = outcomeOf(k)
      BY <1>0, <2>1 DEF outcomeOf, NewRow, Live, Active
    <2>3. Outcome' = [Outcome EXCEPT ![j] = "pending"] /\ Published' = Published
      BY <2>1, <2>2, OneOutcome DEF Published
    <2>4. Lifecycle!Queue(j)
      BY <1>0, <2>2, <2>3 DEF Lifecycle!Queue, Lifecycle!Become, Outcome, Published
    <2>. QED BY <2>4 DEF Lifecycle!Next
  <1>5. ASSUME NEW S \in SUBSET Jobs, DeleteRows(S)
        PROVE  [Lifecycle!Next]_Lifecycle!vars
    <2>1. \A k \in Jobs : outcomeOf(k)' = IF k \in S /\ outcomeOf(k) # "none" THEN "gone" ELSE outcomeOf(k)
      BY <1>0, <1>5 DEF DeleteRows, RowExists, NewRow, outcomeOf, Live, Active
    <2>2. Outcome' = [k \in Jobs |-> IF k \in S /\ Outcome[k] # "none" THEN "gone" ELSE Outcome[k]]
      BY <2>1 DEF Outcome
    <2>3. Published' = Published \ S
      BY <1>5 DEF DeleteRows, Published
    <2>4. Lifecycle!Delete(S)
      BY <1>0, <2>2, <2>3 DEF Lifecycle!Delete, Outcome, Published
    <2>. QED BY <2>4 DEF Lifecycle!Next
  <1>6. CASE Request
    <2>1. \/ \E j \in Jobs : CreateJob(j)
          \/ \E S \in SUBSET Jobs : DeleteRows(S)
          \/ job' = job /\ song' = song
      BY <1>6 DEF Request, AskForJob, DeleteSong, DeleteUser, Unlink
    <2>. QED BY <1>1, <1>4, <1>5, <2>1 DEF Stays
  <1>. QED BY <1>2, <1>3, <1>6

LEMMA RefineStep ==
  ASSUME RefInv, [Next]_vars
  PROVE  [Lifecycle!Next]_Lifecycle!vars
  <1>1. CASE WorkerStep /\ ~postAccepted /\ ~insertSong
    <2>1. posts' = posts
      BY <1>1, ElsewhereSplit DEF WorkerStep, SameProcess, ScanSubmitting, ScanRecovery, ScanActive,
         CountActive, DequeueQueued, failAmbiguousSubmission, failExpired, pollSkip, pollGiveUp, pollStatus,
         submitSkip, submitExpired, submitClaim, applyInQueue, applyInProgress, applyFailure,
         classifyTransient, applyCompleted, SongForJob, encodeAudio, encodeFails, succeed, storeFailure,
         fail, postRefused, recordId, bumpRefused, requeue, disown
    <2>2. song' = song
      <3>1. CASE encodeAudio
        BY <3>1 DEF encodeAudio
      <3>. QED BY <1>1, <3>1, SongsUntouched DEF RefInv, SongInv
    <2>. QED BY <1>1, <2>1, <2>2, RefineRow
  <1>2. CASE UNCHANGED vars
    BY <1>2 DEF vars, storeVars, Lifecycle!vars, outcomeOf
  <1>. QED BY <1>1, <1>2, RefinePost, RefinePublish, RefineWorld DEF Next

\* The worker, with its restarts, failed statements and racing requests, implements
\* the abstract job: billed once, published once, succeeded only with a song, ended
\* for good.
THEOREM Implements == Spec => ImplementsLifecycle
  <1>1. Init => Lifecycle!Init
    <2>. SUFFICES ASSUME Init PROVE Lifecycle!Init
      OBVIOUS
    <2>1. \A j \in Jobs : outcomeOf(j) = "none"
      BY DEF Init, StoreInit, NewRow, outcomeOf, Live, Active
    <2>. QED BY <2>1 DEF Init, StoreInit, Lifecycle!Init
  <1>2. Init => Tracked
    BY DEF Init, Tracked
  <1>3. RefInv /\ [Next]_vars => Tracked'
    <2>1. CASE UNCHANGED vars
      BY <2>1 DEF vars, storeVars, workerVars, RefInv, Tracked
    <2>. QED BY <2>1, TrackedStep
  <1>4. Spec => []RefInv
    BY <1>2, <1>3, BillAlways, SongAlways, PTL DEF Spec, RefInv
  <1>5. RefInv /\ [Next]_vars => [Lifecycle!Next]_Lifecycle!vars
    BY RefineStep
  <1>. QED BY <1>1, <1>4, <1>5, PTL DEF Spec, ImplementsLifecycle, Lifecycle!Spec
=============================================================================
