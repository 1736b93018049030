--------------------------- MODULE JobWorkerProofs ---------------------------
EXTENDS JobWorker, FiniteSetTheorems, TLAPS

PollSteps == {"status", "lookup", "encode", "insert", "succeed", "storeFailure",
              "failTransient", "failStore"}
SubmitSteps == {"post", "record", "bump", "requeue", "disown", "disownId", "failConfig"}

Discipline ==
  /\ phase \in {"boot", "dequeue"} => DOMAIN rows = {}
  /\ phase = "orphan" => \A j \in DOMAIN rows : rows[j].state = "submitting"
  /\ phase \in {"expire", "poll"} => \A j \in DOMAIN rows : rows[j].state \in Active
  /\ phase = "submit" => \A j \in DOMAIN rows : rows[j].state = "queued"
  /\ step \in PollSteps => phase = "poll"
  /\ step \in SubmitSteps => phase = "submit"

LEMMA UpToType ==
  ASSUME NEW cap \in Nat, NEW n \in 0..cap
  PROVE  UpTo(n + 1, cap) \in 0..cap
  BY DEF UpTo

LEMMA NewRowType ==
  ASSUME NEW s \in JobStates
  PROVE  NewRow(s) \in Row
  BY CapsAssumption DEF NewRow, Row, Reasons, NeverStarted

\* One column at a time.
LEMMA ColumnType ==
  ASSUME NEW r \in Row
  PROVE  /\ \A x \in JobStates : [r EXCEPT !.state = x] \in Row
         /\ \A x \in BOOLEAN : [r EXCEPT !.runpod_id = x] \in Row
         /\ \A x \in 0..RetryCap : [r EXCEPT !.retries = x] \in Row
         /\ \A x \in {NeverStarted} \cup 0..Horizon : [r EXCEPT !.started = x] \in Row
         /\ \A x \in 0..Horizon : [r EXCEPT !.updated = x] \in Row
  <1>1. \A x \in JobStates : [r EXCEPT !.state = x] \in Row
    BY DEF Row
  <1>2. \A x \in BOOLEAN : [r EXCEPT !.runpod_id = x] \in Row
    BY DEF Row
  <1>3. \A x \in 0..RetryCap : [r EXCEPT !.retries = x] \in Row
    BY DEF Row
  <1>4. \A x \in {NeverStarted} \cup 0..Horizon : [r EXCEPT !.started = x] \in Row
    BY DEF Row
  <1>5. \A x \in 0..Horizon : [r EXCEPT !.updated = x] \in Row
    BY DEF Row
  <1>. QED BY <1>1, <1>2, <1>3, <1>4, <1>5

LEMMA ZeroInRange == 0 \in 0..Horizon /\ 0 \in 0..RetryCap
  BY CapsAssumption

LEMMA MovedType ==
  ASSUME NEW r \in Row, NEW s \in JobStates
  PROVE  /\ Moved(r, s) \in Row
         /\ Moved(r, s).state = s
         /\ Moved(r, s).runpod_id = r.runpod_id
         /\ Moved(r, s).started = r.started
  <1>1. Moved(r, s) = [[r EXCEPT !.state = s] EXCEPT !.updated = 0]
    BY Zenon DEF Moved
  <1>2. Moved(r, s) \in Row
    <2>1. [r EXCEPT !.state = s] \in Row
      BY ColumnType
    <2>. QED BY <1>1, <2>1, ColumnType, ZeroInRange
  <1>3. Moved(r, s).state = s
    BY DEF Moved, Row
  <1>. QED BY <1>2, <1>3 DEF Moved, Row

\* The row the worker writes for IN_QUEUE.
LEMMA QueuedType ==
  ASSUME NEW r \in Row, NEW s \in JobStates
  PROVE  LET q == [Moved(r, s) EXCEPT !.retries = 0]
         IN  q \in Row /\ q.state = s /\ q.runpod_id = r.runpod_id
  BY MovedType, ColumnType, ZeroInRange DEF Row

\* The row it writes for IN_PROGRESS.
LEMMA StartedType ==
  ASSUME NEW r \in Row, NEW s \in JobStates, NEW b \in BOOLEAN
  PROVE  LET q == [Moved(r, s) EXCEPT !.retries = 0, !.started = IF b THEN 0 ELSE @]
         IN  q \in Row /\ q.state = s /\ q.runpod_id = r.runpod_id
  <1>. DEFINE m == Moved(r, s)
              q == [m EXCEPT !.retries = 0, !.started = IF b THEN 0 ELSE @]
              z == [m EXCEPT !.retries = 0]
              v == IF b THEN 0 ELSE m.started
  <1>1. m \in Row /\ m.state = s /\ m.runpod_id = r.runpod_id
    BY MovedType
  <1>. HIDE DEF m
  <1>2. z \in Row /\ z.state = s /\ z.runpod_id = r.runpod_id
    <2>1. z \in Row
      BY <1>1, ColumnType, ZeroInRange
    <2>. QED BY <1>1, <2>1 DEF Row
  <1>3. v \in {NeverStarted} \cup 0..Horizon
    BY <1>1, ZeroInRange DEF Row
  <1>4. q = [z EXCEPT !.started = v]
    BY <1>1 DEF Row
  <1>. HIDE DEF q, z, v
  <1>5. q \in Row
    BY <1>2, <1>3, <1>4, ColumnType
  <1>6. q.state = s /\ q.runpod_id = r.runpod_id
    BY <1>2, <1>4 DEF Row
  <1>. QED BY <1>5, <1>6 DEF q, m

\* The row it writes once RunPod's id is known.
LEMMA RecordedType ==
  ASSUME NEW r \in Row, NEW s \in JobStates
  PROVE  LET q == [Moved(r, s) EXCEPT !.runpod_id = TRUE, !.retries = 0]
         IN  q \in Row /\ q.state = s /\ q.runpod_id
  <1>. DEFINE m == Moved(r, s)
              q == [m EXCEPT !.runpod_id = TRUE, !.retries = 0]
              z == [m EXCEPT !.runpod_id = TRUE]
  <1>1. m \in Row /\ m.state = s
    BY MovedType
  <1>. HIDE DEF m
  <1>2. z \in Row /\ z.state = s /\ z.runpod_id
    <2>1. z \in Row
      BY <1>1, ColumnType
    <2>. QED BY <1>1, <2>1 DEF Row
  <1>3. q = [z EXCEPT !.retries = 0]
    BY <1>1 DEF Row
  <1>. HIDE DEF q, z
  <1>4. q \in Row
    BY <1>2, <1>3, ColumnType, ZeroInRange
  <1>5. q.state = s /\ q.runpod_id
    BY <1>2, <1>3 DEF Row
  <1>. QED BY <1>4, <1>5 DEF q, m

\* The row BumpRetries leaves.
LEMMA BumpedType ==
  ASSUME NEW r \in Row
  PROVE  LET q == [r EXCEPT !.retries = UpTo(@ + 1, RetryCap), !.updated = 0]
         IN  q \in Row /\ q.state = r.state /\ q.runpod_id = r.runpod_id
  <1>. DEFINE n == UpTo(r.retries + 1, RetryCap)
              z == [r EXCEPT !.retries = n]
              q == [r EXCEPT !.retries = UpTo(@ + 1, RetryCap), !.updated = 0]
  <1>1. n \in 0..RetryCap
    <2>1. RetryCap \in Nat /\ r.retries \in 0..RetryCap
      BY CapsAssumption DEF Row
    <2>. QED BY <2>1, UpToType
  <1>2. q = [z EXCEPT !.updated = 0]
    BY Zenon
  <1>. HIDE DEF n
  <1>3. z \in Row /\ z.state = r.state /\ z.runpod_id = r.runpod_id
    <2>1. z \in Row
      BY <1>1, ColumnType
    <2>. QED BY <2>1 DEF Row
  <1>. HIDE DEF q, z
  <1>4. q \in Row
    BY <1>2, <1>3, ColumnType, ZeroInRange
  <1>5. q.state = r.state /\ q.runpod_id = r.runpod_id
    BY <1>2, <1>3 DEF Row
  <1>. QED BY <1>4, <1>5 DEF q

LEMMA EndedType ==
  ASSUME NEW r \in Row, NEW s \in JobStates, NEW why \in Reasons
  PROVE  /\ Ended(r, s, why) \in Row
         /\ Ended(r, s, why).state = s
  BY CapsAssumption, NewRowType DEF Ended, Row, NewRow, Reasons, NeverStarted

LEMMA AgedType ==
  ASSUME NEW r \in Row
  PROVE  /\ Aged(r) \in Row
         /\ Aged(r).state = r.state
         /\ Aged(r).runpod_id = r.runpod_id
  <1>1. CASE r.state \notin Live
    BY <1>1 DEF Aged
  <1>2. CASE r.state \in Live
    <2>1. Horizon \in Nat /\ r.created \in 0..Horizon /\ r.updated \in 0..Horizon
      BY CapsAssumption DEF Row
    <2>2. UpTo(r.created + 1, Horizon) \in 0..Horizon /\ UpTo(r.updated + 1, Horizon) \in 0..Horizon
      BY <2>1, UpToType
    <2>3. r.started # NeverStarted => UpTo(r.started + 1, Horizon) \in 0..Horizon
      <3>1. r.started # NeverStarted => r.started \in 0..Horizon
        BY DEF Row
      <3>. QED BY <2>1, <3>1, UpToType
    <2>. QED BY <1>2, <2>2, <2>3 DEF Aged, Row
  <1>. QED BY <1>1, <1>2

LEMMA SetRowType ==
  ASSUME job \in [Jobs -> Row], NEW j \in Jobs, NEW r \in Row, SetRow(j, r)
  PROVE  /\ job' \in [Jobs -> Row]
         /\ job'[j] = r
         /\ \A k \in Jobs \ {j} : job'[k] = job[k]
  BY DEF SetRow

-----------------------------------------------------------------------------
(* What each of the worker's statements does to the tables.                *)

StoreElsewhere == UNCHANGED <<song, users, disk, requestVars>>

\* No request for a row that exists is still to be inserted.
LEMMA RowsKept ==
  ASSUME StoreTypeOK, StoreElsewhere, NEW j \in Jobs, job[j].state # "none",
         job' \in [Jobs -> Row], \A k \in Jobs \ {j} : job'[k] = job[k]
  PROVE  StoreTypeOK'
  BY DEF StoreTypeOK, StoreElsewhere, requestVars

LEMMA SameRows ==
  ASSUME StoreTypeOK, StoreElsewhere, UNCHANGED job
  PROVE  StoreTypeOK'
  BY DEF StoreTypeOK, StoreElsewhere, requestVars

\* A statement on row j leaves every other row alone and moves j from a state in
\* A to one in B, or leaves the table alone.
Moves(j, A, B) ==
  /\ \A k \in Jobs \ {j} : job'[k] = job[k]
  /\ \/ job'[j] = job[j]
     \/ job[j].state \in A /\ job'[j].state \in B

LEMMA TransitionStep ==
  ASSUME StoreTypeOK, StoreElsewhere, NEW j \in Jobs, NEW from \in Live, NEW r \in Row,
         TransitionJob(j, from, r)
  PROVE  /\ StoreTypeOK'
         /\ job[j].state = from
         /\ job'[j] = r
         /\ \A k \in Jobs \ {j} : job'[k] = job[k]
  <1>1. /\ job' \in [Jobs -> Row]
        /\ job'[j] = r
        /\ \A k \in Jobs \ {j} : job'[k] = job[k]
    BY SetRowType DEF TransitionJob, StoreTypeOK
  <1>2. job[j].state = from /\ from # "none"
    BY DEF TransitionJob, Live, Active
  <1>. QED BY <1>1, <1>2, RowsKept

LEMMA LostStep ==
  ASSUME StoreTypeOK, StoreElsewhere, NEW j, NEW from, TransitionLost(j, from)
  PROVE  StoreTypeOK' /\ job' = job
  BY SameRows DEF TransitionLost

LEMMA FailStep ==
  ASSUME StoreTypeOK, StoreElsewhere, NEW j \in Jobs, NEW why \in Reasons, FailJob(j, why)
  PROVE  StoreTypeOK' /\ Moves(j, Live, {"failed"})
  <1>1. CASE UNCHANGED job
    BY <1>1, SameRows DEF Moves
  <1>2. CASE job[j].state \in Live /\ SetRow(j, Ended(job[j], "failed", why))
    <2>1. Ended(job[j], "failed", why) \in Row /\ Ended(job[j], "failed", why).state = "failed"
      BY EndedType DEF StoreTypeOK, JobStates, Terminal
    <2>2. /\ job' \in [Jobs -> Row]
          /\ job'[j].state = "failed"
          /\ \A k \in Jobs \ {j} : job'[k] = job[k]
      BY <1>2, <2>1, SetRowType DEF StoreTypeOK
    <2>3. job[j].state # "none"
      BY <1>2 DEF Live, Active
    <2>. QED BY <1>2, <2>2, <2>3, RowsKept DEF Moves
  <1>. QED BY <1>1, <1>2 DEF FailJob

LEMMA OrphanStep ==
  ASSUME StoreTypeOK, StoreElsewhere, NEW j \in Jobs, NEW id \in BOOLEAN, OrphanSubmission(j, id)
  PROVE  StoreTypeOK' /\ Moves(j, {"submitting"}, {"failed"})
  <1>1. CASE UNCHANGED job
    BY <1>1, SameRows DEF Moves
  <1>2. CASE /\ job[j].state = "submitting"
             /\ SetRow(j, [Ended(job[j], "failed", "submit") EXCEPT !.runpod_id = id])
    <2>. DEFINE r == Ended(job[j], "failed", "submit")
    <2>1. r \in Row /\ r.state = "failed"
      BY EndedType DEF StoreTypeOK, JobStates, Terminal, Reasons
    <2>. HIDE DEF r
    <2>2. [r EXCEPT !.runpod_id = id] \in Row /\ [r EXCEPT !.runpod_id = id].state = "failed"
      BY <2>1, ColumnType DEF Row
    <2>3. /\ job' \in [Jobs -> Row]
          /\ job'[j].state = "failed"
          /\ \A k \in Jobs \ {j} : job'[k] = job[k]
      BY <1>2, <2>2, SetRowType DEF StoreTypeOK, r
    <2>. QED BY <1>2, <2>3, RowsKept DEF Moves
  <1>. QED BY <1>1, <1>2 DEF OrphanSubmission

LEMMA BumpStep ==
  ASSUME StoreTypeOK, StoreElsewhere, NEW j \in Jobs, BumpRetries(j) \/ BumpLost(j)
  PROVE  /\ StoreTypeOK'
         /\ job'[j].state = job[j].state /\ job'[j].runpod_id = job[j].runpod_id
         /\ \A k \in Jobs \ {j} : job'[k] = job[k]
  <1>1. CASE BumpLost(j)
    BY <1>1, SameRows DEF BumpLost
  <1>2. CASE BumpRetries(j)
    <2>. DEFINE q == [job[j] EXCEPT !.retries = UpTo(@ + 1, RetryCap), !.updated = 0]
    <2>1. q \in Row /\ q.state = job[j].state /\ q.runpod_id = job[j].runpod_id
      BY BumpedType DEF StoreTypeOK
    <2>2. SetRow(j, q) /\ job[j].state # "none"
      BY <1>2 DEF BumpRetries, RowExists
    <2>. HIDE DEF q
    <2>3. /\ job' \in [Jobs -> Row]
          /\ job'[j] = q
          /\ \A k \in Jobs \ {j} : job'[k] = job[k]
      BY <2>1, <2>2, SetRowType DEF StoreTypeOK
    <2>. QED BY <2>1, <2>2, <2>3, RowsKept
  <1>. QED BY <1>1, <1>2

-----------------------------------------------------------------------------
(* Type correctness.                                                       *)

WorkerTypeOK ==
  /\ phase \in Phases
  /\ DOMAIN rows \subseteq Jobs /\ rows \in [DOMAIN rows -> Row]
  /\ step \in Steps
  /\ IF step = "loop" THEN cur = NoJob ELSE cur \in DOMAIN rows
  /\ budget \in 0..MaxInFlight
  /\ IF step = "insert" THEN file \in Files ELSE file = NoFile
  /\ engines \subseteq Engines
  /\ posts \in [Jobs -> 0..2]

TypeInv == StoreTypeOK /\ WorkerTypeOK /\ Discipline

SameProcess == engines' = engines /\ posts' = posts

LEMMA StepSets ==
  /\ PollSteps \cap SubmitSteps = {}
  /\ Steps = {"loop"} \cup PollSteps \cup SubmitSteps
  /\ "loop" \notin PollSteps \cup SubmitSteps
  /\ DOMAIN FailSteps = {"failConfig", "failTransient", "failStore"}
  BY DEF PollSteps, SubmitSteps, Steps, FailSteps

LEMMA FailReason ==
  ASSUME NEW s \in DOMAIN FailSteps
  PROVE  s \in PollSteps \cup SubmitSteps /\ s # "insert" /\ FailSteps[s] \in Reasons
  <1>1. s \in {"failConfig", "failTransient", "failStore"}
    BY StepSets
  <1>2. s \in PollSteps \cup SubmitSteps /\ s # "insert"
    BY <1>1 DEF PollSteps, SubmitSteps
  <1>3. /\ FailSteps["failConfig"] = "other"
        /\ FailSteps["failTransient"] = "transient"
        /\ FailSteps["failStore"] = "store"
    BY DEF FailSteps
  <1>. QED BY <1>1, <1>2, <1>3 DEF Reasons

\* At a step, the worker holds a scanned row of the state its loop scans for.
LEMMA AtStep ==
  ASSUME TypeInv, NEW s \in PollSteps \cup SubmitSteps, At(s)
  PROVE  /\ cur \in Jobs /\ cur \in DOMAIN rows /\ rows[cur] \in Row
         /\ s \in PollSteps => phase = "poll" /\ rows[cur].state \in Active
         /\ s \in SubmitSteps => phase = "submit" /\ rows[cur].state = "queued"
         /\ s # "insert" => file = NoFile
  BY StepSets DEF TypeInv, WorkerTypeOK, Discipline, At

LEMMA TurnStep ==
  ASSUME TypeInv, NEW p, NEW j, Turn(p, j)
  PROVE  j \in DOMAIN rows /\ j \in Jobs /\ phase = p /\ rows[j] \in Row /\ file = NoFile
  BY DEF TypeInv, WorkerTypeOK, Turn, First

LEMMA DoneStep ==
  ASSUME TypeInv, NEW j, Done(j), file' = NoFile, SameProcess
  PROVE  WorkerTypeOK' /\ Discipline'
  BY StepSets DEF TypeInv, WorkerTypeOK, Discipline, Done, Without, SameProcess, PollSteps, SubmitSteps

LEMMA GotoStep ==
  ASSUME TypeInv, NEW j \in DOMAIN rows, NEW s \in PollSteps \cup SubmitSteps, Goto(j, s),
         s \in PollSteps => phase = "poll", s \in SubmitSteps => phase = "submit",
         IF s = "insert" THEN file' \in Files ELSE file' = NoFile,
         engines' = engines, posts' \in [Jobs -> 0..2]
  PROVE  WorkerTypeOK' /\ Discipline'
  <1>1. WorkerTypeOK'
    BY StepSets DEF TypeInv, WorkerTypeOK, Goto
  <1>2. Discipline'
    BY StepSets DEF TypeInv, Discipline, Goto
  <1>. QED BY <1>1, <1>2

\* A scan of the rows in S, all of them in a state of T.
LEMMA ScanStep ==
  ASSUME TypeInv, NEW S \in SUBSET Jobs, Scanned(S), phase' \in Phases,
         step = "loop", UNCHANGED <<job, cur, step, file>>, SameProcess,
         budget' \in 0..MaxInFlight,
         phase' \in {"boot", "dequeue"} => S = {},
         phase' = "orphan" => \A j \in S : job[j].state = "submitting",
         phase' \in {"expire", "poll"} => \A j \in S : job[j].state \in Active,
         phase' = "submit" => \A j \in S : job[j].state = "queued"
  PROVE  WorkerTypeOK' /\ Discipline'
  <1>1. DOMAIN rows' = S /\ rows' \in [S -> Row] /\ \A j \in S : rows'[j] = job[j]
    BY DEF Scanned, TypeInv, StoreTypeOK
  <1>2. WorkerTypeOK'
    BY <1>1 DEF TypeInv, WorkerTypeOK, SameProcess
  <1>3. Discipline'
    BY <1>1, StepSets DEF TypeInv, Discipline
  <1>. QED BY <1>2, <1>3

LEMMA ElsewhereSplit == Elsewhere <=> StoreElsewhere /\ file' = file /\ SameProcess
  BY DEF Elsewhere, StoreElsewhere, SameProcess, requestVars

\* The five scans.
LEMMA TypeScans ==
  ASSUME TypeInv, ScanSubmitting \/ ScanRecovery \/ ScanActive \/ CountActive \/ DequeueQueued
  PROVE  TypeInv'
  <1>1. StoreElsewhere /\ file' = file /\ SameProcess /\ UNCHANGED <<job, cur, step>>
    BY ElsewhereSplit DEF ScanSubmitting, ScanRecovery, ScanActive, CountActive, DequeueQueued
  <1>2. StoreTypeOK'
    BY <1>1, SameRows DEF TypeInv
  <1>3. step \in PollSteps \cup SubmitSteps => phase \in {"poll", "submit"}
    BY DEF TypeInv, Discipline
  <1>4. step \in {"loop"} \cup PollSteps \cup SubmitSteps
    BY StepSets DEF TypeInv, WorkerTypeOK
  <1>5. InState({"submitting"}) \subseteq Jobs /\ InState({"queued"}) \subseteq Jobs
    BY DEF InState
  <1>6. \A R, S : ScannedActive(R, S) => R \cup S \in SUBSET Jobs /\ \A j \in R \cup S : job[j].state \in Active
    BY DEF ScannedActive, Oldest, InState, Active
  <1>7. budget \in 0..MaxInFlight /\ 0 \in 0..MaxInFlight
    BY LimitsAssumption DEF TypeInv, WorkerTypeOK
  <1>8. CASE ScanSubmitting
    <2>1. phase = "boot" /\ phase' = "orphan" /\ budget' = budget /\ step = "loop"
      BY <1>3, <1>4, <1>8 DEF ScanSubmitting
    <2>2. PICK R \in SUBSET Jobs : Scanned(R) /\ R \subseteq InState({"submitting"})
      BY <1>8 DEF ScanSubmitting, Oldest, ScanFails
    <2>. QED BY <1>1, <1>2, <1>7, <2>1, <2>2, ScanStep DEF TypeInv, InState, Phases
  <1>9. CASE ScanRecovery \/ ScanActive
    <2>1. phase' \in {"expire", "poll"} /\ budget' = budget /\ step = "loop"
      BY <1>9 DEF ScanRecovery, ScanActive, Over
    <2>2. \E R \in SUBSET Jobs : Scanned(R) /\ \A j \in R : job[j].state \in Active
      <3>1. CASE Scanned({})
        BY <3>1
      <3>2. CASE \E R, S \in SUBSET Jobs : ScannedActive(R, S) /\ Scanned(R \cup S)
        BY <1>6, <3>2
      <3>. QED BY <1>9, <3>1, <3>2 DEF ScanRecovery, ScanActive, ScanFails
    <2>3. PICK R \in SUBSET Jobs : Scanned(R) /\ \A j \in R : job[j].state \in Active
      BY <2>2
    <2>. QED BY <1>1, <1>2, <1>7, <2>1, <2>3, ScanStep DEF TypeInv, Phases
  <1>10. CASE CountActive
    <2>1. UNCHANGED rows /\ DOMAIN rows = {} /\ step = "loop" /\ phase' \in {"submit", "dequeue"}
      BY <1>10 DEF CountActive, Over
    <2>2. budget' \in 0..MaxInFlight
      <3>1. ASSUME NEW R \in SUBSET Jobs, NEW S \in SUBSET Jobs
            PROVE  Remaining(R, S) \in Int /\ Remaining(R, S) <= MaxInFlight
        <4>1. Cardinality(R \cup S) \in Nat
          BY JobsAssumption, FS_Subset, FS_CardinalityType
        <4>. QED BY <4>1, LimitsAssumption DEF Remaining
      <3>. QED BY <1>7, <1>10, <3>1, LimitsAssumption DEF CountActive
    <2>3. Scanned({})
      BY <2>1 DEF Scanned, TypeInv, WorkerTypeOK
    <2>. QED BY <1>1, <1>2, <2>1, <2>2, <2>3, ScanStep DEF TypeInv, Phases
  <1>11. CASE DequeueQueued
    <2>1. phase = "dequeue" /\ phase' = "submit" /\ budget' = 0 /\ step = "loop"
      BY <1>3, <1>4, <1>11 DEF DequeueQueued
    <2>2. PICK R \in SUBSET Jobs : Scanned(R) /\ R \subseteq InState({"queued"})
      BY <1>11 DEF DequeueQueued, Oldest, ScanFails
    <2>. QED BY <1>1, <1>2, <1>7, <2>1, <2>2, ScanStep DEF TypeInv, InState, Phases
  <1>. QED BY <1>8, <1>9, <1>10, <1>11

\* The decisions made on a scanned row, and the statements they lead to.
LEMMA TypeTurns ==
  ASSUME TypeInv, NEW j \in Jobs,
         \/ failAmbiguousSubmission(j) \/ failExpired(j)
         \/ pollSkip(j) \/ pollGiveUp(j) \/ pollStatus(j)
         \/ submitSkip(j) \/ submitExpired(j) \/ submitClaim(j)
  PROVE  TypeInv'
  <1>1. StoreElsewhere /\ file' = file /\ SameProcess
    BY ElsewhereSplit DEF failAmbiguousSubmission, failExpired, pollSkip, pollGiveUp, pollStatus,
       submitSkip, submitExpired, submitClaim
  <1>2. \E p \in Phases : Turn(p, j)
    BY DEF failAmbiguousSubmission, failExpired, pollSkip, pollGiveUp, pollStatus,
       submitSkip, submitExpired, submitClaim, Phases
  <1>3. j \in DOMAIN rows /\ rows[j] \in Row /\ file = NoFile
    BY <1>2, TurnStep
  <1>4. StoreTypeOK'
    <2>1. CASE UNCHANGED job
      BY <1>1, <2>1, SameRows DEF TypeInv
    <2>2. CASE failAmbiguousSubmission(j)
      BY <1>1, <1>3, <2>2, OrphanStep DEF failAmbiguousSubmission, TypeInv, Row
    <2>3. CASE failExpired(j) \/ pollGiveUp(j) \/ submitExpired(j)
      <3>1. UNCHANGED job \/ FailJob(j, "timeout") \/ FailJob(j, "other")
        BY <2>3 DEF failExpired, pollGiveUp, submitExpired
      <3>. QED BY <1>1, <2>1, <3>1, FailStep DEF TypeInv, Reasons
    <2>4. CASE submitClaim(j)
      <3>1. CASE TransitionJob(j, "queued", Moved(job[j], "submitting"))
        <4>1. Moved(job[j], "submitting") \in Row
          BY MovedType DEF TypeInv, StoreTypeOK, JobStates, Live
        <4>. QED BY <1>1, <3>1, <4>1, TransitionStep DEF TypeInv, Live
      <3>2. CASE TransitionLost(j, "queued")
        BY <1>1, <3>2, LostStep DEF TypeInv
      <3>. QED BY <2>4, <3>1, <3>2 DEF submitClaim
    <2>5. pollSkip(j) \/ pollStatus(j) \/ submitSkip(j) => UNCHANGED job
      BY DEF pollSkip, pollStatus, submitSkip
    <2>. QED BY <2>1, <2>2, <2>3, <2>4, <2>5
  <1>5. WorkerTypeOK' /\ Discipline'
    <2>1. CASE Done(j)
      BY <1>1, <1>3, <2>1, DoneStep
    <2>2. CASE pollStatus(j) /\ ~Done(j)
      <3>1. Goto(j, "status") /\ phase = "poll"
        BY <2>2 DEF pollStatus, Turn
      <3>. QED BY <1>1, <1>3, <3>1, GotoStep, StepSets DEF PollSteps, SubmitSteps, SameProcess, TypeInv, WorkerTypeOK
    <2>3. CASE submitClaim(j) /\ ~Done(j)
      <3>1. phase = "submit" /\ (Goto(j, "post") \/ Goto(j, "failConfig"))
        BY <2>3 DEF submitClaim, Turn
      <3>. QED BY <1>1, <1>3, <3>1, GotoStep, StepSets DEF PollSteps, SubmitSteps, SameProcess, TypeInv, WorkerTypeOK
    <2>. QED BY <2>1, <2>2, <2>3 DEF failAmbiguousSubmission, failExpired, pollSkip, pollGiveUp,
            submitSkip, submitExpired
  <1>. QED BY <1>4, <1>5 DEF TypeInv

\* The answers of RunPod and what the worker makes of them.
LEMMA TypePolls ==
  ASSUME TypeInv,
         \/ applyInQueue \/ applyInProgress \/ applyFailure \/ classifyTransient \/ applyCompleted
         \/ SongForJob \/ encodeFails \/ succeed \/ storeFailure
  PROVE  TypeInv'
  <1>1. StoreElsewhere /\ file' = file /\ SameProcess
    BY ElsewhereSplit DEF applyInQueue, applyInProgress, applyFailure, classifyTransient,
       applyCompleted, SongForJob, encodeFails, succeed, storeFailure
  <1>2. PICK s \in {"status", "lookup", "encode", "succeed", "storeFailure"} : At(s)
    BY DEF applyInQueue, applyInProgress, applyFailure, classifyTransient,
       applyCompleted, SongForJob, encodeFails, succeed, storeFailure
  <1>3. s \in PollSteps
    BY <1>2 DEF PollSteps
  <1>4. /\ cur \in Jobs /\ cur \in DOMAIN rows /\ rows[cur] \in Row /\ file = NoFile
        /\ phase = "poll" /\ rows[cur].state \in Active
    BY <1>2, <1>3, AtStep
  <1>5. job[cur] \in Row
    BY <1>4 DEF TypeInv, StoreTypeOK
  <1>6. ASSUME NEW r \in Row, transition(cur, rows[cur].state, r)
        PROVE  StoreTypeOK'
    <2>1. rows[cur].state \in Live
      BY <1>4 DEF Live
    <2>. QED BY <1>1, <1>4, <1>6, <2>1, TransitionStep, LostStep DEF transition, TypeInv
  <1>7. StoreTypeOK'
    <2>1. CASE applyInQueue
      <3>1. [Moved(job[cur], "submitted") EXCEPT !.retries = 0] \in Row
        BY <1>5, QueuedType DEF JobStates, Active, Live
      <3>. QED BY <1>6, <2>1, <3>1 DEF applyInQueue
    <2>2. CASE applyInProgress
      <3>. DEFINE b == rows[cur].started = NeverStarted
      <3>1. b \in BOOLEAN
        OBVIOUS
      <3>. HIDE DEF b
      <3>2. [Moved(job[cur], "running") EXCEPT !.retries = 0, !.started = IF b THEN 0 ELSE @] \in Row
        BY <1>5, <3>1, StartedType DEF JobStates, Active, Live
      <3>. QED BY <1>6, <2>2, <3>2 DEF applyInProgress, b
    <2>3. CASE applyFailure
      BY <1>1, <1>4, <2>3, FailStep DEF applyFailure, TypeInv, Reasons
    <2>4. CASE classifyTransient \/ storeFailure
      BY <1>1, <1>4, <2>4, BumpStep DEF classifyTransient, storeFailure, TypeInv
    <2>5. CASE applyCompleted \/ SongForJob \/ encodeFails
      BY <1>1, <2>5, SameRows DEF applyCompleted, SongForJob, encodeFails, TypeInv
    <2>6. CASE succeed
      <3>1. Ended(job[cur], "succeeded", "") \in Row
        BY <1>5, EndedType DEF JobStates, Terminal, Reasons
      <3>. QED BY <1>6, <2>6, <3>1 DEF succeed
    <2>. QED BY <2>1, <2>2, <2>3, <2>4, <2>5, <2>6
  <1>8. WorkerTypeOK' /\ Discipline'
    <2>1. CASE Done(cur)
      BY <1>1, <1>4, <2>1, DoneStep
    <2>2. ASSUME NEW t \in PollSteps \ {"insert"}, Goto(cur, t)
          PROVE  WorkerTypeOK' /\ Discipline'
      BY <1>1, <1>4, <2>2, GotoStep, StepSets DEF SameProcess, TypeInv, WorkerTypeOK
    <2>3. \/ Done(cur) \/ Goto(cur, "failTransient") \/ Goto(cur, "failStore")
          \/ Goto(cur, "lookup") \/ Goto(cur, "succeed") \/ Goto(cur, "encode")
          \/ Goto(cur, "storeFailure")
      BY DEF applyInQueue, applyInProgress, applyFailure, classifyTransient, applyCompleted,
         SongForJob, encodeFails, succeed, storeFailure
    <2>. QED BY <2>1, <2>2, <2>3 DEF PollSteps
  <1>. QED BY <1>7, <1>8 DEF TypeInv

\* finish() writes the file and files it.
LEMMA TypeFinish ==
  ASSUME TypeInv, encodeAudio \/ insertSong
  PROVE  TypeInv'
  <1>1. CASE encodeAudio
    <2>1. cur \in DOMAIN rows /\ phase = "poll"
      BY <1>1, AtStep DEF encodeAudio, PollSteps
    <2>2. Goto(cur, "insert") /\ file' \in Files /\ SameProcess /\ UNCHANGED <<job, song, users, requestVars>>
      BY <1>1 DEF encodeAudio, Fresh, SameProcess
    <2>3. WorkerTypeOK' /\ Discipline'
      BY <2>1, <2>2, GotoStep, StepSets DEF SameProcess, TypeInv, WorkerTypeOK, PollSteps, SubmitSteps
    <2>4. disk' \subseteq Files
      BY <1>1 DEF encodeAudio, Fresh, TypeInv, StoreTypeOK
    <2>5. StoreTypeOK'
      BY <2>2, <2>4 DEF TypeInv, StoreTypeOK, requestVars
    <2>. QED BY <2>3, <2>5 DEF TypeInv
  <1>2. CASE insertSong
    <2>1. cur \in DOMAIN rows /\ cur \in Jobs /\ phase = "poll"
      BY <1>2, AtStep DEF insertSong, PollSteps
    <2>2. /\ Goto(cur, "succeed") \/ Goto(cur, "storeFailure")
          /\ file' = NoFile /\ SameProcess /\ UNCHANGED <<job, users, disk, requestVars>>
      BY <1>2 DEF insertSong, SameProcess
    <2>3. WorkerTypeOK' /\ Discipline'
      BY <2>1, <2>2, GotoStep, StepSets DEF SameProcess, TypeInv, WorkerTypeOK, PollSteps, SubmitSteps
    <2>4. song' \in [Jobs -> Files \cup {NoFile}]
      <3>1. file \in Files
        BY <1>2 DEF insertSong, At, TypeInv, WorkerTypeOK
      <3>. QED BY <1>2, <2>1, <3>1 DEF insertSong, CreateSong, TypeInv, StoreTypeOK
    <2>5. StoreTypeOK'
      BY <2>2, <2>4 DEF TypeInv, StoreTypeOK, requestVars
    <2>. QED BY <2>3, <2>5 DEF TypeInv
  <1>. QED BY <1>1, <1>2

\* The statements around POST /run, and the second statement of a failure.
LEMMA TypeSubmits ==
  ASSUME TypeInv, postAccepted \/ postRefused \/ recordId \/ bumpRefused \/ requeue \/ disown
  PROVE  TypeInv'
  <1>1. StoreElsewhere /\ file' = file /\ engines' = engines
    BY ElsewhereSplit DEF postAccepted, postRefused, recordId, bumpRefused, requeue, disown,
       storeVars, StoreElsewhere, SameProcess, requestVars
  <1>2. PICK s \in SubmitSteps : At(s)
    BY DEF postAccepted, postRefused, recordId, bumpRefused, requeue, disown, SubmitSteps
  <1>3. cur \in Jobs /\ cur \in DOMAIN rows /\ phase = "submit" /\ file = NoFile
    BY <1>2, AtStep, StepSets DEF SubmitSteps
  <1>4. job[cur] \in Row
    BY <1>3 DEF TypeInv, StoreTypeOK
  <1>5. posts' \in [Jobs -> 0..2]
    <2>1. CASE postAccepted
      <3>1. posts[cur] \in 0..2
        BY <1>3 DEF TypeInv, WorkerTypeOK
      <3>2. UpTo(posts[cur] + 1, 2) \in 0..2
        BY <3>1, UpToType
      <3>. QED BY <2>1, <3>2 DEF postAccepted, TypeInv, WorkerTypeOK
    <2>2. CASE UNCHANGED posts
      BY <2>2 DEF TypeInv, WorkerTypeOK
    <2>. QED BY <2>1, <2>2, ElsewhereSplit DEF postRefused, recordId, bumpRefused, requeue, disown, SameProcess
  <1>6. ASSUME NEW r \in Row, TransitionJob(cur, "submitting", r) \/ TransitionLost(cur, "submitting")
        PROVE  StoreTypeOK'
    BY <1>1, <1>3, <1>6, TransitionStep, LostStep DEF TypeInv, Live
  <1>7. StoreTypeOK'
    <2>1. CASE postAccepted \/ postRefused
      BY <1>1, <2>1, SameRows DEF postAccepted, postRefused, storeVars, TypeInv
    <2>2. CASE recordId
      <3>1. [Moved(job[cur], "submitted") EXCEPT !.runpod_id = TRUE, !.retries = 0] \in Row
        BY <1>4, RecordedType DEF JobStates, Active, Live
      <3>. QED BY <1>6, <2>2, <3>1 DEF recordId
    <2>3. CASE bumpRefused
      BY <1>1, <1>3, <2>3, BumpStep DEF bumpRefused, TypeInv
    <2>4. CASE requeue
      <3>1. Moved(job[cur], "queued") \in Row
        BY <1>4, MovedType DEF JobStates, Live
      <3>. QED BY <1>6, <2>4, <3>1 DEF requeue
    <2>5. CASE disown
      <3>1. PICK id \in BOOLEAN : OrphanSubmission(cur, id)
        BY <2>5 DEF disown
      <3>. QED BY <1>1, <1>3, <3>1, OrphanStep DEF TypeInv
    <2>. QED BY <2>1, <2>2, <2>3, <2>4, <2>5
  <1>8. WorkerTypeOK' /\ Discipline'
    <2>1. CASE Done(cur) /\ posts' = posts
      BY <1>1, <1>3, <2>1, DoneStep DEF SameProcess
    <2>2. ASSUME NEW t \in SubmitSteps, Goto(cur, t)
          PROVE  WorkerTypeOK' /\ Discipline'
      <3>1. t # "insert" /\ t \notin PollSteps
        BY <2>2 DEF SubmitSteps, PollSteps
      <3>. QED BY <1>1, <1>3, <1>5, <2>2, <3>1, GotoStep
    <2>3. \/ Done(cur) /\ posts' = posts
          \/ \E t \in SubmitSteps : Goto(cur, t)
      BY ElsewhereSplit DEF postAccepted, postRefused, recordId, bumpRefused, requeue, disown,
         SameProcess, SubmitSteps
    <2>. QED BY <2>1, <2>2, <2>3
  <1>. QED BY <1>7, <1>8 DEF TypeInv

LEMMA TypeFail ==
  ASSUME TypeInv, fail
  PROVE  TypeInv'
  <1>1. StoreElsewhere /\ file' = file /\ SameProcess
    BY ElsewhereSplit DEF fail
  <1>2. PICK s \in DOMAIN FailSteps : At(s) /\ FailJob(cur, FailSteps[s])
    BY DEF fail
  <1>3. s \in PollSteps \cup SubmitSteps /\ s # "insert" /\ FailSteps[s] \in Reasons
    BY FailReason
  <1>4. cur \in Jobs /\ cur \in DOMAIN rows /\ file = NoFile
    BY <1>2, <1>3, AtStep
  <1>5. StoreTypeOK'
    BY <1>1, <1>2, <1>3, <1>4, FailStep DEF TypeInv
  <1>6. WorkerTypeOK' /\ Discipline'
    BY <1>1, <1>4, DoneStep DEF fail
  <1>. QED BY <1>5, <1>6 DEF TypeInv

\* The rest of the world.
LEMMA TypeWorld ==
  ASSUME TypeInv, Request \/ Tick \/ \E E \in SUBSET Engines : Restart(E)
  PROVE  TypeInv'
  <1>1. CASE Request
    <2>1. UNCHANGED workerVars /\ posts' = posts
      BY <1>1 DEF Request
    <2>2. WorkerTypeOK' /\ Discipline'
      BY <2>1 DEF workerVars, TypeInv, WorkerTypeOK, Discipline
    <2>3. ASSUME NEW j \in Jobs, AskForJob(j)
          PROVE  StoreTypeOK'
      BY <2>3 DEF AskForJob, TypeInv, StoreTypeOK
    <2>4. ASSUME NEW j \in Jobs, CreateJob(j)
          PROVE  StoreTypeOK'
      <3>1. NewRow("queued") \in Row
        BY NewRowType DEF JobStates, Live
      <3>2. /\ job' \in [Jobs -> Row]
            /\ \A k \in Jobs \ {j} : job'[k] = job[k]
        BY <2>4, <3>1, SetRowType DEF CreateJob, TypeInv, StoreTypeOK
      <3>3. asked' = asked \ {j} /\ UNCHANGED <<song, users, disk, unlinking>>
        BY <2>4 DEF CreateJob
      <3>. QED BY <3>2, <3>3 DEF TypeInv, StoreTypeOK
    <2>5. ASSUME NEW S \in SUBSET Jobs, DeleteRows(S), users' \subseteq users, UNCHANGED <<disk, asked>>
          PROVE  StoreTypeOK'
      <3>1. NewRow("gone") \in Row
        BY NewRowType DEF JobStates
      <3>2. job' \in [Jobs -> Row] /\ \A k \in asked : job'[k].state = "none"
        BY <2>5, <3>1 DEF DeleteRows, RowExists, TypeInv, StoreTypeOK
      <3>3. song' \in [Jobs -> Files \cup {NoFile}] /\ unlinking' \subseteq Files
        BY <2>5 DEF DeleteRows, FilesOf, TypeInv, StoreTypeOK
      <3>. QED BY <2>5, <3>2, <3>3 DEF TypeInv, StoreTypeOK
    <2>6. ASSUME NEW j \in Jobs, DeleteSong(j)
          PROVE  StoreTypeOK'
      BY <2>5, <2>6 DEF DeleteSong
    <2>7. ASSUME NEW u \in Users, DeleteUser(u)
          PROVE  StoreTypeOK'
      BY <2>5, <2>7 DEF DeleteUser
    <2>8. ASSUME NEW f \in Files, Unlink(f)
          PROVE  StoreTypeOK'
      BY <2>8 DEF Unlink, TypeInv, StoreTypeOK
    <2>. QED BY <1>1, <2>2, <2>3, <2>4, <2>6, <2>7, <2>8 DEF Request, TypeInv
  <1>2. CASE Tick
    <2>1. /\ job' = [j \in Jobs |-> Aged(job[j])]
          /\ rows' = [j \in DOMAIN rows |-> Aged(rows[j])]
          /\ UNCHANGED <<song, users, disk, requestVars, phase, cur, step, budget, file, engines, posts>>
      BY <1>2 DEF Tick
    <2>2. StoreTypeOK'
      BY <2>1, AgedType DEF TypeInv, StoreTypeOK, requestVars
    <2>3. /\ DOMAIN rows' = DOMAIN rows
          /\ rows' \in [DOMAIN rows -> Row]
          /\ \A j \in DOMAIN rows : rows'[j].state = rows[j].state
      BY <2>1, AgedType DEF TypeInv, WorkerTypeOK
    <2>4. WorkerTypeOK'
      BY <2>1, <2>3 DEF TypeInv, WorkerTypeOK
    <2>5. Discipline'
      BY <2>1, <2>3 DEF TypeInv, Discipline
    <2>. QED BY <2>2, <2>4, <2>5 DEF TypeInv
  <1>3. CASE \E E \in SUBSET Engines : Restart(E)
    <2>1. PICK E \in SUBSET Engines : Restart(E)
      BY <1>3
    <2>2. StoreTypeOK'
      BY <2>1 DEF Restart, TypeInv, StoreTypeOK
    <2>3. WorkerTypeOK' /\ Discipline'
      BY <2>1, LimitsAssumption, StepSets DEF Restart, TypeInv, WorkerTypeOK, Discipline, Phases
    <2>. QED BY <2>2, <2>3 DEF TypeInv
  <1>. QED BY <1>1, <1>2, <1>3

LEMMA TypeInit == Init => TypeInv
  <1>. SUFFICES ASSUME Init PROVE TypeInv
    OBVIOUS
  <1>1. NewRow("none") \in Row /\ NewRow("none").state = "none"
    BY NewRowType DEF JobStates, NewRow
  <1>2. StoreTypeOK
    BY <1>1 DEF Init, StoreInit, StoreTypeOK
  <1>3. WorkerTypeOK /\ Discipline
    BY LimitsAssumption, StepSets DEF Init, WorkerTypeOK, Discipline, Phases
  <1>. QED BY <1>2, <1>3 DEF TypeInv

LEMMA TypeStep == TypeInv /\ [Next]_vars => TypeInv'
  <1>. SUFFICES ASSUME TypeInv, [Next]_vars PROVE TypeInv'
    OBVIOUS
  <1>1. CASE WorkerStep
    BY <1>1, TypeScans, TypeTurns, TypePolls, TypeFinish, TypeSubmits, TypeFail DEF WorkerStep
  <1>2. CASE Request \/ Tick \/ \E E \in SUBSET Engines : Restart(E)
    BY <1>2, TypeWorld
  <1>3. CASE UNCHANGED vars
    BY <1>3 DEF vars, storeVars, requestVars, workerVars, TypeInv, StoreTypeOK, WorkerTypeOK, Discipline
  <1>. QED BY <1>1, <1>2, <1>3 DEF Next

LEMMA TypeAlways == Spec => []TypeInv
  BY TypeInit, TypeStep, PTL DEF Spec

\* Every variable keeps its type, and the worker's bookkeeping (the row it holds,
\* the file it has written) agrees with the statement it is about to make.
THEOREM TypeCorrect == Spec => []TypeOK
  <1>1. TypeInv => TypeOK
    BY DEF TypeInv, WorkerTypeOK, TypeOK
  <1>. QED BY <1>1, TypeAlways, PTL

-----------------------------------------------------------------------------
(* The life of a row: what any step of the worker does to any job.         *)

Stays(k) == job'[k].state = job[k].state /\ job'[k].runpod_id = job[k].runpod_id

\* FailJob and OrphanSubmission.
Fails(k) == job[k].state \in Live /\ job'[k].state = "failed"

\* The worker's own transitions, each from one step of its loop.
Claimed(k) ==
  /\ job[k].state = "queued" /\ job'[k].state = "submitting"
  /\ cur' = k /\ step' \in {"post", "failConfig"}
Requeued(k) ==
  /\ job[k].state = "submitting" /\ job'[k].state = "queued"
  /\ cur = k /\ step = "requeue"
Recorded(k) ==
  /\ job[k].state = "submitting" /\ job'[k].state = "submitted" /\ job'[k].runpod_id
  /\ cur = k /\ step = "record"
Progresses(k) ==
  /\ job[k].state \in Active /\ job'[k].state \in Active
  /\ job'[k].runpod_id = job[k].runpod_id
Succeeds(k) ==
  /\ job[k].state \in Active /\ job'[k].state = "succeeded"
  /\ cur = k /\ step = "succeed"

RowStep(k) ==
  \/ Stays(k) \/ Fails(k) \/ Claimed(k) \/ Requeued(k)
  \/ Recorded(k) \/ Progresses(k) \/ Succeeds(k)

\* One row at most.
RowsStep ==
  \/ job' = job
  \/ \E j \in Jobs : RowStep(j) /\ \A k \in Jobs \ {j} : job'[k] = job[k]

LEMMA EachRow ==
  ASSUME RowsStep
  PROVE  \A k \in Jobs : RowStep(k)
  BY DEF RowsStep, RowStep, Stays

LEMMA OthersStay ==
  ASSUME NEW j \in Jobs, \A k \in Jobs \ {j} : job'[k] = job[k], RowStep(j)
  PROVE  RowsStep
  BY DEF RowsStep

LEMMA FailsStep ==
  ASSUME NEW j \in Jobs, NEW A \in SUBSET Live, Moves(j, A, {"failed"})
  PROVE  RowsStep
  BY DEF Moves, RowStep, RowsStep, Stays, Fails

LEMMA RowEffects ==
  ASSUME TypeInv, WorkerStep
  PROVE  RowsStep
  <1>. USE DEF TypeInv
  <1>1. CASE ScanSubmitting \/ ScanRecovery \/ ScanActive \/ CountActive \/ DequeueQueued
    BY <1>1 DEF RowsStep, ScanSubmitting, ScanRecovery, ScanActive, CountActive, DequeueQueued
  <1>2. ASSUME NEW j \in Jobs,
               \/ failAmbiguousSubmission(j) \/ failExpired(j) \/ pollSkip(j) \/ pollGiveUp(j)
               \/ pollStatus(j) \/ submitSkip(j) \/ submitExpired(j)
        PROVE  RowsStep
    <2>1. StoreElsewhere
      BY <1>2, ElsewhereSplit DEF failAmbiguousSubmission, failExpired, pollSkip,
         pollGiveUp, pollStatus, submitSkip, submitExpired
    <2>2. CASE FailJob(j, "timeout") \/ FailJob(j, "other")
      BY <2>1, <2>2, FailStep, FailsStep DEF Reasons
    <2>3. CASE failAmbiguousSubmission(j)
      <3>1. rows[j].runpod_id \in BOOLEAN
        BY <2>3, TurnStep DEF failAmbiguousSubmission, Row
      <3>. QED BY <2>1, <2>3, <3>1, OrphanStep, FailsStep DEF failAmbiguousSubmission, Live
    <2>. QED BY <1>2, <2>2, <2>3 DEF RowsStep, failExpired, pollSkip, pollGiveUp, pollStatus,
            submitSkip, submitExpired
  <1>3. ASSUME NEW j \in Jobs, submitClaim(j)
        PROVE  RowsStep
    <2>1. StoreElsewhere
      BY <1>3, ElsewhereSplit DEF submitClaim
    <2>2. CASE TransitionLost(j, "queued")
      BY <2>2 DEF RowsStep, TransitionLost
    <2>3. CASE /\ TransitionJob(j, "queued", Moved(job[j], "submitting"))
               /\ Goto(j, IF clientFor(j) THEN "post" ELSE "failConfig")
      <3>. DEFINE q == Moved(job[j], "submitting")
      <3>1. q \in Row /\ q.state = "submitting"
        BY MovedType DEF StoreTypeOK, JobStates, Live
      <3>. HIDE DEF q
      <3>2. /\ job[j].state = "queued" /\ job'[j] = q
            /\ \A k \in Jobs \ {j} : job'[k] = job[k]
        BY <2>1, <2>3, <3>1, TransitionStep DEF Live, q
      <3>. QED BY <2>3, <3>1, <3>2, OthersStay DEF Goto, RowStep, Claimed
    <2>. QED BY <1>3, <2>2, <2>3 DEF submitClaim
  <1>4. CASE \/ applyCompleted \/ SongForJob \/ encodeAudio \/ encodeFails \/ insertSong
             \/ postAccepted \/ postRefused
    BY <1>4 DEF RowsStep, applyCompleted, SongForJob, encodeAudio, encodeFails, insertSong,
       postAccepted, postRefused, storeVars
  <1>5. CASE classifyTransient \/ storeFailure \/ bumpRefused
    <2>1. StoreElsewhere /\ (BumpRetries(cur) \/ BumpLost(cur))
      BY <1>5, ElsewhereSplit DEF classifyTransient, storeFailure, bumpRefused
    <2>2. cur \in Jobs
      BY <1>5, AtStep DEF classifyTransient, storeFailure, bumpRefused, PollSteps, SubmitSteps
    <2>. QED BY <2>1, <2>2, BumpStep, OthersStay DEF RowStep, Stays
  <1>6. CASE applyFailure \/ fail
    <2>1. StoreElsewhere
      BY <1>6, ElsewhereSplit DEF applyFailure, fail
    <2>2. cur \in Jobs /\ \E why \in Reasons : FailJob(cur, why)
      <3>1. CASE applyFailure
        BY <3>1, AtStep DEF applyFailure, PollSteps, Reasons
      <3>2. CASE fail
        BY <3>2, AtStep, FailReason DEF fail
      <3>. QED BY <1>6, <3>1, <3>2
    <2>. QED BY <2>1, <2>2, FailStep, FailsStep
  <1>7. CASE disown
    <2>1. StoreElsewhere /\ \E id \in BOOLEAN : OrphanSubmission(cur, id)
      BY <1>7, ElsewhereSplit DEF disown
    <2>2. cur \in Jobs
      BY <1>7, AtStep DEF disown, SubmitSteps
    <2>. QED BY <2>1, <2>2, OrphanStep, FailsStep DEF Live
  <1>8. CASE recordId
    <2>1. StoreElsewhere /\ cur \in Jobs /\ step = "record"
      BY <1>8, ElsewhereSplit, AtStep DEF recordId, SubmitSteps, At
    <2>. DEFINE q == [Moved(job[cur], "submitted") EXCEPT !.runpod_id = TRUE, !.retries = 0]
    <2>2. q \in Row /\ q.state = "submitted" /\ q.runpod_id
      BY <2>1, RecordedType DEF StoreTypeOK, JobStates, Live, Active
    <2>3. TransitionJob(cur, "submitting", q) \/ UNCHANGED job
      BY <1>8 DEF recordId, TransitionLost
    <2>. HIDE DEF q
    <2>4. CASE TransitionJob(cur, "submitting", q)
      <3>1. /\ job[cur].state = "submitting" /\ job'[cur] = q
            /\ \A k \in Jobs \ {cur} : job'[k] = job[k]
        BY <2>1, <2>2, <2>4, TransitionStep DEF Live
      <3>. QED BY <2>1, <2>2, <3>1, OthersStay DEF RowStep, Recorded
    <2>. QED BY <2>3, <2>4 DEF RowsStep
  <1>9. CASE requeue
    <2>1. StoreElsewhere /\ cur \in Jobs /\ step = "requeue"
      BY <1>9, ElsewhereSplit, AtStep DEF requeue, SubmitSteps, At
    <2>. DEFINE q == Moved(job[cur], "queued")
    <2>2. q \in Row /\ q.state = "queued"
      BY <2>1, MovedType DEF StoreTypeOK, JobStates, Live
    <2>3. TransitionJob(cur, "submitting", q) \/ UNCHANGED job
      BY <1>9 DEF requeue, TransitionLost
    <2>. HIDE DEF q
    <2>4. CASE TransitionJob(cur, "submitting", q)
      <3>1. /\ job[cur].state = "submitting" /\ job'[cur] = q
            /\ \A k \in Jobs \ {cur} : job'[k] = job[k]
        BY <2>1, <2>2, <2>4, TransitionStep DEF Live
      <3>. QED BY <2>1, <2>2, <3>1, OthersStay DEF RowStep, Requeued
    <2>. QED BY <2>3, <2>4 DEF RowsStep
  <1>10. CASE applyInQueue \/ applyInProgress \/ succeed
    <2>1. StoreElsewhere /\ cur \in Jobs /\ rows[cur].state \in Active
      BY <1>10, ElsewhereSplit, AtStep DEF applyInQueue, applyInProgress, succeed, PollSteps
    <2>2. job[cur] \in Row /\ rows[cur].state \in Live
      BY <2>1 DEF StoreTypeOK, Live
    <2>3. ASSUME NEW q \in Row, transition(cur, rows[cur].state, q),
                 \/ q.state \in Active /\ q.runpod_id = job[cur].runpod_id
                 \/ q.state = "succeeded" /\ step = "succeed"
          PROVE  RowsStep
      <3>1. CASE TransitionLost(cur, rows[cur].state)
        BY <3>1 DEF RowsStep, TransitionLost
      <3>2. CASE TransitionJob(cur, rows[cur].state, q)
        <4>1. /\ job[cur].state \in Active /\ job'[cur] = q
              /\ \A k \in Jobs \ {cur} : job'[k] = job[k]
          BY <2>1, <2>2, <3>2, TransitionStep
        <4>. QED BY <2>1, <2>3, <4>1, OthersStay DEF RowStep, Progresses, Succeeds
      <3>. QED BY <2>3, <3>1, <3>2 DEF transition
    <2>4. CASE applyInQueue
      <3>. DEFINE q == [Moved(job[cur], "submitted") EXCEPT !.retries = 0]
      <3>1. q \in Row /\ q.state = "submitted" /\ q.runpod_id = job[cur].runpod_id
        BY <2>2, QueuedType DEF JobStates, Live, Active
      <3>2. transition(cur, rows[cur].state, q)
        BY <2>4 DEF applyInQueue
      <3>. HIDE DEF q
      <3>. QED BY <2>3, <3>1, <3>2 DEF Active
    <2>5. CASE applyInProgress
      <3>. DEFINE b == rows[cur].started = NeverStarted
                  q == [Moved(job[cur], "running") EXCEPT !.retries = 0, !.started = IF b THEN 0 ELSE @]
      <3>1. b \in BOOLEAN
        OBVIOUS
      <3>2. transition(cur, rows[cur].state, q)
        BY <2>5 DEF applyInProgress
      <3>. HIDE DEF b
      <3>3. "running" \in JobStates
        BY DEF JobStates, Live, Active
      <3>4. q \in Row /\ q.state = "running" /\ q.runpod_id = job[cur].runpod_id
        BY <2>2, <3>1, <3>3, StartedType, Zenon
      <3>. HIDE DEF q
      <3>. QED BY <2>3, <3>2, <3>4 DEF Active
    <2>6. CASE succeed
      <3>. DEFINE q == Ended(job[cur], "succeeded", "")
      <3>1. q \in Row /\ q.state = "succeeded"
        BY <2>2, EndedType DEF JobStates, Terminal, Reasons
      <3>2. transition(cur, rows[cur].state, q) /\ step = "succeed"
        BY <2>6 DEF succeed, At
      <3>. HIDE DEF q
      <3>. QED BY <2>3, <3>1, <3>2
    <2>. QED BY <1>10, <2>4, <2>5, <2>6
  <1>. QED BY <1>1, <1>2, <1>3, <1>4, <1>5, <1>6, <1>7, <1>8, <1>9, <1>10 DEF WorkerStep

\* What requests, the clock and a restart do to it.
LEMMA WorldEffects ==
  ASSUME TypeInv, Request \/ Tick \/ \E E \in SUBSET Engines : Restart(E)
  PROVE  \A k \in Jobs : \/ Stays(k)
                         \/ job[k].state = "none" /\ job'[k].state = "queued"
                         \/ job[k].state # "none" /\ job'[k].state = "gone"
  <1>. USE DEF TypeInv
  <1>1. CASE UNCHANGED job
    BY <1>1 DEF Stays
  <1>2. ASSUME NEW j \in Jobs, CreateJob(j)
        PROVE  \A k \in Jobs : Stays(k) \/ (job[k].state = "none" /\ job'[k].state = "queued")
    <2>. DEFINE q == NewRow("queued")
    <2>1. q \in Row /\ q.state = "queued"
      BY NewRowType DEF JobStates, Live, NewRow
    <2>2. SetRow(j, q) /\ job[j].state = "none"
      BY <1>2 DEF CreateJob, StoreTypeOK
    <2>. HIDE DEF q
    <2>3. job'[j] = q /\ \A k \in Jobs \ {j} : job'[k] = job[k]
      BY <2>1, <2>2, SetRowType DEF StoreTypeOK
    <2>. QED BY <2>1, <2>2, <2>3 DEF Stays
  <1>3. ASSUME NEW S \in SUBSET Jobs, DeleteRows(S)
        PROVE  \A k \in Jobs : Stays(k) \/ (job[k].state # "none" /\ job'[k].state = "gone")
    BY <1>3 DEF DeleteRows, NewRow, RowExists, Stays
  <1>4. CASE Tick
    BY <1>4, AgedType DEF Tick, StoreTypeOK, Stays
  <1>5. CASE Request
    BY <1>1, <1>2, <1>3, <1>5 DEF Request, AskForJob, DeleteSong, DeleteUser, Unlink
  <1>6. CASE \E E \in SUBSET Engines : Restart(E)
    BY <1>1, <1>6 DEF Restart
  <1>. QED BY <1>4, <1>5, <1>6

=============================================================================
