------------------------------ MODULE JobStore ------------------------------
(***************************************************************************)
(* The jobs and songs tables (internal/store/store.go), the audio          *)
(* directory beside them, and the requests that create and delete rows.    *)
(*                                                                         *)
(* SQLite is opened with one connection, so every statement and every      *)
(* transaction below is one atomic step.  Timestamps are kept as the time  *)
(* elapsed since them, saturated at Horizon: no comparison in the code     *)
(* tells two longer intervals apart.  Payload columns (lyrics, caption,    *)
(* seed, score, title...) are left out; a job keeps its owner for life.    *)
(***************************************************************************)
EXTENDS Integers, FiniteSets

CONSTANTS
  Jobs,       \* job ids, numbered in created_at order
  Users,      \* account ids
  Owner,      \* the account each job is created for (jobs.user_id)
  Files,      \* audio file names, the room there is on the volume
  NoFile,     \* no audio file
  Horizon,    \* the longest elapsed time that is told apart
  RetryCap,   \* the largest retries value that is told apart
  Faulty      \* the store operations that may return an error

ASSUME JobsAssumption == IsFiniteSet(Jobs) /\ Jobs \subseteq Nat \ {0}
ASSUME OwnerAssumption == Owner \in [Jobs -> Users]
ASSUME FilesAssumption == NoFile \notin Files
ASSUME CapsAssumption == Horizon \in Nat \ {0} /\ RetryCap \in Nat \ {0}

VARIABLES
  job,        \* the jobs table: a row per id, "none" before and "gone" after it exists
  song,       \* the songs table by its unique job_id: the file audio_path names
  users,      \* the accounts that exist
  disk,       \* the files in the audio directory
  asked,      \* jobs whose request is authenticated and stamped but not yet inserted
  unlinking   \* files a delete request has still to remove, its rows committed away

requestVars == <<asked, unlinking>>
storeVars == <<job, song, users, disk, requestVars>>

-----------------------------------------------------------------------------
(* Rows.                                                                   *)

Active == {"submitted", "running"}
Live == {"queued", "submitting"} \cup Active
Terminal == {"succeeded", "failed"}
JobStates == {"none", "gone"} \cup Live \cup Terminal

\* What jobs.error says: a budget ran out, polling or storing failed too often,
\* the submission was given up, or anything else (configuration, RunPod's verdict).
Reasons == {"", "timeout", "transient", "store", "submit", "other"}

\* started_at IS NULL: the job never reached a GPU.
NeverStarted == -1

Row == [state: JobStates, runpod_id: BOOLEAN, error: Reasons,
        retries: 0..RetryCap, created: 0..Horizon,
        started: {NeverStarted} \cup 0..Horizon, updated: 0..Horizon]

NewRow(state) ==
  [state |-> state, runpod_id |-> FALSE, error |-> "", retries |-> 0,
   created |-> 0, started |-> NeverStarted, updated |-> 0]

RowExists(j) == job[j].state \notin {"none", "gone"}
InState(S) == {j \in Jobs : job[j].state \in S}

UpTo(n, cap) == IF n > cap THEN cap ELSE n

\* One unit of time later.
Aged(r) ==
  IF r.state \notin Live THEN r
  ELSE [r EXCEPT !.created = UpTo(@ + 1, Horizon),
                 !.updated = UpTo(@ + 1, Horizon),
                 !.started = IF @ = NeverStarted THEN @ ELSE UpTo(@ + 1, Horizon)]

\* ORDER BY created_at LIMIT n over the ids in S.
Oldest(R, S, n) ==
  /\ R \subseteq S
  /\ Cardinality(R) <= n
  /\ R # S => Cardinality(R) = n
  /\ \A j \in R, k \in S \ R : j < k

-----------------------------------------------------------------------------
(* The worker's statements on one row.  Each either happens or leaves the  *)
(* table alone: because its WHERE clause matches nothing, or because the   *)
(* database reports an error.                                              *)

Failing(op) == op \in Faulty

SetRow(j, r) == job' = [job EXCEPT ![j] = r]

\* UPDATE ... SET state = to, updated_at = now.
Moved(r, to) == [r EXCEPT !.state = to, !.updated = 0]

\* A terminal row: nothing reads its retries or its timestamps again, so they are
\* dropped here.
Ended(r, to, why) == [NewRow(to) EXCEPT !.runpod_id = r.runpod_id, !.error = why]

TransitionJob(j, from, r) ==
  /\ job[j].state = from
  /\ SetRow(j, r)

TransitionLost(j, from) ==
  /\ job[j].state # from \/ Failing("TransitionJob")
  /\ UNCHANGED job

\* Callers ignore "already terminal" and only log anything else.
FailJob(j, why) ==
  \/ /\ job[j].state \in Live
     /\ SetRow(j, Ended(job[j], "failed", why))
  \/ /\ job[j].state \notin Live \/ Failing("FailJob")
     /\ UNCHANGED job

OrphanSubmission(j, id) ==
  \/ /\ job[j].state = "submitting"
     /\ SetRow(j, [Ended(job[j], "failed", "submit") EXCEPT !.runpod_id = id])
  \/ /\ job[j].state # "submitting" \/ Failing("OrphanSubmission")
     /\ UNCHANGED job

BumpRetries(j) ==
  /\ RowExists(j)
  /\ SetRow(j, [job[j] EXCEPT !.retries = UpTo(@ + 1, RetryCap), !.updated = 0])

BumpLost(j) ==
  /\ ~RowExists(j) \/ Failing("BumpRetries")
  /\ UNCHANGED job

\* INSERT OR IGNORE: the unique index on job_id drops a second song.
CreateSong(j, f) == song' = IF song[j] = NoFile THEN [song EXCEPT ![j] = f] ELSE song

-----------------------------------------------------------------------------
(* Requests.                                                               *)

\* handleCreateJob and its edit and cover siblings check the session first and
\* stamp created_at just before the INSERT; the account may go in between, but no
\* tick of the clock is told apart.
AskForJob(j) ==
  /\ job[j].state = "none" /\ j \notin asked
  /\ \A k \in Jobs : k < j => job[k].state # "none" \/ k \in asked
  /\ Owner[j] \in users
  /\ asked' = asked \cup {j}
  /\ UNCHANGED <<job, song, users, disk, unlinking>>

CreateJob_Twice(j) ==
  /\ j \in asked
  /\ SetRow(j, NewRow("queued"))
  /\ UNCHANGED <<song, users, disk, asked, unlinking>>

CreateJob(j) ==
  /\ j \in asked
  /\ asked' = asked \ {j}
  /\ SetRow(j, NewRow("queued"))
  /\ UNCHANGED <<song, users, disk, unlinking>>

\* The audio paths of the songs of S, to be removed once their rows are.
FilesOf(S) == {song[j] : j \in S} \ {NoFile}

DeleteRows_FilesFirst(S) ==
  /\ UNCHANGED <<job, song>>
  /\ unlinking' = unlinking \cup FilesOf(S)

\* The rows of the jobs in S and their songs, removed in one transaction that
\* returns the audio paths.  A deleted row keeps nothing but the fact.
DeleteRows(S) ==
  /\ job' = [j \in Jobs |-> IF j \in S /\ RowExists(j) THEN NewRow("gone") ELSE job[j]]
  /\ song' = [j \in Jobs |-> IF j \in S THEN NoFile ELSE song[j]]
  /\ unlinking' = unlinking \cup FilesOf(S)

\* handleDeleteSong: the song and its job together.
DeleteSong(j) ==
  /\ song[j] # NoFile
  /\ DeleteRows({j})
  /\ UNCHANGED <<users, disk, asked>>

\* handleDeleteUser: the account and everything filed under it.
DeleteUser(u) ==
  /\ u \in users
  /\ DeleteRows({j \in Jobs : Owner[j] = u})
  /\ users' = users \ {u}
  /\ UNCHANGED <<disk, asked>>

\* os.Remove after the commit; a failure is logged and the file stays.
Unlink(f) ==
  /\ f \in unlinking
  /\ unlinking' = unlinking \ {f}
  /\ disk' \in {disk, disk \ {f}}
  /\ UNCHANGED <<job, song, users, asked>>

StoreInit ==
  /\ job = [j \in Jobs |-> NewRow("none")]
  /\ song = [j \in Jobs |-> NoFile]
  /\ users = Users
  /\ disk = {}
  /\ asked = {}
  /\ unlinking = {}

StoreTypeOK ==
  /\ job \in [Jobs -> Row]
  /\ song \in [Jobs -> Files \cup {NoFile}]
  /\ users \subseteq Users
  /\ disk \subseteq Files
  /\ asked \subseteq {j \in Jobs : job[j].state = "none"}
  /\ unlinking \subseteq Files
=============================================================================
