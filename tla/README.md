# Verification of minmaxmusic3-web

minmaxmusic3-web is a Go web application. Users ask for songs, a background
worker has them generated on RunPod's serverless GPUs (each generation costs
money), stores the audio and files it in each user's library. State lives in one
SQLite database and one data volume. This directory holds TLA+ models of the
program, TLC runs over small instances, and theorems checked by TLAPS.

## Inventory

| Component | State | Operations | Correct when |
|---|---|---|---|
| Job and song store, `internal/store` | `jobs`, `songs` (one song per job), the audio directory | compare-and-set of a job's state, fail, orphan, bump retries, insert song, delete song, delete account | each statement is atomic (one connection); a row never names a missing file |
| Background worker, `internal/worker` | none across a restart; scanned rows while it runs | recovery at boot; every 2 s poll active jobs, then submit queued ones | no job is billed twice, the in-flight cap holds, a success has its song, every job ends |
| RunPod client, `internal/runpod` | none | submit, status, cancel; error taxonomy; output envelope | "retryable" only when nothing was enqueued; audio that is there is found; paid work is not discarded |
| Generate, edit and cover forms, `internal/server/{handlers,cover}.go` | none; they queue jobs and start from stored songs | create, edit, cover a song, an upload or an address | no job is queued that its endpoint is bound to refuse, a negative seed apart; provenance is true |
| Accounts, sessions, administration, `internal/server/{auth,access,admin}.go` | `users`, `sessions` | register, login, logout, approve, disable, delete | a request runs only for an account approved now; one administrator always remains |
| Cover links, uploads, janitor, `internal/server/cover.go`, `worker.RunJanitor` | `cover_links`, `cover_uploads`, staged files | stage, mint, serve, sweep | a link lives as long as a GPU may ask for it; every staged file has a record and leaves in the end, unless a stop or a refused removal loses it |
| Rate limiter, `internal/server/ratelimit.go` | a count per address in one shared window | allow | nobody exceeds two allowances; nobody pays for another's requests |
| Lyrics lookup, `internal/lyrics` | decode slots, spacing gates | lookup | provider calls spaced, cancellation releases everything; words filled in unasked only when undisputed |
| Score transposition, `internal/abc` | the bar being rewritten | transpose | every note sounds the interval away, spelled in the simplest key |
| Song assistant, `internal/llm` | none | draft, rewrite the style | one deadline over both attempts; nothing merely thought is offered, and nothing that an answer says was cut short |
| History pages, `internal/server/history.go`, `access.go` | none | page through sections, share, delete, listen | pages neither skip nor repeat; audio only to the entitled |
| Backup and restore, `docker/` | the bucket | replicate, copy, restore | a backup is never replaced by an unrelated database; a recovery is complete |
| Access gate, configuration, audio transcoding, web scripts, operator tools | none of their own | | |

### How they interact

Handlers run one goroutine per request and share the database with the worker;
the connection pool has one connection, so statements and transactions are
atomic and everything between them interleaves. The worker is one goroutine: it
reads rows, calls RunPod, and writes with a `WHERE state = ?` guard. Files are
written before the row that names them and removed after the row is gone. No
foreign key ties a song to its job or a job to its account. On shutdown nothing
waits for the worker, so stopping the process is a crash as far as it is
concerned. The janitor is a second goroutine; it meets the handlers in the
`cover_*` tables and the worker's budgets in the lifetimes of links. Lookups
share two decode slots and one gate per provider; every limiter lives in memory.
Restore, replication and file sync are processes beside the app that see its
volume only.

### What is hard

- The gap between a remote call and the statement that records it: a crash, a
  lost answer or a failing statement falls into it, and guessing wrong bills twice.
- Rows are read, then a remote call takes seconds to minutes, then the row is
  written: the clock, deletions and restarts come in between. A login does the
  same around its password check.
- Time: queue and run budgets, poll cadence and submission backoff must together
  end every job, although the endpoint can requeue a job any number of times;
  links must outlive those budgets and be swept all the same.
- One `retries` column serves three different limits.
- Deletions race the worker, the janitor, uploads under way and each other.
- Answers arrive cut, enveloped, streamed, or as an error that looks like success.
- A lookup waits for slots and gates that others hold while they sleep.

PROJECT.json lists each of these at its line, with the properties that watch it.

## Modules

| Module | Contents |
|---|---|
| `JobStore` | the tables of jobs and songs, the worker's statements as operators, the requests as actions |
| `JobWorker` | the worker, RunPod's answers, clock and restarts; the properties |
| `JobLifecycle` | the abstract job: wait, be billed at most once, publish, end |
| `JobRefinement` | the mapping from `JobWorker` to `JobLifecycle` |
| `RunPodClient` | one job's HTTP exchanges with RunPod, and the download of its audio |
| `GenerateForm` | the forms, the jobs they queue, the requests and songs those become |
| `Accounts` | users, sessions and administration, request by request |
| `Covers` | staged uploads, links, the janitor, deletions, restarts |
| `Library` | sections and their pages, sharing, deleting, listening |
| `RateLimit` | the shared fixed window |
| `LyricsLookup` | slots, gates, deadlines and cancellation of concurrent lookups |
| `LyricsMatch` | the ranking of recordings and the automatic choice of words |
| `Transpose` | keys, intervals, notes, bars and chords of a score |
| `Assistant` | the exchange with the chat model and the parsers of its reply |
| `Backup` | restore, replication, file sync, lost volumes |
| `Access`, `Exchange` | the products of the components that share no state: accounts, library and limiter; client, forms, answers, score and backup |
| `MC...` | constants for TLC; `MCJobHistory` adds a history variable for one finding |
| `JobWorkerProofs` | lemmas about the worker's statements and steps; type correctness |
| `JobSafetyProofs` | the worker's safety properties and its refinement of `JobLifecycle` |
| `AccessProofs`, `CoversProofs`, `LyricsLookupProofs`, `RunPodClientProofs`, `ExchangeProofs`, `AssistantProofs` | the theorems about the other components |

### The worker: state

`job[j]` is a row of `jobs`: its state, whether `runpod_id` is set, the kind of
`error`, `retries`, and the three timestamps as elapsed time. `"none"` is a row not
yet inserted and `"gone"` one deleted. `song[j]` is the audio file of the job's song
(`songs.job_id` is unique), `disk` the audio directory, `users` the accounts.
`asked` holds requests between the session check and the INSERT, `unlinking`
the files a handler has committed to remove and not removed yet. `phase`, `rows`,
`cur`, `step`, `budget` and `file` are the worker's position in its loops and its
local variables. `engines` are the endpoints configured in this process.
`posts[j]` counts the POSTs RunPod accepted: it exists in no database and is what
the bill says.

### The worker: actions and code

One action is one statement or one remote call and the decisions up to the next.

| Code | Actions |
|---|---|
| `failAmbiguousSubmissions` | `ScanSubmitting`, `failAmbiguousSubmission` |
| `failExpired` | `ScanRecovery`, `failExpired` |
| `pollActive` | `ScanActive`, `pollSkip`, `pollGiveUp`, `pollStatus` |
| `applyStatus`, `classify` | `applyInQueue`, `applyInProgress`, `applyFailure`, `applyCompleted`, `classifyTransient`, `fail` |
| `complete`, `finish`, `storeFailure` | `SongForJob`, `encodeAudio`, `encodeFails`, `insertSong`, `succeed`, `storeFailure`, `fail` |
| `submitQueued`, `submitOne` | `CountActive`, `DequeueQueued`, `submitSkip`, `submitExpired`, `submitClaim` |
| `post`, `classifySubmit` | `postAccepted`, `postRefused`, `recordId`, `bumpRefused`, `requeue`, `disown` |
| `queueJob`, `handleDeleteSong`, `handleDeleteUser` | `AskForJob`, `CreateJob`, `DeleteSong`, `DeleteUser`, `Unlink` |

A statement operator offers its success, the WHERE clause that matches nothing,
and, for the operations in `Faulty`, an error. What the callers do with each is in
the actions.

### The other components

- **RunPodClient.** `JobWorker` takes the outcome of an exchange as given; here the
  exchange is taken apart. `call` and `answer` are the request that is out and what came
  back; RunPod's side (`RunEnqueues`, `RunRefuses`, `RemoteEnds`, `StatusAnswered`,
  `AudioAnswered`) acts, and the client decides from the answer alone: `Error`,
  `IsRetryableSubmit`, `IsPermanent` and `OutputOf` are the functions of `runpod.go`,
  `classifySubmit`, `classify`, `applyStatus`, `complete`, `fetch` and `finish` those of
  `worker.go`. `BodiesCut` lets a connection die inside the body of a 200.
- **GenerateForm.** A form is a record of what the handlers tell apart; `handleCreateJob`,
  `handleEditSong`, `handleCreateCover`, `handleCoverSong` queue a `job`, `requestFor` is
  what the worker sends for it, and `Succeeds` files the `song` the next form starts from,
  under the engine the output reports (`engineMade`; "diffusers" is neither of the app's own)
  or else the job's. A score is `movable` if `notation.Transpose` can change its key.
  `AcceptsSeed` and `AcceptsRest` are the endpoint's side of the contract.
- **Accounts.** Each request is a process: `LoginLookup` reads the row, `LoginVerified`
  comes after the password check, `RevokePresented` and `CreateSession` are the two
  statements of `startSession`. An administrator's transaction holds `conn` from
  `adminAction` through `guardLastAdmin` to `Write` or `Rollback`. Roles are the operator's
  (README.md:327) and do not change.
- **Covers.** A request is followed from `authenticate`, the only time its account is asked
  for, through `storeUpload`, `RecordCoverUpload`, `mintCoverURL` and `queueJob`; its job
  starts and ends within the worker's budgets; `sweepOnce` is four actions, deletion two.
  `Restart` cuts everything short. `Remove` is `os.Remove`, which may be refused for any of its
  names: the file stays, and no caller tries again. `stray` (history) are the files that a stop
  or a refusal left on disk with nothing under way to file or remove them.
- **Library.** `newSection` is the look-ahead page, `handleHistory` and `sectionFragment`
  a walk through it, `Song` and `PublicSong` the two reads behind `handleAudio`.
- **RateLimit.** `allow` opens the window if it is over, then admits or refuses.
- **LyricsLookup.** `at[p]` is where a lookup waits or works, `gate`, `delay` and `next` are
  `limiter.wait`'s lock, sleep and next slot. Anything that waits may be abandoned at the
  deadline or when the caller goes.
- **LyricsMatch.** One lookup's candidates in order; `truth` keeps what the services said.
- **Transpose.** The tokens of a score one by one. The readers (`strictBar`, `looseBar`)
  are not code: they hear what was written, each by one reading of an accidental's range.
- **Assistant.** The gateway begins, writes, concludes, and ends cleanly or breaks off, at any
  time and whether it gave a finish reason or not; `complete` is the client's reading, in
  the code's order, and `Parse` picks the parser.
- **Backup.** `stack` is where the start order stands. A restore may fail at each step.
  `unfiled` are the files between `EncodeAudioToM4A` and `CreateSong`, which may come of age there.

### Abstractions and assumptions

- Timestamps are elapsed times that stop at `Horizon`; `retries` stops at
  `RetryCap`. `SaturationAssumption` keeps every threshold below both, so no
  comparison in the code changes its answer. `Covers` counts ages in the same way,
  `RateLimit` and `LyricsLookup` distances from the present.
- A terminal row drops its timestamps and retries: nothing reads them again.
- The two SELECTs of `ActiveJobs` are one step. Only the worker moves rows between
  the two states, so only a deletion could fall between them, and it removes rows
  either way.
- `Cancel` has no effect on this side and RunPod may answer anything afterwards.
- ffmpeg leaves a whole file or none; a failing transcode removes its output. A crash
  inside it may leave a partial file no row names: it is like the file a crash before
  `insertSong` leaves.
- The last-administrator guard is in `Accounts`, not in `JobStore`: there every account is
  an ordinary one.
- RunPod is external. The one thing assumed of it is what `IsRetryableSubmit` assumes:
  429, 503, 409 and a success without an id mean that nothing was enqueued. (The
  comment above `classifySubmit` still speaks of 429 alone.)
- What the model writes while thinking stands between its tags, or after an opening one
  (`ThoughtsAreTagged`); text outside them is its answer.
- A JSON answer cut short cannot be parsed: it counts as a broken connection (`Assistant`).
- Scores are chromatic tokens: text, words and rests are copied by the code and left out, as
  are scores with an unclosed quote or bracket. Song titles are left out.
- Scores in `LyricsMatch` are whole hundredths and compared exactly; the code compares
  floating-point numbers, so a lead of exactly 0.05 may count there as less.
- In `Backup` rows reach the bucket at once or some time later (`replicate` is a step); the
  copy of files never deletes, so the file of a deleted song may come back with a restore.
- The audio directory lies in `/data` (`Covers`; the code spells the path of staged
  uploads twice, see below).
- The limiter's counts are lost on a restart, which admits more; `RateLimit` has none.

## Runs

Every passing run explores its whole state space.

| Run | Instance | Shows |
|---|---|---|
| `faults` | `JobWorker`: 2 jobs, 1 account, 2 files, cap 1, every statement may fail | `TypeOK`, `BilledOnce`, `ActiveIsBilled`, `SucceededHasSong`, `SongHasAudio`, `RunClockStands` |
| `refines` | `JobWorker`: the same with 1 file | `ImplementsLifecycle` |
| `liveness` | `JobWorker`: 2 jobs, 1 file, storing may fail | `InFlightCap`, `ClaimIsHeld`, `EveryJobEnds` |
| `covers` | `Covers`: an upload and a library song of one account | `TypeOK`, `LinkOutlivesJob`, `StagedIsTracked`, `DeletedAccountLeavesNothing`, `NothingStagedStays` |
| `access` | `Accounts` with 2 accounts, 2 requests, 2 tokens, 1 credential change; `Library` with 3 songs, pages of one, 3 readers; `RateLimit` with 2 visitors and the proxy, limit 2 | `AccessTypeOK`, `AdminRemains`, `SessionsAreCurrent`, `AdmittedIsApproved`, `WalkIsExact`, `ServedToTheEntitled`, `AllowanceIsFair` |
| `exchange` | `RunPodClient`, `GenerateForm`, `LyricsMatch`, `Transpose`, `Backup` | `ExchangeTypeOK`, `RequeuedIsUnbilled`, `OutputIsRead`, `CompletedIsNotDiscarded`, `WorkerTakesIt`, `SourceIsHonest`, `AnswerIsHonest`, `HeardAsMoved`, `SameScale`, `HeaderIsSimplest`, `RecoveryIsComplete`, `BackupIsNotReplaced` |
| `lookup` | `LyricsLookup`: 2 lookups, 1 slot, 2 gates | `TypeOK`, `CallsAreSpaced`, `EveryLookupEnds` |
| `assistant` | `Assistant`: 17 replies of two engines and two profiles, one of which may be missing | `DraftIsTheAnswer`, `OutcomeIsTrue`, `EveryCallEnds` |

`access` and `exchange` hold components that share no state (`Access`, `Exchange`). Their product would multiply the
states of each and show nothing more, so in each behaviour one of them, the `subject`,
moves and the others stay where they began. Components that do share state (worker and
store; janitor, handlers and worker's budgets) are in one module or composed in full.

Why the bounds suffice.

- *Worker.* It treats one job at a time; two jobs are what it takes for one to be in a scan
  while another is claimed, deleted or holding the cap. Caps above one, and more jobs, are
  covered by the theorem `CapHolds`. Horizon 2 tells apart just created, within budget and over
  budget; QueueBudget 1 and RunBudget 1 leave both sides reachable. RetryCap 2 with
  MaxTransient 1 and MaxStoreRetries 2 keeps the two limits different. Two files let a song be
  lost and stored again. Files are interchangeable, hence the symmetry in `faults`.
- *Covers.* One unit stands for some 45 minutes: links live 4, uploads 5, each budget is 1 and
  a request
  takes at most 1 (`Lag`): the order of 2 h, 24 h, 45 min and 45 min, shortened to the least
  that keeps it. An upload and a library song are the two kinds of source.
- *Access.* Two accounts, each administrator or not, are the least for mutual removal; two
  requests race each other; two tokens let a session be replaced; one change of credentials
  separates two eras. Three songs over pages of one make a first, a middle and a last page, and
  a song may be added or removed between any two. Limit 2 and a window of 3 tell the
  first, the last and the refused request apart.
- *Exchange.* `RunPodClient` has every status class, envelope and error at the code's own
  limits (3, 5, 4). `GenerateForm` has one number inside and one outside each limit (shifts of 1 and 7
  around the limit of 6, seeds 7 and -1), with the limits themselves in the guards. `LyricsMatch` has three recordings, of which a lookup takes
  two candidates (three in the code; the theorem is for any number), a score below sure, two
  above but too near each other, one clear. `Transpose` moves every accepted key, and one that is
  not, by every interval; chords are seen in every key, notes in five pairs of key and
  interval that respell, change letters and tie, at three positions around an octave's edge.
  `Backup` has two songs and two lost volumes: the second loss may hit a restored volume.
- *Lookup.* Two lookups suffice for one to wait for what the other holds; the gates have
  spacings 1 and 2, so a budget of 3 ends waits of either kind.

Deadlock is checked, except in `access` and `exchange`: there songs to file run out, and a form,
a lookup or a rewriting is finished and has no next step.

### Fairness

- *Worker.* `FairSpec` assumes weak fairness of `WorkerStep` and of `Tick`. Every remote call has
  a timeout and the ticker never stops, so the worker always takes its next step, and
  the clock moves. Nothing is assumed of users or of RunPod, which may refuse, lose or
  requeue for ever. `EveryJobEnds` is stated for executions whose restarts cease: a
  process restarted more often than its loop turns makes no progress. The run lets
  storing fail but not the statements that move rows: a database refusing every
  UPDATE lets no job end.
- *Covers.* The janitor's ticker fires every hour and each handler runs to its end, so time, their
  next steps and removals are weakly fair. A removal is attempted; that it succeeds is not
  assumed, and a file whose removal was refused is out of the property. The three statements of
  a sweep are strongly fair in the form that succeeds: the sweep may find the database busy or
  be cut by a restart, but not every time for ever.
- *Lookup.* Each request and decode has a timeout, a `select` returns once a branch stays
  ready, and time passes: weak fairness of each lookup's steps and of the clock. Nothing
  is assumed of the provider, of the caller, or of who gets a free slot.
- *Assistant.* The deadline passes (`WF_vars(Tick)`) and the client acts on it or on an answer:
  `WF_at(Read /\ at' = "idle")` is the fairness of `complete`, the one step that takes a call from
  reading to idle, stated without the parsing of the answer. The gateway may stay silent or
  stream without end.

### Findings

Four runs end in a violation, each of something a comment or the README says.

- `deleted_owner` (`NoOrphanSongs`): `DeleteUser` "removes an account and everything belonging to it".
  A generation completing meanwhile, or a request already past its session check,
  files a song under the deleted account, the "unreachable garbage" the same
  comment rules out. Two steps of the worker with a deletion between them suffice.
- `failed_with_song` (`FailedHasNoSong`): losing the transition to succeeded is called harmless because
  the next poll finishes the job. If the budget runs out first, recovery or the poll loop
  fails the job, and its song stays in the library.
- `shared_counter` (`CompletedNotDiscarded`): "A completed generation is not discarded over a transient failure".
  Storage failures count on the column polling uses, so two of them and one failed poll
  end the job.
- `cut_submit` (`RejectedIsNotEnqueued`): "any transport error ... still fails as ambiguous". `do` drops the error of
  `io.ReadAll` (runpod.go:338), so a 200 whose body breaks off is parsed as if whole, becomes a
  `DecodeError` and is permanent: an enqueued, billed job is filed as `submit-rejected`.

Seen while modelling, without a run of their own:

- A status answer cut in the same place fails a running job at once, without a retry
  (runpod.go:136-155, 338). `exchange` sets `BodiesCut` to FALSE for this reason.
- `MM3_MAX_IN_FLIGHT` holds only up to the LIMIT of 100 in `ActiveJobs` (store.go:824-831);
  configuration accepts more. This is the hypothesis of `CapHolds`.
- `store.go:1292-1294` says the order of the deletions of an account does not matter. It does
  for links, which are found through the rows of jobs and uploads; the code's order is right.
- cover.go:212-213 wants no "untracked" upload left behind. A process that stops between
  `storeUpload` and `RecordCoverUpload` leaves one, as does a refused `os.Remove` in the
  sweep, where worker.go:292-295 says so, in `stageUpload` (cover.go:214) and in
  `handleDeleteUser` (admin.go:206-209). Nothing reads the directory later.
  `StagedIsTracked` excepts both causes and says what holds of such a file.
- admin.go:180-182 calls a file left over from the deletion of an account "recoverable
  garbage". A recording so left, by a stop between the commit and the unlink or by a refused
  unlink, is found by nothing: its row is gone and the directory is never listed. It stays for
  good, against the concern of store.go:1268-1276. `DeletedAccountLeavesNothing` and
  `NothingStagedStays` except it.
- store.go:1272-1277 unlinks a user's uploads under the constant `/data/sources` (store.go:282),
  while the server writes them beside `MM3_AUDIO_DIR` (cover.go:49-51): with that outside
  `/data` they stay. `Covers` assumes it inside.
- `PurgeCoverLinksFor` ("called when a song is deleted", store.go:391), `DeleteExpiredSessions`
  and `DeleteUserSessions` have no caller. Links lapse; expired sessions are refused.
- restore.sh:32 copies files only if `/data/audio` does not exist: a copy cut short is not
  resumed by the next start. README.md:244 calls recovery automatic. `RecoveryIsComplete` excepts it.
- `seedOf` takes negative seeds (handlers.go:427-433) although the endpoint's range is
  [0, 2**63) (482-483), and edits and covers inherit them: jobs bound to be refused are queued.
  This is the exception of `WorkerTakesIt`; with it, the seed is all that is wrong with them.
- `engineOf` prefers the output's engine to the job's (worker.go:701-706), against the
  comment at 636; edited lyrics skip `lyricsProblem` (handlers.go:589-608), which the create
  form applies for a reason given at 704.
- A refused registration is told to wait 900 s and a refused draft 3600 s (auth.go:451,
  handlers.go:782), within windows of an hour and of a day.
- An error object inside a stream is skipped (llm.go:421-428) although a plain answer's is
  refused, and a stream that ends cleanly without a finish reason or a `[DONE]` is taken for
  whole (llm.go:357-368, 448-453), although a missing one could tell that the reply was cut
  short. Such streams do come: those of llm_test.go:31-35 ("Observed live") and 72-76 give no
  reason, that of 54-70 neither. What came by then is offered if it parses. These are the two
  exceptions of `DraftIsTheAnswer`. `OutcomeIsTrue` does not judge an error inside a stream.
- `ParseYue2Style` takes any first line for a style (llm.go:703-710).
- A fixed window admits twice the README's hourly limit around its reset (ratelimit.go:28);
  `AllowanceIsFair` states the bound that holds.
- At the highest page number (10000) the "Older" link would point at the same page again.
- When `BumpRetries` fails after a refusal the row stays `submitting` until the next start
  (worker.go:535): no run has it, since only storing fails in `liveness`, and `ClaimAlwaysHeld`
  has it in its hypothesis. Likewise no run has a cap above the scan's LIMIT, the hypothesis of
  `CapHolds`. Jobs
  waiting out a backoff at the head of the queue use up the dequeue limit, so a later job may
  reach its queue budget without one attempt; with one worker the compare-and-set guards
  lose only to deletions and errors.

## Proofs

TLAPS checks every theorem below for all values of the constants that meet the ASSUMEs of the
modules: any number of jobs, accounts, requests, songs and addresses, any budgets, limits and
tables, with the same crashes, restarts, deletions, lost answers and failing statements as in
the runs. TLC evaluates the ASSUMEs on every run. All 36 safety properties of the passing runs
(invariants, action properties and the refinement) are theorems; the liveness properties are not.

### Theorems

| Module | Theorem | States |
|---|---|---|
| `JobWorkerProofs` | `TypeCorrect` | `Spec => []TypeOK` |
| `JobSafetyProofs` | `NeverBilledTwice`, `ActiveAlwaysBilled` | `[]BilledOnce`, `[]ActiveIsBilled` |
| | `CapHolds` | `[]InFlightCap`, if `MaxInFlight <= ScanLimit` |
| | `SucceededAlwaysHasSong`, `SongAlwaysHasAudio` | `[]SucceededHasSong`, `[]SongHasAudio` |
| | `RunClockAlwaysStands` | `RunClockStands` |
| | `ClaimAlwaysHeld` | `[]ClaimIsHeld`, if none of the statements on a claim may fail |
| | `Implements` | `Spec => ImplementsLifecycle` |
| `AccessProofs` | `AdminAlwaysRemains`, `SessionsAlwaysCurrent`, `AdmittedAlwaysApproved` | `[]AdminRemains`, `[]SessionsAreCurrent`, `AdmittedIsApproved` |
| | `WalkAlwaysExact`, `AlwaysServedToTheEntitled` | `[]WalkIsExact`, `[]ServedToTheEntitled` |
| | `AllowanceAlwaysFair` | `[]AllowanceIsFair` |
| | `AccessIsItsParts`, `AccessTypesCorrect` | the product implements each of its three parts; `[]AccessTypeOK` |
| `CoversProofs` | `CoverTypesCorrect`, `LinkAlwaysOutlivesJob`, `StagedAlwaysTracked`, `DeletedAccountAlwaysLeavesNothing` | `[]TypeOK`, `[]LinkOutlivesJob`, `[]StagedIsTracked`, `[]DeletedAccountLeavesNothing` |
| `LyricsLookupProofs` | `LookupTypesCorrect`, `CallsAlwaysSpaced` | `[]TypeOK`, `CallsAreSpaced` |
| `RunPodClientProofs` | `ClientTypesCorrect`, `RequeuedAlwaysUnbilled`, `OutputAlwaysRead` | `[]TypeOK`, `[]RequeuedIsUnbilled`, `[]OutputIsRead` |
| | `CompletedNeverDiscarded` | `[]CompletedIsNotDiscarded`, if `~BodiesCut` |
| `ExchangeProofs` | `ProductIsItsParts` | the product implements each of its five parts |
| | `WorkerAlwaysTakesIt`, `SourceAlwaysHonest` | `[]WorkerTakesIt`, `[]SourceIsHonest` |
| | `AnswerAlwaysHonest` | `[]AnswerIsHonest` |
| | `AlwaysHeardAsMoved`, `AlwaysSameScale`, `HeaderAlwaysSimplest` | `[]HeardAsMoved`, `[]SameScale`, `HeaderIsSimplest` |
| | `RecoveryAlwaysComplete`, `BackupNeverReplaced` | `[]RecoveryIsComplete`, `BackupIsNotReplaced` |
| | `ExchangeTypesCorrect` | `[]ExchangeTypeOK` |
| `AssistantProofs` | `DraftAlwaysTheAnswer` | `[]DraftIsTheAnswer` |
| | `OutcomeAlwaysTrue` | `[]OutcomeIsTrue`, if `Readable` |

The parts of `Access` and of `Exchange` share no variable. The theorems are stated of each part's
own specification; `AccessIsItsParts` and `ProductIsItsParts` carry them over to the products
that the runs check.

### Hypotheses

Assumptions on constants are named in the module that declares them; the code's values meet
them. The ones that are more than a type:

- `SaturationAssumption` (`JobWorker`): thresholds lie below the caps of the counters.
- `LinkOutlivesBudgets`, `UploadOutlivesLink` (`Covers`): 2 h against two budgets of 45 min and a
  request; 24 h against 2 h. `LinkOutlivesJob` is false without them.
- `Limits` (`RunPodClient`): `maxTransient <= maxStoreRetries`, 3 and 5.
- `Sizes` (`Library`): there are page numbers enough for the songs, 10000 pages in the code.
- `Numbers` (`LyricsMatch`): finitely many recordings, at least one candidate.
- `Pitches` (`Transpose`): intervals within eleven semitones, as parsed.
- `Losses` (`Backup`), `BoundsAreNumbers` (`Accounts`): the bounds are numbers.
- `ThoughtsAreTagged` (`Assistant`): see above. The deadline is not zero.

Four theorems have a hypothesis of their own, because the property is false without it:

- `CapHolds`: a cap above the scan's LIMIT of 100 is not kept (store.go:824-831).
- `ClaimAlwaysHeld`: `SubmittingJobs`, `TransitionJob`, `BumpRetries`, `FailJob` and `OrphanSubmission`
  do not fail. One that does leaves the row `submitting` until the next start. The run
  `liveness`, where only storing fails, meets it.
- `CompletedNeverDiscarded`: `~BodiesCut`, by the finding `cut_submit`.
- `OutcomeAlwaysTrue`: `Readable`, every reply the model may finish is one its parser reads, or
  nothing but thinking. What layouts a parser reads is a question about particular texts; the
  run asks it of the 17 replies in `MCReplies`, which are the layouts the code's comments and
  tests name, and the theorem says that nothing else can make a good reply unreadable.

### Inductive invariants

None of the properties is inductive by itself. The strengthenings:

- **TypeInv** (worker) adds `Discipline`: which steps belong to which phase and that scans are
  empty between loops. `JobWorkerProofs` also summarises what any step may do to a row,
  so that later proofs split on that summary and not on forty actions.
- **Billing**: a row that can still be posted has never been posted, a row being posted is
  `submitting` or gone, an active row was posted once. It is the order claim, post,
  record that makes it inductive: a row leaves `queued` before the POST and never
  comes back to it once a POST was accepted.
- **Room** (the cap): the active rows, plus the job being posted, plus the rows still to
  be submitted in this scan, fit under the cap. It needs the scan to have seen
  every active row, hence the hypothesis on `ScanLimit`.
- **Library** and **Audio** (songs): before `succeed` the song exists or its row is gone; a file
  named by a song is on disk, is nobody else's and is not about to be unlinked, and the
  file the worker holds is named by no song yet.
- **Copied** (run clock): a scanned copy whose `started_at` is NULL is not out of date while the
  row lives. Stamping a row looks at the copy and not at the row, which is right only because
  nobody else stamps and a row is scanned again before it is polled again.
- **Held** (claims): at most one row is `submitting`. Without it the LIMIT of the recovery scan
  might leave a claim behind.
- **Tracked** (refinement): what the poll loop walks through is active or gone, and was
  billed. Publishing then maps to `Publish` of a billed job.
- **AccountsInv** adds `Guarded`: what `guardLastAdmin` read still holds when its transaction
  writes, because only the holder of the one connection changes the accounts meanwhile. This is
  what makes the guard a guard; the rest are types and the properties themselves.
- **ShelfInv**: ids are never given out again (`Table`), and what a walk has shown stands before
  what of its section is still to come (`Upto`), unless the walk took notice of a change. Lemmas
  on the order of a section carry it over insertions above the page and deletions anywhere.
- **Allowed**: while a window is open an address's history counts its admissions back to the
  opening, one allowance, and before that at most one more; that makes the two.
- **Tracked** (covers): **Timely** bounds a link's age by its stage, **Kept** says what is there for
  a request while its account is, **Left** that a deleted account has nothing under way but
  what the deletion overtook, **Adrift** that file and row come in this order and that what a
  stop or a refused removal leaves behind belongs to a request that is over. The properties of
  the cover links rest on all of them.
- **Queued** (lookups): **Gated** says that who holds a gate waits at it and sleeps at least until
  the provider may be called; **Slotted** counts the slots.
- **Exchanged** (client): **Asked** ties the request that is out to the job's state, **Unbilled** says
  that no answer read as retryable enqueued anything, **Patient** that the retries counted are
  paid for by transient errors.
- **Filled** (forms) adds that only a YuE2 song has a score to edit.
- **Looked** (answers): how much is known of a candidate at each stage of the lookup.
- **Tuned** (scores): the two keys lie the interval apart on the line of fifths (`InTune`), and
  an accidental either reader still hears is on a letter the code has marked (`InBar`). The
  arithmetic is done once for all keys: `Fits` says that the steps and the semitones of an
  interval differ by as many fifths as the keys, and `InScale` that a key signature lies within
  its seven fifths. TLC walks through keys and intervals; the proof needs none of them singly.
- **Recoverable** (backup): the databases of volume and bucket are of one deployment, and past
  the restore there is none only where the bucket has none.
- **Relayed** (assistant): the body is the pieces sent, then at most one chunk that concludes,
  then chunks that say nothing (`Concluding` is what the answer said of its end, if anything).
  Folding it then loses and adds nothing (`Folded`), and a prefix of a tagged reply is tagged, so no
  parser finds a thought in what came (`ParseSpoken`), whichever parser it is.

Each of the worker's parts was checked by TLC as an invariant before it was proved.

What the proofs changed in the models: `Delivery` of `RunPodClient` was a `CASE` whose guards
overlap, which leaves open which branch is taken; the code tests them in order, and so does the
`IF` there now. Selections from a reply are made by its places (`Only`, `Nth`) instead of by
`SelectSeq`, about which no facts can be proved here. The runs reach the same states as
before.

### Only model-checked

`EveryJobEnds`, `NothingStagedStays`, `EveryLookupEnds` and `EveryCallEnds` are liveness under
fairness, which the prover cannot do; that every reply in `MCReplies` is parsed; and the findings.

## Not modelled, and the plan

Next: prove that `Accounts`, `JobStore` and `Covers`, which each model the deletion of an account, agree on what
it removes; an abstract specification for the lyrics lookup (a provider that is called at
its pace) and for `Backup` (one deployment, never replaced), with their refinements.

Left out:

- schema migration on open, and renaming a song: nothing else depends on them;
- origin checks, the redirect to the login page and the list of public routes, which are
  functions of one request;
- configuration: read once at start, its values are the modules' constants;
- templates, styles, browser scripts and prompts: presentation and texts;
- ffmpeg, fpcalc, RunPod and Infisical themselves, and one-shot operator tools.
