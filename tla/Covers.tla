------------------------------- MODULE Covers -------------------------------
(* How a recording reaches the GPU: staged uploads, signed links, the janitor *)
(* and deletions (server/cover.go, store.go, worker.RunJanitor). A cover      *)
(* request c stores at most one file, mints at most one link and queues at    *)
(* most one job, so files, rows, links and jobs are named by their request.   *)
(* Time is counted in ages, which stop where nothing compares them any more.  *)
EXTENDS FiniteSets, Integers

CONSTANTS
    Uploads,        \* requests that bring a recording
    Library,        \* requests that cover a song the account has
    Account,        \* Account[c]: who makes request c
    LinkTTL, UploadTTL, QueueBudget, RunBudget,
    Lag             \* longest time from recording a file to queueing its job

ASSUME Durations == {LinkTTL, UploadTTL, QueueBudget, RunBudget, Lag} \subseteq Nat
(* cover.go:38 2 h, worker.go:38 and :53 45 min, worker.go:255 24 h. *)
ASSUME LinkOutlivesBudgets == LinkTTL > Lag + QueueBudget + RunBudget
ASSUME UploadOutlivesLink == UploadTTL >= LinkTTL + Lag
ASSUME OneKind == Uploads \cap Library = {}

Requests == Uploads \cup Library
Accounts == {Account[c] : c \in Requests}

VARIABLES
    at,         \* at[c]: "idle", "asked", "stored", "recorded", "minted", "done"
    files,      \* recordings in the source directory
    uploads,    \* rows of cover_uploads
    links,      \* rows of cover_links
    songs,      \* the library songs that still exist, by request
    job,        \* job[c]: "none", "waiting", "running", "over"
    age,        \* age[c]: since the recording was recorded or the song's link minted
    linkAge, jobAge, runAge,
    stray,      \* recordings on disk without a row, that a restart left or whose
                \* removal was refused (history)
    gone,       \* deleted accounts
    overtaken,  \* requests under way when their account was deleted (history)
    unlinking,  \* files a delete has yet to remove
    janitor     \* where the sweep stands, and the names it took
rows == <<uploads, links, songs, job>>
ages == <<age, linkAge, jobAge, runAge>>
vars == <<at, files, rows, ages, stray, gone, overtaken, unlinking, janitor>>

Resting == [at |-> "resting", names |-> {}]
Zero == [c \in Requests |-> 0]
Of(a) == {c \in Requests : Account[c] = a}
UnderWay(c) == at[c] \in {"asked", "stored", "recorded", "minted"}

Init ==
    /\ at = [c \in Requests |-> "idle"]
    /\ files = {} /\ uploads = {} /\ links = {} /\ songs = Library
    /\ job = [c \in Requests |-> "none"]
    /\ age = Zero /\ linkAge = Zero /\ jobAge = Zero /\ runAge = Zero
    /\ stray = {} /\ gone = {} /\ overtaken = {} /\ unlinking = {} /\ janitor = Resting

Goes(c, from, to) == at[c] = from /\ at' = [at EXCEPT ![c] = to]

(* os.Remove of each name: any of them may be refused, and none is retried.   *)
Remove(names) == \E refused \in SUBSET (names \cap files) :
    /\ files' = files \ (names \ refused)
    /\ stray' = (stray \ names) \cup refused
-----------------------------------------------------------------------------
(* The session is looked up, and the song to cover read, before anything is   *)
(* stored: neither is asked for again.                                        *)
authenticate(c) ==
    /\ IF c \in Library THEN c \in songs ELSE Account[c] \notin gone
    /\ Goes(c, "idle", "asked")
    /\ UNCHANGED <<files, rows, ages, gone, overtaken, stray, unlinking, janitor>>

(* storeUpload creates the file and copies the recording to it.               *)
storeUpload(c) ==
    /\ c \in Uploads
    /\ Goes(c, "asked", "stored")
    /\ files' = files \cup {c}
    /\ UNCHANGED <<rows, ages, gone, overtaken, stray, unlinking, janitor>>

(* The file goes when the copy is cut short (storeUpload) or its owner cannot *)
(* be recorded (stageUpload).                                                 *)
recordFails_KeepsFile(c) ==
    /\ Goes(c, "stored", "done")
    /\ UNCHANGED <<files, rows, ages, gone, overtaken, stray, unlinking, janitor>>

recordFails(c) ==
    /\ Goes(c, "stored", "done")
    /\ Remove({c})
    /\ UNCHANGED <<rows, ages, gone, overtaken, unlinking, janitor>>

RecordCoverUpload(c) ==
    /\ Goes(c, "stored", "recorded")
    /\ uploads' = uploads \cup {c}
    /\ UNCHANGED <<files, links, songs, job, ages, gone, overtaken, stray, unlinking, janitor>>

(* mintCoverURL for a recording just recorded, or for a song the caller read. *)
(* Without a public address the row is inserted and the request refused.      *)
mintCoverURL(c) ==
    /\ \/ Goes(c, "recorded", "minted")
       \/ c \in Library /\ (Goes(c, "asked", "minted") \/ Goes(c, "asked", "done"))
    /\ links' = links \cup {c}
    /\ UNCHANGED <<files, uploads, songs, job, ages, gone, overtaken, stray, unlinking, janitor>>

Refused(c) ==
    /\ Goes(c, "asked", "done") \/ Goes(c, "recorded", "done") \/ Goes(c, "minted", "done")
    /\ UNCHANGED <<files, rows, ages, gone, overtaken, stray, unlinking, janitor>>

(* queueJob stores the link in the job.                                       *)
queueJob_BeforeMint(c) ==
    /\ Goes(c, "recorded", "minted")
    /\ job' = [job EXCEPT ![c] = "waiting"]
    /\ UNCHANGED <<files, uploads, links, songs, ages, gone, overtaken, stray, unlinking, janitor>>

queueJob(c) ==
    /\ Goes(c, "minted", "done")
    /\ job' = [job EXCEPT ![c] = "waiting"]
    /\ UNCHANGED <<files, uploads, links, songs, ages, gone, overtaken, stray, unlinking, janitor>>
-----------------------------------------------------------------------------
(* The worker stamps a job's start once, at a poll within the queue budget.   *)
Starts_Restamps(c) ==
    /\ \/ job[c] = "waiting" /\ jobAge[c] <= QueueBudget
       \/ job[c] = "running" /\ runAge[c] <= RunBudget
    /\ job' = [job EXCEPT ![c] = "running"]
    /\ runAge' = [runAge EXCEPT ![c] = 0]
    /\ UNCHANGED <<at, files, uploads, links, songs, age, linkAge, jobAge, gone, overtaken, stray, unlinking, janitor>>

Starts(c) ==
    /\ job[c] = "waiting" /\ jobAge[c] <= QueueBudget
    /\ job' = [job EXCEPT ![c] = "running"]
    /\ UNCHANGED <<at, files, uploads, links, songs, ages, gone, overtaken, stray, unlinking, janitor>>

Ends(c) ==
    /\ job[c] \in {"waiting", "running"}
    /\ job' = [job EXCEPT ![c] = "over"]
    /\ UNCHANGED <<at, files, uploads, links, songs, ages, gone, overtaken, stray, unlinking, janitor>>

(* A job the GPU may be working on: it can still ask for its recording, also  *)
(* when the endpoint takes it back and starts it again.                       *)
MayFetch(c) == \/ job[c] = "waiting" /\ jobAge[c] <= QueueBudget
               \/ job[c] = "running" /\ runAge[c] <= RunBudget

(* CoverLink and signedPath: what GET /signed/{token} answers.                *)
CoverLink(c) == c \in links /\ linkAge[c] < LinkTTL
Serves(c) == CoverLink(c) /\ (c \in Uploads => c \in files) /\ (c \in Library => c \in songs)
-----------------------------------------------------------------------------
DeleteSong(c) ==
    /\ c \in songs
    /\ songs' = songs \ {c}
    /\ UNCHANGED <<at, files, uploads, links, job, ages, gone, overtaken, stray, unlinking, janitor>>

(* deleteUserRows: links are matched through the songs and uploads, so they   *)
(* go first.                                                                  *)
LinksOf_RowsFirst(a) == {}

LinksOf(a) == Of(a) \cap (uploads \cup songs)

DeleteUser(a) ==
    /\ a \notin gone
    /\ gone' = gone \cup {a}
    /\ unlinking' = unlinking \cup (Of(a) \cap uploads)
    /\ links' = links \ LinksOf(a)
    /\ uploads' = uploads \ Of(a) /\ songs' = songs \ Of(a)
    /\ job' = [c \in Requests |-> IF c \in Of(a) /\ job[c] # "none" THEN "over" ELSE job[c]]
    /\ overtaken' = overtaken \cup {c \in Of(a) : UnderWay(c)}
    /\ UNCHANGED <<at, files, ages, stray, janitor>>

(* handleDeleteUser unlinks what the transaction named.                       *)
Unlink(c) ==
    /\ c \in unlinking
    /\ unlinking' = unlinking \ {c}
    /\ Remove({c})
    /\ UNCHANGED <<at, rows, ages, gone, overtaken, janitor>>
-----------------------------------------------------------------------------
(* sweepOnce, statement by statement; PurgeStaleCoverUploads deletes the rows *)
(* it has just listed, then the files go. A failing statement ends the sweep. *)
Stale_Used(c) == age[c] >= UploadTTL /\ job[c] = "over"

Stale(c) == age[c] >= UploadTTL

PurgeExpiredCoverLinks ==
    /\ janitor = Resting
    /\ links' \in {links, {c \in links : CoverLink(c)}}
    /\ janitor' = [Resting EXCEPT !.at = "select"]
    /\ UNCHANGED <<at, files, uploads, songs, job, ages, gone, overtaken, stray, unlinking>>

SelectStale ==
    /\ janitor.at = "select"
    /\ LET stale == {c \in uploads : Stale(c)}
       IN  janitor' \in {Resting, IF stale = {} THEN Resting ELSE [at |-> "delete", names |-> stale]}
    /\ UNCHANGED <<at, files, rows, ages, gone, overtaken, stray, unlinking>>

DeleteStale ==
    /\ janitor.at = "delete"
    /\ \/ uploads' = uploads \ janitor.names /\ janitor' = [janitor EXCEPT !.at = "unlink"]
       \/ janitor' = Resting /\ UNCHANGED uploads
    /\ UNCHANGED <<at, files, links, songs, job, ages, gone, overtaken, stray, unlinking>>

UnlinkStale ==
    /\ janitor.at = "unlink"
    /\ Remove(janitor.names)
    /\ janitor' = Resting
    /\ UNCHANGED <<at, rows, ages, gone, overtaken, unlinking>>

(* The process stops and starts: requests, deletes and sweeps are cut short.  *)
Restart ==
    /\ at' = [c \in Requests |-> IF UnderWay(c) THEN "done" ELSE at[c]]
    /\ unlinking' = {} /\ janitor' = Resting
    /\ stray' = stray \cup (files \ uploads)
    /\ UNCHANGED <<files, rows, ages, gone, overtaken>>

Aged(s, ages_, limit) == [c \in Requests |-> IF c \in s /\ ages_[c] < limit THEN ages_[c] + 1 ELSE ages_[c]]

(* The clock. A request does not take longer than Lag.                        *)
Tick ==
    /\ \A c \in Requests : at[c] \in {"recorded", "minted"} => age[c] < Lag
    /\ age' = Aged({c \in Requests : at[c] \notin {"idle", "asked", "stored"}}, age, UploadTTL)
    /\ linkAge' = Aged(links, linkAge, LinkTTL)
    /\ jobAge' = Aged({c \in Requests : job[c] # "none"}, jobAge, QueueBudget + 1)
    /\ runAge' = Aged({c \in Requests : job[c] = "running"}, runAge, RunBudget + 1)
    /\ UNCHANGED <<at, files, rows, gone, overtaken, stray, unlinking, janitor>>

Janitor == PurgeExpiredCoverLinks \/ SelectStale \/ DeleteStale \/ UnlinkStale
Request(c) == authenticate(c) \/ storeUpload(c) \/ recordFails(c) \/ RecordCoverUpload(c)
              \/ mintCoverURL(c) \/ Refused(c) \/ queueJob(c)

Next ==
    \/ \E c \in Requests : Request(c) \/ Starts(c) \/ Ends(c) \/ DeleteSong(c) \/ Unlink(c)
    \/ \E a \in Accounts : DeleteUser(a)
    \/ Janitor \/ Restart \/ Tick

Spec == Init /\ [][Next]_vars

(* The janitor's ticker fires every hour, statements do not fail for ever,    *)
(* handlers run to their end and time passes. Users owe nothing.              *)
Progress ==
    /\ WF_vars(Tick) /\ WF_vars(UnlinkStale)
    /\ SF_vars(PurgeExpiredCoverLinks /\ links' = {c \in links : CoverLink(c)})
    /\ SF_vars(SelectStale /\ (janitor'.names # {} \/ ~\E c \in uploads : Stale(c)))
    /\ SF_vars(DeleteStale /\ janitor'.at = "unlink")
    /\ WF_vars(DeleteStale) /\ WF_vars(SelectStale)
    /\ \A c \in Requests : WF_vars(Unlink(c)) /\ WF_vars(recordFails(c) \/ RecordCoverUpload(c))
                           /\ WF_vars(at[c] \in {"recorded", "minted"} /\ Request(c))
FairSpec == Spec /\ Progress
-----------------------------------------------------------------------------
TypeOK ==
    /\ at \in [Requests -> {"idle", "asked", "stored", "recorded", "minted", "done"}]
    /\ stray \subseteq files /\ files \subseteq Uploads /\ uploads \subseteq Uploads /\ songs \subseteq Library
    /\ links \subseteq Requests
    /\ job \in [Requests -> {"none", "waiting", "running", "over"}]
    /\ \A c \in Requests : job[c] # "none" => at[c] = "done"
    /\ age \in [Requests -> 0..UploadTTL] /\ linkAge \in [Requests -> 0..LinkTTL]
    /\ jobAge \in [Requests -> 0..QueueBudget + 1] /\ runAge \in [Requests -> 0..RunBudget + 1]
    /\ gone \subseteq Accounts /\ overtaken \subseteq Requests /\ unlinking \subseteq Uploads
    /\ janitor.at \in {"resting", "select", "delete", "unlink"} /\ janitor.names \subseteq Uploads

(* Whenever a GPU may still ask for a job's recording, its link has not       *)
(* lapsed or been swept and the recording is there, however long the job      *)
(* waited and however often it is started again (cover.go:32-37,              *)
(* worker.go:248-252).                                                        *)
LinkOutlivesJob == \A c \in Requests :
    MayFetch(c) /\ Account[c] \notin gone /\ (c \in Library => c \in songs) => Serves(c)

(* Every recording on disk is one its request is still filing, one a row      *)
(* names or one being removed: no failing statement, sweep or deletion loses  *)
(* one (cover.go:207-214). Two things do: the process stops before the row is *)
(* written or the file removed, or the removal itself is refused, which no    *)
(* caller retries (worker.go:292-298, cover.go:214, admin.go:206-209). What   *)
(* is lost so stays on disk, but no link reaches it, unless its account was   *)
(* deleted while the request was under way.                                   *)
StagedIsTracked == \A c \in files :
    IF c \in stray
    THEN c \in overtaken \/ (c \notin uploads /\ ~CoverLink(c))
    ELSE at[c] = "stored" \/ c \in uploads \cup unlinking \/ (janitor.at = "unlink" /\ c \in janitor.names)

(* Once an account is deleted no row names its recordings and no link to them *)
(* resolves, and their files are removed (store.go:1268-1276, 1292-1299),     *)
(* except what a request under way at the time files after the deletion, and  *)
(* except recordings lost as above. The process stopping between the commit   *)
(* and the removal loses one, and so does a refused removal: the file stays   *)
(* for good, with nothing left to find it by (admin.go:180-182, 206-209).     *)
DeletedAccountLeavesNothing == \A c \in Uploads \ overtaken :
    Account[c] \in gone /\ c \notin unlinking =>
        /\ c \notin uploads /\ ~CoverLink(c)
        /\ c \in files \ stray => janitor.at = "unlink" /\ c \in janitor.names

(* Whatever became of a request, its row and its link are removed in the end  *)
(* and so is its recording, however often the process restarts, unless a      *)
(* restart left it without a row or its removal was refused, which nothing    *)
(* retries (worker.go:242-252 and 292-298, store.go:337-342).                 *)
Staged == (files \ stray) \cup uploads \cup links
NothingStagedStays == \A c \in Requests : c \in Staged ~> c \notin Staged
=============================================================================
