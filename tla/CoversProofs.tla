---------------------------- MODULE CoversProofs ----------------------------
(* Proofs about Covers: a link outlives its job, no recording is lost from    *)
(* sight and a deleted account leaves nothing behind.                         *)
EXTENDS Covers, TLAPS

\* Inductive with the three below: how old a request's link can be at each stage.
Timely == \A c \in Requests :
    /\ at[c] \in {"idle", "asked", "stored", "recorded"} => c \notin links /\ linkAge[c] = 0
    /\ at[c] \in {"idle", "asked", "stored"} => age[c] = 0
    /\ at[c] \in {"recorded", "minted"} => age[c] <= Lag
    /\ at[c] = "minted" => linkAge[c] <= age[c]
    /\ CoverLink(c) => age[c] <= Lag + linkAge[c]
    /\ job[c] = "none" => jobAge[c] = 0
    /\ job[c] \in {"none", "waiting"} => runAge[c] = 0
    /\ job[c] = "waiting" /\ jobAge[c] <= QueueBudget => linkAge[c] <= Lag + jobAge[c]
    /\ job[c] = "running" /\ runAge[c] <= RunBudget => linkAge[c] <= Lag + QueueBudget + runAge[c]

\* A link that is about to go into a job, or that a job may still follow.
Awaited(c) == at[c] = "minted" \/ MayFetch(c)

\* What is there for a request while its account is, and what takes it away.
Kept == \A c \in Requests :
    /\ at[c] \in {"stored", "recorded"} => c \in Uploads
    /\ c \in janitor.names => age[c] >= UploadTTL
    /\ c \in unlinking => Account[c] \in gone
    /\ c \in songs => Account[c] \notin gone
    /\ Account[c] \notin gone =>
         /\ Awaited(c) => c \in links
         /\ c \in Uploads => /\ Awaited(c) \/ at[c] \in {"stored", "recorded"} => c \in files
                             /\ CoverLink(c) \/ at[c] = "recorded" => c \in uploads

\* A deleted account has nothing under way but what the deletion overtook.
Left == \A c \in Requests \ overtaken : Account[c] \in gone =>
    /\ at[c] \in {"idle", "done"}
    /\ c \in Uploads => c \notin uploads /\ ~CoverLink(c)

\* A request has a file, a row and nothing adrift in this order; what is adrift is over.
Adrift == \A c \in Requests :
    /\ at[c] \in {"idle", "asked"} => c \notin files
    /\ at[c] \in {"idle", "asked", "stored"} => c \notin uploads
    /\ janitor.at = "unlink" /\ c \in janitor.names => c \notin uploads
    /\ c \in stray => c \in overtaken \/ at[c] = "done"

JanitorType == janitor \in [at : {"resting", "select", "delete", "unlink"}, names : SUBSET Uploads]

Tracked == TypeOK /\ JanitorType /\ Timely /\ Kept /\ Left /\ Adrift /\ StagedIsTracked

\* What a removal does to one file: gone, or refused and adrift.
LEMMA Removed ==
  ASSUME NEW names, Remove(names), NEW c
  PROVE  /\ c \notin names => (c \in files' <=> c \in files) /\ (c \in stray' <=> c \in stray)
         /\ c \in names => (c \in files' <=> c \in stray') /\ (c \in files' => c \in files)
  BY DEF Remove

LEMMA TrackedInit == Init => Tracked
  BY Durations, LinkOutlivesBudgets, OneKind
  DEF Init, Tracked, TypeOK, JanitorType, Timely, Kept, Left, Adrift, StagedIsTracked, Zero, Resting,
      Requests, CoverLink, MayFetch, Awaited

LEMMA authenticateTracked == ASSUME Tracked, NEW d \in Requests, authenticate(d) PROVE Tracked'
  <1>1. TypeOK'
    BY Durations DEF Tracked, TypeOK, JanitorType, authenticate, Requests, Accounts, rows,
          ages, Goes
  <1>2. JanitorType'
    BY DEF Tracked, TypeOK, JanitorType, authenticate, Requests, Accounts, rows, ages, Goes
  <1>3. Timely'
    BY Durations, LinkOutlivesBudgets DEF Tracked, TypeOK, Timely, authenticate, Requests,
          Accounts, rows, ages, Goes, CoverLink
  <1>4. Kept'
    BY Durations, LinkOutlivesBudgets, UploadOutlivesLink, OneKind DEF Tracked, TypeOK,
          JanitorType, Timely, Kept, authenticate, Requests, Accounts, rows, ages, Goes,
          MayFetch, CoverLink, Awaited
  <1>5. Left'
    BY Durations DEF Tracked, TypeOK, Timely, Kept, Left, authenticate, Requests, Accounts, rows,
          ages, Goes, CoverLink
  <1>6. Adrift'
    BY Durations, LinkOutlivesBudgets, UploadOutlivesLink, OneKind DEF Tracked, TypeOK,
          JanitorType, Timely, Kept, Left, Adrift, authenticate, Requests, Accounts,
          rows, ages, Goes, CoverLink
  <1>7. StagedIsTracked'
    BY Durations, LinkOutlivesBudgets, UploadOutlivesLink DEF Tracked, TypeOK,
          JanitorType, Timely, Kept, Left, Adrift, StagedIsTracked, authenticate,
          Requests, Accounts, rows, ages, Goes, CoverLink
  <1> QED
    BY <1>1, <1>2, <1>3, <1>4, <1>5, <1>6, <1>7 DEF Tracked

LEMMA storeUploadTracked == ASSUME Tracked, NEW d \in Requests, storeUpload(d) PROVE Tracked'
  <1>1. TypeOK'
    BY Durations DEF Tracked, TypeOK, JanitorType, storeUpload, Requests, Accounts, rows,
          ages, Goes
  <1>2. JanitorType'
    BY DEF Tracked, TypeOK, JanitorType, storeUpload, Requests, Accounts, rows, ages, Goes
  <1>3. Timely'
    BY Durations, LinkOutlivesBudgets DEF Tracked, TypeOK, Timely, storeUpload, Requests,
          Accounts, rows, ages, Goes, CoverLink
  <1>4. Kept'
    BY Durations, LinkOutlivesBudgets, UploadOutlivesLink, OneKind DEF Tracked, TypeOK,
          JanitorType, Timely, Kept, storeUpload, Requests, Accounts, rows, ages, Goes,
          MayFetch, CoverLink, Awaited
  <1>5. Left'
    BY Durations DEF Tracked, TypeOK, Timely, Left, storeUpload, Requests, Accounts, rows,
          ages, Goes, CoverLink
  <1>6. Adrift'
    BY Durations, LinkOutlivesBudgets, UploadOutlivesLink, OneKind DEF Tracked, TypeOK,
          JanitorType, Timely, Kept, Left, Adrift, storeUpload, Requests, Accounts,
          rows, ages, Goes, CoverLink
  <1>7. StagedIsTracked'
    BY Durations, LinkOutlivesBudgets, UploadOutlivesLink DEF Tracked, TypeOK,
          JanitorType, Timely, Kept, Left, Adrift, StagedIsTracked, storeUpload,
          Requests, Accounts, rows, ages, Goes, CoverLink
  <1> QED
    BY <1>1, <1>2, <1>3, <1>4, <1>5, <1>6, <1>7 DEF Tracked

LEMMA recordFailsTracked == ASSUME Tracked, NEW d \in Requests, recordFails(d) PROVE Tracked'
  <1>1. TypeOK'
    BY Removed, Durations DEF Tracked, TypeOK, JanitorType, recordFails, Requests, Accounts, rows,
          ages, Goes
  <1>2. JanitorType'
    BY Removed DEF Tracked, TypeOK, JanitorType, recordFails, Requests, Accounts, rows, ages, Goes
  <1>3. Timely'
    BY Removed, Durations, LinkOutlivesBudgets DEF Tracked, TypeOK, Timely, recordFails, Requests,
          Accounts, rows, ages, Goes, CoverLink
  <1>4. Kept'
    BY Removed, Durations, LinkOutlivesBudgets, UploadOutlivesLink, OneKind DEF Tracked, TypeOK,
          JanitorType, Timely, Kept, recordFails, Requests, Accounts, rows, ages, Goes,
          MayFetch, CoverLink, Awaited
  <1>5. Left'
    BY Removed, Durations DEF Tracked, TypeOK, Timely, Left, recordFails, Requests, Accounts, rows,
          ages, Goes, CoverLink
  <1>6. Adrift'
    BY Removed, Durations, LinkOutlivesBudgets, UploadOutlivesLink, OneKind DEF Tracked, TypeOK,
          JanitorType, Timely, Kept, Left, Adrift, recordFails, Requests, Accounts,
          rows, ages, Goes, CoverLink
  <1>7. StagedIsTracked'
    BY Removed, Durations, LinkOutlivesBudgets, UploadOutlivesLink DEF Tracked, TypeOK,
          JanitorType, Timely, Kept, Left, Adrift, StagedIsTracked, recordFails,
          Requests, Accounts, rows, ages, Goes, CoverLink
  <1> QED
    BY <1>1, <1>2, <1>3, <1>4, <1>5, <1>6, <1>7 DEF Tracked

LEMMA RecordCoverUploadTracked == ASSUME Tracked, NEW d \in Requests, RecordCoverUpload(d) PROVE Tracked'
  <1>1. TypeOK'
    <2>1. d \in Uploads
      BY DEF Tracked, Kept, RecordCoverUpload, Goes
    <2> QED
      BY <2>1, Durations
      DEF Tracked, TypeOK, JanitorType, RecordCoverUpload, ages, Goes, Requests
  <1>2. JanitorType'
    BY DEF Tracked, TypeOK, JanitorType, RecordCoverUpload, Requests, Accounts, ages, Goes
  <1>3. Timely'
    BY Durations, LinkOutlivesBudgets DEF Tracked, TypeOK, Timely, RecordCoverUpload,
          Requests, Accounts, ages, Goes, CoverLink
  <1>4. Kept'
    BY Durations, LinkOutlivesBudgets, UploadOutlivesLink, OneKind DEF Tracked, TypeOK,
          JanitorType, Timely, Kept, RecordCoverUpload, Requests, Accounts, ages, Goes,
          MayFetch, CoverLink, Awaited
  <1>5. Left'
    BY Durations DEF Tracked, TypeOK, Timely, Left, RecordCoverUpload, Requests, Accounts,
          ages, Goes, CoverLink
  <1>6. Adrift'
    BY Durations, LinkOutlivesBudgets, UploadOutlivesLink, OneKind DEF Tracked, TypeOK,
          JanitorType, Timely, Kept, Left, Adrift, RecordCoverUpload, Requests,
          Accounts, ages, Goes, CoverLink
  <1>7. StagedIsTracked'
    BY Durations, LinkOutlivesBudgets, UploadOutlivesLink DEF Tracked, TypeOK,
          JanitorType, Timely, Kept, Left, Adrift, StagedIsTracked, RecordCoverUpload,
          Requests, Accounts, ages, Goes, CoverLink
  <1> QED
    BY <1>1, <1>2, <1>3, <1>4, <1>5, <1>6, <1>7 DEF Tracked

LEMMA mintCoverURLTracked == ASSUME Tracked, NEW d \in Requests, mintCoverURL(d) PROVE Tracked'
  <1>1. TypeOK'
    BY Durations DEF Tracked, TypeOK, JanitorType, mintCoverURL, Requests, Accounts, ages,
          Goes
  <1>2. JanitorType'
    BY DEF Tracked, TypeOK, JanitorType, mintCoverURL, Requests, Accounts, ages, Goes
  <1>3. Timely'
    BY Durations, LinkOutlivesBudgets DEF Tracked, TypeOK, Timely, mintCoverURL, Requests,
          Accounts, ages, Goes, CoverLink
  <1>4. Kept'
    BY Durations, LinkOutlivesBudgets, UploadOutlivesLink, OneKind DEF Tracked, TypeOK,
          JanitorType, Timely, Kept, mintCoverURL, Requests, Accounts, ages, Goes, MayFetch,
          CoverLink, Awaited
  <1>5. Left'
    BY Durations DEF Tracked, TypeOK, Timely, Left, mintCoverURL, Requests, Accounts, ages,
          Goes, CoverLink
  <1>6. Adrift'
    BY Durations, LinkOutlivesBudgets, UploadOutlivesLink, OneKind DEF Tracked, TypeOK,
          JanitorType, Timely, Kept, Left, Adrift, mintCoverURL, Requests, Accounts,
          ages, Goes, CoverLink
  <1>7. StagedIsTracked'
    BY Durations, LinkOutlivesBudgets, UploadOutlivesLink DEF Tracked, TypeOK,
          JanitorType, Timely, Kept, Left, Adrift, StagedIsTracked, mintCoverURL,
          Requests, Accounts, ages, Goes, CoverLink
  <1> QED
    BY <1>1, <1>2, <1>3, <1>4, <1>5, <1>6, <1>7 DEF Tracked

LEMMA RefusedTracked == ASSUME Tracked, NEW d \in Requests, Refused(d) PROVE Tracked'
  <1>1. TypeOK'
    BY Durations DEF Tracked, TypeOK, JanitorType, Refused, Requests, Accounts, rows, ages,
          Goes
  <1>2. JanitorType'
    BY DEF Tracked, TypeOK, JanitorType, Refused, Requests, Accounts, rows, ages, Goes
  <1>3. Timely'
    BY Durations, LinkOutlivesBudgets DEF Tracked, TypeOK, Timely, Refused, Requests,
          Accounts, rows, ages, Goes, CoverLink
  <1>4. Kept'
    BY Durations, LinkOutlivesBudgets, UploadOutlivesLink, OneKind DEF Tracked, TypeOK,
          JanitorType, Timely, Kept, Refused, Requests, Accounts, rows, ages, Goes,
          MayFetch, CoverLink, Awaited
  <1>5. Left'
    BY Durations DEF Tracked, TypeOK, Timely, Left, Refused, Requests, Accounts, rows, ages,
          Goes, CoverLink
  <1>6. Adrift'
    BY Durations, LinkOutlivesBudgets, UploadOutlivesLink, OneKind DEF Tracked, TypeOK,
          JanitorType, Timely, Kept, Left, Adrift, Refused, Requests, Accounts, rows,
          ages, Goes, CoverLink
  <1>7. StagedIsTracked'
    BY Durations, LinkOutlivesBudgets, UploadOutlivesLink DEF Tracked, TypeOK,
          JanitorType, Timely, Kept, Left, Adrift, StagedIsTracked, Refused, Requests,
          Accounts, rows, ages, Goes, CoverLink
  <1> QED
    BY <1>1, <1>2, <1>3, <1>4, <1>5, <1>6, <1>7 DEF Tracked

LEMMA queueJobTracked == ASSUME Tracked, NEW d \in Requests, queueJob(d) PROVE Tracked'
  <1>1. TypeOK'
    BY Durations DEF Tracked, TypeOK, JanitorType, queueJob, Requests, Accounts, ages, Goes
  <1>2. JanitorType'
    BY DEF Tracked, TypeOK, JanitorType, queueJob, Requests, Accounts, ages, Goes
  <1>3. Timely'
    BY Durations, LinkOutlivesBudgets DEF Tracked, TypeOK, Timely, queueJob, Requests,
          Accounts, ages, Goes, CoverLink
  <1>4. Kept'
    BY Durations, LinkOutlivesBudgets, UploadOutlivesLink, OneKind DEF Tracked, TypeOK,
          JanitorType, Timely, Kept, queueJob, Requests, Accounts, ages, Goes, MayFetch,
          CoverLink, Awaited
  <1>5. Left'
    BY Durations DEF Tracked, TypeOK, Timely, Left, queueJob, Requests, Accounts, ages,
          Goes, CoverLink
  <1>6. Adrift'
    BY Durations, LinkOutlivesBudgets, UploadOutlivesLink, OneKind DEF Tracked, TypeOK,
          JanitorType, Timely, Kept, Left, Adrift, queueJob, Requests, Accounts, ages,
          Goes, CoverLink
  <1>7. StagedIsTracked'
    BY Durations, LinkOutlivesBudgets, UploadOutlivesLink DEF Tracked, TypeOK,
          JanitorType, Timely, Kept, Left, Adrift, StagedIsTracked, queueJob, Requests,
          Accounts, ages, Goes, CoverLink
  <1> QED
    BY <1>1, <1>2, <1>3, <1>4, <1>5, <1>6, <1>7 DEF Tracked

LEMMA StartsTracked == ASSUME Tracked, NEW d \in Requests, Starts(d) PROVE Tracked'
  <1>1. TypeOK'
    BY Durations DEF Tracked, TypeOK, JanitorType, Starts, Requests, Accounts, ages
  <1>2. JanitorType'
    BY DEF Tracked, TypeOK, JanitorType, Starts, Requests, Accounts, ages
  <1>3. Timely'
    BY Durations, LinkOutlivesBudgets DEF Tracked, TypeOK, Timely, Starts, Requests,
          Accounts, ages, CoverLink
  <1>4. Kept'
    BY Durations, LinkOutlivesBudgets, UploadOutlivesLink, OneKind DEF Tracked, TypeOK,
          JanitorType, Timely, Kept, Starts, Requests, Accounts, ages, MayFetch, CoverLink,
          Awaited
  <1>5. Left'
    BY Durations DEF Tracked, TypeOK, Timely, Left, Starts, Requests, Accounts, ages,
          CoverLink
  <1>6. Adrift'
    BY Durations, LinkOutlivesBudgets, UploadOutlivesLink, OneKind DEF Tracked, TypeOK,
          JanitorType, Timely, Kept, Left, Adrift, Starts, Requests, Accounts, ages,
          CoverLink
  <1>7. StagedIsTracked'
    BY Durations, LinkOutlivesBudgets, UploadOutlivesLink DEF Tracked, TypeOK,
          JanitorType, Timely, Kept, Left, Adrift, StagedIsTracked, Starts, Requests,
          Accounts, ages, CoverLink
  <1> QED
    BY <1>1, <1>2, <1>3, <1>4, <1>5, <1>6, <1>7 DEF Tracked

LEMMA EndsTracked == ASSUME Tracked, NEW d \in Requests, Ends(d) PROVE Tracked'
  <1>1. TypeOK'
    BY Durations DEF Tracked, TypeOK, JanitorType, Ends, Requests, Accounts, ages
  <1>2. JanitorType'
    BY DEF Tracked, TypeOK, JanitorType, Ends, Requests, Accounts, ages
  <1>3. Timely'
    BY Durations, LinkOutlivesBudgets DEF Tracked, TypeOK, Timely, Ends, Requests, Accounts,
          ages, CoverLink
  <1>4. Kept'
    BY Durations, LinkOutlivesBudgets, UploadOutlivesLink, OneKind DEF Tracked, TypeOK,
          JanitorType, Timely, Kept, Ends, Requests, Accounts, ages, MayFetch, CoverLink,
          Awaited
  <1>5. Left'
    BY Durations DEF Tracked, TypeOK, Timely, Left, Ends, Requests, Accounts, ages,
          CoverLink
  <1>6. Adrift'
    BY Durations, LinkOutlivesBudgets, UploadOutlivesLink, OneKind DEF Tracked, TypeOK,
          JanitorType, Timely, Kept, Left, Adrift, Ends, Requests, Accounts, ages,
          CoverLink
  <1>7. StagedIsTracked'
    BY Durations, LinkOutlivesBudgets, UploadOutlivesLink DEF Tracked, TypeOK,
          JanitorType, Timely, Kept, Left, Adrift, StagedIsTracked, Ends, Requests,
          Accounts, ages, CoverLink
  <1> QED
    BY <1>1, <1>2, <1>3, <1>4, <1>5, <1>6, <1>7 DEF Tracked

LEMMA DeleteSongTracked == ASSUME Tracked, NEW d \in Requests, DeleteSong(d) PROVE Tracked'
  <1>1. TypeOK'
    BY Durations DEF Tracked, TypeOK, JanitorType, DeleteSong, Requests, Accounts, ages
  <1>2. JanitorType'
    BY DEF Tracked, TypeOK, JanitorType, DeleteSong, Requests, Accounts, ages
  <1>3. Timely'
    BY Durations, LinkOutlivesBudgets DEF Tracked, TypeOK, Timely, DeleteSong, Requests,
          Accounts, ages, CoverLink
  <1>4. Kept'
    BY Durations, LinkOutlivesBudgets, UploadOutlivesLink, OneKind DEF Tracked, TypeOK,
          JanitorType, Timely, Kept, DeleteSong, Requests, Accounts, ages, MayFetch,
          CoverLink, Awaited
  <1>5. Left'
    BY Durations DEF Tracked, TypeOK, Timely, Left, DeleteSong, Requests, Accounts, ages,
          CoverLink
  <1>6. Adrift'
    BY Durations, LinkOutlivesBudgets, UploadOutlivesLink, OneKind DEF Tracked, TypeOK,
          JanitorType, Timely, Kept, Left, Adrift, DeleteSong, Requests, Accounts, ages,
          CoverLink
  <1>7. StagedIsTracked'
    BY Durations, LinkOutlivesBudgets, UploadOutlivesLink DEF Tracked, TypeOK,
          JanitorType, Timely, Kept, Left, Adrift, StagedIsTracked, DeleteSong,
          Requests, Accounts, ages, CoverLink
  <1> QED
    BY <1>1, <1>2, <1>3, <1>4, <1>5, <1>6, <1>7 DEF Tracked

LEMMA UnlinkTracked == ASSUME Tracked, NEW d \in Requests, Unlink(d) PROVE Tracked'
  <1>1. TypeOK'
    BY Removed, Durations DEF Tracked, TypeOK, JanitorType, Unlink, Requests, Accounts, rows, ages
  <1>2. JanitorType'
    BY Removed DEF Tracked, TypeOK, JanitorType, Unlink, Requests, Accounts, rows, ages
  <1>3. Timely'
    BY Removed, Durations, LinkOutlivesBudgets DEF Tracked, TypeOK, Timely, Unlink, Requests,
          Accounts, rows, ages, CoverLink
  <1>4. Kept'
    BY Removed, Durations, LinkOutlivesBudgets, UploadOutlivesLink, OneKind DEF Tracked, TypeOK,
          JanitorType, Timely, Kept, Unlink, Requests, Accounts, rows, ages, MayFetch,
          CoverLink, Awaited
  <1>5. Left'
    BY Removed, Durations DEF Tracked, TypeOK, Timely, Left, Unlink, Requests, Accounts, rows, ages,
          CoverLink
  <1>6. Adrift'
    BY Removed, Durations, LinkOutlivesBudgets, UploadOutlivesLink, OneKind DEF Tracked, TypeOK,
          JanitorType, Timely, Kept, Left, Adrift, Unlink, Requests, Accounts, rows,
          ages, CoverLink
  <1>7. StagedIsTracked'
    BY Removed, Durations, LinkOutlivesBudgets, UploadOutlivesLink DEF Tracked, TypeOK,
          JanitorType, Timely, Kept, Left, Adrift, StagedIsTracked, Unlink, Requests,
          Accounts, rows, ages, CoverLink
  <1> QED
    BY <1>1, <1>2, <1>3, <1>4, <1>5, <1>6, <1>7 DEF Tracked

LEMMA DeleteUserTracked == ASSUME Tracked, NEW d \in Accounts, DeleteUser(d) PROVE Tracked'
  <1>1. TypeOK'
    BY Durations DEF Tracked, TypeOK, JanitorType, DeleteUser, Requests, Accounts, ages, Of,
          UnderWay, LinksOf
  <1>2. JanitorType'
    BY DEF Tracked, TypeOK, JanitorType, DeleteUser, Requests, Accounts, ages, Of, UnderWay,
          LinksOf
  <1>3. Timely'
    BY Durations, LinkOutlivesBudgets DEF Tracked, TypeOK, Timely, DeleteUser, Requests,
          Accounts, ages, Of, UnderWay, CoverLink, LinksOf
  <1>4. Kept'
    BY Durations, LinkOutlivesBudgets, UploadOutlivesLink, OneKind DEF Tracked, TypeOK,
          JanitorType, Timely, Kept, DeleteUser, Requests, Accounts, ages, Of, UnderWay,
          MayFetch, CoverLink, LinksOf, Awaited
  <1>5. Left'
    <2> SUFFICES ASSUME NEW c \in Requests \ overtaken', Account[c] \in gone'
                 PROVE  /\ at[c] \in {"idle", "done"}
                        /\ c \in Uploads => c \notin uploads' /\ ~CoverLink(c)'
      BY DEF Left, DeleteUser
    <2>1. CASE Account[c] \in gone
      BY <2>1 DEF Tracked, Left, DeleteUser, ages, CoverLink
    <2>2. CASE Account[c] \notin gone
      <3>1. c \in Of(d)
        BY <2>2 DEF DeleteUser, Of
      <3>2. at[c] \in {"idle", "done"}
        BY <3>1 DEF Tracked, TypeOK, DeleteUser, UnderWay
      <3>3. c \in Uploads => c \notin uploads'
        BY <3>1 DEF DeleteUser
      <3>4. c \in Uploads /\ CoverLink(c) => c \in LinksOf(d)
        BY <2>2, <3>1 DEF Tracked, Kept, LinksOf
      <3> QED
        BY <3>2, <3>3, <3>4 DEF DeleteUser, ages, CoverLink
    <2> QED
      BY <2>1, <2>2
  <1>6. Adrift'
    BY Durations, LinkOutlivesBudgets, UploadOutlivesLink, OneKind DEF Tracked, TypeOK,
          JanitorType, Timely, Kept, Left, Adrift, DeleteUser, Requests, Accounts, ages,
          Of, UnderWay, LinksOf, CoverLink
  <1>7. StagedIsTracked'
    BY Durations, LinkOutlivesBudgets, UploadOutlivesLink DEF Tracked, TypeOK,
          JanitorType, Timely, Kept, Left, Adrift, StagedIsTracked, DeleteUser,
          Requests, Accounts, ages, Of, UnderWay, LinksOf, CoverLink
  <1> QED
    BY <1>1, <1>2, <1>3, <1>4, <1>5, <1>6, <1>7 DEF Tracked

LEMMA PurgeExpiredCoverLinksTracked == ASSUME Tracked, PurgeExpiredCoverLinks PROVE Tracked'
  <1>1. TypeOK'
    BY Durations DEF Tracked, TypeOK, JanitorType, PurgeExpiredCoverLinks, Requests,
          Accounts, ages, Resting, CoverLink
  <1>2. JanitorType'
    BY DEF Tracked, TypeOK, JanitorType, PurgeExpiredCoverLinks, Requests, Accounts, ages,
          Resting, CoverLink
  <1>3. Timely'
    BY Durations, LinkOutlivesBudgets DEF Tracked, TypeOK, Timely, PurgeExpiredCoverLinks,
          Requests, Accounts, ages, Resting, CoverLink
  <1>4. Kept'
    BY Durations, LinkOutlivesBudgets, UploadOutlivesLink, OneKind DEF Tracked, TypeOK,
          JanitorType, Timely, Kept, PurgeExpiredCoverLinks, Requests, Accounts, ages,
          Resting, MayFetch, CoverLink, Awaited
  <1>5. Left'
    BY Durations DEF Tracked, TypeOK, Timely, Left, PurgeExpiredCoverLinks, Requests,
          Accounts, ages, Resting, CoverLink
  <1>6. Adrift'
    BY Durations, LinkOutlivesBudgets, UploadOutlivesLink, OneKind DEF Tracked, TypeOK,
          JanitorType, Timely, Kept, Left, Adrift, PurgeExpiredCoverLinks, Requests,
          Accounts, ages, Resting, CoverLink
  <1>7. StagedIsTracked'
    BY Durations, LinkOutlivesBudgets, UploadOutlivesLink DEF Tracked, TypeOK,
          JanitorType, Timely, Kept, Left, Adrift, StagedIsTracked,
          PurgeExpiredCoverLinks, Requests, Accounts, ages, Resting, CoverLink
  <1> QED
    BY <1>1, <1>2, <1>3, <1>4, <1>5, <1>6, <1>7 DEF Tracked

LEMMA SelectStaleTracked == ASSUME Tracked, SelectStale PROVE Tracked'
  <1>1. TypeOK'
    BY Durations DEF Tracked, TypeOK, JanitorType, SelectStale, Requests, Accounts, rows,
          ages, Resting, Stale
  <1>2. JanitorType'
    BY DEF Tracked, TypeOK, JanitorType, SelectStale, Requests, Accounts, rows, ages,
          Resting, Stale
  <1>3. Timely'
    BY Durations, LinkOutlivesBudgets DEF Tracked, TypeOK, Timely, SelectStale, Requests,
          Accounts, rows, ages, Resting, CoverLink, Stale
  <1>4. Kept'
    BY Durations, LinkOutlivesBudgets, UploadOutlivesLink, OneKind DEF Tracked, TypeOK,
          JanitorType, Timely, Kept, SelectStale, Requests, Accounts, rows, ages, Resting,
          MayFetch, CoverLink, Stale, Awaited
  <1>5. Left'
    BY Durations DEF Tracked, TypeOK, Timely, Left, SelectStale, Requests, Accounts, rows,
          ages, Resting, CoverLink, Stale
  <1>6. Adrift'
    BY Durations, LinkOutlivesBudgets, UploadOutlivesLink, OneKind DEF Tracked, TypeOK,
          JanitorType, Timely, Kept, Left, Adrift, SelectStale, Requests, Accounts,
          rows, ages, Resting, Stale, CoverLink
  <1>7. StagedIsTracked'
    BY Durations, LinkOutlivesBudgets, UploadOutlivesLink DEF Tracked, TypeOK,
          JanitorType, Timely, Kept, Left, Adrift, StagedIsTracked, SelectStale,
          Requests, Accounts, rows, ages, Resting, Stale, CoverLink
  <1> QED
    BY <1>1, <1>2, <1>3, <1>4, <1>5, <1>6, <1>7 DEF Tracked

LEMMA DeleteStaleTracked == ASSUME Tracked, DeleteStale PROVE Tracked'
  <1>1. TypeOK'
    BY Durations DEF Tracked, TypeOK, JanitorType, DeleteStale, Requests, Accounts, ages,
          Resting
  <1>2. JanitorType'
    BY DEF Tracked, TypeOK, JanitorType, DeleteStale, Requests, Accounts, ages, Resting
  <1>3. Timely'
    BY Durations, LinkOutlivesBudgets DEF Tracked, TypeOK, Timely, DeleteStale, Requests,
          Accounts, ages, Resting, CoverLink
  <1>4. Kept'
    BY Durations, LinkOutlivesBudgets, UploadOutlivesLink, OneKind DEF Tracked, TypeOK,
          JanitorType, Timely, Kept, DeleteStale, Requests, Accounts, ages, Resting,
          MayFetch, CoverLink, Awaited
  <1>5. Left'
    BY Durations DEF Tracked, TypeOK, Timely, Left, DeleteStale, Requests, Accounts, ages,
          Resting, CoverLink
  <1>6. Adrift'
    BY Durations, LinkOutlivesBudgets, UploadOutlivesLink, OneKind DEF Tracked, TypeOK,
          JanitorType, Timely, Kept, Left, Adrift, DeleteStale, Requests, Accounts,
          ages, Resting, CoverLink
  <1>7. StagedIsTracked'
    BY Durations, LinkOutlivesBudgets, UploadOutlivesLink DEF Tracked, TypeOK,
          JanitorType, Timely, Kept, Left, Adrift, StagedIsTracked, DeleteStale,
          Requests, Accounts, ages, Resting, CoverLink
  <1> QED
    BY <1>1, <1>2, <1>3, <1>4, <1>5, <1>6, <1>7 DEF Tracked

LEMMA UnlinkStaleTracked == ASSUME Tracked, UnlinkStale PROVE Tracked'
  <1>1. TypeOK'
    BY Removed, Durations DEF Tracked, TypeOK, JanitorType, UnlinkStale, Requests, Accounts, rows,
          ages, Resting
  <1>2. JanitorType'
    BY Removed DEF Tracked, TypeOK, JanitorType, UnlinkStale, Requests, Accounts, rows, ages,
          Resting
  <1>3. Timely'
    BY Removed, Durations, LinkOutlivesBudgets DEF Tracked, TypeOK, Timely, UnlinkStale, Requests,
          Accounts, rows, ages, Resting, CoverLink
  <1>4. Kept'
    BY Removed, Durations, LinkOutlivesBudgets, UploadOutlivesLink, OneKind DEF Tracked, TypeOK,
          JanitorType, Timely, Kept, UnlinkStale, Requests, Accounts, rows, ages, Resting,
          MayFetch, CoverLink, Awaited
  <1>5. Left'
    BY Removed, Durations DEF Tracked, TypeOK, Timely, Left, UnlinkStale, Requests, Accounts, rows,
          ages, Resting, CoverLink
  <1>6. Adrift'
    BY Removed, Durations, LinkOutlivesBudgets, UploadOutlivesLink, OneKind DEF Tracked, TypeOK,
          JanitorType, Timely, Kept, Left, Adrift, UnlinkStale, Requests, Accounts,
          rows, ages, Resting, CoverLink
  <1>7. StagedIsTracked'
    BY Removed, Durations, LinkOutlivesBudgets, UploadOutlivesLink DEF Tracked, TypeOK,
          JanitorType, Timely, Kept, Left, Adrift, StagedIsTracked, UnlinkStale,
          Requests, Accounts, rows, ages, Resting, CoverLink
  <1> QED
    BY <1>1, <1>2, <1>3, <1>4, <1>5, <1>6, <1>7 DEF Tracked

LEMMA RestartTracked == ASSUME Tracked, Restart PROVE Tracked'
  <1>1. TypeOK'
    BY Durations DEF Tracked, TypeOK, JanitorType, Restart, Requests, Accounts, rows, ages,
          Resting, UnderWay
  <1>2. JanitorType'
    BY DEF Tracked, TypeOK, JanitorType, Restart, Requests, Accounts, rows, ages, Resting,
          UnderWay
  <1>3. Timely'
    BY Durations, LinkOutlivesBudgets DEF Tracked, TypeOK, Timely, Restart, Requests,
          Accounts, rows, ages, Resting, UnderWay, CoverLink
  <1>4. Kept'
    BY Durations, LinkOutlivesBudgets, UploadOutlivesLink, OneKind DEF Tracked, TypeOK,
          JanitorType, Timely, Kept, Restart, Requests, Accounts, rows, ages, Resting,
          UnderWay, MayFetch, CoverLink, Awaited
  <1>5. Left'
    BY Durations DEF Tracked, TypeOK, Timely, Left, Restart, Requests, Accounts, rows, ages,
          Resting, UnderWay, CoverLink
  <1>6. Adrift'
    BY Durations, LinkOutlivesBudgets, UploadOutlivesLink, OneKind DEF Tracked, TypeOK,
          JanitorType, Timely, Kept, Left, Adrift, Restart, Requests, Accounts, rows,
          ages, Resting, UnderWay, CoverLink
  <1>7. StagedIsTracked'
    BY Durations, LinkOutlivesBudgets, UploadOutlivesLink DEF Tracked, TypeOK,
          JanitorType, Timely, Kept, Left, Adrift, StagedIsTracked, Restart, Requests,
          Accounts, rows, ages, Resting, UnderWay, CoverLink
  <1> QED
    BY <1>1, <1>2, <1>3, <1>4, <1>5, <1>6, <1>7 DEF Tracked

LEMMA TickTracked == ASSUME Tracked, Tick PROVE Tracked'
  <1>1. TypeOK'
    BY Durations DEF Tracked, TypeOK, JanitorType, Tick, Requests, Accounts, rows, Aged
  <1>2. JanitorType'
    BY DEF Tracked, TypeOK, JanitorType, Tick, Requests, Accounts, rows, Aged
  <1>3. Timely'
    BY Durations, LinkOutlivesBudgets, UploadOutlivesLink DEF Tracked, TypeOK, Timely, Tick,
          Requests, Accounts, rows, CoverLink, Aged
  <1>4. Kept'
    BY Durations, LinkOutlivesBudgets, UploadOutlivesLink, OneKind DEF Tracked, TypeOK,
          JanitorType, Timely, Kept, Tick, Requests, Accounts, rows, MayFetch, CoverLink,
          Aged, Awaited
  <1>5. Left'
    BY Durations DEF Tracked, TypeOK, Timely, Left, Tick, Requests, Accounts, rows,
          CoverLink, Aged
  <1>6. Adrift'
    BY Durations, LinkOutlivesBudgets, UploadOutlivesLink, OneKind DEF Tracked, TypeOK,
          JanitorType, Timely, Kept, Left, Adrift, Tick, Requests, Accounts, rows, Aged,
          CoverLink
  <1>7. StagedIsTracked'
    BY Durations, LinkOutlivesBudgets, UploadOutlivesLink DEF Tracked, TypeOK,
          JanitorType, Timely, Kept, Left, Adrift, StagedIsTracked, Tick, Requests,
          Accounts, rows, Aged, CoverLink
  <1> QED
    BY <1>1, <1>2, <1>3, <1>4, <1>5, <1>6, <1>7 DEF Tracked

LEMMA TrackedNext == ASSUME Tracked, [Next]_vars PROVE Tracked'
  <1>1. ASSUME NEW c \in Requests, Request(c) \/ Starts(c) \/ Ends(c) \/ DeleteSong(c) \/ Unlink(c)
        PROVE  Tracked'
    BY <1>1, authenticateTracked, storeUploadTracked, recordFailsTracked, RecordCoverUploadTracked, mintCoverURLTracked,
       RefusedTracked, queueJobTracked, StartsTracked, EndsTracked, DeleteSongTracked, UnlinkTracked
    DEF Request
  <1>2. ASSUME NEW a \in Accounts, DeleteUser(a)
        PROVE  Tracked'
    BY <1>2, DeleteUserTracked
  <1>3. CASE Janitor
    BY <1>3, PurgeExpiredCoverLinksTracked, SelectStaleTracked, DeleteStaleTracked, UnlinkStaleTracked
    DEF Janitor
  <1>4. CASE Restart
    BY <1>4, RestartTracked
  <1>5. CASE Tick
    BY <1>5, TickTracked
  <1>6. CASE UNCHANGED vars
    BY <1>6 DEF Tracked, TypeOK, JanitorType, Timely, Kept, Left, Adrift, StagedIsTracked, vars, rows, ages,
                CoverLink, MayFetch, Awaited
  <1> QED
    BY <1>1, <1>2, <1>3, <1>4, <1>5, <1>6 DEF Next

LEMMA AlwaysTracked == Spec => []Tracked
  <1> QED
    BY TrackedInit, TrackedNext, PTL DEF Spec

(* The state keeps its types, whatever the number of requests and accounts    *)
(* (cover.go, store.go's cover tables, worker.RunJanitor).                    *)
THEOREM CoverTypesCorrect == Spec => []TypeOK
  <1>1. Tracked => TypeOK
    BY DEF Tracked
  <1> QED
    BY <1>1, AlwaysTracked, PTL

(* A link signed for a job answers as long as a GPU may ask for the           *)
(* recording, for every length of the budgets that keeps to the order of      *)
(* cover.go:32-37 and every number of jobs, songs and restarts.               *)
THEOREM LinkAlwaysOutlivesJob == Spec => []LinkOutlivesJob
  <1>1. Tracked => LinkOutlivesJob
    <2> SUFFICES ASSUME Tracked, NEW c \in Requests, MayFetch(c), Account[c] \notin gone,
                        c \in Library => c \in songs
                 PROVE  Serves(c)
      BY DEF LinkOutlivesJob
    <2>1. linkAge[c] < LinkTTL
      BY Durations, LinkOutlivesBudgets DEF Tracked, TypeOK, Timely, MayFetch
    <2>2. c \in links /\ (c \in Uploads => c \in files)
      BY DEF Tracked, Kept, Awaited
    <2> QED
      BY <2>1, <2>2 DEF Serves, CoverLink
  <1> QED
    BY <1>1, AlwaysTracked, PTL

(* No failing statement, sweep or deletion loses sight of a recording         *)
(* (cover.go:207-214), whatever the order in which they come; one that a      *)
(* restart or a refused removal loses (worker.go:292-298) is out of reach.    *)
THEOREM StagedAlwaysTracked == Spec => []StagedIsTracked
  <1>1. Tracked => StagedIsTracked
    BY DEF Tracked
  <1> QED
    BY <1>1, AlwaysTracked, PTL

(* What a deletion leaves of an account is at most what a request under way   *)
(* puts back, and files nothing finds any more: a restart came between the    *)
(* commit and the removal, or the removal was refused (store.go:1268-1299,    *)
(* admin.go:206-209).                                                         *)
THEOREM DeletedAccountAlwaysLeavesNothing == Spec => []DeletedAccountLeavesNothing
  <1>1. Tracked => DeletedAccountLeavesNothing
    <2> SUFFICES ASSUME Tracked, NEW c \in Uploads \ overtaken, Account[c] \in gone, c \notin unlinking
                 PROVE  /\ c \notin uploads /\ ~CoverLink(c)
                        /\ c \in files \ stray => janitor.at = "unlink" /\ c \in janitor.names
      BY DEF DeletedAccountLeavesNothing
    <2>1. at[c] \in {"idle", "done"} /\ c \notin uploads /\ ~CoverLink(c)
      BY DEF Tracked, Left, Requests
    <2> QED
      BY <2>1 DEF Tracked, StagedIsTracked
  <1> QED
    BY <1>1, AlwaysTracked, PTL
=============================================================================
