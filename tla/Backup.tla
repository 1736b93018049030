------------------------------- MODULE Backup -------------------------------
(* The off-host copy of /data and its restoration: docker/restore.sh before   *)
(* the app starts, docker/files-sync.sh and litestream beside it, and the app *)
(* writing songs meanwhile. A song is its row and a file of its own. A        *)
(* database carries the number of the deployment that created it, so that an  *)
(* unrelated one is told apart from the one it would replace.                 *)
EXTENDS Integers, FiniteSets

CONSTANTS
    Songs,
    MaxLosses   \* bound: volumes lost

Losses == MaxLosses \in Nat

VARIABLES
    stack,      \* "down", "database", "files", "copying", "up"
    db,         \* the volume's database: deployment and rows, or NoDatabase
    audio,      \* the volume has an audio directory, and the files in it
    files,
    young,      \* files less than 30 s old
    unfiled,    \* files whose rows the running app has yet to write
    bucketDb, bucketFiles,
    made,       \* songs ever made, and deployments that created a database (history)
    deployed,
    partial,    \* a copy of the files onto this volume was cut short (history)
    losses
volume == <<db, audio, files, young, unfiled>>
bucket == <<bucketDb, bucketFiles>>
history == <<made, deployed, partial, losses>>
vars == <<stack, volume, bucket, history>>

NoDatabase == [deployment |-> 0, rows |-> {}]

Init ==
    /\ stack = "down"
    /\ db = NoDatabase /\ audio = FALSE /\ files = {} /\ young = {} /\ unfiled = {}
    /\ bucketDb = NoDatabase /\ bucketFiles = {}
    /\ made = {} /\ deployed = 0 /\ partial = FALSE /\ losses = 0

Goes(from, to) == stack = from /\ stack' = to
-----------------------------------------------------------------------------
(* restore.sh. Any step that fails ends it, and nothing else is started.      *)
Up == Goes("down", "database") /\ UNCHANGED <<volume, bucket, history>>

restoreFails ==
    /\ stack \in {"database", "files", "copying"} /\ stack' = "down"
    /\ partial' = (partial \/ (stack = "copying" /\ audio))
    /\ UNCHANGED <<volume, bucket, made, deployed, losses>>

restoreDatabase_FailsOpen ==
    /\ Goes("database", "files")
    /\ db' \in (IF db # NoDatabase THEN {db} ELSE {NoDatabase, bucketDb})
    /\ UNCHANGED <<audio, files, young, unfiled, bucket, history>>

\* A database on the volume is left as it is; else the replica, if there is one.
restoreDatabase ==
    /\ Goes("database", "files")
    /\ db' = IF db # NoDatabase THEN db ELSE bucketDb
    /\ UNCHANGED <<audio, files, young, unfiled, bucket, history>>

restoreFiles_ByDatabase ==
    /\ IF db # NoDatabase THEN Goes("files", "up") ELSE Goes("files", "copying")
    /\ UNCHANGED <<volume, bucket, history>>

\* An audio directory on the volume is left as it is, whatever it holds.
restoreFiles ==
    /\ IF audio THEN Goes("files", "up") ELSE Goes("files", "copying")
    /\ UNCHANGED <<volume, bucket, history>>

rcloneCopy(f) ==
    /\ stack = "copying" /\ f \in bucketFiles \ files
    /\ audio' = TRUE /\ files' = files \cup {f}
    /\ UNCHANGED <<stack, db, young, unfiled, bucket, history>>

restored ==
    /\ Goes("copying", "up") /\ bucketFiles \subseteq files
    /\ UNCHANGED <<volume, bucket, history>>
-----------------------------------------------------------------------------
(* The app: it creates a database where there is none, and finishes songs.    *)
(* Between a song's file and its row lies the fetch of its score, however     *)
(* long that takes.                                                           *)
Open ==
    /\ stack = "up" /\ db = NoDatabase
    /\ deployed' = deployed + 1
    /\ db' = [deployment |-> deployed + 1, rows |-> {}]
    /\ UNCHANGED <<stack, audio, files, young, unfiled, bucket, made, partial, losses>>

encode(f) ==
    /\ stack = "up" /\ db # NoDatabase /\ f \notin made
    /\ made' = made \cup {f}
    /\ audio' = TRUE /\ files' = files \cup {f} /\ young' = young \cup {f} /\ unfiled' = unfiled \cup {f}
    /\ UNCHANGED <<stack, db, bucket, deployed, partial, losses>>

insertSong(f) ==
    /\ stack = "up" /\ db # NoDatabase /\ f \in unfiled
    /\ db' = [db EXCEPT !.rows = @ \cup {f}] /\ unfiled' = unfiled \ {f}
    /\ UNCHANGED <<stack, audio, files, young, bucket, history>>

DeleteSong(f) ==
    /\ stack = "up" /\ f \in db.rows
    /\ db' = [db EXCEPT !.rows = @ \ {f}]
    /\ files' = files \ {f} /\ young' = young \ {f}
    /\ UNCHANGED <<stack, audio, unfiled, bucket, history>>

Age(f) ==
    /\ f \in young /\ young' = young \ {f}
    /\ UNCHANGED <<stack, db, audio, files, unfiled, bucket, history>>
-----------------------------------------------------------------------------
(* litestream, which follows the volume's database, and files-sync, a pass    *)
(* of which copies the files old enough and never deletes any.                *)
replicate ==
    /\ stack = "up" /\ db # NoDatabase /\ bucketDb' = db
    /\ UNCHANGED <<stack, volume, bucketFiles, history>>

syncFile(f) ==
    /\ stack = "up" /\ f \in files \ young
    /\ bucketFiles' = bucketFiles \cup {f}
    /\ UNCHANGED <<stack, volume, bucketDb, history>>

Down ==
    /\ Goes("up", "down") /\ unfiled' = {}
    /\ UNCHANGED <<db, audio, files, young, bucket, history>>

\* The volume is removed while the stack is stopped.
loseVolume ==
    /\ stack = "down" /\ losses < MaxLosses /\ losses' = losses + 1
    /\ db' = NoDatabase /\ audio' = FALSE /\ files' = {} /\ young' = {} /\ partial' = FALSE
    /\ UNCHANGED <<stack, unfiled, bucket, made, deployed>>

Next ==
    \/ Up \/ restoreFails \/ restoreDatabase \/ restoreFiles \/ restored
    \/ Open \/ replicate \/ Down \/ loseVolume
    \/ \E f \in Songs : rcloneCopy(f) \/ encode(f) \/ insertSong(f) \/ DeleteSong(f) \/ Age(f) \/ syncFile(f)

Spec == Init /\ [][Next]_vars
-----------------------------------------------------------------------------
TypeOK ==
    /\ stack \in {"down", "database", "files", "copying", "up"}
    /\ \A d \in {db, bucketDb} : d.deployment \in 0..deployed /\ d.rows \subseteq made
    /\ files \cup bucketFiles \subseteq made /\ made \subseteq Songs
    /\ young \cup unfiled \subseteq files /\ (files # {} => audio)

\* A database in the bucket is never replaced by an unrelated one that came up
\* empty, whatever of the volume and the restore was lost (restore.sh:5-7).
BackupStays == bucketDb # NoDatabase => bucketDb'.deployment = bucketDb.deployment

\* Once the app runs, every song of its library that has its file in the bucket
\* has it on the volume ("repopulates it before the app starts", README.md:244).
\* The exception is a copy that was cut short: the next start takes the directory
\* it began for a whole one (restore.sh:32).
RecoveryIsComplete == stack = "up" /\ ~partial => db.rows \cap bucketFiles \subseteq files
=============================================================================
