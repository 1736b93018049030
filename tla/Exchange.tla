------------------------------ MODULE Exchange ------------------------------
(* A song's way: the form that queues it, the exchange with RunPod that makes *)
(* it, the words a lookup offers for it, the key its score is moved to and    *)
(* the bucket it is backed up to. The five share no state, so their product   *)
(* would only multiply the states of each: a behaviour lets one subject move  *)
(* and leaves the others where they began.                                    *)
EXTENDS RunPodClient

CONSTANTS
    None, Seeds, Durations, MinDuration, MaxDuration,
    Tempos, MinTempo, MaxTempo, KeyShifts, MaxKeyShift,        \* of GenerateForm
    Recordings, Scores, MaxCandidates, SureScore, ClearLead,   \* of LyricsMatch
    ScoreKeys, Intervals, Positions, NoAccidental,             \* of Transpose
    Music,     \* keys and the intervals by which notes in them are moved
    Songs, MaxLosses                                           \* of Backup
VARIABLES
    subject,                                        \* what this behaviour is about
    yue2, librarySong, job, asked,                  \* of GenerateForm
    step, cands, candidate, truth, autoSelect,      \* of LyricsMatch
    keyed, iv, srcKey, dstKey, srcSig, dstSig, srcBar, dstTouched,
    result, strictBar, looseBar, heard,             \* of Transpose
    stack, db, audio, files, young, unfiled, bucketDb, bucketFiles,
    made, deployed, partial, losses                 \* of Backup

Form == INSTANCE GenerateForm WITH song <- librarySong
Match == INSTANCE LyricsMatch WITH i <- candidate
Score == INSTANCE Transpose
Copy == INSTANCE Backup

ASSUME NoneIsApart == Form!NoneIsNone
ASSUME NumbersFit == Form!Numbers /\ Match!Numbers /\ Score!Pitches /\ Copy!Losses

form == <<yue2, librarySong, job, asked>>
match == <<step, cands, candidate, truth, autoSelect>>
score == <<keyed, iv, srcKey, dstKey, srcSig, dstSig, srcBar, dstTouched,
           result, strictBar, looseBar, heard>>
copy == <<stack, db, audio, files, young, unfiled, bucketDb, bucketFiles, made, deployed, partial, losses>>
allVars == <<subject, vars, form, match, score, copy>>

ExchangeInit ==
    /\ subject \in {"runpod", "form", "match", "keys", "music", "backup"}
    /\ Init /\ Form!Init /\ Match!Init /\ Score!Init /\ Copy!Init
    /\ subject # "runpod" => payload = [direct |-> Nothing, envelope |-> Nothing]
    /\ subject # "form" => yue2
    /\ subject = "music" => \E m \in Music : iv.semitones = m[2]
    /\ subject \notin {"keys", "music"} => iv.semitones = 1

ExchangeNext ==
    /\ UNCHANGED subject
    /\ \/ subject = "runpod" /\ Next /\ UNCHANGED <<form, match, score, copy>>
       \/ subject = "form" /\ Form!Next /\ UNCHANGED <<vars, match, score, copy>>
       \/ subject = "match" /\ Match!Next /\ UNCHANGED <<vars, form, score, copy>>
       \/ subject = "keys" /\ heard.kind = "none" /\ Score!Next /\ heard'.kind # "note"
          /\ UNCHANGED <<vars, form, match, copy>>
       \/ subject = "music" /\ Score!Next /\ result' = "rewriting" /\ heard'.kind # "chord"
          /\ (keyed' => <<srcKey', iv.semitones>> \in Music) /\ UNCHANGED <<vars, form, match, copy>>
       \/ subject = "backup" /\ Copy!Next /\ UNCHANGED <<vars, form, match, score>>

ExchangeSpec == ExchangeInit /\ [][ExchangeNext]_allVars
-----------------------------------------------------------------------------
(* Every variable of the five has its type.                                   *)
ExchangeTypeOK == TypeOK /\ Form!TypeOK /\ Match!TypeOK /\ Score!TypeOK /\ Copy!TypeOK

(* GenerateForm: no form is accepted that its engine is bound to refuse       *)
(* (runpod.go:165-209, handlers.go:482-483), but for a negative seed, typed   *)
(* or inherited, which the page takes and nothing but which is then at fault. *)
WorkerTakesIt == Form!WorkerTakesIt

(* GenerateForm: a job counts as derived from a song exactly when it is made  *)
(* from its score or its recording (cover.go:337-338).                        *)
SourceIsHonest == Form!SourceIsHonest

(* LyricsMatch: words are filled in unasked only when nothing disputes them,  *)
(* and a service that failed is never taken for one that knew nothing         *)
(* (lookup.go, Lookup and enrich).                                            *)
AnswerIsHonest == Match!AnswerIsHonest

(* Transpose: every note sounds the semitones asked for from where it was, to *)
(* either kind of reader, and a chord keeps its degree (transpose.go:204-209, *)
(* 493-511).                                                                  *)
HeardAsMoved == Score!HeardAsMoved

(* Transpose: the moved key is the same scale (transpose.go:111-146).         *)
SameScale == Score!SameScale

(* Transpose: a header key is accepted at every interval, in the spelling     *)
(* with the fewest accidentals (transpose.go:128-130).                        *)
HeaderIsSimplest == [][Score!HeaderLandsSimplest]_allVars

(* Backup: once the app runs, every song whose file is in the bucket is on    *)
(* the volume, unless the copy was cut short (README.md:244, restore.sh:32).  *)
RecoveryIsComplete == Copy!RecoveryIsComplete

(* Backup: a database in the bucket is never replaced by an unrelated one     *)
(* (restore.sh:5-7).                                                          *)
BackupIsNotReplaced == [][Copy!BackupStays]_allVars
=============================================================================
