---------------------------- MODULE GenerateForm ----------------------------
(* From the page to the GPU: the forms that create, edit and cover songs      *)
(* (server/handlers.go, server/cover.go), the jobs they queue, the request    *)
(* each job becomes (worker.requestFor) and the song that comes back, which   *)
(* later forms start from. One song and one job at a time; the texts are      *)
(* reduced to what the handlers tell apart.                                   *)
EXTENDS Integers

CONSTANTS
    None,           \* an absent seed, score, recording or guidance
    Seeds,          \* seeds a form may carry
    Durations, MinDuration, MaxDuration,
    Tempos, MinTempo, MaxTempo,
    KeyShifts, MaxKeyShift

Numbers == /\ Seeds \cup Durations \cup Tempos \cup KeyShifts \subseteq Int
           /\ {MinDuration, MaxDuration, MinTempo, MaxTempo, MaxKeyShift} \subseteq Nat
           /\ 0 \in KeyShifts

Engines == {"minimax", "yue2"}
Modes == {"create", "cover", "edit"}
\* "tagged" are words with text beside a section tag, "lead" words without, and
\* "none" is a blank field, here and below.
Lyrics == {"none", "lead", "tagged"}
Cots == {"none", "full", "melody", "off"}
Guidance == {None, 30, 45}                    \* tenths
Seed == Seeds \cup {None}
\* A stored score: its Q: header, if any, how far it was transposed and whether
\* it can be: not without a key, in an unknown one, or when a note has no spelling.
Sheets == [tempo : Tempos \cup {None}, key : KeyShifts, movable : BOOLEAN]

\* An absent score or recording is not one of those there may be.
NoneIsNone == None \notin Sheets \cup {"song_link", "upload_link", "address"}

VARIABLES
    yue2,       \* this process holds a client for the second engine
    song,       \* the library song at hand, or None
    job,        \* the queued job, or None
    asked       \* the song an edit or a cover was made from, None for a new one
vars == <<yue2, song, job, asked>>

Job == [engine : Engines, mode : Modes, style : BOOLEAN, lyrics : Lyrics, cot : Cots,
        instrumental : BOOLEAN, duration : Durations \cup {0}, seed : Seed, abc : Sheets \cup {None},
        audio : {None, "song_link", "upload_link", "address"},
        source : BOOLEAN, guidance : Guidance]
\* MiniMax's worker names its engine "diffusers".
Song == [engine : Engines \cup {"diffusers"}, mode : Modes, lyrics : Lyrics, score : Sheets \cup {None}, seed : Seed,
         duration : Durations]

\* CreateJob's defaults and queueJob's: what a handler does not mention.
Blank == [engine |-> "yue2", mode |-> "create", style |-> TRUE, lyrics |-> "none", cot |-> "none",
          instrumental |-> FALSE, duration |-> 0, seed |-> None, abc |-> None, audio |-> None,
          source |-> FALSE, guidance |-> None]

Init == yue2 \in BOOLEAN /\ song = None /\ job = None /\ asked = None
-----------------------------------------------------------------------------
(* The generate form.                                                         *)
badTagLine(lyrics) == lyrics = "tagged"

engineOf(v) == IF v = "yue2" /\ yue2 THEN "yue2" ELSE "minimax"

\* Normalised, not rejected: a field the engine does not take is cleared.
jobFormOf(f) ==
    LET engine == engineOf(f.engine) IN
    [Blank EXCEPT !.engine = engine, !.style = f.style, !.lyrics = f.lyrics,
                  !.cot = IF engine = "yue2" THEN f.cot ELSE "none",
                  !.instrumental = engine = "yue2" /\ f.instrumental,
                  !.duration = f.duration, !.seed = f.seed]

lyricsProblem(j) ==
    \/ j.lyrics = "none" /\ ~j.instrumental
    \/ j.lyrics # "none" /\ j.instrumental
    \/ badTagLine(j.lyrics)

validate(j) ==
    /\ ~lyricsProblem(j)
    /\ j.style
    /\ j.engine # "yue2" => j.duration \in MinDuration..MaxDuration

queueJob(j, from) ==
    /\ job' = j
    /\ asked' = from
    /\ UNCHANGED <<yue2, song>>

CreateForm == [engine : {"minimax", "yue2", "stale"}, style : BOOLEAN, lyrics : Lyrics, cot : Cots,
               instrumental : BOOLEAN, duration : Durations, seed : Seed]

handleCreateJob(f) ==
    /\ job = None
    /\ validate(jobFormOf(f))
    /\ queueJob(jobFormOf(f), None)
-----------------------------------------------------------------------------
(* Edit: the stored score, with the key and the tempo asked for.              *)
styleStrengths == [off |-> None, balanced |-> 30, strong |-> 45]
styleStrengthOf(v, fallback) == styleStrengths[IF v = "none" THEN fallback ELSE v]

\* The source's seed, unless a new one is asked for: any of the worker's range.
seedFor(f) == IF f.newSeed THEN {s \in Seeds : s >= 0} ELSE {song.seed}

\* The scores that may come of it: none if the key or tempo cannot be changed.
editScoreOf(f) ==
    {s \in Sheets :
        /\ f.shift \in -MaxKeyShift..MaxKeyShift
        /\ s.key = song.score.key + f.shift /\ s.movable = song.score.movable
        /\ f.shift # 0 => song.score.movable   \* notation.Transpose
        /\ IF f.tempo = None THEN s.tempo = song.score.tempo
           ELSE /\ f.tempo \in MinTempo..MaxTempo
                /\ song.score.tempo # None     \* rewriteTempo found a Q: header
                /\ s.tempo = f.tempo}

\* What is left blank falls back to the song's own.
editWordsOf_AllowEmpty(f) == IF f.lyrics = "none" THEN {song.lyrics} ELSE {f.lyrics}

editWordsOf(f) == (IF f.lyrics = "none" THEN {song.lyrics} ELSE {f.lyrics}) \ {"none"}

EditForm == [lyrics : Lyrics, shift : KeyShifts, tempo : Tempos \cup {None},
             strength : {"none"} \cup DOMAIN styleStrengths, newSeed : BOOLEAN]

handleEditSong(f) ==
    /\ job = None /\ song # None
    /\ song.score # None
    /\ \E words \in editWordsOf(f), score \in editScoreOf(f), seed \in seedFor(f) :
          queueJob([Blank EXCEPT !.engine = song.engine, !.mode = "edit", !.lyrics = words,
                                 !.abc = score, !.source = TRUE, !.seed = seed,
                                 !.duration = song.duration,
                                 !.guidance = styleStrengthOf(f.strength, "off")], song)
-----------------------------------------------------------------------------
(* Cover: of the song at hand, or of a recording the form brings.             *)

\* The link, and whether the job counts as derived from the song: a pasted
\* address wins over an upload, and either over the song.
resolveCoverSource_AlwaysDerived(f, src) ==
    [audio |-> IF f.url THEN "address" ELSE IF f.upload THEN "upload_link" ELSE "song_link",
     source |-> src # None]

resolveCoverSource(f, src) ==
    IF f.url THEN [audio |-> "address", source |-> FALSE]
    ELSE IF f.upload THEN [audio |-> "upload_link", source |-> FALSE]
    ELSE [audio |-> "song_link", source |-> TRUE]

CoverForm == [style : BOOLEAN, lyrics : Lyrics, url : BOOLEAN, upload : BOOLEAN,
              seed : Seed, newSeed : BOOLEAN, strength : {"none"} \cup DOMAIN styleStrengths]

\* Without a song the form must bring an upload, and only an upload.
queueCover(f, src) ==
    /\ f.style /\ ~badTagLine(f.lyrics)
    /\ src = None => f.upload /\ ~f.url
    /\ \E seed \in IF src = None THEN {f.seed} ELSE seedFor(f) :
          LET from == resolveCoverSource(f, src) IN
          queueJob([Blank EXCEPT !.mode = "cover", !.lyrics = f.lyrics, !.audio = from.audio,
                                 !.source = from.source, !.seed = seed,
                                 !.guidance = styleStrengthOf(f.strength, "balanced")], src)

handleCreateCover(f) == job = None /\ yue2 /\ queueCover(f, None)

handleCoverSong(f) ==
    /\ job = None /\ song # None
    /\ song.engine = "yue2" /\ yue2
    /\ queueCover(f, song)
-----------------------------------------------------------------------------
(* What the worker sends, and what it files when the song comes back.         *)
\* The YuE2 request: create is left out, and an absent field is None.
requestFor(j) ==
    [j EXCEPT !.mode = IF @ = "create" THEN "none" ELSE @,
              !.instrumental = @ /\ j.mode # "cover",
              !.cot = IF j.abc # None /\ @ = "off" THEN "none" ELSE @]

modeOf_Reported(j, reported) == reported

modeOf(j, reported) == IF reported # "none" THEN reported ELSE j.mode

\* The worker's engineOf: the report wins over the job. YuE2 reports none.
engineMade(j, reported) == IF reported # "none" THEN reported ELSE j.engine
EnginesReported(j) == IF j.engine = "yue2" THEN {"none"} ELSE {"none", "diffusers"}

\* The job succeeds: a YuE2 song has its score unless the fetch of it failed, and
\* a cover's transcribed words are not sent back.
Succeeds ==
    /\ job # None
    /\ \E made \in EnginesReported(job), reported \in {"none", job.mode},
          score \in Sheets \cup {None}, duration \in Durations :
          /\ job.engine = "minimax" => score = None
          /\ score # None => score.key = 0
          /\ song' = [engine |-> engineMade(job, made), mode |-> modeOf(job, reported),
                      lyrics |-> job.lyrics, score |-> score, seed |-> job.seed, duration |-> duration]
    /\ job' = None /\ asked' = None
    /\ UNCHANGED yue2

Fails ==
    /\ job # None
    /\ job' = None /\ asked' = None
    /\ UNCHANGED <<yue2, song>>

\* A restart may bring or take away the second endpoint.
Reconfigure == yue2' = ~yue2 /\ UNCHANGED <<song, job, asked>>

Next ==
    \/ \E f \in CreateForm : handleCreateJob(f)
    \/ \E f \in EditForm : handleEditSong(f)
    \/ \E f \in CoverForm : handleCreateCover(f) \/ handleCoverSong(f)
    \/ Succeeds \/ Fails \/ Reconfigure

Spec == Init /\ [][Next]_vars
-----------------------------------------------------------------------------
TypeOK ==
    /\ yue2 \in BOOLEAN
    /\ job \in Job \cup {None}
    /\ song \in Song \cup {None}
    /\ asked \in Song \cup {None}

\* The worker's side of the contract, as runpod.go:165-209 and handlers.go:482-483
\* record it: words or the instrumental flag and never both, save for a cover,
\* which may have neither; a score with every edit and never beside cot "off"; a
\* recording with a cover and nothing else; create unspoken; and a seed in
\* [0, 2**63), whose upper end ParseInt keeps.
AcceptsSeed(r) == r.seed # None => r.seed >= 0
AcceptsRest(r) ==
    /\ r.style
    /\ ~(r.instrumental /\ r.lyrics # "none")
    /\ r.lyrics = "none" => r.instrumental \/ r.mode = "cover"
    /\ r.abc # None => r.cot # "off"
    /\ r.mode = "edit" => r.abc # None /\ r.lyrics # "none"
    /\ r.mode = "cover" <=> r.audio # None
    /\ r.mode # "create"

\* A negative seed the page took: typed into this form, or copied from the song.
NegativeTyped == job.seed # None /\ job.seed < 0 /\ (asked = None \/ asked.seed = job.seed)

\* No form is accepted that its engine is bound to refuse: the page says no
\* before a job is queued and a GPU is paid for. One thing it does not refuse is
\* a negative seed (seedOf, handlers.go:427-433), which later songs inherit
\* (seedFor): such a request is at fault in its seed and in nothing else, and no
\* form puts one there by itself.
WorkerTakesIt ==
    job # None =>
        IF job.engine = "yue2"
        THEN LET r == requestFor(job) IN AcceptsRest(r) /\ (AcceptsSeed(r) \/ NegativeTyped)
        ELSE job.lyrics # "none" /\ job.duration \in MinDuration..MaxDuration
             /\ job.cot = "none" /\ ~job.instrumental /\ job.mode = "create"

\* A job counts as derived from a song exactly when it is made from that song's
\* score or recording: a cover of an uploaded file made on a song's page is not
\* (cover.go:337-338), and no cover is made with a recording of nobody's.
SourceIsHonest ==
    job # None =>
        /\ job.source <=> job.audio = "song_link" \/ job.abc # None
        /\ job.source => asked # None /\ (job.abc # None => asked.score # None)
=============================================================================
