--------------------------- MODULE ExchangeProofs ---------------------------
(* Proofs about the forms, the lookup's answer, the score and the backup, for *)
(* any values of the constants that keep to NumbersFit and NoneIsApart, and   *)
(* about their product with the RunPod client. Each part has an inductive     *)
(* invariant of its own: Filled, Looked, Tuned, Recoverable.                  *)
EXTENDS Exchange, RunPodClientProofs, FiniteSetTheorems, SequenceTheorems

(* The product.                                                               *)
LEMMA PartsStart == ExchangeInit => Init /\ Form!Init /\ Match!Init /\ Score!Init /\ Copy!Init
  BY DEF ExchangeInit

LEMMA PartsStep ==
  [ExchangeNext]_allVars =>
    /\ [Next]_vars /\ [Form!Next]_(Form!vars) /\ [Match!Next]_(Match!vars)
    /\ [Score!Next]_(Score!vars) /\ [Copy!Next]_(Copy!vars)
  <1>1. UNCHANGED form => UNCHANGED Form!vars
    BY DEF form, Form!vars
  <1>2. UNCHANGED match => UNCHANGED Match!vars
    BY DEF match, Match!vars
  <1>3. UNCHANGED score => UNCHANGED Score!vars
    BY DEF score, Score!vars, Score!keys, Score!readers
  <1>4. UNCHANGED copy => UNCHANGED Copy!vars
    BY DEF copy, Copy!vars, Copy!volume, Copy!bucket, Copy!history
  <1>5. UNCHANGED allVars => UNCHANGED <<vars, form, match, score, copy>>
    BY DEF allVars
  <1> QED
    BY <1>1, <1>2, <1>3, <1>4, <1>5 DEF ExchangeNext

(* A behaviour of the product is a behaviour of each part, the others left    *)
(* where they began, so what is proved below of a part by itself holds in the *)
(* product the runs check (the packages under internal share no state).       *)
THEOREM ProductIsItsParts ==
  ExchangeSpec => Spec /\ Form!Spec /\ Match!Spec /\ Score!Spec /\ Copy!Spec
  BY PartsStart, PartsStep, PTL DEF ExchangeSpec, Spec, Form!Spec, Match!Spec, Score!Spec, Copy!Spec
-----------------------------------------------------------------------------
(* GenerateForm.                                                              *)

\* Only YuE2 songs have a score to edit; the rest of what is invariant about the
\* forms is what the runs check.
ScoredIsYue2 ==
    librarySong # None /\ librarySong.score # None => librarySong.engine = "yue2"

Filled == Form!TypeOK /\ ScoredIsYue2 /\ WorkerTakesIt /\ SourceIsHonest

LEMMA BlankIs ==
  /\ Form!Blank.engine = "yue2" /\ Form!Blank.mode = "create" /\ Form!Blank.style = TRUE
  /\ Form!Blank.lyrics = "none" /\ Form!Blank.cot = "none" /\ Form!Blank.instrumental = FALSE
  /\ Form!Blank.duration = 0 /\ Form!Blank.seed = None /\ Form!Blank.abc = None /\ Form!Blank.audio = None
  /\ Form!Blank.source = FALSE /\ Form!Blank.guidance = None
  BY DEF Form!Blank

LEMMA StrengthType ==
  ASSUME NEW v \in {"none"} \cup DOMAIN Form!styleStrengths, NEW d \in {"off", "balanced"}
  PROVE  Form!styleStrengthOf(v, d) \in Form!Guidance
  <1>1. DOMAIN Form!styleStrengths = {"off", "balanced", "strong"}
    BY DEF Form!styleStrengths
  <1>2. /\ Form!styleStrengths["off"] = None /\ Form!styleStrengths["balanced"] = 30
        /\ Form!styleStrengths["strong"] = 45
    BY DEF Form!styleStrengths
  <1> QED
    BY <1>1, <1>2 DEF Form!styleStrengthOf, Form!Guidance

LEMMA FilledInit == Form!Init => Filled
  BY DEF Form!Init, Filled, Form!TypeOK, ScoredIsYue2, WorkerTakesIt, SourceIsHonest,
         Form!WorkerTakesIt, Form!SourceIsHonest

LEMMA CreateFills ==
  ASSUME Filled, NEW f \in Form!CreateForm, Form!handleCreateJob(f)
  PROVE  Filled'
  <1> DEFINE j == Form!jobFormOf(f)
  <1>1. job' = j /\ asked' = None /\ UNCHANGED <<yue2, librarySong>> /\ Form!validate(j)
    BY DEF Form!handleCreateJob, Form!queueJob
  <1>2. /\ j.engine = Form!engineOf(f.engine) /\ j.mode = "create" /\ j.lyrics = f.lyrics
        /\ j.cot = IF j.engine = "yue2" THEN f.cot ELSE "none"
        /\ j.duration = f.duration /\ j.seed = f.seed /\ j.abc = None /\ j.audio = None
        /\ j.guidance = None
    BY DEF Form!jobFormOf, Form!Blank
  <1>3. j.style = f.style /\ j.source = FALSE
    BY DEF Form!jobFormOf, Form!Blank
  <1>4. j.instrumental = (j.engine = "yue2" /\ f.instrumental)
    BY DEF Form!jobFormOf, Form!Blank
  <1>5. j.engine \in Form!Engines /\ j.mode \in Form!Modes
    BY <1>2 DEF Form!engineOf, Form!Engines, Form!Modes
  <1>6. /\ j.style \in BOOLEAN /\ j.instrumental \in BOOLEAN /\ j.source \in BOOLEAN
    BY <1>3, <1>4 DEF Form!CreateForm
  <1>7. /\ j.lyrics \in Form!Lyrics /\ j.cot \in Form!Cots
    BY <1>2 DEF Form!CreateForm, Form!Cots
  <1>8. /\ j.duration \in Durations \cup {0} /\ j.seed \in Form!Seed
        /\ j.abc \in Form!Sheets \cup {None} /\ j.audio \in {None, "song_link", "upload_link", "address"}
        /\ j.guidance \in Form!Guidance
    BY <1>2 DEF Form!CreateForm, Form!Guidance
  <1>9. j \in Form!Job
    BY <1>5, <1>6, <1>7, <1>8 DEF Form!jobFormOf, Form!Blank, Form!Job
  <1>10. Form!TypeOK'
    BY <1>1, <1>9 DEF Filled, Form!TypeOK
  <1>11. ScoredIsYue2'
    BY <1>1 DEF Filled, ScoredIsYue2
  <1>12. SourceIsHonest'
    BY <1>1, <1>2, <1>3, NoneIsApart DEF SourceIsHonest, Form!SourceIsHonest, Form!NoneIsNone
  <1>13. WorkerTakesIt'
    <2>1. ~Form!lyricsProblem(j) /\ j.style /\ (j.engine # "yue2" => j.duration \in MinDuration..MaxDuration)
      BY <1>1 DEF Form!validate
    <2>2. CASE j.engine = "yue2"
      <3> DEFINE r == Form!requestFor(j)
      <3>1. r.mode = "none" /\ r.lyrics = j.lyrics /\ r.abc = None /\ r.audio = None
        BY <1>2, <1>9 DEF Form!requestFor, Form!Job
      <3>2. r.style = j.style /\ r.instrumental = j.instrumental
        BY <1>2, <1>6, <1>9 DEF Form!requestFor, Form!Job
      <3>3. Form!AcceptsRest(r)
        BY <2>1, <3>1, <3>2 DEF Form!AcceptsRest, Form!lyricsProblem
      <3>4. r.seed = j.seed
        BY <1>9 DEF Form!requestFor, Form!Job
      <3>5. j.seed # None => j.seed \in Int
        BY <1>8, NumbersFit DEF Form!Seed, Form!Numbers
      <3>6. Form!AcceptsSeed(r) \/ Form!NegativeTyped'
        BY <1>1, <3>4, <3>5 DEF Form!AcceptsSeed, Form!NegativeTyped
      <3> QED
        BY <1>1, <2>2, <3>3, <3>6 DEF WorkerTakesIt, Form!WorkerTakesIt, Form!AcceptsSeed
    <2>3. CASE j.engine # "yue2"
      <3>1. ~j.instrumental /\ j.cot = "none"
        BY <1>2, <1>4, <2>3
      <3> QED
        BY <1>1, <1>2, <2>1, <2>3, <3>1 DEF WorkerTakesIt, Form!WorkerTakesIt, Form!lyricsProblem
    <2> QED
      BY <2>2, <2>3
  <1> QED
    BY <1>10, <1>11, <1>12, <1>13 DEF Filled

LEMMA EditFills ==
  ASSUME Filled, NEW f \in Form!EditForm, Form!handleEditSong(f)
  PROVE  Filled'
  <1>1. PICK words \in Form!editWordsOf(f), sheet \in Form!editScoreOf(f), seed \in Form!seedFor(f) :
          Form!queueJob([Form!Blank EXCEPT !.engine = librarySong.engine, !.mode = "edit", !.lyrics = words,
                           !.abc = sheet, !.source = TRUE, !.seed = seed,
                           !.duration = librarySong.duration,
                           !.guidance = Form!styleStrengthOf(f.strength, "off")], librarySong)
    BY DEF Form!handleEditSong
  <1> DEFINE j == [Form!Blank EXCEPT !.engine = librarySong.engine, !.mode = "edit", !.lyrics = words,
                     !.abc = sheet, !.source = TRUE, !.seed = seed,
                     !.duration = librarySong.duration,
                     !.guidance = Form!styleStrengthOf(f.strength, "off")]
  <1>2. job' = j /\ asked' = librarySong /\ UNCHANGED <<yue2, librarySong>>
    BY <1>1 DEF Form!queueJob
  <1>3. librarySong # None /\ librarySong.score # None /\ librarySong \in Form!Song
    BY DEF Form!handleEditSong, Filled, Form!TypeOK
  <1>4. librarySong.engine = "yue2" /\ librarySong.duration \in Durations /\ librarySong.seed \in Form!Seed
        /\ librarySong.lyrics \in Form!Lyrics
    BY <1>3 DEF Filled, ScoredIsYue2, Form!Song
  <1>5. words \in Form!Lyrics /\ words # "none" /\ sheet \in Form!Sheets /\ seed \in Form!Seed
    BY <1>4 DEF Form!editWordsOf, Form!editScoreOf, Form!seedFor, Form!EditForm, Form!Seed
  <1>6. Form!styleStrengthOf(f.strength, "off") \in Form!Guidance
    BY StrengthType DEF Form!EditForm
  <1>7. /\ j.engine = "yue2" /\ j.mode = "edit" /\ j.lyrics = words /\ j.cot = "none"
        /\ j.abc = sheet /\ j.audio = None
    BY <1>4 DEF Form!Blank
  <1>8. j.style /\ ~j.instrumental /\ j.source
    BY DEF Form!Blank
  <1>9. j.seed = seed
    BY DEF Form!Blank
  <1>10. seed # None => seed \in Int /\ (seed >= 0 \/ seed = librarySong.seed)
    BY <1>4, NumbersFit DEF Form!seedFor, Form!Seed, Form!Numbers
  <1>11. j \in Form!Job
    <2>1. /\ j.engine \in Form!Engines /\ j.mode \in Form!Modes /\ j.lyrics \in Form!Lyrics
          /\ j.cot \in Form!Cots /\ j.abc \in Form!Sheets \cup {None}
          /\ j.audio \in {None, "song_link", "upload_link", "address"}
      BY <1>5, <1>7 DEF Form!Engines, Form!Modes, Form!Cots
    <2>2. j.duration \in Durations \cup {0} /\ j.seed \in Form!Seed /\ j.guidance \in Form!Guidance
      BY <1>4, <1>5, <1>6 DEF Form!Blank
    <2>3. j.style \in BOOLEAN /\ j.instrumental \in BOOLEAN /\ j.source \in BOOLEAN
      BY DEF Form!Blank
    <2> QED
      BY <2>1, <2>2, <2>3 DEF Form!Blank, Form!Job
  <1> HIDE DEF j
  <1>12. Form!TypeOK'
    BY <1>2, <1>3, <1>11 DEF Filled, Form!TypeOK
  <1>13. ScoredIsYue2'
    BY <1>2 DEF Filled, ScoredIsYue2
  <1>14. SourceIsHonest'
    BY <1>2, <1>3, <1>5, <1>7, <1>8, NoneIsApart DEF SourceIsHonest, Form!SourceIsHonest, Form!NoneIsNone
  <1>15. WorkerTakesIt'
    <2> DEFINE r == Form!requestFor(j)
    <2>1. r.mode = "edit" /\ r.lyrics = words /\ r.abc = sheet /\ r.audio = None /\ r.cot = "none"
      BY <1>7, <1>11 DEF Form!requestFor, Form!Job
    <2>2. r.style /\ ~r.instrumental
      BY <1>7, <1>8, <1>11 DEF Form!requestFor, Form!Job
    <2>3. Form!AcceptsRest(r)
      BY <1>5, <2>1, <2>2, NoneIsApart DEF Form!AcceptsRest, Form!NoneIsNone
    <2>4. r.seed = seed
      BY <1>11, <1>9 DEF Form!requestFor, Form!Job
    <2>5. Form!AcceptsSeed(r) \/ Form!NegativeTyped'
      BY <1>2, <1>5, <1>9, <1>10, <2>4 DEF Form!AcceptsSeed, Form!NegativeTyped
    <2> QED
      BY <1>2, <1>7, <2>3, <2>5 DEF WorkerTakesIt, Form!WorkerTakesIt, Form!AcceptsSeed
  <1> QED
    BY <1>12, <1>13, <1>14, <1>15 DEF Filled

LEMMA CoverFills ==
  ASSUME Filled, NEW f \in Form!CoverForm, NEW src \in {None, librarySong}, Form!queueCover(f, src)
  PROVE  Filled'
  <1> DEFINE from == Form!resolveCoverSource(f, src)
  <1>1. PICK seed \in IF src = None THEN {f.seed} ELSE Form!seedFor(f) :
          Form!queueJob([Form!Blank EXCEPT !.mode = "cover", !.lyrics = f.lyrics, !.audio = from.audio,
                           !.source = from.source, !.seed = seed,
                           !.guidance = Form!styleStrengthOf(f.strength, "balanced")], src)
    BY DEF Form!queueCover
  <1> DEFINE j == [Form!Blank EXCEPT !.mode = "cover", !.lyrics = f.lyrics, !.audio = from.audio,
                     !.source = from.source, !.seed = seed,
                     !.guidance = Form!styleStrengthOf(f.strength, "balanced")]
  <1>2. job' = j /\ asked' = src /\ UNCHANGED <<yue2, librarySong>>
    BY <1>1 DEF Form!queueJob
  <1>3. src = None => f.upload /\ ~f.url
    BY DEF Form!queueCover
  <1>4. /\ from.audio \in {"song_link", "upload_link", "address"}
        /\ from.source \in BOOLEAN
        /\ from.source <=> from.audio = "song_link"
        /\ from.source => src # None
    BY <1>3 DEF Form!resolveCoverSource
  <1>5. seed \in Form!Seed
    BY DEF Form!CoverForm, Form!seedFor, Form!Seed, Filled, Form!TypeOK, Form!Song
  <1>6. Form!styleStrengthOf(f.strength, "balanced") \in Form!Guidance
    BY StrengthType DEF Form!CoverForm
  <1> HIDE DEF from
  <1>7. /\ j.engine = "yue2" /\ j.mode = "cover" /\ j.lyrics = f.lyrics /\ j.cot = "none"
        /\ j.abc = None /\ j.audio = from.audio
    BY DEF Form!Blank
  <1>8. j.style /\ ~j.instrumental /\ j.source = from.source
    BY DEF Form!Blank
  <1>9. j.seed = seed
    BY DEF Form!Blank
  <1>10. seed # None => seed \in Int /\ (seed >= 0 \/ src = None \/ seed = src.seed)
    BY <1>5, NumbersFit DEF Form!seedFor, Form!Seed, Form!Numbers
  <1>11. j \in Form!Job
    <2>1. /\ j.engine \in Form!Engines /\ j.mode \in Form!Modes /\ j.lyrics \in Form!Lyrics
          /\ j.cot \in Form!Cots /\ j.abc \in Form!Sheets \cup {None}
          /\ j.audio \in {None, "song_link", "upload_link", "address"}
      BY <1>4, <1>7 DEF Form!Engines, Form!Modes, Form!Cots, Form!CoverForm
    <2>2. j.duration \in Durations \cup {0} /\ j.seed \in Form!Seed /\ j.guidance \in Form!Guidance
      BY <1>5, <1>6 DEF Form!Blank
    <2>3. j.style \in BOOLEAN /\ j.instrumental \in BOOLEAN /\ j.source \in BOOLEAN
      BY <1>4, <1>8 DEF Form!Blank
    <2> QED
      BY <2>1, <2>2, <2>3 DEF Form!Blank, Form!Job
  <1> HIDE DEF j
  <1>12. Form!TypeOK'
    BY <1>2, <1>11 DEF Filled, Form!TypeOK
  <1>13. ScoredIsYue2'
    BY <1>2 DEF Filled, ScoredIsYue2
  <1>14. SourceIsHonest'
    BY <1>2, <1>4, <1>7, <1>8 DEF SourceIsHonest, Form!SourceIsHonest
  <1>15. WorkerTakesIt'
    <2> DEFINE r == Form!requestFor(j)
    <2>1. r.mode = "cover" /\ r.abc = None /\ r.audio # None
      BY <1>4, <1>7, <1>11, NoneIsApart DEF Form!requestFor, Form!Job, Form!NoneIsNone
    <2>2. r.style /\ ~r.instrumental
      BY <1>7, <1>8, <1>11 DEF Form!requestFor, Form!Job
    <2>3. Form!AcceptsRest(r)
      BY <2>1, <2>2 DEF Form!AcceptsRest
    <2>4. r.seed = seed
      BY <1>11, <1>9 DEF Form!requestFor, Form!Job
    <2>5. Form!AcceptsSeed(r) \/ Form!NegativeTyped'
      BY <1>2, <1>9, <1>10, <2>4 DEF Form!AcceptsSeed, Form!NegativeTyped
    <2> QED
      BY <1>2, <1>7, <2>3, <2>5 DEF WorkerTakesIt, Form!WorkerTakesIt, Form!AcceptsSeed
  <1> QED
    BY <1>12, <1>13, <1>14, <1>15 DEF Filled

LEMMA SongComesBack == ASSUME Filled, Form!Succeeds PROVE Filled'
  <1>1. PICK named \in Form!EnginesReported(job), reported \in {"none", job.mode},
             sheet \in Form!Sheets \cup {None}, duration \in Durations :
          /\ job.engine = "minimax" => sheet = None
          /\ librarySong' = [engine |-> Form!engineMade(job, named), mode |-> Form!modeOf(job, reported),
                             lyrics |-> job.lyrics,
                             score |-> sheet, seed |-> job.seed, duration |-> duration]
    BY DEF Form!Succeeds
  <1>2. job \in Form!Job /\ job' = None /\ asked' = None /\ UNCHANGED yue2
    BY DEF Form!Succeeds, Filled, Form!TypeOK
  <1>3. /\ job.engine \in Form!Engines /\ job.mode \in Form!Modes /\ job.lyrics \in Form!Lyrics
        /\ job.seed \in Form!Seed
    BY <1>2 DEF Form!Job
  <1>4. Form!modeOf(job, reported) \in Form!Modes
    BY <1>3 DEF Form!modeOf
  <1>5. /\ Form!engineMade(job, named) \in Form!Engines \cup {"diffusers"}
        /\ job.engine = "yue2" => Form!engineMade(job, named) = "yue2"
    BY <1>1, <1>3 DEF Form!engineMade, Form!EnginesReported
  <1>6. librarySong' \in Form!Song
    BY <1>1, <1>3, <1>4, <1>5 DEF Form!Song
  <1>7. librarySong'.score # None => librarySong'.engine = "yue2"
    BY <1>1, <1>3, <1>5 DEF Form!Engines
  <1> QED
    BY <1>2, <1>6, <1>7 DEF Filled, Form!TypeOK, ScoredIsYue2, WorkerTakesIt, SourceIsHonest,
       Form!WorkerTakesIt, Form!SourceIsHonest

LEMMA FilledStep == Filled /\ [Form!Next]_(Form!vars) => Filled'
  <1> SUFFICES ASSUME Filled, [Form!Next]_(Form!vars) PROVE Filled'
    OBVIOUS
  <1>1. ASSUME NEW f \in Form!CoverForm, Form!handleCreateCover(f) \/ Form!handleCoverSong(f) PROVE Filled'
    BY <1>1, CoverFills DEF Form!handleCreateCover, Form!handleCoverSong
  <1>2. CASE Form!Fails
    BY <1>2 DEF Form!Fails, Filled, Form!TypeOK, ScoredIsYue2, WorkerTakesIt, SourceIsHonest,
       Form!WorkerTakesIt, Form!NegativeTyped, Form!SourceIsHonest
  <1>3. CASE Form!Reconfigure
    BY <1>3 DEF Form!Reconfigure, Filled, Form!TypeOK, ScoredIsYue2, WorkerTakesIt, SourceIsHonest,
       Form!WorkerTakesIt, Form!NegativeTyped, Form!SourceIsHonest
  <1>4. CASE UNCHANGED Form!vars
    BY <1>4 DEF Form!vars, Filled, Form!TypeOK, ScoredIsYue2, WorkerTakesIt, SourceIsHonest,
       Form!WorkerTakesIt, Form!NegativeTyped, Form!SourceIsHonest
  <1> QED
    BY <1>1, <1>2, <1>3, <1>4, CreateFills, EditFills, SongComesBack DEF Form!Next

LEMMA AlwaysFilled == Form!Spec => []Filled
  BY FilledInit, FilledStep, PTL DEF Form!Spec

(* No form is accepted that its engine is bound to refuse, whatever songs the *)
(* forms before it made (runpod.go:165-209), but for a negative seed that was *)
(* typed into it or inherited from its song (handlers.go:427-433, 482-489):   *)
(* everything else about such a request is as its engine wants it.            *)
THEOREM WorkerAlwaysTakesIt == Form!Spec => []WorkerTakesIt
  <1>1. Filled => WorkerTakesIt
    BY DEF Filled
  <1> QED
    BY <1>1, AlwaysFilled, PTL

(* A job counts as derived from a song exactly when it is made from that      *)
(* song's score or recording (cover.go:337-338).                              *)
THEOREM SourceAlwaysHonest == Form!Spec => []SourceIsHonest
  <1>1. Filled => SourceIsHonest
    BY DEF Filled
  <1> QED
    BY <1>1, AlwaysFilled, PTL
-----------------------------------------------------------------------------
(* LyricsMatch. First the ranking: every recording found has a place, no two  *)
(* the same, and a better one the smaller.                                    *)
LEMMA Ranges ==
  /\ \A r \in Recordings : r \in Nat
  /\ \A s \in Scores : s \in Nat
  /\ MaxCandidates \in Nat /\ MaxCandidates >= 1 /\ SureScore \in Nat /\ ClearLead \in Nat
  /\ IsFiniteSet(Recordings)
  <1>1. Match!IsFiniteSet(Recordings) <=> IsFiniteSet(Recordings)
    BY DEF Match!IsFiniteSet, IsFiniteSet
  <1> QED
    BY <1>1, NumbersFit DEF Match!Numbers

\* LyricsMatch counts with its own instance of FiniteSets.
LEMMA Counts == ASSUME NEW S PROVE Match!Cardinality(S) = Cardinality(S)
  BY DEF Match!Cardinality, Cardinality, Match!IsFiniteSet, IsFiniteSet

LEMMA PlaceType ==
  ASSUME NEW R \in SUBSET Recordings, NEW found \in [R -> Scores]
  PROVE  /\ IsFiniteSet(R) /\ Cardinality(R) \in Nat
         /\ \A r \in R : Match!Place(found, r) \in 1..Cardinality(R)
  <1>1. IsFiniteSet(R) /\ Cardinality(R) \in Nat
    BY Ranges, FS_Subset, FS_CardinalityType
  <1>2. ASSUME NEW r \in R PROVE Match!Place(found, r) \in 1..Cardinality(R)
    <2> DEFINE T == {q \in R : q = r \/ Match!Before(found, q, r)}
    <2>1. Match!Place(found, r) = Cardinality(T)
      BY Counts DEF Match!Place
    <2>2. IsFiniteSet(T) /\ Cardinality(T) <= Cardinality(R)
      BY <1>1, FS_Subset
    <2>3. Cardinality(T) \in Nat /\ (Cardinality(T) = 0 <=> T = {})
      BY <2>2, FS_CardinalityType, FS_EmptySet
    <2>4. r \in T
      OBVIOUS
    <2> QED
      BY <1>1, <2>1, <2>2, <2>3, <2>4
  <1> QED
    BY <1>1, <1>2

LEMMA PlaceOrders ==
  ASSUME NEW R \in SUBSET Recordings, NEW found \in [R -> Scores],
         NEW a \in R, NEW b \in R, Match!Before(found, a, b)
  PROVE  Match!Place(found, a) < Match!Place(found, b)
  <1> DEFINE A == {q \in R : q = a \/ Match!Before(found, q, a)}
             B == {q \in R : q = b \/ Match!Before(found, q, b)}
  <1>1. Match!Place(found, a) = Cardinality(A) /\ Match!Place(found, b) = Cardinality(B)
    BY Counts DEF Match!Place
  <1>2. \A q \in R : q \in Nat /\ found[q] \in Nat
    BY Ranges
  <1>3. A \in SUBSET B /\ A # B
    <2>1. b \in B /\ b \notin A
      BY <1>2 DEF Match!Before
    <2>2. \A q \in A : q \in B
      BY <1>2 DEF Match!Before
    <2> QED
      BY <2>1, <2>2
  <1>4. IsFiniteSet(B)
    BY Ranges, FS_Subset
  <1>5. Cardinality(A) \in Nat /\ Cardinality(B) \in Nat
    BY <1>3, <1>4, FS_Subset, FS_CardinalityType
  <1>6. Cardinality(A) <= Cardinality(B) /\ Cardinality(A) # Cardinality(B)
    BY <1>3, <1>4, FS_Subset
  <1> QED
    BY <1>1, <1>5, <1>6

LEMMA PlaceInjective ==
  ASSUME NEW R \in SUBSET Recordings, NEW found \in [R -> Scores],
         NEW a \in R, NEW b \in R, Match!Place(found, a) = Match!Place(found, b)
  PROVE  a = b
  <1>1. \A q \in R : q \in Nat /\ found[q] \in Nat
    BY Ranges
  <1>2. Match!Place(found, a) \in Nat /\ Match!Place(found, b) \in Nat
    BY PlaceType
  <1>3. a = b \/ Match!Before(found, a, b) \/ Match!Before(found, b, a)
    BY <1>1 DEF Match!Before
  <1> QED
    BY <1>2, <1>3, PlaceOrders

LEMMA PlaceReaches ==
  ASSUME NEW R \in SUBSET Recordings, NEW found \in [R -> Scores], NEW k \in 1..Cardinality(R)
  PROVE  \E r \in R : Match!Place(found, r) = k
  <1> DEFINE f == [r \in R |-> Match!Place(found, r)]
             n == Cardinality(R)
  <1>1. n \in Nat /\ f \in [R -> 1..n]
    BY PlaceType
  <1>2. ASSUME NEW a \in R, NEW b \in R, f[a] = f[b] PROVE a = b
    BY <1>2, PlaceInjective
  <1>3. f \in Injection(R, 1..n)
    BY <1>1, <1>2 DEF Injection, IsInjective
  <1>4. IsFiniteSet(1..n) /\ Cardinality(1..n) = n
    BY <1>1, FS_Interval
  <1>5. f \in Surjection(R, 1..n)
    BY <1>3, <1>4, FS_Injection
  <1> QED
    <2> HIDE DEF f, n
    <2>1. \A t \in 1..n : \E r \in R : f[r] = t
      BY <1>5 DEF Surjection
    <2> USE DEF f, n
    <2> QED
      BY <2>1

LEMMA RankedBestFirst ==
  ASSUME NEW R \in SUBSET Recordings, NEW found \in [R -> Scores]
  PROVE  LET s == Match!Ranked(found) IN
         /\ Cardinality(R) \in Nat /\ s \in [1..Cardinality(R) -> Match!Candidate]
         /\ \A k \in 1..Cardinality(R) : ~s[k].ambiguous /\ ~s[k].version /\ ~s[k].words /\ ~s[k].warned
         /\ \A k, l \in 1..Cardinality(R) : k < l => s[k].score >= s[l].score
  <1> DEFINE n == Cardinality(R)
             At(k) == CHOOSE r \in R : Match!Place(found, r) = k
             s == Match!Ranked(found)
  <1>1. n \in Nat
    BY PlaceType
  <1>2. s = [k \in 1..n |-> Match!Found(At(k), found[At(k)])]
    BY Counts DEF Match!Ranked
  <1>3. ASSUME NEW k \in 1..n PROVE At(k) \in R /\ Match!Place(found, At(k)) = k
    BY PlaceReaches
  <1> HIDE DEF At
  <1>4. ASSUME NEW k \in 1..n PROVE s[k] \in Match!Candidate /\ s[k].score = found[At(k)]
    BY <1>2, <1>3 DEF Match!Found, Match!Candidate
  <1>5. ASSUME NEW k \in 1..n PROVE ~s[k].ambiguous /\ ~s[k].version /\ ~s[k].words /\ ~s[k].warned
    BY <1>2 DEF Match!Found
  <1>6. ASSUME NEW k \in 1..n, NEW l \in 1..n, k < l PROVE s[k].score >= s[l].score
    <2>1. \A q \in R : q \in Nat /\ found[q] \in Nat
      BY Ranges
    <2>2. ~Match!Before(found, At(l), At(k))
      BY <1>1, <1>3, <1>6, PlaceOrders
    <2> QED
      BY <1>3, <1>4, <2>1, <2>2 DEF Match!Before
  <1> QED
    BY <1>1, <1>2, <1>4, <1>5, <1>6

\* What is known of a candidate nobody asked about, one that the metadata
\* service has answered for, and one that is done with.
Untouched(c, t) ==
    /\ ~c.ambiguous /\ ~c.version /\ ~c.words /\ ~c.warned
    /\ t = Match!Unknown
Described(c, t) ==
    /\ ~c.words /\ ~c.warned /\ (c.version <=> t.version) /\ (c.ambiguous <=> t.lengthOff)
    /\ t.matches = 0 /\ ~t.text /\ ~t.failed
Finished(c, t) ==
    /\ t.failed => c.ambiguous /\ c.warned
    /\ c.words <=> t.text
    /\ c.words /\ ~c.ambiguous => t.matches = 1 /\ ~t.version /\ ~t.lengthOff
    /\ t.text /\ c.ambiguous => t.version \/ t.lengthOff \/ t.matches > 1

LookedTypes ==
    /\ step \in {"identify", "enrich", "exact", "search", "shown", "failed"}
    /\ cands \in Seq(Match!Candidate) /\ Len(cands) <= MaxCandidates
    /\ truth \in [1..Len(cands) -> Match!Truth]
    /\ candidate \in 1..MaxCandidates /\ autoSelect \in {0, 1}
    /\ step = "identify" => candidate = 1
    /\ step \in {"enrich", "exact", "search"} => candidate \in 1..Len(cands)

\* Inductive: every candidate is as far as the lookup has come with it.
Looked ==
    /\ LookedTypes
    /\ \A k \in 1..Len(cands) :
         /\ step = "shown" \/ (step \in {"enrich", "exact", "search"} /\ k < candidate) =>
              Finished(cands[k], truth[k])
         /\ step \in {"exact", "search"} /\ k = candidate => Described(cands[k], truth[k])
         /\ (step \in {"enrich", "exact", "search"} /\ k > candidate) \/ (step = "enrich" /\ k = candidate) =>
              Untouched(cands[k], truth[k])
    /\ \A k, l \in 1..Len(cands) : k < l => cands[k].score >= cands[l].score
    /\ autoSelect = 1 => step = "shown" /\ Match!select(cands) = 1

LEMMA SeqOf == ASSUME NEW n \in Nat, NEW S, NEW f \in [1..n -> S] PROVE f \in Seq(S) /\ Len(f) = n
  OBVIOUS

LEMMA LookedInit == Match!Init => Looked
  <1> SUFFICES ASSUME Match!Init PROVE Looked
    OBVIOUS
  <1>1. Len(cands) = 0 /\ cands \in Seq(Match!Candidate)
    BY DEF Match!Init
  <1>2. truth \in [1..0 -> Match!Truth]
    BY DEF Match!Init
  <1> QED
    BY <1>1, <1>2, Ranges DEF Match!Init, Looked, LookedTypes

LEMMA IdentifyKeeps ==
  ASSUME Looked, NEW R \in SUBSET Recordings, NEW found \in [R -> Scores], Match!identify(found)
  PROVE  Looked'
  <1> DEFINE ranked == Match!Ranked(found)
             n == Cardinality(R)
             m == IF n > MaxCandidates THEN MaxCandidates ELSE n
             cs == SubSeq(ranked, 1, m)
  <1>1. /\ n \in Nat /\ ranked \in Seq(Match!Candidate) /\ Len(ranked) = n
        /\ \A k \in 1..n : ~ranked[k].ambiguous /\ ~ranked[k].version /\ ~ranked[k].words /\ ~ranked[k].warned
        /\ \A k, l \in 1..n : k < l => ranked[k].score >= ranked[l].score
    <2>1. n \in Nat /\ ranked \in [1..n -> Match!Candidate]
      BY RankedBestFirst
    <2> QED
      BY <2>1, RankedBestFirst, SeqOf
  <1> HIDE DEF ranked, n
  <1>2. m \in Nat /\ m <= n /\ m <= MaxCandidates
    BY <1>1, Ranges
  <1>3. /\ cs \in Seq(Match!Candidate) /\ Len(cs) = m
        /\ \A k \in 1..m : cs[k] = ranked[k]
    <2>1. \A k \in 1..m : ranked[k] \in Match!Candidate
      BY <1>1, <1>2
    <2> HIDE DEF m
    <2> QED
      BY <1>2, <2>1, SubSeqProperties
  <1>4. /\ step = "identify" /\ cands' = cs /\ truth' = [k \in DOMAIN cs |-> Match!Unknown]
        /\ step' = (IF cs = << >> THEN "shown" ELSE "enrich") /\ UNCHANGED <<candidate, autoSelect>>
    BY <1>1 DEF Match!identify, ranked
  <1> HIDE DEF m, cs
  <1>5. DOMAIN cs = 1..m
    BY <1>3, LenProperties
  <1>6. candidate' = 1 /\ autoSelect' = 0
    BY <1>4 DEF Looked, LookedTypes
  <1>7. Match!Unknown \in Match!Truth
    BY DEF Match!Unknown, Match!Truth
  <1>8. cs # << >> => m >= 1
    BY <1>2, <1>3
  <1>9. LookedTypes'
    BY <1>2, <1>3, <1>4, <1>5, <1>6, <1>7, <1>8, Ranges DEF LookedTypes
  <1>10. \A k \in 1..m : Untouched(cs[k], truth'[k])
    BY <1>1, <1>2, <1>3, <1>4, <1>5 DEF Untouched
  <1>11. step' = "shown" => m = 0
    BY <1>3, <1>4
  <1> QED
    BY <1>1, <1>2, <1>3, <1>4, <1>6, <1>9, <1>10, <1>11 DEF Looked

\* One candidate is done with, and the lookup goes on to the next or shows them.
LEMMA ProceedKeeps ==
  ASSUME Looked, step \in {"enrich", "exact", "search"},
         NEW cs \in Seq(Match!Candidate), Len(cs) = Len(cands),
         NEW ts \in [1..Len(cands) -> Match!Truth],
         \A k \in 1..Len(cands) : k # candidate => cs[k] = cands[k] /\ ts[k] = truth[k],
         cs[candidate].score = cands[candidate].score,
         Finished(cs[candidate], ts[candidate]),
         Match!Proceed(cs, ts)
  PROVE  Looked'
  <1> DEFINE n == Len(cands)
  <1>1. n \in Nat /\ n <= MaxCandidates /\ candidate \in 1..n
    BY DEF Looked, LookedTypes
  <1>2. /\ cands' = cs /\ truth' = ts /\ Len(cands') = n
        /\ \/ candidate < n /\ step' = "enrich" /\ candidate' = candidate + 1 /\ UNCHANGED autoSelect
           \/ candidate = n /\ step' = "shown" /\ autoSelect' = Match!select(cs) /\ UNCHANGED candidate
    BY <1>1 DEF Match!Proceed
  <1>3. \A k \in 1..n : k <= candidate => Finished(cs[k], ts[k])
    BY <1>1 DEF Looked
  <1>4. \A k \in 1..n : k > candidate => Untouched(cs[k], ts[k])
    BY <1>1 DEF Looked
  <1>5. \A k \in 1..n : cs[k].score = cands[k].score
    OBVIOUS
  <1>6. autoSelect = 0
    BY DEF Looked, LookedTypes
  <1>7. Match!select(cs) \in {0, 1}
    BY DEF Match!select
  <1> HIDE DEF n
  <1>8. LookedTypes'
    BY <1>1, <1>2, <1>6, <1>7, Ranges DEF n, Looked, LookedTypes
  <1>9. \A k, l \in 1..n : k < l => cs[k].score >= cs[l].score
    BY <1>5 DEF n, Looked
  <1> QED
    BY <1>1, <1>2, <1>3, <1>4, <1>6, <1>8, <1>9 DEF Looked

\* What the actions write: one candidate replaced, and what is known of it.
LEMMA Replaced ==
  ASSUME LookedTypes, candidate \in 1..Len(cands), NEW c \in Match!Candidate, NEW t \in Match!Truth
  PROVE  LET cs == [cands EXCEPT ![candidate] = c]
             ts == [truth EXCEPT ![candidate] = t]
         IN  /\ cs \in Seq(Match!Candidate) /\ Len(cs) = Len(cands)
             /\ ts \in [1..Len(cands) -> Match!Truth]
             /\ cs[candidate] = c /\ ts[candidate] = t
             /\ \A k \in 1..Len(cands) : k # candidate => cs[k] = cands[k] /\ ts[k] = truth[k]
  <1>1. cands \in Seq(Match!Candidate) /\ truth \in [1..Len(cands) -> Match!Truth]
    BY DEF LookedTypes
  <1>2. cands \in [1..Len(cands) -> Match!Candidate] /\ Len(cands) \in Nat
    BY <1>1, LenProperties
  <1>3. [cands EXCEPT ![candidate] = c] \in [1..Len(cands) -> Match!Candidate]
    BY <1>2
  <1> QED
    BY <1>1, <1>2, <1>3, SeqOf

LEMMA Current ==
  ASSUME Looked, step \in {"enrich", "exact", "search"}
  PROVE  /\ LookedTypes /\ candidate \in 1..Len(cands)
         /\ cands[candidate] \in Match!Candidate /\ truth[candidate] \in Match!Truth
         /\ candidate \in DOMAIN cands /\ candidate \in DOMAIN truth
         /\ step = "enrich" => Untouched(cands[candidate], truth[candidate])
         /\ step # "enrich" => Described(cands[candidate], truth[candidate])
  <1>1. LookedTypes /\ candidate \in 1..Len(cands)
    BY DEF Looked, LookedTypes
  <1>2. cands[candidate] \in Match!Candidate /\ truth[candidate] \in Match!Truth
        /\ candidate \in DOMAIN cands /\ candidate \in DOMAIN truth
    BY <1>1, LenProperties DEF LookedTypes
  <1> QED
    BY <1>1, <1>2 DEF Looked

LEMMA UnavailableKeeps ==
  ASSUME Looked, step \in {"enrich", "exact", "search"}, Match!unavailable
  PROVE  Looked'
  <1> DEFINE c == [cands[candidate] EXCEPT !.ambiguous = TRUE, !.warned = TRUE]
             t == [truth[candidate] EXCEPT !.failed = TRUE]
  <1>1. c \in Match!Candidate /\ t \in Match!Truth
    BY Current DEF Match!Candidate, Match!Truth
  <1>2. Match!Proceed([cands EXCEPT ![candidate] = c], [truth EXCEPT ![candidate] = t])
    BY DEF Match!unavailable
  <1>3. Finished(c, t) /\ c.score = cands[candidate].score
    <2>1. /\ c.ambiguous /\ c.warned /\ c.words = cands[candidate].words
          /\ t.text = truth[candidate].text /\ c.score = cands[candidate].score
      BY Current DEF Match!Candidate, Match!Truth
    <2>2. ~cands[candidate].words /\ ~truth[candidate].text
      BY Current DEF Untouched, Described, Match!Unknown
    <2> QED
      BY <2>1, <2>2 DEF Finished
  <1> HIDE DEF c, t
  <1> QED
    BY <1>1, <1>2, <1>3, Current, Replaced, ProceedKeeps

LEMMA EnrichKeeps ==
  ASSUME Looked, NEW version \in BOOLEAN, NEW lengthOff \in BOOLEAN, Match!enrich(version, lengthOff)
  PROVE  Looked'
  <1> DEFINE c == [cands[candidate] EXCEPT !.version = version, !.ambiguous = lengthOff]
             t == [truth[candidate] EXCEPT !.version = version, !.lengthOff = lengthOff]
             cs == [cands EXCEPT ![candidate] = c]
             ts == [truth EXCEPT ![candidate] = t]
  <1>1. step = "enrich"
    BY DEF Match!enrich
  <1>2. c \in Match!Candidate /\ t \in Match!Truth
    BY <1>1, Current DEF Match!Candidate, Match!Truth
  <1>3. /\ step' = "exact" /\ cands' = cs /\ truth' = ts /\ UNCHANGED <<candidate, autoSelect>>
    BY DEF Match!enrich
  <1>4. Described(c, t) /\ c.score = cands[candidate].score
    <2>1. /\ c.version = version /\ c.ambiguous = lengthOff /\ t.version = version /\ t.lengthOff = lengthOff
          /\ c.words = cands[candidate].words /\ c.warned = cands[candidate].warned
      BY <1>1, Current DEF Match!Candidate, Match!Truth
    <2>2. /\ t.text = truth[candidate].text /\ t.failed = truth[candidate].failed
          /\ t.matches = truth[candidate].matches /\ c.score = cands[candidate].score
      BY <1>1, Current DEF Match!Candidate, Match!Truth
    <2>3. /\ ~cands[candidate].words /\ ~cands[candidate].warned
          /\ ~truth[candidate].text /\ ~truth[candidate].failed /\ truth[candidate].matches = 0
      BY <1>1, Current DEF Untouched, Match!Unknown
    <2> QED
      BY <2>1, <2>2, <2>3 DEF Described
  <1> HIDE DEF c, t
  <1>5. /\ cs \in Seq(Match!Candidate) /\ Len(cs) = Len(cands)
        /\ ts \in [1..Len(cands) -> Match!Truth]
        /\ cs[candidate] = c /\ ts[candidate] = t
        /\ \A k \in 1..Len(cands) : k # candidate => cs[k] = cands[k] /\ ts[k] = truth[k]
    BY <1>1, <1>2, Current, Replaced
  <1> HIDE DEF cs, ts
  <1>6. LookedTypes'
    BY <1>1, <1>3, <1>5, Current DEF LookedTypes
  <1>7. \A k \in 1..Len(cands) : cs[k].score = cands[k].score
    BY <1>4, <1>5
  <1>8. \A k, l \in 1..Len(cands) : k < l => cs[k].score >= cs[l].score
    BY <1>7 DEF Looked
  <1>9. \A k \in 1..Len(cands) : /\ k < candidate => Finished(cs[k], ts[k])
                                 /\ k = candidate => Described(cs[k], ts[k])
                                 /\ k > candidate => Untouched(cs[k], ts[k])
    BY <1>1, <1>4, <1>5, Current DEF Looked, LookedTypes
  <1>10. autoSelect' = 0
    BY <1>1, <1>3 DEF Looked, LookedTypes
  <1> QED
    BY <1>3, <1>5, <1>6, <1>8, <1>9, <1>10 DEF Looked

\* The words a service gave are filed with the doubts there are about them.
LEMMA ApplyKeeps ==
  ASSUME Looked, step \in {"exact", "search"}, NEW c \in Match!Candidate, NEW text \in Match!Texts,
         NEW matches \in 1..2, Match!applyLyrics(c, text, matches),
         c.score = cands[candidate].score, ~c.words,
         c.ambiguous <=> cands[candidate].ambiguous \/ matches > 1 \/ cands[candidate].version
  PROVE  Looked'
  <1>1. CASE text = "too_long"
    <2> DEFINE d == [c EXCEPT !.ambiguous = TRUE, !.warned = TRUE]
               t == [truth[candidate] EXCEPT !.failed = TRUE, !.matches = matches]
    <2>0. matches \in 0..2
      OBVIOUS
    <2>1. d \in Match!Candidate /\ t \in Match!Truth
      <3>1. d \in Match!Candidate
        BY DEF Match!Candidate
      <3>2. t \in Match!Truth
        BY <2>0, Current DEF Match!Truth
      <3> QED
        BY <3>1, <3>2
    <2>2. Match!Proceed([cands EXCEPT ![candidate] = d], [truth EXCEPT ![candidate] = t])
      BY <1>1 DEF Match!applyLyrics
    <2>3. Finished(d, t) /\ d.score = cands[candidate].score
      <3>1. /\ d.ambiguous /\ d.warned /\ d.words = c.words
            /\ t.text = truth[candidate].text /\ d.score = c.score
        BY Current DEF Match!Candidate, Match!Truth
      <3>2. ~truth[candidate].text
        BY Current DEF Described
      <3> QED
        BY <3>1, <3>2 DEF Finished
    <2> HIDE DEF d, t
    <2> QED
      BY <2>1, <2>2, <2>3, Current, Replaced, ProceedKeeps
  <1>2. CASE text # "too_long"
    <2> DEFINE d == [c EXCEPT !.words = text = "words"]
               t == [truth[candidate] EXCEPT !.text = text = "words", !.matches = matches]
    <2>0. matches \in 0..2
      OBVIOUS
    <2>1. d \in Match!Candidate /\ t \in Match!Truth
      <3>1. d \in Match!Candidate
        BY DEF Match!Candidate
      <3>2. t \in Match!Truth
        BY <2>0, Current DEF Match!Truth
      <3> QED
        BY <3>1, <3>2
    <2>2. Match!Proceed([cands EXCEPT ![candidate] = d], [truth EXCEPT ![candidate] = t])
      BY <1>2 DEF Match!applyLyrics
    <2>3. Finished(d, t) /\ d.score = cands[candidate].score
      <3>1. (d.words <=> t.text) /\ d.ambiguous = c.ambiguous /\ d.score = c.score
        BY Current DEF Match!Candidate, Match!Truth
      <3>2. /\ t.failed = truth[candidate].failed /\ t.matches = matches
            /\ t.version = truth[candidate].version /\ t.lengthOff = truth[candidate].lengthOff
        BY Current DEF Match!Truth
      <3>3. /\ ~truth[candidate].failed /\ (cands[candidate].ambiguous <=> truth[candidate].lengthOff)
            /\ (cands[candidate].version <=> truth[candidate].version)
        BY Current DEF Described
      <3> QED
        BY <3>1, <3>2, <3>3 DEF Finished
    <2> HIDE DEF d, t
    <2> QED
      BY <2>1, <2>2, <2>3, Current, Replaced, ProceedKeeps
  <1> QED
    BY <1>1, <1>2

LEMMA ExactKeeps ==
  ASSUME Looked, NEW text \in Match!Texts, Match!exactMatches(text) PROVE Looked'
  <1> DEFINE c == [cands[candidate] EXCEPT !.ambiguous = @ \/ cands[candidate].version]
  <1>1. step = "exact" /\ Match!applyLyrics(c, text, 1)
    BY DEF Match!exactMatches
  <1>2. c \in Match!Candidate
    BY <1>1, Current DEF Match!Candidate
  <1>3. /\ c.score = cands[candidate].score /\ c.words = cands[candidate].words
        /\ c.ambiguous <=> cands[candidate].ambiguous \/ cands[candidate].version
    BY <1>1, Current DEF Match!Candidate
  <1>4. ~cands[candidate].words
    BY <1>1, Current DEF Described
  <1> HIDE DEF c
  <1> QED
    BY <1>1, <1>2, <1>3, <1>4, ApplyKeeps

LEMMA SearchKeeps ==
  ASSUME Looked, NEW n \in 1..2, NEW text \in Match!Texts, Match!searchFinds(n, text) PROVE Looked'
  <1> DEFINE c == [cands[candidate] EXCEPT !.ambiguous = @ \/ n > 1 \/ cands[candidate].version]
  <1>1. step = "search" /\ Match!applyLyrics(c, text, n)
    BY DEF Match!searchFinds
  <1>2. c \in Match!Candidate
    BY <1>1, Current DEF Match!Candidate
  <1>3. /\ c.score = cands[candidate].score /\ c.words = cands[candidate].words
        /\ c.ambiguous <=> cands[candidate].ambiguous \/ n > 1 \/ cands[candidate].version
    BY <1>1, Current DEF Match!Candidate
  <1>4. ~cands[candidate].words
    BY <1>1, Current DEF Described
  <1> HIDE DEF c
  <1> QED
    BY <1>1, <1>2, <1>3, <1>4, ApplyKeeps

LEMMA EmptyKeeps == ASSUME Looked, Match!searchEmpty PROVE Looked'
  <1>1. step = "search" /\ Match!Proceed(cands, truth)
    BY DEF Match!searchEmpty
  <1>2. Finished(cands[candidate], truth[candidate])
    BY <1>1, Current DEF Described, Finished
  <1>3. cands \in Seq(Match!Candidate) /\ truth \in [1..Len(cands) -> Match!Truth]
    BY DEF Looked, LookedTypes
  <1> QED
    BY <1>1, <1>2, <1>3, ProceedKeeps

LEMMA LookedStep == Looked /\ [Match!Next]_(Match!vars) => Looked'
  <1> SUFFICES ASSUME Looked, [Match!Next]_(Match!vars) PROVE Looked'
    OBVIOUS
  <1>1. CASE Match!enrichFails \/ Match!findLyricsFails
    BY <1>1, UnavailableKeeps DEF Match!enrichFails, Match!findLyricsFails
  <1>2. CASE Match!exactMisses
    BY <1>2 DEF Match!exactMisses, Looked, LookedTypes
  <1>3. CASE Match!giveUp
    BY <1>3 DEF Match!giveUp, Looked, LookedTypes
  <1>4. CASE UNCHANGED Match!vars
    BY <1>4 DEF Match!vars, Looked, LookedTypes, Match!select
  <1> QED
    BY <1>1, <1>2, <1>3, <1>4, IdentifyKeeps, EnrichKeeps, ExactKeeps, SearchKeeps, EmptyKeeps DEF Match!Next

LEMMA AlwaysLooked == Match!Spec => []Looked
  BY LookedInit, LookedStep, PTL DEF Match!Spec

(* Words are filled in unasked only when they are the words, and a service    *)
(* that failed is never taken for one that knew nothing, for any number of    *)
(* candidates and any scores (lookup.go, Lookup and enrich).                  *)
THEOREM AnswerAlwaysHonest == Match!Spec => []AnswerIsHonest
  <1>1. Looked => AnswerIsHonest
    <2> SUFFICES ASSUME Looked PROVE Match!AnswerIsHonest
      BY DEF AnswerIsHonest
    <2> DEFINE n == Len(cands)
    <2>0. /\ n \in Nat /\ DOMAIN cands = 1..n
          /\ \A k \in 1..n : cands[k] \in Match!Candidate /\ truth[k] \in Match!Truth /\ cands[k].score \in Nat
      <3>1. cands \in Seq(Match!Candidate) /\ truth \in [1..n -> Match!Truth]
        BY DEF Looked, LookedTypes
      <3>2. n \in Nat /\ cands \in [1..n -> Match!Candidate] /\ DOMAIN cands = 1..n
        BY <3>1, LenProperties
      <3>3. \A c \in Match!Candidate : c.score \in Nat
        BY Ranges DEF Match!Candidate
      <3> QED
        BY <3>1, <3>2, <3>3
    <2>1. step = "shown" => \A k \in 1..n : Finished(cands[k], truth[k])
      BY DEF Looked
    <2>2. ASSUME autoSelect = 1
          PROVE  /\ n >= 1 /\ (n > 1 => cands[1].score - cands[2].score >= ClearLead)
                 /\ cands[1].words /\ ~cands[1].ambiguous
                 /\ \A k \in 1..n : k # 1 => ~(cands[k].words /\ ~cands[k].ambiguous)
      <3>1. Match!select(cands) = 1
        BY <2>2 DEF Looked
      <3>2. /\ cands # << >>
            /\ n > 1 => cands[1].score - cands[2].score >= ClearLead
            /\ {k \in DOMAIN cands : cands[k].words /\ ~cands[k].ambiguous} = {1}
        BY <3>1 DEF Match!select
      <3> QED
        BY <2>0, <3>2
    <2>3. ASSUME autoSelect = 1 PROVE truth[1] = [Match!Unknown EXCEPT !.matches = 1, !.text = TRUE]
      <3>1. Finished(cands[1], truth[1]) /\ truth[1] \in Match!Truth
        BY <2>0, <2>1, <2>2, <2>3 DEF Looked
      <3>2. /\ truth[1].matches = 1 /\ ~truth[1].version /\ ~truth[1].lengthOff
            /\ truth[1].text /\ ~truth[1].failed
        BY <2>2, <2>3, <3>1 DEF Finished
      <3>3. /\ truth[1].version = FALSE /\ truth[1].lengthOff = FALSE
            /\ truth[1].failed = FALSE /\ truth[1].text = TRUE
        BY <3>1, <3>2 DEF Match!Truth
      <3>4. truth[1] = [lengthOff |-> truth[1].lengthOff, version |-> truth[1].version, matches |-> truth[1].matches,
                        text |-> truth[1].text, failed |-> truth[1].failed]
        BY <3>1 DEF Match!Truth
      <3>5. truth[1] = [lengthOff |-> FALSE, version |-> FALSE, matches |-> 1, text |-> TRUE, failed |-> FALSE]
        BY <3>2, <3>3, <3>4, Zenon
      <3> DEFINE u == [Match!Unknown EXCEPT !.matches = 1, !.text = TRUE]
      <3>6. u \in Match!Truth /\ u.matches = 1 /\ u.text
        <4>1. Match!Unknown \in Match!Truth /\ 1 \in 0..2
          BY DEF Match!Unknown, Match!Truth
        <4> QED
          BY <4>1 DEF Match!Truth
      <3>7. ~u.version /\ ~u.lengthOff /\ ~u.failed
        BY DEF Match!Unknown
      <3> HIDE DEF u
      <3>8. u.version = FALSE /\ u.lengthOff = FALSE /\ u.failed = FALSE /\ u.text = TRUE
        BY <3>6, <3>7 DEF Match!Truth
      <3>9. u = [lengthOff |-> u.lengthOff, version |-> u.version, matches |-> u.matches,
                 text |-> u.text, failed |-> u.failed]
        BY <3>6 DEF Match!Truth
      <3>10. u = [lengthOff |-> FALSE, version |-> FALSE, matches |-> 1, text |-> TRUE, failed |-> FALSE]
        BY <3>6, <3>8, <3>9, Zenon
      <3> USE DEF u
      <3> QED
        BY <3>5, <3>10, Zenon
    <2>4. ASSUME autoSelect = 1, NEW k \in 1..n, k # 1
          PROVE  /\ cands[k].score <= cands[1].score - ClearLead
                 /\ truth[k].text => truth[k].version \/ truth[k].lengthOff \/ truth[k].matches > 1
      <3>1. cands[2].score >= cands[k].score
        BY <2>0, <2>4 DEF Looked
      <3>2. Finished(cands[k], truth[k])
        BY <2>1, <2>4 DEF Looked
      <3>3. cands[1].score - cands[2].score >= ClearLead
        BY <2>0, <2>2, <2>4
      <3>4. 1 \in 1..n /\ 2 \in 1..n
        BY <2>0, <2>4
      <3>5. cands[k].score <= cands[1].score - ClearLead
        BY <2>0, <3>1, <3>3, <3>4, Ranges
      <3> QED
        BY <2>2, <2>4, <3>2, <3>5 DEF Finished
    <2>5. \A k \in 1..n : step = "shown" /\ truth[k].failed => cands[k].ambiguous /\ cands[k].warned
      BY <2>1 DEF Finished
    <2> HIDE DEF n
    <2> QED
      BY <2>0, <2>3, <2>4, <2>5 DEF Match!AnswerIsHonest
  <1> QED
    BY <1>1, AlwaysLooked, PTL

LEMMA MatchTyped == Looked => Match!TypeOK
  <1> SUFFICES ASSUME Looked PROVE Match!TypeOK
    OBVIOUS
  <1>1. cands \in [1..Len(cands) -> Match!Candidate] /\ truth \in [1..Len(cands) -> Match!Truth]
    BY LenProperties DEF Looked, LookedTypes
  <1> QED
    BY <1>1 DEF Looked, LookedTypes, Match!TypeOK
-----------------------------------------------------------------------------
(* Transpose. The tables first, read off the line of fifths, on which C is 0  *)
(* and a fifth up is one more: every spelling has one place there, a key with *)
(* n accidentals has its tonic at n, or at n + 3 in minor, and seven          *)
(* semitones are twelve letters and one place.                                *)
Place(l) == ((2 * l + 1) % 7) - 1             \* of the natural letter
Fifths(l, a) == Place(l) + 7 * a
Third(minor) == IF minor THEN 3 ELSE 0
Sharps(k) == Fifths(k.letter, k.alt) - Third(k.minor)

LEMMA NaturalIs ==
  ASSUME NEW l \in 0..6
  PROVE  /\ Score!naturalPC[l] \in 0..11 /\ 7 * Score!naturalPC[l] = 12 * l + Place(l)
         /\ Place(l) \in -1..5
  <1>1. Score!naturalPC[l] = <<0, 2, 4, 5, 7, 9, 11>>[l + 1]
    BY DEF Score!naturalPC, Score!Letters
  <1>2. l = 0 \/ l = 1 \/ l = 2 \/ l = 3 \/ l = 4 \/ l = 5 \/ l = 6
    OBVIOUS
  <1> QED
    BY <1>1, <1>2 DEF Place

LEMMA PlaceInjects == ASSUME NEW l \in 0..6, NEW m \in 0..6, Place(l) = Place(m) PROVE l = m
  BY DEF Place

LEMMA FifthsInject ==
  ASSUME NEW l \in 0..6, NEW m \in 0..6, NEW a \in Int, NEW b \in Int, Fifths(l, a) = Fifths(m, b)
  PROVE  l = m /\ a = b
  <1>1. Place(l) \in -1..5 /\ Place(m) \in -1..5
    BY NaturalIs
  <1>2. Place(l) = Place(m) /\ a = b
    BY <1>1 DEF Fifths
  <1> QED
    BY <1>2, PlaceInjects

LEMMA SharpOrderIs ==
  ASSUME NEW n \in 0..7, NEW l \in 0..6
  PROVE  (\E i \in 1..n : Score!sharpOrder[i] = l) <=> Place(l) + 2 <= n
  <1>1. /\ Score!sharpOrder[1] = 3 /\ Score!sharpOrder[2] = 0 /\ Score!sharpOrder[3] = 4 /\ Score!sharpOrder[4] = 1
        /\ Score!sharpOrder[5] = 5 /\ Score!sharpOrder[6] = 2 /\ Score!sharpOrder[7] = 6
    BY DEF Score!sharpOrder
  <1>2. \A i \in 1..7 : i = 1 \/ i = 2 \/ i = 3 \/ i = 4 \/ i = 5 \/ i = 6 \/ i = 7
    OBVIOUS
  <1>3. \A i \in 1..7 : Score!sharpOrder[i] \in 0..6 /\ Place(Score!sharpOrder[i]) + 2 = i
    BY <1>1, <1>2 DEF Place
  <1>4. Place(l) + 2 \in 1..7 /\ \A m \in 0..6 : Place(m) = Place(l) => m = l
    BY DEF Place
  <1>5. Score!sharpOrder[Place(l) + 2] = l
    BY <1>3, <1>4
  <1> QED
    BY <1>3, <1>4, <1>5

LEMMA FlatOrderIs ==
  ASSUME NEW n \in 0..7, NEW l \in 0..6
  PROVE  (\E i \in 1..n : Score!flatOrder[i] = l) <=> 6 - Place(l) <= n
  <1>1. /\ Score!flatOrder[1] = 6 /\ Score!flatOrder[2] = 2 /\ Score!flatOrder[3] = 5 /\ Score!flatOrder[4] = 1
        /\ Score!flatOrder[5] = 4 /\ Score!flatOrder[6] = 0 /\ Score!flatOrder[7] = 3
    BY DEF Score!flatOrder
  <1>2. \A i \in 1..7 : i = 1 \/ i = 2 \/ i = 3 \/ i = 4 \/ i = 5 \/ i = 6 \/ i = 7
    OBVIOUS
  <1>3. \A i \in 1..7 : Score!flatOrder[i] \in 0..6 /\ 6 - Place(Score!flatOrder[i]) = i
    BY <1>1, <1>2 DEF Place
  <1>4. 6 - Place(l) \in 1..7 /\ \A m \in 0..6 : Place(m) = Place(l) => m = l
    BY DEF Place
  <1>5. Score!flatOrder[6 - Place(l)] = l
    BY <1>3, <1>4
  <1> QED
    BY <1>3, <1>4, <1>5

LEMMA TonicsAre ==
  ASSUME NEW n \in -7..7
  PROVE  /\ Score!majorTonics[n + 8] \in (0..6) \X (-1..1) /\ Score!minorTonics[n + 8] \in (0..6) \X (-1..1)
         /\ Fifths(Score!majorTonics[n + 8][1], Score!majorTonics[n + 8][2]) = n
         /\ Fifths(Score!minorTonics[n + 8][1], Score!minorTonics[n + 8][2]) = n + 3
  <1>1. \/ n = -7 \/ n = -6 \/ n = -5 \/ n = -4 \/ n = -3 \/ n = -2 \/ n = -1 \/ n = 0
        \/ n = 1 \/ n = 2 \/ n = 3 \/ n = 4 \/ n = 5 \/ n = 6 \/ n = 7
    OBVIOUS
  <1>2. CASE n = -7
    BY <1>2 DEF Score!majorTonics, Score!minorTonics, Fifths, Place
  <1>3. CASE n = -6
    BY <1>3 DEF Score!majorTonics, Score!minorTonics, Fifths, Place
  <1>4. CASE n = -5
    BY <1>4 DEF Score!majorTonics, Score!minorTonics, Fifths, Place
  <1>5. CASE n = -4
    BY <1>5 DEF Score!majorTonics, Score!minorTonics, Fifths, Place
  <1>6. CASE n = -3
    BY <1>6 DEF Score!majorTonics, Score!minorTonics, Fifths, Place
  <1>7. CASE n = -2
    BY <1>7 DEF Score!majorTonics, Score!minorTonics, Fifths, Place
  <1>8. CASE n = -1
    BY <1>8 DEF Score!majorTonics, Score!minorTonics, Fifths, Place
  <1>9. CASE n = 0
    BY <1>9 DEF Score!majorTonics, Score!minorTonics, Fifths, Place
  <1>10. CASE n = 1
    BY <1>10 DEF Score!majorTonics, Score!minorTonics, Fifths, Place
  <1>11. CASE n = 2
    BY <1>11 DEF Score!majorTonics, Score!minorTonics, Fifths, Place
  <1>12. CASE n = 3
    BY <1>12 DEF Score!majorTonics, Score!minorTonics, Fifths, Place
  <1>13. CASE n = 4
    BY <1>13 DEF Score!majorTonics, Score!minorTonics, Fifths, Place
  <1>14. CASE n = 5
    BY <1>14 DEF Score!majorTonics, Score!minorTonics, Fifths, Place
  <1>15. CASE n = 6
    BY <1>15 DEF Score!majorTonics, Score!minorTonics, Fifths, Place
  <1>16. CASE n = 7
    BY <1>16 DEF Score!majorTonics, Score!minorTonics, Fifths, Place
  <1> QED
    BY <1>1, <1>2, <1>3, <1>4, <1>5, <1>6, <1>7, <1>8, <1>9, <1>10, <1>11, <1>12, <1>13, <1>14, <1>15, <1>16

\* Apart from the arithmetic, what the comparison of a record with Key(...) says.
LEMMA KeyIs ==
  ASSUME NEW t, NEW m
  PROVE  /\ Score!Key(t, m) = [letter |-> t[1], alt |-> t[2], minor |-> m]
         /\ Score!Key(t, m).letter = t[1] /\ Score!Key(t, m).alt = t[2] /\ Score!Key(t, m).minor = m
  BY DEF Score!Key

Spellings == [letter : 0..6, alt : Int, minor : BOOLEAN]

LEMMA ThirdIs == ASSUME NEW m \in BOOLEAN PROVE Third(m) \in {0, 3}
  BY DEF Third

LEMMA SharpsType == ASSUME NEW k \in Spellings PROVE Sharps(k) \in Int /\ Place(k.letter) \in -1..5
  <1>1. k.letter \in 0..6 /\ k.alt \in Int /\ k.minor \in BOOLEAN
    BY DEF Spellings
  <1> QED
    BY <1>1, ThirdIs, NaturalIs DEF Sharps, Fifths

LEMMA KeysAreSpellings ==
  ASSUME NEW k \in Score!AcceptedKeys
  PROVE  k \in Spellings /\ k.alt \in -1..1 /\ Sharps(k) \in -7..7
  <1>1. ASSUME NEW i \in 1..15, k = Score!Key(Score!majorTonics[i], FALSE)
        PROVE  k \in Spellings /\ k.alt \in -1..1 /\ Sharps(k) \in -7..7
    <2> DEFINE t == Score!majorTonics[i]
    <2>1. i - 8 \in -7..7 /\ (i - 8) + 8 = i
      OBVIOUS
    <2>2. t \in (0..6) \X (-1..1) /\ Fifths(t[1], t[2]) \in -7..7
      BY <2>1, TonicsAre
    <2>3. k = [letter |-> t[1], alt |-> t[2], minor |-> FALSE] /\ k.letter = t[1] /\ k.alt = t[2] /\ k.minor = FALSE
      BY <1>1, KeyIs
    <2> HIDE DEF t
    <2>4. Third(FALSE) = 0
      BY DEF Third
    <2>5. Sharps(k) = Fifths(t[1], t[2]) - 0
      BY <2>3, <2>4 DEF Sharps
    <2>6. t[1] \in 0..6 /\ t[2] \in -1..1 /\ t[2] \in Int
      BY <2>2
    <2> QED
      BY <2>2, <2>3, <2>5, <2>6 DEF Spellings
  <1>2. ASSUME NEW i \in 1..15, k = Score!Key(Score!minorTonics[i], TRUE)
        PROVE  k \in Spellings /\ k.alt \in -1..1 /\ Sharps(k) \in -7..7
    <2> DEFINE t == Score!minorTonics[i]
    <2>1. i - 8 \in -7..7 /\ (i - 8) + 8 = i
      OBVIOUS
    <2>2. t \in (0..6) \X (-1..1) /\ Fifths(t[1], t[2]) \in -4..10
      BY <2>1, TonicsAre
    <2>3. k = [letter |-> t[1], alt |-> t[2], minor |-> TRUE] /\ k.letter = t[1] /\ k.alt = t[2] /\ k.minor = TRUE
      BY <1>2, KeyIs
    <2> HIDE DEF t
    <2>4. Third(TRUE) = 3
      BY DEF Third
    <2>5. Sharps(k) = Fifths(t[1], t[2]) - 3
      BY <2>3, <2>4 DEF Sharps
    <2>6. t[1] \in 0..6 /\ t[2] \in -1..1 /\ t[2] \in Int
      BY <2>2
    <2> QED
      BY <2>2, <2>3, <2>5, <2>6 DEF Spellings
  <1> QED
    BY <1>1, <1>2 DEF Score!AcceptedKeys

\* The table's tonic with n accidentals is the only spelling with n.
LEMMA TonicOf ==
  ASSUME NEW k \in Spellings, NEW n \in -7..7
  PROVE  Sharps(k) = n <=>
           <<k.letter, k.alt>> = IF k.minor THEN Score!minorTonics[n + 8] ELSE Score!majorTonics[n + 8]
  <1>1. k.letter \in 0..6 /\ k.alt \in Int /\ k.minor \in BOOLEAN
    BY DEF Spellings
  <1> DEFINE F == Fifths(k.letter, k.alt)
  <1>2. ASSUME NEW t \in (0..6) \X (-1..1) PROVE F = Fifths(t[1], t[2]) <=> <<k.letter, k.alt>> = t
    <2>1. t[1] \in 0..6 /\ t[2] \in Int /\ t = <<t[1], t[2]>>
      OBVIOUS
    <2>2. F = Fifths(t[1], t[2]) => k.letter = t[1] /\ k.alt = t[2]
      BY <1>1, <2>1, FifthsInject
    <2>3. <<k.letter, k.alt>> = t => k.letter = t[1] /\ k.alt = t[2]
      BY <2>1
    <2> QED
      BY <2>1, <2>2, <2>3
  <1>3. F \in Int /\ Sharps(k) = F - Third(k.minor)
    <2>1. F \in Int
      BY <1>1, NaturalIs DEF Fifths
    <2> QED
      BY <2>1 DEF Sharps
  <1> HIDE DEF F
  <1>4. CASE k.minor
    <2>1. Third(k.minor) = 3
      BY <1>4 DEF Third
    <2>2. Sharps(k) = n <=> F = n + 3
      BY <1>3, <2>1
    <2>3. F = Fifths(Score!minorTonics[n + 8][1], Score!minorTonics[n + 8][2]) <=> <<k.letter, k.alt>> = Score!minorTonics[n + 8]
      BY <1>2, TonicsAre
    <2> QED
      BY <1>4, <2>2, <2>3, TonicsAre, Zenon
  <1>5. CASE ~k.minor
    <2>1. Third(k.minor) = 0
      BY <1>5 DEF Third
    <2>2. Sharps(k) = n <=> F = n
      BY <1>3, <2>1
    <2>3. F = Fifths(Score!majorTonics[n + 8][1], Score!majorTonics[n + 8][2]) <=> <<k.letter, k.alt>> = Score!majorTonics[n + 8]
      BY <1>2, TonicsAre
    <2> QED
      BY <1>5, <2>2, <2>3, TonicsAre, Zenon
  <1> QED
    BY <1>4, <1>5

LEMMA KeySignatureIs ==
  ASSUME NEW k \in Score!AcceptedKeys
  PROVE  Score!keySignature(k) = Sharps(k)
  <1>1. k \in Spellings /\ Sharps(k) \in -7..7
    BY KeysAreSpellings
  <1>2. \A n \in -7..7 : Sharps(k) = n <=>
          <<k.letter, k.alt>> = IF k.minor THEN Score!minorTonics[n + 8] ELSE Score!majorTonics[n + 8]
    BY <1>1, TonicOf
  <1>3. Score!keySignature(k) = CHOOSE n \in -7..7 : Sharps(k) = n
    BY <1>2 DEF Score!keySignature
  <1> QED
    BY <1>1, <1>3

\* And a spelling with at most seven accidentals is an accepted key.
LEMMA SpellingsAreKeys ==
  ASSUME NEW k \in Spellings, Sharps(k) \in -7..7
  PROVE  k \in Score!AcceptedKeys
  <1> DEFINE n == Sharps(k)
  <1>1. n \in -7..7 /\ n + 8 \in 1..15
    OBVIOUS
  <1>2. <<k.letter, k.alt>> = IF k.minor THEN Score!minorTonics[n + 8] ELSE Score!majorTonics[n + 8]
    BY <1>1, TonicOf
  <1>3. k = [letter |-> k.letter, alt |-> k.alt, minor |-> k.minor] /\ k.minor \in BOOLEAN
    BY DEF Spellings
  <1> HIDE DEF n
  <1>4. CASE k.minor
    <2> DEFINE t == Score!minorTonics[n + 8]
    <2>1. t = <<k.letter, k.alt>> /\ t[1] = k.letter /\ t[2] = k.alt
      BY <1>2, <1>4
    <2>2. k.minor = TRUE
      BY <1>3, <1>4, Zenon
    <2>3. k = Score!Key(t, TRUE)
      BY <1>3, <2>1, <2>2, KeyIs, Zenon
    <2> QED
      BY <1>1, <2>3 DEF Score!AcceptedKeys
  <1>5. CASE ~k.minor
    <2> DEFINE t == Score!majorTonics[n + 8]
    <2>1. t = <<k.letter, k.alt>> /\ t[1] = k.letter /\ t[2] = k.alt
      BY <1>2, <1>5
    <2>2. k.minor = FALSE
      BY <1>3, <1>5, Zenon
    <2>3. k = Score!Key(t, k.minor)
      <3> HIDE DEF t
      <3>1. Score!Key(t, k.minor) = [letter |-> t[1], alt |-> t[2], minor |-> k.minor]
        BY KeyIs
      <3> QED
        BY <1>3, <2>1, <3>1, Zenon
    <2>4. k = Score!Key(t, FALSE)
      <3> HIDE DEF t
      <3> QED
        BY <2>2, <2>3, Zenon
    <2> QED
      BY <1>1, <2>4 DEF Score!AcceptedKeys
  <1> QED
    BY <1>4, <1>5

\* The key signature of a key with n accidentals keeps every letter within its
\* scale, the seven places from n - 1 to n + 5.
InScale(sig, n) == \A l \in 0..6 : sig[l] \in -1..1 /\ Fifths(l, sig[l]) \in n - 1 .. n + 5

LEMMA SignatureIs ==
  ASSUME NEW k \in Score!AcceptedKeys
  PROVE  Score!signature(k) \in [0..6 -> -1..1] /\ InScale(Score!signature(k), Sharps(k))
  <1> DEFINE n == Sharps(k)
             sig == Score!signature(k)
  <1>1. n \in -7..7
    BY KeysAreSpellings
  <1>2. sig = [l \in 0..6 |-> IF \E i \in 1..n : Score!sharpOrder[i] = l THEN 1
                              ELSE IF \E i \in 1..(-n) : Score!flatOrder[i] = l THEN -1 ELSE 0]
    BY KeySignatureIs DEF Score!signature, Score!Letters
  <1> HIDE DEF n, sig
  <1>3. ASSUME NEW l \in 0..6
        PROVE  sig[l] \in -1..1 /\ Fifths(l, sig[l]) \in n - 1 .. n + 5
    <2>1. Place(l) \in -1..5
      BY NaturalIs
    <2>2. (\E i \in 1..n : Score!sharpOrder[i] = l) <=> Place(l) + 2 <= n
      <3>1. CASE n >= 0
        BY <1>1, <3>1, SharpOrderIs
      <3>2. CASE n < 0
        <4>1. 1..n = {}
          BY <1>1, <3>2
        <4> QED
          BY <1>1, <2>1, <3>2, <4>1
      <3> QED
        BY <1>1, <3>1, <3>2
    <2>3. (\E i \in 1..(-n) : Score!flatOrder[i] = l) <=> 6 - Place(l) <= -n
      <3>1. CASE n <= 0
        <4>1. -n \in 0..7
          BY <1>1, <3>1
        <4> QED
          BY <4>1, FlatOrderIs
      <3>2. CASE n > 0
        <4>1. 1..(-n) = {}
          BY <1>1, <3>2
        <4> QED
          BY <1>1, <2>1, <3>2, <4>1
      <3> QED
        BY <1>1, <3>1, <3>2
    <2>4. sig[l] = IF Place(l) + 2 <= n THEN 1 ELSE IF 6 - Place(l) <= -n THEN -1 ELSE 0
      BY <1>2, <2>2, <2>3
    <2> QED
      BY <1>1, <2>1, <2>4 DEF Fifths
  <1>4. sig \in [0..6 -> -1..1]
    BY <1>2
  <1> QED
    BY <1>3, <1>4 DEF n, sig, InScale

\* Intervals: a spelling is altered from -6 to 5, whatever multiple of the octave
\* the difference of pitch classes is off by.
LEMMA WrapIs ==
  ASSUME NEW a \in Int
  PROVE  /\ Score!wrapAlt(a) \in -6..5 /\ \E w \in Int : Score!wrapAlt(a) = a + 12 * w
         /\ a \in -6..5 => Score!wrapAlt(a) = a
         /\ \A q \in Int : Score!wrapAlt(a + 12 * q) = Score!wrapAlt(a)
  <1>1. ASSUME NEW b \in Int PROVE 12 * (b \div 12) + (b % 12) = b /\ b % 12 \in 0..11 /\ b \div 12 \in Int
    OBVIOUS
  <1> DEFINE r == (a + 6) % 12
             d == (a + 6) \div 12
  <1>2. 12 * d + r = a + 6 /\ r \in 0..11 /\ d \in Int
    BY <1>1
  <1>3. Score!wrapAlt(a) = r - 6
    BY DEF Score!wrapAlt
  <1>4. ASSUME NEW q \in Int PROVE Score!wrapAlt(a + 12 * q) = r - 6
    <2> DEFINE r2 == (a + 12 * q + 6) % 12
               d2 == (a + 12 * q + 6) \div 12
    <2>1. 12 * d2 + r2 = a + 12 * q + 6 /\ r2 \in 0..11 /\ d2 \in Int
      BY <1>1
    <2>2. Score!wrapAlt(a + 12 * q) = r2 - 6
      BY DEF Score!wrapAlt
    <2> HIDE DEF r, d, r2, d2
    <2>3. r2 = r
      BY <1>2, <2>1
    <2> QED
      BY <2>2, <2>3
  <1> HIDE DEF r, d
  <1>5. Score!wrapAlt(a) = a + 12 * (-d) /\ -d \in Int
    BY <1>2, <1>3
  <1>6. a \in -6..5 => r = a + 6
    BY <1>2
  <1>7. \E w \in Int : Score!wrapAlt(a) = a + 12 * w
    BY <1>5
  <1>8. \A q \in Int : Score!wrapAlt(a + 12 * q) = Score!wrapAlt(a)
    BY <1>3, <1>4
  <1>9. r - 6 \in -6..5 /\ (a \in -6..5 => r - 6 = a)
    BY <1>2, <1>6
  <1> QED
    BY <1>3, <1>7, <1>8, <1>9

LEMMA TonicPCIs ==
  ASSUME NEW k \in Spellings
  PROVE  /\ Score!tonicPC(k) \in Int /\ Score!tonicPC(k) = Score!naturalPC[k.letter] + k.alt
         /\ 7 * Score!tonicPC(k) = 12 * k.letter + Sharps(k) + Third(k.minor)
  <1>1. k.letter \in 0..6 /\ k.alt \in Int /\ Third(k.minor) \in {0, 3}
    BY ThirdIs DEF Spellings
  <1>2. Score!tonicPC(k) = Score!naturalPC[k.letter] + k.alt
    BY DEF Score!tonicPC
  <1> QED
    BY <1>1, <1>2, NaturalIs DEF Sharps, Fifths

LEMMA SevenIs == ASSUME NEW b \in Int PROVE 7 * (b \div 7) + (b % 7) = b /\ b % 7 \in 0..6 /\ b \div 7 \in Int
  OBVIOUS

LEMMA SpelledAs ==
  ASSUME NEW l, NEW pc, NEW m
  PROVE  Score!Spelled(l, pc, m) = [letter |-> l, alt |-> Score!wrapAlt(pc - Score!naturalPC[l]), minor |-> m]
  BY DEF Score!Spelled

\* j is k moved by n semitones, up to octaves.
Moved(k, j, n) == j.minor = k.minor /\ \E w \in Int : Score!tonicPC(j) = Score!tonicPC(k) + n + 12 * w

LEMMA MovedIs ==
  ASSUME NEW k \in Spellings, NEW j \in Spellings, NEW n \in Int, Moved(k, j, n)
  PROVE  \E w \in Int : 7 * n + 84 * w = 12 * (j.letter - k.letter) + Sharps(j) - Sharps(k)
  <1>1. PICK w \in Int : Score!tonicPC(j) = Score!tonicPC(k) + n + 12 * w
    BY DEF Moved
  <1>2. Third(j.minor) = Third(k.minor) /\ Third(k.minor) \in Int
    BY ThirdIs DEF Moved, Spellings
  <1>3. k.letter \in Int /\ j.letter \in Int /\ Sharps(j) \in Int /\ Sharps(k) \in Int
    BY SharpsType DEF Spellings
  <1> DEFINE x == Score!tonicPC(k)
             y == Score!tonicPC(j)
  <1>4. /\ x \in Int /\ 7 * x = 12 * k.letter + Sharps(k) + Third(k.minor)
        /\ y \in Int /\ 7 * y = 12 * j.letter + Sharps(j) + Third(j.minor)
    BY TonicPCIs
  <1>5. y = x + n + 12 * w
    BY <1>1
  <1> HIDE DEF x, y
  <1>6. 7 * n + 84 * w = 12 * (j.letter - k.letter) + Sharps(j) - Sharps(k)
    BY <1>2, <1>3, <1>4, <1>5
  <1> QED
    BY <1>6

LEMMA SpelledIs ==
  ASSUME NEW k \in Spellings, NEW l \in 0..6, NEW n \in Int
  PROVE  LET j == Score!Spelled(l, Score!tonicPC(k) + n, k.minor)
         IN  j \in Spellings /\ j.letter = l /\ Moved(k, j, n)
  <1> DEFINE j == Score!Spelled(l, Score!tonicPC(k) + n, k.minor)
             x == (Score!tonicPC(k) + n) - Score!naturalPC[l]
  <1>1. x \in Int /\ Score!naturalPC[l] \in Int /\ Score!tonicPC(k) \in Int
    BY TonicPCIs, NaturalIs
  <1>2. j = [letter |-> l, alt |-> Score!wrapAlt(x), minor |-> k.minor]
    BY SpelledAs
  <1>3. k.minor \in BOOLEAN
    BY DEF Spellings
  <1>4. j \in Spellings /\ j.letter = l /\ j.minor = k.minor /\ j.alt = Score!wrapAlt(x)
    BY <1>1, <1>2, <1>3, WrapIs DEF Spellings
  <1>5. PICK w \in Int : Score!wrapAlt(x) = x + 12 * w
    BY <1>1, WrapIs
  <1>6. Score!tonicPC(j) = Score!naturalPC[l] + j.alt
    BY <1>4, TonicPCIs
  <1>7. Score!tonicPC(j) = Score!tonicPC(k) + n + 12 * w
    BY <1>1, <1>4, <1>5, <1>6
  <1> QED
    BY <1>4, <1>7 DEF Moved

LEMMA spellingsAre ==
  ASSUME NEW k \in Score!AcceptedKeys, NEW n \in Int, NEW j
  PROVE  j \in Score!spellings(k, n) <=> j \in Score!AcceptedKeys /\ Moved(k, j, n)
  <1>1. k \in Spellings
    BY KeysAreSpellings
  <1>2. ASSUME j \in Score!spellings(k, n) PROVE j \in Score!AcceptedKeys /\ Moved(k, j, n)
    BY <1>1, <1>2, SpelledIs DEF Score!spellings, Score!Letters
  <1>3. ASSUME j \in Score!AcceptedKeys, Moved(k, j, n) PROVE j \in Score!spellings(k, n)
    <2>1. j \in Spellings /\ j.letter \in 0..6 /\ j.alt \in -1..1 /\ j.minor = k.minor
      BY <1>3, KeysAreSpellings DEF Spellings, Moved
    <2>2. PICK w \in Int : Score!tonicPC(j) = Score!tonicPC(k) + n + 12 * w
      BY <1>3 DEF Moved
    <2> DEFINE x == (Score!tonicPC(k) + n) - Score!naturalPC[j.letter]
    <2>3. /\ Score!tonicPC(k) \in Int /\ Score!naturalPC[j.letter] \in Int /\ j.alt \in Int
          /\ Score!tonicPC(j) = Score!naturalPC[j.letter] + j.alt
      BY <1>1, <2>1, TonicPCIs, NaturalIs
    <2>7. x \in Int /\ j.alt = x + 12 * w
      BY <2>2, <2>3
    <2> HIDE DEF x
    <2>4. Score!wrapAlt(x) = j.alt
      <3>1. x = j.alt + 12 * (-w) /\ -w \in Int /\ j.alt \in -6..5
        BY <2>1, <2>3, <2>7
      <3> QED
        BY <2>3, <3>1, WrapIs
    <2>5. j = [letter |-> j.letter, alt |-> j.alt, minor |-> j.minor]
      BY <2>1 DEF Spellings
    <2>6. j = Score!Spelled(j.letter, Score!tonicPC(k) + n, k.minor)
      <3>1. Score!Spelled(j.letter, Score!tonicPC(k) + n, k.minor)
              = [letter |-> j.letter, alt |-> Score!wrapAlt(x), minor |-> k.minor]
        BY SpelledAs DEF x
      <3> QED
        BY <2>1, <2>4, <2>5, <3>1, Zenon
    <2> QED
      BY <1>3, <2>1, <2>6 DEF Score!spellings, Score!Letters
  <1> QED
    BY <1>2, <1>3

\* The interval: its steps and its semitones differ by as many fifths as the keys.
Fits(steps, n, k, j) == 12 * steps - 7 * n = Sharps(k) - Sharps(j)

\* Of the counts that lead from letter to letter only one is near the semitones.
LEMMA StepsFit ==
  ASSUME NEW k \in Score!AcceptedKeys, NEW j \in Score!AcceptedKeys, NEW n \in -11..11, Moved(k, j, n)
  PROVE  Score!stepsBetween(k, j, n) \in -7..7 /\ Fits(Score!stepsBetween(k, j, n), n, k, j)
  <1>1. /\ k.letter \in 0..6 /\ j.letter \in 0..6 /\ k \in Spellings /\ j \in Spellings
        /\ Sharps(k) \in -7..7 /\ Sharps(j) \in -7..7
    BY KeysAreSpellings DEF Spellings
  <1>2. PICK w \in Int : 7 * n + 84 * w = 12 * (j.letter - k.letter) + Sharps(j) - Sharps(k)
    BY <1>1, MovedIs
  <1> DEFINE l == k.letter
             m == j.letter
             x == Sharps(k)
             y == Sharps(j)
             d == (m - l) % 7
             q == (m - l) \div 7
             s == m - l - 7 * w
             S == {d, d - 7, d + 7}
             Far(t) == Score!Abs(12 * t - 7 * n)
             steps == Score!stepsBetween(k, j, n)
  <1>3. l \in 0..6 /\ m \in 0..6 /\ x \in -7..7 /\ y \in -7..7 /\ 7 * n + 84 * w = 12 * (m - l) + y - x
    BY <1>1, <1>2
  <1>4. steps = CHOOSE r \in S : \A t \in S : Far(r) <= Far(t)
    BY DEF Score!stepsBetween
  <1>5. 12 * steps - 7 * n = x - y => Fits(steps, n, k, j)
    BY DEF Fits
  <1> HIDE DEF l, m, x, y, steps
  <1>6. 7 * q + d = m - l /\ d \in 0..6 /\ q \in Int
    BY <1>3, SevenIs
  <1> HIDE DEF d, q
  <1>7. s \in Int /\ 12 * s - 7 * n = x - y
    BY <1>3
  <1>8. s - d = 7 * (q - w) /\ q - w \in Int
    BY <1>6
  <1> HIDE DEF s
  <1>9. s \in -7..7
    BY <1>3, <1>7
  <1>10. s \in S
    <2>1. q - w = 0 \/ q - w = -1 \/ q - w = 1
      BY <1>6, <1>8, <1>9
    <2> QED
      BY <1>6, <1>8, <1>9, <2>1
  <1>11. Far(s) \in 0..14
    BY <1>3, <1>7, <1>9 DEF Score!Abs
  <1>12. ASSUME NEW t \in S, t # s PROVE Far(t) \in Nat /\ Far(t) > 14
    <2>1. t \in Int
      BY <1>6, <1>12
    <2>2. t - s >= 7 \/ t - s <= -7
      BY <1>6, <1>10, <1>12
    <2>3. 12 * t - 7 * n = (x - y) + 12 * (t - s)
      BY <1>3, <1>7, <1>9, <2>1
    <2>4. 12 * t - 7 * n >= 70 \/ 12 * t - 7 * n <= -70
      BY <1>3, <1>9, <2>1, <2>2, <2>3
    <2>5. 12 * t - 7 * n \in Int
      BY <2>1
    <2>6. \A u \in Int : u >= 70 \/ u <= -70 => Score!Abs(u) \in Nat /\ Score!Abs(u) > 14
      BY DEF Score!Abs
    <2> QED
      BY <2>4, <2>5, <2>6
  <1> HIDE DEF S, Far
  <1>13. \A t \in S : Far(s) <= Far(t)
    BY <1>11, <1>12
  <1>14. \A r \in S : (\A t \in S : Far(r) <= Far(t)) => r = s
    BY <1>10, <1>11, <1>12
  <1>15. steps = s
    BY <1>4, <1>10, <1>13, <1>14
  <1> QED
    BY <1>5, <1>7, <1>9, <1>15 DEF steps

\* A later key, moved by the same interval, fits it too: no other key with that
\* letter is near enough.
LEMMA SameSteps ==
  ASSUME NEW l \in 0..6, NEW x \in -14..14, NEW y \in -14..14, NEW n \in Int, NEW steps \in Int, NEW w \in Int,
         7 * n + 84 * w = 12 * (((l + steps) % 7) - l) - x, 12 * steps - 7 * n = y
  PROVE  x = y
  <1> DEFINE q == (l + steps) \div 7
             m == (l + steps) % 7
  <1>1. 7 * q + m = l + steps /\ q \in Int /\ m \in 0..6
    BY SevenIs
  <1>2. 7 * n + 84 * w = 12 * (m - l) - x
    OBVIOUS
  <1> HIDE DEF q, m
  <1>3. y = x + 84 * (w + q) /\ w + q \in Int
    BY <1>1, <1>2
  <1> QED
    BY <1>3

LEMMA MoveFits ==
  ASSUME NEW k \in Score!AcceptedKeys, NEW j \in Score!AcceptedKeys, NEW n \in Int, NEW steps \in Int,
         NEW a \in Score!AcceptedKeys, NEW b \in Score!AcceptedKeys, Fits(steps, n, a, b),
         Moved(k, j, n), j.letter = (k.letter + steps) % 7
  PROVE  Fits(steps, n, k, j)
  <1>1. /\ k.letter \in 0..6 /\ j.letter \in 0..6 /\ k \in Spellings /\ j \in Spellings
        /\ Sharps(k) \in -7..7 /\ Sharps(j) \in -7..7 /\ Sharps(a) \in -7..7 /\ Sharps(b) \in -7..7
    BY KeysAreSpellings DEF Spellings
  <1>2. PICK w \in Int : 7 * n + 84 * w = 12 * (j.letter - k.letter) + Sharps(j) - Sharps(k)
    BY <1>1, MovedIs
  <1> DEFINE x == Sharps(k) - Sharps(j)
             y == Sharps(a) - Sharps(b)
  <1>3. x \in -14..14 /\ y \in -14..14
    <2>1. \A u, v \in -7..7 : u - v \in -14..14
      OBVIOUS
    <2> QED
      BY <1>1, <2>1
  <1>4. 12 * steps - 7 * n = y
    BY DEF Fits
  <1>5. 7 * n + 84 * w = 12 * (j.letter - k.letter) - x
    BY <1>1, <1>2
  <1> HIDE DEF x, y
  <1>6. x = y
    BY <1>1, <1>3, <1>4, <1>5, SameSteps
  <1> QED
    BY <1>4, <1>6 DEF Fits, x

LEMMA TwelveIs ==
  ASSUME NEW b \in Int
  PROVE  /\ 12 * (b \div 12) + (b % 12) = b /\ b % 12 \in 0..11 /\ b \div 12 \in Int
         /\ \A z \in Int : b = 12 * z => b % 12 = 0
  OBVIOUS

LEMMA KeyWith ==
  ASSUME NEW n \in -7..7, NEW m \in BOOLEAN
  PROVE  \E j \in Score!AcceptedKeys : Sharps(j) = n /\ j.minor = m
  <1> DEFINE t == IF m THEN Score!minorTonics[n + 8] ELSE Score!majorTonics[n + 8]
             j == [letter |-> t[1], alt |-> t[2], minor |-> m]
  <1>1. t \in (0..6) \X (-1..1)
    BY TonicsAre
  <1> HIDE DEF t
  <1>2. t[1] \in 0..6 /\ t[2] \in Int /\ t = <<t[1], t[2]>>
    BY <1>1
  <1>3. j \in Spellings /\ j.letter = t[1] /\ j.alt = t[2] /\ j.minor = m
    BY <1>2 DEF Spellings
  <1> HIDE DEF j
  <1>4. <<j.letter, j.alt>> = t
    BY <1>2, <1>3
  <1>5. Sharps(j) = n
    BY <1>3, <1>4, TonicOf DEF t
  <1>6. j \in Score!AcceptedKeys
    BY <1>3, <1>5, SpellingsAreKeys
  <1> QED
    BY <1>3, <1>5, <1>6

\* Moved keys are those whose signature is off by as many fifths, up to twelve.
LEMMA MovedFifths ==
  ASSUME NEW k \in Score!AcceptedKeys, NEW j \in Score!AcceptedKeys, NEW n \in Int
  PROVE  Moved(k, j, n) <=> j.minor = k.minor /\ \E v \in Int : Sharps(j) = Sharps(k) + 7 * n + 12 * v
  <1>1. /\ k \in Spellings /\ j \in Spellings /\ k.letter \in 0..6 /\ j.letter \in 0..6
        /\ Sharps(k) \in -7..7 /\ Sharps(j) \in -7..7
    BY KeysAreSpellings DEF Spellings
  <1> DEFINE x == Score!tonicPC(k)
             y == Score!tonicPC(j)
             l == k.letter
             m == j.letter
             s == Sharps(k)
             u == Sharps(j)
             e == Third(k.minor)
             f == Third(j.minor)
  <1>2. l \in 0..6 /\ m \in 0..6 /\ s \in -7..7 /\ u \in -7..7 /\ e \in {0, 3} /\ (j.minor = k.minor => f = e)
    BY <1>1, ThirdIs DEF Spellings
  <1>3. x \in Int /\ 7 * x = 12 * l + s + e
    BY <1>1, TonicPCIs
  <1>4. y \in Int /\ 7 * y = 12 * m + u + f
    BY <1>1, TonicPCIs
  <1>5. Moved(k, j, n) <=> j.minor = k.minor /\ \E w \in Int : y = x + n + 12 * w
    BY DEF Moved
  <1> HIDE DEF x, y, l, m, s, u, e, f
  <1>6. ASSUME NEW w \in Int, y = x + n + 12 * w, f = e
        PROVE  \E v \in Int : u = s + 7 * n + 12 * v
    <2>1. u = s + 7 * n + 12 * (7 * w - m + l) /\ 7 * w - m + l \in Int
      BY <1>2, <1>3, <1>4, <1>6
    <2> QED
      BY <2>1
  <1>7. ASSUME NEW v \in Int, u = s + 7 * n + 12 * v, f = e
        PROVE  \E w \in Int : y = x + n + 12 * w
    <2> DEFINE b == y - x - n
               r == b % 12
               w == b \div 12
               z == m - l + v
    <2>1. b \in Int /\ z \in Int
      BY <1>2, <1>3, <1>4
    <2>2. 7 * b = 12 * z
      BY <1>2, <1>3, <1>4, <1>7
    <2>3. 12 * w + r = b /\ r \in 0..11 /\ w \in Int
      BY <2>1, TwelveIs
    <2> HIDE DEF r, w, z
    <2>4. r = 0
      <3> HIDE DEF b
      <3> QED
        BY <2>1, <2>2, <2>3
    <2>5. y = x + n + 12 * w
      BY <1>3, <1>4, <2>3, <2>4
    <2> QED
      BY <2>3, <2>5
  <1> QED
    BY <1>2, <1>5, <1>6, <1>7 DEF s, u

RankOf(n) == IF n < 0 THEN -2 * n - 1 ELSE 2 * n

\* At every interval there is an accepted key; the one with the fewest accidentals
\* has its place on the line of fifths from -6 to 5.
LEMMA targetKeyIs ==
  ASSUME NEW k \in Score!AcceptedKeys, NEW n \in Int
  PROVE  LET to == Score!targetKey(k, n)
         IN  /\ Score!spellings(k, n) # {}
             /\ to \in Score!AcceptedKeys /\ Moved(k, to, n)
             /\ \A j \in Score!AcceptedKeys : Moved(k, j, n) => RankOf(Sharps(to)) <= RankOf(Sharps(j))
  <1> DEFINE to == Score!targetKey(k, n)
             There == Score!spellings(k, n)
             s == Sharps(k)
             N == ((s + 7 * n + 6) % 12) - 6
             v == -((s + 7 * n + 6) \div 12)
  <1>1. k \in Spellings /\ k.minor \in BOOLEAN /\ s \in -7..7
    BY KeysAreSpellings DEF Spellings
  <1>2. N \in -6..5 /\ v \in Int /\ N = s + 7 * n + 12 * v
    <2> HIDE DEF s
    <2>1. s + 7 * n + 6 \in Int
      BY <1>1
    <2> QED
      BY <1>1, <2>1, TwelveIs
  <1> HIDE DEF N, v
  <1>3. PICK b \in Score!AcceptedKeys : Sharps(b) = N /\ b.minor = k.minor
    BY <1>1, <1>2, KeyWith
  <1>4. Moved(k, b, n)
    BY <1>2, <1>3, MovedFifths
  <1>5. \A j \in Score!AcceptedKeys : Sharps(j) \in -7..7 /\ RankOf(Sharps(j)) \in Nat
    BY KeysAreSpellings DEF RankOf
  <1>6. ASSUME NEW j \in Score!AcceptedKeys, Moved(k, j, n)
        PROVE  RankOf(Sharps(b)) <= RankOf(Sharps(j))
    <2>1. PICK q \in Int : Sharps(j) = s + 7 * n + 12 * q
      BY <1>6, MovedFifths
    <2> DEFINE u == Sharps(j)
    <2>2. u \in -7..7 /\ u = N + 12 * (q - v)
      BY <1>1, <1>2, <1>5, <2>1
    <2> HIDE DEF u
    <2>3. u = N \/ (u = N + 12 /\ N <= -5) \/ (u = N - 12 /\ N >= 5)
      BY <1>2, <2>2
    <2>4. RankOf(N) <= RankOf(u)
      BY <1>2, <2>2, <2>3 DEF RankOf
    <2> QED
      BY <1>3, <2>4 DEF u
  <1>7. \A j : j \in There <=> j \in Score!AcceptedKeys /\ Moved(k, j, n)
    BY spellingsAre
  <1>8. \A j \in There : Score!Rank(j) = RankOf(Sharps(j))
    BY <1>7, KeySignatureIs DEF Score!Rank, RankOf
  <1>9. to = CHOOSE c \in There : \A j \in There : Score!Rank(c) <= Score!Rank(j)
    BY DEF Score!targetKey
  <1> HIDE DEF to, There
  <1>10. b \in There /\ \A j \in There : Score!Rank(b) <= Score!Rank(j)
    BY <1>3, <1>4, <1>6, <1>7, <1>8
  <1>11. to \in There /\ \A j \in There : Score!Rank(to) <= Score!Rank(j)
    BY <1>9, <1>10
  <1>12. \A j \in Score!AcceptedKeys : Moved(k, j, n) => RankOf(Sharps(to)) <= RankOf(Sharps(j))
    BY <1>7, <1>8, <1>11
  <1> QED
    BY <1>7, <1>10, <1>11, <1>12 DEF to, There

LEMMA PitchIs ==
  ASSUME NEW pos \in Int, NEW a \in Int
  PROVE  /\ pos % 7 \in 0..6 /\ Score!PitchOf(pos, a) \in Int
         /\ 7 * Score!PitchOf(pos, a) = 12 * pos + Fifths(pos % 7, a)
         /\ Score!PitchOf(pos, a) = Score!PitchOf(pos, 0) + a
         /\ Score!PitchOf(pos, a) = Score!naturalPC[pos % 7] + 12 * (pos \div 7) + a
  <1> DEFINE l == pos % 7
             q == pos \div 7
             c == Score!naturalPC[l]
  <1>1. 7 * q + l = pos /\ l \in 0..6 /\ q \in Int
    BY SevenIs
  <1>2. Score!PitchOf(pos, a) = c + 12 * q + a /\ Score!PitchOf(pos, 0) = c + 12 * q + 0
    BY DEF Score!PitchOf
  <1> HIDE DEF l, q
  <1>3. c \in 0..11 /\ 7 * c = 12 * l + Place(l) /\ Place(l) \in -1..5
    BY <1>1, NaturalIs
  <1> HIDE DEF c
  <1>4. 7 * (c + 12 * q + a) = 12 * pos + Fifths(l, a)
    BY <1>1, <1>3 DEF Fifths
  <1> QED
    BY <1>1, <1>2, <1>3, <1>4 DEF l, q, c

\* Inductive together: the keys are accepted and lie an interval apart,
InTune ==
    /\ keyed \in BOOLEAN
    /\ iv \in [semitones : Intervals, steps : -7..7]
    /\ srcKey \in Score!AcceptedKeys /\ dstKey \in Score!AcceptedKeys
    /\ srcSig \in [0..6 -> -1..1] /\ dstSig \in [0..6 -> -1..1]
    /\ result \in {"rewriting", "ok", "no_key_field", "unknown_key", "unsupported_key", "unspellable"}
    /\ ~keyed => result # "unsupported_key"
    /\ keyed => /\ Fits(iv.steps, iv.semitones, srcKey, dstKey)
                /\ InScale(srcSig, Sharps(srcKey)) /\ InScale(dstSig, Sharps(dstKey))

\* and what either reader has marked in the bar is on a touched letter.
InBar ==
    /\ DOMAIN srcBar \subseteq Positions /\ \A p \in DOMAIN srcBar : srcBar[p] \in Score!Alterations
    /\ dstTouched \subseteq 0..6 /\ DOMAIN looseBar \subseteq dstTouched
    /\ \A p \in DOMAIN strictBar : p % 7 \in dstTouched

Tuned == InTune /\ InBar /\ HeardAsMoved

LEMMA IntervalsAre ==
  /\ Intervals \subseteq -11..11 /\ Positions \subseteq Int /\ NoAccidental \notin Score!Alterations
  BY NumbersFit DEF Score!Pitches, Score!MaxSemitones

LEMMA IntervalIs ==
  ASSUME InTune
  PROVE  /\ iv.semitones \in Intervals /\ iv.semitones \in -11..11 /\ iv.semitones \in Int
         /\ iv.steps \in -7..7 /\ iv.steps \in Int
  <1>1. iv.semitones \in Intervals /\ iv.steps \in -7..7
    BY DEF InTune
  <1>2. iv.semitones \in -11..11
    BY <1>1, IntervalsAre
  <1> QED
    BY <1>1, <1>2

LEMMA TunedInit == Score!Init => Tuned
  <1> SUFFICES ASSUME Score!Init PROVE Tuned
    OBVIOUS
  <1>1. Score!C \in Score!AcceptedKeys
    <2>1. Score!C = Score!Key(Score!majorTonics[8], FALSE)
      BY DEF Score!C, Score!Key, Score!majorTonics
    <2> QED
      BY <2>1 DEF Score!AcceptedKeys
  <1>2. Score!Flat \in [0..6 -> -1..1]
    BY DEF Score!Flat, Score!Letters
  <1>3. iv \in [semitones : Intervals, steps : -7..7]
    BY DEF Score!Init
  <1>4. InTune
    BY <1>1, <1>2, <1>3 DEF Score!Init, InTune
  <1>5. InBar
    BY DEF Score!Init, Score!NoBar, InBar
  <1>6. HeardAsMoved
    BY DEF Score!Init, Score!Silence, HeardAsMoved, Score!HeardAsMoved
  <1> QED
    BY <1>4, <1>5, <1>6 DEF Tuned

\* In a key the destination's signature sounds the source's, moved: a difference
\* of less than seven fifths that is a multiple of seven is none.
LEMMA ScaleMoves ==
  ASSUME InTune, keyed, NEW pos \in Int
  PROVE  /\ (pos + iv.steps) % 7 \in 0..6 /\ dstSig[(pos + iv.steps) % 7] \in -1..1
         /\ pos % 7 \in 0..6 /\ srcSig[pos % 7] \in -1..1
         /\ Score!PitchOf(pos + iv.steps, dstSig[(pos + iv.steps) % 7])
              = Score!PitchOf(pos, srcSig[pos % 7]) + iv.semitones
  <1> DEFINE h == iv.steps
             n == iv.semitones
             s == Sharps(srcKey)
             u == Sharps(dstKey)
             a == srcSig[pos % 7]
             b == dstSig[(pos + h) % 7]
             x == Score!PitchOf(pos, a)
             y == Score!PitchOf(pos + h, b)
             e == Fifths(pos % 7, a)
             f == Fifths((pos + h) % 7, b)
  <1>1. h \in -7..7 /\ n \in -11..11 /\ s \in -7..7 /\ u \in -7..7
    BY IntervalsAre, KeysAreSpellings DEF InTune
  <1>2. 12 * h - 7 * n = s - u
    BY DEF InTune, Fits
  <1>3. pos % 7 \in 0..6 /\ (pos + h) % 7 \in 0..6
    <2> HIDE DEF h
    <2>1. pos + h \in Int
      BY <1>1
    <2> QED
      BY <2>1, SevenIs
  <1>4. a \in -1..1 /\ b \in -1..1 /\ e \in s - 1 .. s + 5 /\ f \in u - 1 .. u + 5
    BY <1>3 DEF InTune, InScale
  <1> HIDE DEF h, n, s, u, a, b
  <1>5. x \in Int /\ 7 * x = 12 * pos + e
    <2>1. pos \in Int /\ a \in Int
      BY <1>4
    <2> QED
      BY <2>1, PitchIs
  <1>6. y \in Int /\ 7 * y = 12 * (pos + h) + f
    <2>1. pos + h \in Int /\ b \in Int
      BY <1>1, <1>4
    <2> QED
      BY <2>1, PitchIs
  <1> HIDE DEF x, y, e, f
  <1>7. y = x + n
    <2>1. 7 * (y - x - n) = (f - u) - (e - s) /\ y - x - n \in Int
      BY <1>1, <1>2, <1>4, <1>5, <1>6
    <2>2. (f - u) - (e - s) \in -6..6
      BY <1>1, <1>4
    <2>3. y - x - n = 0
      BY <2>1, <2>2
    <2> QED
      BY <1>1, <1>5, <1>6, <2>3
  <1> QED
    BY <1>3, <1>4, <1>7 DEF h, n, a, b, x, y

LEMMA EnterKeyTunes ==
  ASSUME Tuned, NEW k \in Score!AcceptedKeys, NEW to \in Score!AcceptedKeys,
         NEW interval \in [semitones : Intervals, steps : -7..7],
         Fits(interval.steps, interval.semitones, k, to), Score!EnterKey(k, to, interval)
  PROVE  Tuned'
  <1>1. /\ keyed' = TRUE /\ iv' = interval /\ srcKey' = k /\ dstKey' = to
        /\ srcSig' = Score!signature(k) /\ dstSig' = Score!signature(to)
        /\ result' = result /\ heard' = Score!Silence
        /\ srcBar' = Score!NoBar /\ dstTouched' = {} /\ strictBar' = Score!NoBar /\ looseBar' = Score!NoBar
    BY DEF Score!EnterKey, Score!resetBar
  <1>2. InTune'
    BY <1>1, SignatureIs DEF Tuned, InTune
  <1>3. InBar'
    BY <1>1 DEF Score!NoBar, InBar
  <1>4. HeardAsMoved'
    BY <1>1 DEF Score!Silence, HeardAsMoved, Score!HeardAsMoved
  <1> QED
    BY <1>2, <1>3, <1>4 DEF Tuned

LEMMA FailTunes ==
  ASSUME Tuned, NEW error \in {"unknown_key", "unsupported_key", "unspellable"}, Score!Fail(error),
         error = "unsupported_key" => keyed
  PROVE  Tuned'
  <1>1. /\ UNCHANGED <<keyed, iv, srcKey, dstKey, srcSig, dstSig, srcBar, dstTouched, strictBar, looseBar, heard>>
        /\ result' = error
    BY DEF Score!Fail, Score!keys, Score!readers
  <1>2. InTune'
    BY <1>1 DEF Tuned, InTune, Fits, InScale
  <1>3. InBar'
    BY <1>1 DEF Tuned, InBar
  <1>4. HeardAsMoved'
    BY <1>1 DEF Tuned, HeardAsMoved, Score!HeardAsMoved
  <1> QED
    BY <1>2, <1>3, <1>4 DEF Tuned

LEMMA HeaderTunes == ASSUME Tuned, NEW k, Score!headerKey(k) PROVE Tuned'
  <1> DEFINE n == iv.semitones
             to == Score!targetKey(k, n)
             interval == [iv EXCEPT !.steps = Score!stepsBetween(k, to, n)]
  <1>1. n \in -11..11 /\ n \in Intervals /\ n \in Int
    BY IntervalIs DEF Tuned
  <1>2. CASE k \notin Score!AcceptedKeys
    <2>1. Score!Fail("unknown_key")
      BY <1>2 DEF Score!headerKey
    <2> QED
      BY <2>1, FailTunes
  <1>3. CASE k \in Score!AcceptedKeys
    <2>1. Score!spellings(k, n) # {} /\ to \in Score!AcceptedKeys /\ Moved(k, to, n)
      BY <1>1, <1>3, targetKeyIs
    <2>2. Score!EnterKey(k, to, interval)
      BY <1>3, <2>1 DEF Score!headerKey
    <2> DEFINE steps == Score!stepsBetween(k, to, n)
    <2>3. steps \in -7..7 /\ Fits(steps, n, k, to)
      BY <1>1, <1>3, <2>1, StepsFit
    <2>4. /\ interval \in [semitones : Intervals, steps : -7..7]
          /\ interval.steps = steps /\ interval.semitones = n
      <3> HIDE DEF to
      <3> QED
        BY <2>3 DEF Tuned, InTune
    <2> HIDE DEF to, n, interval, steps
    <2> QED
      BY <1>3, <2>1, <2>2, <2>3, <2>4, EnterKeyTunes
  <1> QED
    BY <1>2, <1>3

LEMMA ChangeTunes == ASSUME Tuned, NEW k, Score!changeKey(k) PROVE Tuned'
  <1> DEFINE to == Score!moveKey(k, iv)
  <1>0. keyed /\ iv.semitones \in Int /\ iv.steps \in Int /\ iv \in [semitones : Intervals, steps : -7..7]
    <2>1. iv.semitones \in Int /\ iv.steps \in Int
      BY IntervalIs DEF Tuned
    <2> QED
      BY <2>1 DEF Tuned, InTune, Score!changeKey
  <1>1. CASE k \notin Score!AcceptedKeys
    <2>1. Score!Fail("unknown_key")
      BY <1>1 DEF Score!changeKey
    <2> QED
      BY <2>1, FailTunes
  <1>2. CASE k \in Score!AcceptedKeys /\ to \notin Score!AcceptedKeys
    <2>1. Score!Fail("unsupported_key")
      BY <1>2 DEF Score!changeKey
    <2> QED
      BY <1>0, <2>1, FailTunes
  <1>3. CASE k \in Score!AcceptedKeys /\ to \in Score!AcceptedKeys
    <2>1. Score!EnterKey(k, to, iv)
      BY <1>3 DEF Score!changeKey
    <2> DEFINE l == (k.letter + iv.steps) % 7
    <2>2. k \in Spellings /\ l \in 0..6
      <3>1. k \in Spellings /\ k.letter \in Int
        BY <1>3, KeysAreSpellings DEF Spellings
      <3>2. k.letter + iv.steps \in Int
        BY <1>0, <3>1
      <3> QED
        BY <3>1, <3>2, SevenIs
    <2>3. to = Score!Spelled(l, Score!tonicPC(k) + iv.semitones, k.minor)
      BY DEF Score!moveKey
    <2> HIDE DEF to
    <2>4. to.letter = l /\ Moved(k, to, iv.semitones)
      <3> HIDE DEF l
      <3> QED
        BY <1>0, <2>2, <2>3, SpelledIs
    <2>5. srcKey \in Score!AcceptedKeys /\ dstKey \in Score!AcceptedKeys /\ Fits(iv.steps, iv.semitones, srcKey, dstKey)
      BY <1>0 DEF Tuned, InTune
    <2>6. Fits(iv.steps, iv.semitones, k, to)
      BY <1>0, <1>3, <2>4, <2>5, MoveFits
    <2> QED
      BY <1>0, <1>3, <2>1, <2>6, EnterKeyTunes
  <1> QED
    BY <1>1, <1>2, <1>3

LEMMA MarkedIs ==
  ASSUME NEW b, NEW p, NEW a
  PROVE  /\ DOMAIN Score!Marked(b, p, a) = DOMAIN b \cup {p}
         /\ \A q \in DOMAIN b \cup {p} : Score!Marked(b, p, a)[q] = IF q = p THEN a ELSE b[q]
  BY DEF Score!Marked

LEMMA AlterationsAre == Score!Alterations = -2..2
  BY DEF Score!Alterations

\* A note is written so that both readers hear it where it was meant to be.
LEMMA NoteTunes ==
  ASSUME Tuned, NEW pos \in Positions, NEW acc \in Score!Alterations \cup {NoAccidental}, Score!note(pos, acc)
  PROVE  Tuned'
  <1> DEFINE a == Score!SourceAlt(pos, acc)
             src == Score!PitchOf(pos, a)
             pos2 == pos + iv.steps
             base == Score!PitchOf(pos2, 0)
             alt2 == src + iv.semitones - base
             l2 == pos2 % 7
             written == Score!Written(alt2, l2)
             strict == Score!Hears(strictBar, pos2, pos2, written)
             loose == Score!Hears(looseBar, l2, pos2, written)
  <1>1. keyed /\ InTune /\ InBar /\ iv.semitones \in Int /\ pos \in Int /\ pos2 \in Int
    BY IntervalIs, IntervalsAre DEF Tuned, Score!note
  <1>2. pos % 7 \in 0..6 /\ l2 \in 0..6
    <2> HIDE DEF pos2
    <2> QED
      BY <1>1, SevenIs
  <1>3. a \in Int
    <2>1. srcSig[pos % 7] \in Int
      BY <1>1, <1>2 DEF InTune
    <2>2. pos \in DOMAIN srcBar => srcBar[pos] \in Int
      BY <1>1, AlterationsAre DEF InBar
    <2>3. acc # NoAccidental => acc \in Int
      BY AlterationsAre
    <2> QED
      BY <2>1, <2>2, <2>3 DEF Score!SourceAlt
  <1>4. src \in Int /\ base \in Int
    <2> HIDE DEF a, pos2
    <2>1. src \in Int
      BY <1>1, <1>3, PitchIs
    <2>2. 0 \in Int
      OBVIOUS
    <2>3. base \in Int
      BY <1>1, <2>2, PitchIs
    <2> QED
      BY <2>1, <2>3
  <1>5. CASE alt2 \notin Score!Alterations
    <2>1. Score!Fail("unspellable")
      BY <1>5 DEF Score!note
    <2> QED
      BY <2>1, FailTunes
  <1>6. CASE alt2 \in Score!Alterations
    <2>1. /\ srcBar' = (IF acc # NoAccidental THEN Score!Marked(srcBar, pos, acc) ELSE srcBar)
          /\ IF written = NoAccidental THEN UNCHANGED <<dstTouched, strictBar, looseBar>>
             ELSE /\ dstTouched' = dstTouched \cup {l2}
                  /\ strictBar' = Score!Marked(strictBar, pos2, written)
                  /\ looseBar' = Score!Marked(looseBar, l2, written)
          /\ heard' = [kind |-> "note", was |-> src, strict |-> strict, loose |-> loose]
          /\ UNCHANGED <<keyed, iv, srcKey, dstKey, srcSig, dstSig, result>>
      BY <1>6 DEF Score!note, Score!readers, Score!keys
    <2>2. /\ \/ written = alt2 /\ written # NoAccidental
             \/ written = NoAccidental /\ alt2 = dstSig[l2] /\ l2 \notin dstTouched
      BY <1>6, IntervalsAre DEF Score!Written
    <2>3. Score!PitchOf(pos2, alt2) = src + iv.semitones
      <3>1. alt2 \in Int
        BY <1>1, <1>4
      <3>2. Score!PitchOf(pos2, alt2) = base + alt2
        <4> HIDE DEF alt2, pos2
        <4> QED
          BY <1>1, <3>1, PitchIs DEF base
      <3> HIDE DEF src, base, pos2
      <3> QED
        BY <1>1, <1>4, <3>2
    <2>4. strict = Score!PitchOf(pos2, alt2) /\ loose = Score!PitchOf(pos2, alt2)
      <3>1. CASE written = alt2 /\ written # NoAccidental
        <4> HIDE DEF written, alt2, pos2
        <4> QED
          BY <3>1 DEF Score!Hears
      <3>2. CASE written = NoAccidental /\ alt2 = dstSig[l2] /\ l2 \notin dstTouched
        <4>1. pos2 \notin DOMAIN strictBar /\ l2 \notin DOMAIN looseBar
          BY <1>1, <3>2 DEF InBar
        <4>2. strict = Score!PitchOf(pos2, dstSig[l2]) /\ loose = Score!PitchOf(pos2, dstSig[l2])
          <5> HIDE DEF written, alt2, pos2
          <5> QED
            BY <3>2, <4>1 DEF Score!Hears
        <4> HIDE DEF strict, loose, written, alt2, pos2, l2
        <4> QED
          BY <3>2, <4>2
      <3> QED
        BY <2>2, <3>1, <3>2
    <2> HIDE DEF a, src, pos2, base, alt2, written, strict, loose
    <2>5. HeardAsMoved'
      <3>1. strict = src + iv.semitones /\ loose = src + iv.semitones
        BY <2>3, <2>4
      <3>2. heard'.kind = "note" /\ heard'.was = src /\ heard'.strict = strict /\ heard'.loose = loose /\ iv' = iv
        BY <2>1
      <3>3. {heard'.strict, heard'.loose} = {heard'.was + iv'.semitones}
        BY <3>1, <3>2
      <3> QED
        BY <3>2, <3>3 DEF HeardAsMoved, Score!HeardAsMoved
    <2>6. DOMAIN srcBar' \subseteq Positions /\ \A p \in DOMAIN srcBar' : srcBar'[p] \in Score!Alterations
      <3>1. CASE acc # NoAccidental
        <4>1. srcBar' = Score!Marked(srcBar, pos, acc) /\ acc \in Score!Alterations
          BY <2>1, <3>1
        <4>2. /\ DOMAIN srcBar' = DOMAIN srcBar \cup {pos}
              /\ \A q \in DOMAIN srcBar \cup {pos} : srcBar'[q] = IF q = pos THEN acc ELSE srcBar[q]
          <5>1. /\ DOMAIN Score!Marked(srcBar, pos, acc) = DOMAIN srcBar \cup {pos}
                /\ \A q \in DOMAIN srcBar \cup {pos} :
                      Score!Marked(srcBar, pos, acc)[q] = IF q = pos THEN acc ELSE srcBar[q]
            BY MarkedIs
          <5> QED
            BY <4>1, <5>1, Zenon
        <4> QED
          BY <1>1, <4>1, <4>2 DEF InBar
      <3>2. CASE acc = NoAccidental
        BY <1>1, <2>1, <3>2 DEF InBar
      <3> QED
        BY <3>1, <3>2
    <2>7. /\ dstTouched' \subseteq 0..6 /\ DOMAIN looseBar' \subseteq dstTouched'
          /\ \A p \in DOMAIN strictBar' : p % 7 \in dstTouched'
      <3>1. CASE written = NoAccidental
        <4>1. dstTouched' = dstTouched /\ looseBar' = looseBar /\ strictBar' = strictBar
          BY <2>1, <3>1
        <4> QED
          BY <1>1, <4>1 DEF InBar
      <3>2. CASE written # NoAccidental
        <4>2. /\ dstTouched' = dstTouched \cup {l2} /\ strictBar' = Score!Marked(strictBar, pos2, written)
              /\ looseBar' = Score!Marked(looseBar, l2, written)
          BY <2>1, <3>2
        <4>1. /\ dstTouched' = dstTouched \cup {l2} /\ DOMAIN looseBar' = DOMAIN looseBar \cup {l2}
              /\ DOMAIN strictBar' = DOMAIN strictBar \cup {pos2}
          BY <4>2, MarkedIs, Zenon
        <4> QED
          BY <1>1, <1>2, <4>1 DEF InBar
      <3> QED
        BY <3>1, <3>2
    <2>8. InTune'
      BY <1>1, <2>1 DEF InTune, Fits, InScale
    <2> QED
      BY <2>5, <2>6, <2>7, <2>8 DEF Tuned, InBar
  <1> QED
    BY <1>5, <1>6

\* A root or bass stays as far from its degree.
LEMMA DegreeStays ==
  ASSUME InTune, keyed, NEW l \in 0..6, NEW a \in Int
  PROVE  LET moved == Score!movePitch(<<l, a>>, iv)
         IN  /\ moved[1] = (l + iv.steps) % 7
             /\ Score!wrapAlt(moved[2] - dstSig[moved[1]]) = Score!wrapAlt(a - srcSig[l])
  <1> DEFINE h == iv.steps
             n == iv.semitones
             m == (l + h) % 7
             q == (l + h) \div 7
             c == Score!naturalPC[l]
             e == Score!naturalPC[m]
             s == srcSig[l]
             d == dstSig[m]
             x == c + a + n - e
  <1>1. l \in Int /\ h \in Int /\ n \in Int /\ l + h \in Int /\ l % 7 = l /\ l \div 7 = 0
    BY IntervalIs
  <1>2. /\ m \in 0..6 /\ d \in Int /\ s \in Int /\ q \in Int /\ c \in Int
        /\ Score!PitchOf(l + h, d) = Score!PitchOf(l, s) + n
    <2>1. /\ m \in 0..6 /\ d \in -1..1 /\ srcSig[l % 7] \in -1..1
          /\ Score!PitchOf(l + h, d) = Score!PitchOf(l, srcSig[l % 7]) + n
      BY <1>1, ScaleMoves
    <2>2. c \in Int
      BY NaturalIs
    <2>3. q \in Int
      <3> HIDE DEF h
      <3> QED
        BY <1>1, SevenIs
    <2> HIDE DEF c, q, m, d, h, n
    <2>4. s = srcSig[l % 7]
      BY <1>1
    <2> HIDE DEF s
    <2> QED
      BY <2>1, <2>2, <2>3, <2>4
  <1>3. e \in Int
    BY <1>2, NaturalIs
  <1>4. Score!PitchOf(l, s) = c + 12 * 0 + s
    <2> HIDE DEF s
    <2>1. Score!PitchOf(l, s) = Score!naturalPC[l % 7] + 12 * (l \div 7) + s
      BY <1>1, <1>2, PitchIs
    <2> QED
      BY <1>1, <2>1
  <1>5. Score!PitchOf(l + h, d) = e + 12 * q + d
    <2> HIDE DEF d
    <2> QED
      BY <1>1, <1>2, PitchIs
  <1>6. Score!movePitch(<<l, a>>, iv) = <<m, Score!wrapAlt(x)>>
    BY DEF Score!movePitch
  <1> HIDE DEF h, n, m, q, c, e, s, d
  <1>7. x \in Int /\ x - d = (a - s) + 12 * q /\ a - s \in Int
    BY <1>1, <1>2, <1>3, <1>4, <1>5
  <1> HIDE DEF x
  <1>8. PICK w \in Int : Score!wrapAlt(x) = x + 12 * w
    BY <1>7, WrapIs
  <1> DEFINE b == a - s
             z == q + w
             y == Score!wrapAlt(x)
  <1>9. y - d = b + 12 * z /\ z \in Int /\ b \in Int
    BY <1>2, <1>7, <1>8
  <1>10. Score!wrapAlt(y - d) = Score!wrapAlt(b)
    <2> HIDE DEF b, z, y
    <2>1. Score!wrapAlt(b + 12 * z) = Score!wrapAlt(b)
      BY <1>9, WrapIs
    <2> QED
      BY <1>9, <2>1
  <1> DEFINE moved == Score!movePitch(<<l, a>>, iv)
  <1>11. moved[1] = m /\ moved[2] = Score!wrapAlt(x)
    BY <1>6
  <1> HIDE DEF moved
  <1>12. Score!wrapAlt(moved[2] - dstSig[moved[1]]) = Score!wrapAlt(a - srcSig[l])
    <2> HIDE DEF x, q
    <2> QED
      BY <1>10, <1>11 DEF d, s
  <1> QED
    BY <1>11, <1>12 DEF moved, m, h

LEMMA ChordTunes ==
  ASSUME Tuned, NEW p \in Int, NEW q \in Int, NEW a \in Score!Alterations, Score!chord(<<p % 7, a>>, <<q % 7, 0>>)
  PROVE  Tuned'
  <1> DEFINE root == <<p % 7, a>>
             bass == <<q % 7, 0>>
             moved == <<Score!movePitch(root, iv), Score!movePitch(bass, iv)>>
  <1>1. CASE \E i \in 1..2 : moved[i][2] \notin Score!Alterations
    <2>1. Score!Fail("unspellable")
      BY <1>1 DEF Score!chord
    <2> QED
      BY <2>1, FailTunes
  <1>2. CASE ~\E i \in 1..2 : moved[i][2] \notin Score!Alterations
    <2>1. /\ heard' = [kind |-> "chord", was |-> <<root, bass>>, moved |-> moved]
          /\ UNCHANGED <<keyed, iv, srcKey, dstKey, srcSig, dstSig, srcBar, dstTouched, result, strictBar, looseBar>>
      BY <1>2 DEF Score!chord, Score!keys, Score!readers
    <2>2. keyed /\ InTune /\ InBar
      BY DEF Tuned, Score!chord
    <2>3. p % 7 \in 0..6 /\ q % 7 \in 0..6 /\ a \in Int /\ 0 \in Int
      BY SevenIs, AlterationsAre
    <2>4. /\ Score!wrapAlt(moved[1][2] - dstSig[moved[1][1]]) = Score!wrapAlt(a - srcSig[p % 7])
          /\ Score!wrapAlt(moved[2][2] - dstSig[moved[2][1]]) = Score!wrapAlt(0 - srcSig[q % 7])
      <3> DEFINE l == p % 7
                 m == q % 7
      <3>1. l \in 0..6 /\ m \in 0..6
        BY <2>3
      <3> HIDE DEF l, m
      <3>2. LET x == Score!movePitch(<<l, a>>, iv)
            IN  Score!wrapAlt(x[2] - dstSig[x[1]]) = Score!wrapAlt(a - srcSig[l])
        BY <2>2, <2>3, <3>1, DegreeStays
      <3>3. LET x == Score!movePitch(<<m, 0>>, iv)
            IN  Score!wrapAlt(x[2] - dstSig[x[1]]) = Score!wrapAlt(0 - srcSig[m])
        BY <2>2, <2>3, <3>1, DegreeStays
      <3> QED
        BY <3>2, <3>3 DEF l, m
    <2>5. HeardAsMoved'
      <3>1. heard'.kind = "chord" /\ heard'.moved = moved /\ heard'.was = <<root, bass>> /\ dstSig' = dstSig /\ srcSig' = srcSig
        BY <2>1
      <3>2. root[1] = p % 7 /\ root[2] = a /\ bass[1] = q % 7 /\ bass[2] = 0
        OBVIOUS
      <3> HIDE DEF moved, root, bass
      <3>3. ASSUME NEW i \in 1..2
            PROVE  Score!wrapAlt(heard'.moved[i][2] - dstSig'[heard'.moved[i][1]])
                     = Score!wrapAlt(heard'.was[i][2] - srcSig'[heard'.was[i][1]])
        <4>1. i = 1 \/ i = 2
          OBVIOUS
        <4> QED
          BY <2>4, <3>1, <3>2, <4>1
      <3> QED
        BY <3>1, <3>3 DEF HeardAsMoved, Score!HeardAsMoved
    <2>6. InTune'
      BY <2>1, <2>2 DEF InTune, Fits, InScale
    <2>7. InBar'
      BY <2>1, <2>2 DEF InBar
    <2> QED
      BY <2>5, <2>6, <2>7 DEF Tuned
  <1> QED
    BY <1>1, <1>2

LEMMA BarTunes == ASSUME Tuned, Score!bar PROVE Tuned'
  <1>1. /\ UNCHANGED <<keyed, iv, srcKey, dstKey, srcSig, dstSig, result>> /\ heard' = Score!Silence
        /\ srcBar' = Score!NoBar /\ dstTouched' = {} /\ strictBar' = Score!NoBar /\ looseBar' = Score!NoBar
    BY DEF Score!bar, Score!resetBar, Score!keys
  <1>2. InTune'
    BY <1>1 DEF Tuned, InTune, Fits, InScale
  <1>3. InBar'
    BY <1>1 DEF Score!NoBar, InBar
  <1>4. HeardAsMoved'
    BY <1>1 DEF Score!Silence, HeardAsMoved, Score!HeardAsMoved
  <1> QED
    BY <1>2, <1>3, <1>4 DEF Tuned

LEMMA EndTunes == ASSUME Tuned, Score!finish \/ UNCHANGED Score!vars PROVE Tuned'
  <1>1. UNCHANGED <<keyed, iv, srcKey, dstKey, srcSig, dstSig, srcBar, dstTouched, strictBar, looseBar, heard>>
    BY DEF Score!finish, Score!vars, Score!keys, Score!readers
  <1>2. result' \in {"ok", "no_key_field"} \/ result' = result
    BY DEF Score!finish, Score!vars
  <1>3. InTune'
    BY <1>1, <1>2 DEF Tuned, InTune, Fits, InScale
  <1>4. InBar'
    BY <1>1 DEF Tuned, InBar
  <1>5. HeardAsMoved'
    BY <1>1 DEF Tuned, HeardAsMoved, Score!HeardAsMoved
  <1> QED
    BY <1>3, <1>4, <1>5 DEF Tuned

LEMMA TunedStep == Tuned /\ [Score!Next]_(Score!vars) => Tuned'
  <1> SUFFICES ASSUME Tuned, [Score!Next]_(Score!vars) PROVE Tuned'
    OBVIOUS
  <1>1. ASSUME NEW k \in ScoreKeys, Score!headerKey(k) \/ Score!changeKey(k) PROVE Tuned'
    BY <1>1, HeaderTunes, ChangeTunes
  <1>2. ASSUME NEW pos \in Positions, NEW acc \in Score!Alterations \cup {NoAccidental}, Score!note(pos, acc)
        PROVE  Tuned'
    BY <1>2, NoteTunes
  <1>3. ASSUME NEW p \in Positions, NEW q \in Positions, NEW a \in Score!Alterations,
               Score!chord(<<p % 7, a>>, <<q % 7, 0>>)
        PROVE  Tuned'
    BY <1>3, IntervalsAre, ChordTunes
  <1> QED
    BY <1>1, <1>2, <1>3, BarTunes, EndTunes DEF Score!Next

LEMMA AlwaysTuned == Score!Spec => []Tuned
  BY TunedInit, TunedStep, PTL DEF Score!Spec

LEMMA ScoreTyped == Tuned => Score!TypeOK
  BY DEF Tuned, InTune, InBar, Score!TypeOK, Score!Letters

(* Every note of the rewritten score sounds the semitones asked for from      *)
(* where it was, to either kind of reader, and every chord keeps its degree:  *)
(* in any key, at any interval, wherever the score's notes lie                *)
(* (transpose.go:204-209, 493-511).                                           *)
THEOREM AlwaysHeardAsMoved == Score!Spec => []HeardAsMoved
  <1>1. Tuned => HeardAsMoved
    BY DEF Tuned
  <1> QED
    BY <1>1, AlwaysTuned, PTL

(* The moved key is the same scale, after the header and after every later    *)
(* key (transpose.go:111-146).                                                *)
THEOREM AlwaysSameScale == Score!Spec => []SameScale
  <1>1. Tuned => SameScale
    <2> SUFFICES ASSUME Tuned, keyed, NEW pos \in 0..13
                 PROVE  Score!PitchOf(pos + iv.steps, dstSig[(pos + iv.steps) % 7])
                          = Score!PitchOf(pos, srcSig[pos % 7]) + iv.semitones
      BY DEF SameScale, Score!SameScale
    <2>1. pos \in Int /\ InTune
      BY DEF Tuned
    <2> QED
      BY <2>1, ScaleMoves
  <1> QED
    BY <1>1, AlwaysTuned, PTL

LEMMA HeaderLands ==
  ASSUME Tuned, ~keyed, [Score!Next]_(Score!vars)
  PROVE  Score!HeaderLandsSimplest
  <1>1. CASE \E k \in ScoreKeys : Score!headerKey(k)
    <2> PICK k \in ScoreKeys : Score!headerKey(k)
      BY <1>1
    <2> DEFINE n == iv.semitones
               to == Score!targetKey(k, n)
    <2>1. n \in Int /\ iv \in [semitones : Intervals, steps : -7..7]
      BY IntervalIs DEF Tuned, InTune
    <2>2. CASE k \notin Score!AcceptedKeys
      <3>1. result' = "unknown_key" /\ keyed' = keyed
        BY <2>2 DEF Score!headerKey, Score!Fail, Score!keys
      <3> QED
        BY <3>1 DEF Score!HeaderLandsSimplest
    <2>3. CASE k \in Score!AcceptedKeys
      <3>1. Score!spellings(k, n) # {} /\ to \in Score!AcceptedKeys /\ Moved(k, to, n)
        BY <2>1, <2>3, targetKeyIs
      <3>2. \A j \in Score!AcceptedKeys : Moved(k, j, n) => RankOf(Sharps(to)) <= RankOf(Sharps(j))
        BY <2>1, <2>3, targetKeyIs
      <3>3. srcKey' = k /\ dstKey' = to /\ result' # "unsupported_key" /\ iv'.semitones = n
        <4> DEFINE interval == [iv EXCEPT !.steps = Score!stepsBetween(k, to, n)]
        <4>1. Score!EnterKey(k, to, interval)
          BY <2>3, <3>1 DEF Score!headerKey
        <4>2. interval.semitones = n
          <5> HIDE DEF to
          <5> QED
            BY <2>1
        <4>3. result = "rewriting"
          BY DEF Score!headerKey
        <4> HIDE DEF interval, to
        <4> QED
          BY <4>1, <4>2, <4>3 DEF Score!EnterKey
      <3> DEFINE There == {j \in Score!AcceptedKeys : /\ j.minor = k.minor
                                                      /\ (Score!tonicPC(j) - Score!tonicPC(k) - n) % 12 = 0}
      <3>4. ASSUME NEW j \in Score!AcceptedKeys PROVE j \in There <=> Moved(k, j, n)
        <4> DEFINE x == Score!tonicPC(k)
                   y == Score!tonicPC(j)
        <4>1. x \in Int /\ y \in Int
          BY <2>3, KeysAreSpellings, TonicPCIs
        <4>2. j \in There <=> j.minor = k.minor /\ (y - x - n) % 12 = 0
          OBVIOUS
        <4>3. Moved(k, j, n) <=> j.minor = k.minor /\ \E w \in Int : y = x + n + 12 * w
          BY DEF Moved
        <4> HIDE DEF x, y, n, There
        <4> DEFINE b == y - x - n
                   q == b \div 12
        <4>4. b \in Int
          BY <2>1, <4>1
        <4>5. 12 * q + (b % 12) = b /\ q \in Int /\ \A z \in Int : b = 12 * z => b % 12 = 0
          BY <4>4, TwelveIs
        <4>6. b % 12 = 0 => y = x + n + 12 * q
          <5> HIDE DEF q
          <5> QED
            BY <2>1, <4>1, <4>5
        <4>7. \A w \in Int : y = x + n + 12 * w => b = 12 * w
          BY <2>1, <4>1
        <4> HIDE DEF b, q
        <4>8. b % 12 = 0 <=> \E w \in Int : y = x + n + 12 * w
          BY <4>5, <4>6, <4>7
        <4> QED
          BY <4>2, <4>3, <4>8 DEF b
      <3>5. ASSUME NEW j \in There
            PROVE  LET m == Score!keySignature(j)  best == Score!keySignature(to)
                   IN  Score!Abs(best) < Score!Abs(m) \/ (Score!Abs(best) = Score!Abs(m) /\ best <= m)
        <4> DEFINE m == Sharps(j)
                   best == Sharps(to)
        <4>1. j \in Score!AcceptedKeys /\ Moved(k, j, n)
          BY <3>4, <3>5
        <4>2. m \in -7..7 /\ best \in -7..7 /\ RankOf(best) <= RankOf(m)
          BY <3>1, <3>2, <4>1, KeysAreSpellings
        <4>3. Score!keySignature(j) = m /\ Score!keySignature(to) = best
          BY <3>1, <4>1, KeySignatureIs
        <4> HIDE DEF m, best
        <4>4. Score!Abs(best) < Score!Abs(m) \/ (Score!Abs(best) = Score!Abs(m) /\ best <= m)
          BY <4>2 DEF RankOf, Score!Abs
        <4> QED
          BY <4>3, <4>4
      <3>6. to \in There
        BY <3>1, <3>4
      <3> HIDE DEF to
      <3>7. There = {j \in Score!AcceptedKeys : /\ j.minor = srcKey'.minor
                                                /\ (Score!tonicPC(j) - Score!tonicPC(srcKey') - iv.semitones) % 12 = 0}
        BY <3>3
      <3> HIDE DEF There
      <3>8. dstKey' \in There /\ \A j \in There :
              LET m == Score!keySignature(j)  best == Score!keySignature(dstKey')
              IN  Score!Abs(best) < Score!Abs(m) \/ (Score!Abs(best) = Score!Abs(m) /\ best <= m)
        BY <3>3, <3>5, <3>6
      <3> QED
        BY <3>3, <3>7, <3>8, Zenon DEF Score!HeaderLandsSimplest
    <2> QED
      BY <2>2, <2>3
  <1>2. CASE Score!finish
    <2>1. result' = "no_key_field" /\ keyed' = keyed
      BY <1>2 DEF Score!finish, Score!keys
    <2> QED
      BY <2>1 DEF Score!HeaderLandsSimplest
  <1>3. CASE UNCHANGED Score!vars
    <2>1. result' = result /\ keyed' = keyed /\ result # "unsupported_key"
      BY <1>3 DEF Score!vars, Score!keys, Tuned, InTune
    <2> QED
      BY <2>1 DEF Score!HeaderLandsSimplest
  <1>4. Score!Next => (\E k \in ScoreKeys : Score!headerKey(k)) \/ Score!finish
    BY DEF Score!Next, Score!changeKey, Score!bar, Score!note, Score!chord
  <1> QED
    BY <1>1, <1>2, <1>3, <1>4
-----------------------------------------------------------------------------
(* Backup.                                                                    *)

\* The states a volume and the bucket can be in. Databases says what a database is,
Databases ==
    /\ stack \in {"down", "database", "files", "copying", "up"}
    /\ deployed \in Nat /\ made \subseteq Songs
    /\ db \in [deployment : 0..deployed, rows : SUBSET made]
    /\ bucketDb \in [deployment : 0..deployed, rows : SUBSET made]
    /\ db.deployment = 0 => db.rows = {}
    /\ bucketDb.deployment = 0 => bucketDb.rows = {}
    /\ files \subseteq made /\ bucketFiles \subseteq made
    /\ young \cup unfiled \subseteq files /\ (files # {} => audio)
    /\ stack = "up" \/ unfiled = {}
    /\ unfiled \cap db.rows = {}
    /\ audio \in BOOLEAN /\ partial \in BOOLEAN

\* Related that the volume's database and the bucket's are of one deployment, and
\* that past the restore of the database there is none only where the bucket has none,
Related ==
    /\ db.deployment # 0 /\ bucketDb.deployment # 0 => db.deployment = bucketDb.deployment
    /\ db.deployment = 0 /\ (audio \/ stack \in {"files", "copying", "up"}) => bucketDb.deployment = 0

\* and Whole that a volume with an audio directory has the files of its rows,
\* outside a copy and unless one was cut short.
Whole ==
    ~partial /\ (stack = "up" \/ (audio /\ stack # "copying")) =>
        db.rows \cap bucketFiles \subseteq files

Recoverable == Databases /\ Related /\ Whole

LEMMA NoDatabaseIs == Copy!NoDatabase = [deployment |-> 0, rows |-> {}]
  BY DEF Copy!NoDatabase

LEMMA RecoverableInit == Copy!Init => Recoverable
  <1> SUFFICES ASSUME Copy!Init PROVE Recoverable
    OBVIOUS
  <1>1. audio \in BOOLEAN /\ partial \in BOOLEAN
    BY Zenon DEF Copy!Init
  <1>2. /\ stack = "down" /\ deployed = 0 /\ made = {} /\ files = {} /\ young = {} /\ unfiled = {} /\ bucketFiles = {}
        /\ db = [deployment |-> 0, rows |-> {}] /\ bucketDb = [deployment |-> 0, rows |-> {}]
    BY DEF Copy!Init, Copy!NoDatabase
  <1> QED
    BY <1>1, <1>2 DEF Recoverable, Databases, Related, Whole

LEMMA RestoreKeeps ==
  ASSUME Recoverable, Copy!Up \/ Copy!restoreFails \/ Copy!restoreDatabase \/ Copy!restoreFiles \/ Copy!restored
  PROVE  Recoverable'
  <1>1. CASE Copy!Up
    BY <1>1 DEF Copy!Up, Copy!Goes, Copy!volume, Copy!bucket, Copy!history, Recoverable, Databases, Related, Whole
  <1>2. CASE Copy!restoreFails
    BY <1>2 DEF Copy!restoreFails, Copy!volume, Copy!bucket, Recoverable, Databases, Related, Whole
  <1>3. CASE Copy!restoreDatabase
    BY <1>3 DEF Copy!restoreDatabase, Copy!NoDatabase, Copy!Goes, Copy!bucket, Copy!history, Recoverable, Databases, Related, Whole
  <1>4. CASE Copy!restoreFiles
    BY <1>4 DEF Copy!restoreFiles, Copy!Goes, Copy!volume, Copy!bucket, Copy!history, Recoverable, Databases, Related, Whole
  <1>5. CASE Copy!restored
    BY <1>5 DEF Copy!restored, Copy!Goes, Copy!volume, Copy!bucket, Copy!history, Recoverable, Databases, Related, Whole
  <1> QED
    BY <1>1, <1>2, <1>3, <1>4, <1>5

LEMMA SidecarsKeep ==
  ASSUME Recoverable, Copy!Open \/ Copy!replicate \/ Copy!Down \/ Copy!loseVolume
  PROVE  Recoverable'
  <1>1. CASE Copy!Open
    BY <1>1 DEF Copy!Open, Copy!NoDatabase, Copy!bucket, Recoverable, Databases, Related, Whole
  <1>2. CASE Copy!replicate
    BY <1>2 DEF Copy!replicate, Copy!NoDatabase, Copy!volume, Copy!history, Recoverable, Databases, Related, Whole
  <1>3. CASE Copy!Down
    BY <1>3 DEF Copy!Down, Copy!Goes, Copy!volume, Copy!bucket, Copy!history, Recoverable, Databases, Related, Whole
  <1>4. CASE Copy!loseVolume
    <2>1. audio' \in BOOLEAN /\ partial' \in BOOLEAN /\ ~audio'
      BY <1>4, Zenon DEF Copy!loseVolume
    <2>2. /\ stack' = "down" /\ files' = {} /\ young' = {}
          /\ db' = [deployment |-> 0, rows |-> {}]
          /\ UNCHANGED <<unfiled, deployed, made, bucketDb, bucketFiles>>
      BY <1>4 DEF Copy!loseVolume, Copy!NoDatabase, Copy!bucket
    <2>3. unfiled = {}
      BY <1>4 DEF Copy!loseVolume, Recoverable, Databases
    <2> QED
      BY <2>1, <2>2, <2>3 DEF Recoverable, Databases, Related, Whole
  <1> QED
    BY <1>1, <1>2, <1>3, <1>4

LEMMA SongsKeep ==
  ASSUME Recoverable, NEW f \in Songs,
         \/ Copy!rcloneCopy(f) \/ Copy!encode(f) \/ Copy!insertSong(f)
         \/ Copy!DeleteSong(f) \/ Copy!Age(f) \/ Copy!syncFile(f)
  PROVE  Recoverable'
  <1>1. CASE Copy!rcloneCopy(f)
    BY <1>1 DEF Copy!rcloneCopy, Copy!bucket, Copy!history, Recoverable, Databases, Related, Whole
  <1>2. CASE Copy!encode(f)
    BY <1>2 DEF Copy!encode, Copy!NoDatabase, Copy!bucket, Recoverable, Databases, Related, Whole
  <1>3. CASE Copy!insertSong(f)
    BY <1>3 DEF Copy!insertSong, Copy!NoDatabase, Copy!bucket, Copy!history, Recoverable, Databases, Related, Whole
  <1>4. CASE Copy!DeleteSong(f)
    BY <1>4 DEF Copy!DeleteSong, Copy!bucket, Copy!history, Recoverable, Databases, Related, Whole
  <1>5. CASE Copy!Age(f)
    BY <1>5 DEF Copy!Age, Copy!bucket, Copy!history, Recoverable, Databases, Related, Whole
  <1>6. CASE Copy!syncFile(f)
    BY <1>6 DEF Copy!syncFile, Copy!volume, Copy!history, Recoverable, Databases, Related, Whole
  <1> QED
    BY <1>1, <1>2, <1>3, <1>4, <1>5, <1>6

LEMMA RecoverableStep == Recoverable /\ [Copy!Next]_(Copy!vars) => Recoverable'
  <1> SUFFICES ASSUME Recoverable, [Copy!Next]_(Copy!vars) PROVE Recoverable'
    OBVIOUS
  <1>1. CASE UNCHANGED Copy!vars
    BY <1>1 DEF Copy!vars, Copy!volume, Copy!bucket, Copy!history, Recoverable, Databases, Related, Whole
  <1> QED
    BY <1>1, RestoreKeeps, SidecarsKeep, SongsKeep DEF Copy!Next

LEMMA AlwaysRecoverable == Copy!Spec => []Recoverable
  BY RecoverableInit, RecoverableStep, PTL DEF Copy!Spec

(* Once the app runs, every song of its database whose file is in the bucket  *)
(* is on the volume, however many volumes were lost and restores failed,      *)
(* unless a copy of the files was cut short (restore.sh:32, README.md:244).   *)
THEOREM RecoveryAlwaysComplete == Copy!Spec => []RecoveryIsComplete
  <1>1. Recoverable => RecoveryIsComplete
    BY DEF Recoverable, Whole, RecoveryIsComplete, Copy!RecoveryIsComplete
  <1> QED
    BY <1>1, AlwaysRecoverable, PTL

(* No step replaces the bucket's database by an unrelated one                 *)
(* (restore.sh:5-7).                                                          *)
THEOREM BackupNeverReplaced == Copy!Spec => BackupIsNotReplaced
  <1>1. Recoverable /\ [Copy!Next]_(Copy!vars) => [Copy!BackupStays]_allVars
    <2> SUFFICES ASSUME Recoverable, [Copy!Next]_(Copy!vars), bucketDb # Copy!NoDatabase
                 PROVE  bucketDb'.deployment = bucketDb.deployment
      BY DEF Copy!BackupStays
    <2>1. CASE Copy!replicate
      BY <2>1 DEF Copy!replicate, Copy!NoDatabase, Recoverable, Databases, Related
    <2>2. CASE ~Copy!replicate
      <3>1. bucketDb' = bucketDb
        BY <2>2 DEF Copy!Next, Copy!vars, Copy!bucket, Copy!Up, Copy!restoreFails, Copy!restoreDatabase,
           Copy!restoreFiles, Copy!restored, Copy!Open, Copy!Down, Copy!loseVolume, Copy!rcloneCopy,
           Copy!encode, Copy!insertSong, Copy!DeleteSong, Copy!Age, Copy!syncFile
      <3> QED
        BY <3>1
    <2> QED
      BY <2>1, <2>2
  <1> QED
    BY <1>1, AlwaysRecoverable, PTL DEF Copy!Spec, BackupIsNotReplaced

LEMMA CopyTyped == Recoverable => Copy!TypeOK
  BY DEF Recoverable, Databases, Copy!TypeOK
-----------------------------------------------------------------------------
(* A header key is accepted at every interval, and lands on the accepted key  *)
(* there with the fewest accidentals, flats on a tie (transpose.go:128-130).  *)
THEOREM HeaderAlwaysSimplest == ExchangeSpec => HeaderIsSimplest
  <1>1. Tuned /\ [ExchangeNext]_allVars => [Score!HeaderLandsSimplest]_allVars
    <2> SUFFICES ASSUME Tuned, [ExchangeNext]_allVars PROVE Score!HeaderLandsSimplest
      OBVIOUS
    <2>1. CASE ~keyed
      BY <2>1, PartsStep, HeaderLands
    <2>2. CASE keyed
      BY <2>2 DEF Score!HeaderLandsSimplest
    <2> QED
      BY <2>1, <2>2
  <1> QED
    BY <1>1, ProductIsItsParts, AlwaysTuned, PTL DEF ExchangeSpec, HeaderIsSimplest

(* In the product every part keeps its types: the client, the forms, the      *)
(* lookup's answer, the score and the volume with its bucket.                 *)
THEOREM ExchangeTypesCorrect == ExchangeSpec => []ExchangeTypeOK
  <1>1. Filled => Form!TypeOK
    BY DEF Filled
  <1>2. Exchanged => TypeOK
    BY DEF Exchanged
  <1>3. TypeOK /\ Form!TypeOK /\ Match!TypeOK /\ Score!TypeOK /\ Copy!TypeOK => ExchangeTypeOK
    BY DEF ExchangeTypeOK
  <1> QED
    BY <1>1, <1>2, <1>3, ProductIsItsParts, AlwaysExchanged, AlwaysFilled, AlwaysLooked, MatchTyped,
       AlwaysTuned, ScoreTyped, AlwaysRecoverable, CopyTyped, PTL
=============================================================================
