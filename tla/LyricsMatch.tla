----------------------------- MODULE LyricsMatch -----------------------------
(* Which lyrics a lookup offers, and when it fills them in unasked            *)
(* (internal/lyrics/lookup.go: Lookup, enrich, findLyrics, applyLyrics).      *)
(* Candidates are taken in the order of their scores; at each one the         *)
(* metadata and the lyrics service may answer, fail, or outlast the deadline. *)
EXTENDS Integers, Sequences, FiniteSets

CONSTANTS
    Recordings,     \* ids AcoustID may name, as numbers
    Scores,         \* its scores, in hundredths
    MaxCandidates, SureScore, ClearLead      \* 3, 90 and 5

Numbers == /\ Recordings \cup Scores \cup {MaxCandidates, SureScore, ClearLead} \subseteq Nat
           /\ IsFiniteSet(Recordings) /\ MaxCandidates > 0

VARIABLES
    step,       \* "identify", "enrich", "exact", "search", "shown", "failed"
    cands,      \* the candidates
    i,          \* the one being looked up
    truth,      \* what the services said of each, in all (history)
    autoSelect  \* the candidate filled in unasked, 0 for none
vars == <<step, cands, i, truth, autoSelect>>

Candidate == [id : Recordings, score : Scores, ambiguous : BOOLEAN, version : BOOLEAN,
              words : BOOLEAN, warned : BOOLEAN]
\* lengthOff: MusicBrainz disagrees on the length; matches: lyric records that fit.
Truth == [lengthOff : BOOLEAN, version : BOOLEAN, matches : 0..2, text : BOOLEAN, failed : BOOLEAN]
Unknown == [lengthOff |-> FALSE, version |-> FALSE, matches |-> 0, text |-> FALSE, failed |-> FALSE]

Init == step = "identify" /\ cands = << >> /\ i = 1 /\ truth = << >> /\ autoSelect = 0
-----------------------------------------------------------------------------
\* Each recording once, with the best of its scores; best first, ties by id.
Before(found, a, b) == found[a] > found[b] \/ (found[a] = found[b] /\ a < b)
Place(found, r) == Cardinality({q \in DOMAIN found : q = r \/ Before(found, q, r)})
Found(r, score) == [id |-> r, score |-> score, ambiguous |-> FALSE, version |-> FALSE,
                    words |-> FALSE, warned |-> FALSE]
Ranked(found) == [k \in 1..Cardinality(DOMAIN found) |->
    LET r == CHOOSE r \in DOMAIN found : Place(found, r) = k IN Found(r, found[r])]

\* The first, if it is sure, clear of the second, and alone in having reliable words.
select(cs) ==
    IF /\ cs # << >> /\ cs[1].score >= SureScore
       /\ Len(cs) > 1 => cs[1].score - cs[2].score >= ClearLead
       /\ {k \in DOMAIN cs : cs[k].words /\ ~cs[k].ambiguous} = {1}
    THEN 1 ELSE 0

\* On to the next candidate, or to the answer.
Proceed(cs, ts) ==
    /\ cands' = cs /\ truth' = ts
    /\ IF i < Len(cs) THEN step' = "enrich" /\ i' = i + 1 /\ UNCHANGED autoSelect
       ELSE step' = "shown" /\ autoSelect' = select(cs) /\ UNCHANGED i

identify(found) ==
    /\ step = "identify"
    /\ LET ranked == Ranked(found)
           cs == SubSeq(ranked, 1, IF Len(ranked) > MaxCandidates THEN MaxCandidates ELSE Len(ranked)) IN
         /\ cands' = cs /\ truth' = [k \in DOMAIN cs |-> Unknown]
         /\ step' = IF cs = << >> THEN "shown" ELSE "enrich"
    /\ UNCHANGED <<i, autoSelect>>

\* A provider that errs or refuses: the candidate stays, marked and announced.
unavailable ==
    Proceed([cands EXCEPT ![i].ambiguous = TRUE, ![i].warned = TRUE],
            [truth EXCEPT ![i].failed = TRUE])

enrichFails == step = "enrich" /\ unavailable

enrich(version, lengthOff) ==
    /\ step = "enrich" /\ step' = "exact"
    /\ cands' = [cands EXCEPT ![i].version = version, ![i].ambiguous = lengthOff]
    /\ truth' = [truth EXCEPT ![i].version = version, ![i].lengthOff = lengthOff]
    /\ UNCHANGED <<i, autoSelect>>

\* Plain or synced words, no words, an instrumental, or more than can be edited.
Texts == {"words", "none", "instrumental", "too_long"}

applyLyrics(c, text, matches) ==
    IF text = "too_long"
    THEN Proceed([cands EXCEPT ![i] = [c EXCEPT !.ambiguous = TRUE, !.warned = TRUE]],
                 [truth EXCEPT ![i].failed = TRUE, ![i].matches = matches])
    ELSE Proceed([cands EXCEPT ![i] = [c EXCEPT !.words = text = "words"]],
                 [truth EXCEPT ![i].text = text = "words", ![i].matches = matches])

findLyricsFails == step \in {"exact", "search"} /\ unavailable

\* The record LRCLIB returns for title, artist, album and length does match.
exactMatches(text) ==
    /\ step = "exact"
    /\ applyLyrics([cands[i] EXCEPT !.ambiguous = @ \/ cands[i].version], text, 1)

\* It has none, or one that does not match.
exactMisses ==
    /\ step = "exact" /\ step' = "search"
    /\ UNCHANGED <<cands, i, truth, autoSelect>>

searchFinds_Forgets(n, text) ==
    /\ step = "search" /\ n > 0
    /\ applyLyrics([cands[i] EXCEPT !.ambiguous = n > 1 \/ cands[i].version], text, n)

searchFinds(n, text) ==
    /\ step = "search" /\ n > 0
    /\ applyLyrics([cands[i] EXCEPT !.ambiguous = @ \/ n > 1 \/ cands[i].version], text, n)

searchEmpty == step = "search" /\ Proceed(cands, truth)

\* The deadline, or an error of AcoustID: no result at all.
giveUp ==
    /\ step \notin {"shown", "failed"} /\ step' = "failed"
    /\ UNCHANGED <<cands, i, truth, autoSelect>>

Next ==
    \/ \E R \in SUBSET Recordings : \E found \in [R -> Scores] : identify(found)
    \/ enrichFails \/ findLyricsFails \/ exactMisses \/ searchEmpty \/ giveUp
    \/ \E version, lengthOff \in BOOLEAN : enrich(version, lengthOff)
    \/ \E text \in Texts : exactMatches(text) \/ \E n \in 1..2 : searchFinds(n, text)

Spec == Init /\ [][Next]_vars
-----------------------------------------------------------------------------
TypeOK ==
    /\ step \in {"identify", "enrich", "exact", "search", "shown", "failed"}
    /\ Len(cands) <= MaxCandidates /\ \A k \in DOMAIN cands : cands[k] \in Candidate
    /\ DOMAIN truth = DOMAIN cands /\ \A k \in DOMAIN truth : truth[k] \in Truth
    /\ i \in 1..MaxCandidates
    /\ autoSelect \in 0..1

\* Words are filled in unasked only when they are the words: one lyric record
\* fits the recording, no service disputes its version or length, no other
\* candidate comes near its score, and no other has words as reliable. And a
\* service that failed is never taken for one that knew nothing, neither for
\* the chosen candidate nor for the others.
AnswerIsHonest ==
    /\ autoSelect = 1 =>
         /\ truth[1] = [Unknown EXCEPT !.matches = 1, !.text = TRUE]
         /\ \A k \in DOMAIN cands \ {1} :
              /\ cands[k].score <= cands[1].score - ClearLead
              /\ truth[k].text => truth[k].version \/ truth[k].lengthOff \/ truth[k].matches > 1
    /\ step = "shown" =>
         \A k \in DOMAIN cands : truth[k].failed => cands[k].ambiguous /\ cands[k].warned
=============================================================================
