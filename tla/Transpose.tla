------------------------------ MODULE Transpose ------------------------------
(* Moving an ABC score by a number of semitones: internal/abc/transpose.go.  *)
(* A score is the sequence of tokens the rewriter meets: key fields, bar     *)
(* lines (a new line of music counts as one), notes and chord symbols. A     *)
(* letter is its index in "CDEFGAB"; a position is letter + 7 * octave.      *)
(* Besides the rewriter the module keeps two readers of the score it writes: *)
(* one that lets a bar's accidental govern one octave (ABC 2.1) and one that *)
(* lets it govern its letter in every octave.                                *)
EXTENDS Integers

CONSTANTS
    ScoreKeys,      \* the keys the score's key fields may name
    Intervals,      \* the intervals, in semitones, the caller may ask for
    Positions,      \* the positions the score's notes may have
    NoAccidental    \* a note written without an accidental

Letters == 0..6
naturalPC == [l \in Letters |-> <<0, 2, 4, 5, 7, 9, 11>>[l + 1]]
MaxSemitones == 11
Alterations == -2..2

Pitches == /\ Intervals \subseteq -MaxSemitones..MaxSemitones
           /\ Positions \subseteq Int /\ NoAccidental \notin Alterations

(* The thirty keys the worker accepts: tonics as <<letter, alteration>>, from *)
(* seven flats to seven sharps.                                               *)
majorTonics == << <<0, -1>>, <<4, -1>>, <<1, -1>>, <<5, -1>>, <<2, -1>>, <<6, -1>>, <<3, 0>>, <<0, 0>>,
                  <<4, 0>>, <<1, 0>>, <<5, 0>>, <<2, 0>>, <<6, 0>>, <<3, 1>>, <<0, 1>> >>
minorTonics == << <<5, -1>>, <<2, -1>>, <<6, -1>>, <<3, 0>>, <<0, 0>>, <<4, 0>>, <<1, 0>>, <<5, 0>>,
                  <<2, 0>>, <<6, 0>>, <<3, 1>>, <<0, 1>>, <<4, 1>>, <<1, 1>>, <<5, 1>> >>
Key(tonic, minor) == [letter |-> tonic[1], alt |-> tonic[2], minor |-> minor]
AcceptedKeys == {Key(majorTonics[i], FALSE) : i \in 1..15} \cup {Key(minorTonics[i], TRUE) : i \in 1..15}
keySignature(k) == CHOOSE n \in -7..7 :
    <<k.letter, k.alt>> = IF k.minor THEN minorTonics[n + 8] ELSE majorTonics[n + 8]

sharpOrder == <<3, 0, 4, 1, 5, 2, 6>>   \* F C G D A E B
flatOrder  == <<6, 2, 5, 1, 4, 0, 3>>   \* B E A D G C F
signature(k) == LET n == keySignature(k) IN
    [l \in Letters |-> IF \E i \in 1..n : sharpOrder[i] = l THEN 1
                       ELSE IF \E i \in 1..(-n) : flatOrder[i] = l THEN -1 ELSE 0]

Abs(n) == IF n < 0 THEN -n ELSE n
wrapAlt(a) == ((a + 6) % 12) - 6
tonicPC(k) == naturalPC[k.letter] + k.alt

(* The key on letter l whose tonic has pitch class pc, alteration unbounded.  *)
Spelled(l, pc, minor) == [letter |-> l, alt |-> wrapAlt(pc - naturalPC[l]), minor |-> minor]

(* Accepted spellings of the moved tonic; the one with the fewest accidentals *)
(* wins, flats on a tie.                                                      *)
spellings(from, n) == {Spelled(l, tonicPC(from) + n, from.minor) : l \in Letters} \cap AcceptedKeys
Rank_Sharps(k) == LET n == keySignature(k) IN IF n <= 0 THEN -2 * n ELSE 2 * n - 1

Rank(k) == LET n == keySignature(k) IN IF n < 0 THEN -2 * n - 1 ELSE 2 * n
targetKey(from, n) == CHOOSE k \in spellings(from, n) : \A j \in spellings(from, n) : Rank(k) <= Rank(j)
(* The letter distance is known modulo 7: the count nearest the semitones.    *)
stepsBetween_Up(from, to, n) == (to.letter - from.letter) % 7

stepsBetween(from, to, n) == LET d == (to.letter - from.letter) % 7 IN
    CHOOSE s \in {d, d - 7, d + 7} : \A t \in {d, d - 7, d + 7} : Abs(12 * s - 7 * n) <= Abs(12 * t - 7 * n)
moveKey(k, by) == Spelled((k.letter + by.steps) % 7, tonicPC(k) + by.semitones, k.minor)
(* A chord root or bass <<letter, alteration>>: it moves by the same interval. *)
movePitch(p, by) == LET l == (p[1] + by.steps) % 7 IN
    <<l, wrapAlt(naturalPC[p[1]] + p[2] + by.semitones - naturalPC[l])>>

PitchOf(pos, alt) == naturalPC[pos % 7] + 12 * (pos \div 7) + alt
-----------------------------------------------------------------------------
VARIABLES
    keyed, iv, srcKey, dstKey, srcSig, dstSig, srcBar, dstTouched,  \* rewriter
    result,         \* "rewriting" until Transpose returns "ok" or an error
    strictBar,      \* position -> accidental written for it in this bar
    looseBar,       \* letter -> last accidental written for it in this bar
    heard           \* the last token written: the pitch it had, and what readers make of it
readers == <<strictBar, looseBar>>
keys == <<keyed, iv, srcKey, dstKey, srcSig, dstSig>>
vars == <<keys, srcBar, dstTouched, result, readers, heard>>

NoBar == [p \in {} |-> 0]
Marked(bar, p, alt) == [q \in DOMAIN bar \cup {p} |-> IF q = p THEN alt ELSE bar[q]]
Silence == [kind |-> "none"]
Flat == [l \in Letters |-> 0]
C == [letter |-> 0, alt |-> 0, minor |-> FALSE]

Init ==
    /\ keyed = FALSE /\ srcKey = C /\ dstKey = C /\ srcSig = Flat /\ dstSig = Flat
    /\ iv \in [semitones : Intervals, steps : {0}]
    /\ srcBar = NoBar /\ dstTouched = {} /\ result = "rewriting"
    /\ strictBar = NoBar /\ looseBar = NoBar /\ heard = Silence

(* Where the rewriter forgets a bar, so do the readers.                       *)
resetBar ==
    /\ srcBar' = NoBar /\ dstTouched' = {}
    /\ strictBar' = NoBar /\ looseBar' = NoBar

Fail(error) == result' = error /\ UNCHANGED <<keys, srcBar, dstTouched, readers, heard>>

EnterKey(k, to, interval) ==
    /\ keyed' = TRUE /\ iv' = interval
    /\ srcKey' = k /\ dstKey' = to
    /\ srcSig' = signature(k) /\ dstSig' = signature(to)
    /\ resetBar
    /\ heard' = Silence
    /\ UNCHANGED result

(* The header K: fixes the interval every later key, note and chord moves by. *)
headerKey(k) ==
    /\ result = "rewriting" /\ ~keyed
    /\ IF k \notin AcceptedKeys THEN Fail("unknown_key")
       ELSE IF spellings(k, iv.semitones) = {} THEN Fail("unsupported_key")
       ELSE LET to == targetKey(k, iv.semitones)
            IN EnterKey(k, to, [iv EXCEPT !.steps = stepsBetween(k, to, iv.semitones)])

(* A later K: line or an inline [K:...].                                      *)
changeKey(k) ==
    /\ result = "rewriting" /\ keyed
    /\ IF k \notin AcceptedKeys THEN Fail("unknown_key")
       ELSE IF moveKey(k, iv) \notin AcceptedKeys THEN Fail("unsupported_key")
       ELSE EnterKey(k, moveKey(k, iv), iv)

(* A bar line, or the start of a line of music.                               *)
bar ==
    /\ result = "rewriting" /\ keyed
    /\ resetBar
    /\ heard' = Silence
    /\ UNCHANGED <<keys, result>>

SourceAlt(pos, acc) == IF acc # NoAccidental THEN acc
                       ELSE IF pos \in DOMAIN srcBar THEN srcBar[pos] ELSE srcSig[pos % 7]

(* What a reader of the written note hears, given its bar so far.             *)
Hears(bar_, key_, pos, acc) ==
    PitchOf(pos, IF acc # NoAccidental THEN acc
                 ELSE IF key_ \in DOMAIN bar_ THEN bar_[key_] ELSE dstSig[pos % 7])

(* The accidental to write: when the key signature would not give the pitch,  *)
(* or when the letter already carried an accidental in this bar.              *)
Written_StrictOnly(alt, l) == IF alt # dstSig[l] THEN alt ELSE NoAccidental

Written(alt, l) == IF alt # dstSig[l] \/ l \in dstTouched THEN alt ELSE NoAccidental

note(pos, acc) ==
    LET src == PitchOf(pos, SourceAlt(pos, acc))
        pos2 == pos + iv.steps
        alt2 == src + iv.semitones - PitchOf(pos2, 0)
        l2 == pos2 % 7
        written == Written(alt2, l2)
    IN  /\ result = "rewriting" /\ keyed
        /\ IF alt2 \notin Alterations THEN Fail("unspellable")
           ELSE /\ srcBar' = IF acc # NoAccidental THEN Marked(srcBar, pos, acc) ELSE srcBar
                /\ IF written = NoAccidental THEN UNCHANGED <<dstTouched, readers>>
                   ELSE /\ dstTouched' = dstTouched \cup {l2}
                        /\ strictBar' = Marked(strictBar, pos2, written)
                        /\ looseBar' = Marked(looseBar, l2, written)
                /\ heard' = [kind |-> "note", was |-> src,
                             strict |-> Hears(strictBar, pos2, pos2, written),
                             loose |-> Hears(looseBar, l2, pos2, written)]
                /\ UNCHANGED <<keys, result>>

(* A chord symbol, its bass the root when none is named; quality is copied.   *)
chord(root, bass) ==
    LET moved == <<movePitch(root, iv), movePitch(bass, iv)>>
    IN  /\ result = "rewriting" /\ keyed
        /\ IF \E i \in 1..2 : moved[i][2] \notin Alterations THEN Fail("unspellable")
           ELSE /\ heard' = [kind |-> "chord", was |-> <<root, bass>>, moved |-> moved]
                /\ UNCHANGED <<keys, srcBar, dstTouched, result, readers>>

(* The last line: a score without a key field is refused.                     *)
finish ==
    /\ result = "rewriting"
    /\ result' = IF keyed THEN "ok" ELSE "no_key_field"
    /\ UNCHANGED <<keys, srcBar, dstTouched, readers, heard>>

Next ==
    \/ \E k \in ScoreKeys : headerKey(k) \/ changeKey(k)
    \/ bar
    \/ \E pos \in Positions, acc \in Alterations \cup {NoAccidental} : note(pos, acc)
    \/ \E p, q \in Positions, a \in Alterations : chord(<<p % 7, a>>, <<q % 7, 0>>)
    \/ finish

Spec == Init /\ [][Next]_vars
-----------------------------------------------------------------------------
TypeOK ==
    /\ keyed \in BOOLEAN
    /\ iv \in [semitones : Intervals, steps : -7..7]
    /\ srcSig \in [Letters -> -1..1] /\ dstSig \in [Letters -> -1..1]
    /\ DOMAIN srcBar \subseteq Positions /\ dstTouched \subseteq Letters
    /\ result \in {"rewriting", "ok", "no_key_field", "unknown_key", "unsupported_key", "unspellable"}

(* A note of the rewritten score sounds the requested number of semitones     *)
(* from where it was, to a reader who carries a bar's accidental in its own   *)
(* octave and to one who carries it in every octave (transpose.go:204-209). A *)
(* chord keeps its degree: a root or bass that belongs to the source key is   *)
(* written as the same degree of the destination key, and any other stays as  *)
(* far from its degree as it was (transpose.go:493-511).                      *)
HeardAsMoved ==
    /\ heard.kind = "note" => {heard.strict, heard.loose} = {heard.was + iv.semitones}
    /\ heard.kind = "chord" => \A i \in 1..2 :
         LET was == heard.was[i]  moved == heard.moved[i]
         IN  wrapAlt(moved[2] - dstSig[moved[1]]) = wrapAlt(was[2] - srcSig[was[1]])

(* The moved key is the same scale: on every position the destination's key   *)
(* signature sounds, iv.steps away, exactly what the source's does moved by   *)
(* the semitones, octave included, so a melody in the key needs no accidental *)
(* (the interval's two halves, steps and semitones, agree; later keys too).   *)
SameScale == keyed => \A pos \in 0..13 :
    PitchOf(pos + iv.steps, dstSig[(pos + iv.steps) % 7]) = PitchOf(pos, srcSig[pos % 7]) + iv.semitones

(* An accepted header key always has an accepted key at any allowed interval  *)
(* (only a later key change can be refused for want of a spelling). It lands  *)
(* on its own mode at the moved pitch, and no accepted key there has fewer    *)
(* accidentals, or as many in flats (transpose.go:128-130).                   *)
HeaderLandsSimplest ==
    ~keyed =>
        /\ result' # "unsupported_key"
        /\ keyed' =>
             LET there == {k \in AcceptedKeys : /\ k.minor = srcKey'.minor
                                                /\ (tonicPC(k) - tonicPC(srcKey') - iv.semitones) % 12 = 0}
             IN  /\ dstKey' \in there
                 /\ \A k \in there : LET n == keySignature(k)  best == keySignature(dstKey')
                                      IN Abs(best) < Abs(n) \/ (Abs(best) = Abs(n) /\ best <= n)
=============================================================================
