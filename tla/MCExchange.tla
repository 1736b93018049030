----------------------------- MODULE MCExchange -----------------------------
(* Small values for the five parts of Exchange.                               *)
EXTENDS Exchange, MCRunPodClient

CONSTANTS song1, song2

\* One number outside every limit, one inside; 0 and the bounds are in the guards.
MCSeeds == {-1, 7}
MCDurations == {9, 30}
MCTempos == {19, 90}
MCKeyShifts == {0, 1, 7}

\* One score below sure, two that are sure but too near each other, one clear.
MCRecordings == {1, 2, 3}
MCScores == {88, 91, 95, 97}

\* Every accepted key, one that is not (G sharp), and every interval.
\* E5 and E4 are a letter in two octaves; B4 is next to an octave's edge.
KeyOn(l, a, m) == [letter |-> l, alt |-> a, minor |-> m]
MCScoreKeys == {KeyOn(l, a, m) : l \in 0..6, a \in -1..1, m \in BOOLEAN}
MCIntervals == (-11..11) \ {0}
MCPositions == {30, 37, 34}

\* Where notes are followed: C minor down 11, F sharp up 1 and G up 6, which respell,
\* change letters and tie. Chords, and what ends a rewriting, are seen in every key.
MCMusic == {<<KeyOn(0, 0, TRUE), -11>>, <<KeyOn(0, 0, TRUE), 6>>, <<KeyOn(3, 1, FALSE), 1>>,
            <<KeyOn(4, 0, FALSE), 6>>, <<KeyOn(4, 0, FALSE), -5>>}

MCSongs == {song1, song2}
=============================================================================
