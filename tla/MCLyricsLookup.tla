--------------------------- MODULE MCLyricsLookup ---------------------------
EXTENDS LyricsLookup

CONSTANTS l1, l2
\* MusicBrainz asks for the longer spacing of the two.
MCInterval == [acoustid |-> 1, musicbrainz |-> 2]
=============================================================================
