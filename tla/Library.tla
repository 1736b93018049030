------------------------------- MODULE Library -------------------------------
(* The library: who may read, share and delete a song, and the two            *)
(* sections that page through it (server/history.go, readableSong and         *)
(* handleAudio, over the songs table of internal/store/store.go). Songs are   *)
(* numbered in the order of their created_at. One reader walks a section page *)
(* by page, once, and one asks once for a song's audio, both while anyone     *)
(* changes the library.                                                       *)
(* Titles are left out: renaming a song moves it nowhere.                     *)
EXTENDS Integers, FiniteSets, Sequences, SequencesExt

CONSTANTS
    Users, Admins,
    MaxSongs,       \* bound: songs ever filed
    PageSize, MaxPage, MaxPageSize

\* history.go:16 and store.go:948, 20 and 100: the look-ahead row survives clampPage.
\* The model files no more songs than history.go:20's 10000 pages hold: of a longer
\* section, the last page would be shown again and again.
Sizes ==
    /\ Admins \subseteq Users
    /\ {PageSize, MaxPage, MaxPageSize, MaxSongs} \subseteq Nat \ {0}
    /\ PageSize < MaxPageSize
    /\ MaxSongs <= MaxPage * PageSize

Ids == 1..MaxSongs
Kinds == {"personal", "public"}

VARIABLES
    songs,      \* the songs table: id -> owner, shared
    last,       \* the newest id given out
    walk,       \* the reader of a section: where it is and what it saw (history)
    fetch       \* a request for a song's audio
vars == <<songs, last, walk, fetch>>

Resting == [at |-> "resting"]

Init ==
    /\ songs = [id \in {} |-> 0] /\ last = 0
    /\ walk = Resting /\ fetch = Resting

OwnedBy(id, u) == u \in Admins \/ songs[id].owner = u

\* ORDER BY created_at DESC: the place of id among ids, and who has each place.
Rank(ids, id) == Cardinality({j \in ids : j >= id})
Newest(ids) == [i \in 1..Cardinality(ids) |-> CHOOSE id \in ids : Rank(ids, id) = i]
-----------------------------------------------------------------------------
(* Pages.                                                                     *)
SectionOf(table, kind, u) ==
    {id \in DOMAIN table : IF kind = "public" THEN table[id].shared ELSE table[id].owner = u}
Section(kind, u) == SectionOf(songs, kind, u)

clampPage(limit, offset) == <<IF limit < 1 THEN 1 ELSE IF limit > MaxPageSize THEN MaxPageSize ELSE limit,
                              IF offset < 0 THEN 0 ELSE offset>>

\* The page a link or an address asks for.
pageParam(n) == IF n < 1 THEN 1 ELSE IF n > MaxPage THEN MaxPage ELSE n

\* PersonalSongs, PublicSongs: LIMIT and OFFSET over the section, newest first.
Rows(ids, limit, offset) ==
    LET w == clampPage(limit, offset)  all == Newest(ids)
    IN  SubSeq(all, w[2] + 1, IF w[1] + w[2] < Len(all) THEN w[1] + w[2] ELSE Len(all))

newSection_NoLookAhead(kind, u, page) ==
    LET found == Rows(Section(kind, u), PageSize, (page - 1) * PageSize)
    IN  [songs |-> found, hasNext |-> Len(found) > PageSize]

\* One row more than a page tells whether there is an older page; it is not shown.
newSection(kind, u, page) ==
    LET found == Rows(Section(kind, u), PageSize + 1, (page - 1) * PageSize)
    IN  [songs |-> IF Len(found) > PageSize THEN SubSeq(found, 1, PageSize) ELSE found,
         hasNext |-> Len(found) > PageSize]

\* The reader of walk w is shown a page of its section.
Shown(w, page) ==
    LET sec == newSection(w.kind, w.user, page)
    IN  [w EXCEPT !.page = page, !.seen = @ \o sec.songs,
                  !.at = IF sec.hasNext THEN "paging" ELSE "ended"]

\* handleHistory, at any page an address may name, and then the links to older
\* pages of one section.
handleHistory(u, kind, n) ==
    /\ walk = Resting
    /\ walk' = Shown([at |-> "paging", user |-> u, kind |-> kind, page |-> pageParam(n), seen |-> << >>,
                      stayed |-> IF pageParam(n) = 1 THEN Section(kind, u) ELSE {},
                      lost |-> FALSE, gained |-> FALSE], pageParam(n))
    /\ UNCHANGED <<songs, last, fetch>>

sectionFragment ==
    /\ walk.at = "paging"
    /\ walk' = Shown(walk, pageParam(walk.page + 1))
    /\ UNCHANGED <<songs, last, fetch>>

\* What a change of the table does to a walk under way.
Noticed ==
    walk' = IF walk.at # "paging" THEN walk
            ELSE LET now == Section(walk.kind, walk.user)  then == SectionOf(songs', walk.kind, walk.user) IN
                 [walk EXCEPT !.stayed = @ \cap then,
                              !.lost = @ \/ ~(now \subseteq then),
                              !.gained = @ \/ ~(then \subseteq now)]
-----------------------------------------------------------------------------
(* Changes. Each is one statement with the ownership test in it.              *)
CreateSong(u) ==
    /\ last < MaxSongs /\ last' = last + 1
    /\ songs' = [id \in DOMAIN songs \cup {last'} |->
                   IF id = last' THEN [owner |-> u, shared |-> FALSE] ELSE songs[id]]
    /\ Noticed /\ UNCHANGED fetch

SetSongPublic(u, id, public) ==
    /\ id \in DOMAIN songs /\ OwnedBy(id, u)
    /\ songs' = [songs EXCEPT ![id].shared = public]
    /\ Noticed /\ UNCHANGED <<last, fetch>>

DeleteSong(u, id) ==
    /\ id \in DOMAIN songs /\ OwnedBy(id, u)
    /\ songs' = [i \in DOMAIN songs \ {id} |-> songs[i]]
    /\ Noticed /\ UNCHANGED <<last, fetch>>
-----------------------------------------------------------------------------
(* handleAudio: readableSong's two reads, then the file.                      *)
Entitled(u, id) == id \in DOMAIN songs /\ (OwnedBy(id, u) \/ songs[id].shared)

handleAudio(u, id) ==
    /\ fetch = Resting
    /\ fetch' = [at |-> "own", user |-> u, song |-> id, entitled |-> FALSE, always |-> TRUE]
    /\ UNCHANGED <<songs, last, walk>>

Found(to) ==
    LET ok == Entitled(fetch.user, fetch.song) IN
    /\ fetch' = [fetch EXCEPT !.at = to, !.entitled = @ \/ ok, !.always = @ /\ ok]
    /\ UNCHANGED <<songs, last, walk>>

\* Song: the caller's own, or any for an administrator.
Song ==
    /\ fetch.at = "own"
    /\ Found(IF fetch.song \in DOMAIN songs /\ OwnedBy(fetch.song, fetch.user) THEN "served" ELSE "public")

PublicSong_NoCheck ==
    /\ fetch.at = "public"
    /\ Found(IF fetch.song \in DOMAIN songs THEN "served" ELSE "refused")

\* PublicSong: not theirs, so only if it is shared.
PublicSong ==
    /\ fetch.at = "public"
    /\ Found(IF fetch.song \in DOMAIN songs /\ songs[fetch.song].shared THEN "served" ELSE "refused")

Next ==
    \/ \E u \in Users, kind \in Kinds, n \in 0..(MaxPage + 1) : handleHistory(u, kind, n)
    \/ sectionFragment
    \/ \E u \in Users : CreateSong(u)
    \/ \E u \in Users, id \in Ids : \/ \E public \in BOOLEAN : SetSongPublic(u, id, public)
                                    \/ DeleteSong(u, id)
    \/ \E u \in Users, id \in Ids : handleAudio(u, id)
    \/ Song \/ PublicSong

Spec == Init /\ [][Next]_vars
-----------------------------------------------------------------------------
TypeOK ==
    /\ DOMAIN songs \subseteq 1..last /\ last \in 0..MaxSongs
    /\ \A id \in DOMAIN songs : songs[id] \in [owner : Users, shared : BOOLEAN]
    /\ walk # Resting => /\ walk.at \in {"paging", "ended"} /\ walk.page \in 1..MaxPage
                         /\ walk.seen \in Seq(Ids) /\ walk.stayed \subseteq Ids
    /\ fetch # Resting => fetch.at \in {"own", "public", "served", "refused"}

\* Reading a section from its first page to its last shows every song that was in
\* it all the time, unless some song left it meanwhile and moved the others up, and
\* shows none twice, unless one came in meanwhile and moved others down: the last
\* page is where the songs end (history.go:104-106).
WalkIsExact ==
    /\ walk.at = "ended" /\ ~walk.lost => walk.stayed \subseteq ToSet(walk.seen)
    /\ walk.at # "resting" /\ ~walk.gained => IsInjective(walk.seen)

\* Audio goes to its owner, to an administrator, or while the song is shared;
\* a song unshared between the two reads is not served on the strength of the
\* first, and nobody who was entitled at both is refused (access.go:452-460).
ServedToTheEntitled ==
    /\ fetch.at = "served" => fetch.entitled
    /\ fetch.at = "refused" => ~fetch.always
=============================================================================
