--------------------------- MODULE AssistantProofs ---------------------------
(* What a caller of the assistant is given, and what it is told: first the    *)
(* places in a sequence, then the parsers, then the exchange with the gateway.*)
EXTENDS Assistant, FiniteSetTheorems, SequenceTheorems, TLAPS

\* The n-th of a set of places is one of them.
LEMMA NthIn ==
  ASSUME NEW N \in Nat, NEW K \in SUBSET (1..N)
  PROVE  /\ Cardinality(K) \in Nat
         /\ K = {} <=> Cardinality(K) = 0
         /\ \A n \in 1..Cardinality(K) : Nth(K, n) \in K /\ Cardinality({j \in K : j <= Nth(K, n)}) = n
  <1> DEFINE c == Cardinality(K)
             Upto(k) == {j \in K : j <= k}
             f == [k \in K |-> Cardinality(Upto(k))]
  <1>1. IsFiniteSet(K) /\ c \in Nat /\ (K = {} <=> c = 0)
    <2>1. IsFiniteSet(1..N)
      BY FS_Interval
    <2>2. IsFiniteSet(K)
      BY <2>1, FS_Subset
    <2> QED
      BY <2>2, FS_CardinalityType, FS_EmptySet
  <1>2. ASSUME NEW k \in K
        PROVE  IsFiniteSet(Upto(k)) /\ Cardinality(Upto(k)) \in 1..c
    <2>1. IsFiniteSet(Upto(k)) /\ Cardinality(Upto(k)) <= c
      BY <1>1, FS_Subset
    <2>2. k \in Upto(k)
      OBVIOUS
    <2>3. Cardinality(Upto(k)) \in Nat /\ Cardinality(Upto(k)) # 0
      BY <2>1, <2>2, FS_CardinalityType, FS_EmptySet
    <2> QED
      BY <1>1, <2>1, <2>3
  <1>3. ASSUME NEW a \in K, NEW b \in K, a < b
        PROVE  Cardinality(Upto(a)) < Cardinality(Upto(b))
    <2>1. Upto(a) \in SUBSET Upto(b) /\ Upto(a) # Upto(b)
      <3>1. \A j \in Upto(a) : j \in Upto(b)
        BY <1>3
      <3>2. b \in Upto(b) /\ b \notin Upto(a)
        BY <1>3
      <3> QED
        BY <3>1, <3>2
    <2>2. Cardinality(Upto(a)) <= Cardinality(Upto(b)) /\ Cardinality(Upto(a)) # Cardinality(Upto(b))
      BY <1>2, <2>1, FS_Subset
    <2>3. Cardinality(Upto(a)) \in Int /\ Cardinality(Upto(b)) \in Int
      BY <1>2
    <2> QED
      BY <2>2, <2>3
  <1>4. f \in Injection(K, 1..c)
    <2>1. f \in [K -> 1..c]
      BY <1>2
    <2>2. ASSUME NEW a \in K, NEW b \in K, f[a] = f[b] PROVE a = b
      <3>1. f[a] \in Int /\ f[b] \in Int /\ a \in Int /\ b \in Int
        BY <1>2
      <3> QED
        BY <1>3, <2>2, <3>1
    <2> QED
      BY <2>1, <2>2 DEF Injection, IsInjective
  <1>5. f \in Surjection(K, 1..c)
    <2>1. IsFiniteSet(1..c) /\ Cardinality(1..c) = c
      BY <1>1, FS_Interval
    <2> QED
      BY <1>1, <1>4, <2>1, FS_Injection
  <1>6. ASSUME NEW n \in 1..c
        PROVE  Nth(K, n) \in K /\ Cardinality(Upto(Nth(K, n))) = n
    <2>1. \E k \in K : f[k] = n
      <3> HIDE DEF f
      <3> QED
        BY <1>5 DEF Surjection
    <2>2. \E k \in K : Cardinality(Upto(k)) = n
      BY <2>1
    <2> QED
      BY <2>2 DEF Nth
  <1> QED
    BY <1>1, <1>6

\* The first n places are in their order already.
LEMMA NthOfAll ==
  ASSUME NEW N \in Nat, NEW n \in 1..N
  PROVE  Cardinality(1..N) = N /\ Nth(1..N, n) = n
  <1>1. Cardinality(1..N) = N
    BY FS_Interval
  <1>2. Nth(1..N, n) \in 1..N /\ Cardinality({j \in 1..N : j <= Nth(1..N, n)}) = n
    BY <1>1, NthIn
  <1>3. \A k \in 1..N : {j \in 1..N : j <= k} = 1..k
    OBVIOUS
  <1>4. \A k \in 1..N : Cardinality(1..k) = k
    BY FS_Interval
  <1> QED
    BY <1>1, <1>2, <1>3, <1>4

LEMMA FirstLast ==
  ASSUME NEW N \in Nat, NEW K \in SUBSET (1..N), K # {}
  PROVE  First(K) \in K /\ Last(K) \in K
  <1>1. Cardinality(K) \in Nat /\ Cardinality(K) # 0
    BY NthIn
  <1>2. 1 \in 1..Cardinality(K) /\ Cardinality(K) \in 1..Cardinality(K)
    BY <1>1
  <1> QED
    BY <1>2, NthIn DEF First, Last

LEMMA OnlyIn ==
  ASSUME NEW S, NEW s \in Seq(S), NEW K \in SUBSET DOMAIN s, NEW T, \A k \in K : s[k] \in T
  PROVE  Only(s, K) \in Seq(T)
  <1>1. Len(s) \in Nat /\ K \in SUBSET (1..Len(s))
    BY LenProperties
  <1>2. Cardinality(K) \in Nat /\ \A n \in 1..Cardinality(K) : Nth(K, n) \in K
    BY <1>1, NthIn
  <1>3. Only(s, K) \in [1..Cardinality(K) -> T]
    BY <1>2 DEF Only
  <1> QED
    BY <1>2, <1>3

LEMMA SubSeqIn ==
  ASSUME NEW S, NEW s \in Seq(S), NEW a \in Int, NEW b \in Int, a >= 1, b <= Len(s)
  PROVE  SubSeq(s, a, b) \in Seq(S)
  <1>1. \A i \in a..b : s[i] \in S
    BY LenProperties
  <1> QED
    BY <1>1, SubSeqProperties

LEMMA IsPlaces ==
  ASSUME NEW S, NEW s \in Seq(S), NEW what
  PROVE  Len(s) \in Nat /\ Is(s, what) \in SUBSET (1..Len(s))
  BY LenProperties DEF Is
-----------------------------------------------------------------------------
(* The parsers find nothing the model thought.                                *)
Piece == [is : STRING \ {"none"}, thought : BOOLEAN]
Spoken == {p \in Piece : ~p.thought}

Tagged(s) == s \in Seq(Piece) /\ \A n \in DOMAIN s : s[n].thought => Hidden(s, n) \/ Closes(s, n)

LEMMA StripSpoken ==
  ASSUME NEW s, Tagged(s)
  PROVE  stripThinking(s) \in Seq(Spoken)
  <1> DEFINE K == {k \in DOMAIN s : ~Hidden(s, k) /\ ~Closes(s, k)}
  <1>1. s \in Seq(Piece) /\ K \in SUBSET DOMAIN s
    BY DEF Tagged
  <1>2. \A k \in K : s[k] \in Spoken
    BY LenProperties DEF Tagged, Spoken
  <1> HIDE DEF K
  <1>3. Only(s, K) \in Seq(Spoken)
    BY <1>1, <1>2, OnlyIn
  <1> QED
    BY <1>3 DEF stripThinking, K

LEMMA FencesSpoken ==
  ASSUME NEW c \in Seq(Spoken)
  PROVE  stripFences(c) \in Seq(Spoken)
  <1> DEFINE K == DOMAIN c \ Is(c, {"fence"})
  <1>1. \A k \in K : c[k] \in Spoken
    BY LenProperties
  <1>2. K \in SUBSET DOMAIN c
    OBVIOUS
  <1> HIDE DEF K
  <1>3. Only(c, K) \in Seq(Spoken)
    BY <1>1, <1>2, OnlyIn
  <1> QED
    BY <1>3 DEF stripFences, K

LEMMA ObjectSpoken ==
  ASSUME NEW c \in Seq(Spoken)
  PROVE  tryParseDraftJSON(c) \in Seq(Spoken)
  BY DEF tryParseDraftJSON

LEMMA BracedSpoken ==
  ASSUME NEW c \in Seq(Spoken)
  PROVE  Braced(c) \in Seq(Spoken)
  <1> DEFINE opens == Is(c, {"lbrace", "bare"})
             closes == Is(c, {"rbrace"})
  <1>1. Len(c) \in Nat /\ opens \in SUBSET (1..Len(c)) /\ closes \in SUBSET (1..Len(c))
    BY IsPlaces
  <1> HIDE DEF opens, closes
  <1>2. CASE opens = {} \/ closes = {}
    BY <1>2 DEF Braced, opens, closes
  <1>3. CASE opens # {} /\ closes # {}
    <2>1. First(opens) \in 1..Len(c) /\ Last(closes) \in 1..Len(c)
      BY <1>1, <1>3, FirstLast
    <2>2. SubSeq(c, First(opens), Last(closes)) \in Seq(Spoken)
      BY <1>1, <2>1, SubSeqIn
    <2> QED
      BY <1>3, <2>2 DEF Braced, opens, closes
  <1> QED
    BY <1>2, <1>3

LEMMA DraftSpoken ==
  ASSUME NEW s, Tagged(s)
  PROVE  ParseDraft(s) \in Seq(Spoken)
  <1> DEFINE c == stripThinking(s)
             f == Is(c, {"fence"})
             Fenced(k) == tryParseDraftJSON(SubSeq(c, Nth(f, 2 * k - 1) + 1, Nth(f, 2 * k) - 1))
             valid == {k \in 1..(Cardinality(f) \div 2) : Fenced(k) # << >>}
             tail == IF f = {} THEN << >> ELSE tryParseDraftJSON(Braced(SubSeq(c, Last(f) + 1, Len(c))))
             bare == tryParseDraftJSON(Braced(c))
  <1>1. c \in Seq(Spoken)
    BY StripSpoken
  <1>2. Len(c) \in Nat /\ f \in SUBSET (1..Len(c))
    BY <1>1, IsPlaces
  <1>3. ParseDraft(s) = IF valid # {} THEN Fenced(Last(valid)) ELSE IF tail # << >> THEN tail ELSE bare
    BY DEF ParseDraft
  <1> HIDE DEF c, f
  <1>4. Cardinality(f) \in Nat /\ \A n \in 1..Cardinality(f) : Nth(f, n) \in f
    BY <1>2, NthIn
  <1>5. ASSUME NEW k \in 1..(Cardinality(f) \div 2) PROVE Fenced(k) \in Seq(Spoken)
    <2>1. 2 * k - 1 \in 1..Cardinality(f) /\ 2 * k \in 1..Cardinality(f)
      BY <1>4
    <2>2. Nth(f, 2 * k - 1) \in 1..Len(c) /\ Nth(f, 2 * k) \in 1..Len(c)
      BY <1>2, <1>4, <2>1
    <2>3. SubSeq(c, Nth(f, 2 * k - 1) + 1, Nth(f, 2 * k) - 1) \in Seq(Spoken)
      BY <1>1, <1>2, <2>2, SubSeqIn
    <2> QED
      BY <2>3, ObjectSpoken
  <1>6. valid # {} => Last(valid) \in 1..(Cardinality(f) \div 2)
    <2>1. Cardinality(f) \div 2 \in Nat /\ valid \in SUBSET (1..(Cardinality(f) \div 2))
      BY <1>4
    <2> HIDE DEF valid
    <2> QED
      BY <2>1, FirstLast
  <1>7. tail \in Seq(Spoken)
    <2>1. CASE f = {}
      BY <2>1
    <2>2. CASE f # {}
      <3>1. Last(f) \in 1..Len(c)
        BY <1>2, <2>2, FirstLast
      <3>2. SubSeq(c, Last(f) + 1, Len(c)) \in Seq(Spoken)
        BY <1>1, <1>2, <3>1, SubSeqIn
      <3> QED
        BY <2>2, <3>2, BracedSpoken, ObjectSpoken
    <2> QED
      BY <2>1, <2>2
  <1>8. bare \in Seq(Spoken)
    BY <1>1, BracedSpoken, ObjectSpoken
  <1> HIDE DEF valid, tail, bare, Fenced
  <1> QED
    BY <1>3, <1>5, <1>6, <1>7, <1>8

LEMMA PieceSpoken ==
  ASSUME NEW c \in Seq(Spoken), NEW n \in 1..Len(c)
  PROVE  <<c[n]>> \in Seq(Spoken)
  <1>1. c[n] \in Spoken
    BY ElementOfSeq
  <1> QED
    BY <1>1

LEMMA Yue2DraftSpoken ==
  ASSUME NEW s, Tagged(s)
  PROVE  ParseYue2Draft(s) \in Seq(Spoken)
  <1> DEFINE c == stripFences(stripThinking(s))
             Section(label) == LET at_ == Is(c, {label}) IN IF at_ = {} THEN << >> ELSE <<c[Last(at_)]>>
  <1>1. c \in Seq(Spoken)
    BY StripSpoken, FencesSpoken
  <1>2. ParseYue2Draft(s) = IF Section("STYLE") = << >> THEN << >>
          ELSE Section("STYLE") \o Section("LYRICS") \o Section("COT") \o Section("NOTES")
    BY DEF ParseYue2Draft
  <1> HIDE DEF c
  <1>3. ASSUME NEW label PROVE Section(label) \in Seq(Spoken)
    <2> DEFINE K == Is(c, {label})
    <2>1. Len(c) \in Nat /\ K \in SUBSET (1..Len(c))
      BY <1>1, IsPlaces
    <2> HIDE DEF K
    <2>2. K # {} => Last(K) \in 1..Len(c)
      BY <2>1, FirstLast
    <2>3. K # {} => <<c[Last(K)]>> \in Seq(Spoken)
      BY <1>1, <2>2, PieceSpoken
    <2> QED
      BY <2>3 DEF K
  <1> HIDE DEF Section
  <1>4. /\ Section("STYLE") \in Seq(Spoken) /\ Section("LYRICS") \in Seq(Spoken)
        /\ Section("COT") \in Seq(Spoken) /\ Section("NOTES") \in Seq(Spoken)
    BY <1>3
  <1>5. Section("STYLE") \o Section("LYRICS") \o Section("COT") \o Section("NOTES") \in Seq(Spoken)
    BY <1>4
  <1> QED
    BY <1>2, <1>5

LEMMA StyleSpoken ==
  ASSUME NEW s, Tagged(s)
  PROVE  ParseYue2Style(s) \in Seq(Spoken) /\ ParseMiniMaxStyle(s) \in Seq(Spoken)
  <1> DEFINE c == stripFences(stripThinking(s))
             one == Is(c, {"Global_Metadata"})
  <1>1. c \in Seq(Spoken)
    BY StripSpoken, FencesSpoken
  <1>2. Len(c) \in Nat /\ one \in SUBSET (1..Len(c))
    BY <1>1, IsPlaces
  <1>3. ParseYue2Style(s) = IF c = << >> THEN << >> ELSE <<c[1]>>
    BY DEF ParseYue2Style
  <1>4. ParseMiniMaxStyle(s) = << >> \/ (one # {} /\ ParseMiniMaxStyle(s) = SubSeq(c, First(one), Len(c)))
    <2>1. (\E i \in DOMAIN c : c[i].is = "Global_Metadata") => one # {}
      BY DEF Is
    <2> QED
      BY <2>1 DEF ParseMiniMaxStyle
  <1> HIDE DEF c, one
  <1>5. c # << >> => <<c[1]>> \in Seq(Spoken)
    <2>1. c # << >> => 1 \in 1..Len(c)
      BY <1>1, EmptySeq
    <2> QED
      BY <1>1, <2>1, PieceSpoken
  <1>6. one # {} => SubSeq(c, First(one), Len(c)) \in Seq(Spoken)
    <2>1. one # {} => First(one) \in 1..Len(c)
      BY <1>2, FirstLast
    <2> QED
      BY <1>1, <1>2, <2>1, SubSeqIn
  <1>7. ParseYue2Style(s) \in Seq(Spoken)
    BY <1>3, <1>5
  <1>8. ParseMiniMaxStyle(s) \in Seq(Spoken)
    <2>1. << >> \in Seq(Spoken)
      OBVIOUS
    <2> QED
      BY <1>4, <1>6, <2>1, Zenon
  <1> QED
    BY <1>7, <1>8

\* Whatever is asked and whatever came of the reply, thinking is not offered.
LEMMA ParseSpoken ==
  ASSUME NEW a, NEW s, Tagged(s)
  PROVE  /\ Parse(a, s) \in Seq(Spoken)
         /\ \A k \in DOMAIN Parse(a, s) : ~Parse(a, s)[k].thought
  <1>1. Parse(a, s) \in Seq(Spoken)
    BY DraftSpoken, Yue2DraftSpoken, StyleSpoken DEF Parse
  <1>2. \A p \in Seq(Spoken) : \A k \in DOMAIN p : ~p[k].thought
    BY LenProperties DEF Spoken
  <1> QED
    BY <1>1, <1>2
-----------------------------------------------------------------------------
(* What arrived, and what the client makes of it.                             *)

\* The chunks of the body: the pieces sent, then one that says why no more come,
\* then one that says nothing.
Stops == Chunk(NoText, "stop", FALSE, FALSE)
Cutoffs == {Chunk(NoText, "length", FALSE, FALSE), Chunk(NoText, "stop", TRUE, FALSE), Chunk(NoText, "none", FALSE, TRUE)}
           \cup {Chunk(NoText, "content_filter", refusal, FALSE) : refusal \in BOOLEAN}
Chunks == [text : Piece \cup {NoText}, reason : Reasons, refusal : BOOLEAN, error : BOOLEAN]

Arrived(b, n, r) ==
    /\ b \in Seq(Chunks) /\ n \in 0..Len(r) /\ n <= Len(b)
    /\ \A k \in 1..n : b[k] = Chunk(r[k], "none", FALSE, FALSE)
    /\ Len(b) > n => b[n + 1] \in Cutoffs \/ (b[n + 1] = Stops /\ n = Len(r))
    /\ \A k \in (n + 2)..Len(b) : b[k] = Empty
Received == Arrived(body, sent, reply)

\* What the answer said of its own end, if anything.
Concluding == IF Len(body) > sent THEN body[sent + 1] ELSE Empty

\* What a prefix of a reply shows is what its writer had finished thinking.
LEMMA PrefixTagged ==
  ASSUME NEW r, Tagged(r), NEW n \in 0..Len(r)
  PROVE  Tagged([i \in 1..n |-> r[i]])
  <1> DEFINE p == [i \in 1..n |-> r[i]]
  <1>1. Len(r) \in Nat /\ \A k \in 1..Len(r) : r[k] \in Piece
    BY LenProperties DEF Tagged
  <1>2. p \in [1..n -> Piece] /\ n \in Nat
    BY <1>1
  <1>3. p \in Seq(Piece) /\ DOMAIN p = 1..n
    BY <1>2
  <1>4. ASSUME NEW k \in 1..n, r[k].thought PROVE Hidden(p, k) \/ Closes(p, k)
    <2>1. Hidden(r, k) \/ Closes(r, k)
      BY <1>1, <1>4, LenProperties DEF Tagged
    <2>2. \A m \in 1..k : Hidden(r, m) => Hidden(p, m)
      BY <1>1 DEF Hidden
    <2>3. CASE Hidden(r, k)
      BY <2>2, <2>3
    <2>4. CASE Closes(r, k)
      <3>1. k - 1 \in 1..k /\ Hidden(r, k - 1) /\ r[k].is = "unthink" /\ k > 1
        BY <2>4 DEF Closes
      <3> QED
        BY <2>2, <3>1 DEF Closes
    <2> QED
      BY <2>1, <2>3, <2>4
  <1> QED
    BY <1>3, <1>4 DEF Tagged

\* The text of the body is what was sent of the reply.
LEMMA TextsAreSent ==
  ASSUME Received, Tagged(reply)
  PROVE  Texts(body) = [n \in 1..sent |-> reply[n]]
  <1> DEFINE t == [k \in DOMAIN body |-> body[k].text]
             K == {k \in DOMAIN body : body[k].text # NoText}
  <1>1. Len(reply) \in Nat /\ sent \in 0..Len(reply) /\ Len(body) \in Nat /\ DOMAIN body = 1..Len(body) /\ sent <= Len(body)
    BY LenProperties DEF Received, Arrived, Tagged
  <1>2. ASSUME NEW k \in 1..sent PROVE body[k].text = reply[k] /\ reply[k] # NoText
    <2>1. body[k] = Chunk(reply[k], "none", FALSE, FALSE)
      BY <1>2 DEF Received, Arrived
    <2>2. body[k].text = reply[k]
      BY <2>1 DEF Chunk
    <2>3. reply[k] \in Piece
      BY <1>1, <1>2, LenProperties DEF Tagged
    <2> QED
      BY <2>2, <2>3 DEF Piece, NoText
  <1>3. ASSUME NEW k \in (sent + 1)..Len(body) PROVE body[k].text = NoText
    <2>1. CASE k = sent + 1
      <3>1. body[k] \in Cutoffs \/ body[k] = Stops
        BY <1>1, <1>3, <2>1 DEF Received, Arrived
      <3>2. \A c \in Cutoffs : c.text = NoText
        BY DEF Cutoffs, Chunk
      <3> QED
        BY <3>1, <3>2 DEF Stops, Chunk
    <2>2. CASE k # sent + 1
      <3>1. k \in (sent + 2)..Len(body)
        BY <1>1, <1>3, <2>2
      <3> QED
        BY <3>1 DEF Received, Arrived, Empty, Chunk
    <2> QED
      BY <2>1, <2>2
  <1>4. K = 1..sent
    BY <1>1, <1>2, <1>3
  <1>5. Texts(body) = Only(t, 1..sent)
    BY <1>4 DEF Texts
  <1>6. Cardinality(1..sent) = sent /\ \A n \in 1..sent : Nth(1..sent, n) = n
    <2>1. sent \in Nat
      BY <1>1
    <2>2. Cardinality(1..sent) = sent
      BY <2>1, FS_Interval
    <2> QED
      BY <2>1, <2>2, NthOfAll
  <1>7. \A n \in 1..sent : t[n] = reply[n]
    BY <1>1, <1>2
  <1> HIDE DEF t
  <1> QED
    BY <1>5, <1>6, <1>7 DEF Only

\* Folding the chunks loses nothing of the one that concluded, and adds nothing.
LEMMA Folded ==
  ASSUME Received, Tagged(reply)
  PROVE  /\ foldSSE(body).content = [n \in 1..sent |-> reply[n]]
         /\ foldSSE(body).reason = Concluding.reason
         /\ foldSSE(body).refusal <=> Concluding.refusal
         /\ (\E k \in DOMAIN body : body[k].error) <=> Concluding.error
         /\ ~foldSSE(body).error
  <1> DEFINE reasons == {k \in DOMAIN body : body[k].reason # "none"}
  <1>1. Len(reply) \in Nat /\ sent \in Nat /\ Len(body) \in Nat /\ DOMAIN body = 1..Len(body) /\ sent <= Len(body)
    BY LenProperties DEF Received, Arrived, Tagged
  <1>2. ASSUME NEW k \in 1..Len(body), k # sent + 1
        PROVE  body[k].reason = "none" /\ ~body[k].refusal /\ ~body[k].error
    <2>1. k \in 1..sent \/ k \in (sent + 2)..Len(body)
      BY <1>1, <1>2
    <2>2. body[k] = Chunk(reply[k], "none", FALSE, FALSE) \/ body[k] = Empty
      BY <2>1 DEF Received, Arrived
    <2> QED
      BY <2>2 DEF Chunk, Empty
  <1>3. foldSSE(body) = [content |-> Texts(body), error |-> FALSE,
                         refusal |-> \E k \in DOMAIN body : body[k].refusal,
                         reason |-> IF reasons = {} THEN "none" ELSE body[Last(reasons)].reason]
    BY DEF foldSSE
  <1>4. /\ (IF reasons = {} THEN "none" ELSE body[Last(reasons)].reason) = Concluding.reason
        /\ (\E k \in DOMAIN body : body[k].refusal) <=> Concluding.refusal
        /\ (\E k \in DOMAIN body : body[k].error) <=> Concluding.error
    <2>1. CASE Len(body) > sent
      <3>1. sent + 1 \in 1..Len(body) /\ Concluding = body[sent + 1]
        BY <1>1, <2>1 DEF Concluding
      <3>2. reasons \in SUBSET {sent + 1} /\ (reasons = {} => body[sent + 1].reason = "none")
        BY <1>1, <1>2, <3>1
      <3>3. reasons # {} => Last(reasons) = sent + 1
        <4>1. reasons \in SUBSET (1..Len(body))
          BY <1>1
        <4> HIDE DEF reasons
        <4> QED
          BY <1>1, <3>2, <4>1, FirstLast
      <3>4. (\E k \in DOMAIN body : body[k].refusal) <=> body[sent + 1].refusal
        BY <1>1, <1>2, <3>1
      <3>5. (\E k \in DOMAIN body : body[k].error) <=> body[sent + 1].error
        BY <1>1, <1>2, <3>1
      <3> HIDE DEF reasons
      <3> QED
        BY <3>1, <3>2, <3>3, <3>4, <3>5
    <2>2. CASE ~(Len(body) > sent)
      <3>1. Concluding.reason = "none" /\ ~Concluding.refusal /\ ~Concluding.error
        BY <2>2 DEF Concluding, Empty, Chunk
      <3>2. \A k \in DOMAIN body : body[k].reason = "none" /\ ~body[k].refusal /\ ~body[k].error
        BY <1>1, <1>2, <2>2
      <3>3. reasons = {}
        BY <3>2
      <3> HIDE DEF reasons
      <3> QED
        BY <3>1, <3>2, <3>3
    <2> QED
      BY <2>1, <2>2
  <1> HIDE DEF reasons
  <1> QED
    BY <1>3, <1>4, TextsAreSent
-----------------------------------------------------------------------------
(* The exchange.                                                              *)

\* Every reply the deployment's model may finish is one its parser can read, or is
\* nothing but thinking.
Readable ==
    \A k \in Kinds, e \in Engines : \A r \in Replies[k][e] :
        Parse([kind |-> k, engine |-> e], r) # << >> \/ \A n \in DOMAIN r : r[n].thought

\* While a call is under way: what was asked and how much of the answer came.
Underway ==
    /\ ask \in [kind : Kinds, engine : Engines] /\ reply \in Replies[ask.kind][ask.engine]
    /\ outcome = "none"
    /\ Received
    /\ at = "posting" => body = << >> /\ sent = 0
    /\ at = "reading" => http \in Answers /\ ending \in {"open", "end", "cut"}

Relayed ==
    /\ at \in {"idle", "posting", "reading"} /\ attempt \in {0, 1}
    /\ at # "idle" => Underway

LEMMA ReplyTagged ==
  ASSUME Underway
  PROVE  Tagged(reply) /\ Len(reply) \in Nat /\ reply # << >>
  <1>1. ask.kind \in Kinds /\ ask.engine \in Engines /\ reply \in Replies[ask.kind][ask.engine]
    BY DEF Underway
  <1>2. /\ reply \in Seq(Piece) /\ reply # << >>
        /\ \A n \in DOMAIN reply : reply[n].thought => Hidden(reply, n) \/ Closes(reply, n)
    BY <1>1, ThoughtsAreTagged DEF Piece
  <1> QED
    BY <1>2, LenProperties DEF Tagged

LEMMA InitRelayed == Init => Relayed
  BY DEF Init, Relayed

LEMMA AskRelayed ==
  ASSUME Relayed, NEW k \in Kinds, NEW e \in Engines, Ask([kind |-> k, engine |-> e])
  PROVE  Relayed'
  <1> DEFINE a == [kind |-> k, engine |-> e]
  <1>1. /\ ask' = a /\ a \in [kind : Kinds, engine : Engines] /\ a.kind = k /\ a.engine = e
        /\ sent' = 0 /\ attempt' = 0 /\ body' = << >> /\ reply' \in Replies[k][e]
    BY DEF Ask
  <1>2. reply' \in Seq(Piece) /\ Len(reply') \in Nat
    BY <1>1, ThoughtsAreTagged, LenProperties DEF Piece
  <1>3. at' = "idle" \/ (at' = "posting" /\ outcome' = "none")
    BY DEF Ask, fails, answers
  <1>4. Received'
    <2>1. body' \in Seq(Chunks) /\ Len(body') = 0
      BY <1>1
    <2> QED
      BY <1>1, <1>2, <2>1 DEF Received, Arrived
  <1> QED
    BY <1>1, <1>3, <1>4 DEF Relayed, Underway

LEMMA BeginsRelayed ==
  ASSUME Relayed, NEW a \in Answers, Begins(a)
  PROVE  Relayed'
  <1>1. /\ Underway /\ at = "posting" /\ at' = "reading" /\ http' = a /\ attempt \in {0, 1}
        /\ ending' = (IF a \in {"sse", "json"} THEN "open" ELSE "end")
        /\ ask' = ask /\ reply' = reply /\ sent' = sent /\ body' = body /\ attempt' = attempt /\ outcome' = outcome
    BY DEF Begins, Relayed, call
  <1>2. Received'
    BY <1>1 DEF Underway, Received, Arrived
  <1>3. ending' \in {"open", "end", "cut"}
    BY <1>1
  <1> QED
    BY <1>1, <1>2, <1>3 DEF Relayed, Underway

\* Nothing has concluded what is still being written.
LEMMA WritingOpen ==
  ASSUME Underway, Writing
  PROVE  Len(body) = sent /\ body \in Seq(Chunks) /\ sent \in Nat
  <1>1. body \in Seq(Chunks) /\ Len(body) \in Nat /\ DOMAIN body = 1..Len(body) /\ Len(reply) \in Nat /\ sent \in Nat /\ sent <= Len(body)
    BY ReplyTagged, LenProperties DEF Underway, Received, Arrived
  <1>2. ASSUME Len(body) > sent PROVE FALSE
    <2>1. body[sent + 1] \in Cutoffs \/ body[sent + 1] = Stops
      BY <1>2 DEF Underway, Received, Arrived
    <2>2. \A c \in Cutoffs \cup {Stops} : c.reason # "none" \/ c.error
      BY DEF Cutoffs, Stops, Chunk
    <2>3. sent + 1 \in DOMAIN body
      BY <1>1, <1>2
    <2> QED
      BY <2>1, <2>2, <2>3 DEF Writing
  <1>3. Len(body) = sent
    <2>1. ~(Len(body) > sent) /\ Len(body) \in Nat /\ sent \in Nat /\ sent <= Len(body)
      BY <1>1, <1>2
    <2> QED
      BY <2>1
  <1> QED
    BY <1>1, <1>3

\* The chunk that comes next keeps the order of the chunks.
LEMMA ChunksAre ==
  /\ \A p \in Piece : Chunk(p, "none", FALSE, FALSE) \in Chunks
  /\ \A c \in Cutoffs : c \in Chunks
  /\ Stops \in Chunks /\ Empty \in Chunks
  <1>1. NoText \in Piece \cup {NoText}
    OBVIOUS
  <1>2. \A p \in Piece \cup {NoText}, reason \in Reasons, refusal \in BOOLEAN, error \in BOOLEAN :
          Chunk(p, reason, refusal, error) \in Chunks
    BY DEF Chunk, Chunks
  <1>3. "none" \in Reasons /\ "stop" \in Reasons /\ "length" \in Reasons /\ "content_filter" \in Reasons
        /\ TRUE \in BOOLEAN /\ FALSE \in BOOLEAN
    BY DEF Reasons
  <1> QED
    BY <1>1, <1>2, <1>3, Zenon DEF Cutoffs, Stops, Empty

LEMMA PieceArrives ==
  ASSUME NEW r \in Seq(Piece), NEW n \in Nat, NEW b, Arrived(b, n, r), Len(b) = n, n < Len(r)
  PROVE  Arrived(Append(b, Chunk(r[n + 1], "none", FALSE, FALSE)), n + 1, r)
  <1> DEFINE c == Chunk(r[n + 1], "none", FALSE, FALSE)
             d == Append(b, c)
  <1>1. Len(r) \in Nat /\ r[n + 1] \in Piece /\ b \in Seq(Chunks)
    BY LenProperties DEF Arrived
  <1>2. c \in Chunks
    BY <1>1, ChunksAre
  <1>3. \A k \in 1..n : b[k] = Chunk(r[k], "none", FALSE, FALSE)
    BY DEF Arrived
  <1>4. c = Chunk(r[n + 1], "none", FALSE, FALSE)
    OBVIOUS
  <1> HIDE DEF c
  <1>5. d \in Seq(Chunks) /\ Len(d) = n + 1 /\ d[n + 1] = c /\ \A k \in 1..n : d[k] = b[k]
    BY <1>1, <1>2, AppendProperties
  <1> HIDE DEF d
  <1>6. ASSUME NEW k \in 1..(n + 1) PROVE d[k] = Chunk(r[k], "none", FALSE, FALSE)
    <2>1. CASE k = n + 1
      BY <1>4, <1>5, <2>1
    <2>2. CASE k # n + 1
      <3>1. k \in 1..n
        BY <2>2
      <3> QED
        BY <1>3, <1>5, <3>1
    <2> QED
      BY <2>1, <2>2
  <1>7. n + 1 \in 0..Len(r) /\ n + 1 <= Len(d) /\ ~(Len(d) > n + 1) /\ (n + 1 + 2)..Len(d) = {}
    BY <1>1, <1>5
  <1>8. Arrived(d, n + 1, r)
    BY <1>5, <1>6, <1>7, Zenon DEF Arrived
  <1> QED
    BY <1>8 DEF c, d

LEMMA EndArrives ==
  ASSUME NEW r \in Seq(Piece), NEW n \in Nat, NEW b, Arrived(b, n, r),
         NEW c \in Chunks,
         IF Len(b) = n THEN c \in Cutoffs \/ (c = Stops /\ n = Len(r)) ELSE c = Empty
  PROVE  Arrived(Append(b, c), n, r)
  <1> DEFINE d == Append(b, c)
  <1>1. b \in Seq(Chunks) /\ Len(b) \in Nat /\ n \in 0..Len(r) /\ n <= Len(b)
    BY LenProperties DEF Arrived
  <1>2. d \in Seq(Chunks) /\ Len(d) = Len(b) + 1 /\ d[Len(b) + 1] = c /\ \A k \in 1..Len(b) : d[k] = b[k]
    BY <1>1, AppendProperties
  <1> HIDE DEF d
  <1>3. ASSUME NEW k \in 1..n PROVE d[k] = Chunk(r[k], "none", FALSE, FALSE)
    <2>1. k \in 1..Len(b)
      BY <1>1, <1>3
    <2>2. b[k] = Chunk(r[k], "none", FALSE, FALSE)
      BY <1>3 DEF Arrived
    <2> QED
      BY <1>2, <2>1, <2>2
  <1>4. d[n + 1] \in Cutoffs \/ (d[n + 1] = Stops /\ n = Len(r))
    <2>1. CASE Len(b) = n
      BY <1>2, <2>1
    <2>2. CASE Len(b) # n
      <3>1. Len(b) > n /\ n + 1 \in 1..Len(b)
        BY <1>1, <2>2
      <3>2. b[n + 1] \in Cutoffs \/ (b[n + 1] = Stops /\ n = Len(r))
        BY <3>1 DEF Arrived
      <3> QED
        BY <1>2, <3>1, <3>2
    <2> QED
      BY <2>1, <2>2
  <1>5. ASSUME NEW k \in (n + 2)..Len(d) PROVE d[k] = Empty
    <2>1. Len(b) # n /\ c = Empty
      BY <1>1, <1>2, <1>5
    <2>2. CASE k = Len(d)
      BY <1>2, <2>1, <2>2
    <2>3. CASE k # Len(d)
      <3>1. k \in (n + 2)..Len(b) /\ k \in 1..Len(b)
        BY <1>1, <1>2, <2>3
      <3>2. b[k] = Empty
        BY <3>1 DEF Arrived
      <3> QED
        BY <1>2, <3>1, <3>2
    <2> QED
      BY <2>2, <2>3
  <1>6. n <= Len(d)
    BY <1>1, <1>2
  <1>7. Arrived(d, n, r)
    BY <1>1, <1>2, <1>3, <1>4, <1>5, <1>6, Zenon DEF Arrived
  <1> QED
    BY <1>7 DEF d

LEMMA WritesRelayed ==
  ASSUME Relayed, Writes
  PROVE  Relayed'
  <1>1. /\ Underway /\ Writing /\ sent < Len(reply) /\ sent' = sent + 1 /\ attempt \in {0, 1}
        /\ body' = Append(body, Chunk(reply[sent + 1], "none", FALSE, FALSE))
        /\ at = "reading" /\ ending = "open" /\ UNCHANGED <<at, ask, reply, attempt, http, ending, outcome>>
    BY DEF Writes, Writing, Sends, Relayed, call
  <1>2. reply \in Seq(Piece) /\ Len(body) = sent /\ sent \in Nat
    BY <1>1, ReplyTagged, WritingOpen DEF Tagged
  <1>3. Received'
    BY <1>1, <1>2, PieceArrives DEF Underway, Received
  <1> QED
    BY <1>1, <1>3 DEF Relayed, Underway

LEMMA ConcludesRelayed ==
  ASSUME Relayed, Concludes
  PROVE  Relayed'
  <1>1. PICK c : Sends(c) /\ (c \in Cutoffs \/ (c = Stops /\ sent = Len(reply)))
    BY DEF Concludes, Cutoffs, Stops
  <1>2. /\ Underway /\ Writing /\ sent' = sent /\ body' = Append(body, c) /\ attempt \in {0, 1}
        /\ at = "reading" /\ ending = "open" /\ UNCHANGED <<at, ask, reply, attempt, http, ending, outcome>>
    BY <1>1 DEF Concludes, Writing, Sends, Relayed, call
  <1>3. reply \in Seq(Piece) /\ Len(body) = sent /\ sent \in Nat
    BY <1>2, ReplyTagged, WritingOpen DEF Tagged
  <1>4. c \in Chunks
    BY <1>1, ChunksAre
  <1>5. Received'
    BY <1>1, <1>2, <1>3, <1>4, EndArrives DEF Underway, Received
  <1> QED
    BY <1>2, <1>5 DEF Relayed, Underway

LEMMA EndsRelayed ==
  ASSUME Relayed, Ends
  PROVE  Relayed'
  <1>1. /\ Underway /\ at = "reading" /\ ending = "open" /\ attempt \in {0, 1}
        /\ UNCHANGED <<at, ask, reply, attempt, sent, http, outcome>>
    BY DEF Ends, Relayed, call
  <1>2. /\ Len(reply) \in Nat /\ body \in Seq(Chunks) /\ Len(body) \in Nat /\ DOMAIN body = 1..Len(body)
        /\ sent \in Nat /\ sent <= Len(body)
    BY <1>1, ReplyTagged, LenProperties DEF Underway, Received, Arrived
  <1>3. CASE ~Writing /\ body' = Append(body, Empty) /\ UNCHANGED ending
    <2>1. reply \in Seq(Piece) /\ Empty \in Chunks
      BY <1>1, ReplyTagged, ChunksAre DEF Tagged
    <2>2. Len(body) # sent
      <3>1. ASSUME NEW k \in 1..sent PROVE body[k].reason = "none" /\ ~body[k].error
        <4>1. body[k] = Chunk(reply[k], "none", FALSE, FALSE)
          BY <1>1 DEF Underway, Received, Arrived
        <4> QED
          BY <4>1 DEF Chunk
      <3> QED
        BY <1>1, <1>2, <1>3, <3>1 DEF Writing
    <2>3. Received'
      BY <1>1, <1>2, <1>3, <2>1, <2>2, EndArrives DEF Underway, Received
    <2> QED
      BY <1>1, <1>3, <2>3 DEF Relayed, Underway
  <1>4. CASE body' = body /\ ending' \in {"end", "cut"}
    <2>1. Received'
      BY <1>1, <1>4 DEF Underway, Received, Arrived
    <2> QED
      BY <1>1, <1>4, <2>1 DEF Relayed, Underway
  <1> QED
    BY <1>3, <1>4 DEF Ends

LEMMA StepRelayed == Relayed /\ [Next]_vars => Relayed'
  <1> SUFFICES ASSUME Relayed, [Next]_vars PROVE Relayed'
    OBVIOUS
  <1>1. CASE UNCHANGED vars
    BY <1>1 DEF vars, call, wire, Relayed, Underway, Received, Arrived
  <1>2. CASE doFails
    BY <1>2 DEF doFails, fails, answers, call, wire, Relayed, Underway, Received, Arrived
  <1>3. CASE complete
    <2>1. UNCHANGED <<call, attempt, left, wire>> /\ at' = "idle"
      <3>1. at = "reading" /\ Underway
        BY <1>3 DEF complete, Read, Relayed
      <3>2. http \in Answers
        BY <3>1 DEF Underway
      <3> QED
        BY <1>3, <3>2 DEF complete, fails, answers, Answers
    <2> QED
      BY <2>1 DEF Relayed, wire, call
  <1>4. CASE Tick \/ Disconnect
    BY <1>4 DEF Tick, Disconnect, call, wire, Relayed, Underway, Received, Arrived
  <1> QED
    BY <1>1, <1>2, <1>3, <1>4, AskRelayed, BeginsRelayed, WritesRelayed, ConcludesRelayed, EndsRelayed DEF Next

\* What the caller is handed of an answer that ended by itself and in time.
LEMMA AnswerHeard ==
  ASSUME Underway, at = "reading", ending = "end", http \in {"sse", "json"}
  PROVE  LET m == decodeChatResponse
             found == Parse(ask, m.content)
         IN  /\ m.reason = Concluding.reason
             /\ m.refusal <=> Concluding.refusal
             /\ m.error <=> (http = "json" /\ Concluding.error)
             /\ \A k \in DOMAIN found : ~found[k].thought
             /\ Readable /\ (Undecodable(m) \/ found = << >>) => sent < Len(reply) \/ \A k \in DOMAIN reply : reply[k].thought
  <1> DEFINE m == decodeChatResponse
             found == Parse(ask, m.content)
             p == [n \in 1..sent |-> reply[n]]
  <1>1. Received /\ sent \in 0..Len(reply)
    BY DEF Underway, Received, Arrived
  <1>2. Tagged(reply) /\ Len(reply) \in Nat /\ reply # << >>
    BY ReplyTagged
  <1>3. /\ foldSSE(body).content = p
        /\ foldSSE(body).reason = Concluding.reason
        /\ foldSSE(body).refusal <=> Concluding.refusal
        /\ (\E k \in DOMAIN body : body[k].error) <=> Concluding.error
        /\ ~foldSSE(body).error
    BY <1>1, <1>2, Folded
  <1>4. http = "sse" => m = foldSSE(body)
    BY DEF decodeChatResponse
  <1>5. http # "sse" => m = [foldSSE(body) EXCEPT !.error = \E k \in DOMAIN body : body[k].error]
    BY DEF decodeChatResponse
  <1>6. /\ m.content = foldSSE(body).content /\ m.reason = foldSSE(body).reason
        /\ m.refusal = foldSSE(body).refusal
        /\ m.error = (IF http = "sse" THEN foldSSE(body).error ELSE \E k \in DOMAIN body : body[k].error)
    <2>1. foldSSE(body) = [content |-> foldSSE(body).content, error |-> foldSSE(body).error,
                           refusal |-> foldSSE(body).refusal, reason |-> foldSSE(body).reason]
      BY DEF foldSSE
    <2> HIDE DEF m
    <2>2. CASE http = "sse"
      BY <1>4, <2>2
    <2>3. CASE http # "sse"
      BY <1>5, <2>1, <2>3
    <2> QED
      BY <2>2, <2>3
  <1>7. Tagged(p)
    BY <1>1, <1>2, PrefixTagged
  <1>8. \A k \in DOMAIN found : ~found[k].thought
    <2>1. found = Parse(ask, p)
      BY <1>3, <1>6
    <2> HIDE DEF p, found
    <2> QED
      BY <1>7, <2>1, ParseSpoken
  <1>9. sent = Len(reply) => p = reply
    BY <1>2 DEF Tagged
  <1>10. ASSUME sent = Len(reply) PROVE ~Undecodable(m)
    <2>1. m.content # << >>
      BY <1>2, <1>3, <1>6, <1>9, <1>10
    <2> QED
      BY <2>1 DEF Undecodable
  <1>11. ASSUME Readable, sent = Len(reply), found = << >> PROVE \A k \in DOMAIN reply : reply[k].thought
    <2>1. ask.kind \in Kinds /\ ask.engine \in Engines /\ ask = [kind |-> ask.kind, engine |-> ask.engine]
          /\ reply \in Replies[ask.kind][ask.engine]
      BY DEF Underway
    <2>2. Parse(ask, reply) = << >>
      BY <1>3, <1>6, <1>9, <1>11
    <2> QED
      BY <1>11, <2>1, <2>2 DEF Readable
  <1>12. Readable /\ (Undecodable(m) \/ found = << >>) => sent < Len(reply) \/ \A k \in DOMAIN reply : reply[k].thought
    BY <1>1, <1>2, <1>10, <1>11
  <1>13. m.error <=> (http = "json" /\ Concluding.error)
    BY <1>3, <1>6
  <1> HIDE DEF m, found, p
  <1> QED
    BY <1>3, <1>6, <1>8, <1>12, <1>13 DEF m, found

\* What the outcome says of a call; a parser can be blamed only for what it can read.
OutcomeTold == DraftIsTheAnswer /\ (Readable => OutcomeIsTrue)

LEMMA AnsweredTold ==
  ASSUME Underway, complete, ~Expired, ending = "end", http \in {"sse", "json"}, attempt \in {0, 1}
  PROVE  OutcomeTold'
  <1> DEFINE m == decodeChatResponse
             found == Parse(ask, m.content)
             last == Concluding
  <1>1. at = "reading" /\ UNCHANGED <<ask, reply, attempt, sent, http, body, ending>>
    BY DEF complete, Read, call, wire
  <1>2. /\ m.reason = last.reason
        /\ m.refusal <=> last.refusal
        /\ m.error <=> (http = "json" /\ last.error)
        /\ \A k \in DOMAIN found : ~found[k].thought
        /\ Readable /\ (Undecodable(m) \/ found = << >>) => sent < Len(reply) \/ \A k \in DOMAIN reply : reply[k].thought
    BY <1>1, AnswerHeard
  <1>3. IF Undecodable(m) THEN fails("unparseable")
        ELSE IF m.error THEN fails("unavailable")
        ELSE IF m.reason = "length" THEN fails("output-limit")
        ELSE IF m.reason = "content_filter" \/ m.refusal THEN fails("refused")
        ELSE IF found = << >> THEN fails("unparseable")
        ELSE answers("draft", found)
    <2>1. http # "429" /\ http # "5xx"
      OBVIOUS
    <2> QED
      BY <2>1 DEF complete
  <1>4. Received /\ sent \in Nat /\ Len(body) \in Nat /\ DOMAIN body = 1..Len(body) /\ sent <= Len(body)
    <2>1. Received /\ Len(reply) \in Nat
      BY <1>1, ReplyTagged DEF Underway
    <2>2. body \in Seq(Chunks) /\ sent \in 0..Len(reply) /\ sent <= Len(body)
      BY <2>1 DEF Received, Arrived
    <2>3. Len(body) \in Nat /\ DOMAIN body = 1..Len(body)
      BY <2>2, LenProperties
    <2> QED
      BY <2>1, <2>2, <2>3
  <1>5. last \in Cutoffs \/ (last = Stops /\ sent = Len(reply)) \/ last = Empty
    BY <1>4 DEF Received, Arrived, Concluding
  <1>6. /\ last.reason \in {"none", "stop", "length", "content_filter"}
        /\ last.reason = "stop" /\ ~last.refusal => sent = Len(reply)
        /\ last.reason = "length" => ~last.refusal
    <2>1. \A c \in Cutoffs : /\ c.reason \in {"none", "stop", "length", "content_filter"}
                             /\ c.reason = "stop" => c.refusal
                             /\ c.reason = "length" => ~c.refusal
      BY DEF Cutoffs, Chunk
    <2>2. Stops.reason = "stop" /\ Empty.reason = "none" /\ ~Stops.refusal /\ ~Empty.refusal
      BY DEF Stops, Empty, Chunk
    <2> HIDE DEF last
    <2> QED
      BY <1>5, <2>1, <2>2
  <1>7. ASSUME NEW k \in DOMAIN body
        PROVE  body[k] = last \/ (body[k].reason = "none" /\ ~body[k].refusal /\ ~body[k].error)
    <2>1. CASE k = sent + 1
      BY <1>4, <2>1 DEF Concluding
    <2>2. CASE k # sent + 1
      <3>1. k \in 1..sent \/ k \in (sent + 2)..Len(body)
        BY <1>4, <1>7, <2>2
      <3>2. body[k] = Chunk(reply[k], "none", FALSE, FALSE) \/ body[k] = Empty
        BY <1>4, <3>1 DEF Received, Arrived
      <3> QED
        BY <3>2 DEF Chunk, Empty
    <2> QED
      BY <2>1, <2>2
  <1> HIDE DEF m, found, last
  <1>8. DraftIsTheAnswer'
    <2>1. SUFFICES ASSUME outcome' = "draft"
                   PROVE  /\ draft' # << >> /\ \A k \in DOMAIN draft' : ~draft'[k].thought
                          /\ ending = "end"
                          /\ \A k \in DOMAIN body : /\ body[k].reason \in {"none", "stop"} /\ ~body[k].refusal
                                                   /\ body[k].error => http = "sse"
                          /\ sent = Len(reply) \/ \A k \in DOMAIN body : body[k].reason = "none"
      BY <1>1, Zenon DEF DraftIsTheAnswer
    <2>2. draft' = found /\ found # << >> /\ ~m.error /\ m.reason # "length" /\ m.reason # "content_filter" /\ ~m.refusal
      BY <1>3, <2>1 DEF fails, answers
    <2>3. last.reason \in {"none", "stop"} /\ ~last.refusal /\ (last.error => http = "sse")
      BY <1>2, <1>6, <2>2
    <2>4. ASSUME NEW k \in DOMAIN body
          PROVE  body[k].reason \in {"none", "stop"} /\ ~body[k].refusal /\ (body[k].error => http = "sse")
      BY <1>7, <2>3
    <2>5. sent = Len(reply) \/ \A k \in DOMAIN body : body[k].reason = "none"
      <3>1. CASE last.reason = "stop"
        BY <1>6, <2>3, <3>1
      <3>2. CASE last.reason = "none"
        BY <1>7, <3>2
      <3> QED
        BY <2>3, <3>1, <3>2
    <2> QED
      BY <1>2, <2>2, <2>4, <2>5
  <1>9. Readable /\ outcome' = "unparseable" => sent < Len(reply) \/ \A k \in DOMAIN reply : reply[k].thought
    BY <1>2, <1>3 DEF fails, answers
  <1>10. ASSUME NEW k \in DOMAIN body, outcome' \in {"draft", "unparseable", "output-limit", "refused"}
         PROVE  /\ body[k].reason = "length" => outcome' = "output-limit"
                /\ body[k].reason = "content_filter" \/ body[k].refusal => outcome' = "refused"
    <2>1. m.reason # "none" \/ m.refusal => ~Undecodable(m)
      <3>1. ending # "cut"
        OBVIOUS
      <3> QED
        BY <3>1 DEF Undecodable
    <2>2. last.reason = "length" => outcome' = "output-limit"
      BY <1>2, <1>3, <1>6, <1>10, <2>1 DEF fails, answers
    <2>3. last.reason = "content_filter" \/ last.refusal => outcome' = "refused"
      BY <1>2, <1>3, <1>6, <1>10, <2>1 DEF fails, answers
    <2> QED
      BY <1>7, <2>2, <2>3
  <1>11. Readable => OutcomeIsTrue'
    <2>1. attempt <= 1
      OBVIOUS
    <2> QED
      BY <1>1, <1>9, <1>10, <2>1 DEF OutcomeIsTrue
  <1> QED
    BY <1>8, <1>11 DEF OutcomeTold

\* Every other end of a call tells of no draft and blames neither the model's words
\* nor its reasons to stop.
LEMMA FailedTold ==
  ASSUME attempt' \in {0, 1},
         \/ outcome' \in {"none", "timeout", "unavailable", "rate-limited"}
         \/ outcome' = "unparseable" /\ ending' # "end"
  PROVE  OutcomeTold'
  <1>1. attempt' <= 1
    OBVIOUS
  <1> QED
    BY <1>1 DEF OutcomeTold, DraftIsTheAnswer, OutcomeIsTrue

LEMMA CompleteTold ==
  ASSUME Relayed, complete
  PROVE  OutcomeTold'
  <1>1. Underway /\ at = "reading" /\ attempt \in {0, 1} /\ UNCHANGED <<attempt, ending>>
        /\ http \in Answers /\ ending \in {"open", "end", "cut"} /\ (ending # "open" \/ Expired)
    BY DEF complete, Read, Relayed, Underway, wire
  <1>2. CASE Expired
    <2>1. outcome' = "timeout"
      BY <1>2 DEF complete, fails, answers
    <2> QED
      BY <1>1, <2>1, FailedTold
  <1>3. CASE ~Expired /\ http = "429"
    <2>1. outcome' = "rate-limited"
      BY <1>3 DEF complete, fails, answers
    <2> QED
      BY <1>1, <2>1, FailedTold
  <1>4. CASE ~Expired /\ http = "5xx"
    <2>1. outcome' = "unavailable"
      BY <1>4 DEF complete, fails, answers
    <2> QED
      BY <1>1, <2>1, FailedTold
  <1>5. CASE ~Expired /\ http \in {"sse", "json"} /\ ending = "cut"
    <2>1. outcome' = "unparseable"
      <3>1. Undecodable(decodeChatResponse) /\ http # "429" /\ http # "5xx"
        BY <1>5 DEF Undecodable
      <3> QED
        BY <1>5, <3>1 DEF complete, fails, answers
    <2> QED
      BY <1>1, <1>5, <2>1, FailedTold
  <1>6. CASE ~Expired /\ http \in {"sse", "json"} /\ ending = "end"
    BY <1>1, <1>6, AnsweredTold
  <1> QED
    BY <1>1, <1>2, <1>3, <1>4, <1>5, <1>6 DEF Answers

LEMMA StepTold == Relayed /\ OutcomeTold /\ [Next]_vars => OutcomeTold'
  <1> SUFFICES ASSUME Relayed, OutcomeTold, [Next]_vars PROVE OutcomeTold'
    OBVIOUS
  <1>1. attempt' \in {0, 1}
    BY StepRelayed DEF Relayed
  <1>2. CASE UNCHANGED vars
    BY <1>2 DEF vars, call, wire, OutcomeTold, DraftIsTheAnswer, OutcomeIsTrue
  <1>3. CASE complete
    BY <1>3, CompleteTold
  <1>4. ASSUME NEW k \in Kinds, NEW e \in Engines, Ask([kind |-> k, engine |-> e])
        PROVE  OutcomeTold'
    <2>1. outcome' \in {"none", "unavailable"}
      BY <1>4 DEF Ask, fails, answers
    <2> QED
      BY <1>1, <2>1, FailedTold
  <1>5. CASE doFails
    <2>1. outcome' \in {"none", "timeout", "unavailable"}
      BY <1>5 DEF doFails, fails, answers, Relayed, Underway
    <2> QED
      BY <1>1, <2>1, FailedTold
  <1>6. CASE (\E a \in Answers : Begins(a)) \/ Writes \/ Concludes \/ Ends \/ Tick \/ Disconnect
    <2>1. outcome' = "none"
      BY <1>6 DEF Begins, Writes, Concludes, Ends, Writing, Sends, Tick, Disconnect, Relayed, Underway
    <2> QED
      BY <1>1, <2>1, FailedTold
  <1> QED
    BY <1>2, <1>3, <1>4, <1>5, <1>6 DEF Next

LEMMA AlwaysTold == Spec => [](DraftIsTheAnswer /\ (Readable => OutcomeIsTrue))
  <1>1. Init => OutcomeTold
    BY DEF Init, OutcomeTold, DraftIsTheAnswer, OutcomeIsTrue
  <1>2. Relayed /\ OutcomeTold /\ [Next]_vars => Relayed' /\ OutcomeTold'
    BY StepRelayed, StepTold
  <1>3. OutcomeTold => DraftIsTheAnswer /\ (Readable => OutcomeIsTrue)
    BY DEF OutcomeTold
  <1> QED
    BY <1>1, <1>2, <1>3, InitRelayed, PTL DEF Spec

\* What a user is offered as a draft holds no word of the model's thinking and was
\* neither broken off by the connection nor cut off, refused or (as JSON) reported
\* in error by the provider; and it is the whole reply unless no finish reason came.
\* Whatever the model writes, whichever parsers the deployment has and however long
\* the deadline is.
THEOREM DraftAlwaysTheAnswer == Spec => []DraftIsTheAnswer
  <1>1. DraftIsTheAnswer /\ (Readable => OutcomeIsTrue) => DraftIsTheAnswer
    OBVIOUS
  <1> QED
    BY <1>1, AlwaysTold, PTL

\* What a caller is told is what happened to its call: a whole reply is never called
\* unreadable and a cutoff or a refusal is told as itself, provided every reply the
\* model may finish is one that its parser reads or is nothing but thinking.
THEOREM OutcomeAlwaysTrue ==
  ASSUME Readable
  PROVE  Spec => []OutcomeIsTrue
  <1>1. DraftIsTheAnswer /\ (Readable => OutcomeIsTrue) => OutcomeIsTrue
    OBVIOUS
  <1> QED
    BY <1>1, AlwaysTold, PTL
=============================================================================
