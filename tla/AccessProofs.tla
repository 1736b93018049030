---------------------------- MODULE AccessProofs ----------------------------
(* Proofs about Access: the allowance of an address, the library and its      *)
(* audio, and the accounts. The three share no state, so each has a           *)
(* specification, an invariant and theorems of its own.                       *)
EXTENDS Access, FiniteSetTheorems, SequenceTheorems, TLAPS

-----------------------------------------------------------------------------
(* The allowance.                                                             *)

\* Inductive: while a window is open the history counts its admissions exactly
\* back to its opening, and from there on at most one allowance more; between two
\* windows it counts at most one.
Allowed ==
    /\ Rate!TypeOK
    /\ left >= 0 => \A k \in Rate!Keys, a \in 0..Window :
         /\ a <= Window - left => log[k][a] <= counts[k]
         /\ a >= Window - left => log[k][a] >= counts[k]
         /\ log[k][a] <= counts[k] + Limit
    /\ left < 0 => \A k \in Rate!Keys, a \in 0..Window :
         /\ log[k][0] = 0
         /\ log[k][a] <= Limit
    /\ \A k \in refused : log[k][Window] >= Limit

LEMMA AllowedInit == Rate!Init => Allowed
  BY SizesFit DEF Rate!Init, Allowed, Rate!TypeOK, Rate!Empty, Rate!Allowance

LEMMA KeyType ==
  ASSUME NEW v \in Visitors, NEW readable
  PROVE  Rate!clientIP(v, readable) \in Rate!Keys
  BY DEF Rate!clientIP, Rate!Keys

LEMMA OpenedType ==
  ASSUME Allowed
  PROVE  /\ Rate!Opened.counts \in [Rate!Keys -> 0..Limit]
         /\ Rate!Opened.left \in 0..Window
         /\ \A k \in Rate!Keys, a \in 0..Window :
              /\ a <= Window - Rate!Opened.left => log[k][a] <= Rate!Opened.counts[k]
              /\ a >= Window - Rate!Opened.left => log[k][a] >= Rate!Opened.counts[k]
              /\ log[k][a] <= Rate!Opened.counts[k] + Limit
  <1>1. Limit \in Nat \ {0} /\ Window \in Nat \ {0}
    BY SizesFit DEF Rate!Allowance
  <1>2. CASE left < 0
    <2>1. Rate!Opened = [counts |-> Rate!Empty, left |-> Window]
      BY <1>2 DEF Rate!Opened
    <2>2. \A k \in Rate!Keys : Rate!Empty[k] = 0
      BY DEF Rate!Empty
    <2>3. Rate!Empty \in [Rate!Keys -> 0..Limit]
      BY <1>1 DEF Rate!Empty
    <2>4. \A k \in Rate!Keys, a \in 0..Window : log[k][a] \in Nat
      BY DEF Allowed, Rate!TypeOK
    <2>5. \A k \in Rate!Keys, a \in 0..Window : log[k][a] <= Limit /\ (a <= 0 => log[k][a] <= 0)
      BY <1>1, <1>2, <2>4 DEF Allowed
    <2> QED
      BY <1>1, <2>1, <2>2, <2>3, <2>4, <2>5
  <1>3. CASE left >= 0
    BY <1>1, <1>3 DEF Rate!Opened, Allowed, Rate!TypeOK
  <1> QED
    BY <1>2, <1>3 DEF Allowed, Rate!TypeOK

LEMMA AllowedAllow ==
  ASSUME Allowed, NEW v \in Visitors, NEW readable \in BOOLEAN, Rate!allow(v, readable)
  PROVE  Allowed'
  <1> DEFINE k == Rate!clientIP(v, readable)
             c == Rate!Opened.counts
  <1>1. Limit \in Nat \ {0} /\ Window \in Nat \ {0} /\ k \in Rate!Keys /\ left' = Rate!Opened.left
    BY SizesFit, KeyType DEF Rate!Allowance, Rate!allow
  <1>2. log \in [Rate!Keys -> [0..Window -> Nat]]
    BY DEF Allowed, Rate!TypeOK
  <1>3. CASE Rate!admit(k)
    <2>1. c[k] < Limit /\ counts' = [c EXCEPT ![k] = c[k] + 1] /\ refused' = {}
      BY <1>3 DEF Rate!admit
    <2>2. log' = [log EXCEPT ![k] = [a \in 0..Window |-> log[k][a] + 1]]
      BY <1>3 DEF Rate!admit
    <2>3. /\ counts' \in [Rate!Keys -> 0..Limit] /\ log' \in [Rate!Keys -> [0..Window -> Nat]]
          /\ left' \in 0..Window
      <3>1. c \in [Rate!Keys -> 0..Limit] /\ left' \in 0..Window
        BY <1>1, OpenedType
      <3>2. c[k] + 1 \in 0..Limit
        BY <1>1, <2>1, <3>1
      <3>3. [a \in 0..Window |-> log[k][a] + 1] \in [0..Window -> Nat]
        BY <1>1, <1>2
      <3> HIDE DEF k, c
      <3>4. counts' \in [Rate!Keys -> 0..Limit]
        BY <2>1, <3>1, <3>2
      <3>5. log' \in [Rate!Keys -> [0..Window -> Nat]]
        BY <1>2, <2>2, <3>3
      <3> QED
        BY <3>1, <3>4, <3>5
    <2>4. ASSUME NEW h \in Rate!Keys, NEW a \in 0..Window
          PROVE  /\ a <= Window - left' => log'[h][a] <= counts'[h]
                 /\ a >= Window - left' => log'[h][a] >= counts'[h]
                 /\ log'[h][a] <= counts'[h] + Limit
      <3>1. log[h][a] \in Nat /\ c \in [Rate!Keys -> 0..Limit] /\ c[h] \in 0..Limit
        BY <1>2, OpenedType
      <3>2. /\ a <= Window - left' => log[h][a] <= c[h]
            /\ a >= Window - left' => log[h][a] >= c[h]
            /\ log[h][a] <= c[h] + Limit
        BY <1>1, OpenedType
      <3> HIDE DEF k, c
      <3>3. CASE h = k
        <4>1. log'[h][a] = log[h][a] + 1
          BY <1>1, <1>2, <2>2, <3>3
        <4>2. counts'[h] = c[h] + 1
          BY <1>1, <2>1, <3>1, <3>3
        <4>3. log[h][a] \in Nat /\ c[h] \in Nat /\ Limit \in Nat
          BY <1>1, <3>1
        <4> QED
          BY <3>2, <4>1, <4>2, <4>3
      <3>4. CASE h # k
        <4>1. log'[h][a] = log[h][a] /\ counts'[h] = c[h]
          BY <1>2, <2>1, <2>2, <3>1, <3>4
        <4> QED
          BY <3>2, <4>1
      <3> QED
        BY <3>3, <3>4
    <2> QED
      BY <1>1, <2>1, <2>3, <2>4 DEF Allowed, Rate!TypeOK
  <1>4. CASE Rate!refuse(k)
    <2>1. c[k] >= Limit /\ counts' = c /\ refused' = {k} /\ log' = log
      BY <1>4 DEF Rate!refuse
    <2>2. log[k][Window] >= Limit
      BY <1>1, <1>2, <2>1, OpenedType
    <2>3. counts' \in [Rate!Keys -> 0..Limit] /\ left' \in 0..Window /\ left' >= 0
      BY <1>1, <2>1, OpenedType
    <2>4. \A h \in Rate!Keys, a \in 0..Window :
            /\ a <= Window - left' => log'[h][a] <= counts'[h]
            /\ a >= Window - left' => log'[h][a] >= counts'[h]
            /\ log'[h][a] <= counts'[h] + Limit
      BY <1>1, <2>1, OpenedType
    <2>5. Rate!TypeOK'
      BY <1>1, <1>2, <2>1, <2>3 DEF Rate!TypeOK
    <2>6. \A h \in refused' : log'[h][Window] >= Limit
      BY <2>1, <2>2
    <2>7. ~(left' < 0)
      BY <1>1, <2>3
    <2> QED
      BY <2>4, <2>5, <2>6, <2>7 DEF Allowed
  <1> QED
    BY <1>3, <1>4 DEF Rate!allow

LEMMA AllowedTick == ASSUME Allowed, Rate!Tick PROVE Allowed'
  <1>1. Limit \in Nat \ {0} /\ Window \in Nat \ {0} /\ left \in -1..Window
    BY SizesFit DEF Rate!Allowance, Allowed, Rate!TypeOK
  <1>2. /\ log \in [Rate!Keys -> [0..Window -> Nat]] /\ counts \in [Rate!Keys -> 0..Limit]
        /\ counts' = counts /\ refused' = {}
    BY DEF Allowed, Rate!TypeOK, Rate!Tick
  <1>3. \A k \in Rate!Keys, a \in 0..Window : log'[k][a] = IF a = 0 THEN 0 ELSE log[k][a - 1]
    BY DEF Rate!Tick
  <1>4. log' \in [Rate!Keys -> [0..Window -> Nat]]
    BY <1>1, <1>2 DEF Rate!Tick
  <1>5. left' = IF left < 0 THEN left ELSE left - 1
    BY DEF Rate!Tick
  <1>6. ASSUME NEW k \in Rate!Keys, NEW a \in 0..Window
        PROVE  /\ left' >= 0 => /\ a <= Window - left' => log'[k][a] <= counts'[k]
                                /\ a >= Window - left' => log'[k][a] >= counts'[k]
                                /\ log'[k][a] <= counts'[k] + Limit
               /\ left' < 0 => log'[k][0] = 0 /\ log'[k][a] <= Limit
    <2>1. CASE a = 0
      BY <1>1, <1>2, <1>3, <1>5, <2>1
    <2>2. CASE a # 0
      <3>1. a - 1 \in 0..Window /\ log'[k][a] = log[k][a - 1] /\ log[k][a - 1] \in Nat /\ counts[k] \in 0..Limit
        BY <1>1, <1>2, <1>3, <2>2
      <3>2. left >= 0 => /\ a - 1 <= Window - left => log[k][a - 1] <= counts[k]
                         /\ a - 1 >= Window - left => log[k][a - 1] >= counts[k]
                         /\ log[k][a - 1] <= counts[k] + Limit
        BY <3>1 DEF Allowed
      <3>3. left < 0 => log[k][a - 1] <= Limit
        BY <3>1 DEF Allowed
      <3>4. log'[k][0] = 0
        BY <1>1, <1>3
      <3> QED
        BY <1>1, <1>2, <1>5, <3>1, <3>2, <3>3, <3>4
    <2> QED
      BY <2>1, <2>2
  <1> QED
    BY <1>1, <1>2, <1>4, <1>5, <1>6 DEF Allowed, Rate!TypeOK

LEMMA AllowedAlways == Rate!Spec => []Allowed
  <1>1. Allowed /\ [Rate!Next]_(Rate!vars) => Allowed'
    <2>1. Allowed /\ UNCHANGED Rate!vars => Allowed'
      BY DEF Allowed, Rate!vars, Rate!TypeOK
    <2> QED
      BY <2>1, AllowedAllow, AllowedTick DEF Rate!Next
  <1> QED
    BY <1>1, AllowedInit, PTL DEF Rate!Spec

(* Whatever the limit and the window, no address gets more than two           *)
(* allowances in a window's length, nor is refused before it has spent one    *)
(* itself (ratelimit.go:28-45).                                               *)
THEOREM AllowanceAlwaysFair == Rate!Spec => []AllowanceIsFair
  <1>1. Allowed => AllowanceIsFair
    <2> SUFFICES ASSUME Allowed, NEW k \in Rate!Keys
                 PROVE  log[k][Window - 1] <= 2 * Limit
      BY DEF Allowed, AllowanceIsFair, Rate!AllowanceIsFair
    <2>1. Limit \in Nat \ {0} /\ Window \in Nat \ {0}
      BY SizesFit DEF Rate!Allowance
    <2>2. Window - 1 \in 0..Window /\ counts[k] \in 0..Limit /\ log[k][Window - 1] \in Nat /\ left \in -1..Window
      BY <2>1 DEF Allowed, Rate!TypeOK
    <2>3. left >= 0 => log[k][Window - 1] <= counts[k] + Limit
      BY <2>2 DEF Allowed
    <2>4. left < 0 => log[k][Window - 1] <= Limit
      BY <2>2 DEF Allowed
    <2> QED
      BY <2>1, <2>2, <2>3, <2>4
  <1> QED
    BY <1>1, AllowedAlways, PTL

-----------------------------------------------------------------------------
(* The order of the library.                                                  *)

LEMMA Sized ==
  /\ {PageSize, MaxPage, MaxPageSize, MaxSongs} \subseteq Nat \ {0}
  /\ Admins \subseteq Users /\ PageSize < MaxPageSize /\ MaxSongs <= MaxPage * PageSize
  BY SizesFit DEF Shelf!Sizes

\* Library counts with its own instance of FiniteSets.
LEMMA RankIs ==
  ASSUME NEW S, NEW id
  PROVE  Shelf!Rank(S, id) = Cardinality({j \in S : j >= id})
  <1> DEFINE T == {j \in S : j >= id}
  <1>1. Shelf!Cardinality(T) = Cardinality(T)
    BY DEF Shelf!Cardinality, Cardinality, Shelf!IsFiniteSet, IsFiniteSet
  <1> QED
    BY <1>1 DEF Shelf!Rank

LEMMA NewestIs ==
  ASSUME NEW S
  PROVE  Shelf!Newest(S) = [i \in 1..Cardinality(S) |-> CHOOSE id \in S : Shelf!Rank(S, id) = i]
  <1>1. Shelf!Cardinality(S) = Cardinality(S)
    BY DEF Shelf!Cardinality, Cardinality, Shelf!IsFiniteSet, IsFiniteSet
  <1> QED
    BY <1>1 DEF Shelf!Newest

LEMMA RankType ==
  ASSUME NEW S, S \subseteq Nat, IsFiniteSet(S)
  PROVE  /\ Cardinality(S) \in Nat
         /\ \A id \in S : Shelf!Rank(S, id) \in 1..Cardinality(S)
  <1>1. Cardinality(S) \in Nat
    BY FS_CardinalityType
  <1>2. ASSUME NEW id \in S PROVE Shelf!Rank(S, id) \in 1..Cardinality(S)
    <2> DEFINE T == {j \in S : j >= id}
    <2>1. IsFiniteSet(T) /\ Cardinality(T) <= Cardinality(S)
      BY FS_Subset
    <2>2. Cardinality(T) \in Nat /\ (Cardinality(T) = 0 <=> T = {})
      BY <2>1, FS_CardinalityType, FS_EmptySet
    <2>3. id \in T
      OBVIOUS
    <2> QED
      BY <1>1, <2>1, <2>2, <2>3, RankIs
  <1> QED
    BY <1>1, <1>2

LEMMA RankOrders ==
  ASSUME NEW S, S \subseteq Nat, IsFiniteSet(S), NEW a \in S, NEW b \in S, a < b
  PROVE  Shelf!Rank(S, b) < Shelf!Rank(S, a)
  <1> DEFINE A == {j \in S : j >= a}
             B == {j \in S : j >= b}
  <1>0. a \in Nat /\ b \in Nat /\ \A j \in S : j \in Nat
    OBVIOUS
  <1>1. IsFiniteSet(A) /\ B \in SUBSET A /\ A # B
    <2>1. a \in A /\ a \notin B
      BY <1>0
    <2>2. \A j \in B : j \in A
      BY <1>0
    <2> QED
      BY <2>1, <2>2, FS_Subset
  <1>2. Cardinality(A) \in Nat /\ Cardinality(B) \in Nat
    BY <1>1, FS_Subset, FS_CardinalityType
  <1>3. Cardinality(B) <= Cardinality(A) /\ Cardinality(A) # Cardinality(B)
    BY <1>1, FS_Subset
  <1> QED
    BY <1>2, <1>3, RankIs

LEMMA RankInjective ==
  ASSUME NEW S, S \subseteq Nat, IsFiniteSet(S), NEW a \in S, NEW b \in S,
         Shelf!Rank(S, a) = Shelf!Rank(S, b)
  PROVE  a = b
  <1>1. a < b => Shelf!Rank(S, b) < Shelf!Rank(S, a)
    BY RankOrders
  <1>2. b < a => Shelf!Rank(S, a) < Shelf!Rank(S, b)
    BY RankOrders
  <1>3. a \in Nat /\ b \in Nat
    OBVIOUS
  <1>4. Cardinality(S) \in Nat /\ Shelf!Rank(S, a) \in 1..Cardinality(S)
    BY RankType
  <1> QED
    BY <1>1, <1>2, <1>3, <1>4

LEMMA RankGrows ==
  ASSUME NEW T, T \subseteq Nat, IsFiniteSet(T), NEW S \in SUBSET T, NEW id
  PROVE  Shelf!Rank(S, id) <= Shelf!Rank(T, id)
  <1>1. IsFiniteSet({j \in T : j >= id})
    BY FS_Subset
  <1>2. {j \in S : j >= id} \in SUBSET {j \in T : j >= id}
    OBVIOUS
  <1> QED
    BY <1>1, <1>2, FS_Subset, RankIs

\* Every place is taken: the order has no gaps.
LEMMA RankReaches ==
  ASSUME NEW S, S \subseteq Nat, IsFiniteSet(S), NEW i \in 1..Cardinality(S)
  PROVE  \E id \in S : Shelf!Rank(S, id) = i
  <1> DEFINE f == [id \in S |-> Shelf!Rank(S, id)]
             n == Cardinality(S)
  <1>1. n \in Nat /\ f \in [S -> 1..n]
    BY RankType
  <1>2. ASSUME NEW a \in S, NEW b \in S, f[a] = f[b] PROVE a = b
    BY <1>2, RankInjective
  <1>3. f \in Injection(S, 1..n)
    BY <1>1, <1>2 DEF Injection, IsInjective
  <1>4. IsFiniteSet(1..n) /\ Cardinality(1..n) = n
    BY <1>1, FS_Interval
  <1>5. f \in Surjection(S, 1..n)
    BY <1>3, <1>4, FS_Injection
  <1> QED
    <2> HIDE DEF f, n
    <2>1. \A t \in 1..n : \E id \in S : f[id] = t
      BY <1>5 DEF Surjection
    <2> USE DEF f, n
    <2> QED
      BY <2>1

LEMMA NewestRanked ==
  ASSUME NEW S, S \subseteq Nat, IsFiniteSet(S)
  PROVE  /\ Shelf!Newest(S) \in [1..Cardinality(S) -> S]
         /\ \A i \in 1..Cardinality(S) : Shelf!Rank(S, Shelf!Newest(S)[i]) = i
         /\ \A id \in S : Shelf!Newest(S)[Shelf!Rank(S, id)] = id
  <1> DEFINE s == Shelf!Newest(S)
  <1>1. s = [i \in 1..Cardinality(S) |-> CHOOSE id \in S : Shelf!Rank(S, id) = i]
    BY NewestIs
  <1>2. ASSUME NEW i \in 1..Cardinality(S) PROVE s[i] \in S /\ Shelf!Rank(S, s[i]) = i
    BY <1>1, <1>2, RankReaches
  <1>3. s \in [1..Cardinality(S) -> S]
    BY <1>1, <1>2
  <1>4. ASSUME NEW id \in S PROVE s[Shelf!Rank(S, id)] = id
    <2> DEFINE k == Shelf!Rank(S, id)
    <2>1. k \in 1..Cardinality(S)
      BY RankType
    <2>2. s[k] \in S /\ Shelf!Rank(S, s[k]) = k
      BY <1>2, <2>1
    <2> QED
      BY <2>2, RankInjective
  <1> QED
    BY <1>2, <1>3, <1>4

\* The rows of a page and one more, if the section has them.
LEMMA RowsFound ==
  ASSUME NEW S, S \subseteq Nat, IsFiniteSet(S), NEW o \in Nat
  PROVE  LET found == Shelf!Rows(S, PageSize + 1, o) IN
         /\ found \in Seq(S)
         /\ Len(found) = IF Cardinality(S) <= o THEN 0
                         ELSE IF Cardinality(S) <= o + PageSize THEN Cardinality(S) - o
                         ELSE PageSize + 1
         /\ \A i \in 1..Len(found) : Shelf!Rank(S, found[i]) = o + i
  <1> DEFINE n == Cardinality(S)
             all == Shelf!Newest(S)
             m == IF PageSize + 1 + o < n THEN PageSize + 1 + o ELSE n
             found == SubSeq(all, o + 1, m)
  <1>1. PageSize \in Nat \ {0} /\ MaxPageSize \in Nat /\ PageSize + 1 <= MaxPageSize
    BY Sized
  <1>2. n \in Nat /\ all \in [1..n -> S] /\ \A i \in 1..n : Shelf!Rank(S, all[i]) = i
    BY RankType, NewestRanked
  <1>3. all \in Seq(S) /\ Len(all) = n
    BY <1>2
  <1>4. Shelf!clampPage(PageSize + 1, o) = <<PageSize + 1, o>>
    BY <1>1 DEF Shelf!clampPage
  <1>5. Shelf!Rows(S, PageSize + 1, o) = found
    BY <1>1, <1>3, <1>4 DEF Shelf!Rows
  <1>6. m \in Nat /\ m <= n /\ \A i \in (o + 1)..m : i \in 1..n /\ all[i] \in S
    BY <1>1, <1>2
  <1>7. /\ found \in Seq(S)
        /\ Len(found) = IF o + 1 <= m THEN m - (o + 1) + 1 ELSE 0
        /\ \A i \in 1..(m - (o + 1) + 1) : found[i] = all[(o + 1) + i - 1]
    <2> HIDE DEF all, m
    <2> QED
      BY <1>6, SubSeqProperties
  <1>8. Len(found) = IF n <= o THEN 0 ELSE IF n <= o + PageSize THEN n - o ELSE PageSize + 1
    <2> HIDE DEF found, n
    <2> QED
      BY <1>1, <1>2, <1>7
  <1>9. ASSUME NEW i \in 1..Len(found) PROVE Shelf!Rank(S, found[i]) = o + i
    <2> HIDE DEF found, n, all
    <2>1. i \in 1..(m - (o + 1) + 1) /\ (o + 1) + i - 1 = o + i /\ o + i \in (o + 1)..m
      BY <1>1, <1>2, <1>6, <1>7 DEF m
    <2> QED
      BY <1>2, <1>6, <1>7, <2>1
  <1> QED
    BY <1>5, <1>7, <1>8, <1>9

\* What newSection shows of a section and says of the next page.
LEMMA PageShown ==
  ASSUME NEW kind, NEW u, NEW p \in Nat \ {0},
         NEW S, S = Shelf!Section(kind, u), S \subseteq Nat, IsFiniteSet(S)
  PROVE  LET sec == Shelf!newSection(kind, u, p)  o == (p - 1) * PageSize IN
         /\ sec.songs \in Seq(S)
         /\ \A i \in 1..Len(sec.songs) : Shelf!Rank(S, sec.songs[i]) = o + i /\ i <= PageSize
         /\ \A id \in S : o < Shelf!Rank(S, id) /\ Shelf!Rank(S, id) <= o + PageSize =>
              \E i \in 1..Len(sec.songs) : sec.songs[i] = id
         /\ sec.hasNext <=> Cardinality(S) > o + PageSize
         /\ sec.hasNext \in BOOLEAN
  <1> DEFINE o == (p - 1) * PageSize
             n == Cardinality(S)
             found == Shelf!Rows(S, PageSize + 1, o)
             shown == IF Len(found) > PageSize THEN SubSeq(found, 1, PageSize) ELSE found
  <1>1. PageSize \in Nat \ {0} /\ n \in Nat
    BY Sized, RankType
  <1>2. o \in Nat
    BY <1>1
  <1> HIDE DEF o
  <1>3. /\ found \in Seq(S)
        /\ Len(found) = IF n <= o THEN 0 ELSE IF n <= o + PageSize THEN n - o ELSE PageSize + 1
        /\ \A i \in 1..Len(found) : Shelf!Rank(S, found[i]) = o + i
    BY <1>2, RowsFound
  <1>4. /\ Shelf!newSection(kind, u, p).songs = shown
        /\ Shelf!newSection(kind, u, p).hasNext = (Len(found) > PageSize)
    BY DEF Shelf!newSection, o
  <1> HIDE DEF found, n
  <1>5. /\ shown \in Seq(S)
        /\ Len(shown) = IF Len(found) > PageSize THEN PageSize ELSE Len(found)
        /\ \A i \in 1..Len(shown) : shown[i] = found[i] /\ i \in 1..Len(found) /\ i <= PageSize
    <2>1. CASE Len(found) > PageSize
      <3>1. \A i \in 1..PageSize : found[i] \in S
        BY <1>1, <1>3, <2>1
      <3>2. /\ SubSeq(found, 1, PageSize) \in Seq(S)
            /\ Len(SubSeq(found, 1, PageSize)) = PageSize
            /\ \A i \in 1..PageSize : SubSeq(found, 1, PageSize)[i] = found[i]
        BY <1>1, <3>1, SubSeqProperties
      <3> QED
        BY <1>1, <1>3, <2>1, <3>2
    <2>2. CASE ~(Len(found) > PageSize)
      BY <1>1, <1>3, <2>2
    <2> QED
      BY <2>1, <2>2
  <1> HIDE DEF shown
  <1>6. ASSUME NEW id \in S, o < Shelf!Rank(S, id), Shelf!Rank(S, id) <= o + PageSize
        PROVE  \E i \in 1..Len(shown) : shown[i] = id
    <2> DEFINE i == Shelf!Rank(S, id) - o
    <2>1. Shelf!Rank(S, id) \in 1..n
      BY RankType DEF n
    <2>2. i \in 1..PageSize /\ o + i <= n /\ o + i = Shelf!Rank(S, id)
      BY <1>1, <1>2, <1>6, <2>1
    <2>3. i \in 1..Len(found)
      <3> HIDE DEF i
      <3>1. CASE n <= o + PageSize
        BY <1>1, <1>2, <1>3, <2>2, <3>1
      <3>2. CASE ~(n <= o + PageSize)
        BY <1>1, <1>2, <1>3, <2>2, <3>2
      <3> QED
        BY <3>1, <3>2
    <2>6. i \in 1..Len(shown)
      <3> HIDE DEF i
      <3> QED
        BY <1>1, <1>3, <1>5, <2>2, <2>3
    <2>4. shown[i] = found[i] /\ Shelf!Rank(S, found[i]) = Shelf!Rank(S, id) /\ found[i] \in S
      BY <1>3, <1>5, <2>2, <2>3, <2>6
    <2>5. found[i] = id
      BY <2>4, RankInjective
    <2> QED
      BY <2>4, <2>5, <2>6
  <1>7. (Len(found) > PageSize) <=> n > o + PageSize
    BY <1>1, <1>2, <1>3
  <1>8. ASSUME NEW i \in 1..Len(shown) PROVE Shelf!Rank(S, shown[i]) = o + i /\ i <= PageSize
    BY <1>3, <1>5
  <1> DEFINE sec == Shelf!newSection(kind, u, p)
  <1>9. sec.songs = shown /\ sec.hasNext = (Len(found) > PageSize)
    BY <1>4
  <1> HIDE DEF sec
  <1>10. /\ sec.songs \in Seq(S)
         /\ \A i \in 1..Len(sec.songs) : Shelf!Rank(S, sec.songs[i]) = o + i /\ i <= PageSize
         /\ \A id \in S : o < Shelf!Rank(S, id) /\ Shelf!Rank(S, id) <= o + PageSize =>
              \E i \in 1..Len(sec.songs) : sec.songs[i] = id
         /\ sec.hasNext <=> n > o + PageSize
         /\ sec.hasNext \in BOOLEAN
    <2>1. sec.songs \in Seq(S)
      BY <1>5, <1>9
    <2>2. \A i \in 1..Len(sec.songs) : Shelf!Rank(S, sec.songs[i]) = o + i /\ i <= PageSize
      BY <1>8, <1>9
    <2>3. \A id \in S : o < Shelf!Rank(S, id) /\ Shelf!Rank(S, id) <= o + PageSize =>
            \E i \in 1..Len(sec.songs) : sec.songs[i] = id
      BY <1>6, <1>9
    <2> DEFINE more == Len(found) > PageSize
               longer == n > o + PageSize
    <2>5. sec.hasNext = more /\ more \in BOOLEAN /\ (more <=> longer)
      BY <1>7, <1>9
    <2> HIDE DEF more, longer
    <2>4. (sec.hasNext <=> longer) /\ sec.hasNext \in BOOLEAN
      BY <2>5
    <2> QED
      BY <2>1, <2>2, <2>3, <2>4 DEF longer
  <1> QED
    BY <1>10 DEF o, n, sec

-----------------------------------------------------------------------------
(* A walk through a section.                                                  *)

Table(t, n) ==
    /\ n \in 0..MaxSongs /\ DOMAIN t \subseteq 1..n
    /\ \A id \in DOMAIN t : t[id] \in [owner : Users, shared : BOOLEAN]

Walk == [at : {"paging", "ended"}, user : Users, kind : Shelf!Kinds, page : 1..MaxPage,
         seen : Seq(Shelf!Ids), stayed : SUBSET Shelf!Ids, lost : BOOLEAN, gained : BOOLEAN]

SeenBy(w) == {w.seen[i] : i \in 1..Len(w.seen)}
NeverTwice(w) == \A i, j \in 1..Len(w.seen) : w.seen[i] = w.seen[j] => i = j

\* Section S before its rows from o on are shown: what stayed in it and was not
\* shown yet comes later, and what was shown comes before.
Upto(w, S, o) ==
    /\ w.stayed \subseteq S
    /\ ~w.lost => \A id \in w.stayed : id \in SeenBy(w) \/ Shelf!Rank(S, id) > o
    /\ ~w.gained => /\ NeverTwice(w)
                    /\ \A id \in SeenBy(w) \cap S : Shelf!Rank(S, id) <= o

\* Of a walk under way, Upto the end of its page; of one that ended, all of it.
Walking(w) ==
    /\ w \in Walk
    /\ w.at = "paging" => /\ w.page < MaxPage
                          /\ Upto(w, Shelf!Section(w.kind, w.user), w.page * PageSize)
    /\ w.at = "ended" => /\ ~w.lost => w.stayed \subseteq SeenBy(w)
                         /\ ~w.gained => NeverTwice(w)

LEMMA SectionType ==
  ASSUME NEW t, NEW n, Table(t, n), NEW kind, NEW u
  PROVE  /\ Shelf!SectionOf(t, kind, u) \subseteq Shelf!Ids
         /\ Shelf!SectionOf(t, kind, u) \subseteq Nat
         /\ IsFiniteSet(Shelf!SectionOf(t, kind, u))
         /\ Cardinality(Shelf!SectionOf(t, kind, u)) \in Nat
         /\ Cardinality(Shelf!SectionOf(t, kind, u)) <= MaxSongs
  <1> DEFINE S == Shelf!SectionOf(t, kind, u)
  <1>1. MaxSongs \in Nat
    BY Sized
  <1>2. S \subseteq 1..MaxSongs
    BY <1>1 DEF Table, Shelf!SectionOf
  <1>3. IsFiniteSet(1..MaxSongs) /\ Cardinality(1..MaxSongs) = MaxSongs
    BY <1>1, FS_Interval
  <1>4. IsFiniteSet(S) /\ Cardinality(S) <= MaxSongs
    BY <1>2, <1>3, FS_Subset
  <1> QED
    BY <1>1, <1>2, <1>4, FS_CardinalityType DEF Shelf!Ids

LEMMA SeenMore ==
  ASSUME NEW w, w.seen \in Seq(Shelf!Ids), NEW v, NEW s \in Seq(Shelf!Ids), v.seen = w.seen \o s
  PROVE  /\ v.seen \in Seq(Shelf!Ids)
         /\ SeenBy(v) = SeenBy(w) \cup {s[i] : i \in 1..Len(s)}
         /\ (/\ NeverTwice(w)
             /\ \A i, j \in 1..Len(s) : s[i] = s[j] => i = j
             /\ \A i \in 1..Len(s) : s[i] \notin SeenBy(w)) => NeverTwice(v)
  <1> DEFINE a == w.seen
             b == v.seen
             m == Len(a)
             n == Len(s)
  <1>1. m \in Nat /\ n \in Nat /\ b \in Seq(Shelf!Ids) /\ Len(b) = m + n
    BY ConcatProperties
  <1>2. \A i \in 1..m + n : b[i] = IF i <= m THEN a[i] ELSE s[i - m]
    BY ConcatProperties
  <1> HIDE DEF a, b, m, n
  <1>3. \A i \in 1..m : i \in 1..m + n /\ b[i] = a[i]
    BY <1>1, <1>2
  <1>4. \A i \in 1..n : m + i \in 1..m + n /\ b[m + i] = s[i]
    BY <1>1, <1>2
  <1>5. \A i \in 1..m + n : (i \in 1..m) \/ (i - m \in 1..n /\ i = m + (i - m))
    BY <1>1
  <1>6. SeenBy(w) = {a[i] : i \in 1..m} /\ SeenBy(v) = {b[i] : i \in 1..m + n}
    BY <1>1 DEF SeenBy, a, b, m
  <1>7. SeenBy(v) = SeenBy(w) \cup {s[i] : i \in 1..n}
    <2>1. ASSUME NEW x \in SeenBy(v) PROVE x \in SeenBy(w) \cup {s[i] : i \in 1..n}
      <3>1. PICK i \in 1..m + n : x = b[i]
        BY <1>6
      <3> QED
        BY <1>1, <1>2, <1>5, <1>6, <3>1
    <2>2. ASSUME NEW x \in SeenBy(w) \cup {s[i] : i \in 1..n} PROVE x \in SeenBy(v)
      BY <1>3, <1>4, <1>6
    <2> QED
      BY <2>1, <2>2
  <1>8. ASSUME NeverTwice(w), \A i, j \in 1..n : s[i] = s[j] => i = j,
               \A i \in 1..n : s[i] \notin SeenBy(w),
               NEW i \in 1..m + n, NEW j \in 1..m + n, b[i] = b[j]
        PROVE  i = j
    <2>1. \A x, y \in 1..m : a[x] = a[y] => x = y
      BY <1>8 DEF NeverTwice, a, m
    <2>2. CASE i \in 1..m /\ j \in 1..m
      BY <1>3, <1>8, <2>1, <2>2
    <2>3. CASE i \in 1..m /\ j \notin 1..m
      <3>1. a[i] \in SeenBy(w) /\ b[i] = a[i]
        BY <1>3, <1>6, <2>3
      <3>2. j - m \in 1..n /\ b[j] = s[j - m]
        BY <1>1, <1>2, <1>5, <2>3
      <3> QED
        BY <1>8, <3>1, <3>2
    <2>4. CASE i \notin 1..m /\ j \in 1..m
      <3>1. a[j] \in SeenBy(w) /\ b[j] = a[j]
        BY <1>3, <1>6, <2>4
      <3>2. i - m \in 1..n /\ b[i] = s[i - m]
        BY <1>1, <1>2, <1>5, <2>4
      <3> QED
        BY <1>8, <3>1, <3>2
    <2>5. CASE i \notin 1..m /\ j \notin 1..m
      <3>1. i - m \in 1..n /\ j - m \in 1..n /\ s[i - m] = s[j - m]
        BY <1>1, <1>2, <1>5, <1>8, <2>5
      <3>2. i - m = j - m
        BY <1>8, <3>1
      <3> QED
        BY <1>1, <3>2
    <2> QED
      BY <2>2, <2>3, <2>4, <2>5
  <1> QED
    BY <1>1, <1>7, <1>8 DEF NeverTwice, b, n

\* A page that follows what was shown so far.
LEMMA PageTurned ==
  ASSUME Table(songs, last), NEW w \in Walk, w.at = "paging", NEW p \in 1..MaxPage,
         Upto(w, Shelf!Section(w.kind, w.user), (p - 1) * PageSize)
  PROVE  Walking(Shelf!Shown(w, p))
  <1> DEFINE S == Shelf!Section(w.kind, w.user)
             sec == Shelf!newSection(w.kind, w.user, p)
             o == (p - 1) * PageSize
             n == Cardinality(S)
             s == sec.songs
             v == Shelf!Shown(w, p)
  <1>1. /\ PageSize \in Nat \ {0} /\ MaxPage \in Nat \ {0} /\ MaxSongs \in Nat
        /\ MaxSongs <= MaxPage * PageSize
    BY Sized
  <1>2. p \in Nat \ {0} /\ o \in Nat /\ o + PageSize = p * PageSize /\ w.kind \in Shelf!Kinds
    BY <1>1 DEF Walk
  <1>3. S \subseteq Shelf!Ids /\ S \subseteq Nat /\ IsFiniteSet(S) /\ n \in Nat /\ n <= MaxSongs
    BY SectionType DEF Shelf!Section
  <1>4. /\ s \in Seq(S)
        /\ \A i \in 1..Len(s) : Shelf!Rank(S, s[i]) = o + i /\ i <= PageSize
        /\ \A id \in S : o < Shelf!Rank(S, id) /\ Shelf!Rank(S, id) <= o + PageSize =>
             \E i \in 1..Len(s) : s[i] = id
        /\ sec.hasNext <=> n > o + PageSize
        /\ sec.hasNext \in BOOLEAN
    BY <1>2, <1>3, PageShown
  <1> HIDE DEF s, sec
  <1>5. s \in Seq(Shelf!Ids) /\ \A i \in 1..Len(s) : s[i] \in S
    BY <1>3, <1>4
  <1> DEFINE at == IF sec.hasNext THEN "paging" ELSE "ended"
  <1>6. v = [at |-> at, user |-> w.user, kind |-> w.kind,
             page |-> p, seen |-> w.seen \o s, stayed |-> w.stayed, lost |-> w.lost, gained |-> w.gained]
    <2>1. v = [w EXCEPT !.page = p, !.seen = w.seen \o s, !.at = at]
      BY DEF Shelf!Shown, s, sec
    <2> HIDE DEF v, s, at
    <2> QED
      BY <2>1 DEF Walk
  <1>16. at \in {"paging", "ended"} /\ (at = "paging" <=> n > o + PageSize)
    BY <1>4
  <1> HIDE DEF o, sec, n, at, v
  <1>7. w.seen \in Seq(Shelf!Ids) /\ w.seen \o s \in Seq(Shelf!Ids)
    BY <1>5, ConcatProperties DEF Walk
  <1>13. /\ v.page = p /\ v.lost = w.lost /\ v.gained = w.gained /\ v.stayed = w.stayed
         /\ v.kind = w.kind /\ v.user = w.user /\ v.seen = w.seen \o s /\ v.at = at
    BY <1>6
  <1>8. v.seen \in Seq(Shelf!Ids) /\ SeenBy(v) = SeenBy(w) \cup {s[i] : i \in 1..Len(s)}
    <2>1. w.seen \in Seq(Shelf!Ids) /\ s \in Seq(Shelf!Ids) /\ v.seen = w.seen \o s
      BY <1>5, <1>7, <1>13
    <2> QED
      BY <2>1, SeenMore
  <1>9. v \in Walk
    <2>1. /\ w.user \in Users /\ w.kind \in Shelf!Kinds /\ w.stayed \in SUBSET Shelf!Ids
          /\ w.lost \in BOOLEAN /\ w.gained \in BOOLEAN
      BY DEF Walk
    <2> QED
      BY <1>6, <1>7, <1>16, <2>1 DEF Walk
  <1>10. ASSUME ~w.gained PROVE NeverTwice(v)
    <2>1. NeverTwice(w) /\ \A id \in SeenBy(w) \cap S : Shelf!Rank(S, id) <= o
      BY <1>10 DEF Upto, o
    <2>2. \A i, j \in 1..Len(s) : s[i] = s[j] => i = j
      BY <1>2, <1>4
    <2>3. \A i \in 1..Len(s) : s[i] \notin SeenBy(w)
      BY <1>2, <1>4, <1>5, <2>1
    <2> QED
      BY <1>5, <1>7, <1>13, <2>1, <2>2, <2>3, SeenMore
  <1>11. ASSUME ~w.gained, NEW id \in SeenBy(v) \cap S PROVE Shelf!Rank(S, id) <= o + PageSize
    <2>1. CASE id \in SeenBy(w)
      <3>1. Shelf!Rank(S, id) <= o /\ Shelf!Rank(S, id) \in Nat
        BY <1>3, <1>11, <2>1, RankType DEF Upto, o
      <3> QED
        BY <1>1, <1>2, <3>1
    <2>2. CASE \E i \in 1..Len(s) : id = s[i]
      BY <1>1, <1>2, <1>4, <2>2
    <2> QED
      BY <1>8, <2>1, <2>2
  <1>12. ASSUME ~w.lost, NEW id \in w.stayed PROVE id \in SeenBy(v) \/ Shelf!Rank(S, id) > o + PageSize
    <2>1. id \in S /\ (id \in SeenBy(w) \/ Shelf!Rank(S, id) > o)
      BY <1>12 DEF Upto, o
    <2>2. Shelf!Rank(S, id) \in 1..n
      BY <1>3, <2>1, RankType DEF n
    <2>3. CASE Shelf!Rank(S, id) > o /\ Shelf!Rank(S, id) <= o + PageSize
      BY <1>4, <1>8, <2>1, <2>3
    <2> QED
      BY <1>1, <1>2, <1>3, <1>8, <2>1, <2>2, <2>3
  <1>14. ASSUME v.at = "paging"
         PROVE  v.page < MaxPage /\ Upto(v, Shelf!Section(v.kind, v.user), v.page * PageSize)
    <2>1. n > p * PageSize
      BY <1>2, <1>13, <1>14, <1>16
    <2>2. p * PageSize < MaxPage * PageSize
      BY <1>1, <1>2, <1>3, <2>1 DEF n
    <2>3. p < MaxPage
      BY <1>1, <1>2, <2>2
    <2>4. w.stayed \subseteq S
      BY DEF Upto
    <2> QED
      BY <1>2, <1>10, <1>11, <1>12, <1>13, <2>3, <2>4 DEF Upto
  <1>15. ASSUME v.at = "ended", ~v.lost, NEW id \in v.stayed PROVE id \in SeenBy(v)
    <2>1. n <= o + PageSize
      BY <1>1, <1>2, <1>3, <1>13, <1>15, <1>16 DEF n
    <2>2. id \in S /\ id \in w.stayed
      BY <1>13, <1>15 DEF Upto
    <2>3. Shelf!Rank(S, id) \in 1..n
      BY <1>3, <2>2, RankType DEF n
    <2>4. ~(Shelf!Rank(S, id) > o + PageSize)
      BY <1>1, <1>2, <1>3, <2>1, <2>3
    <2> QED
      BY <1>12, <1>13, <1>15, <2>2, <2>4
  <1>17. Walking(v)
    BY <1>9, <1>10, <1>13, <1>14, <1>15 DEF Walking
  <1> QED
    BY <1>17 DEF v, sec

Walked == walk = Shelf!Resting \/ Walking(walk)

LEMMA WalkBegun ==
  ASSUME Table(songs, last), NEW u \in Users, NEW kind \in Shelf!Kinds, NEW n \in 0..(MaxPage + 1),
         Shelf!handleHistory(u, kind, n)
  PROVE  Walked'
  <1> DEFINE p == Shelf!pageParam(n)
             S == Shelf!Section(kind, u)
             o == (p - 1) * PageSize
             w == [at |-> "paging", user |-> u, kind |-> kind, page |-> p, seen |-> << >>,
                   stayed |-> IF p = 1 THEN S ELSE {}, lost |-> FALSE, gained |-> FALSE]
  <1>1. walk' = Shelf!Shown(w, p) /\ songs' = songs
    BY DEF Shelf!handleHistory
  <1>2. MaxPage \in Nat \ {0} /\ PageSize \in Nat \ {0}
    BY Sized
  <1>3. p \in 1..MaxPage
    BY <1>2 DEF Shelf!pageParam
  <1>4. S \subseteq Shelf!Ids /\ S \subseteq Nat /\ IsFiniteSet(S)
    BY SectionType DEF Shelf!Section
  <1>5. << >> \in Seq(Shelf!Ids)
    OBVIOUS
  <1> HIDE DEF p, S
  <1>6. w \in Walk
    BY <1>3, <1>4, <1>5 DEF Walk
  <1>7. /\ w.at = "paging" /\ w.kind = kind /\ w.user = u /\ w.seen = << >> /\ w.page = p
        /\ w.stayed = IF p = 1 THEN S ELSE {}
    OBVIOUS
  <1> HIDE DEF w
  <1>9. SeenBy(w) = {} /\ NeverTwice(w)
    BY <1>7 DEF SeenBy, NeverTwice
  <1>10. ASSUME NEW id \in w.stayed PROVE Shelf!Rank(S, id) > o
    <2>1. p = 1 /\ id \in S
      BY <1>7, <1>10
    <2>2. o = 0
      BY <1>2, <2>1
    <2>3. Cardinality(S) \in Nat /\ Shelf!Rank(S, id) \in 1..Cardinality(S)
      BY <1>4, <2>1, RankType
    <2> HIDE DEF o
    <2> QED
      BY <2>2, <2>3
  <1>11. w.stayed \subseteq S
    BY <1>7
  <1>12. Upto(w, Shelf!Section(w.kind, w.user), (p - 1) * PageSize)
    BY <1>7, <1>9, <1>10, <1>11 DEF Upto, S
  <1>14. Walking(walk')
    BY <1>1, <1>3, <1>6, <1>7, <1>12, PageTurned
  <1> QED
    BY <1>1, <1>14 DEF Walked, Walking, Shelf!Section

LEMMA WalkGoesOn ==
  ASSUME Table(songs, last), Walked, Shelf!sectionFragment
  PROVE  Walked'
  <1> DEFINE p == Shelf!pageParam(walk.page + 1)
  <1>1. /\ walk.at = "paging" /\ songs' = songs
        /\ walk' = Shelf!Shown(walk, p)
    BY DEF Shelf!sectionFragment
  <1>2. MaxPage \in Nat \ {0} /\ PageSize \in Nat \ {0}
    BY Sized
  <1>3. Walking(walk)
    BY <1>1 DEF Walked, Shelf!Resting
  <1>4. /\ walk \in Walk /\ walk.page \in 1..MaxPage /\ walk.page < MaxPage
        /\ Upto(walk, Shelf!Section(walk.kind, walk.user), walk.page * PageSize)
    BY <1>1, <1>3 DEF Walking, Walk
  <1>5. p = walk.page + 1 /\ p \in 1..MaxPage /\ p - 1 = walk.page
    BY <1>2, <1>4 DEF Shelf!pageParam
  <1> HIDE DEF p
  <1>6. Walking(walk')
    BY <1>1, <1>4, <1>5, PageTurned
  <1> QED
    BY <1>1, <1>6 DEF Walked, Walking, Shelf!Section

\* Whatever changes the table, a walk under way takes notice.
LEMMA WalkNotices ==
  ASSUME Table(songs, last), Table(songs', last'), Walked, Shelf!Noticed
  PROVE  Walked'
  <1>1. CASE walk = Shelf!Resting
    BY <1>1 DEF Walked, Shelf!Noticed, Shelf!Resting
  <1>2. CASE Walking(walk) /\ walk.at # "paging"
    <2>1. walk' = walk
      BY <1>2 DEF Shelf!Noticed
    <2>2. Walking(walk)'
      BY <1>2, <2>1 DEF Walking, SeenBy, NeverTwice
    <2> QED
      BY <2>2 DEF Walked
  <1>3. CASE Walking(walk) /\ walk.at = "paging"
    <2> DEFINE S == Shelf!SectionOf(songs, walk.kind, walk.user)
               T == Shelf!SectionOf(songs', walk.kind, walk.user)
               o == walk.page * PageSize
    <2>1. /\ walk \in Walk /\ walk.page < MaxPage /\ walk.page \in 1..MaxPage /\ Upto(walk, S, o)
          /\ walk.lost \in BOOLEAN /\ walk.gained \in BOOLEAN /\ walk.stayed \in SUBSET Shelf!Ids
      BY <1>3 DEF Walking, Walk, Shelf!Section
    <2>2. /\ S \subseteq Nat /\ IsFiniteSet(S) /\ T \subseteq Nat /\ IsFiniteSet(T)
          /\ Cardinality(S) \in Nat /\ Cardinality(T) \in Nat
      BY SectionType
    <2>3. o \in Nat
      BY <2>1, Sized
    <2>4. walk' = [walk EXCEPT !.stayed = walk.stayed \cap T,
                               !.lost = walk.lost \/ ~(S \subseteq T),
                               !.gained = walk.gained \/ ~(T \subseteq S)]
      BY <1>3 DEF Shelf!Noticed, Shelf!Section
    <2> HIDE DEF S, T, o
    <2>5. /\ walk' \in Walk /\ walk'.at = "paging" /\ walk'.page = walk.page /\ walk'.kind = walk.kind
          /\ walk'.user = walk.user /\ walk'.seen = walk.seen
          /\ walk'.stayed = walk.stayed \cap T
      BY <1>3, <2>1, <2>4 DEF Walk
    <2>6. ~walk'.lost => ~walk.lost /\ S \subseteq T
      BY <2>1, <2>4 DEF Walk
    <2>7. ~walk'.gained => ~walk.gained /\ T \subseteq S
      BY <2>1, <2>4 DEF Walk
    <2>8. SeenBy(walk') = SeenBy(walk) /\ (NeverTwice(walk') <=> NeverTwice(walk))
      BY <2>5 DEF SeenBy, NeverTwice
    <2>9. ASSUME ~walk'.lost, NEW id \in walk'.stayed
          PROVE  id \in SeenBy(walk') \/ Shelf!Rank(T, id) > o
      <3>1. /\ id \in walk.stayed /\ id \in T /\ id \in S /\ S \in SUBSET T
            /\ (id \in SeenBy(walk) \/ Shelf!Rank(S, id) > o)
        BY <2>1, <2>5, <2>6, <2>9 DEF Upto
      <3>2. Shelf!Rank(S, id) <= Shelf!Rank(T, id)
        BY <2>2, <3>1, RankGrows
      <3>3. Shelf!Rank(S, id) \in 1..Cardinality(S) /\ Shelf!Rank(T, id) \in 1..Cardinality(T)
        BY <2>2, <3>1, RankType
      <3> QED
        BY <2>2, <2>3, <2>8, <3>1, <3>2, <3>3
    <2>10. ASSUME ~walk'.gained, NEW id \in SeenBy(walk') \cap T
           PROVE  Shelf!Rank(T, id) <= o
      <3>1. id \in S /\ T \in SUBSET S /\ Shelf!Rank(S, id) <= o
        BY <2>1, <2>7, <2>8, <2>10 DEF Upto
      <3>2. Shelf!Rank(T, id) <= Shelf!Rank(S, id)
        BY <2>2, <3>1, RankGrows
      <3>3. Shelf!Rank(S, id) \in 1..Cardinality(S) /\ Shelf!Rank(T, id) \in 1..Cardinality(T)
        BY <2>2, <2>10, <3>1, RankType
      <3> QED
        BY <2>2, <2>3, <3>1, <3>2, <3>3
    <2>11. ~walk'.gained => NeverTwice(walk')
      BY <2>1, <2>7, <2>8 DEF Upto
    <2>12. Upto(walk', T, o)
      BY <2>5, <2>9, <2>10, <2>11 DEF Upto
    <2>13. Walking(walk)'
      BY <2>1, <2>5, <2>12 DEF Walking, Shelf!Section, T, o
    <2> QED
      BY <2>13 DEF Walked
  <1> QED
    BY <1>1, <1>2, <1>3 DEF Walked

-----------------------------------------------------------------------------
(* The table and the request for a song's audio.                              *)

Fetch == [at : {"own", "public", "served", "refused"}, user : Users, song : Shelf!Ids,
          entitled : BOOLEAN, always : BOOLEAN]

\* Inductive with Table: who was entitled by a share at the first read, but not
\* as the owner, does not become the owner, since ids are not given out again.
Fetched ==
    \/ fetch = Shelf!Resting
    \/ /\ fetch \in Fetch
       /\ fetch.at = "served" => fetch.entitled
       /\ fetch.at = "refused" => ~fetch.always
       /\ fetch.at = "public" /\ fetch.always =>
            /\ fetch.song <= last
            /\ fetch.song \in DOMAIN songs => ~Shelf!OwnedBy(fetch.song, fetch.user)

ShelfInv == Table(songs, last) /\ Walked /\ Fetched

\* A change of the table keeps owners and brings back no id.
Changes ==
    /\ Table(songs', last') /\ last <= last'
    /\ \A id \in DOMAIN songs' : id <= last =>
         id \in DOMAIN songs /\ songs'[id].owner = songs[id].owner
    /\ Shelf!Noticed /\ fetch' = fetch

LEMMA CreateChanges ==
  ASSUME Table(songs, last), NEW u \in Users, Shelf!CreateSong(u)
  PROVE  Changes
  <1>1. MaxSongs \in Nat /\ last \in 0..MaxSongs /\ last < MaxSongs /\ last' = last + 1
    BY Sized DEF Table, Shelf!CreateSong
  <1>2. DOMAIN songs' = DOMAIN songs \cup {last'} /\ DOMAIN songs \subseteq 1..last
    BY DEF Shelf!CreateSong, Table
  <1>3. \A id \in DOMAIN songs' : songs'[id] = IF id = last' THEN [owner |-> u, shared |-> FALSE] ELSE songs[id]
    BY DEF Shelf!CreateSong
  <1>4. [owner |-> u, shared |-> FALSE] \in [owner : Users, shared : BOOLEAN]
    OBVIOUS
  <1>5. \A id \in DOMAIN songs' : songs'[id] \in [owner : Users, shared : BOOLEAN]
    BY <1>2, <1>3, <1>4 DEF Table
  <1>6. \A id \in DOMAIN songs' : id <= last => id \in DOMAIN songs /\ songs'[id] = songs[id]
    BY <1>1, <1>2, <1>3
  <1>7. Table(songs', last')
    BY <1>1, <1>2, <1>5 DEF Table
  <1> QED
    BY <1>1, <1>6, <1>7 DEF Changes, Shelf!CreateSong

LEMMA ShareChanges ==
  ASSUME Table(songs, last), NEW u \in Users, NEW id \in Shelf!Ids, NEW public \in BOOLEAN,
         Shelf!SetSongPublic(u, id, public)
  PROVE  Changes
  <1>1. /\ id \in DOMAIN songs /\ last' = last /\ fetch' = fetch /\ Shelf!Noticed
        /\ songs' = [songs EXCEPT ![id].shared = public]
    BY DEF Shelf!SetSongPublic
  <1>2. DOMAIN songs' = DOMAIN songs
    BY <1>1
  <1>3. \A i \in DOMAIN songs : songs[i] \in [owner : Users, shared : BOOLEAN]
    BY DEF Table
  <1>4. \A i \in DOMAIN songs : /\ songs'[i] \in [owner : Users, shared : BOOLEAN]
                                /\ songs'[i].owner = songs[i].owner
    BY <1>1, <1>3
  <1> QED
    BY <1>1, <1>2, <1>4, Sized DEF Changes, Table

LEMMA DeleteChanges ==
  ASSUME Table(songs, last), NEW u \in Users, NEW id \in Shelf!Ids, Shelf!DeleteSong(u, id)
  PROVE  Changes
  <1>1. last' = last /\ fetch' = fetch /\ Shelf!Noticed /\ songs' = [i \in DOMAIN songs \ {id} |-> songs[i]]
    BY DEF Shelf!DeleteSong
  <1>2. DOMAIN songs' \subseteq DOMAIN songs /\ \A i \in DOMAIN songs' : songs'[i] = songs[i]
    BY <1>1
  <1> QED
    BY <1>1, <1>2, Sized DEF Changes, Table

LEMMA ChangeKeeps == ASSUME ShelfInv, Changes PROVE ShelfInv'
  <1>1. Table(songs, last)' /\ Walked'
    BY WalkNotices DEF ShelfInv, Changes
  <1>2. CASE fetch = Shelf!Resting
    BY <1>1, <1>2 DEF ShelfInv, Changes, Fetched, Shelf!Resting
  <1>3. CASE fetch \in Fetch
    <2>1. Fetched /\ fetch' = fetch
      BY DEF ShelfInv, Changes
    <2>2. fetch # Shelf!Resting
      BY <1>3 DEF Fetch, Shelf!Resting
    <2>3. last \in Nat /\ last' \in Nat /\ fetch.song \in Nat /\ last <= last'
      BY <1>1, <1>3, Sized DEF Table, Fetch, Shelf!Ids, ShelfInv, Changes
    <2>4. ASSUME fetch.at = "public", fetch.always
          PROVE  /\ fetch.song <= last'
                 /\ fetch.song \in DOMAIN songs' => ~Shelf!OwnedBy(fetch.song, fetch.user)'
      <3>1. /\ fetch.song <= last
            /\ fetch.song \in DOMAIN songs => ~Shelf!OwnedBy(fetch.song, fetch.user)
        BY <2>1, <2>2, <2>4 DEF Fetched
      <3> QED
        BY <2>1, <2>3, <3>1 DEF Changes, Shelf!OwnedBy
    <2>5. Fetched'
      BY <2>1, <2>2, <2>4 DEF Fetched
    <2> QED
      BY <1>1, <2>5 DEF ShelfInv
  <1> QED
    BY <1>2, <1>3 DEF ShelfInv, Fetched

LEMMA AudioAsked ==
  ASSUME ShelfInv, NEW u \in Users, NEW id \in Shelf!Ids, Shelf!handleAudio(u, id)
  PROVE  Fetched'
  <1>1. fetch' = [at |-> "own", user |-> u, song |-> id, entitled |-> FALSE, always |-> TRUE]
    BY DEF Shelf!handleAudio
  <1> QED
    BY <1>1 DEF Fetched, Fetch

LEMMA AudioRead ==
  ASSUME ShelfInv, Shelf!Song \/ Shelf!PublicSong
  PROVE  Fetched'
  <1> DEFINE id == fetch.song
             own == Shelf!OwnedBy(id, fetch.user)
             there == id \in DOMAIN songs
             shared == songs[id].shared
             ok == Shelf!Entitled(fetch.user, fetch.song)
  <1>1. fetch \in Fetch /\ fetch.at \in {"own", "public"}
    BY DEF Shelf!Song, Shelf!PublicSong, ShelfInv, Fetched, Shelf!Resting
  <1>2. /\ fetch.user \in Users /\ id \in Shelf!Ids /\ fetch.entitled \in BOOLEAN /\ fetch.always \in BOOLEAN
    BY <1>1 DEF Fetch
  <1>3. ok = (there /\ (own \/ shared)) /\ ok \in BOOLEAN /\ own \in BOOLEAN /\ there \in BOOLEAN
    BY DEF Shelf!Entitled, Shelf!OwnedBy
  <1>4. there => shared \in BOOLEAN /\ id <= last
    BY DEF ShelfInv, Table
  <1>5. /\ Shelf!Song => Shelf!Found(IF there /\ own THEN "served" ELSE "public")
        /\ Shelf!PublicSong => Shelf!Found(IF there /\ shared THEN "served" ELSE "refused")
    BY DEF Shelf!Song, Shelf!PublicSong
  <1>6. ASSUME NEW to \in {"own", "public", "served", "refused"}, Shelf!Found(to)
        PROVE  /\ fetch' \in Fetch /\ fetch'.at = to /\ songs' = songs /\ last' = last
               /\ fetch'.user = fetch.user /\ fetch'.song = fetch.song
               /\ fetch'.entitled <=> fetch.entitled \/ ok
               /\ fetch'.always <=> fetch.always /\ ok
    <2> HIDE DEF ok
    <2>1. /\ fetch' = [fetch EXCEPT !.at = to, !.entitled = fetch.entitled \/ ok, !.always = fetch.always /\ ok]
          /\ songs' = songs /\ last' = last
      BY <1>6 DEF Shelf!Found, ok
    <2> QED
      BY <1>1, <1>2, <2>1 DEF Fetch
  <1> HIDE DEF own, there, ok, shared
  <1>7. CASE Shelf!Song
    <2>1. CASE there /\ own
      <3>1. Shelf!Found("served") /\ ok
        BY <1>3, <1>4, <1>5, <1>7, <2>1
      <3> QED
        BY <1>6, <3>1 DEF Fetched
    <2>2. CASE ~(there /\ own)
      <3>1. Shelf!Found("public")
        BY <1>5, <1>7, <2>2
      <3>2. ok => id <= last /\ ~own
        BY <1>3, <1>4, <2>2
      <3>3. Shelf!OwnedBy(fetch.song, fetch.user)' <=> own
        BY <1>6, <3>1 DEF Shelf!OwnedBy, own
      <3> QED
        BY <1>6, <3>1, <3>2, <3>3 DEF Fetched
    <2> QED
      BY <2>1, <2>2
  <1>8. CASE Shelf!PublicSong
    <2>1. CASE there /\ shared
      <3>1. Shelf!Found("served") /\ ok
        BY <1>3, <1>4, <1>5, <1>8, <2>1
      <3> QED
        BY <1>6, <3>1 DEF Fetched
    <2>2. CASE ~(there /\ shared)
      <3>1. Shelf!Found("refused")
        BY <1>5, <1>8, <2>2
      <3>2. fetch.at = "public"
        BY <1>8 DEF Shelf!PublicSong
      <3>3. fetch.always => ~ok
        <4>1. fetch # Shelf!Resting
          BY <3>2 DEF Shelf!Resting
        <4>2. fetch.always => (there => ~own)
          BY <3>2, <4>1 DEF ShelfInv, Fetched, own, there
        <4> QED
          BY <1>2, <1>3, <2>2, <4>2
      <3> QED
        BY <1>6, <3>1, <3>3 DEF Fetched
    <2> QED
      BY <2>1, <2>2
  <1> QED
    BY <1>7, <1>8

LEMMA ShelfInit == Shelf!Init => ShelfInv
  <1> SUFFICES ASSUME Shelf!Init PROVE ShelfInv
    OBVIOUS
  <1>1. DOMAIN songs = {} /\ last = 0 /\ MaxSongs \in Nat /\ 0 \in 0..MaxSongs
    BY Sized DEF Shelf!Init
  <1> QED
    BY <1>1 DEF Shelf!Init, ShelfInv, Table, Walked, Fetched

LEMMA ShelfStep == ShelfInv /\ [Shelf!Next]_(Shelf!vars) => ShelfInv'
  <1> SUFFICES ASSUME ShelfInv, [Shelf!Next]_(Shelf!vars) PROVE ShelfInv'
    OBVIOUS
  <1>1. Table(songs, last) /\ Walked /\ Fetched
    BY DEF ShelfInv
  <1>2. CASE UNCHANGED Shelf!vars
    BY <1>1, <1>2 DEF Shelf!vars, ShelfInv, Table, Walked, Walking, Upto, SeenBy, NeverTwice, Shelf!Section, Fetched,
      Shelf!OwnedBy
  <1>3. ASSUME NEW u \in Users, NEW kind \in Shelf!Kinds, NEW n \in 0..(MaxPage + 1), Shelf!handleHistory(u, kind, n)
        PROVE  ShelfInv'
    <2>1. UNCHANGED <<songs, last, fetch>> /\ Walked'
      BY <1>1, <1>3, WalkBegun DEF Shelf!handleHistory
    <2> QED
      BY <1>1, <2>1 DEF ShelfInv, Table, Fetched, Shelf!OwnedBy
  <1>4. CASE Shelf!sectionFragment
    <2>1. UNCHANGED <<songs, last, fetch>> /\ Walked'
      BY <1>1, <1>4, WalkGoesOn DEF Shelf!sectionFragment
    <2> QED
      BY <1>1, <2>1 DEF ShelfInv, Table, Fetched, Shelf!OwnedBy
  <1>5. ASSUME NEW u \in Users, NEW id \in Shelf!Ids, Shelf!handleAudio(u, id) PROVE ShelfInv'
    <2>1. UNCHANGED <<songs, last, walk>> /\ Fetched'
      BY <1>5, AudioAsked DEF Shelf!handleAudio
    <2> QED
      BY <1>1, <2>1 DEF ShelfInv, Table, Walked, Walking, Upto, SeenBy, NeverTwice, Shelf!Section
  <1>6. CASE Shelf!Song \/ Shelf!PublicSong
    <2>1. UNCHANGED <<songs, last, walk>> /\ Fetched'
      BY <1>6, AudioRead DEF Shelf!Song, Shelf!PublicSong, Shelf!Found
    <2> QED
      BY <1>1, <2>1 DEF ShelfInv, Table, Walked, Walking, Upto, SeenBy, NeverTwice, Shelf!Section
  <1>7. ASSUME NEW u \in Users, Shelf!CreateSong(u) PROVE ShelfInv'
    BY <1>1, <1>7, CreateChanges, ChangeKeeps
  <1>8. ASSUME NEW u \in Users, NEW id \in Shelf!Ids, NEW public \in BOOLEAN, Shelf!SetSongPublic(u, id, public)
        PROVE  ShelfInv'
    BY <1>1, <1>8, ShareChanges, ChangeKeeps
  <1>9. ASSUME NEW u \in Users, NEW id \in Shelf!Ids, Shelf!DeleteSong(u, id) PROVE ShelfInv'
    BY <1>1, <1>9, DeleteChanges, ChangeKeeps
  <1> QED
    BY <1>2, <1>3, <1>4, <1>5, <1>6, <1>7, <1>8, <1>9 DEF Shelf!Next

LEMMA ShelfAlways == Shelf!Spec => []ShelfInv
  BY ShelfInit, ShelfStep, PTL DEF Shelf!Spec

LEMMA ShelfTyped == ShelfInv => Shelf!TypeOK
  <1> SUFFICES ASSUME ShelfInv PROVE Shelf!TypeOK
    OBVIOUS
  <1>1. walk # Shelf!Resting => walk \in Walk
    BY DEF ShelfInv, Walked, Walking
  <1>2. fetch # Shelf!Resting => fetch \in Fetch
    BY DEF ShelfInv, Fetched
  <1> QED
    BY <1>1, <1>2 DEF ShelfInv, Table, Shelf!TypeOK, Walk, Fetch

(* However songs are filed, shared, unshared and deleted between its pages,   *)
(* and whatever the page size, a walk to the end of a section misses no song  *)
(* that stayed in it and shows none twice, within what the code's own remark  *)
(* on look-ahead promises (history.go:104-106).                               *)
THEOREM WalkAlwaysExact == Shelf!Spec => []WalkIsExact
  <1>1. ShelfInv => WalkIsExact
    <2> SUFFICES ASSUME ShelfInv PROVE WalkIsExact
      OBVIOUS
    <2>1. CASE walk = Shelf!Resting
      BY <2>1 DEF Shelf!Resting, WalkIsExact, Shelf!WalkIsExact
    <2>2. CASE Walking(walk)
      <3>1. walk.seen \in Seq(Shelf!Ids) /\ DOMAIN walk.seen = 1..Len(walk.seen) /\ walk.at \in {"paging", "ended"}
        BY <2>2 DEF Walking, Walk
      <3>2. walk.at = "ended" /\ ~walk.lost => walk.stayed \subseteq Shelf!ToSet(walk.seen)
        BY <2>2, <3>1 DEF Walking, SeenBy, Shelf!ToSet
      <3>3. ~walk.gained => NeverTwice(walk)
        BY <2>2, <3>1 DEF Walking, Upto
      <3>4. ~walk.gained => Shelf!IsInjective(walk.seen)
        BY <3>1, <3>3 DEF NeverTwice, Shelf!IsInjective
      <3> QED
        BY <3>2, <3>4 DEF WalkIsExact, Shelf!WalkIsExact
    <2> QED
      BY <2>1, <2>2 DEF ShelfInv, Walked
  <1> QED
    BY <1>1, ShelfAlways, PTL

(* Nobody hears a song he is entitled to at neither of the two reads, and     *)
(* nobody entitled at both is refused, whatever happens in between            *)
(* (access.go:452-460).                                                       *)
THEOREM AlwaysServedToTheEntitled == Shelf!Spec => []ServedToTheEntitled
  <1>1. ShelfInv => ServedToTheEntitled
    BY DEF ShelfInv, Fetched, Shelf!Resting, ServedToTheEntitled, Shelf!ServedToTheEntitled
  <1> QED
    BY <1>1, ShelfAlways, PTL

-----------------------------------------------------------------------------
(* Accounts.                                                                  *)

Callers == Accounts \cup {ConfigAdmin}
Whats == {"approve", "disable", "delete"}
Cookies == Tokens \cup {NoToken}

Outside == [at : {"idle"}]
           \cup [at : {"password"}, user : Callers, cookie : Cookies, status : Statuses]
           \cup [at : {"startSession"}, user : Callers, cookie : Cookies]
           \cup [at : {"createSession"}, user : Callers]
           \cup [at : {"admitted"}, user : Callers, admin : BOOLEAN]
Inside == [at : {"guard", "write"}, what : Whats, target : Accounts]

RowsType ==
    /\ admins \subseteq Accounts
    /\ users \in [Accounts -> Statuses] /\ epoch \in [Accounts -> 0..MaxEpoch]
    /\ DOMAIN sessions \subseteq issued /\ issued \subseteq Tokens
    /\ \A t \in DOMAIN sessions : sessions[t] \in SessionRow /\ (sessions[t].configAdmin <=> sessions[t].user = ConfigAdmin)
    /\ era \in 0..MaxEra

RequestsType ==
    /\ req \in [Requests -> Outside \cup Inside]
    /\ conn \in Requests \cup {Nobody}
    /\ \A r \in Requests : req[r] \in Inside <=> conn = r

\* What guardLastAdmin found in the transaction still holds when it writes.
Guarded == \A r \in Requests :
    req[r].at = "write" /\ req[r].what # "approve" => HasRow(req[r].target) /\ ~LastAdmin(req[r].target)

AccountsInv == RowsType /\ RequestsType /\ Guarded /\ AdminRemains /\ SessionsAreCurrent

LEMMA AccountsInit == Init => AccountsInv
  <1> SUFFICES ASSUME Init PROVE AccountsInv
    OBVIOUS
  <1>1. RowsType
    BY BoundsAreNumbers DEF Init, RowsType, Statuses
  <1>2. Idle \in Outside /\ Idle \notin Inside
    BY DEF Idle, Outside, Inside
  <1>3. RequestsType
    BY <1>2, NobodyAsks DEF Init, RequestsType
  <1>4. Guarded
    BY DEF Init, Guarded, Idle
  <1> QED
    BY <1>1, <1>3, <1>4 DEF Init, AccountsInv, AdminRemains, SessionsAreCurrent

\* A step of one request outside a transaction, which leaves the accounts alone.
LEMMA OutsideStep ==
  ASSUME RequestsType, Guarded, AdminRemains, NEW r \in Requests, NEW from, from \notin {"guard", "write"},
         NEW to \in Outside, Step(r, from, to), UNCHANGED <<users, admins, conn>>
  PROVE  RequestsType' /\ Guarded' /\ AdminRemains'
  <1>1. req[r].at = from /\ req' = [req EXCEPT ![r] = to] /\ req \in [Requests -> Outside \cup Inside]
    BY DEF Step, RequestsType
  <1>2. req[r] \notin Inside /\ to \notin Inside /\ to.at # "write"
    BY <1>1 DEF Inside, Outside
  <1>3. req'[r] = to /\ \A q \in Requests \ {r} : req'[q] = req[q]
    BY <1>1
  <1>4. RequestsType'
    BY <1>1, <1>2, <1>3 DEF RequestsType
  <1>5. Guarded'
    BY <1>2, <1>3 DEF Guarded, HasRow, LastAdmin, ApprovedAdmins
  <1> QED
    BY <1>4, <1>5 DEF AdminRemains, ApprovedAdmins

LEMMA WithoutRows ==
  ASSUME RowsType, SessionsAreCurrent, NEW T, sessions' = [t \in DOMAIN sessions \ T |-> sessions[t]],
         UNCHANGED <<users, epoch, admins, issued, era>>
  PROVE  RowsType' /\ SessionsAreCurrent'
  <1>1. DOMAIN sessions' \subseteq DOMAIN sessions /\ \A t \in DOMAIN sessions' : sessions'[t] = sessions[t]
    OBVIOUS
  <1> QED
    BY <1>1 DEF RowsType, SessionsAreCurrent

LEMMA SameRowsStay ==
  ASSUME RowsType, SessionsAreCurrent, UNCHANGED <<users, epoch, admins, issued, era, sessions>>
  PROVE  RowsType' /\ SessionsAreCurrent'
  BY DEF RowsType, SessionsAreCurrent

LEMMA RegisterKeeps ==
  ASSUME AccountsInv, UNCHANGED admins, NEW a \in Accounts, Register(a)
  PROVE  AccountsInv'
  <1>1. /\ users[a] = "none" /\ users' = [users EXCEPT ![a] = "pending"] /\ conn = Nobody
        /\ UNCHANGED <<epoch, sessions, issued, era, conn, req>>
    BY DEF Register, Free
  <1>2. users \in [Accounts -> Statuses] /\ admins \subseteq Accounts
    BY DEF AccountsInv, RowsType
  <1>3. RowsType' /\ SessionsAreCurrent'
    BY <1>1, <1>2 DEF AccountsInv, RowsType, SessionsAreCurrent, Statuses
  <1>4. RequestsType'
    BY <1>1 DEF AccountsInv, RequestsType
  <1>5. Guarded'
    <2>1. \A r \in Requests : req[r] \notin Inside /\ req[r] \in Outside
      BY <1>1, NobodyAsks DEF AccountsInv, RequestsType
    <2>2. \A r \in Requests : req[r].at # "write"
      BY <2>1 DEF Outside
    <2> QED
      BY <1>1, <2>2 DEF Guarded
  <1>6. ApprovedAdmins' = ApprovedAdmins
    BY <1>1, <1>2 DEF ApprovedAdmins
  <1> QED
    BY <1>3, <1>4, <1>5, <1>6 DEF AccountsInv, AdminRemains

LEMMA LoginKeeps ==
  ASSUME AccountsInv, UNCHANGED admins, NEW r \in Requests,
         \/ \E a \in Callers, t \in issued \cup {NoToken} : LoginLookup(r, a, t)
         \/ LoginRefused(r) \/ LoginVerified(r) \/ Finish(r)
  PROVE  AccountsInv'
  <1>1. UNCHANGED <<users, epoch, admins, issued, era, sessions, conn>>
    BY DEF LoginLookup, LoginRefused, LoginVerified, Finish
  <1>2. RowsType' /\ SessionsAreCurrent'
    BY <1>1, SameRowsStay DEF AccountsInv
  <1>3. req[r] \in Outside \cup Inside /\ issued \subseteq Tokens /\ users \in [Accounts -> Statuses]
    BY DEF AccountsInv, RowsType, RequestsType
  <1>4. \E from \in {"idle", "password", "admitted"}, to \in Outside : Step(r, from, to)
    <2>1. ASSUME NEW a \in Callers, NEW t \in issued \cup {NoToken}, LoginLookup(r, a, t)
          PROVE  \E to \in Outside : Step(r, "idle", to)
      <3> DEFINE status == IF a = ConfigAdmin THEN "approved" ELSE users[a]
                 to == [at |-> "password", user |-> a, cookie |-> t, status |-> status]
      <3>1. status \in Statuses /\ t \in Cookies
        BY <1>3 DEF Callers, Statuses, Cookies
      <3>2. Step(r, "idle", to)
        BY <2>1 DEF LoginLookup
      <3> HIDE DEF status
      <3>3. to \in Outside
        BY <3>1 DEF Outside
      <3> QED
        BY <3>2, <3>3
    <2>2. Idle \in Outside
      BY DEF Idle, Outside
    <2>3. CASE LoginRefused(r)
      BY <2>2, <2>3 DEF LoginRefused, Done
    <2>4. CASE Finish(r)
      BY <2>2, <2>4 DEF Finish, Done
    <2>5. CASE LoginVerified(r)
      <3> DEFINE to == [at |-> "startSession", user |-> req[r].user, cookie |-> req[r].cookie]
      <3>1. req[r].at = "password" /\ Step(r, "password", to)
        BY <2>5 DEF LoginVerified
      <3>2. req[r].user \in Callers /\ req[r].cookie \in Cookies
        BY <1>3, <3>1 DEF Outside, Inside
      <3>3. to \in Outside
        BY <3>2 DEF Outside
      <3> QED
        BY <3>1, <3>3
    <2> QED
      BY <2>1, <2>3, <2>4, <2>5
  <1> QED
    BY <1>1, <1>2, <1>4, OutsideStep DEF AccountsInv

LEMMA RevokeKeeps ==
  ASSUME AccountsInv, UNCHANGED admins, NEW r \in Requests, RevokePresented(r)
  PROVE  AccountsInv'
  <1>1. req[r].at = "startSession" /\ UNCHANGED <<users, epoch, admins, issued, era, conn>>
    BY DEF RevokePresented
  <1>2. req[r] \in Outside \cup Inside
    BY DEF AccountsInv, RequestsType
  <1>3. \E to \in Outside : Step(r, "startSession", to)
    <2>1. req[r].user \in Callers
      BY <1>1, <1>2 DEF Outside, Inside
    <2>2. [at |-> "createSession", user |-> req[r].user] \in Outside /\ Idle \in Outside
      BY <2>1 DEF Outside, Idle
    <2> QED
      BY <2>2 DEF RevokePresented, Done
  <1>4. RowsType' /\ SessionsAreCurrent'
    <2>1. CASE sessions' = Without(req[r].cookie)
      <3>1. sessions' = [t \in DOMAIN sessions \ {req[r].cookie} |-> sessions[t]]
        BY <2>1 DEF Without
      <3> QED
        BY <1>1, <3>1, WithoutRows DEF AccountsInv
    <2>2. CASE UNCHANGED sessions
      BY <1>1, <2>2, SameRowsStay DEF AccountsInv
    <2> QED
      BY <2>1, <2>2 DEF RevokePresented
  <1> QED
    BY <1>1, <1>3, <1>4, OutsideStep DEF AccountsInv

LEMMA CreateKeeps ==
  ASSUME AccountsInv, UNCHANGED admins, NEW r \in Requests, CreateSession(r)
  PROVE  AccountsInv'
  <1>1. req[r].at = "createSession" /\ UNCHANGED <<users, epoch, admins, era, conn>> /\ Step(r, "createSession", Idle)
    BY DEF CreateSession, Done
  <1>2. req[r] \in Outside \cup Inside /\ RowsType /\ SessionsAreCurrent
    BY DEF AccountsInv, RequestsType
  <1>3. PICK t \in Tokens \ issued :
          /\ issued' = issued \cup {t}
          /\ \/ sessions' = [u \in DOMAIN sessions \cup {t} |-> IF u = t THEN Row(req[r].user) ELSE sessions[u]]
             \/ UNCHANGED sessions
    BY DEF CreateSession
  <1>4. req[r].user \in Callers
    BY <1>1, <1>2 DEF Outside, Inside
  <1> DEFINE row == Row(req[r].user)
  <1>5. /\ row \in SessionRow /\ (row.configAdmin <=> row.user = ConfigAdmin)
        /\ row.user \in Accounts => row.epoch = epoch[row.user]
        /\ row.era = era
    <2> DEFINE e == IF req[r].user = ConfigAdmin THEN 0 ELSE epoch[req[r].user]
    <2>1. e \in 0..MaxEpoch /\ era \in 0..MaxEra
      BY <1>2, <1>4, BoundsAreNumbers DEF RowsType, Callers
    <2>2. row = [user |-> req[r].user, configAdmin |-> req[r].user = ConfigAdmin, era |-> era,
                 expired |-> FALSE, epoch |-> e]
      BY DEF Row
    <2>3. req[r].user \in Accounts => e = epoch[req[r].user]
      BY ConfigAdminHasNoRow
    <2> HIDE DEF e, row
    <2> QED
      BY <1>4, <2>1, <2>2, <2>3 DEF SessionRow, Callers
  <1> HIDE DEF row
  <1>6. CASE UNCHANGED sessions
    <2>1. RowsType' /\ SessionsAreCurrent'
      BY <1>1, <1>2, <1>3, <1>6 DEF RowsType, SessionsAreCurrent
    <2>2. Idle \in Outside
      BY DEF Idle, Outside
    <2> QED
      BY <1>1, <2>1, <2>2, OutsideStep DEF AccountsInv
  <1>7. CASE sessions' = [u \in DOMAIN sessions \cup {t} |-> IF u = t THEN row ELSE sessions[u]]
    <2>1. DOMAIN sessions' = DOMAIN sessions \cup {t}
      BY <1>7
    <2>2. \A u \in DOMAIN sessions' : sessions'[u] = IF u = t THEN row ELSE sessions[u]
      BY <1>7
    <2>3. RowsType'
      BY <1>1, <1>2, <1>3, <1>5, <2>1, <2>2 DEF RowsType, SessionRow
    <2>4. SessionsAreCurrent'
      BY <1>1, <1>2, <1>5, <2>1, <2>2 DEF SessionsAreCurrent
    <2>5. Idle \in Outside
      BY DEF Idle, Outside
    <2> QED
      BY <1>1, <2>3, <2>4, <2>5, OutsideStep DEF AccountsInv
  <1> QED
    BY <1>3, <1>6, <1>7 DEF row

LEMMA LogoutKeeps ==
  ASSUME AccountsInv, UNCHANGED admins, NEW t \in Tokens, Logout(t)
  PROVE  AccountsInv'
  <1>1. UNCHANGED <<users, epoch, admins, issued, era, conn, req>>
    BY DEF Logout
  <1>2. sessions' = [u \in DOMAIN sessions \ {t} |-> sessions[u]]
    BY DEF Logout, Without
  <1>3. RowsType' /\ SessionsAreCurrent'
    BY <1>1, <1>2, WithoutRows DEF AccountsInv
  <1> QED
    BY <1>1, <1>3 DEF AccountsInv, RequestsType, Guarded, HasRow, LastAdmin, ApprovedAdmins, AdminRemains

LEMMA ExpireKeeps ==
  ASSUME AccountsInv, UNCHANGED admins, NEW t \in Tokens, Expire(t)
  PROVE  AccountsInv'
  <1>1. /\ t \in DOMAIN sessions /\ sessions' = [sessions EXCEPT ![t].expired = TRUE]
        /\ UNCHANGED <<users, epoch, admins, issued, era, conn, req>>
    BY DEF Expire
  <1>2. RowsType /\ SessionsAreCurrent
    BY DEF AccountsInv
  <1>3. DOMAIN sessions' = DOMAIN sessions
    BY <1>1
  <1>4. ASSUME NEW u \in DOMAIN sessions
        PROVE  /\ sessions'[u] \in SessionRow /\ sessions'[u].user = sessions[u].user
               /\ sessions'[u].configAdmin <=> sessions[u].configAdmin
               /\ sessions'[u].epoch = sessions[u].epoch /\ sessions'[u].era = sessions[u].era
    <2>1. sessions[u] \in SessionRow
      BY <1>2 DEF RowsType
    <2> QED
      BY <1>1, <2>1 DEF SessionRow
  <1>5. RowsType'
    BY <1>1, <1>2, <1>3, <1>4 DEF RowsType
  <1>6. SessionsAreCurrent'
    BY <1>1, <1>2, <1>3, <1>4 DEF SessionsAreCurrent
  <1> QED
    BY <1>1, <1>5, <1>6 DEF AccountsInv, RequestsType, Guarded, HasRow, LastAdmin, ApprovedAdmins, AdminRemains

\* Whom a token stands for: nobody, or an account approved now.
LEMMA WhoAsks ==
  ASSUME RowsType, NEW t, GetSession(t) # Denied
  PROVE  /\ GetSession(t).user \in Callers /\ GetSession(t).admin \in BOOLEAN
         /\ GetSession(t).user # ConfigAdmin =>
              /\ GetSession(t).user \in Accounts /\ users[GetSession(t).user] = "approved"
              /\ GetSession(t).admin => GetSession(t).user \in admins
  <1>1. t \in DOMAIN sessions /\ ~sessions[t].expired
    BY DEF GetSession
  <1>2. sessions[t] \in SessionRow /\ (sessions[t].configAdmin <=> sessions[t].user = ConfigAdmin)
    BY <1>1 DEF RowsType
  <1> DEFINE s == sessions[t]
  <1>3. s.user \in Callers
    BY <1>2 DEF SessionRow, Callers
  <1> HIDE DEF s
  <1>4. CASE s.user \in Accounts /\ HasRow(s.user)
    <2>1. users[s.user] = "approved" /\ GetSession(t) = [user |-> s.user, admin |-> s.user \in admins]
      BY <1>1, <1>4 DEF GetSession, s
    <2> DEFINE adm == s.user \in admins
    <2>2. GetSession(t).user = s.user /\ GetSession(t).admin = adm /\ adm \in BOOLEAN
      BY <2>1
    <2>3. adm => s.user \in admins
      OBVIOUS
    <2> HIDE DEF adm
    <2> QED
      BY <1>3, <1>4, <2>1, <2>2, <2>3
  <1>5. CASE ~(s.user \in Accounts /\ HasRow(s.user))
    <2>1. s.configAdmin /\ GetSession(t) = [user |-> s.user, admin |-> TRUE]
      BY <1>1, <1>5 DEF GetSession, s
    <2>2. s.user = ConfigAdmin
      BY <1>2, <2>1 DEF s
    <2> QED
      BY <1>3, <2>1, <2>2
  <1> QED
    BY <1>4, <1>5

LEMMA AuthenticateKeeps ==
  ASSUME AccountsInv, UNCHANGED admins, NEW r \in Requests, NEW t \in issued, authenticate(r, t)
  PROVE  AccountsInv'
  <1> DEFINE to == [at |-> "admitted", user |-> GetSession(t).user, admin |-> GetSession(t).admin]
  <1>1. UNCHANGED <<users, epoch, admins, issued, era, sessions, conn>> /\ Step(r, "idle", to) /\ GetSession(t) # Denied
    BY DEF authenticate
  <1>2. GetSession(t).user \in Callers /\ GetSession(t).admin \in BOOLEAN
    BY <1>1, WhoAsks DEF AccountsInv
  <1>3. to \in Outside
    BY <1>2 DEF Outside
  <1>4. RowsType' /\ SessionsAreCurrent'
    BY <1>1, SameRowsStay DEF AccountsInv
  <1> QED
    BY <1>1, <1>3, <1>4, OutsideStep DEF AccountsInv

\* Nobody else is inside a transaction.
LEMMA Alone ==
  ASSUME RequestsType
  PROVE  /\ Free => \A r \in Requests : req[r] \in Outside /\ req[r].at # "write"
         /\ \A r \in Requests : req[r] \in Inside =>
              \A q \in Requests \ {r} : req[q] \in Outside /\ req[q].at # "write"
  <1>1. \A r \in Requests : req[r] \notin Inside => req[r] \in Outside /\ req[r].at # "write"
    BY DEF RequestsType, Outside
  <1>2. Free => \A r \in Requests : req[r] \notin Inside
    BY NobodyAsks DEF RequestsType, Free
  <1>3. \A r \in Requests : req[r] \in Inside => \A q \in Requests \ {r} : req[q] \notin Inside
    BY DEF RequestsType
  <1> QED
    BY <1>1, <1>2, <1>3

LEMMA AdminKeeps ==
  ASSUME AccountsInv, UNCHANGED admins, NEW r \in Requests, NEW what \in Whats, NEW a \in Accounts,
         adminAction(r, what, a)
  PROVE  AccountsInv'
  <1> DEFINE at == IF what = "approve" THEN "write" ELSE "guard"
             to == [at |-> at, what |-> what, target |-> a]
  <1>1. /\ conn = Nobody /\ conn' = r /\ UNCHANGED <<users, epoch, admins, issued, era, sessions>>
        /\ Step(r, "admitted", to)
    BY DEF adminAction, Free
  <1>2. RowsType' /\ SessionsAreCurrent'
    BY <1>1, SameRowsStay DEF AccountsInv
  <1>3. at \in {"guard", "write"} /\ (at = "write" => what = "approve")
    OBVIOUS
  <1> HIDE DEF at
  <1>4. to \in Inside /\ to.at = at /\ to.what = what
    BY <1>3 DEF Inside
  <1> HIDE DEF to
  <1>5. /\ req \in [Requests -> Outside \cup Inside] /\ req' = [req EXCEPT ![r] = to]
        /\ \A q \in Requests : req[q] \notin Inside /\ req[q].at # "write"
    BY <1>1, Alone, NobodyAsks DEF AccountsInv, RequestsType, Step, Free
  <1>6. req'[r] = to /\ \A q \in Requests \ {r} : req'[q] = req[q]
    BY <1>5
  <1>7. RequestsType'
    BY <1>1, <1>4, <1>5, <1>6 DEF RequestsType
  <1>8. Guarded'
    BY <1>3, <1>4, <1>5, <1>6 DEF Guarded
  <1> QED
    BY <1>1, <1>2, <1>7, <1>8 DEF AccountsInv, AdminRemains, ApprovedAdmins

\* The transaction ends without having changed anything.
LEMMA RollbackKeeps ==
  ASSUME AccountsInv, UNCHANGED admins, NEW r \in Requests, NEW at \in {"guard", "write"}, Rollback(r, at)
  PROVE  AccountsInv'
  <1>1. /\ req[r].at = at /\ req' = [req EXCEPT ![r] = Idle] /\ conn' = Nobody
        /\ UNCHANGED <<users, epoch, admins, issued, era, sessions>>
    BY DEF Rollback, Done, Step
  <1>2. RowsType' /\ SessionsAreCurrent'
    BY <1>1, SameRowsStay DEF AccountsInv
  <1>3. req \in [Requests -> Outside \cup Inside]
    BY DEF AccountsInv, RequestsType
  <1>4. req[r] \in Inside
    BY <1>1, <1>3 DEF Outside
  <1>5. \A q \in Requests \ {r} : req[q] \in Outside /\ req[q] \notin Inside /\ req[q].at # "write"
    BY <1>4, Alone DEF AccountsInv, RequestsType
  <1>6. Idle \in Outside /\ Idle \notin Inside /\ Idle.at # "write"
    BY DEF Idle, Outside, Inside
  <1>7. req'[r] = Idle /\ \A q \in Requests \ {r} : req'[q] = req[q]
    BY <1>1, <1>3
  <1>8. RequestsType'
    BY <1>1, <1>3, <1>5, <1>6, <1>7, NobodyAsks DEF RequestsType
  <1>9. Guarded'
    BY <1>5, <1>6, <1>7 DEF Guarded
  <1> QED
    BY <1>1, <1>2, <1>8, <1>9 DEF AccountsInv, AdminRemains, ApprovedAdmins

LEMMA GuardKeeps ==
  ASSUME AccountsInv, UNCHANGED admins, NEW r \in Requests, guardLastAdmin(r)
  PROVE  AccountsInv'
  <1>1. CASE Rollback(r, "guard")
    BY <1>1, RollbackKeeps
  <1>2. CASE ~Rollback(r, "guard")
    <2>1. /\ req[r].at = "guard" /\ HasRow(req[r].target) /\ ~LastAdmin(req[r].target)
          /\ req' = [req EXCEPT ![r] = [req[r] EXCEPT !.at = "write"]]
          /\ UNCHANGED <<users, epoch, admins, issued, era, sessions, conn>>
      BY <1>2 DEF guardLastAdmin, Step
    <2>2. RowsType' /\ SessionsAreCurrent'
      BY <2>1, SameRowsStay DEF AccountsInv
    <2>3. req \in [Requests -> Outside \cup Inside] /\ req[r] \in Inside
      BY <2>1 DEF AccountsInv, RequestsType, Outside
    <2> DEFINE to == [req[r] EXCEPT !.at = "write"]
    <2>4. to \in Inside /\ to.target = req[r].target /\ to.what = req[r].what
      BY <2>3 DEF Inside
    <2> HIDE DEF to
    <2>5. req'[r] = to /\ \A q \in Requests \ {r} : req'[q] = req[q]
      BY <2>1, <2>3 DEF to
    <2>6. RequestsType'
      BY <2>1, <2>3, <2>4, <2>5 DEF AccountsInv, RequestsType, to
    <2>7. Guarded'
      <3>1. \A q \in Requests \ {r} : req'[q].at # "write"
        BY <2>3, <2>5, Alone DEF AccountsInv
      <3>2. (HasRow(req[r].target) /\ ~LastAdmin(req[r].target))' <=> HasRow(req'[r].target) /\ ~LastAdmin(req'[r].target)
        BY <2>1 DEF HasRow, LastAdmin, ApprovedAdmins
      <3> QED
        BY <2>1, <2>4, <2>5, <3>1 DEF Guarded, HasRow, LastAdmin, ApprovedAdmins
    <2> QED
      BY <2>1, <2>2, <2>6, <2>7 DEF AccountsInv, AdminRemains, ApprovedAdmins
  <1> QED
    BY <1>1, <1>2

LEMMA WriteKeeps ==
  ASSUME AccountsInv, UNCHANGED admins, NEW r \in Requests, Write(r)
  PROVE  AccountsInv'
  <1> DEFINE a == req[r].target
             what == req[r].what
             status == CASE what = "approve" -> "approved" [] what = "disable" -> "disabled" [] what = "delete" -> "gone"
  <1>1. CASE Rollback(r, "write")
    BY <1>1, RollbackKeeps
  <1>2. CASE ~Rollback(r, "write")
    <2>1. /\ req[r].at = "write" /\ HasRow(a) /\ (what # "approve" => epoch[a] < MaxEpoch)
          /\ users' = [users EXCEPT ![a] = status]
          /\ IF what = "approve" THEN UNCHANGED <<sessions, epoch>>
             ELSE sessions' = SessionsWithout(a) /\ epoch' = [epoch EXCEPT ![a] = epoch[a] + 1]
          /\ Done(r, "write") /\ conn' = Nobody /\ UNCHANGED <<issued, era>>
      BY <1>2 DEF Write
    <2>2. req \in [Requests -> Outside \cup Inside] /\ RowsType /\ SessionsAreCurrent /\ ApprovedAdmins # {}
      BY DEF AccountsInv, RequestsType, AdminRemains
    <2>3. req[r] \in Inside
      BY <2>1, <2>2 DEF Outside
    <2>4. a \in Accounts /\ what \in Whats
      BY <2>3 DEF Inside
    <2>5. status \in Statuses /\ (status = "approved" <=> what = "approve")
      BY <2>4 DEF Whats, Statuses
    <2>6. what # "approve" => ~LastAdmin(a)
      BY <2>1 DEF AccountsInv, Guarded
    <2> HIDE DEF a, what, status
    <2>7. users' \in [Accounts -> Statuses] /\ users'[a] = status /\ \A b \in Accounts \ {a} : users'[b] = users[b]
      BY <2>1, <2>2, <2>4, <2>5 DEF RowsType
    <2>8. ApprovedAdmins' # {}
      <3>1. CASE what = "approve"
        <4>1. ApprovedAdmins \subseteq ApprovedAdmins'
          BY <2>2, <2>5, <2>7, <3>1 DEF ApprovedAdmins, RowsType
        <4> QED
          BY <2>2, <4>1
      <3>2. CASE what # "approve"
        <4>1. ApprovedAdmins \ {a} \subseteq ApprovedAdmins'
          BY <2>2, <2>7 DEF ApprovedAdmins, RowsType
        <4> QED
          BY <2>2, <2>6, <3>2, <4>1 DEF LastAdmin
      <3> QED
        BY <3>1, <3>2
    <2>9. RowsType' /\ SessionsAreCurrent'
      <3>1. CASE what = "approve"
        BY <2>1, <2>2, <2>7, <3>1 DEF RowsType, SessionsAreCurrent
      <3>2. CASE what # "approve"
        <4>1. /\ sessions' = [t \in {u \in DOMAIN sessions : sessions[u].user # a} |-> sessions[t]]
              /\ epoch' = [epoch EXCEPT ![a] = epoch[a] + 1] /\ epoch[a] < MaxEpoch
          BY <2>1, <3>2 DEF SessionsWithout
        <4>2. /\ DOMAIN sessions' \subseteq DOMAIN sessions
              /\ \A t \in DOMAIN sessions' : sessions'[t] = sessions[t] /\ sessions[t].user # a
          BY <4>1
        <4>3. epoch' \in [Accounts -> 0..MaxEpoch] /\ \A b \in Accounts \ {a} : epoch'[b] = epoch[b]
          BY <2>2, <2>4, <4>1, BoundsAreNumbers DEF RowsType
        <4>4. RowsType'
          BY <2>1, <2>2, <2>7, <4>2, <4>3 DEF RowsType
        <4>5. SessionsAreCurrent'
          BY <2>1, <2>2, <4>2, <4>3 DEF SessionsAreCurrent
        <4> QED
          BY <4>4, <4>5
      <3> QED
        BY <3>1, <3>2
    <2>10. \A q \in Requests \ {r} : req[q] \in Outside /\ req[q] \notin Inside /\ req[q].at # "write"
      BY <2>3, Alone DEF AccountsInv, RequestsType
    <2>11. Idle \in Outside /\ Idle \notin Inside /\ Idle.at # "write"
      BY DEF Idle, Outside, Inside
    <2>12. req' = [req EXCEPT ![r] = Idle]
      BY <2>1 DEF Done, Step
    <2>13. req'[r] = Idle /\ \A q \in Requests \ {r} : req'[q] = req[q]
      BY <2>2, <2>12
    <2>14. RequestsType'
      BY <2>1, <2>2, <2>10, <2>11, <2>12, <2>13, NobodyAsks DEF RequestsType
    <2>15. Guarded'
      BY <2>10, <2>11, <2>13 DEF Guarded
    <2> QED
      BY <2>8, <2>9, <2>14, <2>15 DEF AccountsInv, AdminRemains
  <1> QED
    BY <1>1, <1>2

LEMMA RestartKeeps ==
  ASSUME AccountsInv, UNCHANGED admins, NEW e \in {era, era + 1} \cap (0..MaxEra), Restart(e)
  PROVE  AccountsInv'
  <1>1. /\ era' = e /\ conn' = Nobody /\ req' = [r \in Requests |-> Idle] /\ UNCHANGED <<users, epoch, issued>>
        /\ sessions' = [t \in {u \in DOMAIN sessions : ~sessions[u].configAdmin} |-> sessions[t]]
    BY DEF Restart, StartSessions
  <1>2. /\ DOMAIN sessions' \subseteq DOMAIN sessions
        /\ \A t \in DOMAIN sessions' : sessions'[t] = sessions[t] /\ ~sessions[t].configAdmin
    BY <1>1
  <1>3. RowsType'
    BY <1>1, <1>2 DEF AccountsInv, RowsType, SessionRow
  <1>4. SessionsAreCurrent'
    BY <1>1, <1>2 DEF AccountsInv, SessionsAreCurrent
  <1>5. Idle \in Outside /\ Idle \notin Inside /\ Idle.at # "write"
    BY DEF Idle, Outside, Inside
  <1>6. RequestsType' /\ Guarded'
    BY <1>1, <1>5, NobodyAsks DEF RequestsType, Guarded
  <1> QED
    BY <1>1, <1>3, <1>4, <1>6 DEF AccountsInv, AdminRemains, ApprovedAdmins

LEMMA AccountsStep == AccountsInv /\ [Next]_vars => AccountsInv'
  <1> SUFFICES ASSUME AccountsInv, [Next]_vars PROVE AccountsInv'
    OBVIOUS
  <1>1. CASE UNCHANGED vars
    BY <1>1 DEF vars, AccountsInv, RowsType, RequestsType, Guarded, HasRow, LastAdmin, AdminRemains, ApprovedAdmins,
      SessionsAreCurrent
  <1>2. CASE Next
    <2>1. UNCHANGED admins
      BY <1>2 DEF Next
    <2>2. ASSUME NEW r \in Requests, Request(r) PROVE AccountsInv'
      BY <2>1, <2>2, LoginKeeps, RevokeKeeps, CreateKeeps, AuthenticateKeeps, AdminKeeps, GuardKeeps, WriteKeeps
      DEF Request, Callers, Whats
    <2> QED
      BY <1>2, <2>1, <2>2, RegisterKeeps, LogoutKeeps, ExpireKeeps, RestartKeeps DEF Next
  <1> QED
    BY <1>1, <1>2

LEMMA AccountsAlways == Spec => []AccountsInv
  BY AccountsInit, AccountsStep, PTL DEF Spec

(* However many administrators disable and delete each other at the same time *)
(* and wherever the process restarts, an approved one remains                 *)
(* (store.go:1196-1204).                                                      *)
THEOREM AdminAlwaysRemains == Spec => []AdminRemains
  BY AccountsAlways, PTL DEF AccountsInv

(* No session outlives the approval it was opened under, nor one of the       *)
(* static administrator its credentials (store.go:1167-1171, 1228, 1417-1422). *)
THEOREM SessionsAlwaysCurrent == Spec => []SessionsAreCurrent
  BY AccountsAlways, PTL DEF AccountsInv

(* A request is admitted only as an account approved at that moment, and as   *)
(* an administrator only if it is one (store.go:1364-1371).                   *)
THEOREM AdmittedAlwaysApproved == Spec => AdmittedIsApproved
  <1> DEFINE Proper == \A r \in Requests :
               req'[r].at = "admitted" /\ req[r].at # "admitted" =>
                   \/ req'[r].user = ConfigAdmin
                   \/ /\ users'[req'[r].user] = "approved"
                      /\ req'[r].admin => req'[r].user \in admins
  <1>1. AccountsInv /\ [Next]_vars => [Proper]_vars
    <2> SUFFICES ASSUME AccountsInv, Next, NEW q \in Requests, req'[q].at = "admitted", req[q].at # "admitted"
                 PROVE  \/ req'[q].user = ConfigAdmin
                        \/ users'[req'[q].user] = "approved" /\ (req'[q].admin => req'[q].user \in admins)
      OBVIOUS
    <2>1. req \in [Requests -> Outside \cup Inside] /\ RowsType
      BY DEF AccountsInv, RequestsType
    <2>2. \A r \in Requests : \A from, to : Step(r, from, to) /\ to.at # "admitted" => req'[q].at # "admitted"
      BY <2>1 DEF Step
    <2>3. Idle.at # "admitted"
      BY DEF Idle
    <2>4. ~(\E a \in Accounts : Register(a)) /\ ~(\E t \in Tokens : Logout(t) \/ Expire(t))
      BY DEF Register, Logout, Expire
    <2>5. ~(\E e \in {era, era + 1} \cap (0..MaxEra) : Restart(e))
      BY <2>3 DEF Restart
    <2>6. PICK r \in Requests : Request(r)
      BY <2>4, <2>5 DEF Next
    <2>7. ~(\E a \in Accounts \cup {ConfigAdmin}, t \in issued \cup {NoToken} : LoginLookup(r, a, t))
      BY <2>2 DEF LoginLookup
    <2>8. ~LoginRefused(r) /\ ~Finish(r) /\ ~CreateSession(r) /\ ~(\E at \in {"guard", "write"} : Rollback(r, at))
      BY <2>2, <2>3 DEF LoginRefused, Finish, CreateSession, Rollback, Done
    <2>9. ~LoginVerified(r) /\ ~RevokePresented(r)
      BY <2>2, <2>3 DEF LoginVerified, RevokePresented, Done
    <2>10. ~(\E what \in {"approve", "disable", "delete"}, a \in Accounts : adminAction(r, what, a))
      BY <2>2 DEF adminAction
    <2>11. ~guardLastAdmin(r) /\ ~Write(r)
      <3>1. ~Done(r, "write")
        BY <2>2, <2>3 DEF Done
      <3>2. ASSUME guardLastAdmin(r) PROVE FALSE
        <4>1. req[r].at = "guard" /\ Step(r, "guard", [req[r] EXCEPT !.at = "write"])
          BY <2>8, <3>2 DEF guardLastAdmin
        <4>2. req[r] \in Inside
          BY <2>1, <4>1 DEF Outside
        <4>3. [req[r] EXCEPT !.at = "write"].at = "write"
          BY <4>2 DEF Inside
        <4> QED
          BY <2>2, <4>1, <4>3
      <3> QED
        BY <2>8, <3>1, <3>2 DEF Write
    <2>12. PICK t \in issued : authenticate(r, t)
      BY <2>6, <2>7, <2>8, <2>9, <2>10, <2>11 DEF Request
    <2> DEFINE to == [at |-> "admitted", user |-> GetSession(t).user, admin |-> GetSession(t).admin]
    <2>13. req' = [req EXCEPT ![r] = to] /\ GetSession(t) # Denied /\ users' = users
      BY <2>12 DEF authenticate, Step
    <2>14. q = r
      BY <2>1, <2>13
    <2>15. req'[q].user = GetSession(t).user /\ req'[q].admin = GetSession(t).admin
      BY <2>1, <2>13, <2>14
    <2> QED
      BY <2>1, <2>13, <2>15, WhoAsks
  <1> QED
    BY <1>1, AccountsAlways, PTL DEF Spec, AdmittedIsApproved

(* The product: a behaviour of it is a behaviour of each part, the others left *)
(* where they began, so what is proved above of a part by itself holds in the  *)
(* product the run checks (access.go, history.go and ratelimit.go share no     *)
(* state).                                                                     *)
THEOREM AccessIsItsParts == AccessSpec => Spec /\ Shelf!Spec /\ Rate!Spec
  <1>1. AccessInit => Init /\ Shelf!Init /\ Rate!Init
    BY DEF AccessInit
  <1>2. [AccessNext]_allVars => [Next]_vars /\ [Shelf!Next]_(Shelf!vars) /\ [Rate!Next]_(Rate!vars)
    <2>1. UNCHANGED shelf => UNCHANGED Shelf!vars
      BY DEF shelf, Shelf!vars
    <2>2. UNCHANGED rate => UNCHANGED Rate!vars
      BY DEF rate, Rate!vars
    <2>3. UNCHANGED allVars => UNCHANGED <<vars, shelf, rate>>
      BY DEF allVars
    <2> QED
      BY <2>1, <2>2, <2>3 DEF AccessNext
  <1> QED
    BY <1>1, <1>2, PTL DEF AccessSpec, Spec, Shelf!Spec, Rate!Spec

(* Every variable of the three keeps its type; only a request that is inside  *)
(* a transaction holds the connection.                                        *)
THEOREM AccessTypesCorrect == AccessSpec => []AccessTypeOK
  <1>1. AccountsInv => TypeOK
    <2> SUFFICES ASSUME AccountsInv PROVE TypeOK
      OBVIOUS
    <2>1. conn # Nobody => req[conn] \in Inside
      BY DEF AccountsInv, RequestsType
    <2> QED
      BY <2>1 DEF AccountsInv, RowsType, Inside, TypeOK
  <1>2. Allowed => Rate!TypeOK
    BY DEF Allowed
  <1>3. AccountsInv /\ ShelfInv /\ Allowed => AccessTypeOK
    BY <1>1, <1>2, ShelfTyped DEF AccessTypeOK
  <1> QED
    BY <1>3, AccessIsItsParts, AccountsAlways, ShelfAlways, AllowedAlways, PTL
=============================================================================
