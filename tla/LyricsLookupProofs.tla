------------------------- MODULE LyricsLookupProofs -------------------------
(* Proofs about LyricsLookup: the slots and the gates, for any number of      *)
(* lookups, slots and any spacing of the providers' calls.                    *)
EXTENDS LyricsLookup, FiniteSetTheorems, TLAPS

\* Inductive together. Types says where the functions live,
Types ==
    /\ at \in [Lookups -> Places] /\ left \in [Lookups -> 0..Budget]
    /\ todo \in [Lookups -> 0..MaxCandidates]
    /\ gate \in [Providers -> Lookups \cup {Nobody}]
    /\ delay \in [Providers -> Nat] /\ next \in [Providers -> Nat] /\ since \in [Providers -> Nat]
    /\ \A g \in Providers : delay[g] <= Interval[g] /\ since[g] <= Interval[g]

\* Slotted who holds a decode slot, and how many may,
Slotted ==
    /\ decoding = {p \in Lookups : at[p] = "decode"}
    /\ IsFiniteSet(decoding) /\ Cardinality(decoding) <= Slots

\* Candidates that a lookup past AcoustID has one left to try,
Candidates == \A p \in Lookups :
    at[p] \in {"at musicbrainz", "enriching", "lrclib"} => todo[p] >= 1

\* and Gated that whoever holds a gate waits there and sleeps at least until the
\* provider may be called, which is when its interval has passed.
Gated == \A g \in Providers :
    /\ next[g] = Interval[g] - since[g]
    /\ gate[g] # Nobody => at[gate[g]] = Waiting[g] /\ delay[g] >= next[g]

Queued == Types /\ Slotted /\ Candidates /\ Gated

LEMMA Numbers ==
  /\ \A g \in Providers : Interval[g] \in Nat /\ Interval[g] >= 1
  /\ Budget \in Nat /\ MaxCandidates \in Nat /\ Slots \in Nat
  BY Shape

LEMMA NobodyIsNone == Nobody \notin Lookups
  BY Shape

LEMMA PlacesHold ==
  /\ "idle" \in Places /\ "slot" \in Places /\ "decode" \in Places /\ "lrclib" \in Places
  /\ "at acoustid" \in Places /\ "at musicbrainz" \in Places
  /\ \A g \in Providers : Waiting[g] \in Places /\ Gating[g] \in Places
  <1>1. Providers = {"acoustid", "musicbrainz"}
    BY Shape
  <1>2. Waiting["acoustid"] = "at acoustid" /\ Waiting["musicbrainz"] = "at musicbrainz"
    BY DEF Waiting
  <1> QED
    BY <1>1, <1>2 DEF Places

LEMMA PlacesDiffer == \A g \in Providers :
  /\ Waiting[g] \in {"at acoustid", "at musicbrainz"}
  /\ Gating[g] \in {"identifying", "enriching"}
  /\ Gating[g] = "enriching" => Waiting[g] = "at musicbrainz"
  <1>1. Providers = {"acoustid", "musicbrainz"}
    BY Shape
  <1>2. /\ Waiting["acoustid"] = "at acoustid" /\ Waiting["musicbrainz"] = "at musicbrainz"
        /\ Gating["acoustid"] = "identifying" /\ Gating["musicbrainz"] = "enriching"
    BY DEF Waiting, Gating
  <1> QED
    BY <1>1, <1>2

LEMMA WaitingApart ==
  ASSUME NEW g \in Providers, NEW h \in Providers, Waiting[g] = Waiting[h]
  PROVE  g = h
  <1>1. Providers = {"acoustid", "musicbrainz"}
    BY Shape
  <1>2. Waiting["acoustid"] # Waiting["musicbrainz"]
    BY DEF Waiting
  <1> QED
    BY <1>1, <1>2

LEMMA QueuedInit == Init => Queued
  <1> SUFFICES ASSUME Init PROVE Queued
    OBVIOUS
  <1>1. Types
    BY Shape DEF Init, Types, Places
  <1>2. Slotted
    <2>1. decoding = {} /\ {p \in Lookups : at[p] = "decode"} = {}
      BY DEF Init
    <2> QED
      BY <2>1, FS_EmptySet, Numbers DEF Slotted
  <1>3. Candidates /\ Gated
    BY Shape DEF Init, Candidates, Gated
  <1> QED
    BY <1>1, <1>2, <1>3 DEF Queued

-----------------------------------------------------------------------------
(* Steps that move one lookup and leave the gates alone.                      *)

\* A lookup that enters or leaves no decode slot leaves the slots as they were.
LEMMA SlotsKept ==
  ASSUME Queued, NEW q \in Lookups, NEW w \in Places, at' = [at EXCEPT ![q] = w],
         at[q] # "decode", w # "decode", decoding' = decoding
  PROVE  Slotted'
  <1>1. \A p \in Lookups : at'[p] = "decode" <=> at[p] = "decode"
    BY DEF Queued, Types
  <1> QED
    BY <1>1 DEF Queued, Slotted

\* Whoever holds a gate waits at it, so a lookup that does not, holds none.
LEMMA HoldsNothing ==
  ASSUME Queued, NEW q \in Lookups, at[q] \notin {"at acoustid", "at musicbrainz"}, NEW g \in Providers
  PROVE  gate[g] # q
  <1> SUFFICES ASSUME gate[g] = q PROVE FALSE
    OBVIOUS
  <1>1. at[q] = Waiting[g]
    BY NobodyIsNone DEF Queued, Gated
  <1> QED
    BY <1>1, PlacesDiffer

LEMMA MoveQueued ==
  ASSUME Queued, NEW q \in Lookups, NEW w \in Places, at' = [at EXCEPT ![q] = w],
         \A g \in Providers : gate[g] # q,
         left' \in [Lookups -> 0..Budget], todo' \in [Lookups -> 0..MaxCandidates],
         \A p \in Lookups \ {q} : todo'[p] = todo[p],
         w \in {"at musicbrainz", "enriching", "lrclib"} => todo'[q] >= 1,
         UNCHANGED <<gate, delay, next, since>>, Slotted'
  PROVE  Queued'
  <1>1. at' \in [Lookups -> Places]
    BY DEF Queued, Types
  <1>2. Types'
    BY <1>1 DEF Queued, Types
  <1>3. Candidates'
    BY DEF Queued, Types, Candidates
  <1>4. Gated'
    <2> SUFFICES ASSUME NEW g \in Providers
                 PROVE  /\ next'[g] = Interval[g] - since'[g]
                        /\ gate'[g] # Nobody => at'[gate'[g]] = Waiting[g] /\ delay'[g] >= next'[g]
      BY DEF Gated
    <2>1. gate[g] # Nobody => gate[g] \in Lookups \ {q}
      BY DEF Queued, Types
    <2> QED
      BY <2>1 DEF Queued, Types, Gated
  <1> QED
    BY <1>2, <1>3, <1>4 DEF Queued

LEMMA LookupQueued == ASSUME Queued, NEW q \in Lookups, Lookup(q) PROVE Queued'
  <1>1. at[q] = "idle" /\ at' = [at EXCEPT ![q] = "slot"]
    BY DEF Lookup, Goes
  <1>2. left' \in [Lookups -> 0..Budget] /\ todo' = todo /\ todo \in [Lookups -> 0..MaxCandidates]
    BY Numbers DEF Lookup, Queued, Types
  <1>3. UNCHANGED limits
    BY DEF Lookup
  <1>4. Slotted'
    BY <1>1, <1>3, SlotsKept, PlacesHold DEF limits
  <1> QED
    BY <1>1, <1>2, <1>3, <1>4, HoldsNothing, MoveQueued, PlacesHold DEF limits

LEMMA takeSlotQueued == ASSUME Queued, NEW q \in Lookups, takeSlot(q) PROVE Queued'
  <1>1. at[q] = "slot" /\ at' = [at EXCEPT ![q] = "decode"]
    BY DEF takeSlot, Goes
  <1>2. UNCHANGED <<left, todo, gate, delay, next, since>>
    BY DEF takeSlot
  <1>3. Slotted'
    <2>1. q \notin decoding /\ decoding' = decoding \cup {q}
      BY <1>1 DEF Queued, Slotted, takeSlot
    <2>2. IsFiniteSet(decoding') /\ Cardinality(decoding') = Cardinality(decoding) + 1
      BY <2>1, FS_AddElement DEF Queued, Slotted
    <2>3. Cardinality(decoding) \in Nat
      BY FS_CardinalityType DEF Queued, Slotted
    <2>4. decoding' = {p \in Lookups : at'[p] = "decode"}
      BY <1>1, <2>1 DEF Queued, Types, Slotted
    <2> QED
      BY <2>2, <2>3, <2>4, Numbers DEF Slotted, takeSlot
  <1> QED
    BY <1>1, <1>2, <1>3, HoldsNothing, MoveQueued, PlacesHold DEF Queued, Types

LEMMA abandonSlotQueued == ASSUME Queued, NEW q \in Lookups, abandonSlot(q) PROVE Queued'
  <1>1. at[q] = "slot" /\ at' = [at EXCEPT ![q] = "idle"]
    BY DEF abandonSlot, Goes
  <1>2. UNCHANGED <<left, todo, limits>>
    BY DEF abandonSlot
  <1>3. Slotted'
    BY <1>1, <1>2, SlotsKept, PlacesHold DEF limits
  <1> QED
    BY <1>1, <1>2, <1>3, HoldsNothing, MoveQueued, PlacesHold DEF Queued, Types, limits

LEMMA fingerprintQueued == ASSUME Queued, NEW q \in Lookups, fingerprint(q) PROVE Queued'
  <1>1. /\ at[q] = "decode"
        /\ at' = [at EXCEPT ![q] = "idle"] \/ at' = [at EXCEPT ![q] = "at acoustid"]
    BY DEF fingerprint, Goes
  <1>2. UNCHANGED <<left, todo, gate, delay, next, since>>
    BY DEF fingerprint
  <1>3. Slotted'
    <2>1. q \in decoding /\ decoding' = decoding \ {q}
      BY <1>1 DEF Queued, Slotted, fingerprint
    <2>2. IsFiniteSet(decoding') /\ Cardinality(decoding') = Cardinality(decoding) - 1
      BY <2>1, FS_RemoveElement DEF Queued, Slotted
    <2>3. Cardinality(decoding) \in Nat
      BY FS_CardinalityType DEF Queued, Slotted
    <2>4. decoding' = {p \in Lookups : at'[p] = "decode"}
      BY <1>1, <2>1 DEF Queued, Types, Slotted
    <2> QED
      BY <2>2, <2>3, <2>4, Numbers DEF Queued, Slotted
  <1> QED
    BY <1>1, <1>2, <1>3, HoldsNothing, MoveQueued, PlacesHold DEF Queued, Types

LEMMA abandonGateQueued ==
  ASSUME Queued, NEW q \in Lookups, NEW h \in Providers, abandonGate(q, h)
  PROVE  Queued'
  <1>1. at[q] = Waiting[h] /\ at' = [at EXCEPT ![q] = "idle"] /\ gate[h] # q
    BY DEF abandonGate, Goes
  <1>2. UNCHANGED <<left, todo, limits>>
    BY DEF abandonGate
  <1>3. ASSUME NEW g \in Providers
        PROVE  gate[g] # q
    <2> SUFFICES ASSUME gate[g] = q PROVE FALSE
      OBVIOUS
    <2>1. at[q] = Waiting[g]
      BY NobodyIsNone DEF Queued, Gated
    <2> QED
      BY <1>1, <2>1, WaitingApart
  <1>4. Slotted'
    BY <1>1, <1>2, SlotsKept, PlacesHold, PlacesDiffer DEF limits
  <1> QED
    BY <1>1, <1>2, <1>3, <1>4, MoveQueued, PlacesHold DEF Queued, Types, limits

LEMMA CountsUp == \A n \in 0..MaxCandidates : n # 0 => n >= 1
  BY Numbers

LEMMA ContinueQueued ==
  ASSUME Queued, NEW q \in Lookups, at[q] \in {"identifying", "enriching", "lrclib"},
         NEW n \in 0..MaxCandidates, Continue(q, n)
  PROVE  Queued'
  <1>1. \/ at' = [at EXCEPT ![q] = "idle"]
        \/ at' = [at EXCEPT ![q] = "at musicbrainz"] /\ n >= 1
    BY CountsUp DEF Continue
  <1>2. todo' = [todo EXCEPT ![q] = n] /\ UNCHANGED <<left, limits>>
    BY DEF Continue
  <1>3. todo' \in [Lookups -> 0..MaxCandidates] /\ todo'[q] = n /\ left' \in [Lookups -> 0..Budget]
    BY <1>2 DEF Queued, Types
  <1>4. \A p \in Lookups \ {q} : todo'[p] = todo[p]
    BY <1>2 DEF Queued, Types
  <1>5. Slotted'
    BY <1>1, <1>2, SlotsKept, PlacesHold DEF limits
  <1>6. \A g \in Providers : gate[g] # q
    BY HoldsNothing
  <1>7. CASE at' = [at EXCEPT ![q] = "idle"]
    BY <1>2, <1>3, <1>4, <1>5, <1>6, <1>7, MoveQueued, PlacesHold DEF limits
  <1>8. CASE at' = [at EXCEPT ![q] = "at musicbrainz"] /\ n >= 1
    BY <1>2, <1>3, <1>4, <1>5, <1>6, <1>8, MoveQueued, PlacesHold DEF limits
  <1> QED
    BY <1>1, <1>7, <1>8

LEMMA identifyQueued == ASSUME Queued, NEW q \in Lookups, identify(q) PROVE Queued'
  BY ContinueQueued DEF identify

\* A lookup that has a candidate in hand has counted it.
LEMMA OneLess ==
  ASSUME Queued, NEW q \in Lookups, at[q] \in {"enriching", "lrclib"}
  PROVE  todo[q] - 1 \in 0..MaxCandidates
  <1>1. todo[q] >= 1 /\ todo[q] \in 0..MaxCandidates
    BY DEF Queued, Types, Candidates
  <1> QED
    BY <1>1, Numbers

LEMMA enrichQueued == ASSUME Queued, NEW q \in Lookups, enrich(q) PROVE Queued'
  <1>1. CASE at[q] = "enriching" /\ Continue(q, todo[q] - 1)
    BY <1>1, OneLess, ContinueQueued
  <1>2. CASE ~Expired(q) /\ Goes(q, "enriching", "lrclib") /\ UNCHANGED <<left, todo, limits>>
    <2>1. at[q] = "enriching" /\ at' = [at EXCEPT ![q] = "lrclib"]
      BY <1>2 DEF Goes
    <2>2. todo'[q] >= 1
      BY <1>2, <2>1 DEF Queued, Candidates
    <2>3. Slotted'
      BY <1>2, <2>1, SlotsKept, PlacesHold DEF limits
    <2> QED
      BY <1>2, <2>1, <2>2, <2>3, HoldsNothing, MoveQueued, PlacesHold DEF Queued, Types, limits
  <1> QED
    BY <1>1, <1>2 DEF enrich

LEMMA findLyricsQueued == ASSUME Queued, NEW q \in Lookups, findLyrics(q) PROVE Queued'
  BY OneLess, ContinueQueued DEF findLyrics

LEMMA DisconnectQueued == ASSUME Queued, NEW q \in Lookups, Disconnect(q) PROVE Queued'
  <1>1. left' \in [Lookups -> 0..Budget]
    BY Numbers DEF Queued, Types, Disconnect
  <1> QED
    BY <1>1 DEF Queued, Types, Slotted, Candidates, Gated, Disconnect, limits
-----------------------------------------------------------------------------
(* limiter.wait, and the clock.                                               *)

LEMMA enterGateQueued ==
  ASSUME Queued, NEW q \in Lookups, NEW h \in Providers, enterGate(q, h)
  PROVE  Queued'
  <1>1. next[h] \in Nat /\ next[h] <= Interval[h] /\ since[h] \in Nat
    BY Numbers DEF Queued, Types, Gated
  <1>2. /\ delay' = [delay EXCEPT ![h] = next[h]] /\ gate' = [gate EXCEPT ![h] = q]
        /\ UNCHANGED <<at, left, todo, decoding, next, since>> /\ at[q] = Waiting[h]
    BY DEF enterGate
  <1>3. Types'
    BY <1>1, <1>2 DEF Queued, Types
  <1>4. Gated'
    <2> SUFFICES ASSUME NEW g \in Providers
                 PROVE  /\ next'[g] = Interval[g] - since'[g]
                        /\ gate'[g] # Nobody => at'[gate'[g]] = Waiting[g] /\ delay'[g] >= next'[g]
      BY DEF Gated
    <2>1. CASE g = h
      BY <1>1, <1>2, <2>1 DEF Queued, Types, Gated
    <2>2. CASE g # h
      BY <1>2, <2>2 DEF Queued, Types, Gated
    <2> QED
      BY <2>1, <2>2
  <1> QED
    BY <1>2, <1>3, <1>4 DEF Queued, Slotted, Candidates

LEMMA LeaveShortens ==
  ASSUME Queued, NEW h \in Providers, Leave(h)
  PROVE  delay' \in [Providers -> Nat] /\ \A g \in Providers : delay'[g] <= Interval[g]
  BY Numbers DEF Queued, Types, Leave

\* A lookup that leaves a gate was its only holder, and holds no other.
LEMMA LeaveQueued ==
  ASSUME Queued, NEW q \in Lookups, NEW h \in Providers, NEW w \in Places,
         gate[h] = q, at' = [at EXCEPT ![q] = w], Leave(h), w # "decode",
         w = "enriching" => at[q] = "at musicbrainz", w \notin {"at musicbrainz", "lrclib"},
         UNCHANGED <<left, todo, decoding>>,
         next' \in [Providers -> Nat], since' \in [Providers -> Nat],
         \A g \in Providers : since'[g] <= Interval[g] /\ next'[g] = Interval[g] - since'[g],
         \A g \in Providers \ {h} : next'[g] = next[g]
  PROVE  Queued'
  <1>1. at[q] = Waiting[h]
    BY NobodyIsNone DEF Queued, Gated
  <1>2. at' \in [Lookups -> Places] /\ gate' \in [Providers -> Lookups \cup {Nobody}]
    BY DEF Queued, Types, Leave
  <1>3. delay' \in [Providers -> Nat] /\ \A g \in Providers : delay'[g] <= Interval[g]
    BY LeaveShortens
  <1>4. Types'
    BY <1>2, <1>3 DEF Queued, Types
  <1>5. Slotted'
    BY <1>1, SlotsKept, PlacesDiffer
  <1>6. Candidates'
    BY DEF Queued, Types, Candidates
  <1>7. Gated'
    <2> SUFFICES ASSUME NEW g \in Providers, gate'[g] # Nobody
                 PROVE  at'[gate'[g]] = Waiting[g] /\ delay'[g] >= next'[g]
      BY DEF Gated
    <2>1. g # h /\ gate'[g] = gate[g] /\ delay'[g] = delay[g]
      BY DEF Queued, Types, Leave
    <2>2. at[gate[g]] = Waiting[g] /\ delay[g] >= next[g] /\ gate[g] \in Lookups
      BY <2>1 DEF Queued, Types, Gated
    <2>3. gate[g] # q
      BY <1>1, <2>1, <2>2, WaitingApart
    <2> QED
      BY <2>1, <2>2, <2>3 DEF Queued, Types
  <1> QED
    BY <1>4, <1>5, <1>6, <1>7 DEF Queued

LEMMA cancelInGateQueued ==
  ASSUME Queued, NEW q \in Lookups, NEW h \in Providers, cancelInGate(q, h)
  PROVE  Queued'
  <1>1. gate[h] = q /\ at' = [at EXCEPT ![q] = "idle"] /\ Leave(h)
        /\ UNCHANGED <<left, todo, decoding, next, since>>
    BY DEF cancelInGate, Goes
  <1>2. /\ next' \in [Providers -> Nat] /\ since' \in [Providers -> Nat]
        /\ \A g \in Providers : since'[g] <= Interval[g] /\ next'[g] = Interval[g] - since'[g]
    BY <1>1 DEF Queued, Types, Gated
  <1> QED
    BY <1>1, <1>2, LeaveQueued, PlacesHold

LEMMA passGateQueued ==
  ASSUME Queued, NEW q \in Lookups, NEW h \in Providers, passGate(q, h)
  PROVE  Queued'
  <1>1. /\ gate[h] = q /\ at[q] = Waiting[h] /\ at' = [at EXCEPT ![q] = Gating[h]] /\ Leave(h)
        /\ next' = [next EXCEPT ![h] = Interval[h]] /\ since' = [since EXCEPT ![h] = 0]
        /\ UNCHANGED <<left, todo, decoding>>
    BY DEF passGate, Goes
  <1>2. /\ next' \in [Providers -> Nat] /\ since' \in [Providers -> Nat]
        /\ \A g \in Providers : since'[g] <= Interval[g] /\ next'[g] = Interval[g] - since'[g]
        /\ \A g \in Providers \ {h} : next'[g] = next[g]
    BY <1>1, Numbers DEF Queued, Types, Gated
  <1>3. Gating[h] \in Places /\ Gating[h] \in {"identifying", "enriching"}
        /\ (Gating[h] = "enriching" => at[q] = "at musicbrainz")
    BY <1>1, PlacesHold, PlacesDiffer
  <1> QED
    BY <1>1, <1>2, <1>3, LeaveQueued

LEMMA TickQueued == ASSUME Queued, Tick PROVE Queued'
  <1>1. left' \in [Lookups -> 0..Budget]
    BY Numbers DEF Queued, Types, Tick, Down
  <1>2. /\ next' \in [Providers -> Nat] /\ delay' \in [Providers -> Nat] /\ since' \in [Providers -> Nat]
        /\ UNCHANGED <<at, todo, decoding, gate>>
    BY DEF Queued, Types, Tick, Down
  <1>3. ASSUME NEW g \in Providers
        PROVE  /\ delay'[g] <= Interval[g] /\ since'[g] <= Interval[g]
               /\ next'[g] = Interval[g] - since'[g]
               /\ delay[g] >= next[g] => delay'[g] >= next'[g]
    <2>1. /\ next'[g] = (IF next[g] = 0 THEN 0 ELSE next[g] - 1)
          /\ delay'[g] = (IF delay[g] = 0 THEN 0 ELSE delay[g] - 1)
          /\ since'[g] = (IF since[g] < Interval[g] THEN since[g] + 1 ELSE since[g])
      BY DEF Tick, Down
    <2>2. /\ next[g] \in Nat /\ delay[g] \in Nat /\ since[g] \in Nat /\ Interval[g] \in Nat
          /\ delay[g] <= Interval[g] /\ since[g] <= Interval[g] /\ next[g] = Interval[g] - since[g]
      BY Numbers DEF Queued, Types, Gated
    <2> QED
      BY <2>1, <2>2
  <1>4. Types'
    BY <1>1, <1>2, <1>3 DEF Queued, Types
  <1>5. Gated'
    BY <1>2, <1>3 DEF Queued, Gated
  <1> QED
    BY <1>2, <1>4, <1>5 DEF Queued, Slotted, Candidates
-----------------------------------------------------------------------------
LEMMA QueuedNext == ASSUME Queued, [Next]_vars PROVE Queued'
  <1>1. ASSUME NEW p \in Lookups, Step(p)
        PROVE  Queued'
    BY <1>1, takeSlotQueued, abandonSlotQueued, fingerprintQueued, enterGateQueued,
       abandonGateQueued, cancelInGateQueued, passGateQueued, identifyQueued, enrichQueued,
       findLyricsQueued DEF Step
  <1>2. CASE UNCHANGED vars
    BY <1>2 DEF Queued, Types, Slotted, Candidates, Gated, vars, limits
  <1> QED
    BY <1>1, <1>2, TickQueued, LookupQueued, DisconnectQueued DEF Next

LEMMA AlwaysQueued == Spec => []Queued
  <1> QED
    BY QueuedInit, QueuedNext, PTL DEF Spec

(* The slots and gates are held by who waits for them or uses them, and no    *)
(* more lookups decode at once than decodeSlots admits (lookup.go).           *)
THEOREM LookupTypesCorrect == Spec => []TypeOK
  <1>1. Queued => TypeOK
    <2> SUFFICES ASSUME Queued PROVE TypeOK
      OBVIOUS
    <2>1. ASSUME NEW g \in Providers
          PROVE  /\ gate[g] = Nobody \/ at[gate[g]] = Waiting[g]
                 /\ {delay[g], next[g], since[g]} \subseteq 0..Interval[g]
      <3>1. /\ next[g] \in Nat /\ delay[g] \in Nat /\ since[g] \in Nat /\ Interval[g] \in Nat
            /\ delay[g] <= Interval[g] /\ since[g] <= Interval[g] /\ next[g] = Interval[g] - since[g]
        BY Numbers DEF Queued, Types, Gated
      <3> QED
        BY <3>1 DEF Queued, Gated
    <2> QED
      BY <2>1 DEF Queued, Types, Slotted, TypeOK
  <1> QED
    BY <1>1, AlwaysQueued, PTL

\* The one step that calls a provider is passGate.
LEMMA CallPasses ==
  ASSUME Queued, Next, NEW p \in Lookups, NEW g \in Providers, Calls(p, g)
  PROVE  passGate(p, g)
  <1>1. /\ at[p] = Waiting[g] /\ at'[p] = Gating[g] /\ at[p] # at'[p]
        /\ at[p] \in {"at acoustid", "at musicbrainz"} /\ at'[p] \in {"identifying", "enriching"}
    BY PlacesDiffer DEF Calls
  <1>2. PICK q \in Lookups : Lookup(q) \/ Step(q)
    BY <1>1 DEF Next, Tick, Disconnect
  <1>3. ~Lookup(q) /\ ~takeSlot(q) /\ ~abandonSlot(q) /\ ~fingerprint(q)
    BY <1>1 DEF Queued, Types, Lookup, takeSlot, abandonSlot, fingerprint, Goes
  <1>4. ~identify(q) /\ ~findLyrics(q) /\ ~enrich(q)
    BY <1>1 DEF Queued, Types, identify, enrich, findLyrics, Continue, Goes
  <1>5. ASSUME NEW h \in Providers
        PROVE  ~enterGate(q, h) /\ ~abandonGate(q, h) /\ ~cancelInGate(q, h)
    BY <1>1 DEF Queued, Types, enterGate, abandonGate, cancelInGate, Goes
  <1>6. PICK h \in Providers : passGate(q, h)
    BY <1>2, <1>3, <1>4, <1>5 DEF Step
  <1>7. q = p
    BY <1>1, <1>6 DEF Queued, Types, passGate, Goes
  <1> QED
    BY <1>1, <1>6, <1>7, WaitingApart DEF passGate, Goes

(* Two calls to one provider are at least its interval apart and a lookup     *)
(* that gives up spends nothing of it, whatever the spacing and however many  *)
(* wait (README.md:77, limiter.wait).                                         *)
THEOREM CallsAlwaysSpaced == Spec => CallsAreSpaced
  <1> DEFINE Proper == \A g \in Providers :
         /\ \A p \in Lookups : Calls(p, g) => since[g] = Interval[g]
         /\ next'[g] > next[g] => \E p \in Lookups : Calls(p, g)
  <1>1. ASSUME Queued, [Next]_vars
        PROVE  [Proper]_vars
    <2> SUFFICES ASSUME Next, NEW g \in Providers
                 PROVE  /\ \A p \in Lookups : Calls(p, g) => since[g] = Interval[g]
                        /\ next'[g] > next[g] => \E p \in Lookups : Calls(p, g)
      BY <1>1
    <2>1. /\ next[g] \in Nat /\ since[g] \in Nat /\ Interval[g] \in Nat /\ next[g] = Interval[g] - since[g]
          /\ next \in [Providers -> Nat]
      BY <1>1, Numbers DEF Queued, Types, Gated
    <2>2. ASSUME NEW p \in Lookups, Calls(p, g)
          PROVE  since[g] = Interval[g]
      <3>1. gate[g] = p /\ delay[g] = 0
        BY <1>1, <2>2, CallPasses DEF passGate
      <3>2. delay[g] >= next[g]
        BY <1>1, <3>1, NobodyIsNone DEF Queued, Gated
      <3> QED
        BY <2>1, <3>1, <3>2
    <2>3. ASSUME next'[g] > next[g]
          PROVE  \E p \in Lookups : Calls(p, g)
      <3>1. ~Tick
        BY <2>1, <2>3 DEF Tick, Down
      <3>2. next' # next
        BY <2>1, <2>3
      <3>3. PICK p \in Lookups, h \in Providers : passGate(p, h)
        BY <3>1, <3>2 DEF Next, Lookup, Disconnect, Step, takeSlot, abandonSlot, fingerprint, enterGate,
           abandonGate, cancelInGate, identify, enrich, findLyrics, Continue, limits
      <3>4. h = g
        BY <2>1, <2>3, <3>3 DEF passGate
      <3>5. at[p] = Waiting[g] /\ at'[p] = Gating[g]
        BY <1>1, <3>3, <3>4 DEF Queued, Types, passGate, Goes
      <3> QED
        BY <3>5 DEF Calls
    <2> QED
      BY <2>2, <2>3
  <1> QED
    BY <1>1, AlwaysQueued, PTL DEF Spec, CallsAreSpaced
=============================================================================
