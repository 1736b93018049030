---------------------------- MODULE LyricsLookup ----------------------------
(* Concurrent lyric lookups (internal/lyrics/lookup.go, Lookup and            *)
(* limiter.wait): two decode slots, one gate in front of each rate-limited    *)
(* provider, and a deadline on every lookup that may pass while it waits for  *)
(* any of them. What the answers say is LyricsMatch's business.               *)
EXTENDS Integers, FiniteSets

CONSTANTS
    Lookups,        \* request slots, reused
    Nobody,
    Slots,          \* capacity of decodeSlots
    Interval,       \* per provider, the spacing of its calls
    Budget,         \* Lookup's deadline
    MaxCandidates

Providers == DOMAIN Interval
ASSUME Shape ==
    /\ Nobody \notin Lookups
    /\ Providers = {"acoustid", "musicbrainz"} /\ Interval \in [Providers -> Nat \ {0}]
    /\ {Slots, Budget, MaxCandidates} \subseteq Nat \ {0}

VARIABLES
    at,         \* at[p]: what lookup p is doing
    left,       \* time to its deadline; 0 is also a caller who has gone
    todo,       \* its candidates not yet looked up
    decoding,   \* holders of a decode slot
    gate,       \* holder of each provider's gate
    delay,      \* how long the holder of a gate will sleep yet
    next,       \* time to the provider's next allowed call
    since       \* time since its last call, up to Interval (history)
limits == <<decoding, gate, delay, next, since>>
vars == <<at, left, todo, limits>>

Gating == [acoustid |-> "identifying", musicbrainz |-> "enriching"]    \* what the gate leads to
Waiting == [acoustid |-> "at acoustid", musicbrainz |-> "at musicbrainz"]
Places == {"idle", "slot", "decode", "lrclib"} \cup {Gating[g] : g \in Providers}
          \cup {Waiting[g] : g \in Providers}

Init ==
    /\ at = [p \in Lookups |-> "idle"] /\ left = [p \in Lookups |-> 0]
    /\ todo = [p \in Lookups |-> 0] /\ decoding = {}
    /\ gate = [g \in Providers |-> Nobody]
    /\ delay = [g \in Providers |-> 0] /\ next = delay /\ since = Interval

Goes(p, from, to) == at[p] = from /\ at' = [at EXCEPT ![p] = to]
Expired(p) == left[p] = 0
-----------------------------------------------------------------------------
Lookup(p) ==
    /\ Goes(p, "idle", "slot")
    /\ left' = [left EXCEPT ![p] = Budget]
    /\ UNCHANGED <<todo, limits>>

\* A select takes either branch when both are ready.
takeSlot(p) ==
    /\ Goes(p, "slot", "decode")
    /\ Cardinality(decoding) < Slots
    /\ decoding' = decoding \cup {p}
    /\ UNCHANGED <<left, todo, gate, delay, next, since>>

abandonSlot(p) == Goes(p, "slot", "idle") /\ Expired(p) /\ UNCHANGED <<left, todo, limits>>

\* The fingerprint, or an error; the slot is returned either way.
fingerprint(p) ==
    /\ Goes(p, "decode", "idle") \/ (Goes(p, "decode", "at acoustid") /\ ~Expired(p))
    /\ decoding' = decoding \ {p}
    /\ UNCHANGED <<left, todo, gate, delay, next, since>>

(* limiter.wait.                                                              *)
enterGate(p, g) ==
    /\ at[p] = Waiting[g] /\ gate[g] = Nobody
    /\ gate' = [gate EXCEPT ![g] = p]
    /\ delay' = [delay EXCEPT ![g] = next[g]]
    /\ UNCHANGED <<at, left, todo, decoding, next, since>>

abandonGate_Never(p, g) == FALSE /\ UNCHANGED vars

abandonGate(p, g) ==
    /\ gate[g] # p
    /\ Goes(p, Waiting[g], "idle") /\ Expired(p)
    /\ UNCHANGED <<left, todo, limits>>

Leave(g) == gate' = [gate EXCEPT ![g] = Nobody] /\ delay' = [delay EXCEPT ![g] = 0]

\* Its sleep cut short by the deadline, or found over after it.
cancelInGate_Spends(p, g) ==
    /\ gate[g] = p
    /\ Goes(p, Waiting[g], "idle") /\ Expired(p)
    /\ Leave(g)
    /\ next' = [next EXCEPT ![g] = Interval[g]]
    /\ UNCHANGED <<left, todo, decoding, since>>

cancelInGate_Leaks(p, g) ==
    /\ gate[g] = p
    /\ Goes(p, Waiting[g], "idle") /\ Expired(p)
    /\ UNCHANGED <<left, todo, limits>>

cancelInGate(p, g) ==
    /\ gate[g] = p
    /\ Goes(p, Waiting[g], "idle") /\ Expired(p)
    /\ Leave(g)
    /\ UNCHANGED <<left, todo, decoding, next, since>>

passGate(p, g) ==
    /\ gate[g] = p /\ delay[g] = 0 /\ ~Expired(p)
    /\ Goes(p, Waiting[g], Gating[g])
    /\ next' = [next EXCEPT ![g] = Interval[g]]
    /\ since' = [since EXCEPT ![g] = 0]
    /\ Leave(g)
    /\ UNCHANGED <<left, todo, decoding>>

(* The providers' answers, errors and timeouts.                               *)
Continue(p, n) ==
    /\ todo' = [todo EXCEPT ![p] = n]
    /\ at' = [at EXCEPT ![p] = IF n = 0 \/ Expired(p) THEN "idle" ELSE "at musicbrainz"]
    /\ UNCHANGED <<left, limits>>

identify(p) == at[p] = "identifying" /\ \E n \in 0..MaxCandidates : Continue(p, n)

\* A candidate whose metadata cannot be had is passed over.
enrich(p) ==
    \/ at[p] = "enriching" /\ Continue(p, todo[p] - 1)
    \/ /\ ~Expired(p) /\ Goes(p, "enriching", "lrclib")
       /\ UNCHANGED <<left, todo, limits>>

findLyrics(p) == at[p] = "lrclib" /\ Continue(p, todo[p] - 1)

Down(n) == IF n = 0 THEN 0 ELSE n - 1

Tick ==
    /\ left' = [p \in Lookups |-> Down(left[p])]
    /\ next' = [g \in Providers |-> Down(next[g])]
    /\ delay' = [g \in Providers |-> Down(delay[g])]
    /\ since' = [g \in Providers |-> IF since[g] < Interval[g] THEN since[g] + 1 ELSE since[g]]
    /\ UNCHANGED <<at, todo, decoding, gate>>

\* The caller disconnects.
Disconnect(p) ==
    /\ at[p] # "idle" /\ left[p] > 0
    /\ left' = [left EXCEPT ![p] = 0]
    /\ UNCHANGED <<at, todo, limits>>

Step(p) ==
    \/ takeSlot(p) \/ abandonSlot(p) \/ fingerprint(p)
    \/ \E g \in Providers : enterGate(p, g) \/ abandonGate(p, g) \/ cancelInGate(p, g) \/ passGate(p, g)
    \/ identify(p) \/ enrich(p) \/ findLyrics(p)

Next == Tick \/ \E p \in Lookups : Lookup(p) \/ Disconnect(p) \/ Step(p)

Spec == Init /\ [][Next]_vars

\* Every call has a timeout (10 s per request, 20 s per decode, the context),
\* every select returns once one of its branches stays ready, and time passes.
FairSpec == Spec /\ WF_vars(Tick) /\ \A p \in Lookups : WF_vars(Step(p))
-----------------------------------------------------------------------------
TypeOK ==
    /\ at \in [Lookups -> Places] /\ left \in [Lookups -> 0..Budget]
    /\ todo \in [Lookups -> 0..MaxCandidates]
    /\ decoding = {p \in Lookups : at[p] = "decode"} /\ Cardinality(decoding) <= Slots
    /\ \A g \in Providers :
         /\ gate[g] = Nobody \/ at[gate[g]] = Waiting[g]
         /\ {delay[g], next[g], since[g]} \subseteq 0..Interval[g]

Calls(p, g) == at[p] = Waiting[g] /\ at'[p] = Gating[g]

\* Two calls to one provider are never closer than its interval, however many
\* lookups wait for it (README.md:77), and a lookup that gives up spends nothing:
\* only a call moves the next one back.
CallsAreSpaced ==
    [][\A g \in Providers :
         /\ \A p \in Lookups : Calls(p, g) => since[g] = Interval[g]
         /\ next'[g] > next[g] => \E p \in Lookups : Calls(p, g)]_vars

\* Every lookup ends: no queue for a slot or a gate holds it past its deadline.
EveryLookupEnds == \A p \in Lookups : at[p] # "idle" ~> at[p] = "idle"
=============================================================================
