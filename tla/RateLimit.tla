----------------------------- MODULE RateLimit -----------------------------
(* The per-address allowance of the credential, generation and assistant      *)
(* routes (server/ratelimit.go): one fixed window for all callers, held in    *)
(* memory, with a count per address. A window opens with the first request    *)
(* after the last one closed, whoever makes it. Times are kept as distances   *)
(* from the present, so that the clock needs no bound.                        *)
EXTENDS Integers

CONSTANTS
    Visitors,       \* addresses the proxy's header names
    Peer,           \* the socket peer: the proxy itself
    HeaderSet,      \* BOOLEAN: MM3_CLIENT_IP_HEADER is configured
    Limit, Window   \* newLimiter's arguments

Allowance == Limit \in Nat \ {0} /\ Window \in Nat \ {0}

Keys == Visitors \cup {Peer}

VARIABLES
    counts,     \* admissions of this window, per key
    left,       \* time to resetAt, -1 when that is past
    log,        \* log[k][a]: admissions of k, at most a ago (history)
    refused     \* the key the latest request was refused for, if it was (history)
vars == <<counts, left, log, refused>>

Empty == [k \in Keys |-> 0]

Init ==
    /\ counts = Empty /\ left = -1
    /\ log = [k \in Keys |-> [a \in 0..Window |-> 0]]
    /\ refused = {}

\* The key of a request from v: its address, unless no header is trusted or its
\* value does not parse.
clientIP(v, readable) == IF HeaderSet /\ readable THEN v ELSE Peer

\* The window as this request finds it, opened anew if the last one is over.
Opened_Always == [counts |-> Empty, left |-> Window]

Opened == IF left < 0 THEN [counts |-> Empty, left |-> Window] ELSE [counts |-> counts, left |-> left]

admit(k) ==
    /\ Opened.counts[k] < Limit
    /\ counts' = [Opened.counts EXCEPT ![k] = @ + 1]
    /\ log' = [log EXCEPT ![k] = [a \in 0..Window |-> @[a] + 1]]
    /\ refused' = {}

refuse(k) ==
    /\ Opened.counts[k] >= Limit
    /\ counts' = Opened.counts
    /\ refused' = {k}
    /\ UNCHANGED log

allow(v, readable) ==
    /\ LET k == clientIP(v, readable) IN admit(k) \/ refuse(k)
    /\ left' = Opened.left

Tick ==
    /\ left' = IF left < 0 THEN left ELSE left - 1
    /\ log' = [k \in Keys |-> [a \in 0..Window |-> IF a = 0 THEN 0 ELSE log[k][a - 1]]]
    /\ refused' = {}
    /\ UNCHANGED counts

Next == Tick \/ \E v \in Visitors, readable \in BOOLEAN : allow(v, readable)
Spec == Init /\ [][Next]_vars
-----------------------------------------------------------------------------
TypeOK ==
    /\ counts \in [Keys -> 0..Limit]
    /\ left \in -1..Window
    /\ log \in [Keys -> [0..Window -> Nat]]
    /\ refused \subseteq Keys

\* No address gets more than two allowances in any span of a window's length,
\* however the requests of all addresses fall around the closing of a window, and
\* none is refused but for requests of its own: within one window before the
\* refusal it has spent its whole allowance (ratelimit.go:28-45).
AllowanceIsFair ==
    /\ \A k \in Keys : log[k][Window - 1] <= 2 * Limit
    /\ \A k \in refused : log[k][Window] >= Limit
=============================================================================
