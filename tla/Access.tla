------------------------------- MODULE Access -------------------------------
(* What stands between a caller and the songs: accounts and sessions, the     *)
(* library they open, and the allowance of an address. The three share no     *)
(* state: Library and RateLimit stand beside Accounts under names of their    *)
(* own. Their product would only multiply the states of each: a behaviour     *)
(* lets one subject move and leaves the others where they began.              *)
EXTENDS Accounts

CONSTANTS
    Users, Admins, MaxSongs, PageSize, MaxPage, MaxPageSize,    \* of Library
    Visitors, Peer, HeaderSet, Limit, Window                    \* of RateLimit

VARIABLES
    songs, last, walk, fetch,   \* of Library
    counts, left, log, refused, \* of RateLimit
    subject                     \* what a behaviour of the product is about

Shelf == INSTANCE Library
Rate == INSTANCE RateLimit

ASSUME SizesFit == Shelf!Sizes /\ Rate!Allowance

shelf == <<songs, last, walk, fetch>>
rate == <<counts, left, log, refused>>
allVars == <<subject, vars, shelf, rate>>

AccessInit ==
    /\ subject \in {"accounts", "pages", "audio", "allowance"}
    /\ Init /\ Shelf!Init /\ Rate!Init
    /\ subject # "accounts" => admins = Accounts /\ ApprovedAdmins = Accounts

AccessNext ==
    /\ UNCHANGED subject
    /\ \/ subject = "accounts" /\ Next /\ UNCHANGED <<shelf, rate>>
       \/ subject = "pages" /\ Shelf!Next /\ UNCHANGED <<fetch, vars, rate>>
       \/ subject = "audio" /\ Shelf!Next /\ UNCHANGED <<walk, vars, rate>>
       \/ subject = "allowance" /\ Rate!Next /\ UNCHANGED <<vars, shelf>>

AccessSpec == AccessInit /\ [][AccessNext]_allVars
-----------------------------------------------------------------------------
(* Every variable of the three has its type.                                  *)
AccessTypeOK == TypeOK /\ Shelf!TypeOK /\ Rate!TypeOK

(* Library: a walk through a section shows every song that stayed in it, and  *)
(* none twice (history.go:104-106).                                           *)
WalkIsExact == Shelf!WalkIsExact

(* Library: audio goes to those entitled to it, whatever is shared or unshared *)
(* between the two reads (access.go:452-460).                                 *)
ServedToTheEntitled == Shelf!ServedToTheEntitled

(* RateLimit: no address gets more than two allowances in a window's length,  *)
(* nor is refused but for requests of its own (ratelimit.go:28-45).           *)
AllowanceIsFair == Rate!AllowanceIsFair
=============================================================================
