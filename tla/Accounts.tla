------------------------------ MODULE Accounts ------------------------------
(* Accounts, sessions and administration: internal/server/{auth,access,      *)
(* admin}.go over the users and sessions tables of internal/store/store.go.  *)
(* Requests are processes. The connection pool holds one connection, so a    *)
(* statement waits for a transaction and everything else interleaves.        *)
EXTENDS FiniteSets, Integers

CONSTANTS
    Accounts,       \* generated user ids: one is registered once
    ConfigAdmin,    \* ConfigAdminUserID, which has no users row
    Requests,       \* requests the server may be handling at once
    Tokens,         \* session tokens, each generated once
    NoToken,        \* a request without a session cookie
    Nobody,         \* the free database connection
    MaxEra,         \* bound: how often a restart may bring new administrator credentials
    MaxEpoch        \* bound: how often an account may be moved off approved

ASSUME ConfigAdminHasNoRow == ConfigAdmin \notin Accounts
ASSUME NobodyAsks == Nobody \notin Requests
ASSUME BoundsAreNumbers == MaxEra \in Nat /\ MaxEpoch \in Nat

VARIABLES
    admins,     \* accounts with role 'admin', which only the operator writes (README.md:327)
    users,      \* users[a]: status, or "none" before registering, "gone" after a delete
    epoch,      \* epoch[a]: how often a has been moved off approved (history)
    sessions,   \* the sessions table: token -> row
    issued,     \* tokens generated so far
    era,        \* which administrator credentials the process was started with
    conn,       \* the request inside a transaction, or Nobody
    req         \* req[r]: where request r stands
vars == <<admins, users, epoch, sessions, issued, era, conn, req>>

Statuses == {"none", "pending", "approved", "disabled", "gone"}
HasRow(a) == users[a] \notin {"none", "gone"}
ApprovedAdmins == {a \in admins : users[a] = "approved"}

Idle == [at |-> "idle"]
Step(r, from, to) == req[r].at = from /\ req' = [req EXCEPT ![r] = to]
Done(r, from) == Step(r, from, Idle)
Free == conn = Nobody

Init ==
    /\ admins \in SUBSET Accounts
    /\ users \in {f \in [Accounts -> {"none", "approved"}] : \A a \in Accounts \ admins : f[a] = "none"}
    /\ ApprovedAdmins # {}
    /\ epoch = [a \in Accounts |-> 0]
    /\ sessions = [t \in {} |-> Idle] /\ issued = {}
    /\ era = 0 /\ conn = Nobody
    /\ req = [r \in Requests |-> Idle]
-----------------------------------------------------------------------------
(* handleRegister: a new account is pending and is not signed in.             *)
Register(a) ==
    /\ Free /\ users[a] = "none"
    /\ users' = [users EXCEPT ![a] = "pending"]
    /\ UNCHANGED <<epoch, sessions, issued, era, conn, req>>

(* handleLogin reads the row once, before it compares the password.           *)
LoginLookup(r, a, cookie) ==
    /\ Free \/ a = ConfigAdmin
    /\ a # ConfigAdmin => HasRow(a)
    /\ Step(r, "idle", [at |-> "password", user |-> a, cookie |-> cookie,
                        status |-> IF a = ConfigAdmin THEN "approved" ELSE users[a]])
    /\ UNCHANGED <<users, epoch, sessions, issued, era, conn>>

(* A wrong password, or the status read above is not approved.                *)
LoginRefused(r) ==
    /\ Done(r, "password")
    /\ UNCHANGED <<users, epoch, sessions, issued, era, conn>>

LoginVerified(r) ==
    /\ req[r].at = "password" /\ req[r].status = "approved"
    /\ Step(r, "password", [at |-> "startSession", user |-> req[r].user, cookie |-> req[r].cookie])
    /\ UNCHANGED <<users, epoch, sessions, issued, era, conn>>

Without(t) == [u \in DOMAIN sessions \ {t} |-> sessions[u]]

(* startSession, first statement: the token presented is revoked; if that     *)
(* fails the login ends.                                                      *)
RevokePresented(r) ==
    /\ Free /\ req[r].at = "startSession"
    /\ \/ /\ sessions' = Without(req[r].cookie)
          /\ Step(r, "startSession", [at |-> "createSession", user |-> req[r].user])
       \/ Done(r, "startSession") /\ UNCHANGED sessions
    /\ UNCHANGED <<users, epoch, issued, era, conn>>

Row(a) == [user |-> a, configAdmin |-> a = ConfigAdmin, era |-> era, expired |-> FALSE,
           epoch |-> IF a = ConfigAdmin THEN 0 ELSE epoch[a]]

CreateSession(r) ==
    /\ Free /\ req[r].at = "createSession"
    /\ \E t \in Tokens \ issued :
         /\ issued' = issued \cup {t}
         /\ \/ sessions' = [u \in DOMAIN sessions \cup {t} |->
                              IF u = t THEN Row(req[r].user) ELSE sessions[u]]
            \/ UNCHANGED sessions
    /\ Done(r, "createSession")
    /\ UNCHANGED <<users, epoch, era, conn>>

(* handleLogout needs no approved account, only the token.                    *)
Logout(t) ==
    /\ Free /\ t \in DOMAIN sessions
    /\ sessions' = Without(t)
    /\ UNCHANGED <<users, epoch, issued, era, conn, req>>

(* Seven days pass for a session. Nothing removes its row.                    *)
Expire(t) ==
    /\ t \in DOMAIN sessions /\ ~sessions[t].expired
    /\ sessions' = [sessions EXCEPT ![t].expired = TRUE]
    /\ UNCHANGED <<users, epoch, issued, era, conn, req>>
-----------------------------------------------------------------------------
(* GetSession's live join: who the token stands for now, or denied.           *)
Denied == [user |-> Nobody, admin |-> FALSE]
GetSession_CachedStatus(t) ==
    IF t \notin DOMAIN sessions THEN Denied
    ELSE IF sessions[t].expired THEN Denied
    ELSE [user |-> sessions[t].user, admin |-> sessions[t].user \in admins \cup {ConfigAdmin}]

GetSession(t) ==
    IF t \notin DOMAIN sessions THEN Denied
    ELSE LET s == sessions[t] IN
         IF s.expired THEN Denied
         ELSE IF s.user \in Accounts /\ HasRow(s.user)
              THEN IF users[s.user] = "approved" THEN [user |-> s.user, admin |-> s.user \in admins]
                   ELSE Denied
         ELSE IF s.configAdmin THEN [user |-> s.user, admin |-> TRUE]
         ELSE Denied

(* protect and authenticate: the caller's identity is fixed here and carried  *)
(* by the request from now on.                                                *)
authenticate(r, t) ==
    /\ Free
    /\ GetSession(t) # Denied
    /\ Step(r, "idle", [at |-> "admitted", user |-> GetSession(t).user, admin |-> GetSession(t).admin])
    /\ UNCHANGED <<users, epoch, sessions, issued, era, conn>>

Finish(r) ==
    /\ Done(r, "admitted")
    /\ UNCHANGED <<users, epoch, sessions, issued, era, conn>>

(* adminAction: an administrator's request, not aimed at the caller itself    *)
(* unless it approves. Begin waits for the connection.                        *)
adminAction_GuardOutside(r, what, a) ==
    /\ Free /\ req[r].at = "admitted" /\ req[r].admin
    /\ what = "approve" \/ a # req[r].user
    /\ Step(r, "admitted", [at |-> IF what = "approve" THEN "write" ELSE "guard", what |-> what, target |-> a])
    /\ UNCHANGED <<users, epoch, sessions, issued, era, conn>>

adminAction(r, what, a) ==
    /\ Free /\ req[r].at = "admitted" /\ req[r].admin
    /\ what = "approve" \/ a # req[r].user
    /\ Step(r, "admitted", [at |-> IF what = "approve" THEN "write" ELSE "guard", what |-> what, target |-> a])
    /\ conn' = r
    /\ UNCHANGED <<users, epoch, sessions, issued, era>>

LastAdmin(a) == a \in ApprovedAdmins /\ ApprovedAdmins \ {a} = {}

Rollback_Leaks(r, at) == Done(r, at) /\ UNCHANGED <<users, epoch, sessions, issued, era, conn>>

Rollback(r, at) == Done(r, at) /\ conn' = Nobody /\ UNCHANGED <<users, epoch, sessions, issued, era>>

(* guardLastAdmin inside the caller's transaction.                            *)
guardLastAdmin(r) ==
    /\ req[r].at = "guard"
    /\ IF HasRow(req[r].target) /\ ~LastAdmin(req[r].target)
       THEN /\ Step(r, "guard", [req[r] EXCEPT !.at = "write"])
            /\ UNCHANGED <<users, epoch, sessions, issued, era, conn>>
       ELSE Rollback(r, "guard")

(* DELETE FROM sessions WHERE user_id = a.                                    *)
SessionsWithout(a) == [t \in {u \in DOMAIN sessions : sessions[u].user # a} |-> sessions[t]]

(* The statements of UpdateUserStatus or deleteUserRows, and the commit; a    *)
(* failing statement or a missing row rolls everything back.                  *)
Write(r) ==
    LET a == req[r].target  what == req[r].what
    IN  /\ req[r].at = "write"
        /\ \/ Rollback(r, "write")
           \/ /\ HasRow(a) /\ (what # "approve" => epoch[a] < MaxEpoch)
              /\ users' = [users EXCEPT ![a] = CASE what = "approve" -> "approved"
                                                 [] what = "disable" -> "disabled"
                                                 [] what = "delete" -> "gone"]
              /\ IF what = "approve" THEN UNCHANGED <<sessions, epoch>>
                 ELSE /\ sessions' = SessionsWithout(a)
                      /\ epoch' = [epoch EXCEPT ![a] = @ + 1]
              /\ Done(r, "write")
              /\ conn' = Nobody
              /\ UNCHANGED <<issued, era>>

(* The process stops, dropping every request and open transaction, and starts *)
(* again: the static administrator's sessions end with the credentials.       *)
StartSessions_Kept == sessions

StartSessions == [t \in {u \in DOMAIN sessions : ~sessions[u].configAdmin} |-> sessions[t]]

Restart(e) ==
    /\ era' = e
    /\ sessions' = StartSessions
    /\ conn' = Nobody
    /\ req' = [r \in Requests |-> Idle]
    /\ UNCHANGED <<users, epoch, issued>>

Request(r) ==
    \/ \E a \in Accounts \cup {ConfigAdmin}, t \in issued \cup {NoToken} : LoginLookup(r, a, t)
    \/ LoginRefused(r) \/ LoginVerified(r) \/ RevokePresented(r) \/ CreateSession(r)
    \/ \E t \in issued : authenticate(r, t)
    \/ Finish(r)
    \/ \E what \in {"approve", "disable", "delete"}, a \in Accounts : adminAction(r, what, a)
    \/ guardLastAdmin(r) \/ Write(r)

Next ==
    /\ \/ \E a \in Accounts : Register(a)
       \/ \E r \in Requests : Request(r)
       \/ \E t \in Tokens : Logout(t) \/ Expire(t)
       \/ \E e \in {era, era + 1} \cap (0..MaxEra) : Restart(e)
    /\ UNCHANGED admins

Spec == Init /\ [][Next]_vars
-----------------------------------------------------------------------------
SessionRow == [user : Accounts \cup {ConfigAdmin}, configAdmin : BOOLEAN, era : 0..MaxEra,
               expired : BOOLEAN, epoch : 0..MaxEpoch]

TypeOK ==
    /\ admins \subseteq Accounts
    /\ users \in [Accounts -> Statuses] /\ epoch \in [Accounts -> 0..MaxEpoch]
    /\ DOMAIN sessions \subseteq issued /\ issued \subseteq Tokens
    /\ \A t \in DOMAIN sessions : sessions[t] \in SessionRow
    /\ era \in 0..MaxEra
    /\ conn # Nobody => req[conn].at \in {"guard", "write"}

(* However administrators disable and delete each other at the same moment,   *)
(* an approved one remains (store.go:1196-1204).                              *)
AdminRemains == ApprovedAdmins # {}

(* A session in the table was inserted since its account was last moved off   *)
(* approved: disabling or deleting an account ends every session it has, so   *)
(* approving it again revives none (store.go:1167-1171, 1228). A session of   *)
(* the static administrator was opened under the credentials the process runs *)
(* with now (server.go:169-172, store.go:1417-1422).                          *)
SessionsAreCurrent == \A t \in DOMAIN sessions :
    /\ sessions[t].user \in Accounts => sessions[t].epoch = epoch[sessions[t].user]
    /\ sessions[t].configAdmin => sessions[t].era = era

(* A request is admitted only as an account that is approved at that moment,  *)
(* and as an administrator only if it is one, although a login that began     *)
(* before a disable or delete inserts its session afterwards                  *)
(* (store.go:1364-1371, access.go:190-191).                                   *)
AdmittedIsApproved == [][\A r \in Requests :
    req'[r].at = "admitted" /\ req[r].at # "admitted" =>
        \/ req'[r].user = ConfigAdmin
        \/ /\ users'[req'[r].user] = "approved"
           /\ req'[r].admin => req'[r].user \in admins]_vars
=============================================================================
