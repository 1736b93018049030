---------------------------- MODULE RunPodClient ----------------------------
(* One job's exchanges with RunPod, message by message: the HTTP client      *)
(* (internal/runpod/runpod.go), the reading of its answers, and the download *)
(* of the finished audio (worker.go). JobWorker takes the outcome of an      *)
(* exchange as given; here RunPod acts, the network damages the answer, and  *)
(* the client has only the damaged answer to decide from.                    *)
EXTENDS Integers, FiniteSets

CONSTANTS
    Payloads,        \* the outputs a worker may complete the job with
    BodiesCut,       \* BOOLEAN: a connection may die inside a 200's body
    MaxTransient, MaxStoreRetries, FetchAttempts

ASSUME Limits ==
    /\ {MaxTransient, MaxStoreRetries, FetchAttempts} \subseteq Nat \ {0}
    /\ MaxTransient <= MaxStoreRetries        \* worker.go:61 and :67, 3 and 5

(* What a payload may carry, directly or inside the handler's envelope.       *)
Fields == [error : BOOLEAN, delivery : {"none", "s3", "base64"}, url : BOOLEAN, inline : BOOLEAN]
Nothing == [error |-> FALSE, delivery |-> "none", url |-> FALSE, inline |-> FALSE]
Payload == [direct : Fields, envelope : Fields]
ASSUME PayloadsAreShapes == Payloads \subseteq Payload

\* Which of a set of fields names the delivery, "none" for none.
Delivery(f) ==
    IF f.delivery # "none" THEN f.delivery
    ELSE IF f.url THEN "s3"
    ELSE IF f.inline THEN "base64" ELSE "none"

\* Fields that name no delivery are unwrapped.
FieldsOf(p) == IF Delivery(p.direct) = "none" THEN p.envelope ELSE p.direct

HasAudio(f) == IF Delivery(f) = "s3" THEN f.url ELSE f.inline

VARIABLES
    state,      \* the job row's state
    reason,     \* why it failed
    retries,    \* consecutive transient errors (refusals of /run counted to the cap)
    call,       \* the request that is out: "none", "run", "status", "audio"
    answer,     \* what came back for it
    remote,     \* the job at RunPod: "none", "working", "completed", "failed"
    billed,     \* how often /run enqueued it
    payload,    \* what it will complete with
    attempts,   \* downloads tried for this poll
    song,       \* the songs row is in
    glitches,   \* transient errors since RunPod last answered well (history)
    refused     \* something said no for good: a 4xx, ffmpeg (history)
row == <<state, reason, retries>>
history == <<glitches, refused>>
vars == <<row, call, answer, remote, billed, payload, attempts, song, history>>

Silence == [code |-> 0, body |-> "none"]
Lost == [code |-> -1, body |-> "none"]          \* any transport error or timeout
Says(code, body) == [code |-> code, body |-> body]
Hard == {400, 401, 403, 404}
Soft == {500, 502, 504}
NotNow == {409, 429, 503}
Statuses == {"IN_QUEUE", "IN_PROGRESS", "COMPLETED", "FAILED", "CANCELLED", "odd"}

Init ==
    /\ state = "queued" /\ reason = "none" /\ retries = 0
    /\ call = "none" /\ answer = Silence
    /\ remote = "none" /\ billed = 0 /\ payload \in Payloads
    /\ attempts = 0 /\ song = FALSE /\ glitches = 0 /\ refused = FALSE
-----------------------------------------------------------------------------
(* Outside: RunPod, the bucket and the wire. POST /run is refused with any of *)
(* these codes and nothing is enqueued, or enqueued and answered 200, or 5xx  *)
(* by a gateway that gave up waiting.                                         *)
Sent(a) ==
    {a, Lost} \cup (IF BodiesCut /\ a.code = 200 THEN {Says(200, "cut")} ELSE {})

RunEnqueues ==
    /\ call = "run" /\ answer = Silence
    /\ billed' = billed + 1 /\ remote' = "working"
    /\ \E a \in {Says(200, "id")} \cup {Says(c, "none") : c \in Soft} : answer' \in Sent(a)
    /\ UNCHANGED <<row, call, payload, attempts, song, history>>

RunRefuses ==
    /\ call = "run" /\ answer = Silence
    /\ \E a \in {Says(200, "no_id")} \cup {Says(c, "none") : c \in Hard \cup Soft \cup NotNow} :
           answer' \in Sent(a)
    /\ UNCHANGED <<row, call, remote, billed, payload, attempts, song, history>>

RemoteEnds ==
    /\ remote = "working"
    /\ remote' \in {"completed", "failed"}
    /\ UNCHANGED <<row, call, answer, billed, payload, attempts, song, history>>

Seen == CASE remote = "working"   -> {"IN_QUEUE", "IN_PROGRESS"}
          [] remote = "completed" -> {"COMPLETED"}
          [] OTHER                -> {"FAILED", "CANCELLED", "odd"}

StatusAnswered ==
    /\ call = "status" /\ answer = Silence
    /\ \E a \in {Says(200, s) : s \in Seen} \cup {Says(c, "none") : c \in Hard \cup Soft \cup {429, 503}} :
           answer' \in Sent(a)
    /\ UNCHANGED <<row, call, remote, billed, payload, attempts, song, history>>

\* A body that ends early is an error to fetchOnce, which checks what ReadAll says.
AudioAnswered ==
    /\ call = "audio" /\ answer = Silence
    /\ answer' \in (IF FieldsOf(payload).url THEN {Says(200, "bytes")} ELSE {})
                   \cup {Lost, Says(404, "none"), Says(408, "none"), Says(503, "none")}
    /\ UNCHANGED <<row, call, remote, billed, payload, attempts, song, history>>
-----------------------------------------------------------------------------
(* The client's reading of an answer: the error do, Submit and Status return. *)
Error(a) ==
    IF a = Lost THEN "transport"
    ELSE IF a.code \in Hard THEN "permanent"
    ELSE IF a.code # 200 THEN "status"
    ELSE IF a.body = "cut" THEN "decode"       \* do ignores what ReadAll says
    ELSE IF a.body = "no_id" THEN "no_id" ELSE "none"

IsRetryableSubmit_Any5xx(a) == Error(a) \in {"no_id", "status"}

IsRetryableSubmit(a) == Error(a) = "no_id" \/ a.code \in NotNow

IsPermanent(a) == Error(a) \in {"permanent", "decode"}

OutputOf_ShapeFirst(p) ==
    LET at == FieldsOf(p)
    IN IF Delivery(at) = "none" THEN "schema"
       ELSE IF at.error THEN "worker" ELSE Delivery(at)

\* The delivery of a COMPLETED output, or "worker" or "schema" when it has none.
OutputOf(p) ==
    LET at == FieldsOf(p)
    IN IF p.direct.error \/ at.error THEN "worker"
       ELSE IF Delivery(at) = "none" THEN "schema" ELSE Delivery(at)
-----------------------------------------------------------------------------
(* The job row.                                                               *)
fail(why) == state' = "failed" /\ reason' = why /\ UNCHANGED retries
Moves(to) == state' = to /\ retries' = 0 /\ UNCHANGED reason
Hangs(calls) == call' = calls /\ answer' = Silence

\* BumpRetries, then the limit: short of it the next poll tries again.
Bump(limit, why) ==
    IF retries + 1 >= limit THEN fail(why)
    ELSE retries' = retries + 1 /\ UNCHANGED <<state, reason>>

\* submitOne and post; check sends nothing when the key is missing.
Submit ==
    /\ state = "queued" /\ call = "none"
    /\ \/ state' = "submitting" /\ Hangs("run") /\ UNCHANGED <<reason, retries>>
       \/ fail("submit-rejected") /\ UNCHANGED <<call, answer>>
    /\ UNCHANGED <<remote, billed, payload, attempts, song, history>>

classifySubmit ==
    /\ call = "run" /\ answer # Silence
    /\ CASE Error(answer) = "none"    -> Moves("submitted")
         [] IsRetryableSubmit(answer) -> /\ state' = "queued"
                                         /\ retries' = IF retries < MaxStoreRetries THEN retries + 1 ELSE retries
                                         /\ UNCHANGED reason
         [] IsPermanent(answer)       -> fail("submit-rejected")
         [] OTHER                     -> fail("submit-ambiguous")
    /\ Hangs("none")
    /\ UNCHANGED <<remote, billed, payload, attempts, song, history>>

pollStatus ==
    /\ state \in {"submitted", "running"} /\ call = "none"
    /\ \/ Hangs("status") /\ UNCHANGED <<row, history>>
       \/ fail("permanent") /\ refused' = TRUE /\ UNCHANGED <<call, answer, glitches>>
    /\ UNCHANGED <<remote, billed, payload, attempts, song>>

Glitch == glitches' = glitches + 1 /\ UNCHANGED refused
NoGlitch == glitches' = 0 /\ UNCHANGED refused

classify ==
    /\ call = "status" /\ answer # Silence /\ Error(answer) # "none"
    /\ IF IsPermanent(answer)
         THEN /\ fail("permanent")
              /\ IF Error(answer) = "decode" THEN Glitch ELSE refused' = TRUE /\ UNCHANGED glitches
         ELSE Bump(MaxTransient, "transient") /\ Glitch
    /\ Hangs("none")
    /\ UNCHANGED <<remote, billed, payload, attempts, song>>

applyStatus ==
    /\ call = "status" /\ Error(answer) = "none" /\ answer # Silence
    /\ answer.body # "COMPLETED"
    /\ CASE answer.body = "IN_QUEUE"    -> Moves("submitted")
         [] answer.body = "IN_PROGRESS" -> Moves("running")
         [] OTHER                       -> fail("remote")
    /\ NoGlitch
    /\ Hangs("none")
    /\ UNCHANGED <<remote, billed, payload, attempts, song>>

\* complete and audioBytes: an output with audio behind a URL starts a download.
\* The bytes of an inline one are decoded on the spot, good or not.
complete ==
    /\ call = "status" /\ answer = Says(200, "COMPLETED")
    /\ LET how == OutputOf(payload) IN
         \/ how \in {"worker", "schema"} /\ fail(how) /\ Hangs("none") /\ UNCHANGED <<attempts, history, song>>
         \/ how = "s3" /\ Hangs("audio") /\ attempts' = 1 /\ UNCHANGED <<row, history, song>>
         \/ how = "base64" /\ call' = "audio" /\ answer' = Says(200, "bytes")
            /\ UNCHANGED <<row, attempts, history, song>>
    /\ UNCHANGED <<remote, billed, payload>>

permanentFetch(a) == a.code \in 400..499 \ {408, 429}

fetch_NoRetry == Bump(MaxStoreRetries, "store") /\ Hangs("none") /\ attempts' = 0

\* fetch: another attempt while one is left, unless the answer will not change.
fetch ==
    IF attempts < FetchAttempts /\ ~permanentFetch(answer)
      THEN Hangs("audio") /\ attempts' = attempts + 1 /\ UNCHANGED row
      ELSE Bump(MaxStoreRetries, "store") /\ Hangs("none") /\ attempts' = 0

fetchFails ==
    /\ call = "audio" /\ answer # Silence /\ answer # Says(200, "bytes")
    /\ fetch
    /\ IF permanentFetch(answer) THEN refused' = TRUE /\ UNCHANGED glitches ELSE Glitch
    /\ UNCHANGED <<remote, billed, payload, song>>

\* finish: the transcode, the songs row, then the job; or storeFailure.
finish ==
    /\ call = "audio" /\ answer = Says(200, "bytes")
    /\ \/ /\ HasAudio(FieldsOf(payload))
          /\ song' = TRUE /\ Moves("succeeded") /\ NoGlitch
       \/ refused' = TRUE /\ Bump(MaxStoreRetries, "store") /\ UNCHANGED <<song, glitches>>
    /\ attempts' = 0
    /\ Hangs("none")
    /\ UNCHANGED <<remote, billed, payload>>

RunPod == RunEnqueues \/ RunRefuses \/ RemoteEnds \/ StatusAnswered \/ AudioAnswered
Worker == Submit \/ classifySubmit \/ pollStatus \/ classify \/ applyStatus \/ complete
          \/ fetchFails \/ finish
Next == RunPod \/ Worker
Spec == Init /\ [][Next]_vars
-----------------------------------------------------------------------------
\* Every variable keeps its type.
TypeOK ==
    /\ state \in {"queued", "submitting", "submitted", "running", "succeeded", "failed"}
    /\ reason \in {"none", "submit-rejected", "submit-ambiguous", "permanent", "transient",
                   "remote", "worker", "schema", "store"}
    /\ retries \in 0..MaxStoreRetries
    /\ call \in {"none", "run", "status", "audio"}
    /\ answer \in [code : -1..599, body : {"none", "id", "no_id", "cut", "bytes"} \cup Statuses]
    /\ remote \in {"none", "working", "completed", "failed"} /\ billed \in 0..1
    /\ payload \in Payloads /\ attempts \in 0..FetchAttempts
    /\ song \in BOOLEAN /\ glitches \in Nat /\ refused \in BOOLEAN

\* A job goes back to `queued` only when RunPod enqueued nothing, whatever the
\* wire did to its answer (runpod.go:98-106); so no second POST can bill it.
RequeuedIsUnbilled == state = "queued" => billed = 0

\* An in-band failure, at either level of the output, ends the job with the
\* worker's own words and never with a song or a complaint about the shape; and
\* audio that is there is found, whichever engine delivered it, with or without a
\* delivery field, bare or in the handler's envelope (runpod.go:380-405).
OutputIsRead ==
    /\ remote = "completed" /\ (payload.direct.error \/ FieldsOf(payload).error) =>
         ~song /\ reason # "schema"
    /\ reason = "schema" =>
         \A f \in {payload.direct, payload.envelope} : ~f.url /\ ~f.inline

\* A finished generation is not lost over transient failures until MaxTransient
\* of them come in a row; and when the audio itself cannot be had, until whole
\* rounds of downloads have failed for what is left of the store's retries
\* (README.md:119). The exception, which BodiesCut = FALSE leaves out: a status body
\* cut at runpod.go:338 is not transient and discards the finished generation at once.
CompletedIsNotDiscarded ==
    state = "failed" /\ remote = "completed" /\ ~refused /\ HasAudio(FieldsOf(payload))
        /\ reason \in {"permanent", "transient", "store"} =>
        glitches >= IF reason = "store"
                      THEN MaxTransient - 1 + (1 + MaxStoreRetries - MaxTransient) * FetchAttempts
                      ELSE MaxTransient

\* A submission reported as rejected was not accepted; anything unknowable is
\* reported as ambiguous (worker.go:529-533).
RejectedIsNotEnqueued == reason = "submit-rejected" => billed = 0
=============================================================================
