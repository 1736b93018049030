------------------------- MODULE RunPodClientProofs -------------------------
(* Proofs about RunPodClient, for any payloads and any limits that keep to    *)
(* Limits: what goes back to the queue was never billed, an output is read    *)
(* as what it is, and a finished generation is not given up early.            *)
EXTENDS RunPodClient, TLAPS

Live == {"submitted", "running"}
Bytes == Says(200, "bytes")

\* How many glitches stand behind r retries: one each up to what the status polls
\* allow, and a whole round of downloads for each further one.
Needed(r) == IF r < MaxTransient THEN r
             ELSE MaxTransient - 1 + (1 + r - MaxTransient) * FetchAttempts

\* Inductive together. Asked says which request is out in which state of the job,
Asked ==
    /\ call = "run" <=> state = "submitting"
    /\ call \in {"status", "audio"} => state \in Live
    /\ call = "none" => answer = Silence
    /\ call # "audio" => attempts = 0
    /\ call = "audio" /\ answer # Bytes => attempts >= 1
    /\ ~BodiesCut => answer.body # "cut"

\* Unbilled that an answer after which the job is submitted again enqueued nothing,
Unbilled ==
    /\ state = "queued" => billed = 0
    /\ state = "submitting" /\ (answer = Silence \/ IsRetryableSubmit(answer)) => billed = 0

\* Read that only an output with a delivery is downloaded,
Read ==
    /\ call = "audio" \/ song => OutputOf(payload) \in {"s3", "base64"}
    /\ reason = "schema" => OutputOf(payload) = "schema"

\* and Patient, which needs connections that do not die inside a 200's body, that
\* the glitches account for the retries and the downloads of this round.
Patient == ~refused /\ ~BodiesCut =>
    /\ state \in Live => /\ glitches >= Needed(retries)
                         /\ call = "audio" => glitches + 1 >= Needed(retries) + attempts
    /\ state = "failed" => /\ reason # "permanent"
                           /\ reason = "transient" => glitches >= MaxTransient
                           /\ reason = "store" => glitches >= Needed(MaxStoreRetries)

Exchanged == TypeOK /\ Asked /\ Unbilled /\ Read /\ Patient

LEMMA Bounds ==
  /\ MaxTransient \in Nat /\ MaxTransient >= 1 /\ FetchAttempts \in Nat /\ FetchAttempts >= 1
  /\ MaxStoreRetries \in Nat /\ MaxTransient <= MaxStoreRetries
  BY Limits

LEMMA NeededGrows ==
  ASSUME NEW r \in Nat
  PROVE  /\ Needed(r) \in Int /\ Needed(0) = 0
         /\ r + 1 < MaxTransient => Needed(r + 1) = Needed(r) + 1
         /\ r + 1 >= MaxTransient => Needed(r) >= MaxTransient - 1
         /\ Needed(r + 1) <= Needed(r) + FetchAttempts
  <1>1. CASE r + 1 < MaxTransient
    BY <1>1, Bounds DEF Needed
  <1>2. CASE r + 1 >= MaxTransient
    <2> DEFINE x == 1 + r - MaxTransient
    <2>1. x \in Nat /\ Needed(r) = MaxTransient - 1 + x * FetchAttempts
      BY <1>2, Bounds DEF Needed
    <2>2. Needed(r + 1) = MaxTransient - 1 + (x + 1) * FetchAttempts
      BY <1>2, Bounds DEF Needed
    <2>3. x * FetchAttempts \in Nat /\ (x + 1) * FetchAttempts = x * FetchAttempts + FetchAttempts
      BY <2>1, Bounds
    <2> QED
      BY <1>2, <2>1, <2>2, <2>3, Bounds DEF Needed
  <1> QED
    BY <1>1, <1>2, Bounds

LEMMA ExchangedInit == Init => Exchanged
  <1> SUFFICES ASSUME Init PROVE Exchanged
    OBVIOUS
  <1>1. TypeOK
    <2>1. retries \in 0..MaxStoreRetries /\ billed \in 0..1 /\ attempts \in 0..FetchAttempts /\ glitches \in Nat
      BY Bounds DEF Init
    <2>2. answer \in [code : -1..599, body : {"none", "id", "no_id", "cut", "bytes"} \cup Statuses]
      BY DEF Init, Silence
    <2> QED
      BY <2>1, <2>2 DEF Init, TypeOK
  <1>2. Asked /\ Unbilled /\ Read /\ Patient
    BY DEF Init, Asked, Unbilled, Read, Patient, Live, Silence
  <1> QED
    BY <1>1, <1>2 DEF Exchanged

LEMMA RunEnqueuesExchanged == ASSUME Exchanged, RunEnqueues PROVE Exchanged'
  <1>1. TypeOK'
    <2>1. billed' \in 0..1 /\ remote' = "working"
      BY DEF Exchanged, TypeOK, Asked, Unbilled, RunEnqueues
    <2>2. answer' \in [code : -1..599, body : {"none", "id", "no_id", "cut", "bytes"} \cup Statuses]
      BY DEF RunEnqueues, Sent, Says, Lost, Soft
    <2> QED
      BY <2>1, <2>2 DEF Exchanged, TypeOK, RunEnqueues, row, history
  <1>2. Asked'
    BY Bounds DEF Exchanged, TypeOK, Asked, RunEnqueues, row, history, Silence, Lost, Says,
       Soft, Statuses, Sent, Live, Bytes
  <1>3. Unbilled'
    BY DEF Exchanged, TypeOK, Asked, Unbilled, RunEnqueues, row, history, Silence, Lost,
       Says, Hard, Soft, NotNow, Statuses, Sent, Error, IsRetryableSubmit, Live, Bytes
  <1>4. Read'
    BY PayloadsAreShapes DEF Exchanged, TypeOK, Asked, Read, RunEnqueues, row, history,
       Silence, Lost, Says, Soft, Statuses, Sent, Live, Bytes
  <1>5. Patient'
    BY Bounds, NeededGrows DEF Exchanged, TypeOK, Asked, Patient, RunEnqueues, row, history,
       Silence, Lost, Says, Soft, Statuses, Sent, Live, Bytes
  <1> QED
    BY <1>1, <1>2, <1>3, <1>4, <1>5 DEF Exchanged

LEMMA RunRefusesExchanged == ASSUME Exchanged, RunRefuses PROVE Exchanged'
  <1>1. TypeOK'
    BY Bounds, PayloadsAreShapes DEF Exchanged, TypeOK, Unbilled, RunRefuses, row, history,
       Silence, Lost, Says, Hard, Soft, NotNow, Statuses, Sent, Error, IsRetryableSubmit
  <1>2. Asked'
    BY Bounds DEF Exchanged, TypeOK, Asked, RunRefuses, row, history, Silence, Lost, Says,
       Hard, Soft, NotNow, Statuses, Sent, Live, Bytes
  <1>3. Unbilled'
    BY DEF Exchanged, TypeOK, Asked, Unbilled, RunRefuses, row, history, Silence, Lost,
       Says, Hard, Soft, NotNow, Statuses, Sent, Error, IsRetryableSubmit, Live, Bytes
  <1>4. Read'
    BY PayloadsAreShapes DEF Exchanged, TypeOK, Asked, Read, RunRefuses, row, history,
       Silence, Lost, Says, Hard, Soft, NotNow, Statuses, Sent, Live, Bytes
  <1>5. Patient'
    BY Bounds, NeededGrows DEF Exchanged, TypeOK, Asked, Patient, RunRefuses, row, history,
       Silence, Lost, Says, Hard, Soft, NotNow, Statuses, Sent, Live, Bytes
  <1> QED
    BY <1>1, <1>2, <1>3, <1>4, <1>5 DEF Exchanged

LEMMA RemoteEndsExchanged == ASSUME Exchanged, RemoteEnds PROVE Exchanged'
  <1>1. TypeOK'
    BY Bounds, PayloadsAreShapes DEF Exchanged, TypeOK, Unbilled, RemoteEnds, row, history,
       Silence, Lost, Hard, NotNow, Statuses, Error, IsRetryableSubmit
  <1>2. Asked'
    BY Bounds DEF Exchanged, TypeOK, Asked, RemoteEnds, row, history, Silence, Says,
       Statuses, Live, Bytes
  <1>3. Unbilled'
    BY DEF Exchanged, TypeOK, Asked, Unbilled, RemoteEnds, row, history, Silence, Lost,
       Says, Hard, NotNow, Statuses, Error, IsRetryableSubmit, Live, Bytes
  <1>4. Read'
    BY PayloadsAreShapes DEF Exchanged, TypeOK, Asked, Read, RemoteEnds, row, history,
       Silence, Says, Statuses, Live, Bytes
  <1>5. Patient'
    BY Bounds, NeededGrows DEF Exchanged, TypeOK, Asked, Patient, RemoteEnds, row, history,
       Silence, Says, Statuses, Live, Bytes
  <1> QED
    BY <1>1, <1>2, <1>3, <1>4, <1>5 DEF Exchanged

LEMMA StatusAnsweredExchanged == ASSUME Exchanged, StatusAnswered PROVE Exchanged'
  <1>1. TypeOK'
    BY Bounds, PayloadsAreShapes DEF Exchanged, TypeOK, Unbilled, StatusAnswered, row,
       history, Silence, Lost, Says, Hard, Soft, NotNow, Statuses, Sent, Seen, Error,
       IsRetryableSubmit
  <1>2. Asked'
    BY Bounds DEF Exchanged, TypeOK, Asked, StatusAnswered, row, history, Silence, Lost,
       Says, Hard, Soft, Statuses, Sent, Seen, Live, Bytes
  <1>3. Unbilled'
    BY DEF Exchanged, TypeOK, Asked, Unbilled, StatusAnswered, row, history, Silence, Lost,
       Says, Hard, Soft, NotNow, Statuses, Sent, Seen, Error, IsRetryableSubmit, Live, Bytes
  <1>4. Read'
    BY PayloadsAreShapes DEF Exchanged, TypeOK, Asked, Read, StatusAnswered, row, history,
       Silence, Lost, Says, Hard, Soft, Statuses, Sent, Seen, Live, Bytes
  <1>5. Patient'
    BY Bounds, NeededGrows DEF Exchanged, TypeOK, Asked, Patient, StatusAnswered, row,
       history, Silence, Lost, Says, Hard, Soft, Statuses, Sent, Seen, Live, Bytes
  <1> QED
    BY <1>1, <1>2, <1>3, <1>4, <1>5 DEF Exchanged

LEMMA AudioAnsweredExchanged == ASSUME Exchanged, AudioAnswered PROVE Exchanged'
  <1>1. TypeOK'
    BY Bounds, PayloadsAreShapes DEF Exchanged, TypeOK, Unbilled, AudioAnswered, row,
       history, Silence, Lost, Says, Hard, NotNow, Statuses, Error, IsRetryableSubmit
  <1>2. Asked'
    BY Bounds DEF Exchanged, TypeOK, Asked, AudioAnswered, row, history, Silence, Lost,
       Says, Statuses, Live, Bytes
  <1>3. Unbilled'
    BY DEF Exchanged, TypeOK, Asked, Unbilled, AudioAnswered, row, history, Silence, Lost,
       Says, Hard, NotNow, Statuses, Error, IsRetryableSubmit, Live, Bytes
  <1>4. Read'
    BY PayloadsAreShapes DEF Exchanged, TypeOK, Asked, Read, AudioAnswered, row, history,
       Silence, Lost, Says, Statuses, Live, Bytes
  <1>5. Patient'
    BY Bounds, NeededGrows DEF Exchanged, TypeOK, Asked, Patient, AudioAnswered, row,
       history, Silence, Lost, Says, Statuses, Live, Bytes
  <1> QED
    BY <1>1, <1>2, <1>3, <1>4, <1>5 DEF Exchanged

LEMMA SubmitExchanged == ASSUME Exchanged, Submit PROVE Exchanged'
  <1>1. TypeOK'
    BY Bounds, PayloadsAreShapes DEF Exchanged, TypeOK, Unbilled, Submit, history, Silence,
       Lost, Hard, NotNow, Statuses, Error, IsRetryableSubmit, fail, Hangs
  <1>2. Asked'
    BY Bounds DEF Exchanged, TypeOK, Asked, Submit, history, Silence, Says, Statuses, fail,
       Hangs, Live, Bytes
  <1>3. Unbilled'
    BY DEF Exchanged, TypeOK, Asked, Unbilled, Submit, history, Silence, Lost, Says, Hard,
       NotNow, Statuses, Error, IsRetryableSubmit, fail, Hangs, Live, Bytes
  <1>4. Read'
    BY PayloadsAreShapes DEF Exchanged, TypeOK, Asked, Read, Submit, history, Silence, Says,
       Statuses, fail, Hangs, Live, Bytes
  <1>5. Patient'
    BY Bounds, NeededGrows DEF Exchanged, TypeOK, Asked, Patient, Submit, history, Silence,
       Says, Statuses, fail, Hangs, Live, Bytes
  <1> QED
    BY <1>1, <1>2, <1>3, <1>4, <1>5 DEF Exchanged

LEMMA classifySubmitExchanged == ASSUME Exchanged, classifySubmit PROVE Exchanged'
  <1>1. TypeOK'
    BY Bounds, PayloadsAreShapes DEF Exchanged, TypeOK, Unbilled, classifySubmit, history,
       Silence, Lost, Hard, NotNow, Statuses, Error, IsRetryableSubmit, IsPermanent, fail,
       Moves, Hangs
  <1>2. Asked'
    BY Bounds DEF Exchanged, TypeOK, Asked, classifySubmit, history, Silence, Lost, Says,
       Hard, NotNow, Statuses, Error, IsRetryableSubmit, IsPermanent, fail, Moves, Hangs,
       Live, Bytes
  <1>3. Unbilled'
    BY DEF Exchanged, TypeOK, Asked, Unbilled, classifySubmit, history, Silence, Lost, Says,
       Hard, NotNow, Statuses, Error, IsRetryableSubmit, IsPermanent, fail, Moves, Hangs,
       Live, Bytes
  <1>4. Read'
    BY PayloadsAreShapes DEF Exchanged, TypeOK, Asked, Read, classifySubmit, history,
       Silence, Lost, Says, Hard, NotNow, Statuses, Error, IsRetryableSubmit, IsPermanent,
       fail, Moves, Hangs, Live, Bytes
  <1>5. Patient'
    BY Bounds, NeededGrows DEF Exchanged, TypeOK, Asked, Patient, classifySubmit, history,
       Silence, Lost, Says, Hard, NotNow, Statuses, Error, IsRetryableSubmit, IsPermanent,
       fail, Moves, Hangs, Live, Bytes
  <1> QED
    BY <1>1, <1>2, <1>3, <1>4, <1>5 DEF Exchanged

LEMMA pollStatusExchanged == ASSUME Exchanged, pollStatus PROVE Exchanged'
  <1>1. TypeOK'
    <2>1. CASE Hangs("status") /\ UNCHANGED <<row, history>>
      BY <2>1 DEF Exchanged, TypeOK, pollStatus, Hangs, Silence, row, history
    <2>2. CASE fail("permanent") /\ refused' = TRUE /\ UNCHANGED <<call, answer, glitches>>
      BY <2>2 DEF Exchanged, TypeOK, pollStatus, fail
    <2> QED
      BY <2>1, <2>2 DEF pollStatus
  <1>2. Asked'
    BY Bounds DEF Exchanged, TypeOK, Asked, pollStatus, row, history, Silence, Says,
       Statuses, fail, Hangs, Live, Bytes
  <1>3. Unbilled'
    BY DEF Exchanged, TypeOK, Asked, Unbilled, pollStatus, row, history, Silence, Lost,
       Says, Hard, NotNow, Statuses, Error, IsRetryableSubmit, fail, Hangs, Live, Bytes
  <1>4. Read'
    BY PayloadsAreShapes DEF Exchanged, TypeOK, Asked, Read, pollStatus, row, history,
       Silence, Says, Statuses, fail, Hangs, Live, Bytes
  <1>5. Patient'
    BY Bounds, NeededGrows DEF Exchanged, TypeOK, Asked, Patient, pollStatus, row, history,
       Silence, Says, Statuses, fail, Hangs, Live, Bytes
  <1> QED
    BY <1>1, <1>2, <1>3, <1>4, <1>5 DEF Exchanged

LEMMA classifyExchanged == ASSUME Exchanged, classify PROVE Exchanged'
  <1>1. TypeOK'
    <2>1. /\ state' \in {state, "failed"} /\ reason' \in {reason, "permanent", "transient"}
          /\ retries' \in 0..MaxStoreRetries /\ call' = "none" /\ answer' = Silence
      BY Bounds DEF Exchanged, TypeOK, classify, Bump, fail, Hangs
    <2>2. refused' \in BOOLEAN
      BY Zenon DEF Exchanged, TypeOK, classify, Glitch
    <2>3. glitches' \in Nat
      BY DEF Exchanged, TypeOK, classify, Glitch
    <2>4. answer' \in [code : -1..599, body : {"none", "id", "no_id", "cut", "bytes"} \cup Statuses]
      BY <2>1 DEF Silence
    <2>5. /\ state \in {"queued", "submitting", "submitted", "running", "succeeded", "failed"}
          /\ reason \in {"none", "submit-rejected", "submit-ambiguous", "permanent", "transient",
                         "remote", "worker", "schema", "store"}
      BY DEF Exchanged, TypeOK
    <2>6. /\ remote' \in {"none", "working", "completed", "failed"} /\ billed' \in 0..1
          /\ payload' \in Payloads /\ song' \in BOOLEAN /\ attempts' \in 0..FetchAttempts
      BY DEF Exchanged, TypeOK, classify
    <2> QED
      BY <2>1, <2>2, <2>3, <2>4, <2>5, <2>6 DEF TypeOK
  <1>2. Asked'
    BY Bounds DEF Exchanged, TypeOK, Asked, classify, Silence, Lost, Says, Hard, Statuses,
       Error, IsPermanent, fail, Hangs, Bump, Glitch, Live, Bytes
  <1>3. Unbilled'
    BY DEF Exchanged, TypeOK, Asked, Unbilled, classify, Silence, Lost, Says, Hard, NotNow,
       Statuses, Error, IsRetryableSubmit, IsPermanent, fail, Hangs, Bump, Glitch, Live,
       Bytes
  <1>4. Read'
    BY PayloadsAreShapes DEF Exchanged, TypeOK, Asked, Read, classify, Silence, Lost, Says,
       Hard, Statuses, Error, IsPermanent, fail, Hangs, Bump, Glitch, Live, Bytes
  <1>5. Patient'
    <2> SUFFICES ASSUME ~refused', ~BodiesCut PROVE Patient'
      BY DEF Patient
    <2>1. Error(answer) # "decode"
      BY DEF Exchanged, Asked, Error
    <2>2. ~IsPermanent(answer) /\ Bump(MaxTransient, "transient") /\ Glitch
      BY <2>1 DEF classify
    <2>3. state \in Live /\ ~refused /\ call' = "none"
      BY <2>2 DEF Exchanged, Asked, classify, Glitch, Hangs
    <2>4. /\ glitches >= Needed(retries) /\ glitches' = glitches + 1
          /\ glitches \in Nat /\ retries \in Nat
      BY <2>2, <2>3, Bounds DEF Exchanged, TypeOK, Patient, Glitch
    <2>5. CASE retries + 1 >= MaxTransient
      <3>1. state' = "failed" /\ reason' = "transient"
        BY <2>2, <2>5 DEF Bump, fail
      <3>2. glitches' >= MaxTransient
        BY <2>4, <2>5, Bounds, NeededGrows
      <3> QED
        BY <3>1, <3>2 DEF Patient, Live
    <2>6. CASE ~(retries + 1 >= MaxTransient)
      <3>1. state' = state /\ retries' = retries + 1
        BY <2>2, <2>6 DEF Bump
      <3>2. glitches' >= Needed(retries')
        BY <2>4, <2>6, <3>1, Bounds, NeededGrows
      <3> QED
        BY <2>3, <3>1, <3>2 DEF Patient, Live
    <2> QED
      BY <2>5, <2>6
  <1> QED
    BY <1>1, <1>2, <1>3, <1>4, <1>5 DEF Exchanged

LEMMA applyStatusExchanged == ASSUME Exchanged, applyStatus PROVE Exchanged'
  <1>1. TypeOK'
    BY Bounds, PayloadsAreShapes DEF Exchanged, TypeOK, Unbilled, applyStatus, Silence,
       Lost, Hard, NotNow, Statuses, Error, IsRetryableSubmit, fail, Moves, Hangs, NoGlitch
  <1>2. Asked'
    BY Bounds DEF Exchanged, TypeOK, Asked, applyStatus, Silence, Lost, Says, Hard,
       Statuses, Error, fail, Moves, Hangs, NoGlitch, Live, Bytes
  <1>3. Unbilled'
    BY DEF Exchanged, TypeOK, Asked, Unbilled, applyStatus, Silence, Lost, Says, Hard,
       NotNow, Statuses, Error, IsRetryableSubmit, fail, Moves, Hangs, NoGlitch, Live, Bytes
  <1>4. Read'
    BY PayloadsAreShapes DEF Exchanged, TypeOK, Asked, Read, applyStatus, Silence, Lost,
       Says, Hard, Statuses, Error, fail, Moves, Hangs, NoGlitch, Live, Bytes
  <1>5. Patient'
    BY Bounds, NeededGrows DEF Exchanged, TypeOK, Asked, Patient, applyStatus, Silence,
       Lost, Says, Hard, Statuses, Error, fail, Moves, Hangs, NoGlitch, Live, Bytes
  <1> QED
    BY <1>1, <1>2, <1>3, <1>4, <1>5 DEF Exchanged

LEMMA completeExchanged == ASSUME Exchanged, complete PROVE Exchanged'
  <1>1. TypeOK'
    BY Bounds, PayloadsAreShapes DEF Exchanged, TypeOK, Unbilled, complete, Delivery,
       FieldsOf, row, history, Silence, Lost, Says, Hard, NotNow, Statuses, Error,
       IsRetryableSubmit, OutputOf, fail, Hangs
  <1>2. Asked'
    BY Bounds DEF Exchanged, TypeOK, Asked, complete, Delivery, FieldsOf, row, history,
       Silence, Says, Statuses, OutputOf, fail, Hangs, Live, Bytes
  <1>3. Unbilled'
    BY DEF Exchanged, TypeOK, Asked, Unbilled, complete, Delivery, FieldsOf, row, history,
       Silence, Lost, Says, Hard, NotNow, Statuses, Error, IsRetryableSubmit, OutputOf,
       fail, Hangs, Live, Bytes
  <1>4. Read'
    BY PayloadsAreShapes DEF Exchanged, TypeOK, Asked, Read, complete, row, history,
       Silence, Says, Statuses, fail, Hangs, Live, Bytes
  <1>5. Patient'
    BY Bounds, NeededGrows DEF Exchanged, TypeOK, Asked, Patient, complete, Delivery,
       FieldsOf, row, history, Silence, Says, Statuses, OutputOf, fail, Hangs, Live, Bytes
  <1> QED
    BY <1>1, <1>2, <1>3, <1>4, <1>5 DEF Exchanged

LEMMA fetchFailsExchanged == ASSUME Exchanged, fetchFails PROVE Exchanged'
  <1>1. TypeOK'
    <2>1. /\ state' \in {state, "failed"} /\ reason' \in {reason, "store"} /\ retries' \in 0..MaxStoreRetries
          /\ call' \in {"audio", "none"} /\ answer' = Silence /\ attempts' \in 0..FetchAttempts
      BY Bounds DEF Exchanged, TypeOK, fetchFails, fetch, Bump, fail, Hangs, row
    <2>2. refused' \in BOOLEAN
      BY Zenon DEF Exchanged, TypeOK, fetchFails, Glitch
    <2>3. glitches' \in Nat
      BY DEF Exchanged, TypeOK, fetchFails, Glitch
    <2>4. answer' \in [code : -1..599, body : {"none", "id", "no_id", "cut", "bytes"} \cup Statuses]
      BY <2>1 DEF Silence
    <2>5. /\ state \in {"queued", "submitting", "submitted", "running", "succeeded", "failed"}
          /\ reason \in {"none", "submit-rejected", "submit-ambiguous", "permanent", "transient",
                         "remote", "worker", "schema", "store"}
      BY DEF Exchanged, TypeOK
    <2>6. /\ remote' \in {"none", "working", "completed", "failed"} /\ billed' \in 0..1
          /\ payload' \in Payloads /\ song' \in BOOLEAN
      BY DEF Exchanged, TypeOK, fetchFails
    <2> QED
      BY <2>1, <2>2, <2>3, <2>4, <2>5, <2>6 DEF TypeOK
  <1>2. Asked'
    BY Bounds DEF Exchanged, TypeOK, Asked, fetchFails, row, Silence, Says, Statuses, fail,
       Hangs, Bump, Glitch, permanentFetch, fetch, Live, Bytes
  <1>3. Unbilled'
    BY DEF Exchanged, TypeOK, Asked, Unbilled, fetchFails, row, Silence, Lost, Says, Hard,
       NotNow, Statuses, Error, IsRetryableSubmit, fail, Hangs, Bump, Glitch,
       permanentFetch, fetch, Live, Bytes
  <1>4. Read'
    BY PayloadsAreShapes DEF Exchanged, TypeOK, Asked, Read, fetchFails, row, Silence, Says,
       Statuses, fail, Hangs, Bump, Glitch, permanentFetch, fetch, Live, Bytes
  <1>5. Patient'
    <2> SUFFICES ASSUME ~refused', ~BodiesCut
                 PROVE  /\ state' \in Live => /\ glitches' >= Needed(retries')
                                              /\ call' = "audio" => glitches' + 1 >= Needed(retries') + attempts'
                        /\ state' = "failed" => /\ reason' # "permanent"
                                                /\ reason' = "transient" => glitches' >= MaxTransient
                                                /\ reason' = "store" => glitches' >= Needed(MaxStoreRetries)
      BY DEF Patient
    <2>1. glitches' = glitches + 1 /\ ~refused /\ ~permanentFetch(answer)
      BY DEF fetchFails, Glitch
    <2>2. state \in Live /\ call = "audio"
      BY DEF Exchanged, Asked, fetchFails
    <2>3. /\ glitches >= Needed(retries) /\ glitches + 1 >= Needed(retries) + attempts
          /\ glitches \in Nat /\ attempts \in 0..FetchAttempts /\ retries \in Nat /\ retries <= MaxStoreRetries
      BY <2>1, <2>2, Bounds DEF Exchanged, TypeOK, Patient
    <2>4. CASE attempts < FetchAttempts
      <3>1. UNCHANGED row /\ attempts' = attempts + 1
        BY <2>1, <2>4 DEF fetchFails, fetch
      <3>2. state' \in Live /\ retries' = retries
        BY <2>2, <3>1 DEF row
      <3> QED
        BY <2>1, <2>3, <3>1, <3>2, NeededGrows DEF Live
    <2>5. CASE attempts >= FetchAttempts
      <3>1. Bump(MaxStoreRetries, "store") /\ call' = "none"
        BY <2>3, <2>5, Bounds DEF fetchFails, fetch, Hangs
      <3>2. glitches' >= Needed(retries) + FetchAttempts
        BY <2>1, <2>3, <2>5, Bounds, NeededGrows
      <3>3. glitches' >= Needed(retries + 1) /\ glitches' >= Needed(retries)
        BY <2>1, <2>3, <3>2, Bounds, NeededGrows
      <3>4. CASE retries + 1 >= MaxStoreRetries
        <4>1. state' = "failed" /\ reason' = "store"
          BY <3>1, <3>4 DEF Bump, fail
        <4>2. retries = MaxStoreRetries \/ retries + 1 = MaxStoreRetries
          BY <2>3, <3>4, Bounds
        <4> QED
          BY <3>3, <4>1, <4>2 DEF Live
      <3>5. CASE ~(retries + 1 >= MaxStoreRetries)
        <4>1. state' \in Live /\ retries' = retries + 1
          BY <2>2, <3>1, <3>5 DEF Bump
        <4> QED
          BY <3>1, <3>3, <4>1 DEF Live
      <3> QED
        BY <3>4, <3>5
    <2> QED
      BY <2>3, <2>4, <2>5, Bounds
  <1> QED
    BY <1>1, <1>2, <1>3, <1>4, <1>5 DEF Exchanged

LEMMA finishExchanged == ASSUME Exchanged, finish PROVE Exchanged'
  <1>1. TypeOK'
    <2>1. /\ state' \in {state, "failed", "succeeded"} /\ reason' \in {reason, "store"}
          /\ retries' \in 0..MaxStoreRetries
          /\ call' = "none" /\ answer' = Silence /\ attempts' = 0
      BY Bounds DEF Exchanged, TypeOK, finish, Moves, NoGlitch, Bump, fail, Hangs
    <2>2. refused' \in BOOLEAN /\ song' \in BOOLEAN
      BY Zenon DEF Exchanged, TypeOK, finish, NoGlitch
    <2>3. glitches' \in Nat /\ attempts' \in 0..FetchAttempts
      BY Bounds DEF Exchanged, TypeOK, finish, NoGlitch
    <2>4. answer' \in [code : -1..599, body : {"none", "id", "no_id", "cut", "bytes"} \cup Statuses]
      BY <2>1 DEF Silence
    <2>5. /\ state \in {"queued", "submitting", "submitted", "running", "succeeded", "failed"}
          /\ reason \in {"none", "submit-rejected", "submit-ambiguous", "permanent", "transient",
                         "remote", "worker", "schema", "store"}
      BY DEF Exchanged, TypeOK
    <2>6. /\ remote' \in {"none", "working", "completed", "failed"} /\ billed' \in 0..1
          /\ payload' \in Payloads
      BY DEF Exchanged, TypeOK, finish
    <2> QED
      BY <2>1, <2>2, <2>3, <2>4, <2>5, <2>6 DEF TypeOK
  <1>2. Asked'
    BY Bounds DEF Exchanged, TypeOK, Asked, finish, Silence, Says, Statuses, fail, Moves,
       Hangs, Bump, NoGlitch, Live, Bytes
  <1>3. Unbilled'
    BY DEF Exchanged, TypeOK, Asked, Unbilled, finish, Silence, Lost, Says, Hard, NotNow,
       Statuses, Error, IsRetryableSubmit, fail, Moves, Hangs, Bump, NoGlitch, Live, Bytes
  <1>4. Read'
    BY PayloadsAreShapes DEF Exchanged, TypeOK, Asked, Read, finish, HasAudio, Silence,
       Says, Statuses, fail, Moves, Hangs, Bump, NoGlitch, Live, Bytes
  <1>5. Patient'
    BY Bounds, NeededGrows DEF Exchanged, TypeOK, Asked, Patient, finish, Silence, Says,
       Statuses, fail, Moves, Hangs, Bump, NoGlitch, Live, Bytes
  <1> QED
    BY <1>1, <1>2, <1>3, <1>4, <1>5 DEF Exchanged

LEMMA ExchangedNext == ASSUME Exchanged, [Next]_vars PROVE Exchanged'
  <1>1. CASE RunPod
    BY <1>1, RunEnqueuesExchanged, RunRefusesExchanged, RemoteEndsExchanged,
       StatusAnsweredExchanged, AudioAnsweredExchanged DEF RunPod
  <1>2. CASE Worker
    BY <1>2, SubmitExchanged, classifySubmitExchanged, pollStatusExchanged, classifyExchanged,
       applyStatusExchanged, completeExchanged, fetchFailsExchanged, finishExchanged DEF Worker
  <1>3. CASE UNCHANGED vars
    BY <1>3 DEF Exchanged, TypeOK, Asked, Unbilled, Read, Patient, IsRetryableSubmit, Error,
                vars, row, history
  <1> QED
    BY <1>1, <1>2, <1>3 DEF Next

LEMMA AlwaysExchanged == Spec => []Exchanged
  <1> QED
    BY ExchangedInit, ExchangedNext, PTL DEF Spec

(* The state keeps its types (runpod.go, worker.go's classify and complete).  *)
THEOREM ClientTypesCorrect == Spec => []TypeOK
  <1>1. Exchanged => TypeOK
    BY DEF Exchanged
  <1> QED
    BY <1>1, AlwaysExchanged, PTL

(* A job goes back to the queue only when nothing was enqueued for it,        *)
(* whatever the wire does to the answers, so no second POST can bill it       *)
(* (runpod.go:98-106).                                                        *)
THEOREM RequeuedAlwaysUnbilled == Spec => []RequeuedIsUnbilled
  <1>1. Exchanged => RequeuedIsUnbilled
    BY DEF Exchanged, Unbilled, RequeuedIsUnbilled
  <1> QED
    BY <1>1, AlwaysExchanged, PTL

(* Every output is read as what it is: a failure as a failure, audio as       *)
(* audio, for every set of payloads (runpod.go:380-405).                      *)
THEOREM OutputAlwaysRead == Spec => []OutputIsRead
  <1>1. Exchanged => OutputIsRead
    <2> SUFFICES ASSUME Exchanged PROVE OutputIsRead
      OBVIOUS
    <2>1. payload.direct \in Fields /\ payload.envelope \in Fields
      BY PayloadsAreShapes DEF Exchanged, TypeOK, Payload
    <2>2. ASSUME payload.direct.error \/ FieldsOf(payload).error PROVE OutputOf(payload) = "worker"
      BY <2>2 DEF OutputOf
    <2>3. OutputOf(payload) = "schema" =>
            Delivery(payload.direct) = "none" /\ Delivery(payload.envelope) = "none"
      BY <2>1 DEF OutputOf, FieldsOf, Delivery, Fields
    <2>4. \A f \in Fields : Delivery(f) = "none" => ~f.url /\ ~f.inline
      BY DEF Delivery, Fields
    <2> QED
      BY <2>1, <2>2, <2>3, <2>4 DEF Exchanged, Read, OutputIsRead
  <1> QED
    BY <1>1, AlwaysExchanged, PTL

(* When no connection dies inside a 200's body, a finished generation is      *)
(* given up only after as many transient errors as the limits say, for every  *)
(* value of the limits (README.md:119).                                       *)
THEOREM CompletedNeverDiscarded ==
  ASSUME ~BodiesCut
  PROVE  Spec => []CompletedIsNotDiscarded
  <1>1. Exchanged => CompletedIsNotDiscarded
    <2> SUFFICES ASSUME Exchanged, state = "failed", ~refused,
                        reason \in {"permanent", "transient", "store"}
                 PROVE  glitches >= IF reason = "store"
                          THEN MaxTransient - 1 + (1 + MaxStoreRetries - MaxTransient) * FetchAttempts
                          ELSE MaxTransient
      BY DEF CompletedIsNotDiscarded
    <2>1. CASE reason = "store"
      <3>1. glitches >= Needed(MaxStoreRetries)
        BY <2>1 DEF Exchanged, Patient
      <3>2. ~(MaxStoreRetries < MaxTransient)
        BY Bounds
      <3> QED
        BY <2>1, <3>1, <3>2 DEF Needed
    <2>2. CASE reason # "store"
      BY <2>2 DEF Exchanged, Patient
    <2> QED
      BY <2>1, <2>2
  <1> QED
    BY <1>1, AlwaysExchanged, PTL
=============================================================================
