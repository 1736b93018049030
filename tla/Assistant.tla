------------------------------ MODULE Assistant ------------------------------
(* The song assistant and the style editor (internal/llm/llm.go behind        *)
(* handleAssistant and handleStyleAssistant): one exchange with a chat model  *)
(* through a gateway that may stay silent, refuse, break off or stop early,   *)
(* and the parsing of whatever arrived. A reply is a sequence of pieces, each *)
(* a line or a brace the parsers tell apart; `thought` marks the pieces the   *)
(* model wrote while it was thinking, which the parsers cannot see.           *)
EXTENDS Integers, Sequences, FiniteSets

CONSTANTS
    Replies,        \* Replies[kind][engine]: what the model may set out to write
    Deployments,    \* the sets of <<kind, engine>> pairs that may have a prompt and a parser
    CallTimeout

ASSUME Deadline == CallTimeout \in Nat \ {0}

Kinds == {"draft", "style"}
Engines == {"minimax", "yue2"}
Answers == {"sse", "json", "429", "5xx"}
Reasons == {"none", "stop", "length", "content_filter"}

VARIABLES
    at,         \* "idle", "posting", "reading"
    ask,        \* the kind and the engine of the request
    reply,      \* what the model is writing, and `sent`, how much of it came
    sent,
    attempt,    \* POSTs that failed before an answer
    left,       \* time to the deadline all attempts share
    http,       \* how the answer began
    body,       \* the chunks received
    ending,     \* "open", "end", or "cut" when the connection broke
    outcome,    \* what the caller got: "none" before, "draft", or the error's key
    draft       \* the pieces it was made of
call == <<ask, reply>>
wire == <<sent, http, body, ending>>
vars == <<at, call, attempt, left, wire, outcome, draft>>

Init ==
    /\ at = "idle" /\ ask = [kind |-> "draft", engine |-> "minimax"]
    /\ reply = << >> /\ sent = 0 /\ attempt = 0 /\ left = 0
    /\ http = "none" /\ body = << >> /\ ending = "open"
    /\ outcome = "none" /\ draft = << >>
-----------------------------------------------------------------------------
(* The parsers. Each returns the pieces of what it found, none if nothing.    *)
Is(s, what) == {k \in DOMAIN s : s[k].is \in what}

\* The n-th of a set of places, the first and the last, and what stands there.
Nth(K, n) == CHOOSE k \in K : Cardinality({j \in K : j <= k}) = n
First(K) == Nth(K, 1)
Last(K) == Nth(K, Cardinality(K))
Only(s, K) == [n \in 1..Cardinality(K) |-> s[Nth(K, n)]]

stripThinking_KeepsUnclosed(s) ==
    LET opened == Is(s, {"think"})  closed == Is(s, {"unthink"})
    IN  IF opened = {} \/ closed = {} THEN s
        ELSE SubSeq(s, 1, First(opened) - 1) \o SubSeq(s, First(closed) + 1, Len(s))

\* What is outside the thinking tags; a tag never closed hides all that follows.
Hidden(s, k) == \E i \in 1..k : s[i].is = "think" /\ \A j \in i..k : s[j].is # "unthink"
Closes(s, k) == s[k].is = "unthink" /\ k > 1 /\ Hidden(s, k - 1)
stripThinking(s) == Only(s, {k \in DOMAIN s : ~Hidden(s, k) /\ ~Closes(s, k)})

\* What the model wrote while thinking is between its tags, or they are open still.
ASSUME ThoughtsAreTagged ==
    \A k \in Kinds, e \in Engines : \A r \in Replies[k][e] :
        /\ r \in Seq([is : STRING \ {"none"}, thought : BOOLEAN]) /\ r # << >>
        /\ \A n \in DOMAIN r : r[n].thought => Hidden(r, n) \/ Closes(r, n)

stripFences(s) == Only(s, DOMAIN s \ Is(s, {"fence"}))

\* An object on its own that has both lyrics and instructions.
tryParseDraftJSON(s) == IF Len(s) = 2 /\ s[1].is = "lbrace" /\ s[2].is = "rbrace" THEN s ELSE << >>

Braced(s) ==
    LET opens == Is(s, {"lbrace", "bare"})  closes == Is(s, {"rbrace"})
    IN  IF opens = {} \/ closes = {} THEN << >> ELSE SubSeq(s, First(opens), Last(closes))

\* The last closed fence that holds one, else the text after the last fence,
\* else all of it.
ParseDraft(s) ==
    LET c == stripThinking(s)
        f == Is(c, {"fence"})
        Fenced(k) == tryParseDraftJSON(SubSeq(c, Nth(f, 2 * k - 1) + 1, Nth(f, 2 * k) - 1))
        valid == {k \in 1..(Cardinality(f) \div 2) : Fenced(k) # << >>}
        tail == IF f = {} THEN << >> ELSE tryParseDraftJSON(Braced(SubSeq(c, Last(f) + 1, Len(c))))
    IN  IF valid # {} THEN Fenced(Last(valid))
        ELSE IF tail # << >> THEN tail
        ELSE tryParseDraftJSON(Braced(c))

\* Sections by label, a later one replacing an earlier; only the style is needed.
ParseYue2Draft(s) ==
    LET c == stripFences(stripThinking(s))
        Section(label) == LET at_ == Is(c, {label}) IN
                          IF at_ = {} THEN << >> ELSE <<c[Last(at_)]>>
    IN  IF Section("STYLE") = << >> THEN << >>
        ELSE Section("STYLE") \o Section("LYRICS") \o Section("COT") \o Section("NOTES")

\* The first line that is not empty.
ParseYue2Style(s) ==
    LET c == stripFences(stripThinking(s)) IN IF c = << >> THEN << >> ELSE <<c[1]>>

\* From the first of the three headings, which must all follow in order.
ParseMiniMaxStyle(s) ==
    LET c == stripFences(stripThinking(s))
        one == Is(c, {"Global_Metadata"})
    IN  IF \E i, j, k \in DOMAIN c : /\ i < j /\ j < k /\ c[i].is = "Global_Metadata"
                                     /\ c[j].is = "Vocal_Details" /\ c[k].is = "Arrangement"
        THEN SubSeq(c, First(one), Len(c)) ELSE << >>

Parse(a, s) ==
    IF a.kind = "draft"
      THEN IF a.engine = "yue2" THEN ParseYue2Draft(s) ELSE ParseDraft(s)
      ELSE IF a.engine = "yue2" THEN ParseYue2Style(s) ELSE ParseMiniMaxStyle(s)
-----------------------------------------------------------------------------
NoText == [is |-> "none", thought |-> FALSE]
Chunk(text, reason, refusal, error) == [text |-> text, reason |-> reason, refusal |-> refusal, error |-> error]
Empty == Chunk(NoText, "none", FALSE, FALSE)

Expired == left = 0
answers(what, pieces) == outcome' = what /\ draft' = pieces /\ at' = "idle"
fails(what) == answers(what, << >>)

\* A request with no profile for its engine ends here.
Ask(a) ==
    /\ at = "idle" /\ ask' = a
    /\ sent' = 0 /\ attempt' = 0 /\ left' = CallTimeout
    /\ http' = "none" /\ body' = << >> /\ ending' = "open"
    /\ reply' \in Replies[a.kind][a.engine]
    /\ \E profiles \in Deployments :
         IF <<a.kind, a.engine>> \in profiles
         THEN at' = "posting" /\ outcome' = "none" /\ draft' = << >>
         ELSE fails("unavailable")

(* The gateway and the model behind it. It writes nothing after a reason.     *)
Begins(answer) ==
    /\ at = "posting" /\ ~Expired
    /\ at' = "reading" /\ http' = answer
    /\ ending' = IF answer \in {"sse", "json"} THEN "open" ELSE "end"
    /\ UNCHANGED <<call, attempt, left, sent, body, outcome, draft>>

Writing == at = "reading" /\ ending = "open" /\ \A k \in DOMAIN body : body[k].reason = "none" /\ ~body[k].error

Sends(chunk) == body' = Append(body, chunk) /\ UNCHANGED <<at, call, attempt, left, http, ending, outcome, draft>>

Writes ==
    /\ Writing /\ sent < Len(reply)
    /\ sent' = sent + 1
    /\ Sends(Chunk(reply[sent + 1], "none", FALSE, FALSE))

Concludes ==
    /\ Writing
    /\ \/ sent = Len(reply) /\ Sends(Chunk(NoText, "stop", FALSE, FALSE))
       \/ Sends(Chunk(NoText, "length", FALSE, FALSE))
       \/ \E refusal \in BOOLEAN : Sends(Chunk(NoText, "content_filter", refusal, FALSE))
       \/ Sends(Chunk(NoText, "stop", TRUE, FALSE))
       \/ Sends(Chunk(NoText, "none", FALSE, TRUE))
    /\ UNCHANGED sent

\* A trailing chunk that only counts tokens; and at any time, with a reason given or
\* without one, the answer ends cleanly or breaks.
Ends ==
    /\ at = "reading" /\ ending = "open"
    /\ \/ ~Writing /\ body[Len(body)] # Empty /\ body' = Append(body, Empty) /\ UNCHANGED ending
       \/ ending' \in {"end", "cut"} /\ UNCHANGED body
    /\ UNCHANGED <<at, call, attempt, left, sent, http, outcome, draft>>
-----------------------------------------------------------------------------
(* The client.                                                                *)
doFails_DeadlinePerTry ==
    /\ at = "posting" /\ Expired /\ left' = CallTimeout
    /\ UNCHANGED <<at, call, attempt, wire, outcome, draft>>

\* No answer to the POST: one more try, if there is time.
doFails ==
    /\ at = "posting"
    /\ UNCHANGED <<call, left, wire>>
    /\ IF Expired THEN fails("timeout") /\ UNCHANGED attempt
       ELSE IF attempt = 0 THEN attempt' = 1 /\ UNCHANGED <<at, outcome, draft>>
       ELSE fails("unavailable") /\ UNCHANGED attempt

Texts(b) == Only([k \in DOMAIN b |-> b[k].text], {k \in DOMAIN b : b[k].text # NoText})

foldSSE_LastChunk(b) ==
    [content |-> Texts(b), error |-> FALSE, refusal |-> b # << >> /\ b[Len(b)].refusal,
     reason |-> IF b = << >> THEN "none" ELSE b[Len(b)].reason]

\* The chunks as one message: all text, the last reason, any refusal.
foldSSE(b) ==
    LET reasons == {k \in DOMAIN b : b[k].reason # "none"}
    IN  [content |-> Texts(b), error |-> FALSE,
         refusal |-> \E k \in DOMAIN b : b[k].refusal,
         reason |-> IF reasons = {} THEN "none" ELSE b[Last(reasons)].reason]

decodeChatResponse ==
    IF http = "sse" THEN foldSSE(body)
    ELSE [foldSSE(body) EXCEPT !.error = \E k \in DOMAIN body : body[k].error]

Undecodable(m) == ending = "cut" \/ (m.content = << >> /\ m.reason = "none" /\ ~m.refusal /\ ~m.error)

\* The answer was read, to its end or as far as it went: told in this order.
Read == at = "reading" /\ (ending # "open" \/ Expired)

complete ==
    /\ Read
    /\ LET m == decodeChatResponse  found == Parse(ask, m.content) IN
       CASE Expired                                     -> fails("timeout")
         [] ~Expired /\ http = "429"                    -> fails("rate-limited")
         [] ~Expired /\ http = "5xx"                    -> fails("unavailable")
         [] ~Expired /\ http \in {"sse", "json"} ->
              IF Undecodable(m) THEN fails("unparseable")
              ELSE IF m.error THEN fails("unavailable")
              ELSE IF m.reason = "length" THEN fails("output-limit")
              ELSE IF m.reason = "content_filter" \/ m.refusal THEN fails("refused")
              ELSE IF found = << >> THEN fails("unparseable")
              ELSE answers("draft", found)
    /\ UNCHANGED <<call, attempt, left, wire>>

Tick ==
    /\ at # "idle" /\ left > 0 /\ left' = left - 1
    /\ UNCHANGED <<at, call, attempt, wire, outcome, draft>>

\* The page goes away, which ends the request's context.
Disconnect ==
    /\ at # "idle" /\ left > 0 /\ left' = 0
    /\ UNCHANGED <<at, call, attempt, wire, outcome, draft>>

Next ==
    \/ \E k \in Kinds, e \in Engines : Ask([kind |-> k, engine |-> e])
    \/ \E a \in Answers : Begins(a)
    \/ Writes \/ Concludes \/ Ends
    \/ doFails \/ complete \/ Tick \/ Disconnect

Spec == Init /\ [][Next]_vars

\* The context's deadline passes, and the client acts on it or on an answer, which
\* complete alone brings from "reading" to "idle".
FairSpec == Spec /\ WF_vars(Tick) /\ WF_at(Read /\ at' = "idle") /\ WF_vars(Expired /\ doFails)
-----------------------------------------------------------------------------
\* What is offered is never taken from the model's thinking, whether its tags
\* were closed or the thinking was all that came (llm.go:455-480), and never from
\* an answer whose connection broke or that a provider's signal cut off, refused
\* or, as JSON, reported in error (README.md:104). It is the whole reply, with two
\* exceptions: an answer that ends cleanly without a finish reason is taken as far
\* as it went (llm.go:357-368, 448-453; the streams of llm_test.go:54-76 end so), and
\* so is a stream that ends in an error object, for which foldSSE has no field.
DraftIsTheAnswer ==
    outcome = "draft" =>
        /\ draft # << >> /\ \A k \in DOMAIN draft : ~draft[k].thought
        /\ ending = "end"
        /\ \A k \in DOMAIN body : /\ body[k].reason \in {"none", "stop"} /\ ~body[k].refusal
                                 /\ body[k].error => http = "sse"
        /\ sent = Len(reply) \/ \A k \in DOMAIN body : body[k].reason = "none"

\* What a caller is told is what happened. A reply that came whole and in time is
\* found, in any of its layouts: bare, fenced, fence left open, behind prose or
\* thinking (llm.go:505-507, 577-580). A cutoff and a refusal are each told as
\* what they are (README.md:104). At most one retry was paid for (llm.go:314).
OutcomeIsTrue ==
    /\ outcome = "unparseable" /\ ending = "end" =>
         sent < Len(reply) \/ \A k \in DOMAIN reply : reply[k].thought
    /\ outcome \in {"draft", "unparseable", "output-limit", "refused"} /\ ending = "end" =>
         \A k \in DOMAIN body :
             /\ body[k].reason = "length" => outcome = "output-limit"
             /\ body[k].reason = "content_filter" \/ body[k].refusal => outcome = "refused"
    /\ attempt <= 1

\* Every call ends, by its one deadline at the latest (llm.go:20-21).
EveryCallEnds == at # "idle" ~> at = "idle"
=============================================================================
