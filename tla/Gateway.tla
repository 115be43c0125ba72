------------------------------ MODULE Gateway ------------------------------
(***************************************************************************)
(* A model call through the LiteLLM gateway: what an agent composes        *)
(* (recon.py, llm.py), what the guardrail makes of the request and of the  *)
(* answer (infra/litellm/guardrails), what the run's meter counts          *)
(* (finops.py) and what spans and checkpoints keep (trace.py, pii.py).     *)
(* A text is a sequence of words of a few kinds: "key" is a credential's   *)
(* name and its separator, "scheme" an authorization scheme, "secret" a    *)
(* word only its key gives away, "bare" a token known by its shape,   *)
(* "person" personal data, "attempt" an instruction to the model,          *)
(* "payload" and "hash" evidence, "newline" the end of a line.             *)
(* LiteLLM, the provider and OpenTelemetry are external.                   *)
(***************************************************************************)
EXTENDS Naturals, Sequences, FiniteSets, SequencesExt, FiniteSetsExt

CONSTANTS
  Texts,        \* what targets, agents and models write: sequences of words
  Declarations, \* the span lists clients declare
  Calls         \* bound: calls of one run

Trust == {"operator", "target-derived"}
None == <<>>  \* no text: the field is absent, null, or not a string
NoSpan == <<"no span">>
Words == {"prose", "key", "scheme", "secret", "bare", "person", "attempt", "payload", "hash",
          "newline", "placeholder"}
GatewayAssumption == Texts \subseteq Seq(Words)

VARIABLES
  phase,    \* of the call: "idle", "gateway", "upstream", "answered"
  request,  \* as the client sent it: [messages, input, spans, stream]
  upstream, \* what the provider received: [messages, preamble]
  answer,   \* the provider's answer, as the callbacks see it: [text, raw, outcome]
  waiting,  \* the agent has not timed out
  meter,    \* finops.RunMeter: [calls, errors]
  made,     \* [calls, contents]: the chat calls the agent began, and what they returned
  narrative, \* the content the agent was given last
  span,     \* the attributes of the open span
  kept      \* what was persisted last: by a checkpoint, by an exported span

callVars == <<phase, request, upstream, answer, waiting, meter, made, narrative, span, kept>>

NoRequest == [messages |-> <<>>, input |-> None, spans |-> <<>>, stream |-> FALSE]
NotSent == [messages |-> <<>>, preamble |-> FALSE]
NoAnswer == [text |-> None, raw |-> FALSE, outcome |-> "none"]
Plain(words) == [words |-> words, mark |-> "none"]

GatewayInit ==
  /\ phase = "idle" /\ request = NoRequest /\ upstream = NotSent /\ answer = NoAnswer
  /\ waiting = FALSE
  /\ meter = [calls |-> 0, errors |-> 0]
  /\ made = [calls |-> 0, contents |-> 0]
  /\ narrative = None /\ span = NoSpan /\ kept = None

-----------------------------------------------------------------------------
(* Redaction.                                                               *)

Before(words, i) == Max({0} \cup {j \in 1..(i - 1) : words[j] # "newline"})
\* _ASSIGNMENT: the words a key takes as its value, one, or a scheme and one. A value is no key again.
Value(words) ==
  LET taken[i \in 0..Len(words)] ==
        LET b == Before(words, i)
            Opens(j) == j > 0 /\ words[j] = "key" /\ ~taken[j]
        IN /\ i > 0 /\ words[i] # "newline"
           /\ \/ Opens(b)
              \/ b > 0 /\ words[b] = "scheme" /\ Opens(Before(words, b))
  IN {i \in DOMAIN words : taken[i]}
\* Datamarking leaves no white space: the value of a key then runs to the end.
RunOn(words) == {i \in DOMAIN words : \E j \in 1..(i - 1) : words[j] = "key"}

Covered(words, which) == [i \in DOMAIN words |-> IF i \in which THEN "placeholder" ELSE words[i]]
Bare(words) == {i \in DOMAIN words : words[i] = "bare"}

\* egress_redaction.redact: hashes are flagged only, payloads not looked for.
RedactText(text) ==
  [text EXCEPT !.words = Covered(@, Bare(@) \cup IF text.mark = "datamark" THEN RunOn(@) ELSE Value(@))]
\* Every location of a request that bears text; a content in parts is redacted part by part.
RedactMessage(m) == [m EXCEPT !.content = IF @ = None THEN @ ELSE RedactText(@),
                              !.arguments = IF @ = None THEN @ ELSE RedactText(@)]
RedactRequest(r) == [r EXCEPT !.messages = [i \in DOMAIN @ |-> RedactMessage(@[i])],
                              !.input = IF @ = None THEN @ ELSE RedactText(@)]

\* pii.scrub.
ScrubPerson(words) == Covered(words, {i \in DOMAIN words : words[i] \in {"person", "bare"}})
\* trace._scrub_scalar: a key takes the rest of its line; then the target's own shapes, then persons.
RestOfLine(words) ==
  {i \in DOMAIN words : /\ words[i] # "newline"
                        /\ \E j \in 1..(i - 1) : words[j] = "key" /\ \A k \in j..i : words[k] # "newline"}
\* Seeded fault: a key takes the next word only.
ScrubOneWord(words) ==
  ScrubPerson(Covered(words, {i \in DOMAIN words : \/ words[i] = "payload"
                                                   \/ i > 1 /\ words[i - 1] = "key"}))
Scrub(words) ==
  ScrubPerson(Covered(Covered(words, Bare(words) \cup RestOfLine(words)),
                      {i \in DOMAIN words : words[i] = "payload"}))

-----------------------------------------------------------------------------
(* The clients.                                                             *)

\* guard_http_response: what asks something of the model is quarantined, persons are scrubbed.
Attempted(words) == "attempt" \in Range(words)
\* llm._spans: the declaration of an agent is exact.
Spans(trusts) == [i \in DOMAIN trusts |-> [index |-> i, trust |-> trusts[i]]]
Message(content, arguments) == [content |-> content, arguments |-> arguments]

\* Recon: the operator's prompt, and facts that come from a target, guarded. preflight may refuse.
AgentCalls ==
  /\ phase = "idle" /\ made.calls < Calls
  /\ \E facts \in Texts :
       /\ ~Attempted(facts)
       /\ request' = [messages |-> <<Message(Plain(<<"prose">>), None),
                                     Message(Plain(ScrubPerson(facts)), None)>>,
                      input |-> None,
                      spans |-> Spans(<<"operator", "target-derived">>),
                      stream |-> FALSE]
  /\ phase' = "gateway" /\ waiting' = TRUE
  /\ made' = [made EXCEPT !.calls = @ + 1]
  /\ upstream' = NotSent /\ answer' = NoAnswer /\ narrative' = None
  /\ UNCHANGED <<meter, span, kept>>

\* Another client of the gateway, which declares what it likes. Bound: once, before the agent.
OtherCalls ==
  /\ phase = "idle" /\ made.calls = 0 /\ request = NoRequest /\ span = NoSpan /\ kept = None
  /\ \E one, two \in Texts \cup {None}, spans \in Declarations, stream, chat \in BOOLEAN :
       LET Opt(t) == IF t = None THEN None ELSE Plain(t)
       IN request' = [messages |-> IF chat THEN <<Message(Opt(one), None), Message(None, Opt(two))>> ELSE <<>>,
                      input |-> IF chat THEN None ELSE Opt(one),
                      spans |-> spans, stream |-> stream]
  /\ phase' = "gateway" /\ waiting' = FALSE
  /\ upstream' = NotSent /\ answer' = NoAnswer
  /\ UNCHANGED <<meter, made, narrative, span, kept>>

-----------------------------------------------------------------------------
(* The guardrail.                                                           *)

\* validate_declaration: every message, once, and no other.
Valid(spans, n) ==
  /\ spans # <<>>
  /\ \A k \in DOMAIN spans : spans[k].index \in 1..n /\ spans[k].trust \in Trust
  /\ \A k, l \in DOMAIN spans : spans[k].index = spans[l].index => k = l
  /\ {spans[k].index : k \in DOMAIN spans} = 1..n
Derived(r) == {s.index : s \in {t \in Range(r.spans) : t.trust = "target-derived"}}
Acceptable(r) ==
  /\ r.messages # <<>>
  /\ Valid(r.spans, Len(r.messages))
  /\ \A i \in Derived(r) : r.messages[i].content # None

\* provenance.spotlight, auto: what has lines is delimited, the rest datamarked.
Spotlight(text) ==
  [text EXCEPT !.mark = IF "newline" \in Range(text.words) THEN "delimit" ELSE "datamark"]
SpotlightMessage(m) == [m EXCEPT !.content = Spotlight(@)]
\* provenance.apply.
Apply(r) ==
  [r EXCEPT !.messages = [i \in DOMAIN @ |-> IF i \in Derived(r) THEN SpotlightMessage(@[i]) ELSE @[i]]]

\* Seeded fault: what is spotlighted first is redacted with its white space gone.
GuardedLate(r) == RedactRequest(Apply(r))
Guarded(r) == Apply(RedactRequest(r))

\* async_pre_call_hook: forwarded, or refused before anything leaves.
Forward ==
  /\ phase = "gateway" /\ Acceptable(request)
  /\ upstream' = [messages |-> Guarded(request).messages, preamble |-> Derived(request) # {}]
  /\ phase' = "upstream"
  /\ UNCHANGED <<request, answer, waiting, meter, made, narrative, span, kept>>

\* finops.record: once for each chat call, as an error when no content came back.
Metered(error) == [calls |-> meter.calls + 1, errors |-> meter.errors + IF error THEN 1 ELSE 0]
\* Seeded fault: an answer without a content is not counted.
CountedIfAnswered(outcome) == IF outcome = "malformed" THEN meter ELSE Metered(outcome # "content")
Counted(outcome) == Metered(outcome # "content")
Returns(outcome) ==
  /\ waiting' = FALSE
  /\ meter' = IF waiting THEN Counted(outcome) ELSE meter
  /\ made' = IF waiting /\ outcome = "content" THEN [made EXCEPT !.contents = @ + 1] ELSE made

RefuseCall ==
  /\ phase = "gateway" /\ ~Acceptable(request)
  /\ phase' = "idle"
  /\ Returns("refused")
  /\ UNCHANGED <<request, upstream, answer, narrative, span, kept>>

\* The provider answers: a text that may quote what it was sent, no content, or an error.
\* async_post_call_success_hook: a streamed answer does not pass it, and its failure fails no call.
Answer ==
  /\ phase = "upstream"
  /\ \E text \in Texts, outcome \in {"content", "malformed", "error"}, fails \in BOOLEAN :
       LET raw == outcome = "content" /\ (fails \/ request.stream)
       IN answer' = [text |-> IF outcome # "content" THEN Plain(None)
                              ELSE IF raw THEN Plain(text) ELSE RedactText(Plain(text)),
                     raw |-> raw, outcome |-> outcome]
  /\ phase' = "answered"
  /\ UNCHANGED <<request, upstream, waiting, meter, made, narrative, span, kept>>

Deliver ==
  /\ phase = "answered"
  /\ phase' = "idle"
  /\ Returns(answer.outcome)
  /\ narrative' = IF waiting THEN answer.text.words ELSE narrative
  /\ UNCHANGED <<request, upstream, answer, span, kept>>

\* requests.post gives up; the gateway goes on with the call.
TimeOut ==
  /\ waiting /\ phase # "idle"
  /\ Returns("timeout")
  /\ UNCHANGED <<phase, request, upstream, answer, narrative, span, kept>>

-----------------------------------------------------------------------------
(* What is kept of it.                                                      *)

\* redact_persisted: the narrative of an answer, into the checkpoint.
Persist ==
  /\ phase = "idle" /\ narrative # None
  /\ kept' = Scrub(narrative)
  /\ UNCHANGED <<phase, request, upstream, answer, waiting, meter, made, narrative, span>>

\* node_span: without a tracer the node runs all the same, and there is no span.
NodeBegins ==
  /\ span = NoSpan /\ phase = "idle"
  /\ \E attribute \in Texts : span' = Scrub(attribute)
  /\ UNCHANGED <<phase, request, upstream, answer, waiting, meter, made, narrative, kept>>

NodeSets ==
  /\ span # NoSpan /\ phase = "idle"
  /\ \E attribute \in Texts : span' = attribute
  /\ UNCHANGED <<phase, request, upstream, answer, waiting, meter, made, narrative, kept>>

\* RedactingSpanProcessor.on_end, before the span is exported.
NodeEnds ==
  /\ span # NoSpan /\ phase = "idle"
  /\ kept' = Scrub(span) /\ span' = NoSpan
  /\ UNCHANGED <<phase, request, upstream, answer, waiting, meter, made, narrative>>

GatewayNext ==
  \/ AgentCalls \/ OtherCalls
  \/ Forward \/ RefuseCall \/ Answer \/ Deliver \/ TimeOut
  \/ Persist \/ NodeBegins \/ NodeSets \/ NodeEnds

GatewaySpec == GatewayInit /\ [][GatewayNext]_callVars

-----------------------------------------------------------------------------

\* What the words of a request say of themselves: the credentials, and the evidence beside them.
Credential(words) == Bare(words) \cup Value(words)
Evidence(words) == {i \in DOMAIN words : words[i] \in {"payload", "hash", "prose"}} \ Credential(words)
KeptWhole(old, new) ==
  \/ old = None /\ new = None
  \/ /\ \A i \in Credential(old.words) : new.words[i] = "placeholder"
     /\ \A i \in Evidence(old.words) : new.words[i] = old.words[i]

\* What the provider receives carries no credential the redaction knows, in any message, and every
\* word of evidence; exactly what was declared as a target's is marked, and then the preamble says so.
ForwardedIsAccounted ==
  phase \in {"upstream", "answered"} =>
    /\ Len(upstream.messages) = Len(request.messages)
    /\ \A i \in DOMAIN upstream.messages :
         LET old == request.messages[i]
             new == upstream.messages[i]
         IN /\ KeptWhole(old.content, new.content) /\ KeptWhole(old.arguments, new.arguments)
            /\ i \in {s.index : s \in {t \in Range(request.spans) : t.trust # "operator"}}
                 <=> new.content # None /\ new.content.mark # "none"
    /\ upstream.preamble <=> \E i \in DOMAIN upstream.messages :
                               upstream.messages[i].content # None /\ upstream.messages[i].content.mark # "none"

\* Once a run waits for nothing, its meter shows each chat call it made, and as errors exactly those
\* that gave it no content: refused, timed out, failed, or answered without one.
EveryCallIsCounted ==
  ~waiting => meter.calls = made.calls /\ meter.errors = made.calls - made.contents

\* No checkpoint and no exported span keeps a credential's line, a target's payload or a person.
KeptIsScrubbed ==
  /\ Range(kept) \cap {"bare", "person", "payload"} = {}
  /\ \A i, j \in DOMAIN kept :
       i < j /\ kept[i] = "key" /\ (\A k \in i..j : kept[k] # "newline") => kept[j] = "placeholder"

CallsAreAccounted == ForwardedIsAccounted /\ EveryCallIsCounted /\ KeptIsScrubbed
=============================================================================
