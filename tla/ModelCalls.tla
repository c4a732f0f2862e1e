------------------------------ MODULE ModelCalls ------------------------------
(***************************************************************************)
(* Access to the language models: LLMArtifactService with its cache of     *)
(* answers, the chain of providers it walks when one fails, the second     *)
(* request in JSON-object mode, the one repair of a malformed answer, and  *)
(* the budget reserved before every call.                                  *)
(*                                                                         *)
(* A question is an operation together with its input; the version and     *)
(* configuration columns of the cache identity are constant here.          *)
(***************************************************************************)
EXTENDS Naturals, Sequences, FiniteSets, SequencesExt

CONSTANTS
  Providers,    \* the configured chain, in order
  FallsBack,    \* those with supports_json_object_fallback (openai_responses)
  MaxRetries,   \* of a provider's transport
  MaxCalls      \* max_calls of an attempt's budget

ASSUME ModelCallConstantsOK ==
  /\ Providers \in Seq(ToSet(Providers)) /\ Providers # <<>> /\ IsInjective(Providers)
  /\ FallsBack \subseteq ToSet(Providers)
  /\ MaxRetries \in Nat /\ MaxCalls \in Nat

VARIABLES
  artifacts,  \* the llm_artifacts table
  call,       \* the request a provider is answering, or NoCall
  answer,     \* what generate_structured returned to the step, or NoAnswer
  reserved    \* call_count of the attempt's BudgetController

modelVars == <<artifacts, call, answer, reserved>>

\* Nothing is asked, nothing was answered, and nothing was paid for either.
NoCall   == [made |-> 0]
NoAnswer == [calls |-> 0]

InitModelCalls == artifacts = {} /\ call = NoCall /\ answer = NoAnswer /\ reserved = 0

-----------------------------------------------------------------------------
\* One request of a provider, with its retries.

\* A timeout, a broken connection, a 429 or 5xx; a 400 or 422; any other error status or a
\* body without one JSON object; one JSON object.
Replies == {"transient", "rejected", "error", "object"}

Exchanges ==
  {s \in BoundedSeq(Replies, MaxRetries + 1) :
     /\ s # <<>> /\ \A i \in 1..(Len(s) - 1) : s[i] = "transient"
     /\ Last(s) # "transient" \/ Len(s) = MaxRetries + 1}

\* Only a schema request of a provider that knows the other mode may be "unsupported".
Outcome(p, format, exchange) ==
  CASE Last(exchange) = "object" -> "content"
    [] Last(exchange) = "rejected" /\ p \in FallsBack /\ format = "json_schema" -> "unsupported"
    [] Last(exchange) # "object" /\ ~ (Last(exchange) = "rejected" /\ p \in FallsBack
                                       /\ format = "json_schema") -> "failed"

Outcomes == {<<p, format, Outcome(p, format, exchange)>> :
               p \in ToSet(Providers), format \in {"json_schema", "json_object"}, exchange \in Exchanges}

-----------------------------------------------------------------------------
\* The cache.

RowsOf(question) == {row \in artifacts : row.question = question}

RowOfPreferred(question) ==               \* mutant: only the first provider's rows are looked up
  {row \in RowsOf(question) : row.provider = Head(Providers)}

Position(p) == CHOOSE i \in DOMAIN Providers : Providers[i] = p

\* Every provider's identity is looked up, in the order of the chain.
Cached(question) ==
  {row \in RowsOf(question) :
     \A other \in RowsOf(question) : Position(row.provider) <= Position(other.provider)}

Hit(row) == [value |-> row.value, calls |-> 0]

-----------------------------------------------------------------------------
\* The calls.  made counts the requests of the question so far.

Request(question, p, round, format, made) ==
  [question |-> question, provider |-> p, round |-> round, format |-> format, made |-> made]

LastCallTwice == reserved <= MaxCalls      \* mutant: the limit is compared without the call to come

WithinBudget == reserved < MaxCalls

Reserve == WithinBudget /\ reserved' = reserved + 1

\* An answer from the cache, else the first request.
Ask(question) ==
  /\ call = NoCall /\ answer = NoAnswer
  /\ \/ \E row \in Cached(question) : answer' = Hit(row) /\ UNCHANGED <<call, reserved>>
     \/ /\ Cached(question) = {} /\ Reserve
        /\ call' = Request(question, Head(Providers), "first", "json_schema", 1)
        /\ UNCHANGED answer
  /\ UNCHANGED artifacts

AfterProvider(p) == SubSeq(Providers, Position(p) + 1, Len(Providers))

Answered(outcome) == call # NoCall /\ <<call.provider, call.format, outcome>> \in Outcomes

Retry(p, round, format) ==
  /\ Reserve
  /\ call' = Request(call.question, p, round, format, call.made + 1)
  /\ UNCHANGED <<artifacts, answer>>

\* The same provider again, asked for a JSON object.
FallBackToObject == Answered("unsupported") /\ Retry(call.provider, call.round, "json_object")

NextProvider ==
  /\ Answered("failed") /\ AfterProvider(call.provider) # <<>>
  /\ Retry(Head(AfterProvider(call.provider)), call.round, "json_schema")

ForgetFirstRound ==                       \* mutant: the repair starts a count of its own
  /\ Answered("content") /\ call.round = "first"
  /\ Reserve /\ call' = Request(call.question, Head(Providers), "repair", "json_schema", 1)
  /\ UNCHANGED <<artifacts, answer>>

\* The whole chain once more, with the same question and a plea for the right shape.
Repair ==
  /\ Answered("content") /\ call.round = "first"
  /\ Retry(Head(Providers), "repair", "json_schema")

\* An answer that validates is stored under the provider that gave it.
Accept(value) ==
  /\ Answered("content")
  /\ artifacts' = artifacts \cup {[question |-> call.question, provider |-> call.provider, value |-> value]}
  /\ answer' = [value |-> value, calls |-> call.made]
  /\ call' = NoCall
  /\ UNCHANGED reserved

\* No provider left, a second malformed answer, an answer that contradicts its evidence, or
\* a budget that does not allow the next call: generate_structured raises.
Raises(question) ==
  \/ call = NoCall /\ answer = NoAnswer /\ Cached(question) = {} /\ ~ WithinBudget
  \/ Answered("unsupported") /\ ~ WithinBudget
  \/ Answered("failed") /\ (AfterProvider(call.provider) = <<>> \/ ~ WithinBudget)
  \/ Answered("content")

Discard == call' = NoCall /\ answer' = NoAnswer

=============================================================================
