-------------------------- MODULE TokenAccounting ---------------------------
(***************************************************************************)
(* services/inference/token_accounting.py with schemas/chat_completion.py: *)
(* the tokens a request may use, estimated before it is admitted, and the  *)
(* tokens its answer used.  A text is a sequence over Chars, of which the  *)
(* token counter tells apart only blanks and the rest.  Mut... operators   *)
(* are wrong variants of the definition below them.                        *)
(***************************************************************************)
EXTENDS Integers, Sequences, FiniteSets, FiniteSetsExt, SequencesExt

CONSTANTS Chars,        \* the characters
          Blank,        \* the one that stands for white space
          ImageTokens,  \* IMAGE_PART_TOKEN_ESTIMATE
          MaxInput, MaxOutput, MaxTotal

ASSUME TokenLimitsAssumption ==
  /\ Blank \in Chars /\ ImageTokens \in Nat
  /\ MaxInput \in Nat \ {0} /\ MaxOutput \in Nat \ {0} /\ MaxTotal \in Nat \ {0}

\* A JSON number that is null, and one whose key is missing.
Null   == -1
Absent == -2

-----------------------------------------------------------------------------
\* HeuristicTokenEstimator.count_text: a quarter of the stripped length, rounded up.
Stripped(text) ==
  LET solid == {i \in 1..Len(text) : text[i] # Blank}
  IN  IF solid = {} THEN 0 ELSE Max(solid) - Min(solid) + 1

Quarter(n) == (n + 3) \div 4

CountText(text) == Quarter(Stripped(text))

RoleTokens(role) ==
  Quarter([user |-> 4, tool |-> 4, system |-> 6, assistant |-> 9][role])

\* A message has a role and a content: the list of its parts.  Plain text is a
\* list of one part, which must not be blank; a list of parts must not be empty.
Part    == [type : {"text", "image_url"}, text : Seq(Chars)]
Message == [role : {"system", "user", "assistant", "tool"}, plain : BOOLEAN, parts : Seq(Part)]

IsImage(part) == part.type = "image_url"

ValidMessage(m) ==
  /\ m.parts # <<>>
  /\ m.plain => Len(m.parts) = 1 /\ Stripped(m.parts[1].text) > 0

ValidRequest(request) ==
  /\ request.messages # <<>>
  /\ \A i \in 1..Len(request.messages) : ValidMessage(request.messages[i])
  /\ request.max_tokens = Null \/ request.max_tokens > 0

\* f[1] + ... + f[n]
SumTo(f, n) ==
  LET sum[i \in 0..n] == IF i = 0 THEN 0 ELSE sum[i - 1] + f[i] IN sum[n]

PartTokens(part) == IF IsImage(part) THEN ImageTokens ELSE CountText(part.text)

MessageTokens(m) ==
  LET n == Len(m.parts)
  IN  4 + RoleTokens(m.role) + SumTo([p \in 1..n |-> PartTokens(m.parts[p])], n)

EstimatePrompt(messages) ==
  LET n == Len(messages)
  IN  2 + SumTo([i \in 1..n |-> MessageTokens(messages[i])], n)

\* build_token_plan.  The order of its checks decides which error a client sees.
OutputOf(request) == IF request.max_tokens = Null THEN MaxOutput ELSE request.max_tokens

PlanOf(request) ==
  LET prompt == EstimatePrompt(request.messages)
  IN  [prompt |-> prompt, output |-> OutputOf(request), total |-> prompt + OutputOf(request)]

Refusal(plan) ==
  IF plan.output > MaxOutput THEN "max_output_tokens_exceeded"
  ELSE IF plan.prompt > MaxInput THEN "max_input_tokens_exceeded"
  ELSE IF plan.total > MaxTotal THEN "max_total_tokens_exceeded"
  ELSE "none"

-----------------------------------------------------------------------------
UsageRecord(prompt, completion, total, status) ==
  [prompt |-> prompt, completion |-> completion, total |-> total, status |-> status]

\* usage.get(key, default) or 0: the default stands for a missing key only.
Get(value, default) ==
  IF value = Absent THEN default ELSE IF value = Null THEN 0 ELSE value

\* usage_from_response: what vLLM reports, or the count of all choices' text.
UsageFromResponse(response, plan) ==
  IF response.reports
  THEN LET prompt     == Get(response.prompt_tokens, plan.prompt)
           completion == Get(response.completion_tokens, 0)
           total      == Get(response.total_tokens, prompt + completion)
       IN  UsageRecord(prompt, completion, total, "completed")
  ELSE LET completion == CountText(FlattenSeq(response.choices))
       IN  UsageRecord(plan.prompt, completion, plan.prompt + completion, "completed")

\* stream_delta_text: the text of one line; a line that is no chunk has none.
DeltaText(line) == IF line.kind = "chunk" THEN FlattenSeq(line.choices) ELSE <<>>

\* usage_from_stream_text
MutUsageFromStreamText(text, plan, status) ==
  UsageRecord(plan.prompt, Quarter(Len(text)), plan.prompt + Quarter(Len(text)), status)
UsageFromStreamText(text, plan, status) ==
  UsageRecord(plan.prompt, CountText(text), plan.prompt + CountText(text), status)

\* What TokenReservation.finalize leaves of the estimate: it only gives back.
ChargeLeft(plan, usage) ==
  IF usage.status = "failed" THEN 0
  ELSE IF usage.total < plan.total THEN usage.total ELSE plan.total
=============================================================================
