-------------------------- MODULE RequestLifecycle --------------------------
(***************************************************************************)
(* What happens to a request between its admission and its end, on the     *)
(* three paths to the GPU:                                                 *)
(*   "plain"   create_chat_completion, the response in one piece           *)
(*   "stream"  create_chat_completion returning _stream_response           *)
(*   "batch"   BatchWorker.process_one, from the claim to the outcome      *)
(* Each path takes an admission lease (a concurrency slot and a token      *)
(* reservation), opens an audit row, calls vLLM, finalizes the tokens and  *)
(* the row, emits one analytics event and releases the lease, and has its  *)
(* own way of failing in between.                                          *)
(*                                                                         *)
(* Every await is a step.  A Postgres transaction may fail ("lost") or     *)
(* commit and report an error ("noreply"); a Redis command may fail        *)
(* ("redis"); the upstream may fail to close ("close"); a stream whose     *)
(* client has gone may be cancelled ("cancel"); a process may die          *)
(* ("crash").  Admission.tla has the lease in detail; here a slot is one   *)
(* element of a set.  Operators named Mut... are wrong variants of the     *)
(* definition below them, which the properties refute.                     *)
(***************************************************************************)
EXTENDS Integers, Sequences, FiniteSets

CONSTANTS Requests,  \* each is served once
          Kind,      \* the path of a request
          IdOf,      \* its request id, which a client may choose (x-request-id)
          Limit,     \* the concurrency limit of the API key they share
          Faults     \* the faults that may happen

Kinds == {"plain", "stream", "batch"}

ASSUME RequestsAssumption ==
  /\ IsFiniteSet(Requests)
  /\ Kind \in [Requests -> Kinds]
  /\ Limit \in Nat \ {0}

\* The batch worker generates its request ids.
ASSUME BatchIdsAssumption ==
  \A r, q \in Requests : Kind[r] = "batch" /\ IdOf[q] = IdOf[r] => q = r

ASSUME FaultsAssumption ==
  Faults \subseteq {"lost", "noreply", "redis", "close", "cancel", "crash"}

VARIABLES
  pc,        \* where each request is
  slots,     \* the requests whose concurrency slot is taken
  tokens,    \* the token reservation of a request
  row,       \* the status of its audit row
  audited,   \* the requests that know their row (audit_record_id)
  upstream,  \* its call of vLLM
  outcome,   \* the status its code would record now
  usage,     \* the usage records it has appended to app.state.usage_records
  event,     \* the status of the analytics event it has emitted
  job,       \* of a batch request, the status of its batch job
  gone,      \* the streams whose client has disconnected
  streams    \* the gauge of active streams

vars == <<pc, slots, tokens, row, audited, upstream, outcome, usage, event, job, gone, streams>>

Contract == INSTANCE RequestContract

-----------------------------------------------------------------------------
Final  == {"completed", "failed", "client_disconnected"}
Status == {"none"} \cup Final
PC == {"new", "start", "call", "created", "streaming", "unwind", "settle", "close",
       "markSucceeded", "markFailed", "release", "done"}

\* What can become of one Postgres transaction.
Outcomes == {"ok"} \cup (Faults \cap {"lost", "noreply"})
Ran(o)   == o # "lost"

\* Whether one Redis command runs.
RedisRuns == {TRUE} \cup (IF "redis" \in Faults THEN {FALSE} ELSE {})

Goto(r, place) == pc' = [pc EXCEPT ![r] = place]

Init ==
  /\ pc       = [r \in Requests |-> "new"]
  /\ slots    = {}
  /\ tokens   = [r \in Requests |-> "none"]
  /\ row      = [r \in Requests |-> "none"]
  /\ audited  = {}
  /\ upstream = [r \in Requests |-> "idle"]
  /\ outcome  = [r \in Requests |-> "none"]
  /\ usage    = [r \in Requests |-> <<>>]
  /\ event    = [r \in Requests |-> "none"]
  /\ job      = [r \in Requests |-> "running"]
  /\ gone     = {}
  /\ streams  = 0

(***************************************************************************)
(* Admission, and the audit row                                            *)
(***************************************************************************)
Admitted(r) ==
  /\ pc[r] = "new"
  /\ Cardinality(slots) < Limit
  /\ slots' = slots \cup {r}
  /\ tokens' = [tokens EXCEPT ![r] = "reserved"]
  /\ Goto(r, "start")
  /\ UNCHANGED <<row, audited, upstream, outcome, usage, event, job, gone, streams>>

\* admit raises: an online request gets an error, a batch job fails.
Turned(r) ==
  /\ pc[r] = "new"
  /\ Goto(r, IF Kind[r] = "batch" THEN "markFailed" ELSE "done")
  /\ UNCHANGED <<tokens, row, audited, upstream, outcome, usage, event, job, gone, streams>>

\* Refused for overload, for the request rate or by the concurrency limit, or
\* because a command of theirs fails: the request has no slot.
Refused(r) == Turned(r) /\ UNCHANGED slots

\* Refused by reserve, for the token limit or because Redis fails there: acquire
\* has taken the slot, and nobody has a lease that would give it back.  So it is
\* with a slot over the limit whose rollback fails.
RefusedWithSlot(r) ==
  /\ Turned(r)
  /\ Cardinality(slots) < Limit \/ "redis" \in Faults
  /\ slots' = slots \cup {r}

\* request_audit_records.request_id is unique.
IdIsFree(r) == \A q \in Requests : IdOf[q] = IdOf[r] => row[q] = "none"

StartAudit(r) ==
  /\ pc[r] = "start"
  /\ IdIsFree(r)
  /\ row' = [row EXCEPT ![r] = "accepted"]
  /\ audited' = audited \cup {r}
  /\ IF Kind[r] = "stream"
     THEN /\ Goto(r, "created")
          /\ UNCHANGED upstream
     ELSE /\ Goto(r, "call")
          /\ upstream' = [upstream EXCEPT ![r] = "open"]
  /\ UNCHANGED <<slots, tokens, outcome, usage, event, job, gone, streams>>

\* The insert fails.  An online request leaves with its lease; the batch worker,
\* which starts its audit inside the try, goes to its handler.
StartAuditFails(r) ==
  /\ pc[r] = "start"
  /\ \/ ~IdIsFree(r) /\ UNCHANGED row
     \/ "lost" \in Faults /\ UNCHANGED row
     \/ "noreply" \in Faults /\ IdIsFree(r) /\ row' = [row EXCEPT ![r] = "accepted"]
  /\ IF Kind[r] = "batch"
     THEN /\ outcome' = [outcome EXCEPT ![r] = "failed"]
          /\ Goto(r, "settle")
     ELSE /\ Goto(r, "done")
          /\ UNCHANGED outcome
  /\ UNCHANGED <<slots, tokens, audited, upstream, usage, event, job, gone, streams>>

(***************************************************************************)
(* The call of vLLM                                                        *)
(***************************************************************************)
\* create_chat_completion of the client returns, or raises after an error or a
\* timeout.
Answered(r) ==
  /\ pc[r] = "call"
  /\ \/ /\ upstream' = [upstream EXCEPT ![r] = "ended"]
        /\ outcome' = [outcome EXCEPT ![r] = "completed"]
     \/ /\ upstream' = [upstream EXCEPT ![r] = "cut"]
        /\ outcome' = [outcome EXCEPT ![r] = "failed"]
  /\ Goto(r, "settle")
  /\ UNCHANGED <<slots, tokens, row, audited, usage, event, job, gone, streams>>

\* The server takes the first event of _stream_response.
StreamStarted == streams' = streams + 1

BeginStream(r) ==
  /\ pc[r] = "created"
  /\ StreamStarted
  /\ upstream' = [upstream EXCEPT ![r] = "open"]
  /\ outcome' = [outcome EXCEPT ![r] = "completed"]
  /\ Goto(r, "streaming")
  /\ UNCHANGED <<slots, tokens, row, audited, usage, event, job, gone>>

Disconnect(r) ==
  /\ pc[r] \in {"created", "streaming"}
  /\ r \notin gone
  /\ gone' = gone \cup {r}
  /\ UNCHANGED <<pc, slots, tokens, row, audited, upstream, outcome, usage, event, job, streams>>

\* Where the end of the event loop, however it ends, leads.
MutSkipAccounting == "release"
MutSkipClosing == "settle"
AfterLoop == "unwind"

StreamEnds(r) ==
  /\ pc[r] = "streaming"
  /\ upstream' = [upstream EXCEPT ![r] = "ended"]
  /\ Goto(r, AfterLoop)
  /\ UNCHANGED <<slots, tokens, row, audited, outcome, usage, event, job, gone, streams>>

StreamFails(r) ==
  /\ pc[r] = "streaming"
  /\ outcome' = [outcome EXCEPT ![r] = "failed"]
  /\ Goto(r, AfterLoop)
  /\ UNCHANGED <<slots, tokens, row, audited, upstream, usage, event, job, gone, streams>>

\* is_disconnected is asked at every event, heartbeats included.
NoticeGone(r) ==
  /\ pc[r] = "streaming" /\ r \in gone
  /\ outcome' = [outcome EXCEPT ![r] = "client_disconnected"]
  /\ Goto(r, AfterLoop)
  /\ UNCHANGED <<slots, tokens, row, audited, upstream, usage, event, job, gone, streams>>

\* The server cancels the response of a client that has gone, or closes its
\* generator: no Exception, so status stays "completed" and the finally runs.
CancelStream(r) ==
  /\ "cancel" \in Faults
  /\ pc[r] = "streaming" /\ r \in gone
  /\ Goto(r, AfterLoop)
  /\ UNCHANGED <<slots, tokens, row, audited, upstream, outcome, usage, event, job, gone, streams>>

\* release_all: the whole reservation goes back, not only its unused part.
MutReleaseUnlessCompleted(r) == outcome[r] # "completed"
ReleaseAll(r) == outcome[r] = "failed"

\* A reservation is finalized once; a failed command is logged and forgotten.
FinalizeTokens(r) ==
  \E runs \in RedisRuns :
    tokens' = [tokens EXCEPT ![r] =
      IF @ # "reserved" THEN @ ELSE IF runs /\ ReleaseAll(r) THEN "returned" ELSE "charged"]

\* RequestAuditRepository.finalize writes the outcome over whatever the row says.
CloseRow(r) == row' = [row EXCEPT ![r] = outcome[r]]

\* The upstream response is closed, if it was open.
Cut(r) == upstream' = [upstream EXCEPT ![r] = IF @ = "open" THEN "cut" ELSE @]

\* A generator that was never started runs nothing, and a cancellation that meets
\* an await of the finally ends it there, before or after its command has run; an
\* upstream it was closing is closed all the same.
CancelForGood(r) ==
  /\ "cancel" \in Faults
  /\ Kind[r] = "stream" /\ r \in gone
  /\ pc[r] \in {"created", "unwind", "settle", "close", "release"}
  /\ \/ UNCHANGED <<slots, tokens, row>>
     \/ pc[r] = "settle" /\ FinalizeTokens(r) /\ UNCHANGED <<slots, row>>
     \/ pc[r] = "close" /\ CloseRow(r) /\ UNCHANGED <<slots, tokens>>
     \/ pc[r] = "release" /\ slots' = slots \ {r} /\ UNCHANGED <<tokens, row>>
  /\ Cut(r)
  /\ Goto(r, "done")
  /\ UNCHANGED <<audited, outcome, usage, event, job, gone, streams>>

CloseIterators(r) ==
  /\ pc[r] = "unwind"
  /\ Cut(r)
  /\ Goto(r, "settle")
  /\ UNCHANGED <<slots, tokens, row, audited, outcome, usage, event, job, gone, streams>>

\* aclose raises, and the rest of the finally is skipped.
CloseIteratorsFails(r) ==
  /\ "close" \in Faults
  /\ Kind[r] = "stream" /\ pc[r] = "unwind"
  /\ Cut(r)
  /\ Goto(r, "done")
  /\ UNCHANGED <<slots, tokens, row, audited, outcome, usage, event, job, gone, streams>>

(***************************************************************************)
(* Finalizing: the tokens and the usage record, the audit row, the job     *)
(***************************************************************************)
MutRecordUnlessFailed(r) ==
  usage' = IF outcome[r] = "failed" THEN usage ELSE [usage EXCEPT ![r] = Append(@, outcome[r])]
RecordUsage(r) ==
  usage' = IF Kind[r] = "batch" THEN usage ELSE [usage EXCEPT ![r] = Append(@, outcome[r])]

Settle(r) ==
  /\ pc[r] = "settle"
  /\ FinalizeTokens(r)
  /\ RecordUsage(r)
  /\ Goto(r, IF r \in audited THEN "close" ELSE "markFailed")
  /\ UNCHANGED <<slots, row, audited, upstream, outcome, event, job, gone, streams>>

MutEmitForJobs(r) == event' = [event EXCEPT ![r] = outcome[r]]

\* The analytics event follows the audit; that of a job follows its success.
Emit(r) == event' = [event EXCEPT ![r] = IF Kind[r] = "batch" THEN @ ELSE outcome[r]]

CloseAudit(r) ==
  /\ pc[r] = "close"
  /\ CloseRow(r)
  /\ Emit(r)
  /\ Goto(r, IF Kind[r] # "batch" THEN "release"
             ELSE IF outcome[r] = "completed" THEN "markSucceeded" ELSE "markFailed")
  /\ UNCHANGED <<slots, tokens, audited, upstream, outcome, usage, job, gone, streams>>

MutErrorLeaves(r) ==
  /\ Goto(r, IF Kind[r] # "stream" /\ outcome[r] = "completed" THEN "settle" ELSE "done")
  /\ outcome' = [outcome EXCEPT ![r] = IF Kind[r] = "stream" THEN @ ELSE "failed"]

\* An error on the way out of a success is handled as a failure of the request;
\* one in the handler itself leaves only the finally; a stream has no handler
\* around its finally, whose rest is skipped.
AfterError(r) ==
  /\ Goto(r, IF Kind[r] = "stream" THEN "done"
             ELSE IF outcome[r] = "completed" THEN "settle" ELSE "release")
  /\ outcome' = [outcome EXCEPT ![r] = IF Kind[r] = "stream" THEN @ ELSE "failed"]

CloseAuditFails(r) ==
  /\ pc[r] = "close"
  /\ \/ "lost" \in Faults /\ UNCHANGED row
     \/ "noreply" \in Faults /\ CloseRow(r)
  /\ AfterError(r)
  /\ UNCHANGED <<slots, tokens, audited, upstream, usage, event, job, gone, streams>>

MarkSucceeded(r) ==
  /\ pc[r] = "markSucceeded"
  /\ job' = [job EXCEPT ![r] = "succeeded"]
  /\ event' = [event EXCEPT ![r] = "completed"]
  /\ Goto(r, "release")
  /\ UNCHANGED <<slots, tokens, row, audited, upstream, outcome, usage, gone, streams>>

MarkSucceededFails(r) ==
  /\ pc[r] = "markSucceeded"
  /\ \/ "lost" \in Faults /\ UNCHANGED job
     \/ "noreply" \in Faults /\ job' = [job EXCEPT ![r] = "succeeded"]
  /\ AfterError(r)
  /\ UNCHANGED <<slots, tokens, row, audited, upstream, usage, event, gone, streams>>

\* The finally follows, whether or not the update ran.
MarkFailed(r) ==
  /\ pc[r] = "markFailed"
  /\ \E o \in Outcomes : job' = IF Ran(o) THEN [job EXCEPT ![r] = "failed"] ELSE job
  /\ Goto(r, IF tokens[r] = "none" THEN "done" ELSE "release")
  /\ UNCHANGED <<slots, tokens, row, audited, upstream, outcome, usage, event, gone, streams>>

Freed(r) == {r}

MutGaugeOfCompleted(r) == outcome[r] = "completed"
CountsStream(r) == Kind[r] = "stream"

Release(r) ==
  /\ pc[r] = "release"
  /\ \E runs \in RedisRuns : slots' = IF runs THEN slots \ Freed(r) ELSE slots
  /\ streams' = IF CountsStream(r) THEN streams - 1 ELSE streams
  /\ Goto(r, "done")
  /\ UNCHANGED <<tokens, row, audited, upstream, outcome, usage, event, job, gone>>

\* The API or the batch worker dies, and with it what it held in memory.
Crash(kinds) ==
  LET hit == {r \in Requests : Kind[r] \in kinds /\ pc[r] \notin {"new", "done"}} IN
  /\ "crash" \in Faults
  /\ hit # {}
  /\ pc' = [r \in Requests |-> IF r \in hit THEN "done" ELSE pc[r]]
  /\ upstream' = [r \in Requests |->
                    IF r \in hit /\ upstream[r] = "open" THEN "cut" ELSE upstream[r]]
  /\ streams' = IF "stream" \in kinds THEN 0 ELSE streams
  /\ UNCHANGED <<slots, tokens, row, audited, outcome, usage, event, job, gone>>

Idle ==
  /\ \A r \in Requests : pc[r] = "done"
  /\ UNCHANGED vars

\* What the code of a request does by itself once it has been admitted.
Proceed(r) ==
  \/ StartAudit(r) \/ StartAuditFails(r)
  \/ Answered(r) \/ BeginStream(r) \/ StreamEnds(r) \/ StreamFails(r) \/ NoticeGone(r)
  \/ CancelStream(r) \/ CancelForGood(r)
  \/ CloseIterators(r) \/ CloseIteratorsFails(r) \/ Settle(r) \/ CloseAudit(r) \/ CloseAuditFails(r)
  \/ MarkSucceeded(r) \/ MarkSucceededFails(r) \/ MarkFailed(r) \/ Release(r)

Next ==
  \/ \E r \in Requests : Admitted(r) \/ Refused(r) \/ RefusedWithSlot(r)
                         \/ Proceed(r) \/ Disconnect(r)
  \/ Crash({"plain", "stream"}) \/ Crash({"batch"})
  \/ Idle

Spec == Init /\ [][Next]_vars

\* The event loop resumes every request, and vLLM answers or the client's timeouts
\* end the call.
FairSpec == Spec /\ \A r \in Requests : WF_vars(Proceed(r))

-----------------------------------------------------------------------------
TypeOK ==
  /\ pc \in [Requests -> PC]
  /\ slots \in SUBSET Requests
  /\ tokens \in [Requests -> {"none", "reserved", "charged", "returned"}]
  /\ row \in [Requests -> {"accepted"} \cup Status]
  /\ audited \in SUBSET Requests
  /\ upstream \in [Requests -> {"idle", "open", "ended", "cut"}]
  /\ outcome \in [Requests -> Status]
  /\ usage \in [Requests -> Seq(Final)]
  /\ event \in [Requests -> Status]
  /\ job \in [Requests -> {"running", "succeeded", "failed"}]
  /\ gone \in SUBSET Requests
  /\ streams \in Nat

\* The GPU works only for requests that hold a slot and a token reservation and
\* have an open audit row: nothing is released or finalized while the call of
\* vLLM is open, whatever fails.
SlotCoversUpstream ==
  \A r \in Requests : upstream[r] = "open" =>
    r \in slots /\ tokens[r] = "reserved" /\ row[r] = "accepted"

\* The tokens of a request recorded as completed or disconnected stay charged:
\* only failures get their whole reservation back.
RecordedIsCharged ==
  \A r \in Requests : row[r] \in {"completed", "client_disconnected"} => tokens[r] = "charged"

\* An analytics event never tells another story than the audit row, although the
\* row may be written twice.
EventMatchesRow ==
  \A r \in Requests : event[r] # "none" => event[r] = row[r]

\* With every dependency up, a request that has opened its row leaves with the row
\* closed, one usage record and one event that agree with it, the tokens of a
\* failure given back and those of anything else charged, and a batch job that
\* succeeded just when its request completed.
EveryRequestAccounted ==
  \A r \in Requests : pc[r] = "done" /\ r \in audited =>
    /\ row[r] \in Final
    /\ tokens[r] = IF row[r] = "failed" THEN "returned" ELSE "charged"
    /\ IF Kind[r] = "batch"
       THEN (job[r] = "succeeded") <=> (row[r] = "completed")
       ELSE usage[r] = <<row[r]>> /\ event[r] = row[r]

\* The gauge counts the generators that have started and not ended.
GaugeExact ==
  streams = Cardinality({r \in Requests : /\ Kind[r] = "stream"
                                          /\ pc[r] \notin {"new", "start", "created", "done"}})


\* Once it has called vLLM, a plain or a batch request leaves through the release
\* of its finally and no other way, whichever transactions fail; only the death
\* of its process spares it that step.
FinallyReleases ==
  [][\A r \in Requests :
       /\ Kind[r] # "stream" /\ upstream[r] # "idle"
       /\ pc[r] # "done" /\ pc'[r] = "done"
       => pc[r] = "release" \/ Crash({"plain", "stream"}) \/ Crash({"batch"})]_vars

\* Slots and rows follow the contract.
ImplementsContract == Contract!Spec
=============================================================================
