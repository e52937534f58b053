---------------------------- MODULE StreamRelay -----------------------------
(***************************************************************************)
(* How an admitted chat completion is answered: in one piece by            *)
(* create_chat_completion, or as a stream of server-sent events by         *)
(* _stream_response, which pulls vLLM's lines through                      *)
(* stream_chat_completion, stream_with_heartbeats and ensure_done_event,   *)
(* counts their text, and settles the token reservation at the end.        *)
(*                                                                         *)
(* The generators run only when the client pulls; the one thing that runs  *)
(* beside them is the task that reads vLLM's next line (next_line).  The   *)
(* lease, the audit row and their failures are in RequestLifecycle.        *)
(***************************************************************************)
EXTENDS TokenAccounting

CONSTANTS Requests,   \* the chat completions a client may send
          Responses,  \* vLLM's answers to a plain one
          Lines,      \* the lines vLLM may stream, [kind, choices]
          MaxLines    \* bound: how many lines vLLM streams

Done == [kind |-> "done", choices |-> <<>>]

ASSUME LinesAssumption ==
  /\ MaxLines \in Nat /\ Done \in Lines
  /\ \A l \in Lines : /\ l.kind \in {"chunk", "comment", "other", "done", "space"}
                      /\ l.choices \in Seq(Seq(Chars))

ASSUME RequestsAssumption ==
  \A r \in Requests :
    r.messages \in Seq(Message) /\ r.max_tokens \in Int /\ r.stream \in BOOLEAN

ASSUME ResponsesAssumption ==
  \A r \in Responses :
    /\ r.reports \in BOOLEAN /\ r.choices \in Seq(Seq(Chars))
    /\ r.reports =>
         {r.prompt_tokens, r.completion_tokens, r.total_tokens} \subseteq Nat \cup {Null, Absent}

VARIABLES
  request,   \* what the client sent
  pc,        \* where its handler is
  read,      \* next_line: idle, pending, ready, ended, failed or cancelled
  conn,      \* the HTTP stream from vLLM: none, open or closed
  sent,      \* the lines vLLM has streamed
  relayed,   \* the lines, [DONE] included, that were yielded to the client
  hand,      \* is the response sending nothing, a heartbeat or a line?
  text,      \* completion_text
  status,    \* of the stream
  gone,      \* has the client disconnected?
  usage,     \* the usage record, once there is one
  charged    \* what finalize left of the reservation

vars == <<request, pc, read, conn, sent, relayed, hand, text, status, gone,
          usage, charged>>
settled  == <<usage, charged>>
upstream == <<conn, sent>>
progress == <<relayed, hand, text>>

NoUsage == UsageRecord(0, 0, 0, "none")
Plan    == PlanOf(request)

Init ==
  /\ request \in Requests
  /\ pc = "new" /\ read = "idle" /\ conn = "none"
  /\ sent = <<>> /\ relayed = <<>> /\ hand = "nothing" /\ text = <<>>
  /\ status = "completed" /\ gone = FALSE
  /\ usage = NoUsage /\ charged = 0

-----------------------------------------------------------------------------
\* Validation, the token plan, and the call to vLLM.
Accept ==
  /\ pc = "new"
  /\ ValidRequest(request) /\ Refusal(Plan) = "none"
  /\ charged' = Plan.total
  /\ IF request.stream
     THEN pc' = "reading" /\ read' = "pending" /\ conn' = "open"
     ELSE pc' = "calling" /\ UNCHANGED <<read, conn>>
  /\ UNCHANGED <<request, sent, progress, status, gone, usage>>

Refuse ==
  /\ pc = "new"
  /\ ~ValidRequest(request) \/ Refusal(Plan) # "none"
  /\ pc' = "refused"
  /\ UNCHANGED <<request, read, upstream, progress, status, gone, settled>>

\* The plain call: an answer, or an error status, a timeout or a body that is
\* not a JSON object (client.py:73-124).
Answered ==
  /\ pc = "calling"
  /\ \E response \in Responses :
       /\ usage' = UsageFromResponse(response, Plan)
       /\ charged' = ChargeLeft(Plan, usage')
  /\ pc' = "done"
  /\ UNCHANGED <<request, read, upstream, progress, status, gone>>

CallFails ==
  /\ pc = "calling"
  /\ usage' = UsageRecord(Plan.prompt, 0, 0, "failed")
  /\ charged' = ChargeLeft(Plan, usage')
  /\ status' = "failed"
  /\ pc' = "done"
  /\ UNCHANGED <<request, read, upstream, progress, gone>>

-----------------------------------------------------------------------------
(***************************************************************************)
(* vLLM, as the task next_line sees it through stream_chat_completion,     *)
(* which skips empty lines                                                 *)
(***************************************************************************)
UpstreamSends ==
  /\ read = "pending" /\ Len(sent) < MaxLines
  /\ ~Contains(sent, Done)
  /\ \E l \in Lines : sent' = Append(sent, l)
  /\ read' = "ready"
  /\ UNCHANGED <<request, pc, conn, progress, status, gone, settled>>

UpstreamEnds ==
  /\ read = "pending"
  /\ read' = "ended" /\ conn' = "closed"
  /\ UNCHANGED <<request, pc, sent, progress, status, gone, settled>>

\* An error status, a read timeout or a broken connection, as an AppError.
UpstreamFails ==
  /\ read = "pending"
  /\ read' = "failed" /\ conn' = "closed"
  /\ UNCHANGED <<request, pc, sent, progress, status, gone, settled>>

Disconnect ==
  /\ request.stream /\ pc \in {"reading", "sending"} /\ ~gone
  /\ gone' = TRUE
  /\ UNCHANGED <<request, pc, read, upstream, progress, status, settled>>

-----------------------------------------------------------------------------
(***************************************************************************)
(* _stream_response                                                        *)
(***************************************************************************)
\* The body of the loop for an event: the disconnect check, or the event.
NoticeGone ==
  /\ gone
  /\ pc' = "closing" /\ status' = "client_disconnected"
  /\ UNCHANGED progress

YieldLine(line) ==
  /\ ~gone
  /\ text' = text \o DeltaText(line)
  /\ relayed' = Append(relayed, line)
  /\ pc' = "sending" /\ hand' = "line"
  /\ UNCHANGED status

\* stream_with_heartbeats has its line; ensure_done_event skips white space and
\* asks for the next.
RelayLine ==
  /\ pc = "reading" /\ read = "ready" /\ Last(sent).kind # "space"
  /\ NoticeGone \/ YieldLine(Last(sent))
  /\ read' = "idle"
  /\ UNCHANGED <<request, upstream, gone, settled>>

SkipSpace ==
  /\ pc = "reading" /\ read = "ready" /\ Last(sent).kind = "space"
  /\ read' = "pending"
  /\ UNCHANGED <<request, pc, upstream, progress, status, gone, settled>>

\* The interval is over.  The read goes on, and may have ended in the same turn
\* of the event loop: shield and next_line keep its line for the next pull.
MutHeartbeat ==
  /\ pc = "reading" /\ read \in {"pending", "ready"}
  /\ \/ NoticeGone /\ UNCHANGED read
     \/ /\ ~gone
        /\ pc' = "sending" /\ hand' = "line" /\ read' = "pending"
        /\ UNCHANGED <<relayed, text, status>>
  /\ UNCHANGED <<request, upstream, gone, settled>>
MutHeartbeatBlind ==
  /\ pc = "reading" /\ read \in {"pending", "ready"}
  /\ pc' = "sending" /\ hand' = "heartbeat"
  /\ UNCHANGED <<request, read, upstream, relayed, text, status, gone, settled>>
Heartbeat ==
  /\ pc = "reading" /\ read \in {"pending", "ready"}
  /\ \/ NoticeGone
     \/ /\ ~gone
        /\ pc' = "sending" /\ hand' = "heartbeat"
        /\ UNCHANGED <<relayed, text, status>>
  /\ UNCHANGED <<request, read, upstream, gone, settled>>

\* The client pulls again; after a line, that starts the next read.
Pull ==
  /\ pc = "sending"
  /\ pc' = "reading" /\ hand' = "nothing"
  /\ read' = IF hand = "line" /\ read = "idle" THEN "pending" ELSE read
  /\ UNCHANGED <<request, upstream, relayed, text, status, gone, settled>>

\* ensure_done_event at the end of the lines: [DONE] unless vLLM sent it or it
\* was appended before.
NeedsDone == ~Contains(relayed, Done)

AppendDone ==
  /\ pc = "reading" /\ read = "ended" /\ NeedsDone
  /\ NoticeGone \/ YieldLine(Done)
  /\ UNCHANGED <<request, read, upstream, gone, settled>>

StreamEnds ==
  /\ pc = "reading" /\ read = "ended" /\ ~NeedsDone
  /\ pc' = "closing"
  /\ UNCHANGED <<request, read, upstream, progress, status, gone, settled>>

MutStreamFails ==
  /\ pc = "reading" /\ read = "failed"
  /\ pc' = "closing"
  /\ UNCHANGED <<request, read, upstream, progress, status, gone, settled>>
StreamFails ==
  /\ pc = "reading" /\ read = "failed"
  /\ pc' = "closing" /\ status' = "failed"
  /\ UNCHANGED <<request, read, upstream, progress, gone, settled>>

\* The server cancels the response of a client that has gone, at any await or
\* yield: the finally runs, with the status as it is.
Cancel ==
  /\ gone /\ pc \in {"reading", "sending"}
  /\ pc' = "closing"
  /\ UNCHANGED <<request, read, upstream, progress, status, gone, settled>>

\* Closing stream_with_heartbeats cancels the running read and awaits it ...
CancelRead ==
  /\ pc = "closing" /\ read = "pending"
  /\ read' = "cancelled"
  /\ UNCHANGED <<request, pc, upstream, progress, status, gone, settled>>

\* ... and then closes the upstream generator, which a read still holds if not.
MutCloseUpstream ==
  /\ pc = "closing"
  /\ conn' = "closed" /\ pc' = "settling"
  /\ UNCHANGED <<request, read, sent, progress, status, gone, settled>>
CloseUpstream ==
  /\ pc = "closing" /\ read # "pending"
  /\ conn' = "closed" /\ pc' = "settling"
  /\ UNCHANGED <<request, read, sent, progress, status, gone, settled>>

MutSettle ==
  /\ pc = "settling"
  /\ usage' = UsageFromStreamText(text, Plan, status)
  /\ charged' = IF status = "completed" THEN ChargeLeft(Plan, usage') ELSE 0
  /\ pc' = "done"
  /\ UNCHANGED <<request, read, upstream, progress, status, gone>>
Settle ==
  /\ pc = "settling"
  /\ usage' = UsageFromStreamText(text, Plan, status)
  /\ charged' = ChargeLeft(Plan, usage')
  /\ pc' = "done"
  /\ UNCHANGED <<request, read, upstream, progress, status, gone>>

-----------------------------------------------------------------------------
Finished == pc \in {"refused", "done"} /\ UNCHANGED vars

Next ==
  \/ Accept \/ Refuse \/ Answered \/ CallFails
  \/ UpstreamSends \/ UpstreamEnds \/ UpstreamFails \/ Disconnect
  \/ RelayLine \/ SkipSpace \/ Heartbeat \/ Pull \/ AppendDone \/ StreamEnds
  \/ StreamFails \/ Cancel \/ CancelRead \/ CloseUpstream \/ Settle
  \/ Finished

Spec == Init /\ [][Next]_vars

\* The response pulls for as long as it runs, timers fire, and what the handler
\* does by itself goes on.  vLLM may stay silent, and nobody need cancel.
FairSpec ==
  /\ Spec
  /\ WF_vars(RelayLine) /\ WF_vars(SkipSpace) /\ WF_vars(Heartbeat) /\ WF_vars(Pull)
  /\ WF_vars(AppendDone) /\ WF_vars(StreamEnds) /\ WF_vars(StreamFails)
  /\ WF_vars(CancelRead) /\ WF_vars(CloseUpstream) /\ WF_vars(Settle)

-----------------------------------------------------------------------------
(***************************************************************************)
(* Properties                                                              *)
(***************************************************************************)
\* The shape of the state.
TypeOK ==
  /\ request \in Requests
  /\ pc \in {"new", "refused", "calling", "reading", "sending", "closing", "settling", "done"}
  /\ read \in {"idle", "pending", "ready", "ended", "failed", "cancelled"}
  /\ conn \in {"none", "open", "closed"}
  /\ sent \in Seq(Lines) /\ relayed \in Seq(Lines)
  /\ hand \in {"nothing", "heartbeat", "line"}
  /\ status \in {"completed", "failed", "client_disconnected"} /\ gone \in BOOLEAN
  /\ charged \in 0..MaxTotal

\* The state has its shape; nobody closes the upstream generator while a read runs in it (Python raises
\* then, and the rest of the finally would not run), and nothing is settled
\* before vLLM's connection is closed (chat_completions.py:245-247, stream.py:46).
ClosedInOrder ==
  /\ TypeOK
  /\ read = "pending" => conn = "open"
  /\ request.stream /\ usage # NoUsage => conn = "closed"

\* A stream is charged for the text of the lines it yielded, and like the same
\* text in one piece: cutting it into chunks adds no tokens, blanks at a cut are
\* not lost, and no heartbeat, late line or disconnect changes the count
\* (chat_completions.py:230, token_accounting.py:165).
ChunksCostNothing ==
  request.stream /\ pc = "done" /\ status # "failed" =>
    LET whole == [reports |-> FALSE,
                  choices |-> [i \in 1..Len(relayed) |-> DeltaText(relayed[i])]]
    IN  /\ usage.total = UsageFromResponse(whole, Plan).total
        /\ charged = ChargeLeft(Plan, UsageFromResponse(whole, Plan))

\* Usage is charged in full, whichever way the answer ended well and whether vLLM
\* reported it or not; only what exceeds the reservation goes free
\* (quota_reserver.py:37).
OnlyExcessIsFree ==
  pc = "done" /\ usage.status # "failed" /\ charged < usage.total => charged = Plan.total

\* What vLLM has streamed, without its white space.
Visible(lines) ==
  FlattenSeq([i \in 1..Len(lines) |-> IF lines[i].kind = "space" THEN <<>> ELSE <<lines[i]>>])
Shown == Visible(sent)

\* A stream recorded as completed, whose client stayed, gave it every line of a
\* stream that vLLM ended (chat_completions.py:223).
CompletedIsComplete ==
  pc = "done" /\ request.stream /\ status = "completed" /\ ~gone =>
    /\ read = "ended"
    /\ relayed = IF Contains(Shown, Done) THEN Shown ELSE Append(Shown, Done)

\* Lines once and in order, [DONE] last and once, through heartbeats that fall
\* due as a line arrives (stream.py:39).
Relay == INSTANCE OrderedRelay WITH
  produced  <- Shown,
  ended     <- read = "ended",
  delivered <- relayed
ImplementsRelay == Relay!Spec

\* A client that has gone is noticed, and its stream closed and settled, even
\* when vLLM never sends another line: heartbeats see to it.
GoneIsNoticed == (gone /\ pc \in {"reading", "sending"}) ~> (pc = "done")
=============================================================================
