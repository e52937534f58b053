------------------------- MODULE AnalyticsPipeline --------------------------
(***************************************************************************)
(* Analytics: services/analytics and workers/analytics_flusher.py.  A      *)
(* bounded in-memory queue takes the events; run_forever flushes it in     *)
(* batches, one insert per table, with retries; a batch that cannot be     *)
(* inserted goes back to the queue; what does not fit is spooled to a file *)
(* when it is critical and dropped when it is not.  On SIGTERM the main    *)
(* coroutine flushes once more, beside the loop, and cancels the loop.     *)
(*                                                                         *)
(* A step is what a coroutine does between two awaits: the insert itself   *)
(* is a blocking call, so draining and the first attempt are one step, and *)
(* the pause between two attempts is where others run.  SameCollector      *)
(* tells two wirings apart: one collector for producer and flusher, as the *)
(* tests build it, and the deployed one, where the flusher process creates *)
(* a collector of its own.  Mut... operators are wrong variants of the     *)
(* definition below them, which the properties refute.                     *)
(***************************************************************************)
EXTENDS Integers, Sequences, FiniteSets, SequencesExt

CONSTANTS Events,        \* the events; each is collected at most once
          KindOf,        \* "usage" or "inference"
          Critical,      \* the events whose field critical is set
          MaxSize, BatchSize, MaxRetries,
          MaxOutages,    \* bound: how many insert attempts fail
          SameCollector, \* do producer and flusher share the collector?
          Faults         \* the faults that may happen

ASSUME EventsAssumption ==
  /\ IsFiniteSet(Events)
  /\ KindOf \in [Events -> {"usage", "inference"}]
  /\ Critical \subseteq Events

ASSUME LimitsAssumption ==
  /\ MaxSize \in Nat \ {0} /\ BatchSize \in Nat \ {0} /\ MaxRetries \in Nat \ {0}
  /\ MaxOutages \in Nat
  /\ SameCollector \in BOOLEAN
  /\ Faults \subseteq {"insert", "disk", "crash"}

Tasks == {"loop", "stop"}

VARIABLES
  queue,     \* AnalyticsCollector.queue
  counter,   \* dropped_non_critical
  spooling,  \* the events whose _safe_spool task is scheduled
  spool,     \* the events in the spool file
  pc,        \* where run_forever ("loop") and stop are
  hand,      \* the batch each of them has drained and not yet settled
  tries,     \* the failed attempts at that batch
  failures,  \* flush_failures
  proc,      \* the flusher's process: running, stopping, cancelled or exited
  inserts,   \* the inserts ClickHouse has taken, in order: [batch, rows]
  outages,   \* how many attempts have failed
  collected, \* history: the events in the order of collect
  dropped,   \* history: the events that were dropped
  lost       \* history: the events that ended with a process or a failed write

vars == <<queue, counter, spooling, spool, pc, hand, tries, failures, proc, inserts,
          outages, collected, dropped, lost>>
producing == <<spool, collected, lost>>
flushing  == <<pc, hand, tries, failures, proc, inserts, outages>>

-----------------------------------------------------------------------------
UsageEvents     == {e \in Events : KindOf[e] = "usage"}
InferenceEvents == Events \ UsageEvents

TableOf(e) == IF e \in UsageEvents THEN "usage_events" ELSE "inference_events"

\* defaultdict(list): a table for each kind of event, the first one first.
TablesOf(batch) ==
  LET first == TableOf(Head(batch))
      other == IF first = "usage_events" THEN "inference_events" ELSE "usage_events"
  IN  IF \E e \in ToSet(batch) : TableOf(e) = other THEN <<first, other>> ELSE <<first>>

\* The inserts for the first n tables of a batch; the rows of each are in the
\* order of the batch.
MutInserted(batch, n) == [i \in 1..n |-> [batch |-> batch, rows |-> ToSet(batch)]]
Inserted(batch, n) ==
  [i \in 1..n |->
    [batch |-> batch, rows |-> {e \in ToSet(batch) : TableOf(e) = TablesOf(batch)[i]}]]

Take(s, n) == SubSeq(s, 1, IF n < Len(s) THEN n ELSE Len(s))
Skip(s, n) == SubSeq(s, n + 1, Len(s))

Held   == ToSet(queue) \cup ToSet(hand["loop"]) \cup ToSet(hand["stop"]) \cup spooling
Stored == UNION {c.rows : c \in ToSet(inserts)}

\* No other task of the flusher's event loop runs between the end of stop's
\* flush and the cancellation of run_forever.
Yielded == pc["stop"] # "flushed"

Init ==
  /\ queue = <<>> /\ counter = 0 /\ spooling = {} /\ spool = {}
  /\ pc = [f \in Tasks |-> IF f = "loop" THEN "wait" ELSE "off"]
  /\ hand = [f \in Tasks |-> <<>>]
  /\ tries = [f \in Tasks |-> 0]
  /\ failures = 0 /\ proc = "running"
  /\ inserts = <<>> /\ outages = 0
  /\ collected = <<>> /\ dropped = {} /\ lost = {}

-----------------------------------------------------------------------------
(***************************************************************************)
(* AnalyticsCollector.  spooled_critical, which nothing reads, is left     *)
(* out.                                                                    *)
(***************************************************************************)
\* QueueFull: a critical event gets a task that spools it, another is counted.
Overflow(S) ==
  /\ spooling' = spooling \cup (S \cap Critical)
  /\ counter' = counter + Cardinality(S \ Critical)
  /\ dropped' = dropped \cup (S \ Critical)

Collect(e) ==
  /\ Yielded
  /\ SameCollector => proc # "exited"
  /\ e \notin ToSet(collected)
  /\ collected' = Append(collected, e)
  /\ \/ /\ Len(queue) < MaxSize
        /\ queue' = Append(queue, e)
        /\ UNCHANGED <<spooling, counter, dropped>>
     \/ /\ Len(queue) = MaxSize
        /\ Overflow({e})
        /\ UNCHANGED queue
  /\ UNCHANGED <<spool, lost, flushing>>

\* LocalAnalyticsSpool.write in its task; an error is logged and that is all.
SafeSpool(e) ==
  /\ Yielded
  /\ e \in spooling
  /\ spooling' = spooling \ {e}
  /\ \/ spool' = spool \cup {e} /\ UNCHANGED lost
     \/ "disk" \in Faults /\ lost' = lost \cup {e} /\ UNCHANGED spool
  /\ UNCHANGED <<queue, counter, dropped, collected, flushing>>

\* The batch that drain_batch returns to the flusher.
DrainBatch == IF SameCollector THEN Take(queue, BatchSize) ELSE <<>>

\* requeue_front, which puts the batch behind what was collected since.
MutRequeueForgets(batch, rest) ==
  /\ queue' = rest \o Take(batch, MaxSize - Len(rest))
  /\ UNCHANGED <<spooling, counter, dropped>>
Requeue(batch, rest) ==
  /\ queue' = rest \o Take(batch, MaxSize - Len(rest))
  /\ Overflow(ToSet(Skip(batch, MaxSize - Len(rest))))

-----------------------------------------------------------------------------
(***************************************************************************)
(* ClickHouseFlusher                                                       *)
(***************************************************************************)
\* flush_once returns: run_forever waits, stop goes on to the cancellation.
Returns(f) ==
  /\ pc' = [pc EXCEPT ![f] = IF f = "loop" THEN "wait" ELSE "flushed"]
  /\ hand' = [hand EXCEPT ![f] = <<>>]
  /\ tries' = [tries EXCEPT ![f] = 0]

\* The k-th attempt to insert batch, with rest in the queue.  It succeeds, or
\* it fails after some tables: the last of them may have been inserted although
\* the call raised.  The last attempt gives the batch back.
Attempt(f, batch, rest, k) ==
  \/ /\ inserts' = inserts \o Inserted(batch, Len(TablesOf(batch)))
     /\ queue' = rest
     /\ Returns(f)
     /\ UNCHANGED <<spooling, counter, dropped, failures, outages>>
  \/ /\ "insert" \in Faults /\ outages < MaxOutages
     /\ outages' = outages + 1
     /\ \E n \in 0..Len(TablesOf(batch)) : inserts' = inserts \o Inserted(batch, n)
     /\ \/ /\ k < MaxRetries
           /\ queue' = rest
           /\ pc' = [pc EXCEPT ![f] = "retry"]
           /\ hand' = [hand EXCEPT ![f] = batch]
           /\ tries' = [tries EXCEPT ![f] = k]
           /\ UNCHANGED <<spooling, counter, dropped, failures>>
        \/ /\ k = MaxRetries
           /\ Requeue(batch, rest)
           /\ failures' = failures + 1
           /\ Returns(f)

\* flush_once up to its first pause.
MutFlushOnce(f) ==
  \/ /\ DrainBatch = <<>>
     /\ Returns(f)
     /\ UNCHANGED <<queue, inserts, spooling, counter, dropped, failures, outages>>
  \/ /\ DrainBatch # <<>>
     /\ Attempt(f, DrainBatch, queue, 1)
FlushOnce(f) ==
  \/ /\ DrainBatch = <<>>
     /\ Returns(f)
     /\ UNCHANGED <<queue, inserts, spooling, counter, dropped, failures, outages>>
  \/ /\ DrainBatch # <<>>
     /\ Attempt(f, DrainBatch, Skip(queue, Len(DrainBatch)), 1)

\* The pause is over.
MutRetry(f) ==
  /\ Yielded /\ pc[f] = "retry" /\ proc # "exited"
  /\ LET all == queue \o hand[f] IN
     Attempt(f, Take(all, BatchSize), Skip(all, BatchSize), tries[f] + 1)
  /\ UNCHANGED <<proc, producing>>
Retry(f) ==
  /\ Yielded /\ pc[f] = "retry" /\ proc # "exited"
  /\ Attempt(f, hand[f], queue, tries[f] + 1)
  /\ UNCHANGED <<proc, producing>>

\* run_forever looks at _stopped and flushes again, or ends.
MutLoopRuns ==
  /\ Yielded /\ pc["loop"] = "wait" /\ proc = "running" /\ failures = 0
  /\ FlushOnce("loop")
  /\ UNCHANGED <<proc, producing>>
LoopRuns ==
  /\ Yielded /\ pc["loop"] = "wait" /\ proc = "running"
  /\ FlushOnce("loop")
  /\ UNCHANGED <<proc, producing>>

LoopEnds ==
  /\ Yielded /\ pc["loop"] = "wait" /\ proc = "stopping"
  /\ pc' = [pc EXCEPT !["loop"] = "done"]
  /\ UNCHANGED <<queue, counter, spooling, spool, hand, tries, failures, proc, inserts,
                 outages, collected, dropped, lost>>

(***************************************************************************)
(* main                                                                    *)
(***************************************************************************)
\* SIGTERM: _stopped is set and stop flushes before the loop can look at it.
Stop ==
  /\ proc = "running"
  /\ proc' = "stopping"
  /\ FlushOnce("stop")
  /\ UNCHANGED producing

\* What dies with the flusher's process.
InProcess == IF SameCollector THEN Held ELSE ToSet(hand["loop"]) \cup ToSet(hand["stop"])

\* main cancels run_forever: a batch between two attempts is in nobody's hand.
CancelLoop ==
  /\ pc["stop"] = "flushed" /\ pc["loop"] # "done"
  /\ pc' = [pc EXCEPT !["loop"] = "done", !["stop"] = "done"]
  /\ lost' = lost \cup ToSet(hand["loop"])
  /\ hand' = [hand EXCEPT !["loop"] = <<>>]
  /\ proc' = "cancelled"
  /\ UNCHANGED <<queue, counter, spooling, spool, tries, failures, inserts, outages,
                 collected, dropped>>

Leave ==
  /\ proc' = "exited"
  /\ lost' = lost \cup InProcess
  /\ hand' = [f \in Tasks |-> <<>>]
  /\ pc' = [f \in Tasks |-> "done"]
  /\ IF SameCollector THEN queue' = <<>> /\ spooling' = {}
                      ELSE UNCHANGED <<queue, spooling>>
  /\ UNCHANGED <<counter, spool, tries, failures, inserts, outages, collected, dropped>>

\* A loop that has ended is awaited without a pause, and main returns at once;
\* waiting for a cancelled one lets the scheduled spool tasks run first.
Exit ==
  /\ \/ pc["stop"] = "flushed" /\ pc["loop"] = "done"
     \/ proc = "cancelled" /\ (SameCollector => spooling = {})
  /\ Leave

Crash ==
  /\ "crash" \in Faults /\ proc # "exited"
  /\ Leave

-----------------------------------------------------------------------------
Finished == proc = "exited" /\ (SameCollector \/ ToSet(collected) = Events) /\ UNCHANGED vars

Next ==
  \/ \E e \in Events : Collect(e) \/ SafeSpool(e)
  \/ \E f \in Tasks : Retry(f)
  \/ LoopRuns \/ LoopEnds \/ Stop \/ CancelLoop \/ Exit \/ Crash \/ Finished

Spec == Init /\ [][Next]_vars

\* The event loop resumes every task, and a timer fires.
FairSpec ==
  /\ Spec
  /\ \A e \in Events : WF_vars(SafeSpool(e))
  /\ \A f \in Tasks : WF_vars(Retry(f))
  /\ WF_vars(LoopRuns) /\ WF_vars(LoopEnds) /\ WF_vars(CancelLoop) /\ WF_vars(Exit)

-----------------------------------------------------------------------------
(***************************************************************************)
(* Properties                                                              *)
(***************************************************************************)
\* The shape of the state, the bound of the queue included.
TypeOK ==
  /\ queue \in Seq(Events) /\ Len(queue) <= MaxSize
  /\ counter \in Nat /\ failures \in Nat /\ outages \in 0..MaxOutages
  /\ spooling \subseteq Critical /\ spool \subseteq Critical
  /\ pc \in [Tasks -> {"off", "wait", "retry", "flushed", "done"}]
  /\ hand \in [Tasks -> Seq(Events)]
  /\ \A f \in Tasks : Len(hand[f]) <= BatchSize /\ (hand[f] # <<>> => pc[f] = "retry")
  /\ tries \in [Tasks -> 0..MaxRetries]
  /\ proc \in {"running", "stopping", "cancelled", "exited"}
  /\ inserts \in Seq([batch : Seq(Events), rows : SUBSET Events])
  /\ collected \in Seq(Events)
  /\ dropped \subseteq Events \ Critical /\ lost \subseteq Events

\* The state has its shape, the bound of the queue included; an event is in one
\* place: once in the queue, or in the batch of run_forever, or in that of stop,
\* or with its spool task, so that the two flushes that run at shutdown
\* (analytics_flusher.py:49) never insert one event twice between them; every
\* event that was collected is in such a place or has met a fate, and one that was
\* spooled, dropped or lost is in none; and dropped_non_critical says how many are
\* gone, whichever of collect and requeue_front dropped them (event_collector.py:36
\* and :62).
EventsAccounted ==
  LET places == queue \o hand["loop"] \o hand["stop"]
  IN  /\ TypeOK
      /\ IsInjective(places)
      /\ ToSet(places) \cap spooling = {}
      /\ ToSet(collected) = Held \cup Stored \cup spool \cup dropped \cup lost
      /\ Held \cap (spool \cup dropped \cup lost) = {}
      /\ counter = Cardinality(dropped)

InsertsOf(e)   == {i \in DOMAIN inserts : e \in inserts[i].rows}
Ahead(s, d, e) == \E m, n \in DOMAIN s : m < n /\ s[m] = d /\ s[n] = e

\* ClickHouse has an event twice only if an attempt failed: a retry inserts the
\* tables that came before the failed one again (clickhouse_flusher.py:100).
DuplicatesNeedAFailure == \A e \in Events : Cardinality(InsertsOf(e)) <= 1 + outages

\* Until a flush gives up, or the process stops, the events of a table reach
\* ClickHouse in the order they were collected, retries included: only
\* requeue_front (event_collector.py:54) and the flush of stop reorder them.
OrderUntilRequeue ==
  failures = 0 /\ proc = "running" =>
    \A j \in DOMAIN inserts : \A e \in inserts[j].rows :
      /\ \A d \in inserts[j].rows : Ahead(inserts[j].batch, d, e) => Ahead(collected, d, e)
      /\ \A i \in 1..(j - 1) : \A d \in inserts[i].rows :
           TableOf(d) = TableOf(e) /\ InsertsOf(e) \cap 1..(j - 1) = {} => Ahead(collected, d, e)

\* Every event meets one fate and keeps it; a critical one is never dropped.
Fate == INSTANCE EventFate WITH fate <-
  [e \in Events |->
    IF e \in Stored THEN "stored"
    ELSE IF e \in spool THEN "spooled"
    ELSE IF e \in dropped THEN "dropped"
    ELSE IF e \in lost THEN "lost"
    ELSE IF e \in Held THEN "held" ELSE "none"]
ImplementsFate == Fate!Spec

\* No event is held for ever: once ClickHouse answers, it is inserted, spooled,
\* dropped or, with the process, lost.
EveryEventSettles == \A e \in Events : (e \in Held) ~> (e \notin Held)

\* docs/plan.md:2111: "Background flusher writes batched events to ClickHouse".
CollectedIsFlushed ==
  \A e \in Events : (e \in ToSet(queue)) ~> (e \in Stored \/ proc # "running")
=============================================================================
