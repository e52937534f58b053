----------------------- MODULE RequestLifecycleProofs -----------------------
(***************************************************************************)
(* Theorems about RequestLifecycle, for every set of requests, every kind  *)
(* and id of them, every limit and every combination of faults.            *)
(***************************************************************************)
EXTENDS RequestLifecycle, FiniteSetTheorems, TLAPS

\* The places at which vLLM may be working for a request.
Calling == {"call", "streaming", "unwind"}

\* What a request has at each place, whichever path it takes.  A request that has
\* left may have kept anything.
Place(r) ==
  /\ pc[r] \in {"new", "start"} => row[r] = "none"
  /\ pc[r] \in {"start", "created"} \cup Calling => r \in slots /\ tokens[r] = "reserved"
  /\ pc[r] \in {"created"} \cup Calling => row[r] = "accepted"
  /\ upstream[r] = "open" => pc[r] \in Calling
  /\ pc[r] \in {"streaming", "unwind", "settle", "close"} => outcome[r] \in Final
  /\ pc[r] = "settle" /\ outcome[r] # "failed" => tokens[r] = "reserved"
  /\ pc[r] = "close" /\ outcome[r] # "failed" => tokens[r] = "charged"
  /\ row[r] \in {"completed", "client_disconnected"} => tokens[r] = "charged"

\* The streams whose generator has started and not ended.
Running == {r \in Requests : /\ Kind[r] = "stream"
                             /\ pc[r] \notin {"new", "start", "created", "done"}}

\* Types but for the gauge, which is a number because it counts at least Running.
Types ==
  /\ pc \in [Requests -> PC]
  /\ slots \in SUBSET Requests
  /\ tokens \in [Requests -> {"none", "reserved", "charged", "returned"}]
  /\ row \in [Requests -> {"accepted"} \cup Status]
  /\ audited \in SUBSET Requests
  /\ upstream \in [Requests -> {"idle", "open", "ended", "cut"}]
  /\ outcome \in [Requests -> Status]
  /\ usage \in [Requests -> Seq(Final)]
  /\ event \in [Requests -> Status]
  /\ job \in [Requests -> {"running", "succeeded", "failed"}]
  /\ gone \in SUBSET Requests

PlaceInv == Types /\ \A r \in Requests : Place(r)

GaugeInv == streams \in Nat /\ Cardinality(Running) <= streams

(***************************************************************************)
(* Every step keeps the types and the places                               *)
(***************************************************************************)
\* The initial state has the invariant.
LEMMA InitPlaceInv == Init => PlaceInv
BY DEF Init, PlaceInv, Types, Place, PC, Status, Final, Calling

\* The steps of admission and of opening the audit row keep it.
LEMMA OpeningPlaceInv ==
  ASSUME PlaceInv, NEW r \in Requests,
         Admitted(r) \/ Refused(r) \/ RefusedWithSlot(r) \/ StartAudit(r) \/ StartAuditFails(r)
  PROVE  PlaceInv'
<1> USE DEF PlaceInv, Types, Place, Goto, PC, Status, Final, Calling
<1>1. CASE Admitted(r)
  BY <1>1 DEF Admitted
<1>2. CASE Refused(r) \/ RefusedWithSlot(r)
  <2>1. /\ pc[r] = "new" /\ slots' \in SUBSET Requests /\ slots \subseteq slots'
        /\ UNCHANGED <<tokens, row, audited, upstream, outcome, usage, event, job, gone>>
    BY <1>2 DEF Refused, RefusedWithSlot, Turned
  <2>2. \E place \in {"markFailed", "done"} : pc' = [pc EXCEPT ![r] = place]
    BY <1>2 DEF Refused, RefusedWithSlot, Turned
  <2>3. QED
    BY <2>1, <2>2
<1>3. CASE StartAudit(r)
  <2>1. /\ pc[r] = "start"
        /\ row' = [row EXCEPT ![r] = "accepted"]
        /\ audited' = audited \cup {r}
        /\ UNCHANGED <<slots, tokens, outcome, usage, event, job, gone>>
    BY <1>3 DEF StartAudit
  <2>2. \/ pc' = [pc EXCEPT ![r] = "created"] /\ upstream' = upstream
        \/ pc' = [pc EXCEPT ![r] = "call"] /\ upstream' = [upstream EXCEPT ![r] = "open"]
    BY <1>3 DEF StartAudit
  <2>3. Types'
    <3>0. /\ pc \in [Requests -> PC] /\ "created" \in PC /\ "call" \in PC
          /\ upstream \in [Requests -> {"idle", "open", "ended", "cut"}]
      OBVIOUS
    <3>1. pc' \in [Requests -> PC]
      <4> HIDE DEF PlaceInv, Types, Place, PC
      <4>1. pc' = [pc EXCEPT ![r] = "created"] \/ pc' = [pc EXCEPT ![r] = "call"]
        BY <2>2
      <4>2. QED
        BY <3>0, <4>1
    <3>2. upstream' \in [Requests -> {"idle", "open", "ended", "cut"}]
      <4> HIDE DEF PlaceInv, Types, Place, PC
      <4>1. upstream' = upstream \/ upstream' = [upstream EXCEPT ![r] = "open"]
        BY <2>2
      <4>2. QED
        BY <3>0, <4>1
    <3>3. row' \in [Requests -> {"accepted"} \cup Status] /\ audited' \in SUBSET Requests
      BY <2>1
    <3>4. QED
      BY <2>1, <3>1, <3>2, <3>3
  <2>4. Place(r)'
    BY <2>1, <2>2
  <2>5. ASSUME NEW q \in Requests, q # r
        PROVE  Place(q)'
    BY <2>1, <2>2, <2>5
  <2>6. QED
    BY <2>3, <2>4, <2>5
<1>4. CASE StartAuditFails(r)
  <2>1. /\ pc[r] = "start"
        /\ row' = row \/ row' = [row EXCEPT ![r] = "accepted"]
        /\ UNCHANGED <<slots, tokens, audited, upstream, usage, event, job, gone>>
    BY <1>4 DEF StartAuditFails
  <2>2. \/ pc' = [pc EXCEPT ![r] = "settle"] /\ outcome' = [outcome EXCEPT ![r] = "failed"]
        \/ pc' = [pc EXCEPT ![r] = "done"] /\ outcome' = outcome
    BY <1>4 DEF StartAuditFails
  <2>3. Types'
    <3>0. /\ pc \in [Requests -> PC] /\ "settle" \in PC /\ "done" \in PC
          /\ row \in [Requests -> {"accepted"} \cup Status]
          /\ outcome \in [Requests -> Status] /\ "failed" \in Status
      OBVIOUS
    <3>1. pc' \in [Requests -> PC]
      <4> HIDE DEF PlaceInv, Types, Place, PC, Status
      <4>1. pc' = [pc EXCEPT ![r] = "settle"] \/ pc' = [pc EXCEPT ![r] = "done"]
        BY <2>2
      <4>2. QED
        BY <3>0, <4>1
    <3>2. row' \in [Requests -> {"accepted"} \cup Status]
      <4> HIDE DEF PlaceInv, Types, Place, PC, Status
      <4>1. QED
        BY <2>1, <3>0
    <3>3. outcome' \in [Requests -> Status]
      <4> HIDE DEF PlaceInv, Types, Place, PC, Status
      <4>1. outcome' = outcome \/ outcome' = [outcome EXCEPT ![r] = "failed"]
        BY <2>2
      <4>2. QED
        BY <3>0, <4>1
    <3>4. /\ slots' = slots /\ tokens' = tokens /\ audited' = audited /\ upstream' = upstream
          /\ usage' = usage /\ event' = event /\ job' = job /\ gone' = gone
      BY <2>1
    <3>5. Types
      BY DEF PlaceInv
    <3>6. QED
      <4> HIDE DEF PlaceInv, Place, PC, Status, Final, Calling, Goto
      <4>1. /\ slots' \in SUBSET Requests /\ audited' \in SUBSET Requests
            /\ gone' \in SUBSET Requests
            /\ tokens' \in [Requests -> {"none", "reserved", "charged", "returned"}]
            /\ upstream' \in [Requests -> {"idle", "open", "ended", "cut"}]
            /\ usage' \in [Requests -> Seq(Final)] /\ event' \in [Requests -> Status]
            /\ job' \in [Requests -> {"running", "succeeded", "failed"}]
        BY <3>4, <3>5
      <4>2. QED
        BY <3>1, <3>2, <3>3, <4>1, Zenon
  <2>4. Place(r)'
    <3>1. row'[r] \in {row[r], "accepted"}
      BY <2>1
    <3>2. (pc'[r] = "settle" /\ outcome'[r] = "failed") \/ pc'[r] = "done"
      BY <2>2
    <3>3. slots' = slots /\ tokens' = tokens /\ upstream' = upstream /\ pc[r] = "start"
      BY <2>1
    <3>4. tokens[r] = "reserved" /\ row[r] = "none" /\ upstream[r] # "open"
      BY <3>3
    <3> HIDE DEF PlaceInv, Types
    <3>5. QED
      BY <3>1, <3>2, <3>3, <3>4
  <2>5. ASSUME NEW q \in Requests, q # r
        PROVE  Place(q)'
    BY <2>1, <2>2, <2>5
  <2>6. QED
    BY <2>3, <2>4, <2>5
<1>5. QED
  BY <1>1, <1>2, <1>3, <1>4

\* The steps of the call of vLLM keep it.
LEMMA CallPlaceInv ==
  ASSUME PlaceInv, NEW r \in Requests,
         \/ Answered(r) \/ BeginStream(r) \/ Disconnect(r) \/ StreamEnds(r) \/ StreamFails(r)
         \/ NoticeGone(r) \/ CancelStream(r) \/ CloseIterators(r) \/ CloseIteratorsFails(r)
  PROVE  PlaceInv'
<1> USE DEF PlaceInv, Types, Place, Goto, PC, Status, Final, Calling, AfterLoop
<1>1. CASE Answered(r)
  <2>1. \/ /\ upstream' = [upstream EXCEPT ![r] = "ended"]
           /\ outcome' = [outcome EXCEPT ![r] = "completed"]
        \/ /\ upstream' = [upstream EXCEPT ![r] = "cut"]
           /\ outcome' = [outcome EXCEPT ![r] = "failed"]
    BY <1>1 DEF Answered
  <2>2. Types'
    <3>0. /\ upstream \in [Requests -> {"idle", "open", "ended", "cut"}]
          /\ outcome \in [Requests -> Status] /\ "failed" \in Status /\ "completed" \in Status
      OBVIOUS
    <3>1. upstream' \in [Requests -> {"idle", "open", "ended", "cut"}]
      <4> HIDE DEF PlaceInv, Types, Place, PC, Status
      <4>1. upstream' = [upstream EXCEPT ![r] = "ended"] \/ upstream' = [upstream EXCEPT ![r] = "cut"]
        BY <2>1
      <4>2. QED
        BY <3>0, <4>1
    <3>2. outcome' \in [Requests -> Status]
      <4> HIDE DEF PlaceInv, Types, Place, PC, Status
      <4>1. outcome' = [outcome EXCEPT ![r] = "completed"] \/ outcome' = [outcome EXCEPT ![r] = "failed"]
        BY <2>1
      <4>2. QED
        BY <3>0, <4>1
    <3>3. /\ pc' \in [Requests -> PC]
          /\ UNCHANGED <<slots, tokens, row, audited, usage, event, job, gone>>
      BY <1>1 DEF Answered
    <3>4. QED
      BY <3>1, <3>2, <3>3
  <2>3. Place(r)'
    BY <1>1, <2>1 DEF Answered
  <2>4. ASSUME NEW q \in Requests, q # r
        PROVE  Place(q)'
    BY <1>1, <2>1, <2>4 DEF Answered
  <2>5. QED
    BY <2>2, <2>3, <2>4
<1>2. CASE BeginStream(r)
  BY <1>2 DEF BeginStream
<1>3. CASE Disconnect(r)
  BY <1>3 DEF Disconnect
<1>4. CASE StreamEnds(r)
  BY <1>4 DEF StreamEnds
<1>5. CASE StreamFails(r)
  BY <1>5 DEF StreamFails
<1>6. CASE NoticeGone(r)
  BY <1>6 DEF NoticeGone
<1>7. CASE CancelStream(r)
  BY <1>7 DEF CancelStream
<1>8. CASE CloseIterators(r) \/ CloseIteratorsFails(r)
  <2>1. /\ pc[r] = "unwind"
        /\ UNCHANGED <<slots, tokens, row, audited, outcome, usage, event, job, gone>>
    BY <1>8 DEF CloseIterators, CloseIteratorsFails
  <2>2. \E place \in {"settle", "done"} : pc' = [pc EXCEPT ![r] = place]
    BY <1>8 DEF CloseIterators, CloseIteratorsFails
  <2>3. upstream' = [upstream EXCEPT ![r] = IF @ = "open" THEN "cut" ELSE @]
    BY <1>8 DEF CloseIterators, CloseIteratorsFails, Cut
  <2>4. QED
    BY <2>1, <2>2, <2>3
<1>9. QED
  BY <1>1, <1>2, <1>3, <1>4, <1>5, <1>6, <1>7, <1>8

\* finalize_tokens leaves a reservation that is not reserved as it is.
LEMMA FinalizedOnce ==
  ASSUME Types, NEW r \in Requests, FinalizeTokens(r)
  PROVE  \E t \in {"charged", "returned"} :
           /\ outcome[r] # "failed" => t = "charged"
           /\ tokens' = [tokens EXCEPT ![r] = IF @ = "reserved" THEN t ELSE @]
<1>1. PICK runs \in RedisRuns :
        tokens' = [tokens EXCEPT ![r] =
          IF @ # "reserved" THEN @ ELSE IF runs /\ ReleaseAll(r) THEN "returned" ELSE "charged"]
  BY DEF FinalizeTokens
<1>2. CASE runs /\ ReleaseAll(r)
  BY <1>1, <1>2 DEF ReleaseAll, Types
<1>3. CASE ~(runs /\ ReleaseAll(r))
  BY <1>1, <1>3 DEF Types
<1>4. QED
  BY <1>2, <1>3

\* Finalizing the tokens and recording the usage keep it.
LEMMA SettlePlaceInv ==
  ASSUME PlaceInv, NEW r \in Requests, Settle(r)
  PROVE  PlaceInv'
<1>1. PICK t \in {"charged", "returned"} :
        /\ outcome[r] # "failed" => t = "charged"
        /\ tokens' = [tokens EXCEPT ![r] = IF @ = "reserved" THEN t ELSE @]
  BY FinalizedOnce DEF PlaceInv, Settle
<1>2. outcome[r] \in Final
  BY DEF PlaceInv, Place, Settle
<1>3. usage' \in [Requests -> Seq(Final)]
  BY <1>2 DEF PlaceInv, Types, Settle, RecordUsage
<1>4. pc' \in [Requests -> PC] /\ tokens' \in [Requests -> {"none", "reserved", "charged", "returned"}]
  BY <1>1 DEF PlaceInv, Types, Settle, Goto, PC
<1>5. Types'
  BY <1>3, <1>4 DEF PlaceInv, Types, Settle
<1>6. Place(r)'
  BY <1>1, <1>2 DEF PlaceInv, Types, Place, Settle, Goto, PC, Final, Calling
<1>7. ASSUME NEW q \in Requests, q # r
      PROVE  Place(q)'
  BY <1>1, <1>7 DEF PlaceInv, Types, Place, Settle, Goto
<1>8. QED
  BY <1>5, <1>6, <1>7 DEF PlaceInv

\* The end of the cleanup by a cancellation keeps it.
LEMMA CancelPlaceInv ==
  ASSUME PlaceInv, NEW r \in Requests, CancelForGood(r)
  PROVE  PlaceInv'
<1> USE DEF PlaceInv, Types, Place, CancelForGood, Cut, Goto, PC, Status, Final, Calling
<1>1. CASE UNCHANGED <<slots, tokens, row>>
  BY <1>1
<1>2. CASE pc[r] = "settle" /\ FinalizeTokens(r) /\ UNCHANGED <<slots, row>>
  <2>1. PICK t \in {"charged", "returned"} :
          /\ outcome[r] # "failed" => t = "charged"
          /\ tokens' = [tokens EXCEPT ![r] = IF @ = "reserved" THEN t ELSE @]
    BY <1>2, FinalizedOnce
  <2>2. QED
    BY <1>2, <2>1
<1>3. CASE pc[r] = "close" /\ CloseRow(r) /\ UNCHANGED <<slots, tokens>>
  BY <1>3 DEF CloseRow
<1>4. CASE pc[r] = "release" /\ slots' = slots \ {r} /\ UNCHANGED <<tokens, row>>
  BY <1>4
<1>5. QED
  BY <1>1, <1>2, <1>3, <1>4

\* What an error after the call leads to.
ErrorHandled(r) ==
  \/ pc' = [pc EXCEPT ![r] = "done"] /\ outcome' = outcome
  \/ /\ pc' = [pc EXCEPT ![r] = "settle"] \/ pc' = [pc EXCEPT ![r] = "release"]
     /\ outcome' = [outcome EXCEPT ![r] = "failed"]

\* It keeps the types of what it changes.
LEMMA ErrorTypes ==
  ASSUME Types, NEW r \in Requests, ErrorHandled(r)
  PROVE  pc' \in [Requests -> PC] /\ outcome' \in [Requests -> Status]
<1>1. pc' \in [Requests -> PC]
  BY DEF Types, ErrorHandled, PC
<1>2. outcome' \in [Requests -> Status]
  BY DEF Types, ErrorHandled, Status, Final
<1>3. QED
  BY <1>1, <1>2

\* The steps that record the outcome and release the lease keep it.
LEMMA ClosingPlaceInv ==
  ASSUME PlaceInv, NEW r \in Requests,
         \/ CloseAudit(r) \/ CloseAuditFails(r) \/ MarkSucceeded(r) \/ MarkSucceededFails(r)
         \/ MarkFailed(r) \/ Release(r)
  PROVE  PlaceInv'
<1> USE DEF PlaceInv, Types, Place, Goto, PC, Status, Final, Calling
<1>1. CASE CloseAudit(r)
  BY <1>1 DEF CloseAudit, CloseRow, Emit
<1>2. CASE CloseAuditFails(r)
  <2>1. /\ pc[r] = "close"
        /\ row' = row \/ row' = [row EXCEPT ![r] = outcome[r]]
        /\ UNCHANGED <<slots, tokens, audited, upstream, usage, event, job, gone>>
    BY <1>2 DEF CloseAuditFails, CloseRow
  <2>2. ErrorHandled(r)
    BY <1>2 DEF CloseAuditFails, AfterError, ErrorHandled
  <2>3. Types'
    <3>1. row' \in [Requests -> {"accepted"} \cup Status]
      BY <2>1
    <3>2. QED
      BY <2>1, <2>2, <3>1, ErrorTypes
  <2>4. Place(r)'
    BY <2>1, <2>2 DEF ErrorHandled
  <2>5. ASSUME NEW q \in Requests, q # r
        PROVE  Place(q)'
    BY <2>1, <2>2, <2>5 DEF ErrorHandled
  <2>6. QED
    BY <2>3, <2>4, <2>5
<1>3. CASE MarkSucceeded(r)
  BY <1>3 DEF MarkSucceeded
<1>4. CASE MarkSucceededFails(r)
  <2>1. /\ pc[r] = "markSucceeded"
        /\ job' = job \/ job' = [job EXCEPT ![r] = "succeeded"]
        /\ UNCHANGED <<slots, tokens, row, audited, upstream, usage, event, gone>>
    BY <1>4 DEF MarkSucceededFails
  <2>2. ErrorHandled(r)
    BY <1>4 DEF MarkSucceededFails, AfterError, ErrorHandled
  <2>3. Types'
    <3>1. job' \in [Requests -> {"running", "succeeded", "failed"}]
      <4>1. job \in [Requests -> {"running", "succeeded", "failed"}]
        OBVIOUS
      <4> HIDE DEF PlaceInv, Types, Place, PC, Status
      <4>2. QED
        BY <2>1, <4>1
    <3>2. QED
      BY <2>1, <2>2, <3>1, ErrorTypes
  <2>4. Place(r)'
    BY <2>1, <2>2 DEF ErrorHandled
  <2>5. ASSUME NEW q \in Requests, q # r
        PROVE  Place(q)'
    BY <2>1, <2>2, <2>5 DEF ErrorHandled
  <2>6. QED
    BY <2>3, <2>4, <2>5
<1>5. CASE MarkFailed(r)
  BY <1>5 DEF MarkFailed
<1>6. CASE Release(r)
  BY <1>6 DEF Release, Freed
<1>7. QED
  BY <1>1, <1>2, <1>3, <1>4, <1>5, <1>6

\* The death of a process keeps it: its calls end with it.
LEMMA CrashPlaceInv ==
  ASSUME PlaceInv, NEW kinds, Crash(kinds)
  PROVE  PlaceInv'
BY DEF PlaceInv, Types, Place, Crash, PC, Status, Final, Calling

\* So does every step.
LEMMA NextPlaceInv == PlaceInv /\ [Next]_vars => PlaceInv'
<1> SUFFICES ASSUME PlaceInv, [Next]_vars PROVE PlaceInv'
  OBVIOUS
<1>1. CASE UNCHANGED vars \/ Idle
  BY <1>1 DEF PlaceInv, Types, Place, Idle, vars
<1>2. ASSUME NEW r \in Requests,
             Admitted(r) \/ Refused(r) \/ RefusedWithSlot(r) \/ Proceed(r) \/ Disconnect(r)
      PROVE  PlaceInv'
  BY <1>2, OpeningPlaceInv, CallPlaceInv, SettlePlaceInv, CancelPlaceInv, ClosingPlaceInv DEF Proceed
<1>3. CASE Crash({"plain", "stream"}) \/ Crash({"batch"})
  BY <1>3, CrashPlaceInv
<1>4. QED
  BY <1>1, <1>2, <1>3 DEF Next

\* The invariant holds of every behaviour.
LEMMA Places == Spec => []PlaceInv
BY InitPlaceInv, NextPlaceInv, PTL DEF Spec

\* A request for which the GPU works has a slot, a reservation and an open row
\* (chat_completions.py, batch_worker.py), whatever fails, crashes or is
\* cancelled.
THEOREM UpstreamCovered == Spec => []SlotCoversUpstream
<1>1. PlaceInv => SlotCoversUpstream
  BY DEF PlaceInv, Place, SlotCoversUpstream, Calling
<1>2. QED
  BY <1>1, Places, PTL

\* The tokens of a request recorded as completed or disconnected were charged, for
\* TokenReservation.finalize acts once and its first call decides.
THEOREM Charged == Spec => []RecordedIsCharged
<1>1. PlaceInv => RecordedIsCharged
  BY DEF PlaceInv, Place, RecordedIsCharged
<1>2. QED
  BY <1>1, Places, PTL

(***************************************************************************)
(* The gauge, and type correctness                                         *)
(***************************************************************************)
\* There are finitely many running streams.
LEMMA RunningFinite == IsFiniteSet(Running)
<1>1. Running \subseteq Requests
  BY DEF Running
<1>2. QED
  BY <1>1, RequestsAssumption, FS_Subset

\* A step that starts no stream and leaves the gauge alone keeps the bound.
LEMMA GaugeKept ==
  ASSUME GaugeInv, Running' \subseteq Running, streams' = streams
  PROVE  GaugeInv'
<1>1. /\ Cardinality(Running') <= Cardinality(Running)
      /\ Cardinality(Running) \in Nat /\ Cardinality(Running') \in Nat
  BY RunningFinite, FS_Subset, FS_CardinalityType
<1>2. QED
  BY <1>1 DEF GaugeInv

\* Of the steps of a request all but the first and the last of a stream are such.
LEMMA QuietSteps ==
  ASSUME Types, NEW r \in Requests,
         Admitted(r) \/ Refused(r) \/ RefusedWithSlot(r) \/ Proceed(r) \/ Disconnect(r),
         ~BeginStream(r), ~Release(r)
  PROVE  Running' \subseteq Running /\ streams' = streams
<1> USE DEF Types, Running, Goto
<1>1. CASE Admitted(r) \/ Refused(r) \/ RefusedWithSlot(r) \/ Disconnect(r)
  BY <1>1 DEF Admitted, Refused, RefusedWithSlot, Turned, Disconnect
<1>2. CASE StartAudit(r)
  BY <1>2 DEF StartAudit
<1>3. CASE StartAuditFails(r)
  BY <1>3 DEF StartAuditFails
<1>4. CASE Answered(r)
  BY <1>4 DEF Answered
<1>5. CASE StreamEnds(r) \/ StreamFails(r) \/ NoticeGone(r) \/ CancelStream(r)
  BY <1>5 DEF StreamEnds, StreamFails, NoticeGone, CancelStream
<1>6. CASE CancelForGood(r)
  BY <1>6 DEF CancelForGood, Cut
<1>7. CASE CloseIterators(r) \/ CloseIteratorsFails(r) \/ Settle(r)
  BY <1>7 DEF CloseIterators, CloseIteratorsFails, Cut, Settle
<1>8. CASE CloseAudit(r) \/ CloseAuditFails(r)
  BY <1>8 DEF CloseAudit, CloseAuditFails, AfterError
<1>9. CASE MarkSucceeded(r) \/ MarkSucceededFails(r) \/ MarkFailed(r)
  BY <1>9 DEF MarkSucceeded, MarkSucceededFails, MarkFailed, AfterError
<1>10. QED
  BY <1>1, <1>2, <1>3, <1>4, <1>5, <1>6, <1>7, <1>8, <1>9 DEF Proceed

\* The first step of a stream raises the gauge by one.
LEMMA BeginGauge ==
  ASSUME Types, GaugeInv, NEW r \in Requests, BeginStream(r)
  PROVE  GaugeInv'
<1>1. Running' \subseteq Running \cup {r}
  <2>1. pc' = [pc EXCEPT ![r] = "streaming"] /\ pc \in [Requests -> PC]
    BY DEF Types, BeginStream, Goto
  <2>2. \A q \in Requests \ {r} : pc'[q] = pc[q]
    BY <2>1
  <2>3. ASSUME NEW q \in Running', q # r PROVE q \in Running
    BY <2>2, <2>3 DEF Running
  <2>4. QED
    BY <2>3
<1>2. IsFiniteSet(Running \cup {r}) /\ Cardinality(Running \cup {r}) <= Cardinality(Running) + 1
  BY RunningFinite, FS_AddElement, FS_CardinalityType
<1>3. Cardinality(Running') <= Cardinality(Running \cup {r})
  BY <1>1, <1>2, FS_Subset
<1>4. /\ Cardinality(Running) \in Nat /\ Cardinality(Running \cup {r}) \in Nat
      /\ Cardinality(Running') \in Nat
  BY <1>1, <1>2, RunningFinite, FS_Subset, FS_CardinalityType
<1>5. streams' = streams + 1
  BY DEF BeginStream, StreamStarted
<1>6. QED
  BY <1>2, <1>3, <1>4, <1>5 DEF GaugeInv

\* The last step of a stream lowers it by one, and the stream no longer runs.
LEMMA ReleaseGauge ==
  ASSUME Types, GaugeInv, NEW r \in Requests, Release(r)
  PROVE  GaugeInv'
<1>1. CASE Kind[r] # "stream"
  <2>1. Running' \subseteq Running
    BY <1>1 DEF Types, Running, Release, Goto
  <2>2. streams' = streams
    BY <1>1 DEF Release, CountsStream
  <2>3. QED
    BY <2>1, <2>2, GaugeKept
<1>2. CASE Kind[r] = "stream"
  <2>1. r \in Running /\ Running' \subseteq Running \ {r}
    BY <1>2 DEF Types, Running, Release, Goto
  <2>2. /\ IsFiniteSet(Running \ {r})
        /\ Cardinality(Running \ {r}) = Cardinality(Running) - 1
    BY <2>1, RunningFinite, FS_RemoveElement
  <2>3. Cardinality(Running') <= Cardinality(Running \ {r}) /\ IsFiniteSet(Running')
    BY <2>1, <2>2, FS_Subset
  <2>4. /\ Cardinality(Running) \in Nat /\ Cardinality(Running \ {r}) \in Nat
        /\ Cardinality(Running') \in Nat
    BY <2>2, <2>3, RunningFinite, FS_CardinalityType
  <2>5. streams' = streams - 1
    BY <1>2 DEF Release, CountsStream
  <2>6. QED
    BY <2>2, <2>3, <2>4, <2>5 DEF GaugeInv
<1>3. QED
  BY <1>1, <1>2

\* A process that dies takes its gauge along.
LEMMA CrashGauge ==
  ASSUME Types, GaugeInv, NEW kinds, Crash(kinds)
  PROVE  GaugeInv'
<1>1. Running' \subseteq Running
  BY DEF Types, Running, Crash
<1>2. CASE "stream" \in kinds
  <2>1. Running' = {} /\ streams' = 0
    BY <1>2 DEF Types, Running, Crash
  <2>2. QED
    BY <2>1, FS_EmptySet DEF GaugeInv
<1>3. CASE "stream" \notin kinds
  BY <1>1, <1>3, GaugeKept DEF Crash
<1>4. QED
  BY <1>2, <1>3

\* Every step keeps the bound.
LEMMA NextGaugeInv == Types /\ GaugeInv /\ [Next]_vars => GaugeInv'
<1> SUFFICES ASSUME Types, GaugeInv, [Next]_vars PROVE GaugeInv'
  OBVIOUS
<1>1. CASE UNCHANGED vars \/ Idle
  BY <1>1 DEF GaugeInv, Running, Idle, vars
<1>2. ASSUME NEW r \in Requests,
             Admitted(r) \/ Refused(r) \/ RefusedWithSlot(r) \/ Proceed(r) \/ Disconnect(r)
      PROVE  GaugeInv'
  BY <1>2, QuietSteps, GaugeKept, BeginGauge, ReleaseGauge
<1>3. CASE Crash({"plain", "stream"}) \/ Crash({"batch"})
  BY <1>3, CrashGauge
<1>4. QED
  BY <1>1, <1>2, <1>3 DEF Next

\* No stream runs at the beginning.
LEMMA InitGaugeInv == Init => GaugeInv
<1> SUFFICES ASSUME Init PROVE GaugeInv
  OBVIOUS
<1>1. Running = {} /\ streams = 0
  BY DEF Init, Running
<1>2. QED
  BY <1>1, FS_EmptySet DEF GaugeInv

\* Every variable keeps its type; for the gauge of active streams this says that
\* record_stream_finished never runs more often than record_stream_started.
THEOREM TypeCorrect == Spec => []TypeOK
<1>1. PlaceInv => Types
  BY DEF PlaceInv
<1>2. Types /\ GaugeInv => TypeOK
  BY DEF Types, GaugeInv, TypeOK
<1>3. QED
  BY <1>1, <1>2, Places, InitGaugeInv, NextGaugeInv, PTL DEF Spec

(***************************************************************************)
(* What the event says, and how a request leaves                           *)
(***************************************************************************)
\* A request emits its event on the way out, when its row says how it ended; while
\* the row may still be written again there is no event.
Told(r) ==
  /\ pc[r] \notin {"release", "done"} => event[r] = "none"
  /\ pc[r] = "markSucceeded" => row[r] = "completed"
  /\ event[r] # "none" => event[r] = row[r]

\* A request that has called vLLM has had its reservation ever since.
Called(r) == upstream[r] # "idle" => pc[r] \notin {"new", "start"} /\ tokens[r] # "none"

TellInv == PlaceInv /\ \A r \in Requests : Told(r) /\ Called(r)

\* What a step of one request leaves alone of the others.
TellKept(r) ==
  \A q \in Requests \ {r} :
    /\ pc'[q] = pc[q] /\ row'[q] = row[q] /\ tokens'[q] = tokens[q]
    /\ event'[q] = event[q] /\ upstream'[q] = upstream[q]

\* The steps before the outcome is recorded tell nothing.
LEMMA TellBefore ==
  ASSUME TellInv, NEW r \in Requests,
         \/ Admitted(r) \/ Refused(r) \/ RefusedWithSlot(r) \/ StartAudit(r) \/ StartAuditFails(r) \/ Disconnect(r)
         \/ Answered(r) \/ BeginStream(r) \/ StreamEnds(r) \/ StreamFails(r) \/ NoticeGone(r)
         \/ CancelStream(r) \/ CloseIterators(r) \/ CloseIteratorsFails(r)
  PROVE  Told(r)' /\ Called(r)' /\ TellKept(r)
<1> USE DEF TellInv, PlaceInv, Types, Told, Called, TellKept, Goto, AfterLoop
<1>1. CASE Admitted(r) \/ Refused(r) \/ RefusedWithSlot(r) \/ Disconnect(r)
  BY <1>1 DEF Admitted, Refused, RefusedWithSlot, Turned, Disconnect, Place
<1>2. CASE StartAudit(r)
  BY <1>2 DEF StartAudit, Place
<1>3. CASE StartAuditFails(r)
  <2>1. /\ pc[r] = "start" /\ UNCHANGED <<tokens, upstream, event>>
        /\ pc' = [pc EXCEPT ![r] = "settle"] \/ pc' = [pc EXCEPT ![r] = "done"]
    BY <1>3 DEF StartAuditFails
  <2>2. row' = row \/ row' = [row EXCEPT ![r] = "accepted"]
    BY <1>3 DEF StartAuditFails
  <2>3. Told(r)' /\ Called(r)'
    BY <2>1
  <2>4. TellKept(r)
    BY <2>1, <2>2
  <2>5. QED
    BY <2>3, <2>4
<1>4. CASE Answered(r)
  <2>1. /\ pc[r] = "call" /\ tokens[r] = "reserved" /\ UNCHANGED <<tokens, row, event>>
        /\ pc' = [pc EXCEPT ![r] = "settle"]
    BY <1>4 DEF Answered, Place, Calling
  <2>2. upstream' = [upstream EXCEPT ![r] = "ended"] \/ upstream' = [upstream EXCEPT ![r] = "cut"]
    BY <1>4 DEF Answered
  <2>3. QED
    BY <2>1, <2>2
<1>5. CASE BeginStream(r)
  <2>1. /\ pc[r] = "created" /\ tokens[r] = "reserved" /\ UNCHANGED <<tokens, row, event>>
        /\ pc' = [pc EXCEPT ![r] = "streaming"]
    BY <1>5 DEF BeginStream, Place
  <2>2. \A q \in Requests \ {r} : upstream'[q] = upstream[q]
    BY <1>5 DEF BeginStream
  <2>3. QED
    BY <2>1, <2>2
<1>6. CASE StreamEnds(r) \/ StreamFails(r) \/ NoticeGone(r) \/ CancelStream(r)
  <2>1. pc[r] = "streaming" /\ UNCHANGED <<tokens, row, event>> /\ Goto(r, AfterLoop)
    BY <1>6 DEF StreamEnds, StreamFails, NoticeGone, CancelStream
  <2>2. upstream' = upstream \/ upstream' = [upstream EXCEPT ![r] = "ended"]
    BY <1>6 DEF StreamEnds, StreamFails, NoticeGone, CancelStream
  <2>3. tokens[r] = "reserved"
    BY <2>1 DEF Place, Calling
  <2>4. /\ pc'[r] = "unwind"
        /\ \A q \in Requests \ {r} : pc'[q] = pc[q] /\ upstream'[q] = upstream[q]
    BY <2>1, <2>2
  <2>5. Told(r) /\ Called(r)
    OBVIOUS
  <2> HIDE DEF TellInv, PlaceInv, Types, AfterLoop, Goto
  <2>6. QED
    BY <2>1, <2>3, <2>4, <2>5
<1>7. CASE CloseIterators(r) \/ CloseIteratorsFails(r)
  <2>1. /\ pc[r] = "unwind" /\ tokens[r] = "reserved" /\ UNCHANGED <<tokens, row, event>>
        /\ pc' = [pc EXCEPT ![r] = "settle"] \/ pc' = [pc EXCEPT ![r] = "done"]
    BY <1>7 DEF CloseIterators, CloseIteratorsFails, Cut, Place, Calling
  <2>2. \A q \in Requests \ {r} : upstream'[q] = upstream[q]
    BY <1>7 DEF CloseIterators, CloseIteratorsFails, Cut
  <2>3. QED
    BY <2>1, <2>2
<1>8. QED
  BY <1>1, <1>2, <1>3, <1>4, <1>5, <1>6, <1>7

\* Finalizing never takes a reservation back to nothing.
LEMMA ReservationStays ==
  ASSUME Types, NEW r \in Requests, FinalizeTokens(r)
  PROVE  /\ tokens[r] # "none" => tokens'[r] # "none"
         /\ \A q \in Requests \ {r} : tokens'[q] = tokens[q]
<1>1. PICK t \in {"charged", "returned"} :
        tokens' = [tokens EXCEPT ![r] = IF @ = "reserved" THEN t ELSE @]
  BY FinalizedOnce
<1>2. QED
  BY <1>1 DEF Types

\* The steps that record it tell what they record.
LEMMA TellAfter ==
  ASSUME TellInv, NEW r \in Requests,
         \/ Settle(r) \/ CloseAudit(r) \/ CloseAuditFails(r) \/ MarkSucceeded(r)
         \/ MarkSucceededFails(r) \/ MarkFailed(r) \/ Release(r) \/ CancelForGood(r)
  PROVE  Told(r)' /\ Called(r)' /\ TellKept(r)
<1> USE DEF TellInv, PlaceInv, Types, Told, Called, TellKept, Goto
<1>1. CASE Settle(r)
  <2>1. /\ pc[r] = "settle" /\ pc' = [pc EXCEPT ![r] = IF r \in audited THEN "close" ELSE "markFailed"]
        /\ row' = row /\ event' = event /\ upstream' = upstream /\ FinalizeTokens(r)
    BY <1>1 DEF Settle
  <2>2. pc'[r] \in {"close", "markFailed"} /\ \A q \in Requests \ {r} : pc'[q] = pc[q]
    BY <2>1
  <2>3. /\ tokens[r] # "none" => tokens'[r] # "none"
        /\ \A q \in Requests \ {r} : tokens'[q] = tokens[q]
    BY <2>1, ReservationStays
  <2>4. Told(r) /\ Called(r)
    OBVIOUS
  <2> HIDE DEF TellInv, PlaceInv, Types
  <2>5. QED
    BY <2>1, <2>2, <2>3, <2>4
<1>2. CASE CloseAudit(r)
  <2>1. /\ pc[r] = "close" /\ tokens' = tokens /\ upstream' = upstream
        /\ row' = [row EXCEPT ![r] = outcome[r]]
        /\ event' = [event EXCEPT ![r] = IF Kind[r] = "batch" THEN @ ELSE outcome[r]]
        /\ pc' = [pc EXCEPT ![r] = IF Kind[r] # "batch" THEN "release"
                                   ELSE IF outcome[r] = "completed" THEN "markSucceeded"
                                                                    ELSE "markFailed"]
    BY <1>2 DEF CloseAudit, CloseRow, Emit
  <2>2. /\ pc'[r] \in {"release", "markSucceeded", "markFailed"}
        /\ pc'[r] = "release" <=> Kind[r] # "batch"
        /\ pc'[r] = "markSucceeded" => outcome[r] = "completed"
        /\ \A q \in Requests \ {r} : pc'[q] = pc[q]
    BY <2>1
  <2>3. row'[r] = outcome[r] /\ \A q \in Requests \ {r} : row'[q] = row[q]
    BY <2>1
  <2>4. /\ event'[r] = IF Kind[r] = "batch" THEN event[r] ELSE outcome[r]
        /\ \A q \in Requests \ {r} : event'[q] = event[q]
    BY <2>1
  <2>5. Told(r) /\ Called(r)
    OBVIOUS
  <2> HIDE DEF TellInv, PlaceInv, Types
  <2>6. QED
    BY <2>1, <2>2, <2>3, <2>4, <2>5
<1>3. CASE CloseAuditFails(r)
  BY <1>3 DEF CloseAuditFails, AfterError, CloseRow
<1>4. CASE MarkSucceeded(r)
  BY <1>4 DEF MarkSucceeded
<1>5. CASE MarkSucceededFails(r)
  BY <1>5 DEF MarkSucceededFails, AfterError
<1>6. CASE MarkFailed(r)
  BY <1>6 DEF MarkFailed
<1>7. CASE Release(r)
  BY <1>7 DEF Release
<1>8. CASE CancelForGood(r)
  BY <1>8, ReservationStays DEF CancelForGood, Cut, CloseRow
<1>9. QED
  BY <1>1, <1>2, <1>3, <1>4, <1>5, <1>6, <1>7, <1>8

\* So does every step.
LEMMA NextTellInv == TellInv /\ [Next]_vars => TellInv'
<1> SUFFICES ASSUME TellInv, [Next]_vars PROVE TellInv'
  OBVIOUS
<1>1. PlaceInv'
  BY NextPlaceInv DEF TellInv
<1>2. CASE UNCHANGED vars \/ Idle
  BY <1>1, <1>2 DEF TellInv, Told, Called, Idle, vars
<1>3. ASSUME NEW r \in Requests,
             Admitted(r) \/ Refused(r) \/ RefusedWithSlot(r) \/ Proceed(r) \/ Disconnect(r)
      PROVE  TellInv'
  <2>1. Told(r)' /\ Called(r)' /\ TellKept(r)
    BY <1>3, TellBefore, TellAfter DEF Proceed
  <2>2. QED
    BY <1>1, <2>1 DEF TellInv, Told, Called, TellKept
<1>4. ASSUME NEW kinds, Crash(kinds)
      PROVE  TellInv'
  BY <1>1, <1>4 DEF TellInv, PlaceInv, Types, Told, Called, Crash
<1>5. QED
  BY <1>2, <1>3, <1>4 DEF Next

\* Nothing is told at the beginning, and the invariant holds of every behaviour.
LEMMA Tells == Spec => []TellInv
<1>1. Init => TellInv
  BY InitPlaceInv DEF Init, TellInv, Told, Called
<1>2. QED
  BY <1>1, NextTellInv, PTL DEF Spec

\* An event repeats what the audit row says, although a failed closing is followed by
\* a second one with another outcome (chat_completions.py:151, batch_worker.py).
THEOREM EventsMatch == Spec => []EventMatchesRow
<1>1. TellInv => EventMatchesRow
  BY DEF TellInv, Told, EventMatchesRow
<1>2. QED
  BY <1>1, Tells, PTL

\* A step that is no crash and ends a request that has called vLLM, on a path other
\* than the stream's, is its release.
LEMMA LeavesByRelease ==
  ASSUME TellInv, NEW r \in Requests, NEW q \in Requests,
         Admitted(q) \/ Refused(q) \/ RefusedWithSlot(q) \/ Proceed(q) \/ Disconnect(q),
         Kind[r] # "stream", upstream[r] # "idle", pc[r] # "done", pc'[r] = "done"
  PROVE  pc[r] = "release"
<1>1. q = r
  BY TellBefore, TellAfter DEF Proceed, TellKept
<1>2. pc[r] \notin {"new", "start"} /\ tokens[r] # "none" /\ pc \in [Requests -> PC]
  BY DEF TellInv, PlaceInv, Types, Called
<1> USE DEF Goto
<1>3. ~Admitted(r) /\ ~Refused(r) /\ ~RefusedWithSlot(r) /\ ~StartAudit(r)
      /\ ~StartAuditFails(r) /\ ~Disconnect(r)
  BY <1>2 DEF Admitted, Refused, RefusedWithSlot, Turned, StartAudit, StartAuditFails, Disconnect
<1>4. ~Answered(r) /\ ~BeginStream(r) /\ ~StreamEnds(r) /\ ~StreamFails(r) /\ ~NoticeGone(r)
  BY <1>2 DEF Answered, BeginStream, StreamEnds, StreamFails, NoticeGone, AfterLoop
<1>5. ~CancelStream(r) /\ ~CancelForGood(r) /\ ~CloseIterators(r)
      /\ ~CloseIteratorsFails(r) /\ ~Settle(r)
  BY <1>2 DEF CancelStream, CancelForGood, Cut, CloseIterators, CloseIteratorsFails, Cut, Settle, AfterLoop
<1>6. ~CloseAudit(r) /\ ~CloseAuditFails(r)
  BY <1>2 DEF CloseAudit, CloseAuditFails, AfterError
<1>7. ~MarkSucceeded(r) /\ ~MarkSucceededFails(r) /\ ~MarkFailed(r)
  BY <1>2 DEF MarkSucceeded, MarkSucceededFails, MarkFailed, AfterError
<1>8. Release(r)
  BY <1>1, <1>3, <1>4, <1>5, <1>6, <1>7 DEF Proceed
<1>9. QED
  BY <1>8 DEF Release

\* The plain route and the batch worker, once they have called vLLM, leave through the
\* release in their finally, whichever transactions and commands fail
\* (chat_completions.py:164, batch_worker.py).
THEOREM LeavesThroughFinally == Spec => FinallyReleases
<1>1. TellInv /\ [Next]_vars =>
        [\A r \in Requests :
           /\ Kind[r] # "stream" /\ upstream[r] # "idle"
           /\ pc[r] # "done" /\ pc'[r] = "done"
           => pc[r] = "release" \/ Crash({"plain", "stream"}) \/ Crash({"batch"})]_vars
  <2> SUFFICES ASSUME TellInv, Next, NEW r \in Requests,
                      Kind[r] # "stream", upstream[r] # "idle", pc[r] # "done", pc'[r] = "done"
               PROVE  pc[r] = "release" \/ Crash({"plain", "stream"}) \/ Crash({"batch"})
    OBVIOUS
  <2>1. CASE Idle
    BY <2>1 DEF Idle, vars
  <2>2. ASSUME NEW q \in Requests,
               Admitted(q) \/ Refused(q) \/ RefusedWithSlot(q) \/ Proceed(q) \/ Disconnect(q)
        PROVE  pc[r] = "release"
    BY <2>2, LeavesByRelease
  <2>3. QED
    BY <2>1, <2>2 DEF Next
<1>2. QED
  BY <1>1, Tells, PTL DEF Spec, FinallyReleases

(***************************************************************************)
(* The contract is implemented, whatever Redis, crashes and cancellations  *)
(* do, as long as Postgres answers                                         *)
(***************************************************************************)
PostgresAnswers == "lost" \notin Faults /\ "noreply" \notin Faults

\* The places between the opening and the closing of the row.
Opened == {"created", "settle", "close"} \cup Calling

\* What a request has at each place when no transaction fails.
Stage(r) ==
  /\ pc[r] = "new" => r \notin slots /\ tokens[r] = "none" /\ row[r] = "none"
  /\ pc[r] = "start" => r \in slots /\ row[r] = "none"
  /\ pc[r] \in Opened => r \in slots /\ row[r] = "accepted" /\ r \in audited
  /\ pc[r] \in {"markSucceeded", "release"} => r \in slots /\ row[r] \in Final
  /\ pc[r] = "markFailed" /\ tokens[r] # "none" => r \in slots /\ row[r] \in Final

StageInv == PlaceInv /\ \A r \in Requests : Stage(r)

\* A step of the contract, or none.
ContractStep == Contract!Next \/ UNCHANGED <<slots, row>>

\* What a step of one request leaves alone of the others.
OthersKept(r) ==
  \A q \in Requests \ {r} :
    /\ pc'[q] = pc[q] /\ row'[q] = row[q] /\ tokens'[q] = tokens[q]
    /\ (q \in slots' <=> q \in slots)
    /\ (q \in audited => q \in audited')

\* With a stage of its own, such a step keeps the stages.
LEMMA StagesOfOthers ==
  ASSUME StageInv, NEW r \in Requests, OthersKept(r), PlaceInv', Stage(r)'
  PROVE  StageInv'
<1>1. ASSUME NEW q \in Requests, q # r
      PROVE  Stage(q)'
  BY <1>1 DEF OthersKept, StageInv, Stage, Opened, Calling
<1>2. QED
  BY <1>1 DEF StageInv

\* The steps that touch neither the slots nor the rows keep the stages.
LEMMA SilentStages ==
  ASSUME PostgresAnswers, StageInv, NEW r \in Requests,
         \/ Refused(r) \/ Disconnect(r) \/ Answered(r) \/ BeginStream(r) \/ StreamEnds(r)
         \/ StreamFails(r) \/ NoticeGone(r) \/ CancelStream(r) \/ CloseIterators(r) \/ CloseIteratorsFails(r)
         \/ MarkSucceeded(r) \/ MarkFailed(r)
  PROVE  Stage(r)' /\ OthersKept(r) /\ UNCHANGED <<slots, row>>
<1> USE DEF StageInv, PlaceInv, Types, Stage, Opened, Calling, Goto, OthersKept, AfterLoop
<1>1. CASE Refused(r) \/ Disconnect(r)
  BY <1>1 DEF Refused, Turned, Disconnect
<1>2. CASE Answered(r)
  BY <1>2 DEF Answered
<1>3. CASE BeginStream(r) \/ CloseIterators(r) \/ CloseIteratorsFails(r)
  BY <1>3 DEF BeginStream, CloseIterators, CloseIteratorsFails, Cut
<1>4. CASE StreamEnds(r) \/ StreamFails(r) \/ NoticeGone(r) \/ CancelStream(r)
  BY <1>4 DEF StreamEnds, StreamFails, NoticeGone, CancelStream
<1>5. CASE MarkSucceeded(r)
  BY <1>5 DEF MarkSucceeded
<1>6. CASE MarkFailed(r)
  BY <1>6 DEF MarkFailed
<1>7. QED
  BY <1>1, <1>2, <1>3, <1>4, <1>5, <1>6

\* A transaction that answers does not fail, and the id of a batch request is free.
LEMMA NoErrors ==
  ASSUME PostgresAnswers, StageInv, NEW r \in Requests
  PROVE  /\ ~CloseAuditFails(r) /\ ~MarkSucceededFails(r)
         /\ StartAuditFails(r) => Kind[r] # "batch" /\ UNCHANGED row
<1>1. ~CloseAuditFails(r) /\ ~MarkSucceededFails(r)
  BY DEF PostgresAnswers, CloseAuditFails, MarkSucceededFails
<1>2. ASSUME StartAuditFails(r)
      PROVE  Kind[r] # "batch" /\ UNCHANGED row
  <2>1. pc[r] = "start" /\ ~IdIsFree(r) /\ UNCHANGED row
    BY <1>2 DEF StartAuditFails, PostgresAnswers
  <2>2. PICK q \in Requests : IdOf[q] = IdOf[r] /\ row[q] # "none"
    BY <2>1 DEF IdIsFree
  <2>3. row[r] = "none"
    BY <2>1 DEF StageInv, Stage
  <2>4. QED
    BY <2>1, <2>2, <2>3, BatchIdsAssumption
<1>3. QED
  BY <1>1, <1>2

\* Nor do those that fail to open the row, and those that finalize the tokens.
LEMMA FailingStages ==
  ASSUME PostgresAnswers, StageInv, NEW r \in Requests, StartAuditFails(r) \/ Settle(r)
  PROVE  Stage(r)' /\ OthersKept(r) /\ UNCHANGED <<slots, row>>
<1> USE DEF StageInv, PlaceInv, Types, Stage, Opened, Calling, Goto, OthersKept
<1>1. CASE StartAuditFails(r)
  <2>1. pc' = [pc EXCEPT ![r] = "done"] /\ UNCHANGED <<slots, tokens, row, audited>>
    BY <1>1, NoErrors DEF StartAuditFails
  <2>2. QED
    BY <2>1
<1>2. CASE Settle(r)
  <2>1. PICK t \in {"charged", "returned"} :
          tokens' = [tokens EXCEPT ![r] = IF @ = "reserved" THEN t ELSE @]
    BY <1>2, FinalizedOnce DEF Settle
  <2>2. /\ pc[r] = "settle" /\ UNCHANGED <<slots, row, audited>>
        /\ r \in audited
    BY <1>2 DEF Settle
  <2>3. pc' = [pc EXCEPT ![r] = "close"]
    BY <1>2, <2>2 DEF Settle
  <2>4. QED
    BY <2>1, <2>2, <2>3
<1>3. QED
  BY <1>1, <1>2

\* Admission takes the slot.
LEMMA AdmittedStages ==
  ASSUME StageInv, NEW r \in Requests, Admitted(r)
  PROVE  Stage(r)' /\ OthersKept(r) /\ Contract!TakeSlot(r)
<1>1. Stage(r)' /\ OthersKept(r)
  BY DEF Admitted, Goto, StageInv, PlaceInv, Types, Stage, Opened, Calling, OthersKept
<1>2. Contract!TakeSlot(r)
  BY DEF Admitted, StageInv, Stage, Contract!TakeSlot
<1>3. QED
  BY <1>1, <1>2

\* So does a refusal that comes after acquire, and the request has no use for it.
LEMMA RefusedStages ==
  ASSUME StageInv, NEW r \in Requests, RefusedWithSlot(r)
  PROVE  Stage(r)' /\ OthersKept(r) /\ Contract!TakeSlot(r)
<1>1. Stage(r)' /\ OthersKept(r)
  BY DEF RefusedWithSlot, Turned, Goto, StageInv, PlaceInv, Types, Stage, Opened, Calling, OthersKept
<1>2. Contract!TakeSlot(r)
  BY DEF RefusedWithSlot, Turned, StageInv, Stage, Contract!TakeSlot
<1>3. QED
  BY <1>1, <1>2

\* request_audits.start opens the row.
LEMMA StartAuditStages ==
  ASSUME StageInv, NEW r \in Requests, StartAudit(r)
  PROVE  Stage(r)' /\ OthersKept(r) /\ Contract!OpenRow(r)
<1>1. /\ pc[r] = "start" /\ row' = [row EXCEPT ![r] = "accepted"]
      /\ audited' = audited \cup {r} /\ UNCHANGED <<slots, tokens>>
  BY DEF StartAudit
<1>2. \E place \in {"created", "call"} : pc' = [pc EXCEPT ![r] = place]
  BY DEF StartAudit, Goto
<1>3. Stage(r)' /\ OthersKept(r)
  BY <1>1, <1>2 DEF StageInv, PlaceInv, Types, Stage, Opened, Calling, OthersKept
<1>4. Contract!OpenRow(r)
  BY <1>1 DEF StageInv, Stage, Contract!OpenRow
<1>5. QED
  BY <1>3, <1>4

\* request_audits.finalize closes it.
LEMMA CloseAuditStages ==
  ASSUME StageInv, NEW r \in Requests, CloseAudit(r)
  PROVE  Stage(r)' /\ OthersKept(r) /\ Contract!CloseRow(r)
<1>1. /\ pc[r] = "close" /\ row' = [row EXCEPT ![r] = outcome[r]]
      /\ outcome[r] \in Final /\ UNCHANGED <<slots, tokens, audited>>
  BY DEF CloseAudit, CloseRow, StageInv, PlaceInv, Place
<1>2. \E place \in {"release", "markSucceeded", "markFailed"} : pc' = [pc EXCEPT ![r] = place]
  BY DEF CloseAudit, Goto
<1>3. Stage(r)' /\ OthersKept(r)
  BY <1>1, <1>2 DEF StageInv, PlaceInv, Types, Stage, Opened, Calling, OthersKept, Final
<1>4. Contract!CloseRow(r)
  BY <1>1 DEF StageInv, Stage, Opened, Contract!CloseRow, Contract!Final, Final
<1>5. QED
  BY <1>3, <1>4

\* The release of the lease gives the slot back, unless its command fails.
LEMMA ReleaseStages ==
  ASSUME StageInv, NEW r \in Requests, Release(r)
  PROVE  Stage(r)' /\ OthersKept(r) /\ (Contract!GiveSlot(r) \/ UNCHANGED <<slots, row>>)
<1>1. /\ pc[r] = "release" /\ pc' = [pc EXCEPT ![r] = "done"]
      /\ slots' = slots \ {r} \/ slots' = slots
      /\ UNCHANGED <<tokens, row, audited>>
  BY DEF Release, Freed, Goto
<1>2. Stage(r)' /\ OthersKept(r)
  BY <1>1 DEF StageInv, PlaceInv, Types, Stage, Opened, Calling, OthersKept
<1>3. r \in slots /\ row[r] \in Final
  BY <1>1 DEF StageInv, Stage
<1>4. Contract!GiveSlot(r) \/ UNCHANGED <<slots, row>>
  BY <1>1, <1>3 DEF Contract!GiveSlot, Contract!Final, Final
<1>5. QED
  BY <1>2, <1>4

\* A cancellation ends the cleanup before or after what the interrupted step does.
LEMMA CancelStages ==
  ASSUME StageInv, NEW r \in Requests, CancelForGood(r)
  PROVE  /\ Stage(r)' /\ OthersKept(r)
         /\ \/ Contract!CloseRow(r) \/ Contract!GiveSlot(r)
            \/ UNCHANGED <<slots, row>>
<1> USE DEF StageInv, PlaceInv, Types, Stage, Opened, Calling, OthersKept
<1>1. pc' = [pc EXCEPT ![r] = "done"] /\ UNCHANGED audited
  BY DEF CancelForGood, Cut, Goto
<1>2. CASE UNCHANGED <<slots, tokens, row>>
  BY <1>1, <1>2
<1>3. CASE pc[r] = "settle" /\ FinalizeTokens(r) /\ UNCHANGED <<slots, row>>
  <2>1. PICK t \in {"charged", "returned"} :
          tokens' = [tokens EXCEPT ![r] = IF @ = "reserved" THEN t ELSE @]
    BY <1>3, FinalizedOnce
  <2>2. QED
    BY <1>1, <1>3, <2>1
<1>4. CASE pc[r] = "close" /\ CloseRow(r) /\ UNCHANGED <<slots, tokens>>
  <2>1. row' = [row EXCEPT ![r] = outcome[r]] /\ outcome[r] \in Final
    BY <1>4 DEF CloseRow, Place
  <2>2. Stage(r)' /\ OthersKept(r)
    BY <1>1, <1>4, <2>1
  <2>3. Contract!CloseRow(r)
    BY <1>4, <2>1 DEF Contract!CloseRow, Contract!Final, Final
  <2>4. QED
    BY <2>2, <2>3
<1>5. CASE pc[r] = "release" /\ slots' = slots \ {r} /\ UNCHANGED <<tokens, row>>
  <2>1. Stage(r)' /\ OthersKept(r)
    BY <1>1, <1>5
  <2>2. Contract!GiveSlot(r)
    BY <1>5 DEF Contract!GiveSlot, Contract!Final, Final
  <2>3. QED
    BY <2>1, <2>2
<1>6. QED
  BY <1>2, <1>3, <1>4, <1>5 DEF CancelForGood, Cut

\* Every step of a request keeps the stages and is one of the contract, or silent.
LEMMA RequestStages ==
  ASSUME PostgresAnswers, StageInv, NEW r \in Requests,
         Admitted(r) \/ Refused(r) \/ RefusedWithSlot(r) \/ Proceed(r) \/ Disconnect(r)
  PROVE  Stage(r)' /\ OthersKept(r) /\ ContractStep
<1>1. CASE \/ Refused(r) \/ Disconnect(r) \/ Answered(r) \/ BeginStream(r) \/ StreamEnds(r)
           \/ StreamFails(r) \/ NoticeGone(r) \/ CancelStream(r) \/ CloseIterators(r) \/ CloseIteratorsFails(r)
           \/ MarkSucceeded(r) \/ MarkFailed(r)
  BY <1>1, SilentStages DEF ContractStep
<1>2. CASE StartAuditFails(r) \/ Settle(r)
  BY <1>2, FailingStages DEF ContractStep
<1>3. CASE Admitted(r) \/ RefusedWithSlot(r)
  BY <1>3, AdmittedStages, RefusedStages DEF ContractStep, Contract!Next
<1>4. CASE StartAudit(r)
  BY <1>4, StartAuditStages DEF ContractStep, Contract!Next
<1>5. CASE CloseAudit(r)
  BY <1>5, CloseAuditStages DEF ContractStep, Contract!Next
<1>6. CASE Release(r)
  BY <1>6, ReleaseStages DEF ContractStep, Contract!Next
<1>7. CASE CancelForGood(r)
  BY <1>7, CancelStages DEF ContractStep, Contract!Next
<1>8. QED
  BY <1>1, <1>2, <1>3, <1>4, <1>5, <1>6, <1>7, NoErrors DEF Proceed

\* So is every step of the system.
LEMMA NextStages ==
  ASSUME PostgresAnswers, StageInv, [Next]_vars
  PROVE  StageInv' /\ ContractStep
<1>1. PlaceInv'
  BY NextPlaceInv DEF StageInv
<1>2. CASE UNCHANGED vars \/ Idle
  BY <1>1, <1>2 DEF StageInv, Stage, Opened, Calling, ContractStep, Idle, vars
<1>3. ASSUME NEW r \in Requests,
             Admitted(r) \/ Refused(r) \/ RefusedWithSlot(r) \/ Proceed(r) \/ Disconnect(r)
      PROVE  StageInv' /\ ContractStep
  BY <1>1, <1>3, RequestStages, StagesOfOthers
<1>4. ASSUME NEW kinds, Crash(kinds)
      PROVE  StageInv' /\ ContractStep
  BY <1>1, <1>4 DEF StageInv, PlaceInv, Types, Stage, Opened, Calling, ContractStep, Crash
<1>5. QED
  BY <1>2, <1>3, <1>4 DEF Next

\* As long as no transaction fails, every request of every path takes its slot,
\* opens its row, closes it once with its outcome and only then gives the slot
\* back, whatever Redis, closing the upstream, crashes and cancellations do; one that
\* is refused after its slot was taken keeps it.
THEOREM Implements ==
  ASSUME PostgresAnswers
  PROVE  Spec => ImplementsContract
<1>1. Init => StageInv /\ Contract!Init
  BY InitPlaceInv DEF Init, StageInv, Stage, Opened, Calling, Contract!Init
<1>2. StageInv /\ [Next]_vars => StageInv' /\ [Contract!Next]_<<slots, row>>
  BY NextStages DEF ContractStep
<1>3. QED
  BY <1>1, <1>2, PTL DEF Spec, ImplementsContract, Contract!Spec, Contract!vars

(***************************************************************************)
(* The gauge is exact, as long as Postgres answers, the upstream closes    *)
(* and nothing cancels a stream                                            *)
(***************************************************************************)
\* Where the path of a request matters to its place.
Path(r) ==
  /\ pc[r] \in {"created", "streaming", "unwind"} => Kind[r] = "stream"
  /\ pc[r] = "markFailed" => Kind[r] = "batch"

PathInv == StageInv /\ \A r \in Requests : Path(r)

\* The steps of a request keep it on its path.
LEMMA PathKept ==
  ASSUME PostgresAnswers, PathInv, NEW r \in Requests,
         Admitted(r) \/ Refused(r) \/ RefusedWithSlot(r) \/ Proceed(r) \/ Disconnect(r)
  PROVE  \A q \in Requests : Path(q)'
<1> USE DEF PathInv, Path, StageInv, PlaceInv, Types, Goto
<1>1. CASE Admitted(r) \/ Refused(r) \/ RefusedWithSlot(r) \/ Disconnect(r)
  BY <1>1 DEF Admitted, Refused, RefusedWithSlot, Turned, Disconnect
<1>2. CASE StartAudit(r)
  BY <1>2 DEF StartAudit
<1>3. CASE StartAuditFails(r)
  BY <1>3, NoErrors DEF StartAuditFails
<1>4. CASE Answered(r) \/ BeginStream(r) \/ CloseIterators(r) \/ CloseIteratorsFails(r)
  BY <1>4 DEF Answered, BeginStream, CloseIterators, CloseIteratorsFails, Cut
<1>5. CASE StreamEnds(r) \/ StreamFails(r) \/ NoticeGone(r) \/ CancelStream(r)
  BY <1>5 DEF StreamEnds, StreamFails, NoticeGone, CancelStream, AfterLoop
<1>6. CASE CancelForGood(r) \/ Release(r)
  BY <1>6 DEF CancelForGood, Cut, Release
<1>7. CASE Settle(r)
  <2>1. r \in audited
    BY <1>7 DEF Settle, Stage, Opened
  <2>2. QED
    BY <1>7, <2>1 DEF Settle
<1>8. CASE CloseAudit(r)
  BY <1>8 DEF CloseAudit
<1>9. CASE MarkSucceeded(r) \/ MarkFailed(r)
  BY <1>9 DEF MarkSucceeded, MarkFailed
<1>10. QED
  BY <1>1, <1>2, <1>3, <1>4, <1>5, <1>6, <1>7, <1>8, <1>9, NoErrors DEF Proceed

\* A stream runs from its first step to its release.
LEMMA RunningKept ==
  ASSUME PostgresAnswers, "cancel" \notin Faults, "close" \notin Faults,
         PathInv, NEW r \in Requests,
         Admitted(r) \/ Refused(r) \/ RefusedWithSlot(r) \/ Proceed(r) \/ Disconnect(r)
  PROVE  \/ BeginStream(r) /\ r \notin Running /\ Running' = Running \cup {r}
         \/ Release(r) /\ Kind[r] = "stream" /\ r \in Running /\ Running' = Running \ {r}
         \/ Running' = Running /\ streams' = streams
<1> USE DEF PathInv, Path, StageInv, PlaceInv, Types, Goto, Running
<1>1. CASE Admitted(r) \/ Refused(r) \/ RefusedWithSlot(r) \/ Disconnect(r)
  BY <1>1 DEF Admitted, Refused, RefusedWithSlot, Turned, Disconnect
<1>2. CASE StartAudit(r)
  BY <1>2 DEF StartAudit
<1>3. CASE StartAuditFails(r)
  BY <1>3, NoErrors DEF StartAuditFails
<1>4. CASE Answered(r) \/ CloseIterators(r)
  BY <1>4 DEF Answered, CloseIterators
<1>5. CASE BeginStream(r)
  BY <1>5 DEF BeginStream
<1>6. CASE StreamEnds(r) \/ StreamFails(r) \/ NoticeGone(r)
  BY <1>6 DEF StreamEnds, StreamFails, NoticeGone, AfterLoop
<1>7. CASE Settle(r)
  <2>1. r \in audited
    BY <1>7 DEF Settle, Stage, Opened
  <2>2. QED
    BY <1>7, <2>1 DEF Settle
<1>8. CASE CloseAudit(r)
  BY <1>8 DEF CloseAudit
<1>9. CASE MarkSucceeded(r) \/ MarkFailed(r)
  BY <1>9 DEF MarkSucceeded, MarkFailed
<1>10. CASE Release(r)
  BY <1>10 DEF Release, CountsStream
<1>11. ~CancelStream(r) /\ ~CancelForGood(r) /\ ~CloseIteratorsFails(r)
  BY DEF CancelStream, CancelForGood, CloseIteratorsFails
<1>12. QED
  BY <1>1, <1>2, <1>3, <1>4, <1>5, <1>6, <1>7, <1>8, <1>9, <1>10, <1>11, NoErrors DEF Proceed

ExactInv == PathInv /\ streams = Cardinality(Running)

\* Every step keeps the gauge exact.
LEMMA NextExact ==
  ASSUME PostgresAnswers, "cancel" \notin Faults, "close" \notin Faults, ExactInv, [Next]_vars
  PROVE  ExactInv'
<1>1. StageInv' /\ IsFiniteSet(Running)
  BY NextStages, RunningFinite DEF ExactInv, PathInv
<1>2. CASE UNCHANGED vars \/ Idle
  BY <1>1, <1>2 DEF ExactInv, PathInv, Path, Running, Idle, vars
<1>3. ASSUME NEW r \in Requests,
             Admitted(r) \/ Refused(r) \/ RefusedWithSlot(r) \/ Proceed(r) \/ Disconnect(r)
      PROVE  ExactInv'
  <2>1. PathInv'
    BY <1>1, <1>3, PathKept DEF ExactInv, PathInv
  <2>2. CASE BeginStream(r) /\ r \notin Running /\ Running' = Running \cup {r}
    BY <1>1, <2>1, <2>2, FS_AddElement DEF ExactInv, BeginStream, StreamStarted
  <2>3. CASE Release(r) /\ Kind[r] = "stream" /\ r \in Running /\ Running' = Running \ {r}
    BY <1>1, <2>1, <2>3, FS_RemoveElement DEF ExactInv, Release, CountsStream
  <2>4. CASE Running' = Running /\ streams' = streams
    BY <2>1, <2>4 DEF ExactInv
  <2>5. QED
    BY <1>3, <2>2, <2>3, <2>4, RunningKept DEF ExactInv
<1>4. ASSUME NEW kinds \in {{"plain", "stream"}, {"batch"}}, Crash(kinds)
      PROVE  ExactInv'
  <2>1. PathInv'
    BY <1>1, <1>4 DEF ExactInv, PathInv, Path, StageInv, PlaceInv, Types, Crash
  <2>2. CASE "stream" \in kinds
    <3>1. Running' = {} /\ streams' = 0
      BY <1>4, <2>2 DEF ExactInv, PathInv, StageInv, PlaceInv, Types, Running, Crash
    <3>2. QED
      BY <2>1, <3>1, FS_EmptySet DEF ExactInv
  <2>3. CASE "stream" \notin kinds
    <3>1. Running' = Running /\ streams' = streams
      BY <1>4, <2>3 DEF ExactInv, PathInv, StageInv, PlaceInv, Types, Running, Crash
    <3>2. QED
      BY <2>1, <3>1 DEF ExactInv
  <2>4. QED
    BY <2>2, <2>3
<1>5. QED
  BY <1>2, <1>3, <1>4 DEF Next

\* The gauge of active streams counts the generators that have started and not ended,
\* whatever Redis does and however often the API is restarted
\* (chat_completions.py:218), as long as Postgres answers, the upstream closes and no
\* stream is cancelled.
THEOREM Gauge ==
  ASSUME PostgresAnswers, "cancel" \notin Faults, "close" \notin Faults
  PROVE  Spec => []GaugeExact
<1>1. Init => ExactInv
  <2> SUFFICES ASSUME Init PROVE ExactInv
    OBVIOUS
  <2>1. StageInv
    BY InitPlaceInv DEF Init, StageInv, Stage, Opened, Calling
  <2>2. Running = {} /\ streams = 0 /\ \A r \in Requests : Path(r)
    BY DEF Init, Running, Path
  <2>3. QED
    BY <2>1, <2>2, FS_EmptySet DEF ExactInv, PathInv
<1>2. ExactInv => GaugeExact
  BY DEF ExactInv, GaugeExact, Running
<1>3. ExactInv /\ [Next]_vars => ExactInv'
  BY NextExact
<1>4. QED
  BY <1>1, <1>2, <1>3, PTL DEF Spec

(***************************************************************************)
(* Every request is accounted for, as long as nothing fails                *)
(***************************************************************************)
\* The tokens that go with an outcome.
Settled(r, status) == tokens[r] = IF status = "failed" THEN "returned" ELSE "charged"

\* A request that has opened its row and left, as EveryRequestAccounted has it.
Accounted(r) ==
  /\ row[r] \in Final /\ Settled(r, row[r])
  /\ IF Kind[r] = "batch"
     THEN (job[r] = "succeeded") <=> (row[r] = "completed")
     ELSE usage[r] = <<row[r]>> /\ event[r] = row[r]

\* What has been recorded of a request at each place.
Story(r) ==
  /\ pc[r] \in {"new", "start"} => r \notin audited
  /\ pc[r] \in {"new", "start", "created", "settle"} \cup Calling =>
       usage[r] = <<>> /\ job[r] = "running"
  /\ pc[r] = "settle" => tokens[r] = "reserved"
  /\ pc[r] = "close" => /\ Settled(r, outcome[r]) /\ job[r] = "running"
                        /\ Kind[r] # "batch" => usage[r] = <<outcome[r]>>
  /\ pc[r] \in {"markSucceeded", "markFailed"} => Kind[r] = "batch" /\ job[r] = "running"
  /\ pc[r] = "markSucceeded" => row[r] = "completed" /\ tokens[r] = "charged"
  /\ pc[r] = "markFailed" /\ r \in audited =>
       row[r] \in Final \ {"completed"} /\ Settled(r, row[r])
  /\ pc[r] \in {"release", "done"} /\ r \in audited => Accounted(r)

StoryInv == StageInv /\ \A r \in Requests : Story(r)

\* What a step of one request leaves alone of the others.
StoryKept(r) ==
  \A q \in Requests \ {r} :
    /\ pc'[q] = pc[q] /\ row'[q] = row[q] /\ tokens'[q] = tokens[q]
    /\ outcome'[q] = outcome[q] /\ usage'[q] = usage[q] /\ event'[q] = event[q]
    /\ job'[q] = job[q] /\ (q \in audited' <=> q \in audited)

\* The steps up to the end of the call keep the story.
LEMMA StoryBefore ==
  ASSUME Faults = {}, StoryInv, NEW r \in Requests,
         \/ Admitted(r) \/ Refused(r) \/ RefusedWithSlot(r) \/ StartAudit(r) \/ StartAuditFails(r) \/ Disconnect(r)
         \/ Answered(r) \/ BeginStream(r) \/ StreamEnds(r) \/ StreamFails(r) \/ NoticeGone(r)
         \/ CancelStream(r) \/ CloseIterators(r) \/ CloseIteratorsFails(r)
  PROVE  Story(r)' /\ StoryKept(r)
<1> USE DEF StoryInv, StageInv, PlaceInv, Types, Story, StoryKept, Goto, AfterLoop, Calling
<1>1. CASE Admitted(r)
  BY <1>1 DEF Admitted
<1>2. CASE Refused(r) \/ RefusedWithSlot(r) \/ Disconnect(r)
  BY <1>2 DEF Refused, RefusedWithSlot, Turned, Disconnect, Accounted, Settled
<1>3. CASE StartAudit(r)
  <2>1. /\ pc[r] = "start" /\ row' = [row EXCEPT ![r] = "accepted"]
        /\ audited' = audited \cup {r} /\ UNCHANGED <<tokens, outcome, usage, event, job>>
    BY <1>3 DEF StartAudit
  <2>2. \E place \in {"created", "call"} : pc' = [pc EXCEPT ![r] = place]
    BY <1>3 DEF StartAudit
  <2>3. QED
    BY <2>1, <2>2
<1>4. CASE StartAuditFails(r)
  <2>1. /\ pc[r] = "start" /\ pc' = [pc EXCEPT ![r] = "done"]
        /\ UNCHANGED <<tokens, row, audited, outcome, usage, event, job>>
    BY <1>4, NoErrors DEF StartAuditFails, PostgresAnswers
  <2>2. QED
    BY <2>1
<1>5. CASE Answered(r)
  <2>1. /\ pc[r] = "call" /\ pc' = [pc EXCEPT ![r] = "settle"] /\ tokens[r] = "reserved"
        /\ UNCHANGED <<tokens, row, audited, usage, event, job>>
    BY <1>5 DEF Answered, Place
  <2>2. \E o \in Final : outcome' = [outcome EXCEPT ![r] = o]
    BY <1>5 DEF Answered, Final
  <2>3. QED
    BY <2>1, <2>2
<1>6. CASE BeginStream(r)
  BY <1>6 DEF BeginStream
<1>7. CASE StreamEnds(r) \/ CancelStream(r)
  BY <1>7 DEF StreamEnds, CancelStream
<1>8. CASE StreamFails(r) \/ NoticeGone(r)
  <2>1. /\ pc[r] = "streaming" /\ pc' = [pc EXCEPT ![r] = "unwind"]
        /\ UNCHANGED <<tokens, row, audited, usage, event, job>>
    BY <1>8 DEF StreamFails, NoticeGone
  <2>2. \E o \in Final : outcome' = [outcome EXCEPT ![r] = o]
    BY <1>8 DEF StreamFails, NoticeGone, Final
  <2>3. QED
    BY <2>1, <2>2
<1>9. CASE CloseIterators(r) \/ CloseIteratorsFails(r)
  BY <1>9 DEF CloseIterators, CloseIteratorsFails, Cut, Place
<1>10. QED
  BY <1>1, <1>2, <1>3, <1>4, <1>5, <1>6, <1>7, <1>8, <1>9

\* Settling charges or returns the reservation as the outcome says.
LEMMA SettledAsTold ==
  ASSUME Faults = {}, StoryInv, NEW r \in Requests, Settle(r)
  PROVE  tokens' = [tokens EXCEPT ![r] = IF outcome[r] = "failed" THEN "returned" ELSE "charged"]
<1>1. PICK runs \in RedisRuns :
        tokens' = [tokens EXCEPT ![r] =
          IF @ # "reserved" THEN @ ELSE IF runs /\ ReleaseAll(r) THEN "returned" ELSE "charged"]
  BY DEF Settle, FinalizeTokens
<1>2. runs = TRUE
  BY DEF RedisRuns
<1>3. tokens[r] = "reserved" /\ tokens \in [Requests -> {"none", "reserved", "charged", "returned"}]
  BY DEF StoryInv, StageInv, PlaceInv, Types, Story, Settle
<1>4. QED
  BY <1>1, <1>2, <1>3 DEF ReleaseAll

\* The steps that close it tell it as it went.
LEMMA StoryAfter ==
  ASSUME Faults = {}, StoryInv, NEW r \in Requests,
         \/ Settle(r) \/ CloseAudit(r) \/ MarkSucceeded(r) \/ MarkFailed(r) \/ Release(r)
  PROVE  Story(r)' /\ StoryKept(r)
<1>0. Settle(r) =>
        tokens' = [tokens EXCEPT ![r] = IF outcome[r] = "failed" THEN "returned" ELSE "charged"]
  BY SettledAsTold
<1> USE DEF StoryInv, StageInv, PlaceInv, Types, Story, StoryKept, Goto, Calling
<1>1. CASE Settle(r)
  <2>1. pc[r] = "settle" /\ r \in audited /\ outcome[r] \in Final /\ tokens[r] = "reserved"
    BY <1>1 DEF Settle, Stage, Opened, Place
  <2>2. /\ pc' = [pc EXCEPT ![r] = "close"]
        /\ UNCHANGED <<row, audited, outcome, event, job>>
        /\ usage' = IF Kind[r] = "batch" THEN usage ELSE [usage EXCEPT ![r] = Append(@, outcome[r])]
    BY <1>1, <2>1 DEF Settle, RecordUsage
  <2>3. tokens' = [tokens EXCEPT ![r] = IF outcome[r] = "failed" THEN "returned" ELSE "charged"]
    BY <1>0, <1>1
  <2>4. usage[r] = <<>> /\ job[r] = "running"
    BY <2>1
  <2>5. Kind[r] # "batch" => usage'[r] = <<outcome[r]>>
    <3>1. \A o \in Final : Append(<<>>, o) = <<o>>
      OBVIOUS
    <3>2. Kind[r] # "batch" => usage'[r] = Append(<<>>, outcome[r])
      BY <2>2, <2>4
    <3>3. QED
      BY <2>1, <3>1, <3>2
  <2>6. \A q \in Requests \ {r} : usage'[q] = usage[q]
    BY <2>2
  <2>7. Story(r)'
    BY <2>2, <2>3, <2>4, <2>5 DEF Settled
  <2>8. StoryKept(r)
    BY <2>2, <2>3, <2>6
  <2>9. QED
    BY <2>7, <2>8
<1>2. CASE CloseAudit(r)
  <2>1. /\ pc[r] = "close" /\ outcome[r] \in Final /\ r \in audited
        /\ row' = [row EXCEPT ![r] = outcome[r]]
        /\ event' = [event EXCEPT ![r] = IF Kind[r] = "batch" THEN @ ELSE outcome[r]]
        /\ UNCHANGED <<tokens, audited, outcome, usage, job>>
    BY <1>2 DEF CloseAudit, CloseRow, Emit, Place, Stage, Opened
  <2>2. pc' = [pc EXCEPT ![r] = IF Kind[r] # "batch" THEN "release"
                                ELSE IF outcome[r] = "completed" THEN "markSucceeded" ELSE "markFailed"]
    BY <1>2 DEF CloseAudit
  <2>3. StoryKept(r)
    BY <2>1, <2>2
  <2>4. CASE Kind[r] # "batch"
    BY <2>1, <2>2, <2>3, <2>4 DEF Accounted, Settled
  <2>5. CASE Kind[r] = "batch" /\ outcome[r] = "completed"
    BY <2>1, <2>2, <2>3, <2>5 DEF Settled
  <2>6. CASE Kind[r] = "batch" /\ outcome[r] # "completed"
    BY <2>1, <2>2, <2>3, <2>6 DEF Settled, Final
  <2>7. QED
    BY <2>4, <2>5, <2>6
<1>3. CASE MarkSucceeded(r)
  BY <1>3 DEF MarkSucceeded, Accounted, Settled, Final
<1>4. CASE MarkFailed(r)
  <2>1. /\ pc[r] = "markFailed"
        /\ pc' = [pc EXCEPT ![r] = IF tokens[r] = "none" THEN "done" ELSE "release"]
        /\ UNCHANGED <<tokens, row, audited, outcome, usage, event>>
    BY <1>4 DEF MarkFailed
  <2>2. job' = [job EXCEPT ![r] = "failed"]
    BY <1>4 DEF MarkFailed, Outcomes, Ran
  <2>3. QED
    BY <2>1, <2>2 DEF Accounted, Settled
<1>5. CASE Release(r)
  BY <1>5 DEF Release, Accounted, Settled
<1>6. QED
  BY <1>1, <1>2, <1>3, <1>4, <1>5

\* Every step keeps the story.
LEMMA NextStory ==
  ASSUME Faults = {}, StoryInv, [Next]_vars
  PROVE  StoryInv'
<1>1. StageInv'
  BY NextStages DEF StoryInv, PostgresAnswers
<1>2. CASE UNCHANGED vars \/ Idle
  BY <1>1, <1>2 DEF StoryInv, Story, Accounted, Settled, Idle, vars
<1>3. ASSUME NEW r \in Requests,
             Admitted(r) \/ Refused(r) \/ RefusedWithSlot(r) \/ Proceed(r) \/ Disconnect(r)
      PROVE  StoryInv'
  <2>1. ~CancelForGood(r) /\ ~CloseAuditFails(r) /\ ~MarkSucceededFails(r)
    BY DEF CancelForGood, CloseAuditFails, MarkSucceededFails
  <2>2. Story(r)' /\ StoryKept(r)
    BY <1>3, <2>1, StoryBefore, StoryAfter DEF Proceed
  <2>3. ASSUME NEW q \in Requests, q # r
        PROVE  Story(q)'
    BY <2>2, <2>3 DEF StoryInv, StoryKept, Story, Accounted, Settled
  <2>4. QED
    BY <1>1, <2>2, <2>3 DEF StoryInv
<1>4. ~Crash({"plain", "stream"}) /\ ~Crash({"batch"})
  BY DEF Crash
<1>5. QED
  BY <1>2, <1>3, <1>4 DEF Next

\* When nothing fails, a request of any path that has opened its row leaves with one
\* consistent account of itself: row, tokens, usage record, event and job
\* (chat_completions.py, batch_worker.py, usage_finalizer.py).
THEOREM AllAccounted ==
  ASSUME Faults = {}
  PROVE  Spec => []EveryRequestAccounted
<1>1. Init => StoryInv
  BY InitPlaceInv DEF Init, StoryInv, StageInv, Stage, Opened, Story, Calling
<1>2. StoryInv => EveryRequestAccounted
  BY DEF StoryInv, Story, Accounted, Settled, EveryRequestAccounted
<1>3. StoryInv /\ [Next]_vars => StoryInv'
  BY NextStory
<1>4. QED
  BY <1>1, <1>2, <1>3, PTL DEF Spec
=============================================================================
