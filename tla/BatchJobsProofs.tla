-------------------------- MODULE BatchJobsProofs ---------------------------
(***************************************************************************)
(* Theorems about BatchJobs: for every set of jobs, every scan limit, and  *)
(* any number of faults.                                                   *)
(***************************************************************************)
EXTENDS BatchJobs, FiniteSetTheorems, TLAPS

(***************************************************************************)
(* Type correctness                                                        *)
(***************************************************************************)
\* Counting a fault stays within the bound.
LEMMA FaultType ==
  ASSUME NEW kind, Fault(kind), faults \in 0 .. MaxFaults
  PROVE  faults' \in 0 .. MaxFaults
BY BatchAssumption DEF Fault

\* A worker that is not idle has a job.
HasJob == \A w \in Workers : worker[w].at # "idle" => worker[w].job \in Jobs

\* Types, with the jobs of busy workers.
BusyOK == TypeOK /\ HasJob

\* The initial state is well typed.
LEMMA InitBusyOK == Init => BusyOK
BY BatchAssumption DEF Init, BusyOK, TypeOK, HasJob, Statuses, Places

\* Setting a status keeps the type of the rows.
LEMMA RowType ==
  ASSUME TypeOK, NEW j \in Jobs, NEW s \in Statuses, SetStatus(j, s)
  PROVE  row' \in [Jobs -> [status : Statuses, out : SUBSET {"result", "error"}]]
BY DEF TypeOK, SetStatus

\* Recording an outcome keeps the type of the rows.
LEMMA MarkType ==
  ASSUME TypeOK, NEW j \in Jobs, MarkSucceeded(j) \/ MarkFailed(j)
  PROVE  row' \in [Jobs -> [status : Statuses, out : SUBSET {"result", "error"}]]
<1> DEFINE R == [status : Statuses, out : SUBSET {"result", "error"}]
<1>1. row \in [Jobs -> R] /\ row[j].out \in SUBSET {"result", "error"}
  BY DEF TypeOK
<1>2. CASE MarkSucceeded(j)
  <2>1. [status |-> "succeeded", out |-> {"result"}] \in R
    BY DEF Statuses
  <2>2. QED
    BY <1>1, <1>2, <2>1 DEF MarkSucceeded
<1>3. CASE MarkFailed(j)
  <2>1. [status |-> "failed", out |-> row[j].out \cup {"error"}] \in R
    BY <1>1 DEF Statuses
  <2>2. row' = [row EXCEPT ![j] = [status |-> "failed", out |-> row[j].out \cup {"error"}]]
    BY <1>3 DEF MarkFailed
  <2>3. QED
    BY <1>1, <2>1, <2>2
<1>4. QED
  BY <1>2, <1>3

\* Moving on or resting keeps a busy worker's job.
LEMMA WorkerType ==
  ASSUME BusyOK, NEW w \in Workers, NEW place \in Places,
         Rest(w) \/ (Move(w, place) /\ ~At(w, "idle"))
  PROVE  /\ worker' \in [Workers -> [at : Places, job : Jobs \cup {NoJob}]]
         /\ HasJob'
<1> DEFINE W == [at : Places, job : Jobs \cup {NoJob}]
<1>1. worker \in [Workers -> W]
  BY DEF BusyOK, TypeOK
<1>2. CASE Rest(w)
  <2>1. [at |-> "idle", job |-> NoJob] \in W
    BY DEF Places
  <2>2. worker' \in [Workers -> W]
    BY <1>1, <1>2, <2>1 DEF Rest
  <2>3. \A v \in Workers : worker'[v] = IF v = w THEN [at |-> "idle", job |-> NoJob] ELSE worker[v]
    BY <1>1, <1>2 DEF Rest
  <2>4. QED
    BY <2>2, <2>3 DEF HasJob, BusyOK
<1>3. CASE Move(w, place) /\ ~At(w, "idle")
  <2>1. [worker[w] EXCEPT !.at = place] \in W /\ [worker[w] EXCEPT !.at = place].job = worker[w].job
    BY <1>1
  <2>2. worker' = [worker EXCEPT ![w] = [worker[w] EXCEPT !.at = place]]
    BY <1>1, <1>3 DEF Move
  <2>3. QED
    BY <1>1, <1>3, <2>1, <2>2 DEF HasJob, BusyOK, At
<1>4. QED
  BY <1>2, <1>3

\* A step of the API keeps the types.
LEMMA ApiBusyOK ==
  ASSUME BusyOK, NEW j \in Jobs, Submit(j) \/ Cancel(j)
  PROVE  BusyOK'
<1> USE DEF BusyOK, TypeOK, HasJob, store, api, scanner
<1>1. CASE SubmitCreate(j)
  <2>1. Cardinality({i \in Jobs : created[i] # 0}) \in Nat
    <3>1. {i \in Jobs : created[i] # 0} \in SUBSET Jobs
      OBVIOUS
    <3>2. QED
      BY <3>1, BatchAssumption, FS_Subset, FS_CardinalityType
  <2>2. row' \in [Jobs -> [status : Statuses, out : SUBSET {"result", "error"}]]
    BY <1>1, RowType DEF SubmitCreate, Statuses
  <2>3. created' \in [Jobs -> Nat]
    BY <1>1, <2>1 DEF SubmitCreate
  <2>4. QED
    BY <1>1, <2>2, <2>3 DEF SubmitCreate
<1>2. CASE SubmitEnqueue(j)
  BY <1>2 DEF SubmitEnqueue
<1>3. CASE SubmitLosesEntry(j)
  BY <1>3, FaultType DEF SubmitLosesEntry
<1>4. CASE CancelRead(j)
  BY <1>4 DEF CancelRead
<1>5. CASE CancelWrite(j)
  BY <1>5, RowType DEF CancelWrite, Statuses
<1>6. CASE CancelFails(j)
  BY <1>6, FaultType DEF CancelFails
<1>7. QED
  BY <1>1, <1>2, <1>3, <1>4, <1>5, <1>6 DEF Submit, Cancel

\* A step of process_one keeps the types.
LEMMA WorkerBusyOK ==
  ASSUME BusyOK, NEW w \in Workers, ProcessOne(w) \/ WorkerCrash(w)
  PROVE  BusyOK'
<1> USE DEF store, api, scanner
<1> DEFINE JobOK == Job(w) \in Jobs
<1>0. /\ ~At(w, "idle") => JobOK
      /\ Places = {"idle", "got", "claimRead", "claimWrite", "work",
                   "okRead", "okWrite", "failRead", "failWrite"}
  BY DEF BusyOK, HasJob, At, Job, Places
<1>1. CASE Dequeue(w)
  <2>1. Head(queue) \in Jobs /\ Tail(queue) \in Seq(Jobs)
    BY <1>1 DEF Dequeue, BusyOK, TypeOK
  <2>2. QED
    BY <1>1, <2>1 DEF Dequeue, BusyOK, TypeOK, HasJob, Places
<1>2. CASE GetJob(w)
  BY <1>0, <1>2, WorkerType DEF GetJob, BusyOK, TypeOK, At
<1>3. CASE ClaimRead(w)
  BY <1>0, <1>3, WorkerType DEF ClaimRead, BusyOK, TypeOK, At
<1>4. CASE ClaimWrite(w)
  <2>1. JobOK /\ Move(w, "work") /\ ~At(w, "idle") /\ SetStatus(Job(w), "running")
    BY <1>0, <1>4 DEF ClaimWrite, At
  <2>2. row' \in [Jobs -> [status : Statuses, out : SUBSET {"result", "error"}]]
    BY <2>1, RowType DEF BusyOK, Statuses
  <2>3. claims' \in [Jobs -> Nat]
    BY <1>4, <2>1 DEF ClaimWrite, BusyOK, TypeOK
  <2>4. QED
    BY <1>0, <1>4, <2>1, <2>2, <2>3, WorkerType DEF ClaimWrite, BusyOK, TypeOK
<1>5. CASE Work(w)
  BY <1>0, <1>5, WorkerType DEF Work, BusyOK, TypeOK, At
<1>6. CASE MarkRead(w, "okRead", "okWrite") \/ MarkRead(w, "failRead", "failWrite")
  BY <1>0, <1>6, WorkerType DEF MarkRead, BusyOK, TypeOK, At
<1>7. CASE SucceedWrite(w)
  <2>1. row' \in [Jobs -> [status : Statuses, out : SUBSET {"result", "error"}]]
    BY <1>0, <1>7, MarkType DEF SucceedWrite, BusyOK, At
  <2>2. QED
    BY <1>0, <1>7, <2>1, WorkerType DEF SucceedWrite, BusyOK, TypeOK
<1>8. CASE SucceedFails(w)
  <2>1. ~At(w, "idle") /\ Move(w, "failRead")
    BY <1>8 DEF SucceedFails, At
  <2>2. row' \in [Jobs -> [status : Statuses, out : SUBSET {"result", "error"}]]
    BY <1>0, <1>8, <2>1, MarkType DEF SucceedFails, BusyOK, TypeOK
  <2>3. faults' \in 0 .. MaxFaults
    BY <1>8, FaultType DEF SucceedFails, BusyOK, TypeOK
  <2>4. QED
    BY <1>0, <1>8, <2>1, <2>2, <2>3, WorkerType DEF SucceedFails, BusyOK, TypeOK
<1>9. CASE FailWrite(w)
  <2>1. row' \in [Jobs -> [status : Statuses, out : SUBSET {"result", "error"}]]
    BY <1>0, <1>9, MarkType DEF FailWrite, BusyOK, At
  <2>2. QED
    BY <1>0, <1>9, <2>1, WorkerType DEF FailWrite, BusyOK, TypeOK
<1>10. CASE WorkerCrash(w)
  BY <1>0, <1>10, FaultType, WorkerType DEF WorkerCrash, BusyOK, TypeOK
<1>11. QED
  BY <1>1, <1>2, <1>3, <1>4, <1>5, <1>6, <1>7, <1>8, <1>9, <1>10 DEF ProcessOne

\* A step of the scanner, or a restart of Redis, keeps the types.
LEMMA ScannerBusyOK ==
  ASSUME BusyOK, Scan \/ ScannerCrash \/ RedisRestart
  PROVE  BusyOK'
<1> USE DEF BusyOK, TypeOK, HasJob, store, api, scanner
<1>1. CASE ScanList
  BY <1>1 DEF ScanList, Recoverable
<1>2. CASE ScanCheck
  BY <1>2 DEF ScanCheck
<1>3. CASE ScanPush
  BY <1>3 DEF ScanPush
<1>4. CASE ScannerCrash
  BY <1>4, FaultType DEF ScannerCrash
<1>5. CASE RedisRestart
  BY <1>5, FaultType DEF RedisRestart
<1>6. QED
  BY <1>1, <1>2, <1>3, <1>4, <1>5 DEF Scan

\* Every step keeps the types.
LEMMA NextBusyOK == BusyOK /\ [Next]_vars => BusyOK'
<1> SUFFICES ASSUME BusyOK, [Next]_vars PROVE BusyOK'
  OBVIOUS
<1>1. CASE UNCHANGED vars
  BY <1>1 DEF BusyOK, TypeOK, HasJob, vars
<1>2. QED
  BY <1>1, ApiBusyOK, WorkerBusyOK, ScannerBusyOK DEF Next

\* The rows, the queue, the workers and the scanner keep their types; a worker
\* that is busy always has a job whose row it can look up.
THEOREM TypeCorrect == Spec => []TypeOK
<1>1. BusyOK => TypeOK
  BY DEF BusyOK
<1>2. QED
  BY <1>1, InitBusyOK, NextBusyOK, PTL DEF Spec

(***************************************************************************)
(* What a step does to the statuses                                        *)
(***************************************************************************)
\* Setting a status changes that status and no other.
LEMMA StatusSet ==
  ASSUME TypeOK, NEW j \in Jobs, NEW s, SetStatus(j, s), NEW k \in Jobs
  PROVE  row'[k].status = IF k = j THEN s ELSE row[k].status
BY DEF TypeOK, SetStatus

\* Recording an outcome changes the status of that job and no other.
LEMMA StatusMarked ==
  ASSUME TypeOK, NEW j \in Jobs, MarkSucceeded(j) \/ MarkFailed(j), NEW k \in Jobs
  PROVE  row'[k].status = IF k # j THEN row[k].status
                          ELSE IF MarkSucceeded(j) THEN "succeeded" ELSE "failed"
<1>1. CASE MarkSucceeded(j)
  BY <1>1 DEF TypeOK, MarkSucceeded
<1>2. CASE MarkFailed(j) /\ ~MarkSucceeded(j)
  BY <1>2 DEF TypeOK, MarkFailed
<1>3. QED
  BY <1>1, <1>2

\* Where a worker is after it moved on or rested.
LEMMA WorkerMoved ==
  ASSUME TypeOK, NEW w \in Workers, NEW place, Rest(w) \/ Move(w, place), NEW v \in Workers
  PROVE  /\ v # w => worker'[v] = worker[v]
         /\ v = w => \/ worker'[v].at = "idle" /\ Rest(w)
                     \/ worker'[v].at = place /\ worker'[v].job = worker[v].job
<1>1. CASE Rest(w)
  BY <1>1 DEF TypeOK, Rest
<1>2. CASE Move(w, place)
  BY <1>2 DEF TypeOK, Move
<1>3. QED
  BY <1>1, <1>2

(***************************************************************************)
(* One claim                                                               *)
(***************************************************************************)
\* supervisord runs one batch worker.
OneWorker == \A v, w \in Workers : v = w

\* The inductive invariant: an unclaimed job is one that is still queued, or one
\* that its worker found queued and is about to claim.
OnceInv ==
  /\ BusyOK
  /\ \A j \in Jobs : row[j].status \in {"none", "queued"} => claims[j] = 0
  /\ \A w \in Workers : At(w, "claimWrite") => claims[Job(w)] = 0
  /\ ClaimedAtMostOnce

\* Steps of the API keep the invariant: none of them queues a job again.
LEMMA ApiOnce ==
  ASSUME OnceInv, BusyOK', NEW j \in Jobs, Submit(j) \/ Cancel(j)
  PROVE  OnceInv'
<1>0. worker' = worker /\ claims' = claims
  BY DEF Submit, SubmitCreate, SubmitEnqueue, SubmitLosesEntry, Cancel, CancelRead, CancelWrite,
     CancelFails, scanner
<1>1. \A k \in Jobs : \/ row'[k].status = row[k].status
                      \/ row'[k].status = "cancelled"
                      \/ row[k].status = "none"
  <2>1. CASE SubmitCreate(j)
    BY <2>1, StatusSet DEF SubmitCreate, OnceInv, BusyOK
  <2>2. CASE CancelWrite(j)
    BY <2>2, StatusSet DEF CancelWrite, OnceInv, BusyOK
  <2>3. CASE row' = row
    BY <2>3
  <2>4. QED
    BY <2>1, <2>2, <2>3 DEF Submit, SubmitEnqueue, SubmitLosesEntry, Cancel, CancelRead,
       CancelFails, store
<1>2. QED
  BY <1>0, <1>1 DEF OnceInv, ClaimedAtMostOnce, At, Job

\* The claim: the worker's job was unclaimed, and no other worker is at its claim.
LEMMA ClaimOnce ==
  ASSUME OnceInv, BusyOK', OneWorker, NEW w \in Workers, ClaimWrite(w)
  PROVE  OnceInv'
<1>1. Job(w) \in Jobs /\ claims[Job(w)] = 0
  BY DEF ClaimWrite, OnceInv, BusyOK, HasJob, At, Job
<1>2. \A k \in Jobs : claims'[k] = IF k = Job(w) THEN claims[k] + 1 ELSE claims[k]
  BY <1>1 DEF ClaimWrite, OnceInv, BusyOK, TypeOK
<1>3. \A k \in Jobs : row'[k].status = IF k = Job(w) THEN "running" ELSE row[k].status
  BY <1>1, StatusSet DEF ClaimWrite, OnceInv, BusyOK
<1>4. \A v \in Workers : v = w /\ ~(worker'[v].at = "claimWrite")
  BY WorkerMoved DEF ClaimWrite, OneWorker, OnceInv, BusyOK, Rest, Move, TypeOK
<1>5. QED
  BY <1>1, <1>2, <1>3, <1>4 DEF OnceInv, ClaimedAtMostOnce, At

\* The other steps of the worker queue nothing and claim nothing.
LEMMA WorkerOnce ==
  ASSUME OnceInv, BusyOK', OneWorker, NEW w \in Workers,
         ProcessOne(w) \/ WorkerCrash(w), ~ClaimWrite(w)
  PROVE  OnceInv'
<1>0. claims' = claims
  BY DEF ProcessOne, WorkerCrash, Dequeue, GetJob, ClaimRead, Work, MarkRead, SucceedWrite,
     SucceedFails, FailWrite
<1>1. \A k \in Jobs : row'[k].status \in {row[k].status, "succeeded", "failed"}
  <2>1. CASE SucceedWrite(w) \/ SucceedFails(w) \/ FailWrite(w)
    <3>1. Job(w) \in Jobs
      BY <2>1 DEF SucceedWrite, SucceedFails, FailWrite, OnceInv, BusyOK, HasJob, At, Job
    <3>2. MarkSucceeded(Job(w)) \/ MarkFailed(Job(w)) \/ row' = row
      BY <2>1 DEF SucceedWrite, SucceedFails, FailWrite
    <3>3. QED
      BY <3>1, <3>2, StatusMarked DEF OnceInv, BusyOK
  <2>2. CASE row' = row
    BY <2>2
  <2>3. QED
    BY <2>1, <2>2 DEF ProcessOne, WorkerCrash, Dequeue, GetJob, ClaimRead, Work, MarkRead, store
<1>2. At(w, "claimWrite")' => claims[Job(w)'] = 0
  <2>1. CASE ClaimRead(w)
    <3>1. CASE Rest(w)
      BY <3>1 DEF Rest, At, OnceInv, BusyOK, TypeOK
    <3>2. CASE Move(w, "claimWrite") /\ row[Job(w)].status = "queued"
      <4>1. Job(w)' = Job(w) /\ Job(w) \in Jobs
        BY <2>1, <3>2 DEF ClaimRead, Move, OnceInv, BusyOK, HasJob, TypeOK, At, Job
      <4>2. QED
        BY <3>2, <4>1 DEF OnceInv
    <3>3. QED
      BY <2>1, <3>1, <3>2 DEF ClaimRead, CanTransition
  <2>2. CASE ~ClaimRead(w)
    <3>1. worker \in [Workers -> [at : Places, job : Jobs \cup {NoJob}]]
      BY DEF OnceInv, BusyOK, TypeOK
    <3>2. Rest(w) \/ Dequeue(w) => ~At(w, "claimWrite")'
      BY <3>1 DEF Rest, Dequeue, At
    <3>3. ASSUME NEW place, Move(w, place), place # "claimWrite" PROVE ~At(w, "claimWrite")'
      BY <3>1, <3>3 DEF Move, At
    <3>4. Rest(w) \/ Dequeue(w) \/ \E place : place # "claimWrite" /\ Move(w, place)
      BY <2>2 DEF ProcessOne, WorkerCrash, GetJob, Work, MarkRead, SucceedWrite, SucceedFails,
         FailWrite
    <3>5. QED
      BY <3>2, <3>3, <3>4
  <2>3. QED
    BY <2>1, <2>2
<1>3. QED
  BY <1>0, <1>1, <1>2 DEF OnceInv, OneWorker, ClaimedAtMostOnce

\* Every step keeps the invariant.
LEMMA NextOnce == ASSUME OneWorker PROVE OnceInv /\ [Next]_vars => OnceInv'
<1> SUFFICES ASSUME OnceInv, [Next]_vars PROVE OnceInv'
  OBVIOUS
<1>0. BusyOK'
  BY NextBusyOK DEF OnceInv
<1>1. ASSUME NEW j \in Jobs, Submit(j) \/ Cancel(j) PROVE OnceInv'
  BY <1>0, <1>1, ApiOnce
<1>2. ASSUME NEW w \in Workers, ProcessOne(w) \/ WorkerCrash(w) PROVE OnceInv'
  BY <1>0, <1>2, ClaimOnce, WorkerOnce
<1>3. CASE Scan \/ ScannerCrash \/ RedisRestart \/ UNCHANGED vars
  <2>1. row' = row /\ worker' = worker /\ claims' = claims
    BY <1>3 DEF Scan, ScanList, ScanCheck, ScanPush, ScannerCrash, RedisRestart, store, vars
  <2>2. QED
    BY <1>0, <2>1 DEF OnceInv, ClaimedAtMostOnce, At, Job
<1>4. QED
  BY <1>1, <1>2, <1>3 DEF Next

\* The invariant holds initially.
LEMMA InitOnce == Init => OnceInv
<1> SUFFICES ASSUME Init PROVE OnceInv
  OBVIOUS
<1>1. BusyOK
  BY InitBusyOK
<1>2. QED
  BY <1>1 DEF Init, OnceInv, ClaimedAtMostOnce, At

\* With one worker, no job reaches the GPU twice, however many faults of any kind
\* there are and however often its entry is duplicated, lost and pushed again.
THEOREM OneClaim == ASSUME OneWorker PROVE Spec => []ClaimedAtMostOnce
<1>1. OnceInv => ClaimedAtMostOnce
  BY DEF OnceInv
<1>2. OnceInv /\ [Next]_vars => OnceInv'
  BY NextOnce
<1>3. QED
  BY <1>1, <1>2, InitOnce, PTL DEF Spec

(***************************************************************************)
(* The lifecycle                                                           *)
(***************************************************************************)
\* What JobLifecycle's decided stands for.
Pending == (cancel \X {"cancelled"}) \cup UNION {Decision(w) : w \in Workers}

\* The inductive invariant: a job at work is running, or was cancelled under the
\* worker's hands, or its success is already in its row.
LifeInv ==
  /\ BusyOK
  /\ \A w \in Workers :
       /\ worker[w].at \in {"work", "okRead", "okWrite"} =>
            row[Job(w)].status \in {"running", "cancelled"}
       /\ worker[w].at \in {"failRead", "failWrite"} =>
            row[Job(w)].status \in {"running", "cancelled", "succeeded"}

\* What is pending: the cancellations and the decisions of the workers.
LEMMA PendingIs ==
  ASSUME NEW d
  PROVE  /\ d \in Pending <=> \/ \E j \in cancel : d = <<j, "cancelled">>
                              \/ \E w \in Workers : d \in Decision(w)
         /\ d \in Pending' <=> \/ \E j \in cancel' : d = <<j, "cancelled">>
                               \/ \E w \in Workers : d \in Decision(w)'
BY DEF Pending

\* Every decision of a worker is about its job, and none is to cancel it.
LEMMA DecisionIs ==
  ASSUME NEW w \in Workers
  PROVE  Decision(w) \subseteq {<<Job(w), t>> : t \in {"running", "succeeded", "failed"}}
BY DEF Decision, At

\* A step that changes no status and adds no decision drops some, or stutters.
LEMMA StepDrops ==
  ASSUME row' = row, cancel' \subseteq cancel,
         \A w \in Workers : Decision(w)' \subseteq Decision(w)
  PROVE  Lifecycle!Next
<1>1. Pending' \subseteq Pending
  BY PendingIs
<1>2. Lifecycle!Drop
  BY <1>1 DEF Lifecycle!Drop, Pending
<1>3. QED
  BY <1>2 DEF Lifecycle!Next

\* A worker that decides on an allowed transition takes a step of the lifecycle.
LEMMA StepDecides ==
  ASSUME OneWorker, NEW w \in Workers, NEW j \in Jobs,
         NEW t \in Lifecycle!AllowedTransitions[row[j].status],
         row' = row, cancel' = cancel, Decision(w) = {}, Decision(w)' = {<<j, t>>}
  PROVE  Lifecycle!Next
<1>1. Pending' = Pending \cup {<<j, t>>}
  <2>1. ASSUME NEW d PROVE d \in Pending' <=> d \in Pending \/ d = <<j, t>>
    BY PendingIs DEF OneWorker
  <2>2. QED
    BY <2>1
<1>2. Lifecycle!Decide(j)
  BY <1>1 DEF Lifecycle!Decide, Pending
<1>3. QED
  BY <1>2 DEF Lifecycle!Next

\* A worker that writes what it has decided takes a step of the lifecycle.
LEMMA StepWrites ==
  ASSUME OneWorker, NEW w \in Workers, NEW j \in Jobs,
         NEW t \in {"running", "succeeded", "failed"}, cancel' = cancel,
         \A k \in Jobs : row'[k].status = IF k = j THEN t ELSE row[k].status,
         Decision(w) = {<<j, t>>}, Decision(w)' \subseteq Lifecycle!InDoubt(j, t)
  PROVE  Lifecycle!Next
<1>1. <<j, t>> \in Pending
  BY PendingIs
<1>2. Pending' \subseteq (Pending \ {<<j, t>>}) \cup Lifecycle!InDoubt(j, t)
  <2>1. ASSUME NEW d \in Pending'
        PROVE  d \in (Pending \ {<<j, t>>}) \cup Lifecycle!InDoubt(j, t)
    BY <2>1, PendingIs DEF OneWorker
  <2>2. QED
    BY <2>1
<1>3. [k \in Jobs |-> row[k].status]' = [[k \in Jobs |-> row[k].status] EXCEPT ![j] = t]
  OBVIOUS
<1>4. t \in Lifecycle!Statuses
  BY DEF Lifecycle!Statuses
<1>5. Lifecycle!Write(j)
  BY <1>1, <1>2, <1>3, <1>4 DEF Lifecycle!Write, Pending
<1>6. QED
  BY <1>5 DEF Lifecycle!Next

\* A submission is a step of the lifecycle.
LEMMA SubmitLife ==
  ASSUME LifeInv, BusyOK', NEW j \in Jobs, Submit(j)
  PROVE  LifeInv' /\ Lifecycle!Next
<1>1. CASE SubmitCreate(j)
  <2>1. \A k \in Jobs : row'[k].status = IF k = j THEN "queued" ELSE row[k].status
    BY <1>1, StatusSet DEF SubmitCreate, LifeInv, BusyOK
  <2>2. row[j].status = "none" /\ worker' = worker /\ cancel' = cancel
    BY <1>1 DEF SubmitCreate
  <2>3. ASSUME NEW w \in Workers PROVE Decision(w)' = Decision(w)
    <3>1. worker[w].at = "failRead" => worker[w].job \in Jobs /\ worker[w].job # j
      BY <2>2 DEF LifeInv, BusyOK, HasJob, Job
    <3>2. QED
      BY <2>1, <2>2, <3>1 DEF Decision, At, Job
  <2>4. Pending' = Pending
    BY <2>2, <2>3 DEF Pending
  <2>5. [k \in Jobs |-> row[k].status]' = [[k \in Jobs |-> row[k].status] EXCEPT ![j] = "queued"]
    BY <2>1
  <2>6. Lifecycle!Create(j)
    BY <2>2, <2>4, <2>5 DEF Lifecycle!Create, Pending
  <2>7. LifeInv'
    BY <2>1, <2>2 DEF LifeInv, BusyOK, HasJob, Job
  <2>8. QED
    BY <2>6, <2>7 DEF Lifecycle!Next
<1>2. CASE SubmitEnqueue(j) \/ SubmitLosesEntry(j)
  <2>1. row' = row /\ worker' = worker /\ cancel' = cancel
    BY <1>2 DEF SubmitEnqueue, SubmitLosesEntry, store
  <2>2. \A w \in Workers : Decision(w)' = Decision(w)
    BY <2>1 DEF Decision, At, Job
  <2>3. QED
    BY <2>1, <2>2, StepDrops DEF LifeInv, Job
<1>3. QED
  BY <1>1, <1>2 DEF Submit

\* A cancellation is decided while the job may be cancelled, and written then or
\* given up.
LEMMA CancelLife ==
  ASSUME LifeInv, BusyOK', NEW j \in Jobs, Cancel(j)
  PROVE  LifeInv' /\ Lifecycle!Next
<1>0. worker' = worker
  BY DEF Cancel, CancelRead, CancelWrite, CancelFails
<1>1. CASE CancelRead(j)
  <2>1. row' = row /\ cancel' = cancel \cup {j}
    BY <1>1 DEF CancelRead, store
  <2>2. \A w \in Workers : Decision(w)' = Decision(w)
    BY <1>0, <2>1 DEF Decision, At, Job
  <2>3. Pending' = Pending \cup {<<j, "cancelled">>}
    <3>1. ASSUME NEW d PROVE d \in Pending' <=> d \in Pending \/ d = <<j, "cancelled">>
      BY <2>1, <2>2, PendingIs
    <3>2. QED
      BY <3>1
  <2>4. "cancelled" \in Lifecycle!AllowedTransitions[row[j].status]
    BY <1>1 DEF CancelRead, CanTransition, Lifecycle!AllowedTransitions, Lifecycle!Statuses
  <2>5. Lifecycle!Decide(j)
    BY <2>1, <2>3, <2>4 DEF Lifecycle!Decide, Pending
  <2>6. QED
    BY <1>0, <2>1, <2>5 DEF Lifecycle!Next, LifeInv, Job
<1>2. CASE CancelWrite(j)
  <2>1. \A k \in Jobs : row'[k].status = IF k = j THEN "cancelled" ELSE row[k].status
    BY <1>2, StatusSet DEF CancelWrite, LifeInv, BusyOK
  <2>2. j \in cancel /\ cancel' = cancel \ {j}
    BY <1>2 DEF CancelWrite
  <2>3. ASSUME NEW w \in Workers
        PROVE  Decision(w)' \subseteq Decision(w) /\ <<j, "cancelled">> \notin Decision(w)
    <3>1. worker[w].at = "failRead" => Job(w) \in Jobs
      BY DEF LifeInv, BusyOK, HasJob, Job
    <3>2. row'[Job(w)].status = "succeeded" /\ Job(w) \in Jobs => row[Job(w)].status = "succeeded"
      BY <2>1
    <3>3. QED
      BY <1>0, <3>1, <3>2, DecisionIs DEF Decision, At, Job
  <2>4. <<j, "cancelled">> \in Pending
    BY <2>2, PendingIs
  <2>5. Pending' \subseteq (Pending \ {<<j, "cancelled">>})
    <3>1. ASSUME NEW d \in Pending' PROVE d \in Pending /\ d # <<j, "cancelled">>
      BY <2>2, <2>3, PendingIs
    <3>2. QED
      BY <3>1
  <2>6. [k \in Jobs |-> row[k].status]' = [[k \in Jobs |-> row[k].status] EXCEPT ![j] = "cancelled"]
    BY <2>1
  <2>7. Lifecycle!Write(j)
    BY <2>4, <2>5, <2>6 DEF Lifecycle!Write, Lifecycle!Statuses, Pending
  <2>8. LifeInv'
    BY <1>0, <2>1 DEF LifeInv, BusyOK, HasJob, Job
  <2>9. QED
    BY <2>7, <2>8 DEF Lifecycle!Next
<1>3. CASE CancelFails(j)
  <2>1. row' = row /\ cancel' \subseteq cancel
    BY <1>3 DEF CancelFails, store
  <2>2. \A w \in Workers : Decision(w)' = Decision(w)
    BY <1>0, <2>1 DEF Decision, At, Job
  <2>3. QED
    BY <1>0, <2>1, <2>2, StepDrops DEF LifeInv, Job
<1>4. QED
  BY <1>1, <1>2, <1>3 DEF Cancel

\* A step of the worker that writes no row and ends with nothing decided.
LEMMA IdleLife ==
  ASSUME LifeInv, BusyOK', OneWorker, NEW w \in Workers, row' = row, cancel' = cancel,
         Decision(w)' = {},
         \/ worker'[w].at \in {"idle", "got", "claimRead"}
         \/ /\ worker'[w].job = worker[w].job
            /\ worker[w].at \in {"work", "okRead", "okWrite"}
            /\ worker'[w].at \in {"okRead", "failRead"}
  PROVE  LifeInv' /\ Lifecycle!Next
<1>1. \A v \in Workers : v = w
  BY DEF OneWorker
<1>2. LifeInv'
  BY <1>1 DEF LifeInv, Job
<1>3. QED
  BY <1>1, <1>2, StepDrops

\* The claim: decided on a queued row, written to it or to a cancelled one.
LEMMA ClaimLife ==
  ASSUME LifeInv, BusyOK', OneWorker, NEW w \in Workers, ClaimRead(w) \/ ClaimWrite(w)
  PROVE  LifeInv' /\ Lifecycle!Next
<1>0. TypeOK /\ Job(w) \in Jobs /\ (\A v \in Workers : v = w) /\ cancel' = cancel
  BY DEF LifeInv, BusyOK, HasJob, ClaimRead, ClaimWrite, At, Job, OneWorker, api
<1>1. CASE ClaimRead(w)
  <2>1. row' = row
    BY <1>1 DEF ClaimRead, store
  <2>2. CASE Rest(w)
    <3>1. worker'[w].at = "idle"
      BY <1>0, <2>2 DEF Rest, TypeOK
    <3>2. Decision(w)' = {}
      BY <3>1 DEF Decision, At
    <3>3. QED
      BY <1>0, <2>1, <3>1, <3>2, IdleLife
  <2>3. CASE Move(w, "claimWrite") /\ row[Job(w)].status = "queued"
    <3>1. worker'[w].at = "claimWrite" /\ worker'[w].job = worker[w].job
      BY <1>0, <2>3 DEF Move, TypeOK
    <3>2. Decision(w) = {} /\ Decision(w)' = {<<Job(w), "running">>}
      BY <1>1, <3>1 DEF ClaimRead, Decision, At, Job
    <3>3. "running" \in Lifecycle!AllowedTransitions[row[Job(w)].status]
      BY <2>3 DEF Lifecycle!AllowedTransitions, Lifecycle!Statuses
    <3>4. Lifecycle!Next
      BY <1>0, <2>1, <3>2, <3>3, StepDecides
    <3>5. LifeInv'
      BY <1>0, <3>1 DEF LifeInv
    <3>6. QED
      BY <3>4, <3>5
  <2>4. QED
    BY <1>1, <2>2, <2>3 DEF ClaimRead, CanTransition
<1>2. CASE ClaimWrite(w)
  <2>1. \A k \in Jobs : row'[k].status = IF k = Job(w) THEN "running" ELSE row[k].status
    BY <1>0, <1>2, StatusSet DEF ClaimWrite
  <2>2. worker'[w].at = "work" /\ worker'[w].job = worker[w].job
    BY <1>0, <1>2 DEF ClaimWrite, Move, TypeOK
  <2>3. Decision(w) = {<<Job(w), "running">>} /\ Decision(w)' = {}
    BY <1>2, <2>2 DEF ClaimWrite, Decision, At
  <2>4. Lifecycle!Next
    BY <1>0, <2>1, <2>3, StepWrites
  <2>5. LifeInv'
    BY <1>0, <2>1, <2>2 DEF LifeInv, Job
  <2>6. QED
    BY <2>4, <2>5
<1>3. QED
  BY <1>1, <1>2

\* mark_succeeded and mark_failed decide on a running row; only a row whose success
\* was committed is decided again.
LEMMA MarkReadLife ==
  ASSUME LifeInv, BusyOK', OneWorker, NEW w \in Workers,
         MarkRead(w, "okRead", "okWrite") \/ MarkRead(w, "failRead", "failWrite")
  PROVE  LifeInv' /\ Lifecycle!Next
<1> DEFINE Place == IF At(w, "okRead") THEN "okWrite" ELSE "failWrite"
           Target == IF At(w, "okRead") THEN "succeeded" ELSE "failed"
<1>0. /\ TypeOK /\ Job(w) \in Jobs /\ (\A v \in Workers : v = w)
      /\ row' = row /\ cancel' = cancel
      /\ worker[w].at \in {"okRead", "failRead"}
  BY DEF LifeInv, BusyOK, HasJob, MarkRead, At, Job, OneWorker, api, store
<1>1. CASE Rest(w)
  <2>1. worker'[w].at = "idle"
    BY <1>0, <1>1 DEF Rest, TypeOK
  <2>2. Decision(w)' = {}
    BY <2>1 DEF Decision, At
  <2>3. QED
    BY <1>0, <2>1, <2>2, IdleLife
<1>2. CASE Move(w, Place) /\ row[Job(w)].status # "cancelled"
  <2>1. worker'[w].at = Place /\ worker'[w].job = worker[w].job
    BY <1>0, <1>2 DEF Move, TypeOK
  <2>2. Decision(w)' = {<<Job(w), Target>>}
    BY <1>0, <2>1 DEF Decision, At, Job
  <2>3. LifeInv'
    BY <1>0, <1>2, <2>1 DEF LifeInv, At, Job
  <2>4. Lifecycle!Next
    <3>1. CASE row[Job(w)].status = "running"
      <4>1. Decision(w) = {}
        BY <1>0, <3>1 DEF Decision, At
      <4>2. Target \in Lifecycle!AllowedTransitions[row[Job(w)].status]
        BY <3>1 DEF Lifecycle!AllowedTransitions, Lifecycle!Statuses
      <4>3. QED
        BY <1>0, <2>2, <4>1, <4>2, StepDecides
    <3>2. CASE row[Job(w)].status = "succeeded"
      <4>1. At(w, "failRead")
        BY <1>0, <3>2 DEF LifeInv, At
      <4>2. Decision(w) = Decision(w)'
        BY <2>2, <3>2, <4>1 DEF Decision, At
      <4>3. QED
        BY <1>0, <4>2, StepDrops
    <3>3. QED
      BY <1>0, <1>2, <3>1, <3>2 DEF LifeInv
  <2>5. QED
    BY <2>3, <2>4
<1>3. QED
  BY <1>0, <1>1, <1>2 DEF MarkRead, At

\* The outcome is written as decided; a success that raises leaves the job to be
\* failed.
LEMMA MarkWriteLife ==
  ASSUME LifeInv, BusyOK', OneWorker, NEW w \in Workers,
         SucceedWrite(w) \/ SucceedFails(w) \/ FailWrite(w)
  PROVE  LifeInv' /\ Lifecycle!Next
<1>0. TypeOK /\ Job(w) \in Jobs /\ (\A v \in Workers : v = w) /\ cancel' = cancel
  BY DEF LifeInv, BusyOK, HasJob, SucceedWrite, SucceedFails, FailWrite, At, Job, OneWorker, api
<1>1. CASE SucceedWrite(w)
  <2>1. \A k \in Jobs : row'[k].status = IF k = Job(w) THEN "succeeded" ELSE row[k].status
    BY <1>0, <1>1, StatusMarked DEF SucceedWrite
  <2>2. worker'[w].at = "idle"
    BY <1>0, <1>1 DEF SucceedWrite, Rest, TypeOK
  <2>3. Decision(w) = {<<Job(w), "succeeded">>} /\ Decision(w)' = {}
    BY <1>1, <2>2 DEF SucceedWrite, Decision, At
  <2>4. QED
    BY <1>0, <2>1, <2>2, <2>3, StepWrites DEF LifeInv
<1>2. CASE FailWrite(w)
  <2>1. \A k \in Jobs : row'[k].status = IF k = Job(w) THEN "failed" ELSE row[k].status
    <3>1. MarkFailed(Job(w)) /\ ~MarkSucceeded(Job(w))
      BY <1>0, <1>2 DEF FailWrite, MarkFailed, MarkSucceeded, TypeOK
    <3>2. QED
      BY <1>0, <3>1, StatusMarked
  <2>2. worker'[w].at = "idle"
    BY <1>0, <1>2 DEF FailWrite, Rest, TypeOK
  <2>3. Decision(w) = {<<Job(w), "failed">>} /\ Decision(w)' = {}
    BY <1>2, <2>2 DEF FailWrite, Decision, At
  <2>4. QED
    BY <1>0, <2>1, <2>2, <2>3, StepWrites DEF LifeInv
<1>3. CASE SucceedFails(w)
  <2>0. /\ worker'[w].at = "failRead" /\ worker'[w].job = worker[w].job
        /\ worker[w].at \in {"okRead", "okWrite"}
    BY <1>0, <1>3 DEF SucceedFails, Move, TypeOK
  <2>1. CASE row' = row
    <3>1. row'[Job(w)].status # "succeeded"
      BY <2>0, <2>1 DEF LifeInv
    <3>2. Decision(w)' = {}
      BY <2>0, <3>1 DEF Decision, At, Job
    <3>3. QED
      BY <1>0, <2>0, <2>1, <3>2, IdleLife
  <2>2. CASE At(w, "okWrite") /\ MarkSucceeded(Job(w))
    <3>1. \A k \in Jobs : row'[k].status = IF k = Job(w) THEN "succeeded" ELSE row[k].status
      BY <1>0, <2>2, StatusMarked
    <3>2. Decision(w) = {<<Job(w), "succeeded">>}
      BY <2>2 DEF Decision, At
    <3>3. Decision(w)' \subseteq Lifecycle!InDoubt(Job(w), "succeeded")
      BY <2>0 DEF Decision, At, Job, Lifecycle!InDoubt
    <3>4. LifeInv'
      BY <1>0, <2>0, <3>1 DEF LifeInv, Job
    <3>5. QED
      BY <1>0, <3>1, <3>2, <3>3, <3>4, StepWrites
  <2>3. QED
    BY <1>3, <2>1, <2>2 DEF SucceedFails
<1>4. QED
  BY <1>1, <1>2, <1>3

\* A step of the worker is a step of the lifecycle.
LEMMA WorkerLife ==
  ASSUME LifeInv, BusyOK', OneWorker, NEW w \in Workers, ProcessOne(w) \/ WorkerCrash(w)
  PROVE  LifeInv' /\ Lifecycle!Next
<1>1. CASE Dequeue(w) \/ GetJob(w) \/ WorkerCrash(w)
  <2>1. row' = row /\ cancel' = cancel
    BY <1>1 DEF Dequeue, GetJob, WorkerCrash, store, api
  <2>2. worker'[w].at \in {"got", "claimRead", "idle"}
    BY <1>1 DEF Dequeue, GetJob, WorkerCrash, Move, Rest, LifeInv, BusyOK, TypeOK
  <2>3. Decision(w)' = {}
    BY <2>2 DEF Decision, At
  <2>4. QED
    BY <2>1, <2>2, <2>3, IdleLife
<1>2. CASE Work(w)
  <2>1. row' = row /\ cancel' = cancel /\ worker[w].at = "work"
    BY <1>2 DEF Work, At, store, api
  <2>2. worker'[w].at \in {"okRead", "failRead"} /\ worker'[w].job = worker[w].job
    BY <1>2 DEF Work, Move, LifeInv, BusyOK, TypeOK
  <2>3. row[Job(w)].status # "succeeded"
    BY <2>1 DEF LifeInv
  <2>4. Decision(w)' = {}
    BY <2>1, <2>2, <2>3 DEF Decision, At, Job
  <2>5. QED
    BY <2>1, <2>2, <2>4, IdleLife
<1>3. QED
  BY <1>1, <1>2, ClaimLife, MarkReadLife, MarkWriteLife DEF ProcessOne

\* Every step keeps the invariant, and is a step of the lifecycle.
LEMMA NextLife ==
  ASSUME OneWorker
  PROVE  LifeInv /\ [Next]_vars => LifeInv' /\ Lifecycle!Next
<1> SUFFICES ASSUME LifeInv, [Next]_vars
             PROVE  LifeInv' /\ Lifecycle!Next
  OBVIOUS
<1>0. BusyOK'
  BY NextBusyOK DEF LifeInv
<1>1. CASE \E j \in Jobs : Submit(j) \/ Cancel(j)
  BY <1>0, <1>1, SubmitLife, CancelLife
<1>2. CASE \E w \in Workers : ProcessOne(w) \/ WorkerCrash(w)
  BY <1>0, <1>2, WorkerLife
<1>3. CASE Scan \/ ScannerCrash \/ RedisRestart \/ UNCHANGED vars
  <2>1. row' = row /\ worker' = worker /\ cancel' = cancel
    BY <1>3 DEF Scan, ScanList, ScanCheck, ScanPush, ScannerCrash, RedisRestart, store, api, vars
  <2>2. \A w \in Workers : Decision(w)' = Decision(w)
    BY <2>1 DEF Decision, At, Job
  <2>3. QED
    BY <1>0, <2>1, <2>2, StepDrops DEF LifeInv, Job
<1>4. QED
  BY <1>1, <1>2, <1>3 DEF Next

\* The initial state is one of the lifecycle.
LEMMA InitLife == Init => LifeInv /\ Lifecycle!Init
<1> SUFFICES ASSUME Init PROVE LifeInv /\ Lifecycle!Init
  OBVIOUS
<1>1. LifeInv
  BY InitBusyOK DEF Init, LifeInv
<1>2. \A w \in Workers : Decision(w) = {}
  BY DEF Init, Decision, At
<1>3. Pending = {}
  <2>1. ASSUME NEW d PROVE d \notin Pending
    BY <1>2, PendingIs DEF Init
  <2>2. QED
    BY <2>1
<1>4. Lifecycle!Init
  BY <1>3 DEF Init, Lifecycle!Init, Pending
<1>5. QED
  BY <1>1, <1>4

\* With one worker the system of rows, queue, worker and scanner implements the
\* lifecycle, whatever is cancelled, lost, crashes or restarts: no status changes
\* but by a write decided while ALLOWED_TRANSITIONS allowed it, or by the handler
\* of a success that raised.
THEOREM Implements == ASSUME OneWorker PROVE Spec => ImplementsLifecycle
<1>1. LifeInv /\ [Next]_vars => LifeInv' /\ [Lifecycle!Next]_(Lifecycle!vars)
  BY NextLife
<1>2. QED
  BY <1>1, InitLife, PTL DEF Spec, ImplementsLifecycle, Lifecycle!Spec

(***************************************************************************)
(* Outcomes                                                                *)
(***************************************************************************)
\* A step leaves the rows alone, sets one status that is no outcome, or records
\* the outcome of one job.
RowStep ==
  \/ row' = row
  \/ \E j \in Jobs : \/ \E s \in {"queued", "running", "cancelled"} : SetStatus(j, s)
                     \/ MarkSucceeded(j) \/ MarkFailed(j)

\* Every step changes the rows in one of these ways.
LEMMA NextRowStep == ASSUME BusyOK, [Next]_vars PROVE RowStep
<1>1. ASSUME NEW j \in Jobs, Submit(j) \/ Cancel(j) PROVE RowStep
  BY <1>1 DEF Submit, SubmitCreate, SubmitEnqueue, SubmitLosesEntry, Cancel, CancelRead,
     CancelWrite, CancelFails, store, RowStep
<1>2. ASSUME NEW w \in Workers, ProcessOne(w) \/ WorkerCrash(w) PROVE RowStep
  <2>1. ~At(w, "idle") => Job(w) \in Jobs
    BY DEF BusyOK, HasJob, At, Job
  <2>2. CASE ClaimWrite(w)
    BY <2>1, <2>2 DEF ClaimWrite, At, RowStep
  <2>3. CASE SucceedWrite(w) \/ FailWrite(w) \/ SucceedFails(w)
    BY <2>1, <2>3 DEF SucceedWrite, FailWrite, SucceedFails, At, RowStep
  <2>4. CASE row' = row
    BY <2>4 DEF RowStep
  <2>5. QED
    BY <1>2, <2>2, <2>3, <2>4 DEF ProcessOne, WorkerCrash, Dequeue, GetJob, ClaimRead, Work,
       MarkRead, store
<1>3. CASE Scan \/ ScannerCrash \/ RedisRestart \/ UNCHANGED vars
  BY <1>3 DEF Scan, ScanList, ScanCheck, ScanPush, ScannerCrash, RedisRestart, store, vars, RowStep
<1>4. QED
  BY <1>1, <1>2, <1>3 DEF Next

\* Outcomes stay with their statuses.
LEMMA NextOutcome == BusyOK /\ OutcomeRecorded /\ [Next]_vars => OutcomeRecorded'
<1> SUFFICES ASSUME BusyOK, OutcomeRecorded, [Next]_vars, NEW k \in Jobs
             PROVE  /\ row'[k].status = "succeeded" => row'[k].out = {"result"}
                    /\ row'[k].status = "failed" => "error" \in row'[k].out
  BY DEF OutcomeRecorded
<1>1. row \in [Jobs -> [status : Statuses, out : SUBSET {"result", "error"}]]
  BY DEF BusyOK, TypeOK
<1>2. CASE row' = row
  BY <1>2 DEF OutcomeRecorded
<1>3. ASSUME NEW j \in Jobs, NEW s \in {"queued", "running", "cancelled"}, SetStatus(j, s)
      PROVE  row'[k] = row[k] \/ row'[k].status = s
  BY <1>1, <1>3 DEF SetStatus
<1>4. ASSUME NEW j \in Jobs, MarkSucceeded(j)
      PROVE  row'[k] = row[k] \/ row'[k] = [status |-> "succeeded", out |-> {"result"}]
  BY <1>1, <1>4 DEF MarkSucceeded
<1>5. ASSUME NEW j \in Jobs, MarkFailed(j)
      PROVE  row'[k] = row[k] \/ (row'[k].status = "failed" /\ "error" \in row'[k].out)
  BY <1>1, <1>5 DEF MarkFailed
<1>6. QED
  BY <1>2, <1>3, <1>4, <1>5, NextRowStep DEF RowStep, OutcomeRecorded

\* Whatever fails between the writes of result and status, a job that reads
\* succeeded has its result and one that reads failed its error.
THEOREM Outcomes == Spec => []OutcomeRecorded
<1>1. Init => OutcomeRecorded
  BY DEF Init, OutcomeRecorded
<1>2. QED
  BY <1>1, InitBusyOK, NextBusyOK, NextOutcome, PTL DEF Spec

(***************************************************************************)
(* Cancellation                                                            *)
(***************************************************************************)
\* A step of one worker leaves a cancelled job alone.
LEMMA WorkerLeavesCancelled ==
  ASSUME BusyOK, NEW w \in Workers, ProcessOne(w) \/ WorkerCrash(w),
         NEW j \in Jobs, CancelledForGood(j)
  PROVE  CancelledForGood(j)'
<1> DEFINE Deciding == {"claimWrite", "okWrite", "failWrite"}
<1>0. /\ TypeOK
      /\ row[j].status = "cancelled"
      /\ \A v \in Workers : worker[v].job = j => worker[v].at \notin Deciding
      /\ worker[w].at # "idle" => worker[w].job \in Jobs
  BY DEF BusyOK, HasJob, CancelledForGood, Job
<1>1. row'[j].status = "cancelled"
  <2>1. CASE ClaimWrite(w)
    BY <1>0, <2>1, StatusSet DEF ClaimWrite, At, Job
  <2>2. CASE SucceedWrite(w) \/ FailWrite(w) \/ SucceedFails(w)
    <3>1. row' = row \/ ((MarkSucceeded(Job(w)) \/ MarkFailed(Job(w))) /\ worker[w].at \in Deciding)
      BY <2>2 DEF SucceedWrite, FailWrite, SucceedFails, At
    <3>2. worker[w].job \in Jobs
      BY <1>0, <2>2 DEF SucceedWrite, FailWrite, SucceedFails, At
    <3>3. QED
      BY <1>0, <3>1, <3>2, StatusMarked DEF Job
  <2>3. CASE row' = row
    BY <1>0, <2>3
  <2>4. QED
    BY <2>1, <2>2, <2>3 DEF ProcessOne, WorkerCrash, Dequeue, GetJob, ClaimRead, Work, MarkRead,
       store
<1>2. \A v \in Workers : v # w => worker'[v] = worker[v]
  BY <1>0 DEF ProcessOne, WorkerCrash, Dequeue, GetJob, ClaimRead, ClaimWrite, Work, MarkRead,
     SucceedWrite, SucceedFails, FailWrite, Rest, Move, TypeOK
<1>3. worker'[w].job = j => worker'[w].at \notin Deciding
  <2>1. CASE ClaimRead(w) \/ MarkRead(w, "okRead", "okWrite") \/ MarkRead(w, "failRead", "failWrite")
    <3>1. CASE worker[w].job = j
      <4>1. Rest(w)
        BY <1>0, <2>1, <3>1 DEF ClaimRead, MarkRead, CanTransition, Job
      <4>2. QED
        BY <1>0, <4>1 DEF Rest, TypeOK
    <3>2. CASE worker[w].job # j
      <4>1. worker'[w].job = worker[w].job \/ worker'[w].at = "idle"
        BY <1>0, <2>1 DEF ClaimRead, MarkRead, Rest, Move, TypeOK
      <4>2. QED
        BY <3>2, <4>1
    <3>3. QED
      BY <3>1, <3>2
  <2>2. CASE ~ClaimRead(w) /\ ~MarkRead(w, "okRead", "okWrite") /\ ~MarkRead(w, "failRead", "failWrite")
    <3>1. CASE Dequeue(w) \/ GetJob(w) \/ WorkerCrash(w)
      <4>1. \E place \in {"idle", "got", "claimRead"} : worker'[w].at = place
        BY <1>0, <3>1 DEF Dequeue, GetJob, WorkerCrash, Rest, Move, TypeOK
      <4>2. QED
        BY <4>1
    <3>2. CASE ClaimWrite(w) \/ Work(w)
      BY <1>0, <3>2 DEF ClaimWrite, Work, Move, TypeOK
    <3>3. CASE SucceedWrite(w) \/ SucceedFails(w) \/ FailWrite(w)
      BY <1>0, <3>3 DEF SucceedWrite, SucceedFails, FailWrite, Rest, Move, TypeOK
    <3>4. QED
      BY <1>0, <2>2, <3>1, <3>2, <3>3 DEF ProcessOne
  <2>3. QED
    BY <2>1, <2>2
<1>4. QED
  BY <1>0, <1>1, <1>2, <1>3 DEF CancelledForGood, Job

\* Every step leaves a cancelled job alone.
LEMMA NextLeavesCancelled ==
  ASSUME BusyOK, [Next]_vars, NEW j \in Jobs, CancelledForGood(j)
  PROVE  CancelledForGood(j)'
<1>1. ASSUME NEW i \in Jobs, Submit(i) \/ Cancel(i) PROVE CancelledForGood(j)'
  <2>1. worker' = worker
    BY <1>1 DEF Submit, SubmitCreate, SubmitEnqueue, SubmitLosesEntry, Cancel, CancelRead,
       CancelWrite, CancelFails
  <2>2. row' = row \/ (SetStatus(i, "queued") /\ row[i].status = "none") \/ SetStatus(i, "cancelled")
    BY <1>1 DEF Submit, SubmitCreate, SubmitEnqueue, SubmitLosesEntry, Cancel, CancelRead,
       CancelWrite, CancelFails, store
  <2>3. row'[j].status = "cancelled"
    BY <2>2, StatusSet DEF BusyOK, CancelledForGood
  <2>4. QED
    BY <2>1, <2>3 DEF CancelledForGood, Job
<1>2. ASSUME NEW w \in Workers, ProcessOne(w) \/ WorkerCrash(w) PROVE CancelledForGood(j)'
  BY <1>2, WorkerLeavesCancelled
<1>3. CASE Scan \/ ScannerCrash \/ RedisRestart \/ UNCHANGED vars
  BY <1>3 DEF Scan, ScanList, ScanCheck, ScanPush, ScannerCrash, RedisRestart, store, vars,
     CancelledForGood, Job
<1>4. QED
  BY <1>1, <1>2, <1>3 DEF Next

\* A cancellation that overtook no decision is final, for any number of workers,
\* jobs and faults: no stale queue entry, retry or restart brings the job back.
THEOREM CancelIsFinal == Spec => CancelHolds
<1>1. BusyOK /\ [Next]_vars => \A j \in Jobs : CancelledForGood(j) => CancelledForGood(j)'
  BY NextLeavesCancelled
<1>2. QED
  BY <1>1, InitBusyOK, NextBusyOK, PTL DEF Spec, CancelHolds
=============================================================================
