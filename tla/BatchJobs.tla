----------------------------- MODULE BatchJobs ------------------------------
(***************************************************************************)
(* Batch jobs: services/batch and its two workers.  A job is a row of      *)
(* Postgres, the source of truth, and an entry of a Redis list, which      *)
(* wakes a worker up.  The API creates and cancels jobs; a worker pops an  *)
(* entry, claims the job, runs it on the GPU and records the outcome; the  *)
(* recovery scanner pushes the queued jobs that have no entry.             *)
(*                                                                         *)
(* PostgresBatchJobStore reads a row and updates it in one transaction     *)
(* without locking it, so every status change is two steps: the read, with *)
(* the check made on it, and the update, which overwrites what is there.   *)
(*                                                                         *)
(* Faults: "lost" a command fails without effect, "noreply" a commit       *)
(* succeeds and reports an error, "crash" a process exits (supervisord     *)
(* restarts it), "redis" Redis restarts with an empty list.  A failure     *)
(* outside process_one's try ends the worker process: it is a crash.       *)
(* Operators named Mut... are wrong variants of the definition below them, *)
(* which the properties refute.                                            *)
(***************************************************************************)
EXTENDS Integers, Sequences, FiniteSets, Functions

CONSTANTS Jobs,         \* the jobs clients submit
          NoJob,        \* no job
          Workers,      \* the batch-worker processes; supervisord runs one
          Cancellable,  \* the jobs some client cancels
          ScanLimit,    \* list_recoverable's limit
          Faults,
          MaxFaults     \* how many faults a behaviour contains

ASSUME BatchAssumption ==
  /\ IsFiniteSet(Jobs)
  /\ NoJob \notin Jobs
  /\ Cancellable \subseteq Jobs
  /\ ScanLimit \in Nat \ {0}
  /\ Faults \subseteq {"lost", "noreply", "crash", "redis"}
  /\ MaxFaults \in Nat

VARIABLES
  row,      \* [Jobs -> row of batch_jobs]; status "none": not yet created
  created,  \* [Jobs -> created_at], as a rank among the rows; 0: not yet created
  queue,    \* batch_queue:pending
  submit,   \* the submissions that have committed a row and not yet enqueued it
  cancel,   \* the cancellations between their read and their update
  worker,   \* [Workers -> where the worker is, and its job]
  scan,     \* the jobs the scanner has listed and not yet looked up
  pushing,  \* the job it has found missing from the queue
  claims,   \* history: how often a job was claimed for the GPU
  faults    \* the faults so far

vars == <<row, created, queue, submit, cancel, worker, scan, pushing, claims, faults>>
store == <<row, created>>
api == <<submit, cancel>>
scanner == <<scan, pushing>>

Statuses == {"none", "queued", "running", "succeeded", "failed", "cancelled"}
Places == {"idle", "got", "claimRead", "claimWrite", "work",
           "okRead", "okWrite", "failRead", "failWrite"}

-----------------------------------------------------------------------------
MutCanTransitionUnlessCancelled(current, target) == current # "cancelled"
CanTransition(current, target) ==
  \/ current = "queued" /\ target \in {"running", "cancelled", "failed"}
  \/ current = "running" /\ target \in {"succeeded", "failed", "cancelled"}

InQueue(j) == j \in Range(queue)

SetStatus(j, s) == row' = [row EXCEPT ![j].status = s]

Queued(j) == row[j].status = "queued"

Older(i, j) == created[i] < created[j]

MutRecoverableRunning == {j \in Jobs : row[j].status = "running"}

\* list_recoverable: the oldest queued rows.
Recoverable ==
  {j \in Jobs : Queued(j) /\ Cardinality({i \in Jobs : Queued(i) /\ Older(i, j)}) < ScanLimit}

Fault(kind) ==
  /\ kind \in Faults
  /\ faults < MaxFaults
  /\ faults' = faults + 1

-----------------------------------------------------------------------------
Init ==
  /\ row = [j \in Jobs |-> [status |-> "none", out |-> {}]]
  /\ created = [j \in Jobs |-> 0]
  /\ queue = <<>>
  /\ submit = {}
  /\ cancel = {}
  /\ worker = [w \in Workers |-> [at |-> "idle", job |-> NoJob]]
  /\ scan = {}
  /\ pushing = NoJob
  /\ claims = [j \in Jobs |-> 0]
  /\ faults = 0

(***************************************************************************)
(* The API: BatchJobService.submit and cancel                              *)
(***************************************************************************)
SubmitCreate(j) ==
  /\ row[j].status = "none"
  /\ SetStatus(j, "queued")
  /\ created' = [created EXCEPT ![j] = 1 + Cardinality({i \in Jobs : created[i] # 0})]
  /\ submit' = submit \cup {j}
  /\ UNCHANGED <<queue, cancel, worker, scanner, claims, faults>>

SubmitEnqueue(j) ==
  /\ j \in submit
  /\ queue' = Append(queue, j)
  /\ submit' = submit \ {j}
  /\ UNCHANGED <<store, cancel, worker, scanner, claims, faults>>

\* The push fails, which submit swallows, or the API dies: the row stays.
SubmitLosesEntry(j) ==
  /\ j \in submit
  /\ Fault("lost") \/ Fault("crash")
  /\ submit' = submit \ {j}
  /\ UNCHANGED <<store, queue, cancel, worker, scanner, claims>>

\* cancel returns a terminal job as it is; otherwise transition reads the row.
CancelRead(j) ==
  /\ j \in Cancellable \ cancel
  /\ CanTransition(row[j].status, "cancelled")
  /\ cancel' = cancel \cup {j}
  /\ UNCHANGED <<store, queue, submit, worker, scanner, claims, faults>>

CancelWrite(j) ==
  /\ j \in cancel
  /\ SetStatus(j, "cancelled")
  /\ cancel' = cancel \ {j}
  /\ UNCHANGED <<created, queue, submit, worker, scanner, claims, faults>>

CancelFails(j) ==
  /\ j \in cancel
  /\ Fault("lost") \/ Fault("crash")
  /\ cancel' = cancel \ {j}
  /\ UNCHANGED <<store, queue, submit, worker, scanner, claims>>

(***************************************************************************)
(* The batch worker: BatchWorker.process_one                               *)
(***************************************************************************)
At(w, place) == worker[w].at = place
Job(w) == worker[w].job
Move(w, place) == worker' = [worker EXCEPT ![w].at = place]
Rest(w) == worker' = [worker EXCEPT ![w] = [at |-> "idle", job |-> NoJob]]

Dequeue(w) ==
  /\ At(w, "idle")
  /\ queue # <<>>
  /\ worker' = [worker EXCEPT ![w] = [at |-> "got", job |-> Head(queue)]]
  /\ queue' = Tail(queue)
  /\ UNCHANGED <<store, api, scanner, claims, faults>>

GetJob(w) ==
  /\ At(w, "got")
  /\ IF row[Job(w)].status = "cancelled" THEN Rest(w) ELSE Move(w, "claimRead")
  /\ UNCHANGED <<store, queue, api, scanner, claims, faults>>

ClaimRead(w) ==
  /\ At(w, "claimRead")
  /\ IF CanTransition(row[Job(w)].status, "running") THEN Move(w, "claimWrite") ELSE Rest(w)
  /\ UNCHANGED <<store, queue, api, scanner, claims, faults>>

ClaimWrite(w) ==
  /\ At(w, "claimWrite")
  /\ SetStatus(Job(w), "running")
  /\ claims' = [claims EXCEPT ![Job(w)] = @ + 1]
  /\ Move(w, "work")
  /\ UNCHANGED <<created, queue, api, scanner, faults>>

\* Token plan, admission, audit, vLLM: the try ends well or raises.
Work(w) ==
  /\ At(w, "work")
  /\ \E next \in {"okRead", "failRead"} : Move(w, next)
  /\ UNCHANGED <<store, queue, api, scanner, claims, faults>>

MutMarkReadAnyway(w, read, write) ==
  /\ At(w, read)
  /\ Move(w, write)
  /\ UNCHANGED <<store, queue, api, scanner, claims, faults>>

\* mark_succeeded and mark_failed leave a cancelled row alone, and only that.
MarkRead(w, read, write) ==
  /\ At(w, read)
  /\ IF row[Job(w)].status = "cancelled" THEN Rest(w) ELSE Move(w, write)
  /\ UNCHANGED <<store, queue, api, scanner, claims, faults>>

MutSucceededStatusOnly(j) == SetStatus(j, "succeeded")
MarkSucceeded(j) == row' = [row EXCEPT ![j] = [status |-> "succeeded", out |-> {"result"}]]

\* mark_failed clears neither the result nor completed_count.
MarkFailed(j) == row' = [row EXCEPT ![j] = [status |-> "failed", out |-> @.out \cup {"error"}]]

SucceedWrite(w) ==
  /\ At(w, "okWrite")
  /\ MarkSucceeded(Job(w))
  /\ Rest(w)
  /\ UNCHANGED <<created, queue, api, scanner, claims, faults>>

\* mark_succeeded raises inside the try, having committed or not: the handler
\* goes on to mark_failed.
SucceedFails(w) ==
  /\ worker[w].at \in {"okRead", "okWrite"}
  /\ \/ Fault("lost") /\ UNCHANGED row
     \/ At(w, "okWrite") /\ Fault("noreply") /\ MarkSucceeded(Job(w))
  /\ Move(w, "failRead")
  /\ UNCHANGED <<created, queue, api, scanner, claims>>

FailWrite(w) ==
  /\ At(w, "failWrite")
  /\ MarkFailed(Job(w))
  /\ Rest(w)
  /\ UNCHANGED <<created, queue, api, scanner, claims, faults>>

WorkerCrash(w) ==
  /\ ~At(w, "idle")
  /\ Fault("crash")
  /\ Rest(w)
  /\ UNCHANGED <<store, queue, api, scanner, claims>>

(***************************************************************************)
(* The recovery scanner: BatchRecoveryScanner.reenqueue_missing            *)
(***************************************************************************)
ScanList ==
  /\ scan = {}
  /\ pushing = NoJob
  /\ scan' = Recoverable
  /\ UNCHANGED <<store, queue, api, worker, pushing, claims, faults>>

ScanCheck ==
  /\ pushing = NoJob
  /\ \E j \in scan :
       /\ \A i \in scan : ~Older(i, j)
       /\ scan' = scan \ {j}
       /\ pushing' = IF InQueue(j) THEN NoJob ELSE j
  /\ UNCHANGED <<store, queue, api, worker, claims, faults>>

ScanPush ==
  /\ pushing # NoJob
  /\ queue' = Append(queue, pushing)
  /\ pushing' = NoJob
  /\ UNCHANGED <<store, api, worker, scan, claims, faults>>

ScannerCrash ==
  /\ scan # {} \/ pushing # NoJob
  /\ Fault("crash")
  /\ scan' = {}
  /\ pushing' = NoJob
  /\ UNCHANGED <<store, queue, api, worker, claims>>

RedisRestart ==
  /\ queue # <<>>
  /\ Fault("redis")
  /\ queue' = <<>>
  /\ UNCHANGED <<store, api, worker, scanner, claims>>

-----------------------------------------------------------------------------
Submit(j) == SubmitCreate(j) \/ SubmitEnqueue(j) \/ SubmitLosesEntry(j)

Cancel(j) == CancelRead(j) \/ CancelWrite(j) \/ CancelFails(j)

ProcessOne(w) ==
  \/ Dequeue(w) \/ GetJob(w) \/ ClaimRead(w) \/ ClaimWrite(w) \/ Work(w)
  \/ MarkRead(w, "okRead", "okWrite") \/ SucceedWrite(w) \/ SucceedFails(w)
  \/ MarkRead(w, "failRead", "failWrite") \/ FailWrite(w)

Scan == ScanList \/ ScanCheck \/ ScanPush

Next ==
  \/ \E j \in Jobs : Submit(j) \/ Cancel(j)
  \/ \E w \in Workers : ProcessOne(w) \/ WorkerCrash(w)
  \/ Scan
  \/ ScannerCrash
  \/ RedisRestart

Spec == Init /\ [][Next]_vars

\* A worker polls the queue and the scanner scans for ever (their while True
\* loops); an API call that has begun goes on.  Nobody has to submit or cancel.
Fairness ==
  /\ \A w \in Workers : WF_vars(ProcessOne(w))
  /\ WF_vars(Scan)
  /\ \A j \in Jobs : WF_vars(SubmitEnqueue(j)) /\ WF_vars(CancelWrite(j))

FairSpec == Spec /\ Fairness

-----------------------------------------------------------------------------
TypeOK ==
  /\ row \in [Jobs -> [status : Statuses, out : SUBSET {"result", "error"}]]
  /\ created \in [Jobs -> Nat]
  /\ queue \in Seq(Jobs)
  /\ submit \in SUBSET Jobs
  /\ cancel \in SUBSET Cancellable
  /\ worker \in [Workers -> [at : Places, job : Jobs \cup {NoJob}]]
  /\ scan \in SUBSET Jobs
  /\ pushing \in Jobs \cup {NoJob}
  /\ claims \in [Jobs -> Nat]
  /\ faults \in 0 .. MaxFaults

\* However often a job is pushed, popped, lost and pushed again, it is claimed
\* for the GPU at most once.
ClaimedAtMostOnce == \A j \in Jobs : claims[j] <= 1

\* A job that reads succeeded has its result and no error, and one that reads
\* failed has its error.
OutcomeRecorded ==
  \A j \in Jobs : /\ row[j].status = "succeeded" => row[j].out = {"result"}
                  /\ row[j].status = "failed" => "error" \in row[j].out

\* What a worker between its read and its write of the row, or in the handler of a
\* success that was committed all the same, has decided about its job.
Decision(w) ==
  CASE At(w, "claimWrite") -> {<<Job(w), "running">>}
    [] At(w, "okWrite")    -> {<<Job(w), "succeeded">>}
    [] At(w, "failWrite")  -> {<<Job(w), "failed">>}
    [] At(w, "failRead")   -> IF row[Job(w)].status = "succeeded"
                              THEN {<<Job(w), "failed">>} ELSE {}
    [] OTHER               -> {}

Lifecycle == INSTANCE JobLifecycle WITH
  status  <- [j \in Jobs |-> row[j].status],
  decided <- (cancel \X {"cancelled"}) \cup UNION {Decision(w) : w \in Workers}

\* Whatever cancellations, crashes and lost replies there are, a status is only
\* ever changed by a write decided while ALLOWED_TRANSITIONS allowed it, or by the
\* handler of a success that raised; a job at rest in a terminal status stays there.
ImplementsLifecycle == Lifecycle!Spec

\* No queued job is forgotten: a worker takes it, or a client cancels it, even
\* when its entry was lost with a push, a pop or the whole list.
QueuedIsTaken == \A j \in Jobs : row[j].status = "queued" ~> row[j].status # "queued"

\* A cancelled job is not run: ALLOWED_TRANSITIONS has nothing for it.
CancelledNeverRuns ==
  [][\A j \in Jobs : row[j].status = "cancelled" => row'[j].status # "running"]_vars

\* A cancelled row that no worker has decided to write.
CancelledForGood(j) ==
  /\ row[j].status = "cancelled"
  /\ \A w \in Workers : Job(w) = j => worker[w].at \notin {"claimWrite", "okWrite", "failWrite"}

\* A job cancelled while no worker stands between its read and its write of the
\* row is never claimed, finished or queued again: every later read refuses,
\* whatever entries the queue holds and whatever is lost, retried or restarted.
CancelHolds == [][\A j \in Jobs : CancelledForGood(j) => CancelledForGood(j)']_vars
=============================================================================
