---------------------------- MODULE JobLifecycle ----------------------------
(***************************************************************************)
(* What services/batch promises of a job: it is created queued, and its    *)
(* status changes along ALLOWED_TRANSITIONS.  A change is decided on a     *)
(* status the job has and written later, so what is final is who decides:  *)
(* of a job in a terminal status nothing new is decided, except by a       *)
(* writer of its success who is told that the write failed.  BatchJobs is  *)
(* the system that is to implement this.                                   *)
(***************************************************************************)
CONSTANT Jobs

VARIABLES
  status,
  decided   \* the changes <<job, target>> decided and not yet written

vars == <<status, decided>>

Statuses == {"none", "queued", "running", "succeeded", "failed", "cancelled"}

AllowedTransitions ==
  [s \in Statuses |->
     CASE s = "queued"  -> {"running", "cancelled", "failed"}
       [] s = "running" -> {"succeeded", "failed", "cancelled"}
       [] OTHER         -> {}]

Init ==
  /\ status = [j \in Jobs |-> "none"]
  /\ decided = {}

Create(j) ==
  /\ status[j] = "none"
  /\ status' = [status EXCEPT ![j] = "queued"]
  /\ UNCHANGED decided

Decide(j) ==
  \E target \in AllowedTransitions[status[j]] :
    /\ decided' = decided \cup {<<j, target>>}
    /\ UNCHANGED status

\* The handler of a success that raised decides to fail the job.
InDoubt(j, target) == IF target = "succeeded" THEN {<<j, "failed">>} ELSE {}

\* A write takes effect whatever the status is by then; who has decided
\* something else about the job may give it up.
Write(j) ==
  \E target \in Statuses :
    /\ <<j, target>> \in decided
    /\ status' = [status EXCEPT ![j] = target]
    /\ decided' \in SUBSET ((decided \ {<<j, target>>}) \cup InDoubt(j, target))

Drop ==
  /\ decided' \in SUBSET decided
  /\ UNCHANGED status

Next == Drop \/ \E j \in Jobs : Create(j) \/ Decide(j) \/ Write(j)

Spec == Init /\ [][Next]_vars
=============================================================================
