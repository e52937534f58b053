----------------------------- MODULE Admission ------------------------------
(***************************************************************************)
(* Redis-backed admission: services/rate_limit.  A request calls           *)
(* AdmissionService.admit, which checks the overload flag, the requests    *)
(* per minute, the concurrent requests and the tokens per minute of its    *)
(* API key; if it is admitted it holds an AdmissionLease until it          *)
(* finalizes the token reservation and releases the concurrency slot.      *)
(*                                                                         *)
(* Every await of a Redis command is a step of its own, so the commands of *)
(* different requests interleave as they do on the event loops of the API  *)
(* and of the batch worker.  pc[r] names the command r is about to issue.  *)
(* A command may fail without having run ("lost") or run and fail to       *)
(* answer ("noreply"); a gateway process may die ("crash"); Redis, which   *)
(* persists nothing, may restart empty ("restart").  Operators named       *)
(* Mut... are wrong variants of the definition below them, which the       *)
(* properties refute.                                                      *)
(***************************************************************************)
EXTENDS RedisCounter, FiniteSets, FiniteSetsExt

CONSTANTS Requests,    \* the requests; each goes through admission once
          Keys,        \* the API keys
          Processes,   \* the gateway processes (API, batch worker)
          KeyOf,       \* the API key of a request
          Home,        \* the process that serves a request
          Est,         \* the tokens build_token_plan estimates for a request
          RpmLimit, ConcLimit, TpmLimit,
          Faults       \* the faults that may happen

ASSUME RequestsAssumption ==
  /\ IsFiniteSet(Requests)
  /\ KeyOf \in [Requests -> Keys]
  /\ Home \in [Requests -> Processes]
  /\ Est \in [Requests -> Nat \ {0}]

ASSUME LimitsAssumption ==
  /\ RpmLimit \in Nat \ {0}
  /\ ConcLimit \in Nat \ {0}
  /\ TpmLimit \in Nat \ {0}

ASSUME FaultsAssumption ==
  Faults \subseteq {"lost", "noreply", "crash", "restart"}

VARIABLES
  pc,       \* where each request is
  rel,      \* the tokens a request's finalize gives back
  rpm,      \* rl:api_key:{id}:rpm
  conc,     \* concurrent:api_key:{id}; it never has a TTL, so a missing key is 0
  tpm,      \* rl:api_key:{id}:tpm
  counted,  \* history: the requests that incremented conc since Redis started
            \* and have not decremented it
  charge    \* history: the tokens a request added to its key's current window
            \* and has not given back

vars == <<pc, rel, rpm, conc, tpm, counted, charge>>

-----------------------------------------------------------------------------
Admitting == {"overload", "rpmIncr", "rpmExpire", "concIncr", "concRollback",
              "tpmIncr", "tpmExpire", "tpmRollback"}
Holding   == {"held", "finDecr", "finDel", "relDecr"}
PC        == {"new", "done", "relDel"} \cup Admitting \cup Holding

\* What can become of one Redis command.
Outcomes == {"ok"} \cup (Faults \cap {"lost", "noreply"})
Ran(o)   == o # "lost"

Goto(r, place) == pc' = [pc EXCEPT ![r] = place]

\* f after command cmd on key k, which ran or was lost.
After(f, k, o, cmd(_)) == IF Ran(o) THEN [f EXCEPT ![k] = cmd(@)] ELSE f

Minus(a, b) == IF a > b THEN a - b ELSE 0

Counted(k) == {r \in counted : KeyOf[r] = k}
Charges(k) == MapThenSumSet(LAMBDA r : charge[r], {r \in Requests : KeyOf[r] = k})

-----------------------------------------------------------------------------
Init ==
  /\ pc      = [r \in Requests |-> "new"]
  /\ rel     = [r \in Requests |-> 0]
  /\ rpm     = [k \in Keys |-> Absent]
  /\ conc    = [k \in Keys |-> 0]
  /\ tpm     = [k \in Keys |-> Absent]
  /\ counted = {}
  /\ charge  = [r \in Requests |-> 0]

Arrive(r) ==
  /\ pc[r] = "new"
  /\ Goto(r, "overload")
  /\ UNCHANGED <<rel, rpm, conc, tpm, counted, charge>>

(***************************************************************************)
(* AdmissionService.admit                                                  *)
(***************************************************************************)
\* GET overload:global.  Operators set the flag; any command failure refuses.
CheckOverload(r) ==
  /\ pc[r] = "overload"
  /\ \E next \in {"rpmIncr", "done"} : Goto(r, next)
  /\ UNCHANGED <<rel, rpm, conc, tpm, counted, charge>>

AfterRpm(count) == IF count > RpmLimit THEN "done" ELSE "concIncr"

MutOpensRpmNever(count) == count = 0
OpensRpmWindow(count) == count = 1

RpmIncr(r) ==
  /\ pc[r] = "rpmIncr"
  /\ \E o \in Outcomes :
       /\ rpm' = After(rpm, KeyOf[r], o, LAMBDA e : IncrBy(e, 1))
       /\ LET count == rpm'[KeyOf[r]].val IN
          Goto(r, IF o # "ok" THEN "done"
                  ELSE IF OpensRpmWindow(count) THEN "rpmExpire" ELSE AfterRpm(count))
  /\ UNCHANGED <<rel, conc, tpm, counted, charge>>

RpmExpire(r) ==
  /\ pc[r] = "rpmExpire"
  /\ \E o \in Outcomes :
       /\ rpm' = After(rpm, KeyOf[r], o, Expire)
       /\ Goto(r, IF o # "ok" THEN "done" ELSE AfterRpm(1))
  /\ UNCHANGED <<rel, conc, tpm, counted, charge>>

MutConcAtLimit(count) == IF count >= ConcLimit THEN "concRollback" ELSE "tpmIncr"
MutConcPastLimit(count) == IF count > ConcLimit + 1 THEN "concRollback" ELSE "tpmIncr"
AfterConc(count) == IF count > ConcLimit THEN "concRollback" ELSE "tpmIncr"

MutIncrTwice(r, o) ==
  /\ conc' = After(conc, KeyOf[r], o, LAMBDA n : n + 2)
  /\ counted' = IF Ran(o) THEN counted \cup {r} ELSE counted

\* INCR of the request's key, in acquire.
Incr(r, o) ==
  /\ conc' = After(conc, KeyOf[r], o, LAMBDA n : n + 1)
  /\ counted' = IF Ran(o) THEN counted \cup {r} ELSE counted

ConcIncr(r) ==
  /\ pc[r] = "concIncr"
  /\ \E o \in Outcomes :
       /\ Incr(r, o)
       /\ Goto(r, IF o # "ok" THEN "done" ELSE AfterConc(conc'[KeyOf[r]]))
  /\ UNCHANGED <<rel, rpm, tpm, charge>>

MutDecrDeletes(r, o) ==
  /\ conc' = After(conc, KeyOf[r], o, LAMBDA n : 0)
  /\ counted' = IF Ran(o) THEN counted \ {r} ELSE counted

\* DECR of the request's key, in rollback and in release.
Decr(r, o) ==
  /\ conc' = After(conc, KeyOf[r], o, LAMBDA n : n - 1)
  /\ counted' = IF Ran(o) THEN counted \ {r} ELSE counted

ConcRollback(r) ==
  /\ pc[r] = "concRollback"
  /\ \E o \in Outcomes : Decr(r, o)
  /\ Goto(r, "done")
  /\ UNCHANGED <<rel, rpm, tpm, charge>>

MutTpmAtLimit(r, count) == IF count >= TpmLimit THEN "tpmRollback" ELSE "held"
AfterTpm(r, count) == IF count > TpmLimit THEN "tpmRollback" ELSE "held"

MutOpensTpmAtOne(r, count) == count = 1
OpensTpmWindow(r, count) == count = Est[r]

TpmIncr(r) ==
  /\ pc[r] = "tpmIncr"
  /\ \E o \in Outcomes :
       /\ tpm' = After(tpm, KeyOf[r], o, LAMBDA e : IncrBy(e, Est[r]))
       /\ charge' = After(charge, r, o, LAMBDA n : Est[r])
       /\ LET count == tpm'[KeyOf[r]].val IN
          Goto(r, IF o # "ok" THEN "done"
                  ELSE IF OpensTpmWindow(r, count) THEN "tpmExpire" ELSE AfterTpm(r, count))
  /\ UNCHANGED <<rel, rpm, conc, counted>>

TpmExpire(r) ==
  /\ pc[r] = "tpmExpire"
  /\ \E o \in Outcomes :
       /\ tpm' = After(tpm, KeyOf[r], o, Expire)
       /\ Goto(r, IF o # "ok" THEN "done" ELSE AfterTpm(r, Est[r]))
  /\ UNCHANGED <<rel, rpm, conc, counted, charge>>

\* DECRBY of the request's key by n tokens, in rollback and in finalize.
GiveBack(r, n, o) ==
  /\ tpm' = After(tpm, KeyOf[r], o, LAMBDA e : IncrBy(e, -n))
  /\ charge' = After(charge, r, o, LAMBDA c : Minus(c, n))

\* The rejected reservation is rolled back; the slot that acquire took is not.
TpmRollback(r) ==
  /\ pc[r] = "tpmRollback"
  /\ \E o \in Outcomes : GiveBack(r, Est[r], o)
  /\ Goto(r, "done")
  /\ UNCHANGED <<rel, rpm, conc, counted>>

(***************************************************************************)
(* AdmissionLease: finalize_tokens, then release                           *)
(***************************************************************************)
\* TokenReservation.finalize gives back the reservation less the tokens used, or
\* all of it after a failure, and nothing when more tokens were used than reserved.
Unused(r) == 0 .. Est[r]

\* It issues no command when there is nothing to give back.
AfterFinish(unused) == IF unused = 0 THEN "relDecr" ELSE "finDecr"

\* The model answered, failed or was cut off.  (A cancelled request skips finalize
\* and so gives back nothing.)
Finish(r) ==
  /\ pc[r] = "held"
  /\ \E unused \in Unused(r) :
       /\ rel' = [rel EXCEPT ![r] = unused]
       /\ Goto(r, AfterFinish(unused))
  /\ UNCHANGED <<rpm, conc, tpm, counted, charge>>

FinalizeDecr(r) ==
  /\ pc[r] = "finDecr"
  /\ \E o \in Outcomes :
       /\ GiveBack(r, rel[r], o)
       /\ Goto(r, IF o = "ok" /\ tpm'[KeyOf[r]].val <= 0 THEN "finDel" ELSE "relDecr")
  /\ UNCHANGED <<rel, rpm, conc, counted>>

FinalizeDelete(r) ==
  /\ pc[r] = "finDel"
  /\ \E o \in Outcomes : tpm' = After(tpm, KeyOf[r], o, LAMBDA e : Absent)
  /\ Goto(r, "relDecr")
  /\ UNCHANGED <<rel, rpm, conc, counted, charge>>

ReleaseDecr(r) ==
  /\ pc[r] = "relDecr"
  /\ \E o \in Outcomes :
       /\ Decr(r, o)
       /\ Goto(r, IF o = "ok" /\ conc'[KeyOf[r]] <= 0 THEN "relDel" ELSE "done")
  /\ UNCHANGED <<rel, rpm, tpm, charge>>

ReleaseDelete(r) ==
  /\ pc[r] = "relDel"
  /\ \E o \in Outcomes : conc' = After(conc, KeyOf[r], o, LAMBDA n : 0)
  /\ Goto(r, "done")
  /\ UNCHANGED <<rel, rpm, tpm, counted, charge>>

-----------------------------------------------------------------------------
(***************************************************************************)
(* Time, and the faults                                                    *)
(***************************************************************************)
RpmWindowExpires(k) ==
  /\ rpm[k].ttl
  /\ rpm' = [rpm EXCEPT ![k] = Absent]
  /\ UNCHANGED <<pc, rel, conc, tpm, counted, charge>>

TpmWindowExpires(k) ==
  /\ tpm[k].ttl
  /\ tpm' = [tpm EXCEPT ![k] = Absent]
  /\ charge' = [r \in Requests |-> IF KeyOf[r] = k THEN 0 ELSE charge[r]]
  /\ UNCHANGED <<pc, rel, rpm, conc, counted>>

\* A process dies: its requests issue no further command.
Crash(p) ==
  /\ "crash" \in Faults
  /\ \E r \in Requests : Home[r] = p /\ pc[r] \notin {"new", "done"}
  /\ pc' = [r \in Requests |-> IF Home[r] = p /\ pc[r] # "new" THEN "done" ELSE pc[r]]
  /\ UNCHANGED <<rel, rpm, conc, tpm, counted, charge>>

RedisRestart ==
  /\ "restart" \in Faults
  /\ rpm' = [k \in Keys |-> Absent]
  /\ conc' = [k \in Keys |-> 0]
  /\ tpm' = [k \in Keys |-> Absent]
  /\ counted' = {}
  /\ charge' = [r \in Requests |-> 0]
  /\ UNCHANGED <<pc, rel>>

\* Every request has been served, and every window is over.
Idle ==
  /\ \A r \in Requests : pc[r] = "done"
  /\ UNCHANGED vars

Admit(r) ==
  \/ CheckOverload(r) \/ RpmIncr(r) \/ RpmExpire(r) \/ ConcIncr(r)
  \/ ConcRollback(r) \/ TpmIncr(r) \/ TpmExpire(r) \/ TpmRollback(r)

Leave(r) ==
  \/ Finish(r) \/ FinalizeDecr(r) \/ FinalizeDelete(r)
  \/ ReleaseDecr(r) \/ ReleaseDelete(r)

Next ==
  \/ \E r \in Requests : Arrive(r) \/ Admit(r) \/ Leave(r)
  \/ \E k \in Keys : RpmWindowExpires(k) \/ TpmWindowExpires(k)
  \/ \E p \in Processes : Crash(p)
  \/ RedisRestart
  \/ Idle

Spec == Init /\ [][Next]_vars

\* An admitted task is always resumed by its event loop (the vLLM client's
\* timeouts bound the work of a holder), and Redis expires keys by itself.
Fairness ==
  /\ \A r \in Requests : WF_vars(Admit(r) \/ Leave(r))
  /\ \A k \in Keys : WF_vars(RpmWindowExpires(k)) /\ WF_vars(TpmWindowExpires(k))

FairSpec == Spec /\ Fairness

-----------------------------------------------------------------------------
TypeOK ==
  /\ pc \in [Requests -> PC]
  /\ rel \in [Requests -> Nat]
  /\ rpm \in [Keys -> Entry]
  /\ conc \in [Keys -> Int]
  /\ tpm \in [Keys -> Entry]
  /\ counted \in SUBSET Requests
  /\ charge \in [Requests -> Nat]

\* A concurrency counter never says more than the slots that were taken and not
\* given back: whatever fails, the DECRs and DELETEs of release and rollback
\* never leave a slot counted that nobody took (concurrency_limiter.py).
SlotsNeverOverCounted == \A k \in Keys : conc[k] <= Cardinality(Counted(k))

\* The requests of a key that acquire let through and whose slot is still taken.
LetThrough(k) == {r \in Counted(k) : pc[r] \in Holding \cup {"tpmIncr", "tpmExpire", "tpmRollback"}}

\* acquire answers 429 although fewer than ConcLimit requests have been let through
\* only because of somebody's INCR: of one that was refused itself and has not yet
\* rolled back, or of one that left and kept its slot.
NoFalseSlotRejection ==
  [][\A r \in Requests : pc[r] = "concIncr" /\ pc'[r] = "concRollback" =>
        \/ Cardinality(LetThrough(KeyOf[r])) >= ConcLimit
        \/ \E q \in Counted(KeyOf[r]) : pc[q] \in {"concRollback", "done"}]_vars

\* reserve answers 429 only when the tokens reserved in this window by others,
\* with those asked for, exceed TpmLimit.
NoFalseTokenRejection ==
  [][\A r \in Requests : pc[r] = "tpmIncr" /\ pc'[r] = "tpmRollback" =>
        Charges(KeyOf[r]) - charge[r] + Est[r] > TpmLimit]_vars

\* The slots a concurrency counter fails to count.
Drift(k) == Cardinality(Counted(k)) - conc[k]

\* The limit of concurrent requests is exceeded only by the slots the counter has
\* lost track of: neither failed commands, nor rollbacks that come late, nor
\* requests that left with their slot let one request more through.
LimitUpToDrift == \A k \in Keys : Cardinality(LetThrough(k)) <= ConcLimit + Drift(k)

\* A concurrency counter loses track of the slots taken in two ways only: the
\* DELETE at the end of a release, and the DECR of a request whose slot a Redis
\* restart has already wiped.  No failure, crash or rollback makes it drift.
DriftOnlyByDeleteOrRestart ==
  [][\A k \in Keys : Drift(k)' > Drift(k) =>
       \E r \in Requests : /\ KeyOf[r] = k
                           /\ \/ pc[r] = "relDel"
                              \/ /\ pc[r] \in {"relDecr", "concRollback"}
                                 /\ r \notin counted]_vars

\* A requests-per-minute counter without a time to live is about to get one:
\* otherwise the window never ends and the API key is refused for ever.
RpmWindowArmed ==
  \A k \in Keys : rpm[k].live /\ ~rpm[k].ttl =>
    \E r \in Requests : KeyOf[r] = k /\ pc[r] = "rpmExpire"

\* Every slot taken is given back, "so counters do not leak" (docs/plan.md:1480).
SlotsReturned == \A r \in Requests : r \in counted ~> r \notin counted

\* Every window ends, so that a refused key is served again: no counter of requests
\* or tokens per minute stays without a time to live (rate_limiter.py:44,
\* quota_reserver.py:69).
WindowsEnd ==
  \A k \in Keys : (rpm[k].live ~> ~rpm[k].live) /\ (tpm[k].live ~> ~tpm[k].live)
=============================================================================
