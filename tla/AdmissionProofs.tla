-------------------------- MODULE AdmissionProofs ---------------------------
(***************************************************************************)
(* Theorems about Admission, for every set of requests and keys, every     *)
(* limit and every combination of faults.                                  *)
(***************************************************************************)
EXTENDS Admission, FiniteSetTheorems, WellFoundedInduction, TLAPS

(***************************************************************************)
(* What the commands on a counter keep                                     *)
(***************************************************************************)
\* A missing key is an entry.
LEMMA AbsentEntry == Absent \in Entry /\ Absent.val = 0
BY DEF Entry, Absent

\* INCRBY leads from an entry to an entry whose value has grown by n.
LEMMA IncrByEntry ==
  ASSUME NEW e \in Entry, NEW n \in Int
  PROVE  IncrBy(e, n) \in Entry /\ IncrBy(e, n).val = e.val + n
BY DEF Entry, IncrBy

\* EXPIRE leads from an entry to an entry and keeps its value.
LEMMA ExpireEntry ==
  ASSUME NEW e \in Entry
  PROVE  Expire(e) \in Entry /\ Expire(e).val = e.val
<1>1. CASE e.live
  BY <1>1 DEF Entry, Expire
<1>2. CASE ~e.live
  BY <1>2 DEF Entry, Expire
<1>3. QED
  BY <1>1, <1>2

\* An outcome is one of the three.
LEMMA OutcomeCases ==
  ASSUME NEW o \in Outcomes
  PROVE  o \in {"ok", "lost", "noreply"}
BY DEF Outcomes

\* Giving tokens back keeps the types of the counter and of what is owed.
LEMMA GiveBackTypes ==
  ASSUME TypeOK, NEW r \in Requests, NEW n \in Nat, NEW o, GiveBack(r, n, o)
  PROVE  tpm' \in [Keys -> Entry] /\ charge' \in [Requests -> Nat]
<1>1. tpm[KeyOf[r]] \in Entry /\ -n \in Int
  BY RequestsAssumption DEF TypeOK
<1>2. IncrBy(tpm[KeyOf[r]], -n) \in Entry
  BY <1>1, IncrByEntry
<1>3. Minus(charge[r], n) \in Nat
  BY DEF TypeOK, Minus
<1>4. QED
  BY <1>1, <1>2, <1>3, RequestsAssumption DEF TypeOK, GiveBack, After

(***************************************************************************)
(* Type correctness                                                        *)
(***************************************************************************)
\* The initial state is well typed.
LEMMA InitTypeOK == Init => TypeOK
BY RequestsAssumption DEF Init, TypeOK, Entry, Absent, PC

\* Every step of admit keeps the types.
LEMMA AdmitTypeOK ==
  ASSUME TypeOK, NEW r \in Requests, Admit(r)
  PROVE  TypeOK'
<1> USE RequestsAssumption, OutcomeCases DEF TypeOK, Goto, Ran, After
<1>1. CASE CheckOverload(r)
  BY <1>1 DEF CheckOverload, PC, Admitting
<1>2. CASE RpmIncr(r)
  <2>1. IncrBy(rpm[KeyOf[r]], 1) \in Entry
    BY IncrByEntry
  <2>2. rpm' \in [Keys -> Entry]
    BY <1>2, <2>1 DEF RpmIncr
  <2>3. pc' \in [Requests -> PC]
    BY <1>2 DEF RpmIncr, AfterRpm, PC, Admitting
  <2>4. QED
    BY <1>2, <2>2, <2>3 DEF RpmIncr
<1>3. CASE RpmExpire(r)
  <2>1. Expire(rpm[KeyOf[r]]) \in Entry
    BY ExpireEntry
  <2>2. rpm' \in [Keys -> Entry]
    BY <1>3, <2>1 DEF RpmExpire
  <2>3. pc' \in [Requests -> PC]
    BY <1>3 DEF RpmExpire, AfterRpm, PC, Admitting
  <2>4. QED
    BY <1>3, <2>2, <2>3 DEF RpmExpire
<1>4. CASE ConcIncr(r)
  BY <1>4 DEF ConcIncr, Incr, AfterConc, PC, Admitting
<1>5. CASE ConcRollback(r)
  BY <1>5 DEF ConcRollback, Decr, PC
<1>6. CASE TpmIncr(r)
  <2>1. IncrBy(tpm[KeyOf[r]], Est[r]) \in Entry
    BY IncrByEntry
  <2>2. tpm' \in [Keys -> Entry]
    BY <1>6, <2>1 DEF TpmIncr
  <2>3. pc' \in [Requests -> PC]
    BY <1>6 DEF TpmIncr, AfterTpm, PC, Admitting, Holding
  <2>4. charge' \in [Requests -> Nat]
    BY <1>6 DEF TpmIncr
  <2>5. QED
    BY <1>6, <2>2, <2>3, <2>4 DEF TpmIncr
<1>7. CASE TpmExpire(r)
  <2>1. Expire(tpm[KeyOf[r]]) \in Entry
    BY ExpireEntry
  <2>2. tpm' \in [Keys -> Entry]
    BY <1>7, <2>1 DEF TpmExpire
  <2>3. pc' \in [Requests -> PC]
    BY <1>7 DEF TpmExpire, AfterTpm, PC, Admitting, Holding
  <2>4. QED
    BY <1>7, <2>2, <2>3 DEF TpmExpire
<1>8. CASE TpmRollback(r)
  <2>1. PICK o \in Outcomes : GiveBack(r, Est[r], o)
    BY <1>8 DEF TpmRollback
  <2>2. QED
    BY <1>8, <2>1, GiveBackTypes DEF TpmRollback, PC
<1>9. QED
  BY <1>1, <1>2, <1>3, <1>4, <1>5, <1>6, <1>7, <1>8 DEF Admit

\* Every step of a lease holder keeps the types.
LEMMA LeaveTypeOK ==
  ASSUME TypeOK, NEW r \in Requests, Leave(r)
  PROVE  TypeOK'
<1> USE RequestsAssumption, OutcomeCases DEF TypeOK, Goto, Ran, After
<1>1. CASE Finish(r)
  BY <1>1 DEF Finish, Unused, AfterFinish, PC, Holding
<1>2. CASE FinalizeDecr(r)
  <2>1. PICK o \in Outcomes : GiveBack(r, rel[r], o)
    BY <1>2 DEF FinalizeDecr
  <2>2. pc' \in [Requests -> PC]
    BY <1>2 DEF FinalizeDecr, PC, Holding
  <2>3. QED
    BY <1>2, <2>1, <2>2, GiveBackTypes DEF FinalizeDecr
<1>3. CASE FinalizeDelete(r)
  <2>1. tpm' \in [Keys -> Entry]
    BY <1>3, AbsentEntry DEF FinalizeDelete
  <2>2. QED
    BY <1>3, <2>1 DEF FinalizeDelete, PC, Holding
<1>4. CASE ReleaseDecr(r)
  BY <1>4 DEF ReleaseDecr, Decr, PC
<1>5. CASE ReleaseDelete(r)
  BY <1>5 DEF ReleaseDelete, PC
<1>6. QED
  BY <1>1, <1>2, <1>3, <1>4, <1>5 DEF Leave

\* Every step keeps the types.
LEMMA NextTypeOK == TypeOK /\ [Next]_vars => TypeOK'
<1> SUFFICES ASSUME TypeOK, [Next]_vars PROVE TypeOK'
  OBVIOUS
<1>1. CASE \E r \in Requests : Arrive(r)
  BY <1>1 DEF Arrive, Goto, TypeOK, PC, Admitting
<1>2. CASE \E r \in Requests : Admit(r)
  BY <1>2, AdmitTypeOK
<1>3. CASE \E r \in Requests : Leave(r)
  BY <1>3, LeaveTypeOK
<1>4. CASE \E k \in Keys : RpmWindowExpires(k)
  BY <1>4, AbsentEntry DEF RpmWindowExpires, TypeOK
<1>5. CASE \E k \in Keys : TpmWindowExpires(k)
  BY <1>5, AbsentEntry DEF TpmWindowExpires, TypeOK
<1>6. CASE \E p \in Processes : Crash(p)
  BY <1>6 DEF Crash, TypeOK, PC
<1>7. CASE RedisRestart
  BY <1>7, AbsentEntry DEF RedisRestart, TypeOK
<1>8. CASE Idle \/ UNCHANGED vars
  BY <1>8 DEF Idle, vars, TypeOK
<1>9. QED
  BY <1>1, <1>2, <1>3, <1>4, <1>5, <1>6, <1>7, <1>8 DEF Next

\* The variables keep their types, whatever fails: in particular the counters
\* stay integers, and the history variables stay what they record.
THEOREM TypeCorrect == Spec => []TypeOK
<1>1. QED
  BY InitTypeOK, NextTypeOK, PTL DEF Spec

(***************************************************************************)
(* The concurrency counter                                                 *)
(***************************************************************************)
\* A request takes its slot once: it is not counted before acquire, nor after the
\* DECR of its release has answered.
Unslotted == \A r \in Requests :
  pc[r] \in {"new", "overload", "rpmIncr", "rpmExpire", "concIncr", "relDel"} => r \notin counted

\* The inductive invariant.  The bound alone would not survive the INCR of a
\* request that is counted already.
SlotInv == TypeOK /\ Unslotted /\ SlotsNeverOverCounted

\* The slots of a key are finitely many.
LEMMA CountedFinite ==
  ASSUME TypeOK, NEW k \in Keys
  PROVE  IsFiniteSet(Counted(k)) /\ Cardinality(Counted(k)) \in Nat
<1>1. Counted(k) \in SUBSET Requests
  BY DEF Counted, TypeOK
<1>2. QED
  BY <1>1, RequestsAssumption, FS_Subset, FS_CardinalityType

\* Counting a request adds one slot to its key and none to another.
LEMMA CountOne ==
  ASSUME TypeOK, NEW r \in Requests, r \notin counted, counted' = counted \cup {r},
         NEW k \in Keys
  PROVE  Cardinality(Counted(k)') =
           IF k = KeyOf[r] THEN Cardinality(Counted(k)) + 1 ELSE Cardinality(Counted(k))
<1>1. CASE k = KeyOf[r]
  <2>1. Counted(k)' = Counted(k) \cup {r} /\ r \notin Counted(k)
    BY <1>1 DEF Counted
  <2>2. QED
    BY <1>1, <2>1, CountedFinite, FS_AddElement
<1>2. CASE k # KeyOf[r]
  <2>1. Counted(k)' = Counted(k)
    BY <1>2 DEF Counted
  <2>2. QED
    BY <1>2, <2>1
<1>3. QED
  BY <1>1, <1>2

\* Counting a request off removes its slot, if it is counted, and no other.
LEMMA CountOff ==
  ASSUME TypeOK, NEW r \in Requests, counted' = counted \ {r}, NEW k \in Keys
  PROVE  Cardinality(Counted(k)') =
           IF k = KeyOf[r] /\ r \in counted THEN Cardinality(Counted(k)) - 1
                                            ELSE Cardinality(Counted(k))
<1>1. CASE k = KeyOf[r]
  <2>1. Counted(k)' = Counted(k) \ {r} /\ (r \in Counted(k) <=> r \in counted)
    BY <1>1 DEF Counted
  <2> DEFINE C == Counted(k)
             D == Counted(k)'
  <2>2. IsFiniteSet(C) /\ Cardinality(C) \in Nat
    BY CountedFinite
  <2>3. D = C \ {r}
    BY <2>1
  <2> HIDE DEF C, D
  <2>4. Cardinality(D) = IF r \in C THEN Cardinality(C) - 1 ELSE Cardinality(C)
    BY <2>2, <2>3, FS_RemoveElement
  <2>5. QED
    BY <1>1, <2>1, <2>4 DEF C, D
<1>2. CASE k # KeyOf[r]
  <2>1. Counted(k)' = Counted(k)
    BY <1>2 DEF Counted
  <2>2. QED
    BY <1>2, <2>1
<1>3. QED
  BY <1>1, <1>2

\* A DECR keeps the bound: the counter loses one, the slots at most one.
LEMMA DecrKeepsBound ==
  ASSUME SlotInv, NEW r \in Requests, NEW o \in Outcomes, Decr(r, o)
  PROVE  SlotsNeverOverCounted'
<1>1. CASE Ran(o)
  <2>1. counted' = counted \ {r} /\ conc' = [conc EXCEPT ![KeyOf[r]] = @ - 1]
    BY <1>1 DEF Decr, After
  <2>2. SUFFICES ASSUME NEW k \in Keys PROVE conc'[k] <= Cardinality(Counted(k)')
    BY DEF SlotsNeverOverCounted, Counted
  <2>3. Cardinality(Counted(k)') >= Cardinality(Counted(k)) - 1
    BY <2>1, CountOff, CountedFinite DEF SlotInv
  <2>4. k # KeyOf[r] => Cardinality(Counted(k)') = Cardinality(Counted(k))
    BY <2>1, CountOff DEF SlotInv
  <2>5. conc[k] \in Int /\ conc[k] <= Cardinality(Counted(k)) /\ Cardinality(Counted(k)) \in Nat
    BY CountedFinite DEF SlotInv, TypeOK, SlotsNeverOverCounted
  <2>6. conc'[k] = IF k = KeyOf[r] THEN conc[k] - 1 ELSE conc[k]
    BY <2>1 DEF SlotInv, TypeOK
  <2>7. IsFiniteSet(Counted(k)) /\ Cardinality(Counted(k)') \in Int
    BY <2>1, <2>5, CountOff, CountedFinite DEF SlotInv
  <2>8. QED
    BY <2>3, <2>4, <2>5, <2>6, <2>7
<1>2. CASE ~Ran(o)
  BY <1>2 DEF Decr, After, SlotInv, SlotsNeverOverCounted, Counted
<1>3. QED
  BY <1>1, <1>2

\* The INCR of acquire keeps the bound: the counter and the slots gain one each.
LEMMA IncrKeepsBound ==
  ASSUME SlotInv, NEW r \in Requests, ConcIncr(r)
  PROVE  SlotsNeverOverCounted'
<1>1. r \notin counted
  BY DEF SlotInv, Unslotted, ConcIncr
<1>2. PICK o \in Outcomes :
        /\ conc' = After(conc, KeyOf[r], o, LAMBDA n : n + 1)
        /\ counted' = IF Ran(o) THEN counted \cup {r} ELSE counted
  BY DEF ConcIncr, Incr
<1>3. CASE Ran(o)
  <2>1. counted' = counted \cup {r} /\ conc' = [conc EXCEPT ![KeyOf[r]] = @ + 1]
    BY <1>2, <1>3 DEF After
  <2>2. SUFFICES ASSUME NEW k \in Keys PROVE conc'[k] <= Cardinality(Counted(k)')
    BY DEF SlotsNeverOverCounted, Counted
  <2>3. Cardinality(Counted(k)') =
          IF k = KeyOf[r] THEN Cardinality(Counted(k)) + 1 ELSE Cardinality(Counted(k))
    BY <1>1, <2>1, CountOne DEF SlotInv
  <2>4. conc[k] \in Int /\ conc[k] <= Cardinality(Counted(k)) /\ Cardinality(Counted(k)) \in Nat
    BY CountedFinite DEF SlotInv, TypeOK, SlotsNeverOverCounted
  <2>5. conc'[k] = IF k = KeyOf[r] THEN conc[k] + 1 ELSE conc[k]
    BY <2>1 DEF SlotInv, TypeOK
  <2>6. QED
    BY <2>3, <2>4, <2>5
<1>4. CASE ~Ran(o)
  BY <1>2, <1>4 DEF After, SlotInv, SlotsNeverOverCounted, Counted
<1>5. QED
  BY <1>3, <1>4

\* Steps that leave the counter and the slots alone keep the bound.
LEMMA OtherKeepsBound ==
  ASSUME SlotsNeverOverCounted, UNCHANGED <<conc, counted>>
  PROVE  SlotsNeverOverCounted'
BY DEF SlotsNeverOverCounted, Counted

\* The invariant holds initially: nothing is counted.
LEMMA InitSlotInv == Init => SlotInv
<1> SUFFICES ASSUME Init PROVE SlotInv
  OBVIOUS
<1>1. TypeOK
  BY InitTypeOK
<1>2. \A k \in Keys : Counted(k) = {}
  BY DEF Init, Counted
<1>3. SlotsNeverOverCounted
  BY <1>2, FS_EmptySet DEF Init, SlotsNeverOverCounted
<1>4. Unslotted
  BY DEF Init, Unslotted
<1>5. QED
  BY <1>1, <1>3, <1>4 DEF SlotInv

\* The steps of admit keep the invariant.
LEMMA AdmitSlotInv ==
  ASSUME SlotInv, NEW r \in Requests, Admit(r)
  PROVE  Unslotted' /\ SlotsNeverOverCounted'
<1> USE DEF SlotInv, TypeOK, Unslotted, Goto
<1>1. CASE CheckOverload(r)
  BY <1>1, OtherKeepsBound DEF CheckOverload
<1>2. CASE RpmIncr(r)
  BY <1>2, OtherKeepsBound DEF RpmIncr, AfterRpm
<1>3. CASE RpmExpire(r)
  BY <1>3, OtherKeepsBound DEF RpmExpire, AfterRpm
<1>4. CASE ConcIncr(r)
  <2>1. SlotsNeverOverCounted'
    BY <1>4, IncrKeepsBound
  <2>2. Unslotted'
    BY <1>4 DEF ConcIncr, Incr, AfterConc
  <2>3. QED
    BY <2>1, <2>2
<1>5. CASE ConcRollback(r)
  <2>1. SlotsNeverOverCounted'
    BY <1>5, DecrKeepsBound DEF ConcRollback
  <2>2. Unslotted'
    BY <1>5 DEF ConcRollback, Decr
  <2>3. QED
    BY <2>1, <2>2
<1>6. CASE TpmIncr(r)
  BY <1>6, OtherKeepsBound DEF TpmIncr, AfterTpm
<1>7. CASE TpmExpire(r)
  BY <1>7, OtherKeepsBound DEF TpmExpire, AfterTpm
<1>8. CASE TpmRollback(r)
  BY <1>8, OtherKeepsBound DEF TpmRollback
<1>9. QED
  BY <1>1, <1>2, <1>3, <1>4, <1>5, <1>6, <1>7, <1>8 DEF Admit

\* The DELETE at the end of a release can only lower a counter that was raised
\* since, or raise one that is below zero to zero: the bound survives it.
LEMMA DeleteKeepsBound ==
  ASSUME SlotInv, NEW r \in Requests, ReleaseDelete(r)
  PROVE  SlotsNeverOverCounted'
<1>1. SUFFICES ASSUME NEW k \in Keys PROVE conc'[k] <= Cardinality(Counted(k))
  BY DEF ReleaseDelete, SlotsNeverOverCounted, Counted
<1>2. conc'[k] = 0 \/ conc'[k] = conc[k]
  BY DEF ReleaseDelete, After, SlotInv, TypeOK
<1>3. Cardinality(Counted(k)) \in Nat
  BY CountedFinite DEF SlotInv
<1>4. QED
  BY <1>2, <1>3 DEF SlotInv, SlotsNeverOverCounted

\* The steps of a lease holder keep the invariant.
LEMMA LeaveSlotInv ==
  ASSUME SlotInv, NEW r \in Requests, Leave(r)
  PROVE  Unslotted' /\ SlotsNeverOverCounted'
<1> USE DEF SlotInv, TypeOK, Unslotted, Goto
<1>1. CASE Finish(r)
  BY <1>1, OtherKeepsBound DEF Finish, AfterFinish
<1>2. CASE FinalizeDecr(r)
  BY <1>2, OtherKeepsBound DEF FinalizeDecr
<1>3. CASE FinalizeDelete(r)
  BY <1>3, OtherKeepsBound DEF FinalizeDelete
<1>4. CASE ReleaseDecr(r)
  <2>1. SlotsNeverOverCounted'
    BY <1>4, DecrKeepsBound DEF ReleaseDecr
  <2>2. PICK o \in Outcomes :
          /\ counted' = IF Ran(o) THEN counted \ {r} ELSE counted
          /\ Goto(r, IF o = "ok" /\ conc'[KeyOf[r]] <= 0 THEN "relDel" ELSE "done")
    BY <1>4 DEF ReleaseDecr, Decr
  <2>3. pc'[r] = "relDel" => r \notin counted'
    BY <2>2 DEF Ran
  <2>4. pc'[r] \in {"relDel", "done"} /\ counted' \subseteq counted
    BY <2>2
  <2>5. \A q \in Requests \ {r} : pc'[q] = pc[q]
    BY <2>2
  <2>6. Unslotted'
    BY <2>3, <2>4, <2>5
  <2>7. QED
    BY <2>1, <2>6
<1>5. CASE ReleaseDelete(r)
  <2>1. SlotsNeverOverCounted'
    BY <1>5, DeleteKeepsBound
  <2>2. Unslotted'
    BY <1>5 DEF ReleaseDelete
  <2>3. QED
    BY <2>1, <2>2
<1>6. QED
  BY <1>1, <1>2, <1>3, <1>4, <1>5 DEF Leave

\* Every step keeps the invariant.
LEMMA NextSlotInv == SlotInv /\ [Next]_vars => SlotInv'
<1> SUFFICES ASSUME SlotInv, [Next]_vars PROVE Unslotted' /\ SlotsNeverOverCounted'
  BY NextTypeOK DEF SlotInv
<1>1. CASE \E r \in Requests : Arrive(r)
  BY <1>1, OtherKeepsBound DEF Arrive, Goto, SlotInv, TypeOK, Unslotted
<1>2. CASE \E r \in Requests : Admit(r)
  BY <1>2, AdmitSlotInv
<1>3. CASE \E r \in Requests : Leave(r)
  BY <1>3, LeaveSlotInv
<1>4. CASE \E k \in Keys : RpmWindowExpires(k) \/ TpmWindowExpires(k)
  BY <1>4, OtherKeepsBound DEF RpmWindowExpires, TpmWindowExpires, SlotInv, Unslotted
<1>5. CASE \E p \in Processes : Crash(p)
  BY <1>5, OtherKeepsBound DEF Crash, SlotInv, TypeOK, Unslotted
<1>6. CASE RedisRestart
  <2>1. \A k \in Keys : conc'[k] = 0 /\ Counted(k)' = {}
    BY <1>6 DEF RedisRestart, Counted
  <2>2. SlotsNeverOverCounted'
    BY <2>1, FS_EmptySet DEF SlotsNeverOverCounted
  <2>3. QED
    BY <1>6, <2>2 DEF RedisRestart, Unslotted
<1>7. CASE Idle \/ UNCHANGED vars
  BY <1>7, OtherKeepsBound DEF Idle, vars, SlotInv, Unslotted
<1>8. QED
  BY <1>1, <1>2, <1>3, <1>4, <1>5, <1>6, <1>7 DEF Next

\* Whatever fails or crashes, and however the commands interleave, a concurrency
\* counter never counts a slot that nobody took.
THEOREM SlotsBound == Spec => []SlotsNeverOverCounted
<1>1. SlotInv => SlotsNeverOverCounted
  BY DEF SlotInv
<1>2. QED
  BY <1>1, InitSlotInv, NextSlotInv, PTL DEF Spec

\* The slots a request finds counted when acquire refuses it.
LEMMA RefusalFindsLimit ==
  ASSUME SlotInv, [Next]_vars, NEW r \in Requests,
         pc[r] = "concIncr", pc'[r] = "concRollback"
  PROVE  Cardinality(Counted(KeyOf[r])) >= ConcLimit
<1>1. ConcIncr(r)
  <2>1. PICK q \in Requests : Arrive(q) \/ Admit(q) \/ Leave(q)
    BY DEF Next, vars, RpmWindowExpires, TpmWindowExpires, Crash, RedisRestart, Idle, SlotInv, TypeOK
  <2>2. q = r
    BY <2>1 DEF Arrive, Admit, Leave, CheckOverload, RpmIncr, RpmExpire, ConcIncr, ConcRollback,
             TpmIncr, TpmExpire, TpmRollback, Finish, FinalizeDecr, FinalizeDelete,
             ReleaseDecr, ReleaseDelete, Goto, SlotInv, TypeOK
  <2>3. QED
    BY <2>1, <2>2 DEF Arrive, Admit, Leave, CheckOverload, RpmIncr, RpmExpire, ConcRollback,
             TpmIncr, TpmExpire, TpmRollback, Finish, FinalizeDecr, FinalizeDelete,
             ReleaseDecr, ReleaseDelete
<1>2. conc'[KeyOf[r]] = conc[KeyOf[r]] + 1 /\ conc'[KeyOf[r]] > ConcLimit
  BY <1>1, RequestsAssumption DEF ConcIncr, Incr, After, Ran, Outcomes, AfterConc, Goto, SlotInv, TypeOK
<1>3. conc[KeyOf[r]] <= Cardinality(Counted(KeyOf[r])) /\ conc[KeyOf[r]] \in Int
  BY RequestsAssumption DEF SlotInv, SlotsNeverOverCounted, TypeOK
<1>4. Cardinality(Counted(KeyOf[r])) \in Nat
  BY RequestsAssumption, CountedFinite DEF SlotInv
<1>5. QED
  BY <1>2, <1>3, <1>4, LimitsAssumption

\* Who is counted has been let through, waits to roll back, or has left with his slot.
LEMMA WhoIsCounted ==
  ASSUME SlotInv, NEW k \in Keys, \A q \in Counted(k) : pc[q] \notin {"concRollback", "done"}
  PROVE  LetThrough(k) = Counted(k)
<1>1. \A q \in Counted(k) : q \in Requests /\ q \in counted /\ pc[q] \in PC
  BY DEF Counted, SlotInv, TypeOK
<1>2. ASSUME NEW q \in Counted(k)
      PROVE  pc[q] \in Holding \cup {"tpmIncr", "tpmExpire", "tpmRollback"}
  BY <1>1 DEF SlotInv, Unslotted, PC, Admitting, Holding
<1>3. QED
  BY <1>2 DEF LetThrough

\* acquire refuses a request when ConcLimit others have been let through; and otherwise
\* only because of the INCR of one that was refused too and is about to roll back
\* (concurrency_limiter.py:46), or of one that left with its slot.
THEOREM NoFalseRefusal == Spec => NoFalseSlotRejection
<1>1. SlotInv /\ [Next]_vars =>
        \A r \in Requests : pc[r] = "concIncr" /\ pc'[r] = "concRollback" =>
          \/ Cardinality(LetThrough(KeyOf[r])) >= ConcLimit
          \/ \E q \in Counted(KeyOf[r]) : pc[q] \in {"concRollback", "done"}
  BY RefusalFindsLimit, WhoIsCounted, RequestsAssumption
<1>2. QED
  BY <1>1, InitSlotInv, NextSlotInv, PTL DEF Spec, NoFalseSlotRejection

(***************************************************************************)
(* The requests-per-minute window                                          *)
(***************************************************************************)
\* The inductive invariant: a missing key counts from zero, so that the INCR
\* that creates it answers 1 and its caller goes on to EXPIRE.
RpmInv ==
  /\ TypeOK
  /\ \A k \in Keys : ~rpm[k].live => rpm[k] = Absent
  /\ RpmWindowArmed

\* Steps that leave the counter alone and take no request off rpmExpire.
LEMMA OtherKeepsRpm ==
  ASSUME RpmInv, TypeOK', rpm' = rpm,
         \A q \in Requests : pc[q] = "rpmExpire" => pc'[q] = "rpmExpire"
  PROVE  RpmInv'
BY DEF RpmInv, RpmWindowArmed

\* The INCR that creates the key leaves its caller at EXPIRE.
LEMMA RpmIncrKeepsArmed ==
  ASSUME RpmInv, Faults \subseteq {"restart"}, NEW r \in Requests, RpmIncr(r), TypeOK'
  PROVE  RpmInv'
<1> DEFINE k0 == KeyOf[r]
<1>0. k0 \in Keys /\ rpm[k0] \in Entry
  BY RequestsAssumption DEF RpmInv, TypeOK
<1>1. /\ rpm' = [rpm EXCEPT ![k0] = IncrBy(@, 1)]
      /\ pc' = [pc EXCEPT ![r] = IF rpm'[k0].val = 1 THEN "rpmExpire" ELSE AfterRpm(rpm'[k0].val)]
  BY DEF RpmIncr, OpensRpmWindow, Outcomes, After, Ran, Goto
<1>2. /\ rpm'[k0] = IncrBy(rpm[k0], 1)
      /\ \A k \in Keys : k # k0 => rpm'[k] = rpm[k]
  BY <1>0, <1>1 DEF RpmInv, TypeOK
<1>3. /\ rpm'[k0].live
      /\ rpm'[k0].ttl = rpm[k0].ttl
      /\ rpm'[k0].val = rpm[k0].val + 1
  BY <1>2 DEF IncrBy
<1>4. pc[r] = "rpmIncr" /\ \A q \in Requests : pc[q] = "rpmExpire" => pc'[q] = "rpmExpire"
  BY <1>1 DEF RpmIncr, RpmInv, TypeOK
<1>5. ~rpm[k0].live => pc'[r] = "rpmExpire"
  BY <1>0, <1>1, <1>3 DEF RpmInv, TypeOK, Absent
<1>6. ASSUME NEW k \in Keys, rpm'[k].live, ~rpm'[k].ttl
      PROVE  \E q \in Requests : KeyOf[q] = k /\ pc'[q] = "rpmExpire"
  <2>1. CASE k = k0 /\ ~rpm[k0].live
    BY <1>5, <2>1
  <2>2. CASE k # k0 \/ rpm[k0].live
    <3>1. rpm[k].live /\ ~rpm[k].ttl
      BY <1>2, <1>3, <1>6, <2>2
    <3>2. QED
      BY <1>4, <3>1 DEF RpmInv, RpmWindowArmed
  <2>3. QED
    BY <2>1, <2>2
<1>7. \A k \in Keys : ~rpm'[k].live => rpm'[k] = Absent
  BY <1>2, <1>3 DEF RpmInv
<1>8. QED
  BY <1>6, <1>7 DEF RpmInv, RpmWindowArmed

\* The EXPIRE arms the window its caller was about to arm.
LEMMA RpmExpireKeepsArmed ==
  ASSUME RpmInv, Faults \subseteq {"restart"}, NEW r \in Requests, RpmExpire(r), TypeOK'
  PROVE  RpmInv'
<1> DEFINE k0 == KeyOf[r]
<1>0. k0 \in Keys /\ rpm[k0] \in Entry
  BY RequestsAssumption DEF RpmInv, TypeOK
<1>1. rpm' = [rpm EXCEPT ![k0] = Expire(@)] /\ pc' = [pc EXCEPT ![r] = AfterRpm(1)]
  BY DEF RpmExpire, Outcomes, After, Ran, Goto
<1>2. /\ rpm'[k0] = Expire(rpm[k0])
      /\ \A k \in Keys : k # k0 => rpm'[k] = rpm[k]
  BY <1>0, <1>1 DEF RpmInv, TypeOK
<1>3. \A q \in Requests : pc[q] = "rpmExpire" /\ q # r => pc'[q] = "rpmExpire"
  BY <1>1 DEF RpmInv, TypeOK
<1>4. rpm[k0].live => rpm'[k0].ttl
  BY <1>0, <1>2 DEF Expire, Entry
<1>5. ~rpm[k0].live => rpm'[k0] = Absent
  BY <1>0, <1>2 DEF Expire, RpmInv
<1>6. rpm[k0].live => rpm'[k0].live
  BY <1>0, <1>2 DEF Expire, Entry
<1>7. ~Absent.live
  BY DEF Absent
<1>8. ASSUME NEW k \in Keys, rpm'[k].live, ~rpm'[k].ttl
      PROVE  \E q \in Requests : KeyOf[q] = k /\ pc'[q] = "rpmExpire"
  <2>1. k # k0
    BY <1>4, <1>5, <1>7, <1>8
  <2>2. PICK q \in Requests : KeyOf[q] = k /\ pc[q] = "rpmExpire"
    BY <1>2, <1>8, <2>1 DEF RpmInv, RpmWindowArmed
  <2>3. QED
    BY <1>3, <2>1, <2>2
<1>9. \A k \in Keys : ~rpm'[k].live => rpm'[k] = Absent
  BY <1>2, <1>5, <1>6 DEF RpmInv
<1>10. QED
  BY <1>8, <1>9 DEF RpmInv, RpmWindowArmed

\* Every step keeps the invariant, when no command fails and no process dies.
LEMMA NextRpmInv ==
  ASSUME Faults \subseteq {"restart"}
  PROVE  RpmInv /\ [Next]_vars => RpmInv'
<1> SUFFICES ASSUME RpmInv, [Next]_vars PROVE RpmInv'
  OBVIOUS
<1>0. TypeOK /\ TypeOK'
  BY NextTypeOK DEF RpmInv
<1>1. CASE \E r \in Requests : RpmIncr(r)
  BY <1>0, <1>1, RpmIncrKeepsArmed
<1>2. CASE \E r \in Requests : RpmExpire(r)
  BY <1>0, <1>2, RpmExpireKeepsArmed
<1>3. ASSUME NEW r \in Requests, Arrive(r) \/ Admit(r), ~RpmIncr(r), ~RpmExpire(r)
      PROVE  RpmInv'
  BY <1>0, <1>3, OtherKeepsRpm DEF Arrive, Admit, CheckOverload, ConcIncr, ConcRollback,
     TpmIncr, TpmExpire, TpmRollback, Goto, TypeOK
<1>4. ASSUME NEW r \in Requests, Leave(r) PROVE RpmInv'
  BY <1>0, <1>4, OtherKeepsRpm DEF Leave, Finish, FinalizeDecr, FinalizeDelete,
     ReleaseDecr, ReleaseDelete, AfterFinish, Goto, TypeOK
<1>5. ASSUME NEW k \in Keys, RpmWindowExpires(k) PROVE RpmInv'
  <2>1. rpm' = [rpm EXCEPT ![k] = Absent] /\ pc' = pc
    BY <1>5 DEF RpmWindowExpires
  <2>2. \A j \in Keys : rpm'[j] = IF j = k THEN Absent ELSE rpm[j]
    BY <1>0, <2>1 DEF TypeOK
  <2>3. ~Absent.live
    BY DEF Absent
  <2>4. QED
    BY <1>0, <2>1, <2>2, <2>3 DEF RpmInv, RpmWindowArmed
<1>6. ASSUME NEW k \in Keys, TpmWindowExpires(k) PROVE RpmInv'
  BY <1>0, <1>6, OtherKeepsRpm DEF TpmWindowExpires
<1>7. ASSUME NEW p \in Processes, Crash(p) PROVE RpmInv'
  BY <1>7 DEF Crash
<1>8. CASE RedisRestart
  BY <1>0, <1>8 DEF RedisRestart, RpmInv, RpmWindowArmed, Absent
<1>9. CASE Idle \/ UNCHANGED vars
  BY <1>0, <1>9, OtherKeepsRpm DEF Idle, vars
<1>10. QED
  BY <1>1, <1>2, <1>3, <1>4, <1>5, <1>6, <1>7, <1>8, <1>9 DEF Next

\* The invariant holds initially: no key is there.
LEMMA InitRpmInv == Init => RpmInv
BY InitTypeOK DEF Init, RpmInv, RpmWindowArmed, Absent

\* As long as commands answer and processes live, every requests-per-minute
\* counter has a time to live or is about to be given one, even across restarts
\* of Redis: no API key is refused for ever.
THEOREM RpmArmed ==
  ASSUME Faults \subseteq {"restart"}
  PROVE  Spec => []RpmWindowArmed
<1>1. RpmInv => RpmWindowArmed
  BY DEF RpmInv
<1>2. RpmInv /\ [Next]_vars => RpmInv'
  BY NextRpmInv
<1>3. QED
  BY <1>1, <1>2, InitRpmInv, PTL DEF Spec

(***************************************************************************)
(* The limit of concurrent requests                                        *)
(***************************************************************************)
\* Where a request is that acquire has let through.
Inside == Holding \cup {"tpmIncr", "tpmExpire", "tpmRollback"}

\* The limit of one key, without differences: what the counter says and what it let
\* through are at most the limit and what was really taken.
KeyLimit(k) == conc[k] + Cardinality(LetThrough(k)) <= ConcLimit + Cardinality(Counted(k))

\* The inductive invariant.
LimitInv == SlotInv /\ \A k \in Keys : KeyLimit(k)

\* The slots let through are some of the slots taken.
LEMMA ThroughFinite ==
  ASSUME TypeOK, NEW k \in Keys
  PROVE  /\ LetThrough(k) \subseteq Counted(k)
         /\ IsFiniteSet(LetThrough(k)) /\ Cardinality(LetThrough(k)) \in Nat
         /\ Cardinality(LetThrough(k)) <= Cardinality(Counted(k))
<1>1. LetThrough(k) \subseteq Counted(k)
  BY DEF LetThrough
<1>2. QED
  BY <1>1, CountedFinite, FS_Subset, FS_CardinalityType

\* The same of the next state.
LEMMA ThroughFinitePrime ==
  ASSUME TypeOK', NEW k \in Keys
  PROVE  /\ IsFiniteSet(Counted(k)') /\ Cardinality(Counted(k)') \in Nat
         /\ Cardinality(LetThrough(k)') \in Nat
         /\ Cardinality(LetThrough(k)') <= Cardinality(Counted(k)')
<1>1. Counted(k)' \in SUBSET Requests /\ LetThrough(k)' \subseteq Counted(k)'
  BY DEF Counted, LetThrough, TypeOK
<1>2. QED
  BY <1>1, RequestsAssumption, FS_Subset, FS_CardinalityType

\* A step that leaves counter and slots alone and lets nobody else through keeps
\* the limit.
LEMMA FewerKeepsLimit ==
  ASSUME LimitInv, TypeOK', conc' = conc, counted' = counted,
         \A r \in Requests : pc'[r] \in Inside => pc[r] \in Inside
  PROVE  \A k \in Keys : KeyLimit(k)'
<1> SUFFICES ASSUME NEW k \in Keys PROVE KeyLimit(k)'
  OBVIOUS
<1>1. TypeOK
  BY DEF LimitInv, SlotInv
<1>2. Counted(k)' = Counted(k)
  BY DEF Counted
<1>3. LetThrough(k)' \subseteq LetThrough(k)
  BY <1>2 DEF LetThrough, Inside, Counted, TypeOK
<1>4. Cardinality(LetThrough(k)') <= Cardinality(LetThrough(k)) /\ Cardinality(LetThrough(k)') \in Nat
  BY <1>1, <1>3, ThroughFinite, FS_Subset, FS_CardinalityType
<1>5. conc[k] \in Int /\ Cardinality(LetThrough(k)) \in Nat /\ Cardinality(Counted(k)) \in Nat
  BY <1>1, CountedFinite, ThroughFinite DEF TypeOK
<1>6. QED
  BY <1>2, <1>4, <1>5, LimitsAssumption DEF LimitInv, KeyLimit

\* The INCR of acquire keeps the limit: it lets a request through only when the
\* counter is within the limit, and then nothing the counter misses matters.
LEMMA IncrKeepsLimit ==
  ASSUME LimitInv, TypeOK', NEW r \in Requests, ConcIncr(r)
  PROVE  \A k \in Keys : KeyLimit(k)'
<1> SUFFICES ASSUME NEW k \in Keys PROVE KeyLimit(k)'
  OBVIOUS
<1>0. TypeOK /\ r \notin counted
  BY DEF LimitInv, SlotInv, Unslotted, ConcIncr
<1>1. PICK o \in Outcomes :
        /\ Incr(r, o)
        /\ Goto(r, IF o # "ok" THEN "done" ELSE AfterConc(conc'[KeyOf[r]]))
  BY DEF ConcIncr
<1>2. \A q \in Requests \ {r} : pc'[q] = pc[q]
  BY <1>0, <1>1 DEF Goto, TypeOK
<1>3. /\ conc[k] \in Int /\ conc'[k] \in Int
      /\ Cardinality(LetThrough(k)) \in Nat /\ Cardinality(Counted(k)) \in Nat
      /\ Cardinality(LetThrough(k)') \in Nat /\ Cardinality(Counted(k)') \in Nat
      /\ Cardinality(LetThrough(k)') <= Cardinality(Counted(k)')
  <2>1. Cardinality(LetThrough(k)') \in Nat /\ Cardinality(Counted(k)') \in Nat
        /\ Cardinality(LetThrough(k)') <= Cardinality(Counted(k)')
    BY ThroughFinitePrime
  <2>2. QED
    BY <1>0, <2>1, CountedFinite, ThroughFinite DEF TypeOK
<1>4. CASE Ran(o) /\ k = KeyOf[r]
  <2>1. counted' = counted \cup {r} /\ conc'[k] = conc[k] + 1
    BY <1>0, <1>1, <1>4 DEF Incr, After, TypeOK
  <2>2. CASE pc'[r] \in Inside
    <3>1. conc'[k] <= ConcLimit
      BY <1>0, <1>1, <1>3, <1>4, <2>2, LimitsAssumption DEF Goto, TypeOK, AfterConc, Inside, Holding
    <3>2. QED
      BY <1>3, <3>1, LimitsAssumption DEF KeyLimit
  <2>3. CASE pc'[r] \notin Inside
    <3>1. LetThrough(k)' \subseteq LetThrough(k)
      BY <1>0, <1>2, <2>1, <2>3 DEF LetThrough, Counted, Inside, TypeOK
    <3>2. Cardinality(LetThrough(k)') <= Cardinality(LetThrough(k))
      BY <1>0, <3>1, ThroughFinite, FS_Subset
    <3>3. Cardinality(Counted(k)') = Cardinality(Counted(k)) + 1
      BY <1>0, <1>4, <2>1, CountOne
    <3>4. QED
      BY <1>3, <2>1, <3>2, <3>3, LimitsAssumption DEF LimitInv, KeyLimit
  <2>4. QED
    BY <2>2, <2>3
<1>5. CASE ~(Ran(o) /\ k = KeyOf[r])
  <2>1. conc'[k] = conc[k] /\ Counted(k)' = Counted(k)
    BY <1>0, <1>1, <1>5 DEF Incr, After, TypeOK, Counted
  <2>2. LetThrough(k)' \subseteq LetThrough(k)
    <3>1. \A q \in Counted(k) : q # r /\ q \in Requests
      BY <1>0 DEF Counted, TypeOK
    <3>2. QED
      BY <1>2, <2>1, <3>1 DEF LetThrough, Inside
  <2>3. Cardinality(LetThrough(k)') <= Cardinality(LetThrough(k))
    BY <1>0, <2>2, ThroughFinite, FS_Subset
  <2>4. QED
    BY <1>3, <2>1, <2>3, LimitsAssumption DEF LimitInv, KeyLimit
<1>6. QED
  BY <1>4, <1>5

\* A DECR keeps the limit: the counter loses one, and the slots taken at most one.
LEMMA DecrKeepsLimit ==
  ASSUME LimitInv, TypeOK', NEW r \in Requests, NEW o \in Outcomes, Decr(r, o),
         \A q \in Requests : pc'[q] \in Inside => pc[q] \in Inside
  PROVE  \A k \in Keys : KeyLimit(k)'
<1>0. TypeOK
  BY DEF LimitInv, SlotInv
<1>1. CASE ~Ran(o)
  <2>1. conc' = conc /\ counted' = counted
    BY <1>1 DEF Decr, After
  <2>2. QED
    BY <2>1, FewerKeepsLimit
<1>2. CASE Ran(o)
  <2> SUFFICES ASSUME NEW k \in Keys PROVE KeyLimit(k)'
    OBVIOUS
  <2>1. counted' = counted \ {r} /\ conc' = [conc EXCEPT ![KeyOf[r]] = @ - 1]
    BY <1>2 DEF Decr, After
  <2>2. LetThrough(k)' \subseteq LetThrough(k)
    BY <1>0, <2>1 DEF LetThrough, Counted, Inside, TypeOK
  <2>3. Cardinality(LetThrough(k)') <= Cardinality(LetThrough(k))
    BY <1>0, <2>2, ThroughFinite, FS_Subset
  <2>4. /\ conc[k] \in Int /\ Cardinality(LetThrough(k)) \in Nat
        /\ Cardinality(Counted(k)) \in Nat /\ Cardinality(LetThrough(k)') \in Nat
    BY <1>0, CountedFinite, ThroughFinite, ThroughFinitePrime DEF TypeOK
  <2>5. CASE k = KeyOf[r]
    <3>1. conc'[k] = conc[k] - 1 /\ Cardinality(Counted(k)') >= Cardinality(Counted(k)) - 1
      BY <1>0, <2>1, <2>4, <2>5, CountOff DEF TypeOK
    <3>2. Cardinality(Counted(k)') \in Nat
      BY ThroughFinitePrime
    <3>3. QED
      BY <2>3, <2>4, <3>1, <3>2, LimitsAssumption DEF LimitInv, KeyLimit
  <2>6. CASE k # KeyOf[r]
    <3>1. conc'[k] = conc[k] /\ Counted(k)' = Counted(k)
      BY <1>0, <2>1, <2>6 DEF TypeOK, Counted
    <3>2. QED
      BY <2>3, <2>4, <3>1, LimitsAssumption DEF LimitInv, KeyLimit
  <2>7. QED
    BY <2>5, <2>6
<1>3. QED
  BY <1>1, <1>2

\* A counter set to zero keeps the limit, since what it lets through was taken: the
\* DELETE of a release, and a restart of Redis.
LEMMA ZeroKeepsLimit ==
  ASSUME LimitInv, TypeOK', NEW k \in Keys, conc'[k] = 0
  PROVE  KeyLimit(k)'
BY ThroughFinitePrime, LimitsAssumption DEF KeyLimit

\* The steps of one request keep the limit.
LEMMA RequestKeepsLimit ==
  ASSUME LimitInv, TypeOK', NEW r \in Requests, Arrive(r) \/ Admit(r) \/ Leave(r)
  PROVE  \A k \in Keys : KeyLimit(k)'
<1>0. TypeOK
  BY DEF LimitInv, SlotInv
<1>1. ~ConcIncr(r) => \A q \in Requests : pc'[q] \in Inside => pc[q] \in Inside
  BY <1>0 DEF Arrive, Admit, Leave, CheckOverload, RpmIncr, AfterRpm, RpmExpire, ConcRollback,
     TpmIncr, AfterTpm, TpmExpire, TpmRollback, Finish, AfterFinish, FinalizeDecr, FinalizeDelete,
     ReleaseDecr, ReleaseDelete, Goto, Inside, Holding, TypeOK
<1>2. CASE ConcIncr(r)
  BY <1>2, IncrKeepsLimit
<1>3. CASE ConcRollback(r) \/ ReleaseDecr(r)
  <2>1. ~ConcIncr(r)
    BY <1>3 DEF ConcIncr, ConcRollback, ReleaseDecr
  <2>2. PICK o \in Outcomes : Decr(r, o)
    BY <1>3 DEF ConcRollback, ReleaseDecr
  <2>3. QED
    BY <1>1, <2>1, <2>2, DecrKeepsLimit
<1>4. CASE ReleaseDelete(r)
  <2> SUFFICES ASSUME NEW k \in Keys PROVE KeyLimit(k)'
    OBVIOUS
  <2>1. ~ConcIncr(r)
    BY <1>4 DEF ConcIncr, ReleaseDelete
  <2>2. counted' = counted /\ (conc'[k] = 0 \/ conc'[k] = conc[k])
    BY <1>0, <1>4 DEF ReleaseDelete, After, TypeOK
  <2>3. CASE conc'[k] = 0
    BY <2>3, ZeroKeepsLimit
  <2>4. CASE conc'[k] = conc[k]
    <3>1. LetThrough(k)' \subseteq LetThrough(k) /\ Counted(k)' = Counted(k)
      BY <1>0, <1>1, <2>1, <2>2 DEF LetThrough, Counted, Inside, TypeOK
    <3>2. Cardinality(LetThrough(k)') <= Cardinality(LetThrough(k))
      BY <1>0, <3>1, ThroughFinite, FS_Subset
    <3>3. /\ conc[k] \in Int /\ Cardinality(LetThrough(k)) \in Nat
          /\ Cardinality(Counted(k)) \in Nat /\ Cardinality(LetThrough(k)') \in Nat
      BY <1>0, CountedFinite, ThroughFinite, ThroughFinitePrime DEF TypeOK
    <3>4. QED
      BY <2>4, <3>1, <3>2, <3>3, LimitsAssumption DEF LimitInv, KeyLimit
  <2>5. QED
    BY <2>2, <2>3, <2>4
<1>5. CASE UNCHANGED <<conc, counted>> /\ ~ConcIncr(r)
  BY <1>1, <1>5, FewerKeepsLimit
<1>6. UNCHANGED <<conc, counted>> \/ ConcIncr(r) \/ ConcRollback(r) \/ ReleaseDecr(r)
        \/ ReleaseDelete(r)
  BY DEF Arrive, Admit, Leave, CheckOverload, RpmIncr, RpmExpire, TpmIncr, TpmExpire, TpmRollback,
     Finish, FinalizeDecr, FinalizeDelete
<1>7. QED
  BY <1>2, <1>3, <1>4, <1>5, <1>6

\* Every step keeps the invariant.
LEMMA NextLimitInv == LimitInv /\ [Next]_vars => LimitInv'
<1> SUFFICES ASSUME LimitInv, [Next]_vars PROVE \A k \in Keys : KeyLimit(k)'
  BY NextSlotInv DEF LimitInv
<1>0. TypeOK /\ TypeOK'
  BY NextTypeOK DEF LimitInv, SlotInv
<1>1. CASE \E r \in Requests : Arrive(r) \/ Admit(r) \/ Leave(r)
  BY <1>0, <1>1, RequestKeepsLimit
<1>2. CASE RedisRestart
  BY <1>0, <1>2, ZeroKeepsLimit DEF RedisRestart
<1>3. CASE \/ \E k \in Keys : RpmWindowExpires(k) \/ TpmWindowExpires(k)
           \/ \E p \in Processes : Crash(p)
           \/ Idle \/ UNCHANGED vars
  <2>1. conc' = conc /\ counted' = counted
    BY <1>3 DEF RpmWindowExpires, TpmWindowExpires, Crash, Idle, vars
  <2>2. \A r \in Requests : pc'[r] \in Inside => pc[r] \in Inside
    BY <1>3 DEF RpmWindowExpires, TpmWindowExpires, Crash, Idle, vars, Inside, Holding
  <2>3. QED
    BY <1>0, <2>1, <2>2, FewerKeepsLimit
<1>4. QED
  BY <1>1, <1>2, <1>3 DEF Next

\* Nothing is taken initially.
LEMMA InitLimitInv == Init => LimitInv
<1> SUFFICES ASSUME Init PROVE LimitInv
  OBVIOUS
<1>1. \A k \in Keys : Counted(k) = {} /\ LetThrough(k) = {} /\ conc[k] = 0
  BY DEF Init, Counted, LetThrough
<1>2. QED
  BY <1>1, InitSlotInv, FS_EmptySet, LimitsAssumption DEF LimitInv, KeyLimit

\* However commands fail and interleave, the limit of concurrent requests is exceeded
\* by no more than the slots the counter has lost track of.
THEOREM LimitHolds == Spec => []LimitUpToDrift
<1>1. ASSUME LimitInv, NEW k \in Keys PROVE Cardinality(LetThrough(k)) <= ConcLimit + Drift(k)
  <2>1. /\ conc[k] \in Int /\ Cardinality(LetThrough(k)) \in Nat
        /\ Cardinality(Counted(k)) \in Nat
    BY <1>1, CountedFinite, ThroughFinite DEF LimitInv, SlotInv, TypeOK
  <2>2. QED
    BY <1>1, <2>1, LimitsAssumption DEF LimitInv, KeyLimit, Drift
<1>2. LimitInv => LimitUpToDrift
  BY <1>1 DEF LimitUpToDrift
<1>3. QED
  BY <1>2, InitLimitInv, NextLimitInv, PTL DEF Spec

(***************************************************************************)
(* Drift                                                                   *)
(***************************************************************************)
\* Why a counter may lose track of a slot of key k.
Excused(k) ==
  \E r \in Requests : /\ KeyOf[r] = k
                      /\ \/ pc[r] = "relDel"
                         \/ pc[r] \in {"relDecr", "concRollback"} /\ r \notin counted

\* A DECR makes the counter drift only when the slot it gives back is not counted.
LEMMA DecrDrift ==
  ASSUME SlotInv, NEW r \in Requests, NEW o \in Outcomes, Decr(r, o),
         pc[r] \in {"relDecr", "concRollback"}, NEW k \in Keys
  PROVE  Drift(k)' <= Drift(k) \/ Excused(k)
<1>0. TypeOK /\ conc[k] \in Int /\ Cardinality(Counted(k)) \in Nat
  BY CountedFinite DEF SlotInv, TypeOK
<1>1. CASE ~Ran(o) \/ k # KeyOf[r]
  <2>1. conc'[k] = conc[k] /\ Counted(k)' = Counted(k)
    BY <1>0, <1>1 DEF Decr, After, Counted, TypeOK
  <2>2. QED
    BY <1>0, <2>1 DEF Drift
<1>2. CASE Ran(o) /\ k = KeyOf[r] /\ r \in counted
  <2>1. counted' = counted \ {r} /\ conc'[k] = conc[k] - 1
    BY <1>0, <1>2 DEF Decr, After, TypeOK
  <2>2. Cardinality(Counted(k)') = Cardinality(Counted(k)) - 1
    BY <1>0, <1>2, <2>1, CountOff
  <2>3. QED
    BY <1>0, <2>1, <2>2 DEF Drift
<1>3. CASE k = KeyOf[r] /\ r \notin counted
  BY <1>3 DEF Excused
<1>4. QED
  BY <1>1, <1>2, <1>3

\* An INCR makes no counter drift.
LEMMA IncrDrift ==
  ASSUME SlotInv, NEW r \in Requests, ConcIncr(r), NEW k \in Keys
  PROVE  Drift(k)' <= Drift(k)
<1>0. /\ TypeOK /\ conc[k] \in Int /\ Cardinality(Counted(k)) \in Nat
      /\ r \notin counted
  BY CountedFinite DEF SlotInv, TypeOK, Unslotted, ConcIncr
<1>1. PICK o \in Outcomes : Incr(r, o)
  BY DEF ConcIncr
<1>2. CASE ~Ran(o) \/ k # KeyOf[r]
  <2>1. conc'[k] = conc[k] /\ Counted(k)' = Counted(k)
    BY <1>0, <1>1, <1>2 DEF Incr, After, Counted, TypeOK
  <2>2. QED
    BY <1>0, <2>1 DEF Drift
<1>3. CASE Ran(o) /\ k = KeyOf[r]
  <2>1. counted' = counted \cup {r} /\ conc'[k] = conc[k] + 1
    BY <1>0, <1>1, <1>3 DEF Incr, After, TypeOK
  <2>2. Cardinality(Counted(k)') = Cardinality(Counted(k)) + 1
    BY <1>0, <1>3, <2>1, CountOne
  <2>3. QED
    BY <1>0, <2>1, <2>2 DEF Drift
<1>4. QED
  BY <1>2, <1>3

\* A step makes a counter drift only with one of the two excuses.
LEMMA NextDrift ==
  ASSUME SlotInv, [Next]_vars, NEW k \in Keys
  PROVE  Drift(k)' <= Drift(k) \/ Excused(k)
<1>0. TypeOK /\ conc[k] \in Int /\ Cardinality(Counted(k)) \in Nat
  BY CountedFinite DEF SlotInv, TypeOK
<1>1. CASE conc'[k] = conc[k] /\ counted' = counted
  <2>1. Counted(k)' = Counted(k)
    BY <1>1 DEF Counted
  <2>2. QED
    BY <1>0, <1>1, <2>1 DEF Drift
<1>2. ASSUME NEW r \in Requests, ConcIncr(r) PROVE Drift(k)' <= Drift(k)
  BY <1>2, IncrDrift
<1>3. ASSUME NEW r \in Requests, ConcRollback(r) \/ ReleaseDecr(r)
      PROVE  Drift(k)' <= Drift(k) \/ Excused(k)
  <2>1. PICK o \in Outcomes : Decr(r, o)
    BY <1>3 DEF ConcRollback, ReleaseDecr
  <2>2. pc[r] \in {"relDecr", "concRollback"}
    BY <1>3 DEF ConcRollback, ReleaseDecr
  <2>3. QED
    BY <2>1, <2>2, DecrDrift
<1>4. ASSUME NEW r \in Requests, ReleaseDelete(r) PROVE Drift(k)' <= Drift(k) \/ Excused(k)
  <2>1. CASE k = KeyOf[r]
    BY <1>4, <2>1 DEF ReleaseDelete, Excused
  <2>2. CASE k # KeyOf[r]
    BY <1>0, <1>1, <1>4, <2>2 DEF ReleaseDelete, After, TypeOK
  <2>3. QED
    BY <2>1, <2>2
<1>5. CASE RedisRestart
  <2>1. conc'[k] = 0 /\ Counted(k)' = {}
    BY <1>5 DEF RedisRestart, Counted
  <2>2. Cardinality({}) = 0
    BY FS_EmptySet
  <2>3. conc[k] <= Cardinality(Counted(k))
    BY DEF SlotInv, SlotsNeverOverCounted
  <2>4. QED
    BY <1>0, <2>1, <2>2, <2>3 DEF Drift
<1>6. \/ conc'[k] = conc[k] /\ counted' = counted
      \/ \E r \in Requests : ConcIncr(r) \/ ConcRollback(r) \/ ReleaseDecr(r) \/ ReleaseDelete(r)
      \/ RedisRestart
  BY DEF Next, vars, Arrive, Admit, Leave, CheckOverload, RpmIncr, RpmExpire, TpmIncr, TpmExpire,
     TpmRollback, Finish, FinalizeDecr, FinalizeDelete, RpmWindowExpires, TpmWindowExpires, Crash,
     Idle
<1>7. QED
  BY <1>1, <1>2, <1>3, <1>4, <1>5, <1>6

\* For any requests and faults, a counter loses track of a slot only by a DELETE, or
\* by the DECR of a request whose slot a restart of Redis has wiped.
THEOREM DriftExcused == Spec => DriftOnlyByDeleteOrRestart
<1>1. ASSUME SlotInv, [Next]_vars, NEW k \in Keys, Drift(k)' > Drift(k)
      PROVE  Excused(k)
  <2>1. TypeOK /\ TypeOK'
    BY <1>1, NextTypeOK DEF SlotInv
  <2>2. Drift(k) \in Int /\ Drift(k)' \in Int
    BY <2>1, CountedFinite, ThroughFinitePrime DEF Drift, TypeOK
  <2>3. QED
    BY <1>1, <2>2, NextDrift
<1>2. SlotInv /\ [Next]_vars =>
        \A k \in Keys : Drift(k)' > Drift(k) =>
          \E r \in Requests : /\ KeyOf[r] = k
                              /\ \/ pc[r] = "relDel"
                                 \/ /\ pc[r] \in {"relDecr", "concRollback"}
                                    /\ r \notin counted
  BY <1>1 DEF Excused
<1>3. QED
  BY <1>2, InitSlotInv, NextSlotInv, PTL DEF Spec, DriftOnlyByDeleteOrRestart

(***************************************************************************)
(* Sums over a finite set                                                  *)
(***************************************************************************)
\* Induction: a set that has 0 and the successor of each of its elements has all
\* naturals.  (The library's theorem takes an operator.)
LEMMA NatSet ==
  ASSUME NEW T, T \subseteq Nat, 0 \in T, \A n \in T : n + 1 \in T
  PROVE  \A n \in Nat : n \in T
<1> DEFINE R == OpToRel(<, Nat)
           U == Nat \ T
<1>1. SUFFICES ASSUME U # {} PROVE FALSE
  OBVIOUS
<1>2. \A x, y \in Nat : y < x => <<y, x>> \in R
  BY DEF OpToRel
<1>3. \E x \in U : \A y \in U : ~ (<<y, x>> \in R)
  <2>1. IsWellFoundedOn(R, Nat)
    BY NatLessThanWellFounded
  <2>2. U \subseteq Nat
    OBVIOUS
  <2> HIDE DEF R, U
  <2>3. QED
    BY <1>1, <2>1, <2>2, WFMin
<1> HIDE DEF R
<1>4. PICK x \in U : \A y \in U : ~ (<<y, x>> \in R)
  BY <1>3
<1>5. x \in Nat /\ x \notin T /\ x # 0
  OBVIOUS
<1>6. x - 1 \in Nat /\ x - 1 < x /\ (x - 1) + 1 = x
  BY <1>5
<1>7. x - 1 \in T
  BY <1>2, <1>4, <1>5, <1>6
<1>8. QED
  BY <1>5, <1>6, <1>7

\* The element a sum takes first, and what it leaves.
Picked(s) == CHOOSE x \in s : TRUE
Rest(s)   == s \ {Picked(s)}

\* The recursion in a sum of f over S.
Totals(h, f, S) == h = [s \in SUBSET S |-> IF s = {} THEN 0 ELSE f[Picked(s)] + h[Rest(s)]]

\* Taking one element leaves one less.
LEMMA RestIsLess ==
  ASSUME NEW S, IsFiniteSet(S), NEW s \in SUBSET S, s # {}
  PROVE  /\ Picked(s) \in s /\ Rest(s) \in SUBSET S
         /\ Cardinality(s) \in Nat /\ Cardinality(Rest(s)) = Cardinality(s) - 1
         /\ Cardinality(Rest(s)) \in Nat
<1>1. IsFiniteSet(s)
  BY FS_Subset
<1>2. Picked(s) \in s
  BY DEF Picked
<1>3. /\ IsFiniteSet(s \ {Picked(s)}) /\ Cardinality(s \ {Picked(s)}) = Cardinality(s) - 1
  BY <1>1, <1>2, FS_RemoveElement
<1>4. QED
  BY <1>1, <1>2, <1>3, FS_CardinalityType DEF Rest

\* There is such a recursion.
LEMMA TotalsExist ==
  ASSUME NEW S, IsFiniteSet(S), NEW f, \A x \in S : f[x] \in Nat
  PROVE  \E h : Totals(h, f, S)
<1> DEFINE Next1(h, s) == IF s = {} THEN 0 ELSE f[Picked(s)] + h[Rest(s)]
           Good(h, n)  == \A s \in SUBSET S : Cardinality(s) <= n => h[s] = Next1(h, s)
           T           == {n \in Nat : \E h \in [SUBSET S -> Nat] : Good(h, n)}
<1>1. \A s \in SUBSET S : Cardinality(s) \in Nat /\ (Cardinality(s) = 0 <=> s = {})
  BY FS_Subset, FS_CardinalityType, FS_EmptySet
<1>2. 0 \in T
  <2> DEFINE h == [s \in SUBSET S |-> 0]
  <2>1. h \in [SUBSET S -> Nat] /\ \A s \in SUBSET S : s = {} => h[s] = Next1(h, s)
    OBVIOUS
  <2> HIDE DEF h, Next1
  <2>2. \A s \in SUBSET S : Cardinality(s) <= 0 => s = {}
    BY <1>1
  <2>3. QED
    BY <2>1, <2>2
<1>3. ASSUME NEW n \in T PROVE n + 1 \in T
  <2>1. PICK h \in [SUBSET S -> Nat] : Good(h, n)
    OBVIOUS
  <2> DEFINE j == [s \in SUBSET S |-> Next1(h, s)]
  <2>2. ASSUME NEW s \in SUBSET S, s # {}
        PROVE  /\ Next1(h, s) = f[Picked(s)] + h[Rest(s)] /\ Next1(h, s) \in Nat
    BY <2>2, RestIsLess
  <2>3. \A s \in SUBSET S : j[s] = Next1(h, s) /\ j[s] \in Nat
    BY <2>2
  <2>4. j \in [SUBSET S -> Nat]
    BY <2>3
  <2>5. ASSUME NEW s \in SUBSET S, Cardinality(s) <= n + 1 PROVE j[s] = Next1(j, s)
    <3>1. CASE s = {}
      BY <2>3, <3>1
    <3>2. CASE s # {}
      <4>1. Rest(s) \in SUBSET S /\ Cardinality(Rest(s)) <= n
        BY <2>5, <3>2, RestIsLess
      <4>2. h[Rest(s)] = Next1(h, Rest(s))
        BY <2>1, <4>1
      <4>3. j[Rest(s)] = Next1(h, Rest(s))
        BY <2>3, <4>1
      <4>4. j[s] = f[Picked(s)] + h[Rest(s)]
        BY <2>2, <2>3, <3>2
      <4> HIDE DEF j
      <4>5. QED
        BY <3>2, <4>2, <4>3, <4>4
    <3>3. QED
      BY <3>1, <3>2
  <2> HIDE DEF j, Next1
  <2>6. QED
    BY <2>4, <2>5
<1>4. T \subseteq Nat
  OBVIOUS
<1> HIDE DEF T
<1>5. Cardinality(S) \in T
  BY <1>1, <1>2, <1>3, <1>4, NatSet
<1>6. PICK h \in [SUBSET S -> Nat] : Good(h, Cardinality(S))
  BY <1>5 DEF T
<1>7. \A s \in SUBSET S : Cardinality(s) <= Cardinality(S)
  BY FS_Subset
<1>8. \A s \in SUBSET S : h[s] = Next1(h, s)
  BY <1>6, <1>7
<1>9. h = [s \in SUBSET S |-> Next1(h, s)]
  BY <1>8
<1>10. QED
  BY <1>9 DEF Totals

\* Sums of naturals are naturals, and changing one of them changes the sum by as much:
\* the order of the recursion does not depend on what is summed.
LEMMA TotalsMove ==
  ASSUME NEW S, IsFiniteSet(S), NEW f, NEW g, \A x \in S : f[x] \in Nat /\ g[x] \in Nat,
         NEW r, \A x \in S : x # r => g[x] = f[x],
         NEW h, NEW j, Totals(h, f, S), Totals(j, g, S)
  PROVE  \A s \in SUBSET S : /\ h[s] \in Nat /\ j[s] \in Nat
                             /\ r \notin s => j[s] = h[s]
                             /\ r \in s => j[s] = h[s] + (g[r] - f[r])
<1> DEFINE Same(s) == /\ h[s] \in Nat /\ j[s] \in Nat
                      /\ r \notin s => j[s] = h[s]
                      /\ r \in s => j[s] = h[s] + (g[r] - f[r])
           T == {n \in Nat : \A s \in SUBSET S : Cardinality(s) <= n => Same(s)}
<1>1. \A s \in SUBSET S : /\ Cardinality(s) \in Nat /\ (Cardinality(s) = 0 <=> s = {})
  BY FS_Subset, FS_CardinalityType, FS_EmptySet
<1>2. ASSUME NEW s \in SUBSET S
      PROVE  /\ s = {} => h[s] = 0 /\ j[s] = 0
             /\ s # {} => h[s] = f[Picked(s)] + h[Rest(s)] /\ j[s] = g[Picked(s)] + j[Rest(s)]
  <2>1. /\ h = [x \in SUBSET S |-> IF x = {} THEN 0 ELSE f[Picked(x)] + h[Rest(x)]]
        /\ j = [x \in SUBSET S |-> IF x = {} THEN 0 ELSE g[Picked(x)] + j[Rest(x)]]
    BY DEF Totals
  <2>2. h[s] = IF s = {} THEN 0 ELSE f[Picked(s)] + h[Rest(s)]
    BY <2>1
  <2>3. j[s] = IF s = {} THEN 0 ELSE g[Picked(s)] + j[Rest(s)]
    BY <2>1
  <2>4. QED
    BY <2>2, <2>3
<1>3. 0 \in T
  <2>1. h[{}] = 0 /\ j[{}] = 0
    BY <1>2
  <2>2. Same({})
    BY <2>1
  <2> HIDE DEF Same
  <2>3. QED
    BY <1>1, <2>2
<1>4. ASSUME NEW n \in T PROVE n + 1 \in T
  <2>1. n \in Nat /\ \A s \in SUBSET S : Cardinality(s) <= n => Same(s)
    OBVIOUS
  <2>2. ASSUME NEW s \in SUBSET S, Cardinality(s) <= n + 1 PROVE Same(s)
    <3>1. CASE s = {}
      <4>1. h[s] = 0 /\ j[s] = 0 /\ r \notin s
        BY <1>2, <3>1
      <4>2. QED
        BY <4>1
    <3>2. CASE s # {}
      <4>1. /\ Picked(s) \in s /\ Rest(s) \in SUBSET S /\ Cardinality(Rest(s)) <= n
        BY <2>1, <2>2, <3>2, RestIsLess
      <4>2. Same(Rest(s))
        BY <2>1, <4>1
      <4>3. /\ f[Picked(s)] \in Nat /\ g[Picked(s)] \in Nat
            /\ Picked(s) # r => g[Picked(s)] = f[Picked(s)]
        BY <4>1
      <4>4. h[s] = f[Picked(s)] + h[Rest(s)] /\ j[s] = g[Picked(s)] + j[Rest(s)]
        BY <1>2, <3>2
      <4>5. r \in s <=> r = Picked(s) \/ r \in Rest(s)
        BY <4>1 DEF Rest
      <4>6. Picked(s) \notin Rest(s)
        BY DEF Rest
      <4>7. r \in Rest(s) => f[r] \in Nat /\ g[r] \in Nat
        BY <4>1
      <4>8. QED
        BY <4>2, <4>3, <4>4, <4>5, <4>6, <4>7
    <3>3. QED
      BY <3>1, <3>2
  <2> HIDE DEF Same
  <2>3. QED
    BY <2>1, <2>2
<1>5. T \subseteq Nat
  OBVIOUS
<1> HIDE DEF T
<1>6. ASSUME NEW s \in SUBSET S PROVE Same(s)
  <2>1. Cardinality(s) \in T
    BY <1>1, <1>3, <1>4, <1>5, NatSet
  <2>2. Cardinality(s) <= Cardinality(s)
    BY <1>1
  <2> HIDE DEF Same
  <2>3. QED
    BY <2>1, <2>2 DEF T
<1>7. QED
  BY <1>6

\* The sum of f over S.
SumOf(f, S) == MapThenSumSet(LAMBDA x : f[x], S)

\* It is such a recursion.
LEMMA SumTotals ==
  ASSUME NEW S, IsFiniteSet(S), NEW f, \A x \in S : f[x] \in Nat
  PROVE  \E h : Totals(h, f, S) /\ SumOf(f, S) = h[S]
<1> DEFINE total == CHOOSE h : Totals(h, f, S)
<1>1. SumOf(f, S) = total[S]
  BY DEF SumOf, MapThenSumSet, MapThenFoldSet, Totals, Picked, Rest
<1>2. Totals(total, f, S)
  BY TotalsExist
<1>3. QED
  BY <1>1, <1>2

(***************************************************************************)
(* The tokens per minute                                                   *)
(***************************************************************************)
\* The requests of a key.
Own(k) == {r \in Requests : KeyOf[r] = k}

\* What the requests of a key owe, and how it changes with what one of them owes.
LEMMA ChargesMove ==
  ASSUME TypeOK, charge' \in [Requests -> Nat], NEW k \in Keys, NEW r,
         \A q \in Own(k) : q # r => charge'[q] = charge[q]
  PROVE  /\ Charges(k) \in Nat /\ Charges(k)' \in Nat
         /\ r \notin Own(k) => Charges(k)' = Charges(k)
         /\ r \in Own(k) => Charges(k)' = Charges(k) + (charge'[r] - charge[r])
<1> DEFINE S == Own(k)
<1>1. S \subseteq Requests /\ IsFiniteSet(S) /\ S \in SUBSET S
  BY RequestsAssumption, FS_Subset DEF Own
<1>2. \A x \in S : charge[x] \in Nat /\ charge'[x] \in Nat
  BY <1>1 DEF TypeOK
<1>3. PICK h : Totals(h, charge, S) /\ SumOf(charge, S) = h[S]
  <2> DEFINE f == charge
  <2>1. \A x \in S : f[x] \in Nat
    BY <1>2
  <2> HIDE DEF f, S
  <2>2. \E h : Totals(h, f, S) /\ SumOf(f, S) = h[S]
    BY <1>1, <2>1, SumTotals
  <2>3. QED
    BY <2>2 DEF f
<1>4. PICK j : Totals(j, charge', S) /\ SumOf(charge', S) = j[S]
  <2> DEFINE f == charge'
  <2>1. \A x \in S : f[x] \in Nat
    BY <1>2
  <2> HIDE DEF f, S
  <2>2. \E j : Totals(j, f, S) /\ SumOf(f, S) = j[S]
    BY <1>1, <2>1, SumTotals
  <2>3. QED
    BY <2>2 DEF f
<1>5. Charges(k) = h[S] /\ Charges(k)' = j[S]
  <2>1. Charges(k) = SumOf(charge, S)
    BY DEF Charges, SumOf, Own, MapThenSumSet, MapThenFoldSet
  <2>2. Charges(k)' = SumOf(charge', S)
    BY DEF Charges, SumOf, Own, MapThenSumSet, MapThenFoldSet
  <2> HIDE DEF S
  <2>3. QED
    BY <1>3, <1>4, <2>1, <2>2
<1> DEFINE f == charge
           g == charge'
<1>6. /\ \A x \in S : f[x] \in Nat /\ g[x] \in Nat
      /\ \A x \in S : x # r => g[x] = f[x]
      /\ Totals(h, f, S) /\ Totals(j, g, S)
  BY <1>2, <1>3, <1>4
<1> HIDE DEF f, g, S
<1>7. \A s \in SUBSET S : /\ h[s] \in Nat /\ j[s] \in Nat
                          /\ r \notin s => j[s] = h[s]
                          /\ r \in s => j[s] = h[s] + (g[r] - f[r])
  BY <1>1, <1>6, TotalsMove
<1>8. QED
  BY <1>1, <1>5, <1>7 DEF f, g, S

\* It is a natural.
LEMMA ChargesAreNat ==
  ASSUME charge \in [Requests -> Nat], NEW k \in Keys
  PROVE  Charges(k) \in Nat
<1> DEFINE S == Own(k)
           f == charge
<1>1. S \in SUBSET S /\ IsFiniteSet(S) /\ \A x \in S : f[x] \in Nat
  BY RequestsAssumption, FS_Subset DEF Own
<1>2. Charges(k) = SumOf(f, S)
  BY DEF Charges, SumOf, Own, MapThenSumSet, MapThenFoldSet
<1> HIDE DEF f, S
<1>3. PICK h : Totals(h, f, S) /\ SumOf(f, S) = h[S]
  BY <1>1, SumTotals
<1>4. h[S] \in Nat
  BY <1>1, <1>3, TotalsMove
<1>5. QED
  BY <1>2, <1>3, <1>4

\* So it is after any step that keeps the types.
LEMMA ChargesAreNatThen ==
  ASSUME TypeOK, TypeOK', NEW k \in Keys
  PROVE  Charges(k)' \in Nat
<1> DEFINE S == Own(k)
           f == charge'
<1>1. S \in SUBSET S /\ IsFiniteSet(S) /\ \A x \in S : f[x] \in Nat
  BY RequestsAssumption, FS_Subset DEF Own, TypeOK
<1>2. Charges(k)' = SumOf(f, S)
  BY DEF Charges, SumOf, Own, MapThenSumSet, MapThenFoldSet
<1> HIDE DEF f, S
<1>3. PICK h : Totals(h, f, S) /\ SumOf(f, S) = h[S]
  BY <1>1, SumTotals
<1>4. h[S] \in Nat
  BY <1>1, <1>3, TotalsMove
<1>5. QED
  BY <1>2, <1>3, <1>4

\* It stays as long as theirs do.
LEMMA ChargesStay ==
  ASSUME TypeOK, charge' \in [Requests -> Nat], NEW k \in Keys,
         \A q \in Own(k) : charge'[q] = charge[q]
  PROVE  Charges(k) \in Nat /\ Charges(k)' = Charges(k)
<1>1. ASSUME NEW r
      PROVE  /\ Charges(k) \in Nat
             /\ r \notin Own(k) => Charges(k)' = Charges(k)
             /\ r \in Own(k) => Charges(k)' = Charges(k) + (charge'[r] - charge[r])
  <2>1. \A q \in Own(k) : q # r => charge'[q] = charge[q]
    OBVIOUS
  <2>2. QED
    BY <2>1, ChargesMove
<1>2. CASE Own(k) = {}
  BY <1>1, <1>2
<1>3. ASSUME NEW r \in Own(k) PROVE Charges(k) \in Nat /\ Charges(k)' = Charges(k)
  <2>1. Charges(k)' = Charges(k) + (charge'[r] - charge[r]) /\ Charges(k) \in Nat
    BY <1>1
  <2>2. charge'[r] = charge[r] /\ charge[r] \in Nat
    BY DEF Own, TypeOK
  <2>3. QED
    BY <2>1, <2>2
<1>4. QED
  BY <1>2, <1>3

\* A request adds its tokens once: it owes none before reserve.
Uncharged == \A r \in Requests :
  pc[r] \in {"new", "overload", "rpmIncr", "rpmExpire", "concIncr", "concRollback", "tpmIncr"} =>
    charge[r] = 0

\* A counter of tokens never says more than what was taken in its window and is owed.
TokensNeverOverCounted == \A k \in Keys : tpm[k].val <= Charges(k)

\* The inductive invariant.  Neither part would survive the INCRBY of a request that
\* owes tokens already.
TpmInv == TypeOK /\ Uncharged /\ TokensNeverOverCounted

\* A step of a request that gives its counter no more than it owes then keeps the bound.
LEMMA RequestKeepsTokens ==
  ASSUME TpmInv, TypeOK', NEW r \in Requests,
         \A q \in Requests : q # r => charge'[q] = charge[q],
         \A k \in Keys : k # KeyOf[r] => tpm'[k].val = tpm[k].val,
         tpm'[KeyOf[r]].val - tpm[KeyOf[r]].val <= charge'[r] - charge[r]
  PROVE  TokensNeverOverCounted'
<1>1. SUFFICES ASSUME NEW k \in Keys PROVE tpm'[k].val <= Charges(k)'
  BY DEF TokensNeverOverCounted
<1>2. /\ Charges(k) \in Nat /\ Charges(k)' \in Nat
      /\ r \notin Own(k) => Charges(k)' = Charges(k)
      /\ r \in Own(k) => Charges(k)' = Charges(k) + (charge'[r] - charge[r])
  BY ChargesMove DEF Own, TpmInv, TypeOK
<1>3. tpm[k].val \in Int /\ tpm'[k].val \in Int /\ tpm[k].val <= Charges(k)
  BY DEF TpmInv, TypeOK, Entry, TokensNeverOverCounted
<1>4. charge[r] \in Nat /\ charge'[r] \in Nat /\ (r \in Own(k) <=> k = KeyOf[r])
  BY DEF TpmInv, TypeOK, Own
<1>5. QED
  BY <1>2, <1>3, <1>4

\* So does one that leaves the tokens alone.
LEMMA OtherKeepsTokens ==
  ASSUME TpmInv, TypeOK', UNCHANGED <<tpm, charge>>
  PROVE  TokensNeverOverCounted'
<1>1. SUFFICES ASSUME NEW k \in Keys PROVE tpm'[k].val <= Charges(k)'
  BY DEF TokensNeverOverCounted
<1>2. Charges(k)' = Charges(k)
  <2>1. charge' \in [Requests -> Nat] /\ \A q \in Own(k) : charge'[q] = charge[q]
    BY DEF TypeOK
  <2>2. QED
    BY <2>1, ChargesStay DEF TpmInv
<1>3. QED
  BY <1>2 DEF TpmInv, TokensNeverOverCounted

\* Giving tokens back takes as much from the counter as is given, and no more from
\* what is owed.
LEMMA GiveBackKeepsTokens ==
  ASSUME TpmInv, TypeOK', NEW r \in Requests, NEW n \in Nat, NEW o, GiveBack(r, n, o)
  PROVE  TokensNeverOverCounted' /\ (charge[r] = 0 => charge'[r] = 0)
         /\ \A q \in Requests : q # r => charge'[q] = charge[q]
<1>1. CASE Ran(o)
  <2>1. tpm[KeyOf[r]] \in Entry /\ -n \in Int /\ KeyOf[r] \in Keys
    BY RequestsAssumption DEF TpmInv, TypeOK
  <2>2. /\ tpm' = [tpm EXCEPT ![KeyOf[r]] = IncrBy(@, -n)]
        /\ charge' = [charge EXCEPT ![r] = Minus(@, n)]
    BY <1>1 DEF GiveBack, After
  <2>3. /\ tpm'[KeyOf[r]].val = tpm[KeyOf[r]].val + (-n)
        /\ \A k \in Keys : k # KeyOf[r] => tpm'[k].val = tpm[k].val
    BY <2>1, <2>2, IncrByEntry DEF TpmInv, TypeOK
  <2>4. /\ charge'[r] = Minus(charge[r], n) /\ charge[r] \in Nat
        /\ \A q \in Requests : q # r => charge'[q] = charge[q]
    BY <2>2 DEF TpmInv, TypeOK
  <2>5. charge'[r] - charge[r] >= -n /\ charge'[r] \in Nat /\ (charge[r] = 0 => charge'[r] = 0)
    BY <2>4 DEF Minus
  <2>6. tpm[KeyOf[r]].val \in Int
    BY <2>1 DEF Entry
  <2>7. tpm'[KeyOf[r]].val - tpm[KeyOf[r]].val <= charge'[r] - charge[r]
    BY <2>3, <2>4, <2>5, <2>6
  <2>8. QED
    BY <2>3, <2>4, <2>5, <2>7, RequestKeepsTokens
<1>2. CASE ~Ran(o)
  <2>1. UNCHANGED <<tpm, charge>>
    BY <1>2 DEF GiveBack, After
  <2>2. QED
    BY <2>1, OtherKeepsTokens
<1>3. QED
  BY <1>1, <1>2

\* The INCRBY of reserve, if it runs: the request owes what it added.
LEMMA TpmIncrAdds ==
  ASSUME TpmInv, NEW r \in Requests, TpmIncr(r)
  PROVE  /\ charge[r] = 0 /\ \A q \in Requests : q # r => charge'[q] = charge[q]
         /\ \A k \in Keys : k # KeyOf[r] => tpm'[k].val = tpm[k].val
         /\ \/ UNCHANGED <<tpm, charge>>
            \/ tpm'[KeyOf[r]].val = tpm[KeyOf[r]].val + Est[r] /\ charge'[r] = Est[r]
<1>1. charge[r] = 0
  BY DEF TpmInv, Uncharged, TpmIncr
<1>2. PICK o \in Outcomes : /\ tpm' = After(tpm, KeyOf[r], o, LAMBDA e : IncrBy(e, Est[r]))
                            /\ charge' = After(charge, r, o, LAMBDA n : Est[r])
  BY DEF TpmIncr
<1>3. CASE Ran(o)
  <2>1. tpm[KeyOf[r]] \in Entry /\ Est[r] \in Int /\ KeyOf[r] \in Keys
    BY RequestsAssumption DEF TpmInv, TypeOK
  <2>2. /\ tpm' = [tpm EXCEPT ![KeyOf[r]] = IncrBy(@, Est[r])] /\ charge' = [charge EXCEPT ![r] = Est[r]]
    BY <1>2, <1>3 DEF After
  <2>3. QED
    BY <1>1, <2>1, <2>2, IncrByEntry DEF TpmInv, TypeOK
<1>4. CASE ~Ran(o)
  BY <1>1, <1>2, <1>4 DEF After
<1>5. QED
  BY <1>3, <1>4

\* Every step of a request keeps the bound.
LEMMA StepKeepsTokens ==
  ASSUME TpmInv, TypeOK', NEW r \in Requests, Arrive(r) \/ Admit(r) \/ Leave(r)
  PROVE  TokensNeverOverCounted'
<1>1. CASE TpmIncr(r)
  <2>1. charge[r] = 0 /\ tpm[KeyOf[r]].val \in Int /\ Est[r] \in Nat
    BY <1>1, TpmIncrAdds, RequestsAssumption DEF TpmInv, TypeOK, Entry
  <2>2. tpm'[KeyOf[r]].val - tpm[KeyOf[r]].val <= charge'[r] - charge[r]
    BY <1>1, <2>1, TpmIncrAdds
  <2>3. QED
    BY <1>1, <2>2, TpmIncrAdds, RequestKeepsTokens
<1>2. CASE TpmExpire(r)
  <2>1. tpm[KeyOf[r]] \in Entry /\ KeyOf[r] \in Keys /\ charge' = charge
    BY <1>2, RequestsAssumption DEF TpmInv, TypeOK, TpmExpire
  <2>2. \A k \in Keys : tpm'[k].val = tpm[k].val
    BY <1>2, <2>1, ExpireEntry DEF TpmExpire, After, TpmInv, TypeOK
  <2>3. tpm[KeyOf[r]].val \in Int /\ charge[r] \in Nat
    BY <2>1 DEF Entry, TpmInv, TypeOK
  <2>4. tpm'[KeyOf[r]].val - tpm[KeyOf[r]].val <= charge'[r] - charge[r]
    BY <2>1, <2>2, <2>3
  <2>5. QED
    BY <2>1, <2>2, <2>4, RequestKeepsTokens
<1>3. CASE TpmRollback(r)
  <2>1. Est[r] \in Nat
    BY RequestsAssumption
  <2>2. QED
    BY <1>3, <2>1, GiveBackKeepsTokens DEF TpmRollback
<1>4. CASE FinalizeDecr(r)
  <2>1. rel[r] \in Nat
    BY DEF TpmInv, TypeOK
  <2>2. QED
    BY <1>4, <2>1, GiveBackKeepsTokens DEF FinalizeDecr
<1>5. CASE FinalizeDelete(r)
  <2>1. SUFFICES ASSUME NEW k \in Keys PROVE tpm'[k].val <= Charges(k)'
    BY DEF TokensNeverOverCounted
  <2>2. tpm'[k].val = tpm[k].val \/ tpm'[k].val = 0
    BY <1>5, AbsentEntry DEF FinalizeDelete, After, TpmInv, TypeOK
  <2>3. Charges(k)' = Charges(k) /\ Charges(k) \in Nat
    <3>1. charge' \in [Requests -> Nat] /\ \A q \in Own(k) : charge'[q] = charge[q]
      BY <1>5 DEF FinalizeDelete, TypeOK
    <3>2. QED
      BY <3>1, ChargesStay DEF TpmInv
  <2>4. tpm[k].val <= Charges(k)
    BY DEF TpmInv, TokensNeverOverCounted
  <2>5. QED
    BY <2>2, <2>3, <2>4
<1>6. CASE UNCHANGED <<tpm, charge>>
  BY <1>6, OtherKeepsTokens
<1>7. QED
  BY <1>1, <1>2, <1>3, <1>4, <1>5, <1>6
     DEF Arrive, Admit, Leave, CheckOverload, RpmIncr, RpmExpire, ConcIncr, ConcRollback, Finish,
         ReleaseDecr, ReleaseDelete

\* Every step of a request leaves those alone that have not come to reserve, itself included.
LEMMA StepKeepsUncharged ==
  ASSUME TpmInv, TypeOK', NEW r \in Requests, Arrive(r) \/ Admit(r) \/ Leave(r)
  PROVE  Uncharged'
<1> DEFINE Early == {"new", "overload", "rpmIncr", "rpmExpire", "concIncr", "concRollback", "tpmIncr"}
<1>1. SUFFICES ASSUME NEW q \in Requests, pc'[q] \in Early PROVE charge'[q] = 0
  BY DEF Uncharged
<1>2. pc[q] \in Early => charge[q] = 0
  BY DEF TpmInv, Uncharged
<1>3. CASE q # r
  <2>1. pc'[q] = pc[q]
    BY <1>3
       DEF TpmInv, TypeOK, Arrive, Admit, Leave, CheckOverload, RpmIncr, RpmExpire, ConcIncr, ConcRollback,
           TpmIncr, TpmExpire, TpmRollback, Finish, FinalizeDecr, FinalizeDelete, ReleaseDecr,
           ReleaseDelete, Goto
  <2>2. charge'[q] = charge[q]
    <3>1. CASE TpmIncr(r)
      BY <1>3, <3>1, TpmIncrAdds
    <3>2. CASE TpmRollback(r) \/ FinalizeDecr(r)
      <4>1. Est[r] \in Nat /\ rel[r] \in Nat
        BY RequestsAssumption DEF TpmInv, TypeOK
      <4>2. \E n \in Nat, o \in Outcomes : GiveBack(r, n, o)
        BY <3>2, <4>1 DEF TpmRollback, FinalizeDecr
      <4>3. QED
        BY <1>3, <4>2, GiveBackKeepsTokens
    <3>3. CASE charge' = charge
      BY <3>3
    <3>4. QED
      BY <3>1, <3>2, <3>3
         DEF Arrive, Admit, Leave, CheckOverload, RpmIncr, RpmExpire, ConcIncr, ConcRollback, TpmExpire,
             Finish, FinalizeDelete, ReleaseDecr, ReleaseDelete
  <2>3. QED
    BY <1>1, <1>2, <2>1, <2>2
<1>4. CASE q = r
  <2>1. pc[r] \in Early /\ charge' = charge
    <3>1. CASE Arrive(r) \/ CheckOverload(r) \/ RpmIncr(r) \/ RpmExpire(r) \/ ConcIncr(r) \/ ConcRollback(r)
      BY <3>1 DEF Arrive, CheckOverload, RpmIncr, RpmExpire, ConcIncr, ConcRollback
    <3>2. CASE TpmIncr(r) \/ TpmExpire(r)
      BY <1>1, <1>4, <3>2 DEF TpmIncr, TpmExpire, AfterTpm, Goto, TpmInv, TypeOK
    <3>3. CASE TpmRollback(r) \/ Leave(r)
      BY <1>1, <1>4, <3>3
         DEF TpmRollback, Leave, Finish, AfterFinish, FinalizeDecr, FinalizeDelete, ReleaseDecr, ReleaseDelete,
             Goto, TpmInv, TypeOK
    <3>4. QED
      BY <3>1, <3>2, <3>3 DEF Admit
  <2>2. QED
    BY <1>2, <1>4, <2>1
<1>5. QED
  BY <1>3, <1>4

\* Every step keeps the invariant: a window that ends takes its counter and what is
\* owed in it, and a restart takes all of both.
LEMMA NextTpmInv == TpmInv /\ [Next]_vars => TpmInv'
<1> SUFFICES ASSUME TpmInv, [Next]_vars PROVE TpmInv'
  OBVIOUS
<1>1. TypeOK /\ TypeOK'
  BY NextTypeOK DEF TpmInv
<1>2. CASE \E r \in Requests : Arrive(r) \/ Admit(r) \/ Leave(r)
  BY <1>1, <1>2, StepKeepsTokens, StepKeepsUncharged DEF TpmInv
<1>3. CASE \E w \in Keys : TpmWindowExpires(w)
  <2>1. PICK w \in Keys : TpmWindowExpires(w)
    BY <1>3
  <2>2. /\ \A r \in Requests : charge'[r] = (IF KeyOf[r] = w THEN 0 ELSE charge[r])
        /\ \A k \in Keys : k # w => tpm'[k] = tpm[k]
        /\ tpm'[w].val = 0 /\ pc' = pc
    BY <1>1, <2>1, AbsentEntry DEF TpmWindowExpires, TypeOK
  <2>3. Uncharged'
    BY <2>2 DEF TpmInv, Uncharged
  <2>4. ASSUME NEW k \in Keys PROVE tpm'[k].val <= Charges(k)'
    <3>1. CASE k = w
      <4>1. charge' \in [Requests -> Nat] /\ \A q \in Own(k) : q \in Requests
        BY <1>1 DEF TypeOK, Own
      <4>2. Charges(k)' \in Nat
        BY <1>1, ChargesAreNatThen
      <4>3. QED
        BY <2>2, <3>1, <4>2
    <3>2. CASE k # w
      <4>1. charge' \in [Requests -> Nat] /\ \A q \in Own(k) : charge'[q] = charge[q]
        BY <1>1, <2>2, <3>2 DEF TypeOK, Own
      <4>2. Charges(k)' = Charges(k)
        BY <1>1, <4>1, ChargesStay
      <4>3. QED
        BY <2>2, <3>2, <4>2 DEF TpmInv, TokensNeverOverCounted
    <3>3. QED
      BY <3>1, <3>2
  <2>5. QED
    BY <1>1, <2>3, <2>4 DEF TpmInv, TokensNeverOverCounted
<1>4. CASE RedisRestart
  <2>1. Uncharged'
    BY <1>4 DEF RedisRestart, Uncharged
  <2>2. ASSUME NEW k \in Keys PROVE tpm'[k].val <= Charges(k)'
    <3>1. tpm'[k].val = 0
      BY <1>4, AbsentEntry DEF RedisRestart
    <3>2. Charges(k)' \in Nat
      BY <1>1, ChargesAreNatThen
    <3>3. QED
      BY <3>1, <3>2
  <2>3. QED
    BY <1>1, <2>1, <2>2 DEF TpmInv, TokensNeverOverCounted
<1>5. CASE \E p \in Processes : Crash(p)
  <2>1. /\ UNCHANGED <<tpm, charge>>
        /\ \A r \in Requests : pc'[r] = pc[r] \/ pc'[r] = "done"
    BY <1>1, <1>5 DEF Crash, TypeOK
  <2>2. Uncharged'
    BY <2>1 DEF TpmInv, Uncharged
  <2>3. QED
    BY <1>1, <2>1, <2>2, OtherKeepsTokens DEF TpmInv
<1>6. CASE (\E k \in Keys : RpmWindowExpires(k)) \/ Idle \/ UNCHANGED vars
  <2>1. UNCHANGED <<pc, tpm, charge>>
    BY <1>6 DEF RpmWindowExpires, Idle, vars
  <2>2. Uncharged'
    BY <2>1 DEF TpmInv, Uncharged
  <2>3. QED
    BY <1>1, <2>1, <2>2, OtherKeepsTokens DEF TpmInv
<1>7. QED
  BY <1>2, <1>3, <1>4, <1>5, <1>6 DEF Next

\* Nobody owes tokens at first.
LEMMA InitTpmInv == Init => TpmInv
<1> SUFFICES ASSUME Init PROVE TpmInv
  OBVIOUS
<1>1. TypeOK /\ Uncharged
  BY InitTypeOK DEF Init, Uncharged
<1>2. ASSUME NEW k \in Keys PROVE tpm[k].val <= Charges(k)
  <2>1. tpm[k].val = 0
    BY AbsentEntry DEF Init
  <2>2. Charges(k) \in Nat
    <3>1. charge \in [Requests -> Nat]
      BY <1>1 DEF TypeOK
    <3>2. QED
      BY <3>1, ChargesAreNat
  <2>3. QED
    BY <2>1, <2>2
<1>3. QED
  BY <1>1, <1>2 DEF TpmInv, TokensNeverOverCounted

\* reserve refuses a request only when the tokens taken in the window by others, with
\* those it asks for, exceed the limit, whatever fails: a failed rollback or DECRBY
\* may leave the counter short of the truth and never beyond it.
THEOREM NoFalseTokens == Spec => NoFalseTokenRejection
<1>1. TpmInv /\ [Next]_vars =>
        \A r \in Requests : pc[r] = "tpmIncr" /\ pc'[r] = "tpmRollback" =>
          Charges(KeyOf[r]) - charge[r] + Est[r] > TpmLimit
  <2>1. SUFFICES ASSUME TpmInv, [Next]_vars, NEW r \in Requests, pc[r] = "tpmIncr", pc'[r] = "tpmRollback"
                 PROVE  Charges(KeyOf[r]) - charge[r] + Est[r] > TpmLimit
    OBVIOUS
  <2>2. TpmIncr(r)
    <3>1. PICK q \in Requests : Arrive(q) \/ Admit(q) \/ Leave(q)
      BY <2>1 DEF Next, RpmWindowExpires, TpmWindowExpires, Crash, RedisRestart, Idle, vars, TpmInv, TypeOK
    <3>2. q = r
      BY <2>1, <3>1
         DEF TpmInv, TypeOK, Arrive, Admit, Leave, CheckOverload, RpmIncr, RpmExpire, ConcIncr, ConcRollback,
             TpmIncr, TpmExpire, TpmRollback, Finish, FinalizeDecr, FinalizeDelete, ReleaseDecr,
             ReleaseDelete, Goto
    <3>3. QED
      BY <2>1, <3>1, <3>2
         DEF Arrive, Admit, Leave, CheckOverload, RpmIncr, RpmExpire, ConcIncr, ConcRollback,
             TpmExpire, TpmRollback, Finish, FinalizeDecr, FinalizeDelete, ReleaseDecr, ReleaseDelete
  <2>3. tpm'[KeyOf[r]].val > TpmLimit
    BY <2>1, <2>2 DEF TpmIncr, AfterTpm, Goto, TpmInv, TypeOK
  <2>4. KeyOf[r] \in Keys /\ Est[r] \in Nat /\ Est[r] > 0 /\ TpmLimit \in Nat
    BY RequestsAssumption, LimitsAssumption
  <2>5. /\ charge[r] = 0
        /\ UNCHANGED <<tpm, charge>> \/ tpm'[KeyOf[r]].val = tpm[KeyOf[r]].val + Est[r]
    BY <2>1, <2>2, TpmIncrAdds
  <2>6. tpm[KeyOf[r]].val \in Int /\ tpm[KeyOf[r]].val <= Charges(KeyOf[r])
    BY <2>1, <2>4 DEF TpmInv, TypeOK, Entry, TokensNeverOverCounted
  <2>7. Charges(KeyOf[r]) \in Nat
    <3>1. charge \in [Requests -> Nat]
      BY <2>1 DEF TpmInv, TypeOK
    <3>2. QED
      BY <2>4, <3>1, ChargesAreNat
  <2>8. QED
    BY <2>3, <2>4, <2>5, <2>6, <2>7
<1>2. QED
  BY <1>1, InitTpmInv, NextTpmInv, PTL DEF Spec, NoFalseTokenRejection
=============================================================================
