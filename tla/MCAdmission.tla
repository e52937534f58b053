---------------------------- MODULE MCAdmission -----------------------------
(* Small instances of Admission: three requests of one key (two of the API  *)
(* process, one of the batch worker).                                       *)
EXTENDS Admission

CONSTANTS r1, r2, r3, k1, api, worker

MCRequests == {r1, r2, r3}
MCKeys == {k1}
MCProcesses == {api, worker}
MCKeyOf == [r \in MCRequests |-> k1]
MCHome == [r \in MCRequests |-> IF r = r3 THEN worker ELSE api]
MCEst == [r \in MCRequests |-> IF r = r3 THEN 2 ELSE 1]
AllFaults == {"lost", "noreply", "crash", "restart"}
NoFault == {}
=============================================================================
