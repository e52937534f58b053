---------------------------- MODULE MCBatchJobs -----------------------------
(* Small instances of BatchJobs.                                            *)
EXTENDS BatchJobs

CONSTANTS j1, j2, w1

MCJobs == {j1, j2}
OneJob == {j1}
MCWorkers == {w1}
NoFaults == {}
AllFaults == {"lost", "noreply", "crash", "redis"}
=============================================================================
