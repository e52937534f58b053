------------------------ MODULE MCAnalyticsPipeline -------------------------
(* Small instances of AnalyticsPipeline: two usage events and two inference  *)
(* events, one of each kind critical.                                        *)
EXTENDS AnalyticsPipeline

CONSTANTS u1, u2, i1, i2

MCEvents == {u1, u2, i1, i2}
MCKindOf == [e \in MCEvents |-> IF e \in {u1, u2} THEN "usage" ELSE "inference"]
MCCritical == {u2, i2}
AllFaults == {"insert", "disk", "crash"}
NoFault == {}
=============================================================================
