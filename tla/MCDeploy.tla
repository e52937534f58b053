------------------------------ MODULE MCDeploy -------------------------------
(* Small instances of Deploy: two refs, two releases of which one brings a   *)
(* migration, and one directory kept.                                        *)
EXTENDS Deploy, TLC

CONSTANTS v1, v2

MCSchema == (v1 :> 1) @@ (v2 :> 2)
=============================================================================
