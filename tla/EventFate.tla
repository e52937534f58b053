----------------------------- MODULE EventFate ------------------------------
(***************************************************************************)
(* What the analytics pipeline promises for each event: an event that was  *)
(* collected is held until it meets one fate, which it keeps.  It is       *)
(* stored in ClickHouse, or spooled (critical events), or dropped (the     *)
(* others), or lost; nothing is stored that was not collected, and nothing *)
(* that is held is forgotten.                                              *)
(***************************************************************************)
CONSTANTS Events, Critical

VARIABLE fate

Fates == {"none", "held", "stored", "spooled", "dropped", "lost"}

Init == fate = [e \in Events |-> "none"]

\* The steps one event may take.
Moves(e) ==
  {<<"none", "held">>, <<"held", "stored">>, <<"held", "lost">>} \cup
  (IF e \in Critical THEN {<<"held", "spooled">>}
                     ELSE {<<"none", "dropped">>, <<"held", "dropped">>})

\* A batch, or a process that ends, moves several events at once.
Next ==
  /\ fate' \in [Events -> Fates]
  /\ \A e \in Events : fate'[e] = fate[e] \/ <<fate[e], fate'[e]>> \in Moves(e)

Spec == Init /\ [][Next]_fate
=============================================================================
