---------------------------- MODULE OrderedRelay ----------------------------
(***************************************************************************)
(* What a relayed stream promises its client: the lines of the upstream,   *)
(* each once and in order, and one [DONE] after the last of them.          *)
(***************************************************************************)
EXTENDS Sequences, SequencesExt

CONSTANTS Lines, Done

VARIABLES produced,   \* the lines of the upstream so far
          ended,      \* it has ended, and did not fail
          delivered   \* what the client was given

vars == <<produced, ended, delivered>>

Init == produced = <<>> /\ ended = FALSE /\ delivered = <<>>

Produce ==
  /\ ~ended
  /\ \E l \in Lines : produced' = Append(produced, l)
  /\ UNCHANGED <<ended, delivered>>

End ==
  /\ ended' = TRUE
  /\ UNCHANGED <<produced, delivered>>

Deliver ==
  /\ Len(delivered) < Len(produced)
  /\ delivered' = Append(delivered, produced[Len(delivered) + 1])
  /\ UNCHANGED <<produced, ended>>

\* The relay closes a stream whose upstream did not.
Terminate ==
  /\ ended /\ delivered = produced /\ ~Contains(produced, Done)
  /\ delivered' = Append(delivered, Done)
  /\ UNCHANGED <<produced, ended>>

Next == Produce \/ End \/ Deliver \/ Terminate

Spec == Init /\ [][Next]_vars
=============================================================================
