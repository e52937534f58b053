------------------------------ MODULE MCAccess -------------------------------
(* Small instances of Access: two scripts that may race for one user and one *)
(* project, a third that is given ids, and a job with a reader beside it.    *)
EXTENDS Access, TLC

CONSTANTS s1, s2, s3, r1, r2, m1, m2

Owner(e) == [email |-> e, project |-> "p"]
MCAsked == (s1 :> {Owner("x")}) @@ (s2 :> {Owner("x"), Owner("y")}) @@ (s3 :> {})
MCAllowed == (s1 :> {m1}) @@ (s2 :> {m1, m2}) @@ (s3 :> {m2})
MCRequestSymmetry == Permutations(Requests)

\* Bounds on what is explored: requests come once the three keys are printed,
\* as a script and a request share only rows that were committed before the
\* key was shown, and no request comes to a second life of the process, whose
\* app.state is as fresh as the first's.
Explored ==
  app.ready =>
    /\ \A s \in Scripts : issue[s].pc = "printed"
    /\ app.created = 0 => \A r \in Requests : req[r].code \in {"none", "missing_api_key"}
=============================================================================
