------------------------- MODULE MCRequestLifecycle -------------------------
\* Two streams, a plain request and a batch job of one API key that allows two
\* requests at a time.
EXTENDS RequestLifecycle, TLC

CONSTANTS p, s1, s2, b

Three == {p, s1, b}
Four == {p, s1, s2, b}
KindOfFour == (p :> "plain") @@ (s1 :> "stream") @@ (s2 :> "stream") @@ (b :> "batch")
KindOfThree == [r \in Three |-> KindOfFour[r]]
OwnIds == [r \in Requests |-> r]

\* The plain request repeats the request id of the first stream.
SharedId == [OwnIds EXCEPT ![p] = s1]
=============================================================================
