---------------------------- MODULE RedisCounter ----------------------------
(***************************************************************************)
(* A Redis key that holds an integer, as the gateway's rate limiter and    *)
(* quota reserver use it: one command is one atomic step of the server.    *)
(* A key that does not exist counts from zero, and has no time to live     *)
(* until somebody calls EXPIRE on it.                                      *)
(***************************************************************************)
EXTENDS Integers

Absent == [live |-> FALSE, val |-> 0, ttl |-> FALSE]

Entry == [live : BOOLEAN, val : Int, ttl : BOOLEAN]

\* INCR and INCRBY (and, with a negative n, DECR and DECRBY) create a missing
\* key without a time to live and keep the time to live of an existing one.
IncrBy(e, n) == [live |-> TRUE, val |-> e.val + n, ttl |-> e.ttl]

\* EXPIRE on a missing key does nothing.
Expire(e) == IF e.live THEN [e EXCEPT !.ttl = TRUE] ELSE e
=============================================================================
