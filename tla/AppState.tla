------------------------------ MODULE AppState ------------------------------
(***************************************************************************)
(* app.state: the services a worker process creates on the first request   *)
(* that needs them, the database engine and the Redis client they share,   *)
(* and what lifespan closes when the process is asked to stop.  Every      *)
(* get-or-create runs without an await, so each is one step of the         *)
(* request that calls it.                                                  *)
(***************************************************************************)
EXTENDS Naturals, FiniteSets

VARIABLES app,    \* app.state; 0 stands for an attribute that is not set
          open    \* the engines and clients created and not closed, [kind, id]

appVars == <<app, open>>

FreshState == [ready |-> FALSE, postgres_engine |-> 0, redis_client |-> 0, created |-> 0,
               auth |-> 0, audit |-> 0, batch_engine |-> 0, batch_redis |-> 0, admission |-> 0]

AppInit == app = FreshState /\ open = {}

\* lifespan up to its yield; vllm_client is the one create_app was not given.
StartUp ==
  /\ ~app.ready
  /\ app' = [FreshState EXCEPT !.ready = TRUE]
  /\ open' = {[kind |-> "vllm", id |-> 0]}

Engine(a)  == [kind |-> "engine", id |-> a.postgres_engine]
Redis(a)   == [kind |-> "redis", id |-> a.redis_client]

\* The engine is left to the process's end.
MutShutDown ==
  /\ app.ready
  /\ app' = [app EXCEPT !.ready = FALSE]
  /\ open' = open \ {[kind |-> "vllm", id |-> 0], Redis(app)}

\* lifespan after its yield, and shutdown; the server has drained its requests.
ShutDown ==
  /\ app.ready
  /\ app' = [app EXCEPT !.ready = FALSE]
  /\ open' = open \ {[kind |-> "vllm", id |-> 0], Engine(app), Redis(app)}

\* What a get-or-create leaves: the state, and what it opened.
Created(a) == [a EXCEPT !.created = @ + 1]
NewEngine(a) == [Created(a) EXCEPT !.postgres_engine = a.created + 1]
NewRedis(a)  == [Created(a) EXCEPT !.redis_client = a.created + 1]
SharedEngine(a) == IF a.postgres_engine = 0 THEN NewEngine(a) ELSE a
SharedRedis(a)  == IF a.redis_client = 0 THEN NewRedis(a) ELSE a

\* _get_or_create_auth_service makes an engine, whether or not there is one.
WithAuth(a) ==
  IF a.auth # 0 THEN a
  ELSE LET b == NewEngine(a) IN [b EXCEPT !.auth = b.postgres_engine]

\* _get_or_create_admission_service makes a client, whether or not there is one.
WithAdmission(a) ==
  IF a.admission # 0 THEN a
  ELSE LET b == NewRedis(a) IN [b EXCEPT !.admission = b.redis_client]

WithAudit(a) ==
  IF a.audit # 0 THEN a
  ELSE LET b == SharedEngine(a) IN [b EXCEPT !.audit = b.postgres_engine]

WithBatch(a) ==
  IF a.batch_engine # 0 THEN a
  ELSE LET b == SharedRedis(SharedEngine(a))
       IN [b EXCEPT !.batch_engine = b.postgres_engine, !.batch_redis = b.redis_client]

Becomes(a) ==
  /\ app' = a
  /\ open' = open \cup {r \in {Engine(a), Redis(a)} : r.id > app.created}

-----------------------------------------------------------------------------
\* What /ready pings is the client admission uses, and the services share the
\* engine that shutdown disposes of, whatever order the first requests come in.
OneOfEach ==
  app.ready =>
    /\ app.admission \in {0, app.redis_client}
    /\ {app.auth, app.audit, app.batch_engine} \subseteq {0, app.postgres_engine}

\* After shutdown only one thing can still be open: the Redis client of a
\* batch service that was created before admission made a second client.
OnlyTheFirstClientLeaks ==
  ~app.ready => \A r \in open :
    r = [kind |-> "redis", id |-> app.batch_redis] /\ app.admission > app.batch_redis
=============================================================================
