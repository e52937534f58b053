------------------------------- MODULE Access -------------------------------
(***************************************************************************)
(* Requests on the protected paths: ApiKeyAuthMiddleware looks the key up, *)
(* the route checks the model and creates the services it needs, chat      *)
(* completions call the model, batch jobs are stored, read and cancelled   *)
(* for their owner, and the worker runs them later on a context of its     *)
(* own.  Keys come from the scripts of KeyIssue, the process and its       *)
(* resources from AppState.  Admission, the audit trail, the stream and    *)
(* the job queue have modules of their own; here each is one step.         *)
(***************************************************************************)
EXTENDS KeyIssue, AppState

CONSTANTS Requests,   \* the requests clients may send
          Models,     \* the models they may name
          Allowed,    \* allowed_models of each key; Models when it has no list
          Ending,     \* bound: the keys that are revoked or expire
          Missing,    \* no bearer token in the request
          Unknown     \* a bearer token that no row of api_keys matches

ASSUME AllowedAssumption ==
  /\ Allowed \in [Scripts -> SUBSET Models] /\ Ending \subseteq Scripts
  /\ Missing \notin Scripts /\ Unknown \notin Scripts /\ Missing # Unknown /\ Models # {}

VARIABLES
  req,    \* each request: its step, what it asks, its auth context, its answer
  jobs,   \* the batch_jobs table: owner, key and model of the job a request stored
  calls,  \* the calls made to vLLM: [key, model]
  seen    \* history: was the request's key valid at a moment since it arrived?

vars == <<issueVars, appVars, req, jobs, calls, seen>>
tables == <<jobs, calls>>

Ops == {"chat", "submit", "get", "cancel"}
NoContext == [user |-> Nobody, project |-> Nobody, allowed |-> {}]
NoJob == [status |-> "none", key |-> Missing, user |-> Nobody, project |-> Nobody,
          model |-> Nobody]
Terminal == {"succeeded", "failed", "cancelled"}
ServerError == "internal_server_error"

Init ==
  /\ IssueInit /\ AppInit
  /\ req = [r \in Requests |-> [at |-> "client", op |-> "chat", key |-> Missing,
                                model |-> CHOOSE m \in Models : TRUE, job |-> r,
                                context |-> NoContext, code |-> "none"]]
  /\ jobs = [r \in Requests |-> NoJob]
  /\ calls = {} /\ seen = [r \in Requests |-> FALSE]

At(r, step)     == req[r].at = step
MoveTo(r, step) == req' = [req EXCEPT ![r].at = step]
Answer(r, code) == req' = [req EXCEPT ![r].at = "answered", ![r].code = code]

-----------------------------------------------------------------------------
\* dispatch, up to the first await: a path that is not protected never gets here.
Dispatch(r) ==
  /\ At(r, "client") /\ app.ready
  /\ \E op \in Ops, key \in {k \in Scripts : issue[k].pc = "printed"} \cup {Missing, Unknown},
        model \in Models, job \in Requests :
       /\ op \in {"chat", "submit"} => job = r
       /\ op \in {"get", "cancel"} => job # r /\ model = req[r].model
       /\ LET asked == [req[r] EXCEPT !.op = op, !.key = key, !.model = model, !.job = job]
          IN IF key = Missing
             THEN /\ req' = [req EXCEPT ![r] = [asked EXCEPT !.at = "answered",
                                                             !.code = "missing_api_key"]]
                  /\ UNCHANGED appVars
             ELSE /\ req' = [req EXCEPT ![r] = [asked EXCEPT !.at = "auth"]]
                  /\ Becomes(WithAuth(app))
  /\ UNCHANGED <<issueVars, tables>>

\* Only the revocation is looked at.
MutInvalid(row) == IF row.revoked THEN "revoked_api_key" ELSE "none"

\* validate_api_key_state: the reason not to let the row in.
Invalid(row) ==
  IF row.revoked THEN "revoked_api_key" ELSE IF row.expired THEN "expired_api_key" ELSE "none"

\* auth_context_from_api_key
ContextOf(k) == [user |-> keys[k].user, project |-> keys[k].project, allowed |-> Allowed[k]]

\* authenticate: the select, the checks and the context.
ReadKey(r) ==
  LET k == req[r].key
      refusal == IF k = Unknown THEN "invalid_api_key" ELSE Invalid(keys[k])
  IN
  /\ At(r, "auth")
  /\ IF refusal # "none"
     THEN Answer(r, refusal)
     ELSE req' = [req EXCEPT ![r].at = "marking",
                             ![r].context = ContextOf(k)]
  /\ UNCHANGED <<issueVars, appVars, tables>>

\* mark_used and the commit; the row is not looked at again, and nothing reads
\* last_used_at.
MarkUsed(r) ==
  /\ At(r, "marking")
  /\ MoveTo(r, "route")
  /\ UNCHANGED <<issueVars, appVars, tables>>

\* ensure_model_allowed
ModelAllowed(context, model) == model \in context.allowed

RouteChat(r) ==
  /\ At(r, "route") /\ req[r].op = "chat"
  /\ IF ModelAllowed(req[r].context, req[r].model)
     THEN MoveTo(r, "admission") /\ Becomes(WithAdmission(app))
     ELSE Answer(r, "model_not_allowed") /\ UNCHANGED appVars
  /\ UNCHANGED <<issueVars, tables>>

Admit(r) ==
  /\ At(r, "admission")
  /\ \/ MoveTo(r, "calling") /\ Becomes(WithAudit(app))
     \/ Answer(r, "rate_limit_exceeded") /\ UNCHANGED appVars
  /\ UNCHANGED <<issueVars, tables>>

CallModel(r) ==
  /\ At(r, "calling")
  /\ calls' = calls \cup {[key |-> req[r].key, model |-> req[r].model]}
  /\ Answer(r, "ok")
  /\ UNCHANGED <<issueVars, appVars, jobs>>

\* The model is left to the worker to check.
MutRouteSubmit(r) ==
  /\ At(r, "route") /\ req[r].op = "submit"
  /\ MoveTo(r, "storing") /\ Becomes(WithBatch(app))
  /\ UNCHANGED <<issueVars, tables>>

RouteSubmit(r) ==
  /\ At(r, "route") /\ req[r].op = "submit"
  /\ IF ModelAllowed(req[r].context, req[r].model)
     THEN MoveTo(r, "storing") /\ Becomes(WithBatch(app))
     ELSE Answer(r, "model_not_allowed") /\ UNCHANGED appVars
  /\ UNCHANGED <<issueVars, tables>>

StoreJob(r) ==
  /\ At(r, "storing")
  /\ jobs' = [jobs EXCEPT ![r] = [status |-> "queued", key |-> req[r].key,
                                  user |-> req[r].context.user,
                                  project |-> req[r].context.project,
                                  model |-> req[r].model]]
  /\ Answer(r, "ok")
  /\ UNCHANGED <<issueVars, appVars, calls>>

RouteJob(r) ==
  /\ At(r, "route") /\ req[r].op \in {"get", "cancel"}
  /\ MoveTo(r, "getting") /\ Becomes(WithBatch(app))
  /\ UNCHANGED <<issueVars, tables>>

CanAccess(job, context) == job.user = context.user /\ job.project = context.project

\* Ownership by key.
MutGetJob(r) ==
  LET job == jobs[req[r].job] IN
  /\ At(r, "getting")
  /\ IF job.key # req[r].key THEN Answer(r, "batch_job_not_found")
     ELSE IF req[r].op = "get" \/ job.status \in Terminal THEN Answer(r, "ok")
     ELSE MoveTo(r, "cancelling")
  /\ UNCHANGED <<issueVars, appVars, tables>>

GetJob(r) ==
  LET job == jobs[req[r].job] IN
  /\ At(r, "getting")
  /\ IF job.status = "none" \/ ~CanAccess(job, req[r].context)
     THEN Answer(r, "batch_job_not_found")
     ELSE IF req[r].op = "get" \/ job.status \in Terminal
     THEN Answer(r, "ok")
     ELSE MoveTo(r, "cancelling")
  /\ UNCHANGED <<issueVars, appVars, tables>>

CancelJob(r) ==
  LET j == req[r].job IN
  /\ At(r, "cancelling")
  /\ jobs' = IF jobs[j].status \in Terminal THEN jobs ELSE [jobs EXCEPT ![j].status = "cancelled"]
  /\ Answer(r, "ok")
  /\ UNCHANGED <<issueVars, appVars, calls>>

\* PostgreSQL fails under a request: nothing is committed, and the exception
\* becomes the answer of unhandled_error_handler.
DatabaseFails(r) ==
  /\ req[r].at \in {"auth", "marking", "storing", "getting", "cancelling"}
  /\ Answer(r, ServerError)
  /\ UNCHANGED <<issueVars, appVars, tables>>

-----------------------------------------------------------------------------
\* The worker runs a job on AuthContext(..., allowed_models=None) and asks
\* nothing about the key; admission may refuse it.
RunJob(j) ==
  /\ jobs[j].status = "queued"
  /\ \/ /\ jobs' = [jobs EXCEPT ![j].status = "running"]
        /\ calls' = calls \cup {[key |-> jobs[j].key, model |-> jobs[j].model]}
     \/ /\ jobs' = [jobs EXCEPT ![j].status = "failed"]
        /\ UNCHANGED calls
  /\ UNCHANGED <<issueVars, appVars, req>>

FinishJob(j) ==
  /\ jobs[j].status = "running"
  /\ \E status \in {"succeeded", "failed"} : jobs' = [jobs EXCEPT ![j].status = status]
  /\ UNCHANGED <<issueVars, appVars, req, calls>>

\* An operator revokes a key in the database; the clock passes expires_at.  A
\* key ends once here, for which of the two reasons changes only the answer.
Valid(k) == Issued(k) /\ ~keys[k].revoked /\ ~keys[k].expired

Revoke(k) ==
  /\ k \in Ending /\ Valid(k)
  /\ keys' = [keys EXCEPT ![k].revoked = TRUE]
  /\ UNCHANGED <<users, projects, issue, appVars, req, tables>>

Expire(k) ==
  /\ k \in Ending /\ Valid(k)
  /\ keys' = [keys EXCEPT ![k].expired = TRUE]
  /\ UNCHANGED <<users, projects, issue, appVars, req, tables>>

\* The server stops when the requests it has are answered, or dies with them.
Start == StartUp /\ UNCHANGED <<issueVars, req, tables>>

Stop ==
  /\ \A r \in Requests : req[r].at \in {"client", "answered"}
  /\ ShutDown
  /\ UNCHANGED <<issueVars, req, tables>>

Crash ==
  /\ app.ready
  /\ app' = FreshState /\ open' = {}
  /\ req' = [r \in Requests |->
       IF req[r].at \in {"client", "answered"} THEN req[r]
       ELSE [req[r] EXCEPT !.at = "answered", !.code = "lost"]]
  /\ UNCHANGED <<issueVars, tables>>

-----------------------------------------------------------------------------
Script(s) == (IssueStep(s) \/ AbortScript(s)) /\ UNCHANGED <<appVars, req, tables>>

Handle(r) ==
  \/ Dispatch(r) \/ ReadKey(r) \/ MarkUsed(r) \/ DatabaseFails(r)
  \/ RouteChat(r) \/ Admit(r) \/ CallModel(r)
  \/ RouteSubmit(r) \/ StoreJob(r) \/ RouteJob(r) \/ GetJob(r) \/ CancelJob(r)

Under(r) == req[r].at # "client" /\ req[r].key \in Scripts
Witnessed(r) == Under(r) /\ Valid(req[r].key)

Next ==
  /\ \/ \E s \in Scripts : Script(s) \/ Revoke(s) \/ Expire(s)
     \/ \E r \in Requests : Handle(r) \/ RunJob(r) \/ FinishJob(r)
     \/ Start \/ Stop \/ Crash
  /\ seen' = [r \in Requests |-> seen[r] \/ Witnessed(r)']

Spec == Init /\ [][Next]_vars

-----------------------------------------------------------------------------
Steps == {"client", "auth", "marking", "route", "admission", "calling", "storing", "getting",
          "cancelling", "answered"}
AllAsked == UNION {Asked[s] : s \in Scripts}
People == Scripts \cup {Nobody}

\* Rows, requests, jobs and the app's state have the shape the code gives them.
TypeOK ==
  /\ users \subseteq [id : Scripts, email : {a.email : a \in AllAsked}]
  /\ projects \subseteq [id : Scripts, user : Scripts, name : {a.project : a \in AllAsked}]
  /\ keys \in [Scripts -> [user : People, project : People, revoked : BOOLEAN,
                           expired : BOOLEAN]]
  /\ \A r \in Requests :
       /\ req[r].at \in Steps /\ req[r].op \in Ops
       /\ req[r].key \in Scripts \cup {Missing, Unknown}
       /\ jobs[r].status \in Terminal \cup {"none", "queued", "running"}
  /\ \A c \in calls : c.key \in Scripts /\ c.model \in Models
  /\ app.ready \in BOOLEAN /\ open \subseteq [kind : {"vllm", "engine", "redis"}, id : 0..app.created]

\* Rows, requests and app.state have their shape, and app.state keeps track of what
\* its services open: they share the engine that shutdown disposes of, /ready pings
\* the client of admission, and what outlives the process is at most the client
\* of a batch service that was there before admission (chat_completions.py:297).
ResourcesKept == TypeOK /\ OneOfEach /\ OnlyTheFirstClientLeaks

\* A request has an auth context only if its key was neither revoked nor
\* expired at some moment after the request arrived: authenticate never lets
\* in a request that came after its key had ended, whatever it waited for.
LetInOnlyWhileValid ==
  \A r \in Requests : req[r].context # NoContext => seen[r]

\* Every call to vLLM, the ones the worker makes long after on a context
\* without a model list included, is for a model that the key of the request
\* behind it may use.
CallsAreAllowed ==
  \A c \in calls : c.model \in Allowed[c.key]

\* A job is found only by a key that has both the user and the project of the key
\* that submitted it, also where a key made from ids joins a user with somebody
\* else's project; and it is not found by a key asked for with the same e-mail and
\* project name only when two scripts raced and left two projects of that name.
JobsAreTheirs ==
  [][\A r \in Requests :
       LET j == jobs[req[r].job]
           k == req[r].key
       IN At(r, "getting") /\ j.status # "none" =>
          /\ At(r, "cancelling")' \/ req'[r].code = "ok" =>
               keys[k].user = keys[j.key].user /\ keys[k].project = keys[j.key].project
          /\ /\ req'[r].code = "batch_job_not_found"
             /\ {k, j.key} \cap ByIds = {} /\ issue[k].ask = issue[j.key].ask
             => \E p, q \in projects : p.id # q.id /\ p.user = q.user /\ p.name = q.name]_vars
=============================================================================
