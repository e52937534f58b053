---------------------------- MODULE AccessProofs ----------------------------
(***************************************************************************)
(* Theorems about Access: for any scripts, requests, models and keys, and  *)
(* whatever is revoked, expires, fails or crashes.                         *)
(***************************************************************************)
EXTENDS Access, TLAPS

(***************************************************************************)
(* The scripts                                                             *)
(***************************************************************************)
\* What a script can be asked for, the rows of projects, and a script's locals.
Asks     == AllAsked \cup {[email |-> Nobody, project |-> Nobody]}
Projects == [id : Scripts, user : People, name : {a.project : a \in Asks}]
Places   == {"user", "new_user", "project", "commit", "ids", "key", "printed", "failed"}
Progress == [pc : Places, ask : Asks, user : People, project : People, saw : SUBSET Projects]
KeyRows  == [user : People, project : People, revoked : BOOLEAN, expired : BOOLEAN]

\* A key that was printed is a committed row, with an owner.
IssueInv ==
  /\ issue \in [Scripts -> Progress]
  /\ keys \in [Scripts -> KeyRows]
  /\ \A u \in users : u.id \in Scripts
  /\ projects \subseteq Projects
  /\ \A s \in Scripts : issue[s].pc = "printed" => Issued(s)

\* Nothing is printed initially.
LEMMA InitIssue == IssueInit => IssueInv
<1> SUFFICES ASSUME IssueInit PROVE IssueInv
  OBVIOUS
<1>1. PICK ask \in [Scripts \ ByIds -> AllAsked] :
        issue = [s \in Scripts |->
            [pc |-> IF s \in ByIds THEN "ids" ELSE "user",
             ask |-> IF s \in ByIds THEN [email |-> Nobody, project |-> Nobody] ELSE ask[s],
             user |-> Nobody, project |-> Nobody, saw |-> {}]]
  BY DEF IssueInit, AllAsked
<1>2. ASSUME NEW s \in Scripts
      PROVE  (IF s \in ByIds THEN [email |-> Nobody, project |-> Nobody] ELSE ask[s]) \in Asks
  BY <1>1 DEF Asks
<1>3. issue \in [Scripts -> Progress]
  <2>1. ASSUME NEW s \in Scripts PROVE issue[s] \in Progress
    <3> DEFINE a == IF s \in ByIds THEN [email |-> Nobody, project |-> Nobody] ELSE ask[s]
               pc == IF s \in ByIds THEN "ids" ELSE "user"
    <3>1. issue[s] = [pc |-> pc, ask |-> a, user |-> Nobody, project |-> Nobody, saw |-> {}]
      BY <1>1
    <3>2. a \in Asks /\ pc \in Places
      BY <1>2 DEF Places
    <3> HIDE DEF a, pc
    <3>3. QED
      BY <3>1, <3>2 DEF Progress, People
  <2>2. QED
    BY <1>1, <2>1
<1>4. \A s \in Scripts : issue[s].pc # "printed"
  BY <1>1
<1>5. NoKeyRow \in KeyRows
  BY DEF NoKeyRow, KeyRows, People
<1>6. QED
  BY <1>3, <1>4, <1>5 DEF IssueInv, IssueInit

\* A script that moves on keeps its locals, and the other scripts stay.
LEMMA StepsOn ==
  ASSUME issue \in [Scripts -> Progress], NEW s \in Scripts, NEW pc \in Places, Go(s, pc)
  PROVE  /\ issue' \in [Scripts -> Progress] /\ issue'[s].pc = pc
         /\ \A k \in Scripts : k # s => issue'[k] = issue[k]
<1>1. issue' = [issue EXCEPT ![s].pc = pc]
  BY DEF Go
<1>2. QED
  BY <1>1 DEF Progress

\* A step of a script keeps the invariant, and leaves what was printed alone.
LEMMA IssueStepInv ==
  ASSUME IssueInv, NEW s \in Scripts, IssueStep(s) \/ AbortScript(s)
  PROVE  /\ IssueInv'
         /\ \A k \in Scripts : issue[k].pc = "printed" => issue'[k].pc = "printed"
<1>0. /\ issue \in [Scripts -> Progress] /\ keys \in [Scripts -> KeyRows]
      /\ "nobody" \notin Scripts
  BY ScriptsAssumption DEF IssueInv
<1> DEFINE Moved == /\ issue' \in [Scripts -> Progress]
                    /\ \A k \in Scripts : k # s => issue'[k] = issue[k]
                    /\ issue[s].pc # "printed"
           Tables == (\A u \in users' : u.id \in Scripts) /\ projects' \subseteq Projects
<1>1. CASE LookUpUser(s)
  <2>0. issue[s].pc = "user"
    BY <1>1 DEF LookUpUser
  <2>1. Moved /\ issue'[s].pc # "printed"
    <3>1. CASE Go(s, "new_user")
      BY <1>0, <2>0, <3>1, StepsOn DEF Places
    <3>2. CASE \E u \in users : issue' = [issue EXCEPT ![s].pc = "project", ![s].user = u.id]
      <4>1. PICK u \in users : issue' = [issue EXCEPT ![s].pc = "project", ![s].user = u.id]
        BY <3>2
      <4>2. u.id \in People
        BY DEF IssueInv, People
      <4> DEFINE R1 == [issue EXCEPT ![s].pc = "project"]
                 R2 == [R1 EXCEPT ![s].user = u.id]
      <4>3. /\ R1 \in [Scripts -> Progress] /\ R1[s].pc = "project"
            /\ \A k \in Scripts : k # s => R1[k] = issue[k]
        BY <1>0 DEF Progress, Places
      <4>4. issue' = R2
        BY <1>0, <4>1
      <4> HIDE DEF R1
      <4>5. /\ R2 \in [Scripts -> Progress] /\ R2[s].pc = "project"
            /\ \A k \in Scripts : k # s => R2[k] = R1[k]
        BY <4>2, <4>3 DEF Progress
      <4> HIDE DEF R2
      <4>6. QED
        BY <2>0, <4>3, <4>4, <4>5
    <3>3. QED
      BY <1>1, <3>1, <3>2 DEF LookUpUser
  <2>2. QED
    BY <1>1, <2>1 DEF LookUpUser, IssueInv, Issued
<1>2. CASE InsertUser(s)
  <2>1. s \in People
    BY DEF People
  <2>2. Moved /\ issue'[s].pc # "printed"
    BY <1>0, <1>2, <2>1 DEF InsertUser, Go, Progress, Places
  <2>3. QED
    BY <1>2, <2>2 DEF InsertUser, IssueInv, Issued
<1>3. CASE LookUpProject(s)
  <2>0. issue[s].pc = "project"
    BY <1>3 DEF LookUpProject
  <2>1. s \in People /\ projects \subseteq Projects /\ \A p \in Projects : p.id \in People
    BY DEF People, IssueInv, Projects
  <2>2. Moved /\ issue'[s].pc # "printed"
    <3>1. CASE Go(s, "failed")
      BY <1>0, <2>0, <3>1, StepsOn DEF Places
    <3>2. CASE \E p \in Matching(s) :
                 issue' = [issue EXCEPT ![s].pc = "commit", ![s].project = p.id]
      <4>1. PICK p \in projects : issue' = [issue EXCEPT ![s].pc = "commit", ![s].project = p.id]
        BY <3>2 DEF Matching
      <4>2. p.id \in People
        BY <2>1
      <4> DEFINE R1 == [issue EXCEPT ![s].pc = "commit"]
                 R2 == [R1 EXCEPT ![s].project = p.id]
      <4>3. /\ R1 \in [Scripts -> Progress] /\ R1[s].pc = "commit"
            /\ \A k \in Scripts : k # s => R1[k] = issue[k]
        BY <1>0 DEF Progress, Places
      <4>4. issue' = R2
        BY <1>0, <4>1
      <4> HIDE DEF R1
      <4>5. /\ R2 \in [Scripts -> Progress] /\ R2[s].pc = "commit"
            /\ \A k \in Scripts : k # s => R2[k] = R1[k]
        BY <4>2, <4>3 DEF Progress
      <4> HIDE DEF R2
      <4>6. QED
        BY <2>0, <4>3, <4>4, <4>5
    <3>3. CASE issue' = [issue EXCEPT ![s].pc = "commit", ![s].project = s, ![s].saw = projects]
      <4> DEFINE R0 == [issue EXCEPT ![s].pc = "commit"]
                 R1 == [R0 EXCEPT ![s].project = s]
                 R2 == [R1 EXCEPT ![s].saw = projects]
      <4>0. /\ R0 \in [Scripts -> Progress] /\ R0[s].pc = "commit"
            /\ \A k \in Scripts : k # s => R0[k] = issue[k]
        BY <1>0 DEF Progress, Places
      <4>2. issue' = R2
        BY <1>0, <3>3
      <4> HIDE DEF R0
      <4>1. /\ R1 \in [Scripts -> Progress] /\ R1[s].pc = "commit"
            /\ \A k \in Scripts : k # s => R1[k] = issue[k]
        BY <2>1, <4>0 DEF Progress
      <4> HIDE DEF R1
      <4>3. /\ R2 \in [Scripts -> Progress] /\ R2[s].pc = "commit"
            /\ \A k \in Scripts : k # s => R2[k] = issue[k]
        BY <2>1, <4>1 DEF Progress
      <4> HIDE DEF R2
      <4>4. QED
        BY <2>0, <4>2, <4>3
    <3>4. QED
      BY <1>3, <3>1, <3>2, <3>3 DEF LookUpProject
  <2>3. QED
    BY <1>3, <2>2 DEF LookUpProject, IssueInv, Issued
<1>4. CASE CommitOwner(s)
  <2>1. Moved /\ issue'[s].pc # "printed"
    BY <1>0, <1>4 DEF CommitOwner, Go, Progress, Places
  <2>2. Tables
    BY <1>0, <1>4 DEF CommitOwner, IssueInv, Projects, Progress
  <2>3. QED
    BY <1>4, <2>1, <2>2 DEF CommitOwner, IssueInv, Issued
<1>5. CASE TakeIds(s)
  <2>1. PICK user \in Scripts, project \in Scripts :
          issue' = [issue EXCEPT ![s].pc = "key", ![s].user = user, ![s].project = project]
    BY <1>5 DEF TakeIds
  <2>2. user \in People /\ project \in People
    BY DEF People
  <2>3. Moved /\ issue'[s].pc # "printed"
    <3> DEFINE R0 == [issue EXCEPT ![s].pc = "key"]
               R1 == [R0 EXCEPT ![s].user = user]
               R2 == [R1 EXCEPT ![s].project = project]
    <3>0. /\ R0 \in [Scripts -> Progress] /\ R0[s].pc = "key"
          /\ \A k \in Scripts : k # s => R0[k] = issue[k]
      BY <1>0 DEF Progress, Places
    <3>2. issue' = R2
      BY <1>0, <2>1
    <3> HIDE DEF R0
    <3>1. /\ R1 \in [Scripts -> Progress] /\ R1[s].pc = "key"
          /\ \A k \in Scripts : k # s => R1[k] = issue[k]
      BY <2>2, <3>0 DEF Progress
    <3> HIDE DEF R1
    <3>3. /\ R2 \in [Scripts -> Progress] /\ R2[s].pc = "key"
          /\ \A k \in Scripts : k # s => R2[k] = issue[k]
      BY <2>2, <3>1 DEF Progress
    <3>4. issue[s].pc = "ids"
      BY <1>5 DEF TakeIds
    <3> HIDE DEF R2
    <3>5. QED
      BY <3>2, <3>3, <3>4
  <2>4. QED
    BY <1>5, <2>3 DEF TakeIds, IssueInv, Issued
<1>6. CASE CreateKey(s)
  <2>0. issue[s].pc = "key" /\ (Go(s, "printed") \/ Go(s, "failed"))
    BY <1>6 DEF CreateKey
  <2>1. Moved
    <3>1. CASE Go(s, "printed")
      BY <1>0, <2>0, <3>1, StepsOn DEF Places
    <3>2. CASE Go(s, "failed")
      BY <1>0, <2>0, <3>2, StepsOn DEF Places
    <3>3. QED
      BY <2>0, <3>1, <3>2
  <2>2. CASE Go(s, "failed") /\ UNCHANGED keys
    <3>1. issue'[s].pc = "failed"
      BY <1>0, <2>2, StepsOn DEF Places
    <3>2. QED
      BY <1>6, <2>1, <2>2, <3>1 DEF CreateKey, IssueInv, Issued
  <2>3. CASE /\ \E u \in users : u.id = issue[s].user
             /\ keys' = [keys EXCEPT ![s] = [user |-> issue[s].user, project |-> issue[s].project,
                                             revoked |-> FALSE, expired |-> FALSE]]
    <3> DEFINE new == [user |-> issue[s].user, project |-> issue[s].project,
                       revoked |-> FALSE, expired |-> FALSE]
    <3>1. new \in KeyRows /\ issue[s].user # Nobody
      BY <1>0, <2>3 DEF KeyRows, Progress, IssueInv, Nobody
    <3>2. keys' = [keys EXCEPT ![s] = new]
      BY <2>3
    <3>3. /\ keys' \in [Scripts -> KeyRows]
          /\ \A k \in Scripts : Issued(k) \/ k = s => Issued(k)'
      BY <1>0, <3>1, <3>2 DEF Issued
    <3>4. QED
      BY <1>6, <2>1, <3>3 DEF CreateKey, IssueInv
  <2>4. QED
    BY <1>6, <2>2, <2>3 DEF CreateKey
<1>7. CASE AbortScript(s)
  <2>1. Moved /\ issue'[s].pc # "printed"
    <3>1. issue[s].pc \notin {"printed", "failed"} /\ Go(s, "failed")
      BY <1>7 DEF AbortScript
    <3>2. QED
      BY <1>0, <3>1, StepsOn DEF Places
  <2>2. QED
    BY <1>7, <2>1 DEF AbortScript, IssueInv, Issued
<1>8. QED
  BY <1>1, <1>2, <1>3, <1>4, <1>5, <1>6, <1>7 DEF IssueStep

(***************************************************************************)
(* The requests and the jobs                                               *)
(***************************************************************************)
\* An auth context, the code of an answer, a request and a job.
Contexts  == [user : People, project : People, allowed : SUBSET Models]
Codes     == {"none", "ok", "missing_api_key", "invalid_api_key", "revoked_api_key",
              "expired_api_key", "model_not_allowed", "rate_limit_exceeded",
              "batch_job_not_found", ServerError, "lost"}
Tokens    == Scripts \cup {Missing, Unknown}
RequestOK == [at : Steps, op : Ops, key : Tokens, model : Models, job : Requests,
              context : Contexts, code : Codes]
JobOK     == [status : Terminal \cup {"none", "queued", "running"}, key : Tokens,
              user : People, project : People, model : Models \cup {Nobody}]

\* The steps behind the middleware, and those behind the check of the model.
Inside   == {"marking", "route", "admission", "calling", "storing", "getting", "cancelling"}
Approved == {"admission", "calling", "storing"}

\* What a request carries from one await to the next: past the middleware a printed
\* key and the models of that key, past the route a model among them.
Carries(q) ==
  /\ q.at = "auth" => q.key # Missing
  /\ q.at # "client" /\ q.key \in Scripts => issue[q.key].pc = "printed"
  /\ q.at \in Inside => q.key \in Scripts /\ q.context.allowed = Allowed[q.key]
  /\ q.at \in Approved => q.model \in q.context.allowed

\* A job that may still run keeps a model of its key.
MayRun(j)     == j.status \in {"queued", "running"}
JobCarries(j) == MayRun(j) => j.key \in Scripts /\ j.model \in Allowed[j.key]
JobsKept == jobs \in [Requests -> JobOK] /\ \A j \in Requests : JobCarries(jobs[j])

\* The inductive invariant: neither property speaks of the requests on their way.
AccessInv ==
  /\ IssueInv
  /\ req \in [Requests -> RequestOK] /\ seen \in [Requests -> BOOLEAN]
  /\ \A r \in Requests : Carries(req[r])
  /\ JobsKept
  /\ CallsAreAllowed /\ LetInOnlyWhileValid

\* Nobody has asked for anything initially.
LEMMA InitAccess == Init => AccessInv
<1> SUFFICES ASSUME Init PROVE AccessInv
  OBVIOUS
<1>1. IssueInv
  BY InitIssue DEF Init
<1>2. NoContext \in Contexts /\ NoJob \in JobOK
  BY DEF NoContext, Contexts, NoJob, JobOK, People, Tokens, Terminal
<1>3. (CHOOSE m \in Models : TRUE) \in Models
  BY AllowedAssumption
<1>4. req \in [Requests -> RequestOK] /\ jobs \in [Requests -> JobOK]
  BY <1>2, <1>3 DEF Init, RequestOK, Steps, Ops, Tokens, Codes
<1>5. \A r \in Requests : /\ req[r].at = "client" /\ req[r].context = NoContext
                          /\ jobs[r].status = "none"
  BY DEF Init, NoJob
<1>6. QED
  BY <1>1, <1>4, <1>5 DEF AccessInv, Carries, JobsKept, JobCarries, MayRun, Inside, Approved,
     CallsAreAllowed, LetInOnlyWhileValid, Init

\* The step of one request, seen from what it leaves: it keeps to what it carries, and
\* it gets an auth context only from a key that is valid at that moment.
Follows(r) ==
  /\ issue' = issue /\ keys' = keys
  /\ \E q \in RequestOK :
       /\ req' = [req EXCEPT ![r] = q]
       /\ Carries(q)
       /\ q.context = req[r].context \/ Witnessed(r)'
  /\ JobsKept' /\ CallsAreAllowed'

\* A request that moves on keeps the rest.
LEMMA MoveRecord ==
  ASSUME req \in [Requests -> RequestOK], NEW r \in Requests, NEW step \in Steps, MoveTo(r, step)
  PROVE  \E q \in RequestOK :
           /\ req' = [req EXCEPT ![r] = q]
           /\ q.at = step /\ q.op = req[r].op /\ q.key = req[r].key /\ q.model = req[r].model
           /\ q.job = req[r].job /\ q.context = req[r].context /\ q.code = req[r].code
<1> DEFINE q == [req[r] EXCEPT !.at = step]
<1>1. /\ q \in RequestOK
      /\ q.at = step /\ q.op = req[r].op /\ q.key = req[r].key /\ q.model = req[r].model
      /\ q.job = req[r].job /\ q.context = req[r].context /\ q.code = req[r].code
  BY DEF RequestOK
<1>2. req' = [req EXCEPT ![r] = q]
  BY DEF MoveTo
<1> HIDE DEF q
<1>3. QED
  BY <1>1, <1>2

\* A request that is answered keeps the rest.
LEMMA AnswerRecord ==
  ASSUME req \in [Requests -> RequestOK], NEW r \in Requests, NEW code \in Codes, Answer(r, code)
  PROVE  \E q \in RequestOK :
           /\ req' = [req EXCEPT ![r] = q]
           /\ q.at = "answered" /\ q.key = req[r].key /\ q.context = req[r].context
<1> DEFINE p == [req[r] EXCEPT !.at = "answered"]
           q == [p EXCEPT !.code = code]
<1>1. p \in RequestOK /\ p.at = "answered" /\ p.key = req[r].key /\ p.context = req[r].context
  BY DEF RequestOK, Steps
<1>2. req' = [req EXCEPT ![r] = q]
  BY DEF Answer
<1> HIDE DEF p
<1>3. q \in RequestOK /\ q.at = "answered" /\ q.key = p.key /\ q.context = p.context
  BY <1>1 DEF RequestOK
<1> HIDE DEF q
<1>4. QED
  BY <1>1, <1>2, <1>3

\* A refusal, or any other answer, follows.
LEMMA AnswerFollows ==
  ASSUME AccessInv, NEW r \in Requests, NEW code \in Codes, Answer(r, code),
         req[r].at # "client", issue' = issue, keys' = keys, JobsKept', CallsAreAllowed'
  PROVE  Follows(r)
<1>1. PICK q \in RequestOK :
        /\ req' = [req EXCEPT ![r] = q]
        /\ q.at = "answered" /\ q.key = req[r].key /\ q.context = req[r].context
  BY AnswerRecord DEF AccessInv
<1>2. Carries(q)
  BY <1>1 DEF Carries, Inside, Approved, AccessInv
<1>3. QED
  BY <1>1, <1>2 DEF Follows, AccessInv

\* A step behind the middleware that keeps to what the request carries follows.
LEMMA MoveFollows ==
  ASSUME AccessInv, NEW r \in Requests, NEW step \in Inside, MoveTo(r, step),
         req[r].at \in Inside,
         step \in Approved => req[r].model \in req[r].context.allowed,
         issue' = issue, keys' = keys, jobs' = jobs, calls' = calls
  PROVE  Follows(r)
<1>0. step \in Steps
  BY DEF Inside, Steps
<1>1. PICK q \in RequestOK :
        /\ req' = [req EXCEPT ![r] = q]
        /\ q.at = step /\ q.op = req[r].op /\ q.key = req[r].key /\ q.model = req[r].model
        /\ q.job = req[r].job /\ q.context = req[r].context
  BY <1>0, MoveRecord DEF AccessInv
<1>2. Carries(q)
  BY <1>1 DEF Carries, Inside, Approved, AccessInv
<1>3. CallsAreAllowed'
  BY DEF CallsAreAllowed, AccessInv
<1>4. QED
  BY <1>1, <1>2, <1>3 DEF Follows, AccessInv, JobsKept, JobCarries, MayRun

\* A request with what it asks.
AskedOf(p, op, key, model, job) ==
  [p EXCEPT !.op = op, !.key = key, !.model = model, !.job = job]

\* What dispatch makes of a request that asks this.
Asking(r, op, key, model, job) ==
  LET asked == AskedOf(req[r], op, key, model, job)
  IN IF key = Missing
     THEN /\ req' = [req EXCEPT ![r] = [asked EXCEPT !.at = "answered",
                                                     !.code = "missing_api_key"]]
          /\ app' = app /\ open' = open
     ELSE /\ req' = [req EXCEPT ![r] = [asked EXCEPT !.at = "auth"]]
          /\ Becomes(WithAuth(app))

\* dispatch makes that of it for something it asks.
LEMMA DispatchAsks ==
  ASSUME NEW r \in Requests, Dispatch(r)
  PROVE  \E op \in Ops, key \in {k \in Scripts : issue[k].pc = "printed"} \cup {Missing, Unknown},
            model \in Models, job \in Requests : Asking(r, op, key, model, job)
<1>1. PICK op \in Ops, key \in {k \in Scripts : issue[k].pc = "printed"} \cup {Missing, Unknown},
           model \in Models, job \in Requests :
        /\ op \in {"chat", "submit"} => job = r
        /\ op \in {"get", "cancel"} => job # r /\ model = req[r].model
        /\ LET asked == [req[r] EXCEPT !.op = op, !.key = key, !.model = model, !.job = job]
           IN IF key = Missing
              THEN /\ req' = [req EXCEPT ![r] = [asked EXCEPT !.at = "answered",
                                                              !.code = "missing_api_key"]]
                   /\ UNCHANGED appVars
              ELSE /\ req' = [req EXCEPT ![r] = [asked EXCEPT !.at = "auth"]]
                   /\ Becomes(WithAuth(app))
  BY Zenon DEF Dispatch
<1>2. UNCHANGED appVars => app' = app /\ open' = open
  BY DEF appVars
<1>3. Asking(r, op, key, model, job)
  BY <1>1, <1>2, Zenon DEF Asking, AskedOf
<1>4. QED
  BY <1>3

\* A request that says what it asks keeps its step and has no more of a context.
LEMMA AskedRecord ==
  ASSUME NEW p \in RequestOK, NEW op \in Ops, NEW key \in Tokens, NEW model \in Models,
         NEW job \in Requests
  PROVE  LET a == AskedOf(p, op, key, model, job)
         IN  a \in RequestOK /\ a.key = key /\ a.context = p.context /\ a.code = p.code
<1> DEFINE b == [p EXCEPT !.op = op]
           c == [b EXCEPT !.key = key]
           d == [c EXCEPT !.model = model]
           e == [d EXCEPT !.job = job]
<1>1. AskedOf(p, op, key, model, job) = e
  BY DEF AskedOf
<1>2. b \in RequestOK /\ b.context = p.context /\ b.code = p.code
  BY DEF RequestOK
<1> HIDE DEF b
<1>3. c \in RequestOK /\ c.key = key /\ c.context = p.context /\ c.code = p.code
  BY <1>2 DEF RequestOK
<1> HIDE DEF c
<1>4. d \in RequestOK /\ d.key = key /\ d.context = p.context /\ d.code = p.code
  BY <1>3 DEF RequestOK
<1> HIDE DEF d
<1>5. e \in RequestOK /\ e.key = key /\ e.context = p.context /\ e.code = p.code
  BY <1>4 DEF RequestOK
<1> HIDE DEF e
<1>6. QED
  BY <1>1, <1>5, Zenon

\* dispatch follows: what it lets on to the middleware has a token, of a printed key
\* or of none.
LEMMA DispatchFollows ==
  ASSUME AccessInv, NEW r \in Requests, Dispatch(r)
  PROVE  Follows(r)
<1>1. PICK op \in Ops, key \in {k \in Scripts : issue[k].pc = "printed"} \cup {Missing, Unknown},
           model \in Models, job \in Requests : Asking(r, op, key, model, job)
  BY DispatchAsks
<1> DEFINE asked == AskedOf(req[r], op, key, model, job)
           gone  == [asked EXCEPT !.at = "answered"]
           q     == IF key = Missing THEN [gone EXCEPT !.code = "missing_api_key"]
                                     ELSE [asked EXCEPT !.at = "auth"]
<1>2. key \in Tokens /\ (key \in Scripts => issue[key].pc = "printed")
  BY AllowedAssumption DEF Tokens
<1>3. asked \in RequestOK /\ asked.key = key /\ asked.context = req[r].context
  <2>1. req[r] \in RequestOK
    BY DEF AccessInv
  <2>2. QED
    BY <1>2, <2>1, AskedRecord
<1>4. req' = [req EXCEPT ![r] = q]
  BY <1>1 DEF Asking
<1> HIDE DEF asked
<1>5. gone \in RequestOK /\ gone.at = "answered" /\ gone.key = key /\ gone.context = req[r].context
  BY <1>3 DEF RequestOK, Steps
<1> HIDE DEF gone
<1>6. /\ q \in RequestOK /\ q.key = key /\ q.context = req[r].context
      /\ q.at = IF key = Missing THEN "answered" ELSE "auth"
  BY <1>3, <1>5 DEF RequestOK, Steps, Codes
<1> HIDE DEF q
<1>7. Carries(q)
  BY <1>2, <1>6 DEF Carries, Inside, Approved
<1>8. issue' = issue /\ keys' = keys /\ jobs' = jobs /\ calls' = calls
  BY DEF Dispatch, issueVars, tables
<1>9. QED
  BY <1>4, <1>6, <1>7, <1>8 DEF Follows, AccessInv, CallsAreAllowed, JobsKept, JobCarries, MayRun

\* authenticate follows: it gives a context only for a row it finds valid.
LEMMA ReadKeyFollows ==
  ASSUME AccessInv, NEW r \in Requests, ReadKey(r)
  PROVE  Follows(r)
<1> DEFINE k == req[r].key
           refusal == IF k = Unknown THEN "invalid_api_key" ELSE Invalid(keys[k])
<1>0. /\ req[r] \in RequestOK /\ req[r].at = "auth" /\ k \in Scripts \cup {Unknown}
      /\ issue' = issue /\ keys' = keys /\ jobs' = jobs /\ calls' = calls
  <2>1. req[r] \in RequestOK /\ req[r].at = "auth" /\ Carries(req[r])
    BY DEF ReadKey, AccessInv, At
  <2>2. req[r].key \in Tokens
    BY <2>1 DEF RequestOK
  <2>3. QED
    BY <2>1, <2>2 DEF ReadKey, Carries, Tokens, issueVars, tables
<1>1. CASE refusal # "none"
  <2>1. refusal \in Codes /\ Answer(r, refusal)
    BY <1>1 DEF ReadKey, Invalid, Codes
  <2>2. CallsAreAllowed' /\ JobsKept'
    BY <1>0 DEF CallsAreAllowed, AccessInv, JobsKept, JobCarries, MayRun
  <2> HIDE DEF refusal
  <2>3. QED
    BY <1>0, <2>1, <2>2, AnswerFollows
<1>2. CASE refusal = "none"
  <2> DEFINE p == [req[r] EXCEPT !.at = "marking"]
             q == [p EXCEPT !.context = ContextOf(k)]
  <2>1. /\ k \in Scripts /\ keys[k].revoked = FALSE /\ keys[k].expired = FALSE
        /\ issue[k].pc = "printed"
    <3>1. k \in Scripts
      BY <1>0, <1>2
    <3>2. keys[k].revoked \in BOOLEAN /\ keys[k].expired \in BOOLEAN
      BY <3>1 DEF AccessInv, IssueInv, KeyRows
    <3>3. ~keys[k].revoked /\ ~keys[k].expired
      BY <1>2, <3>1, AllowedAssumption DEF Invalid
    <3>4. QED
      BY <1>0, <3>1, <3>2, <3>3 DEF AccessInv, Carries
  <2>2. Issued(k) /\ Valid(k)
    BY <2>1 DEF AccessInv, IssueInv, Valid
  <2>3. ContextOf(k) \in Contexts /\ ContextOf(k).allowed = Allowed[k]
    BY <2>1, AllowedAssumption DEF ContextOf, Contexts, AccessInv, IssueInv, KeyRows
  <2>4. req' = [req EXCEPT ![r] = q]
    BY <1>2 DEF ReadKey
  <2>5. p \in RequestOK /\ p.at = "marking" /\ p.key = k
    BY <1>0 DEF RequestOK, Steps
  <2> HIDE DEF p
  <2>6. q \in RequestOK /\ q.at = "marking" /\ q.key = k /\ q.context = ContextOf(k)
    BY <2>3, <2>5 DEF RequestOK
  <2> HIDE DEF q
  <2>7. Carries(q)
    BY <2>1, <2>3, <2>6 DEF Carries, Inside, Approved
  <2>8. req'[r] = q
    BY <2>4 DEF AccessInv
  <2>9. Witnessed(r)'
    BY <1>0, <2>1, <2>2, <2>6, <2>8 DEF Witnessed, Under, Valid, Issued
  <2>10. QED
    BY <1>0, <2>4, <2>6, <2>7, <2>9 DEF Follows, AccessInv, CallsAreAllowed, JobsKept,
       JobCarries, MayRun
<1>3. QED
  BY <1>1, <1>2

\* The routes and the awaits behind the middleware follow: the model is checked before
\* a job is stored or vLLM is called, and no step looks at the key again.
LEMMA InsideFollows ==
  ASSUME AccessInv, NEW r \in Requests,
         \/ MarkUsed(r) \/ RouteChat(r) \/ Admit(r) \/ RouteSubmit(r) \/ RouteJob(r)
         \/ GetJob(r) \/ DatabaseFails(r)
  PROVE  Follows(r)
<1>1. /\ issue' = issue /\ keys' = keys /\ jobs' = jobs /\ calls' = calls
      /\ CallsAreAllowed' /\ JobsKept'
  <2>1. issue' = issue /\ keys' = keys /\ jobs' = jobs /\ calls' = calls
    BY DEF MarkUsed, RouteChat, Admit, RouteSubmit, RouteJob, GetJob, DatabaseFails, issueVars,
           tables
  <2>2. QED
    BY <2>1 DEF CallsAreAllowed, JobsKept, JobCarries, MayRun, AccessInv
<1>2. ASSUME NEW code \in {"model_not_allowed", "rate_limit_exceeded", "batch_job_not_found",
                           "ok", ServerError},
             Answer(r, code), req[r].at # "client"
      PROVE  Follows(r)
  <2>1. code \in Codes
    BY DEF Codes
  <2>2. QED
    BY <1>1, <1>2, <2>1, AnswerFollows
<1>3. CASE MarkUsed(r)
  <2>1. MoveTo(r, "route") /\ req[r].at \in Inside
    BY <1>3 DEF MarkUsed, At, Inside
  <2>2. QED
    BY <1>1, <2>1, MoveFollows DEF Inside, Approved
<1>4. CASE RouteChat(r)
  <2>1. /\ req[r].at \in Inside /\ req[r].at # "client"
        /\ \/ MoveTo(r, "admission") /\ req[r].model \in req[r].context.allowed
           \/ Answer(r, "model_not_allowed")
    BY <1>4 DEF RouteChat, At, Inside, ModelAllowed
  <2>2. QED
    BY <1>1, <1>2, <2>1, MoveFollows DEF Inside
<1>5. CASE Admit(r)
  <2>1. req[r].at = "admission" /\ (MoveTo(r, "calling") \/ Answer(r, "rate_limit_exceeded"))
    BY <1>5 DEF Admit, At
  <2>2. req[r].model \in req[r].context.allowed
    BY <2>1 DEF AccessInv, Carries, Approved
  <2>3. QED
    BY <1>1, <1>2, <2>1, <2>2, MoveFollows DEF Inside
<1>6. CASE RouteSubmit(r)
  <2>1. /\ req[r].at \in Inside /\ req[r].at # "client"
        /\ \/ MoveTo(r, "storing") /\ req[r].model \in req[r].context.allowed
           \/ Answer(r, "model_not_allowed")
    BY <1>6 DEF RouteSubmit, At, Inside, ModelAllowed
  <2>2. QED
    BY <1>1, <1>2, <2>1, MoveFollows DEF Inside
<1>7. CASE RouteJob(r)
  <2>1. MoveTo(r, "getting") /\ req[r].at \in Inside
    BY <1>7 DEF RouteJob, At, Inside
  <2>2. QED
    BY <1>1, <2>1, MoveFollows DEF Inside, Approved
<1>8. CASE GetJob(r)
  <2>1. /\ req[r].at \in Inside /\ req[r].at # "client"
        /\ MoveTo(r, "cancelling") \/ Answer(r, "ok") \/ Answer(r, "batch_job_not_found")
    BY <1>8 DEF GetJob, At, Inside
  <2>2. QED
    BY <1>1, <1>2, <2>1, MoveFollows DEF Inside, Approved
<1>9. CASE DatabaseFails(r)
  <2>1. Answer(r, ServerError) /\ req[r].at # "client"
    BY <1>9 DEF DatabaseFails
  <2>2. QED
    BY <1>2, <2>1
<1>10. QED
  BY <1>3, <1>4, <1>5, <1>6, <1>7, <1>8, <1>9

\* A job that changes its status keeps its key and its model.
LEMMA StatusKept ==
  ASSUME JobsKept, NEW j \in Requests, NEW status \in Terminal \cup {"queued", "running"},
         status \in Terminal \/ MayRun(jobs[j]),
         jobs' = [jobs EXCEPT ![j].status = status]
  PROVE  JobsKept'
<1> DEFINE n == [jobs[j] EXCEPT !.status = status]
<1>1. n \in JobOK /\ n.status = status /\ n.key = jobs[j].key /\ n.model = jobs[j].model
  BY DEF JobsKept, JobOK
<1>2. jobs' = [jobs EXCEPT ![j] = n]
  OBVIOUS
<1> HIDE DEF n
<1>3. JobCarries(n)
  BY <1>1 DEF JobsKept, JobCarries, MayRun, Terminal
<1>4. QED
  BY <1>1, <1>2, <1>3 DEF JobsKept

\* What a request does last follows: a job is stored with the key and the model of its
\* request, and vLLM is called for them.
LEMMA LastFollows ==
  ASSUME AccessInv, NEW r \in Requests, StoreJob(r) \/ CancelJob(r) \/ CallModel(r)
  PROVE  Follows(r)
<1>0. /\ Answer(r, "ok") /\ req[r].at \in Inside /\ req[r].at # "client" /\ "ok" \in Codes
      /\ issue' = issue /\ keys' = keys
  BY DEF StoreJob, CancelJob, CallModel, At, Inside, Codes, issueVars
<1>1. req[r] \in RequestOK /\ Carries(req[r]) /\ req[r].key \in Scripts
  BY <1>0 DEF AccessInv, Carries
<1>2. CASE StoreJob(r)
  <2> DEFINE n == [status |-> "queued", key |-> req[r].key, user |-> req[r].context.user,
                   project |-> req[r].context.project, model |-> req[r].model]
  <2>1. n \in JobOK
    BY <1>1 DEF JobOK, Tokens, RequestOK, Contexts
  <2>2. JobCarries(n)
    BY <1>1, <1>2 DEF StoreJob, At, JobCarries, MayRun, Carries, Approved, Inside
  <2>3. jobs' = [jobs EXCEPT ![r] = n] /\ calls' = calls
    BY <1>2 DEF StoreJob
  <2> HIDE DEF n
  <2>4. JobsKept' /\ CallsAreAllowed'
    BY <2>1, <2>2, <2>3 DEF AccessInv, JobsKept, CallsAreAllowed
  <2>5. QED
    BY <1>0, <2>4, AnswerFollows
<1>3. CASE CancelJob(r)
  <2> DEFINE j == req[r].job
  <2>1. j \in Requests /\ calls' = calls
    BY <1>1, <1>3 DEF RequestOK, CancelJob
  <2>2. CASE jobs' = jobs
    BY <1>0, <2>1, <2>2, AnswerFollows DEF AccessInv, JobsKept, JobCarries, MayRun, CallsAreAllowed
  <2>3. CASE jobs' = [jobs EXCEPT ![j].status = "cancelled"]
    <3>1. JobsKept'
      BY <2>1, <2>3, StatusKept DEF AccessInv, Terminal
    <3>2. QED
      BY <1>0, <2>1, <3>1, AnswerFollows DEF AccessInv, CallsAreAllowed
  <2>4. QED
    BY <1>3, <2>2, <2>3 DEF CancelJob
<1>4. CASE CallModel(r)
  <2>1. JobsKept'
    BY <1>4 DEF CallModel, AccessInv, JobsKept, JobCarries, MayRun
  <2>2. req[r].model \in Allowed[req[r].key]
    BY <1>1, <1>4 DEF CallModel, At, Carries, Inside, Approved
  <2>3. CallsAreAllowed'
    BY <1>4, <2>2 DEF CallModel, CallsAreAllowed, AccessInv
  <2>4. QED
    BY <1>0, <2>1, <2>3, AnswerFollows
<1>5. QED
  BY <1>2, <1>3, <1>4

\* Whatever request follows, the invariant holds again.
LEMMA FollowsKeeps ==
  ASSUME AccessInv, NEW r \in Requests, Follows(r),
         seen' = [x \in Requests |-> seen[x] \/ Witnessed(x)'],
         users' = users, projects' = projects
  PROVE  AccessInv'
<1>1. PICK q \in RequestOK : /\ req' = [req EXCEPT ![r] = q]
                             /\ Carries(q)
                             /\ q.context = req[r].context \/ Witnessed(r)'
  BY DEF Follows
<1>2. req' \in [Requests -> RequestOK] /\ \A x \in Requests : Carries(req[x])'
  <2>1. req' \in [Requests -> RequestOK] /\ \A x \in Requests : Carries(req'[x])
    BY <1>1 DEF AccessInv
  <2>2. issue' = issue
    BY DEF Follows
  <2>3. QED
    BY <2>1, <2>2 DEF Carries
<1>3. LetInOnlyWhileValid'
  <2>1. ASSUME NEW x \in Requests, req'[x].context # NoContext PROVE seen'[x]
    <3>1. CASE Witnessed(r)' /\ x = r
      BY <3>1
    <3>2. CASE req'[x].context = req[x].context
      BY <2>1, <3>2 DEF AccessInv, LetInOnlyWhileValid
    <3>3. QED
      BY <1>1, <3>1, <3>2 DEF AccessInv
  <2>2. QED
    BY <2>1 DEF LetInOnlyWhileValid
<1>4. IssueInv'
  BY DEF IssueInv, Issued, AccessInv, Follows
<1>5. seen' \in [Requests -> BOOLEAN]
  <2>1. \A x \in Requests : (seen[x] \/ Witnessed(x)') \in BOOLEAN
    OBVIOUS
  <2>2. QED
    BY <2>1
<1>6. QED
  BY <1>2, <1>3, <1>4, <1>5 DEF AccessInv, Follows

\* A step that lets no request come further keeps the invariant if it keeps the
\* rows, what was printed, the jobs and the calls as they should be.
LEMMA OthersKeep ==
  ASSUME AccessInv, IssueInv', JobsKept', CallsAreAllowed',
         \A k \in Scripts : issue[k].pc = "printed" => issue'[k].pc = "printed",
         req' \in [Requests -> RequestOK],
         \A x \in Requests : Carries(req'[x]) /\ req'[x].context = req[x].context,
         seen' = [x \in Requests |-> seen[x] \/ Witnessed(x)']
  PROVE  AccessInv'
<1>1. \A x \in Requests : Carries(req[x])'
  BY DEF Carries
<1>2. LetInOnlyWhileValid'
  BY DEF LetInOnlyWhileValid, AccessInv
<1>3. seen' \in [Requests -> BOOLEAN]
  <2>1. \A x \in Requests : (seen[x] \/ Witnessed(x)') \in BOOLEAN
    OBVIOUS
  <2>2. QED
    BY <2>1
<1>4. QED
  BY <1>1, <1>2, <1>3 DEF AccessInv

\* The worker's steps keep the jobs, and call vLLM for the key and model of a job.
LEMMA WorkerKeeps ==
  ASSUME AccessInv, NEW j \in Requests, RunJob(j) \/ FinishJob(j)
  PROVE  JobsKept' /\ CallsAreAllowed' /\ issue' = issue /\ keys' = keys /\ req' = req
<1>1. issue' = issue /\ keys' = keys /\ req' = req
  BY DEF RunJob, FinishJob, issueVars
<1>2. \E status \in {"running", "succeeded", "failed"} : jobs' = [jobs EXCEPT ![j].status = status]
  BY DEF RunJob, FinishJob
<1>3. MayRun(jobs[j])
  BY DEF RunJob, FinishJob, MayRun
<1>4. JobsKept'
  BY <1>2, <1>3, StatusKept DEF AccessInv, Terminal
<1>5. \/ calls' = calls
      \/ calls' = calls \cup {[key |-> jobs[j].key, model |-> jobs[j].model]}
  BY DEF RunJob, FinishJob
<1>6. jobs[j].model \in Allowed[jobs[j].key]
  BY <1>3 DEF AccessInv, JobsKept, JobCarries
<1>7. CallsAreAllowed'
  BY <1>5, <1>6 DEF CallsAreAllowed, AccessInv
<1>8. QED
  BY <1>1, <1>4, <1>7

\* A key that ends is still the committed row of what was printed.
LEMMA EndingKeeps ==
  ASSUME IssueInv, NEW k \in Scripts, Revoke(k) \/ Expire(k)
  PROVE  IssueInv'
<1>1. /\ keys' \in [Scripts -> KeyRows]
      /\ \A s \in Scripts : keys'[s].user = keys[s].user
  <2> DEFINE a == [keys[k] EXCEPT !.revoked = TRUE]
             b == [keys[k] EXCEPT !.expired = TRUE]
  <2>1. /\ a \in KeyRows /\ a.user = keys[k].user
        /\ b \in KeyRows /\ b.user = keys[k].user
    BY DEF IssueInv, KeyRows
  <2>2. keys' = [keys EXCEPT ![k] = a] \/ keys' = [keys EXCEPT ![k] = b]
    BY DEF Revoke, Expire
  <2> HIDE DEF a, b
  <2>3. QED
    BY <2>1, <2>2 DEF IssueInv
<1>2. users' = users /\ projects' = projects /\ issue' = issue
  BY DEF Revoke, Expire
<1>3. QED
  BY <1>1, <1>2 DEF IssueInv, Issued

\* A crash answers what it interrupts, and a request that is answered carries little.
LEMMA CrashKeeps ==
  ASSUME AccessInv, Crash
  PROVE  /\ req' \in [Requests -> RequestOK]
         /\ \A x \in Requests : Carries(req'[x]) /\ req'[x].context = req[x].context
<1>1. ASSUME NEW x \in Requests
      PROVE  req'[x] \in RequestOK /\ Carries(req'[x]) /\ req'[x].context = req[x].context
  <2>0. req[x] \in RequestOK /\ Carries(req[x])
    BY DEF AccessInv
  <2>1. CASE req'[x] = req[x]
    BY <2>0, <2>1
  <2>2. CASE req'[x] = [req[x] EXCEPT !.at = "answered", !.code = "lost"] /\ req[x].at # "client"
    <3> DEFINE p == [req[x] EXCEPT !.at = "answered"]
               q == [p EXCEPT !.code = "lost"]
    <3>1. p \in RequestOK /\ p.at = "answered" /\ p.key = req[x].key /\ p.context = req[x].context
      BY <2>0 DEF RequestOK, Steps
    <3>2. req'[x] = q
      BY <2>2
    <3> HIDE DEF p
    <3>3. q \in RequestOK /\ q.at = "answered" /\ q.key = req[x].key /\ q.context = req[x].context
      BY <3>1 DEF RequestOK, Codes
    <3> HIDE DEF q
    <3>4. QED
      BY <2>0, <2>2, <3>2, <3>3 DEF Carries, Inside, Approved
  <2>3. QED
    BY <2>1, <2>2 DEF Crash
<1>2. req' = [x \in Requests |-> req'[x]]
  BY DEF Crash
<1>3. QED
  BY <1>1, <1>2

\* Every step keeps the invariant, and so does a step in which nothing happens.
LEMMA NextAccess == AccessInv /\ [Next]_vars => AccessInv'
<1> SUFFICES ASSUME AccessInv, [Next]_vars PROVE AccessInv'
  OBVIOUS
<1>1. CASE UNCHANGED vars
  BY <1>1 DEF vars, issueVars, appVars, tables, AccessInv, IssueInv, Issued, Carries, JobsKept,
     JobCarries, MayRun, CallsAreAllowed, LetInOnlyWhileValid
<1>2. CASE Next
  <2>0. seen' = [x \in Requests |-> seen[x] \/ Witnessed(x)']
    BY <1>2 DEF Next
  <2>1. /\ req \in [Requests -> RequestOK] /\ IssueInv
        /\ \A x \in Requests : Carries(req[x])
        /\ jobs' = jobs => JobsKept'
        /\ calls' = calls => CallsAreAllowed'
    BY DEF AccessInv, JobsKept, JobCarries, MayRun, CallsAreAllowed
  <2>2. ASSUME NEW s \in Scripts, Script(s) PROVE AccessInv'
    <3>1. req' = req /\ jobs' = jobs /\ calls' = calls /\ (IssueStep(s) \/ AbortScript(s))
      BY <2>2 DEF Script, tables
    <3>2. /\ IssueInv'
          /\ \A k \in Scripts : issue[k].pc = "printed" => issue'[k].pc = "printed"
      BY <2>1, <3>1, IssueStepInv
    <3>3. QED
      BY <2>0, <2>1, <3>1, <3>2, OthersKeep
  <2>3. ASSUME NEW k \in Scripts, Revoke(k) \/ Expire(k) PROVE AccessInv'
    <3>1. req' = req /\ jobs' = jobs /\ calls' = calls /\ issue' = issue
      BY <2>3 DEF Revoke, Expire, tables
    <3>2. IssueInv'
      BY <2>1, <2>3, EndingKeeps
    <3>3. QED
      BY <2>0, <2>1, <3>1, <3>2, OthersKeep
  <2>4. ASSUME NEW r \in Requests, Handle(r) PROVE AccessInv'
    <3>1. Follows(r)
      BY <2>4, DispatchFollows, ReadKeyFollows, InsideFollows, LastFollows DEF Handle
    <3>2. users' = users /\ projects' = projects
      BY <2>4 DEF Handle, Dispatch, ReadKey, MarkUsed, DatabaseFails, RouteChat, Admit, CallModel,
         RouteSubmit, StoreJob, RouteJob, GetJob, CancelJob, issueVars
    <3>3. QED
      BY <2>0, <3>1, <3>2, FollowsKeeps
  <2>5. ASSUME NEW j \in Requests, RunJob(j) \/ FinishJob(j) PROVE AccessInv'
    <3>1. JobsKept' /\ CallsAreAllowed' /\ issue' = issue /\ keys' = keys /\ req' = req
      BY <2>5, WorkerKeeps
    <3>2. users' = users /\ projects' = projects
      BY <2>5 DEF RunJob, FinishJob, issueVars
    <3>3. IssueInv'
      BY <2>1, <3>1, <3>2 DEF IssueInv, Issued
    <3>4. QED
      BY <2>0, <2>1, <3>1, <3>3, OthersKeep
  <2>6. CASE Start \/ Stop \/ Crash
    <3>1. /\ issue' = issue /\ keys' = keys /\ users' = users /\ projects' = projects
          /\ jobs' = jobs /\ calls' = calls
      BY <2>6 DEF Start, Stop, Crash, issueVars, tables
    <3>2. IssueInv'
      BY <2>1, <3>1 DEF IssueInv, Issued
    <3>3. /\ req' \in [Requests -> RequestOK]
          /\ \A x \in Requests : Carries(req'[x]) /\ req'[x].context = req[x].context
      <4>1. CASE req' = req
        BY <2>1, <4>1
      <4>2. CASE Crash
        BY <4>2, CrashKeeps
      <4>3. QED
        BY <2>6, <4>1, <4>2 DEF Start, Stop
    <3>4. QED
      BY <2>0, <2>1, <3>1, <3>2, <3>3, OthersKeep
  <2>7. QED
    BY <1>2, <2>2, <2>3, <2>4, <2>5, <2>6 DEF Next
<1>3. QED
  BY <1>1, <1>2

\* authenticate lets no request in whose key had ended before the request arrived,
\* however the check of the key falls between revocations, expiries and the requests
\* of others (services/auth/api_key_service.py).
THEOREM LetIn == Spec => []LetInOnlyWhileValid
<1>1. AccessInv => LetInOnlyWhileValid
  BY DEF AccessInv
<1>2. QED
  BY InitAccess, NextAccess, <1>1, PTL DEF Spec

\* vLLM is called only for a model of the key behind the request or the job, also by
\* the worker, whose context has no list of models (workers/batch_worker.py).
THEOREM CallsAllowed == Spec => []CallsAreAllowed
<1>1. AccessInv => CallsAreAllowed
  BY DEF AccessInv
<1>2. QED
  BY InitAccess, NextAccess, <1>1, PTL DEF Spec
=============================================================================
