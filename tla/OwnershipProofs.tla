--------------------------- MODULE OwnershipProofs ---------------------------
(***************************************************************************)
(* More theorems about Access: whom the rows of users, projects, keys and  *)
(* jobs belong to, and what becomes of the resources of app.state.         *)
(***************************************************************************)
EXTENDS AccessProofs

(***************************************************************************)
(* What the scripts find and insert                                        *)
(***************************************************************************)
\* The places before the commit of the owner, and those after.
Before == {"user", "new_user", "project", "commit"}
After  == {"key", "printed", "failed"}

\* The user and the project of a script, as committed rows.
UserFound(s) == \E u \in users : u.id = issue[s].user /\ u.email = issue[s].ask.email
ProjectFound(s) ==
  \E p \in projects : /\ p.id = issue[s].project /\ p.user = issue[s].user
                      /\ p.name = issue[s].ask.project

\* What a script has found at each place, and what its key keeps of it.
Found(s) ==
  /\ issue[s].pc = "ids" => s \in ByIds
  /\ issue[s].pc \in Before => issue[s].ask \in AllAsked
  /\ issue[s].pc \in {"project", "commit"} => issue[s].user = s \/ UserFound(s)
  /\ issue[s].pc = "commit" => issue[s].project = s \/ ProjectFound(s)
  /\ issue[s].pc = "key" /\ s \notin ByIds => UserFound(s) /\ ProjectFound(s)
  /\ Issued(s) => issue[s].pc = "printed"
  /\ Issued(s) /\ s \notin ByIds =>
       /\ keys[s].user = issue[s].user /\ keys[s].project = issue[s].project
       /\ UserFound(s) /\ ProjectFound(s)

\* The projects that a script saw before it made its own were not the one it wanted.
Saw(s) ==
  /\ issue[s].pc \in {"user", "new_user", "ids", "project"} => issue[s].saw = {}
  /\ \A p \in issue[s].saw : ~(p.user = issue[s].user /\ p.name = issue[s].ask.project)

\* The rows are those of scripts that have committed.
Rows ==
  /\ users \subseteq [id : Scripts, email : {a.email : a \in AllAsked}]
  /\ projects \subseteq [id : Scripts, user : Scripts, name : {a.project : a \in AllAsked}]
  /\ \A u \in users : issue[u.id].pc \in After
  /\ \A p \in projects : /\ issue[p.id].pc \in After
                         /\ p.user = issue[p.id].user /\ p.name = issue[p.id].ask.project

\* A script that has inserted a user and not committed.
Inserted(s) == issue[s].user = s /\ issue[s].pc \in {"project", "commit"}

\* The unique index: no two users have one e-mail, uncommitted ones included.
Unique ==
  /\ \A u, v \in users : u.email = v.email => u.id = v.id
  /\ \A s \in Scripts : Inserted(s) => \A u \in users : u.email # issue[s].ask.email
  /\ \A s, t \in Scripts :
       Inserted(s) /\ Inserted(t) /\ issue[s].ask.email = issue[t].ask.email => s = t

OwnedInv == IssueInv /\ Rows /\ Unique /\ \A s \in Scripts : Found(s) /\ Saw(s)

\* What a step of a script leaves in its locals, and of the others.
Became(s, pc, user, project, saw) ==
  /\ \A k \in Scripts \ {s} : issue'[k] = issue[k]
  /\ issue'[s].pc = pc /\ issue'[s].ask = issue[s].ask
  /\ issue'[s].user = user /\ issue'[s].project = project /\ issue'[s].saw = saw

\* A script that only moves on.
LEMMA GoBecame ==
  ASSUME IssueInv, NEW s \in Scripts, NEW pc, Go(s, pc)
  PROVE  Became(s, pc, issue[s].user, issue[s].project, issue[s].saw)
BY DEF IssueInv, Go, Became, Progress

\* A step that leaves the tables alone keeps what all scripts have found, if it does so
\* for its own and if a user it inserts is the only one with that e-mail.
LEMMA QuietStep ==
  ASSUME OwnedInv, IssueInv', NEW s \in Scripts, NEW pc, NEW user, NEW project, NEW saw,
         Became(s, pc, user, project, saw), users' = users, projects' = projects, keys' = keys,
         issue[s].pc \in After => pc \in After /\ user = issue[s].user,
         Found(s)', Saw(s)',
         pc \in {"project", "commit"} /\ user = s =>
           \/ Inserted(s)
           \/ /\ \A u \in users : u.email # issue[s].ask.email
              /\ \A t \in Scripts : Inserted(t) => issue[t].ask.email # issue[s].ask.email
  PROVE  OwnedInv'
<1>1. ASSUME NEW k \in Scripts, k # s
      PROVE  Found(k)' /\ Saw(k)'
  <2>1. issue'[k] = issue[k]
    BY <1>1 DEF Became
  <2>2. Found(k)'
    <3>1. (UserFound(k)' <=> UserFound(k)) /\ (ProjectFound(k)' <=> ProjectFound(k))
      BY <2>1 DEF UserFound, ProjectFound
    <3>2. Issued(k)' <=> Issued(k)
      BY DEF Issued
    <3>3. Found(k)
      BY DEF OwnedInv
    <3> HIDE DEF OwnedInv
    <3>4. QED
      BY <2>1, <3>1, <3>2, <3>3 DEF Found
  <2>3. Saw(k)'
    BY <2>1 DEF OwnedInv, Saw
  <2>4. QED
    BY <2>2, <2>3
<1>2. Rows'
  <2>1. \A k \in Scripts : issue[k].pc \in After => /\ issue'[k].pc \in After
                                                    /\ issue'[k].user = issue[k].user
                                                    /\ issue'[k].ask = issue[k].ask
    BY DEF Became
  <2>2. \A u \in users : u.id \in Scripts
    BY DEF OwnedInv, Rows
  <2>3. \A p \in projects : p.id \in Scripts
    BY DEF OwnedInv, Rows
  <2>4. QED
    BY <2>1, <2>2, <2>3 DEF OwnedInv, Rows
<1>3. Unique'
  <2>1. \A k \in Scripts : k # s => (Inserted(k)' <=> Inserted(k))
    BY DEF Became, Inserted
  <2>2. \A k \in Scripts : issue'[k].ask = issue[k].ask
    BY DEF Became
  <2>3. Inserted(s)' => \/ Inserted(s)
                        \/ /\ \A u \in users : u.email # issue[s].ask.email
                           /\ \A t \in Scripts : Inserted(t) => issue[t].ask.email # issue[s].ask.email
    BY DEF Became, Inserted
  <2> HIDE DEF Inserted
  <2>4. QED
    BY <2>1, <2>2, <2>3 DEF OwnedInv, Unique
<1>4. QED
  BY <1>1, <1>2, <1>3 DEF OwnedInv

\* The lookups of the owner, and whatever ends a script early, keep the invariant.
LEMMA LookUpsOwned ==
  ASSUME OwnedInv, IssueInv', NEW s \in Scripts,
         LookUpUser(s) \/ InsertUser(s) \/ LookUpProject(s) \/ TakeIds(s) \/ AbortScript(s)
  PROVE  OwnedInv'
<1>0. /\ users' = users /\ projects' = projects /\ keys' = keys
      /\ IssueInv /\ Found(s) /\ Saw(s) /\ issue \in [Scripts -> Progress] /\ ~Issued(s)
      /\ issue[s].pc \notin After \/ AbortScript(s)
  <2>1. /\ users' = users /\ projects' = projects /\ keys' = keys
        /\ issue[s].pc # "printed" /\ (issue[s].pc \notin After \/ AbortScript(s))
    BY DEF LookUpUser, InsertUser, LookUpProject, TakeIds, AbortScript, After
  <2>2. QED
    BY <2>1 DEF OwnedInv, IssueInv, Found
<1>1. ASSUME NEW pc \in Places, Go(s, pc), pc \in {"new_user", "failed"},
             pc = "failed" \/ issue[s].pc = "user"
      PROVE  OwnedInv'
  <2>1. Became(s, pc, issue[s].user, issue[s].project, issue[s].saw)
    BY <1>0, <1>1, GoBecame
  <2>2. Found(s)' /\ Saw(s)'
    BY <1>0, <1>1, <2>1 DEF Found, Saw, Became, UserFound, ProjectFound, Issued, Before
  <2>3. issue[s].pc \in After => pc \in After
    BY <1>1 DEF After
  <2>4. QED
    BY <1>0, <1>1, <2>1, <2>2, <2>3, QuietStep
<1>2. CASE LookUpUser(s)
  <2>1. CASE Go(s, "new_user")
    BY <1>1, <1>2, <2>1 DEF LookUpUser, Places
  <2>2. CASE ~Go(s, "new_user")
    <3>1. PICK u \in users : /\ u.email = issue[s].ask.email
                             /\ issue' = [issue EXCEPT ![s].pc = "project", ![s].user = u.id]
      BY <1>2, <2>2 DEF LookUpUser
    <3>2. Became(s, "project", u.id, issue[s].project, issue[s].saw) /\ issue[s].pc = "user"
      <4> DEFINE R1 == [issue EXCEPT ![s].pc = "project"]
                 R2 == [R1 EXCEPT ![s].user = u.id]
      <4>1. /\ R1 \in [Scripts -> Progress] /\ \A k \in Scripts \ {s} : R1[k] = issue[k]
            /\ R1[s].pc = "project" /\ R1[s].ask = issue[s].ask
            /\ R1[s].project = issue[s].project /\ R1[s].saw = issue[s].saw
        BY <1>0 DEF Progress, Places
      <4>2. issue' = R2
        BY <1>0, <3>1
      <4> HIDE DEF R1
      <4>3. /\ \A k \in Scripts \ {s} : R2[k] = R1[k]
            /\ R2[s].pc = R1[s].pc /\ R2[s].ask = R1[s].ask /\ R2[s].user = u.id
            /\ R2[s].project = R1[s].project /\ R2[s].saw = R1[s].saw
        BY <4>1 DEF Progress
      <4> HIDE DEF R2
      <4>4. issue[s].pc = "user"
        BY <1>2 DEF LookUpUser
      <4>5. QED
        BY <4>1, <4>2, <4>3, <4>4 DEF Became
    <3>3. u.id # s
      BY <3>2 DEF OwnedInv, Rows, After
    <3>4. Found(s)' /\ Saw(s)'
      BY <1>0, <3>1, <3>2 DEF Found, Saw, Became, UserFound, Issued, Before
    <3>5. QED
      BY <1>0, <3>2, <3>3, <3>4, QuietStep DEF After
  <2>3. QED
    BY <2>1, <2>2
<1>3. CASE InsertUser(s)
  <2>1. CASE Go(s, "failed")
    BY <1>1, <2>1 DEF Places
  <2>2. CASE ~Go(s, "failed")
    <3>1. /\ issue[s].pc = "new_user"
          /\ issue' = [issue EXCEPT ![s].pc = "project", ![s].user = s]
          /\ \A t \in Scripts : ~HoldsEmail(t, issue[s].ask.email)
          /\ \A u \in users : u.email # issue[s].ask.email
      BY <1>3, <2>2 DEF InsertUser
    <3>2. Became(s, "project", s, issue[s].project, issue[s].saw)
      BY <1>0, <3>1 DEF Became, Progress
    <3>3. Found(s)' /\ Saw(s)'
      BY <1>0, <3>1, <3>2 DEF Found, Saw, Became, Issued, Before
    <3>4. \A t \in Scripts : Inserted(t) => issue[t].ask.email # issue[s].ask.email
      BY <3>1 DEF Inserted, HoldsEmail
    <3>5. QED
      BY <1>0, <3>1, <3>2, <3>3, <3>4, QuietStep DEF After
  <2>3. QED
    BY <2>1, <2>2
<1>4. CASE LookUpProject(s)
  <2>0. issue[s].pc = "project" /\ (Inserted(s) <=> issue[s].user = s)
    BY <1>4 DEF LookUpProject, Inserted
  <2>1. CASE Go(s, "failed")
    BY <1>1, <2>1 DEF Places
  <2>2. ASSUME NEW p \in Matching(s),
               issue' = [issue EXCEPT ![s].pc = "commit", ![s].project = p.id]
        PROVE  OwnedInv'
    <3>1. Became(s, "commit", issue[s].user, p.id, issue[s].saw)
      BY <1>0, <2>2 DEF Became, Progress
    <3>2. p \in projects /\ p.user = issue[s].user /\ p.name = issue[s].ask.project
      BY DEF Matching
    <3>3. Found(s)' /\ Saw(s)'
      BY <1>0, <2>0, <3>1, <3>2 DEF Found, Saw, Became, UserFound, ProjectFound, Issued, Before
    <3>4. QED
      BY <1>0, <2>0, <3>1, <3>3, QuietStep DEF After
  <2>3. CASE /\ Matching(s) = {}
             /\ issue' = [issue EXCEPT ![s].pc = "commit", ![s].project = s, ![s].saw = projects]
    <3>1. Became(s, "commit", issue[s].user, s, projects)
      <4> DEFINE R0 == [issue EXCEPT ![s].pc = "commit"]
                 R1 == [R0 EXCEPT ![s].project = s]
                 R2 == [R1 EXCEPT ![s].saw = projects]
      <4>0. /\ R0 \in [Scripts -> Progress] /\ \A k \in Scripts \ {s} : R0[k] = issue[k]
            /\ R0[s].pc = "commit" /\ R0[s].ask = issue[s].ask /\ R0[s].user = issue[s].user
        BY <1>0 DEF Progress, Places
      <4>2. issue' = R2
        BY <1>0, <2>3
      <4> HIDE DEF R0
      <4>1. /\ R1 \in [Scripts -> Progress] /\ \A k \in Scripts \ {s} : R1[k] = issue[k]
            /\ R1[s].pc = "commit" /\ R1[s].ask = issue[s].ask /\ R1[s].user = issue[s].user
            /\ R1[s].project = s
        BY <4>0 DEF Progress, People
      <4> HIDE DEF R1
      <4>3. /\ \A k \in Scripts \ {s} : R2[k] = R1[k]
            /\ R2[s].pc = R1[s].pc /\ R2[s].ask = R1[s].ask /\ R2[s].user = R1[s].user
            /\ R2[s].project = R1[s].project /\ R2[s].saw = projects
        BY <4>1 DEF Progress
      <4> HIDE DEF R2
      <4>4. QED
        BY <4>1, <4>2, <4>3 DEF Became
    <3>2. Found(s)' /\ Saw(s)'
      BY <1>0, <2>0, <2>3, <3>1 DEF Found, Saw, Became, UserFound, Issued, Before, Matching
    <3>3. QED
      BY <1>0, <2>0, <3>1, <3>2, QuietStep DEF After
  <2>4. QED
    BY <1>4, <2>1, <2>2, <2>3 DEF LookUpProject
<1>5. CASE TakeIds(s)
  <2>1. PICK user \in Scripts, project \in Scripts :
          issue' = [issue EXCEPT ![s].pc = "key", ![s].user = user, ![s].project = project]
    BY <1>5 DEF TakeIds
  <2>2. issue[s].pc = "ids" /\ s \in ByIds
    BY <1>0, <1>5 DEF TakeIds, Found
  <2>3. Became(s, "key", user, project, issue[s].saw)
    <3> DEFINE R0 == [issue EXCEPT ![s].pc = "key"]
               R1 == [R0 EXCEPT ![s].user = user]
               R2 == [R1 EXCEPT ![s].project = project]
    <3>0. /\ R0 \in [Scripts -> Progress] /\ \A k \in Scripts \ {s} : R0[k] = issue[k]
          /\ R0[s].pc = "key" /\ R0[s].ask = issue[s].ask /\ R0[s].saw = issue[s].saw
      BY <1>0 DEF Progress, Places
    <3>2. issue' = R2
      BY <1>0, <2>1
    <3> HIDE DEF R0
    <3>1. /\ R1 \in [Scripts -> Progress] /\ \A k \in Scripts \ {s} : R1[k] = issue[k]
          /\ R1[s].pc = "key" /\ R1[s].ask = issue[s].ask /\ R1[s].user = user
          /\ R1[s].saw = issue[s].saw
      BY <3>0 DEF Progress, People
    <3> HIDE DEF R1
    <3>3. /\ \A k \in Scripts \ {s} : R2[k] = R1[k]
          /\ R2[s].pc = R1[s].pc /\ R2[s].ask = R1[s].ask /\ R2[s].user = R1[s].user
          /\ R2[s].saw = R1[s].saw /\ R2[s].project = project
      BY <3>1 DEF Progress
    <3> HIDE DEF R2
    <3>4. QED
      BY <3>1, <3>2, <3>3 DEF Became
  <2>4. Found(s)' /\ Saw(s)'
    BY <1>0, <2>2, <2>3 DEF Found, Saw, Became, Issued, Before
  <2>5. QED
    BY <1>0, <2>2, <2>3, <2>4, QuietStep DEF After
<1>6. CASE AbortScript(s)
  BY <1>1, <1>6 DEF AbortScript, Places
<1>7. QED
  BY <1>2, <1>3, <1>4, <1>5, <1>6

\* The commit adds at most the one user and the one project the script made, and what
\* all others have found is still there.
LEMMA CommitOwned ==
  ASSUME OwnedInv, IssueInv', NEW s \in Scripts, CommitOwner(s)
  PROVE  OwnedInv'
<1>0. /\ issue[s].pc = "commit" /\ keys' = keys /\ Go(s, "key") /\ IssueInv
      /\ users' = users \cup {u \in {[id |-> s, email |-> issue[s].ask.email]} : issue[s].user = s}
      /\ projects' = projects \cup
           {p \in {[id |-> s, user |-> issue[s].user, name |-> issue[s].ask.project]} :
              issue[s].project = s}
      /\ Rows /\ Unique /\ \A k \in Scripts : Found(k) /\ Saw(k)
  BY DEF CommitOwner, OwnedInv
<1>1. Became(s, "key", issue[s].user, issue[s].project, issue[s].saw)
  BY <1>0, GoBecame
<1>2. /\ issue[s].ask \in AllAsked
      /\ issue[s].user = s \/ UserFound(s)
      /\ issue[s].project = s \/ ProjectFound(s)
      /\ ~Issued(s)
  BY <1>0 DEF Found, Before
<1>3. users \subseteq users' /\ projects \subseteq projects'
  BY <1>0
<1>4. /\ \A u \in users' :
           \/ u \in users
           \/ u = [id |-> s, email |-> issue[s].ask.email] /\ issue[s].user = s
      /\ \A p \in projects' : p \in projects \/ p = [id |-> s, user |-> issue[s].user,
                                                   name |-> issue[s].ask.project]
  BY <1>0
<1>5. UserFound(s)' /\ ProjectFound(s)'
  <2>1. UserFound(s)'
    <3>1. CASE issue[s].user = s
      <4>1. [id |-> s, email |-> issue[s].ask.email] \in users'
        BY <1>0, <3>1
      <4>2. QED
        BY <1>1, <3>1, <4>1 DEF Became, UserFound
    <3>2. CASE UserFound(s)
      BY <1>1, <1>3, <3>2 DEF Became, UserFound
    <3>3. QED
      BY <1>2, <3>1, <3>2
  <2>2. ProjectFound(s)'
    <3>1. CASE issue[s].project = s
      <4>1. [id |-> s, user |-> issue[s].user, name |-> issue[s].ask.project] \in projects'
        BY <1>0, <3>1
      <4>2. QED
        BY <1>1, <3>1, <4>1 DEF Became, ProjectFound
    <3>2. CASE ProjectFound(s)
      BY <1>1, <1>3, <3>2 DEF Became, ProjectFound
    <3>3. QED
      BY <1>2, <3>1, <3>2
  <2>3. QED
    BY <2>1, <2>2
<1>6. ASSUME NEW k \in Scripts PROVE Found(k)' /\ Saw(k)'
  <2>1. CASE k = s
    <3>1. Found(s)'
      BY <1>0, <1>1, <1>2, <1>5 DEF Found, Became, Before, Issued
    <3>2. Saw(s)'
      BY <1>0, <1>1 DEF Saw, Became
    <3>3. QED
      BY <2>1, <3>1, <3>2
  <2>2. CASE k # s
    <3>1. issue'[k] = issue[k] /\ Found(k) /\ Saw(k)
      BY <1>0, <1>1, <2>2 DEF Became
    <3>2. (UserFound(k) => UserFound(k)') /\ (ProjectFound(k) => ProjectFound(k)')
      BY <1>3, <3>1 DEF UserFound, ProjectFound
    <3>3. Found(k)'
      BY <1>0, <3>1, <3>2 DEF Found, Issued
    <3>4. QED
      BY <3>1, <3>3 DEF Saw
  <2>3. QED
    BY <2>1, <2>2
<1>7. Rows'
  <2>1. issue[s].user \in Scripts
    BY <1>0, <1>2 DEF UserFound, Rows
  <2>2. /\ [id |-> s, email |-> issue[s].ask.email]
             \in [id : Scripts, email : {a.email : a \in AllAsked}]
        /\ [id |-> s, user |-> issue[s].user, name |-> issue[s].ask.project]
             \in [id : Scripts, user : Scripts, name : {a.project : a \in AllAsked}]
    BY <1>2, <2>1
  <2>3. \A k \in Scripts : issue[k].pc \in After => k # s /\ issue'[k] = issue[k]
    BY <1>0, <1>1 DEF Became, After
  <2>4. ASSUME NEW u \in users' PROVE /\ u \in [id : Scripts, email : {a.email : a \in AllAsked}]
                                      /\ issue'[u.id].pc \in After
    <3>1. CASE u \in users
      BY <1>0, <2>3, <3>1 DEF Rows
    <3>2. CASE u = [id |-> s, email |-> issue[s].ask.email]
      BY <1>1, <2>2, <3>2 DEF Became, After
    <3>3. QED
      BY <1>4, <3>1, <3>2
  <2>5. ASSUME NEW p \in projects'
        PROVE  /\ p \in [id : Scripts, user : Scripts, name : {a.project : a \in AllAsked}]
               /\ issue'[p.id].pc \in After
               /\ p.user = issue'[p.id].user /\ p.name = issue'[p.id].ask.project
    <3>1. CASE p \in projects
      BY <1>0, <2>3, <3>1 DEF Rows
    <3>2. CASE p = [id |-> s, user |-> issue[s].user, name |-> issue[s].ask.project]
      BY <1>1, <2>2, <3>2 DEF Became, After
    <3>3. QED
      BY <1>4, <3>1, <3>2
  <2>6. QED
    BY <2>4, <2>5 DEF Rows
<1>8. Unique'
  <2>1. \A k \in Scripts : Inserted(k)' => k # s /\ Inserted(k) /\ issue'[k] = issue[k]
    BY <1>1 DEF Became, Inserted
  <2>2. issue[s].user = s => Inserted(s)
    BY <1>0 DEF Inserted
  <2> HIDE DEF Inserted
  <2>3. \A u, v \in users' : u.email = v.email => u.id = v.id
    BY <1>0, <1>4, <2>2 DEF Unique
  <2>4. ASSUME NEW k \in Scripts, Inserted(k)', NEW u \in users'
        PROVE  u.email # issue'[k].ask.email
    BY <1>0, <1>4, <2>1, <2>2, <2>4 DEF Unique
  <2>5. \A k, t \in Scripts :
          Inserted(k)' /\ Inserted(t)' /\ issue'[k].ask.email = issue'[t].ask.email => k = t
    BY <1>0, <2>1 DEF Unique
  <2>6. QED
    BY <2>3, <2>4, <2>5 DEF Unique
<1>9. QED
  BY <1>6, <1>7, <1>8 DEF OwnedInv

\* The key is inserted with the user and the project the script has found.
LEMMA KeyOwned ==
  ASSUME OwnedInv, IssueInv', NEW s \in Scripts, CreateKey(s)
  PROVE  OwnedInv'
<1>0. /\ issue[s].pc = "key" /\ users' = users /\ projects' = projects /\ IssueInv
      /\ Rows /\ Unique /\ \A k \in Scripts : Found(k) /\ Saw(k)
  BY DEF CreateKey, OwnedInv
<1>1. CASE Go(s, "failed") /\ keys' = keys
  <2>1. Became(s, "failed", issue[s].user, issue[s].project, issue[s].saw)
    BY <1>0, <1>1, GoBecame
  <2>2. Found(s)' /\ Saw(s)'
    BY <1>0, <1>1, <2>1 DEF Found, Saw, Became, Issued, Before
  <2>3. QED
    BY <1>0, <1>1, <2>1, <2>2, QuietStep DEF After
<1>2. CASE /\ Go(s, "printed")
           /\ keys' = [keys EXCEPT ![s] = [user |-> issue[s].user, project |-> issue[s].project,
                                           revoked |-> FALSE, expired |-> FALSE]]
  <2>1. Became(s, "printed", issue[s].user, issue[s].project, issue[s].saw)
    BY <1>0, <1>2, GoBecame
  <2>2. /\ \A k \in Scripts \ {s} : keys'[k] = keys[k]
        /\ keys'[s].user = issue[s].user /\ keys'[s].project = issue[s].project
    BY <1>0, <1>2 DEF IssueInv
  <2>3. ASSUME NEW k \in Scripts PROVE Found(k)' /\ Saw(k)'
    <3>1. CASE k = s
      <4>1. s \notin ByIds => UserFound(s) /\ ProjectFound(s)
        BY <1>0 DEF Found
      <4>2. s \notin ByIds => UserFound(s)' /\ ProjectFound(s)'
        BY <1>0, <2>1, <4>1 DEF UserFound, ProjectFound, Became
      <4>3. Found(s)'
        BY <2>1, <2>2, <4>2 DEF Found, Became, Before
      <4>4. Saw(s)'
        BY <1>0, <2>1 DEF Saw, Became
      <4>5. QED
        BY <3>1, <4>3, <4>4
    <3>2. CASE k # s
      <4>1. issue'[k] = issue[k] /\ keys'[k] = keys[k] /\ Found(k) /\ Saw(k)
        BY <1>0, <2>1, <2>2, <3>2 DEF Became
      <4>2. (UserFound(k) <=> UserFound(k)') /\ (ProjectFound(k) <=> ProjectFound(k)')
        BY <1>0, <4>1 DEF UserFound, ProjectFound
      <4>3. Found(k)'
        BY <4>1, <4>2 DEF Found, Issued
      <4>4. QED
        BY <4>1, <4>3 DEF Saw
    <3>3. QED
      BY <3>1, <3>2
  <2>4. \A k \in Scripts : /\ issue'[k].ask = issue[k].ask /\ issue'[k].user = issue[k].user
                           /\ (issue[k].pc \in After => issue'[k].pc \in After)
                           /\ (Inserted(k)' <=> Inserted(k))
    BY <1>0, <2>1 DEF Became, After, Inserted
  <2>5. Rows'
    <3>1. (\A u \in users : u.id \in Scripts) /\ (\A p \in projects : p.id \in Scripts)
      BY <1>0 DEF Rows
    <3>2. QED
      BY <1>0, <2>4, <3>1 DEF Rows
  <2> HIDE DEF Inserted
  <2>6. Unique'
    BY <1>0, <2>4 DEF Unique
  <2>7. QED
    BY <2>3, <2>5, <2>6 DEF OwnedInv
<1>3. QED
  BY <1>1, <1>2 DEF CreateKey

\* Nobody has inserted anything initially.
LEMMA InitOwned == Init => OwnedInv
<1> SUFFICES ASSUME Init PROVE OwnedInv
  OBVIOUS
<1>1. IssueInv /\ IssueInit
  BY InitIssue DEF Init
<1>2. PICK ask \in [Scripts \ ByIds -> AllAsked] :
        issue = [s \in Scripts |->
            [pc |-> IF s \in ByIds THEN "ids" ELSE "user",
             ask |-> IF s \in ByIds THEN [email |-> Nobody, project |-> Nobody] ELSE ask[s],
             user |-> Nobody, project |-> Nobody, saw |-> {}]]
  BY <1>1 DEF IssueInit, AllAsked
<1>3. users = {} /\ projects = {} /\ \A s \in Scripts : ~Issued(s)
  BY <1>1 DEF IssueInit, Issued, NoKeyRow
<1>4. \A s \in Scripts : /\ issue[s].pc = "ids" => s \in ByIds
                         /\ issue[s].pc = "user" => issue[s].ask \in AllAsked
                         /\ issue[s].pc \in {"ids", "user"} /\ issue[s].saw = {}
  BY <1>2
<1>5. QED
  BY <1>1, <1>3, <1>4 DEF OwnedInv, Rows, Unique, Found, Saw, Inserted, Before

\* What a script printed keeps its user and its project, and so does a key that ends.
LEMMA EndingOwned ==
  ASSUME OwnedInv, IssueInv', NEW k \in Scripts, Revoke(k) \/ Expire(k)
  PROVE  OwnedInv' /\ \A s \in Scripts : /\ keys'[s].user = keys[s].user
                                         /\ keys'[s].project = keys[s].project
<1>1. \A s \in Scripts : keys'[s].user = keys[s].user /\ keys'[s].project = keys[s].project
  <2> DEFINE a == [keys[k] EXCEPT !.revoked = TRUE]
             b == [keys[k] EXCEPT !.expired = TRUE]
  <2>1. /\ a.project = keys[k].project /\ a.user = keys[k].user
        /\ b.project = keys[k].project /\ b.user = keys[k].user
    BY DEF OwnedInv, IssueInv, KeyRows
  <2>2. keys' = [keys EXCEPT ![k] = a] \/ keys' = [keys EXCEPT ![k] = b]
    BY DEF Revoke, Expire
  <2> HIDE DEF a, b
  <2>3. QED
    BY <2>1, <2>2 DEF OwnedInv, IssueInv
<1>2. users' = users /\ projects' = projects /\ issue' = issue
  BY DEF Revoke, Expire
<1>3. (Rows <=> Rows') /\ (Unique <=> Unique')
  BY <1>2 DEF Rows, Unique, Inserted
<1>4. ASSUME NEW s \in Scripts PROVE Found(s)' /\ Saw(s)'
  <2>1. Found(s) /\ Saw(s)
    BY DEF OwnedInv
  <2>2. (UserFound(s)' <=> UserFound(s)) /\ (ProjectFound(s)' <=> ProjectFound(s))
    BY <1>2 DEF UserFound, ProjectFound
  <2>3. Found(s)'
    BY <1>1, <1>2, <2>1, <2>2 DEF Found, Issued
  <2>4. QED
    BY <1>2, <2>1, <2>3 DEF Saw
<1>5. QED
  BY <1>1, <1>3, <1>4 DEF OwnedInv

\* A step that touches none of the scripts' tables.
LEMMA ElsewhereOwned ==
  ASSUME OwnedInv, users' = users, projects' = projects, issue' = issue, keys' = keys
  PROVE  OwnedInv'
<1>1. IssueInv' /\ Rows' /\ Unique'
  BY DEF OwnedInv, IssueInv, Issued, Rows, Unique, Inserted
<1>2. ASSUME NEW s \in Scripts PROVE Found(s)' /\ Saw(s)'
  BY DEF OwnedInv, Found, Saw, Issued, UserFound, ProjectFound
<1>3. QED
  BY <1>1, <1>2 DEF OwnedInv

\* Only the scripts, the operators and the clock touch the scripts' tables.
LEMMA TablesBelong ==
  ASSUME Next
  PROVE  \/ \E s \in Scripts : Script(s) \/ Revoke(s) \/ Expire(s)
         \/ users' = users /\ projects' = projects /\ issue' = issue /\ keys' = keys
<1>1. ASSUME NEW r \in Requests, Handle(r) \/ RunJob(r) \/ FinishJob(r)
      PROVE  users' = users /\ projects' = projects /\ issue' = issue /\ keys' = keys
  BY <1>1 DEF Handle, Dispatch, ReadKey, MarkUsed, DatabaseFails, RouteChat, Admit, CallModel,
     RouteSubmit, StoreJob, RouteJob, GetJob, CancelJob, RunJob, FinishJob, issueVars
<1>2. CASE Start \/ Stop \/ Crash
  BY <1>2 DEF Start, Stop, Crash, issueVars
<1>3. QED
  BY <1>1, <1>2 DEF Next

\* Every step keeps the invariant of the tables.
LEMMA NextOwned == OwnedInv /\ [Next]_vars => OwnedInv'
<1> SUFFICES ASSUME OwnedInv, [Next]_vars PROVE OwnedInv'
  OBVIOUS
<1>0. IssueInv
  BY DEF OwnedInv
<1>1. ASSUME NEW s \in Scripts, Script(s) PROVE OwnedInv'
  <2>1. IssueStep(s) \/ AbortScript(s)
    BY <1>1 DEF Script
  <2>2. IssueInv'
    BY <1>0, <2>1, IssueStepInv
  <2>3. QED
    BY <2>1, <2>2, LookUpsOwned, CommitOwned, KeyOwned DEF IssueStep
<1>2. ASSUME NEW s \in Scripts, Revoke(s) \/ Expire(s) PROVE OwnedInv'
  BY <1>0, <1>2, EndingKeeps, EndingOwned
<1>3. CASE users' = users /\ projects' = projects /\ issue' = issue /\ keys' = keys
  BY <1>3, ElsewhereOwned
<1>4. CASE UNCHANGED vars
  BY <1>3, <1>4 DEF vars, issueVars
<1>5. QED
  BY <1>1, <1>2, <1>3, <1>4, TablesBelong

\* Two projects of one user and one name come only from scripts that raced, and a key
\* asked for by e-mail belongs to that user and to one of those projects, for any scripts
\* in any order, killed at any moment (scripts/create_api_key.py).
THEOREM TwinsRace == Spec => []TwinsAreRaces
<1>1. ASSUME OwnedInv PROVE TwinsAreRaces
  <2>1. ASSUME NEW p \in projects, NEW q \in projects, p.user = q.user, p.name = q.name,
               p \in issue[q.id].saw
        PROVE  FALSE
    <3>1. /\ q.id \in Scripts /\ q.user = issue[q.id].user /\ q.name = issue[q.id].ask.project
      BY <1>1 DEF OwnedInv, Rows
    <3>2. QED
      BY <1>1, <2>1, <3>1 DEF OwnedInv, Saw
  <2>2. ASSUME NEW s \in Scripts \ ByIds, Issued(s)
        PROVE  \E u \in users, p \in projects :
                 /\ u.id = keys[s].user /\ u.email = issue[s].ask.email
                 /\ p.id = keys[s].project /\ p.user = u.id /\ p.name = issue[s].ask.project
    BY <1>1, <2>2 DEF OwnedInv, Found, UserFound, ProjectFound
  <2>3. QED
    BY <2>1, <2>2 DEF TwinsAreRaces
<1>2. QED
  BY InitOwned, NextOwned, <1>1, PTL DEF Spec

(***************************************************************************)
(* The jobs and the keys that ask for them                                 *)
(***************************************************************************)
\* What a request has of its key, and a job of the key that submitted it.
OfItsKey(q) ==
  /\ q.at \in Inside => /\ q.context.user = keys[q.key].user
                        /\ q.context.project = keys[q.key].project
  /\ q.at = "cancelling" => jobs[q.job].status # "none"
  /\ q.at # "answered" => q.code = "none"

JobOfItsKey(j) ==
  j.status # "none" => /\ j.key \in Scripts /\ issue[j.key].pc = "printed"
                       /\ j.user = keys[j.key].user /\ j.project = keys[j.key].project

TheirsInv ==
  /\ AccessInv /\ OwnedInv
  /\ \A r \in Requests : /\ OfItsKey(req[r]) /\ JobOfItsKey(jobs[r])
                         /\ req[r].at # "answered" => jobs[r].status = "none"

\* What no step takes from a key that was printed, or from a job that was stored.
KeysStay ==
  \A k \in Scripts : issue[k].pc = "printed" =>
    /\ issue'[k].pc = "printed"
    /\ keys'[k].user = keys[k].user /\ keys'[k].project = keys[k].project
JobsStay ==
  \A j \in Requests : jobs[j].status # "none" =>
    /\ jobs'[j].status # "none" /\ jobs'[j].key = jobs[j].key
    /\ jobs'[j].user = jobs[j].user /\ jobs'[j].project = jobs[j].project

\* What a request becomes by its own step, and what it leaves to the others.
Goes(r) ==
  /\ \A x \in Requests \ {r} : req'[x] = req[x]
  /\ req[r].at # "answered"
  /\ \/ req'[r].at = "answered"
     \/ req'[r].at = "auth" /\ req'[r].code = req[r].code
     \/ /\ req'[r].at = "marking" /\ req'[r].code = req[r].code
        /\ req'[r].context = ContextOf(req'[r].key)
     \/ /\ req[r].at \in Inside /\ req'[r].at \in Inside
        /\ req'[r].code = req[r].code /\ req'[r].key = req[r].key /\ req'[r].job = req[r].job
        /\ req'[r].context = req[r].context
        /\ req'[r].at = "cancelling" => jobs[req[r].job].status # "none"

\* A request that is answered goes so.
LEMMA AnswerGoes ==
  ASSUME AccessInv, NEW r \in Requests, NEW code \in Codes, Answer(r, code),
         req[r].at # "answered"
  PROVE  Goes(r) /\ req'[r].at = "answered"
<1>1. PICK q \in RequestOK : req' = [req EXCEPT ![r] = q] /\ q.at = "answered"
  BY AnswerRecord DEF AccessInv
<1>2. QED
  BY <1>1 DEF Goes, AccessInv

\* A request that goes from one await to the next goes so.
LEMMA MoveGoes ==
  ASSUME AccessInv, NEW r \in Requests, NEW step \in Inside, MoveTo(r, step),
         req[r].at \in Inside, step = "cancelling" => jobs[req[r].job].status # "none"
  PROVE  Goes(r)
<1>0. step \in Steps
  BY DEF Inside, Steps
<1>1. PICK q \in RequestOK :
        /\ req' = [req EXCEPT ![r] = q]
        /\ q.at = step /\ q.op = req[r].op /\ q.key = req[r].key /\ q.model = req[r].model
        /\ q.job = req[r].job /\ q.context = req[r].context /\ q.code = req[r].code
  BY <1>0, MoveRecord DEF AccessInv
<1>2. req'[r] = q /\ \A x \in Requests \ {r} : req'[x] = req[x]
  BY <1>1 DEF AccessInv
<1>3. QED
  BY <1>1, <1>2 DEF Goes, Inside

\* Each step of a request is one of those.
LEMMA HandleGoes ==
  ASSUME AccessInv, NEW r \in Requests, Handle(r)
  PROVE  Goes(r)
<1>0. req \in [Requests -> RequestOK] /\ req[r] \in RequestOK /\ Carries(req[r])
  BY DEF AccessInv
<1>1. CASE Dispatch(r)
  <2>1. PICK op \in Ops, key \in {k \in Scripts : issue[k].pc = "printed"} \cup {Missing, Unknown},
             model \in Models, job \in Requests : Asking(r, op, key, model, job)
    BY <1>1, DispatchAsks
  <2> DEFINE asked == AskedOf(req[r], op, key, model, job)
             gone  == [asked EXCEPT !.at = "answered"]
             q     == IF key = Missing THEN [gone EXCEPT !.code = "missing_api_key"]
                                       ELSE [asked EXCEPT !.at = "auth"]
  <2>2. key \in Tokens
    BY DEF Tokens
  <2>3. asked \in RequestOK /\ asked.code = req[r].code
    BY <1>0, <2>2, AskedRecord
  <2>4. req' = [req EXCEPT ![r] = q]
    BY <2>1 DEF Asking
  <2> HIDE DEF asked
  <2>5. gone \in RequestOK /\ gone.at = "answered"
    BY <2>3 DEF RequestOK, Steps
  <2> HIDE DEF gone
  <2>6. q.at = "answered" \/ (q.at = "auth" /\ q.code = req[r].code)
    BY <2>3, <2>5 DEF RequestOK
  <2> HIDE DEF q
  <2>7. req'[r] = q /\ (\A x \in Requests \ {r} : req'[x] = req[x]) /\ req[r].at # "answered"
    BY <1>0, <1>1, <2>4 DEF Dispatch, At
  <2>8. QED
    BY <2>6, <2>7 DEF Goes
<1>2. CASE ReadKey(r)
  <2>0. req[r].at = "auth"
    BY <1>2 DEF ReadKey, At
  <2>1. CASE \E code \in Codes : Answer(r, code)
    BY <2>0, <2>1, AnswerGoes
  <2>2. CASE req' = [req EXCEPT ![r].at = "marking", ![r].context = ContextOf(req[r].key)]
    <3> DEFINE p == [req[r] EXCEPT !.at = "marking"]
               q == [p EXCEPT !.context = ContextOf(req[r].key)]
    <3>1. p \in RequestOK /\ p.at = "marking" /\ p.key = req[r].key /\ p.code = req[r].code
      BY <1>0 DEF RequestOK, Steps
    <3>2. req' = [req EXCEPT ![r] = q]
      BY <2>2
    <3> HIDE DEF p
    <3>3. /\ q.at = "marking" /\ q.key = req[r].key /\ q.code = req[r].code
          /\ q.context = ContextOf(req[r].key)
      BY <3>1 DEF RequestOK
    <3> HIDE DEF q
    <3>4. req'[r] = q /\ \A x \in Requests \ {r} : req'[x] = req[x]
      BY <1>0, <3>2
    <3>5. QED
      BY <2>0, <3>3, <3>4 DEF Goes
  <2>3. QED
    <3> DEFINE refusal == IF req[r].key = Unknown THEN "invalid_api_key"
                                                  ELSE Invalid(keys[req[r].key])
    <3>1. refusal \in Codes
      BY DEF Codes, Invalid
    <3>2. \/ Answer(r, refusal)
          \/ req' = [req EXCEPT ![r].at = "marking", ![r].context = ContextOf(req[r].key)]
      BY <1>2 DEF ReadKey
    <3> HIDE DEF refusal
    <3>3. QED
      BY <2>1, <2>2, <3>1, <3>2
<1>3. ASSUME NEW code \in {"model_not_allowed", "rate_limit_exceeded", "batch_job_not_found",
                           "ok", ServerError},
             Answer(r, code), req[r].at # "answered"
      PROVE  Goes(r)
  BY <1>3, AnswerGoes DEF Codes
<1>4. CASE MarkUsed(r)
  <2>1. req[r].at \in Inside /\ MoveTo(r, "route")
    BY <1>4 DEF MarkUsed, At, Inside
  <2>2. QED
    BY <2>1, MoveGoes DEF Inside
<1>5. CASE RouteChat(r) \/ Admit(r) \/ RouteSubmit(r) \/ RouteJob(r)
  <2>1. /\ req[r].at \in Inside /\ req[r].at # "answered"
        /\ \/ \E step \in Inside : step # "cancelling" /\ MoveTo(r, step)
           \/ \E code \in {"model_not_allowed", "rate_limit_exceeded"} : Answer(r, code)
    BY <1>5 DEF RouteChat, Admit, RouteSubmit, RouteJob, At, Inside
  <2>2. QED
    BY <1>3, <2>1, MoveGoes
<1>6. CASE GetJob(r)
  <2>1. /\ req[r].at \in Inside /\ req[r].at # "answered"
        /\ \/ jobs[req[r].job].status # "none" /\ MoveTo(r, "cancelling")
           \/ \E code \in {"ok", "batch_job_not_found"} : Answer(r, code)
    BY <1>6 DEF GetJob, At, Inside
  <2>2. QED
    BY <1>3, <2>1, MoveGoes DEF Inside
<1>7. CASE StoreJob(r) \/ CancelJob(r) \/ CallModel(r) \/ DatabaseFails(r)
  <2>1. /\ req[r].at # "answered"
        /\ \E code \in {"ok", ServerError} : Answer(r, code)
    BY <1>7 DEF StoreJob, CancelJob, CallModel, DatabaseFails, At
  <2>2. QED
    BY <1>3, <2>1
<1>8. QED
  BY <1>1, <1>2, <1>4, <1>5, <1>6, <1>7 DEF Handle

\* A job that changes its status stays the job of its key.
LEMMA StatusStays ==
  ASSUME AccessInv, NEW j \in Requests, NEW status \in Terminal \cup {"queued", "running"},
         jobs[j].status # "none", jobs' = [jobs EXCEPT ![j].status = status]
  PROVE  /\ JobsStay
         /\ \A i \in Requests : jobs[i].status = "none" => jobs'[i] = jobs[i]
<1> DEFINE n == [jobs[j] EXCEPT !.status = status]
<1>1. /\ n.status = status /\ n.key = jobs[j].key
      /\ n.user = jobs[j].user /\ n.project = jobs[j].project
  BY DEF AccessInv, JobsKept, JobOK
<1>2. jobs' = [jobs EXCEPT ![j] = n] /\ status # "none"
  BY DEF Terminal
<1> HIDE DEF n
<1>3. jobs'[j] = n /\ \A i \in Requests \ {j} : jobs'[i] = jobs[i]
  BY <1>2 DEF AccessInv, JobsKept
<1>4. QED
  BY <1>1, <1>2, <1>3 DEF JobsStay

\* No step takes the user or the project from a printed key.
LEMMA KeysStayed ==
  ASSUME OwnedInv, [Next]_vars
  PROVE  KeysStay
<1>0. IssueInv /\ \A s \in Scripts : issue[s] \in Progress
  BY DEF OwnedInv, IssueInv
<1>1. ASSUME NEW s \in Scripts, Script(s) PROVE KeysStay
  <2>1. IssueStep(s) \/ AbortScript(s)
    BY <1>1 DEF Script
  <2>2. \A k \in Scripts : issue[k].pc = "printed" => issue'[k].pc = "printed"
    BY <1>0, <2>1, IssueStepInv
  <2>3. CASE keys' = keys
    BY <2>2, <2>3 DEF KeysStay
  <2>4. CASE CreateKey(s)
    <3>1. issue[s].pc = "key" /\ \A k \in Scripts \ {s} : keys'[k] = keys[k]
      BY <1>0, <2>4 DEF CreateKey, IssueInv
    <3>2. QED
      BY <2>2, <3>1 DEF KeysStay
  <2>5. QED
    BY <2>1, <2>3, <2>4 DEF IssueStep, LookUpUser, InsertUser, LookUpProject, CommitOwner, TakeIds,
       AbortScript
<1>2. ASSUME NEW s \in Scripts, Revoke(s) \/ Expire(s) PROVE KeysStay
  <2>1. IssueInv' /\ issue' = issue
    BY <1>0, <1>2, EndingKeeps DEF Revoke, Expire
  <2>2. QED
    BY <1>2, <2>1, EndingOwned DEF KeysStay
<1>3. CASE keys' = keys /\ issue' = issue
  BY <1>3 DEF KeysStay
<1>4. QED
  BY <1>1, <1>2, <1>3, TablesBelong DEF vars, issueVars

\* A job comes to be only by StoreJob, and stays with its key.
LEMMA JobsStayed ==
  ASSUME TheirsInv, [Next]_vars
  PROVE  /\ JobsStay
         /\ \A j \in Requests : jobs[j].status = "none" => jobs'[j] = jobs[j] \/ StoreJob(j)
<1>0. AccessInv /\ jobs \in [Requests -> JobOK]
  BY DEF TheirsInv, AccessInv, JobsKept
<1>1. CASE jobs' = jobs
  BY <1>1 DEF JobsStay
<1>2. ASSUME NEW r \in Requests, StoreJob(r)
      PROVE  /\ JobsStay
             /\ \A j \in Requests : jobs[j].status = "none" => jobs'[j] = jobs[j] \/ StoreJob(j)
  <2>1. \A j \in Requests \ {r} : jobs'[j] = jobs[j]
    BY <1>0, <1>2 DEF StoreJob
  <2>2. jobs[r].status = "none"
    BY <1>2 DEF StoreJob, At, TheirsInv
  <2>3. QED
    BY <1>2, <2>1, <2>2 DEF JobsStay
<1>3. ASSUME NEW r \in Requests, CancelJob(r)
      PROVE  JobsStay /\ \A j \in Requests : jobs[j].status = "none" => jobs'[j] = jobs[j]
  <2>1. req[r].job \in Requests /\ jobs[req[r].job].status # "none"
    BY <1>3 DEF CancelJob, At, TheirsInv, AccessInv, RequestOK, OfItsKey
  <2>2. \/ jobs' = jobs
        \/ jobs' = [jobs EXCEPT ![req[r].job].status = "cancelled"]
    BY <1>3 DEF CancelJob
  <2>3. QED
    BY <1>0, <1>1, <2>1, <2>2, StatusStays DEF Terminal
<1>4. ASSUME NEW r \in Requests, RunJob(r) \/ FinishJob(r)
      PROVE  JobsStay /\ \A j \in Requests : jobs[j].status = "none" => jobs'[j] = jobs[j]
  <2>1. /\ jobs[r].status # "none"
        /\ \E status \in {"running", "succeeded", "failed"} :
             jobs' = [jobs EXCEPT ![r].status = status]
    BY <1>4 DEF RunJob, FinishJob
  <2>2. QED
    BY <1>0, <2>1, StatusStays DEF Terminal
<1>5. ASSUME NEW r \in Requests, Handle(r)
      PROVE  jobs' = jobs \/ StoreJob(r) \/ CancelJob(r)
  BY <1>5 DEF Handle, Dispatch, ReadKey, MarkUsed, DatabaseFails, RouteChat, Admit, CallModel,
     RouteSubmit, RouteJob, GetJob, tables
<1>6. ASSUME NEW s \in Scripts, Script(s) \/ Revoke(s) \/ Expire(s) PROVE jobs' = jobs
  BY <1>6 DEF Script, Revoke, Expire, tables
<1>7. CASE Start \/ Stop \/ Crash \/ UNCHANGED vars
  BY <1>1, <1>7 DEF Start, Stop, Crash, vars, tables
<1>8. QED
  BY <1>1, <1>2, <1>3, <1>4, <1>5, <1>6, <1>7 DEF Next

\* What a step does to one request: nothing, a step of its own, or the end of the process.
LEMMA RequestGoes ==
  ASSUME AccessInv, [Next]_vars, NEW x \in Requests
  PROVE  \/ req'[x] = req[x]
         \/ (Handle(x) /\ Goes(x))
         \/ req[x].at # "answered" /\ req'[x].at = "answered" /\ req'[x].code = "lost"
<1>1. ASSUME NEW r \in Requests, Handle(r)
      PROVE  req'[x] = req[x] \/ (Handle(x) /\ Goes(x))
  BY <1>1, HandleGoes DEF Goes
<1>2. CASE Crash
  <2>1. req[x] \in RequestOK
    BY DEF AccessInv
  <2>2. \/ req'[x] = req[x]
        \/ /\ req[x].at # "answered"
           /\ req'[x] = [req[x] EXCEPT !.at = "answered", !.code = "lost"]
    BY <1>2 DEF Crash
  <2>3. QED
    BY <2>1, <2>2 DEF RequestOK
<1>3. CASE req' = req
  BY <1>3
<1>4. ASSUME NEW s \in Scripts, Script(s) \/ Revoke(s) \/ Expire(s) PROVE req' = req
  BY <1>4 DEF Script, Revoke, Expire
<1>5. ASSUME NEW j \in Requests, RunJob(j) \/ FinishJob(j) PROVE req' = req
  BY <1>5 DEF RunJob, FinishJob
<1>6. QED
  BY <1>1, <1>2, <1>3, <1>4, <1>5 DEF Next, Start, Stop, vars

\* Nobody has a context or a job initially.
LEMMA InitTheirs == Init => TheirsInv
<1> SUFFICES ASSUME Init PROVE TheirsInv
  OBVIOUS
<1>1. AccessInv /\ OwnedInv
  BY InitAccess, InitOwned
<1>2. \A r \in Requests : /\ req[r].at = "client" /\ req[r].code = "none"
                          /\ jobs[r].status = "none"
  BY DEF Init, NoJob
<1>3. QED
  BY <1>1, <1>2 DEF TheirsInv, OfItsKey, JobOfItsKey, Inside

\* Every step leaves the requests and the jobs with what is their key's.
LEMMA NextTheirs == TheirsInv /\ [Next]_vars => TheirsInv'
<1> SUFFICES ASSUME TheirsInv, [Next]_vars PROVE TheirsInv'
  OBVIOUS
<1>0. AccessInv /\ OwnedInv
  BY DEF TheirsInv
<1>1. AccessInv' /\ OwnedInv' /\ KeysStay /\ JobsStay
  BY <1>0, NextAccess, NextOwned, KeysStayed, JobsStayed
<1>2. ASSUME NEW x \in Requests
      PROVE  OfItsKey(req[x])' /\ (req'[x].at # "answered" => req[x].at # "answered")
  <2>0. req[x] \in RequestOK /\ Carries(req[x]) /\ OfItsKey(req[x])
    BY DEF TheirsInv, AccessInv
  <2>1. req[x].at \in Inside => req[x].key \in Scripts /\ issue[req[x].key].pc = "printed"
    BY <2>0 DEF Carries, Inside
  <2>2. req[x].job \in Requests
    BY <2>0 DEF RequestOK
  <2>3. CASE req'[x] = req[x]
    BY <1>1, <2>0, <2>1, <2>2, <2>3 DEF OfItsKey, KeysStay, JobsStay
  <2>4. CASE req[x].at # "answered" /\ req'[x].at = "answered"
    BY <2>4 DEF OfItsKey, Inside
  <2>5. CASE Handle(x) /\ Goes(x)
    <3>1. keys' = keys
      BY <2>5 DEF Handle, Dispatch, ReadKey, MarkUsed, DatabaseFails, RouteChat, Admit, CallModel,
         RouteSubmit, StoreJob, RouteJob, GetJob, CancelJob, issueVars
    <3>2. req[x].at # "answered" /\ req[x].code = "none"
      BY <2>0, <2>5 DEF Goes, OfItsKey
    <3>3. CASE req'[x].at = "answered"
      BY <3>2, <3>3 DEF OfItsKey, Inside
    <3>4. CASE req'[x].at = "auth" /\ req'[x].code = req[x].code
      BY <3>2, <3>4 DEF OfItsKey, Inside
    <3>5. CASE /\ req'[x].at = "marking" /\ req'[x].code = req[x].code
               /\ req'[x].context = ContextOf(req'[x].key)
      BY <3>1, <3>2, <3>5 DEF OfItsKey, ContextOf
    <3>6. CASE /\ req[x].at \in Inside /\ req'[x].at \in Inside
               /\ req'[x].code = req[x].code /\ req'[x].key = req[x].key
               /\ req'[x].job = req[x].job /\ req'[x].context = req[x].context
               /\ req'[x].at = "cancelling" => jobs[req[x].job].status # "none"
      BY <1>1, <2>0, <2>2, <3>1, <3>2, <3>6 DEF OfItsKey, JobsStay
    <3>7. QED
      BY <2>5, <3>2, <3>3, <3>4, <3>5, <3>6 DEF Goes
  <2>6. QED
    BY <1>0, <2>3, <2>4, <2>5, RequestGoes
<1>3. ASSUME NEW j \in Requests
      PROVE  JobOfItsKey(jobs[j])' /\ (req'[j].at # "answered" => jobs'[j].status = "none")
  <2>1. JobOfItsKey(jobs[j]) /\ (req[j].at # "answered" => jobs[j].status = "none")
    BY DEF TheirsInv
  <2>2. CASE jobs[j].status # "none"
    BY <1>1, <1>2, <2>1, <2>2 DEF JobOfItsKey, KeysStay, JobsStay
  <2>3. CASE jobs[j].status = "none" /\ jobs'[j] = jobs[j]
    BY <2>3 DEF JobOfItsKey
  <2>4. CASE StoreJob(j)
    <3>1. /\ jobs'[j] = [status |-> "queued", key |-> req[j].key, user |-> req[j].context.user,
                         project |-> req[j].context.project, model |-> req[j].model]
          /\ req[j].at = "storing" /\ Answer(j, "ok")
      BY <1>0, <2>4 DEF StoreJob, At, AccessInv, JobsKept
    <3>2. req'[j].at = "answered"
      BY <1>0, <3>1, AnswerGoes DEF Codes
    <3>3. /\ req[j].key \in Scripts /\ issue[req[j].key].pc = "printed"
          /\ req[j].context.user = keys[req[j].key].user
          /\ req[j].context.project = keys[req[j].key].project
      BY <3>1 DEF TheirsInv, OfItsKey, AccessInv, Carries, Inside
    <3>4. QED
      BY <1>1, <3>1, <3>2, <3>3 DEF JobOfItsKey, KeysStay
  <2>5. QED
    BY <2>2, <2>3, <2>4, JobsStayed
<1>4. QED
  BY <1>1, <1>2, <1>3 DEF TheirsInv

\* Two keys asked for with one e-mail and one project name have one user.
LEMMA SameAsk ==
  ASSUME OwnedInv, NEW k \in Scripts \ ByIds, NEW l \in Scripts \ ByIds,
         issue[k].pc = "printed", issue[l].pc = "printed", issue[k].ask = issue[l].ask
  PROVE  /\ keys[k].user = keys[l].user
         /\ \/ keys[k].project = keys[l].project
            \/ \E p, q \in projects : p.id # q.id /\ p.user = q.user /\ p.name = q.name
<1>1. /\ keys[k].user = issue[k].user /\ keys[k].project = issue[k].project
      /\ UserFound(k) /\ ProjectFound(k)
  BY DEF OwnedInv, IssueInv, Found
<1>2. /\ keys[l].user = issue[l].user /\ keys[l].project = issue[l].project
      /\ UserFound(l) /\ ProjectFound(l)
  BY DEF OwnedInv, IssueInv, Found
<1>3. issue[k].user = issue[l].user
  BY <1>1, <1>2 DEF OwnedInv, Unique, UserFound
<1>4. QED
  BY <1>1, <1>2, <1>3 DEF ProjectFound

\* A job is found by the keys of its user and project, and by no others: for any keys,
\* made by e-mail or from ids, and any requests (batch_service.py, _can_access).
THEOREM JobsTheirs == Spec => JobsAreTheirs
<1>1. TheirsInv /\ [Next]_vars =>
        [\A r \in Requests :
           LET j == jobs[req[r].job]
               k == req[r].key
           IN At(r, "getting") /\ j.status # "none" =>
              /\ At(r, "cancelling")' \/ req'[r].code = "ok" =>
                   keys[k].user = keys[j.key].user /\ keys[k].project = keys[j.key].project
              /\ /\ req'[r].code = "batch_job_not_found"
                 /\ {k, j.key} \cap ByIds = {} /\ issue[k].ask = issue[j.key].ask
                 => \E p, q \in projects : p.id # q.id /\ p.user = q.user /\ p.name = q.name]_vars
  <2> SUFFICES ASSUME TheirsInv, Next, NEW r \in Requests,
                      At(r, "getting"), jobs[req[r].job].status # "none"
               PROVE  LET j == jobs[req[r].job]
                          k == req[r].key
                      IN  /\ At(r, "cancelling")' \/ req'[r].code = "ok" =>
                               /\ keys[k].user = keys[j.key].user
                               /\ keys[k].project = keys[j.key].project
                          /\ /\ req'[r].code = "batch_job_not_found"
                             /\ {k, j.key} \cap ByIds = {} /\ issue[k].ask = issue[j.key].ask
                             => \E p, q \in projects :
                                  p.id # q.id /\ p.user = q.user /\ p.name = q.name
    OBVIOUS
  <2> DEFINE j == jobs[req[r].job]
             k == req[r].key
  <2>0. /\ AccessInv /\ OwnedInv /\ req[r] \in RequestOK /\ req[r].at = "getting"
        /\ req[r].code = "none"
        /\ k \in Scripts /\ issue[k].pc = "printed"
        /\ req[r].context.user = keys[k].user /\ req[r].context.project = keys[k].project
    BY DEF TheirsInv, OfItsKey, AccessInv, Carries, Inside, At
  <2>1. /\ j.key \in Scripts /\ issue[j.key].pc = "printed"
        /\ j.user = keys[j.key].user /\ j.project = keys[j.key].project
    BY <2>0 DEF TheirsInv, JobOfItsKey, RequestOK
  <2>2. \/ req'[r].at = "getting" /\ req'[r].code = "none"
        \/ req'[r].at = "answered" /\ req'[r].code \in {ServerError, "lost"}
        \/ GetJob(r)
    <3>1. CASE Handle(r)
      <4>1. GetJob(r) \/ DatabaseFails(r)
        BY <2>0, <3>1 DEF Handle, Dispatch, ReadKey, MarkUsed, RouteChat, Admit, CallModel,
           RouteSubmit, StoreJob, RouteJob, CancelJob, At
      <4>2. CASE DatabaseFails(r)
        <5>1. Answer(r, ServerError)
          BY <4>2 DEF DatabaseFails
        <5>2. req'[r].at = "answered" /\ req'[r].code = ServerError
          BY <2>0, <5>1 DEF Answer, AccessInv, RequestOK
        <5>3. QED
          BY <5>2
      <4>3. QED
        BY <4>1, <4>2
    <3>2. CASE ~Handle(r)
      BY <2>0, <3>2, RequestGoes
    <3>3. QED
      BY <3>1, <3>2
  <2>3. CASE GetJob(r) /\ ~CanAccess(j, req[r].context)
    <3>1. Answer(r, "batch_job_not_found")
      BY <2>3 DEF GetJob
    <3>2. req'[r].at = "answered" /\ req'[r].code = "batch_job_not_found"
      BY <2>0, <3>1 DEF Answer, AccessInv, RequestOK
    <3>3. ~(keys[k].user = keys[j.key].user /\ keys[k].project = keys[j.key].project)
      BY <2>0, <2>1, <2>3 DEF CanAccess
    <3>4. ~(At(r, "cancelling")' \/ req'[r].code = "ok")
      BY <3>2 DEF At
    <3>5. ASSUME {k, j.key} \cap ByIds = {}, issue[k].ask = issue[j.key].ask
          PROVE  \E p, q \in projects : p.id # q.id /\ p.user = q.user /\ p.name = q.name
      <4>1. /\ k \in Scripts \ ByIds /\ j.key \in Scripts \ ByIds
            /\ issue[k].pc = "printed" /\ issue[j.key].pc = "printed"
        BY <2>0, <2>1, <3>5
      <4>2. /\ keys[k].user = keys[j.key].user
            /\ \/ keys[k].project = keys[j.key].project
               \/ \E p, q \in projects : p.id # q.id /\ p.user = q.user /\ p.name = q.name
        <5> HIDE DEF j, k
        <5>1. QED
          BY <2>0, <3>5, <4>1, SameAsk
      <4>3. QED
        BY <3>3, <4>2
    <3>6. QED
      BY <3>4, <3>5
  <2>4. CASE GetJob(r) /\ CanAccess(j, req[r].context)
    <3>1. Answer(r, "ok") \/ MoveTo(r, "cancelling")
      BY <2>4 DEF GetJob
    <3>2. req'[r].code \in {"ok", "none"}
      BY <2>0, <3>1 DEF Answer, MoveTo, AccessInv, RequestOK
    <3>3. keys[k].user = keys[j.key].user /\ keys[k].project = keys[j.key].project
      BY <2>0, <2>1, <2>4 DEF CanAccess
    <3>4. QED
      BY <3>2, <3>3
  <2>5. QED
    BY <2>2, <2>3, <2>4 DEF At, ServerError
<1>2. QED
  BY <1>1, InitTheirs, NextTheirs, PTL DEF Spec, JobsAreTheirs

(***************************************************************************)
(* The resources of app.state                                              *)
(***************************************************************************)
AppStates == [ready : BOOLEAN, postgres_engine : Nat, redis_client : Nat, created : Nat,
              auth : Nat, audit : Nat, batch_engine : Nat, batch_redis : Nat, admission : Nat]

\* The services of one process share its engine, and its client but for the one that
\* a batch service may have had before admission came.
Sound(a) ==
  /\ a \in AppStates
  /\ a.postgres_engine <= a.created /\ a.redis_client <= a.created /\ a.batch_redis <= a.created
  /\ a.auth = a.postgres_engine /\ {a.audit, a.batch_engine} \subseteq {0, a.auth}
  /\ a.admission \in {0, a.redis_client}
  /\ a.admission = 0 => a.batch_redis = a.redis_client
  /\ a.batch_engine = 0 => a.batch_redis = 0

\* What is open is what app.state refers to, or that one client.
FirstClient(a, r) ==
  /\ r = [kind |-> "redis", id |-> a.batch_redis]
  /\ a.batch_redis # 0 /\ a.admission > a.batch_redis
VllmClient == [kind |-> "vllm", id |-> 0]
Known(a, r) ==
  \/ r = VllmClient
  \/ r = Engine(a) /\ a.postgres_engine # 0
  \/ r = Redis(a) /\ a.redis_client # 0
  \/ FirstClient(a, r)

\* The requests that have passed dispatch.
InFlight == {"auth"} \cup Inside

AppInv ==
  /\ AccessInv /\ Rows
  /\ Sound(app)
  /\ \A r \in open : Known(app, r) /\ (~app.ready => FirstClient(app, r))
  /\ \A r \in Requests : req[r].at \in InFlight => app.ready /\ app.auth # 0
  /\ \A c \in calls : c.key \in Scripts

\* A new engine takes the next number.
LEMMA EngineMade ==
  ASSUME NEW a \in AppStates
  PROVE  LET b == NewEngine(a) IN
         /\ b \in AppStates /\ b.postgres_engine = a.created + 1 /\ b.created = a.created + 1
         /\ b.redis_client = a.redis_client /\ b.ready = a.ready /\ b.auth = a.auth
         /\ b.audit = a.audit /\ b.batch_engine = a.batch_engine /\ b.batch_redis = a.batch_redis
         /\ b.admission = a.admission
<1> DEFINE c == [a EXCEPT !.created = @ + 1]
           b == [c EXCEPT !.postgres_engine = a.created + 1]
<1>1. /\ c \in AppStates /\ c.created = a.created + 1
      /\ c.redis_client = a.redis_client /\ c.ready = a.ready /\ c.auth = a.auth
      /\ c.audit = a.audit /\ c.batch_engine = a.batch_engine /\ c.batch_redis = a.batch_redis
      /\ c.admission = a.admission
  BY DEF AppStates
<1>2. NewEngine(a) = b /\ a.created + 1 \in Nat
  BY DEF NewEngine, Created, AppStates
<1> HIDE DEF c
<1>3. /\ b \in AppStates /\ b.postgres_engine = a.created + 1 /\ b.created = c.created
      /\ b.redis_client = c.redis_client /\ b.ready = c.ready /\ b.auth = c.auth
      /\ b.audit = c.audit /\ b.batch_engine = c.batch_engine /\ b.batch_redis = c.batch_redis
      /\ b.admission = c.admission
  BY <1>1, <1>2 DEF AppStates
<1> HIDE DEF b
<1>4. QED
  BY <1>1, <1>2, <1>3

\* A new client takes the next number.
LEMMA RedisMade ==
  ASSUME NEW a \in AppStates
  PROVE  LET b == NewRedis(a) IN
         /\ b \in AppStates /\ b.redis_client = a.created + 1 /\ b.created = a.created + 1
         /\ b.postgres_engine = a.postgres_engine /\ b.ready = a.ready /\ b.auth = a.auth
         /\ b.audit = a.audit /\ b.batch_engine = a.batch_engine /\ b.batch_redis = a.batch_redis
         /\ b.admission = a.admission
<1> DEFINE c == [a EXCEPT !.created = @ + 1]
           b == [c EXCEPT !.redis_client = a.created + 1]
<1>1. /\ c \in AppStates /\ c.created = a.created + 1
      /\ c.postgres_engine = a.postgres_engine /\ c.ready = a.ready /\ c.auth = a.auth
      /\ c.audit = a.audit /\ c.batch_engine = a.batch_engine /\ c.batch_redis = a.batch_redis
      /\ c.admission = a.admission
  BY DEF AppStates
<1>2. NewRedis(a) = b /\ a.created + 1 \in Nat
  BY DEF NewRedis, Created, AppStates
<1> HIDE DEF c
<1>3. /\ b \in AppStates /\ b.redis_client = a.created + 1 /\ b.created = c.created
      /\ b.postgres_engine = c.postgres_engine /\ b.ready = c.ready /\ b.auth = c.auth
      /\ b.audit = c.audit /\ b.batch_engine = c.batch_engine /\ b.batch_redis = c.batch_redis
      /\ b.admission = c.admission
  BY <1>1, <1>2 DEF AppStates
<1> HIDE DEF b
<1>4. QED
  BY <1>1, <1>2, <1>3

\* What a get-or-create leaves sound, and all that was known.
Grows(a, b) ==
  /\ Sound(b) /\ b.ready = a.ready /\ (a.auth # 0 => b.auth # 0)
  /\ a.created <= b.created
  /\ \A r : Known(a, r) => Known(b, r)

\* The first request of a process makes the engine, while nothing else refers to one.
LEMMA AuthGrows ==
  ASSUME NEW a, Sound(a)
  PROVE  Grows(a, WithAuth(a)) /\ WithAuth(a).auth # 0
<1>1. CASE a.auth # 0
  BY <1>1 DEF WithAuth, Grows, Sound, AppStates
<1>2. CASE a.auth = 0
  <2> DEFINE n == NewEngine(a)
             b == [n EXCEPT !.auth = n.postgres_engine]
  <2>0. a \in AppStates /\ a.created \in Nat
    BY DEF Sound, AppStates
  <2>1. /\ n \in AppStates /\ n.postgres_engine = a.created + 1 /\ n.created = a.created + 1
        /\ n.redis_client = a.redis_client /\ n.ready = a.ready
        /\ n.audit = a.audit /\ n.batch_engine = a.batch_engine /\ n.batch_redis = a.batch_redis
        /\ n.admission = a.admission
    BY <2>0, EngineMade
  <2>2. WithAuth(a) = b
    BY <1>2 DEF WithAuth
  <2> HIDE DEF n
  <2>3. /\ b \in AppStates /\ b.auth = n.postgres_engine
        /\ b.postgres_engine = n.postgres_engine /\ b.created = n.created
        /\ b.redis_client = n.redis_client /\ b.ready = n.ready
        /\ b.audit = n.audit /\ b.batch_engine = n.batch_engine /\ b.batch_redis = n.batch_redis
        /\ b.admission = n.admission
    BY <2>1 DEF AppStates
  <2> HIDE DEF b
  <2>4. Sound(b) /\ b.ready = a.ready /\ b.auth # 0 /\ a.created <= b.created
    BY <1>2, <2>0, <2>1, <2>3 DEF Sound, AppStates
  <2>5. \A r : Known(a, r) => Known(b, r)
    BY <1>2, <2>1, <2>3 DEF Known, Engine, Redis, FirstClient, Sound
  <2>6. QED
    BY <2>2, <2>4, <2>5 DEF Grows
<1>3. QED
  BY <1>1, <1>2

\* Admission makes a client of its own, and only a batch service can have had one.
LEMMA AdmissionGrows ==
  ASSUME NEW a, Sound(a)
  PROVE  Grows(a, WithAdmission(a))
<1>1. CASE a.admission # 0
  BY <1>1 DEF WithAdmission, Grows, Sound, AppStates
<1>2. CASE a.admission = 0
  <2> DEFINE n == NewRedis(a)
             b == [n EXCEPT !.admission = n.redis_client]
  <2>0. a \in AppStates /\ a.created \in Nat /\ a.batch_redis \in Nat
    BY DEF Sound, AppStates
  <2>1. /\ n \in AppStates /\ n.redis_client = a.created + 1 /\ n.created = a.created + 1
        /\ n.postgres_engine = a.postgres_engine /\ n.ready = a.ready /\ n.auth = a.auth
        /\ n.audit = a.audit /\ n.batch_engine = a.batch_engine /\ n.batch_redis = a.batch_redis
    BY <2>0, RedisMade
  <2>2. WithAdmission(a) = b
    BY <1>2 DEF WithAdmission
  <2> HIDE DEF n
  <2>3. /\ b \in AppStates /\ b.admission = n.redis_client
        /\ b.postgres_engine = n.postgres_engine /\ b.created = n.created
        /\ b.redis_client = n.redis_client /\ b.ready = n.ready /\ b.auth = n.auth
        /\ b.audit = n.audit /\ b.batch_engine = n.batch_engine /\ b.batch_redis = n.batch_redis
    BY <2>1 DEF AppStates
  <2> HIDE DEF b
  <2>4. Sound(b) /\ b.ready = a.ready /\ b.auth = a.auth /\ a.created <= b.created
    BY <1>2, <2>0, <2>1, <2>3 DEF Sound, AppStates
  <2>5. \A r : Known(a, r) => Known(b, r)
    BY <1>2, <2>0, <2>1, <2>3 DEF Known, Engine, Redis, FirstClient, Sound
  <2>6. QED
    BY <2>2, <2>4, <2>5 DEF Grows
<1>3. QED
  BY <1>1, <1>2

\* The audit service takes the engine that there is.
LEMMA AuditGrows ==
  ASSUME NEW a, Sound(a), a.auth # 0
  PROVE  Grows(a, WithAudit(a))
<1>1. CASE a.audit # 0
  BY <1>1 DEF WithAudit, Grows, Sound, AppStates
<1>2. CASE a.audit = 0
  <2> DEFINE b == [a EXCEPT !.audit = a.postgres_engine]
  <2>1. WithAudit(a) = b
    BY <1>2 DEF WithAudit, SharedEngine, Sound
  <2>2. /\ b \in AppStates /\ b.auth = a.auth /\ b.audit = a.postgres_engine
        /\ b.postgres_engine = a.postgres_engine /\ b.created = a.created
        /\ b.redis_client = a.redis_client /\ b.ready = a.ready
        /\ b.batch_engine = a.batch_engine /\ b.batch_redis = a.batch_redis
        /\ b.admission = a.admission
    BY DEF AppStates, Sound
  <2> HIDE DEF b
  <2>3. Sound(b) /\ a.created <= b.created
    BY <2>2 DEF Sound, AppStates
  <2>4. \A r : Known(a, r) => Known(b, r)
    BY <2>2 DEF Known, Engine, Redis, FirstClient
  <2>5. QED
    BY <2>1, <2>2, <2>3, <2>4 DEF Grows
<1>3. QED
  BY <1>1, <1>2

\* A batch service takes the engine that there is, and the client, or makes one.
LEMMA BatchGrows ==
  ASSUME NEW a, Sound(a), a.auth # 0
  PROVE  Grows(a, WithBatch(a))
<1>1. CASE a.batch_engine # 0
  BY <1>1 DEF WithBatch, Grows, Sound, AppStates
<1>2. CASE a.batch_engine = 0
  <2> DEFINE n == SharedRedis(a)
             m == [n EXCEPT !.batch_engine = n.postgres_engine]
             b == [m EXCEPT !.batch_redis = n.redis_client]
  <2>0. a \in AppStates /\ a.created \in Nat /\ a.redis_client \in Nat
    BY DEF Sound, AppStates
  <2>1. WithBatch(a) = b
    BY <1>2 DEF WithBatch, SharedEngine, Sound
  <2>2. /\ n \in AppStates /\ n.redis_client <= n.created /\ a.created <= n.created
        /\ n.redis_client # 0 /\ (a.redis_client # 0 => n.redis_client = a.redis_client)
        /\ n.postgres_engine = a.postgres_engine /\ n.ready = a.ready /\ n.auth = a.auth
        /\ n.audit = a.audit /\ n.admission = a.admission
    <3>1. CASE a.redis_client # 0
      BY <2>0, <3>1 DEF SharedRedis, Sound
    <3>2. CASE a.redis_client = 0
      BY <2>0, <3>2, RedisMade DEF SharedRedis
    <3>3. QED
      BY <3>1, <3>2
  <2> HIDE DEF n
  <2>3. /\ m \in AppStates /\ m.batch_engine = n.postgres_engine
        /\ m.postgres_engine = n.postgres_engine /\ m.created = n.created
        /\ m.redis_client = n.redis_client /\ m.ready = n.ready /\ m.auth = n.auth
        /\ m.audit = n.audit /\ m.admission = n.admission
    BY <2>2 DEF AppStates
  <2> HIDE DEF m
  <2>4. /\ b \in AppStates /\ b.batch_engine = m.batch_engine /\ b.batch_redis = n.redis_client
        /\ b.postgres_engine = m.postgres_engine /\ b.created = m.created
        /\ b.redis_client = m.redis_client /\ b.ready = m.ready /\ b.auth = m.auth
        /\ b.audit = m.audit /\ b.admission = m.admission
    BY <2>2, <2>3 DEF AppStates
  <2> HIDE DEF b
  <2>5. Sound(b) /\ b.ready = a.ready /\ b.auth = a.auth /\ a.created <= b.created
    BY <2>0, <2>2, <2>3, <2>4 DEF Sound, AppStates
  <2>6. \A r : Known(a, r) => Known(b, r)
    BY <1>2, <2>2, <2>3, <2>4 DEF Known, Engine, Redis, FirstClient, Sound
  <2>7. QED
    BY <2>1, <2>5, <2>6 DEF Grows
<1>3. QED
  BY <1>1, <1>2

\* What a get-or-create opens is known to the app.state it leaves.
LEMMA BecomesSound ==
  ASSUME AppInv, app.ready, NEW b, Grows(app, b), Becomes(b)
  PROVE  /\ Sound(app') /\ app'.ready /\ (app.auth # 0 => app'.auth # 0)
         /\ \A r \in open' : Known(app', r)
<1>1. app' = b /\ b.ready /\ app.created \in Nat /\ b \in AppStates
  BY DEF Becomes, Grows, AppInv, Sound, AppStates
<1>2. ASSUME NEW r \in open' PROVE Known(b, r)
  <2>1. CASE r \in open
    BY <2>1 DEF AppInv, Grows
  <2>2. CASE r \in {Engine(b), Redis(b)} /\ r.id > app.created
    BY <1>1, <2>2 DEF Known, Engine, Redis, AppStates
  <2>3. QED
    BY <2>1, <2>2 DEF Becomes
<1>3. QED
  BY <1>1, <1>2 DEF Grows

\* A request that dispatch refuses touches nothing, and any other finds an auth service.
LEMMA DispatchEnters ==
  ASSUME AccessInv, NEW r \in Requests, Dispatch(r)
  PROVE  \/ app' = app /\ open' = open /\ req'[r].at = "answered"
         \/ Becomes(WithAuth(app))
<1>1. PICK op \in Ops, key \in {k \in Scripts : issue[k].pc = "printed"} \cup {Missing, Unknown},
           model \in Models, job \in Requests : Asking(r, op, key, model, job)
  BY DispatchAsks
<1> DEFINE asked == AskedOf(req[r], op, key, model, job)
           gone  == [asked EXCEPT !.at = "answered"]
           q     == [gone EXCEPT !.code = "missing_api_key"]
<1>2. asked \in RequestOK
  <2>1. key \in Tokens /\ req[r] \in RequestOK
    BY DEF Tokens, AccessInv
  <2>2. QED
    BY <2>1, AskedRecord
<1>3. key = Missing => req' = [req EXCEPT ![r] = q] /\ app' = app /\ open' = open
  BY <1>1 DEF Asking
<1>4. key # Missing => Becomes(WithAuth(app))
  BY <1>1 DEF Asking
<1> HIDE DEF asked
<1>5. gone \in RequestOK /\ gone.at = "answered"
  BY <1>2 DEF RequestOK, Steps
<1> HIDE DEF gone
<1>6. q.at = "answered"
  BY <1>5 DEF RequestOK
<1> HIDE DEF q
<1>7. QED
  BY <1>3, <1>4, <1>6 DEF AccessInv

\* Each step of a request leaves app.state sound, and in flight there is a service.
LEMMA HandleSound ==
  ASSUME AppInv, NEW r \in Requests, Handle(r)
  PROVE  /\ Sound(app')
         /\ \A x \in open' : Known(app', x) /\ (~app'.ready => FirstClient(app', x))
         /\ req'[r].at \in InFlight => app'.ready /\ app'.auth # 0
         /\ app.ready /\ app.auth # 0 => app'.ready /\ app'.auth # 0
<1>0. AccessInv /\ Sound(app)
  BY DEF AppInv
<1>1. CASE app' = app /\ open' = open /\ req'[r].at = "answered"
  BY <1>1 DEF AppInv, InFlight, Inside
<1>2. CASE app.ready /\ Becomes(WithAuth(app))
  <2>1. Grows(app, WithAuth(app)) /\ app'.auth # 0
    BY <1>0, <1>2, AuthGrows DEF Becomes
  <2>2. QED
    BY <1>2, <2>1, BecomesSound
<1>3. CASE Dispatch(r)
  <2>1. app.ready
    BY <1>3 DEF Dispatch
  <2>2. QED
    BY <1>0, <1>1, <1>2, <1>3, <2>1, DispatchEnters
<1>4. CASE ~Dispatch(r)
  <2>1. req[r].at \in InFlight
    BY <1>4 DEF Handle, ReadKey, MarkUsed, DatabaseFails, RouteChat, Admit, CallModel, RouteSubmit,
       StoreJob, RouteJob, GetJob, CancelJob, At, InFlight, Inside
  <2>2. app.ready /\ app.auth # 0
    BY <2>1 DEF AppInv
  <2>3. CASE app' = app /\ open' = open
    BY <2>2, <2>3 DEF AppInv
  <2>4. CASE \/ Becomes(WithAdmission(app)) \/ Becomes(WithAudit(app)) \/ Becomes(WithBatch(app))
    <3>1. PICK b : Grows(app, b) /\ Becomes(b)
      BY <1>0, <2>2, <2>4, AdmissionGrows, AuditGrows, BatchGrows
    <3>2. QED
      BY <2>2, <3>1, BecomesSound
  <2>5. QED
    BY <1>4, <2>3, <2>4 DEF Handle, ReadKey, MarkUsed, DatabaseFails, RouteChat, Admit, CallModel,
       RouteSubmit, StoreJob, RouteJob, GetJob, CancelJob, appVars
<1>5. QED
  BY <1>3, <1>4

\* Calls are made with keys.
LEMMA CallsOfKeys ==
  ASSUME AppInv, [Next]_vars
  PROVE  \A c \in calls' : c.key \in Scripts
<1>0. \A c \in calls : c.key \in Scripts
  BY DEF AppInv
<1>1. ASSUME NEW r \in Requests, CallModel(r) PROVE \A c \in calls' : c.key \in Scripts
  <2>1. req[r].key \in Scripts
    BY <1>1 DEF CallModel, At, AppInv, AccessInv, Carries, Inside
  <2>2. QED
    BY <1>0, <1>1, <2>1 DEF CallModel
<1>2. ASSUME NEW j \in Requests, RunJob(j) PROVE \A c \in calls' : c.key \in Scripts
  <2>1. jobs[j].key \in Scripts
    BY <1>2 DEF RunJob, AppInv, AccessInv, JobsKept, JobCarries, MayRun
  <2>2. QED
    BY <1>0, <1>2, <2>1 DEF RunJob
<1>3. ASSUME NEW r \in Requests, Handle(r), ~CallModel(r) PROVE calls' = calls
  BY <1>3 DEF Handle, Dispatch, ReadKey, MarkUsed, DatabaseFails, RouteChat, Admit,
     RouteSubmit, StoreJob, RouteJob, GetJob, CancelJob, tables
<1>4. ASSUME NEW s \in Scripts, Script(s) \/ Revoke(s) \/ Expire(s) PROVE calls' = calls
  BY <1>4 DEF Script, Revoke, Expire, tables
<1>5. ASSUME NEW j \in Requests, FinishJob(j) PROVE calls' = calls
  BY <1>5 DEF FinishJob
<1>6. CASE Start \/ Stop \/ Crash \/ UNCHANGED vars
  BY <1>0, <1>6 DEF Start, Stop, Crash, vars, tables
<1>7. QED
  BY <1>0, <1>1, <1>2, <1>3, <1>4, <1>5, <1>6 DEF Next

\* A process starts with nothing, and shuts down what it knows but for that client.
LEMMA LifespanSound ==
  ASSUME Sound(app), \A x \in open : Known(app, x), StartUp \/ ShutDown
  PROVE  /\ Sound(app')
         /\ \A x \in open' : Known(app', x) /\ (~app'.ready => FirstClient(app', x))
<1>1. CASE StartUp
  <2>1. app' = [ready |-> TRUE, postgres_engine |-> 0, redis_client |-> 0, created |-> 0,
                auth |-> 0, audit |-> 0, batch_engine |-> 0, batch_redis |-> 0, admission |-> 0]
    BY <1>1 DEF StartUp, FreshState
  <2>2. Sound(app') /\ app'.ready
    BY <2>1 DEF Sound, AppStates
  <2>3. QED
    BY <1>1, <2>2 DEF StartUp, Known, VllmClient
<1>2. CASE ShutDown
  <2> DEFINE b == [app EXCEPT !.ready = FALSE]
  <2>1. app' = b
    BY <1>2 DEF ShutDown
  <2>2. /\ b \in AppStates /\ b.auth = app.auth /\ b.audit = app.audit
        /\ b.postgres_engine = app.postgres_engine /\ b.created = app.created
        /\ b.redis_client = app.redis_client /\ b.ready = FALSE
        /\ b.batch_engine = app.batch_engine /\ b.batch_redis = app.batch_redis
        /\ b.admission = app.admission
    BY DEF AppStates, Sound
  <2> HIDE DEF b
  <2>3. Sound(b)
    BY <2>2 DEF Sound
  <2>4. ASSUME NEW x \in open' PROVE FirstClient(b, x)
    <3>1. Known(app, x) /\ x \notin {VllmClient, Engine(app), Redis(app)}
      BY <1>2 DEF ShutDown, VllmClient
    <3>2. QED
      BY <2>2, <3>1 DEF Known, FirstClient
  <2>5. QED
    BY <2>1, <2>3, <2>4 DEF Known
<1>3. QED
  BY <1>1, <1>2

\* The state of a process that has not begun is sound.
LEMMA FreshSound == Sound(FreshState)
BY DEF Sound, FreshState, AppStates

\* No resource is open and no request is in flight initially.
LEMMA InitApp == Init => AppInv
<1> SUFFICES ASSUME Init PROVE AppInv
  OBVIOUS
<1>1. AccessInv /\ Rows /\ app = FreshState /\ open = {} /\ calls = {}
  BY InitAccess, InitOwned DEF Init, AppInit, OwnedInv
<1>2. \A r \in Requests : req[r].at = "client"
  BY DEF Init
<1>3. QED
  BY <1>1, <1>2, FreshSound DEF AppInv, InFlight, Inside

\* Every step keeps track of what is open.
LEMMA NextApp == AppInv /\ OwnedInv /\ [Next]_vars => AppInv'
<1> SUFFICES ASSUME AppInv, OwnedInv, [Next]_vars PROVE AppInv'
  OBVIOUS
<1>1. AccessInv' /\ Rows' /\ \A c \in calls' : c.key \in Scripts
  BY NextAccess, NextOwned, CallsOfKeys DEF AppInv, OwnedInv
<1> DEFINE State == /\ Sound(app')
                    /\ \A x \in open' : Known(app', x) /\ (~app'.ready => FirstClient(app', x))
           Flight == \A r \in Requests : req'[r].at \in InFlight => app'.ready /\ app'.auth # 0
<1>2. CASE app' = app /\ open' = open /\ req' = req
  BY <1>1, <1>2 DEF AppInv
<1>3. ASSUME NEW r \in Requests, Handle(r) PROVE State /\ Flight
  <2>1. \A x \in Requests \ {r} : req'[x] = req[x]
    BY <1>3, HandleGoes DEF AppInv, Goes
  <2>2. QED
    BY <1>3, <2>1, HandleSound DEF AppInv
<1>4. CASE Start \/ Stop
  <2>1. Sound(app) /\ (\A x \in open : Known(app, x)) /\ (StartUp \/ ShutDown) /\ req' = req
    BY <1>4 DEF Start, Stop, AppInv
  <2>2. \A r \in Requests : req[r].at \notin InFlight
    BY <1>4 DEF Start, Stop, StartUp, AppInv, InFlight, Inside
  <2>3. QED
    BY <1>1, <2>1, <2>2, LifespanSound DEF AppInv
<1>5. CASE Crash
  <2>1. ASSUME NEW r \in Requests PROVE req'[r].at \notin InFlight
    <3>1. req[r] \in RequestOK
      BY DEF AppInv, AccessInv
    <3>2. \/ req[r].at \in {"client", "answered"} /\ req'[r] = req[r]
          \/ req'[r] = [req[r] EXCEPT !.at = "answered", !.code = "lost"]
      BY <1>5 DEF Crash
    <3>3. req'[r].at \in {"client", "answered"}
      BY <3>1, <3>2 DEF RequestOK
    <3>4. QED
      BY <3>3 DEF InFlight, Inside
  <2>2. app' = FreshState /\ open' = {}
    BY <1>5 DEF Crash
  <2>3. QED
    BY <1>1, <2>1, <2>2, FreshSound DEF AppInv
<1>6. ASSUME NEW s \in Scripts, Script(s) \/ Revoke(s) \/ Expire(s)
      PROVE  app' = app /\ open' = open /\ req' = req
  BY <1>6 DEF Script, Revoke, Expire, appVars
<1>7. ASSUME NEW j \in Requests, RunJob(j) \/ FinishJob(j)
      PROVE  app' = app /\ open' = open /\ req' = req
  BY <1>7 DEF RunJob, FinishJob, appVars
<1>8. QED
  BY <1>1, <1>2, <1>3, <1>4, <1>5, <1>6, <1>7 DEF Next, vars, appVars, AppInv

\* Requests, rows and app.state have their shape, the services of a process share one
\* engine, /ready pings the client of admission, and no engine and at most one Redis
\* client outlive a shutdown, whatever the order in which the first requests come
\* (api/app.py, chat_completions.py, batch_jobs.py).
THEOREM Resources == Spec => []ResourcesKept
<1>1. ASSUME AppInv PROVE ResourcesKept
  <2>1. /\ IssueInv /\ req \in [Requests -> RequestOK] /\ jobs \in [Requests -> JobOK]
        /\ CallsAreAllowed /\ Rows /\ Sound(app) /\ app \in AppStates
    BY <1>1 DEF AppInv, AccessInv, JobsKept, Sound
  <2>2. \A r \in open : /\ r \in [kind : {"vllm", "engine", "redis"}, id : 0..app.created]
                        /\ ~app.ready => FirstClient(app, r)
    BY <1>1, <2>1 DEF AppInv, Known, FirstClient, VllmClient, Engine, Redis, Sound, AppStates
  <2>3. OneOfEach
    BY <2>1 DEF OneOfEach, Sound
  <2>4. OnlyTheFirstClientLeaks
    BY <2>2 DEF OnlyTheFirstClientLeaks, FirstClient
  <2>5. \A c \in calls : c.key \in Scripts /\ c.model \in Models
    BY <1>1, <2>1, AllowedAssumption DEF AppInv, CallsAreAllowed
  <2>6. \A r \in Requests :
          /\ req[r].at \in Steps /\ req[r].op \in Ops
          /\ req[r].key \in Scripts \cup {Missing, Unknown}
          /\ jobs[r].status \in Terminal \cup {"none", "queued", "running"}
    BY <2>1 DEF RequestOK, JobOK, Tokens
  <2>7. /\ users \subseteq [id : Scripts, email : {a.email : a \in AllAsked}]
        /\ projects \subseteq [id : Scripts, user : Scripts, name : {a.project : a \in AllAsked}]
        /\ keys \in [Scripts -> KeyRows]
    BY <2>1 DEF Rows, IssueInv
  <2>8. TypeOK
    BY <2>1, <2>2, <2>5, <2>6, <2>7 DEF TypeOK, KeyRows, AppStates
  <2>9. QED
    BY <2>3, <2>4, <2>8 DEF ResourcesKept
<1>2. AppInv /\ OwnedInv /\ [Next]_vars => (AppInv /\ OwnedInv)'
  BY NextApp, NextOwned
<1>3. Init => AppInv /\ OwnedInv
  BY InitApp, InitOwned
<1>4. QED
  BY <1>1, <1>2, <1>3, PTL DEF Spec
=============================================================================
