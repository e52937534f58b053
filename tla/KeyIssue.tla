------------------------------ MODULE KeyIssue ------------------------------
(***************************************************************************)
(* scripts/create_api_key.py, run by several operators at once against one *)
(* PostgreSQL: find or create a user by e-mail and a project by name in    *)
(* one transaction, or take the ids given, then insert the key in a second *)
(* transaction.  A row is named by the script that inserted it, and a key  *)
(* by the script that printed it.                                          *)
(*                                                                         *)
(* Transactions run at READ COMMITTED: a SELECT sees the committed rows,   *)
(* and an INSERT into the unique index on users.email waits for another    *)
(* transaction's uncommitted row with that e-mail.                         *)
(***************************************************************************)
EXTENDS Naturals, FiniteSets

CONSTANTS Scripts,   \* the runs of the script
          Asked,     \* what each may be asked for: a set of [email, project]
          ByIds      \* the scripts given --user-id and --project-id instead

ASSUME ScriptsAssumption == ByIds \subseteq Scripts /\ "nobody" \notin Scripts

VARIABLES
  users,     \* committed rows of users: [id, email]
  projects,  \* committed rows of projects: [id, user, name]
  issue,     \* where each script is, and what it has found so far
  keys       \* committed rows of api_keys, by the script that made them

issueVars == <<users, projects, issue, keys>>

Nobody == "nobody"
NoKeyRow == [user |-> Nobody, project |-> Nobody, revoked |-> FALSE, expired |-> FALSE]

IssueInit ==
  /\ users = {} /\ projects = {}
  /\ \E ask \in [Scripts \ ByIds -> UNION {Asked[s] : s \in Scripts}] :
       /\ \A s \in Scripts \ ByIds : ask[s] \in Asked[s]
       /\ issue = [s \in Scripts |->
            [pc |-> IF s \in ByIds THEN "ids" ELSE "user",
             ask |-> IF s \in ByIds THEN [email |-> Nobody, project |-> Nobody] ELSE ask[s],
             user |-> Nobody, project |-> Nobody, saw |-> {}]]
  /\ keys = [s \in Scripts |-> NoKeyRow]

Go(s, pc)   == issue' = [issue EXCEPT ![s].pc = pc]
Issued(k)   == keys[k].user # Nobody
\* Without the user: another user's project of the same name will do.
MutMatching(s) == {p \in projects : p.name = issue[s].ask.project}
Matching(s) == {p \in projects : p.user = issue[s].user /\ p.name = issue[s].ask.project}

-----------------------------------------------------------------------------
\* select(User).where(User.email == ...)
LookUpUser(s) ==
  /\ issue[s].pc = "user"
  /\ \/ \E u \in users :
          /\ u.email = issue[s].ask.email
          /\ issue' = [issue EXCEPT ![s].pc = "project", ![s].user = u.id]
     \/ /\ ~\E u \in users : u.email = issue[s].ask.email
        /\ Go(s, "new_user")
  /\ UNCHANGED <<users, projects, keys>>

HoldsEmail(t, email) ==
  issue[t].user = t /\ issue[t].ask.email = email /\ issue[t].pc \in {"project", "commit"}

\* session.add(user) and flush: the unique index makes the script wait, or
\* fail with an IntegrityError that rolls its transaction back.
InsertUser(s) ==
  /\ issue[s].pc = "new_user"
  /\ ~\E t \in Scripts : HoldsEmail(t, issue[s].ask.email)
  /\ IF \E u \in users : u.email = issue[s].ask.email
     THEN Go(s, "failed")
     ELSE issue' = [issue EXCEPT ![s].pc = "project", ![s].user = s]
  /\ UNCHANGED <<users, projects, keys>>

\* Neither column of projects is unique: scalar_one_or_none raises when the
\* select meets two rows.
LookUpProject(s) ==
  /\ issue[s].pc = "project"
  /\ \/ /\ Cardinality(Matching(s)) > 1
        /\ Go(s, "failed")
     \/ \E p \in Matching(s) :
          /\ Cardinality(Matching(s)) = 1
          /\ issue' = [issue EXCEPT ![s].pc = "commit", ![s].project = p.id]
     \/ /\ Matching(s) = {}
        /\ issue' = [issue EXCEPT ![s].pc = "commit", ![s].project = s, ![s].saw = projects]
  /\ UNCHANGED <<users, projects, keys>>

CommitOwner(s) ==
  /\ issue[s].pc = "commit"
  /\ users' = users \cup {u \in {[id |-> s, email |-> issue[s].ask.email]} : issue[s].user = s}
  /\ projects' = projects \cup
       {p \in {[id |-> s, user |-> issue[s].user, name |-> issue[s].ask.project]} :
          issue[s].project = s}
  /\ Go(s, "key")
  /\ UNCHANGED keys

\* --user-id and --project-id are taken as they are.
TakeIds(s) ==
  /\ issue[s].pc = "ids"
  /\ \E user, project \in Scripts :
       issue' = [issue EXCEPT ![s].pc = "key", ![s].user = user, ![s].project = project]
  /\ UNCHANGED <<users, projects, keys>>

\* create_api_key's own transaction; two foreign keys, and nothing that ties
\* the project to the user.
CreateKey(s) ==
  /\ issue[s].pc = "key"
  /\ IF (\E u \in users : u.id = issue[s].user) /\ (\E p \in projects : p.id = issue[s].project)
     THEN /\ keys' = [keys EXCEPT ![s] = [user |-> issue[s].user, project |-> issue[s].project,
                                         revoked |-> FALSE, expired |-> FALSE]]
          /\ Go(s, "printed")
     ELSE Go(s, "failed") /\ UNCHANGED keys
  /\ UNCHANGED <<users, projects>>

\* The script is killed, or PostgreSQL is lost: what is not committed is gone.
AbortScript(s) ==
  /\ issue[s].pc \notin {"printed", "failed"}
  /\ Go(s, "failed")
  /\ UNCHANGED <<users, projects, keys>>

IssueStep(s) ==
  LookUpUser(s) \/ InsertUser(s) \/ LookUpProject(s) \/ CommitOwner(s) \/ TakeIds(s) \/ CreateKey(s)

-----------------------------------------------------------------------------
\* Two projects of one user and one name come only from scripts that each
\* looked before the other had committed, and every key given by e-mail
\* belongs to that e-mail's user and to a project of that user and name.
TwinsAreRaces ==
  /\ \A p, q \in projects :
       p.id # q.id /\ p.user = q.user /\ p.name = q.name => p \notin issue[q.id].saw
  /\ \A s \in Scripts \ ByIds : Issued(s) =>
       \E u \in users, p \in projects :
         /\ u.id = keys[s].user /\ u.email = issue[s].ask.email
         /\ p.id = keys[s].project /\ p.user = u.id /\ p.name = issue[s].ask.project

IssueOver == \A s \in Scripts : issue[s].pc \in {"printed", "failed"}
=============================================================================
