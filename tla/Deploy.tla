------------------------------- MODULE Deploy -------------------------------
(***************************************************************************)
(* infra/vast/deploy-release.sh, on the host of Runtime.  The workflow     *)
(* keeps the deploys of one git ref apart, so two refs may deploy at once, *)
(* and the same commit may be deployed again.  Any command may fail, which *)
(* ends the script where it stands; nothing is switched back.              *)
(***************************************************************************)
EXTENDS Runtime, SequencesExt

CONSTANTS Refs,        \* the git refs with a deploy workflow
          Schema,      \* the last migration each release brings
          Keep         \* KEEP_RELEASES

ASSUME DeployAssumption ==
  /\ Schema \in [Releases -> Nat] /\ Keep \in Nat \ {0}

VARIABLES
  current,   \* what the current link points to
  order,     \* the release directories, the one changed last at the end
  schema,    \* the last migration applied to the database
  run,       \* each ref's script: its step, its release id, and its locals
  pointer,   \* history: whose script switched current last
  linker,    \* history: whose script switched app last
  outlived   \* history: whose last stop of supervisord left it up

history == <<pointer, linker, outlived>>
vars == <<runtimeVars, current, order, schema, run, history>>

Idle == [at |-> "idle", id |-> Nothing, active |-> Nothing, victims |-> {}]
Ended == {"idle", "failed", "done"}

\* A host with nothing on it, or one that runs its first release.
Init ==
  /\ prog = AllOff /\ loaded = Nothing /\ orphan = Nothing /\ strays = {} /\ events = 0
  /\ pointer = Nothing /\ linker = Nothing /\ outlived = {}
  /\ run = [d \in Refs |-> Idle]
  /\ \/ /\ dirs = [r \in Releases |-> "none"] /\ order = <<>> /\ schema = 0 /\ sup = "none"
        /\ app = Nothing /\ current = Nothing
     \/ \E r \in Releases :
          /\ dirs = [q \in Releases |-> IF q = r THEN "whole" ELSE "none"]
          /\ order = <<r>> /\ schema = Schema[r] /\ sup = "up"
          /\ app = r /\ current = r

At(d, step) == run[d].at = step
Go(d, step) == run' = [run EXCEPT ![d].at = step]

-----------------------------------------------------------------------------
Begin(d) ==
  /\ run[d].at \in Ended /\ events < MaxEvents
  /\ events' = events + 1
  /\ \E r \in Releases : run' = [run EXCEPT ![d] = [Idle EXCEPT !.at = "clear", !.id = r]]
  /\ UNCHANGED <<dirs, app, sup, prog, loaded, orphan, strays, current, order, schema, history>>

\* extract_release: rm -rf what the id has, and a new directory.
Clear(d) ==
  LET r == run[d].id IN
  /\ At(d, "clear")
  /\ dirs' = [dirs EXCEPT ![r] = "partial"]
  /\ order' = Append(Remove(order, r), r)
  /\ Go(d, "unpack")
  /\ UNCHANGED <<app, current, schema, hostVars, history>>

\* The archive, the environment file, and uv sync, which puts .venv beside them.
Unpack(d) ==
  LET r == run[d].id IN
  /\ At(d, "unpack") /\ dirs[r] # "none"
  /\ dirs' = [dirs EXCEPT ![r] = "whole"]
  /\ order' = Append(Remove(order, r), r)
  /\ Go(d, "migrate")
  /\ UNCHANGED <<app, current, schema, hostVars, history>>

\* A migration that fails is passed over.
MutMigrate(d) ==
  /\ At(d, "migrate") /\ Whole(run[d].id)
  /\ Go(d, "current")
  /\ UNCHANGED <<dirs, app, current, order, schema, hostVars, history>>

\* alembic upgrade head, in the release's directory; it fails in a database whose
\* revision the release does not know.
Migrate(d) ==
  /\ At(d, "migrate")
  /\ Whole(run[d].id) /\ schema <= Schema[run[d].id]
  /\ schema' = Schema[run[d].id]
  /\ Go(d, "current")
  /\ UNCHANGED <<dirs, app, current, order, hostVars, history>>

\* activate_release, one link after the other.
LinkCurrent(d) ==
  /\ At(d, "current")
  /\ current' = run[d].id /\ pointer' = d
  /\ Go(d, "app")
  /\ UNCHANGED <<dirs, app, order, schema, hostVars, linker, outlived>>

\* What runs is not stopped.
MutLinkApp(d) ==
  /\ At(d, "app")
  /\ app' = run[d].id /\ linker' = d
  /\ Go(d, "start")
  /\ UNCHANGED <<dirs, current, order, schema, hostVars, pointer, outlived>>

LinkApp(d) ==
  /\ At(d, "app")
  /\ app' = run[d].id /\ linker' = d
  /\ Go(d, "stop")
  /\ UNCHANGED <<dirs, current, order, schema, hostVars, pointer, outlived>>

\* stop_supervisor: ask it to shut down, which may fail; wait 30 s for its
\* socket to go, and send TERM to one that is still there, which may fail too.
StopSupervisor(d) ==
  /\ At(d, "stop")
  /\ sup' \in IF sup = "up" THEN {"up", "stopping"} ELSE {sup}
  /\ Go(d, "await")
  /\ UNCHANGED <<dirs, app, current, order, schema, prog, loaded, orphan, strays, events, history>>

AwaitStop(d) ==
  /\ At(d, "await")
  /\ sup' \in IF sup = "up" THEN {"up", "stopping"} ELSE {sup}
  /\ outlived' = IF sup' = "up" THEN outlived \cup {d} ELSE outlived \ {d}
  /\ Go(d, "port")
  /\ UNCHANGED <<dirs, app, current, order, schema, prog, loaded, orphan, strays, events, pointer, linker>>

\* stop_port_listener: fuser -k, and a warning when the port still answers.
StopListener(d) ==
  /\ At(d, "port")
  /\ prog' = IF prog["api"] = "up" THEN [prog EXCEPT !["api"] = "off"] ELSE prog
  /\ orphan' \in {orphan, Nothing}
  /\ Go(d, "start")
  /\ UNCHANGED <<dirs, app, current, order, schema, sup, loaded, strays, events, history>>

\* start_supervisor and startup.sh: a second supervisord finds the socket
\* taken and goes; the script only looks whether there is a socket.
StartSupervisor(d) ==
  /\ At(d, "start")
  /\ sup' = IF sup = "none" /\ Whole(app) THEN "up" ELSE sup
  /\ Go(d, "health")
  /\ UNCHANGED <<dirs, app, current, order, schema, prog, loaded, orphan, strays, events, history>>

\* wait_for_health: whoever has the port may answer.
HealthPasses(d) ==
  /\ At(d, "health") /\ Listener # Nothing
  /\ Go(d, "scan")
  /\ UNCHANGED <<dirs, app, current, order, schema, hostVars, history>>

HealthTimesOut(d) ==
  /\ At(d, "health") /\ Listener = Nothing
  /\ Go(d, "failed")
  /\ UNCHANGED <<dirs, app, current, order, schema, hostVars, history>>

\* cleanup_old_releases: read the current link and list the directories, then
\* remove them one by one.
Scan(d) ==
  /\ At(d, "scan")
  /\ run' = [run EXCEPT ![d].at = "remove", ![d].active = current,
                        ![d].victims = {order[i] : i \in 1..(Len(order) - Keep)}]
  /\ UNCHANGED <<dirs, app, current, order, schema, hostVars, history>>

\* The current link is read and not compared with.
MutRemoveOne(d) ==
  /\ At(d, "remove")
  /\ \E r \in run[d].victims :
       /\ run' = [run EXCEPT ![d].victims = @ \ {r}]
       /\ dirs' = [dirs EXCEPT ![r] = "none"] /\ order' = Remove(order, r)
  /\ UNCHANGED <<app, current, schema, hostVars, history>>

RemoveOne(d) ==
  /\ At(d, "remove")
  /\ \E r \in run[d].victims :
       /\ run' = [run EXCEPT ![d].victims = @ \ {r}]
       /\ IF r = run[d].active THEN UNCHANGED <<dirs, order>>
          ELSE dirs' = [dirs EXCEPT ![r] = "none"] /\ order' = Remove(order, r)
  /\ UNCHANGED <<app, current, schema, hostVars, history>>

Finish(d) ==
  /\ At(d, "remove") /\ run[d].victims = {}
  /\ Go(d, "done")
  /\ UNCHANGED <<dirs, app, current, order, schema, hostVars, history>>

\* A command fails under set -e; the health loop catches what curl does.
CommandFails(d) ==
  /\ run[d].at \notin Ended \cup {"health"}
  /\ Go(d, "failed")
  /\ UNCHANGED <<dirs, app, current, order, schema, hostVars, history>>

\* The workflow is cancelled, or its connection to the host breaks.
Cancel(d) ==
  /\ At(d, "health")
  /\ Go(d, "failed")
  /\ UNCHANGED <<dirs, app, current, order, schema, hostVars, history>>

-----------------------------------------------------------------------------
Step(d) ==
  \/ Clear(d) \/ Unpack(d) \/ Migrate(d) \/ LinkCurrent(d) \/ LinkApp(d)
  \/ StopSupervisor(d) \/ AwaitStop(d) \/ StopListener(d) \/ StartSupervisor(d)
  \/ HealthPasses(d) \/ HealthTimesOut(d) \/ Scan(d) \/ RemoveOne(d) \/ Finish(d)

Script == UNCHANGED <<current, order, schema, run, history>>

\* The bounds are reached, and nothing more moves.
Finished ==
  /\ \A d \in Refs : run[d].at \in Ended
  /\ events = MaxEvents
  /\ UNCHANGED vars

Next ==
  \/ \E d \in Refs : Begin(d) \/ Step(d) \/ CommandFails(d) \/ Cancel(d)
  \/ (Advance \/ Mishap) /\ Script
  \/ Finished

Spec == Init /\ [][Next]_vars

\* supervisord and its programs go on; nothing obliges a deploy to begin or to go
\* on, or a program to die.
FairSpec ==
  /\ Spec
  /\ \A p \in Programs : WF_vars(Spawn(p) /\ Script)
  /\ WF_vars(((\E p \in Programs : StopProgram(p)) \/ SupervisorGone) /\ Script)
  /\ WF_vars(VllmReady /\ Script) /\ WF_vars(ApiReady /\ Script)
  /\ WF_vars(TunnelReady /\ Script)

-----------------------------------------------------------------------------
\* Code never serves on a database that lacks its migration: whatever deploys
\* interleave or fail, and whatever supervisord restarts meanwhile, the API
\* that has the port comes from a release whose migrations were applied.
SchemaServed ==
  Listener # Nothing => Schema[Listener] <= schema

\* A health check that passes was answered by the release deployed, unless
\* another deploy has switched /app since, be it back to the same release, the
\* supervisord that ran before outlived both attempts to stop it, or the
\* answer is no child's of a supervisord that is up: an orphan that fuser
\* left or that came after it, or the API of a supervisord that is still
\* stopping, which may get the port after the port was cleared.
HealthVouches ==
  [][\A d \in Refs :
       At(d, "health") /\ run'[d].at = "scan" =>
         \/ Listener = run[d].id
         \/ linker # d
         \/ d \in outlived
         \/ orphan # Nothing \/ sup = "stopping"]_vars

\* The cleanup of a deploy whose two links are still the last ones set never
\* removes the directory /app points to, whatever was unpacked, linked or cleaned
\* up between its links, its reading of current and its last rm.  Only a deploy
\* of the same id, or a cleanup that another deploy has overtaken, does.
ServedSurvivesCleanup ==
  [][Whole(app) /\ dirs'[app] # "whole" =>
       \E d \in Refs : \/ At(d, "clear") /\ run[d].id = app
                       \/ At(d, "remove") /\ ~(pointer = d /\ linker = d)]_vars

\* A supervisord that stays up, with nothing FATAL and the API's port free,
\* gets the tunnel up, however often the tunnel's wait is shorter than vLLM's
\* and the API's start.
TunnelFollows ==
  <>[](sup = "up" /\ orphan = Nothing /\ Whole(loaded) /\ \A p \in Programs : prog[p] # "fatal")
    => <>[](prog["tunnel"] = "up")
=============================================================================
