---------------------------- MODULE DeployProofs ----------------------------
(***************************************************************************)
(* Theorems about Deploy: for any refs, releases and schemas, any number   *)
(* of deploys at once and any number of deaths.                            *)
(***************************************************************************)
EXTENDS Deploy, TLAPS

(***************************************************************************)
(* The scripts                                                             *)
(***************************************************************************)
\* A script's step and locals.
Locals(at, id, active, victims) ==
  [at |-> at, id |-> id, active |-> active, victims |-> victims]

\* Every ref has a script with these fields, whatever is in them.
Fields(R) == R = [d \in Refs |-> Locals(R[d].at, R[d].id, R[d].active, R[d].victims)]
Shaped == Fields(run)

\* S is R with p for the script of d.
Replaces(S, R, d, p) == S = [R EXCEPT ![d] = p]

\* A field of a script is set, and the others stay.
LEMMA LocalsSet ==
  ASSUME NEW p, NEW at, NEW id, NEW active, NEW victims, p = Locals(at, id, active, victims), NEW v
  PROVE  /\ [p EXCEPT !.at = v] = Locals(v, id, active, victims)
         /\ [p EXCEPT !.active = v] = Locals(at, id, v, victims)
         /\ [p EXCEPT !.victims = v] = Locals(at, id, active, v)
         /\ p.at = at /\ p.id = id /\ p.active = active /\ p.victims = victims
BY DEF Locals

\* One script is replaced, and the others stay.
LEMMA FieldsSet ==
  ASSUME NEW R, Fields(R), NEW S, NEW d \in Refs, NEW p, Replaces(S, R, d, p),
         NEW at, NEW id, NEW active, NEW victims, p = Locals(at, id, active, victims)
  PROVE  /\ Fields(S)
         /\ \A e \in Refs : /\ S[e].at = (IF e = d THEN at ELSE R[e].at)
                            /\ S[e].id = (IF e = d THEN id ELSE R[e].id)
                            /\ S[e].active = (IF e = d THEN active ELSE R[e].active)
<1>1. /\ DOMAIN R = Refs
      /\ \A e \in Refs : R[e] = Locals(R[e].at, R[e].id, R[e].active, R[e].victims)
  BY DEF Fields
<1>2. S = [e \in Refs |-> IF e = d THEN p ELSE R[e]]
  BY <1>1 DEF Replaces
<1>3. p.at = at /\ p.id = id /\ p.active = active /\ p.victims = victims
  BY LocalsSet
<1>4. \A e \in Refs : S[e] = IF e = d THEN p ELSE R[e]
  BY <1>2
<1>5. \A e \in Refs : S[e] = Locals(S[e].at, S[e].id, S[e].active, S[e].victims)
  <2>1. S[d] = p /\ p = Locals(p.at, p.id, p.active, p.victims)
    BY <1>3, <1>4
  <2>2. ASSUME NEW e \in Refs, e # d
        PROVE  S[e] = Locals(S[e].at, S[e].id, S[e].active, S[e].victims)
    <3>1. S[e] = R[e]
      BY <1>4, <2>2
    <3>2. QED
      BY <1>1, <3>1
  <2>3. QED
    BY <2>1, <2>2
<1>6. S = [e \in Refs |-> S[e]]
  BY <1>2
<1>7. Fields(S)
  BY <1>5, <1>6 DEF Fields
<1>8. QED
  BY <1>3, <1>4, <1>7

\* A script begins with its first step and a release.
LEMMA BeginReplaces ==
  ASSUME NEW d \in Refs, Begin(d)
  PROVE  \E r \in Releases : Replaces(run', run, d, Locals("clear", r, Nothing, {}))
<1>1. PICK r \in Releases : run' = [run EXCEPT ![d] = [Idle EXCEPT !.at = "clear", !.id = r]]
  BY DEF Begin
<1>2. [Idle EXCEPT !.at = "clear", !.id = r] = Locals("clear", r, Nothing, {})
  <2> DEFINE x == [Idle EXCEPT !.at = "clear"]
  <2>1. [Idle EXCEPT !.at = "clear", !.id = r] = [x EXCEPT !.id = r]
    OBVIOUS
  <2>2. x = [at |-> "clear", id |-> Nothing, active |-> Nothing, victims |-> {}]
    BY DEF Idle
  <2> HIDE DEF x
  <2>3. [x EXCEPT !.id = r] = Locals("clear", r, Nothing, {})
    BY <2>2 DEF Locals
  <2>4. QED
    BY <2>1, <2>3
<1>3. Replaces(run', run, d, Locals("clear", r, Nothing, {}))
  BY <1>1, <1>2 DEF Replaces
<1>4. QED
  BY <1>3

\* A script that begins starts over with the release it was given.
LEMMA BeginShape ==
  ASSUME Shaped, NEW d \in Refs, NEW r, Replaces(run', run, d, Locals("clear", r, Nothing, {}))
  PROVE  /\ Shaped'
         /\ \A e \in Refs : /\ run'[e].at = (IF e = d THEN "clear" ELSE run[e].at)
                            /\ run'[e].id = (IF e = d THEN r ELSE run[e].id)
                            /\ run'[e].active = (IF e = d THEN Nothing ELSE run[e].active)
<1> DEFINE p == Locals("clear", r, Nothing, {})
           R == run
           S == run'
<1>1. Fields(R) /\ Replaces(S, R, d, p) /\ p = Locals("clear", r, Nothing, {})
  BY DEF Shaped
<1> HIDE DEF p, R, S
<1>2. Fields(S) /\ \A e \in Refs : /\ S[e].at = (IF e = d THEN "clear" ELSE R[e].at)
                                  /\ S[e].id = (IF e = d THEN r ELSE R[e].id)
                                  /\ S[e].active = (IF e = d THEN Nothing ELSE R[e].active)
  BY <1>1, FieldsSet
<1>3. QED
  BY <1>2 DEF R, S, Shaped, Fields

\* A script that moves on keeps its release, and the other scripts stay.
LEMMA GoShape ==
  ASSUME Shaped, NEW d \in Refs, NEW step, Go(d, step)
  PROVE  /\ Shaped'
         /\ \A e \in Refs : /\ run'[e].at = (IF e = d THEN step ELSE run[e].at)
                            /\ run'[e].id = run[e].id
                            /\ run'[e].active = run[e].active
<1> DEFINE q == run[d]
           p == [q EXCEPT !.at = step]
           R == run
           S == run'
<1>1. Fields(R) /\ q = R[d] /\ q = Locals(q.at, q.id, q.active, q.victims)
  BY DEF Shaped, Fields
<1>2. Replaces(S, R, d, p)
  BY DEF Go, Replaces
<1> HIDE DEF q
<1>3. p = Locals(step, q.id, q.active, q.victims)
  BY <1>1, LocalsSet
<1> HIDE DEF p, R, S
<1>4. Fields(S) /\ \A e \in Refs : /\ S[e].at = (IF e = d THEN step ELSE R[e].at)
                                  /\ S[e].id = (IF e = d THEN q.id ELSE R[e].id)
                                  /\ S[e].active = (IF e = d THEN q.active ELSE R[e].active)
  BY <1>1, <1>2, <1>3, FieldsSet
<1>5. \A e \in Refs : /\ S[e].at = (IF e = d THEN step ELSE R[e].at)
                     /\ S[e].id = R[e].id /\ S[e].active = R[e].active
  BY <1>1, <1>4
<1>6. QED
  BY <1>4, <1>5 DEF R, S, Shaped, Fields

\* The script of d has noted what is active and what it will remove.
Notes(d, active, gone) ==
  run' = [run EXCEPT ![d].at = "remove", ![d].active = active, ![d].victims = gone]

\* So does one that notes what it will remove.
LEMMA ScanShape ==
  ASSUME Shaped, NEW d \in Refs, NEW active, NEW gone, Notes(d, active, gone)
  PROVE  /\ Shaped'
         /\ \A e \in Refs : /\ run'[e].at = (IF e = d THEN "remove" ELSE run[e].at)
                            /\ run'[e].id = run[e].id
                            /\ run'[e].active = (IF e = d THEN active ELSE run[e].active)
<1> DEFINE q == run[d]
           x == [q EXCEPT !.at = "remove"]
           y == [x EXCEPT !.active = active]
           p == [y EXCEPT !.victims = gone]
           R == run
           S == run'
<1>1. Fields(R) /\ q = R[d] /\ q = Locals(q.at, q.id, q.active, q.victims) /\ DOMAIN R = Refs
  BY DEF Shaped, Fields
<1>2. Replaces(S, R, d, p)
  BY <1>1 DEF Replaces, Notes
<1> HIDE DEF q
<1>3. x = Locals("remove", q.id, q.active, q.victims)
  BY <1>1, LocalsSet
<1> HIDE DEF x
<1>4. y = Locals("remove", q.id, active, q.victims)
  BY <1>3, LocalsSet
<1> HIDE DEF y
<1>5. p = Locals("remove", q.id, active, gone)
  BY <1>4, LocalsSet
<1> HIDE DEF p, R, S
<1>6. Fields(S) /\ \A e \in Refs : /\ S[e].at = (IF e = d THEN "remove" ELSE R[e].at)
                                  /\ S[e].id = (IF e = d THEN q.id ELSE R[e].id)
                                  /\ S[e].active = (IF e = d THEN active ELSE R[e].active)
  BY <1>1, <1>2, <1>5, FieldsSet
<1>7. \A e \in Refs : /\ S[e].at = (IF e = d THEN "remove" ELSE R[e].at)
                     /\ S[e].id = R[e].id
                     /\ S[e].active = (IF e = d THEN active ELSE R[e].active)
  BY <1>1, <1>6
<1>8. QED
  BY <1>6, <1>7 DEF R, S, Shaped, Fields

\* So does one that has removed a directory.
LEMMA RemoveShape ==
  ASSUME Shaped, NEW d \in Refs, NEW gone,
         run' = [run EXCEPT ![d].victims = gone]
  PROVE  /\ Shaped'
         /\ \A e \in Refs : /\ run'[e].at = run[e].at
                            /\ run'[e].id = run[e].id
                            /\ run'[e].active = run[e].active
<1> DEFINE q == run[d]
           p == [q EXCEPT !.victims = gone]
           R == run
           S == run'
<1>1. Fields(R) /\ q = R[d] /\ q = Locals(q.at, q.id, q.active, q.victims)
  BY DEF Shaped, Fields
<1>2. Replaces(S, R, d, p)
  BY DEF Replaces
<1> HIDE DEF q
<1>3. p = Locals(q.at, q.id, q.active, gone)
  BY <1>1, LocalsSet
<1> HIDE DEF p, R, S
<1>4. Fields(S) /\ \A e \in Refs : /\ S[e].at = (IF e = d THEN q.at ELSE R[e].at)
                                  /\ S[e].id = (IF e = d THEN q.id ELSE R[e].id)
                                  /\ S[e].active = (IF e = d THEN q.active ELSE R[e].active)
  BY <1>1, <1>2, <1>3, FieldsSet
<1>5. Fields(S) /\ \A e \in Refs : /\ S[e].at = R[e].at
                                  /\ S[e].id = R[e].id
                                  /\ S[e].active = R[e].active
  BY <1>1, <1>4
<1>6. QED
  BY <1>5 DEF R, S, Shaped, Fields

(***************************************************************************)
(* The schema                                                              *)
(***************************************************************************)
\* The steps of a script that come after its migration.
Migrated == {"current", "app", "stop", "await", "port", "start", "health", "scan", "remove"}

\* A release whose migrations the database has.
Served(r) == r \in Releases => Schema[r] <= schema

\* The inductive invariant: the database has the migrations of every release a
\* script means to link, and of whatever is linked, loaded or left running.  The
\* property alone says nothing of the link that the next restart follows.
SchemaInv ==
  /\ schema \in Nat
  /\ Shaped
  /\ \A d \in Refs : run[d].id \in Releases \cup {Nothing}
  /\ Served(app) /\ Served(loaded) /\ Served(orphan)
  /\ \A r \in strays : Served(r)
  /\ \A d \in Refs : run[d].at \in Migrated => Served(run[d].id)
  /\ {app, loaded, orphan} \cup strays \subseteq Releases \cup {Nothing}

\* A host that is fresh, or runs its first release.
LEMMA InitSchema == Init => SchemaInv
<1> SUFFICES ASSUME Init PROVE SchemaInv
  OBVIOUS
<1>1. Shaped /\ \A d \in Refs : run[d].id = Nothing /\ run[d].at \notin Migrated
  BY DEF Init, Shaped, Fields, Locals, Idle, Migrated
<1>2. schema \in Nat /\ Served(app)
  BY DeployAssumption, RuntimeAssumption DEF Init, Served
<1>3. QED
  BY <1>1, <1>2, RuntimeAssumption DEF Init, SchemaInv, Served

\* A step that leaves the database and what runs alone, takes a script to a step after
\* its migration only from such a step, and links at most what that script migrated.
Quiet(d, step) ==
  /\ step \in Migrated => run[d].at \in Migrated
  /\ app' = app \/ (app' = run[d].id /\ run[d].at \in Migrated)
  /\ schema' = schema /\ loaded' = loaded /\ orphan' \in {orphan, Nothing} /\ strays' = strays
  /\ Shaped'
  /\ \A e \in Refs : /\ run'[e].at = (IF e = d THEN step ELSE run[e].at)
                     /\ run'[e].id = run[e].id

\* Such a step keeps the invariant.
LEMMA QuietSchema ==
  ASSUME SchemaInv, NEW d \in Refs, NEW step, Quiet(d, step)
  PROVE  SchemaInv'
BY RuntimeAssumption DEF SchemaInv, Served, Quiet

\* The migration raises the schema to that of its release and never lowers it.
LEMMA MigrateSchema ==
  ASSUME SchemaInv, NEW d \in Refs, Migrate(d)
  PROVE  SchemaInv'
<1>1. /\ Shaped'
      /\ \A e \in Refs : /\ run'[e].at = (IF e = d THEN "current" ELSE run[e].at)
                         /\ run'[e].id = run[e].id
  BY GoShape DEF SchemaInv, Migrate
<1>2. run[d].id \in Releases /\ schema <= schema' /\ schema' = Schema[run[d].id] /\ schema' \in Nat
  BY DeployAssumption DEF Migrate, Whole
<1>3. \A r : Served(r) => Served(r)'
  BY <1>2, DeployAssumption DEF Served, SchemaInv
<1>4. Served(run[d].id)'
  BY <1>1, <1>2, DeployAssumption DEF Served
<1>5. app' = app /\ loaded' = loaded /\ orphan' = orphan /\ strays' = strays
  BY DEF Migrate, hostVars
<1>6. QED
  BY <1>1, <1>2, <1>3, <1>4, <1>5 DEF SchemaInv, Served

\* Every step of a script keeps the invariant.
LEMMA ScriptSchema ==
  ASSUME SchemaInv, NEW d \in Refs, Begin(d) \/ Step(d) \/ CommandFails(d) \/ Cancel(d)
  PROVE  SchemaInv'
<1> USE DEF At, hostVars, Migrated, Quiet
<1>0. Shaped
  BY DEF SchemaInv
<1>1. CASE Begin(d)
  <2>1. PICK r \in Releases : Replaces(run', run, d, Locals("clear", r, Nothing, {}))
    BY <1>1, BeginReplaces
  <2>2. /\ Shaped'
        /\ \A e \in Refs : /\ run'[e].at = (IF e = d THEN "clear" ELSE run[e].at)
                           /\ run'[e].id = (IF e = d THEN r ELSE run[e].id)
    BY <1>0, <2>1, BeginShape
  <2>3. QED
    BY <1>1, <2>2 DEF Begin, SchemaInv, Served
<1>2. CASE Clear(d)
  <2>1. Quiet(d, "unpack")
    BY <1>0, <1>2, GoShape DEF Clear
  <2>2. QED
    BY <2>1, QuietSchema
<1>3. CASE Unpack(d)
  <2>1. Quiet(d, "migrate")
    BY <1>0, <1>3, GoShape DEF Unpack
  <2>2. QED
    BY <2>1, QuietSchema
<1>4. CASE Migrate(d)
  BY <1>4, MigrateSchema
<1>5. CASE LinkCurrent(d)
  <2>1. Quiet(d, "app")
    BY <1>0, <1>5, GoShape DEF LinkCurrent
  <2>2. QED
    BY <2>1, QuietSchema
<1>6. CASE LinkApp(d)
  <2>1. Quiet(d, "stop")
    BY <1>0, <1>6, GoShape DEF LinkApp
  <2>2. QED
    BY <2>1, QuietSchema
<1>7. CASE StopSupervisor(d)
  <2>1. Quiet(d, "await")
    BY <1>0, <1>7, GoShape DEF StopSupervisor
  <2>2. QED
    BY <2>1, QuietSchema
<1>8. CASE AwaitStop(d)
  <2>1. Quiet(d, "port")
    BY <1>0, <1>8, GoShape DEF AwaitStop
  <2>2. QED
    BY <2>1, QuietSchema
<1>9. CASE StartSupervisor(d)
  <2>1. Quiet(d, "health")
    BY <1>0, <1>9, GoShape DEF StartSupervisor
  <2>2. QED
    BY <2>1, QuietSchema
<1>10. CASE HealthPasses(d)
  <2>1. Quiet(d, "scan")
    BY <1>0, <1>10, GoShape DEF HealthPasses
  <2>2. QED
    BY <2>1, QuietSchema
<1>11. CASE HealthTimesOut(d)
  <2>1. Quiet(d, "failed")
    BY <1>0, <1>11, GoShape DEF HealthTimesOut
  <2>2. QED
    BY <2>1, QuietSchema
<1>12. CASE Finish(d)
  <2>1. Quiet(d, "done")
    BY <1>0, <1>12, GoShape DEF Finish
  <2>2. QED
    BY <2>1, QuietSchema
<1>13. CASE CommandFails(d)
  <2>1. Quiet(d, "failed")
    BY <1>0, <1>13, GoShape DEF CommandFails
  <2>2. QED
    BY <2>1, QuietSchema
<1>14. CASE Cancel(d)
  <2>1. Quiet(d, "failed")
    BY <1>0, <1>14, GoShape DEF Cancel
  <2>2. QED
    BY <2>1, QuietSchema
<1>15. CASE StopListener(d)
  <2>1. Quiet(d, "start")
    BY <1>0, <1>15, GoShape DEF StopListener
  <2>2. QED
    BY <2>1, QuietSchema
<1>16. CASE Scan(d)
  <2>1. PICK active, gone : Notes(d, active, gone)
    BY <1>16 DEF Scan, Notes
  <2>2. /\ Shaped'
        /\ \A e \in Refs : /\ run'[e].at = (IF e = d THEN "remove" ELSE run[e].at)
                           /\ run'[e].id = run[e].id
    BY <1>0, <2>1, ScanShape
  <2>3. Quiet(d, "remove")
    BY <1>16, <2>2 DEF Scan
  <2>4. QED
    BY <2>3, QuietSchema
<1>17. CASE RemoveOne(d)
  <2>1. PICK gone : run' = [run EXCEPT ![d].victims = gone]
    BY <1>17 DEF RemoveOne
  <2>2. Shaped' /\ \A e \in Refs : run'[e].at = run[e].at /\ run'[e].id = run[e].id
    BY <1>0, <2>1, RemoveShape
  <2>3. Quiet(d, "remove")
    BY <1>17, <2>2 DEF RemoveOne
  <2>4. QED
    BY <2>3, QuietSchema
<1>18. QED
  BY <1>1, <1>2, <1>3, <1>4, <1>5, <1>6, <1>7, <1>8, <1>9, <1>10, <1>11, <1>12, <1>13, <1>14,
     <1>15, <1>16, <1>17
  DEF Step

\* What the programs do keeps the invariant: what is spawned comes from the link,
\* and what is orphaned was spawned before.
LEMMA HostSchema ==
  ASSUME SchemaInv, (Advance \/ Mishap) /\ Script
  PROVE  SchemaInv'
<1>1. schema' = schema /\ run' = run /\ app' = app
  BY DEF Script, Advance, Mishap, Spawn, StopProgram, VllmReady, ApiReady, ApiTimeout, TunnelReady,
     TunnelTimeout, StrayListens, StrayEnds, SupervisorGone, Exit, SupervisorDies
<1>2. loaded' = loaded \/ loaded' = app
  BY DEF Advance, Mishap, Spawn, StopProgram, VllmReady, ApiReady, ApiTimeout, TunnelReady,
     TunnelTimeout, StrayListens, StrayEnds, SupervisorGone, Exit, SupervisorDies
<1>3. orphan' \in {orphan, loaded, Nothing} \cup strays /\ strays' \subseteq strays \cup {loaded}
  BY DEF Advance, Mishap, Spawn, StopProgram, VllmReady, ApiReady, ApiTimeout, TunnelReady,
     TunnelTimeout, StrayListens, StrayEnds, SupervisorGone, Exit, SupervisorDies, Listener
<1>4. QED
  BY <1>1, <1>2, <1>3, RuntimeAssumption DEF SchemaInv, Served, Shaped, Fields

\* Every step keeps the invariant.
LEMMA NextSchema == SchemaInv /\ [Next]_vars => SchemaInv'
<1> SUFFICES ASSUME SchemaInv, [Next]_vars PROVE SchemaInv'
  OBVIOUS
<1>1. CASE \E d \in Refs : Begin(d) \/ Step(d) \/ CommandFails(d) \/ Cancel(d)
  BY <1>1, ScriptSchema
<1>2. CASE (Advance \/ Mishap) /\ Script
  BY <1>2, HostSchema
<1>3. CASE Finished \/ UNCHANGED vars
  BY <1>3 DEF Finished, vars, runtimeVars, hostVars, SchemaInv, Served, Shaped, Fields
<1>4. QED
  BY <1>1, <1>2, <1>3 DEF Next

\* Whatever refs deploy at once, in whatever order, and whatever fails, dies or is
\* restarted in between, no API serves on a database that lacks its migrations.
THEOREM SchemaIsServed == Spec => []SchemaServed
<1>1. SchemaInv => SchemaServed
  BY RuntimeAssumption DEF SchemaInv, SchemaServed, Served, Listener
<1>2. QED
  BY <1>1, InitSchema, NextSchema, PTL DEF Spec

(***************************************************************************)
(* The health check                                                        *)
(***************************************************************************)
\* The steps of a script once it has switched current, once it has switched app,
\* and from its stop of the supervisord that ran before to its health check.
Pointed    == {"app", "stop", "await", "port", "start", "health", "scan", "remove"}
Linked     == {"stop", "await", "port", "start", "health", "scan", "remove"}
Restarting == {"port", "start", "health"}

\* The host has its shape, and no program without its supervisord but the orphan.
HostInv ==
  /\ dirs \in [Releases -> {"none", "partial", "whole"}]
  /\ prog \in [Programs -> {"off", "waiting", "up", "fatal"}]
  /\ sup \in {"none", "up", "stopping"}
  /\ sup = "none" => prog = AllOff

\* Until another script switches a link, it names the release of the script that did,
\* and so does what that script's cleanup read; and once it has stopped what ran, a
\* supervisord that is up was started after the switch, and has spawned its API
\* from there.
Vouched ==
  \A d \in Refs :
    /\ linker = d =>
         /\ run[d].at \in Linked => app = run[d].id
         /\ run[d].at \in Restarting /\ d \notin outlived /\ sup = "up"
              /\ prog["api"] \in {"waiting", "up"} => loaded = app
    /\ pointer = d =>
         /\ run[d].at \in Pointed => current = run[d].id
         /\ run[d].at = "remove" => run[d].active = run[d].id

HealthInv == Shaped /\ HostInv /\ Vouched

\* A host that is fresh, or runs its first release.
LEMMA InitHealth == Init => HealthInv
<1> SUFFICES ASSUME Init PROVE HealthInv
  OBVIOUS
<1>1. Shaped /\ \A d \in Refs : run[d].at \notin Pointed \cup Linked \cup Restarting
  BY DEF Init, Shaped, Fields, Locals, Idle, Pointed, Linked, Restarting
<1>2. HostInv
  BY DEF Init, HostInv, AllOff, Programs
<1>3. QED
  BY <1>1, <1>2 DEF HealthInv, Vouched, Pointed

\* What a script does to the host keeps its shape.
LEMMA ScriptHost ==
  ASSUME HostInv, NEW d \in Refs, Begin(d) \/ Step(d) \/ CommandFails(d) \/ Cancel(d)
  PROVE  HostInv'
<1>1. dirs' \in [Releases -> {"none", "partial", "whole"}]
  BY DEF HostInv, Step, Begin, Clear, Unpack, Migrate, LinkCurrent, LinkApp, StopSupervisor, AwaitStop,
         StopListener, StartSupervisor, HealthPasses, HealthTimesOut, Scan, RemoveOne, Finish,
         CommandFails, Cancel
<1>2. \/ prog' = prog /\ sup' = sup
      \/ prog' = prog /\ sup # "none" /\ sup' \in {"up", "stopping"}
      \/ prog' = prog /\ sup' = "up"
      \/ sup' = sup /\ prog["api"] = "up" /\ prog' = [prog EXCEPT !["api"] = "off"]
  BY DEF HostInv, Step, Begin, Clear, Unpack, Migrate, LinkCurrent, LinkApp, StopSupervisor, AwaitStop,
         StopListener, StartSupervisor, HealthPasses, HealthTimesOut, Scan, RemoveOne, Finish,
         CommandFails, Cancel, hostVars
<1>3. QED
  BY <1>1, <1>2 DEF HostInv, AllOff, Programs

\* A step that leaves the links alone, passes a restart only where it is due, and
\* neither starts a supervisord with an API nor an API.
Passes(d, step) ==
  /\ Shaped'
  /\ \A e \in Refs : /\ run'[e].at = (IF e = d THEN step ELSE run[e].at)
                     /\ run'[e].id = run[e].id
                     /\ run'[e].active = run[e].active
  /\ step \in Linked => run[d].at \in Linked
  /\ step \in Pointed => run[d].at \in Pointed
  /\ step = "remove" => run[d].at = "remove"
  /\ step \in Restarting => \/ run[d].at \in Restarting /\ (d \in outlived => d \in outlived')
                           \/ sup' # "up" \/ d \in outlived'
  /\ \A e \in Refs \ {d} : e \in outlived => e \in outlived'
  /\ app' = app /\ linker' = linker /\ loaded' = loaded
  /\ current' = current /\ pointer' = pointer
  /\ sup' = "up" /\ prog'["api"] \in {"waiting", "up"} =>
       sup = "up" /\ prog["api"] \in {"waiting", "up"}

\* Such a step keeps what the links and the health check vouch for.
LEMMA PassesVouched ==
  ASSUME Vouched, NEW d \in Refs, NEW step, Passes(d, step)
  PROVE  Shaped' /\ Vouched'
<1>1. ASSUME NEW e \in Refs, linker' = e
      PROVE  /\ run'[e].at \in Linked => app' = run'[e].id
             /\ run'[e].at \in Restarting /\ e \notin outlived' /\ sup' = "up"
                  /\ prog'["api"] \in {"waiting", "up"} => loaded' = app'
  <2>1. /\ linker = e /\ run'[e].id = run[e].id /\ app' = app /\ loaded' = loaded
        /\ run'[e].at \in Linked => run[e].at \in Linked
        /\ run'[e].at \in Restarting /\ e \notin outlived' /\ sup' = "up" =>
             run[e].at \in Restarting /\ e \notin outlived
    BY <1>1 DEF Passes
  <2>2. QED
    BY <2>1 DEF Vouched, Passes
<1>2. ASSUME NEW e \in Refs, pointer' = e
      PROVE  /\ run'[e].at \in Pointed => current' = run'[e].id
             /\ run'[e].at = "remove" => run'[e].active = run'[e].id
  <2>1. /\ pointer = e /\ run'[e].id = run[e].id /\ current' = current
        /\ run'[e].active = run[e].active
        /\ run'[e].at \in Pointed => run[e].at \in Pointed
        /\ run'[e].at = "remove" => run[e].at = "remove"
    BY <1>2 DEF Passes
  <2>2. QED
    BY <2>1 DEF Vouched
<1>3. QED
  BY <1>1, <1>2 DEF Vouched, Passes

\* Every step of a script keeps it.
LEMMA ScriptVouched ==
  ASSUME HealthInv, NEW d \in Refs, Begin(d) \/ Step(d) \/ CommandFails(d) \/ Cancel(d)
  PROVE  Shaped' /\ Vouched'
<1> USE DEF At, hostVars, history, Pointed, Linked, Restarting, Passes
<1>0. Shaped /\ Vouched /\ (sup = "none" => prog["api"] = "off")
      /\ prog \in [Programs -> {"off", "waiting", "up", "fatal"}] /\ "api" \in Programs
  BY DEF HealthInv, HostInv, AllOff, Programs
<1>1. CASE Begin(d)
  <2>1. PICK r \in Releases : Replaces(run', run, d, Locals("clear", r, Nothing, {}))
    BY <1>1, BeginReplaces
  <2>2. /\ Shaped'
        /\ \A e \in Refs : e # d => run'[e].at = run[e].at /\ run'[e].id = run[e].id
        /\ run'[d].at = "clear"
        /\ \A e \in Refs : e # d => run'[e].active = run[e].active
    BY <1>0, <2>1, BeginShape
  <2>3. /\ app' = app /\ linker' = linker /\ loaded' = loaded /\ sup' = sup /\ prog' = prog
        /\ current' = current /\ pointer' = pointer /\ outlived' = outlived
    BY <1>1 DEF Begin
  <2>4. QED
    BY <1>0, <2>2, <2>3 DEF Vouched
<1>2. CASE LinkApp(d) \/ LinkCurrent(d)
  <2>1. PICK step \in {"app", "stop"} :
          /\ Shaped'
          /\ \A e \in Refs : /\ run'[e].at = (IF e = d THEN step ELSE run[e].at)
                             /\ run'[e].id = run[e].id
                             /\ run'[e].active = run[e].active
          /\ IF step = "stop"
             THEN At(d, "app") /\ app' = run[d].id /\ linker' = d /\ UNCHANGED <<current, pointer>>
             ELSE current' = run[d].id /\ pointer' = d /\ UNCHANGED <<app, linker>>
          /\ UNCHANGED <<sup, prog, loaded, outlived>>
    BY <1>0, <1>2, GoShape DEF LinkApp, LinkCurrent
  <2>2. CASE step = "stop"
    BY <1>0, <2>1, <2>2 DEF Vouched
  <2>3. CASE step = "app"
    BY <1>0, <2>1, <2>3 DEF Vouched
  <2>4. QED
    BY <2>1, <2>2, <2>3
<1>3. CASE Clear(d)
  <2>1. Passes(d, "unpack")
    BY <1>0, <1>3, GoShape DEF Clear
  <2>2. QED
    BY <1>0, <2>1, PassesVouched
<1>4. CASE Unpack(d)
  <2>1. Passes(d, "migrate")
    BY <1>0, <1>4, GoShape DEF Unpack
  <2>2. QED
    BY <1>0, <2>1, PassesVouched
<1>5. CASE Migrate(d)
  <2>1. Passes(d, "current")
    BY <1>0, <1>5, GoShape DEF Migrate
  <2>2. QED
    BY <1>0, <2>1, PassesVouched
<1>7. CASE StopSupervisor(d)
  <2>1. Passes(d, "await")
    BY <1>0, <1>7, GoShape DEF StopSupervisor
  <2>2. QED
    BY <1>0, <2>1, PassesVouched
<1>8. CASE AwaitStop(d)
  <2>1. Passes(d, "port")
    BY <1>0, <1>8, GoShape DEF AwaitStop
  <2>2. QED
    BY <1>0, <2>1, PassesVouched
<1>9. CASE StopListener(d)
  <2>1. Passes(d, "start")
    BY <1>0, <1>9, GoShape DEF StopListener
  <2>2. QED
    BY <1>0, <2>1, PassesVouched
<1>10. CASE StartSupervisor(d)
  <2>1. Passes(d, "health")
    BY <1>0, <1>10, GoShape DEF StartSupervisor
  <2>2. QED
    BY <1>0, <2>1, PassesVouched
<1>11. CASE HealthPasses(d)
  <2>1. Passes(d, "scan")
    BY <1>0, <1>11, GoShape DEF HealthPasses
  <2>2. QED
    BY <1>0, <2>1, PassesVouched
<1>12. CASE HealthTimesOut(d)
  <2>1. Passes(d, "failed")
    BY <1>0, <1>12, GoShape DEF HealthTimesOut
  <2>2. QED
    BY <1>0, <2>1, PassesVouched
<1>13. CASE Finish(d)
  <2>1. Passes(d, "done")
    BY <1>0, <1>13, GoShape DEF Finish
  <2>2. QED
    BY <1>0, <2>1, PassesVouched
<1>14. CASE CommandFails(d)
  <2>1. Passes(d, "failed")
    BY <1>0, <1>14, GoShape DEF CommandFails
  <2>2. QED
    BY <1>0, <2>1, PassesVouched
<1>15. CASE Cancel(d)
  <2>1. Passes(d, "failed")
    BY <1>0, <1>15, GoShape DEF Cancel
  <2>2. QED
    BY <1>0, <2>1, PassesVouched
<1>16. CASE Scan(d)
  <2>1. PICK active, gone :
          /\ active = current
          /\ Notes(d, active, gone)
    BY <1>16 DEF Scan, Notes
  <2>2. /\ Shaped'
        /\ \A e \in Refs : /\ run'[e].at = (IF e = d THEN "remove" ELSE run[e].at)
                           /\ run'[e].id = run[e].id
                           /\ run'[e].active = (IF e = d THEN active ELSE run[e].active)
    BY <1>0, <2>1, ScanShape
  <2>3. /\ UNCHANGED <<app, current, sup, prog, loaded, pointer, linker, outlived>>
        /\ run[d].at = "scan"
    BY <1>16 DEF Scan
  <2>4. ASSUME NEW e \in Refs, linker' = e
        PROVE  /\ run'[e].at \in Linked => app' = run'[e].id
               /\ run'[e].at \in Restarting /\ e \notin outlived' /\ sup' = "up"
                    /\ prog'["api"] \in {"waiting", "up"} => loaded' = app'
    <3>1. linker = e /\ (run'[e].at = run[e].at \/ (e = d /\ run'[e].at = "remove"))
      BY <2>2, <2>3, <2>4
    <3>2. QED
      BY <1>0, <2>2, <2>3, <3>1 DEF Vouched
  <2>5. ASSUME NEW e \in Refs, pointer' = e
        PROVE  /\ run'[e].at \in Pointed => current' = run'[e].id
               /\ run'[e].at = "remove" => run'[e].active = run'[e].id
    <3>1. pointer = e
      BY <2>3, <2>5
    <3>2. CASE e = d
      <4>1. current' = run[d].id
        BY <1>0, <2>3, <3>1, <3>2 DEF Vouched
      <4>2. run'[e].active = current /\ run'[e].id = run[d].id
        BY <2>1, <2>2, <3>2
      <4>3. QED
        BY <2>3, <3>2, <4>1, <4>2
    <3>3. CASE e # d
      BY <1>0, <2>2, <2>3, <3>1, <3>3 DEF Vouched
    <3>4. QED
      BY <3>2, <3>3
  <2>6. QED
    BY <2>2, <2>4, <2>5 DEF Vouched
<1>17. CASE RemoveOne(d)
  <2>1. PICK gone : run' = [run EXCEPT ![d].victims = gone]
    BY <1>17 DEF RemoveOne
  <2>2. Shaped' /\ \A e \in Refs : /\ run'[e].at = run[e].at
                                  /\ run'[e].id = run[e].id
                                  /\ run'[e].active = run[e].active
    BY <1>0, <2>1, RemoveShape
  <2>3. Passes(d, "remove")
    BY <1>17, <2>2 DEF RemoveOne
  <2>4. QED
    BY <1>0, <2>3, PassesVouched
<1>18. QED
  BY <1>1, <1>2, <1>3, <1>4, <1>5, <1>7, <1>8, <1>9, <1>10, <1>11, <1>12, <1>13, <1>14, <1>15, <1>16, <1>17
  DEF Step

\* What the programs do keeps it: an API is spawned from the link.
LEMMA HostHealth ==
  ASSUME HealthInv, (Advance \/ Mishap) /\ Script
  PROVE  HealthInv'
<1>1. /\ run' = run /\ linker' = linker /\ app' = app /\ dirs' = dirs
      /\ current' = current /\ pointer' = pointer /\ outlived' = outlived
  BY DEF Script, history, Advance, Mishap, Spawn, StopProgram, VllmReady, ApiReady, ApiTimeout, TunnelReady,
     TunnelTimeout, StrayListens, StrayEnds, SupervisorGone, Exit, SupervisorDies
<1>2. /\ prog \in [Programs -> {"off", "waiting", "up", "fatal"}] /\ sup \in {"none", "up", "stopping"}
      /\ sup = "none" => prog = AllOff
  BY DEF HealthInv, HostInv
<1>3. \/ sup' = "none" /\ prog' = AllOff
      \/ sup' = sup /\ prog' = prog
      \/ /\ sup' = sup /\ sup # "none"
         /\ \E p \in Programs, state \in {"off", "waiting", "up", "fatal"} : prog' = [prog EXCEPT ![p] = state]
  <2>1. CASE \E p \in Programs : Spawn(p) \/ StopProgram(p) \/ Exit(p)
    BY <1>2, <2>1 DEF Spawn, StopProgram, Exit, Become, AllOff
  <2>2. CASE VllmReady \/ ApiReady \/ ApiTimeout \/ TunnelReady \/ TunnelTimeout
    BY <1>2, <2>2 DEF VllmReady, ApiReady, ApiTimeout, TunnelReady, TunnelTimeout, Become, AllOff, Programs
  <2>3. CASE SupervisorGone \/ SupervisorDies
    BY <2>3 DEF SupervisorGone, SupervisorDies
  <2>4. CASE StrayListens \/ StrayEnds
    BY <2>4 DEF StrayListens, StrayEnds
  <2>5. QED
    BY <2>1, <2>2, <2>3, <2>4 DEF Advance, Mishap
<1>4. \/ loaded' = app
      \/ loaded' = loaded /\ (prog'["api"] \in {"waiting", "up"} => prog["api"] \in {"waiting", "up"})
  <2>1. CASE \E p \in Programs : Spawn(p)
    BY <1>2, <2>1 DEF Spawn, Become, Programs
  <2>2. CASE \E p \in Programs : StopProgram(p) \/ Exit(p)
    BY <1>2, <2>2 DEF StopProgram, Exit, Become, Programs
  <2>3. CASE VllmReady \/ ApiReady \/ ApiTimeout \/ TunnelReady \/ TunnelTimeout
    BY <1>2, <2>3 DEF VllmReady, ApiReady, ApiTimeout, TunnelReady, TunnelTimeout, Become, Programs
  <2>4. CASE SupervisorGone \/ SupervisorDies \/ StrayListens \/ StrayEnds
    BY <2>4 DEF SupervisorGone, SupervisorDies, StrayListens, StrayEnds, AllOff, Programs
  <2>5. QED
    BY <2>1, <2>2, <2>3, <2>4 DEF Advance, Mishap
<1>5. HostInv'
  BY <1>1, <1>2, <1>3 DEF HealthInv, HostInv, AllOff
<1>6. Shaped' /\ Vouched'
  BY <1>1, <1>3, <1>4 DEF HealthInv, Shaped, Fields, Vouched
<1>7. QED
  BY <1>5, <1>6 DEF HealthInv

\* Every step keeps the invariant.
LEMMA NextHealth == HealthInv /\ [Next]_vars => HealthInv'
<1> SUFFICES ASSUME HealthInv, [Next]_vars PROVE HealthInv'
  OBVIOUS
<1>1. CASE \E d \in Refs : Begin(d) \/ Step(d) \/ CommandFails(d) \/ Cancel(d)
  BY <1>1, ScriptHost, ScriptVouched DEF HealthInv
<1>2. CASE (Advance \/ Mishap) /\ Script
  BY <1>2, HostHealth
<1>3. CASE Finished \/ UNCHANGED vars
  BY <1>3 DEF Finished, vars, runtimeVars, hostVars, history, HealthInv, HostInv, Vouched, Shaped, Fields
<1>4. QED
  BY <1>1, <1>2, <1>3 DEF Next

\* A script moves only itself.
LEMMA OthersStay ==
  ASSUME Shaped, NEW d \in Refs, NEW e \in Refs, e # d,
         Begin(e) \/ Step(e) \/ CommandFails(e) \/ Cancel(e)
  PROVE  run'[d] = run[d]
<1>1. DOMAIN run = Refs
  BY DEF Shaped, Fields
<1>2. CASE Begin(e) \/ Scan(e) \/ RemoveOne(e)
  BY <1>1, <1>2 DEF Begin, Scan, RemoveOne
<1>3. CASE \E step : Go(e, step)
  BY <1>1, <1>3 DEF Go
<1>4. QED
  BY <1>2, <1>3
     DEF Step, Clear, Unpack, Migrate, LinkCurrent, LinkApp, StopSupervisor, AwaitStop, StopListener,
         StartSupervisor, HealthPasses, HealthTimesOut, Finish, CommandFails, Cancel

\* The step out of the health check that leads to the cleanup is a check that passed.
LEMMA PassedCheck ==
  ASSUME Shaped, [Next]_vars, NEW d \in Refs, At(d, "health"), run'[d].at = "scan"
  PROVE  Listener # Nothing
<1>1. run'[d] # run[d]
  BY DEF At
<1>2. PICK e \in Refs : Begin(e) \/ Step(e) \/ CommandFails(e) \/ Cancel(e)
  BY <1>1 DEF Next, Finished, vars, Script
<1>3. e = d
  BY <1>1, <1>2, OthersStay
<1>4. CASE HealthPasses(d)
  BY <1>4 DEF HealthPasses
<1>5. CASE HealthTimesOut(d) \/ CommandFails(d) \/ Cancel(d)
  <2>1. Go(d, "failed")
    BY <1>5 DEF HealthTimesOut, CommandFails, Cancel
  <2>2. run'[d].at = "failed"
    BY <2>1, GoShape
  <2>3. QED
    BY <2>2
<1>6. QED
  BY <1>2, <1>3, <1>4, <1>5
     DEF Step, At, Ended, Begin, Clear, Unpack, Migrate, LinkCurrent, LinkApp, StopSupervisor, AwaitStop,
         StopListener, StartSupervisor, Scan, RemoveOne, Finish

\* A health check that passes was answered by the release deployed, with the
\* exceptions the property names, for any number of deploys.
THEOREM HealthIsVouched == Spec => HealthVouches
<1>1. HealthInv /\ [Next]_vars =>
        \A d \in Refs :
          At(d, "health") /\ run'[d].at = "scan" =>
            \/ Listener = run[d].id
            \/ linker # d
            \/ d \in outlived
            \/ orphan # Nothing \/ sup = "stopping"
  <2>1. SUFFICES ASSUME HealthInv, [Next]_vars, NEW d \in Refs, At(d, "health"), run'[d].at = "scan",
                        linker = d, d \notin outlived, orphan = Nothing,
                        sup # "stopping"
                 PROVE  Listener = run[d].id
    OBVIOUS
  <2>2. Listener # Nothing
    BY <2>1, PassedCheck DEF HealthInv
  <2>3. prog["api"] = "up" /\ Listener = loaded
    BY <2>1, <2>2 DEF Listener
  <2>4. sup = "up"
    BY <2>1, <2>3 DEF HealthInv, HostInv, AllOff, Programs
  <2>5. QED
    BY <2>1, <2>3, <2>4 DEF HealthInv, Vouched, At, Linked, Restarting
<1>2. QED
  BY <1>1, InitHealth, NextHealth, PTL DEF Spec, HealthVouches

\* The cleanup of a script that set both links last read from current what app names,
\* and spares it.
LEMMA RemoveSpares ==
  ASSUME HealthInv, NEW d \in Refs, RemoveOne(d), pointer = d, linker = d, dirs[app] = "whole",
         app \in Releases
  PROVE  dirs'[app] = "whole"
<1>1. run[d].active = app
  BY DEF RemoveOne, At, HealthInv, Vouched, Pointed, Linked
<1>2. PICK r \in run[d].victims :
        IF r = run[d].active THEN UNCHANGED <<dirs, order>>
        ELSE dirs' = [dirs EXCEPT ![r] = "none"] /\ order' = Remove(order, r)
  BY DEF RemoveOne
<1>3. CASE r = app
  BY <1>1, <1>2, <1>3
<1>4. CASE r # app
  <2>1. dirs' = [dirs EXCEPT ![r] = "none"]
    BY <1>1, <1>2, <1>4
  <2>2. QED
    BY <1>4, <2>1 DEF HealthInv, HostInv
<1>5. QED
  BY <1>3, <1>4

\* Whatever other scripts do in between, the cleanup of the one that set both links
\* last leaves the directory app points to, for any number of deploys and releases.
THEOREM CleanupSpares == Spec => ServedSurvivesCleanup
<1>1. ASSUME HealthInv, [Next]_vars, Whole(app), dirs'[app] # "whole"
      PROVE  \E d \in Refs : \/ At(d, "clear") /\ run[d].id = app
                             \/ At(d, "remove") /\ ~(pointer = d /\ linker = d)
  <2>1. dirs' # dirs /\ dirs[app] = "whole" /\ app \in Releases /\ app \in DOMAIN dirs
    BY <1>1 DEF Whole, HealthInv, HostInv
  <2>2. PICK d \in Refs : Begin(d) \/ Step(d) \/ CommandFails(d) \/ Cancel(d)
    BY <1>1, <2>1
       DEF Next, Finished, vars, runtimeVars, Advance, Mishap, Spawn, StopProgram, VllmReady, ApiReady,
           ApiTimeout, TunnelReady, TunnelTimeout, StrayListens, StrayEnds, SupervisorGone, Exit,
           SupervisorDies
  <2>3. CASE Clear(d)
    BY <1>1, <2>1, <2>3 DEF Clear
  <2>4. CASE Unpack(d)
    BY <1>1, <2>1, <2>4 DEF Unpack
  <2>5. CASE RemoveOne(d)
    BY <1>1, <2>1, <2>5, RemoveSpares DEF RemoveOne
  <2>6. QED
    BY <2>1, <2>2, <2>3, <2>4, <2>5
       DEF Step, Begin, Migrate, LinkCurrent, LinkApp, StopSupervisor, AwaitStop, StopListener,
           StartSupervisor, HealthPasses, HealthTimesOut, Scan, Finish, CommandFails, Cancel
<1>2. HealthInv /\ [Next]_vars =>
        (Whole(app) /\ dirs'[app] # "whole" =>
         \E d \in Refs : \/ At(d, "clear") /\ run[d].id = app
                         \/ At(d, "remove") /\ ~(pointer = d /\ linker = d))
  BY <1>1
<1>3. QED
  BY <1>2, InitHealth, NextHealth, PTL DEF Spec, ServedSurvivesCleanup
=============================================================================
