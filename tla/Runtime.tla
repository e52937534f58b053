------------------------------ MODULE Runtime -------------------------------
(***************************************************************************)
(* The programs supervisord runs on a host, those whose order matters:     *)
(* vLLM, the API, which starts once vLLM answers, and the tunnel, which    *)
(* starts once the API answers.  Each is spawned in /app, so a program     *)
(* that is restarted runs whatever /app points to by then.                 *)
(***************************************************************************)
EXTENDS Naturals, Sequences, FiniteSets

CONSTANTS Releases,     \* release ids
          Nothing,      \* no release
          MaxEvents     \* bound: deploys that begin and programs that die

ASSUME RuntimeAssumption == Nothing \notin Releases /\ MaxEvents \in Nat

VARIABLES
  dirs,      \* the directory of each release: none, partial or whole
  app,       \* what the /app link points to
  sup,       \* supervisord: none, up or stopping
  prog,      \* its programs: off, waiting, up, or fatal
  loaded,    \* the release the API was spawned from
  orphan,    \* an API whose supervisord is gone: its release
  strays,    \* the releases of APIs that still waited when theirs went
  events     \* how many deploys began, and programs died

hostVars == <<sup, prog, loaded, orphan, strays, events>>
runtimeVars == <<dirs, app, hostVars>>

Programs == {"vllm", "api", "tunnel"}
AllOff   == [p \in Programs |-> "off"]
Whole(r) == r \in Releases /\ dirs[r] = "whole"
Listener == IF orphan # Nothing THEN orphan
            ELSE IF prog["api"] = "up" THEN loaded ELSE Nothing

Become(p, state) == prog' = [prog EXCEPT ![p] = state]

-----------------------------------------------------------------------------
\* A program whose directory is not there fails to start until it is FATAL.
Spawn(p) ==
  /\ sup = "up" /\ prog[p] = "off"
  /\ Become(p, IF Whole(app) THEN "waiting" ELSE "fatal")
  /\ loaded' = IF p = "api" THEN app ELSE loaded
  /\ UNCHANGED <<dirs, app, sup, orphan, strays, events>>

\* run_vllm: the server has loaded its model, or an external one is used.
VllmReady ==
  /\ prog["vllm"] = "waiting"
  /\ Become("vllm", "up")
  /\ UNCHANGED <<dirs, app, sup, loaded, orphan, strays, events>>

\* wait_for_vllm && exec uvicorn: the port must be free, and the release the
\* wait was started from must still be there.
ApiReady ==
  /\ prog["api"] = "waiting" /\ prog["vllm"] = "up"
  /\ Become("api", IF orphan = Nothing /\ Whole(loaded) THEN "up" ELSE "off")
  /\ UNCHANGED <<dirs, app, sup, loaded, orphan, strays, events>>

ApiTimeout ==
  /\ prog["api"] = "waiting" /\ prog["vllm"] # "up"
  /\ Become("api", "off")
  /\ UNCHANGED <<dirs, app, sup, loaded, orphan, strays, events>>

\* wait_for_http && exec cloudflared
TunnelReady ==
  /\ prog["tunnel"] = "waiting" /\ Listener # Nothing
  /\ Become("tunnel", "up")
  /\ UNCHANGED <<dirs, app, sup, loaded, orphan, strays, events>>

\* autorestart=true brings it back: the wait is shorter than vLLM's start.
MutTunnelTimeout ==
  /\ prog["tunnel"] = "waiting" /\ Listener = Nothing
  /\ Become("tunnel", "exited")
  /\ UNCHANGED <<dirs, app, sup, loaded, orphan, strays, events>>

TunnelTimeout ==
  /\ prog["tunnel"] = "waiting" /\ Listener = Nothing
  /\ Become("tunnel", "off")
  /\ UNCHANGED <<dirs, app, sup, loaded, orphan, strays, events>>

\* A program dies and is restarted, unless supervisord is stopping.
Exit(p) ==
  /\ events < MaxEvents /\ prog[p] \in {"waiting", "up"}
  /\ Become(p, "off") /\ events' = events + 1
  /\ UNCHANGED <<dirs, app, sup, loaded, orphan, strays>>

\* supervisord is killed and its children are not: an API that is up keeps its
\* port, one that waits for vLLM goes on waiting.
SupervisorDies ==
  /\ events < MaxEvents /\ sup # "none"
  /\ sup' = "none" /\ events' = events + 1
  /\ orphan' = Listener
  /\ strays' = IF prog["api"] = "waiting" THEN strays \cup {loaded} ELSE strays
  /\ prog' = AllOff
  /\ UNCHANGED <<dirs, app, loaded>>

\* A stray API hears from a vLLM and takes the port, or ends: its wait is over, its
\* directory is gone, or the port is taken.
StrayListens ==
  /\ \E r \in strays :
       /\ Listener = Nothing /\ Whole(r)
       /\ orphan' = r /\ strays' = strays \ {r}
  /\ UNCHANGED <<dirs, app, sup, prog, loaded, events>>

StrayEnds ==
  /\ \E r \in strays : strays' = strays \ {r}
  /\ UNCHANGED <<dirs, app, sup, prog, loaded, orphan, events>>

\* A stopping supervisord stops its programs, each in its own time, and goes.
StopProgram(p) ==
  /\ sup = "stopping" /\ prog[p] # "off"
  /\ Become(p, "off")
  /\ UNCHANGED <<dirs, app, sup, loaded, orphan, strays, events>>

SupervisorGone ==
  /\ sup = "stopping" /\ prog = AllOff
  /\ sup' = "none"
  /\ UNCHANGED <<dirs, app, prog, loaded, orphan, strays, events>>

Advance ==
  \/ \E p \in Programs : Spawn(p) \/ StopProgram(p)
  \/ VllmReady \/ ApiReady \/ ApiTimeout \/ TunnelReady \/ TunnelTimeout \/ SupervisorGone
  \/ StrayListens \/ StrayEnds

Mishap == (\E p \in Programs : Exit(p)) \/ SupervisorDies
=============================================================================
