---------------------------- MODULE SourceManager ----------------------------
(***************************************************************************)
(* The manager of one source family: it polls the settings file and makes  *)
(* what runs (a Sendspin source and a set of daemons per endpoint) follow  *)
(* the endpoints the user has enabled                                      *)
(* (backend/scripts/sources/source_manager.py and its three subclasses).   *)
(*                                                                         *)
(* The manager is one task; a step is what it does between two awaits.     *)
(* Around it settings are edited, daemons exit, the mesh API stops sources *)
(* it does not own, and the server is stopped, killed and started again.   *)
(***************************************************************************)
EXTENDS Endpoints, Functions

VARIABLES asked,       \* settings.json: the configuration each endpoint is enabled with
          rendered,    \* the daemon configuration on disk
          sources,     \* the endpoints whose source is in PlumSendspinServer.sources
          running,     \* SourceManagerBase._running: the signature of each endpoint that is up
          procs,       \* _Running.procs, in start order: for each daemon launched, is it alive
          loaded,      \* the configuration those daemons read when they were launched
          backoff,     \* the endpoints whose _Running.next_spawn_at is still ahead
          lastDesired, \* SourceManagerBase._last_desired
          wanted,      \* the desired set this cycle works with
          left,        \* the endpoints this cycle has still to look at
          cur,         \* the endpoint being worked on
          doomed,      \* the daemons of cur that _kill_daemons has still to wait for
          then,        \* what follows that kill, or that start
          pc,          \* the await the task is at
          strays,      \* daemons alive that no _Running knows
          spoiled,     \* history: endpoints a step failed for and no retry has succeeded since
          trouble

settingsVars == <<asked, rendered>>
setVars      == <<procs, loaded>>
cycleVars    == <<lastDesired, wanted, left>>
workVars     == <<cur, doomed, then>>
vars == <<settingsVars, sources, running, setVars, backoff, cycleVars, workVars, pc,
          strays, spoiled, trouble>>

Label == {"asleep", "stops", "each", "starting", "kill", "spawn", "down",
          "shutdown", "exited"}

\* The daemons of an endpoint that were launched, and those of them still alive.
Launched(e) == DOMAIN procs[e]
Alive(e)    == {d \in Launched(e) : procs[e][d]}

NoProcs == [d \in {} |-> FALSE]

\* A configuration, or none, for each endpoint.
Setting == {f \in [Endpoint -> (UNION Range(Config)) \cup {Off}] :
                \A e \in Endpoint : f[e] \in Config[e] \cup {Off}}

\* The daemons of one endpoint, as far as they were launched: is each alive.
Fleet == UNION {[1 .. n -> BOOLEAN] : n \in 0 .. Daemons}

TypeOK ==
    /\ asked \in Setting
    /\ rendered \in Setting
    /\ sources \subseteq Endpoint
    /\ running \in Setting
    /\ procs \in [Endpoint -> Fleet]
    /\ loaded \in Setting
    /\ backoff \subseteq Endpoint
    /\ lastDesired \in Setting
    /\ wanted \in Setting
    /\ left \subseteq Endpoint
    /\ cur \in Endpoint \cup {Off}
    /\ doomed \subseteq Daemon
    /\ then \in {"down", "quit", "spawn", "hold", "register", "repoint", Off}
    /\ pc \in Label
    /\ strays \subseteq Endpoint \X Daemon
    /\ spoiled \subseteq Endpoint
    /\ trouble \in 0 .. MaxTrouble

Init ==
    /\ asked \in Setting
    /\ rendered = [e \in Endpoint |-> Off]
    /\ sources = {}
    /\ running = [e \in Endpoint |-> Off]
    /\ procs = [e \in Endpoint |-> NoProcs]
    /\ loaded = [e \in Endpoint |-> Off]
    /\ backoff = {}
    /\ lastDesired = [e \in Endpoint |-> Off]
    /\ wanted = [e \in Endpoint |-> Off]
    /\ left = {}
    /\ cur = Off
    /\ doomed = {}
    /\ then = Off
    /\ pc = "asleep"
    /\ strays = {}
    /\ spoiled = {}
    /\ trouble = 0

Misfortune == trouble < MaxTrouble /\ trouble' = trouble + 1

\* The task is between two endpoints, or asleep: its locals are gone.
DoneWithOne ==
    /\ cur' = Off
    /\ doomed' = {}
    /\ then' = Off

DoneWithCycle ==
    /\ DoneWithOne
    /\ wanted' = [e \in Endpoint |-> Off]
    /\ left' = {}

-----------------------------------------------------------------------------
(* The world around the manager.                                           *)

\* The user enables, edits, disables or removes an endpoint (the integrations API persists it).
EditEndpoint(e, c) ==
    /\ asked[e] # c
    /\ asked' = [asked EXCEPT ![e] = c]
    /\ UNCHANGED <<rendered, sources, running, setVars, backoff, cycleVars, workVars, pc,
                   strays, spoiled, trouble>>

\* A daemon exits on its own; for certain if a stray one holds its port, its name or its lock.
DaemonExits(e, d) ==
    /\ d \in Alive(e)
    /\ procs' = [procs EXCEPT ![e][d] = FALSE]
    /\ IF <<e, d>> \in strays THEN UNCHANGED trouble ELSE Misfortune
    /\ UNCHANGED <<settingsVars, sources, running, loaded, backoff, cycleVars, workVars, pc,
                   strays, spoiled>>

\* POST /api/mesh/source/stop pops the source and stops its feeder; the manager is not told.
SourceStoppedByApi(e) ==
    /\ pc # "exited"
    /\ e \in sources
    /\ sources' = sources \ {e}
    /\ Misfortune
    /\ UNCHANGED <<settingsVars, running, setVars, backoff, cycleVars, workVars, pc,
                   strays, spoiled>>

BackoffElapses(e) ==
    /\ e \in backoff
    /\ backoff' = backoff \ {e}
    /\ UNCHANGED <<settingsVars, sources, running, setVars, cycleVars, workVars, pc,
                   strays, spoiled, trouble>>

\* A stray that was signalled, by the sweep at the start or by the kill that was cancelled.
StrayDies(e, d) ==
    /\ pc # "exited"
    /\ <<e, d>> \in strays
    /\ strays' = strays \ {<<e, d>>}
    /\ UNCHANGED <<settingsVars, sources, running, setVars, backoff, cycleVars, workVars, pc,
                   spoiled, trouble>>

-----------------------------------------------------------------------------
(* One cycle: stop what is not wanted, render, then endpoint by endpoint.  *)

\* _reconcile reads the settings; a file it cannot read makes the cycle a no-op.
BeginCycle ==
    /\ pc = "asleep"
    /\ wanted' = asked
    /\ pc' = "stops"
    /\ UNCHANGED <<settingsVars, sources, running, setVars, backoff, lastDesired, left, workVars,
                   strays, spoiled, trouble>>

\* Mutant: the set stays in _Running while it is killed.
BeginKillKeepsProcs(e, next) ==
    /\ doomed' = Alive(e)
    /\ UNCHANGED setVars
    /\ cur' = e
    /\ then' = next
    /\ pc' = "kill"
    /\ backoff' = backoff \ {e}

\* _kill_daemons(cur): the set leaves _Running before the first signal is sent.
BeginKill(e, next) ==
    /\ doomed' = Alive(e)
    /\ procs' = [procs EXCEPT ![e] = NoProcs]
    /\ loaded' = [loaded EXCEPT ![e] = Off]
    /\ cur' = e
    /\ then' = next
    /\ pc' = "kill"
    /\ backoff' = backoff \ {e}

\* _stop_instance: the endpoint leaves _running first.
StopInstance(e, next) ==
    /\ running[e] # Off
    /\ running' = [running EXCEPT ![e] = Off]
    /\ BeginKill(e, next)

StopUnwanted(e) ==
    /\ pc = "stops"
    /\ wanted[e] = Off
    /\ StopInstance(e, "down")
    /\ UNCHANGED <<settingsVars, sources, cycleVars, strays, spoiled, trouble>>

Unwanted == {e \in Endpoint : running[e] # Off /\ wanted[e] = Off}
Enabled  == {e \in Endpoint : wanted[e] # Off}

\* Mutant: only a change of which endpoints are enabled is a change.
RenderNewcomers ==
    /\ pc = "stops"
    /\ Unwanted = {}
    /\ left' = Enabled
    /\ pc' = "each"
    /\ lastDesired' = wanted
    /\ rendered' = IF Enabled = {e \in Endpoint : lastDesired[e] # Off} THEN rendered
                   ELSE [e \in Endpoint |-> IF e \in Enabled THEN wanted[e] ELSE rendered[e]]
    /\ UNCHANGED <<asked, sources, running, setVars, backoff, wanted, workVars,
                   strays, spoiled, trouble>>

\* render() writes the enabled endpoints' files; an OSError leaves those after it unwritten and is
\* suppressed, and the next cycle sees no change to render again.
Render ==
    /\ pc = "stops"
    /\ Unwanted = {}
    /\ left' = Enabled
    /\ pc' = "each"
    /\ lastDesired' = wanted
    /\ IF wanted = lastDesired
         THEN UNCHANGED <<rendered, spoiled, trouble>>
         ELSE \E written \in SUBSET Enabled :
                /\ rendered' = [e \in Endpoint |-> IF e \in written THEN wanted[e] ELSE rendered[e]]
                /\ spoiled' = spoiled \cup {e \in Enabled : rendered'[e] # wanted[e]}
                /\ IF written = Enabled THEN UNCHANGED trouble ELSE Misfortune
    /\ UNCHANGED <<asked, sources, running, setVars, backoff, wanted, workVars, strays>>

\* Not running: register the source, then wait for its monitor or adapter to come up.
StartInstance(e) ==
    /\ running[e] = Off
    /\ sources' = sources \cup {e}
    /\ cur' = e
    /\ then' = "register"
    /\ pc' = "starting"
    /\ UNCHANGED <<running, setVars, backoff, doomed>>

\* The configuration changed: the source stays, the daemons are respooled.
Respool(e) ==
    /\ running[e] \notin {Off, wanted[e]}
    /\ running' = [running EXCEPT ![e] = wanted[e]]
    /\ BeginKill(e, "spawn")
    /\ UNCHANGED sources

\* The daemons are fine but the source is gone.
Rebuild(e) ==
    /\ running[e] = wanted[e]
    /\ e \notin sources
    /\ sources' = sources \cup {e}
    /\ cur' = e
    /\ then' = "repoint"
    /\ pc' = "starting"
    /\ UNCHANGED <<running, setVars, backoff, doomed>>

\* Mutant: a daemon that exited anywhere takes every set down.
ReapAll(e) ==
    /\ running[e] = wanted[e]
    /\ e \in sources
    /\ \E o \in Endpoint : Alive(o) # Launched(o)
    /\ BeginKill(e, "hold")
    /\ UNCHANGED <<running, sources>>

\* A daemon exited: the whole set goes, and comes back after the backoff.
Reap(e) ==
    /\ running[e] = wanted[e]
    /\ e \in sources
    /\ Alive(e) # Launched(e)
    /\ BeginKill(e, "hold")
    /\ UNCHANGED <<running, sources>>

\* Nothing was launched yet.
LaunchAgain(e) ==
    /\ running[e] = wanted[e]
    /\ e \in sources
    /\ Launched(e) = {}
    /\ cur' = e
    /\ then' = "spawn"
    /\ pc' = "spawn"
    /\ UNCHANGED <<running, sources, setVars, backoff, doomed>>

LeaveRunning(e) ==
    /\ running[e] = wanted[e]
    /\ e \in sources
    /\ Launched(e) # {}
    /\ Alive(e) = Launched(e)
    /\ UNCHANGED <<running, sources, setVars, backoff, workVars, pc>>

ReconcileOne(e) ==
    /\ pc = "each"
    /\ e \in left
    /\ left' = left \ {e}
    /\ \/ StartInstance(e)
       \/ Respool(e)
       \/ Rebuild(e)
       \/ Reap(e)
       \/ LaunchAgain(e)
       \/ LeaveRunning(e)
    /\ UNCHANGED <<settingsVars, lastDesired, wanted, strays, spoiled, trouble>>

EndCycle ==
    /\ pc = "each"
    /\ left = {}
    /\ pc' = "asleep"
    /\ DoneWithCycle
    /\ UNCHANGED <<settingsVars, sources, running, setVars, backoff, lastDesired,
                   strays, spoiled, trouble>>

-----------------------------------------------------------------------------
(* The awaits inside an endpoint.                                          *)

\* start_source returned: a new endpoint is registered, a rebuilt one gets its daemons replaced.
Started ==
    /\ pc = "starting"
    /\ \/ /\ then = "register"
          /\ running' = [running EXCEPT ![cur] = wanted[cur]]
          /\ backoff' = backoff \ {cur}
          /\ then' = "spawn"
          /\ pc' = "spawn"
          /\ UNCHANGED <<setVars, cur, doomed>>
       \/ /\ then = "repoint"
          /\ BeginKill(cur, "spawn")
          /\ UNCHANGED running
    /\ UNCHANGED <<settingsVars, sources, cycleVars, strays, spoiled, trouble>>

\* start_source raised after it had registered the source: the endpoint stays out of _running, or
\* keeps the daemons it has.
StartRaises ==
    /\ pc = "starting"
    /\ spoiled' = IF running[cur] = Off THEN spoiled \cup {cur} ELSE spoiled
    /\ pc' = "each"
    /\ DoneWithOne
    /\ Misfortune
    /\ UNCHANGED <<settingsVars, sources, running, setVars, backoff, cycleVars, strays>>

\* SIGTERM, or SIGKILL after the grace: either way the task waits for the exit, the latest first.
KillOne(d) ==
    /\ pc = "kill"
    /\ d \in doomed
    /\ \A o \in doomed : o <= d
    /\ doomed' = doomed \ {d}
    /\ UNCHANGED <<settingsVars, sources, running, setVars, backoff, cycleVars, cur, then, pc,
                   strays, spoiled, trouble>>

\* All of them are gone.
Killed ==
    /\ pc = "kill"
    /\ doomed = {}
    /\ \/ /\ then \in {"down", "quit"}
          /\ pc' = "down"
          /\ UNCHANGED <<backoff, workVars>>
       \/ /\ then = "spawn"
          /\ pc' = "spawn"
          /\ UNCHANGED <<backoff, workVars>>
       \/ /\ then = "hold"
          /\ backoff' = backoff \cup {cur}
          /\ pc' = "each"
          /\ DoneWithOne
    /\ UNCHANGED <<settingsVars, sources, running, setVars, cycleVars, strays, spoiled, trouble>>

\* Too early for a launch, or no configuration to launch with.
SpawnNothing ==
    /\ pc = "spawn"
    /\ Launched(cur) = {}
    /\ cur \in backoff \/ rendered[cur] = Off
    /\ pc' = "each"
    /\ DoneWithOne
    /\ UNCHANGED <<settingsVars, sources, running, setVars, backoff, cycleVars,
                   strays, spoiled, trouble>>

\* The next daemon of the set is launched; after the last one the endpoint is up.
Launch ==
    /\ pc = "spawn"
    /\ Launched(cur) = {} => cur \notin backoff /\ rendered[cur] # Off
    /\ \E next \in Daemon :
        /\ Launched(cur) = 1 .. (next - 1)
        /\ procs' = [procs EXCEPT ![cur] =
                         [d \in 1 .. next |-> IF d = next THEN TRUE ELSE procs[cur][d]]]
        /\ IF next < Daemons THEN UNCHANGED <<pc, workVars>>
                              ELSE pc' = "each" /\ DoneWithOne
        /\ spoiled' = IF next = Daemons /\ rendered[cur] = running[cur]
                        THEN spoiled \ {cur} ELSE spoiled
    /\ loaded' = [loaded EXCEPT ![cur] = rendered[cur]]
    /\ UNCHANGED <<settingsVars, sources, running, backoff, cycleVars, strays, trouble>>

\* Mutant: the half-started set is kept.
LaunchFailsKeepsHalf ==
    /\ pc = "spawn"
    /\ Launched(cur) = {} => cur \notin backoff /\ rendered[cur] # Off
    /\ backoff' = backoff \cup {cur}
    /\ pc' = "each"
    /\ DoneWithOne
    /\ Misfortune
    /\ UNCHANGED <<settingsVars, sources, running, setVars, cycleVars, strays, spoiled>>

\* The launch fails (OSError): the half-started set is killed and the endpoint backs off.
LaunchFails ==
    /\ pc = "spawn"
    /\ Launched(cur) = {} => cur \notin backoff /\ rendered[cur] # Off
    /\ BeginKill(cur, "hold")
    /\ Misfortune
    /\ UNCHANGED <<settingsVars, sources, running, cycleVars, strays, spoiled>>

\* stop_source returned.
SourceDown ==
    /\ pc = "down"
    /\ sources' = sources \ {cur}
    /\ pc' = IF then = "down" THEN "stops" ELSE "shutdown"
    /\ DoneWithOne
    /\ UNCHANGED <<settingsVars, running, setVars, backoff, cycleVars, strays, spoiled, trouble>>

\* stop_source raised (a monitor that had died): the endpoint is out of _running already, so nobody
\* stops its source again, and the rest of the cycle is given up.
StopRaises ==
    /\ pc = "down"
    /\ then = "down"
    /\ spoiled' = spoiled \cup {cur}
    /\ pc' = "asleep"
    /\ DoneWithCycle
    /\ Misfortune
    /\ UNCHANGED <<settingsVars, sources, running, setVars, backoff, lastDesired, strays>>

-----------------------------------------------------------------------------
(* The server process ends and comes back.                                 *)

Quitting == pc = "shutdown" \/ (pc \in {"kill", "down"} /\ then = "quit")

\* SIGTERM: stop() cancels the task at whatever await it is.  A kill that is cancelled forgets the
\* daemons it had not waited for.
StopRequested ==
    /\ ~Quitting
    /\ pc # "exited"
    /\ strays' = strays \cup (IF pc = "kill" THEN {cur} \X doomed ELSE {})
    /\ DoneWithCycle
    /\ pc' = "shutdown"
    /\ Misfortune
    /\ UNCHANGED <<settingsVars, sources, running, setVars, backoff, lastDesired, spoiled>>

\* stop() takes down what is in _running.
ShutdownOne(e) ==
    /\ pc = "shutdown"
    /\ StopInstance(e, "quit")
    /\ UNCHANGED <<settingsVars, sources, cycleVars, strays, spoiled, trouble>>

\* Everything the process knew is gone.
ProcessEnds ==
    /\ sources' = {}
    /\ running' = [e \in Endpoint |-> Off]
    /\ procs' = [e \in Endpoint |-> NoProcs]
    /\ loaded' = [e \in Endpoint |-> Off]
    /\ backoff' = {}
    /\ lastDesired' = [e \in Endpoint |-> Off]
    /\ DoneWithCycle
    /\ pc' = "exited"

\* PlumSendspinServer.stop() stops the sources that are left, and the process ends.
Exit ==
    /\ pc = "shutdown"
    /\ \A e \in Endpoint : running[e] = Off
    /\ ProcessEnds
    /\ UNCHANGED <<settingsVars, strays, spoiled, trouble>>

\* The process dies; its daemons, in sessions of their own, do not.
Crash ==
    /\ pc # "exited"
    /\ strays' = strays \cup (UNION {{e} \X Alive(e) : e \in Endpoint})
                         \cup (IF cur = Off THEN {} ELSE {cur} \X doomed)
    /\ ProcessEnds
    /\ Misfortune
    /\ UNCHANGED <<settingsVars, spoiled>>

\* supervisord starts the server again; start() signals every daemon a previous run left behind and
\* does not wait for them to die.
Restart ==
    /\ pc = "exited"
    /\ pc' = "asleep"
    /\ spoiled' = {}
    /\ UNCHANGED <<settingsVars, sources, running, setVars, backoff, cycleVars, workVars,
                   strays, trouble>>

-----------------------------------------------------------------------------

Manager ==
    \/ BeginCycle \/ Render \/ EndCycle
    \/ Started \/ Killed \/ SpawnNothing \/ Launch \/ SourceDown \/ Exit \/ Restart
    \/ \E e \in Endpoint : StopUnwanted(e) \/ ReconcileOne(e) \/ ShutdownOne(e)
    \/ \E d \in Daemon : KillOne(d)

Failure == StartRaises \/ LaunchFails \/ StopRaises \/ StopRequested \/ Crash

Next ==
    \/ Manager
    \/ Failure
    \/ \E e \in Endpoint : SourceStoppedByApi(e) \/ BackoffElapses(e)
    \/ \E e \in Endpoint : \E c \in Config[e] \cup {Off} : EditEndpoint(e, c)
    \/ \E e \in Endpoint, d \in Daemon : DaemonExits(e, d) \/ StrayDies(e, d)

\* The loop runs its ready tasks, a wait for a process ends within the grace, time passes, and what
\* was signalled dies; nothing is assumed of users, daemons or failures.
Fairness ==
    /\ WF_vars(Manager)
    /\ \A e \in Endpoint : WF_vars(BackoffElapses(e))
    /\ \A e \in Endpoint, d \in Daemon : WF_vars(StrayDies(e, d))

Spec == Init /\ [][Next]_vars
FairSpec == Spec /\ Fairness

-----------------------------------------------------------------------------
(* Properties.                                                             *)

\* The daemons of an endpoint run the configuration _running says they do, through edits, respools,
\* backoffs, crashes and rebuilt sources, unless a step failed for that endpoint: "an edit always
\* lands on disk before the respool" (source_manager.py:167).
ConfigInForce ==
    \A e \in Endpoint : Launched(e) # {} /\ e \notin spoiled => loaded[e] = running[e]

\* No endpoint has the same daemon alive twice under one server process: they would fight for its
\* port, its bus name or its lock.
OneOfEach == cur # Off => Alive(cur) \cap doomed = {}

Healthy(e) ==
    /\ running[e] = wanted[e]
    /\ e \in sources
    /\ Alive(e) = Daemon

\* An edit, a failure or a stop of one endpoint never takes down the healthy daemons of another
\* (docs/TESTING.md, tier 2: "the other endpoints are untouched").
OthersUntouched ==
    [][\A e \in Endpoint : Healthy(e) /\ ~Quitting /\ pc' # "exited" /\ ~(pc = "starting" /\ cur = e)
          => Launched(e)' = Launched(e)]_vars

\* What the settings ask of an endpoint is what runs.
InForce(e) ==
    /\ running[e] = asked[e]
    /\ IF asked[e] = Off
         THEN Launched(e) = {} /\ e \notin sources
         ELSE Alive(e) = Daemon /\ loaded[e] = asked[e] /\ e \in sources

\* An endpoint the user leaves alone ends up as the settings say, however often others are edited
\* and whatever exited, failed to launch, was stopped behind the manager's back or crashed before;
\* but for the three failures nobody retries, which "spoiled" records.
FollowsSettings ==
    \A e \in Endpoint : \A c \in Config[e] \cup {Off} :
        <>[](asked[e] = c) => <>[](InForce(e) \/ e \in spoiled)
=============================================================================
