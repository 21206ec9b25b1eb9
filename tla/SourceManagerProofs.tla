------------------------ MODULE SourceManagerProofs ------------------------
(***************************************************************************)
(* Proofs about the source manager of a unit (Manage, an instance of       *)
(* SourceManager) for any endpoints, configurations and number of daemons: *)
(* what runs is what _running says, no daemon is launched beside one that  *)
(* is still being killed, and work on one endpoint leaves the healthy      *)
(* daemons of the others alone.                                            *)
(***************************************************************************)
EXTENDS UnitServices, TLAPS

Blank == [e \in Endpoint |-> Off]

\* The loop over the endpoints, after the render.
InLoop == \/ sourcePc \in {"each", "starting", "spawn"}
          \/ (sourcePc = "kill" /\ sourceThen \in {"spawn", "hold"})

\* There is an endpoint in work exactly while the task awaits something of it.
AtWork == /\ sourceCur # Off <=> sourcePc \in {"starting", "kill", "spawn", "down"}
          /\ sourcePc = "starting" => sourceThen \in {"register", "repoint"}
          /\ sourcePc = "kill" => sourceThen \in {"down", "quit", "spawn", "hold"}
          /\ sourcePc = "down" => sourceThen \in {"down", "quit"}

\* An endpoint that is out of _running has no daemons, and a server that has ended nothing at all.
NothingOwned == \A e \in Endpoint : sourceRunning[e] = Off => sourceProcs[e] = Manage!NoProcs
Ended == sourcePc = "exited" => sourceRunning = Blank /\ sourceLastDesired = Blank

\* A set that is being killed has been forgotten, and outside a kill nothing is waited for.
Killing == /\ sourcePc = "kill" => sourceProcs[sourceCur] = Manage!NoProcs
           /\ sourcePc # "kill" => sourceDoomed = {}

\* What is registered was not running; what is spawned runs as this cycle wants it, and is not complete.
Starting == sourcePc = "starting" =>
                /\ sourceWanted[sourceCur] # Off
                /\ sourceRunning[sourceCur] =
                       IF sourceThen = "register" THEN Off ELSE sourceWanted[sourceCur]
Spawning == /\ sourcePc = "spawn" => Manage!Launched(sourceCur) # Manage!Daemon
            /\ sourcePc = "spawn" \/ (sourcePc = "kill" /\ sourceThen = "spawn") =>
                   sourceRunning[sourceCur] = sourceWanted[sourceCur] /\ sourceWanted[sourceCur] # Off

\* A file is that of the last render, which is what this cycle wants.
OnDisk  == \A e \in Endpoint \ sourceSpoiled :
               sourceLastDesired[e] # Off => sourceRendered[e] = sourceLastDesired[e]
Desired == InLoop => sourceLastDesired = sourceWanted
Left    == /\ \A e \in sourceLeft : sourceWanted[e] # Off
           /\ ~InLoop => sourceLeft = {}

IInv == /\ Manage!TypeOK /\ AtWork /\ NothingOwned /\ Ended /\ Killing /\ Starting /\ Spawning
        /\ OnDisk /\ Desired /\ Left /\ Manage!ConfigInForce

-----------------------------------------------------------------------------
(* Settings.                                                               *)

\* Nothing configured is a setting, and a setting gives each endpoint one of its configurations, or none.
LEMMA SettingFacts ==
  /\ Blank \in Manage!Setting
  /\ \A f \in Manage!Setting : DOMAIN f = Endpoint /\ \A e \in Endpoint : f[e] \in Config[e] \cup {Off}
<1>1. Blank \in [Endpoint -> (UNION Manage!Range(Config)) \cup {Off}]
  BY DEF Blank
<1>2. \A e \in Endpoint : Blank[e] \in Config[e] \cup {Off}
  BY DEF Blank
<1> QED
  BY <1>1, <1>2 DEF Manage!Setting

\* An endpoint is given one of its configurations, or none.
LEMMA SettingExcept ==
  ASSUME NEW f \in Manage!Setting, NEW e \in Endpoint, NEW c \in Config[e] \cup {Off}
  PROVE  [f EXCEPT ![e] = c] \in Manage!Setting
<1>1. c \in (UNION Manage!Range(Config)) \cup {Off}
  <2>1. Config[e] \in Manage!Range(Config)
    BY ManagerAssumption DEF Manage!Range
  <2>2. CASE c = Off
    BY <2>2
  <2>3. CASE c \in Config[e]
    BY <2>1, <2>3, Zenon
  <2> QED
    BY <2>2, <2>3
<1> QED
  BY <1>1 DEF Manage!Setting

\* An endpoint has at least one daemon.
LEMMA DaemonNotEmpty == Manage!Daemon # {}
<1> 1 \in Manage!Daemon
  BY ManagerAssumption DEF Manage!Daemon
<1> QED
  OBVIOUS

\* A set of which nothing was launched is a fleet, and stays one when a daemon of it exits.
LEMMA FleetFacts ==
  /\ Manage!NoProcs \in Manage!Fleet
  /\ \A f \in Manage!Fleet : DOMAIN f \subseteq Manage!Daemon /\ \A d \in DOMAIN f : f[d] \in BOOLEAN
  /\ \A f \in Manage!Fleet : \A d : [f EXCEPT ![d] = FALSE] \in Manage!Fleet
<1>1. Manage!NoProcs \in Manage!Fleet
  <2>1. 0 \in 0 .. Daemons /\ Manage!NoProcs \in [1 .. 0 -> BOOLEAN]
    BY ManagerAssumption DEF Manage!NoProcs
  <2> QED
    BY <2>1 DEF Manage!Fleet
<1>2. \A f \in Manage!Fleet : DOMAIN f \subseteq Manage!Daemon /\ \A d \in DOMAIN f : f[d] \in BOOLEAN
  BY ManagerAssumption DEF Manage!Fleet, Manage!Daemon
<1>3. ASSUME NEW f \in Manage!Fleet, NEW d PROVE [f EXCEPT ![d] = FALSE] \in Manage!Fleet
  <2>1. PICK n \in 0 .. Daemons : f \in [1 .. n -> BOOLEAN]
    BY DEF Manage!Fleet
  <2>2. [f EXCEPT ![d] = FALSE] \in [1 .. n -> BOOLEAN]
    BY <2>1
  <2> QED
    BY <2>2 DEF Manage!Fleet
<1> QED
  BY <1>1, <1>2, <1>3

\* A set stays one when the next daemon is launched.
LEMMA LaunchNext ==
  ASSUME NEW f \in Manage!Fleet, NEW next \in Manage!Daemon, DOMAIN f = 1 .. (next - 1)
  PROVE  [d \in 1 .. next |-> IF d = next THEN TRUE ELSE f[d]] \in Manage!Fleet
<1>1. next \in 0 .. Daemons /\ next \in Nat
  BY ManagerAssumption DEF Manage!Daemon
<1>2. ASSUME NEW d \in 1 .. next PROVE (IF d = next THEN TRUE ELSE f[d]) \in BOOLEAN
  <2> SUFFICES ASSUME d # next PROVE f[d] \in BOOLEAN
    OBVIOUS
  <2>1. d \in DOMAIN f
    BY <1>1
  <2> QED
    BY <2>1, FleetFacts
<1>3. [d \in 1 .. next |-> IF d = next THEN TRUE ELSE f[d]] \in [1 .. next -> BOOLEAN]
  BY <1>2
<1> QED
  BY <1>1, <1>3 DEF Manage!Fleet

-----------------------------------------------------------------------------
(* Type correctness.                                                       *)

Then == {"down", "quit", "spawn", "hold", "register", "repoint", Off}

\* A kill, and a stop that begins with one, keep the types of what they assign.
LEMMA KillTypes ==
  ASSUME Manage!TypeOK, NEW e \in Endpoint, NEW next \in Then, Manage!BeginKill(e, next)
  PROVE  /\ sourceProcs' \in [Endpoint -> Manage!Fleet]
         /\ sourceLoaded' \in Manage!Setting
         /\ sourceBackoff' \subseteq Endpoint
         /\ sourceCur' \in Endpoint \cup {Off}
         /\ sourceDoomed' \subseteq Manage!Daemon
         /\ sourceThen' \in Then
         /\ sourcePc' \in Manage!Label
<1>1. sourceProcs' \in [Endpoint -> Manage!Fleet]
  BY FleetFacts DEF Manage!TypeOK, Manage!BeginKill
<1>2. sourceLoaded' \in Manage!Setting
  BY SettingExcept DEF Manage!TypeOK, Manage!BeginKill
<1>3. sourceDoomed' \subseteq Manage!Daemon
  BY FleetFacts DEF Manage!TypeOK, Manage!BeginKill, Manage!Alive, Manage!Launched
<1> QED
  BY <1>1, <1>2, <1>3 DEF Manage!TypeOK, Manage!BeginKill, Manage!Label

\* So does the stop that a kill is part of.
LEMMA StopTypes ==
  ASSUME Manage!TypeOK, NEW e \in Endpoint, NEW next \in Then, Manage!StopInstance(e, next)
  PROVE  sourceRunning' \in Manage!Setting
BY SettingExcept DEF Manage!TypeOK, Manage!StopInstance

\* Leaving an endpoint, leaving a cycle and counting a misfortune keep the types.
LEMMA ForgetTypes ==
  ASSUME Manage!TypeOK
  PROVE  /\ Manage!DoneWithOne =>
              /\ sourceCur' \in Endpoint \cup {Off}
              /\ sourceDoomed' \subseteq Manage!Daemon /\ sourceThen' \in Then
         /\ Manage!DoneWithCycle =>
              Manage!DoneWithOne /\ sourceWanted' \in Manage!Setting /\ sourceLeft' \subseteq Endpoint
         /\ Manage!Misfortune => sourceTrouble' \in 0 .. MaxTrouble
BY SettingFacts, ManagerAssumption
   DEF Manage!TypeOK, Manage!DoneWithOne, Manage!DoneWithCycle, Manage!Misfortune, Then, Blank

\* The types hold at the start.
LEMMA TypeInit == Manage!Init => Manage!TypeOK
BY SettingFacts, FleetFacts, ManagerAssumption DEF Manage!Init, Manage!TypeOK, Manage!Label, Blank

\* Every step keeps the types.
LEMMA TypeStep == ASSUME Manage!TypeOK, AtWork, Spawning, [Manage!Next]_sourceVars PROVE Manage!TypeOK'
<1> USE ManagerAssumption, ForgetTypes DEF Manage!TypeOK, Manage!Label, Then
<1>1. ASSUME NEW e \in Endpoint, NEW c \in Config[e] \cup {Off}, Manage!EditEndpoint(e, c)
      PROVE  Manage!TypeOK'
  BY <1>1, SettingExcept DEF Manage!EditEndpoint, Manage!setVars, Manage!cycleVars, Manage!workVars
<1>2. ASSUME NEW e \in Endpoint, NEW d \in Manage!Daemon, Manage!DaemonExits(e, d) PROVE Manage!TypeOK'
  <2>1. sourceProcs' \in [Endpoint -> Manage!Fleet]
    <3>1. sourceProcs' = [sourceProcs EXCEPT ![e] = [sourceProcs[e] EXCEPT ![d] = FALSE]]
      BY <1>2 DEF Manage!DaemonExits
    <3>2. [sourceProcs[e] EXCEPT ![d] = FALSE] \in Manage!Fleet
      BY FleetFacts
    <3> QED
      BY <3>1, <3>2
  <2> QED
    BY <1>2, <2>1 DEF Manage!DaemonExits, Manage!settingsVars, Manage!cycleVars, Manage!workVars
<1>3. ASSUME NEW e \in Endpoint, Manage!SourceStoppedByApi(e) PROVE Manage!TypeOK'
  BY <1>3
     DEF Manage!SourceStoppedByApi, Manage!settingsVars, Manage!setVars, Manage!cycleVars, Manage!workVars
<1>4. ASSUME NEW e \in Endpoint, Manage!BackoffElapses(e) PROVE Manage!TypeOK'
  BY <1>4 DEF Manage!BackoffElapses, Manage!settingsVars, Manage!setVars, Manage!cycleVars, Manage!workVars
<1>5. ASSUME NEW e \in Endpoint, NEW d \in Manage!Daemon, Manage!StrayDies(e, d) PROVE Manage!TypeOK'
  BY <1>5 DEF Manage!StrayDies, Manage!settingsVars, Manage!setVars, Manage!cycleVars, Manage!workVars
<1>6. CASE Manage!BeginCycle
  BY <1>6 DEF Manage!BeginCycle, Manage!settingsVars, Manage!setVars, Manage!workVars
<1>7. ASSUME NEW e \in Endpoint, Manage!StopUnwanted(e) PROVE Manage!TypeOK'
  BY <1>7, KillTypes, StopTypes
     DEF Manage!StopUnwanted, Manage!StopInstance, Manage!settingsVars, Manage!cycleVars
<1>8. CASE Manage!Render
  <2>1. /\ sourceRendered' \in Manage!Setting
        /\ sourceSpoiled' \subseteq Endpoint
        /\ sourceTrouble' \in 0 .. MaxTrouble
    <3>1. CASE sourceWanted = sourceLastDesired
      BY <1>8, <3>1 DEF Manage!Render
    <3>2. CASE sourceWanted # sourceLastDesired
      <4>1. PICK written \in SUBSET Manage!Enabled :
              /\ sourceRendered' = [e \in Endpoint |->
                                      IF e \in written THEN sourceWanted[e] ELSE sourceRendered[e]]
              /\ sourceSpoiled' = sourceSpoiled
                     \cup {e \in Manage!Enabled : sourceRendered'[e] # sourceWanted[e]}
              /\ IF written = Manage!Enabled THEN UNCHANGED sourceTrouble ELSE Manage!Misfortune
        BY <1>8, <3>2 DEF Manage!Render
      <4>2. sourceRendered' \in Manage!Setting
        BY <4>1 DEF Manage!Setting
      <4> QED
        BY <4>1, <4>2 DEF Manage!Enabled
    <3> QED
      BY <3>1, <3>2
  <2> QED
    BY <1>8, <2>1 DEF Manage!Render, Manage!setVars, Manage!workVars, Manage!Enabled
<1>9. ASSUME NEW e \in Endpoint, Manage!ReconcileOne(e) PROVE Manage!TypeOK'
  <2>1. CASE Manage!StartInstance(e)
    BY <1>9, <2>1 DEF Manage!ReconcileOne, Manage!StartInstance, Manage!settingsVars, Manage!setVars
  <2>2. CASE Manage!Respool(e)
    <3>1. sourceRunning' \in Manage!Setting
      BY <2>2, SettingExcept, SettingFacts DEF Manage!Respool
    <3> QED
      BY <1>9, <2>2, <3>1, KillTypes DEF Manage!ReconcileOne, Manage!Respool, Manage!settingsVars
  <2>3. CASE Manage!Rebuild(e)
    BY <1>9, <2>3 DEF Manage!ReconcileOne, Manage!Rebuild, Manage!settingsVars, Manage!setVars
  <2>4. CASE Manage!Reap(e)
    BY <1>9, <2>4, KillTypes DEF Manage!ReconcileOne, Manage!Reap, Manage!settingsVars
  <2>5. CASE Manage!LaunchAgain(e)
    BY <1>9, <2>5 DEF Manage!ReconcileOne, Manage!LaunchAgain, Manage!settingsVars, Manage!setVars
  <2>6. CASE Manage!LeaveRunning(e)
    BY <1>9, <2>6
       DEF Manage!ReconcileOne, Manage!LeaveRunning, Manage!settingsVars, Manage!setVars, Manage!workVars
  <2> QED
    BY <1>9, <2>1, <2>2, <2>3, <2>4, <2>5, <2>6 DEF Manage!ReconcileOne
<1>10. CASE Manage!EndCycle
  BY <1>10 DEF Manage!EndCycle, Manage!settingsVars, Manage!setVars
<1>11. CASE Manage!Started
  <2>1. sourceCur \in Endpoint
    BY <1>11 DEF Manage!Started, AtWork
  <2>2. CASE sourceThen = "register"
    <3>1. sourceRunning' \in Manage!Setting
      BY <1>11, <2>1, <2>2, SettingExcept, SettingFacts DEF Manage!Started
    <3> QED
      BY <1>11, <2>1, <2>2, <3>1 DEF Manage!Started, Manage!settingsVars, Manage!setVars, Manage!cycleVars
  <2>3. CASE sourceThen = "repoint"
    BY <1>11, <2>1, <2>3, KillTypes DEF Manage!Started, Manage!settingsVars, Manage!cycleVars
  <2> QED
    BY <1>11, <2>2, <2>3 DEF Manage!Started
<1>12. CASE Manage!StartRaises
  <2>1. sourceSpoiled' \subseteq Endpoint
    BY <1>12 DEF Manage!StartRaises, AtWork
  <2> QED
    BY <1>12, <2>1 DEF Manage!StartRaises, Manage!settingsVars, Manage!setVars, Manage!cycleVars
<1>13. ASSUME NEW d \in Manage!Daemon, Manage!KillOne(d) PROVE Manage!TypeOK'
  BY <1>13 DEF Manage!KillOne, Manage!settingsVars, Manage!setVars, Manage!cycleVars
<1>14. CASE Manage!Killed
  <2>1. sourceBackoff' \subseteq Endpoint
    BY <1>14 DEF Manage!Killed, AtWork
  <2> QED
    BY <1>14, <2>1 DEF Manage!Killed, Manage!settingsVars, Manage!setVars, Manage!cycleVars, Manage!workVars
<1>15. CASE Manage!SpawnNothing
  BY <1>15 DEF Manage!SpawnNothing, Manage!settingsVars, Manage!setVars, Manage!cycleVars
<1>16. CASE Manage!Launch
  <2>0. PICK next \in Manage!Daemon :
               /\ Manage!Launched(sourceCur) = 1 .. (next - 1)
               /\ sourceProcs' = [sourceProcs EXCEPT ![sourceCur] =
                     [d \in 1 .. next |-> IF d = next THEN TRUE ELSE sourceProcs[sourceCur][d]]]
    BY <1>16 DEF Manage!Launch
  <2> DEFINE grown == [d \in 1 .. next |-> IF d = next THEN TRUE ELSE sourceProcs[sourceCur][d]]
  <2>1. sourceCur \in Endpoint
    BY <1>16 DEF Manage!Launch, AtWork
  <2>2. grown \in Manage!Fleet
    BY <2>0, <2>1, LaunchNext DEF Manage!Launched
  <2>3. sourceProcs' \in [Endpoint -> Manage!Fleet]
    <3>1. sourceProcs' = [sourceProcs EXCEPT ![sourceCur] = grown]
      BY <2>0
    <3> HIDE DEF grown
    <3> QED
      BY <2>2, <3>1
  <2>4. sourceLoaded' \in Manage!Setting
    BY <1>16, <2>1, SettingExcept, SettingFacts DEF Manage!Launch
  <2>5. /\ sourcePc' \in Manage!Label
        /\ sourceCur' \in Endpoint \cup {Off}
        /\ sourceDoomed' \subseteq Manage!Daemon
        /\ sourceThen' \in Then
    BY <1>16 DEF Manage!Launch, Manage!workVars
  <2>6. sourceSpoiled' \subseteq Endpoint
    BY <1>16 DEF Manage!Launch
  <2> QED
    BY <1>16, <2>3, <2>4, <2>5, <2>6 DEF Manage!Launch, Manage!settingsVars, Manage!cycleVars
<1>17. CASE Manage!LaunchFails
  <2>1. sourceCur \in Endpoint
    BY <1>17 DEF Manage!LaunchFails, AtWork
  <2> QED
    BY <1>17, <2>1, KillTypes DEF Manage!LaunchFails, Manage!settingsVars, Manage!cycleVars
<1>18. CASE Manage!SourceDown
  BY <1>18 DEF Manage!SourceDown, Manage!settingsVars, Manage!setVars, Manage!cycleVars
<1>19. CASE Manage!StopRaises
  <2>1. sourceSpoiled' \subseteq Endpoint
    BY <1>19 DEF Manage!StopRaises, AtWork
  <2> QED
    BY <1>19, <2>1 DEF Manage!StopRaises, Manage!settingsVars, Manage!setVars
<1>20. CASE Manage!StopRequested
  <2>1. sourceStrays' \subseteq Endpoint \X Manage!Daemon
    <3>1. CASE sourcePc = "kill"
      BY <1>20, <3>1 DEF Manage!StopRequested, AtWork
    <3>2. CASE sourcePc # "kill"
      BY <1>20, <3>2 DEF Manage!StopRequested
    <3> QED
      BY <3>1, <3>2
  <2> QED
    BY <1>20, <2>1 DEF Manage!StopRequested, Manage!settingsVars, Manage!setVars
<1>21. ASSUME NEW e \in Endpoint, Manage!ShutdownOne(e) PROVE Manage!TypeOK'
  BY <1>21, KillTypes, StopTypes
     DEF Manage!ShutdownOne, Manage!StopInstance, Manage!settingsVars, Manage!cycleVars
<1>22. ASSUME Manage!ProcessEnds
       PROVE  /\ sourceSources' \subseteq Endpoint
              /\ sourceRunning' \in Manage!Setting
              /\ sourceLoaded' \in Manage!Setting
              /\ sourceBackoff' \subseteq Endpoint
              /\ sourceLastDesired' \in Manage!Setting
              /\ sourceWanted' \in Manage!Setting
              /\ sourceProcs' \in [Endpoint -> Manage!Fleet]
              /\ sourceLeft' \subseteq Endpoint
              /\ sourcePc' \in Manage!Label
              /\ sourceCur' \in Endpoint \cup {Off}
              /\ sourceDoomed' \subseteq Manage!Daemon
              /\ sourceThen' \in Then
  BY <1>22, SettingFacts, FleetFacts DEF Manage!ProcessEnds, Blank
<1>23. CASE Manage!Exit
  BY <1>22, <1>23 DEF Manage!Exit, Manage!settingsVars
<1>24. CASE Manage!Crash
  <2>1. sourceStrays' \subseteq Endpoint \X Manage!Daemon
    <3>1. \A e \in Endpoint : {e} \X Manage!Alive(e) \subseteq Endpoint \X Manage!Daemon
      BY FleetFacts DEF Manage!Alive, Manage!Launched
    <3>2. sourceCur # Off => {sourceCur} \X sourceDoomed \subseteq Endpoint \X Manage!Daemon
      OBVIOUS
    <3> QED
      BY <1>24, <3>1, <3>2 DEF Manage!Crash
  <2> QED
    BY <1>22, <1>24, <2>1 DEF Manage!Crash, Manage!settingsVars
<1>25. CASE Manage!Restart
  BY <1>25 DEF Manage!Restart, Manage!settingsVars, Manage!setVars, Manage!cycleVars, Manage!workVars
<1>26. CASE UNCHANGED sourceVars
  BY <1>26 DEF sourceVars, Manage!settingsVars, Manage!setVars, Manage!cycleVars, Manage!workVars
<1> QED
  BY <1>1, <1>2, <1>3, <1>4, <1>5, <1>6, <1>7, <1>8, <1>9, <1>10, <1>11, <1>12, <1>13, <1>14,
     <1>15, <1>16, <1>17, <1>18, <1>19, <1>20, <1>21, <1>23, <1>24, <1>25, <1>26
  DEF Manage!Next, Manage!Manager, Manage!Failure

-----------------------------------------------------------------------------
(* The invariant.                                                          *)

\* What happens around the manager: settings are edited, daemons and strays die, sources are stopped.
World ==
    \/ \E e \in Endpoint : Manage!SourceStoppedByApi(e) \/ Manage!BackoffElapses(e)
    \/ \E e \in Endpoint : \E c \in Config[e] \cup {Off} : Manage!EditEndpoint(e, c)
    \/ \E e \in Endpoint, d \in Manage!Daemon : Manage!DaemonExits(e, d) \/ Manage!StrayDies(e, d)

\* None of it touches what the manager has recorded or is working on.
LEMMA WorldKeeps ==
  ASSUME Manage!TypeOK, World
  PROVE  /\ UNCHANGED <<sourceRendered, sourceRunning, sourceLoaded, Manage!cycleVars>>
         /\ UNCHANGED <<Manage!workVars, sourcePc, sourceSpoiled>>
         /\ \A e \in Endpoint : /\ Manage!Launched(e)' = Manage!Launched(e)
                                /\ sourceProcs[e] = Manage!NoProcs => sourceProcs'[e] = Manage!NoProcs
<1>1. CASE UNCHANGED sourceProcs
  BY <1>1
     DEF World, Manage!EditEndpoint, Manage!DaemonExits, Manage!SourceStoppedByApi,
         Manage!BackoffElapses, Manage!StrayDies, Manage!Launched,
     Manage!settingsVars, Manage!setVars, Manage!cycleVars, Manage!workVars
<1>2. ASSUME NEW e \in Endpoint, NEW d \in Manage!Daemon, Manage!DaemonExits(e, d)
      PROVE  /\ UNCHANGED <<sourceRendered, sourceRunning, sourceLoaded, Manage!cycleVars>>
             /\ UNCHANGED <<Manage!workVars, sourcePc, sourceSpoiled>>
             /\ \A o \in Endpoint : /\ Manage!Launched(o)' = Manage!Launched(o)
                                    /\ sourceProcs[o] = Manage!NoProcs => sourceProcs'[o] = Manage!NoProcs
  BY <1>2
     DEF Manage!DaemonExits, Manage!TypeOK, Manage!Alive, Manage!Launched, Manage!NoProcs,
         Manage!settingsVars, Manage!cycleVars, Manage!workVars
<1> QED
  BY <1>1, <1>2
     DEF World, Manage!EditEndpoint, Manage!SourceStoppedByApi, Manage!BackoffElapses, Manage!StrayDies,
         Manage!setVars

\* The invariant survives every step.  What carries it: nothing is launched but as the cycle wants it
\* (Starting, Spawning), what the cycle wants is what was rendered last (Desired), and that is on disk for
\* every endpoint no step failed for (OnDisk).
LEMMA InvStep == ASSUME IInv, Manage!TypeOK', [Manage!Next]_sourceVars PROVE IInv'
<1> USE ManagerAssumption, SettingFacts, DaemonNotEmpty
    DEF IInv, Manage!TypeOK, AtWork, NothingOwned, Ended, Killing, Starting, Spawning, OnDisk, Desired,
        Left, Manage!ConfigInForce,
        InLoop, Manage!Launched, Manage!NoProcs, Blank, Manage!settingsVars,
        Manage!setVars, Manage!cycleVars, Manage!workVars
<1>1. CASE Manage!BeginCycle
  BY <1>1 DEF Manage!BeginCycle
<1>2. ASSUME NEW e \in Endpoint, Manage!StopUnwanted(e) PROVE IInv'
  BY <1>2 DEF Manage!StopUnwanted, Manage!StopInstance, Manage!BeginKill, Manage!Alive
<1>3. CASE Manage!Render
  BY <1>3 DEF Manage!Render, Manage!Enabled, Manage!Unwanted
<1>4. ASSUME NEW e \in Endpoint, Manage!ReconcileOne(e), Manage!StartInstance(e) PROVE IInv'
  BY <1>4 DEF Manage!ReconcileOne, Manage!StartInstance
<1>5. ASSUME NEW e \in Endpoint, Manage!ReconcileOne(e), Manage!Respool(e) PROVE IInv'
  BY <1>5 DEF Manage!ReconcileOne, Manage!Respool, Manage!BeginKill, Manage!Alive
<1>6. ASSUME NEW e \in Endpoint, Manage!ReconcileOne(e), Manage!Rebuild(e) PROVE IInv'
  BY <1>6 DEF Manage!ReconcileOne, Manage!Rebuild
<1>7. ASSUME NEW e \in Endpoint, Manage!ReconcileOne(e), Manage!Reap(e) PROVE IInv'
  BY <1>7 DEF Manage!ReconcileOne, Manage!Reap, Manage!BeginKill, Manage!Alive
<1>8. ASSUME NEW e \in Endpoint, Manage!ReconcileOne(e), Manage!LaunchAgain(e) PROVE IInv'
  BY <1>8 DEF Manage!ReconcileOne, Manage!LaunchAgain
<1>9. ASSUME NEW e \in Endpoint, Manage!ReconcileOne(e), Manage!LeaveRunning(e) PROVE IInv'
  BY <1>9 DEF Manage!ReconcileOne, Manage!LeaveRunning
<1>10. CASE Manage!EndCycle
  BY <1>10 DEF Manage!EndCycle, Manage!DoneWithOne, Manage!DoneWithCycle
<1>11. CASE Manage!Started
  BY <1>11 DEF Manage!Started, Manage!BeginKill, Manage!Alive
<1>12. CASE Manage!StartRaises
  BY <1>12 DEF Manage!StartRaises, Manage!DoneWithOne, Manage!DoneWithCycle
<1>13. ASSUME NEW d \in Manage!Daemon, Manage!KillOne(d) PROVE IInv'
  BY <1>13 DEF Manage!KillOne
<1>14. CASE Manage!Killed
  BY <1>14 DEF Manage!Killed, Manage!DoneWithOne, Manage!DoneWithCycle
<1>15. CASE Manage!SpawnNothing
  BY <1>15 DEF Manage!SpawnNothing, Manage!DoneWithOne, Manage!DoneWithCycle
<1>16. CASE Manage!Launch
  <2>1. AtWork' /\ Ended' /\ Killing' /\ Starting' /\ Desired' /\ Left'
    BY <1>16 DEF Manage!Launch, Manage!DoneWithOne, Manage!DoneWithCycle
  <2>2. NothingOwned'
    BY <1>16 DEF Manage!Launch, Manage!DoneWithOne, Manage!DoneWithCycle
  <2>3. Spawning'
    <3>1. CASE sourcePc' = "spawn"
      <4>1. PICK next \in Manage!Daemon :
                   /\ sourceProcs' = [sourceProcs EXCEPT ![sourceCur] =
                         [d \in 1 .. next |-> IF d = next THEN TRUE ELSE sourceProcs[sourceCur][d]]]
                   /\ next < Daemons
        BY <1>16, <3>1 DEF Manage!Launch
      <4>2. /\ sourceCur \in Endpoint
            /\ UNCHANGED <<sourceCur, sourcePc, sourceThen, sourceRunning, sourceWanted>>
        BY <1>16, <3>1 DEF Manage!Launch, Manage!workVars
      <4>3. Manage!Launched(sourceCur)' = 1 .. next
        BY <4>1, <4>2 DEF Manage!Launched
      <4>4. Manage!Launched(sourceCur)' # Manage!Daemon
        <5>1. Daemons \in Manage!Daemon /\ Daemons \notin 1 .. next
          BY <4>1, ManagerAssumption DEF Manage!Daemon
        <5> QED
          BY <4>3, <5>1
      <4> QED
        BY <1>16, <4>2, <4>4 DEF Manage!Launch
    <3>2. CASE sourcePc' # "spawn"
      BY <1>16, <3>2 DEF Manage!Launch
    <3> QED
      BY <3>1, <3>2
  <2>4. OnDisk'
    BY <1>16 DEF Manage!Launch, Manage!DoneWithOne, Manage!DoneWithCycle
  <2>5. Manage!ConfigInForce'
    BY <1>16 DEF Manage!Launch, Manage!DoneWithOne, Manage!DoneWithCycle
  <2> QED
    BY <2>1, <2>2, <2>3, <2>4, <2>5
<1>17. CASE Manage!LaunchFails
  BY <1>17 DEF Manage!LaunchFails, Manage!BeginKill, Manage!Alive
<1>18. CASE Manage!SourceDown
  BY <1>18 DEF Manage!SourceDown, Manage!DoneWithOne, Manage!DoneWithCycle
<1>19. CASE Manage!StopRaises
  BY <1>19 DEF Manage!StopRaises, Manage!DoneWithOne, Manage!DoneWithCycle
<1>20. CASE Manage!StopRequested
  BY <1>20 DEF Manage!StopRequested, Manage!DoneWithOne, Manage!DoneWithCycle
<1>21. ASSUME NEW e \in Endpoint, Manage!ShutdownOne(e) PROVE IInv'
  BY <1>21 DEF Manage!ShutdownOne, Manage!StopInstance, Manage!BeginKill, Manage!Alive
<1>22. CASE Manage!Exit
  BY <1>22 DEF Manage!Exit, Manage!ProcessEnds, Manage!DoneWithOne, Manage!DoneWithCycle
<1>23. CASE Manage!Crash
  BY <1>23 DEF Manage!Crash, Manage!ProcessEnds, Manage!DoneWithOne, Manage!DoneWithCycle
<1>24. CASE Manage!Restart
  BY <1>24 DEF Manage!Restart
<1>25. CASE World
  <2>1. /\ UNCHANGED <<sourceRendered, sourceRunning, sourceLoaded, Manage!cycleVars>>
        /\ UNCHANGED <<Manage!workVars, sourcePc, sourceSpoiled>>
        /\ \A e \in Endpoint : /\ Manage!Launched(e)' = Manage!Launched(e)
                               /\ sourceProcs[e] = Manage!NoProcs => sourceProcs'[e] = Manage!NoProcs
    BY <1>25, WorldKeeps
  <2> QED
    BY <2>1
<1>26. CASE UNCHANGED sourceVars
  BY <1>26 DEF sourceVars
<1> QED
  BY <1>1, <1>2, <1>3, <1>4, <1>5, <1>6, <1>7, <1>8, <1>9, <1>10, <1>11, <1>12, <1>13, <1>14, <1>15, <1>16,
     <1>17, <1>18, <1>19, <1>20, <1>21, <1>22, <1>23, <1>24, <1>25, <1>26
  DEF Manage!Next, Manage!Manager, Manage!Failure, World, Manage!ReconcileOne

\* Nothing runs at the start, so nothing runs wrongly.
LEMMA InvInit == Manage!Init => IInv
<1> SUFFICES ASSUME Manage!Init PROVE IInv
  OBVIOUS
<1>1. Manage!TypeOK
  BY TypeInit
<1>2. \A e \in Endpoint : /\ sourceProcs[e] = Manage!NoProcs /\ Manage!Launched(e) = {}
                          /\ sourceRunning[e] = Off /\ sourceLastDesired[e] = Off
  BY DEF Manage!Init, Manage!Launched, Manage!NoProcs
<1> QED
  BY <1>1, <1>2
     DEF IInv, Manage!Init, AtWork, NothingOwned, Ended, Killing, Starting, Spawning, OnDisk, Desired, InLoop,
     Left, Manage!ConfigInForce

\* The manager takes its own steps or rests, whatever service a unit's step is of.
LEMMA ManageSteps == [UnitNext]_unitVars => [Manage!Next]_sourceVars
BY DEF UnitNext, ToneNext, ManageNext, LoudNext, StoreNext, RecordNext, PeerNext, PhoneNext, unitVars

\* The invariant holds throughout: of the cycle's every await, and of whatever fails, stops or crashes at it.
THEOREM Invariance == UnitSpec => []IInv
<1>1. IInv /\ [Manage!Next]_sourceVars => IInv'
  BY TypeStep, InvStep DEF IInv
<1>2. UnitInit => Manage!Init
  BY DEF UnitInit
<1> QED
  BY InvInit, <1>1, <1>2, ManageSteps, PTL DEF UnitSpec

\* Every variable of the manager keeps its type, daemons are launched in order, and an endpoint is only ever
\* given a configuration of its own.
THEOREM TypeCorrect == UnitSpec => []Manage!TypeOK
BY Invariance, PTL DEF IInv

\* The daemons of an endpoint run the configuration that _running holds for it, unless a step failed for that
\* endpoint: a respool (source_manager.py, _reconcile) always finds the edit on disk.
THEOREM RunsWhatIsRecorded == UnitSpec => []ConfigInForce
BY Invariance, PTL DEF IInv, ConfigInForce

\* No daemon is launched beside the one of the same endpoint that _kill_daemons still waits for.
THEOREM NoDaemonTwice == UnitSpec => []OneOfEach
<1>1. IInv => OneOfEach
  BY DEF IInv, Killing, OneOfEach, Manage!OneOfEach, Manage!Alive, Manage!Launched, Manage!NoProcs
<1> QED
  BY <1>1, Invariance, PTL

-----------------------------------------------------------------------------
(* Work on one endpoint and the daemons of another.                        *)

\* Whose daemons all run has none to reap and none to launch.
LEMMA HealthyIsComplete ==
  ASSUME Manage!TypeOK, NEW e \in Endpoint, Manage!Healthy(e)
  PROVE  /\ Manage!Launched(e) = Manage!Daemon /\ Manage!Alive(e) = Manage!Launched(e)
         /\ sourceRunning[e] = sourceWanted[e]
BY FleetFacts DEF Manage!TypeOK, Manage!Healthy, Manage!Alive, Manage!Launched

\* A kill forgets the daemons of its own endpoint only.
LEMMA KillIsLocal ==
  ASSUME Manage!TypeOK, NEW x \in Endpoint, NEW next, Manage!BeginKill(x, next), NEW e \in Endpoint, e # x
  PROVE  Manage!Launched(e)' = Manage!Launched(e)
BY DEF Manage!TypeOK, Manage!BeginKill, Manage!Launched

\* The step itself: only a kill of the endpoint or a launch for it changes what is launched, and neither is
\* called for.
LEMMA HealthyIsLeftAlone ==
  ASSUME IInv, [Manage!Next]_sourceVars, NEW e \in Endpoint, Manage!Healthy(e),
         ~Manage!Quitting, sourcePc' # "exited",
         ~(sourcePc = "starting" /\ sourceCur = e)
  PROVE  Manage!Launched(e)' = Manage!Launched(e)
<1> USE HealthyIsComplete, KillIsLocal DEF IInv
<1>1. CASE UNCHANGED sourceProcs
  BY <1>1 DEF Manage!Launched
<1>2. CASE World
  BY <1>2, WorldKeeps
<1>3. ASSUME NEW x \in Endpoint, Manage!StopUnwanted(x) PROVE Manage!Launched(e)' = Manage!Launched(e)
  BY <1>3 DEF Manage!StopUnwanted, Manage!StopInstance
<1>4. ASSUME NEW x \in Endpoint, Manage!ReconcileOne(x) PROVE Manage!Launched(e)' = Manage!Launched(e)
  BY <1>1, <1>4
     DEF Manage!ReconcileOne, Manage!StartInstance, Manage!Respool, Manage!Rebuild, Manage!Reap,
         Manage!LaunchAgain, Manage!LeaveRunning, Manage!setVars
<1>5. ASSUME NEW x \in Endpoint, Manage!ShutdownOne(x) PROVE Manage!Launched(e)' = Manage!Launched(e)
  BY <1>5 DEF Manage!ShutdownOne, Manage!Quitting
<1>6. CASE Manage!Started
  <2>1. sourceCur \in Endpoint /\ sourceCur # e
    BY <1>6 DEF Manage!Started, AtWork, Manage!TypeOK
  <2> QED
    BY <1>1, <1>6, <2>1 DEF Manage!Started, Manage!setVars
<1>7. CASE Manage!Launch
  <2>1. sourceCur \in Endpoint /\ Manage!Launched(sourceCur) # Manage!Daemon
    BY <1>7 DEF Manage!Launch, AtWork, Spawning, Manage!TypeOK
  <2> QED
    BY <1>7, <2>1 DEF Manage!Launch, Manage!Launched, Manage!TypeOK
<1>8. CASE Manage!LaunchFails
  BY <1>8 DEF Manage!LaunchFails, AtWork, Spawning, Manage!TypeOK
<1>9. CASE Manage!Exit \/ Manage!Crash
  BY <1>9 DEF Manage!Exit, Manage!Crash, Manage!ProcessEnds
<1> QED
  BY <1>1, <1>2, <1>3, <1>4, <1>5, <1>6, <1>7, <1>8, <1>9
  DEF Manage!Next, Manage!Manager, Manage!Failure, World, Manage!BeginCycle, Manage!Render,
      Manage!EndCycle, Manage!Killed, Manage!SpawnNothing, Manage!SourceDown, Manage!Restart, Manage!KillOne,
      Manage!StartRaises, Manage!StopRaises, Manage!StopRequested, sourceVars, Manage!setVars

\* An edit, a failure or a stop of one endpoint never takes down the healthy daemons of another.
THEOREM HealthyIsUntouched == UnitSpec => OthersUntouched
<1>1. IInv /\ [Manage!Next]_sourceVars =>
        [\A e \in Endpoint : Manage!Healthy(e) /\ ~Manage!Quitting /\ sourcePc' # "exited"
                             /\ ~(sourcePc = "starting" /\ sourceCur = e)
            => Manage!Launched(e)' = Manage!Launched(e)]_(Manage!vars)
  <2>1. UNCHANGED sourceVars => UNCHANGED Manage!vars
    BY DEF sourceVars, Manage!vars, Manage!settingsVars, Manage!setVars, Manage!cycleVars, Manage!workVars
  <2> QED
    BY <2>1, HealthyIsLeftAlone
<1> QED
  BY <1>1, Invariance, ManageSteps, PTL DEF UnitSpec, OthersUntouched, Manage!OthersUntouched
=============================================================================
