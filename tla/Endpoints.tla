------------------------------ MODULE Endpoints ------------------------------
(***************************************************************************)
(* The endpoints of a unit's settings: each is a source of its own, fed by *)
(* a set of daemons.  SourceManager runs them and SettingsStore keeps them.*)
(***************************************************************************)
EXTENDS Naturals, FiniteSets

CONSTANTS Endpoint,    \* endpoint ids
          Config,      \* what the user may configure each endpoint to be: its signatures
          Daemons,     \* how many daemons an endpoint has; each is started after those before it
          Off,         \* the endpoint is disabled, absent, or not running
          MaxTrouble   \* bound: failures, daemon exits, foreign stops, server stops and crashes

Daemon == 1 .. Daemons

ASSUME ManagerAssumption ==
    /\ IsFiniteSet(Endpoint)
    /\ DOMAIN Config = Endpoint
    /\ \A e \in Endpoint : Off \notin Config[e]
    /\ Off \notin Endpoint
    /\ Daemons \in Nat \ {0}
    /\ MaxTrouble \in Nat
=============================================================================
