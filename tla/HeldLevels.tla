----------------------------- MODULE HeldLevels -----------------------------
(***************************************************************************)
(* The level, the delay and the buffer floor of one speaker                *)
(* (backend/scripts/sendspin_server.py, set_player_volume to               *)
(* _apply_pending_volume): what is set while the speaker is with another   *)
(* server is held, and sent when it comes back.                            *)
(***************************************************************************)
EXTENDS Naturals

CONSTANTS Level,     \* volumes, and delays
          MaxSets,   \* bound: levels and delays set
          MaxDrops,  \* bound: connections that end
          MaxTasks,  \* bound: tasks due at once
          None

VARIABLES link,      \* "away", "bare" (connected, its player role not negotiated), or "ready"
          held,      \* _pending_volume
          delay,     \* _player_delay_ms
          role,      \* what it plays at: level, delay, and whether its floor is within the cap
          tasks,     \* _apply_pending_volume tasks due
          wanted,    \* history: the level and the delay last set
          raced,     \* history: a level set, or a task run, where the code loses one
          sets, drops

vars == <<link, held, delay, role, tasks, wanted, raced, sets, drops>>

\* A new connection begins without a correction; the level is the speaker's own to keep.
Fresh == [role EXCEPT !.delay = None, !.capped = FALSE]

TypeOK ==
    /\ link \in {"away", "bare", "ready"}
    /\ held \in Level \cup {None} /\ delay \in Level \cup {None}
    /\ role \in [level : Level \cup {None}, delay : Level \cup {None}, capped : BOOLEAN]
    /\ tasks \in 0..MaxTasks
    /\ wanted \in [level : Level \cup {None}, delay : Level \cup {None}]
    /\ raced \in BOOLEAN
    /\ sets \in 0..MaxSets /\ drops \in 0..MaxDrops

Init ==
    /\ link = "away" /\ held = None /\ delay = None /\ tasks = 0
    /\ role = [level |-> None, delay |-> None, capped |-> FALSE]
    /\ wanted = [level |-> None, delay |-> None]
    /\ raced = FALSE /\ sets = 0 /\ drops = 0

\* A client the registry does not have is added before its roles are negotiated, and the event's
\* handler runs then too.
Connect ==
    /\ link = "away"
    /\ link' = "bare" /\ role' = Fresh
    /\ tasks' \in {tasks, tasks + 1} /\ tasks' <= MaxTasks
    /\ UNCHANGED <<held, delay, wanted, raced, sets, drops>>

\* Mutant: only the level is put back.
OnServerEventLevelOnly ==
    /\ role' = [role EXCEPT !.capped = TRUE]
    /\ tasks' = tasks + 1

\* _on_server_event for an added or updated client: the floor and the delay at once, the level in a
\* task (set_volume is a command, and the others are fields of the role).
OnServerEvent ==
    /\ role' = [role EXCEPT !.capped = TRUE, !.delay = delay]
    /\ tasks' = tasks + 1

\* client/state: the roles are active, and their floor is read anew.
Report ==
    /\ link # "away" /\ tasks < MaxTasks
    /\ link' = "ready"
    /\ OnServerEvent
    /\ UNCHANGED <<held, delay, wanted, raced, sets, drops>>

Disconnect ==
    /\ link # "away" /\ drops < MaxDrops
    /\ link' = "away" /\ drops' = drops + 1
    /\ role' = Fresh
    /\ UNCHANGED <<held, delay, tasks, wanted, raced, sets>>

\* set_player_volume.  Two roads on which a level is lost: a connected speaker without its role
\* refuses it, and one set for a connected speaker leaves an older one held.
SetPlayerVolume(v) ==
    /\ sets < MaxSets /\ sets' = sets + 1
    /\ \/ link = "away" /\ held' = v /\ UNCHANGED <<role, raced>>
       \/ link = "ready" /\ role' = [role EXCEPT !.level = v] /\ raced' = (held # None) /\ UNCHANGED held
    /\ wanted' = [wanted EXCEPT !.level = v]
    /\ UNCHANGED <<link, delay, tasks, drops>>

SetPlayerDelay(v) ==
    /\ sets < MaxSets /\ sets' = sets + 1
    /\ delay' = v
    /\ role' = IF link = "ready" THEN [role EXCEPT !.delay = v] ELSE role
    /\ wanted' = [wanted EXCEPT !.delay = v]
    /\ UNCHANGED <<link, held, tasks, raced, drops>>

\* Mutant: the level is gone when the speaker has left again.
ApplyPendingVolumeOnce ==
    /\ tasks > 0 /\ tasks' = tasks - 1
    /\ held' = None
    /\ role' = IF link = "ready" /\ held # None THEN [role EXCEPT !.level = held] ELSE role
    /\ UNCHANGED <<link, delay, wanted, raced, sets, drops>>

\* _apply_pending_volume: taken out, then through set_player_volume, which holds it again for a
\* speaker that has gone; what that raises is suppressed.
ApplyPendingVolume ==
    /\ tasks > 0 /\ tasks' = tasks - 1
    /\ held' = IF link = "away" THEN held ELSE None
    /\ role' = IF link = "ready" /\ held # None THEN [role EXCEPT !.level = held] ELSE role
    /\ raced' = (raced \/ (link = "bare" /\ held # None))
    /\ UNCHANGED <<link, delay, wanted, sets, drops>>

Next ==
    \/ Connect \/ Report \/ Disconnect
    \/ \E v \in Level : SetPlayerVolume(v) \/ SetPlayerDelay(v)
    \/ ApplyPendingVolume

Spec == Init /\ [][Next]_vars

-----------------------------------------------------------------------------
(* Properties.                                                             *)

\* A speaker that has reported has the level and the delay last set for it, wherever it was when
\* they were set and however often it left since, once the tasks have run; but for the levels
\* `raced` counts.  Its floor is within what the feeder holds.
HeldForIt ==
    link = "ready" =>
        /\ role.delay = delay /\ delay = wanted.delay /\ role.capped
        /\ tasks = 0 /\ ~raced => held = None /\ role.level = wanted.level
=============================================================================
