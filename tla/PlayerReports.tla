---------------------------- MODULE PlayerReports ----------------------------
(***************************************************************************)
(* What a player says of itself (backend/scripts/sendspin_player.py and    *)
(* player_state.py): the level it plays at, to the server that holds it    *)
(* and to its state file; whether it keeps up, and who played it last, to  *)
(* the file.  Nobody else writes the file while the player runs.           *)
(***************************************************************************)
EXTENDS Naturals, Sequences

CONSTANTS Volume, Server,
          MaxEchoes,   \* bound: echoes due, and reports being sent, at once
          MaxTrouble,  \* bound: commands, connections, streams and restarts
          None

VARIABLES level,       \* _volume and _muted
          carried,     \* what the client reports when it connects: _initial_volume, _initial_muted
          file,        \* the state file
          saving,      \* _save_task sleeps
          echoes,      \* _send_render_state tasks not begun
          sends,       \* reports being sent: what they say, the health they record, whose they are
          server,      \* the server connected
          believed,    \* what it takes the level for
          rendering,   \* AlsaRenderer._playing
          arriving,    \* audio arrives
          paused,      \* _state["playback_speed"] is 0
          flowing,     \* _audio_flowing
          starved,     \* padded frames since the baseline reach ERROR_STARVED_FRAMES
          due,         \* HEALTH_POLL_S has passed
          reported,    \* _last_reported_state
          lastPlaying, \* _last_playing_server
          relic,       \* history: the file's health is that of an earlier process
          trouble

stream == <<rendering, arriving, paused, flowing>>
vars == <<level, carried, file, saving, echoes, sends, server, believed, rendering, arriving, paused,
          flowing, starved, due, reported, lastPlaying, relic, trouble>>

Level == [volume : Volume, muted : BOOLEAN]
Health == {"synchronized", "error"}

TypeOK ==
    /\ {level, carried, believed, file.level} \subseteq Level
    /\ reported \in Health /\ file.health \in Health
    /\ {server, lastPlaying, file.server} \subseteq Server \cup {None}
    /\ echoes \in 0..MaxEchoes
    /\ sends \in Seq([says : Level, health : Health, by : {"echo", "loop"}])
    /\ {saving, rendering, arriving, paused, flowing, starved, due, relic} \subseteq BOOLEAN
    /\ trouble \in 0..MaxTrouble

Init ==
    /\ level \in Level /\ carried = level /\ believed = level
    /\ file = [level |-> level, health |-> "synchronized", server |-> None]
    /\ saving = FALSE /\ echoes = 0 /\ sends = <<>>
    /\ server = None /\ rendering = FALSE /\ arriving = FALSE /\ paused = FALSE /\ flowing = FALSE
    /\ starved = FALSE /\ due = FALSE /\ reported = "synchronized" /\ lastPlaying = None
    /\ relic = FALSE /\ trouble = 0

Disturbs == trouble < MaxTrouble /\ trouble' = trouble + 1

\* Mutant: a write keeps nothing of what the file had.
WriteAlone(field, value) ==
    file' = [[level |-> CHOOSE l \in Level : TRUE, health |-> "synchronized", server |-> None]
                EXCEPT ![field] = value]

\* _merge_write: one field, the others as they are.
Write(field, value) == file' = [file EXCEPT ![field] = value]

-----------------------------------------------------------------------------
(* Levels.                                                                 *)

\* Mutant: the client goes on reporting, when it connects, the level it was built with.
PublishRenderStateOnce ==
    /\ echoes' = echoes + 1 /\ carried' = carried
    /\ saving' = TRUE

\* _publish_render_state: an echo, the level of the next connection, and a save unless one is due.
PublishRenderState ==
    /\ echoes' = echoes + 1 /\ carried' = level'
    /\ saving' = TRUE

\* _on_server_command: a command carries the volume or the mute, never both.
OnServerCommand ==
    /\ Disturbs /\ server # None /\ echoes < MaxEchoes
    /\ \E l \in Level :
           /\ l # level /\ (l.volume = level.volume \/ l.muted = level.muted)
           /\ level' = l
    /\ PublishRenderState
    /\ UNCHANGED <<file, sends, server, believed, stream, starved, due, reported, lastPlaying, relic>>

\* _save_render_state: the level as it is after the delay.
Saved ==
    /\ saving /\ saving' = FALSE
    /\ Write("level", level)
    /\ UNCHANGED <<level, carried, echoes, sends, server, believed, stream, starved, due, reported,
                   lastPlaying, relic, trouble>>

-----------------------------------------------------------------------------
(* Health.                                                                 *)

\* _health: it moves the baseline whoever asks; a paused source starves nobody.
HealthNow == IF starved /\ ~paused THEN "error" ELSE "synchronized"

Send(health, by) == [says |-> level, health |-> health, by |-> by]

\* An echo begins: the health, then the report, which fails without a connection.
EchoBegins ==
    /\ echoes > 0 /\ Len(sends) < MaxEchoes
    /\ echoes' = echoes - 1 /\ starved' = FALSE
    /\ sends' = IF server = None THEN sends ELSE Append(sends, Send(HealthNow, "echo"))
    /\ UNCHANGED <<level, carried, file, saving, server, believed, stream, due, reported, lastPlaying,
                   relic, trouble>>

\* Three seconds of _health_loop's sleep: a renderer that plays and gets nothing pads all the while.
Interval ==
    /\ ~due /\ due' = TRUE
    /\ starved' = (starved \/ (rendering /\ ~arriving))
    /\ UNCHANGED <<level, carried, file, saving, echoes, sends, server, believed, stream, reported,
                   lastPlaying, relic, trouble>>

\* _remember_playing_server: whoever is connected while audio flows.
RememberPlayingServer ==
    /\ lastPlaying' = IF server # None /\ flowing THEN server ELSE lastPlaying
    /\ IF lastPlaying' # lastPlaying THEN Write("server", lastPlaying') ELSE UNCHANGED file

\* _health_loop wakes: who plays us, then the health, sent only when it is not the one reported.
HealthPolled ==
    /\ due /\ due' = FALSE
    /\ \A i \in DOMAIN sends : sends[i].by # "loop"
    /\ RememberPlayingServer
    /\ IF server = None
       THEN UNCHANGED <<sends, starved>>
       ELSE /\ starved' = FALSE
            /\ sends' = IF HealthNow = reported THEN sends ELSE Append(sends, Send(HealthNow, "loop"))
    /\ UNCHANGED <<level, carried, saving, echoes, server, believed, stream, reported, relic, trouble>>

\* _send_client_state after its await: a health that is not the one reported is recorded.
Records(s) ==
    /\ reported' = s.health
    /\ IF s.health # reported
       THEN Write("health", s.health) /\ relic' = FALSE
       ELSE UNCHANGED <<file, relic>>

\* The server takes a report, in the order they were sent.
SendEnds ==
    /\ sends # <<>> /\ sends' = Tail(sends)
    /\ believed' = sends[1].says
    /\ Records(sends[1])
    /\ UNCHANGED <<level, carried, saving, echoes, server, stream, starved, due, lastPlaying, trouble>>

-----------------------------------------------------------------------------
(* Connections, streams and restarts.                                      *)

\* on_connection: what was padded until now is not this session's.
OnConnection(s) ==
    /\ Disturbs /\ server = None
    /\ server' = s /\ believed' = carried /\ starved' = FALSE
    /\ UNCHANGED <<level, carried, file, saving, echoes, sends, stream, due, reported, lastPlaying, relic>>

\* The connection ends; what was being sent raises, which is suppressed.  The renderer is not told.
Detached ==
    /\ Disturbs /\ server # None
    /\ server' = None /\ sends' = <<>> /\ arriving' = FALSE
    /\ UNCHANGED <<level, carried, file, saving, echoes, believed, rendering, paused, flowing, starved, due,
                   reported, lastPlaying, relic>>

\* Senders: a stream starts, falters, comes back or ends; metadata says it is paused, or runs; a new
\* group clears what is known of the old one.
OnStreamStart ==
    /\ server # None /\ ~flowing
    /\ flowing' = TRUE /\ arriving' = TRUE /\ rendering' = TRUE /\ UNCHANGED paused

OnStreamEnd ==
    /\ server # None /\ rendering
    /\ flowing' = FALSE /\ arriving' = FALSE /\ rendering' = FALSE /\ UNCHANGED paused

Falters == arriving /\ arriving' = FALSE /\ UNCHANGED <<rendering, flowing, paused>>

OnAudio == server # None /\ rendering /\ ~arriving /\ arriving' = TRUE /\ UNCHANGED <<rendering, flowing, paused>>

OnMetadata == server # None /\ paused' = ~paused /\ UNCHANGED <<rendering, flowing, arriving>>

OnGroupUpdate == server # None /\ paused /\ paused' = FALSE /\ UNCHANGED <<rendering, flowing, arriving>>

StreamChanges ==
    /\ Disturbs
    /\ OnStreamStart \/ OnStreamEnd \/ Falters \/ OnAudio \/ OnMetadata \/ OnGroupUpdate
    /\ UNCHANGED <<level, carried, file, saving, echoes, sends, server, believed, starved, due, reported,
                   lastPlaying, relic>>

\* _relay_send's safety net: a second and a half without audio.
Stalls ==
    /\ flowing /\ ~arriving /\ flowing' = FALSE
    /\ UNCHANGED <<level, carried, file, saving, echoes, sends, server, believed, rendering, arriving, paused,
                   starved, due, reported, lastPlaying, relic, trouble>>

\* stop or a crash, and a new player: a save that was due is lost, and the level is the file's.
Restarts ==
    /\ Disturbs
    /\ level' = file.level /\ carried' = level' /\ lastPlaying' = file.server
    /\ saving' = FALSE /\ echoes' = 0 /\ sends' = <<>> /\ server' = None
    /\ rendering' = FALSE /\ arriving' = FALSE /\ paused' = FALSE /\ flowing' = FALSE
    /\ starved' = FALSE /\ due' = FALSE /\ reported' = "synchronized"
    /\ relic' = (file.health # reported')
    /\ UNCHANGED <<file, believed>>

Player == Saved \/ EchoBegins \/ HealthPolled \/ SendEnds \/ Stalls

Next ==
    \/ Player \/ Interval
    \/ OnServerCommand \/ StreamChanges \/ Restarts
    \/ (\E s \in Server : OnConnection(s)) \/ Detached

Fairness ==
    /\ WF_vars(Saved) /\ WF_vars(EchoBegins) /\ WF_vars(HealthPolled) /\ WF_vars(SendEnds)
    /\ WF_vars(Stalls) /\ WF_vars(Interval)

Spec == Init /\ [][Next]_vars /\ Fairness

-----------------------------------------------------------------------------
(* Properties.                                                             *)

Struggles == rendering /\ ~arriving /\ ~paused

\* Once things are calm, what is said of a player is true: its file and its server have the level it
\* plays at; while it is connected the file says whether it keeps up, but for what an earlier process
\* left there; and of a player that plays, for whom.  (Commands that come one field at a time, echoes
\* that overlap, connections that break under a report, and restarts.)
SaidIsSo ==
    <>[]/\ file.level = level
        /\ server # None =>
            /\ believed = level
            /\ ~relic => file.health = IF Struggles THEN "error" ELSE "synchronized"
            /\ flowing => file.server = server
=============================================================================
