---------------------------- MODULE SourceRouting ----------------------------
(***************************************************************************)
(* One unit's audio server: a feeder per source that pumps PCM from a FIFO *)
(* into the source's group, and the control-plane requests that move       *)
(* players between groups while the feeders run                            *)
(* (backend/scripts/sendspin_server.py: SourceFeeder, attach_player,       *)
(* detach_player, release_local_player, start_source, stop_source).        *)
(*                                                                         *)
(* Everything runs on one asyncio loop, so a step here is the code between *)
(* two awaits.  Every await on the sync library may let another task run.  *)
(***************************************************************************)
EXTENDS FiniteSets

CONSTANTS Source,       \* source ids
          Player,       \* client ids with a player role
          LocalPlayer,  \* this unit's own player
          Caller,       \* REST handlers and the follow loop, each one request at a time
          Solo,         \* the group of one a removed client falls into
          None          \* no primary source, no lock holder, no request

\* A request on a source: the player it moves, and whether it has to start the stream again.
Job == [source : Source, player : Player, restream : BOOLEAN]

ASSUME RoutingAssumption ==
    /\ LocalPlayer \in Player
    /\ Solo \notin Source
    /\ None \notin Source \cup Caller \cup Job
    /\ Caller \cap Source = {}

VARIABLES sources,    \* PlumSendspinServer.sources: the ids with a live handle
          primary,    \* PlumSendspinServer._primary_source
          writer,     \* the FIFO's writing end, per source
          group,      \* the group each client is in: a source's, or its own
          live,       \* does the source's group have a stream that is not stopped
          roster,     \* the clients that stream was started with, or handed to on connecting
          announced,  \* the playback_state last pushed to the group
          active,     \* SourceFeeder._last_data_at is not None
          ps,         \* SourceFeeder.ps is not None
          eof,        \* the pump saw the writer close, and leaves when it has gone idle
          lock,       \* who holds SourceFeeder._change_lock
          todo,       \* the players _go_idle still has to remove
          pc,         \* where each feeder and each caller is
          job,        \* what each caller was asked to do
          connected,  \* the clients whose websocket we hold
          cleanup     \* the clients with a registry eviction pending

libraryVars == <<group, live, roster, announced>>
feederVars  == <<active, ps, eof, lock, todo>>
linkVars    == <<connected, cleanup>>
vars == <<sources, primary, writer, libraryVars, feederVars, pc, job, linkVars>>

WriterState  == {"none", "feeding", "quiet"}
FeederLabel  == {"off", "open", "read", "push", "commit", "backoff", "goIdle",
                 "idleLock", "detaching", "release", "hangUp"}
CallerLabel  == {"idle", "attachLock", "attachRemove", "attachAdd", "attachEnd",
                 "detach", "release", "hangUp", "stopStream"}
Window       == {"attachRemove", "attachAdd", "attachEnd"}

TypeOK ==
    /\ sources \subseteq Source
    /\ primary \in Source \cup {None}
    /\ writer \in [Source -> WriterState]
    /\ group \in [Player -> Source \cup {Solo}]
    /\ live \in [Source -> BOOLEAN]
    /\ roster \in [Source -> SUBSET Player]
    /\ announced \in [Source -> {"stopped", "playing"}]
    /\ active \in [Source -> BOOLEAN]
    /\ ps \in [Source -> BOOLEAN]
    /\ eof \in [Source -> BOOLEAN]
    /\ lock \in [Source -> Source \cup Caller \cup {None}]
    /\ todo \in [Source -> SUBSET Player]
    /\ pc \in [Source \cup Caller -> FeederLabel \cup CallerLabel]
    /\ \A s \in Source : pc[s] \in FeederLabel
    /\ \A c \in Caller : pc[c] \in CallerLabel
    /\ job \in [Caller -> Job \cup {None}]
    /\ \A c \in Caller : job[c] = None <=> pc[c] = "idle"
    /\ connected \subseteq Player
    /\ cleanup \subseteq Player

Init ==
    /\ sources = {}
    /\ primary = None
    /\ writer = [s \in Source |-> "none"]
    /\ group = [p \in Player |-> Solo]
    /\ live = [s \in Source |-> FALSE]
    /\ roster = [s \in Source |-> {}]
    /\ announced = [s \in Source |-> "stopped"]
    /\ active = [s \in Source |-> FALSE]
    /\ ps = [s \in Source |-> FALSE]
    /\ eof = [s \in Source |-> FALSE]
    /\ lock = [s \in Source |-> None]
    /\ todo = [s \in Source |-> {}]
    /\ pc = [a \in Source \cup Caller |-> IF a \in Source THEN "off" ELSE "idle"]
    /\ job = [c \in Caller |-> None]
    /\ connected = {}
    /\ cleanup = {}

-----------------------------------------------------------------------------
(* The sync library's groups and streams.                                  *)

Members(s)   == {p \in Player : group[p] = s}
Streaming(s) == ps[s] /\ live[s]

\* group.start_stream(): the roster is fixed here, from whoever is in the group.
AcquireStream(s) ==
    /\ ps' = [ps EXCEPT ![s] = TRUE]
    /\ live' = [live EXCEPT ![s] = TRUE]
    /\ roster' = [roster EXCEPT ![s] = Members(s) \cap connected]
    /\ announced' = [announced EXCEPT ![s] = "playing"]

\* group.stop_stream(): transport only, the group stays announced as it was.
StopTransport(s) ==
    /\ live' = [live EXCEPT ![s] = FALSE]
    /\ roster' = [roster EXCEPT ![s] = {}]
    /\ UNCHANGED <<group, announced>>

\* group.stop(): the stream ends and playback_state=stopped goes out.
StopGroup(s) ==
    /\ live' = [live EXCEPT ![s] = FALSE]
    /\ roster' = [roster EXCEPT ![s] = {}]
    /\ announced' = [announced EXCEPT ![s] = "stopped"]

\* group.remove_client(p): p gets a group of its own, and a stream with no player left stops.
RemoveClient(p) ==
    LET stays(s) == live[s] /\ (group[p] = s => Members(s) # {p})
    IN  /\ group' = [group EXCEPT ![p] = Solo]
        /\ live' = [s \in Source |-> stays(s)]
        /\ roster' = [s \in Source |-> IF stays(s) THEN roster[s] \ {p} ELSE {}]
        /\ UNCHANGED announced

\* group.add_client(p): stops the group p is still in, and gives p no running stream.
AddClient(s, p) ==
    /\ IF group[p] \in Source \ {s}
       THEN StopGroup(group[p])
       ELSE UNCHANGED <<live, roster, announced>>
    /\ group' = [group EXCEPT ![p] = s]

-----------------------------------------------------------------------------
(* The world outside: senders, and players coming and going.               *)

WriterChanges(s) ==
    /\ \E w \in WriterState \ {writer[s]} : writer' = [writer EXCEPT ![s] = w]
    /\ UNCHANGED <<sources, primary, libraryVars, feederVars, pc, job, linkVars>>

\* A client that connects is handed the stream of the group it is in.
PlayerConnects(p) ==
    /\ p \notin connected
    /\ connected' = connected \cup {p}
    /\ cleanup' = cleanup \ {p}
    /\ roster' = [s \in Source |-> IF live[s] /\ group[p] = s
                                   THEN roster[s] \cup {p} ELSE roster[s]]
    /\ UNCHANGED <<sources, primary, writer, group, live, announced, feederVars, pc, job>>

Disconnect(p) ==
    /\ connected' = connected \ {p}
    /\ cleanup' = cleanup \cup {p}
    /\ roster' = [s \in Source |-> roster[s] \ {p}]
    /\ UNCHANGED <<group, live, announced>>

PlayerDrops(p) ==
    /\ p \in connected
    /\ Disconnect(p)
    /\ UNCHANGED <<sources, primary, writer, feederVars, pc, job>>

\* The library evicts a client that stayed away.
PlayerEvicted(p) ==
    /\ p \in cleanup
    /\ cleanup' = cleanup \ {p}
    /\ RemoveClient(p)
    /\ UNCHANGED <<sources, primary, writer, feederVars, pc, job, connected>>

-----------------------------------------------------------------------------
(* release_local_player, run by whoever awaits it: a caller or a feeder.   *)

Goto(a, label) == pc' = [pc EXCEPT ![a] = label]

\* Where the release leaves its caller: a request is over, a feeder goes back to its FIFO.
Return(a) ==
    IF a \in Source
    THEN /\ Goto(a, IF eof[a] THEN "open" ELSE "read")
         /\ eof' = [eof EXCEPT ![a] = FALSE]
         /\ UNCHANGED job
    ELSE /\ Goto(a, "idle")
         /\ job' = [job EXCEPT ![a] = None]
         /\ UNCHANGED eof

ReleaseCheck(a) ==
    /\ pc[a] = "release"
    /\ IF LocalPlayer \in connected /\ group[LocalPlayer] \notin sources
       THEN Goto(a, "hangUp") /\ UNCHANGED <<eof, job>>
       ELSE Return(a)
    /\ UNCHANGED <<sources, primary, writer, libraryVars, active, ps, lock, todo, linkVars>>

\* _stop_dialing has returned: the dial is dead and disconnect_from_client hangs up.
ReleaseHangUp(a) ==
    /\ pc[a] = "hangUp"
    /\ Return(a)
    /\ Disconnect(LocalPlayer)
    /\ UNCHANGED <<sources, primary, writer, active, ps, lock, todo>>

-----------------------------------------------------------------------------
(* SourceFeeder: run, _pump and _go_idle of the feeder of source s.        *)

\* "open": the reader is open and no writer has been seen on it; "read": one has.
WriterSeen(s) ==
    /\ pc[s] = "open" /\ writer[s] # "none"
    /\ Goto(s, "read")
    /\ UNCHANGED <<sources, primary, writer, libraryVars, feederVars, job, linkVars>>

\* readexactly returned a chunk, or at EOF the trailing partial one.
ReadChunk(s) ==
    /\ pc[s] = "read" /\ writer[s] \in {"feeding", "none"}
    /\ Goto(s, "push")
    /\ eof' = [eof EXCEPT ![s] = writer[s] = "none"]
    /\ UNCHANGED <<sources, primary, writer, libraryVars, active, ps, lock, todo, job, linkVars>>

\* EOF with nothing left to flush.
ReadEof(s) ==
    /\ pc[s] = "read" /\ writer[s] = "none"
    /\ Goto(s, "goIdle")
    /\ eof' = [eof EXCEPT ![s] = TRUE]
    /\ UNCHANGED <<sources, primary, writer, libraryVars, active, ps, lock, todo, job, linkVars>>

\* No audio for SOURCE_IDLE_TIMEOUT_S.  A reader that has seen no writer is as good as reopened.
ReadTimeout(s) ==
    /\ \/ pc[s] = "read" /\ writer[s] = "quiet"
       \/ pc[s] = "open" /\ writer[s] = "none"
    /\ Goto(s, "goIdle")
    /\ eof' = [eof EXCEPT ![s] = pc[s] = "open"]
    /\ UNCHANGED <<sources, primary, writer, libraryVars, active, ps, lock, todo, job, linkVars>>
\* A session whose writer closed ends once its last chunk is pushed.
AfterPush(s) == IF eof[s] THEN "goIdle" ELSE "read"

\* Mutant: the pump does not wait for a membership change in flight.
PushChunkUnlocked(s) ==
    /\ pc[s] = "push"
    /\ IF Streaming(s) THEN UNCHANGED <<ps, live, roster, announced>> ELSE AcquireStream(s)
    /\ active' = [active EXCEPT ![s] = TRUE]
    /\ Goto(s, AfterPush(s))
    /\ UNCHANGED <<sources, primary, writer, group, eof, lock, todo, job, linkVars>>

PushChunk(s) ==
    /\ pc[s] = "push" /\ lock[s] = None
    /\ lock' = [lock EXCEPT ![s] = s]
    /\ IF Streaming(s) THEN UNCHANGED <<ps, live, roster, announced>> ELSE AcquireStream(s)
    /\ active' = [active EXCEPT ![s] = TRUE]
    /\ Goto(s, "commit")
    /\ UNCHANGED <<sources, primary, writer, group, eof, todo, job, linkVars>>

\* commit_audio returned, or raised StreamStoppedError: membership churn stopped the stream.
CommitChunk(s) ==
    /\ pc[s] = "commit"
    /\ lock' = [lock EXCEPT ![s] = None]
    /\ Goto(s, IF live[s] THEN AfterPush(s) ELSE "backoff")
    /\ UNCHANGED <<sources, primary, writer, libraryVars, active, ps, eof, todo, job, linkVars>>

\* Any other error ends the pump; run() opens the FIFO again.
CommitError(s) ==
    /\ pc[s] = "commit"
    /\ lock' = [lock EXCEPT ![s] = None]
    /\ Goto(s, "open")
    /\ eof' = [eof EXCEPT ![s] = FALSE]
    /\ UNCHANGED <<sources, primary, writer, libraryVars, active, ps, todo, job, linkVars>>
\* Mutant: the re-push after a stopped stream does not take the lock again.
RepushChunkUnlocked(s) ==
    /\ pc[s] = "backoff"
    /\ IF Streaming(s) THEN UNCHANGED <<ps, live, roster, announced>> ELSE AcquireStream(s)
    /\ Goto(s, AfterPush(s))
    /\ UNCHANGED <<sources, primary, writer, group, active, eof, lock, todo, job, linkVars>>

\* After REACQUIRE_BACKOFF_S, under the lock again: re-acquire and re-push the same chunk.
RepushChunk(s) ==
    /\ pc[s] = "backoff" /\ lock[s] = None
    /\ IF Streaming(s) THEN UNCHANGED <<ps, live, roster, announced>> ELSE AcquireStream(s)
    /\ Goto(s, AfterPush(s))
    /\ UNCHANGED <<sources, primary, writer, group, active, eof, lock, todo, job, linkVars>>
\* Mutant: a stream that churn stopped counts as a session that has ended.
AlreadyIdleEither(s) ==
    /\ pc[s] = "goIdle" /\ (~active[s] \/ ~Streaming(s))
    /\ Return(s)
    /\ UNCHANGED <<sources, primary, writer, libraryVars, active, ps, lock, todo, linkVars>>

AlreadyIdle(s) ==
    /\ pc[s] = "goIdle" /\ ~active[s] /\ ~Streaming(s)
    /\ Return(s)
    /\ UNCHANGED <<sources, primary, writer, libraryVars, active, ps, lock, todo, linkVars>>

\* Outside the lock: forget the session, announce stopped, then wait for the lock.
GoIdle(s) ==
    /\ pc[s] = "goIdle" /\ (active[s] \/ Streaming(s))
    /\ active' = [active EXCEPT ![s] = FALSE]
    /\ ps' = [ps EXCEPT ![s] = FALSE]
    /\ StopGroup(s)
    /\ Goto(s, "idleLock")
    /\ UNCHANGED <<sources, primary, writer, group, eof, lock, todo, job, linkVars>>
\* Mutant: the players are listed without waiting for a membership change in flight.
IdleLockUnlocked(s) ==
    /\ pc[s] = "idleLock"
    /\ todo' = [todo EXCEPT ![s] = Members(s)]
    /\ Goto(s, "detaching")
    /\ UNCHANGED <<sources, primary, writer, libraryVars, active, ps, eof, lock, job, linkVars>>

IdleLock(s) ==
    /\ pc[s] = "idleLock" /\ lock[s] = None
    /\ lock' = [lock EXCEPT ![s] = s]
    /\ todo' = [todo EXCEPT ![s] = Members(s)]
    /\ Goto(s, "detaching")
    /\ UNCHANGED <<sources, primary, writer, libraryVars, active, ps, eof, job, linkVars>>

\* One remove_client per await; a player that left meanwhile raises, and that is suppressed.
DetachOne(s) ==
    /\ pc[s] = "detaching"
    /\ \E p \in todo[s] :
          /\ IF group[p] = s THEN RemoveClient(p) ELSE UNCHANGED libraryVars
          /\ todo' = [todo EXCEPT ![s] = @ \ {p}]
    /\ UNCHANGED <<sources, primary, writer, active, ps, eof, lock, pc, job, linkVars>>

DetachedAll(s) ==
    /\ pc[s] = "detaching" /\ todo[s] = {}
    /\ lock' = [lock EXCEPT ![s] = None]
    /\ Goto(s, "release")
    /\ UNCHANGED <<sources, primary, writer, libraryVars, active, ps, eof, todo, job, linkVars>>

-----------------------------------------------------------------------------
(* Requests.                                                               *)

\* Synchronous.  The stale handle a pending request would still hold is left out: a source id
\* is started again only when no request on it is in flight (QuiescentRestart).
QuiescentRestart(s) == \A c \in Caller : job[c] # None => job[c].source # s

StartSource(s) ==
    /\ s \notin sources
    /\ QuiescentRestart(s)
    /\ sources' = sources \cup {s}
    /\ primary' = IF primary = None THEN s ELSE primary
    /\ active' = [active EXCEPT ![s] = FALSE]
    /\ ps' = [ps EXCEPT ![s] = FALSE]
    /\ eof' = [eof EXCEPT ![s] = FALSE]
    /\ lock' = [lock EXCEPT ![s] = None]
    /\ todo' = [todo EXCEPT ![s] = {}]
    /\ Goto(s, "open")
    /\ UNCHANGED <<writer, libraryVars, job, linkVars>>

Begin(c, s, p, label) ==
    /\ pc[c] = "idle" /\ s \in sources
    /\ job' = [job EXCEPT ![c] = [source |-> s, player |-> p, restream |-> FALSE]]
    /\ Goto(c, label)

\* stop_source: the handle is popped and the feeder's task cancelled wherever it was, which
\* gives back the lock it held.
StopSource(c, s) ==
    /\ pc[c] = "idle" /\ s \in sources
    /\ sources' = sources \ {s}
    /\ job' = [job EXCEPT ![c] = [source |-> s, player |-> LocalPlayer, restream |-> FALSE]]
    /\ pc' = [pc EXCEPT ![c] = "stopStream", ![s] = "off"]
    /\ lock' = [lock EXCEPT ![s] = IF @ = s THEN None ELSE @]
    /\ todo' = [todo EXCEPT ![s] = {}]
    /\ UNCHANGED <<primary, writer, libraryVars, active, ps, eof, linkVars>>

\* A request is over.
Finish(c) == Goto(c, "idle") /\ job' = [job EXCEPT ![c] = None]

\* The transport stops and the controller fallback passes to a surviving source (the oldest; the
\* order in which sources were started is abstracted away).
StopStream(c) ==
    /\ pc[c] = "stopStream"
    /\ StopTransport(job[c].source)
    /\ IF primary # job[c].source THEN UNCHANGED primary
       ELSE IF sources = {} THEN primary' = None ELSE primary' \in sources
    /\ Finish(c)
    /\ UNCHANGED <<sources, writer, feederVars, linkVars>>

\* attach_player up to membership_change; already in that group, it is done.
AttachPlayer(c, s, p) ==
    /\ cleanup' = cleanup \ {p}
    /\ IF group[p] = s
       THEN pc[c] = "idle" /\ s \in sources /\ UNCHANGED <<pc, job>>
       ELSE Begin(c, s, p, "attachLock")
    /\ UNCHANGED <<sources, primary, writer, libraryVars, feederVars, connected>>
\* Mutant: the stream runs on through the membership change (add_client alone).
EnterChangeLive(c) ==
    LET s == job[c].source
    IN  /\ pc[c] = "attachLock" /\ lock[s] = None
        /\ lock' = [lock EXCEPT ![s] = c]
        /\ Goto(c, "attachRemove")
        /\ UNCHANGED <<sources, primary, writer, libraryVars, active, ps, eof, todo, job, linkVars>>

\* membership_change: take the lock and stop the stream for the duration.
EnterChange(c) ==
    LET s == job[c].source
    IN  /\ pc[c] = "attachLock" /\ lock[s] = None
        /\ lock' = [lock EXCEPT ![s] = c]
        /\ job' = [job EXCEPT ![c].restream = Streaming(s)]
        /\ IF Streaming(s)
           THEN StopTransport(s) /\ ps' = [ps EXCEPT ![s] = FALSE]
           ELSE UNCHANGED <<libraryVars, ps>>
        /\ Goto(c, "attachRemove")
        /\ UNCHANGED <<sources, primary, writer, active, eof, todo, linkVars>>
\* Mutant: a bare add_client, without leaving the old group first.
ChangeRemoveSkipped(c) ==
    /\ pc[c] = "attachRemove"
    /\ Goto(c, "attachAdd")
    /\ UNCHANGED <<sources, primary, writer, libraryVars, feederVars, job, linkVars>>

ChangeRemove(c) ==
    /\ pc[c] = "attachRemove"
    /\ RemoveClient(job[c].player)
    /\ Goto(c, "attachAdd")
    /\ UNCHANGED <<sources, primary, writer, feederVars, job, linkVars>>

\* add_client returned, or raised: either way the finally clause comes next.
ChangeAdd(c) ==
    /\ pc[c] = "attachAdd"
    /\ \/ AddClient(job[c].source, job[c].player)
       \/ UNCHANGED libraryVars
    /\ Goto(c, "attachEnd")
    /\ UNCHANGED <<sources, primary, writer, feederVars, job, linkVars>>
\* Mutant: the lock is not given back after the re-acquire.
LeaveChangeLocked(c) ==
    LET s == job[c].source
    IN  /\ pc[c] = "attachEnd"
        /\ IF job[c].restream THEN AcquireStream(s) ELSE UNCHANGED <<ps, live, roster, announced>>
        /\ Finish(c)
        /\ UNCHANGED <<sources, primary, writer, group, active, eof, lock, todo, linkVars>>

LeaveChange(c) ==
    LET s == job[c].source
    IN  /\ pc[c] = "attachEnd"
        /\ IF job[c].restream THEN AcquireStream(s) ELSE UNCHANGED <<ps, live, roster, announced>>
        /\ lock' = [lock EXCEPT ![s] = None]
        /\ Finish(c)
        /\ UNCHANGED <<sources, primary, writer, group, active, eof, todo, linkVars>>

\* detach_player takes no lock.
DetachPlayer(c, s, p) ==
    /\ Begin(c, s, p, "detach")
    /\ UNCHANGED <<sources, primary, writer, libraryVars, feederVars, linkVars>>

\* remove_client of a client that is in another group raises, or does nothing.
DetachRemove(c) ==
    LET p == job[c].player
    IN  /\ pc[c] = "detach"
        /\ \/ /\ group[p] = job[c].source
              /\ RemoveClient(p)
              /\ Goto(c, "release") /\ UNCHANGED job
           \/ /\ group[p] # job[c].source
              /\ UNCHANGED libraryVars
              /\ \/ Goto(c, "release") /\ UNCHANGED job
                 \/ Finish(c)
        /\ UNCHANGED <<sources, primary, writer, feederVars, linkVars>>

-----------------------------------------------------------------------------
Feeder(s) ==
    \/ WriterSeen(s) \/ ReadChunk(s) \/ ReadEof(s) \/ ReadTimeout(s)
    \/ PushChunk(s) \/ CommitChunk(s) \/ CommitError(s) \/ RepushChunk(s)
    \/ AlreadyIdle(s) \/ GoIdle(s) \/ IdleLock(s) \/ DetachOne(s) \/ DetachedAll(s)
    \/ ReleaseCheck(s) \/ ReleaseHangUp(s)

Continue(c) ==
    \/ EnterChange(c) \/ ChangeRemove(c) \/ ChangeAdd(c) \/ LeaveChange(c)
    \/ DetachRemove(c) \/ ReleaseCheck(c) \/ ReleaseHangUp(c) \/ StopStream(c)

Request ==
    \/ \E s \in Source : StartSource(s)
    \/ \E c \in Caller, s \in Source :
          \/ StopSource(c, s)
          \/ \E p \in Player : AttachPlayer(c, s, p) \/ DetachPlayer(c, s, p)

Environment ==
    \/ \E s \in Source : WriterChanges(s)
    \/ \E p \in Player : PlayerConnects(p) \/ PlayerDrops(p) \/ PlayerEvicted(p)

Next ==
    \/ \E s \in Source : Feeder(s)
    \/ \E c \in Caller : Continue(c)
    \/ Request
    \/ Environment

Spec == Init /\ [][Next]_vars

\* The event loop runs every task that is ready, and asyncio.Lock serves its waiters in order.
\* Senders, players and users owe nothing.
Fairness ==
    /\ \A s \in Source :
          /\ WF_vars(Feeder(s))
          /\ SF_vars(PushChunk(s)) /\ SF_vars(RepushChunk(s)) /\ SF_vars(IdleLock(s))
    /\ \A c \in Caller :
          /\ WF_vars(Continue(c))
          /\ SF_vars(EnterChange(c))

FairSpec == Spec /\ Fairness

-----------------------------------------------------------------------------
(* Properties.                                                             *)

\* While a source streams, the players that get its audio are exactly the connected members of
\* its group: nobody sits in the group silent (refresh_stream), nobody who left still listens.
HeardByMembers ==
    \A s \in Source : Streaming(s) => roster[s] = Members(s) \cap connected

\* From the moment a membership change has stopped the stream until it re-acquires it, it holds
\* the source's lock and no stream of the source runs: the joining client is never handed a
\* stream that is about to be replaced (membership_change).
ChangeIsQuiet ==
    \A c \in Caller : pc[c] \in Window =>
        LET s == job[c].source IN lock[s] = c /\ ~Streaming(s)

\* A source that has gone idle has let go of every player by the time it gives back the lock,
\* also of those that requests moved while it was letting go ("none" is a true none).
IdleIsTrueNone ==
    [][\A s \in Source : pc[s] = "detaching" /\ pc'[s] = "release" => Members(s) = {}]_vars

\* A source's stream is cut only by its own feeder going idle, by a membership change of that
\* very source, by stopping the source, or because its last player left: moving a player away
\* leaves the others of the old group listening (attach_player: remove, then add).
BystandersKeepListening ==
    [][\A s \in Source : live[s] /\ ~live'[s] =>
          \/ pc[s] = "goIdle"
          \/ lock[s] = None /\ lock'[s] \in Caller
          \/ s \notin sources
          \/ Members(s)' = {}]_vars

\* Two requests that move one player to two sources do not overlap: each would hold its own source's
\* lock only, and the second would find the player where the first has just put it.
Moving == {"attachLock"} \cup Window
NoTwoMoves ==
    \A c, d \in Caller :
        pc[c] \in Moving /\ pc[d] \in Moving /\ job[c].player = job[d].player => c = d

\* Every request ends: no lock is kept for ever and nobody waits on everybody.
RequestsEnd == \A c \in Caller : pc[c] # "idle" ~> pc[c] = "idle"

\* A player that stays connected in the group of a running source a sender keeps feeding keeps
\* being in that source's stream, whatever other requests do to the group.
FedIsHeard ==
    \A s \in Source, p \in Player :
        <>[](s \in sources /\ writer[s] = "feeding" /\ group[p] = s /\ p \in connected)
            => []<>(Streaming(s) /\ p \in roster[s])

\* A running source whose writer is gone for good ends up idle.
UnfedGoesIdle ==
    \A s \in Source :
        <>[](s \in sources /\ writer[s] = "none") => <>[](~active[s])

\* release_local_player never hangs up on a player that a running source's group holds.
ReleaseSparesPlaying ==
    [][\A a \in Source \cup Caller : pc[a] = "hangUp" /\ ReleaseHangUp(a)
          => group[LocalPlayer] \notin sources]_vars

-----------------------------------------------------------------------------
(* What the server promises its listeners: Broadcast, read off this state. *)

OnAir == {s \in Source : Streaming(s)}
Hears == [s \in Source |-> IF Streaming(s) THEN roster[s] ELSE {}]

Promise == INSTANCE Broadcast WITH where <- group, up <- connected, onAir <- OnAir, hears <- Hears

\* The feeders, locks and requests together implement Broadcast: nobody tunes to a source while
\* it is on the air, and whoever is tuned to it when it goes on the air hears it
\* (membership_change, attach_player, refresh_stream).
KeepsPromise == Promise!Spec
=============================================================================
