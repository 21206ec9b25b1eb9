# Plum-Audio: specifications, model checking and proofs

Plum-Audio is a multi-room audio system.  Every *unit* runs an audio process
(`backend/scripts/sendspin_server.py`) that ingests sources (AirPlay, Spotify, Bluetooth) through
FIFOs and serves them to *players* over the Sendspin protocol (the `aiosendspin` library), a player
process (`sendspin_player.py`) that renders to ALSA, a config process (`apis/`, Flask) and a browser
GUI.  Units find each other by UDP beacons, poll each other's snapshots, and route players to
sources across units; there is no central server.

This directory holds TLA+ modules for the parts of it whose correctness depends on the order in
which things happen, TLC configurations that check them on small instances, and proofs that TLAPS
checks for every instance.  `PROJECT.json` maps each definition to the lines it models.

## 1. Inventory

| Component | State it keeps | Operations | Interacts with | What makes it correct |
|---|---|---|---|---|
| Source feeders and player routing (`sendspin_server.py`: `SourceFeeder`, `start_source`, `stop_source`, `attach_player`, `detach_player`, `release_local_player`) | per source: stream handle, session flag, change lock; per unit: source table, primary source; in the library: groups, rosters, connections | pump, go idle, membership change, start, stop, attach, detach, release | the sync library; REST handlers and the follow loop call it concurrently | who is in a streaming group hears it and nobody else; a membership change never straddles a stream; idle means no player; moving a player leaves bystanders alone |
| Dialling, adoption, reclaim (`reclaim_remote_player`, `adopt_foreign_client`, `release_foreign_client`, `_stop_dialing`, `_cancel_pending_cleanup`) | dial tasks per URL, eviction timers per client | dial, stop dialling, adopt, release, evict | the library's dial tasks and its registry | one live dial per speaker; a connected player has no eviction pending |
| Follow (`mesh/follow.py`) | last auto target, override latch, previous local activity, reported master | one tick every 2 s | aggregator's cached view, router, settings | a follower tracks its master; a human's choice stands; a cycle of followers does not oscillate |
| Router (`mesh/router.py`) | none | route, unroute | local server, peers' APIs, neighbourhood | a route lands on the unit that owns the source; an idle speaker is dialled |
| Discovery (`mesh/discovery.py`) | peer table | beacon, receive, prune | UDP multicast, aggregator | bounded table; a peer that keeps announcing is listed; a silent one ages out |
| Aggregator (`mesh/aggregator.py`) | cached view | refresh, fan out | every consumer of the view | the view ages, it never mixes a peer's two states |
| Source managers (`sources/source_manager.py`) | instance table, signatures, daemon table, backoff | reconcile, spawn, reap, stop | settings file, daemons, the audio server | what runs is what the settings ask for; no daemon outlives its endpoint |
| Loudness (`mesh/loudness.py`) | commanded volumes, pending user volumes, group target | one tick, user volume | aggregator's view, `set_player_volume` | a human's move is obeyed once and not fought |
| Calibration tone (`calibration_tone.py`) | one session: source, writer task, expiry, placement | start, set volume, stop, expire, shutdown | audio server, router | one endpoint at a time; everything is put back |
| Player and renderer (`sendspin_player.py`) | stream, output device, buffer, gain, health | render, reopen on device change, stall recovery, save state | PortAudio, settings file, server | the output that was chosen is the one that plays; audio flows again after a stall |
| Output gate (`output_gate.py`) | none (pure) | decide | supervisor | the player runs when there is something to play on |
| Volumes (`set_player_volume`, `_apply_pending_volume`) | pending volume per player | set, apply on connect | library | a volume asked for while away is applied once |
| Pairing (`pair_client`, `_run_pairing`, PIN provider) | attempt per client | pair, PIN, cancel, unpair | library handshake, GUI | one attempt at a time, a PIN reaches the attempt that asked |
| Player state, speaker names (`player_state.py`, `speaker_names.py`) | a JSON file | merge write, read | two processes | no field is lost by a concurrent write |
| Settings (`apis/settings_api.py`, `integrations_api.py`, `audio_api.py`, `calibration_api.py`) | settings.json | get, post, mutate | every watcher of the file | a read-modify-write loses no other writer's field; watchers see whole files |
| Updater (`updater.py`, `scripts/host-setup/plum-updater.sh`) | request and state files | request, consume, report | host agent | a request is consumed once, its outcome survives the container |
| Bluetooth adapter, AVRCP, cover art | connected device, capture child, player modes, artwork token | connect, judge, renegotiate, capture, anchor progress | BlueZ D-Bus | one capture; stale answers do not overwrite a newer track |
| AirPlay and Spotify metadata, remotes | session state, position anchors | parse, emit, command | FIFO, websocket | position never runs on a paused source |
| mDNS (`mesh/avahi.py`, `neighbourhood.py`), CORS (`cors_policy.py`), identity (`sendspin_identity.py`, `unit_identity.py`), FIFO names (`fifo_paths.py`), config rendering, device scan (`audio_devices.py`) | mostly pure or thin adapters | | D-Bus, files, ALSA | |
| GUI (`frontend/`), host scripts (`scripts/`, `docker/`) | browser state; shell | | REST and websocket APIs | |

### What is hard here

Everything in the audio process runs on one asyncio loop: code between two `await`s is atomic, and
every `await` may let any other task run.  The bugs that are hard to test are therefore decisions
taken before an `await` and acted on after it (release, attach, adopt), locks held over some awaits
and not others (the change lock), library state that outlives our handle on it (streams, dial tasks,
eviction timers), polls that read a cached view that is older than the caller's own last action
(follow, loudness), and files two processes rewrite (settings, player state).  The hazards are listed
with their lines in `PROJECT.json`.

## 2. Plan

Done, each with the runs and proofs of its section below:

1. `SourceRouting` (section 3), the abstract `Broadcast` it implements, and `SourceRoutingProofs`.
2. `FollowReconciler` (section 5): ticks against a stale view, the override latch, cycles, and
   `FollowProofs`.
3. `SourceManager` with `Endpoints` (section 6): reconciliation against changing settings, with daemons
   that die, and `SourceManagerProofs`.
4. `Dialling` (section 7): dial tasks, adoption, reclaim, eviction timers, and `DiallingProofs`.
5. The services of a unit (section 8): `CalibrationTone`, `Loudness`, `CalibrationRecords`,
   `SettingsStore`, `Discovery` and `BluetoothCapture`, put side by side with `SourceManager` by
   `UnitServices`, with `CalibrationToneProofs` and `UnitServicesProofs`.
6. A unit, its speakers and its phones (section 9): `Pairing`, `HeldLevels`, `OutputChoice`,
   `Renderer`, `ConsumeRelay`, `PlayerReports`, `CoverArt` and `PhoneProgress`, put side by side with
   `Dialling` by `UnitSpeakers`, with `UnitSpeakersProofs`.

Left, in this order:

7. A proof of `OnlyHandsLead` of `Loudness`.
8. The updater's request file, the session state of AirPlay and Spotify, the Avahi registration.
9. A mesh of two units, each reduced to its promise `Broadcast`, driven by `FollowReconciler`.

Abstract specifications: `Broadcast` (who hears what) is stated and refined.  "What runs is what was
asked" is the property `FollowsSettings`; an atomic register for the settings file is what `told` of
`SettingsStore` stands for.

### Runs that go through several modules

`UnitServices` and `UnitSpeakers` instantiate several modules side by side, each with variables of
its own, and a variable `focus` that names one of them and never changes.  A behaviour is one of the
module `focus` names, from any of that module's initial states and under that module's fairness,
while all the others stay in an initial state.  The modules share no state in these instances, so
nothing is lost by not interleaving them, and a property `focus = "x" => X!P` says of the module's
behaviours what `P` says.  The `MC` modules give the constants their values.  `MCFollowLoops` joins two
meshes in the same way, by a variable `mesh`.

## 3. The core: `SourceRouting`

`SourceRouting` models one unit's audio server.  An action is the code between two awaits; `pc` says
which await each task is at.

| State | Code |
|---|---|
| `sources`, `primary` | `PlumSendspinServer.sources`, `_primary_source` |
| `writer` | the process at the other end of the FIFO: none, feeding, or connected and quiet |
| `group`, `live`, `roster`, `announced` | the library: a client's group, whether a group's stream runs, the clients that stream serves, the playback state last pushed |
| `active`, `ps`, `lock` | `SourceFeeder._last_data_at`, `ps`, `_change_lock` |
| `eof`, `todo` | locals of `_pump` and `_go_idle` that live across an await |
| `pc`, `job` | where a feeder or a request is, and what it was asked |
| `connected`, `cleanup` | clients with a websocket, clients with an eviction pending |

| Actions | Code |
|---|---|
| `WriterSeen`, `ReadChunk`, `ReadEof`, `ReadTimeout` | `_open_reader`, the read in `_pump` with its three outcomes |
| `PushChunk`, `CommitChunk`, `CommitError`, `RepushChunk` | the locked push, the commit's three outcomes, the back-off and re-push |
| `AlreadyIdle`, `GoIdle`, `IdleLock`, `DetachOne`, `DetachedAll` | `_go_idle` await by await |
| `ReleaseCheck`, `ReleaseHangUp` | `release_local_player`, run by a feeder (`on_idle`) or by a request |
| `AttachPlayer`, `EnterChange`, `ChangeRemove`, `ChangeAdd`, `LeaveChange` | `attach_player` around `membership_change` |
| `DetachPlayer`, `DetachRemove` | `detach_player` |
| `StartSource`, `StopSource`, `StopStream` | `start_source`, `stop_source` (the feeder is cancelled wherever it is) |
| `WriterChanges`, `PlayerConnects`, `PlayerDrops`, `PlayerEvicted` | senders and players |

Assumptions about the library, taken from what the code's comments say of it: a stream's roster is
fixed when it starts, a client that connects is handed the running stream of its group,
`remove_client` stops a stream that has no player left, a bare `add_client` stops the group the
client came from, and every await on it may suspend.  PCM data, formats, pacing and the anchor
client are abstracted away.

`Broadcast` says what a listener may rely on, without feeders, locks or requests: sources go on and
off the air, players tune in and out, nobody tunes to a source while it is on the air, and everyone
tuned to a source when it goes on the air hears it.  `SourceRouting!KeepsPromise` maps `group`,
`connected`, the running streams and their rosters to it.

### Runs

| Run | Instance | Shows |
|---|---|---|
| `routing_one_source` | 1 source, 2 players, 2 requests, from boot | `HeardByMembers`, `ChangeIsQuiet`, `IdleIsTrueNone`, and the refinement `KeepsPromise` |
| `routing_two_sources` | 2 sources, 2 players, 2 requests that do not move one player at once, in session | `BystandersKeepListening`: moving a player away leaves the others listening |
| `routing_progress` | 1 source, 1 player, 2 requests, fair | `RequestsEnd`, `FedIsHeard`, `UnfedGoesIdle` |
| `routing_release` | violation | a player attached while the release awaits the end of the dial is hung up on |

Bounds.  One source suffices for the lock, because locks of different sources do not interact; two
concurrent requests suffice for one to hold it and one to wait; two players suffice for one that moves
and one that stays.  The two-source instance bounds sessions to one at a time (`OneSession`) with
links up, because the bystander property concerns one session and the move of a player out of it; a
source stops only while at most one request is under way, and writers do not fall quiet.  Two requests
that move one player at once are left out (`NoTwoMoves`), since they do cut a stream (section 4, item 4).
In-session instances start from `InitInSession`, a state the boot instance reaches, so that the short
way there is not explored again.  `QuiescentRestart` is the one restriction of behaviour: a source
is started again only when no request on it is in flight; a request that waited on the old feeder's
lock would work on the dead feeder.

Fairness.  `WF` on every task: the asyncio loop runs ready tasks.  `SF` on the four lock acquisitions:
`asyncio.Lock` wakes its waiters in order, so a waiter is not overtaken for ever.  Nothing is assumed
of senders, players or users.

### Proofs (`SourceRoutingProofs`)

For any numbers of sources, players and requests, from `RoutingAssumption` alone (the ids are
distinct):

* `TypeCorrect`: `Spec => []TypeOK`.
* `Invariance`: `Spec => []IInv`.  `ChangeIsQuiet` is not inductive, because a feeder gives the lock
  back and that must not be a request's lock; `IInv` adds `FeederHolds` (a feeder that commits or
  detaches holds its lock) and `LetsGo` (while a source detaches, its members are among those still
  to be removed: nobody joined meanwhile).
* `MembershipChangeIsQuiet`, `HeardByExactlyItsMembers`, `IdleLetsGoOfAll`: the run's safety
  properties, from `IInv`.
* `BystandersAreSpared`: `Spec /\ []NoTwoMoves => BystandersKeepListening`, for any number of requests on
  any number of sources.  A stream ends only when its feeder idles, its own source changes or stops, or
  nobody is left in its group; the bare `add_client` that could end another's stream finds the player in
  no group (`TakenOut`), and a source whose stream `stop_source` ends is out of the table by then
  (`Popped`).  The hypothesis is needed: without it `TakenOut` fails, and TLC finds the cut in ten states.
* `ServerKeepsPromise`: `Spec => KeepsPromise`.  Every step does one of seven things to what a listener
  can tell (`Audible`), and each maps to a step of `Broadcast` or a stutter.

Only model-checked: the liveness properties (out of the prover's reach).

### Simplifications

The re-push of a chunk is one step, which takes and gives back the lock it holds over an await in the
code, and it does not fail: there, an error other than "stream stopped" would end the pump (l.442-447,
l.395-397), as `CommitError` has it for the first push.  Of a membership change
`add_client` may raise, and `remove_client` (l.1095) does not.  `_go_idle` lists the members that have
negotiated a player role (l.482-487); here every member has one.

## 4. What the checks found

Five disagreements between the code and what its comments say have a run of their own; `PROJECT.json`
quotes the lines under `findings`.

* `routing_release`.  A feeder goes idle, the local player is in no streaming group, and
  `release_local_player` awaits the end of its dial.  Meanwhile an `attach` puts the player on a
  source that plays.  The release goes on to hang up on it: the check is not made again (l.824).
* `follow_local_grab`.  A unit has local activity and follow both on, and its master is idle.  A
  sender connects, the speaker is grabbed for the local source, and the next tick follows the master
  into idle: it compares the player's target with the last automatic one, which the grab has just set
  (`follow.py:274`), and unroutes what the user has started (against l.218).
* `settings_endpoints`.  Two edits of a list of endpoints overlap: both read it (`_section`,
  `integrations_api.py:67`) before either writes it back (`_save`, l.71), and the second drops what the
  first did.  The lock of the settings is taken for the write only, although the comment on it
  (`settings_api.py:35`) names this very case as what it is there to prevent.
* `cover_art_stale`.  The track changes from A to B while A's cover is being fetched.  B's fetch is
  dropped, because one is under way (`bluetooth_coverart.py:379`); then A's lands, is shown, is noted as
  the track shown and cancels the clear that was counting down for B (l.388-392).  Nothing is pending
  any more, and A's cover stays beside B's title, which is what note_track (l.295) is there to prevent.

* `bluetooth_seek`.  A phone is scrubbed and paused, or played on, and BlueZ signals the status and the
  position together, the only way an unpatched one signals a position (`bluetooth_avrcp.py:46`).
  `_apply_status` starts a task with the position it expected until then (l.704, l.714);
  `_apply_position_signal` anchors the new one (l.415); then the task runs and anchors the old one over
  it (l.735).  The scrub is lost, against l.385, "never dropped on the grounds of being unexpected".

The models reach the following as well.  None has a run: no property rules them out, or the property
says by a named history variable, or the instance by its description, that it leaves them out.

Source routing (`sendspin_server.py`):

1. `stop_source` on an active source stops its group and forgets the feeder, but the group is still
   announced as playing; a new `start_source` reuses it with `is_active` false (l.1057; docstring
   l.229).
2. `_go_idle` clears the session before it takes the change lock.  A membership change that holds the
   lock re-acquires the stream afterwards, so a stream runs that no writer feeds (l.477; against
   l.36).
3. `stop_source` leaves the players in the dead source's group (l.1051; `docs/ROUTING-MODEL.md:32`).
4. Two attaches of one player at once, to different sources, hold different locks: the second's
   `remove_client` and the first's `add_client` interleave, and the move cuts a stream others listen
   to (l.1092; l.1075).  `NoTwoMoves` leaves this out, and nothing else: `BystandersAreSpared` shows that
   it is the only way a move can do so.

Follow (`mesh/follow.py`):

5. The leader's source ends and by the next tick the leader plays another one.  The follower, idle by
   then, is neither where it was put nor where it should be, and is taken for overridden by a person
   (l.291; l.12, and item 13 of `docs/OPEN-ITEMS.md`).
6. A local grab that is refused sets `_overridden` all the same (l.221; l.44).
7. A single missed poll of the leader lifts the override of a follower that a person set to none, and
   the next tick routes it again (l.268; l.13).
8. A leader that is on a foreign server, or not reachable, counts as idle: the follower is unrouted
   from a source that still plays (l.274; l.28).
9. A follower that a foreign server feeds, and that was placed nowhere by follow before, is pulled
   off it (l.296; l.390).

Dialling (`sendspin_server.py`):

10. Two adopts of one speaker at once: the second finds no registration, because the first has popped
    it and waits, and dials; the end of the doomed task pops the new registration, and the first
    dials again: two diallers for one websocket (l.1646, l.1539).  A release that overlaps an adopt
    evicts the speaker just adopted (l.1698).  A dial that survives its cancels for more than two
    seconds is taken for gone (l.1657), which the comment at l.1642 accepts.

Sections 6, 8 and 9 list those of the other modules.

## 5. Following: `FollowReconciler`

Every unit with a speaker runs one loop (`mesh/follow.py`).  A tick reads the view its aggregator
cached, in which every slice has an age of its own, and makes at most one call: route, unroute, or a
grab of a local source.

| State | Code |
|---|---|
| `settings` | the unit's `autoSwitch` settings: local activity on or off, master unit |
| `active`, `at`, `fed` | the world: which sources are fed, where each player is, which are fed by a foreign server |
| `selfReport` | `DataAggregator._local_player_state`: what the player process last posted |
| `view` | `DataAggregator._view`: per unit a slice of every unit, of the time it was polled |
| `reported` | `_reported_master`, in the unit's snapshot, by which others detect cycles |
| `last`, `prevActive`, `overridden` | `_last_auto_target`, `_prev_active`, `_overridden` |
| `call`, `late` | the request a tick awaits, and those whose caller gave up while the peer still works on them |
| `chosen` | history: where a person, or a new local connection, put the player |

| Actions | Code |
|---|---|
| `Tick` = `Look` then one of `GrabLocal`, `StandDown`, `FollowTick` | `tick`: prelude, local activity, standing down, following |
| `ResetWithMaster`, `FollowIntoIdle`, `LeaveAlone`, `InSync`, `Override`, `Chase` | the branches of the follow half, in their order |
| `CallReturns`, `CallRefused`, `CallTimesOut`, `LateLands` | the REST call: performed, refused, given up and performed later |
| `PlayerReports`, `Fetch`, `FetchFails` | the self-report and the poll of one slice |
| `SourceStarts`, `SourceStops`, `PersonMoves`, `ForeignFeeds`, `ForeignParks`, `Configure` | senders, people, other servers, the settings page |

| Run | Instance | Shows |
|---|---|---|
| `follow_choice` | 2 units, 3 sources, 5 disturbances, polls in time, local activity off | `ChoiceStands`: follow never moves a player off what a person chose, until a documented reset; `TypeOK` |
| `follow_loops` | 3 units, one without a speaker: two speakers that follow each other or the third unit, on views of their own age, 1 disturbance; or one speaker with every setting, each slice polled at its own time, 2 disturbances | `PlayersSettle`, `CyclesBreak`, `FollowersArrive` |
| `follow_local_grab` | violation of `ChoiceStands` | local activity and follow both on (section 4) |

Bounds.  `MaxTrouble` caps what people, senders, other servers and the network do; the loops
themselves go on for ever.  Five disturbances let a person choose, be reset by the documented rule,
and choose again while the leader changes source.  `ChoiceStands` is checked with polls in time,
because a stale view breaks it (section 4, items 5 and 7); convergence is checked with stale ones,
because that is what could make players circle.  A ring of three units was tried and settles too; it
adds no case, since a cycle is broken by its lowest member whatever its length.

Fairness.  `WF` on reports, polls, ticks and the end of calls: all are timers of one loop, and a
request has a time limit.  A late request lands in the end.  Nothing is assumed of people or senders.

### Proofs (`FollowProofs`)

For any finite mesh, with any sources, from `FollowAssumption` alone (units are numbers, a source
belongs to a unit, and the marks for "none", "foreign" and "free" are neither):

* `TypeCorrect`: `Spec => []TypeOK`, under every setting, with stale views, timeouts and late requests.
  The inductive invariant is `IType`: besides the types, a slice lists only sources of its own unit
  (`Owned`), so that the source a tick picks exists.  The lemmas `Smallest`, `MinIn` and `BusiestIn` say
  that the lowest unit of a cycle, and the source of a leader that plays several, are among those they
  are chosen from.
* `ChoiceAlwaysStands`: `PromptSpec => ChoiceStands`, with no bound on disturbances.  `PromptSpec` is `Spec`
  with three restrictions, those of the run: a tick reads a view that is true of the world, local
  activity is off (with it on, `follow_local_grab` violates the property), and nobody touches players
  while a call is awaited.  `ChoiceStands` is about a step; what the next step may rely on is in
  `ChoiceInv`: where a person put a player is never what follow has noted as its own doing (`Apart`), so
  the tick sees a difference and takes it for an override; and no call is awaited that would take the
  player from there (`Minded`).

Only model-checked: `PlayersSettle`, `CyclesBreak`, `FollowersArrive` (liveness).

## 6. Source managers: `SourceManager`

One manager per family (AirPlay, Spotify, Bluetooth) reconciles what the settings ask for with what
runs (`sources/source_manager.py`).  The module models the base class and the server's start and stop
of sources; an endpoint's daemons are numbered, in the order they are launched.

| State | Code |
|---|---|
| `asked`, `rendered` | the settings file, and the configuration files last written |
| `sources` | the audio server's source table |
| `running`, `procs`, `loaded` | `_running` with its signatures, the daemons (alive or exited), and the configuration each set read when it was launched |
| `backoff`, `lastDesired` | `_backoff_until`, `_last_desired` |
| `wanted`, `left` | the cycle's `desired` and the endpoints its loop has not come to |
| `cur`, `doomed`, `then`, `pc` | the endpoint in work, the processes being killed, what follows, and the await |
| `strays` | daemons of an earlier server process that were signalled and not awaited |
| `spoiled` | history: a failure nobody retries happened to this endpoint |

| Actions | Code |
|---|---|
| `BeginCycle`, `StopUnwanted`, `Render`, `ReconcileOne`, `EndCycle` | `_reconcile_once` |
| `StartInstance`, `Respool`, `Rebuild`, `Reap`, `LaunchAgain`, `LeaveRunning` | the cases of one endpoint in it |
| `Started`, `StartRaises`, `SourceDown`, `StopRaises` | the awaits on the audio server |
| `KillOne`, `Killed`, `SpawnNothing`, `Launch`, `LaunchFails` | the kill and the spawn of a set |
| `StopRequested`, `ShutdownOne`, `Exit`, `Crash`, `Restart` | SIGTERM, shutdown, and a new server that sweeps its predecessor's daemons |
| `EditEndpoint`, `DaemonExits`, `SourceStoppedByApi`, `BackoffElapses`, `StrayDies` | users, daemons, `POST /api/mesh/source/stop`, time |

`Endpoints` declares what an endpoint is.  The run `unit_services` (section 8) goes through the manager too,
with two endpoints of two daemons each, one of them with two configurations, and checks:

* `ConfigInForce`: daemons run the configuration `_running` records for them;
* `OneOfEach`: no endpoint has one daemon alive twice, although a set leaves `_running` before its
  processes are dead;
* `OthersUntouched`: work on one endpoint leaves the healthy daemons of the other alone;
* `FollowsSettings`: an endpoint left alone ends up as asked, whatever happens to it or to the others.

Bounds.  Edits are unlimited.  `MaxTrouble` counts exits, failures, API stops, crashes and SIGTERMs.
`ManageBudget` of `MCUnitServices` gives a single endpoint three, and lets two endpoints share one while
the first keeps its first configuration, and none once it has had the second.  Three suffice for a
failure, a failure of its repair, and a crash in between; two endpoints suffice for one that is worked
on and one that must not be.  `ManageBudget` only drops behaviours, and the safety properties are proved
without it.

Fairness.  `WF` on the manager's loop, on the end of a back-off and on the death of what was signalled
(a kill follows the grace period).  Nothing is assumed of users, exits or failures.

### Proofs (`SourceManagerProofs`)

For any finite set of endpoints with any configurations, any number of daemons each, and any number of
failures, from `ManagerAssumption` alone: `TypeCorrect`; `RunsWhatIsRecorded` (`ConfigInForce`);
`NoDaemonTwice` (`OneOfEach`); `HealthyIsUntouched` (`OthersUntouched`); all from `Invariance`.  They are
theorems of `UnitSpec`, in which the manager is the instance `Manage`: every step of a unit is a step of it
or leaves it alone (`ManageSteps`), whatever the other services do, and none of its fairness is used.

`ConfigInForce` is not inductive: a set is recorded before it is launched, so that what it will read must
be on disk already.  `IInv` says where each step of the cycle has got to: an endpoint in work is named
exactly while something of it is awaited (`AtWork`); who is out of `_running` has no daemons
(`NothingOwned`) and a set that is being killed has been forgotten (`Killing`), which is why no second one
is launched beside it; a start, and a spawn half done, is of the configuration that was asked for
(`Starting`, `Spawning`); and the files hold what the last cycle wanted, but for an endpoint a step failed
for (`OnDisk`, `Desired`, `Left`).

Only model-checked: `FollowsSettings` (liveness).

### Limits

Simplifications.  The head of the loop over endpoints is a step of its own; the await inside
`update_source` is merged with the step before it, and it does not raise (l.186-190); a start that
raises before anything is registered is not told from one that raises after it; metadata monitors and Bluetooth adapters are left
out; the sweep of a new server is taken to kill in the end.

Reached by the model and exempted by `spoiled` or outside the properties:

* a render that fails with `OSError` is suppressed and not tried again, so the daemons are respooled on
  the old file for good (l.171, against l.167-168);
* `stop_source` raises after the endpoint has left `_running`: the source stays up, owned by nobody
  (l.225); likewise a start that raises before the user disables the endpoint (l.212);
* SIGTERM cancels a kill under way, and the daemons it had not reached outlive the server (l.131,
  l.288); the next server's sweep gets them;
* outside the model: a rebuilt source gets a second monitor or adapter, the first is overwritten in its
  table (`sendspin_server.py` l.1905, l.1950).

## 7. Taking and letting go of a speaker: `Dialling`

`Dialling` models what happens at one speaker's URL when requests adopt it, reclaim it, release it, or
let the local player go (`sendspin_server.py`), against the library's dial tasks and eviction timers.
The library is external: its steps follow `docs/UPSTREAM-AIOSENDSPIN.md`, sections 3 to 5.

| State | Code |
|---|---|
| `dial` | each dial task: gone, connecting, in session, or backing off |
| `registered` | the library's `_connection_tasks[url]` |
| `known`, `grouped` | is the URL known for the client id; is the client in the group of one of our sources |
| `handle`, `orphan` | an eviction that can still be cancelled; one whose handle was overwritten |
| `pc`, `old`, `asked` | where each request is, the dial it waits for, and what it is |
| `excused`, `freed` | history: requests overlapped or a wait ran out; the last request let go of the speaker |

| Actions | Code |
|---|---|
| `AdoptHeld`, `Adopt`, `Reclaim`, `Release`, `LetGo` | the five entries, up to their first await |
| `CancelAgain`, `Stopped`, `Lands`, `GivesUp` | `_stop_dialing` waiting for the task, and what is done after it |
| `Detached`, `HangUp`, `Forget`, `LetGoEnds` | the rest of `release_foreign_client` and `release_local_player` |
| `Connects`, `ConnectFails`, `SessionBreaks`, `Redials`, `TakenAway`, `EvictionDue` | the library and the network |

In `unit_speakers` there are two callers and four names for dial tasks, more than the tasks that can be
alive at once with two callers, and no other bound.  It checks `OneDial`, `ReleaseSticks` and
`PlayingIsNotCut`, which excuse overlapping requests and waits that ran out (section 4, item 10), and
`NoEvictionPending` and `RequestsEnd`, which excuse nothing.  Pairing and trust are abstracted to the
fact that a session starts.  Fairness: `WF` on each request's own steps; both waits have deadlines, so
a request goes on even when the dial does not end.

### Proofs (`DiallingProofs`)

For any callers and any dial tasks, from `DiallingAssumption` alone (`None` is neither a task nor a
request): `TypeCorrect`, `NoEvictionIsPending`, `OneDialOnly`, `DialIsAlwaysKnown`,
`ReleaseAlwaysSticks`, `PlayingIsNeverCut`.

`OneDial` is not inductive.  The argument is in `Strengthening`: while a request waits for a dial to
end, the registry is empty (`Stopping`), so whatever runs is either registered or being waited for
(`Tracked`); past the wait nothing is registered (`Hung`), and the task waited for is gone, so the new
dial is alone.  This needs that requests do not overlap (`Alone`), which `excused` records.  A redial
spares a playing speaker because an adopt only stops a dial that is not the playing one (`Spared`).
`NoEvictionPending` needs no such excuse: there is one session at a time (`OneSession`), a timer is
armed only when that session ends, and connecting cancels it.

`RequestsEnd` is only model-checked.

## 8. The services of a unit: `unit_services`

Each module is small and has its own fairness, state and properties; the run goes through all six,
and through `SourceManager` (section 6), one by one (section 2).  What a module says of itself at its head is not repeated here.

| Module | State | Actions |
|---|---|---|
| `CalibrationTone` (`calibration_tone.py`) | `at`, `level`: where each speaker is and how loud; `link`, `held`: whose server it is connected to, and `_pending_volume`; `view`: the polled view; `cal`, `writers`, `state`: tone sources, writer tasks, the session; `old`, `new`, `queue`, `pc`, `asked`: locals, and who holds or awaits the lock | `Ask`, `Turn`, `Expires`: requests and the watchdog; `Record` ... `Levelled`: `start` await by await; `Dropped`, `Fails`, `Undone`: its failures; `Restored`, `TornDown`, `Relevelled`: `_stop_locked`; `People`, `Links`, `ViewPolled` |
| `Loudness` (`mesh/loudness.py`, `calibration.py`) | `level`, `reported`, `members`, `view`: the speakers, and what is known of them; `commanded`, `unconfirmed`, `target`, `intent`, `nudge`: the reconciler's own | `Cycle` (one `tick`, with every command failing or not), `ByHand`, `Elsewhere`, `Joins`, `Leaves`, `Echo`, `Polled`, `ToneStarts`, `ToneEnds`, `PolicySet` |
| `CalibrationRecords` (`calibration_api.py`) | `table`, `heard`, `page`, `saved`: what each unit holds, has heard, and shows; every save's revision and stamp | `PutOne`, `DeleteOne`, `Show`, `Hear` |
| `SettingsStore` (`settings_api.py`, `integrations_api.py`) | `file`, `content`: settings.json; `thread`: what each endpoint request has read; `copy`: what each page was served; `told`, `strayed`: history | `Section`, `SaveEndpoints`, `SaveBack`, `Refuse`, `SaveFails`, `PutOne`, `DeleteOne`, `Serve`, `PostSettings`, `Damage`, `Repair`, `Restart` |
| `Discovery` (`mesh/discovery.py`, `aggregator.py`) | `age`: the peer table; `view`; `refresh`: the refreshes under way, the poll's and a request's | `Beacon`, `StrangerBeacon`, `Interval`, `RefreshBegins`, `Runs`, `Changes`, `StartsOrStops` |
| `BluetoothCapture` (`bluetooth_adapter.py`) | `task`: the handlers of signals and the await each is at; `active`, `loop`, `loops`, `recorder`, `capture`: the one capture and what is left of earlier ones | `LinkUp`, `LinkDown`, `ServicesFound`, `Removed`; `Handler` (`Reads`, `Adopts`, `Paired`, `Drops`, `HandsOver`, `Stopped`, ...); `Capture` (`Spawns`, `RecorderDies`, `LoopEnds`, ...) |

What the run shows:

* `NothingLeft`, `PutBack`, `NoiseStops`: without a session no source or writer of a tone is left, every
  speaker is where people had it, and as loud or will be when it next connects here, if its level could
  be known; and a tone ends whoever walks away.
* `Settles`, `OnlyHandsLead`: once people let go, a matched group stays at one loudness, led by the
  speaker that was moved last; no echo, late or missing, no tone and no joiner is taken for a hand.
* `LaterWins`: no unit prefers a record to one saved by somebody who had seen it, whatever the clocks.
* `ToldIsKept`: what a page was told is saved stays, through damage, conversion and other requests, but
  for the items that somebody wrote back as they had read them before.
* `ViewSettles`: strangers that fill the table, lost beacons and overlapping refreshes leave the view as
  the mesh is.
* `CaptureSettles`: when phones have calmed down, the one capture records a phone that is there and
  sends, if there is one.

Bounds.  Tone: one speaker of the mesh, one third-party speaker known under two ids, one source, of
another unit, one request at a time beside the watchdog; `ToneBudget` of `MCUnitServices` has nothing else
go wrong once a speaker was left behind, until people have seen to it, and only drops behaviours
(`NothingLeft` and `PutBack` are proved without it, for any sources and any number of requests).  Loudness: two speakers of different sensitivity, three moves, levels 0 to 2.
Records: two units whose clocks disagree, three saves.  Settings: two threads, one page that keeps a copy, two endpoints, one output, one damage.
Discovery: a table of one entry, one unit and one stranger, so that the table is full as soon as either
is heard.  Bluetooth: two phones, two handlers, three capture loops, four changes.

Fairness.  `WF` on the lock's holder and the watchdog, on the polls and cycles, on handlers and capture
loops: tasks and timers of one event loop, with time limits on what they await.  Nothing is assumed of
people, phones, strangers or speakers.

### Proofs (`CalibrationToneProofs`, `UnitServicesProofs`)

* `CalibrationTone`, for any speakers, sources, levels, lengths of session and number of callers, from
  `ToneAssumption` (the ids and marks are distinct): `TypeCorrect`, `Invariance`, `NothingIsLeft`
  (`NothingLeft`), `EveryoneIsPutBack` (`PutBack`).  Both properties speak of the quiet state only, and
  nothing in them is inductive.  `IInv` follows the one request that holds the lock (`Locked`: the queue
  and the labels agree, and only its head is at work) and says at each await what is up and what it has
  in hand (`InHand`, `Formed`, `Played`: the sources and writers are those of the session, or of the one
  being built or torn down), that a watchdog sleeps exactly while there is a session (`Watched`), and that
  every speaker is at home, on the tone with its home in the record, or waiting to be put back
  (`Remembered`, `Placed`, `Levels`), the record being taken from a view that was true (`Viewed`).  Of a
  level this is said where a session could know it: for a speaker in `unheard` it could not.  A level put
  back is on the speaker or held for it, and whoever connects here with one held gets it
  (`ComesFacts`, `AttachedFacts`).
* `SettingsStore`, for any requests, pages, endpoints, outputs and damages: `WhatWasToldIsKept`
  (`ToldIsKept`).  The calibration routes build their write on what the file holds; an endpoint edit
  and a page's `POST` do not, and each item in which what they write differs from what the file holds
  is in `strayed`, until somebody saves that item anew.
* `CalibrationRecords`, for any units, saves and clocks, from `RecordAssumption`: `LaterRecordWins`
  (`LaterWins`).  Revisions grow along whoever has seen whom, and a stamp only decides between equal ones.

The last two are stated of `UnitSpec`, which the run checks within the budgets named above.  Only model-checked:
`NoiseStops`, `Settles`, `ViewSettles`, `CaptureSettles` (liveness), and `OnlyHandsLead`: that an echo is
told from a hand rests on the history of what was commanded and what was polled, which needs an
invariant over all the values on their way, and is left to a later proof.

### Limits

What the models reach that no property rules out:

* Tone: a session on a second speaker that starts on top of one carries the first speaker's restore
  record (`calibration_tone.py:266`), a start right after the end of a session records the place from a
  view that is a poll old, and a start that fails late leaves the speaker in the group of a source that
  is gone; a route that answers "not done" counts as done; a speaker that was adopted is released at the
  end even if it was on one of our sources; and what is to be put back may fail.  `excused` records all
  of these.  In the model no start is asked for a speaker that is excused, the second id is used only
  while that speaker is idle, and people leave a speaker alone while it is calibrated.
* Tone, levels: only connected speakers are in the view (`sendspin_server.py:1760`), and an idle one has
  been let go (l.1112).  A session on it knows no level to restore (`calibration_tone.py:414`), and the
  speaker stays at the tone's level: an ordinary use of the wizard, which the docstring of
  `_current_placement` accepts for "a player we have never seen".  And a speaker put back on another
  unit's source has left when its level is restored (l.545, after l.526): the level is held here
  (`sendspin_server.py:1379`) until it next connects to this unit, perhaps after people have set another.
  `unheard` records the speakers of the first kind, and those whose held level came too late.
* Loudness: a cycle is one step, since nothing it calls suspends.  People wait until the last command has
  been polled; other controllers act at rest only.  `Careful` leaves out two cases: a person who turns up
  a speaker that is matched to nobody, and mute by volume 0; an intent for a speaker that is not in a
  matched group waits, and applies when it joins one later (`loudness.py:360`).
* Settings: what a section contains beside endpoints and records is left out.  `EndpointEditsKept` fails
  (section 4).  The same window is open to `update_bitrate` and `set_all_enabled`, which write back the
  list they read with no endpoint added or removed (`integrations_api.py:167`, l.194), and
  `POST /api/settings` replaces whole sections with a page's copy, however old
  (`settings_api.py:705`; the docstring of `mutate`, l.555, says so).  `strayed` records, item by item, what
  these undo.
* Discovery: an older refresh that ends after a newer one replaces the view until the next poll; a full
  table of strangers refuses a unit that missed its lifetime until one of them expires
  (`discovery.py:183`).  A peer that is listed is fetched, or is not there: one fetch that fails in
  between, and a reply that does not parse (`aggregator.py:135`), are left out.
* Bluetooth: a phone that leaves while its pairing is being written gets the capture all the same
  (`strayed`; `bluetooth_adapter.py:392`).  A phone whose object is removed between the read of its
  properties and the read of its address stays in `_connected`, and a handler that outlives `stop` begins
  a capture; the strikes against a bond, the agent, the settings and `stop` are left out.

## 9. A unit, its speakers and its phones: `unit_speakers`

The run goes through `Dialling` (section 7) and eight more modules.

| Module | State | Actions |
|---|---|---|
| `Pairing` (`sendspin_server.py`) | `paired`, `staged`, `trusted`: the pairing store; `phase`, `pin`, `future`, `status`, `cancelling`: the attempts, `_pending_pins`, `_pairing` | `PairClient`, `AskForPin`, `SubmitPin`, `Exchange`, `CancelPairing`, `EndedPairing`, `UnpairClient`, `OpenWindow`, `Prepare`, `PairOwn`, `Connect`, `Disconnect` |
| `HeldLevels` (`sendspin_server.py`) | `link`, `held`, `delay`, `role`, `tasks`: the connection, `_pending_volume`, `_player_delay_ms`, what the speaker plays at, tasks due | `SetPlayerVolume`, `SetPlayerDelay`, `Report` (with `_on_server_event`), `ApplyPendingVolume`, `Connect`, `Disconnect` |
| `OutputChoice` (`output_gate.py`, `audio_devices.py`, `audio_api.py`, `sendspin_player.py`) | `choice`, `present`, `proc`, `renderer`, `watch`, `switch`, `echo` | `GateAnswers`, `PlayerStarts`, `PlayerOpens`, `WatchBegins`, `Tick`, `Reopen`, `TickEnds`, `SetOutputDevice`, `CardGoes`, `CardComes`, `PlayerDies`, `ContainerStarts` |
| `Renderer` (`AlsaRenderer`) | `chunks`, `buffered`, `aligned`, `ema`, `tick`, `work`: the jitter buffer, the phase, and the block being filled | `Enqueue`, `Flush`, `MarkIdle`, `Open`; `Callback`, `PopHead`, `Contiguous`, `Hold`, `Skip`, `Copy`, `BlockEnds`: the loop of `_take` |
| `ConsumeRelay` (`sendspin_player.py`, `mesh/api.py`) | `frame`, `dirty`, `sending`, `link`: the player's end; `serving`, `producer`, `cache`, `casting`: the mesh API's; `consumers`, `bring`, `page`: the browsers' | `ServerTells`, `PairingPrompts`, `SendStarts`, `SendEnds`, `Connects`, `Breaks`, `Notices`, `Handler`, `Opens`, `BringsUp`, `Closes` |
| `PlayerReports` (`sendspin_player.py`, `player_state.py`) | `level`, `carried`, `file`, `saving`, `echoes`, `sends`, `believed`: the level and where it is said; `starved`, `due`, `reported`, `flowing`, `lastPlaying`: the health and the last server | `OnServerCommand`, `Saved`, `EchoBegins`, `HealthPolled`, `SendEnds`, `Stalls`, `OnConnection`, `Detached`, `StreamChanges`, `Restarts`, `Interval` |
| `CoverArt` (`bluetooth_coverart.py`, `bluetooth_avrcp.py`) | `session`, `reopening`, `lastKey`, `shownKey`, `clearing`, `fetch`: its fields and its two tasks; `art`: what the role serves | `TrackChanges`, `SentAgain`, `HandleArrives`, `PlayerGone`, `PlayerBinds`, `Reset`, `Prepare`, `GivesUp`, `RefreshArt`, `Asks`, `FetchFails`, `Lands`, `ClearAfterGrace` |
| `PhoneProgress` (`bluetooth_avrcp.py`) | `ours`, `reads`, `seed`: the anchor, a held position, tasks not begun and answers on their way; `phone`, `owed`: the phone and what BlueZ has yet to signal; `shown` | `Signalled`, `Polled`, `ReanchorNow`, `PositionRead`, `TickOnce`, `AsksAgain`, `Seeded`, `NextTrack`, `PlayPause`, `Scrub`, `TrackAgain`, `PlayerGone`, `PlayerBound`, `Second` |

What the run shows, besides the properties of section 7:

* `AttemptsEnd`: the pairing dialog never waits for good.
* `HeldForIt`: a level or a delay set while the speaker is away is in force once it has reported and the
  tasks have run, however often it left in between.
* `ChoiceIsHeard`: in the end the chosen card sounds, or the API says what is missing.
* `InPhase`: no block is longer than asked, every frame is counted, and the first frame of a stream is
  within the deadband of its time however the stream before it ended.
* `PagesSettle`: every open page comes to show the player's last frames.
* `SaidIsSo`: in the end the file and the server have the level the player plays at, the file says
  whether it keeps up, and for which server it last played.
* `ArtSettles`: in the end no cover of another track is shown, but for one that landed late (section 4).
* `TimelineSettles`: in the end a page's timeline is where the phone is, and runs when it does, however
  track, status and position are bundled into signals; but for what is `astray`, which includes the
  position that `bluetooth_seek` shows to be lost (section 4).

Bounds.  Each instance has the fewest actors that race: two pairing attempts, two cards, one browser and
two connections, two servers and two echoes, two tracks; budgets of two to four disturbances are
counted by each module's `MaxTrouble`, `MaxChanges` or `MaxDrops`.  `LineBudget` of `MCUnitSpeakers` has
the last of a phone's three changes made while nothing is `astray`, and nothing go astray after it; it only
drops behaviours, and `bluetooth_seek` goes through the same module without it.  The renderer works in frames, with
blocks and chunks of two, a buffer of four and streams that come early or late; the deadband is 0, so
any slip counts.  A track is one unit long, a unit being more than every slack of the code.

Fairness.  `WF` on tasks, timers and sends of the event loops, as each module states it; on a pairing
exchange and its end, which have time limits.  Nothing is assumed of networks, phones, cards or people,
nor of the audio thread, whose property is an invariant.

### Proofs (`UnitSpeakersProofs`)

* `WhatIsHeldComes` (`HeldForIt`), for any levels and any number of connections and requests, from
  `HeldAssumption`.  `HeldInv` says the same of a speaker that is away: what it plays at is what was last
  set or that is held for it, and the task that sends it is due from its report on.
* `FirstFrameIsOnTime` (the half `FirstFrameOnTime` of `InPhase`), for any sizes of block, chunk, buffer and
  deadband, any streams and any slips of the clock, from `RenderAssumption`.  `PhaseInv` says that
  until a frame of the stream is served on schedule the renderer is not aligned, and that between
  streams the buffer is empty, so that nothing aligns it; both but for a stream that is drained.

* `EveryFrameCounts` (`InPhase` as a whole), from the same assumption: besides the phase, no block is
  longer than asked for, and `_buffered` is what the chunks hold, however frames are dropped at the old end,
  skipped, trimmed, doubled or padded.  `CountInv` is inductive with the types of the chunks and of the
  block; the work is in what the sums of a sequence are (`SumsExist` to `FramesWithout`): `Sums` is a
  recursive function, and each fact about it is shown at the first place where it could fail, which
  exists because a set of numbers has a smallest (`Smallest` in `LeastNumber`).

Only model-checked: all liveness.

### Limits

What the models reach that no property rules out:

* Pairing: `set_unpaired_access` (`sendspin_server.py:871`) has no caller and is left out.  A second
  attempt's PIN future is removed by the first one's end (l.686), and it then ends by its time limit; the
  dialog goes on saying `awaiting_pin` while a PIN is being checked.
* Held levels: a level set while the speaker is connected leaves an older held one in place, and one set
  before its role is negotiated is refused; `raced` exempts both.
* Output: a card that is present opens; a device index that PortAudio does not resolve
  (`sendspin_player.py:328`) is left out.  `main` and the watcher each read the choice once, and one made in between is taken up at the
  next start only (`missed`; against `audio_api.py:154`).  A card that goes from under an open stream is
  noticed by nobody.  Choosing no output while the player has nothing open says that no restart is
  needed.
* Renderer: a stream that ends with audio in the buffer aligns the renderer again while that drains, so
  the next stream's first frame may be off (`drained`; against the comment in `mark_idle`).  This is
  common: a stream that ends on the server's word usually has audio buffered, so the phase half of
  `InPhase` speaks of streams that begin the session, follow a flush, or follow one that ran dry.  The
  branch for a chunk whose play time is not known (l.662) is left out.
* Relay: a player that reconnects finds the caches cleared and does not send again what it sent before
  (`missed`; against `mesh/api.py:170`, l.333).  A cached frame may reach a new page after a newer
  broadcast (`overtaken`).  A page that opens or closes during a broadcast changes the set being iterated,
  and the exception ends the handler of the player's connection.
* Reports: an echo that finds no connection counts as one (l.1514), which only delays.  A level set less than two seconds before the player ends is not saved
  (`sendspin_player.py:1583`); a health an earlier process left in the file stays until the next change
  (`relic`; l.812).  The renderer is not told of a disconnect, so a connection without a stream can read
  as starving, and after a stall nothing flows until the next `stream_start`; a starvation whose report
  fails is not seen again.  Nothing in the repository reads the health, though `player_state.py` says
  that the mesh API serves it.
* Cover art: a track that is skipped back to within the fetch of a track without art is not fetched again
  (`_last_key`), and good art can be cleared when two tracks change places quickly, because a clear that
  is counting down for the track now shown is not called off (`note_track`, l.299).
* Timeline: a signal carries any of the three properties that are due, in the order `_on_props` takes
  them; a position alone is signalled only by a BlueZ that polls (`Polled`), which nothing ensures.
  `astray` records what clients may be left with: a position signalled with a change of status
  (`bluetooth_seek`, section 4); one read from a device that answers wrongly in a way no check can tell,
  among them the true 0 of a track skipped to while paused, which is taken for the known lie (l.739); and
  a seed that is applied after the signals which overtook it (l.427-520): its state, track or position
  stays until the next signal of that kind.  Each is taken out again by the signal that puts it right
  (`Corrected`).

## 10. What is proved, what is only checked, what is left out

Proved for every value of the constants, each from the named assumption of its module and nothing else:

| Proofs | Theorems | Section |
|---|---|---|
| `SourceRoutingProofs` | types, `ChangeIsQuiet`, `HeardByMembers`, `IdleIsTrueNone`, `BystandersKeepListening` for requests that do not move one player at once, and the refinement of `Broadcast` | 3 |
| `FollowProofs` | types, `ChoiceStands` | 5 |
| `SourceManagerProofs` | types, `ConfigInForce`, `OneOfEach`, `OthersUntouched` | 6 |
| `DiallingProofs` | types, `NoEvictionPending`, `OneDial`, `DialIsKnown`, `ReleaseSticks`, `PlayingIsNotCut` | 7 |
| `CalibrationToneProofs` | types, `NothingLeft`, `PutBack` | 8 |
| `UnitServicesProofs` | `ToldIsKept`, `LaterWins` | 8 |
| `UnitSpeakersProofs` | `HeldForIt`, `InPhase` | 9 |
| `LeastNumber` | a set of numbers has a smallest, the induction the others use | 5, 9 |

The bounds of the instances (`MaxTrouble` and its like) are constants too: the theorems hold for every
value of them, and so for behaviours of any length.

Only model-checked: every liveness property (fairness and `ENABLED` are out of the prover's reach), and
`OnlyHandsLead` of `Loudness` (section 8).  The library's induction theorems take an operator as their
parameter, which no installed prover instantiates; where a proof needs induction it takes the smallest
counterexample instead.

## Not modelled

* The updater; AirPlay's metadata pipe and remote; Spotify's event socket; the Avahi registration: small
  machines of their own, candidates in the order of section 2.
* The device-name watcher and the table of speaker names: a reread file, and a write under one lock.
* Identities, FIFO names, CORS and rendering of configuration files: pure functions of strings.
* The orchestrator's order of start and stop; the browser, which shows what it is sent, but for the
  volume it holds while a slider moves; shell scripts of the host and the container.
* Audio data, codecs, clock synchronisation and cryptography, which are the library's.

`PROJECT.json` lists every component with its status, and every hazard with the properties that cover it
or the reason that none does.
