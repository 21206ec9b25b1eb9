--------------------------- MODULE CalibrationTone ---------------------------
(***************************************************************************)
(* The calibration tone of a unit: one speaker is taken off what it plays, *)
(* put alone on a transient source at a known level, and put back          *)
(* (backend/scripts/calibration_tone.py, the handlers of it in             *)
(* mesh/api.py and the routes it asks mesh/router.py for).                 *)
(*                                                                         *)
(* Requests and the watchdog take turns at one lock; a step is what its    *)
(* holder does between two awaits.  The view the session remembers a       *)
(* speaker's place from is a cache that is polled.                         *)
(***************************************************************************)
EXTENDS Naturals, Sequences, SequencesExt

CONSTANTS Own,     \* the speakers of the mesh
          Guest,   \* a third-party speaker, by the id of its handshake
          Alias,   \* the same speaker as mDNS names it, with a URL
          Source,  \* the sources people listen to
          Remote,  \* those of them that are another unit's
          Level,   \* volumes
          Caller,  \* requests under way
          Watch,   \* the watchdog task
          None

Speaker == Own \cup {Guest}
Name    == Speaker \cup {Alias}
Actor   == Caller \cup {Watch}
Cal(n)  == <<n>>                       \* CAL_SOURCE_PREFIX + player_id
Place   == Source \cup {Cal(n) : n \in Name} \cup {None}

VARIABLES at, level,  \* where each speaker is attached, and how loud those of the mesh are
          link,       \* whose server those are connected to: this unit's, another's or nobody's
          held,       \* the engine's _pending_volume: set once the speaker connects here
          view,       \* the aggregated view: sources and levels, as they were last polled
          cal,        \* tone sources the engine runs
          writers,    \* tone sources with a writer task
          state,      \* CalibrationToneController._state
          old, new,   \* the session being undone and the one being built: locals of the lock's holder
          queue,      \* who holds the lock, and who waits for it, in order
          pc, asked,  \* where each actor is, and what it was asked
          home,       \* history: where people had each speaker, and how loud
          excused,    \* history: speakers whose session had not the record, or the luck, to restore
          unheard     \* history: speakers whose level no session could know, or a held one changed

gainVars == <<level, link, held>>
toneVars == <<cal, writers, state, old, new>>
taskVars == <<queue, pc, asked>>
vars == <<at, gainVars, view, toneVars, taskVars, home, excused, unheard>>

Session == [speaker : Speaker, name : Name, source : Source \cup {None}, level : Level \cup {None},
            adopted : BOOLEAN]
Request == [op : {"start"}, name : Name, level : Level] \cup [op : {"level"}, level : Level]
           \cup [op : {"stop"}]

ASSUME ToneAssumption ==
    /\ Guest \notin Own /\ Alias \notin Speaker /\ Watch \notin Caller
    /\ None \notin Source \cup Level \cup Session \cup Request
    /\ \A n \in Name : Cal(n) \notin Source \cup {None}
    /\ Remote \subseteq Source /\ None \notin {"here", "away"}

Label   == {"idle", "waiting", "restoring", "tearing", "relevel", "undone", "synth", "viewing",
            "opening", "routing", "adopting", "levelling", "dropping", "failing", "asleep"}

TypeOK ==
    /\ at \in [Speaker -> Place]
    /\ level \in [Own -> Level]
    /\ link \in [Own -> {"here", "away", None}]
    /\ held \in [Own -> Level \cup {None}]
    /\ view \in [at : [Speaker -> Source \cup {None}], level : [Own -> Level \cup {None}]]
    /\ home \in [at : [Speaker -> Place], level : [Own -> Level]]
    /\ cal \subseteq Name /\ writers \subseteq Name
    /\ {state, old, new} \subseteq Session \cup {None}
    /\ queue \in Seq(Actor) /\ IsInjective(queue)
    /\ pc \in [Actor -> Label]
    /\ asked \in [Actor -> Request \cup {None}]
    /\ excused \subseteq Speaker /\ unheard \subseteq Own

\* What is read off the units' reports: who is on which source, tones left out, and the levels of
\* the speakers that are connected, for only those are reported.
Published ==
    [at    |-> [p \in Speaker |-> IF at[p] \in Source THEN at[p] ELSE None],
     level |-> [p \in Own |-> IF link[p] = None THEN None ELSE level[p]]]

Init ==
    /\ at = [p \in Speaker |-> None]
    /\ level \in [Own -> Level]
    /\ link \in [Own -> {"here", None}] /\ held = [p \in Own |-> None]
    /\ view = Published
    /\ cal = {} /\ writers = {}
    /\ state = None /\ old = None /\ new = None
    /\ queue = <<>>
    /\ pc = [x \in Actor |-> "idle"]
    /\ asked = [x \in Actor |-> None]
    /\ home = [at |-> at, level |-> level]
    /\ excused = {} /\ unheard = {}

Holds(x)  == queue # <<>> /\ Head(queue) = x
Who(n)    == IF n = Alias THEN Guest ELSE n
Goes(x, label) == pc' = [pc EXCEPT ![x] = label]

-----------------------------------------------------------------------------
(* The engine: attaching a speaker, and its level.                         *)

\* set_player_volume: at once if the speaker is connected here, and else when it next is.
SetLevel(p, v) ==
    /\ level' = [q \in Own |-> IF q = p /\ link[q] = "here" THEN v ELSE level[q]]
    /\ held'  = [q \in Own |-> IF q = p /\ link[q] # "here" THEN v ELSE held[q]]
    /\ UNCHANGED link

\* Whoever connects here gets the level that is held for it.
Comes(p) ==
    /\ link'  = [q \in Own |-> IF q = p THEN "here" ELSE link[q]]
    /\ level' = [q \in Own |-> IF q = p /\ held[q] # None THEN held[q] ELSE level[q]]
    /\ held'  = [q \in Own |-> IF q = p THEN None ELSE held[q]]

\* p is attached to a source, a tone or to none; a speaker of our own is then let go, others stay
\* connected.
Attached(p, s) ==
    /\ at' = [at EXCEPT ![p] = s]
    /\ \/ s \notin Remote \cup {None} /\ Comes(p)
       \/ \E l \in IF s = None THEN {link[q] : q \in Own \cap {p}} \cup {None} ELSE {"away"} :
              /\ s \in Remote \cup {None}
              /\ link' = [q \in Own |-> IF q = p THEN l ELSE link[q]]
              /\ UNCHANGED <<level, held>>

\* History: a level that was held is not the one people have set since.
Overtaken(p) == {q \in Own \cap {p} : link'[q] = "here" /\ held[q] \notin {None, home.level[q]}}

-----------------------------------------------------------------------------
(* Around the controller.  People leave a speaker alone while it is being  *)
(* calibrated, and the view has caught up with them by the time they ask.  *)

Quiet == state = None /\ queue = <<>>

Seen(p) == view.at[p] = at[p] /\ (p \in Own => view.level[p] \in {None, level[p]})

\* p's place and level in a record of them.
Noted(record, p, places, volumes) ==
    [at    |-> [record.at EXCEPT ![p] = places[p]],
     level |-> [q \in Own |-> IF q = p THEN volumes[q] ELSE record.level[q]]]

PersonMoves(p, s) ==
    /\ Quiet
    /\ Attached(p, s)
    /\ home' = Noted(home, p, at', level')
    /\ view' = Noted(view, p, Published'.at, Published'.level)
    /\ excused' = excused \ {p} /\ unheard' = unheard \ {p}
    /\ UNCHANGED <<toneVars, taskVars>>

PersonLevels(p, v) ==
    /\ Quiet /\ p \notin excused /\ link[p] # None
    /\ level' = [level EXCEPT ![p] = v]
    /\ home' = Noted(home, p, at, level')
    /\ view' = Noted(view, p, Published.at, level')
    /\ unheard' = unheard \ {p}
    /\ UNCHANGED <<at, link, held, toneVars, taskVars, excused>>

\* A speaker that is with nobody is dialled, here or elsewhere, or let go.
Connects(p) ==
    /\ at[p] = None /\ link[p] # "here"
    /\ Comes(p)
    /\ unheard' = unheard \cup Overtaken(p)
    /\ UNCHANGED <<at, view, toneVars, taskVars, home, excused>>

Leaves(p) ==
    /\ at[p] = None
    /\ \E l \in {"away", None} \ {link[p]} : link' = [link EXCEPT ![p] = l]
    /\ UNCHANGED <<at, level, held, view, toneVars, taskVars, home, excused, unheard>>

ViewPolled ==
    /\ view' = Published
    /\ UNCHANGED <<at, gainVars, toneVars, taskVars, home, excused, unheard>>

-----------------------------------------------------------------------------
(* Requests and turns at the lock.                                         *)

Waits(x) ==
    /\ queue' = Append(queue, x)
    /\ Goes(x, "waiting")

\* POST .../tone, .../tone/volume, .../tone/stop, and shutdown(), which is a stop.  An idle
\* third-party speaker is asked for by its mDNS name.
Ask(c, request) ==
    /\ c \in Caller /\ pc[c] = "idle"
    /\ request.op = "start" => /\ request.name = Alias => at[Guest] = None
                               /\ Who(request.name) \notin excused
    /\ Waits(c)
    /\ asked' = [asked EXCEPT ![c] = request]
    /\ UNCHANGED <<at, gainVars, view, toneVars, home, excused, unheard>>

\* _expire_after has slept its time, at most MAX_TONE_SECONDS.
Expires ==
    /\ pc[Watch] = "asleep"
    /\ Waits(Watch)
    /\ asked' = [asked EXCEPT ![Watch] = [op |-> "stop"]]
    /\ UNCHANGED <<at, gainVars, view, toneVars, home, excused, unheard>>

\* Both at once: x lets the lock go and its request has ended, the watchdog goes to label.
Ends(x, label) ==
    /\ queue' = Tail(queue)
    /\ pc' = [pc EXCEPT ![Watch] = label, ![x] = IF x = Watch THEN label ELSE "idle"]
    /\ asked' = [asked EXCEPT ![x] = None]

\* _current_placement(n): from the view, never a tone, and a level only of our own speakers that are
\* in it.
Placement(n) ==
    [source |-> IF n = Alias THEN None ELSE view.at[n],
     level  |-> IF n \in Own THEN view.level[n] ELSE None]

\* Mutant: each start reads the view anew.
RecordAnew(c) == Placement(asked[c].name)

\* What start() keeps for the end: the record of the session it supersedes, if that knew anything.
Record(c) ==
    LET fresh == Placement(asked[c].name)
    IN  IF old # None /\ (old.source # None \/ old.level # None)
          THEN [source |-> old.source, level |-> old.level] ELSE fresh

\* History: a level that is not in view, or not the one people have set.
Unknown(n) == {p \in Own \cap {n} : view.level[p] = None \/ level[p] # home.level[p]}

\* start() once no session is left: synthesis in a thread.
Synthesise(c) ==
    /\ LET n == asked[c].name
           r == Record(c)
       IN  /\ new' = [speaker |-> Who(n), name |-> n, source |-> r.source, level |-> r.level,
                      adopted |-> FALSE]
           /\ excused' = IF IF old = None THEN Seen(Who(n)) ELSE old.speaker = Who(n)
                           THEN excused ELSE excused \cup {Who(n)}
           /\ unheard' = IF old = None THEN unheard \cup Unknown(n) ELSE unheard
    /\ old' = None
    /\ Goes(c, "synth")

\* Mutant: the watchdog is cancelled even when it is the one that stops the tone, and dies at the
\* first await.
StopLockedCancelsItself(x) ==
    /\ state' = None
    /\ IF x = Watch
         THEN /\ Ends(Watch, "idle")
              /\ old' = None
         ELSE /\ old' = state
              /\ pc' = [pc EXCEPT ![Watch] = "idle", ![x] = "restoring"]
              /\ queue' = RemoveFirst(queue, Watch)
              /\ asked' = [asked EXCEPT ![Watch] = None]

\* _stop_locked: the state is dropped, the watchdog cancelled unless it is the one that runs, and
\* the speaker moved off the tone.
StopLocked(x) ==
    /\ state' = None
    /\ old' = state
    /\ pc' = [pc EXCEPT ![Watch] = "idle", ![x] = "restoring"]
    /\ IF x = Watch
         THEN UNCHANGED <<queue, asked>>
         ELSE /\ queue' = RemoveFirst(queue, Watch)
              /\ asked' = [asked EXCEPT ![Watch] = None]

\* The lock is x's: a start or a stop undoes the session there is, a start alone goes on.
Turn(x) ==
    /\ Holds(x) /\ pc[x] = "waiting"
    /\ asked[x].op # "level"
    /\ \/ /\ state # None
          /\ StopLocked(x)
          /\ UNCHANGED <<new, excused, unheard>>
       \/ /\ state = None /\ asked[x].op = "start"
          /\ Synthesise(x)
          /\ UNCHANGED <<queue, asked, state>>
       \/ /\ state = None /\ asked[x].op = "stop"
          /\ Ends(x, "idle")
          /\ UNCHANGED <<state, old, new, excused, unheard>>
    /\ UNCHANGED <<at, gainVars, view, cal, writers, home>>

\* set_volume: the running tone at another level, or an error.
SetVolume(c) ==
    /\ Holds(c) /\ pc[c] = "waiting"
    /\ asked[c].op = "level"
    /\ \/ state # None /\ SetLevel(state.speaker, asked[c].level)
       \/ UNCHANGED gainVars
    /\ Ends(c, pc[Watch])
    /\ UNCHANGED <<at, view, toneVars, home, excused, unheard>>

-----------------------------------------------------------------------------
(* Undoing a session.                                                      *)

\* Route, detach or release: it works, or it fails and the teardown goes on.
Restored(x) ==
    /\ Holds(x) /\ pc[x] = "restoring"
    /\ \/ /\ Attached(old.speaker,
                      IF old.adopted THEN None
                      ELSE IF old.source # None THEN old.source
                      ELSE IF at[old.speaker] = Cal(old.name) THEN None ELSE at[old.speaker])
          /\ unheard' = unheard \cup Overtaken(old.speaker)
          /\ UNCHANGED excused
       \/ /\ excused' = excused \cup {old.speaker}
          /\ UNCHANGED <<at, gainVars, unheard>>
    /\ Goes(x, "tearing")
    /\ UNCHANGED <<view, toneVars, queue, asked, home>>

\* Mutant: the writer is left to the feeder's end of file.
TeardownKeepsWriter(n) ==
    /\ cal' = cal \ {n}
    /\ UNCHANGED writers

\* _teardown: the writer, the source, the FIFO.
Teardown(n) ==
    /\ cal' = cal \ {n}
    /\ writers' = writers \ {n}

\* The volume is restored when it is known.
TornDown(x) ==
    /\ Holds(x) /\ pc[x] = "tearing"
    /\ Teardown(old.name)
    /\ Goes(x, "relevel")
    /\ UNCHANGED <<at, gainVars, view, state, old, new, queue, asked, home, excused, unheard>>

Relevelled(x) ==
    /\ Holds(x) /\ pc[x] = "relevel"
    /\ \/ /\ IF old.level = None THEN UNCHANGED gainVars ELSE SetLevel(old.speaker, old.level)
          /\ UNCHANGED excused
       \/ /\ old.level # None
          /\ excused' = excused \cup {old.speaker}
          /\ UNCHANGED gainVars
    /\ Goes(x, "undone")
    /\ UNCHANGED <<at, view, toneVars, queue, asked, home, unheard>>

\* A stop has ended; a start goes on with the record of the session it has undone.
Undone(x) ==
    /\ Holds(x) /\ pc[x] = "undone"
    /\ IF asked[x].op = "start"
         THEN /\ Synthesise(x)
              /\ UNCHANGED <<queue, asked>>
         ELSE /\ Ends(x, "idle")
              /\ old' = None
              /\ UNCHANGED <<new, excused, unheard>>
    /\ UNCHANGED <<at, gainVars, view, cal, writers, state, home>>

-----------------------------------------------------------------------------
(* Building a session.                                                     *)

\* start_source...
Synthesised(c) ==
    /\ Holds(c) /\ pc[c] = "synth"
    /\ cal' = cal \cup {new.name}
    /\ Goes(c, "viewing")
    /\ UNCHANGED <<at, gainVars, view, writers, state, old, new, queue, asked, home, excused, unheard>>

\* ... a refresh of the view so that the router finds the source, unless that fails; and the writer.
Refreshed(c) ==
    /\ Holds(c) /\ pc[c] = "viewing"
    /\ view' \in {view, Published}
    /\ writers' = writers \cup {new.name}
    /\ Goes(c, "opening")
    /\ UNCHANGED <<at, gainVars, cal, state, old, new, queue, asked, home, excused, unheard>>

\* The FIFO opens within WRITER_OPEN_TIMEOUT_S, or the start fails.
Opened(c) ==
    /\ Holds(c) /\ pc[c] = "opening"
    /\ \E label \in {"routing", "failing"} : Goes(c, label)
    /\ UNCHANGED <<at, gainVars, view, toneVars, queue, asked, home, excused, unheard>>

\* Router.route_player.  A speaker nobody holds is dialled by its unit's report of it, which may
\* end without it and without an error; a third-party speaker nobody holds cannot be found.
Routed(c) ==
    /\ Holds(c) /\ pc[c] = "routing"
    /\ \/ /\ new.name # Alias /\ (new.name = Guest => at[Guest] # None)
          /\ Attached(new.speaker, Cal(new.name))
          /\ unheard' = unheard \cup Overtaken(new.speaker)
          /\ Goes(c, "levelling")
       \/ /\ new.name \in Own /\ at[new.name] = None /\ link[new.name] # "here"
          /\ UNCHANGED <<at, gainVars, unheard>>
          /\ Goes(c, "levelling")
       \/ /\ UNCHANGED <<at, gainVars, unheard>>
          /\ Goes(c, IF new.speaker = Guest THEN "adopting" ELSE "failing")
    /\ UNCHANGED <<view, toneVars, queue, asked, home, excused>>

\* engine.adopt_client dials the URL, and says which id answered.
Adopted(c) ==
    /\ Holds(c) /\ pc[c] = "adopting"
    /\ \/ /\ at' = [at EXCEPT ![Guest] = Cal(new.name)]
          /\ new' = [new EXCEPT !.adopted = TRUE]
          /\ excused' = IF new.source = None THEN excused ELSE excused \cup {Guest}
          /\ Goes(c, "levelling")
       \/ /\ UNCHANGED <<at, new, excused>>
          /\ Goes(c, "failing")
    /\ UNCHANGED <<gainVars, view, cal, writers, state, old, queue, asked, home, unheard>>

\* The level is set: the session stands, and its watchdog sleeps.
Levelled(c) ==
    /\ Holds(c) /\ pc[c] = "levelling"
    /\ SetLevel(new.speaker, asked[c].level)
    /\ state' = new
    /\ new' = None
    /\ Ends(c, "asleep")
    /\ UNCHANGED <<at, view, cal, writers, old, home, excused, unheard>>

\* The level cannot be set: an adopted speaker is released.
LevelRaises(c) ==
    /\ Holds(c) /\ pc[c] = "levelling"
    /\ Goes(c, IF new.adopted THEN "dropping" ELSE "failing")
    /\ UNCHANGED <<at, gainVars, view, toneVars, queue, asked, home, excused, unheard>>

Dropped(c) ==
    /\ Holds(c) /\ pc[c] = "dropping"
    /\ at' \in {at, [at EXCEPT ![Guest] = None]}
    /\ Goes(c, "failing")
    /\ UNCHANGED <<gainVars, view, toneVars, queue, asked, home, excused, unheard>>

\* What was half built goes, the error is raised; a speaker already routed is left where it is.
Fails(c) ==
    /\ Holds(c) /\ pc[c] = "failing"
    /\ Teardown(new.name)
    /\ excused' = IF at[new.speaker] # new.source THEN excused \cup {new.speaker} ELSE excused
    /\ new' = None
    /\ Ends(c, "idle")
    /\ UNCHANGED <<at, gainVars, view, state, old, home, unheard>>

-----------------------------------------------------------------------------

People ==
    \/ \E p \in Speaker, s \in Source \cup {None} : PersonMoves(p, s)
    \/ \E p \in Own, v \in Level : PersonLevels(p, v)

Links == \E p \in Own : Connects(p) \/ Leaves(p)

Holder(x) ==
    \/ Turn(x) \/ SetVolume(x) \/ Restored(x) \/ TornDown(x) \/ Relevelled(x) \/ Undone(x)
    \/ Synthesised(x) \/ Refreshed(x) \/ Opened(x) \/ Routed(x) \/ Adopted(x) \/ Levelled(x)
    \/ LevelRaises(x) \/ Dropped(x) \/ Fails(x)

Controller == \E x \in Actor : Holder(x)

Next ==
    \/ People \/ Links \/ ViewPolled \/ Expires \/ Controller
    \/ \E c \in Caller, request \in Request : Ask(c, request)

\* The loop runs its ready tasks, and every call the controller awaits has a deadline.
Spec == Init /\ [][Next]_vars /\ WF_vars(Controller) /\ WF_vars(Expires)

-----------------------------------------------------------------------------
(* Properties.                                                             *)

\* Without a session and without a request nothing of one is left: no source, and no writer that
\* the next session's would share a FIFO with (calibration_tone.py, start and _stop_locked).
NothingLeft == Quiet => cal = {} /\ writers = {} /\ \A x \in Actor : pc[x] = "idle"

\* "The session remembers where it was and puts it back" (calibration_tone.py:20), also after
\* several sessions one on top of the other; but for the cases excused records.  Its level is put
\* back too, or held for when the speaker next connects here, if the session could know it: a
\* speaker that was with nobody is in no view, and keeps the tone's.
PutBack ==
    Quiet => \A p \in Speaker \ excused :
        /\ at[p] = home.at[p]
        /\ p \in Own \ unheard => home.level[p] \in {level[p], held[p]}

\* "An unattended speaker playing noise": whoever leaves the wizard, the noise stops.
NoiseStops == []<>(writers = {})
=============================================================================
