----------------------------- MODULE PhoneProgress -----------------------------
(***************************************************************************)
(* The timeline of a Bluetooth source                                      *)
(* (backend/scripts/sources/bluetooth_avrcp.py): what the metadata role    *)
(* says of the phone's position.  Signals carry what the phone has told    *)
(* BlueZ; what is read is BlueZ's own reckoning, and may be anything.      *)
(***************************************************************************)
EXTENDS Naturals, Sequences

CONSTANTS Track,
          Length,      \* of every track, in units of more than the slacks of the code
          MaxChanges,  \* bound: what the phone does
          None

VARIABLES phone,       \* the phone: its track, whether it plays, where it is
          owed,        \* the properties BlueZ has still to signal
          bound,       \* _player_path is set
          seed,        \* the answer to _seed_from_player's GetAll, on its way
          ours,        \* the session's state, and the tasks of _reanchor_now not begun
          reads,       \* those that await the device's position, with the answer on its way
          shown,       \* what clients make of the role's progress
          astray,      \* history: what was last taken from elsewhere than the signals, and is wrong
          changes

vars == <<phone, owed, bound, seed, ours, reads, shown, astray, changes>>

Position == 0..Length + 1  \* one past the end stands for all of them
Property == {"Track", "Status", "Position"}
Reanchor == [position : Position \cup {None}, new : BOOLEAN, freeze : BOOLEAN]

\* A position that was read and is not the phone's; a state or a track older than one signalled; and
\* a position that was signalled and has been overwritten with the one before.
Astray   == Property \cup {"Seek"}

\* What BlueZ answers for a position: it, the 0 of a paused device, or a figure that is no position.
Told(p) == {p, 0, Length + 1}

TypeOK ==
    /\ phone \in [track : Track, playing : BOOLEAN, pos : 0..Length]
    /\ owed \subseteq Property /\ bound \in BOOLEAN /\ astray \subseteq Astray
    /\ seed \in [track : Track, playing : BOOLEAN, pos : Position] \cup {None}
    /\ ours.playing \in BOOLEAN /\ ours.known \in BOOLEAN /\ ours.title \in Track \cup {None}
    /\ {ours.anchor, ours.pending} \subseteq Position \cup {None} /\ ours.due \in Seq(Reanchor)
    /\ reads \in Seq([answer : Position, new : BOOLEAN, freeze : BOOLEAN])
    /\ shown \in [pos : 0..Length, run : BOOLEAN] \cup {None}
    /\ changes \in 0..MaxChanges

\* _reset_session_state: _playing, _duration_ms, _last_title, the anchor, a held position.
Reset == [playing |-> FALSE, known |-> FALSE, title |-> None, anchor |-> None, pending |-> None, due |-> <<>>]

Init ==
    /\ phone \in [track : Track, playing : BOOLEAN, pos : {0}]
    /\ owed = {} /\ bound = FALSE /\ seed = None /\ ours = Reset /\ reads = <<>>
    /\ shown = None /\ astray = {} /\ changes = 0

-----------------------------------------------------------------------------
(* The relay's own steps, on a pair of its state and what it publishes.    *)

\* _anchor_progress: a position past the end gives way to our own.
AnchorProgress(s, p) ==
    LET q == IF p # None /\ p > Length THEN s.us.anchor ELSE p
    IN  IF ~s.us.known \/ q = None \/ (q # None /\ q > Length) THEN s
        ELSE [us |-> [s.us EXCEPT !.anchor = q], shown |-> [pos |-> q, run |-> s.us.playing]]

\* _apply_track: a duration redeems a held position, and the phone is asked where it is.
ApplyTrack(s, t) ==
    LET known == [s EXCEPT !.us.known = TRUE, !.us.pending = None]
        held  == IF s.us.pending = None THEN known ELSE AnchorProgress(known, s.us.pending)
    IN  [held EXCEPT !.us.title = t,
                     !.us.due = Append(@, [position |-> None, new |-> t # s.us.title, freeze |-> FALSE])]

\* _apply_status: where we are by the state until now is to be published with the new one.
ApplyStatus(s, playing) ==
    IF playing = s.us.playing THEN s
    ELSE [s EXCEPT !.us.playing = playing,
                   !.us.due = Append(@, [position |-> s.us.anchor, new |-> FALSE, freeze |-> ~playing])]

\* _apply_position_signal: dropped where it says nothing new, held until there is a duration.
ApplyPositionSignal(s, p) ==
    IF p = s.us.anchor THEN s
    ELSE IF ~s.us.known THEN [s EXCEPT !.us.pending = p]
    ELSE AnchorProgress(s, p)

Now == [us |-> ours, shown |-> shown]
Becomes(s) == ours' = s.us /\ shown' = s.shown

\* _on_props: what has changed, in this order.
OnProps(changed) ==
    LET track  == IF "Track" \in changed THEN ApplyTrack(Now, phone.track) ELSE Now
        status == IF "Status" \in changed THEN ApplyStatus(track, phone.playing) ELSE track
    IN  Becomes(IF "Position" \in changed THEN ApplyPositionSignal(status, phone.pos) ELSE status)

\* What a signal puts right.  While the state is wrong, so will the position be; and after a wrong track
\* a new one may pass for the same.
Corrected(changed) ==
    IF "Status" \in astray \ changed THEN astray
    ELSE astray \ ((changed \ {"Track"}) \cup IF "Position" \in changed THEN {"Seek"} ELSE {})

\* A signal carries one change or several.  Tasks of the signal before have begun by then.
Signal(changed) ==
    /\ bound /\ ours.due = <<>>
    /\ changed # {} /\ changed \subseteq owed
    /\ owed' = owed \ changed
    /\ OnProps(changed)
    /\ astray' = Corrected(changed)
    /\ UNCHANGED <<phone, bound, seed, reads, changes>>

\* A position comes with a track or a status; only a BlueZ that polls signals it alone.
Signalled == \E changed \in SUBSET Property : changed # {"Position"} /\ Signal(changed)
Polled    == Signal({"Position"})

\* _reanchor_now begins: with the position of before the status, or by asking.
ReanchorNow ==
    /\ ours.due # <<>>
    /\ LET task == Head(ours.due)
           rest == [Now EXCEPT !.us.due = Tail(@)]
       IN  IF task.position # None
           THEN /\ Becomes(AnchorProgress(rest, task.position))
                /\ astray' = astray \cup IF task.position \in {ours.anchor, phone.pos} THEN {} ELSE {"Seek"}
                /\ UNCHANGED reads
           ELSE /\ Becomes(rest)
                /\ \E r \in Told(phone.pos) :
                       reads' = Append(reads, [answer |-> r, new |-> task.new, freeze |-> task.freeze])
                /\ UNCHANGED astray
    /\ UNCHANGED <<phone, owed, bound, seed, changes>>

\* A part-way track that is paused is not at 0.
PausedLie(r) == r = 0 /\ ~ours.playing /\ ours.anchor # None /\ ours.anchor # 0

\* Mutant: the answer is taken as it is.
TrustworthyAsTold(r) == IF r > Length THEN None ELSE r

\* What _reanchor_now makes of the answer.
Trustworthy(r) ==
    IF r > Length THEN None
    ELSE IF PausedLie(r) THEN ours.anchor
    ELSE r

\* The answer comes.  Without a position, a pause freezes what is shown.
PositionRead ==
    /\ reads # <<>> /\ reads' = Tail(reads)
    /\ LET r == Head(reads)
           p == Trustworthy(r.answer)
       IN  /\ IF p # None /\ ours.known THEN Becomes(AnchorProgress(Now, p))
              ELSE IF r.freeze /\ shown # None THEN shown' = [shown EXCEPT !.run = FALSE] /\ UNCHANGED ours
              ELSE UNCHANGED <<ours, shown>>
           /\ astray' = IF \/ r.answer > Length /\ (r.new \/ ours.anchor = None)
                           \/ PausedLie(r.answer) /\ r.new
                           \/ r.answer \in 0..Length /\ ~PausedLie(r.answer) /\ r.answer # phone.pos
                         THEN astray \cup {"Position"} ELSE astray
    /\ UNCHANGED <<phone, owed, bound, seed, changes>>

\* _tick_once, between seconds.
TickOnce ==
    /\ ours.playing /\ ours.known /\ ours.anchor # None /\ ours.anchor <= Length
    /\ Becomes(AnchorProgress(Now, ours.anchor))
    /\ UNCHANGED <<phone, owed, bound, seed, reads, astray, changes>>

\* _seed_from_player asks again where the answer was not complete, or did not come...
AsksAgain ==
    /\ seed # None /\ bound
    /\ \E p \in Told(phone.pos) : seed' = [track |-> phone.track, playing |-> phone.playing, pos |-> p]
    /\ UNCHANGED <<phone, owed, bound, ours, reads, shown, astray, changes>>

\* ... and the last answer is applied after a pause in which signals came, the player went, or another
\* was bound.
Seeded ==
    /\ seed # None /\ seed' = None /\ ours.due = <<>>
    /\ Becomes(AnchorProgress(ApplyStatus(ApplyTrack(Now, seed.track), seed.playing), seed.pos))
    /\ LET older == (IF seed.playing # phone.playing THEN {"Status"} ELSE {})
                    \cup IF seed.track # phone.track THEN {"Track"} ELSE {}
       IN  astray' = (older \ owed) \cup
                     IF seed.pos # phone.pos \/ "Status" \in older \ owed THEN {"Position"} ELSE {}
    /\ UNCHANGED <<phone, owed, bound, reads, changes>>

-----------------------------------------------------------------------------
(* The phone, and time.                                                    *)

Changes == changes < MaxChanges /\ changes' = changes + 1
Still   == UNCHANGED <<seed, ours, reads, shown, astray>>

\* A position is signalled with a change of track or status, or not; a scrub waits for one, or for a
\* BlueZ that polls, perhaps for ever.  BlueZ is told of one change of either kind before the next.
Owes(property) == owed' \in {owed \cup {property}, owed \cup {property, "Position"}}

NextTrack ==
    /\ Changes /\ bound /\ "Track" \notin owed
    /\ \E t \in Track \ {phone.track} : phone' = [phone EXCEPT !.track = t, !.pos = 0]
    /\ Owes("Track") /\ UNCHANGED bound /\ Still

PlayPause ==
    /\ Changes /\ bound /\ "Status" \notin owed
    /\ phone' = [phone EXCEPT !.playing = ~@]
    /\ Owes("Status") /\ UNCHANGED bound /\ Still

Scrub ==
    /\ Changes /\ bound
    /\ \E p \in 0..Length \ {phone.pos} : phone' = [phone EXCEPT !.pos = p]
    /\ owed' = owed \cup {"Position"} /\ UNCHANGED bound /\ Still

\* Track again: a controller joined, or a handle for its art came.
TrackAgain == Changes /\ bound /\ Owes("Track") /\ UNCHANGED <<phone, bound>> /\ Still

\* _on_object: the player goes.
PlayerGone ==
    /\ Changes /\ bound /\ bound' = FALSE
    /\ owed' = {} /\ ours' = [Reset EXCEPT !.due = ours.due]
    /\ UNCHANGED <<phone, seed, reads, shown, astray>>

\* _on_object or _on_props: a player is bound, hours later perhaps, and asked for all it has.
PlayerBound ==
    /\ Changes /\ ~bound /\ bound' = TRUE
    /\ phone' \in [track : Track, playing : BOOLEAN, pos : 0..Length]
    /\ owed' = {}
    /\ \E p \in Told(phone'.pos) : seed' = [track |-> phone'.track, playing |-> phone'.playing, pos |-> p]
    /\ UNCHANGED <<ours, reads, shown, astray>>

\* A second is long for the bus: nothing is on its way when it ends, but a scrub no BlueZ asks for.
\* A track that is over is followed by another, or by the same.
Second ==
    /\ owed \subseteq {"Position"} /\ seed = None /\ ours.due = <<>> /\ reads = <<>>
    /\ phone.playing /\ phone.pos < Length
    /\ phone' = [phone EXCEPT !.pos = @ + 1]
    /\ ours' = IF ours.playing /\ ours.anchor # None /\ ours.anchor <= Length
               THEN [ours EXCEPT !.anchor = @ + 1] ELSE ours
    /\ shown' = IF shown # None /\ shown.run /\ shown.pos < Length
                THEN [shown EXCEPT !.pos = @ + 1] ELSE shown
    /\ UNCHANGED <<owed, bound, seed, reads, astray, changes>>

Relay == Signalled \/ Polled \/ ReanchorNow \/ PositionRead \/ TickOnce \/ AsksAgain \/ Seeded

Next ==
    \/ Relay \/ Second
    \/ NextTrack \/ PlayPause \/ Scrub \/ TrackAgain \/ PlayerGone \/ PlayerBound

Fairness ==
    /\ WF_vars(Signalled) /\ WF_vars(ReanchorNow) /\ WF_vars(PositionRead) /\ WF_vars(TickOnce)
    /\ WF_vars(Seeded)

Spec == Init /\ [][Next]_vars /\ Fairness

-----------------------------------------------------------------------------
(* Properties.                                                             *)

\* The timeline shows where the phone is.
InStep == shown = [pos |-> phone.pos, run |-> phone.playing]

\* What the phone has told is told.
Heard == bound /\ ours.anchor # None /\ "Position" \notin owed

\* Clients come to show where the phone is, running while it plays and only then, however the phone's
\* changes are bundled into signals, whatever answers come between them and however late, and whoever
\* goes and comes back; but for what is astray: a read or a seed that lied or was overtaken by a
\* signal, and a position signalled with a status (bluetooth_avrcp.py, _reanchor_now).
TimelineSettles == <>[](Heard /\ astray = {} => InStep)

\* A Position signal "is the ONLY thing that can carry a within-track scrub, so it is never dropped on
\* the grounds of being unexpected" (bluetooth_avrcp.py:385), also when it comes with a status.
SeekIsKept == <>[](Heard /\ astray \subseteq {"Seek"} => InStep)
=============================================================================
