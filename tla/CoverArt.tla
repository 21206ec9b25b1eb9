------------------------------- MODULE CoverArt -------------------------------
(***************************************************************************)
(* The album art of a Bluetooth source                                     *)
(* (backend/scripts/sources/bluetooth_coverart.py, and the handing over of *)
(* tracks to it in bluetooth_avrcp.py): art is fetched apart from the      *)
(* track it belongs to, and the cover of a track before is cleared after a *)
(* grace period.  A phone gives every track the same handle.               *)
(***************************************************************************)
EXTENDS Naturals

CONSTANTS Track,
          MaxChanges,  \* bound: tracks that change, players that come and go, fetches that fail
          Unknown,     \* the key of a session whose track is not known
          None

VARIABLES bound,       \* a player is bound
          current,     \* the phone's track
          offered,     \* BlueZ has a handle for it
          trackKey,    \* BluetoothAvrcp._track_key
          session,     \* a BIP session is open
          reopening,   \* _reopen_cover_art: "resets", "waits", "reads twice", "reads once", or "done"
          lastKey,     \* _last_key, without the handle
          shownKey,    \* _shown_key
          clearing,    \* the track the pending _clear_after_grace is for
          fetch,       \* the handle_track under way: its key, and the image once asked for
          art,         \* the track whose cover the artwork role serves
          late,        \* history: what landed last was asked for, or is the cover of, a track that was over
          changes

phone == <<bound, current, offered, trackKey>>
vars == <<bound, current, offered, trackKey, session, reopening, lastKey, shownKey, clearing, fetch, art,
          late, changes>>

Keys == Track \cup {Unknown, None}

TypeOK ==
    /\ bound \in BOOLEAN /\ current \in Track /\ offered \in BOOLEAN /\ session \in BOOLEAN
    /\ trackKey \in Track \cup {Unknown} /\ {lastKey, shownKey, clearing} \subseteq Keys
    /\ reopening \in {"resets", "waits", "reads twice", "reads once", "done"}
    /\ fetch \in [key : Track \cup {Unknown}, image : Track \cup {None}] \cup {None}
    /\ art \in Track \cup {None} /\ late \in BOOLEAN /\ changes \in 0..MaxChanges

Init ==
    /\ bound = FALSE /\ current \in Track /\ offered = FALSE /\ trackKey = Unknown
    /\ session = FALSE /\ reopening = "done"
    /\ lastKey = None /\ shownKey = None /\ clearing = None /\ fetch = None /\ art = None
    /\ late = FALSE /\ changes = 0

Changes == changes < MaxChanges /\ changes' = changes + 1

-----------------------------------------------------------------------------
(* A track dict, from a signal, a seed or a read.                          *)

\* note_track: the cover before is to be cleared, unless this track's is shown or being counted down.
NoteTrack(key) == clearing' = IF key = shownKey THEN clearing ELSE key

\* Mutant: a track counts as shown once its art is asked for.
HandleTrackShown(key) ==
    IF offered' /\ key # lastKey /\ fetch = None
    THEN fetch' = [key |-> key, image |-> None] /\ shownKey' = key
    ELSE UNCHANGED <<fetch, shownKey>>

\* handle_track, up to its first await: one fetch at a time, and none for what was fetched last.
HandleTrack(key) ==
    IF offered' /\ key # lastKey /\ fetch = None
    THEN fetch' = [key |-> key, image |-> None] /\ UNCHANGED shownKey
    ELSE UNCHANGED <<fetch, shownKey>>

\* _apply_track for a dict with a title.
ApplyTrack ==
    /\ trackKey' = current' /\ NoteTrack(current')
    /\ HandleTrack(current')

\* The phone plays another track.  A handle comes with it only while a session is open.
TrackChanges ==
    /\ Changes /\ bound
    /\ current' \in Track \ {current} /\ offered' \in {FALSE, session}
    /\ ApplyTrack
    /\ UNCHANGED <<bound, session, reopening, lastKey, art, late>>

\* BlueZ sends a track again.
SentAgain ==
    /\ Changes /\ bound
    /\ UNCHANGED <<current, offered>> /\ ApplyTrack
    /\ UNCHANGED <<bound, session, reopening, lastKey, art, late>>

\* A handle that comes late, in a dict without a title.
HandleArrives ==
    /\ bound /\ session /\ ~offered /\ offered' = TRUE
    /\ HandleTrack(trackKey)
    /\ UNCHANGED <<bound, current, trackKey, session, reopening, lastKey, clearing, art, late, changes>>

-----------------------------------------------------------------------------
(* Players, and the session of each.                                       *)

\* _on_object: a player goes; its track may change meanwhile.
PlayerGone ==
    /\ Changes /\ bound /\ bound' = FALSE
    /\ current' \in Track /\ offered' = FALSE /\ trackKey' = Unknown
    /\ UNCHANGED <<session, reopening, lastKey, shownKey, clearing, fetch, art, late>>

\* A player is bound and seeded: the session is rebuilt, and its track applied.
PlayerBinds ==
    /\ Changes /\ bound' = TRUE
    /\ UNCHANGED current /\ offered' \in {FALSE, session}
    /\ reopening' = "resets" /\ ApplyTrack
    /\ UNCHANGED <<session, lastKey, art, late>>

\* _close_session, whatever asks for it.
CloseSession == session' = FALSE /\ lastKey' = None

Reset ==
    /\ reopening = "resets" /\ reopening' = "waits"
    /\ CloseSession
    /\ UNCHANGED <<phone, shownKey, clearing, fetch, art, late, changes>>

\* prepare: a session is opened, or is there already.
Prepare ==
    /\ reopening = "waits" /\ bound
    /\ reopening' = "reads twice" /\ session' = TRUE
    /\ UNCHANGED <<phone, lastKey, shownKey, clearing, fetch, art, late, changes>>

\* Ten attempts have failed.
GivesUp ==
    /\ reopening = "waits" /\ reopening' = "done"
    /\ UNCHANGED <<phone, session, lastKey, shownKey, clearing, fetch, art, late, changes>>

\* _refresh_art_for_current_track, twice.
RefreshArt ==
    /\ \/ reopening = "reads twice" /\ reopening' = "reads once"
       \/ reopening = "reads once" /\ reopening' = "done"
    /\ UNCHANGED <<bound, current, offered>>
    /\ IF bound THEN ApplyTrack ELSE UNCHANGED <<trackKey, clearing, fetch, shownKey>>
    /\ UNCHANGED <<session, lastKey, art, late, changes>>

-----------------------------------------------------------------------------
(* Fetches and clears.                                                     *)

\* _ensure_session and the call of _fetch: the handle may stand for what plays by now.
Asks ==
    /\ fetch # None /\ fetch.image = None
    /\ session' = TRUE
    /\ \E t \in {fetch.key, current} \cap Track : fetch' = [fetch EXCEPT !.image = t]
    /\ UNCHANGED <<phone, reopening, lastKey, shownKey, clearing, art, late, changes>>

\* No session, no call, or a file that never settles; a call that fails closes the session.
FetchFails ==
    /\ Changes /\ fetch # None /\ fetch' = None
    /\ CloseSession \/ UNCHANGED <<session, lastKey>>
    /\ UNCHANGED <<phone, reopening, shownKey, clearing, art, late>>

\* The rest of handle_track: the art of its track is shown, and nothing is left to clear.
Lands ==
    /\ fetch # None /\ fetch.image # None /\ fetch' = None
    /\ lastKey' = fetch.key /\ shownKey' = fetch.key /\ clearing' = None
    /\ art' = fetch.image /\ late' = (\E t \in {fetch.key, fetch.image} : t # trackKey)
    /\ UNCHANGED <<phone, session, reopening, changes>>

\* _clear_after_grace.
ClearAfterGrace ==
    /\ clearing # None /\ clearing' = None
    /\ IF clearing = shownKey THEN UNCHANGED <<art, shownKey, late>>
       ELSE art' = None /\ shownKey' = clearing /\ late' = FALSE
    /\ UNCHANGED <<phone, session, reopening, lastKey, fetch, changes>>

Next ==
    \/ TrackChanges \/ SentAgain \/ HandleArrives
    \/ PlayerGone \/ PlayerBinds \/ Reset \/ Prepare \/ GivesUp \/ RefreshArt
    \/ Asks \/ FetchFails \/ Lands \/ ClearAfterGrace

Fairness ==
    /\ WF_vars(Reset) /\ WF_vars(Prepare \/ GivesUp) /\ WF_vars(RefreshArt)
    /\ WF_vars(Asks) /\ WF_vars(Lands) /\ WF_vars(ClearAfterGrace)

Spec == Init /\ [][Next]_vars /\ Fairness

-----------------------------------------------------------------------------
(* Properties.                                                             *)

Stale == bound /\ trackKey # Unknown /\ art \notin {None, current}

\* "Stale art is worse than none" (bluetooth_coverart.py:295): the cover of another track does not
\* stay beside the title of the one that plays.
NoStaleArt == <>[]~Stale

\* The same, but for a cover that landed when its track was over: with fetches that
\* fail, handles that come late, tracks sent again, and players that come and go between two steps.
ArtSettles == <>[](Stale => late)
=============================================================================
