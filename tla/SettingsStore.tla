--------------------------- MODULE SettingsStore ---------------------------
(***************************************************************************)
(* settings.json of one unit and the config API that owns it               *)
(* (backend/scripts/apis/settings_api.py, integrations_api.py,             *)
(* calibration_api.py).  Every request has a thread; a save replaces the   *)
(* file by one written aside, so a reader never finds half of it.  An      *)
(* editor may damage the file, and repair it.                              *)
(***************************************************************************)
EXTENDS Naturals

CONSTANTS Request,   \* threads that serve a request
          Page,      \* pages that keep a copy of the settings
          Endpoint,  \* the endpoints of one source family
          Room,      \* outputs that have a calibration record
          MaxHand    \* bound: times a person damages the file

VARIABLES file,     \* how it reads: an old layout, the present one, or not at all
          content,  \* what it holds, whether or not it reads
          thread,   \* each request that edits endpoints: idle, or what it has read
          copy,     \* what each page was served last
          told,     \* history: what the pages were told is saved
          strayed,  \* history: what somebody wrote back from a reading that had become stale
          hand

vars == <<file, content, thread, copy, told, strayed, hand>>

Content  == [endpoints : SUBSET Endpoint, records : SUBSET Room]
Defaults == [endpoints |-> {}, records |-> {}]
Idle     == [busy |-> FALSE, list |-> {}]

TypeOK ==
    /\ file \in {"old", "good", "damaged"}
    /\ {content, told, strayed} \subseteq Content
    /\ thread \in [Request -> [busy : BOOLEAN, list : SUBSET Endpoint]]
    /\ copy \in [Page -> Content]
    /\ hand \in 0..MaxHand

\* _ensure_settings_file, or what an earlier version left.
Init ==
    /\ file \in {"old", "good"}
    /\ content \in {Defaults, [endpoints |-> Endpoint, records |-> Room]}
    /\ thread = [r \in Request |-> Idle]
    /\ copy = [g \in Page |-> content]
    /\ told = content
    /\ strayed = Defaults /\ hand = 0

-----------------------------------------------------------------------------

\* get_settings never raises: a file that does not read answers as the defaults.
GetSettings == IF file = "damaged" THEN Defaults ELSE content

\* Mutant: what a write is built on is what the pages are served.
LoadOrDefaults == {GetSettings}

\* _load_merged: raises for a file that does not read, and converts an old one for good.
LoadMerged == IF file = "damaged" THEN {} ELSE {content}

\* The conversion is saved by whoever loads first.
Migrated == IF file = "old" THEN "good" ELSE file

\* What a list written back changes in the one there is.
Apart(list, present) == (list \ present) \cup (present \ list)

\* The calibration routes (put_one, put_policy): mutate reads, changes and saves under one lock.
PutOne(p) ==
    /\ \E c \in LoadMerged : content' = [c EXCEPT !.records = @ \cup {p}]
    /\ file' = "good"
    /\ told' = [told EXCEPT !.records = @ \cup {p}]
    /\ strayed' = [strayed EXCEPT !.records = @ \ {p}]
    /\ UNCHANGED <<thread, copy, hand>>

\* Clearing what is not there saves nothing.
DeleteOne(p) ==
    /\ p \in content.records
    /\ \E c \in LoadMerged : content' = [c EXCEPT !.records = @ \ {p}]
    /\ file' = "good"
    /\ told' = [told EXCEPT !.records = @ \ {p}]
    /\ strayed' = [strayed EXCEPT !.records = @ \ {p}]
    /\ UNCHANGED <<thread, copy, hand>>

\* GET /api/settings, which every page polls.
Serve(g) ==
    /\ copy' = [copy EXCEPT ![g] = GetSettings]
    /\ file' = Migrated
    /\ UNCHANGED <<content, thread, told, strayed, hand>>

\* POST /api/settings, update_settings: whole sections as the page has them, whatever they are by
\* now; it is served the outcome.
PostSettings(g, sections) ==
    /\ \E c \in LoadMerged : content' = [s \in DOMAIN c |-> IF s \in sections THEN copy[g][s] ELSE c[s]]
    /\ file' = "good"
    /\ copy' = [copy EXCEPT ![g] = content']
    /\ strayed' = [s \in DOMAIN strayed |->
                     strayed[s] \cup IF s \in sections THEN Apart(copy[g][s], content[s]) ELSE {}]
    /\ UNCHANGED <<thread, told, hand>>

\* add_endpoint, update_endpoint, remove_endpoint, set_all_enabled, update_bitrate: _section reads
\* the list...
Section(r) ==
    /\ ~thread[r].busy
    /\ thread' = [thread EXCEPT ![r] = [busy |-> TRUE, list |-> GetSettings.endpoints]]
    /\ file' = Migrated
    /\ UNCHANGED <<content, copy, told, strayed, hand>>

\* ... the request turns it down (a name, a limit, an id that is not there)...
Refuse(r) ==
    /\ thread[r].busy
    /\ thread' = [thread EXCEPT ![r] = Idle]
    /\ UNCHANGED <<file, content, copy, told, strayed, hand>>

\* ... or _save patches the whole list back, under the lock but not under the one it was read in:
\* the request's own endpoints, if any, come or go, and what else has changed since is undone.
SaveList(r, own) ==
    LET list == thread[r].list
    IN  /\ thread[r].busy
        /\ \E c \in LoadMerged : content' = [c EXCEPT !.endpoints = Apart(list, own)]
        /\ file' = "good"
        /\ told' = [told EXCEPT !.endpoints = (@ \cup (own \ list)) \ (own \cap list)]
        /\ strayed' = [strayed EXCEPT !.endpoints = (@ \cup Apart(list, content.endpoints)) \ own]
        /\ thread' = [thread EXCEPT ![r] = Idle]
        /\ UNCHANGED <<copy, hand>>

\* One endpoint is added or removed, or none: a name, what is enabled or the bitrate changes.
SaveEndpoints(r, e) == SaveList(r, {e})
SaveBack(r)         == SaveList(r, {})

\* A save that raises: the request fails and the file is as it was.
SaveFails(r) ==
    /\ thread[r].busy /\ LoadMerged = {}
    /\ thread' = [thread EXCEPT ![r] = Idle]
    /\ UNCHANGED <<file, content, copy, told, strayed, hand>>

\* The process stops: what its threads had read is gone, and nothing else is.
Restart ==
    /\ thread' = [r \in Request |-> Idle]
    /\ UNCHANGED <<file, content, copy, told, strayed, hand>>

Damage ==
    /\ file = "good" /\ hand < MaxHand
    /\ file' = "damaged" /\ hand' = hand + 1
    /\ UNCHANGED <<content, thread, copy, told, strayed>>

Repair ==
    /\ file = "damaged"
    /\ file' = "good"
    /\ UNCHANGED <<content, thread, copy, told, strayed, hand>>

Next ==
    \/ \E p \in Room : PutOne(p) \/ DeleteOne(p)
    \/ \E g \in Page : Serve(g)
    \/ \E g \in Page, sections \in SUBSET DOMAIN content : PostSettings(g, sections)
    \/ \E r \in Request : Section(r) \/ Refuse(r) \/ SaveBack(r) \/ SaveFails(r)
    \/ \E r \in Request, e \in Endpoint : SaveEndpoints(r, e)
    \/ Restart \/ Damage \/ Repair

Spec == Init /\ [][Next]_vars

-----------------------------------------------------------------------------
(* Properties.                                                             *)

\* What a page was told is saved stays in the file, item by item: no edit of another, conversion,
\* damage or restart takes it out or puts it back.  But for what strayed records: a request that
\* writes its reading back from before -- an endpoint edit, a page's POST -- undoes what others have
\* changed since (update_settings and mutate, which says so).
ToldIsKept ==
    /\ Apart(content.endpoints, told.endpoints) \subseteq strayed.endpoints
    /\ Apart(content.records, told.records) \subseteq strayed.records

\* "Serialises the whole read-modify-write cycle", of "two concurrent endpoint edits" by name
\* (settings_api.py, the comment on _SETTINGS_LOCK): no endpoint edit is lost to another.
EndpointEditsKept == content.endpoints = told.endpoints
=============================================================================
