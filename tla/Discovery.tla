----------------------------- MODULE Discovery -----------------------------
(***************************************************************************)
(* How one unit comes to see the others (backend/scripts/mesh/discovery.py *)
(* and aggregator.py): every unit broadcasts a beacon, anybody on the      *)
(* segment may, and the table of who was heard has a lifetime and a limit; *)
(* a refresh asks each of them for a snapshot, the poll's own and those    *)
(* that requests await, side by side.                                      *)
(***************************************************************************)
EXTENDS FiniteSets, Naturals

CONSTANTS Me,          \* this unit
          Unit,        \* the other units
          Stranger,    \* others that send beacons
          MaxPeers,    \* MAX_PEERS
          Ttl,         \* the lifetime of an entry, in beacon intervals
          MaxChanges,  \* bound: changes of a unit's state, starts and stops
          MaxNoise,    \* bound: strangers' beacons, and intervals in which beacons are lost
          None

Sender    == Unit \cup Stranger
Refresher == {"poll", "request"}

VARIABLES up,       \* units that run
          state,    \* what each unit would answer
          age,      \* the peer table: intervals since each was heard, or None
          heard,    \* who was heard in this interval
          view,     \* the mesh view: what is shown of each unit
          refresh,  \* refreshes under way: what they have so far and whom they still ask
          changes, noise

vars == <<up, state, age, heard, view, refresh, changes, noise>>

Seen   == [Unit \cup {Me} -> {0, 1, None}]
Nobody == [u \in Unit \cup {Me} |-> None]
Idle   == [on |-> FALSE, got |-> Nobody, asks |-> {}]

TypeOK ==
    /\ up \subseteq Unit
    /\ state \in [Unit \cup {Me} -> {0, 1}]
    /\ age \in [Sender -> 0..(Ttl + 1) \cup {None}]
    /\ heard \subseteq Unit
    /\ view \in Seen
    /\ refresh \in [Refresher -> [on : BOOLEAN, got : Seen, asks : SUBSET Sender]]
    /\ changes \in 0..MaxChanges /\ noise \in 0..MaxNoise

Init ==
    /\ up \in SUBSET Unit
    /\ state = [u \in Unit \cup {Me} |-> 0]
    /\ age = [s \in Sender |-> None]
    /\ heard = {}
    /\ view = [Nobody EXCEPT ![Me] = 0]
    /\ refresh = [r \in Refresher |-> Idle]
    /\ changes = 0 /\ noise = 0

-----------------------------------------------------------------------------
(* The peer table.                                                         *)

\* Mutant: an expired entry is passed over and never removed.
Unpruned == age

\* _prune
Pruned == [s \in Sender |-> IF age[s] # None /\ age[s] > Ttl THEN None ELSE age[s]]

Entries(table) == {s \in Sender : table[s] # None}

\* _on_datagram: a sender in the table is refreshed; a new one needs room.
OnDatagram(s) ==
    age' = IF age[s] # None THEN [age EXCEPT ![s] = 0]
           ELSE IF Cardinality(Entries(Pruned)) >= MaxPeers THEN Pruned
           ELSE [Pruned EXCEPT ![s] = 0]

\* _broadcast_loop of a unit, every interval.
Beacon(u) ==
    /\ u \in up \ heard
    /\ OnDatagram(u)
    /\ heard' = heard \cup {u}
    /\ UNCHANGED <<up, state, view, refresh, changes, noise>>

StrangerBeacon(s) ==
    /\ noise < MaxNoise /\ noise' = noise + 1
    /\ OnDatagram(s)
    /\ UNCHANGED <<up, state, heard, view, refresh, changes>>

\* An interval passes; what was not heard in it was lost.
Interval ==
    /\ \/ up \subseteq heard /\ UNCHANGED noise
       \/ noise < MaxNoise /\ noise' = noise + 1
    /\ heard' = {}
    /\ age' = [s \in Sender |-> IF age[s] = None \/ age[s] > Ttl THEN age[s] ELSE age[s] + 1]
    /\ UNCHANGED <<up, state, view, refresh, changes>>

-----------------------------------------------------------------------------
(* The aggregator.                                                         *)

\* refresh() as far as its first await: the local snapshot, and peers(), which prunes.
RefreshBegins(r) ==
    /\ ~refresh[r].on
    /\ age' = Pruned
    /\ refresh' = [refresh EXCEPT ![r] = [on |-> TRUE, got |-> [Nobody EXCEPT ![Me] = state[Me]],
                                          asks |-> {s \in Entries(Pruned) : Pruned[s] <= Ttl}]]
    /\ UNCHANGED <<up, state, heard, view, changes, noise>>

\* _fetch_peer: a snapshot, or nothing from one that does not answer.
FetchPeer(r, s) ==
    /\ s \in refresh[r].asks
    /\ refresh' = [refresh EXCEPT ![r].asks = @ \ {s},
                                  ![r].got = IF s \in up THEN [@ EXCEPT ![s] = state[s]] ELSE @]
    /\ UNCHANGED <<up, state, age, heard, view, changes, noise>>

\* The view is replaced whole, by whichever refresh ends.
RefreshEnds(r) ==
    /\ refresh[r].on /\ refresh[r].asks = {}
    /\ view' = refresh[r].got
    /\ refresh' = [refresh EXCEPT ![r] = Idle]
    /\ UNCHANGED <<up, state, age, heard, changes, noise>>

-----------------------------------------------------------------------------
(* The mesh.                                                               *)

Changes(u) ==
    /\ changes < MaxChanges /\ changes' = changes + 1
    /\ state' = [state EXCEPT ![u] = 1 - @]
    /\ UNCHANGED <<up, age, heard, view, refresh, noise>>

StartsOrStops(u) ==
    /\ changes < MaxChanges /\ changes' = changes + 1
    /\ up' = IF u \in up THEN up \ {u} ELSE up \cup {u}
    /\ UNCHANGED <<state, age, heard, view, refresh, noise>>

Runs(r) == RefreshEnds(r) \/ \E s \in Sender : FetchPeer(r, s)

Next ==
    \/ \E u \in Unit : Beacon(u) \/ StartsOrStops(u)
    \/ \E s \in Stranger : StrangerBeacon(s)
    \/ Interval
    \/ \E r \in Refresher : RefreshBegins(r) \/ Runs(r)
    \/ \E u \in Unit \cup {Me} : Changes(u)

\* Timers fire, fetches end (in an answer or in a timeout); nobody need ask for a refresh.
Fairness ==
    /\ \A u \in Unit : WF_vars(Beacon(u))
    /\ WF_vars(Interval)
    /\ WF_vars(RefreshBegins("poll"))
    /\ \A r \in Refresher : WF_vars(Runs(r))

Spec == Init /\ [][Next]_vars /\ Fairness

-----------------------------------------------------------------------------
(* Properties.                                                             *)

Truth == [u \in Unit \cup {Me} |-> IF u \in up \cup {Me} THEN state[u] ELSE None]

\* When units, losses and strangers have calmed down, the view becomes what the mesh is and stays
\* so: no stranger keeps a unit's place, no unit that has left is shown, and no old refresh has the
\* last word (_prune, _on_datagram, DataAggregator.refresh).
ViewSettles == <>[](view = Truth)
=============================================================================
