------------------------------ MODULE Broadcast ------------------------------
(***************************************************************************)
(* What a unit's audio server promises its listeners, without feeders,     *)
(* locks or requests: a source on the air is heard by everyone tuned to    *)
(* it, and nobody tunes to a source while it is on the air.                *)
(***************************************************************************)
CONSTANTS Source, Player, Solo

VARIABLES where,   \* what each player is tuned to
          up,      \* the players that are connected
          onAir,   \* the sources with a running stream
          hears    \* who hears each source

vars == <<where, up, onAir, hears>>

Tuned(s) == {p \in up : where[p] = s}

TypeOK ==
    /\ where \in [Player -> Source \cup {Solo}]
    /\ up \subseteq Player
    /\ onAir \subseteq Source
    /\ hears \in [Source -> SUBSET Player]

Init ==
    /\ where = [p \in Player |-> Solo]
    /\ up = {}
    /\ onAir = {}
    /\ hears = [s \in Source |-> {}]

Air(s) ==
    /\ onAir' = onAir \cup {s}
    /\ hears' = [hears EXCEPT ![s] = Tuned(s)]
    /\ UNCHANGED <<where, up>>

Silence(s) ==
    /\ onAir' = onAir \ {s}
    /\ hears' = [hears EXCEPT ![s] = {}]
    /\ UNCHANGED <<where, up>>

\* Leaving may silence the source that is left; joining needs the new one off the air.
Tune(p, g) ==
    /\ g \notin onAir
    /\ where' = [where EXCEPT ![p] = g]
    /\ \/ /\ hears' = [s \in Source |-> hears[s] \ {p}]
          /\ UNCHANGED onAir
       \/ /\ hears' = [s \in Source |-> IF s = where[p] THEN {} ELSE hears[s]]
          /\ onAir' = onAir \ {where[p]}
    /\ UNCHANGED up

Connect(p) ==
    /\ up' = up \cup {p}
    /\ hears' = [s \in Source |-> IF s \in onAir /\ where[p] = s THEN hears[s] \cup {p} ELSE hears[s]]
    /\ UNCHANGED <<where, onAir>>

Disconnect(p) ==
    /\ up' = up \ {p}
    /\ hears' = [s \in Source |-> hears[s] \ {p}]
    /\ UNCHANGED <<where, onAir>>

Next ==
    \/ \E s \in Source : Air(s) \/ Silence(s)
    \/ \E p \in Player :
          \/ \E g \in Source \cup {Solo} : Tune(p, g)
          \/ Connect(p) \/ Disconnect(p)

Spec == Init /\ [][Next]_vars

\* Everyone tuned to a source on the air hears it, and nobody else.
HeardByTuned == \A s \in onAir : hears[s] = Tuned(s)
=============================================================================
