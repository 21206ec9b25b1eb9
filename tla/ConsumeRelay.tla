---------------------------- MODULE ConsumeRelay ----------------------------
(***************************************************************************)
(* What the browser shows of a source the unit only listens to: the player *)
(* (backend/scripts/sendspin_player.py) turns what its server tells it     *)
(* into frames of a few kinds and sends the latest of each over a          *)
(* websocket; the mesh API (mesh/api.py, _consume) keeps the last of each  *)
(* for browsers that come later and broadcasts it to those that are there. *)
(* A frame is the number of its content; 0 is no frame.  The album art     *)
(* goes the way of the pairing prompt and is left out, as are the spectrum *)
(* and the position, which is sent anew every second while it moves.       *)
(***************************************************************************)
EXTENDS FiniteSets, Naturals, Sequences

CONSTANTS Gui,        \* the browsers
          MaxFrames,  \* bound: contents of all kinds
          MaxDrops,   \* bound: connections of the player that break
          MaxVisits,  \* bound: pages opened and closed
          None

Kind == {"ctrl", "pair"}
Conn == 1..(MaxVisits + MaxDrops + 1)   \* every break and every failed broadcast costs one

VARIABLES frame,      \* _relay_ctrl, _relay_pair
          dirty,      \* the _relay_*_dirty flags
          turn,       \* the kind the sending loop comes to next
          sending,    \* the kind whose send_json is awaited, or None
          link,       \* the player's connection, or None
          conns,      \* connections made so far
          broken,     \* connections that no longer carry anything
          wire,       \* frames on their way on each connection
          serving,    \* connections whose handler runs
          producer,   \* _producer
          cache,      \* _last_ctrl, _last_pair
          casting,    \* the broadcast each handler is at, or None
          consumers,  \* _consumers
          bring,      \* cached frames each new page is still sent
          page,       \* what each page shows
          missed,     \* kinds whose last frame was lost with a connection
          overtaken,  \* kinds of which a page was sent an older frame after a newer one
          visits, drops

playerVars == <<frame, dirty>>
linkVars   == <<link, conns, broken, wire, drops>>
guiVars    == <<consumers, bring, page, overtaken, visits>>
meshVars   == <<serving, producer, cache, casting>>
vars == <<playerVars, turn, sending, linkVars, meshVars, guiVars, missed>>

Empty == [k \in Kind |-> 0]
Frames == frame["ctrl"] + frame["pair"]

TypeOK ==
    /\ frame \in [Kind -> 0..MaxFrames] /\ dirty \in [Kind -> BOOLEAN]
    /\ turn \in Kind /\ sending \in Kind \cup {None}
    /\ link \in Conn \cup {None} /\ conns \in 0..Cardinality(Conn)
    /\ broken \subseteq Conn /\ serving \subseteq Conn
    /\ wire \in [Conn -> Seq(Kind \X (1..MaxFrames))]
    /\ producer \in Conn \cup {None} /\ cache \in [Kind -> 0..MaxFrames]
    /\ casting \in [Conn -> [kind : Kind, frame : 1..MaxFrames, todo : SUBSET Gui,
                             size : 0..Cardinality(Gui)] \cup {None}]
    /\ consumers \subseteq Gui /\ bring \in [Gui -> SUBSET (Kind \X (1..MaxFrames))]
    /\ page \in [Gui -> [Kind -> 0..MaxFrames]]
    /\ missed \in [Kind -> BOOLEAN] /\ overtaken \in [Gui -> [Kind -> BOOLEAN]]
    /\ visits \in 0..MaxVisits /\ drops \in 0..MaxDrops

Init ==
    /\ frame = Empty /\ dirty = [k \in Kind |-> FALSE]
    /\ turn = "ctrl" /\ sending = None
    /\ link = None /\ conns = 0 /\ broken = {} /\ wire = [c \in Conn |-> <<>>] /\ drops = 0
    /\ serving = {} /\ producer = None /\ cache = Empty /\ casting = [c \in Conn |-> None]
    /\ consumers = {} /\ bring = [g \in Gui |-> {}] /\ page = [g \in Gui |-> Empty]
    /\ missed = [k \in Kind |-> FALSE] /\ overtaken = [g \in Gui |-> [k \in Kind |-> FALSE]]
    /\ visits = 0

-----------------------------------------------------------------------------
(* The player's frames.                                                    *)

Mark(k) ==
    /\ dirty' = [dirty EXCEPT ![k] = TRUE]
    /\ missed' = [missed EXCEPT ![k] = FALSE]

\* _emit_ctrl of something new, _emit_pair, _on_artwork
Emit(k) ==
    /\ Frames < MaxFrames
    /\ frame' = [frame EXCEPT ![k] = @ + 1]
    /\ Mark(k)
    /\ UNCHANGED <<turn, sending, linkVars, meshVars, guiVars>>

\* _on_group_update, _on_controller_state, _on_metadata, _on_stream_start, _on_stream_end
ServerTells == Emit("ctrl")

\* _pair_show_pin, _pair_gesture_prompt
PairingPrompts == Emit("pair")

After(k) == IF k = "ctrl" THEN "pair" ELSE "ctrl"

Lost(kinds) == missed' = [k \in Kind |-> missed[k] \/ k \in kinds]

\* _relay_send: the flag is cleared, then the send awaited.
SendStarts ==
    /\ link # None /\ sending = None /\ dirty[turn]
    /\ dirty' = [dirty EXCEPT ![turn] = FALSE]
    /\ sending' = turn
    /\ \/ link \notin broken /\ Len(wire[link]) < 2
          /\ wire' = [wire EXCEPT ![link] = Append(@, <<turn, frame[turn]>>)]
          /\ UNCHANGED missed
       \/ link \in broken /\ UNCHANGED wire /\ Lost({turn})
    /\ UNCHANGED <<frame, turn, link, conns, broken, drops, meshVars, guiVars>>

HasTurn == sending # None \/ (~dirty[turn] /\ (dirty[After(turn)] \/ After(turn) = "ctrl"))

\* Mutant: the flag is cleared when the send has ended, whatever came since.
ClearedLate ==
    /\ link # None /\ HasTurn
    /\ dirty' = [dirty EXCEPT ![turn] = sending = None /\ @]
    /\ sending' = None /\ turn' = After(turn)
    /\ UNCHANGED <<frame, linkVars, meshVars, guiVars, missed>>

\* The send ends, or there is nothing of this kind to send but of the next.
SendEnds ==
    /\ link # None /\ HasTurn
    /\ sending' = None /\ turn' = After(turn)
    /\ UNCHANGED <<playerVars, linkVars, meshVars, guiVars, missed>>

-----------------------------------------------------------------------------
(* The connection.                                                         *)

\* _relay_loop connects; the mesh takes the newest as its producer.
Connects ==
    /\ link = None /\ conns < Cardinality(Conn)
    /\ conns' = conns + 1 /\ link' = conns' /\ turn' = "ctrl"
    /\ serving' = serving \cup {conns'} /\ producer' = conns'
    /\ UNCHANGED <<playerVars, sending, broken, wire, drops, cache, casting, guiVars, missed>>

Breaks ==
    /\ link # None /\ link \notin broken /\ drops < MaxDrops
    /\ broken' = broken \cup {link} /\ drops' = drops + 1
    /\ UNCHANGED <<playerVars, turn, sending, link, conns, wire, meshVars, guiVars, missed>>

\* The player finds its connection closed: the send under way is cancelled.
Notices ==
    /\ link \in broken
    /\ link' = None /\ sending' = None
    /\ UNCHANGED <<playerVars, turn, conns, broken, wire, drops, meshVars, guiVars, missed>>

\* The end of _consume for the player's side: the cache goes with the producer.
HandlerEnds(c) ==
    /\ serving' = serving \ {c}
    /\ casting' = [casting EXCEPT ![c] = None]
    /\ broken' = broken \cup {c}
    /\ wire' = [wire EXCEPT ![c] = <<>>]
    /\ IF producer = c
       THEN /\ producer' = None /\ cache' = Empty
            /\ Lost({k \in Kind : frame[k] > 0 /\ ~dirty[k]})
       ELSE /\ UNCHANGED <<producer, cache>>
            /\ Lost({wire[c][i][1] : i \in DOMAIN wire[c]}
                    \cup (IF casting[c] = None THEN {} ELSE {casting[c].kind}))
    /\ UNCHANGED <<playerVars, turn, sending, link, conns, drops, guiVars>>

FindsClosed(c) ==
    /\ c \in serving \cap broken /\ casting[c] = None /\ HandlerEnds(c)

-----------------------------------------------------------------------------
(* The mesh API and the pages.                                             *)

\* A frame arrives: it is kept, and its broadcast begins.
Receives(c) ==
    /\ c \in serving /\ casting[c] = None /\ wire[c] # <<>>
    /\ LET k == wire[c][1][1]  v == wire[c][1][2]
       IN  /\ cache' = [cache EXCEPT ![k] = v]
           /\ casting' = [casting EXCEPT ![c] =
                  [kind |-> k, frame |-> v, todo |-> consumers, size |-> Cardinality(consumers)]]
           /\ Lost(IF c = producer THEN {} ELSE {k})
    /\ wire' = [wire EXCEPT ![c] = Tail(@)]
    /\ UNCHANGED <<playerVars, turn, sending, link, conns, broken, drops, serving, producer,
                   guiVars>>

\* _broadcast comes to its next page.  A set that changed its size under the loop raises, and
\* the handler ends with it.
Broadcasts(c) ==
    /\ casting[c] # None
    /\ LET cast == casting[c] IN
       \/ Cardinality(consumers) # cast.size /\ HandlerEnds(c)
       \/ /\ Cardinality(consumers) = cast.size /\ cast.todo = {}
          /\ casting' = [casting EXCEPT ![c] = None]
          /\ UNCHANGED <<playerVars, turn, sending, linkVars, serving, producer, cache, guiVars,
                         missed>>
       \/ /\ Cardinality(consumers) = cast.size
          /\ \E g \in cast.todo :
               /\ casting' = [casting EXCEPT ![c].todo = @ \ {g}]
               /\ IF g \in consumers
                  THEN /\ page' = [page EXCEPT ![g][cast.kind] = cast.frame]
                       /\ overtaken' = [overtaken EXCEPT ![g][cast.kind] = cast.frame < page[g][cast.kind]]
                  ELSE UNCHANGED <<page, overtaken>>
          /\ UNCHANGED <<playerVars, turn, sending, linkVars, serving, producer, cache,
                         consumers, bring, visits, missed>>

\* A page opens: it is a consumer from now on, and is sent what is kept of each kind.
Opens(g) ==
    /\ visits < MaxVisits /\ visits' = visits + 1
    /\ g \notin consumers /\ consumers' = consumers \cup {g}
    /\ bring' = [bring EXCEPT ![g] = {<<k, cache[k]>> : k \in {j \in Kind : cache[j] > 0}}]
    /\ page' = [page EXCEPT ![g] = Empty]
    /\ overtaken' = [overtaken EXCEPT ![g] = [k \in Kind |-> FALSE]]
    /\ UNCHANGED <<playerVars, turn, sending, linkVars, meshVars, missed>>

BringsUp(g) ==
    /\ \E f \in bring[g] :
         /\ bring' = [bring EXCEPT ![g] = @ \ {f}]
         /\ overtaken' = [overtaken EXCEPT ![g][f[1]] = @ \/ f[2] < page[g][f[1]]]
         /\ page' = [page EXCEPT ![g][f[1]] = f[2]]
    /\ UNCHANGED <<playerVars, turn, sending, linkVars, meshVars, consumers, visits, missed>>

Closes(g) ==
    /\ visits < MaxVisits /\ visits' = visits + 1
    /\ g \in consumers /\ consumers' = consumers \ {g}
    /\ bring' = [bring EXCEPT ![g] = {}]
    /\ UNCHANGED <<playerVars, turn, sending, linkVars, meshVars, page, overtaken, missed>>

Handler(c) == FindsClosed(c) \/ Receives(c) \/ Broadcasts(c)

Next ==
    \/ ServerTells \/ PairingPrompts
    \/ SendStarts \/ SendEnds \/ Connects \/ Breaks \/ Notices
    \/ \E c \in Conn : Handler(c)
    \/ \E g \in Gui : Opens(g) \/ BringsUp(g) \/ Closes(g)

\* The player's loop and the mesh's handlers run, a closed connection is noticed and made anew.
Fairness ==
    /\ WF_vars(SendStarts \/ SendEnds)
    /\ WF_vars(Connects \/ Notices)
    /\ \A c \in Conn : WF_vars(Handler(c))
    /\ \A g \in Gui : WF_vars(BringsUp(g))

Spec == Init /\ [][Next]_vars /\ Fairness

-----------------------------------------------------------------------------
\* In the end a page that is open shows the player's last frame of each kind, unless that frame
\* was lost with a connection (it is not sent again), or the page was sent an older one of that
\* kind after it (from the cache, or by the handler of a connection that has been replaced): what
\* is emitted while another send is awaited is not lost.
PagesSettle ==
    \A g \in Gui, k \in Kind :
        <>[](g \in consumers => page[g][k] = frame[k] \/ missed[k] \/ overtaken[g][k])
=============================================================================
