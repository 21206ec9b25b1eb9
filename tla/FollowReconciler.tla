-------------------------- MODULE FollowReconciler --------------------------
(***************************************************************************)
(* Auto-route and auto-follow in a mesh of units (mesh/follow.py).  Every  *)
(* unit with a speaker runs one reconciler.  A tick reads the cached view  *)
(* that the aggregator polls together (mesh/aggregator.py), which in turn  *)
(* shows where each player process last said it was: a tick may act on a   *)
(* state of the world that is two polls old, and a call it makes may be    *)
(* refused, or land long after it was given up.                            *)
(***************************************************************************)
EXTENDS Naturals, FiniteSets, FiniteSetsExt

CONSTANTS Unit,        \* unit ids: strings the code compares, here numbers
          Speaker,     \* the units with an audio output (has_player)
          Target,      \* the sources of the mesh: <<owning unit, source id>>
          None,        \* no target, no master, no slice, no call
          Foreign,     \* attached to a server outside the mesh
          Free,        \* history: nobody chose where this player is
          MaxTrouble   \* bound on what people, senders and the network do

SourceId == {t[2] : t \in Target}
Place    == Target \cup {None, Foreign}

VARIABLES settings,   \* autoSwitch of each unit's settings file
          active,     \* the sources a sender is feeding
          at,         \* where each speaker is attached
          fed,        \* the speakers a foreign server is feeding
          selfReport, \* DataAggregator._local_player_state, per unit
          view,       \* DataAggregator._view, per unit: a slice of every unit
          reported,   \* FollowReconciler._reported_master, in the unit's snapshot
          last,       \* FollowReconciler._last_auto_target
          prevActive, \* FollowReconciler._prev_active
          overridden, \* FollowReconciler._overridden
          call,       \* the route or unroute a tick is waiting for
          late,       \* requests given up by the caller that the peer still works on
          chosen,     \* history: where a person or a local connection put the player
          trouble     \* how many disturbances there have been

worldVars == <<settings, active, at, fed>>
meshVars  == <<selfReport, view, late>>
loopVars  == <<reported, last, prevActive, overridden, call>>
vars == <<worldVars, meshVars, loopVars, chosen, trouble>>

Setting == [local : BOOLEAN, master : Unit \cup {None}]
Report  == [where : Place, playing : BOOLEAN]
Call    == [op : {"grab", "route", "unroute"}, to : Target]
Slice   == [report : Report, active : SUBSET SourceId,
            crowd : [SourceId -> SUBSET Speaker], follows : Unit \cup {None}]

ASSUME FollowAssumption ==
    /\ Unit \subseteq Nat /\ IsFiniteSet(Unit)
    /\ Speaker \subseteq Unit
    /\ Target \subseteq Unit \X Nat /\ IsFiniteSet(Target)
    /\ {None, Foreign, Free} \cap Unit = {} /\ {None, Foreign, Free} \cap Target = {}
    /\ None # Foreign /\ None # Free /\ Foreign # Free
    /\ None \notin Slice \cup Call
    /\ MaxTrouble \in Nat

TypeOK ==
    /\ settings \in [Speaker -> Setting]
    /\ active \subseteq Target
    /\ at \in [Speaker -> Place]
    /\ fed \subseteq {p \in Speaker : at[p] = Foreign}
    /\ selfReport \in [Unit -> Report]
    /\ view \in [Speaker -> [Unit -> Slice \cup {None}]]
    /\ \A p \in Speaker : view[p][p] # None
    /\ reported \in [Unit -> Unit \cup {None}]
    /\ last \in [Speaker -> Target \cup {None}]
    /\ prevActive \in [Speaker -> (SUBSET SourceId) \cup {None}]
    /\ overridden \in [Speaker -> BOOLEAN]
    /\ call \in [Speaker -> Call \cup {None}]
    /\ late \subseteq Speaker \X Call
    /\ chosen \in [Speaker -> Place \cup {Free}]
    /\ trouble \in 0 .. MaxTrouble

Unattached == [where |-> None, playing |-> FALSE]
Boot == [report |-> Unattached, active |-> {}, crowd |-> [s \in SourceId |-> {}], follows |-> None]

Init ==
    /\ settings \in [Speaker -> Setting]
    /\ active = {}
    /\ at = [p \in Speaker |-> None]
    /\ fed = {}
    /\ selfReport = [u \in Unit |-> Unattached]
    /\ view = [p \in Speaker |-> [v \in Unit |-> IF v = p THEN Boot ELSE None]]
    /\ reported = [u \in Unit |-> None]
    /\ last = [p \in Speaker |-> None]
    /\ prevActive = [p \in Speaker |-> None]
    /\ overridden = [p \in Speaker |-> FALSE]
    /\ call = [p \in Speaker |-> None]
    /\ late = {}
    /\ chosen = [p \in Speaker |-> Free]
    /\ trouble = 0

-----------------------------------------------------------------------------
(* What the loop reads off a view.                                         *)

\* The mesh server the player of unit u says it is on, by a server id the view can resolve.
OnMesh(vw, u) == LET w == vw[u].report.where IN w \in Target /\ vw[w[1]] # None

\* It is on a source a sender feeds.
OnActive(vw, u) == OnMesh(vw, u) /\ LET w == vw[u].report.where IN w[2] \in vw[w[1]].active

\* _player_status, its two results.
PlayerTarget(vw, u) == IF vw[u] # None /\ OnActive(vw, u) THEN vw[u].report.where ELSE None

PlayerIdle(vw, u) ==
    \/ vw[u] = None
    \/ vw[u].report.where = None
    \/ OnMesh(vw, u) /\ ~OnActive(vw, u)
    \/ ~OnMesh(vw, u) /\ ~vw[u].report.playing

\* Mutant: the quietest source instead.
BusiestLeast(slice) ==
    CHOOSE s \in slice.active : \A t \in slice.active :
        LET m == Cardinality(slice.crowd[s])
            n == Cardinality(slice.crowd[t])
        IN  m < n \/ (m = n /\ s <= t)

\* The busiest source of a unit without a speaker, the lowest id among equals.
Busiest(slice) ==
    CHOOSE s \in slice.active : \A t \in slice.active :
        LET m == Cardinality(slice.crowd[s])
            n == Cardinality(slice.crowd[t])
        IN  m > n \/ (m = n /\ s <= t)

\* Mutant: a leader without a speaker is read like any other.
LeaderTargetByPlayer(vw, m) == PlayerTarget(vw, m)

LeaderTarget(vw, m) ==
    IF vw[m] = None THEN None
    ELSE IF m \in Speaker THEN PlayerTarget(vw, m)
    ELSE IF vw[m].active = {} THEN None ELSE <<m, Busiest(vw[m])>>

\* _follow_cycle: the units from u along follows_unit_id back to u, or none if it never comes back.
FollowCycle(vw, u, m) ==
    LET walk[n \in 0 .. Cardinality(Unit)] ==
            IF n = 0 THEN m
            ELSE LET c == walk[n - 1]
                 IN  IF c = None \/ vw[c] = None THEN None ELSE vw[c].follows
        returns == {n \in DOMAIN walk : walk[n] = u}
    IN  IF returns = {} THEN {} ELSE {u} \cup {walk[i] : i \in 0 .. (Min(returns) - 1)}

-----------------------------------------------------------------------------
(* The world: senders, people, foreign servers, settings.                  *)

Disturb == trouble < MaxTrouble /\ trouble' = trouble + 1

SourceStarts(t) ==
    /\ Disturb
    /\ t \notin active
    /\ active' = active \cup {t}
    /\ UNCHANGED <<settings, at, fed, meshVars, loopVars, chosen>>

\* A source that goes idle lets go of its players.
SourceStops(t) ==
    /\ Disturb
    /\ t \in active
    /\ active' = active \ {t}
    /\ at' = [p \in Speaker |-> IF at[p] = t THEN None ELSE at[p]]
    /\ UNCHANGED <<settings, fed, meshVars, loopVars, chosen>>

\* Somebody routes a speaker, or sets it to none.  Back where the loop had put it is no choice.
PersonMoves(p, w) ==
    /\ Disturb
    /\ at' = [at EXCEPT ![p] = w]
    /\ fed' = fed \ {p}
    /\ chosen' = [chosen EXCEPT ![p] = IF w = last[p] THEN Free ELSE w]
    /\ UNCHANGED <<settings, active, meshVars, loopVars>>

\* Somebody plays to the speaker through a server of another system.
ForeignFeeds(p) ==
    /\ Disturb
    /\ at' = [at EXCEPT ![p] = Foreign]
    /\ fed' = fed \cup {p}
    /\ chosen' = [chosen EXCEPT ![p] = Foreign]
    /\ UNCHANGED <<settings, active, meshVars, loopVars>>

\* That server stops, or dials an unattached speaker, and keeps a silent connection to it.
ForeignParks(p) ==
    /\ Disturb
    /\ at[p] = None \/ p \in fed
    /\ at' = [at EXCEPT ![p] = Foreign]
    /\ fed' = fed \ {p}
    /\ UNCHANGED <<settings, active, meshVars, loopVars, chosen>>

Configure(p, cfg) ==
    /\ Disturb
    /\ settings' = [settings EXCEPT ![p] = cfg]
    /\ UNCHANGED <<active, at, fed, meshVars, loopVars, chosen>>

-----------------------------------------------------------------------------
(* How a state of the world reaches a view.                                *)

\* The player process posts its state to its own unit.
PlayerReports(p) ==
    /\ selfReport' = [selfReport EXCEPT ![p] =
           [where |-> at[p], playing |-> at[p] \in active \/ p \in fed]]
    /\ UNCHANGED <<worldVars, view, late, loopVars, chosen, trouble>>

Snapshot(v) ==
    [report  |-> selfReport[v],
     active  |-> {t[2] : t \in {x \in active : x[1] = v}},
     crowd   |-> [s \in SourceId |-> {p \in Speaker : at[p] = <<v, s>>}],
     follows |-> reported[v]]

Fetch(p, v) ==
    /\ view' = [view EXCEPT ![p][v] = Snapshot(v)]
    /\ UNCHANGED <<worldVars, selfReport, late, loopVars, chosen, trouble>>

\* A peer that does not answer in time, or is not discovered, is left out of the view.
FetchFails(p, v) ==
    /\ Disturb
    /\ v # p /\ view[p][v] # None
    /\ view' = [view EXCEPT ![p][v] = None]
    /\ UNCHANGED <<worldVars, selfReport, late, loopVars, chosen>>

-----------------------------------------------------------------------------
(* One tick, by the branch it takes.                                       *)

Own(p)     == view[p][p].active
Master(p)  == settings[p].master
Current(p) == PlayerTarget(view[p], p)
Leader(p)  == LeaderTarget(view[p], Master(p))

\* The rising edges this tick sees, less those the player is on already.
NewlyActive(p) ==
    LET before == IF prevActive[p] = None THEN Own(p) ELSE prevActive[p]
    IN  {s \in Own(p) \ before : p \notin view[p][p].crowd[s]}

\* Every tick that gets as far as the view takes note of the local sources.
Look(p) ==
    /\ call[p] = None
    /\ prevActive' = [prevActive EXCEPT ![p] = Own(p)]
    /\ UNCHANGED <<worldVars, meshVars, trouble>>

Grabs(p) == PlayerIdle(view[p], p) /\ settings[p].local /\ NewlyActive(p) # {}

\* localActivity: an idle speaker goes to the local source that has just become active.
GrabLocal(p) ==
    /\ Look(p)
    /\ Grabs(p)
    /\ call' = [call EXCEPT ![p] = [op |-> "grab", to |-> <<p, Min(NewlyActive(p))>>]]
    /\ UNCHANGED <<reported, last, overridden, chosen>>

\* Mutants: nobody yields; each compares itself with its master only.
YieldsNever(p) == FALSE
YieldsToMaster(p) ==
    FollowCycle(view[p], p, Master(p)) # {} /\ Min({p, Master(p)}) = p

Yields(p) ==
    LET cycle == FollowCycle(view[p], p, Master(p))
    IN  cycle # {} /\ Min(cycle) = p

\* Not a follower, or the one of a cycle of followers that has to stand down.
StandDown(p) ==
    /\ Look(p)
    /\ ~Grabs(p)
    /\ Master(p) = None \/ Yields(p)
    /\ reported' = [reported EXCEPT ![p] = None]
    /\ overridden' = [overridden EXCEPT ![p] = FALSE]
    /\ chosen' = [chosen EXCEPT ![p] = Free]
    /\ UNCHANGED <<last, call>>

FollowTick(p) ==
    /\ Look(p)
    /\ ~Grabs(p)
    /\ Master(p) # None /\ ~Yields(p)
    /\ reported' = [reported EXCEPT ![p] = Master(p)]

\* Where a leader really is.
LeaderAt(m) ==
    IF m \in Speaker THEN IF at[m] \in active THEN at[m] ELSE None
    ELSE LET slice == Snapshot(m) IN IF slice.active = {} THEN None ELSE <<m, Busiest(slice)>>

\* The master has no stream and neither have we: the relationship starts over.
ResetWithMaster(p) ==
    /\ FollowTick(p)
    /\ Leader(p) = None /\ PlayerIdle(view[p], p)
    /\ overridden' = [overridden EXCEPT ![p] = FALSE]
    /\ last' = [last EXCEPT ![p] = None]
    /\ chosen' = [chosen EXCEPT ![p] = IF LeaderAt(Master(p)) = None THEN Free ELSE @]
    /\ UNCHANGED call

\* Mutant: leaves only a source of its own unit.
FollowIntoIdleOwn(p) ==
    /\ FollowTick(p)
    /\ Leader(p) = None /\ ~PlayerIdle(view[p], p)
    /\ Current(p) # None /\ Current(p) = last[p] /\ Current(p)[1] = p
    /\ call' = [call EXCEPT ![p] = [op |-> "unroute", to |-> Current(p)]]
    /\ UNCHANGED <<last, overridden, chosen>>

\* The master has no stream and we are still where we followed it to: leave too.
FollowIntoIdle(p) ==
    /\ FollowTick(p)
    /\ Leader(p) = None /\ ~PlayerIdle(view[p], p)
    /\ Current(p) # None /\ Current(p) = last[p]
    /\ call' = [call EXCEPT ![p] = [op |-> "unroute", to |-> Current(p)]]
    /\ UNCHANGED <<last, overridden, chosen>>

\* The master has no stream and we are on something of our own.
LeaveAlone(p) ==
    /\ FollowTick(p)
    /\ Leader(p) = None /\ ~PlayerIdle(view[p], p)
    /\ Current(p) = None \/ Current(p) # last[p]
    /\ UNCHANGED <<last, overridden, call, chosen>>

InSync(p) ==
    /\ FollowTick(p)
    /\ Leader(p) # None /\ Current(p) = Leader(p)
    /\ overridden' = [overridden EXCEPT ![p] = FALSE]
    /\ last' = [last EXCEPT ![p] = Leader(p)]
    /\ chosen' = [chosen EXCEPT ![p] = Free]
    /\ UNCHANGED call

\* Somewhere the loop did not put it: taken for a person's choice.
Override(p) ==
    /\ FollowTick(p)
    /\ Leader(p) # None /\ Current(p) # Leader(p)
    /\ Current(p) # last[p] \/ overridden[p]
    /\ overridden' = [overridden EXCEPT ![p] = TRUE]
    /\ UNCHANGED <<last, call, chosen>>

\* Mutant: follows whatever the player is on.
ChaseRegardless(p) ==
    /\ FollowTick(p)
    /\ Leader(p) # None /\ Current(p) # Leader(p)
    /\ call' = [call EXCEPT ![p] = [op |-> "route", to |-> Leader(p)]]
    /\ UNCHANGED <<last, overridden, chosen>>

Chase(p) ==
    /\ FollowTick(p)
    /\ Leader(p) # None /\ Current(p) # Leader(p)
    /\ Current(p) = last[p] /\ ~overridden[p]
    /\ call' = [call EXCEPT ![p] = [op |-> "route", to |-> Leader(p)]]
    /\ UNCHANGED <<last, overridden, chosen>>

Tick(p) ==
    \/ GrabLocal(p) \/ StandDown(p) \/ ResetWithMaster(p) \/ FollowIntoIdle(p)
    \/ LeaveAlone(p) \/ InSync(p) \/ Override(p) \/ Chase(p)

-----------------------------------------------------------------------------
(* The call a tick awaits.                                                 *)

\* Where the player is once the owning unit has done what it was asked.
Lands(p, c) ==
    IF c.op # "unroute" THEN c.to ELSE IF at[p] = c.to THEN None ELSE at[p]

\* Mutant: the foreign server is not hung up on.
ExecuteKeepsFed(p, c) ==
    /\ at' = [at EXCEPT ![p] = Lands(p, c)]
    /\ UNCHANGED <<fed, settings, active>>

Execute(p, c) ==
    /\ at' = [at EXCEPT ![p] = Lands(p, c)]
    /\ fed' = IF Lands(p, c) = Foreign THEN fed ELSE fed \ {p}
    /\ UNCHANGED <<settings, active>>

CallReturns(p) ==
    /\ call[p] # None
    /\ Execute(p, call[p])
    /\ last' = [last EXCEPT ![p] = IF call[p].op = "unroute" THEN None ELSE call[p].to]
    /\ overridden' = [overridden EXCEPT ![p] = @ \/ call[p].op = "grab"]
    /\ chosen' = [chosen EXCEPT ![p] = IF call[p].op = "grab" THEN call[p].to ELSE Free]
    /\ call' = [call EXCEPT ![p] = None]
    /\ UNCHANGED <<meshVars, reported, prevActive, trouble>>

\* No peer, no player, no URL: the route is not done.  A grab counts as an override all the same.
CallRefused(p) ==
    /\ Disturb
    /\ call[p] # None
    /\ overridden' = [overridden EXCEPT ![p] = @ \/ call[p].op = "grab"]
    /\ call' = [call EXCEPT ![p] = None]
    /\ UNCHANGED <<worldVars, meshVars, reported, last, prevActive, chosen>>

\* The caller gives a peer three seconds, the peer gives a reclaim ten.
CallTimesOut(p) ==
    /\ Disturb
    /\ call[p] # None /\ call[p].to[1] # p
    /\ late' = late \cup {<<p, call[p]>>}
    /\ call' = [call EXCEPT ![p] = None]
    /\ UNCHANGED <<worldVars, selfReport, view, reported, last, prevActive, overridden, chosen>>

LateLands(r) ==
    /\ late' = late \ {r}
    /\ Execute(r[1], r[2])
    /\ UNCHANGED <<selfReport, view, loopVars, chosen, trouble>>

-----------------------------------------------------------------------------
World ==
    \/ \E t \in Target : SourceStarts(t) \/ SourceStops(t)
    \/ \E p \in Speaker : \E w \in Target \cup {None} : PersonMoves(p, w)
    \/ \E p \in Speaker : ForeignFeeds(p) \/ ForeignParks(p)
    \/ \E p \in Speaker : \E cfg \in Setting : Configure(p, cfg)

Relay ==
    \/ \E p \in Speaker : PlayerReports(p)
    \/ \E p \in Speaker, v \in Unit : Fetch(p, v) \/ FetchFails(p, v)

CallEnds(p) == CallReturns(p) \/ CallRefused(p) \/ CallTimesOut(p)

Next ==
    \/ World
    \/ Relay
    \/ \E p \in Speaker : Tick(p) \/ CallEnds(p)
    \/ \E r \in late : LateLands(r)

Spec == Init /\ [][Next]_vars

\* The loops run for ever on their timers, and a call ends.
Fairness ==
    /\ \A p \in Speaker : WF_vars(PlayerReports(p)) /\ WF_vars(Tick(p)) /\ WF_vars(CallReturns(p))
    /\ \A p \in Speaker, v \in Unit : WF_vars(Fetch(p, v))
    /\ WF_vars(\E r \in late : LateLands(r))

FairSpec == Spec /\ Fairness

-----------------------------------------------------------------------------
(* The loop's rules apart from its polls: views that are always in time,   *)
(* local activity off, and nobody at the players while a call is awaited.  *)

\* Every report and every fetch of some units, at once.
RefreshOf(units) ==
    /\ UNCHANGED <<worldVars, late, loopVars, chosen, trouble>>
    /\ selfReport' = [u \in Unit |-> IF u \notin Speaker THEN selfReport[u] ELSE
                         [where |-> at[u], playing |-> at[u] \in active \/ u \in fed]]
    /\ view' = [p \in Speaker |-> IF p \in units THEN [v \in Unit |-> Snapshot(v)'] ELSE view[p]]

Fresh == /\ \A u \in Speaker : selfReport[u].where = at[u]
                               /\ selfReport[u].playing = (at[u] \in active \/ u \in fed)
         /\ \A p \in Speaker, v \in Unit : view[p][v] = Snapshot(v)

\* Nobody touches the players while a call is under way, and no call is given up.
Still == (\A p \in Speaker : call[p] = None) /\ late = {}

PromptTick  == Fresh /\ \E p \in Speaker : Tick(p)
PromptEnd   == \E p \in Speaker : CallReturns(p) \/ CallRefused(p)

\* The settings are left alone.
PromptWorld == /\ Still
               /\ \/ \E t \in Target : SourceStarts(t) \/ SourceStops(t)
                  \/ \E p \in Speaker : \E w \in Target \cup {None} : PersonMoves(p, w)
                  \/ \E p \in Speaker : ForeignFeeds(p) \/ ForeignParks(p)

\* A follower, local activity being off.
Follow(m) == [local |-> FALSE, master |-> m]

PromptNext ==
    \/ PromptWorld \/ PromptTick \/ PromptEnd
    \/ Still /\ \E p \in Speaker, m \in Unit \cup {None} : Configure(p, Follow(m))
    \/ Relay \/ \E units \in SUBSET Speaker : RefreshOf(units)

LocalOff == \A p \in Speaker : ~settings[p].local

PromptSpec == Init /\ LocalOff /\ [][PromptNext]_vars

-----------------------------------------------------------------------------
(* What the loop promises.                                                 *)

\* What plays on a speaker: parked by a foreign server or on a quiet source, it is idle.
Playing(p) == IF at[p] \in active \/ p \in fed THEN at[p] ELSE None

LoopMoves(p) == call[p] # None /\ call'[p] = None /\ at'[p] # at[p]

\* "A local override always wins": follow never moves a player away from the source, or the none,
\* where a person or a new local connection has put it, until one of the documented resets
\* (mesh/follow.py, tick).
ChoiceStands ==
    [][\A p \in Speaker : LoopMoves(p) /\ call[p].op # "grab" /\ chosen[p] # Foreign
           => chosen[p] # Playing(p)]_vars

\* Whatever units are set to follow each other, players stop being moved once people, senders and
\* the network leave them alone: no unit hands its player around a cycle (mesh/follow.py, tick).
PlayersSettle == <>[][at' = at]_vars

\* Who follows whom, as configured rather than as reported.
Configured == [v \in Unit |-> [follows |-> IF v \in Speaker THEN Master(v) ELSE None]]

InCharge(p) ==
    LET cycle == FollowCycle(Configured, p, Master(p))
    IN  Master(p) = None \/ (cycle # {} /\ Min(cycle) = p)

\* In every cycle of followers exactly the lowest unit ends up reporting that it follows nobody, and
\* everybody else that they follow their master (mesh/follow.py, tick and _report_master).
CyclesBreak ==
    <>[](\A p \in Speaker : reported[p] = IF InCharge(p) THEN None ELSE Master(p))

\* A follower that is not overridden ends up on its leader's stream, and is not left behind on it
\* when the leader has none (mesh/follow.py, tick).
FollowersArrive ==
    <>[](\A p \in Speaker :
           InCharge(p) \/ overridden[p] \/ at[p] = LeaderAt(Master(p))
           \/ (LeaderAt(Master(p)) = None /\ (last[p] = None \/ at[p] # last[p])))
=============================================================================
