------------------------- MODULE MCFollowReconciler -------------------------
(***************************************************************************)
(* FollowReconciler on small meshes.  The full mesh lags at every hop; the *)
(* instances that ask what the loop's rules do, rather than its polls,     *)
(* refresh whole views at once.                                            *)
(***************************************************************************)
EXTENDS FollowReconciler

\* The sources: one per unit, two on the leader, or those of two speakers and of a unit without.
OneEach   == {<<1, 1>>, <<2, 1>>}
TwoLeader == {<<1, 1>>, <<2, 1>>, <<2, 2>>}
Mixed     == {<<1, 1>>, <<2, 1>>, <<3, 1>>, <<3, 2>>}

Off       == [local |-> FALSE, master |-> None]
Both(m)   == [local |-> TRUE, master |-> m]

\* A mesh in session: each speaker on a source, every view up to date.
InSession(follows, where) ==
    /\ settings = follows
    /\ active = {t \in Target : t[1] \in {where[p][1] : p \in Speaker}}
    /\ at = where
    /\ fed = {}
    /\ selfReport = [u \in Unit |-> IF u \in Speaker THEN [where |-> at[u], playing |-> TRUE]
                                   ELSE Unattached]
    /\ reported = [u \in Unit |-> None]
    /\ view = [p \in Speaker |-> [v \in Unit |-> Snapshot(v)]]
    /\ last = [p \in Speaker |-> at[p]]
    /\ prevActive = [p \in Speaker |-> Own(p)]
    /\ overridden = [p \in Speaker |-> FALSE]
    /\ call = [p \in Speaker |-> None]
    /\ late = {}
    /\ chosen = [p \in Speaker |-> Free]
    /\ trouble = 0

\* Two units that follow each other, each playing its own source; or that both follow a unit
\* without a speaker, each on another of its two sources.
InitRing   == InSession([p \in Speaker |-> Follow(3 - p)], [p \in Speaker |-> <<p, 1>>])
InitShared == InSession([p \in Speaker |-> Follow(3)], [p \in Speaker |-> <<3, p>>])

\* Unit 1 follows unit 2, which is on its own.
InitFollower == Init /\ settings = [p \in Speaker |-> IF p = 1 THEN Follow(2) ELSE Off]
InitBoth     == Init /\ settings = [p \in Speaker |-> IF p = 1 THEN Both(2) ELSE Off]

\* Each unit refreshes its view at its own pace, and ticks on what it has.
RingNext ==
    \/ \E p \in Speaker : \E w \in active \cup {None} : PersonMoves(p, w)
    \/ \E p \in Speaker : RefreshOf({p}) \/ Tick(p) \/ CallEnds(p)
    \/ \E r \in late : LateLands(r)

\* Polls that are always in time.
Refresh == RefreshOf(Speaker)

SteadyNext  == PromptWorld \/ Refresh \/ PromptTick \/ PromptEnd

\* The same with followers reconfigured, local activity staying off.
ReconfNext  == \/ SteadyNext
               \/ Still /\ \E m \in Unit \cup {None} : Configure(1, Follow(m))

ReconfSpec == InitFollower /\ [][ReconfNext]_vars
GrabSpec   == InitBoth /\ [][SteadyNext]_vars
=============================================================================
