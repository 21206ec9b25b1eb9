--------------------------- MODULE MCFollowLoops ---------------------------
(***************************************************************************)
(* FollowReconciler on two meshes of a third unit without a speaker: two   *)
(* speakers that follow in a ring, or that unit, on views of their own     *)
(* age; and one speaker, the other being off, every poll at its own time.  *)
(* A behaviour is of the mesh that mesh names.                             *)
(***************************************************************************)
EXTENDS MCFollowReconciler

VARIABLES mesh

loopsVars == <<mesh, vars>>

\* The sources of the lone speaker and of its leader.
LoneTarget == {<<1, 1>>, <<3, 1>>}

InitLone == Init /\ settings[2] = Off /\ settings[1].master # 2

LoopsInit ==
    \/ mesh = "ring" /\ InitRing
    \/ mesh = "ring" /\ InitShared
    \/ mesh = "lone" /\ InitLone

\* Bound: one disturbance in a ring.
AroundNext == RingNext /\ trouble' <= 1

LoneWorld ==
    \/ \E t \in LoneTarget : SourceStarts(t) \/ SourceStops(t)
    \/ \E w \in LoneTarget \cup {None} : PersonMoves(1, w)
    \/ ForeignFeeds(1) \/ ForeignParks(1)
    \/ \E cfg \in Setting : cfg.master # 2 /\ Configure(1, cfg)

LoneNext ==
    \/ LoneWorld
    \/ PlayerReports(1) \/ Tick(1) \/ CallEnds(1)
    \/ \E v \in {1, 3} : Fetch(1, v) \/ FetchFails(1, v)
    \/ \E r \in late : LateLands(r)

LoopsNext ==
    \/ mesh = "ring" /\ AroundNext /\ UNCHANGED mesh
    \/ mesh = "lone" /\ LoneNext /\ UNCHANGED mesh

\* The loops run for ever on their timers, and a call ends.
LoopsFairness ==
    /\ \A p \in Speaker :
           /\ WF_vars(mesh = "ring" /\ RefreshOf({p}))
           /\ WF_vars((mesh = "ring" \/ p = 1) /\ Tick(p))
           /\ WF_vars((mesh = "ring" \/ p = 1) /\ CallReturns(p))
    /\ WF_vars(\E r \in late : LateLands(r))
    /\ WF_vars(mesh = "lone" /\ PlayerReports(1))
    /\ \A v \in {1, 3} : WF_vars(mesh = "lone" /\ Fetch(1, v))

LoopsSpec == LoopsInit /\ [][LoopsNext]_loopsVars /\ LoopsFairness
=============================================================================
