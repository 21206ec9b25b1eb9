--------------------------- MODULE MCUnitServices ---------------------------
(***************************************************************************)
(* UnitServices small: one speaker of the mesh and a third-party one; two  *)
(* endpoints, one the user renames, enables and disables, and a neighbour  *)
(* that is enabled and disabled; two matched speakers, one louder than the *)
(* other; two units whose clocks disagree.                                 *)
(***************************************************************************)
EXTENDS UnitServices

CONSTANTS p1, p2, e1, e2, a, b

Settable  == [e \in Endpoint |-> IF e = e1 THEN {a, b} ELSE {a}]
Louder1   == [p \in Matching |-> IF p = p2 THEN 1 ELSE 0]
NoTrim    == [p \in Matching |-> 0]
FullScale == [p \in Matching |-> MaxVolume]
Backwards == [u \in Unit |-> 3 - u]

\* Bound: two endpoints meet one failure between them, and none once one of them was renamed; a
\* single one meets up to MaxTrouble.
Alone ==
    /\ sourceAsked[e2] = Off /\ sourceRendered[e2] = Off /\ sourceRunning[e2] = Off
    /\ e2 \notin sourceSources
Unnamed == b \notin {f[e1] : f \in {sourceAsked, sourceRendered, sourceRunning, sourceLoaded,
                                   sourceLastDesired, sourceWanted}}
ManageBudget == Alone \/ sourceTrouble = 0 \/ (sourceTrouble = 1 /\ Unnamed)

\* Bound: once a session has failed to put a speaker back nothing else goes wrong until people have
\* seen to it: no other speaker is left behind, no level is held or unknown, and nobody disconnects.
ToneBudget ==
    excused # {} =>
        /\ Cardinality(excused) = 1 /\ unheard = {}
        /\ \A p \in Own : held[p] = None /\ link[p] = "here"

BudgetNext == UnitNext /\ ManageBudget' /\ ToneBudget'
BudgetSpec == UnitInit /\ [][BudgetNext]_unitVars /\ UnitFairness
=============================================================================
