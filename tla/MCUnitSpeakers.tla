--------------------------- MODULE MCUnitSpeakers ---------------------------
(***************************************************************************)
(* UnitSpeakers small: two requests for one speaker, two cards, two        *)
(* servers, two tracks; blocks and chunks of two frames, streams whose     *)
(* first chunk comes in time or early.                                     *)
(***************************************************************************)
EXTENDS UnitSpeakers

CONSTANTS d1, d2, v1, v2, k1, k2

\* The environment names the first card in its own way.
Cards   == {d1, d2}
Default == d1
Servers == {v1, v2}
Tracks  == {k1, k2}
Levels  == 1..2

\* Bound: the last of the phone's changes is made while nothing is astray, and nothing goes astray
\* after it.
LineBudget == lineAstray # {} => lineChanges < MaxLineChanges

BudgetNext == UnitNext /\ LineBudget'
BudgetSpec == UnitInit /\ [][BudgetNext]_unitVars /\ UnitFairness
=============================================================================
