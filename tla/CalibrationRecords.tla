------------------------- MODULE CalibrationRecords -------------------------
(***************************************************************************)
(* One player's calibration record on several units                        *)
(* (backend/scripts/calibration.py, apis/calibration_api.py): a page saves *)
(* to the unit that serves it, each unit publishes what it holds, and all  *)
(* merge what they have heard.  The revision orders the records; clocks,   *)
(* which disagree, only break ties.                                        *)
(***************************************************************************)
EXTENDS FiniteSetsExt, Naturals

CONSTANTS Unit,
          Clock,    \* each unit's, a function: what it stamps a record with
          MaxSaves, \* bound: records saved
          None

Save == 1..MaxSaves

VARIABLES table,  \* each unit's settings.json: the save it holds
          heard,  \* each unit's view of every table
          page,   \* the save a unit's page last showed
          saved,  \* what each save recorded: its revision and stamp, and history: those it replaced
          saves

vars == <<table, heard, page, saved, saves>>

Unsaved == [rev |-> 0, stamp |-> 0, knew |-> {}]

TypeOK ==
    /\ table \in [Unit -> Save \cup {None}]
    /\ heard \in [Unit -> [Unit -> Save \cup {None}]]
    /\ page \in [Unit -> Save \cup {None}]
    /\ saved \in [Save -> [rev : 0..MaxSaves, stamp : {Clock[u] : u \in Unit} \cup {0}, knew : SUBSET Save]]
    /\ saves \in 0..MaxSaves

Init ==
    /\ table = [u \in Unit |-> None]
    /\ heard = [u \in Unit |-> [v \in Unit |-> None]]
    /\ page = [u \in Unit |-> None]
    /\ saved = [s \in Save |-> Unsaved]
    /\ saves = 0

Rev(s) == IF s = None THEN 0 ELSE saved[s].rev

Outranks(s, t) ==
    \/ saved[s].rev > saved[t].rev
    \/ saved[s].rev = saved[t].rev /\ saved[s].stamp > saved[t].stamp

\* merge_calibrations over what a unit has heard; between equals the order of the view decides.
Winners(u) ==
    LET all == {heard[u][v] : v \in Unit} \ {None}
    IN  {s \in all : \A t \in all : ~Outranks(t, s)}

Merged(u, s) == IF Winners(u) = {} THEN s = None ELSE s \in Winners(u)

\* The aggregator's poll of one unit, oneself included.
Hear(u, v) ==
    /\ heard' = [heard EXCEPT ![u][v] = table[v]]
    /\ UNCHANGED <<table, page, saved, saves>>

\* GET of the merged records.
Show(u) ==
    /\ \E s \in Save \cup {None} : Merged(u, s) /\ page' = [page EXCEPT ![u] = s]
    /\ UNCHANGED <<table, heard, saved, saves>>

\* Mutant: the next revision of this unit's own table.
NextRevOfTable(u) == Rev(table[u]) + 1

\* put_one: knownRev comes from the page, the other is read inside the lock.
NextRev(u) == Max({Rev(page[u]), Rev(table[u])}) + 1

PutOne(u) ==
    /\ saves < MaxSaves
    /\ saves' = saves + 1
    /\ saved' = [saved EXCEPT ![saves + 1] =
                    [rev |-> NextRev(u), stamp |-> Clock[u],
                     knew |-> UNION {{s} \cup saved[s].knew : s \in {page[u], table[u]} \ {None}}]]
    /\ table' = [table EXCEPT ![u] = saves + 1]
    /\ page' = [page EXCEPT ![u] = saves + 1]
    /\ UNCHANGED heard

\* delete_one: this unit's record only.
DeleteOne(u) ==
    /\ table[u] # None
    /\ table' = [table EXCEPT ![u] = None]
    /\ page' = [page EXCEPT ![u] = None]
    /\ UNCHANGED <<heard, saved, saves>>

Next ==
    \/ \E u, v \in Unit : Hear(u, v)
    \/ \E u \in Unit : Show(u) \/ PutOne(u) \/ DeleteOne(u)

Spec == Init /\ [][Next]_vars

-----------------------------------------------------------------------------
(* Properties.                                                             *)

\* "A later edit outranks an earlier one regardless of what either clock believes"
\* (merge_calibrations): no unit prefers a record to one that was saved by someone who had that
\* record before them.
LaterWins ==
    \A u \in Unit : \A s \in Winners(u) : \A v \in Unit :
        heard[u][v] # None => s \notin saved[heard[u][v]].knew
=============================================================================
