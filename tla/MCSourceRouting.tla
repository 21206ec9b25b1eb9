--------------------------- MODULE MCSourceRouting ---------------------------
(***************************************************************************)
(* SourceRouting on small instances.                                       *)
(***************************************************************************)
EXTENDS SourceRouting, TLC, Naturals

\* A unit in the middle of a session, as it is after starting every source and attaching every
\* player to one of them while a sender feeds it.
InitInSession ==
    \E s \in Source :
        /\ sources = Source
        /\ primary \in Source
        /\ writer = [t \in Source |-> IF t = s THEN "feeding" ELSE "none"]
        /\ group = [p \in Player |-> s]
        /\ live = [t \in Source |-> t = s]
        /\ roster = [t \in Source |-> IF t = s THEN Player ELSE {}]
        /\ announced = [t \in Source |-> IF t = s THEN "playing" ELSE "stopped"]
        /\ active = [t \in Source |-> t = s]
        /\ ps = [t \in Source |-> t = s]
        /\ eof = [t \in Source |-> FALSE]
        /\ lock = [t \in Source |-> None]
        /\ todo = [t \in Source |-> {}]
        /\ pc = [x \in Source \cup Caller |-> IF x \in Caller THEN "idle"
                                            ELSE IF x = s THEN "read" ELSE "open"]
        /\ job = [c \in Caller |-> None]
        /\ connected = Player
        /\ cleanup = {}

SpecInSession == InitInSession /\ [][Next]_vars

\* Bound of the larger instances: links stay up, so that only sessions and requests interleave.
LinksUp == connected = Player

Busy(s) == writer[s] # "none" \/ pc[s] \notin {"off", "open"}

\* Bound of the two-source instances: sessions do not overlap, the other source waits at its FIFO.
OneSession == LinksUp /\ Cardinality({s \in Source : Busy(s)}) <= 1

\* Bound of the two-request, two-source instance: no two requests move one player at once, a source is
\* stopped by a request that is alone, and senders come and go without falling quiet in between.
OneRequest == \A c, d \in Caller : job[c] # None /\ job[d] # None => c = d
Bystanders ==
    /\ OneSession /\ NoTwoMoves
    /\ sources = Source \/ OneRequest
    /\ \A s \in Source : writer[s] # "quiet"

CallerSymmetry == Permutations(Caller)
UnitSymmetry   == Permutations(Source) \cup Permutations(Caller)
=============================================================================
