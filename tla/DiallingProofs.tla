--------------------------- MODULE DiallingProofs ---------------------------
(***************************************************************************)
(* Proofs about Dialling for any callers and any dial tasks: no eviction   *)
(* hangs over a connected speaker, whatever requests overlap; and as long  *)
(* as they do not and no stopped dial outlives its wait, there is one      *)
(* dialler, the registry knows it, a release sticks and a redial cuts      *)
(* nothing that plays.                                                     *)
(***************************************************************************)
EXTENDS Dialling, TLAPS

Busy(c) == pc[c] # "idle"

\* One session at a time, and no eviction outlives the return of the speaker.
OneSession == \A t, u \in InSession : t = u
Evictions  == ~orphan /\ (Connected => ~handle)

\* What holds while requests do not overlap.
Alone    == \A c, d \in Caller : Busy(c) /\ Busy(d) => c = d
Tracked  == \A t \in Task : Running(t) => t = registered \/ \E c \in Caller : old[c] = t
\* While a request waits for a dial to end nothing else is dialled; past the wait nothing is left.
Stopping == \A c \in Caller : pc[c] = "stopping" => registered = None
Hung     == \A c \in Caller : pc[c] \in {"hangUp", "forget"} => registered = None
\* What lets go has taken the speaker out of our groups, or never had it in one.
Apart    == \A c \in Caller : Busy(c) /\ asked[c] \in {"letGo", "release"} => ~grouped
GroupedIsKnown == grouped => known
\* An adopt only stops a dial that is not the playing one.
Spared   == \A c \in Caller : pc[c] = "stopping" => ~grouped \/ dial[old[c]] = "gone"
Freed    == freed => ~grouped /\ registered = None /\ \A c \in Caller : ~Busy(c)
Labels   == \A c \in Caller : /\ pc[c] \in {"detached", "forget"} => asked[c] = "release"
                              /\ pc[c] = "hangUp" => asked[c] \in {"release", "letGo"}
                              /\ pc[c] = "stopping" => asked[c] # "reclaim"

Orderly == Alone /\ Tracked /\ Stopping /\ Hung /\ Apart /\ Spared /\ Freed

-----------------------------------------------------------------------------
(* Types.                                                                  *)

\* A dial that is stopped leaves a request that waits for it.
LEMMA StopDialingTypes ==
  ASSUME TypeOK, NEW c \in Caller, registered # None, StopDialing(c)
  PROVE  /\ dial' \in [Task -> {"gone", "connecting", "session", "backoff"}]
         /\ registered' = None
         /\ {handle', orphan'} \subseteq BOOLEAN
         /\ pc' = [pc EXCEPT ![c] = "stopping"]
         /\ old' = [old EXCEPT ![c] = registered]
         /\ registered \in Task
<1>1. registered \in Task /\ registered' = None
  BY DEF TypeOK, StopDialing
<1>2. dial' \in [Task -> {"gone", "connecting", "session", "backoff"}]
  BY <1>1 DEF TypeOK, StopDialing, Cancelled
<1>3. {handle', orphan'} \subseteq BOOLEAN
  BY DEF TypeOK, StopDialing, Cancelled, Schedule
<1> QED
  BY <1>1, <1>2, <1>3 DEF StopDialing

\* Every step keeps the types, and a request is under way exactly while its caller is not idle.
LEMMA TypeStep == ASSUME TypeOK, [Next]_vars PROVE TypeOK'
<1> USE DiallingAssumption DEF Request
<1>1. ASSUME NEW t \in Task, Connects(t) PROVE TypeOK'
  BY <1>1 DEF Connects, TypeOK, requestVars
<1>2. ASSUME NEW t \in Task, ConnectFails(t) PROVE TypeOK'
  BY <1>2 DEF ConnectFails, TypeOK, requestVars
<1>3. ASSUME NEW t \in Task, SessionBreaks(t) PROVE TypeOK'
  BY <1>3 DEF SessionBreaks, Schedule, TypeOK, requestVars
<1>4. ASSUME NEW t \in Task, Redials(t) PROVE TypeOK'
  BY <1>4 DEF Redials, TypeOK, requestVars
<1>5. ASSUME NEW t \in Task, TakenAway(t) PROVE TypeOK'
  BY <1>5 DEF TakenAway, Schedule, TypeOK, requestVars
<1>6. ASSUME EvictionDue PROVE TypeOK'
  BY <1>6 DEF EvictionDue, TypeOK, requestVars
<1>7. ASSUME NEW c \in Caller, AdoptHeld(c) PROVE TypeOK'
  BY <1>7 DEF AdoptHeld, AttachPlayer, TypeOK, requestVars
<1>8. ASSUME NEW c \in Caller, Adopt(c) PROVE TypeOK'
  <2>1. CASE registered = None
    BY <1>8, <2>1 DEF Adopt, Begins, ConnectToClient, Unused, TypeOK, Label
  <2>2. CASE registered # None
    <3>1. StopDialing(c)
      BY <1>8, <2>2 DEF Adopt
    <3>2. {known', grouped', excused', freed'} \subseteq BOOLEAN
      BY <1>8 DEF Adopt, Begins, TypeOK
    <3>3. pc[c] = "idle" /\ asked' = [asked EXCEPT ![c] = "adopt"]
      BY <1>8 DEF Adopt, Begins
    <3> QED
      BY <2>2, <3>1, <3>2, <3>3, StopDialingTypes DEF TypeOK, Label
  <2> QED
    BY <2>1, <2>2
<1>9. ASSUME NEW c \in Caller, Reclaim(c) PROVE TypeOK'
  BY <1>9 DEF Reclaim, Begins, ConnectToClient, Unused, TypeOK, Label
<1>10. ASSUME NEW c \in Caller, Release(c) PROVE TypeOK'
  BY <1>10 DEF Release, Begins, TypeOK, Label, libraryVars
<1>11. ASSUME NEW c \in Caller, LetGo(c) PROVE TypeOK'
  <2>1. CASE registered = None
    BY <1>11, <2>1 DEF LetGo, Begins, TypeOK, Label, libraryVars
  <2>2. CASE registered # None
    <3>1. StopDialing(c)
      BY <1>11, <2>2 DEF LetGo
    <3>2. {known', grouped', excused', freed'} \subseteq BOOLEAN
      BY <1>11 DEF LetGo, Begins, TypeOK
    <3>3. pc[c] = "idle" /\ asked' = [asked EXCEPT ![c] = "letGo"]
      BY <1>11 DEF LetGo, Begins
    <3> QED
      BY <2>2, <3>1, <3>2, <3>3, StopDialingTypes DEF TypeOK, Label
  <2> QED
    BY <2>1, <2>2
<1>12. ASSUME NEW c \in Caller, CancelAgain(c) PROVE TypeOK'
  BY <1>12 DEF CancelAgain, Cancelled, Schedule, TypeOK, requestVars
<1>13. ASSUME NEW c \in Caller, Stopped(c) PROVE TypeOK'
  BY <1>13 DEF Stopped, GoesOn, ConnectToClient, Unused, TypeOK, Label
<1>14. ASSUME NEW c \in Caller, Lands(c) PROVE TypeOK'
  BY <1>14 DEF Lands, AttachPlayer, Finishes, TypeOK, Label
<1>15. ASSUME NEW c \in Caller, GivesUp(c) PROVE TypeOK'
  BY <1>15 DEF GivesUp, Finishes, TypeOK, Label, libraryVars
<1>16. ASSUME NEW c \in Caller, Detached(c) PROVE TypeOK'
  <2>1. CASE registered = None
    BY <1>16, <2>1 DEF Detached, TypeOK, Label, libraryVars
  <2>2. CASE registered # None
    <3>1. StopDialing(c)
      BY <1>16, <2>2 DEF Detached
    <3> QED
      BY <1>16, <2>2, <3>1, StopDialingTypes DEF Detached, TypeOK, Label
  <2> QED
    BY <2>1, <2>2
<1>17. ASSUME NEW c \in Caller, HangUp(c) PROVE TypeOK'
  BY <1>17 DEF HangUp, Schedule, TypeOK, Label
<1>18. ASSUME NEW c \in Caller, Forget(c) PROVE TypeOK'
  BY <1>18 DEF Forget, Finishes, TypeOK, Label
<1>19. ASSUME NEW c \in Caller, LetGoEnds(c) PROVE TypeOK'
  BY <1>19 DEF LetGoEnds, Finishes, Cancelled, Schedule, TypeOK, Label
<1>20. CASE UNCHANGED vars
  BY <1>20 DEF vars, libraryVars, requestVars, TypeOK, Request
<1> QED
  BY <1>1, <1>2, <1>3, <1>4, <1>5, <1>6, <1>7, <1>8, <1>9, <1>10,
     <1>11, <1>12, <1>13, <1>14, <1>15, <1>16, <1>17, <1>18, <1>19, <1>20
  DEF Next, Library, Goes

\* Type correctness of the dial tasks, the registry and the requests (sendspin_server.py:1432-1723).
THEOREM TypeCorrect == Spec => []TypeOK
<1>1. Init => TypeOK
  BY DiallingAssumption DEF Init, TypeOK, Request, Label
<1>2. TypeOK /\ [Next]_vars => TypeOK'
  BY TypeStep
<1> QED
  BY <1>1, <1>2, PTL DEF Spec

-----------------------------------------------------------------------------
(* Evictions.                                                              *)

\* Sessions and timers: a timer is armed only when the session ends, and cancelled by the next one.
LEMMA EvictionStep == ASSUME TypeOK, OneSession, Evictions, [Next]_vars PROVE (OneSession /\ Evictions)'
<1>1. ASSUME NEW t \in Task, Connects(t) PROVE (OneSession /\ Evictions)'
  BY <1>1 DEF Connects, OneSession, Evictions, InSession
<1>2. ASSUME NEW t \in Task, ConnectFails(t) PROVE (OneSession /\ Evictions)'
  BY <1>2 DEF ConnectFails, OneSession, Evictions, InSession, Connected
<1>3. ASSUME NEW t \in Task, SessionBreaks(t) PROVE (OneSession /\ Evictions)'
  BY <1>3 DEF SessionBreaks, Schedule, TypeOK, OneSession, Evictions, InSession, Connected
<1>4. ASSUME NEW t \in Task, Redials(t) PROVE (OneSession /\ Evictions)'
  BY <1>4 DEF Redials, OneSession, Evictions, InSession, Connected
<1>5. ASSUME NEW t \in Task, TakenAway(t) PROVE (OneSession /\ Evictions)'
  BY <1>5 DEF TakenAway, Schedule, TypeOK, OneSession, Evictions, InSession, Connected
<1>6. ASSUME EvictionDue PROVE (OneSession /\ Evictions)'
  BY <1>6 DEF EvictionDue, OneSession, Evictions, InSession
<1>7. ASSUME NEW c \in Caller, AdoptHeld(c) PROVE (OneSession /\ Evictions)'
  BY <1>7 DEF AdoptHeld, AttachPlayer, OneSession, Evictions, InSession
<1>8. ASSUME NEW c \in Caller, Adopt(c) PROVE (OneSession /\ Evictions)'
  BY <1>8 DEF Adopt, Begins, ConnectToClient, StopDialing, Cancelled, Schedule, TypeOK, OneSession,
        Evictions, InSession, Connected
<1>9. ASSUME NEW c \in Caller, Reclaim(c) PROVE (OneSession /\ Evictions)'
  BY <1>9 DEF Reclaim, Begins, ConnectToClient, TypeOK, OneSession, Evictions, InSession, Connected
<1>10. ASSUME NEW c \in Caller, Release(c) PROVE (OneSession /\ Evictions)'
  BY <1>10 DEF Release, Begins, OneSession, Evictions, InSession, Connected, libraryVars
<1>11. ASSUME NEW c \in Caller, LetGo(c) PROVE (OneSession /\ Evictions)'
  BY <1>11 DEF LetGo, Begins, StopDialing, Cancelled, Schedule, TypeOK, OneSession, Evictions,
        InSession, Connected, libraryVars
<1>12. ASSUME NEW c \in Caller, CancelAgain(c) PROVE (OneSession /\ Evictions)'
  BY <1>12 DEF CancelAgain, Cancelled, Schedule, TypeOK, OneSession, Evictions, InSession, Connected
<1>13. ASSUME NEW c \in Caller, Stopped(c) PROVE (OneSession /\ Evictions)'
  BY <1>13 DEF Stopped, GoesOn, ConnectToClient, TypeOK, OneSession, Evictions, InSession, Connected
<1>14. ASSUME NEW c \in Caller, Lands(c) PROVE (OneSession /\ Evictions)'
  BY <1>14 DEF Lands, AttachPlayer, Finishes, OneSession, Evictions, InSession
<1>15. ASSUME NEW c \in Caller, GivesUp(c) PROVE (OneSession /\ Evictions)'
  BY <1>15 DEF GivesUp, Finishes, OneSession, Evictions, InSession, Connected, libraryVars
<1>16. ASSUME NEW c \in Caller, Detached(c) PROVE (OneSession /\ Evictions)'
  BY <1>16 DEF Detached, StopDialing, Cancelled, Schedule, TypeOK, OneSession, Evictions, InSession,
        Connected, libraryVars
<1>17. ASSUME NEW c \in Caller, HangUp(c) PROVE (OneSession /\ Evictions)'
  BY <1>17 DEF HangUp, Schedule, OneSession, Evictions, InSession, Connected
<1>18. ASSUME NEW c \in Caller, Forget(c) PROVE (OneSession /\ Evictions)'
  BY <1>18 DEF Forget, Finishes, OneSession, Evictions, InSession
<1>19. ASSUME NEW c \in Caller, LetGoEnds(c) PROVE (OneSession /\ Evictions)'
  BY <1>19 DEF LetGoEnds, Finishes, Cancelled, Schedule, TypeOK, OneSession, Evictions, InSession, Connected
<1>20. CASE UNCHANGED vars
  BY <1>20 DEF vars, libraryVars, requestVars, Request, OneSession, Evictions, InSession, Connected
<1> QED
  BY <1>1, <1>2, <1>3, <1>4, <1>5, <1>6, <1>7, <1>8, <1>9, <1>10,
     <1>11, <1>12, <1>13, <1>14, <1>15, <1>16, <1>17, <1>18, <1>19, <1>20
  DEF Next, Library, Goes

\* A connected client never has an eviction pending (sendspin_server.py:1607), however requests overlap.
THEOREM NoEvictionIsPending == Spec => []NoEvictionPending
<1>1. Init => OneSession /\ Evictions
  BY DEF Init, OneSession, Evictions, InSession, Connected
<1>2. TypeOK /\ OneSession /\ Evictions /\ [Next]_vars => (OneSession /\ Evictions)'
  BY EvictionStep
<1>3. Evictions => NoEvictionPending
  BY DEF Evictions, NoEvictionPending
<1> QED
  BY <1>1, <1>2, <1>3, TypeCorrect, PTL DEF Spec

-----------------------------------------------------------------------------
(* Requests that do not overlap.                                           *)

\* A speaker in one of our groups has its URL registered, and a request is at a label of its own.
LEMMA KnownStep == ASSUME TypeOK, GroupedIsKnown, Labels, [Next]_vars PROVE (GroupedIsKnown /\ Labels)'
<1> USE DiallingAssumption DEF Request
<1>1. ASSUME NEW t \in Task, Connects(t) PROVE (GroupedIsKnown /\ Labels)'
  BY <1>1 DEF Connects, GroupedIsKnown, Labels, requestVars
<1>2. ASSUME NEW t \in Task, ConnectFails(t) PROVE (GroupedIsKnown /\ Labels)'
  BY <1>2 DEF ConnectFails, GroupedIsKnown, Labels, requestVars
<1>3. ASSUME NEW t \in Task, SessionBreaks(t) PROVE (GroupedIsKnown /\ Labels)'
  BY <1>3 DEF SessionBreaks, GroupedIsKnown, Labels, requestVars
<1>4. ASSUME NEW t \in Task, Redials(t) PROVE (GroupedIsKnown /\ Labels)'
  BY <1>4 DEF Redials, GroupedIsKnown, Labels, requestVars
<1>5. ASSUME NEW t \in Task, TakenAway(t) PROVE (GroupedIsKnown /\ Labels)'
  BY <1>5 DEF TakenAway, GroupedIsKnown, Labels, requestVars
<1>6. ASSUME EvictionDue PROVE (GroupedIsKnown /\ Labels)'
  BY <1>6 DEF EvictionDue, GroupedIsKnown, Labels, requestVars
<1>7. ASSUME NEW c \in Caller, AdoptHeld(c) PROVE (GroupedIsKnown /\ Labels)'
  BY <1>7 DEF AdoptHeld, AttachPlayer, GroupedIsKnown, Labels, requestVars
<1>8. ASSUME NEW c \in Caller, Adopt(c) PROVE (GroupedIsKnown /\ Labels)'
  BY <1>8 DEF Adopt, Begins, StopDialing, Cancelled, TypeOK, GroupedIsKnown, Labels
<1>9. ASSUME NEW c \in Caller, Reclaim(c) PROVE (GroupedIsKnown /\ Labels)'
  BY <1>9 DEF Reclaim, Begins, GroupedIsKnown, Labels
<1>10. ASSUME NEW c \in Caller, Release(c) PROVE (GroupedIsKnown /\ Labels)'
  BY <1>10 DEF Release, Begins, TypeOK, GroupedIsKnown, Labels
<1>11. ASSUME NEW c \in Caller, LetGo(c) PROVE (GroupedIsKnown /\ Labels)'
  BY <1>11 DEF LetGo, Begins, StopDialing, Cancelled, TypeOK, GroupedIsKnown, Labels
<1>12. ASSUME NEW c \in Caller, CancelAgain(c) PROVE (GroupedIsKnown /\ Labels)'
  BY <1>12 DEF CancelAgain, Cancelled, GroupedIsKnown, Labels, requestVars
<1>13. ASSUME NEW c \in Caller, Stopped(c) PROVE (GroupedIsKnown /\ Labels)'
  BY <1>13 DEF Stopped, GoesOn, TypeOK, GroupedIsKnown, Labels
<1>14. ASSUME NEW c \in Caller, Lands(c) PROVE (GroupedIsKnown /\ Labels)'
  BY <1>14 DEF Lands, AttachPlayer, Finishes, GroupedIsKnown, Labels
<1>15. ASSUME NEW c \in Caller, GivesUp(c) PROVE (GroupedIsKnown /\ Labels)'
  BY <1>15 DEF GivesUp, Finishes, GroupedIsKnown, Labels
<1>16. ASSUME NEW c \in Caller, Detached(c) PROVE (GroupedIsKnown /\ Labels)'
  BY <1>16 DEF Detached, StopDialing, Cancelled, TypeOK, GroupedIsKnown, Labels
<1>17. ASSUME NEW c \in Caller, HangUp(c) PROVE (GroupedIsKnown /\ Labels)'
  BY <1>17 DEF HangUp, GroupedIsKnown, Labels
<1>18. ASSUME NEW c \in Caller, Forget(c) PROVE (GroupedIsKnown /\ Labels)'
  BY <1>18 DEF Forget, Finishes, TypeOK, GroupedIsKnown, Labels
<1>19. ASSUME NEW c \in Caller, LetGoEnds(c) PROVE (GroupedIsKnown /\ Labels)'
  BY <1>19 DEF LetGoEnds, Finishes, Cancelled, TypeOK, GroupedIsKnown, Labels
<1>20. CASE UNCHANGED vars
  BY <1>20 DEF vars, libraryVars, requestVars, GroupedIsKnown, Labels
<1> QED
  BY <1>1, <1>2, <1>3, <1>4, <1>5, <1>6, <1>7, <1>8, <1>9, <1>10,
     <1>11, <1>12, <1>13, <1>14, <1>15, <1>16, <1>17, <1>18, <1>19, <1>20
  DEF Next, Library, Goes

\* One request at a time, unless a second has been excused.
LEMMA AloneStep ==
  ASSUME TypeOK, OneSession, GroupedIsKnown, Labels, ~excused => Orderly, ~excused', [Next]_vars
  PROVE Alone'
<1> USE DiallingAssumption DEF Request
<1>1. ASSUME NEW t \in Task, Connects(t) PROVE Alone'
  BY <1>1 DEF Connects, Orderly, Alone, Busy, requestVars
<1>2. ASSUME NEW t \in Task, ConnectFails(t) PROVE Alone'
  BY <1>2 DEF ConnectFails, Orderly, Alone, Busy, requestVars
<1>3. ASSUME NEW t \in Task, SessionBreaks(t) PROVE Alone'
  BY <1>3 DEF SessionBreaks, Orderly, Alone, Busy, requestVars
<1>4. ASSUME NEW t \in Task, Redials(t) PROVE Alone'
  BY <1>4 DEF Redials, Orderly, Alone, Busy, requestVars
<1>5. ASSUME NEW t \in Task, TakenAway(t) PROVE Alone'
  BY <1>5 DEF TakenAway, Orderly, Alone, Busy, requestVars
<1>6. ASSUME EvictionDue PROVE Alone'
  BY <1>6 DEF EvictionDue, Orderly, Alone, Busy, requestVars
<1>7. ASSUME NEW c \in Caller, AdoptHeld(c) PROVE Alone'
  BY <1>7 DEF AdoptHeld, AttachPlayer, Alone, Busy, requestVars
<1>8. ASSUME NEW c \in Caller, Adopt(c) PROVE Alone'
  <2>1. \A o \in Caller : pc[o] = "idle"
    BY <1>8 DEF Adopt, Begins
  <2>2. \A o \in Caller : o # c => pc'[o] = pc[o]
    BY <1>8 DEF Adopt, StopDialing, TypeOK
  <2> QED
    BY <2>1, <2>2 DEF Alone, Busy
<1>9. ASSUME NEW c \in Caller, Reclaim(c) PROVE Alone'
  BY <1>9 DEF Reclaim, Begins, TypeOK, Alone, Busy
<1>10. ASSUME NEW c \in Caller, Release(c) PROVE Alone'
  BY <1>10 DEF Release, Begins, TypeOK, Alone, Busy
<1>11. ASSUME NEW c \in Caller, LetGo(c) PROVE Alone'
  <2>1. \A o \in Caller : pc[o] = "idle"
    BY <1>11 DEF LetGo, Begins
  <2>2. \A o \in Caller : o # c => pc'[o] = pc[o]
    BY <1>11 DEF LetGo, StopDialing, TypeOK
  <2> QED
    BY <2>1, <2>2 DEF Alone, Busy
<1>12. ASSUME NEW c \in Caller, CancelAgain(c) PROVE Alone'
  BY <1>12 DEF CancelAgain, Cancelled, Orderly, Alone, Busy, requestVars
<1>13. ASSUME NEW c \in Caller, Stopped(c) PROVE Alone'
  BY <1>13 DEF Stopped, GoesOn, TypeOK, Orderly, Alone, Busy
<1>14. ASSUME NEW c \in Caller, Lands(c) PROVE Alone'
  BY <1>14 DEF Lands, AttachPlayer, Finishes, Orderly, Alone, Busy
<1>15. ASSUME NEW c \in Caller, GivesUp(c) PROVE Alone'
  BY <1>15 DEF GivesUp, Finishes, Orderly, Alone, Busy
<1>16. ASSUME NEW c \in Caller, Detached(c) PROVE Alone'
  BY <1>16 DEF Detached, StopDialing, Cancelled, TypeOK, Orderly, Alone, Busy
<1>17. ASSUME NEW c \in Caller, HangUp(c) PROVE Alone'
  BY <1>17 DEF HangUp, Orderly, Alone, Busy
<1>18. ASSUME NEW c \in Caller, Forget(c) PROVE Alone'
  BY <1>18 DEF Forget, Finishes, Orderly, Alone, Busy
<1>19. ASSUME NEW c \in Caller, LetGoEnds(c) PROVE Alone'
  BY <1>19 DEF LetGoEnds, Finishes, Cancelled, Orderly, Alone, Busy
<1>20. CASE UNCHANGED vars
  BY <1>20 DEF vars, libraryVars, requestVars, Orderly, Alone, Busy
<1> QED
  BY <1>1, <1>2, <1>3, <1>4, <1>5, <1>6, <1>7, <1>8, <1>9, <1>10,
     <1>11, <1>12, <1>13, <1>14, <1>15, <1>16, <1>17, <1>18, <1>19, <1>20
  DEF Next, Library, Goes

\* A dial is registered or about to be ended by the request that waits for it.
LEMMA TrackedStep ==
  ASSUME TypeOK, OneSession, GroupedIsKnown, Labels, ~excused => Orderly, ~excused', [Next]_vars
  PROVE Tracked'
<1> USE DiallingAssumption DEF Request
<1>1. ASSUME NEW t \in Task, Connects(t) PROVE Tracked'
  BY <1>1 DEF Connects, Orderly, Tracked, Running, InSession, requestVars
<1>2. ASSUME NEW t \in Task, ConnectFails(t) PROVE Tracked'
  BY <1>2 DEF ConnectFails, Orderly, Tracked, Running, requestVars
<1>3. ASSUME NEW t \in Task, SessionBreaks(t) PROVE Tracked'
  BY <1>3 DEF SessionBreaks, Orderly, Tracked, Running, requestVars
<1>4. ASSUME NEW t \in Task, Redials(t) PROVE Tracked'
  BY <1>4 DEF Redials, Orderly, Tracked, Running, requestVars
<1>5. ASSUME NEW t \in Task, TakenAway(t) PROVE Tracked'
  BY <1>5 DEF TakenAway, TypeOK, Orderly, Tracked, Stopping, Running, requestVars
<1>6. ASSUME EvictionDue PROVE Tracked'
  BY <1>6 DEF EvictionDue, Orderly, Tracked, Running, requestVars
<1>7. ASSUME NEW c \in Caller, AdoptHeld(c) PROVE Tracked'
  BY <1>7 DEF AdoptHeld, AttachPlayer, Orderly, Tracked, Running, requestVars
<1>8. ASSUME NEW c \in Caller, Adopt(c) PROVE Tracked'
  BY <1>8 DEF Adopt, Begins, ConnectToClient, StopDialing, Cancelled, TypeOK, Orderly, Tracked, Running
<1>9. ASSUME NEW c \in Caller, Reclaim(c) PROVE Tracked'
  BY <1>9 DEF Reclaim, Begins, ConnectToClient, TypeOK, Orderly, Tracked, Running
<1>10. ASSUME NEW c \in Caller, Release(c) PROVE Tracked'
  BY <1>10 DEF Release, Begins, Orderly, Tracked, Running, libraryVars
<1>11. ASSUME NEW c \in Caller, LetGo(c) PROVE Tracked'
  BY <1>11 DEF LetGo, Begins, StopDialing, Cancelled, TypeOK, Orderly, Tracked, Running, libraryVars
<1>12. ASSUME NEW c \in Caller, CancelAgain(c) PROVE Tracked'
  BY <1>12 DEF CancelAgain, Cancelled, TypeOK, Orderly, Tracked, Stopping, Running, requestVars
<1>13. ASSUME NEW c \in Caller, Stopped(c) PROVE Tracked'
  <2>1. ~Running(old[c]) /\ ~excused
    BY <1>13 DEF Stopped
  <2>2. registered = None /\ \A d \in Caller : d # c => old[d] = None
    BY <1>13, <2>1 DEF Stopped, Orderly, Alone, Busy, Stopping, TypeOK, Label
  <2>3. \A t \in Task : ~Running(t)
    BY <2>1, <2>2 DEF Orderly, Tracked
  <2>4. CASE asked[c] = "adopt"
    BY <1>13, <2>2, <2>3, <2>4 DEF Stopped, GoesOn, ConnectToClient, Unused, Tracked, Running, TypeOK
  <2>5. CASE asked[c] # "adopt"
    BY <1>13, <2>3, <2>5 DEF Stopped, GoesOn, Tracked, Running
  <2> QED
    BY <2>4, <2>5
<1>14. ASSUME NEW c \in Caller, Lands(c) PROVE Tracked'
  BY <1>14 DEF Lands, AttachPlayer, Finishes, Orderly, Tracked, Running
<1>15. ASSUME NEW c \in Caller, GivesUp(c) PROVE Tracked'
  BY <1>15 DEF GivesUp, Finishes, Orderly, Tracked, Running, libraryVars
<1>16. ASSUME NEW c \in Caller, Detached(c) PROVE Tracked'
  BY <1>16 DEF Detached, StopDialing, Cancelled, TypeOK, Orderly, Tracked, Running, libraryVars
<1>17. ASSUME NEW c \in Caller, HangUp(c) PROVE Tracked'
  BY <1>17 DEF HangUp, Orderly, Tracked, Hung, Running
<1>18. ASSUME NEW c \in Caller, Forget(c) PROVE Tracked'
  BY <1>18 DEF Forget, Finishes, Orderly, Tracked, Running
<1>19. ASSUME NEW c \in Caller, LetGoEnds(c) PROVE Tracked'
  BY <1>19 DEF LetGoEnds, Finishes, Cancelled, Orderly, Tracked, Hung, Running
<1>20. CASE UNCHANGED vars
  BY <1>20 DEF vars, libraryVars, requestVars, Orderly, Tracked, Running
<1> QED
  BY <1>1, <1>2, <1>3, <1>4, <1>5, <1>6, <1>7, <1>8, <1>9, <1>10,
     <1>11, <1>12, <1>13, <1>14, <1>15, <1>16, <1>17, <1>18, <1>19, <1>20
  DEF Next, Library, Goes

\* Nothing is dialled while a request waits for a dial to end, nor after it did.
LEMMA StoppingStep ==
  ASSUME TypeOK, OneSession, GroupedIsKnown, Labels, ~excused => Orderly, ~excused', [Next]_vars
  PROVE (Stopping /\ Hung)'
<1> USE DiallingAssumption DEF Request
<1>1. ASSUME NEW t \in Task, Connects(t) PROVE (Stopping /\ Hung)'
  BY <1>1 DEF Connects, Orderly, Stopping, Hung, requestVars
<1>2. ASSUME NEW t \in Task, ConnectFails(t) PROVE (Stopping /\ Hung)'
  BY <1>2 DEF ConnectFails, Orderly, Stopping, Hung, requestVars
<1>3. ASSUME NEW t \in Task, SessionBreaks(t) PROVE (Stopping /\ Hung)'
  BY <1>3 DEF SessionBreaks, Orderly, Stopping, Hung, requestVars
<1>4. ASSUME NEW t \in Task, Redials(t) PROVE (Stopping /\ Hung)'
  BY <1>4 DEF Redials, Orderly, Stopping, Hung, requestVars
<1>5. ASSUME NEW t \in Task, TakenAway(t) PROVE (Stopping /\ Hung)'
  BY <1>5 DEF TakenAway, Stopping, Hung
<1>6. ASSUME EvictionDue PROVE (Stopping /\ Hung)'
  BY <1>6 DEF EvictionDue, Orderly, Stopping, Hung, requestVars
<1>7. ASSUME NEW c \in Caller, AdoptHeld(c) PROVE (Stopping /\ Hung)'
  BY <1>7 DEF AdoptHeld, AttachPlayer, Stopping, Hung, requestVars
<1>8. ASSUME NEW c \in Caller, Adopt(c) PROVE (Stopping /\ Hung)'
  <2>1. \A o \in Caller : pc[o] = "idle"
    BY <1>8 DEF Adopt, Begins
  <2>2. \/ pc' = [pc EXCEPT ![c] = "waiting"]
        \/ pc' = [pc EXCEPT ![c] = "stopping"] /\ registered' = None
    BY <1>8 DEF Adopt, StopDialing
  <2> QED
    BY <2>1, <2>2 DEF Stopping, Hung, TypeOK, Label
<1>9. ASSUME NEW c \in Caller, Reclaim(c) PROVE (Stopping /\ Hung)'
  <2>1. \A o \in Caller : pc[o] = "idle"
    BY <1>9 DEF Reclaim, Begins
  <2>2. pc' = [pc EXCEPT ![c] = "waiting"]
    BY <1>9 DEF Reclaim
  <2> QED
    BY <2>1, <2>2 DEF Stopping, Hung, TypeOK, Label
<1>10. ASSUME NEW c \in Caller, Release(c) PROVE (Stopping /\ Hung)'
  BY <1>10 DEF Release, Begins, TypeOK, Stopping, Hung
<1>11. ASSUME NEW c \in Caller, LetGo(c) PROVE (Stopping /\ Hung)'
  BY <1>11 DEF LetGo, Begins, StopDialing, Cancelled, Stopping, Hung, libraryVars
<1>12. ASSUME NEW c \in Caller, CancelAgain(c) PROVE (Stopping /\ Hung)'
  BY <1>12 DEF CancelAgain, Cancelled, Orderly, Stopping, Hung
<1>13. ASSUME NEW c \in Caller, Stopped(c) PROVE (Stopping /\ Hung)'
  BY <1>13 DEF Stopped, GoesOn, TypeOK, Orderly, Alone, Busy, Stopping, Hung
<1>14. ASSUME NEW c \in Caller, Lands(c) PROVE (Stopping /\ Hung)'
  BY <1>14 DEF Lands, AttachPlayer, Finishes, Orderly, Stopping, Hung
<1>15. ASSUME NEW c \in Caller, GivesUp(c) PROVE (Stopping /\ Hung)'
  BY <1>15 DEF GivesUp, Finishes, Orderly, Stopping, Hung, libraryVars
<1>16. ASSUME NEW c \in Caller, Detached(c) PROVE (Stopping /\ Hung)'
  BY <1>16 DEF Detached, StopDialing, Cancelled, Stopping, Hung, libraryVars
<1>17. ASSUME NEW c \in Caller, HangUp(c) PROVE (Stopping /\ Hung)'
  BY <1>17 DEF HangUp, Stopping, Hung
<1>18. ASSUME NEW c \in Caller, Forget(c) PROVE (Stopping /\ Hung)'
  BY <1>18 DEF Forget, Finishes, Orderly, Stopping, Hung
<1>19. ASSUME NEW c \in Caller, LetGoEnds(c) PROVE (Stopping /\ Hung)'
  BY <1>19 DEF LetGoEnds, Finishes, Cancelled, Stopping, Hung
<1>20. CASE UNCHANGED vars
  BY <1>20 DEF vars, libraryVars, requestVars, Orderly, Stopping, Hung
<1> QED
  BY <1>1, <1>2, <1>3, <1>4, <1>5, <1>6, <1>7, <1>8, <1>9, <1>10,
     <1>11, <1>12, <1>13, <1>14, <1>15, <1>16, <1>17, <1>18, <1>19, <1>20
  DEF Next, Library, Goes

\* A speaker that is let go of is in none of our groups, from the request on.
LEMMA ApartStep ==
  ASSUME TypeOK, OneSession, GroupedIsKnown, Labels, ~excused => Orderly, ~excused', [Next]_vars
  PROVE Apart'
<1> USE DiallingAssumption DEF Request
<1>1. ASSUME NEW t \in Task, Connects(t) PROVE Apart'
  BY <1>1 DEF Connects, Orderly, Busy, Apart, requestVars
<1>2. ASSUME NEW t \in Task, ConnectFails(t) PROVE Apart'
  BY <1>2 DEF ConnectFails, Orderly, Busy, Apart, requestVars
<1>3. ASSUME NEW t \in Task, SessionBreaks(t) PROVE Apart'
  BY <1>3 DEF SessionBreaks, Orderly, Busy, Apart, requestVars
<1>4. ASSUME NEW t \in Task, Redials(t) PROVE Apart'
  BY <1>4 DEF Redials, Orderly, Busy, Apart, requestVars
<1>5. ASSUME NEW t \in Task, TakenAway(t) PROVE Apart'
  BY <1>5 DEF TakenAway, Orderly, Busy, Apart, requestVars
<1>6. ASSUME EvictionDue PROVE Apart'
  BY <1>6 DEF EvictionDue, Apart
<1>7. ASSUME NEW c \in Caller, AdoptHeld(c) PROVE Apart'
  BY <1>7 DEF AdoptHeld, AttachPlayer, Busy, Apart, requestVars
<1>8. ASSUME NEW c \in Caller, Adopt(c) PROVE Apart'
  BY <1>8 DEF Adopt, Begins, StopDialing, Cancelled, TypeOK, Apart
<1>9. ASSUME NEW c \in Caller, Reclaim(c) PROVE Apart'
  BY <1>9 DEF Reclaim, Begins, TypeOK, Apart
<1>10. ASSUME NEW c \in Caller, Release(c) PROVE Apart'
  BY <1>10 DEF Release, Begins, Apart
<1>11. ASSUME NEW c \in Caller, LetGo(c) PROVE Apart'
  BY <1>11 DEF LetGo, Begins, StopDialing, Cancelled, Apart
<1>12. ASSUME NEW c \in Caller, CancelAgain(c) PROVE Apart'
  BY <1>12 DEF CancelAgain, Cancelled, Orderly, Busy, Apart, requestVars
<1>13. ASSUME NEW c \in Caller, Stopped(c) PROVE Apart'
  BY <1>13 DEF Stopped, GoesOn, TypeOK, Orderly, Busy, Apart
<1>14. ASSUME NEW c \in Caller, Lands(c) PROVE Apart'
  BY <1>14 DEF Lands, AttachPlayer, Finishes, TypeOK, Orderly, Alone, Busy, Apart
<1>15. ASSUME NEW c \in Caller, GivesUp(c) PROVE Apart'
  BY <1>15 DEF GivesUp, Finishes, Orderly, Busy, Apart
<1>16. ASSUME NEW c \in Caller, Detached(c) PROVE Apart'
  BY <1>16 DEF Detached, StopDialing, Cancelled, TypeOK, Orderly, Busy, Apart
<1>17. ASSUME NEW c \in Caller, HangUp(c) PROVE Apart'
  BY <1>17 DEF HangUp, Orderly, Busy, Apart
<1>18. ASSUME NEW c \in Caller, Forget(c) PROVE Apart'
  BY <1>18 DEF Forget, Finishes, Apart
<1>19. ASSUME NEW c \in Caller, LetGoEnds(c) PROVE Apart'
  BY <1>19 DEF LetGoEnds, Finishes, Cancelled, Orderly, Busy, Apart
<1>20. CASE UNCHANGED vars
  BY <1>20 DEF vars, libraryVars, requestVars, Orderly, Busy, Apart
<1> QED
  BY <1>1, <1>2, <1>3, <1>4, <1>5, <1>6, <1>7, <1>8, <1>9, <1>10,
     <1>11, <1>12, <1>13, <1>14, <1>15, <1>16, <1>17, <1>18, <1>19, <1>20
  DEF Next, Library, Goes

\* The dial that is stopped does not feed a speaker in a group.
LEMMA SparedStep ==
  ASSUME TypeOK, OneSession, GroupedIsKnown, Labels, ~excused => Orderly, ~excused', [Next]_vars
  PROVE Spared'
<1> USE DiallingAssumption DEF Request
<1>1. ASSUME NEW t \in Task, Connects(t) PROVE Spared'
  BY <1>1 DEF Connects, TypeOK, Orderly, Spared, Tracked, Running, GroupedIsKnown, Stopping, requestVars
<1>2. ASSUME NEW t \in Task, ConnectFails(t) PROVE Spared'
  BY <1>2 DEF ConnectFails, Orderly, Spared, GroupedIsKnown, requestVars
<1>3. ASSUME NEW t \in Task, SessionBreaks(t) PROVE Spared'
  BY <1>3 DEF SessionBreaks, Orderly, Spared, GroupedIsKnown, requestVars
<1>4. ASSUME NEW t \in Task, Redials(t) PROVE Spared'
  BY <1>4 DEF Redials, Orderly, Spared, GroupedIsKnown, requestVars
<1>5. ASSUME NEW t \in Task, TakenAway(t) PROVE Spared'
  BY <1>5 DEF TakenAway, Orderly, Spared, GroupedIsKnown, requestVars
<1>6. ASSUME EvictionDue PROVE Spared'
  BY <1>6 DEF EvictionDue, Spared, GroupedIsKnown
<1>7. ASSUME NEW c \in Caller, AdoptHeld(c) PROVE Spared'
  BY <1>7 DEF AdoptHeld, AttachPlayer, Spared, GroupedIsKnown, requestVars
<1>8. ASSUME NEW c \in Caller, Adopt(c) PROVE Spared'
  BY <1>8 DEF Adopt, Begins, StopDialing, Cancelled, TypeOK, Spared, InSession, Connected, GroupedIsKnown
<1>9. ASSUME NEW c \in Caller, Reclaim(c) PROVE Spared'
  BY <1>9 DEF Reclaim, Begins, TypeOK, Spared, GroupedIsKnown
<1>10. ASSUME NEW c \in Caller, Release(c) PROVE Spared'
  BY <1>10 DEF Release, Begins, Spared, GroupedIsKnown
<1>11. ASSUME NEW c \in Caller, LetGo(c) PROVE Spared'
  BY <1>11 DEF LetGo, Begins, StopDialing, Cancelled, Spared, GroupedIsKnown
<1>12. ASSUME NEW c \in Caller, CancelAgain(c) PROVE Spared'
  BY <1>12 DEF CancelAgain, Cancelled, Orderly, Spared, GroupedIsKnown
<1>13. ASSUME NEW c \in Caller, Stopped(c) PROVE Spared'
  BY <1>13 DEF Stopped, GoesOn, ConnectToClient, Unused, TypeOK, Orderly, Spared, GroupedIsKnown
<1>14. ASSUME NEW c \in Caller, Lands(c) PROVE Spared'
  BY <1>14 DEF Lands, AttachPlayer, Finishes, Orderly, Alone, Busy, Spared, GroupedIsKnown
<1>15. ASSUME NEW c \in Caller, GivesUp(c) PROVE Spared'
  BY <1>15 DEF GivesUp, Finishes, Orderly, Spared, GroupedIsKnown, libraryVars
<1>16. ASSUME NEW c \in Caller, Detached(c) PROVE Spared'
  <2>1. ~grouped /\ grouped' = grouped
    BY <1>16 DEF Detached, Orderly, Apart, Busy, Labels
  <2> QED
    BY <2>1 DEF Spared
<1>17. ASSUME NEW c \in Caller, HangUp(c) PROVE Spared'
  BY <1>17 DEF HangUp, Orderly, Alone, Busy, Spared, GroupedIsKnown
<1>18. ASSUME NEW c \in Caller, Forget(c) PROVE Spared'
  BY <1>18 DEF Forget, Finishes, Spared, GroupedIsKnown
<1>19. ASSUME NEW c \in Caller, LetGoEnds(c) PROVE Spared'
  BY <1>19 DEF LetGoEnds, Finishes, Cancelled, Orderly, Alone, Busy, Spared, GroupedIsKnown
<1>20. CASE UNCHANGED vars
  BY <1>20 DEF vars, libraryVars, requestVars, Orderly, Spared, GroupedIsKnown
<1> QED
  BY <1>1, <1>2, <1>3, <1>4, <1>5, <1>6, <1>7, <1>8, <1>9, <1>10,
     <1>11, <1>12, <1>13, <1>14, <1>15, <1>16, <1>17, <1>18, <1>19, <1>20
  DEF Next, Library, Goes

\* What was let go of stays so until the next request.
LEMMA FreedStep ==
  ASSUME TypeOK, OneSession, GroupedIsKnown, Labels, ~excused => Orderly, ~excused', [Next]_vars
  PROVE Freed'
<1> USE DiallingAssumption DEF Request
<1>1. ASSUME NEW t \in Task, Connects(t) PROVE Freed'
  BY <1>1 DEF Connects, Orderly, Busy, Freed, requestVars
<1>2. ASSUME NEW t \in Task, ConnectFails(t) PROVE Freed'
  BY <1>2 DEF ConnectFails, Orderly, Busy, Freed, requestVars
<1>3. ASSUME NEW t \in Task, SessionBreaks(t) PROVE Freed'
  BY <1>3 DEF SessionBreaks, Orderly, Busy, Freed, requestVars
<1>4. ASSUME NEW t \in Task, Redials(t) PROVE Freed'
  BY <1>4 DEF Redials, Orderly, Busy, Freed, requestVars
<1>5. ASSUME NEW t \in Task, TakenAway(t) PROVE Freed'
  BY <1>5 DEF TakenAway, Orderly, Busy, Freed, requestVars
<1>6. ASSUME EvictionDue PROVE Freed'
  BY <1>6 DEF EvictionDue, Orderly, Busy, Freed, requestVars
<1>7. ASSUME NEW c \in Caller, AdoptHeld(c) PROVE Freed'
  BY <1>7 DEF AdoptHeld, AttachPlayer, Freed
<1>8. ASSUME NEW c \in Caller, Adopt(c) PROVE Freed'
  BY <1>8 DEF Adopt, Begins, StopDialing, Cancelled, Freed
<1>9. ASSUME NEW c \in Caller, Reclaim(c) PROVE Freed'
  BY <1>9 DEF Reclaim, Begins, Freed
<1>10. ASSUME NEW c \in Caller, Release(c) PROVE Freed'
  BY <1>10 DEF Release, Begins, Freed
<1>11. ASSUME NEW c \in Caller, LetGo(c) PROVE Freed'
  BY <1>11 DEF LetGo, Begins, StopDialing, Cancelled, Freed
<1>12. ASSUME NEW c \in Caller, CancelAgain(c) PROVE Freed'
  BY <1>12 DEF CancelAgain, Cancelled, Orderly, Busy, Freed
<1>13. ASSUME NEW c \in Caller, Stopped(c) PROVE Freed'
  BY <1>13 DEF Stopped, GoesOn, Orderly, Busy, Freed
<1>14. ASSUME NEW c \in Caller, Lands(c) PROVE Freed'
  BY <1>14 DEF Lands, AttachPlayer, Finishes, Freed
<1>15. ASSUME NEW c \in Caller, GivesUp(c) PROVE Freed'
  BY <1>15 DEF GivesUp, Finishes, Freed
<1>16. ASSUME NEW c \in Caller, Detached(c) PROVE Freed'
  BY <1>16 DEF Detached, StopDialing, Cancelled, Orderly, Busy, Freed
<1>17. ASSUME NEW c \in Caller, HangUp(c) PROVE Freed'
  BY <1>17 DEF HangUp, Orderly, Busy, Freed
<1>18. ASSUME NEW c \in Caller, Forget(c) PROVE Freed'
  BY <1>18 DEF Forget, Finishes, TypeOK, Orderly, Alone, Busy, Freed, Hung
<1>19. ASSUME NEW c \in Caller, LetGoEnds(c) PROVE Freed'
  BY <1>19 DEF LetGoEnds, Finishes, Cancelled, TypeOK, Orderly, Alone, Busy, Freed, Apart
<1>20. CASE UNCHANGED vars
  BY <1>20 DEF vars, libraryVars, requestVars, Orderly, Busy, Freed
<1> QED
  BY <1>1, <1>2, <1>3, <1>4, <1>5, <1>6, <1>7, <1>8, <1>9, <1>10,
     <1>11, <1>12, <1>13, <1>14, <1>15, <1>16, <1>17, <1>18, <1>19, <1>20
  DEF Next, Library, Goes

\* Everything above together: the strengthening that the theorems below follow from.
Strengthening == OneSession /\ GroupedIsKnown /\ Labels /\ (~excused => Orderly)

LEMMA StrengtheningHolds == Spec => [](TypeOK /\ Strengthening)
<1>1. Init => Strengthening
  BY DiallingAssumption DEF Init, Strengthening, OneSession, InSession, GroupedIsKnown, Labels, Orderly,
        Alone, Busy, Tracked, Running, Stopping, Hung, Apart, Spared, Freed, Request
<1>2. TypeOK /\ OneSession /\ Evictions /\ Strengthening /\ [Next]_vars => Strengthening'
  <2> SUFFICES ASSUME TypeOK, OneSession, Evictions, Strengthening, [Next]_vars PROVE Strengthening'
    OBVIOUS
  <2>1. OneSession' /\ (GroupedIsKnown /\ Labels)'
    BY EvictionStep, KnownStep DEF Strengthening
  <2>2. ASSUME ~excused' PROVE Orderly'
    BY <2>2, AloneStep, TrackedStep, StoppingStep, ApartStep, SparedStep, FreedStep DEF Strengthening, Orderly
  <2> QED
    BY <2>1, <2>2 DEF Strengthening
<1>3. Init => OneSession /\ Evictions
  BY DEF Init, OneSession, Evictions, InSession, Connected
<1>4. TypeOK /\ OneSession /\ Evictions /\ [Next]_vars => (OneSession /\ Evictions)'
  BY EvictionStep
<1> QED
  BY <1>1, <1>2, <1>3, <1>4, TypeCorrect, PTL DEF Spec

\* One dialler per speaker while requests do not overlap (sendspin_server.py:1622-1660).
THEOREM OneDialOnly == Spec => []OneDial
<1>1. TypeOK /\ Strengthening => OneDial
  BY DiallingAssumption DEF TypeOK, Strengthening, Orderly, Alone, Busy, Tracked, Stopping, Running, OneDial
<1> QED
  BY <1>1, StrengtheningHolds, PTL

\* Nobody dials behind the registry's back (sendspin_server.py:1539).
THEOREM DialIsAlwaysKnown == Spec => []DialIsKnown
<1>1. Strengthening => DialIsKnown
  BY DEF Strengthening, Orderly, Tracked, DialIsKnown
<1> QED
  BY <1>1, StrengtheningHolds, PTL

\* What was released is dialled by nobody and is in none of our groups (sendspin_server.py:1662-1701).
THEOREM ReleaseAlwaysSticks == Spec => []ReleaseSticks
<1>1. TypeOK /\ Strengthening => ReleaseSticks
  BY DiallingAssumption DEF TypeOK, Strengthening, Orderly, Freed, Busy, Tracked, Running, ReleaseSticks
<1> QED
  BY <1>1, StrengtheningHolds, PTL

\* A redial never tears down the session of a speaker that plays (sendspin_server.py:1523-1531).
THEOREM PlayingIsNeverCut == Spec => []PlayingIsNotCut
<1>1. TypeOK /\ Strengthening => PlayingIsNotCut
  BY DEF TypeOK, Strengthening, Orderly, Spared, PlayingIsNotCut
<1> QED
  BY <1>1, StrengtheningHolds, PTL
=============================================================================
