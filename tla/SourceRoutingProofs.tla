------------------------- MODULE SourceRoutingProofs -------------------------
(***************************************************************************)
(* The lock discipline of a membership change, and who hears a source, for *)
(* any number of sources, players and concurrent requests.                 *)
(***************************************************************************)
EXTENDS SourceRouting, TLAPS

USE RoutingAssumption

-----------------------------------------------------------------------------
(* Type correctness, one group of variables at a time.                     *)

PcType ==
    /\ pc \in [Source \cup Caller -> FeederLabel \cup CallerLabel]
    /\ \A s \in Source : pc[s] \in FeederLabel
    /\ \A c \in Caller : pc[c] \in CallerLabel

JobType ==
    /\ job \in [Caller -> Job \cup {None}]
    /\ \A c \in Caller : job[c] = None <=> pc[c] = "idle"

LibraryType ==
    /\ group \in [Player -> Source \cup {Solo}]
    /\ live \in [Source -> BOOLEAN]
    /\ roster \in [Source -> SUBSET Player]
    /\ announced \in [Source -> {"stopped", "playing"}]

FeederType ==
    /\ active \in [Source -> BOOLEAN]
    /\ ps \in [Source -> BOOLEAN]
    /\ eof \in [Source -> BOOLEAN]
    /\ lock \in [Source -> Source \cup Caller \cup {None}]
    /\ todo \in [Source -> SUBSET Player]

UnitType ==
    /\ sources \subseteq Source
    /\ primary \in Source \cup {None}
    /\ writer \in [Source -> WriterState]
    /\ connected \subseteq Player
    /\ cleanup \subseteq Player

LEMMA TypeParts == TypeOK <=> PcType /\ JobType /\ LibraryType /\ FeederType /\ UnitType
  BY DEF TypeOK, PcType, JobType, LibraryType, FeederType, UnitType

\* Two labels of one actor: a feeder's step moves no caller, a caller's step moves no feeder.
LEMMA FeederGoes ==
  ASSUME PcType, NEW s \in Source, NEW l \in FeederLabel, Goto(s, l)
  PROVE  /\ PcType'
         /\ \A t \in Source : pc'[t] = IF t = s THEN l ELSE pc[t]
         /\ \A c \in Caller : pc'[c] = pc[c]
  BY DEF PcType, Goto

LEMMA CallerGoes ==
  ASSUME PcType, NEW c \in Caller, NEW l \in CallerLabel, Goto(c, l)
  PROVE  /\ PcType'
         /\ \A d \in Caller : pc'[d] = IF d = c THEN l ELSE pc[d]
         /\ \A s \in Source : pc'[s] = pc[s]
  BY DEF PcType, Goto

LEMMA NewJob ==
  ASSUME NEW s \in Source, NEW p \in Player
  PROVE  LET j == [source |-> s, player |-> p, restream |-> FALSE]
         IN  j \in Job /\ j # None
<1> DEFINE j == [source |-> s, player |-> p, restream |-> FALSE]
<1>1. j \in Job
  BY DEF Job
<1>2. j # None
  <2> HIDE DEF j
  <2> QED BY <1>1 DEF RoutingAssumption
<1> QED BY <1>1, <1>2

LEMMA BeginGoes ==
  ASSUME PcType, JobType, NEW c \in Caller, NEW s \in Source, NEW p \in Player,
         NEW l \in {"attachLock", "detach"}, Begin(c, s, p, l)
  PROVE  /\ PcType' /\ JobType'
         /\ \A d \in Caller : pc'[d] = IF d = c THEN l ELSE pc[d]
         /\ \A d \in Caller \ {c} : job'[d] = job[d]
         /\ \A t \in Source : pc'[t] = pc[t]
<1> DEFINE j == [source |-> s, player |-> p, restream |-> FALSE]
<1>1. j \in Job /\ j # None
  BY NewJob
<1>2. job' = [job EXCEPT ![c] = j] /\ Goto(c, l)
  BY DEF Begin
<1>3. l \in CallerLabel \ {"idle"}
  BY DEF CallerLabel
<1>4. /\ PcType'
      /\ \A d \in Caller : pc'[d] = IF d = c THEN l ELSE pc[d]
      /\ \A t \in Source : pc'[t] = pc[t]
  BY <1>2, <1>3, CallerGoes
<1>5. JobType' /\ \A d \in Caller \ {c} : job'[d] = job[d]
  <2> HIDE DEF j
  <2> QED BY <1>1, <1>2, <1>3, <1>4 DEF JobType
<1> QED BY <1>4, <1>5

\* What a step of the feeder of s leaves alone, and where it can lead.
LEMMA FeederMoves ==
  ASSUME PcType, NEW s \in Source, Feeder(s)
  PROVE  /\ PcType'
         /\ \A t \in Source \ {s} : pc'[t] = pc[t]
         /\ \A c \in Caller : pc'[c] = pc[c]
         /\ UNCHANGED <<job, sources, primary, writer>>
<1>1. UNCHANGED <<job, sources, primary, writer>>
  BY DEF Feeder, WriterSeen, ReadChunk, ReadEof, ReadTimeout, PushChunk, CommitChunk,
         CommitError, RepushChunk, AlreadyIdle, GoIdle, IdleLock, DetachOne, DetachedAll,
         ReleaseCheck, ReleaseHangUp, Return
<1>2. \/ UNCHANGED pc
      \/ \E l \in FeederLabel : Goto(s, l)
  BY DEF Feeder, WriterSeen, ReadChunk, ReadEof, ReadTimeout, PushChunk, CommitChunk,
         CommitError, RepushChunk, AlreadyIdle, GoIdle, IdleLock, DetachOne, DetachedAll,
         ReleaseCheck, ReleaseHangUp, Return, AfterPush, FeederLabel
<1>3. CASE UNCHANGED pc
  BY <1>1, <1>3 DEF PcType
<1>4. CASE \E l \in FeederLabel : Goto(s, l)
  BY <1>1, <1>4, FeederGoes
<1> QED BY <1>2, <1>3, <1>4

\* The same for the continuation of a request.
LEMMA CallerMoves ==
  ASSUME PcType, JobType, NEW c \in Caller, Continue(c)
  PROVE  /\ PcType'
         /\ JobType'
         /\ \A d \in Caller \ {c} : pc'[d] = pc[d] /\ job'[d] = job[d]
         /\ \A s \in Source : pc'[s] = pc[s]
         /\ job[c] \in Job
         /\ UNCHANGED <<sources, writer>>
<1>0. pc[c] # "idle" /\ job[c] \in Job
  BY DEF Continue, EnterChange, ChangeRemove, ChangeAdd, LeaveChange, DetachRemove,
         ReleaseCheck, ReleaseHangUp, StopStream, JobType
<1>1. UNCHANGED <<sources, writer>>
  BY DEF Continue, EnterChange, ChangeRemove, ChangeAdd, LeaveChange, DetachRemove,
         ReleaseCheck, ReleaseHangUp, StopStream
<1>2. \/ \E l \in CallerLabel \ {"idle"} : Goto(c, l) /\ UNCHANGED job
      \/ Finish(c)
      \/ EnterChange(c)
  BY DEF Continue, ChangeRemove, ChangeAdd, LeaveChange, DetachRemove,
         ReleaseCheck, ReleaseHangUp, StopStream, Return, Finish, CallerLabel
<1>3. CASE \E l \in CallerLabel \ {"idle"} : Goto(c, l) /\ UNCHANGED job
  BY <1>0, <1>1, <1>3, CallerGoes DEF JobType
<1>4. CASE Finish(c)
  <2>1. "idle" \in CallerLabel
    BY DEF CallerLabel
  <2>2. Goto(c, "idle") /\ job' = [job EXCEPT ![c] = None]
    BY <1>4 DEF Finish
  <2> QED BY <1>0, <1>1, <2>1, <2>2, CallerGoes DEF JobType
<1>5. CASE EnterChange(c)
  <2> DEFINE s == job[c].source
             j == [job[c] EXCEPT !.restream = Streaming(s)]
  <2>1. Streaming(s) \in BOOLEAN
    BY DEF Streaming
  <2>2. j \in Job
    BY <1>0, <2>1 DEF Job
  <2>3. job' = [job EXCEPT ![c] = j] /\ Goto(c, "attachRemove")
    BY <1>5 DEF EnterChange
  <2>4. "attachRemove" \in CallerLabel \ {"idle"}
    BY DEF CallerLabel
  <2> HIDE DEF j
  <2> QED BY <1>0, <1>1, <2>2, <2>3, <2>4, CallerGoes DEF JobType
<1> QED BY <1>2, <1>3, <1>4, <1>5

\* The library's operations keep its state in range.
LEMMA AcquireType ==
  ASSUME LibraryType, ps \in [Source -> BOOLEAN], NEW s \in Source, AcquireStream(s), UNCHANGED group
  PROVE  LibraryType' /\ ps' \in [Source -> BOOLEAN]
  BY DEF LibraryType, AcquireStream, Members

LEMMA RemoveType ==
  ASSUME LibraryType, NEW p \in Player, RemoveClient(p)
  PROVE  LibraryType'
  BY DEF LibraryType, RemoveClient

LEMMA AddType ==
  ASSUME LibraryType, NEW s \in Source, NEW p \in Player, AddClient(s, p)
  PROVE  LibraryType'
  BY DEF LibraryType, AddClient, StopGroup

LEMMA StopTransportType ==
  ASSUME LibraryType, NEW s \in Source, StopTransport(s)
  PROVE  LibraryType'
  BY DEF LibraryType, StopTransport

LEMMA StopGroupType ==
  ASSUME LibraryType, NEW s \in Source, StopGroup(s), UNCHANGED group
  PROVE  LibraryType'
  BY DEF LibraryType, StopGroup

LEMMA DisconnectType ==
  ASSUME LibraryType, UnitType, NEW p \in Player, Disconnect(p)
  PROVE  LibraryType' /\ connected' \subseteq Player /\ cleanup' \subseteq Player
  BY DEF LibraryType, UnitType, Disconnect

LEMMA SameLibrary ==
  ASSUME LibraryType, UNCHANGED libraryVars
  PROVE  LibraryType'
  BY DEF LibraryType, libraryVars

\* A feeder's step keeps the rest of the state in range.
LEMMA FeederStepType ==
  ASSUME TypeOK, NEW s \in Source, Feeder(s)
  PROVE  TypeOK'
<1> USE TypeParts
<1>1. PcType' /\ JobType'
  BY FeederMoves DEF JobType
<1>2. CASE WriterSeen(s) \/ ReadChunk(s) \/ ReadEof(s) \/ ReadTimeout(s)
  <2>1. LibraryType' /\ UnitType'
    BY <1>2 DEF WriterSeen, ReadChunk, ReadEof, ReadTimeout,
                LibraryType, UnitType, libraryVars, linkVars
  <2>2. FeederType'
    BY <1>2 DEF WriterSeen, ReadChunk, ReadEof, ReadTimeout, FeederType, feederVars
  <2> QED BY <1>1, <2>1, <2>2 DEF TypeOK, PcType, JobType, LibraryType, FeederType, UnitType
<1>3. CASE PushChunk(s) \/ RepushChunk(s)
  <2>1. UnitType'
    BY <1>3 DEF PushChunk, RepushChunk, UnitType, linkVars
  <2>2. LibraryType' /\ ps' \in [Source -> BOOLEAN]
    <3>1. UNCHANGED group /\ (AcquireStream(s) \/ UNCHANGED <<ps, live, roster, announced>>)
      BY <1>3 DEF PushChunk, RepushChunk
    <3> QED BY <3>1, AcquireType DEF FeederType, LibraryType
  <2>3. FeederType'
    <3>1. CASE PushChunk(s)
      BY <3>1, <2>2 DEF PushChunk, FeederType
    <3>2. CASE RepushChunk(s)
      BY <3>2, <2>2 DEF RepushChunk, FeederType
    <3> QED BY <1>3, <3>1, <3>2
  <2> QED BY <1>1, <2>1, <2>2, <2>3 DEF TypeOK, PcType, JobType, LibraryType, FeederType, UnitType
<1>4. CASE CommitChunk(s) \/ CommitError(s) \/ AlreadyIdle(s) \/ IdleLock(s) \/ DetachedAll(s)
          \/ ReleaseCheck(s)
  <2>1. LibraryType' /\ UnitType'
    BY <1>4 DEF CommitChunk, CommitError, AlreadyIdle, IdleLock, DetachedAll, ReleaseCheck,
                LibraryType, UnitType, libraryVars, linkVars
  <2>2. FeederType'
    <3>1. CASE IdleLock(s)
      <4>1. Members(s) \subseteq Player
        BY DEF Members
      <4> QED BY <3>1, <4>1 DEF IdleLock, FeederType
    <3>2. CASE CommitChunk(s) \/ CommitError(s) \/ AlreadyIdle(s) \/ DetachedAll(s)
               \/ ReleaseCheck(s)
      BY <3>2 DEF CommitChunk, CommitError, AlreadyIdle, DetachedAll, ReleaseCheck,
                  Return, FeederType
    <3> QED BY <1>4, <3>1, <3>2
  <2> QED BY <1>1, <2>1, <2>2 DEF TypeOK, PcType, JobType, LibraryType, FeederType, UnitType
<1>5. CASE GoIdle(s)
  <2>1. LibraryType'
    <3>1. StopGroup(s) /\ UNCHANGED group
      BY <1>5 DEF GoIdle
    <3> QED BY <3>1, StopGroupType
  <2>2. UnitType'
    BY <1>5 DEF GoIdle, UnitType, linkVars
  <2>3. FeederType'
    BY <1>5 DEF GoIdle, FeederType
  <2> QED BY <1>1, <2>1, <2>2, <2>3 DEF TypeOK, PcType, JobType, LibraryType, FeederType, UnitType
<1>6. CASE DetachOne(s)
  <2>1. PICK p \in todo[s] : /\ IF group[p] = s THEN RemoveClient(p) ELSE UNCHANGED libraryVars
                             /\ todo' = [todo EXCEPT ![s] = @ \ {p}]
    BY <1>6 DEF DetachOne
  <2>2. p \in Player
    BY TypeParts DEF FeederType
  <2>3. LibraryType'
    BY <2>1, <2>2, RemoveType DEF LibraryType, libraryVars
  <2>4. FeederType' /\ UnitType'
    BY <1>6, <2>1 DEF DetachOne, FeederType, UnitType, linkVars
  <2> QED BY <1>1, <2>3, <2>4 DEF TypeOK, PcType, JobType, LibraryType, FeederType, UnitType
<1>7. CASE ReleaseHangUp(s)
  <2>1. LibraryType' /\ UnitType'
    BY <1>7, DisconnectType DEF ReleaseHangUp, UnitType
  <2>2. FeederType'
    BY <1>7 DEF ReleaseHangUp, Return, FeederType
  <2> QED BY <1>1, <2>1, <2>2 DEF TypeOK, PcType, JobType, LibraryType, FeederType, UnitType
<1> QED BY <1>2, <1>3, <1>4, <1>5, <1>6, <1>7 DEF Feeder

LEMMA CallerStepType ==
  ASSUME TypeOK, NEW c \in Caller, Continue(c)
  PROVE  TypeOK'
<1> USE TypeParts
<1>1. PcType' /\ JobType' /\ job[c] \in Job /\ UNCHANGED <<sources, writer>>
  BY CallerMoves
<1>2. PICK s \in Source, p \in Player : job[c].source = s /\ job[c].player = p
  BY <1>1 DEF Job
<1>3. LibraryType'
  <2>1. CASE EnterChange(c)
    <3>1. StopTransport(s) \/ UNCHANGED libraryVars
      BY <1>2, <2>1 DEF EnterChange, libraryVars
    <3> QED BY <1>2, <3>1, StopTransportType, SameLibrary
  <2>2. CASE ChangeRemove(c) \/ DetachRemove(c)
    <3>1. RemoveClient(p) \/ UNCHANGED libraryVars
      BY <1>2, <2>2 DEF ChangeRemove, DetachRemove
    <3> QED BY <1>2, <3>1, RemoveType, SameLibrary
  <2>3. CASE ChangeAdd(c)
    <3>1. AddClient(s, p) \/ UNCHANGED libraryVars
      BY <1>2, <2>3 DEF ChangeAdd
    <3> QED BY <1>2, <3>1, AddType, SameLibrary
  <2>4. CASE LeaveChange(c)
    <3>1. UNCHANGED group /\ (AcquireStream(s) \/ UNCHANGED <<ps, live, roster, announced>>)
      BY <1>2, <2>4 DEF LeaveChange
    <3> QED BY <1>2, <3>1, AcquireType DEF LibraryType, FeederType
  <2>5. CASE ReleaseCheck(c)
    BY <2>5 DEF ReleaseCheck, LibraryType, libraryVars
  <2>6. CASE ReleaseHangUp(c)
    BY <2>6, DisconnectType DEF ReleaseHangUp
  <2>7. CASE StopStream(c)
    <3>1. StopTransport(s)
      BY <1>2, <2>7 DEF StopStream
    <3> QED BY <1>2, <3>1, StopTransportType
  <2> QED BY <2>1, <2>2, <2>3, <2>4, <2>5, <2>6, <2>7 DEF Continue
<1>4. FeederType'
  <2>1. CASE EnterChange(c)
    BY <2>1, <1>2 DEF EnterChange, FeederType
  <2>2. CASE LeaveChange(c)
    <3>1. ps' \in [Source -> BOOLEAN]
      BY <2>2, <1>2 DEF LeaveChange, AcquireStream, FeederType
    <3> QED BY <2>2, <3>1, <1>2 DEF LeaveChange, FeederType
  <2>3. CASE ReleaseCheck(c) \/ ReleaseHangUp(c)
    BY <2>3 DEF ReleaseCheck, ReleaseHangUp, Return, FeederType
  <2>4. CASE ChangeRemove(c) \/ ChangeAdd(c) \/ DetachRemove(c) \/ StopStream(c)
    BY <2>4 DEF ChangeRemove, ChangeAdd, DetachRemove, StopStream, FeederType, feederVars
  <2> QED BY <2>1, <2>2, <2>3, <2>4 DEF Continue
<1>5. UnitType'
  <2>1. CASE ReleaseHangUp(c)
    BY <2>1, DisconnectType DEF ReleaseHangUp, UnitType
  <2>2. CASE StopStream(c)
    BY <2>2 DEF StopStream, UnitType, linkVars
  <2>3. CASE EnterChange(c) \/ ChangeRemove(c) \/ ChangeAdd(c) \/ LeaveChange(c)
             \/ DetachRemove(c) \/ ReleaseCheck(c)
    BY <2>3 DEF EnterChange, ChangeRemove, ChangeAdd, LeaveChange, DetachRemove, ReleaseCheck,
                UnitType, linkVars
  <2> QED BY <2>1, <2>2, <2>3 DEF Continue
<1> QED BY <1>1, <1>3, <1>4, <1>5 DEF TypeOK, PcType, JobType, LibraryType, FeederType, UnitType

\* A new request, or a source starting.
LEMMA RequestStepType ==
  ASSUME TypeOK, Request
  PROVE  TypeOK'
<1> USE TypeParts
<1>1. CASE \E s \in Source : StartSource(s)
  <2>1. PICK s \in Source : StartSource(s)
    BY <1>1
  <2>2. "open" \in FeederLabel
    BY DEF FeederLabel
  <2>3. PcType' /\ JobType'
    BY <2>1, <2>2, FeederGoes DEF StartSource, JobType
  <2>4. LibraryType'
    BY <2>1, SameLibrary DEF StartSource
  <2>5. FeederType'
    BY <2>1 DEF StartSource, FeederType
  <2>6. UnitType'
    BY <2>1 DEF StartSource, UnitType, linkVars
  <2> QED BY <2>3, <2>4, <2>5, <2>6 DEF TypeOK, PcType, JobType, LibraryType, FeederType, UnitType
<1>2. ASSUME NEW c \in Caller, NEW s \in Source, StopSource(c, s)
      PROVE  TypeOK'
  <2> DEFINE j == [source |-> s, player |-> LocalPlayer, restream |-> FALSE]
  <2>1. j \in Job /\ j # None
    BY NewJob DEF RoutingAssumption
  <2>2. job' = [job EXCEPT ![c] = j] /\ pc' = [pc EXCEPT ![c] = "stopStream", ![s] = "off"]
    BY <1>2 DEF StopSource
  <2> HIDE DEF j
  <2>3. PcType' /\ JobType'
    BY <2>1, <2>2 DEF PcType, JobType, FeederLabel, CallerLabel
  <2>4. LibraryType'
    BY <1>2, SameLibrary DEF StopSource
  <2>5. FeederType'
    BY <1>2 DEF StopSource, FeederType
  <2>6. UnitType'
    BY <1>2 DEF StopSource, UnitType, linkVars
  <2> QED BY <2>3, <2>4, <2>5, <2>6 DEF TypeOK, PcType, JobType, LibraryType, FeederType, UnitType
<1>3. ASSUME NEW c \in Caller, NEW s \in Source, NEW p \in Player,
             AttachPlayer(c, s, p) \/ DetachPlayer(c, s, p)
      PROVE  TypeOK'
  <2>1. \/ UNCHANGED <<pc, job>>
        \/ \E l \in {"attachLock", "detach"} : Begin(c, s, p, l)
    BY <1>3 DEF AttachPlayer, DetachPlayer
  <2>2. PcType' /\ JobType'
    <3>1. CASE UNCHANGED <<pc, job>>
      BY <3>1 DEF PcType, JobType
    <3>2. CASE \E l \in {"attachLock", "detach"} : Begin(c, s, p, l)
      BY <3>2, BeginGoes
    <3> QED BY <2>1, <3>1, <3>2
  <2>3. LibraryType'
    BY <1>3, SameLibrary DEF AttachPlayer, DetachPlayer
  <2>4. FeederType'
    BY <1>3 DEF AttachPlayer, DetachPlayer, FeederType, feederVars
  <2>5. UnitType'
    BY <1>3 DEF AttachPlayer, DetachPlayer, UnitType, linkVars
  <2> QED BY <2>2, <2>3, <2>4, <2>5 DEF TypeOK, PcType, JobType, LibraryType, FeederType, UnitType
<1> QED BY <1>1, <1>2, <1>3 DEF Request

\* Senders, and players coming and going.
LEMMA EnvironmentStepType ==
  ASSUME TypeOK, Environment
  PROVE  TypeOK'
<1> USE TypeParts
<1>1. PcType' /\ JobType' /\ FeederType'
  BY DEF Environment, WriterChanges, PlayerConnects, PlayerDrops, PlayerEvicted,
         PcType, JobType, FeederType, feederVars
<1>2. ASSUME NEW s \in Source, WriterChanges(s)
      PROVE  LibraryType' /\ UnitType'
  BY <1>2, SameLibrary DEF WriterChanges, UnitType, linkVars
<1>3. ASSUME NEW p \in Player, PlayerConnects(p)
      PROVE  LibraryType' /\ UnitType'
  BY <1>3 DEF PlayerConnects, LibraryType, UnitType
<1>4. ASSUME NEW p \in Player, PlayerDrops(p)
      PROVE  LibraryType' /\ UnitType'
  BY <1>4, DisconnectType DEF PlayerDrops, UnitType
<1>5. ASSUME NEW p \in Player, PlayerEvicted(p)
      PROVE  LibraryType' /\ UnitType'
  BY <1>5, RemoveType DEF PlayerEvicted, UnitType
<1>6. LibraryType' /\ UnitType'
  BY <1>2, <1>3, <1>4, <1>5 DEF Environment
<1> QED BY <1>1, <1>6 DEF TypeOK, PcType, JobType, LibraryType, FeederType, UnitType

LEMMA InitType == Init => TypeOK
  BY DEF Init, TypeOK, FeederLabel, CallerLabel, WriterState

LEMMA StepType == TypeOK /\ [Next]_vars => TypeOK'
<1> SUFFICES ASSUME TypeOK, [Next]_vars PROVE TypeOK'
  OBVIOUS
<1>1. CASE UNCHANGED vars
  BY <1>1 DEF TypeOK, vars, libraryVars, feederVars, linkVars
<1>2. CASE Next
  BY <1>2, FeederStepType, CallerStepType, RequestStepType, EnvironmentStepType DEF Next
<1> QED BY <1>1, <1>2

\* Every reachable state is well typed; in particular an actor has a job exactly while it has
\* a request under way.
THEOREM TypeCorrect == Spec => []TypeOK
<1>1. Init => TypeOK
  BY InitType
<1>2. TypeOK /\ [Next]_vars => TypeOK'
  BY StepType
<1> QED BY <1>1, <1>2, PTL DEF Spec

-----------------------------------------------------------------------------
(* The lock discipline.  ChangeIsQuiet alone is not inductive: a feeder    *)
(* gives the lock back, and that must not be the lock of a membership      *)
(* change, so the invariant also says that a feeder at work holds it.      *)

FeederHolds == \A s \in Source : pc[s] \in {"commit", "detaching"} => lock[s] = s

\* While a source lets go of its players, nobody joins behind its back.
LetsGo == \A s \in Source : pc[s] = "detaching" => Members(s) \subseteq todo[s]

IInv == TypeOK /\ FeederHolds /\ ChangeIsQuiet /\ HeardByMembers /\ LetsGo

\* A feeder touches no lock but its own source's, and not while a request holds that one.
LEMMA FeederLock ==
  ASSUME TypeOK, FeederHolds, NEW s \in Source, Feeder(s)
  PROVE  /\ \A t \in Source : lock'[t] = lock[t] \/ (t = s /\ lock[s] \in {None, s})
         /\ FeederHolds'
<1> USE TypeParts
<1>1. PcType /\ \A t \in Source \ {s} : pc'[t] = pc[t]
  BY FeederMoves
<1>2. CASE PushChunk(s) \/ IdleLock(s)
  BY <1>1, <1>2 DEF PushChunk, IdleLock, FeederHolds, FeederType
<1>3. CASE CommitChunk(s) \/ CommitError(s) \/ DetachedAll(s)
  BY <1>1, <1>3 DEF CommitChunk, CommitError, DetachedAll, Goto, AfterPush, FeederHolds,
                    FeederType, PcType
<1>4. CASE \/ WriterSeen(s) \/ ReadChunk(s) \/ ReadEof(s) \/ ReadTimeout(s) \/ RepushChunk(s)
           \/ AlreadyIdle(s) \/ GoIdle(s) \/ ReleaseCheck(s) \/ ReleaseHangUp(s)
  <2>1. UNCHANGED lock
    BY <1>4 DEF WriterSeen, ReadChunk, ReadEof, ReadTimeout, RepushChunk, AlreadyIdle, GoIdle,
                ReleaseCheck, ReleaseHangUp, feederVars
  <2>2. pc'[s] \notin {"commit", "detaching"}
    BY <1>1, <1>4 DEF WriterSeen, ReadChunk, ReadEof, ReadTimeout, RepushChunk, AlreadyIdle, GoIdle,
                ReleaseCheck, ReleaseHangUp, Return, Goto, AfterPush, PcType
  <2> QED BY <1>1, <2>1, <2>2 DEF FeederHolds
<1>5. CASE DetachOne(s)
  BY <1>5 DEF DetachOne, FeederHolds
<1> QED BY <1>2, <1>3, <1>4, <1>5 DEF Feeder

\* The only stream a feeder can start is its own source's, while no request holds the lock.
LEMMA FeederStreams ==
  ASSUME TypeOK, NEW s \in Source, Feeder(s)
  PROVE  \A t \in Source : Streaming(t)' => Streaming(t) \/ (t = s /\ lock[s] = None)
<1> USE TypeParts
<1>1. CASE PushChunk(s) \/ RepushChunk(s)
  BY <1>1 DEF PushChunk, RepushChunk, AcquireStream, Streaming, LibraryType, FeederType
<1>2. CASE GoIdle(s)
  BY <1>2 DEF GoIdle, StopGroup, Streaming, LibraryType, FeederType
<1>3. CASE DetachOne(s)
  <2>1. ps' = ps /\ \A t \in Source : live'[t] => live[t]
    BY <1>3 DEF DetachOne, RemoveClient, libraryVars, LibraryType
  <2> QED BY <2>1 DEF Streaming
<1>4. CASE \/ WriterSeen(s) \/ ReadChunk(s) \/ ReadEof(s) \/ ReadTimeout(s) \/ CommitChunk(s)
           \/ CommitError(s) \/ AlreadyIdle(s) \/ IdleLock(s) \/ DetachedAll(s)
           \/ ReleaseCheck(s) \/ ReleaseHangUp(s)
  <2>1. UNCHANGED <<ps, live>>
    BY <1>4 DEF WriterSeen, ReadChunk, ReadEof, ReadTimeout, CommitChunk, CommitError,
                AlreadyIdle, IdleLock, DetachedAll, ReleaseCheck, ReleaseHangUp, Disconnect,
                libraryVars, feederVars
  <2> QED BY <2>1 DEF Streaming
<1> QED BY <1>1, <1>2, <1>3, <1>4 DEF Feeder

LEMMA FeederQuiet ==
  ASSUME TypeOK, FeederHolds, ChangeIsQuiet, NEW s \in Source, Feeder(s)
  PROVE  ChangeIsQuiet'
<1> USE TypeParts
<1> SUFFICES ASSUME NEW c \in Caller, pc'[c] \in Window
             PROVE  (lock[job[c].source] = c /\ ~Streaming(job[c].source))'
  BY DEF ChangeIsQuiet
<1>1. pc[c] \in Window /\ job'[c] = job[c]
  BY FeederMoves
<1>2. PICK t \in Source : job[c].source = t
  BY <1>1 DEF JobType, Job, Window
<1>3. lock[t] = c /\ ~Streaming(t)
  BY <1>1, <1>2 DEF ChangeIsQuiet
<1>4. c # None /\ c # s
  BY DEF RoutingAssumption
<1>5. lock'[t] = c
  BY <1>3, <1>4, FeederLock
<1>6. ~Streaming(t)'
  BY <1>3, <1>4, FeederStreams
<1> QED BY <1>1, <1>2, <1>5, <1>6 DEF Streaming

\* What a request does to locks and streams: only its own source's, only while it may.
LEMMA CallerLock ==
  ASSUME TypeOK, ChangeIsQuiet, NEW c \in Caller, Continue(c), NEW s \in Source, job[c].source = s
  PROVE  /\ \A t \in Source \ {s} : lock'[t] = lock[t]
         /\ lock'[s] = lock[s] \/ lock[s] \in {None, c}
         /\ \A t \in Source : Streaming(t)' => Streaming(t) \/ (t = s /\ lock[s] = c)
         /\ pc'[c] \in Window => /\ job'[c].source = s
                                 /\ lock'[s] = c
                                 /\ ~Streaming(s)'
<1> USE TypeParts
<1>0. job[c] \in Job
  BY CallerMoves
<1>1. CASE EnterChange(c)
  <2>1. pc'[c] = "attachRemove" /\ job'[c].source = s
    BY <1>0, <1>1 DEF EnterChange, Goto, PcType, JobType, Job
  <2>2. lock[s] = None /\ lock' = [lock EXCEPT ![s] = c]
    BY <1>1 DEF EnterChange
  <2>3. ~Streaming(s)' /\ \A t \in Source : Streaming(t)' => Streaming(t)
    BY <1>1 DEF EnterChange, Streaming, StopTransport, libraryVars, LibraryType, FeederType
  <2> QED BY <2>1, <2>2, <2>3 DEF FeederType
<1>2. CASE ChangeRemove(c) \/ ChangeAdd(c)
  <2>1. pc[c] \in Window /\ UNCHANGED <<lock, job, ps>>
    BY <1>2 DEF ChangeRemove, ChangeAdd, Window, feederVars
  <2>2. \A t \in Source : live'[t] => live[t]
    <3>1. CASE ChangeRemove(c)
      BY <3>1 DEF ChangeRemove, RemoveClient, LibraryType
    <3>2. CASE ChangeAdd(c)
      BY <3>2 DEF ChangeAdd, AddClient, StopGroup, libraryVars, LibraryType
    <3> QED BY <1>2, <3>1, <3>2
  <2>3. lock[s] = c /\ ~Streaming(s)
    BY <2>1 DEF ChangeIsQuiet
  <2> QED BY <2>1, <2>2, <2>3 DEF Streaming
<1>3. CASE LeaveChange(c)
  <2>1. lock[s] = c
    BY <1>3 DEF LeaveChange, ChangeIsQuiet, Window
  <2>2. pc'[c] \notin Window /\ lock' = [lock EXCEPT ![s] = None]
    BY <1>3 DEF LeaveChange, Finish, Goto, PcType, Window
  <2>3. \A t \in Source \ {s} : Streaming(t)' => Streaming(t)
    BY <1>3 DEF LeaveChange, AcquireStream, Streaming, LibraryType, FeederType
  <2> QED BY <2>1, <2>2, <2>3 DEF FeederType
<1>4. CASE DetachRemove(c) \/ ReleaseCheck(c) \/ ReleaseHangUp(c) \/ StopStream(c)
  <2>1. UNCHANGED <<lock, ps>>
    BY <1>4 DEF DetachRemove, ReleaseCheck, ReleaseHangUp, StopStream, feederVars
  <2>2. pc'[c] \notin Window
    BY <1>4 DEF DetachRemove, ReleaseCheck, ReleaseHangUp, StopStream, Return, Finish, Goto,
                PcType, Window, RoutingAssumption
  <2>3. \A t \in Source : live'[t] => live[t]
    <3>1. CASE DetachRemove(c)
      BY <3>1 DEF DetachRemove, RemoveClient, libraryVars, LibraryType
    <3>2. CASE ReleaseCheck(c) \/ ReleaseHangUp(c)
      BY <3>2 DEF ReleaseCheck, ReleaseHangUp, Disconnect, libraryVars
    <3>3. CASE StopStream(c)
      BY <3>3 DEF StopStream, StopTransport, LibraryType
    <3> QED BY <1>4, <3>1, <3>2, <3>3
  <2> QED BY <2>1, <2>2, <2>3 DEF Streaming
<1> QED BY <1>1, <1>2, <1>3, <1>4 DEF Continue

LEMMA CallerQuiet ==
  ASSUME TypeOK, FeederHolds, ChangeIsQuiet, NEW c \in Caller, Continue(c)
  PROVE  FeederHolds' /\ ChangeIsQuiet'
<1> USE TypeParts
<1>1. PICK s \in Source : job[c].source = s
  BY CallerMoves DEF Job
<1>2. FeederHolds'
  <2> SUFFICES ASSUME NEW t \in Source, pc'[t] \in {"commit", "detaching"}
               PROVE  lock'[t] = t
    BY DEF FeederHolds
  <2>1. lock[t] = t
    BY CallerMoves DEF FeederHolds
  <2>2. t # None /\ t # c
    BY DEF RoutingAssumption
  <2> QED BY <1>1, <2>1, <2>2, CallerLock
<1>3. ChangeIsQuiet'
  <2> SUFFICES ASSUME NEW d \in Caller, pc'[d] \in Window
               PROVE  (lock[job[d].source] = d /\ ~Streaming(job[d].source))'
    BY DEF ChangeIsQuiet
  <2>1. CASE d = c
    BY <1>1, <2>1, CallerLock DEF Streaming
  <2>2. CASE d # c
    <3>1. pc[d] \in Window /\ job'[d] = job[d]
      BY <2>2, CallerMoves
    <3>2. PICK t \in Source : job[d].source = t
      BY <3>1 DEF JobType, Job, Window
    <3>3. lock[t] = d /\ ~Streaming(t)
      BY <3>1, <3>2 DEF ChangeIsQuiet
    <3>4. d # None
      BY DEF RoutingAssumption
    <3>5. lock'[t] = d /\ ~Streaming(t)'
      BY <1>1, <2>2, <3>3, <3>4, CallerLock
    <3> QED BY <3>1, <3>2, <3>5 DEF Streaming
  <2> QED BY <2>1, <2>2
<1> QED BY <1>2, <1>3

-----------------------------------------------------------------------------
(* Who hears a source.                                                     *)


LEMMA MembersSame ==
  ASSUME UNCHANGED group
  PROVE  \A s \in Source : Members(s)' = Members(s)
  BY DEF Members

LEMMA MembersRemove ==
  ASSUME LibraryType, NEW p \in Player, RemoveClient(p)
  PROVE  \A s \in Source : Members(s)' = Members(s) \ {p}
  BY DEF LibraryType, RemoveClient, Members, RoutingAssumption

LEMMA MembersAdd ==
  ASSUME LibraryType, NEW s \in Source, NEW p \in Player, AddClient(s, p)
  PROVE  \A t \in Source \ {s} : Members(t)' = Members(t) \ {p}
  BY DEF LibraryType, AddClient, Members

\* Every step does one of these to what listeners can tell: a stream is acquired or stopped, a
\* source forgets its stream, a client leaves or joins a group, or its link goes or comes.
ForgetsStream(s) == ps' = [ps EXCEPT ![s] = FALSE] \/ UNCHANGED ps

Acquires(s) == AcquireStream(s) /\ UNCHANGED <<group, connected>>
Stops(s)    == /\ StopTransport(s) \/ StopGroup(s) \/ UNCHANGED <<live, roster>>
               /\ UNCHANGED <<group, connected>>
               /\ ForgetsStream(s)
Leaves(p)   == RemoveClient(p) /\ UNCHANGED <<ps, connected>>
Joins(s, p) == AddClient(s, p) /\ ~Streaming(s) /\ UNCHANGED <<ps, connected>>
Goes(p)     == Disconnect(p) /\ UNCHANGED ps
Comes(p)    == /\ connected' = connected \cup {p}
               /\ \A t \in Source : roster'[t] = IF live[t] /\ group[p] = t
                                                 THEN roster[t] \cup {p} ELSE roster[t]
               /\ UNCHANGED <<group, live, ps>>

Audible ==
    \/ \E s \in Source : Acquires(s) \/ Stops(s)
    \/ \E p \in Player : Leaves(p) \/ Goes(p) \/ Comes(p)
    \/ \E s \in Source, p \in Player : Joins(s, p)

LEMMA FeederAudible ==
  ASSUME TypeOK, NEW s \in Source, Feeder(s)
  PROVE  Audible
<1> USE TypeParts
<1>1. CASE PushChunk(s) \/ RepushChunk(s)
  <2>1. UNCHANGED <<group, connected>> /\ (AcquireStream(s) \/ UNCHANGED <<ps, live, roster>>)
    BY <1>1 DEF PushChunk, RepushChunk, linkVars
  <2>2. Acquires(s) \/ Stops(s)
    BY <2>1 DEF Acquires, Stops, ForgetsStream
  <2> QED BY <2>2 DEF Audible
<1>2. CASE GoIdle(s)
  <2>1. Stops(s)
    BY <1>2 DEF GoIdle, linkVars, Stops, ForgetsStream
  <2> QED BY <2>1 DEF Audible
<1>3. CASE DetachOne(s)
  <2>1. UNCHANGED <<ps, connected>> /\ \E p \in todo[s] : RemoveClient(p) \/ UNCHANGED libraryVars
    BY <1>3 DEF DetachOne, linkVars
  <2>2. (\E p \in Player : Leaves(p)) \/ Stops(s)
    BY <2>1 DEF Leaves, Stops, ForgetsStream, FeederType, libraryVars
  <2> QED BY <2>2 DEF Audible
<1>4. CASE ReleaseHangUp(s)
  <2>1. Goes(LocalPlayer)
    BY <1>4 DEF ReleaseHangUp, Goes
  <2> QED BY <2>1 DEF Audible, RoutingAssumption
<1>5. CASE \/ WriterSeen(s) \/ ReadChunk(s) \/ ReadEof(s) \/ ReadTimeout(s) \/ CommitChunk(s)
           \/ CommitError(s) \/ AlreadyIdle(s) \/ IdleLock(s) \/ DetachedAll(s) \/ ReleaseCheck(s)
  <2>1. UNCHANGED <<libraryVars, ps, connected>>
    BY <1>5 DEF WriterSeen, ReadChunk, ReadEof, ReadTimeout, CommitChunk, CommitError,
                AlreadyIdle, IdleLock, DetachedAll, ReleaseCheck, libraryVars, feederVars, linkVars
  <2>2. Stops(s)
    BY <2>1 DEF Stops, ForgetsStream, libraryVars
  <2> QED BY <2>2 DEF Audible
<1> QED BY <1>1, <1>2, <1>3, <1>4, <1>5 DEF Feeder

LEMMA CallerAudible ==
  ASSUME TypeOK, ChangeIsQuiet, NEW c \in Caller, Continue(c)
  PROVE  Audible
<1> USE TypeParts
<1>1. PICK s \in Source, p \in Player : job[c].source = s /\ job[c].player = p
  BY CallerMoves DEF Job
<1>2. CASE EnterChange(c) \/ ReleaseCheck(c) \/ StopStream(c)
  <2>1. \/ UNCHANGED <<libraryVars, ps, connected>>
        \/ StopTransport(s) /\ ForgetsStream(s) /\ UNCHANGED connected
    BY <1>1, <1>2 DEF EnterChange, ReleaseCheck, StopStream, ForgetsStream, libraryVars,
                      feederVars, linkVars
  <2>2. Stops(s)
    BY <2>1 DEF Stops, StopTransport, ForgetsStream, libraryVars
  <2> QED BY <2>2 DEF Audible
<1>3. CASE ChangeRemove(c) \/ DetachRemove(c)
  <2>1. UNCHANGED <<ps, connected>> /\ (RemoveClient(p) \/ UNCHANGED libraryVars)
    BY <1>1, <1>3 DEF ChangeRemove, DetachRemove, feederVars, linkVars
  <2>2. Leaves(p) \/ Stops(s)
    BY <2>1 DEF Leaves, Stops, ForgetsStream, libraryVars
  <2> QED BY <2>2 DEF Audible
<1>4. CASE ChangeAdd(c)
  <2>1. UNCHANGED <<ps, connected>> /\ (AddClient(s, p) \/ UNCHANGED libraryVars)
    BY <1>1, <1>4 DEF ChangeAdd, feederVars, linkVars
  <2>2. ~Streaming(s)
    BY <1>1, <1>4 DEF ChangeAdd, ChangeIsQuiet, Window
  <2>3. Joins(s, p) \/ Stops(s)
    BY <2>1, <2>2 DEF Joins, Stops, ForgetsStream, libraryVars
  <2> QED BY <2>3 DEF Audible
<1>5. CASE LeaveChange(c)
  <2>1. UNCHANGED <<group, connected>> /\ (AcquireStream(s) \/ UNCHANGED <<ps, live, roster>>)
    BY <1>1, <1>5 DEF LeaveChange, linkVars
  <2>2. Acquires(s) \/ Stops(s)
    BY <2>1 DEF Acquires, Stops, ForgetsStream
  <2> QED BY <2>2 DEF Audible
<1>6. CASE ReleaseHangUp(c)
  <2>1. Goes(LocalPlayer)
    BY <1>6 DEF ReleaseHangUp, Goes
  <2> QED BY <2>1 DEF Audible, RoutingAssumption
<1> QED BY <1>2, <1>3, <1>4, <1>5, <1>6 DEF Continue

LEMMA RequestAudible ==
  ASSUME TypeOK, Request
  PROVE  Audible
<1>1. UNCHANGED <<libraryVars, connected>> /\ \E s \in Source : ForgetsStream(s)
  BY DEF Request, StartSource, StopSource, AttachPlayer, DetachPlayer, linkVars, feederVars,
         ForgetsStream
<1>2. \E s \in Source : Stops(s)
  BY <1>1 DEF Stops, libraryVars
<1> QED BY <1>2 DEF Audible

LEMMA EnvironmentAudible ==
  ASSUME TypeOK, Environment
  PROVE  Audible
<1> USE TypeParts
<1>1. ASSUME NEW s \in Source, WriterChanges(s)
      PROVE  Audible
  <2>1. Stops(s)
    BY <1>1 DEF WriterChanges, Stops, ForgetsStream, libraryVars, feederVars, linkVars
  <2> QED BY <2>1 DEF Audible
<1>2. ASSUME NEW p \in Player, PlayerConnects(p)
      PROVE  Audible
  <2>1. Comes(p)
    BY <1>2 DEF PlayerConnects, Comes, feederVars
  <2> QED BY <2>1 DEF Audible
<1>3. ASSUME NEW p \in Player, PlayerDrops(p)
      PROVE  Audible
  <2>1. Goes(p)
    BY <1>3 DEF PlayerDrops, Goes, feederVars
  <2> QED BY <2>1 DEF Audible
<1>4. ASSUME NEW p \in Player, PlayerEvicted(p)
      PROVE  Audible
  <2>1. Leaves(p)
    BY <1>4 DEF PlayerEvicted, Leaves, feederVars
  <2> QED BY <2>1 DEF Audible
<1> QED BY <1>1, <1>2, <1>3, <1>4 DEF Environment

LEMMA StepAudible ==
  ASSUME TypeOK, ChangeIsQuiet, Next
  PROVE  Audible
  BY FeederAudible, CallerAudible, RequestAudible, EnvironmentAudible DEF Next

\* Whatever a step does, the roster of a running stream stays the connected members of its group.
LEMMA AudibleHeard ==
  ASSUME TypeOK, HeardByMembers, Audible
  PROVE  HeardByMembers'
<1> USE TypeParts
<1>1. ASSUME NEW s \in Source, Acquires(s)
      PROVE  HeardByMembers'
  <2>1. \A t \in Source : Members(t)' = Members(t)
    BY <1>1, MembersSame DEF Acquires
  <2>2. roster'[s] = Members(s) \cap connected
    BY <1>1 DEF Acquires, AcquireStream, LibraryType
  <2>3. \A t \in Source \ {s} : roster'[t] = roster[t] /\ (Streaming(t)' => Streaming(t))
    BY <1>1 DEF Acquires, AcquireStream, Streaming, LibraryType, FeederType
  <2> QED BY <1>1, <2>1, <2>2, <2>3 DEF HeardByMembers, Acquires
<1>2. ASSUME NEW s \in Source, Stops(s)
      PROVE  HeardByMembers'
  <2>1. UNCHANGED connected /\ \A t \in Source : Members(t)' = Members(t)
    BY <1>2, MembersSame DEF Stops
  <2>2. \A t \in Source : Streaming(t)' => Streaming(t) /\ roster'[t] = roster[t]
    BY <1>2 DEF Stops, StopTransport, StopGroup, ForgetsStream, Streaming, LibraryType, FeederType
  <2> QED BY <2>1, <2>2 DEF HeardByMembers
<1>3. ASSUME NEW p \in Player, Leaves(p)
      PROVE  HeardByMembers'
  <2>1. UNCHANGED connected /\ \A t \in Source : Members(t)' = Members(t) \ {p}
    BY <1>3, MembersRemove DEF Leaves
  <2>2. \A t \in Source : Streaming(t)' => Streaming(t) /\ roster'[t] = roster[t] \ {p}
    BY <1>3 DEF Leaves, RemoveClient, Streaming
  <2> QED BY <2>1, <2>2 DEF HeardByMembers
<1>4. ASSUME NEW s \in Source, NEW p \in Player, Joins(s, p)
      PROVE  HeardByMembers'
  <2>1. \A t \in Source : Streaming(t)' =>
            Streaming(t) /\ t # s /\ t # group[p] /\ roster'[t] = roster[t]
    BY <1>4 DEF Joins, AddClient, StopGroup, Streaming, LibraryType
  <2>2. UNCHANGED connected /\ \A t \in Source \ {s} : Members(t)' = Members(t) \ {p}
    BY <1>4, MembersAdd DEF Joins
  <2>3. \A t \in Source : t # group[p] => p \notin Members(t)
    BY DEF Members
  <2> QED BY <2>1, <2>2, <2>3 DEF HeardByMembers
<1>5. ASSUME NEW p \in Player, Goes(p)
      PROVE  HeardByMembers'
  <2>1. connected' = connected \ {p} /\ \A t \in Source : Members(t)' = Members(t)
    BY <1>5, MembersSame DEF Goes, Disconnect
  <2>2. \A t \in Source : (Streaming(t)' => Streaming(t)) /\ roster'[t] = roster[t] \ {p}
    BY <1>5 DEF Goes, Disconnect, Streaming
  <2> QED BY <2>1, <2>2 DEF HeardByMembers
<1>6. ASSUME NEW p \in Player, Comes(p)
      PROVE  HeardByMembers'
  <2>1. connected' = connected \cup {p} /\ \A t \in Source : Members(t)' = Members(t)
    BY <1>6, MembersSame DEF Comes
  <2>2. \A t \in Source : Streaming(t)' => Streaming(t) /\ roster[t] = Members(t) \cap connected
    BY <1>6 DEF Comes, Streaming, HeardByMembers
  <2>3. \A t \in Source : Streaming(t)' =>
            roster'[t] = IF p \in Members(t) THEN roster[t] \cup {p} ELSE roster[t]
    BY <1>6 DEF Comes, Streaming, Members
  <2> SUFFICES ASSUME NEW t \in Source, Streaming(t)'
               PROVE  roster'[t] = Members(t)' \cap connected'
    BY DEF HeardByMembers
  <2>4. roster'[t] = Members(t) \cap (connected \cup {p})
    BY <2>2, <2>3
  <2> QED BY <2>1, <2>4
<1> QED BY <1>1, <1>2, <1>3, <1>4, <1>5, <1>6 DEF Audible

-----------------------------------------------------------------------------
(* Letting go of the players of a source that has gone idle.               *)

LEMMA FeederLetsGo ==
  ASSUME TypeOK, LetsGo, NEW s \in Source, Feeder(s)
  PROVE  LetsGo'
<1> USE TypeParts
<1>0. PcType /\ \A t \in Source \ {s} : pc'[t] = pc[t]
  BY FeederMoves
<1>1. CASE IdleLock(s)
  <2>1. todo' = [todo EXCEPT ![s] = Members(s)] /\ UNCHANGED group
    BY <1>1 DEF IdleLock, libraryVars
  <2> QED BY <1>0, <2>1, MembersSame DEF LetsGo, FeederType
<1>2. CASE DetachOne(s)
  <2>1. UNCHANGED pc
    BY <1>2 DEF DetachOne
  <2>2. PICK p \in todo[s] : /\ IF group[p] = s THEN RemoveClient(p) ELSE UNCHANGED libraryVars
                             /\ todo' = [todo EXCEPT ![s] = @ \ {p}]
    BY <1>2 DEF DetachOne
  <2>3. p \in Player
    BY DEF FeederType
  <2>4. p \notin Members(s)' /\ \A t \in Source : Members(t)' \subseteq Members(t)
    <3>1. CASE group[p] = s
      BY <2>2, <2>3, <3>1, MembersRemove
    <3>2. CASE group[p] # s
      <4>1. UNCHANGED group
        BY <2>2, <3>2 DEF libraryVars
      <4>2. p \notin Members(s)
        BY <3>2 DEF Members
      <4> QED BY <4>1, <4>2, MembersSame
    <3> QED BY <3>1, <3>2
  <2> QED BY <2>1, <2>2, <2>4 DEF LetsGo, FeederType
<1>3. CASE \/ WriterSeen(s) \/ ReadChunk(s) \/ ReadEof(s) \/ ReadTimeout(s) \/ PushChunk(s)
           \/ CommitChunk(s) \/ CommitError(s) \/ RepushChunk(s) \/ AlreadyIdle(s) \/ GoIdle(s)
           \/ DetachedAll(s) \/ ReleaseCheck(s) \/ ReleaseHangUp(s)
  <2>1. UNCHANGED <<group, todo>>
    BY <1>3 DEF WriterSeen, ReadChunk, ReadEof, ReadTimeout, PushChunk, CommitChunk, CommitError,
                RepushChunk, AlreadyIdle, GoIdle, DetachedAll, ReleaseCheck, ReleaseHangUp,
                Disconnect, libraryVars, feederVars
  <2>2. pc'[s] # "detaching"
    BY <1>0, <1>3 DEF WriterSeen, ReadChunk, ReadEof, ReadTimeout, PushChunk, CommitChunk, CommitError,
                RepushChunk, AlreadyIdle, GoIdle, DetachedAll, ReleaseCheck, ReleaseHangUp,
                Return, Goto, AfterPush, PcType
  <2> QED BY <1>0, <2>1, <2>2, MembersSame DEF LetsGo
<1> QED BY <1>1, <1>2, <1>3 DEF Feeder

\* Only a membership change adds to a group, and it holds the lock of the source it adds to.
LEMMA CallerMembers ==
  ASSUME TypeOK, ChangeIsQuiet, NEW c \in Caller, Continue(c), NEW t \in Source, lock[t] # c
  PROVE  Members(t)' \subseteq Members(t)
<1> USE TypeParts
<1>1. PICK s \in Source, p \in Player : job[c].source = s /\ job[c].player = p
  BY CallerMoves DEF Job
<1>2. CASE ChangeAdd(c)
  <2>1. t # s
    BY <1>1, <1>2 DEF ChangeAdd, ChangeIsQuiet, Window
  <2>2. AddClient(s, p) \/ UNCHANGED group
    BY <1>1, <1>2 DEF ChangeAdd, libraryVars
  <2> QED BY <2>1, <2>2, MembersAdd, MembersSame
<1>3. CASE ChangeRemove(c) \/ DetachRemove(c)
  <2>1. RemoveClient(p) \/ UNCHANGED group
    BY <1>1, <1>3 DEF ChangeRemove, DetachRemove, libraryVars
  <2> QED BY <2>1, MembersRemove, MembersSame
<1>4. CASE EnterChange(c) \/ LeaveChange(c) \/ ReleaseCheck(c) \/ ReleaseHangUp(c) \/ StopStream(c)
  <2>1. UNCHANGED group
    BY <1>4 DEF EnterChange, LeaveChange, ReleaseCheck, ReleaseHangUp, StopStream, StopTransport,
                Disconnect, libraryVars
  <2> QED BY <2>1, MembersSame
<1> QED BY <1>2, <1>3, <1>4 DEF Continue

LEMMA CallerLetsGo ==
  ASSUME TypeOK, FeederHolds, ChangeIsQuiet, LetsGo, NEW c \in Caller, Continue(c)
  PROVE  LetsGo'
<1> USE TypeParts
<1> SUFFICES ASSUME NEW t \in Source, pc'[t] = "detaching"
             PROVE  Members(t)' \subseteq todo'[t]
  BY DEF LetsGo
<1>1. pc[t] = "detaching"
  BY CallerMoves
<1>2. lock[t] # c
  BY <1>1 DEF FeederHolds, RoutingAssumption
<1>3. UNCHANGED todo
  BY DEF Continue, EnterChange, ChangeRemove, ChangeAdd, LeaveChange, DetachRemove, ReleaseCheck,
         ReleaseHangUp, StopStream, feederVars
<1> QED BY <1>1, <1>2, <1>3, CallerMembers DEF LetsGo

-----------------------------------------------------------------------------
(* Requests as they arrive, and the world outside.                         *)

LEMMA RequestStep ==
  ASSUME IInv, Request
  PROVE  FeederHolds' /\ ChangeIsQuiet' /\ LetsGo'
<1> USE TypeParts DEF IInv
<1>0. UNCHANGED <<libraryVars, connected>>
  BY DEF Request, StartSource, StopSource, AttachPlayer, DetachPlayer, linkVars
<1>1. CASE \E s \in Source : StartSource(s)
  <2>1. PICK s \in Source : StartSource(s)
    BY <1>1
  <2>2. /\ pc'[s] = "open"
        /\ \A t \in Source \ {s} : pc'[t] = pc[t] /\ lock'[t] = lock[t] /\ todo'[t] = todo[t]
        /\ \A c \in Caller : pc'[c] = pc[c] /\ job'[c] = job[c]
        /\ \A c \in Caller : pc[c] # "idle" => job[c].source # s
        /\ \A t \in Source : Streaming(t)' => Streaming(t)
    BY <2>1 DEF StartSource, Goto, QuiescentRestart, Streaming, libraryVars, FeederType, PcType,
                JobType, RoutingAssumption
  <2>3. FeederHolds' /\ LetsGo'
    BY <1>0, <2>2, MembersSame DEF FeederHolds, LetsGo, libraryVars
  <2>4. ChangeIsQuiet'
    <3> SUFFICES ASSUME NEW c \in Caller, pc'[c] \in Window
                 PROVE  (lock[job[c].source] = c /\ ~Streaming(job[c].source))'
      BY DEF ChangeIsQuiet
    <3>1. pc[c] \in Window
      BY <2>2
    <3>2. PICK t \in Source : job[c].source = t
      BY <3>1 DEF JobType, Job, Window
    <3>3. lock[t] = c /\ ~Streaming(t) /\ t # s
      BY <2>2, <3>1, <3>2 DEF ChangeIsQuiet, Window
    <3> QED BY <2>2, <3>2, <3>3 DEF Streaming
  <2> QED BY <2>3, <2>4
<1>2. ASSUME NEW c \in Caller, NEW s \in Source, StopSource(c, s)
      PROVE  FeederHolds' /\ ChangeIsQuiet' /\ LetsGo'
  <2>1. /\ pc'[s] = "off" /\ pc'[c] = "stopStream" /\ pc[c] = "idle"
        /\ \A t \in Source \ {s} : pc'[t] = pc[t] /\ lock'[t] = lock[t] /\ todo'[t] = todo[t]
        /\ lock'[s] = lock[s] \/ lock[s] = s
        /\ \A d \in Caller \ {c} : pc'[d] = pc[d] /\ job'[d] = job[d]
        /\ UNCHANGED ps
    BY <1>2 DEF StopSource, FeederType, PcType, JobType, RoutingAssumption
  <2>2. \A t \in Source : Streaming(t)' = Streaming(t)
    BY <1>0, <2>1 DEF Streaming, libraryVars
  <2>3. FeederHolds' /\ LetsGo'
    BY <1>0, <2>1, MembersSame DEF FeederHolds, LetsGo, libraryVars
  <2>4. ChangeIsQuiet'
    <3> SUFFICES ASSUME NEW d \in Caller, pc'[d] \in Window
                 PROVE  (lock[job[d].source] = d /\ ~Streaming(job[d].source))'
      BY DEF ChangeIsQuiet
    <3>1. d # c
      BY <2>1 DEF Window
    <3>2. pc[d] \in Window /\ job'[d] = job[d]
      BY <2>1, <3>1
    <3>3. PICK t \in Source : job[d].source = t
      BY <3>2 DEF JobType, Job, Window
    <3>4. lock[t] = d /\ ~Streaming(t) /\ d # s
      BY <3>2, <3>3 DEF ChangeIsQuiet, RoutingAssumption
    <3>5. lock'[t] = d /\ ~Streaming(t)'
      BY <2>1, <2>2, <3>4
    <3> QED BY <3>2, <3>3, <3>5 DEF Streaming
  <2> QED BY <2>3, <2>4
<1>3. ASSUME NEW c \in Caller, NEW s \in Source, NEW p \in Player,
             AttachPlayer(c, s, p) \/ DetachPlayer(c, s, p)
      PROVE  FeederHolds' /\ ChangeIsQuiet' /\ LetsGo'
  <2>1. UNCHANGED <<lock, ps, todo>>
    BY <1>3 DEF AttachPlayer, DetachPlayer, feederVars
  <2>2. \A t \in Source : Streaming(t)' = Streaming(t)
    BY <1>0, <2>1 DEF Streaming, libraryVars
  <2>3. /\ \A t \in Source : pc'[t] = pc[t]
        /\ \A d \in Caller : pc'[d] \in Window => pc[d] \in Window /\ job'[d] = job[d]
    <3>1. CASE UNCHANGED <<pc, job>>
      BY <3>1
    <3>2. ASSUME NEW l \in {"attachLock", "detach"}, Begin(c, s, p, l)
          PROVE  /\ \A t \in Source : pc'[t] = pc[t]
                 /\ \A d \in Caller : pc'[d] \in Window => pc[d] \in Window /\ job'[d] = job[d]
      <4>1. l \notin Window
        BY DEF Window
      <4>2. PcType /\ JobType
        OBVIOUS
      <4>3. /\ \A t \in Source : pc'[t] = pc[t]
            /\ \A d \in Caller : pc'[d] = IF d = c THEN l ELSE pc[d]
            /\ \A d \in Caller \ {c} : job'[d] = job[d]
        BY <3>2, <4>2, BeginGoes
      <4> QED BY <4>1, <4>3
    <3>3. UNCHANGED <<pc, job>> \/ Begin(c, s, p, "attachLock") \/ Begin(c, s, p, "detach")
      BY <1>3 DEF AttachPlayer, DetachPlayer
    <3> QED BY <3>1, <3>2, <3>3
  <2>4. FeederHolds' /\ LetsGo'
    BY <1>0, <2>1, <2>3, MembersSame DEF FeederHolds, LetsGo, libraryVars
  <2>5. ChangeIsQuiet'
    <3> SUFFICES ASSUME NEW d \in Caller, pc'[d] \in Window
                 PROVE  (lock[job[d].source] = d /\ ~Streaming(job[d].source))'
      BY DEF ChangeIsQuiet
    <3>1. PICK t \in Source : job[d].source = t
      BY <2>3 DEF JobType, Job, Window
    <3>2. lock[t] = d /\ ~Streaming(t)
      BY <2>3, <3>1 DEF ChangeIsQuiet
    <3> QED BY <2>1, <2>2, <2>3, <3>1, <3>2 DEF Streaming
  <2> QED BY <2>4, <2>5
<1> QED BY <1>1, <1>2, <1>3 DEF Request

LEMMA EnvironmentStep ==
  ASSUME IInv, Environment
  PROVE  FeederHolds' /\ ChangeIsQuiet' /\ LetsGo'
<1> USE TypeParts DEF IInv
<1>1. UNCHANGED <<ps, lock, todo, pc, job>>
  BY DEF Environment, WriterChanges, PlayerConnects, PlayerDrops, PlayerEvicted, feederVars
<1>2. UNCHANGED <<group, live>> \/ \E p \in Player : RemoveClient(p)
  BY DEF Environment, WriterChanges, PlayerConnects, PlayerDrops, PlayerEvicted, Disconnect,
         libraryVars
<1>3. \A t \in Source : (Streaming(t)' => Streaming(t)) /\ Members(t)' \subseteq Members(t)
  <2>1. CASE UNCHANGED <<group, live>>
    BY <1>1, <2>1, MembersSame DEF Streaming
  <2>2. ASSUME NEW p \in Player, RemoveClient(p)
        PROVE  \A t \in Source : (Streaming(t)' => Streaming(t)) /\ Members(t)' \subseteq Members(t)
    <3>1. \A t \in Source : live'[t] => live[t]
      BY <2>2 DEF RemoveClient
    <3> QED BY <1>1, <2>2, <3>1, MembersRemove DEF Streaming
  <2> QED BY <1>2, <2>1, <2>2
<1>4. FeederHolds' /\ LetsGo'
  BY <1>1, <1>3 DEF FeederHolds, LetsGo
<1>5. ChangeIsQuiet'
  <2> SUFFICES ASSUME NEW d \in Caller, pc'[d] \in Window
               PROVE  (lock[job[d].source] = d /\ ~Streaming(job[d].source))'
    BY DEF ChangeIsQuiet
  <2>1. PICK t \in Source : job[d].source = t
    BY <1>1 DEF JobType, Job, Window
  <2>2. lock[t] = d /\ ~Streaming(t)
    BY <1>1, <2>1 DEF ChangeIsQuiet
  <2> QED BY <1>1, <1>3, <2>1, <2>2 DEF Streaming
<1> QED BY <1>4, <1>5

-----------------------------------------------------------------------------
(* The theorems.                                                           *)

LEMMA InitInv == Init => IInv
  BY InitType DEF Init, IInv, FeederHolds, ChangeIsQuiet, HeardByMembers, LetsGo, Streaming,
                  Window, RoutingAssumption

LEMMA StepInv == IInv /\ [Next]_vars => IInv'
<1> SUFFICES ASSUME IInv, [Next]_vars PROVE IInv'
  OBVIOUS
<1>1. CASE UNCHANGED vars
  BY <1>1, StepType, MembersSame
     DEF IInv, FeederHolds, ChangeIsQuiet, HeardByMembers, LetsGo, Streaming,
         vars, libraryVars, feederVars, linkVars
<1>2. CASE Next
  <2>1. TypeOK'
    BY <1>2, StepType DEF IInv
  <2>2. HeardByMembers'
    BY <1>2, StepAudible, AudibleHeard DEF IInv
  <2>3. FeederHolds' /\ ChangeIsQuiet' /\ LetsGo'
    <3>1. ASSUME NEW s \in Source, Feeder(s)
          PROVE  FeederHolds' /\ ChangeIsQuiet' /\ LetsGo'
      BY <3>1, FeederLock, FeederQuiet, FeederLetsGo DEF IInv
    <3>2. ASSUME NEW c \in Caller, Continue(c)
          PROVE  FeederHolds' /\ ChangeIsQuiet' /\ LetsGo'
      BY <3>2, CallerQuiet, CallerLetsGo DEF IInv
    <3> QED BY <1>2, <3>1, <3>2, RequestStep, EnvironmentStep DEF Next
  <2> QED BY <2>1, <2>2, <2>3 DEF IInv
<1> QED BY <1>1, <1>2

\* The inductive invariant holds of every reachable state.
THEOREM Invariance == Spec => []IInv
  BY InitInv, StepInv, PTL DEF Spec

\* From stopping the stream to re-acquiring it, a membership change has the source to itself,
\* whatever feeders and other requests do (membership_change).
THEOREM MembershipChangeIsQuiet == Spec => []ChangeIsQuiet
<1>1. IInv => ChangeIsQuiet
  BY DEF IInv
<1> QED BY <1>1, Invariance, PTL

\* Whoever is in the group of a streaming source and connected is in its stream, and nobody else
\* (refresh_stream).
THEOREM HeardByExactlyItsMembers == Spec => []HeardByMembers
<1>1. IInv => HeardByMembers
  BY DEF IInv
<1> QED BY <1>1, Invariance, PTL

LEMMA StepIdle ==
  ASSUME IInv, [Next]_vars, NEW s \in Source, pc[s] = "detaching", pc'[s] = "release"
  PROVE  Members(s) = {}
<1> USE TypeParts DEF IInv
<1>1. Next
  BY DEF vars
<1>2. Feeder(s)
  <2>1. ASSUME NEW t \in Source, Feeder(t), t # s
        PROVE  FALSE
    BY <2>1, FeederMoves
  <2>2. ASSUME NEW c \in Caller, Continue(c)
        PROVE  FALSE
    BY <2>2, CallerMoves
  <2>3. CASE Request
    <3>1. ASSUME NEW t \in Source, StartSource(t)
          PROVE  FALSE
      BY <3>1 DEF StartSource, Goto, PcType
    <3>2. ASSUME NEW c \in Caller, NEW t \in Source, StopSource(c, t)
          PROVE  FALSE
      BY <3>2 DEF StopSource, PcType, RoutingAssumption
    <3>3. ASSUME NEW c \in Caller, NEW t \in Source, NEW p \in Player,
                 AttachPlayer(c, t, p) \/ DetachPlayer(c, t, p)
          PROVE  FALSE
      BY <3>3 DEF AttachPlayer, DetachPlayer, Begin, Goto, PcType, RoutingAssumption
    <3> QED BY <2>3, <3>1, <3>2, <3>3 DEF Request
  <2>4. CASE Environment
    BY <2>4 DEF Environment, WriterChanges, PlayerConnects, PlayerDrops, PlayerEvicted
  <2> QED BY <1>1, <2>1, <2>2, <2>3, <2>4 DEF Next
<1>3. DetachedAll(s)
  BY <1>2 DEF Feeder, WriterSeen, ReadChunk, ReadEof, ReadTimeout, PushChunk, CommitChunk,
              CommitError, RepushChunk, AlreadyIdle, GoIdle, IdleLock, DetachOne, ReleaseCheck,
              ReleaseHangUp
<1> QED BY <1>3 DEF DetachedAll, LetsGo

\* A source that has gone idle has let go of every player of its group by the time it gives the
\* lock back, also of those that requests moved meanwhile (_go_idle).
THEOREM IdleLetsGoOfAll == Spec => IdleIsTrueNone
<1>1. IInv /\ [Next]_vars =>
        [\A s \in Source : pc[s] = "detaching" /\ pc'[s] = "release" => Members(s) = {}]_vars
  BY StepIdle
<1> QED BY <1>1, Invariance, PTL DEF Spec, IdleIsTrueNone

-----------------------------------------------------------------------------
(* Bystanders: who may end the stream of a source.                         *)

\* A source a request stops is not among the sources until that request has stopped its stream.
Popped == \A c \in Caller : pc[c] = "stopStream" => job[c].source \notin sources

\* A player that is moved is in no source's group between remove_client and add_client.
TakenOut == \A c \in Caller : pc[c] = "attachAdd" => group[job[c].player] = Solo

\* Only add_client takes a player anywhere but to a group of its own.
LEMMA OnlyAddsJoin ==
  ASSUME TypeOK, Next, NEW p \in Player, group'[p] # group[p], group'[p] # Solo
  PROVE  \E c \in Caller : ChangeAdd(c) /\ job[c].player = p
<1> USE TypeParts
<1>1. ~ \E q \in Player : RemoveClient(q)
  BY DEF RemoveClient, LibraryType
<1>2. ASSUME NEW s \in Source, Feeder(s)
      PROVE  FALSE
  <2>1. UNCHANGED group \/ \E q \in todo[s] : RemoveClient(q)
    BY <1>2 DEF Feeder, WriterSeen, ReadChunk, ReadEof, ReadTimeout, PushChunk, CommitChunk,
                CommitError, RepushChunk, AlreadyIdle, GoIdle, IdleLock, DetachOne, DetachedAll,
                ReleaseCheck, ReleaseHangUp, Disconnect, libraryVars
  <2> QED BY <1>1, <2>1 DEF FeederType
<1>3. ASSUME NEW c \in Caller, Continue(c), ~ (ChangeAdd(c) /\ job[c].player = p)
      PROVE  FALSE
  <2>1. job[c] \in Job
    BY <1>3, CallerMoves
  <2>2. CASE ChangeAdd(c)
    BY <1>3, <2>1, <2>2 DEF ChangeAdd, AddClient, libraryVars, LibraryType, Job
  <2>3. CASE ChangeRemove(c) \/ DetachRemove(c)
    BY <1>1, <2>1, <2>3 DEF ChangeRemove, DetachRemove, libraryVars, Job
  <2>4. CASE EnterChange(c) \/ LeaveChange(c) \/ ReleaseCheck(c) \/ ReleaseHangUp(c) \/ StopStream(c)
    BY <2>4 DEF EnterChange, LeaveChange, ReleaseCheck, ReleaseHangUp, StopStream, StopTransport,
                Disconnect, libraryVars
  <2> QED BY <1>3, <2>2, <2>3, <2>4 DEF Continue
<1>4. ~ Request
  BY DEF Request, StartSource, StopSource, AttachPlayer, DetachPlayer, libraryVars
<1>5. ~ Environment
  BY <1>1 DEF Environment, WriterChanges, PlayerConnects, PlayerDrops, PlayerEvicted, Disconnect,
              libraryVars
<1> QED BY <1>2, <1>3, <1>4, <1>5 DEF Next

LEMMA StepTakenOut ==
  ASSUME TypeOK, NoTwoMoves, TakenOut, Next, NEW c \in Caller, pc'[c] = "attachAdd"
  PROVE  group'[job'[c].player] = Solo
<1> USE TypeParts
<1>1. CASE pc[c] = "attachAdd"
  <2>1. pc'[c] = pc[c] /\ job'[c] = job[c] /\ job[c] \in Job
    <3>1. ~ Continue(c)
      BY <1>1 DEF Continue, EnterChange, ChangeRemove, ChangeAdd, LeaveChange, DetachRemove,
                  ReleaseCheck, ReleaseHangUp, StopStream, Goto, PcType
    <3>2. job[c] \in Job
      BY <1>1 DEF JobType
    <3>3. ASSUME NEW s \in Source, Feeder(s)
          PROVE  job'[c] = job[c]
      BY <3>3, FeederMoves
    <3>4. ASSUME NEW d \in Caller, Continue(d)
          PROVE  job'[c] = job[c]
      BY <3>1, <3>4, CallerMoves
    <3>5. CASE Request
      BY <1>1, <3>5 DEF Request, StartSource, StopSource, AttachPlayer, DetachPlayer, Begin, JobType
    <3>6. CASE Environment
      <4>1. job' = job
        BY <3>6 DEF Environment, WriterChanges, PlayerConnects, PlayerDrops, PlayerEvicted
      <4> QED BY <1>1, <3>2, <4>1
    <3> QED BY <1>1, <3>2, <3>3, <3>4, <3>5, <3>6 DEF Next
  <2>2. group[job[c].player] = Solo /\ job[c].player \in Player
    BY <1>1, <2>1 DEF TakenOut, Job
  <2>3. ~ \E d \in Caller : ChangeAdd(d) /\ job[d].player = job[c].player
    BY <1>1 DEF ChangeAdd, NoTwoMoves, Moving, Window, Goto, PcType
  <2> QED BY <2>1, <2>2, <2>3, OnlyAddsJoin
<1>2. CASE pc[c] # "attachAdd"
  <2>1. ChangeRemove(c)
    <3>1. ASSUME NEW s \in Source, Feeder(s)
          PROVE  FALSE
      BY <1>2, <3>1, FeederMoves
    <3>2. ASSUME NEW d \in Caller, d # c, Continue(d)
          PROVE  FALSE
      BY <1>2, <3>2, CallerMoves
    <3>3. ~ Request
      BY <1>2 DEF Request, StartSource, StopSource, AttachPlayer, DetachPlayer, Begin, Goto, PcType,
                  RoutingAssumption
    <3>4. ~ Environment
      BY <1>2 DEF Environment, WriterChanges, PlayerConnects, PlayerDrops, PlayerEvicted
    <3>5. Continue(c)
      BY <3>1, <3>2, <3>3, <3>4 DEF Next
    <3> QED BY <1>2, <3>5 DEF Continue, EnterChange, ChangeAdd, LeaveChange, DetachRemove,
               ReleaseCheck, ReleaseHangUp, StopStream, Return, Finish, Goto, PcType, RoutingAssumption
  <2>2. job' = job /\ job[c] \in Job /\ RemoveClient(job[c].player)
    BY <2>1 DEF ChangeRemove, JobType
  <2> QED BY <2>2 DEF RemoveClient, LibraryType, Job
<1> QED BY <1>1, <1>2

LEMMA StepPopped ==
  ASSUME TypeOK, Popped, Next, NEW c \in Caller, pc'[c] = "stopStream"
  PROVE  job'[c].source \notin sources'
<1> USE TypeParts
<1>1. ASSUME NEW s \in Source, Feeder(s)
      PROVE  job'[c].source \notin sources'
  BY <1>1, FeederMoves DEF Popped
<1>2. ASSUME NEW d \in Caller, Continue(d)
      PROVE  job'[c].source \notin sources'
  <2>1. CASE d = c
    BY <1>2, <2>1 DEF Continue, EnterChange, ChangeRemove, ChangeAdd, LeaveChange, DetachRemove,
           ReleaseCheck, ReleaseHangUp, StopStream, Return, Finish, Goto, PcType, RoutingAssumption
  <2>2. CASE d # c
    BY <1>2, <2>2, CallerMoves DEF Popped
  <2> QED BY <2>1, <2>2
<1>3. ASSUME NEW s \in Source, StartSource(s)
      PROVE  job'[c].source \notin sources'
  <2>1. pc[c] = "stopStream" /\ job' = job /\ job[c] # None
    BY <1>3 DEF StartSource, Goto, PcType, JobType, RoutingAssumption
  <2> QED BY <1>3, <2>1 DEF StartSource, QuiescentRestart, Popped
<1>4. ASSUME NEW d \in Caller, NEW s \in Source, StopSource(d, s)
      PROVE  job'[c].source \notin sources'
  BY <1>4 DEF StopSource, Popped, PcType, JobType, RoutingAssumption
<1>5. ASSUME NEW d \in Caller, NEW s \in Source, NEW p \in Player,
             AttachPlayer(d, s, p) \/ DetachPlayer(d, s, p)
      PROVE  job'[c].source \notin sources'
  BY <1>5 DEF AttachPlayer, DetachPlayer, Begin, Goto, Popped, PcType, JobType
<1>6. CASE Environment
  BY <1>6 DEF Environment, WriterChanges, PlayerConnects, PlayerDrops, PlayerEvicted, Popped
<1> QED BY <1>1, <1>2, <1>3, <1>4, <1>5, <1>6 DEF Next, Request

\* remove_client stops the stream of the group it takes the last player from, and no other.
LEMMA RemoveSpares ==
  ASSUME TypeOK, NEW p \in Player, RemoveClient(p), NEW s \in Source, live[s], ~live'[s]
  PROVE  Members(s)' = {}
<1> USE TypeParts
<1>1. group[p] = s /\ Members(s) = {p}
  BY DEF RemoveClient
<1>2. Members(s)' = Members(s) \ {p}
  BY MembersRemove
<1> QED BY <1>1, <1>2

LEMMA StepSpares ==
  ASSUME TypeOK, TakenOut, Popped, Next, NEW s \in Source, live[s], ~live'[s]
  PROVE  \/ pc[s] = "goIdle"
         \/ lock[s] = None /\ lock'[s] \in Caller
         \/ s \notin sources
         \/ Members(s)' = {}
<1> USE TypeParts
<1>1. ASSUME NEW t \in Source, Feeder(t)
      PROVE  pc[s] = "goIdle" \/ Members(s)' = {}
  <2>1. CASE GoIdle(t)
    BY <2>1 DEF GoIdle, StopGroup, LibraryType
  <2>2. CASE DetachOne(t)
    <3>1. \E p \in todo[t] : RemoveClient(p)
      BY <2>2 DEF DetachOne, libraryVars
    <3> QED BY <3>1, RemoveSpares DEF FeederType
  <2>3. CASE PushChunk(t) \/ RepushChunk(t)
    BY <2>3 DEF PushChunk, RepushChunk, AcquireStream, LibraryType
  <2>4. CASE \/ WriterSeen(t) \/ ReadChunk(t) \/ ReadEof(t) \/ ReadTimeout(t) \/ CommitChunk(t)
             \/ CommitError(t) \/ AlreadyIdle(t) \/ IdleLock(t) \/ DetachedAll(t)
             \/ ReleaseCheck(t) \/ ReleaseHangUp(t)
    BY <2>4 DEF WriterSeen, ReadChunk, ReadEof, ReadTimeout, CommitChunk, CommitError, AlreadyIdle,
                IdleLock, DetachedAll, ReleaseCheck, ReleaseHangUp, Disconnect, libraryVars
  <2> QED BY <1>1, <2>1, <2>2, <2>3, <2>4 DEF Feeder
<1>2. ASSUME NEW c \in Caller, Continue(c)
      PROVE  \/ lock[s] = None /\ lock'[s] \in Caller
             \/ s \notin sources
             \/ Members(s)' = {}
  <2>1. job[c] \in Job /\ job[c].source \in Source /\ job[c].player \in Player
    BY <1>2, CallerMoves DEF Job
  <2>2. CASE EnterChange(c)
    BY <2>1, <2>2 DEF EnterChange, StopTransport, libraryVars, LibraryType, FeederType
  <2>3. CASE ChangeRemove(c) \/ DetachRemove(c)
    <3>1. RemoveClient(job[c].player)
      BY <2>3 DEF ChangeRemove, DetachRemove, libraryVars
    <3> QED BY <2>1, <3>1, RemoveSpares
  <2>4. CASE ChangeAdd(c)
    <3>1. group[job[c].player] \notin Source
      BY <2>4 DEF ChangeAdd, TakenOut, RoutingAssumption
    <3> QED BY <2>4, <3>1 DEF ChangeAdd, AddClient, libraryVars
  <2>5. CASE LeaveChange(c)
    BY <2>1, <2>5 DEF LeaveChange, AcquireStream, LibraryType
  <2>6. CASE ReleaseCheck(c) \/ ReleaseHangUp(c)
    BY <2>6 DEF ReleaseCheck, ReleaseHangUp, Disconnect, libraryVars
  <2>7. CASE StopStream(c)
    <3>1. s = job[c].source
      BY <2>1, <2>7 DEF StopStream, StopTransport, LibraryType
    <3> QED BY <2>7, <3>1 DEF StopStream, Popped
  <2> QED BY <1>2, <2>2, <2>3, <2>4, <2>5, <2>6, <2>7 DEF Continue
<1>3. ~ Request
  BY DEF Request, StartSource, StopSource, AttachPlayer, DetachPlayer, libraryVars
<1>4. CASE Environment
  <2>1. \E p \in Player : RemoveClient(p)
    BY <1>4 DEF Environment, WriterChanges, PlayerConnects, PlayerDrops, PlayerEvicted, Disconnect,
                libraryVars
  <2> QED BY <2>1, RemoveSpares
<1> QED BY <1>1, <1>2, <1>3, <1>4 DEF Next

\* As long as no two requests move one player at the same time, moving it away leaves the others of
\* its old group listening: a stream is cut only by its own feeder, a change of its own source, the
\* stop of its source, or when nobody is left (attach_player, remove then add).
THEOREM BystandersAreSpared == Spec /\ []NoTwoMoves => BystandersKeepListening
<1>1. Init => TakenOut /\ Popped
  BY DEF Init, TakenOut, Popped, RoutingAssumption
<1>2. TypeOK /\ NoTwoMoves /\ TakenOut /\ Popped /\ [Next]_vars => TakenOut' /\ Popped'
  <2>1. ASSUME TypeOK, NoTwoMoves, TakenOut, Popped, Next
        PROVE  TakenOut' /\ Popped'
    BY <2>1, StepTakenOut, StepPopped DEF TakenOut, Popped
  <2>2. ASSUME TakenOut, Popped, UNCHANGED vars
        PROVE  TakenOut' /\ Popped'
    BY <2>2 DEF TakenOut, Popped, vars, libraryVars
  <2> QED BY <2>1, <2>2
<1>3. TypeOK /\ TakenOut /\ Popped /\ [Next]_vars =>
        [\A s \in Source : live[s] /\ ~live'[s] =>
            \/ pc[s] = "goIdle"
            \/ lock[s] = None /\ lock'[s] \in Caller
            \/ s \notin sources
            \/ Members(s)' = {}]_vars
  BY StepSpares
<1> QED BY <1>1, <1>2, <1>3, TypeCorrect, PTL DEF Spec, BystandersKeepListening

-----------------------------------------------------------------------------
(* The server implements Broadcast: each audible step is one of its steps. *)

LEMMA TunedIs ==
  ASSUME UnitType
  PROVE  \A s \in Source : Promise!Tuned(s) = Members(s) \cap connected
  BY DEF Promise!Tuned, Members, UnitType

LEMMA KeepsAir ==
  ASSUME TypeOK, NEW s \in Source, Acquires(s)
  PROVE  Promise!Air(s)
<1> USE TypeParts
<1>1. \A t \in Source : (Streaming(t)' <=> Streaming(t) \/ t = s)
  BY DEF Acquires, AcquireStream, Streaming, LibraryType, FeederType
<1>2. roster'[s] = Promise!Tuned(s) /\ \A t \in Source \ {s} : roster'[t] = roster[t]
  BY TunedIs DEF Acquires, AcquireStream, LibraryType
<1>3. OnAir' = OnAir \cup {s}
  BY <1>1 DEF OnAir
<1>4. Hears' = [Hears EXCEPT ![s] = Promise!Tuned(s)]
  BY <1>1, <1>2 DEF Hears
<1> QED BY <1>3, <1>4 DEF Promise!Air, Acquires

LEMMA KeepsSilence ==
  ASSUME TypeOK, NEW s \in Source, Stops(s)
  PROVE  Promise!Silence(s) \/ UNCHANGED Promise!vars
<1> USE TypeParts
<1>1. \A t \in Source \ {s} : (Streaming(t)' <=> Streaming(t)) /\ roster'[t] = roster[t]
  BY DEF Stops, StopTransport, StopGroup, ForgetsStream, Streaming, LibraryType, FeederType
<1>2. ~Streaming(s)' \/ ((Streaming(s)' <=> Streaming(s)) /\ roster'[s] = roster[s])
  BY DEF Stops, StopTransport, StopGroup, ForgetsStream, Streaming, LibraryType, FeederType
<1>3. CASE ~Streaming(s)'
  <2>1. OnAir' = OnAir \ {s}
    BY <1>1, <1>3 DEF OnAir
  <2>2. Hears' = [Hears EXCEPT ![s] = {}]
    BY <1>1, <1>3 DEF Hears
  <2> QED BY <2>1, <2>2 DEF Promise!Silence, Stops
<1>4. CASE (Streaming(s)' <=> Streaming(s)) /\ roster'[s] = roster[s]
  <2>1. OnAir' = OnAir
    BY <1>1, <1>4 DEF OnAir
  <2>2. Hears' = Hears
    BY <1>1, <1>4 DEF Hears
  <2> QED BY <2>1, <2>2 DEF Promise!vars, Stops
<1> QED BY <1>2, <1>3, <1>4

LEMMA KeepsLeaving ==
  ASSUME TypeOK, HeardByMembers, NEW p \in Player, Leaves(p)
  PROVE  Promise!Tune(p, Solo)
<1> USE TypeParts
<1>1. Solo \notin OnAir
  BY DEF OnAir, RoutingAssumption
<1>2. group' = [group EXCEPT ![p] = Solo] /\ UNCHANGED connected
  BY DEF Leaves, RemoveClient
<1>3. \A t \in Source : t # group[p] =>
          (Streaming(t)' <=> Streaming(t)) /\ (Streaming(t) => roster'[t] = roster[t] \ {p})
  BY DEF Leaves, RemoveClient, Streaming
<1>4. \/ \A t \in Source : t = group[p] =>
             (Streaming(t)' <=> Streaming(t)) /\ (Streaming(t) => roster'[t] = roster[t] \ {p})
      \/ \A t \in Source : t = group[p] => ~Streaming(t)'
  BY DEF Leaves, RemoveClient, Streaming
<1>5. CASE \A t \in Source : t = group[p] =>
             (Streaming(t)' <=> Streaming(t)) /\ (Streaming(t) => roster'[t] = roster[t] \ {p})
  <2>1. OnAir' = OnAir
    BY <1>3, <1>5 DEF OnAir
  <2>2. Hears' = [t \in Source |-> Hears[t] \ {p}]
    BY <1>3, <1>5 DEF Hears
  <2> QED BY <1>1, <1>2, <2>1, <2>2 DEF Promise!Tune
<1>6. CASE \A t \in Source : t = group[p] => ~Streaming(t)'
  <2>1. \A t \in Source : t # group[p] /\ Streaming(t) => roster[t] \ {p} = roster[t]
    BY DEF HeardByMembers, Members
  <2>2. OnAir' = OnAir \ {group[p]}
    BY <1>3, <1>6 DEF OnAir
  <2>3. Hears' = [t \in Source |-> IF t = group[p] THEN {} ELSE Hears[t]]
    BY <1>3, <1>6, <2>1 DEF Hears
  <2> QED BY <1>1, <1>2, <2>2, <2>3 DEF Promise!Tune
<1> QED BY <1>4, <1>5, <1>6

LEMMA KeepsJoining ==
  ASSUME TypeOK, HeardByMembers, NEW s \in Source, NEW p \in Player, Joins(s, p)
  PROVE  Promise!Tune(p, s)
<1> USE TypeParts
<1>1. s \notin OnAir
  BY DEF OnAir, Joins
<1>2. group' = [group EXCEPT ![p] = s] /\ UNCHANGED connected
  BY DEF Joins, AddClient
<1>3. ~Streaming(s) /\ ~Streaming(s)'
  BY DEF Joins, AddClient, StopGroup, Streaming, LibraryType
<1>4. CASE group[p] \in Source \ {s}
  <2>1. \A t \in Source : IF t = group[p] THEN ~Streaming(t)'
                          ELSE (Streaming(t)' <=> Streaming(t)) /\ roster'[t] = roster[t]
    BY <1>4 DEF Joins, AddClient, StopGroup, Streaming, LibraryType
  <2>2. OnAir' = OnAir \ {group[p]}
    BY <2>1 DEF OnAir
  <2>3. Hears' = [t \in Source |-> IF t = group[p] THEN {} ELSE Hears[t]]
    BY <2>1 DEF Hears
  <2> QED BY <1>1, <1>2, <2>2, <2>3 DEF Promise!Tune
<1>5. CASE group[p] \notin Source \ {s}
  <2>1. UNCHANGED <<live, roster, ps>>
    BY <1>5 DEF Joins, AddClient
  <2>2. \A t \in Source : (Streaming(t)' <=> Streaming(t)) /\ roster'[t] = roster[t]
    BY <2>1 DEF Streaming
  <2>3. \A t \in Source : Streaming(t) => roster[t] \ {p} = roster[t]
    BY <1>3, <1>5 DEF HeardByMembers, Members
  <2>4. OnAir' = OnAir
    BY <2>2 DEF OnAir
  <2>5. Hears' = [t \in Source |-> Hears[t] \ {p}]
    BY <2>2, <2>3 DEF Hears
  <2> QED BY <1>1, <1>2, <2>4, <2>5 DEF Promise!Tune
<1> QED BY <1>4, <1>5

LEMMA KeepsGoing ==
  ASSUME TypeOK, NEW p \in Player, Goes(p)
  PROVE  Promise!Disconnect(p)
<1>1. \A t \in Source : (Streaming(t)' <=> Streaming(t)) /\ roster'[t] = roster[t] \ {p}
  BY DEF Goes, Disconnect, Streaming
<1>2. OnAir' = OnAir
  BY <1>1 DEF OnAir
<1>3. Hears' = [t \in Source |-> Hears[t] \ {p}]
  BY <1>1 DEF Hears
<1> QED BY <1>2, <1>3 DEF Promise!Disconnect, Goes, Disconnect

LEMMA KeepsComing ==
  ASSUME TypeOK, NEW p \in Player, Comes(p)
  PROVE  Promise!Connect(p)
<1>1. \A t \in Source : Streaming(t)' <=> Streaming(t)
  BY DEF Comes, Streaming
<1>2. \A t \in Source : Streaming(t) =>
          roster'[t] = IF group[p] = t THEN roster[t] \cup {p} ELSE roster[t]
  BY DEF Comes, Streaming
<1>3. OnAir' = OnAir
  BY <1>1 DEF OnAir
<1>4. Hears' = [t \in Source |-> IF t \in OnAir /\ group[p] = t THEN Hears[t] \cup {p} ELSE Hears[t]]
  BY <1>1, <1>2 DEF Hears, OnAir
<1> QED BY <1>3, <1>4 DEF Promise!Connect, Comes

LEMMA AudibleKeepsPromise ==
  ASSUME TypeOK, HeardByMembers, Audible
  PROVE  [Promise!Next]_(Promise!vars)
<1>1. ASSUME NEW s \in Source, Acquires(s) \/ Stops(s)
      PROVE  [Promise!Next]_(Promise!vars)
  BY <1>1, KeepsAir, KeepsSilence DEF Promise!Next
<1>2. ASSUME NEW p \in Player, Leaves(p) \/ Goes(p) \/ Comes(p)
      PROVE  [Promise!Next]_(Promise!vars)
  BY <1>2, KeepsLeaving, KeepsGoing, KeepsComing DEF Promise!Next
<1>3. ASSUME NEW s \in Source, NEW p \in Player, Joins(s, p)
      PROVE  [Promise!Next]_(Promise!vars)
  BY <1>3, KeepsJoining DEF Promise!Next
<1> QED BY <1>1, <1>2, <1>3 DEF Audible

\* Feeders, locks and requests together implement Broadcast.
THEOREM ServerKeepsPromise == Spec => KeepsPromise
<1>1. Init => Promise!Init
  BY DEF Init, Promise!Init, OnAir, Hears, Streaming
<1>2. IInv /\ [Next]_vars => [Promise!Next]_(Promise!vars)
  <2> SUFFICES ASSUME IInv, [Next]_vars PROVE [Promise!Next]_(Promise!vars)
    OBVIOUS
  <2>1. CASE Next
    BY <2>1, StepAudible, AudibleKeepsPromise DEF IInv
  <2>2. CASE UNCHANGED vars
    BY <2>2 DEF vars, libraryVars, feederVars, linkVars, Promise!vars, OnAir, Hears, Streaming
  <2> QED BY <2>1, <2>2
<1> QED BY <1>1, <1>2, Invariance, PTL DEF Spec, Promise!Spec, KeepsPromise
=============================================================================
