---------------------------- MODULE FollowProofs ----------------------------
(***************************************************************************)
(* Types of the follow loop, and why it leaves a choice alone, for any     *)
(* mesh, whatever its sources, its followers and their settings.           *)
(***************************************************************************)
EXTENDS FollowReconciler, LeastNumber, FiniteSetTheorems, TLAPS

-----------------------------------------------------------------------------
(* Smallest and busiest.                                                   *)

LEMMA MinIn ==
  ASSUME NEW S, S \subseteq Nat, S # {}
  PROVE  Min(S) \in S
  BY Smallest DEF Min

LEMMA SourcesAreNumbers == SourceId \subseteq Nat /\ \A t \in Target : t = <<t[1], t[2]>> /\ t[1] \in Unit
  BY FollowAssumption DEF SourceId

\* Of the active sources of a unit one is the busiest, the lowest id among equals.
LEMMA BusiestIn ==
  ASSUME NEW slice \in Slice, slice.active # {}
  PROVE  Busiest(slice) \in slice.active
<1> DEFINE size(s) == Cardinality(slice.crowd[s])
           room    == Cardinality(Speaker)
           spare   == {room - size(s) : s \in slice.active}
<1>1. slice.active \subseteq SourceId /\ slice.active \subseteq Nat
  BY SourcesAreNumbers DEF Slice
<1>2. \A s \in slice.active : size(s) \in Nat /\ size(s) <= room /\ room \in Nat
  <2>1. IsFiniteSet(Speaker)
    BY FollowAssumption, FS_Subset
  <2>2. \A s \in slice.active : slice.crowd[s] \subseteq Speaker
    BY <1>1 DEF Slice
  <2> QED BY <2>1, <2>2, FS_Subset, FS_CardinalityType
<1> HIDE DEF size, room
<1>3. PICK least \in spare : \A n \in spare : least <= n
  <2>1. spare \subseteq Nat
    BY <1>2
  <2>2. spare # {}
    OBVIOUS
  <2> HIDE DEF spare
  <2> QED BY <2>1, <2>2, Smallest
<1>4. PICK most \in slice.active : \A t \in slice.active : size(t) <= size(most)
  <2>1. PICK s \in slice.active : least = room - size(s)
    BY <1>3
  <2>2. \A t \in slice.active : room - size(s) <= room - size(t)
    BY <1>3, <2>1
  <2> QED BY <1>2, <2>2
<1> DEFINE equals == {s \in slice.active : size(s) = size(most)}
<1>5. PICK s \in equals : \A t \in equals : s <= t
  BY <1>1, Smallest
<1>6. \A t \in slice.active : size(s) > size(t) \/ (size(s) = size(t) /\ s <= t)
  BY <1>2, <1>4, <1>5
<1>7. \E x \in slice.active : \A t \in slice.active :
          size(x) > size(t) \/ (size(x) = size(t) /\ x <= t)
  BY <1>5, <1>6
<1> QED BY <1>7 DEF Busiest, size

-----------------------------------------------------------------------------
(* Type correctness.                                                       *)

\* The sources a slice shows as active are sources of its unit.
Owned ==
    \A p \in Speaker, v \in Unit :
        view[p][v] # None => \A s \in view[p][v].active : <<v, s>> \in Target

IType == TypeOK /\ Owned

WorldType ==
    /\ settings \in [Speaker -> Setting]
    /\ active \subseteq Target
    /\ at \in [Speaker -> Place]
    /\ fed \subseteq {p \in Speaker : at[p] = Foreign}

MeshType ==
    /\ selfReport \in [Unit -> Report]
    /\ view \in [Speaker -> [Unit -> Slice \cup {None}]]
    /\ \A p \in Speaker : view[p][p] # None
    /\ late \subseteq Speaker \X Call
    /\ Owned

LoopType ==
    /\ reported \in [Unit -> Unit \cup {None}]
    /\ last \in [Speaker -> Target \cup {None}]
    /\ prevActive \in [Speaker -> (SUBSET SourceId) \cup {None}]
    /\ overridden \in [Speaker -> BOOLEAN]
    /\ call \in [Speaker -> Call \cup {None}]

NoteType ==
    /\ chosen \in [Speaker -> Place \cup {Free}]
    /\ trouble \in 0 .. MaxTrouble

LEMMA TypeParts ==
  /\ IType <=> WorldType /\ MeshType /\ LoopType /\ NoteType
  /\ WorldType' /\ MeshType' /\ LoopType' /\ NoteType' => IType'
  BY DEF IType, TypeOK, WorldType, MeshType, LoopType, NoteType

LEMMA SpeakersAreUnits == Speaker \subseteq Unit /\ None \notin Unit
  BY FollowAssumption

LEMMA SameWorld == ASSUME WorldType, UNCHANGED worldVars PROVE WorldType'
  BY DEF WorldType, worldVars
LEMMA SameMesh == ASSUME MeshType, UNCHANGED meshVars PROVE MeshType'
  BY DEF MeshType, meshVars, Owned
LEMMA SameLoop == ASSUME LoopType, UNCHANGED loopVars PROVE LoopType'
  BY DEF LoopType, loopVars
LEMMA Disturbed == ASSUME NoteType, Disturb PROVE trouble' \in 0 .. MaxTrouble
  BY FollowAssumption DEF NoteType, Disturb
LEMMA SameNote == ASSUME NoteType, UNCHANGED chosen, UNCHANGED trouble \/ Disturb PROVE NoteType'
  BY Disturbed DEF NoteType

LEMMA WorldStepType ==
  ASSUME IType, World
  PROVE  IType'
<1> USE TypeParts
<1>1. ASSUME NEW t \in Target, SourceStarts(t)
      PROVE  IType'
  <2>1. WorldType'
    BY <1>1 DEF SourceStarts, WorldType
  <2> QED BY <1>1, <2>1, SameMesh, SameLoop, SameNote DEF SourceStarts
<1>2. ASSUME NEW t \in Target, SourceStops(t)
      PROVE  IType'
  <2>1. WorldType'
    BY <1>2, FollowAssumption DEF SourceStops, WorldType, Place
  <2> QED BY <1>2, <2>1, SameMesh, SameLoop, SameNote DEF SourceStops
<1>3. ASSUME NEW p \in Speaker, NEW w \in Target \cup {None}, PersonMoves(p, w)
      PROVE  IType'
  <2>1. WorldType'
    BY <1>3 DEF PersonMoves, WorldType, Place
  <2>2. NoteType'
    BY <1>3, Disturbed DEF PersonMoves, NoteType, Place
  <2> QED BY <1>3, <2>1, <2>2, SameMesh, SameLoop DEF PersonMoves
<1>4. ASSUME NEW p \in Speaker, ForeignFeeds(p) \/ ForeignParks(p)
      PROVE  IType'
  <2>1. WorldType'
    BY <1>4 DEF ForeignFeeds, ForeignParks, WorldType, Place
  <2>2. NoteType'
    BY <1>4, Disturbed DEF ForeignFeeds, ForeignParks, NoteType, Place
  <2> QED BY <1>4, <2>1, <2>2, SameMesh, SameLoop DEF ForeignFeeds, ForeignParks
<1>5. ASSUME NEW p \in Speaker, NEW cfg \in Setting, Configure(p, cfg)
      PROVE  IType'
  <2>1. WorldType'
    BY <1>5 DEF Configure, WorldType
  <2> QED BY <1>5, <2>1, SameMesh, SameLoop, SameNote DEF Configure
<1> QED BY <1>1, <1>2, <1>3, <1>4, <1>5 DEF World

\* What a unit says of itself is a slice, and the sources it says are active are its own.
SliceOf(reports, act, where, follows, v) ==
    [report  |-> reports[v],
     active  |-> {t[2] : t \in {x \in act : x[1] = v}},
     crowd   |-> [s \in SourceId |-> {p \in Speaker : where[p] = <<v, s>>}],
     follows |-> follows[v]]

LEMMA SliceType ==
  ASSUME NEW reports \in [Unit -> Report], NEW act \in SUBSET Target, NEW where,
         NEW follows \in [Unit -> Unit \cup {None}], NEW v \in Unit
  PROVE  LET slice == SliceOf(reports, act, where, follows, v)
         IN  slice \in Slice /\ slice # None /\ \A s \in slice.active : <<v, s>> \in Target
<1> DEFINE slice == SliceOf(reports, act, where, follows, v)
<1>1. {t[2] : t \in {x \in act : x[1] = v}} \subseteq SourceId
  BY DEF SourceId
<1>2. [s \in SourceId |-> {p \in Speaker : where[p] = <<v, s>>}] \in [SourceId -> SUBSET Speaker]
  OBVIOUS
<1>3. \A t \in act : t[1] = v => <<v, t[2]>> \in Target
  BY SourcesAreNumbers
<1>4. slice \in Slice
  BY <1>1, <1>2 DEF SliceOf, Slice
<1>5. slice # None
  <2> HIDE DEF slice
  <2> QED BY <1>4, FollowAssumption
<1>6. \A s \in slice.active : <<v, s>> \in Target
  BY <1>3 DEF SliceOf
<1> QED BY <1>4, <1>5, <1>6

LEMMA SnapshotType ==
  ASSUME IType, NEW v \in Unit
  PROVE  /\ Snapshot(v) \in Slice /\ Snapshot(v) # None
         /\ \A s \in Snapshot(v).active : <<v, s>> \in Target
<1> USE TypeParts
<1>1. Snapshot(v) = SliceOf(selfReport, active, at, reported, v)
  BY DEF Snapshot, SliceOf
<1>2. /\ selfReport \in [Unit -> Report] /\ active \in SUBSET Target
      /\ reported \in [Unit -> Unit \cup {None}]
  BY DEF MeshType, WorldType, LoopType
<1> QED BY <1>1, <1>2, SliceType

LEMMA RelayStepType ==
  ASSUME IType, Relay
  PROVE  IType'
<1> USE TypeParts
<1>1. ASSUME NEW p \in Speaker, PlayerReports(p)
      PROVE  IType'
  <2>1. [where |-> at[p], playing |-> at[p] \in active \/ p \in fed] \in Report
    BY DEF WorldType, Report
  <2>2. MeshType'
    BY <1>1, <2>1, SpeakersAreUnits DEF PlayerReports, MeshType, Owned
  <2> QED BY <1>1, <2>2, SameWorld, SameLoop, SameNote DEF PlayerReports
<1>2. ASSUME NEW p \in Speaker, NEW v \in Unit, Fetch(p, v)
      PROVE  IType'
  <2>1. view' = [view EXCEPT ![p] = [view[p] EXCEPT ![v] = Snapshot(v)]]
    BY <1>2 DEF Fetch, MeshType
  <2>2. Snapshot(v) # None
    BY SnapshotType, FollowAssumption
  <2>3. MeshType'
    BY <1>2, <2>1, <2>2, SnapshotType, SpeakersAreUnits DEF Fetch, MeshType, Owned
  <2> QED BY <1>2, <2>3, SameWorld, SameLoop, SameNote DEF Fetch
<1>3. ASSUME NEW p \in Speaker, NEW v \in Unit, FetchFails(p, v)
      PROVE  IType'
  <2>1. view' = [view EXCEPT ![p] = [view[p] EXCEPT ![v] = None]]
    BY <1>3 DEF FetchFails, MeshType
  <2>2. MeshType'
    BY <1>3, <2>1, SpeakersAreUnits DEF FetchFails, MeshType, Owned
  <2> QED BY <1>3, <2>2, SameWorld, SameLoop, SameNote DEF FetchFails
<1> QED BY <1>1, <1>2, <1>3 DEF Relay

LEMMA RefreshStepType ==
  ASSUME IType, NEW units, RefreshOf(units)
  PROVE  IType'
<1> USE TypeParts
<1>1. WorldType' /\ LoopType' /\ NoteType'
  BY SameWorld, SameLoop, SameNote DEF RefreshOf
<1>2. selfReport' \in [Unit -> Report]
  BY DEF RefreshOf, MeshType, WorldType, Report
<1>3. ASSUME NEW v \in Unit
      PROVE  /\ Snapshot(v)' \in Slice /\ Snapshot(v)' # None
             /\ \A s \in Snapshot(v)'.active : <<v, s>> \in Target
  <2>1. active' \in SUBSET Target /\ reported' \in [Unit -> Unit \cup {None}]
    BY <1>1 DEF WorldType, LoopType
  <2>2. Snapshot(v)' = SliceOf(selfReport', active', at', reported', v)
    BY DEF Snapshot, SliceOf
  <2> QED BY <1>2, <2>1, <2>2, SliceType
<1>4. view' = [p \in Speaker |-> IF p \in units THEN [v \in Unit |-> Snapshot(v)'] ELSE view[p]]
      /\ late' = late
  BY DEF RefreshOf
<1>5. MeshType'
  BY <1>2, <1>3, <1>4, SpeakersAreUnits DEF MeshType, Owned
<1> QED BY <1>1, <1>5

-----------------------------------------------------------------------------
(* What a tick reads and asks for.                                         *)

LEMMA TargetIsRead ==
  ASSUME NEW vw, NEW u
  PROVE  PlayerTarget(vw, u) \in Target \cup {None}
  BY DEF PlayerTarget, OnActive, OnMesh

LEMMA LeaderIsRead ==
  ASSUME IType, NEW p \in Speaker, Master(p) # None
  PROVE  Leader(p) \in Target \cup {None}
<1> USE TypeParts
<1> DEFINE m == Master(p)
<1>1. m \in Unit
  BY DEF WorldType, Setting, Master
<1>2. CASE view[p][m] = None \/ m \in Speaker
  BY <1>2, TargetIsRead DEF Leader, LeaderTarget
<1>3. CASE view[p][m] # None /\ m \notin Speaker
  <2>1. view[p][m] \in Slice /\ \A s \in view[p][m].active : <<m, s>> \in Target
    BY <1>1, <1>3 DEF MeshType, Owned
  <2>2. view[p][m].active # {} => Busiest(view[p][m]) \in view[p][m].active
    BY <2>1, BusiestIn
  <2> QED BY <1>3, <2>1, <2>2 DEF Leader, LeaderTarget
<1> QED BY <1>2, <1>3

LEMMA GrabIsOwn ==
  ASSUME IType, NEW p \in Speaker, NewlyActive(p) # {}
  PROVE  <<p, Min(NewlyActive(p))>> \in Target
<1> USE TypeParts
<1>1. view[p][p] \in Slice /\ \A s \in view[p][p].active : <<p, s>> \in Target
  BY SpeakersAreUnits DEF MeshType, Owned
<1>2. NewlyActive(p) \subseteq view[p][p].active
  BY DEF NewlyActive, Own
<1>3. NewlyActive(p) \subseteq Nat
  BY <1>1, <1>2, SourcesAreNumbers DEF Slice
<1> QED BY <1>1, <1>2, <1>3, MinIn

LEMMA TickStepType ==
  ASSUME IType, NEW p \in Speaker, Tick(p)
  PROVE  IType'
<1> USE TypeParts
<1>1. Look(p)
  BY DEF Tick, GrabLocal, StandDown, ResetWithMaster, FollowIntoIdle, LeaveAlone, InSync, Override,
         Chase, FollowTick
<1>2. WorldType' /\ MeshType' /\ trouble' = trouble
  BY <1>1, SameWorld, SameMesh DEF Look
<1>3. prevActive' \in [Speaker -> (SUBSET SourceId) \cup {None}]
  <2>1. Own(p) \in SUBSET SourceId
    BY SpeakersAreUnits DEF Own, MeshType, Slice
  <2> QED BY <1>1, <2>1 DEF Look, LoopType
<1>4. Master(p) \in Unit \cup {None} /\ p \in Unit /\ Current(p) \in Target \cup {None}
  BY SpeakersAreUnits, TargetIsRead DEF Master, WorldType, Setting, Current
<1>5. CASE GrabLocal(p)
  <2>1. [op |-> "grab", to |-> <<p, Min(NewlyActive(p))>>] \in Call
    BY <1>5, GrabIsOwn DEF GrabLocal, Grabs, Call
  <2> QED BY <1>2, <1>3, <1>5, <2>1 DEF GrabLocal, LoopType, NoteType
<1>6. CASE StandDown(p)
  BY <1>2, <1>3, <1>4, <1>6 DEF StandDown, LoopType, NoteType
<1>7. CASE FollowTick(p) /\ ~ GrabLocal(p) /\ ~ StandDown(p)
  <2>1. Leader(p) \in Target \cup {None}
    BY <1>7, LeaderIsRead DEF FollowTick
  <2>2. reported' \in [Unit -> Unit \cup {None}]
    BY <1>4, <1>7 DEF FollowTick, LoopType
  <2>3. CASE ResetWithMaster(p) \/ LeaveAlone(p) \/ InSync(p) \/ Override(p)
    BY <1>2, <1>3, <2>1, <2>2, <2>3
    DEF ResetWithMaster, LeaveAlone, InSync, Override, LoopType, NoteType
  <2>4. CASE FollowIntoIdle(p)
    <3>1. [op |-> "unroute", to |-> Current(p)] \in Call
      BY <1>4, <2>4 DEF FollowIntoIdle, Call
    <3> QED BY <1>2, <1>3, <2>2, <2>4, <3>1 DEF FollowIntoIdle, LoopType, NoteType
  <2>5. CASE Chase(p)
    <3>1. [op |-> "route", to |-> Leader(p)] \in Call
      BY <2>1, <2>5 DEF Chase, Call
    <3> QED BY <1>2, <1>3, <2>2, <2>5, <3>1 DEF Chase, LoopType, NoteType
  <2> QED BY <1>7, <2>3, <2>4, <2>5 DEF Tick
<1> QED BY <1>5, <1>6, <1>7 DEF Tick, ResetWithMaster, FollowIntoIdle, LeaveAlone, InSync, Override, Chase

LEMMA ExecuteType ==
  ASSUME WorldType, NEW p \in Speaker, NEW c \in Call, Execute(p, c)
  PROVE  WorldType'
<1>1. Lands(p, c) \in Place
  BY DEF Lands, Call, Place, WorldType
<1> QED BY <1>1 DEF Execute, WorldType

LEMMA CallStepType ==
  ASSUME IType, NEW p \in Speaker, CallEnds(p)
  PROVE  IType'
<1> USE TypeParts
<1>1. call[p] # None /\ call[p] \in Call
  BY DEF CallEnds, CallReturns, CallRefused, CallTimesOut, LoopType
<1>2. call[p].to \in Target
  BY <1>1 DEF Call
<1>3. CASE CallReturns(p)
  <2>1. WorldType' /\ MeshType'
    BY <1>1, <1>3, ExecuteType, SameMesh DEF CallReturns
  <2>2. LoopType' /\ NoteType'
    BY <1>2, <1>3 DEF CallReturns, LoopType, NoteType, Place
  <2> QED BY <2>1, <2>2
<1>4. CASE CallRefused(p)
  <2>1. LoopType'
    BY <1>4 DEF CallRefused, LoopType
  <2> QED BY <1>4, <2>1, SameWorld, SameMesh, SameNote DEF CallRefused
<1>5. CASE CallTimesOut(p)
  <2>1. LoopType'
    BY <1>5 DEF CallTimesOut, LoopType
  <2>2. MeshType'
    BY <1>1, <1>5 DEF CallTimesOut, MeshType, Owned
  <2> QED BY <1>5, <2>1, <2>2, SameWorld, SameNote DEF CallTimesOut
<1> QED BY <1>3, <1>4, <1>5 DEF CallEnds

LEMMA LateStepType ==
  ASSUME IType, NEW r \in late, LateLands(r)
  PROVE  IType'
<1> USE TypeParts
<1>1. r[1] \in Speaker /\ r[2] \in Call
  BY DEF MeshType
<1>2. WorldType'
  BY <1>1, ExecuteType DEF LateLands
<1>3. MeshType'
  BY DEF LateLands, MeshType, Owned
<1> QED BY <1>2, <1>3, SameLoop, SameNote DEF LateLands

LEMMA StutterType == IType /\ UNCHANGED vars => IType'
  BY TypeParts, SameWorld, SameMesh, SameLoop, SameNote DEF vars

LEMMA StepType == IType /\ [Next]_vars => IType'
  BY WorldStepType, RelayStepType, TickStepType, CallStepType, LateStepType, StutterType DEF Next

LEMMA InitType == Init => IType
<1> SUFFICES ASSUME Init PROVE IType
  OBVIOUS
<1>1. Unattached \in Report
  BY DEF Unattached, Report, Place
<1>2. Boot \in Slice /\ Boot.active = {}
  BY <1>1 DEF Boot, Slice
<1>3. Boot # None
  BY <1>2, FollowAssumption
<1>4. WorldType /\ LoopType
  BY DEF Init, WorldType, LoopType, Place
<1>5. MeshType
  BY <1>1, <1>2, <1>3, SpeakersAreUnits DEF Init, MeshType, Owned
<1>6. NoteType
  BY FollowAssumption DEF Init, NoteType
<1> QED BY <1>4, <1>5, <1>6, TypeParts

\* Every variable of the mesh and of its follow loops has its type; the source a tick goes for
\* exists, however old the view is it was read from (mesh/follow.py, tick).
THEOREM TypeCorrect == Spec => []TypeOK
<1>1. IType => TypeOK
  BY DEF IType
<1> QED BY <1>1, InitType, StepType, PTL DEF Spec

-----------------------------------------------------------------------------
(* A choice stands, on views that are in time.                             *)

\* Where the loop put a player is no choice of a person.
Apart == \A p \in Speaker : chosen[p] # last[p]

\* No call is awaited that would take a player from where a person has it.
Minded ==
    \A p \in Speaker : call[p] # None =>
        call[p].op # "grab" /\ (chosen[p] = Foreign \/ chosen[p] # Playing(p))

ChoiceInv == IType /\ LocalOff /\ Apart /\ Minded

\* What a fresh view says of a player is where it is.
LEMMA SeenAsItIs ==
  ASSUME IType, Fresh, NEW p \in Speaker, NEW u \in Speaker
  PROVE  PlayerTarget(view[p], u) = IF at[u] \in active THEN at[u] ELSE None
<1> USE TypeParts
<1>1. \A v \in Unit : view[p][v] = Snapshot(v) /\ view[p][v] # None
  BY SnapshotType DEF Fresh
<1> DEFINE ActiveOf(v) == {t[2] : t \in {x \in active : x[1] = v}}
<1>0. \A v \in Unit : Snapshot(v).report = selfReport[v] /\ Snapshot(v).active = ActiveOf(v)
  BY DEF Snapshot
<1>2. view[p][u].report.where = at[u]
  <2>1. view[p][u].report = selfReport[u]
    BY <1>0, <1>1, SpeakersAreUnits
  <2> QED BY <2>1 DEF Fresh
<1>3. ASSUME at[u] \in Target
      PROVE  at[u][2] \in view[p][at[u][1]].active <=> at[u] \in active
  <2>1. at[u] = <<at[u][1], at[u][2]>> /\ at[u][1] \in Unit
    BY <1>3, SourcesAreNumbers
  <2>2. view[p][at[u][1]].active = ActiveOf(at[u][1])
    <3> HIDE DEF ActiveOf
    <3> QED BY <1>0, <1>1, <2>1
  <2>3. \A x \in active : x = <<x[1], x[2]>>
    BY SourcesAreNumbers DEF WorldType
  <2> QED BY <2>1, <2>2, <2>3
<1>4. at[u] \in Target => view[p][at[u][1]] # None
  BY <1>1, SourcesAreNumbers
<1>5. active \subseteq Target
  BY DEF WorldType
<1> QED BY <1>1, <1>2, <1>3, <1>4, <1>5, SpeakersAreUnits DEF PlayerTarget, OnActive, OnMesh

LEMMA LeaderSeen ==
  ASSUME IType, Fresh, NEW p \in Speaker, Master(p) # None
  PROVE  Leader(p) = LeaderAt(Master(p))
<1> USE TypeParts
<1>1. Master(p) \in Unit
  BY DEF WorldType, Setting, Master
<1>2. view[p][Master(p)] = Snapshot(Master(p)) /\ view[p][Master(p)] # None
  BY <1>1, SnapshotType DEF Fresh
<1> QED BY <1>2, SeenAsItIs DEF Leader, LeaderTarget, LeaderAt

\* What a player plays is what its own view says, but for a foreign server's.
LEMMA PlaysWhatIsSeen ==
  ASSUME IType, Fresh, NEW p \in Speaker, Playing(p) # Foreign
  PROVE  Playing(p) = Current(p)
<1> USE TypeParts
<1>1. p \notin fed
  BY DEF WorldType, Playing
<1> QED BY <1>1, SeenAsItIs DEF Playing, Current

LEMMA WorldMinds ==
  ASSUME ChoiceInv, PromptWorld
  PROVE  LocalOff' /\ Apart' /\ Minded'
<1> USE TypeParts DEF ChoiceInv
<1>1. UNCHANGED <<loopVars, settings>> /\ \A p \in Speaker : call[p] = None
  BY DEF PromptWorld, Still, SourceStarts, SourceStops, PersonMoves, ForeignFeeds, ForeignParks
<1>2. Minded' /\ LocalOff'
  BY <1>1 DEF Minded, LocalOff, loopVars
<1>3. \/ UNCHANGED chosen
      \/ \E p \in Speaker : chosen' = [chosen EXCEPT ![p] = Foreign]
      \/ \E p \in Speaker, w \in Target \cup {None} :
            chosen' = [chosen EXCEPT ![p] = IF w = last[p] THEN Free ELSE w]
  BY DEF PromptWorld, SourceStarts, SourceStops, PersonMoves, ForeignFeeds, ForeignParks
<1>4. Apart'
  BY <1>1, <1>3, FollowAssumption DEF Apart, loopVars, LoopType, NoteType
<1> QED BY <1>2, <1>4

LEMMA TickMinds ==
  ASSUME ChoiceInv, Fresh, NEW p \in Speaker, Tick(p)
  PROVE  LocalOff' /\ Apart' /\ Minded'
<1> USE TypeParts DEF ChoiceInv
<1>1. Look(p) /\ ~ Grabs(p)
  BY DEF Tick, GrabLocal, StandDown, ResetWithMaster, FollowIntoIdle, LeaveAlone, InSync, Override,
         Chase, FollowTick, LocalOff, Grabs
<1>2. UNCHANGED worldVars /\ call[p] = None
  BY <1>1 DEF Look
<1>3. LocalOff' /\ \A q \in Speaker : Playing(q)' = Playing(q)
  BY <1>2 DEF LocalOff, Playing, worldVars
<1>4. CASE StandDown(p) \/ InSync(p)
  <2>1. chosen' = [chosen EXCEPT ![p] = Free] /\ UNCHANGED call
        /\ \E t \in Target \cup {None} : last' = [last EXCEPT ![p] = t]
    BY <1>4, LeaderIsRead DEF StandDown, InSync, FollowTick, LoopType
  <2> QED BY <1>2, <1>3, <2>1, FollowAssumption DEF Apart, Minded, NoteType, LoopType
<1>5. CASE ResetWithMaster(p)
  <2>1. LeaderAt(Master(p)) = None
    BY <1>5, LeaderSeen DEF ResetWithMaster, FollowTick
  <2>2. chosen' = [chosen EXCEPT ![p] = Free] /\ last' = [last EXCEPT ![p] = None] /\ UNCHANGED call
    BY <1>5, <2>1 DEF ResetWithMaster
  <2> QED BY <1>2, <1>3, <2>2, FollowAssumption DEF Apart, Minded, NoteType, LoopType
<1>6. CASE LeaveAlone(p) \/ Override(p)
  BY <1>3, <1>6 DEF LeaveAlone, Override, Apart, Minded
<1>7. CASE FollowIntoIdle(p) \/ Chase(p)
  <2>1. UNCHANGED <<last, chosen>> /\ Current(p) = last[p]
    BY <1>7 DEF FollowIntoIdle, Chase
  <2>2. chosen[p] = Foreign \/ chosen[p] # Playing(p)
    BY <2>1, PlaysWhatIsSeen DEF Apart
  <2>3. \E t \in Target \cup {None}, op \in {"route", "unroute"} :
            call' = [call EXCEPT ![p] = [op |-> op, to |-> t]]
    BY <1>7, LeaderIsRead, TargetIsRead DEF FollowIntoIdle, Chase, FollowTick, Current
  <2> QED BY <1>3, <2>1, <2>2, <2>3 DEF Apart, Minded, LoopType
<1> QED BY <1>1, <1>4, <1>5, <1>6, <1>7 DEF Tick, GrabLocal

LEMMA EndMinds ==
  ASSUME ChoiceInv, NEW p \in Speaker, CallReturns(p) \/ CallRefused(p)
  PROVE  LocalOff' /\ Apart' /\ Minded'
<1> USE TypeParts DEF ChoiceInv
<1>1. call[p] # None /\ call[p] \in Call /\ call[p].op # "grab" /\ call' = [call EXCEPT ![p] = None]
  BY DEF CallReturns, CallRefused, LoopType, Minded
<1>2. LocalOff' /\ UNCHANGED active
  BY DEF CallReturns, CallRefused, Execute, worldVars, LocalOff
<1>3. \A q \in Speaker \ {p} : at'[q] = at[q] /\ (q \in fed' <=> q \in fed) /\ chosen'[q] = chosen[q]
  BY DEF CallReturns, CallRefused, Execute, worldVars, WorldType, NoteType
<1>4. Minded'
  BY <1>1, <1>2, <1>3 DEF Minded, Playing, LoopType
<1>5. Apart'
  <2>1. CASE CallReturns(p)
    <3>1. chosen' = [chosen EXCEPT ![p] = Free]
      BY <1>1, <2>1 DEF CallReturns
    <3>2. \E t \in Target \cup {None} : last' = [last EXCEPT ![p] = t]
      BY <1>1, <2>1 DEF CallReturns, Call
    <3> QED BY <3>1, <3>2, FollowAssumption DEF Apart, NoteType, LoopType
  <2>2. CASE CallRefused(p)
    BY <2>2 DEF CallRefused, Apart
  <2> QED BY <2>1, <2>2
<1> QED BY <1>2, <1>4, <1>5

LEMMA PromptStep ==
  ASSUME ChoiceInv, PromptNext
  PROVE  ChoiceInv'
<1>1. CASE PromptWorld
  <2>1. World
    BY <1>1 DEF PromptWorld, World
  <2> QED BY <1>1, <2>1, WorldStepType, WorldMinds DEF ChoiceInv
<1>2. CASE PromptTick
  BY <1>2, TickStepType, TickMinds DEF PromptTick, ChoiceInv
<1>3. CASE PromptEnd
  BY <1>3, CallStepType, EndMinds DEF PromptEnd, CallEnds, ChoiceInv
<1>4. ASSUME NEW p \in Speaker, NEW m \in Unit \cup {None}, Configure(p, Follow(m))
      PROVE  ChoiceInv'
  <2>1. Follow(m) \in Setting /\ Follow(m).local = FALSE
    BY DEF Follow, Setting
  <2>2. IType'
    BY <1>4, <2>1, WorldStepType DEF World, ChoiceInv
  <2>3. LocalOff'
    BY <1>4, <2>1, TypeParts DEF Configure, LocalOff, ChoiceInv, WorldType
  <2>4. Apart' /\ Minded'
    BY <1>4 DEF Configure, Apart, Minded, Playing, ChoiceInv, loopVars
  <2> QED BY <2>2, <2>3, <2>4 DEF ChoiceInv
<1>5. CASE Relay \/ \E units \in SUBSET Speaker : RefreshOf(units)
  <2>1. IType'
    BY <1>5, RelayStepType, RefreshStepType DEF ChoiceInv
  <2>2. UNCHANGED <<worldVars, loopVars, chosen>>
    BY <1>5 DEF Relay, PlayerReports, Fetch, FetchFails, RefreshOf, worldVars
  <2>3. LocalOff' /\ Apart' /\ Minded'
    BY <2>2 DEF LocalOff, Apart, Minded, Playing, ChoiceInv, worldVars, loopVars
  <2> QED BY <2>1, <2>3 DEF ChoiceInv
<1> QED BY <1>1, <1>2, <1>3, <1>4, <1>5 DEF PromptNext

\* As long as polls are in time, local activity is off and nobody moves the player while a call is
\* awaited, follow takes no player from the source, or the none, where a person has put it, until a
\* documented reset; whatever leaders, foreign servers and settings do (mesh/follow.py, tick).
THEOREM ChoiceAlwaysStands == PromptSpec => ChoiceStands
<1>1. Init /\ LocalOff => ChoiceInv
  BY InitType, FollowAssumption DEF Init, ChoiceInv, Apart, Minded
<1>2. ChoiceInv /\ [PromptNext]_vars => ChoiceInv'
  <2>1. ASSUME ChoiceInv, UNCHANGED vars
        PROVE  ChoiceInv'
    BY <2>1, StutterType DEF ChoiceInv, LocalOff, Apart, Minded, Playing, vars, worldVars, loopVars
  <2> QED BY <2>1, PromptStep
<1>3. ChoiceInv => \A p \in Speaker : LoopMoves(p) /\ call[p].op # "grab" /\ chosen[p] # Foreign
                       => chosen[p] # Playing(p)
  BY DEF ChoiceInv, Minded, LoopMoves
<1> QED BY <1>1, <1>2, <1>3, PTL DEF PromptSpec, ChoiceStands
=============================================================================
