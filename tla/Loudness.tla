------------------------------ MODULE Loudness ------------------------------
(***************************************************************************)
(* LoudnessReconciler (backend/scripts/mesh/loudness.py): the unit that    *)
(* owns a source holds the calibrated speakers of its group at one         *)
(* loudness, and takes a difference between what it commanded and what the *)
(* polled view reports for a person's hand on a slider.                    *)
(*                                                                         *)
(* No call in a cycle waits for anything (SendspinEngine.set_player_volume *)
(* runs to its end), so a cycle is one step; the polled one and the nudged *)
(* one only alternate.  Volumes and decibels are small integers and a      *)
(* curve is an offset: calibration.py keeps the two monotone in each other *)
(***************************************************************************)
EXTENDS Integers, FiniteSets

CONSTANTS Speaker,
          Foreign,      \* those that may be third-party speakers
          Louder,       \* how much louder than the reference each calibrated speaker is
          Trim,         \* its trim_db
          Ceiling,      \* its effective_max_volume
          Following,    \* the speakers of this unit and of those that follow it
          MaxVolume,
          MaxMoves,     \* bound: what people do
          Careful,      \* bound: nobody turns a speaker off, or one up that is matched to none
          None

Volume  == 0..MaxVolume
Silent  == 0            \* anything below MIN_REFERENCE_VOLUME

VARIABLES deaf,         \* speakers that go on reporting the level they connected with
          level,        \* how loud each speaker is
          reported,     \* what its server was last told
          members,      \* the source's group
          view,         \* both, as they were last polled
          mode,         \* settings: MatchPolicy
          tone,         \* the speaker a calibration tone has
          commanded, unconfirmed, target, intent, nudge,
          moves,        \* bound: what people have done
          hand          \* history: the level last set by hand in a group that is matched

Echoing == Speaker \ deaf

memory == <<commanded, unconfirmed, target, intent>>
vars == <<deaf, level, reported, members, view, mode, tone, memory, nudge, moves, hand>>

TypeOK ==
    /\ deaf \subseteq Foreign
    /\ {level, reported} \subseteq [Speaker -> Volume]
    /\ members \subseteq Speaker
    /\ view \in [members : SUBSET Speaker, level : [Speaker -> Volume]]
    /\ mode \in {"off", "stream", "follow"}
    /\ tone \in Speaker \cup {None} /\ tone \notin members
    /\ commanded \in [Speaker -> Volume \cup {None}]
    /\ unconfirmed \subseteq {p \in Speaker : commanded[p] # None}
    /\ target \in Int \cup {None}
    /\ {intent, hand} \subseteq [speaker : Speaker, volume : Volume] \cup {None}
    /\ nudge \in BOOLEAN
    /\ moves \in 0..MaxMoves

-----------------------------------------------------------------------------
(* The arithmetic of calibration.py.                                       *)

Calibrated == DOMAIN Louder

Clamped(v, top) == IF v < 0 THEN 0 ELSE IF v > top THEN top ELSE v

\* target_db_for: predict_db without the speaker's own trim.
TargetFor(p, v) == v + Louder[p] - Trim[p]

\* match_volume: the inverse, with trim and ceiling.
MatchVolume(p, t) == Clamped(t + Trim[p] - Louder[p], Ceiling[p])

\* matching_partition: who tracks whom; fewer than two track nobody.
Partition(players, policy) ==
    LET subset == CASE policy = "off"    -> {}
                    [] policy = "stream" -> players
                    [] policy = "follow" -> players \cap Following
    IN  IF Cardinality(subset) < 2 THEN {} ELSE subset

-----------------------------------------------------------------------------

Init ==
    /\ deaf \in SUBSET Foreign
    /\ level \in [Speaker -> 1..MaxVolume]
    /\ reported = level
    /\ members = Speaker
    /\ view = [members |-> members, level |-> level]
    /\ mode = "stream"
    /\ tone = None
    /\ commanded = [p \in Speaker |-> None]
    /\ unconfirmed = {}
    /\ target = None /\ intent = None /\ nudge = FALSE
    /\ moves = 0 /\ hand = None

Tracked == Partition(members, mode) \cap Calibrated

Scoped == Partition(view.members, mode)
Usable == Scoped \cap Calibrated

\* Bounds: a person waits for the reports of the last move, another controller for the matcher.
CaughtUp == /\ \A p \in Echoing : reported[p] = level[p] /\ commanded[p] \in {level[p], None}
            /\ view = [members |-> members, level |-> reported]

Moves ==
    /\ CaughtUp /\ ~nudge /\ moves < MaxMoves
    /\ moves' = moves + 1

Matched == Cardinality(Tracked) > 1 =>
             /\ target # None
             /\ \A p \in Tracked \cap Echoing : level[p] = MatchVolume(p, target)
             /\ hand # None /\ hand.speaker \in Tracked => level[hand.speaker] = hand.volume

Rest == /\ CaughtUp /\ Matched /\ intent = None
        /\ \A p \in Tracked : commanded[p] = level[p] /\ p \notin unconfirmed

\* POST /api/mesh/volume: the server sets the level, and note_user_volume hands it to the matcher.
ByHand(p, v) ==
    /\ Moves /\ p # tone
    /\ Careful => p \in Tracked /\ v # Silent
    /\ level' = [level EXCEPT ![p] = v]
    /\ intent' = [speaker |-> p, volume |-> v]
    /\ nudge' = TRUE
    /\ hand' = IF p \in Tracked THEN intent' ELSE hand
    /\ UNCHANGED <<deaf, reported, members, view, mode, tone, commanded, unconfirmed, target>>

\* A controller of somebody else's commands one of our players.
Elsewhere(p, v) ==
    /\ Moves /\ Rest /\ p \in Echoing /\ p # tone /\ v # level[p] /\ v # Silent
    /\ level' = [level EXCEPT ![p] = v]
    /\ hand' = IF p \in Tracked THEN [speaker |-> p, volume |-> v] ELSE hand
    /\ UNCHANGED <<deaf, reported, members, view, mode, tone, memory, nudge>>

Joins(p) ==
    /\ Moves /\ tone = None /\ p \notin members
    /\ members' = members \cup {p}
    /\ reported' = [reported EXCEPT ![p] = level[p]]
    /\ UNCHANGED <<deaf, level, view, mode, tone, memory, nudge, hand>>

Leaves(p) ==
    /\ Moves /\ p \in members
    /\ members' = members \ {p}
    /\ hand' = IF hand = None \/ hand.speaker = p \/ Cardinality(Tracked \ {p}) < 2
               THEN None ELSE hand
    /\ UNCHANGED <<deaf, level, reported, view, mode, tone, memory, nudge>>

\* The calibration tone has p to itself for longer than a poll and a cycle take, and puts it back;
\* bound: p has reported its level by the time it is in the view again.
ToneStarts(p, v) ==
    /\ Moves /\ tone = None /\ p \in members \cap Echoing
    /\ tone' = p
    /\ members' = members \ {p}
    /\ level' = [level EXCEPT ![p] = v]
    /\ hand' = None
    /\ UNCHANGED <<deaf, reported, view, mode, memory, nudge>>

ToneEnds(v) ==
    /\ tone \notin {None} \cup view.members
    /\ \A p \in Speaker \ Scoped : commanded[p] = None
    /\ tone' = None
    /\ members' = members \cup {tone}
    /\ level' = [level EXCEPT ![tone] = v]
    /\ reported' = level'
    /\ UNCHANGED <<deaf, view, mode, memory, nudge, moves, hand>>

PolicySet(policy) ==
    /\ Moves /\ policy # mode
    /\ mode' = policy
    /\ hand' = None
    /\ UNCHANGED <<deaf, level, reported, members, view, tone, memory, nudge>>

Echo(p) ==
    /\ p \in Echoing
    /\ reported' = [reported EXCEPT ![p] = level[p]]
    /\ UNCHANGED <<deaf, level, members, view, mode, tone, memory, nudge, moves, hand>>

Polled ==
    /\ view' = [members |-> members, level |-> reported]
    /\ UNCHANGED <<deaf, level, reported, members, mode, tone, memory, nudge, moves, hand>>

-----------------------------------------------------------------------------
(* One cycle: _reconcile_group between the reads and the pruning of tick.  *)

Stated == intent # None /\ Cardinality(Usable) > 1 /\ intent.speaker \in Usable

Levels == IF Stated THEN [view.level EXCEPT ![intent.speaker] = intent.volume] ELSE view.level

\* Those whose echo is still out.
Awaited == unconfirmed \ {p \in Usable : Levels[p] = commanded[p]}

Gap(p) == IF Levels[p] < commanded[p] THEN commanded[p] - Levels[p] ELSE Levels[p] - commanded[p]
Moved  == {p \in Usable \ (Awaited \cup {tone}) : commanded[p] # None /\ Gap(p) > 0}

\* Who sets the target: the one we were told of, else the one that differs most.
References ==
    IF Stated THEN {intent.speaker} ELSE {p \in Moved : \A q \in Moved : Gap(q) <= Gap(p)}

\* What tick drops of the speakers that are in no group any more.
Prune(orders, awaited) ==
    LET gone == {p \in Speaker \ Scoped : orders[p] # None}
    IN  /\ commanded' = [p \in Speaker |-> IF p \in gone THEN None ELSE orders[p]]
        /\ unconfirmed' = awaited \ gone

\* Mutant: a command that failed is remembered as given.
RelevelOnce(others, t, orders, awaited, refused) ==
    LET want(p) == MatchVolume(p, t)
        asked == {p \in others : (p \in awaited \/ Levels[p] # want(p)) /\ commanded[p] # want(p)}
        sent  == asked \ refused
        done  == others
    IN  /\ level' = [p \in Speaker |-> IF p \in sent THEN want(p) ELSE level[p]]
        /\ Prune([p \in Speaker |-> IF p \in done THEN want(p) ELSE orders[p]], awaited \cup asked)
        /\ target' = t

\* Mutant: a speaker that was just commanded is read as before.
RelevelTrusting(others, t, orders, awaited, refused) ==
    LET want(p) == MatchVolume(p, t)
        asked == {p \in others : (p \in awaited \/ Levels[p] # want(p)) /\ commanded[p] # want(p)}
        sent  == asked \ refused
        done  == others \ (asked \cap refused)
    IN  /\ level' = [p \in Speaker |-> IF p \in sent THEN want(p) ELSE level[p]]
        /\ Prune([p \in Speaker |-> IF p \in done THEN want(p) ELSE orders[p]], awaited)
        /\ target' = t

\* The others are brought to t; a refused command is not remembered, so it is given again.
Relevel(others, t, orders, awaited, refused) ==
    LET want(p) == MatchVolume(p, t)
        asked == {p \in others : (p \in awaited \/ Levels[p] # want(p)) /\ commanded[p] # want(p)}
        sent  == asked \ refused
        done  == others \ (asked \cap refused)
    IN  /\ level' = [p \in Speaker |-> IF p \in sent THEN want(p) ELSE level[p]]
        /\ Prune([p \in Speaker |-> IF p \in done THEN want(p) ELSE orders[p]], awaited \cup sent)
        /\ target' = t

Group(refused) ==
    \/ \E r \in References :
         LET orders == [commanded EXCEPT ![r] = Levels[r]]
         IN  IF Levels[r] = Silent
               THEN /\ Prune(orders, Awaited)
                    /\ UNCHANGED <<level, target>>
               ELSE Relevel(Usable \ {r, tone}, TargetFor(r, Levels[r]), orders,
                            IF Stated THEN Awaited \cup {r} ELSE Awaited \ {r}, refused)
    \/ /\ References = {} /\ target = None
       /\ \E seed \in Usable : target' = TargetFor(seed, Levels[seed])
       /\ Prune([p \in Speaker |-> IF p \in Usable THEN Levels[p] ELSE commanded[p]], Awaited)
       /\ UNCHANGED level
    \/ /\ References = {} /\ target # None
       /\ Relevel(Usable \ {tone}, target, commanded, Awaited, refused)

Tick(refused) ==
    /\ IF mode = "off"
         THEN /\ target' = None
              /\ UNCHANGED <<level, commanded, unconfirmed>>
         ELSE IF Cardinality(Usable) < 2
         THEN /\ target' = None
              /\ Prune(commanded, unconfirmed)
              /\ UNCHANGED level
         ELSE Group(refused)
    /\ intent' = IF Stated THEN None ELSE intent
    /\ UNCHANGED <<deaf, reported, members, view, mode, tone, moves, hand>>

\* _run, and the task that note_user_volume starts.
Cycle(refused) == Tick(refused) /\ nudge' \in {nudge, FALSE}
-----------------------------------------------------------------------------
Next ==
    \/ \E p \in Speaker :
         \/ Joins(p) \/ Leaves(p) \/ Echo(p)
         \/ \E v \in Volume : ByHand(p, v) \/ Elsewhere(p, v) \/ ToneStarts(p, v)
    \/ \E v \in Volume : ToneEnds(v)
    \/ \E policy \in {"off", "stream", "follow"} : PolicySet(policy)
    \/ Polled
    \/ \E p \in Speaker : Cycle({}) \/ Cycle({p})

Fairness == /\ \A p \in Speaker : WF_vars(Echo(p))
            /\ WF_vars(Polled) /\ WF_vars(Cycle({}))

Spec == Init /\ [][Next]_vars /\ Fairness

-----------------------------------------------------------------------------
(* Properties.                                                             *)

\* Once people let go, every speaker of the group that can be read is at the group's target, and
\* the one a person moved last is where it was put (loudness.py, "THE MODEL"; a command that fails
\* is given again).
Settles == <>[]Matched

\* A held target changes to what a person's last move says and to nothing else: neither an echo
\* that is late, nor one that never comes, nor a tone, nor a joiner is taken for a hand
\* (loudness.py:107, :130, :325).
OnlyHandsLead ==
    [][target # None /\ target' \notin {target, None} =>
         hand # None /\ target' = TargetFor(hand.speaker, hand.volume)]_vars
=============================================================================
