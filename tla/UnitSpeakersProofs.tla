-------------------------- MODULE UnitSpeakersProofs --------------------------
(***************************************************************************)
(* Proofs about two parts of how a unit deals with its speakers, for any   *)
(* levels, any sizes of blocks, chunks and buffers and any number of       *)
(* connections and streams: what is held for a speaker that is away, the   *)
(* phase a stream starts in, and the count of what is buffered.            *)
(***************************************************************************)
EXTENDS UnitSpeakers, LeastNumber, SequenceTheorems, TLAPS

-----------------------------------------------------------------------------
(* What is held for a speaker.                                             *)

\* The types of what is held.
HeldTypes ==
    /\ heldLink \in {"away", "bare", "ready"}
    /\ heldRole \in [level : Settable \cup {None}, delay : Settable \cup {None}, capped : BOOLEAN]
    /\ heldWanted \in [level : Settable \cup {None}, delay : Settable \cup {None}]
    /\ heldHeld \in Settable \cup {None} /\ heldDelay \in Settable \cup {None}
    /\ heldTasks \in Nat /\ heldRaced \in BOOLEAN

\* A level is held while it is not at the speaker; the task that sends it is due from its report on.
HeldSound ==
    /\ heldDelay = heldWanted.delay
    /\ heldLink = "ready" => heldRole.delay = heldDelay /\ heldRole.capped
    /\ ~heldRaced /\ heldHeld = None => heldRole.level = heldWanted.level
    /\ ~heldRaced /\ heldHeld # None => heldHeld = heldWanted.level
    /\ heldLink = "ready" /\ heldHeld # None => heldTasks > 0

HeldInv == HeldTypes /\ HeldSound

LEMMA HeldInitially == UnitInit => HeldInv
<1> SUFFICES ASSUME Held!Init PROVE HeldInv
  BY DEF UnitInit
<1> USE DEF Held!Init
<1>1. HeldTypes
  BY DEF HeldTypes
<1>2. HeldSound
  BY DEF HeldSound
<1> QED
  BY <1>1, <1>2 DEF HeldInv

LEMMA HeldKeeps == ASSUME HeldInv, Held!Next PROVE HeldInv'
<1> USE HeldAssumption DEF HeldInv
<1>1. CASE Held!Connect
  <2> USE <1>1 DEF Held!Connect, Held!Fresh
  <2>1. HeldTypes'
    <3> USE DEF HeldTypes
    <3>1. heldTasks' \in Nat
      OBVIOUS
    <3>2. heldRole' \in [level : Settable \cup {None}, delay : Settable \cup {None}, capped : BOOLEAN]
      OBVIOUS
    <3> QED
      BY <3>1, <3>2
  <2>2. HeldSound'
    BY DEF HeldSound, HeldTypes
  <2> QED
    BY <2>1, <2>2
<1>2. CASE Held!Report
  <2> USE <1>2 DEF Held!Report, Held!OnServerEvent
  <2>1. HeldTypes'
    <3> USE DEF HeldTypes
    <3>1. heldTasks' \in Nat
      OBVIOUS
    <3>2. heldRole' \in [level : Settable \cup {None}, delay : Settable \cup {None}, capped : BOOLEAN]
      OBVIOUS
    <3> QED
      BY <3>1, <3>2
  <2>2. HeldSound'
    BY DEF HeldSound, HeldTypes
  <2> QED
    BY <2>1, <2>2
<1>3. CASE Held!Disconnect
  BY <1>3 DEF Held!Disconnect, Held!Fresh, HeldTypes, HeldSound
<1>4. ASSUME NEW v \in Settable, Held!SetPlayerVolume(v) PROVE HeldInv'
  BY <1>4 DEF Held!SetPlayerVolume, HeldTypes, HeldSound
<1>5. ASSUME NEW v \in Settable, Held!SetPlayerDelay(v) PROVE HeldInv'
  BY <1>5 DEF Held!SetPlayerDelay, HeldTypes, HeldSound
<1>6. CASE Held!ApplyPendingVolume
  <2> USE <1>6 DEF Held!ApplyPendingVolume
  <2>1. HeldTypes'
    BY DEF HeldTypes
  <2>2. HeldSound'
    BY DEF HeldSound, HeldTypes
  <2> QED
    BY <2>1, <2>2
<1> QED
  BY <1>1, <1>2, <1>3, <1>4, <1>5, <1>6 DEF Held!Next

\* A speaker that has reported plays at the delay last set for it and, once the tasks have run, at
\* the level last set for it, wherever it was when they were set and however often it left since;
\* but for the two roads on which the code loses a level (sendspin_server.py, set_player_volume,
\* set_player_delay, _on_server_event, _apply_pending_volume).
THEOREM WhatIsHeldComes == UnitSpec => []HeldForIt
<1>1. HeldInv /\ [UnitNext]_unitVars => HeldInv'
  <2> SUFFICES ASSUME HeldInv, [UnitNext]_unitVars PROVE HeldInv'
    OBVIOUS
  <2>1. CASE UNCHANGED heldVars
    BY <2>1 DEF heldVars, HeldInv, HeldTypes, HeldSound
  <2>2. CASE Held!Next
    BY <2>2, HeldKeeps
  <2> QED
    BY <2>1, <2>2 DEF UnitNext, DiallingNext, PairNext, HeldNext, OutputNext, RenderNext, RelayNext,
       ReportNext, CoverNext, LineNext, unitVars
<1>2. HeldInv => HeldForIt
  BY DEF HeldInv, HeldTypes, HeldSound, HeldForIt, Held!HeldForIt
<1> QED
  BY HeldInitially, <1>1, <1>2, PTL DEF UnitSpec

-----------------------------------------------------------------------------
(* The phase a stream starts in.                                           *)

\* Until a frame of the stream has been served on schedule the renderer is not aligned; between
\* streams there is nothing to align it.  But for one that is drained.
PhaseInv ==
    /\ {renderFresh, renderAligned, renderDrained} \subseteq BOOLEAN
    /\ renderNextDue \in Int \cup {None}
    /\ ~renderDrained =>
        /\ Render!Size(renderOff) <= Deadband
        /\ renderFresh => ~renderAligned
        /\ renderNextDue = None => renderFresh /\ renderChunks = <<>>

LEMMA ZeroIsOnTime == Render!Size(0) <= Deadband
BY RenderAssumption DEF Render!Size

LEMMA PhaseInitially == UnitInit => PhaseInv
<1> SUFFICES ASSUME Render!Init PROVE PhaseInv
  BY DEF UnitInit
<1> QED
  BY ZeroIsOnTime DEF Render!Init, PhaseInv

LEMMA PhaseKeeps == ASSUME PhaseInv, Render!Next PROVE PhaseInv'
<1> USE RenderAssumption, ZeroIsOnTime DEF PhaseInv
<1>1. ASSUME NEW l \in Lead, Render!StreamStarts(l) PROVE PhaseInv'
  BY <1>1 DEF Render!StreamStarts
<1>2. ASSUME NEW timed \in BOOLEAN, Render!Enqueue(timed) PROVE PhaseInv'
  <2>1. renderNextDue' \in Int /\ renderNextDue # None
    BY <1>2 DEF Render!Enqueue
  <2> QED
    BY <1>2, <2>1 DEF Render!Enqueue
<1>3. CASE Render!Flush
  BY <1>3 DEF Render!Flush
<1>4. CASE Render!MarkIdle
  BY <1>4 DEF Render!MarkIdle
<1>5. CASE Render!Open
  BY <1>5 DEF Render!Open
<1>6. CASE Render!Callback
  BY <1>6 DEF Render!Callback
<1>7. CASE Render!PopHead
  BY <1>7 DEF Render!PopHead, Render!Filling
<1>8. CASE Render!Contiguous
  BY <1>8 DEF Render!Contiguous, Render!Filling
<1>9. CASE Render!Hold \/ Render!Skip
  <2>1. /\ UNCHANGED <<renderFresh, renderDrained, renderOff, renderNextDue>>
        /\ renderChunks # <<>>
        /\ renderAligned' \in BOOLEAN /\ (renderAligned' => renderAligned)
    BY <1>9 DEF Render!Hold, Render!Skip, Render!Scheduled, Render!Filling
  <2> QED
    BY <2>1
<1>10. CASE Render!Copy
  BY <1>10 DEF Render!Copy, Render!Threshold, Render!Scheduled, Render!Filling
<1>11. CASE Render!BlockEnds
  <2>1. PICK slip \in {0, -1, 1} : Render!Passes(Block, slip)
    BY <1>11 DEF Render!BlockEnds
  <2> USE <2>1 DEF Render!Passes
  <2>2. UNCHANGED <<renderFresh, renderAligned, renderDrained, renderOff>>
    OBVIOUS
  <2>3. renderNextDue' \in Int \cup {None} /\ (renderNextDue' = None => renderNextDue = None)
    OBVIOUS
  <2>4. renderChunks = <<>> => renderChunks' = <<>>
    OBVIOUS
  <2> QED
    BY <2>2, <2>3, <2>4
<1> QED
  BY <1>1, <1>2, <1>3, <1>4, <1>5, <1>6, <1>7, <1>8, <1>9, <1>10, <1>11 DEF Render!Next

\* The first frame of a stream that is served on schedule is within the deadband of its time,
\* however the stream before it ended, whatever was flushed or reopened and however the clocks
\* slipped; unless the stream before it left audio in the buffer (sendspin_player.py, _take,
\* mark_idle, flush).
THEOREM FirstFrameIsOnTime == UnitSpec => [](focus = "render" => Render!FirstFrameOnTime)
<1>1. PhaseInv /\ [UnitNext]_unitVars => PhaseInv'
  <2> SUFFICES ASSUME PhaseInv, [UnitNext]_unitVars PROVE PhaseInv'
    OBVIOUS
  <2>1. CASE UNCHANGED renderVars
    BY <2>1 DEF renderVars, PhaseInv, Render!Size
  <2>2. CASE Render!Next
    BY <2>2, PhaseKeeps
  <2> QED
    BY <2>1, <2>2 DEF UnitNext, DiallingNext, PairNext, HeldNext, OutputNext, RenderNext, RelayNext,
       ReportNext, CoverNext, LineNext, unitVars
<1>2. PhaseInv => (focus = "render" => Render!FirstFrameOnTime)
  BY DEF PhaseInv, Render!FirstFrameOnTime
<1> QED
  BY PhaseInitially, <1>1, <1>2, PTL DEF UnitSpec

-----------------------------------------------------------------------------
(* How many frames there are in the buffer.                                *)

\* A chunk: the frames left of it, and when the first of them is due.
Piece == [left : Nat, due : Int \cup {None}]

LEMMA PieceLeft ==
  ASSUME NEW q \in Seq(Piece), NEW i \in 1..Len(q)
  PROVE  q[i] \in Piece /\ q[i].left \in Nat
<1>1. q[i] \in Piece
  OBVIOUS
<1> QED BY <1>1 DEF Piece

\* The recursion of Sums has a solution: there is no shortest prefix without one.
LEMMA SumsExist ==
  ASSUME NEW q \in Seq(Piece)
  PROVE  \E f : f = [i \in 0..Len(q) |-> IF i = 0 THEN 0 ELSE f[i - 1] + q[i].left]
<1> DEFINE upTo(n, f) == f = [i \in 0..n |-> IF i = 0 THEN 0 ELSE f[i - 1] + q[i].left]
           bad == {n \in 0..Len(q) : ~ \E f : upTo(n, f)}
<1>1. ASSUME bad # {} PROVE FALSE
  <2>1. PICK n \in bad : \A m \in bad : n <= m
    <3>1. bad \subseteq Nat
      OBVIOUS
    <3> HIDE DEF bad
    <3> QED BY <3>1, <1>1, Smallest
  <2>2. CASE n = 0
    <3> DEFINE f == [i \in 0..0 |-> 0]
    <3>1. upTo(0, f)
      OBVIOUS
    <3> QED BY <3>1, <2>2
  <2>3. CASE n # 0
    <3>1. n \in Nat /\ n - 1 \in Nat /\ n - 1 \in 0..Len(q) /\ n - 1 \notin bad
      BY <2>1, <2>3
    <3>2. PICK g : upTo(n - 1, g)
      BY <3>1
    <3> DEFINE f == [i \in 0..n |-> IF i < n THEN g[i] ELSE g[n - 1] + q[n].left]
    <3>3. \A i \in 0..n : f[i] = IF i = 0 THEN 0 ELSE f[i - 1] + q[i].left
      <4> TAKE i \in 0..n
      <4>1. CASE i = n
        BY <4>1, <3>1, <2>3
      <4>2. CASE i < n
        <5>1. g[i] = IF i = 0 THEN 0 ELSE g[i - 1] + q[i].left
          <6>1. i \in 0..(n - 1)
            BY <4>2, <3>1
          <6>2. g = [j \in 0..(n - 1) |-> IF j = 0 THEN 0 ELSE g[j - 1] + q[j].left]
            BY <3>2
          <6> HIDE DEF bad
          <6> QED BY <6>1, <6>2, Zenon
        <5> QED BY <5>1, <4>2, <3>1
      <4> QED BY <4>1, <4>2, <3>1
    <3>4. upTo(n, f)
      <4> DEFINE h == [i \in 0..n |-> IF i = 0 THEN 0 ELSE f[i - 1] + q[i].left]
      <4>1. f = h
        BY <3>3
      <4> QED BY <4>1
    <3> QED BY <3>4, <2>1
  <2> QED BY <2>2, <2>3
<1>2. Len(q) \notin bad
  BY <1>1
<1> QED BY <1>2

LEMMA SumsAre ==
  ASSUME NEW q \in Seq(Piece)
  PROVE  Render!Sums(q) = [i \in 0..Len(q) |-> IF i = 0 THEN 0 ELSE Render!Sums(q)[i - 1] + q[i].left]
<1> DEFINE is(f) == f = [i \in 0..Len(q) |-> IF i = 0 THEN 0 ELSE f[i - 1] + q[i].left]
<1>1. Render!Sums(q) = CHOOSE f : is(f)
  BY DEF Render!Sums
<1>2. \E f : is(f)
  BY SumsExist
<1> HIDE DEF is
<1>3. is(Render!Sums(q))
  BY <1>1, <1>2
<1> QED BY <1>3 DEF is
\* The sums are numbers, from 0 on, each by one chunk larger than the one before.
LEMMA SumsStep ==
  ASSUME NEW q \in Seq(Piece)
  PROVE  /\ Render!Sums(q) \in [0..Len(q) -> Nat]
         /\ Render!Sums(q)[0] = 0
         /\ \A i \in 1..Len(q) : Render!Sums(q)[i] = Render!Sums(q)[i - 1] + q[i].left
<1> DEFINE s   == Render!Sums(q)
           bad == {i \in 0..Len(q) : s[i] \notin Nat}
<1>1. s = [i \in 0..Len(q) |-> IF i = 0 THEN 0 ELSE s[i - 1] + q[i].left]
  BY SumsAre
<1> HIDE DEF s
<1>2. s[0] = 0 /\ \A i \in 1..Len(q) : s[i] = s[i - 1] + q[i].left
  <2>1. 0 \in 0..Len(q) /\ \A i \in 1..Len(q) : i \in 0..Len(q) /\ i # 0
    OBVIOUS
  <2>2. \A i \in 0..Len(q) : s[i] = IF i = 0 THEN 0 ELSE s[i - 1] + q[i].left
    BY <1>1, Zenon
  <2> QED BY <2>1, <2>2
<1>3. ASSUME bad # {} PROVE FALSE
  <2>1. bad \subseteq Nat
    OBVIOUS
  <2>2. PICK n \in bad : \A m \in bad : n <= m
    <3> HIDE DEF bad
    <3> QED BY <2>1, <1>3, Smallest
  <2>3. n # 0 /\ n \in 1..Len(q)
    BY <1>2, <2>2
  <2>4. n - 1 \in 0..Len(q) /\ n - 1 \notin bad
    BY <2>2, <2>3
  <2>5. q[n].left \in Nat
    BY <2>3, PieceLeft
  <2> QED BY <1>2, <2>2, <2>3, <2>4, <2>5
<1>4. s \in [0..Len(q) -> Nat]
  BY <1>1, <1>3
<1> QED BY <1>2, <1>4 DEF s

\* Whatever begins like the sums and grows like them is equal to them.
LEMMA SumsUnique ==
  ASSUME NEW q \in Seq(Piece), NEW f, f[0] = 0, \A i \in 1..Len(q) : f[i] = f[i - 1] + q[i].left
  PROVE  \A i \in 0..Len(q) : Render!Sums(q)[i] = f[i]
<1> DEFINE s   == Render!Sums(q)
           bad == {i \in 0..Len(q) : s[i] # f[i]}
<1>1. s[0] = 0 /\ \A i \in 1..Len(q) : s[i] = s[i - 1] + q[i].left
  BY SumsStep
<1> HIDE DEF s
<1>2. ASSUME bad # {} PROVE FALSE
  <2>1. bad \subseteq Nat
    OBVIOUS
  <2>2. PICK n \in bad : \A m \in bad : n <= m
    <3> HIDE DEF bad
    <3> QED BY <2>1, <1>2, Smallest
  <2>3. n # 0 /\ n \in 1..Len(q)
    BY <1>1, <2>2
  <2>4. n - 1 \in 0..Len(q) /\ n - 1 \notin bad
    BY <2>2, <2>3
  <2> QED BY <1>1, <2>2, <2>3, <2>4
<1>3. \A i \in 0..Len(q) : s[i] = f[i]
  BY <1>2
<1> QED BY <1>3 DEF s

\* How many frames there are.
LEMMA FramesType ==
  ASSUME NEW q \in Seq(Piece)
  PROVE  Render!Frames(q) \in Nat
BY SumsStep DEF Render!Frames

LEMMA NoFrames == Render!Frames(<<>>) = 0
<1>1. <<>> \in Seq(Piece) /\ Len(<<>>) = 0
  OBVIOUS
<1> QED BY <1>1, SumsStep DEF Render!Frames

LEMMA FramesOfMore ==
  ASSUME NEW q \in Seq(Piece), NEW c \in Piece
  PROVE  Render!Frames(Append(q, c)) = Render!Frames(q) + c.left
<1> DEFINE r == Append(q, c)
           s == Render!Sums(q)
           f == [i \in 0..Len(r) |-> IF i = Len(r) THEN s[Len(q)] + c.left ELSE s[i]]
<1>1. /\ r \in Seq(Piece) /\ Len(r) = Len(q) + 1 /\ r[Len(r)] = c
      /\ \A i \in 1..Len(q) : r[i] = q[i]
  OBVIOUS
<1>2. s[0] = 0 /\ \A i \in 1..Len(q) : s[i] = s[i - 1] + q[i].left
  BY SumsStep
<1> HIDE DEF r, s
<1>3. Len(q) \in Nat
  OBVIOUS
<1>4. f[0] = 0 /\ \A i \in 1..Len(r) : f[i] = f[i - 1] + r[i].left
  <2>1. f[0] = 0
    BY <1>1, <1>2, <1>3
  <2>2. ASSUME NEW i \in 1..Len(r) PROVE f[i] = f[i - 1] + r[i].left
    <3>1. CASE i = Len(r)
      BY <3>1, <1>1, <1>3
    <3>2. CASE i # Len(r)
      <4>1. i \in 1..Len(q)
        BY <3>2, <1>1, <1>3
      <4> QED BY <4>1, <1>1, <1>2, <1>3
    <3> QED BY <3>1, <3>2
  <2> QED BY <2>1, <2>2
<1>5. Render!Sums(r)[Len(r)] = f[Len(r)]
  <2> HIDE DEF f
  <2>1. \A i \in 0..Len(r) : Render!Sums(r)[i] = f[i]
    BY <1>1, <1>4, SumsUnique
  <2> QED BY <2>1, <1>1, <1>3
<1>6. f[Len(r)] = s[Len(q)] + c.left
  BY <1>1, <1>3
<1> QED BY <1>5, <1>6 DEF Render!Frames, r, s

\* What is left of the chunks after the first k.
LEMMA FramesAfter ==
  ASSUME NEW q \in Seq(Piece), NEW k \in 0..Len(q)
  PROVE  /\ SubSeq(q, k + 1, Len(q)) \in Seq(Piece)
         /\ Render!Frames(SubSeq(q, k + 1, Len(q))) = Render!Frames(q) - Render!Sums(q)[k]
<1> DEFINE r == SubSeq(q, k + 1, Len(q))
           s == Render!Sums(q)
           f == [i \in 0..Len(r) |-> s[k + i] - s[k]]
<1>1. k \in Nat /\ Len(q) \in Nat /\ k <= Len(q)
  OBVIOUS
<1>2. r \in Seq(Piece) /\ Len(r) = Len(q) - k /\ \A i \in 1..Len(r) : r[i] = q[k + i]
  <2>1. \A i \in (k + 1)..Len(q) : q[i] \in Piece
    BY <1>1
  <2> QED BY <1>1, <2>1, SubSeqProperties
<1>3. /\ s \in [0..Len(q) -> Nat]
      /\ \A i \in 1..Len(q) : s[i] = s[i - 1] + q[i].left
  BY SumsStep
<1> HIDE DEF r, s
<1>4. f[0] = 0 /\ \A i \in 1..Len(r) : f[i] = f[i - 1] + r[i].left
  <2>1. f[0] = 0
    <3>1. s[k] \in Nat
      BY <1>1, <1>3
    <3> QED BY <3>1, <1>1, <1>2
  <2>2. ASSUME NEW i \in 1..Len(r) PROVE f[i] = f[i - 1] + r[i].left
    <3>1. k + i \in 1..Len(q) /\ i \in 0..Len(r) /\ i - 1 \in 0..Len(r) /\ k + (i - 1) = (k + i) - 1
      BY <1>1, <1>2
    <3>2. s[k + i] = s[(k + i) - 1] + q[k + i].left /\ r[i] = q[k + i]
      BY <3>1, <1>2, <1>3
    <3>3. s[k] \in Nat /\ s[k + i] \in Nat /\ s[(k + i) - 1] \in Nat /\ q[k + i].left \in Nat
      <4>1. k \in 0..Len(q) /\ k + i \in 0..Len(q) /\ (k + i) - 1 \in 0..Len(q)
        BY <3>1, <1>1
      <4>2. q[k + i].left \in Nat
        BY <3>1, PieceLeft
      <4> QED BY <4>1, <4>2, <1>3
    <3>4. f[i] = s[k + i] - s[k] /\ f[i - 1] = s[(k + i) - 1] - s[k]
      BY <3>1
    <3> QED BY <3>2, <3>3, <3>4
  <2> QED BY <2>1, <2>2
<1>5. Render!Sums(r)[Len(r)] = f[Len(r)]
  <2> HIDE DEF f
  <2>1. \A i \in 0..Len(r) : Render!Sums(r)[i] = f[i]
    BY <1>2, <1>4, SumsUnique
  <2> QED BY <2>1, <1>1, <1>2
<1>6. f[Len(r)] = s[Len(q)] - s[k]
  BY <1>1, <1>2
<1> QED BY <1>2, <1>5, <1>6 DEF Render!Frames, r, s

\* The first chunk and the others.
LEMMA FramesOfTail ==
  ASSUME NEW q \in Seq(Piece), q # <<>>
  PROVE  /\ Tail(q) \in Seq(Piece) /\ q[1] \in Piece
         /\ Render!Frames(q) = q[1].left + Render!Frames(Tail(q))
<1>1. Len(q) \in Nat /\ Len(q) >= 1 /\ 1 \in 1..Len(q) /\ 1 \in 0..Len(q) /\ q[1] \in Piece
  OBVIOUS
<1>2. Tail(q) = SubSeq(q, 2, Len(q)) /\ Tail(q) \in Seq(Piece)
  BY TailIsSubSeq
<1>3. Render!Sums(q)[1] = q[1].left
  <2>1. Render!Sums(q)[1] = Render!Sums(q)[1 - 1] + q[1].left /\ Render!Sums(q)[0] = 0
    BY <1>1, SumsStep
  <2> QED BY <1>1, <2>1, PieceLeft
<1>4. Render!Frames(Tail(q)) = Render!Frames(q) - Render!Sums(q)[1]
  <2>1. Render!Frames(SubSeq(q, 1 + 1, Len(q))) = Render!Frames(q) - Render!Sums(q)[1]
    BY <1>1, FramesAfter
  <2>2. 1 + 1 = 2
    OBVIOUS
  <2>3. SubSeq(q, 1 + 1, Len(q)) = Tail(q)
    BY <1>2, <2>2
  <2> QED BY <2>1, <2>3
<1>5. Render!Frames(q) \in Nat /\ Render!Frames(Tail(q)) \in Nat /\ q[1].left \in Nat
  BY <1>1, <1>2, FramesType DEF Piece
<1> QED BY <1>1, <1>2, <1>3, <1>4, <1>5

LEMMA FramesBehind ==
  ASSUME NEW c \in Piece, NEW q \in Seq(Piece)
  PROVE  /\ <<c>> \o q \in Seq(Piece)
         /\ Render!Frames(<<c>> \o q) = c.left + Render!Frames(q)
<1>1. <<c>> \in Seq(Piece) /\ <<c>> \o q \in Seq(Piece) /\ <<c>> \o q # <<>>
  OBVIOUS
<1>2. (<<c>> \o q)[1] = c
  OBVIOUS
<1>3. Tail(<<c>> \o q) = q
  OBVIOUS
<1> QED BY <1>1, <1>2, <1>3, FramesOfTail

\* The schedule does not count.
LEMMA FramesOfSame ==
  ASSUME NEW q \in Seq(Piece), NEW r \in Seq(Piece), Len(q) = Len(r),
         \A i \in 1..Len(q) : q[i].left = r[i].left
  PROVE  Render!Frames(q) = Render!Frames(r)
<1> DEFINE f == Render!Sums(r)
<1>1. f[0] = 0 /\ \A i \in 1..Len(q) : f[i] = f[i - 1] + q[i].left
  BY SumsStep
<1> HIDE DEF f
<1>2. \A i \in 0..Len(q) : Render!Sums(q)[i] = f[i]
  BY <1>1, SumsUnique
<1>3. Len(q) \in 0..Len(q)
  OBVIOUS
<1> QED BY <1>2, <1>3 DEF f, Render!Frames

\* n frames off the old end are n frames less.
LEMMA FramesWithout ==
  ASSUME NEW q \in Seq(Piece), NEW n \in 0..Render!Frames(q)
  PROVE  /\ Render!Without(q, n) \in Seq(Piece)
         /\ Render!Frames(Render!Without(q, n)) = Render!Frames(q) - n
<1> DEFINE s == Render!Sums(q)
           past == {i \in 0..Len(q) : s[i] > n}
<1>1. Render!Frames(q) \in Nat /\ n \in Nat /\ n <= Render!Frames(q) /\ Len(q) \in Nat
  BY FramesType
<1>2. CASE n >= Render!Frames(q)
  <2>1. Render!Without(q, n) = <<>>
    BY <1>2 DEF Render!Without
  <2>2. n = Render!Frames(q)
    BY <1>1, <1>2
  <2> QED BY <2>1, <2>2, <1>1, NoFrames
<1>3. CASE ~ (n >= Render!Frames(q))
  <2>1. /\ s \in [0..Len(q) -> Nat] /\ s[0] = 0
        /\ \A i \in 1..Len(q) : s[i] = s[i - 1] + q[i].left
    BY SumsStep
  <2>2. Len(q) \in past
    BY <1>1, <1>3 DEF Render!Frames
  <2>3. PICK least \in past : \A m \in past : least <= m
    <3>1. past \subseteq Nat /\ past # {}
      BY <2>2
    <3> HIDE DEF past
    <3> QED BY <3>1, Smallest
  <2> HIDE DEF s
  <2>4. least \in 1..Len(q) /\ s[least] > n /\ s[least - 1] <= n
    <3>1. least # 0 /\ least \in 1..Len(q)
      BY <2>1, <2>3, <1>1
    <3>2. least - 1 \in 0..Len(q) /\ least - 1 \notin past
      BY <3>1, <2>3
    <3> QED BY <3>1, <3>2, <2>1, <2>3, <1>1
  <2> DEFINE k == CHOOSE i \in 1..Len(q) : s[i] > n /\ s[i - 1] <= n
             m == n - s[k - 1]
             c == [left |-> q[k].left - m, due |-> Render!Later(q[k].due, m)]
             r == SubSeq(q, k + 1, Len(q))
  <2>5. k \in 1..Len(q) /\ s[k] > n /\ s[k - 1] <= n
    BY <2>4
  <2>6. Render!Without(q, n) = <<c>> \o r
    BY <1>3 DEF Render!Without, s
  <2> HIDE DEF k
  <2>7. q[k] \in Piece /\ s[k] \in Nat /\ s[k - 1] \in Nat /\ s[k] = s[k - 1] + q[k].left
    <3>1. k - 1 \in 0..Len(q) /\ k \in 0..Len(q)
      BY <2>5
    <3>2. s[k] \in Nat /\ s[k - 1] \in Nat
      BY <3>1, <2>1
    <3>3. s[k] = s[k - 1] + q[k].left
      BY <2>1, <2>5
    <3> QED BY <3>2, <3>3, <2>5, PieceLeft
  <2>8. m \in Nat /\ m <= q[k].left /\ c \in Piece /\ c.left = s[k] - n
    <3>1. m \in Nat /\ m <= q[k].left
      BY <2>5, <2>7, <1>1 DEF Piece
    <3>2. Render!Later(q[k].due, m) \in Int \cup {None}
      BY <3>1, <2>7 DEF Piece, Render!Later
    <3>3. q[k].left - m \in Nat /\ q[k].left - m = s[k] - n
      BY <3>1, <2>5, <2>7, <1>1, PieceLeft
    <3> QED BY <3>1, <3>2, <3>3 DEF Piece
  <2>9. r \in Seq(Piece) /\ Render!Frames(r) = Render!Frames(q) - s[k]
    <3>1. k \in 0..Len(q)
      BY <2>5
    <3> QED BY <3>1, FramesAfter DEF s
  <2> HIDE DEF c, r
  <2>10. <<c>> \o r \in Seq(Piece) /\ Render!Frames(<<c>> \o r) = c.left + Render!Frames(r)
    BY <2>8, <2>9, FramesBehind
  <2> QED BY <2>6, <2>7, <2>8, <2>9, <2>10, <1>1
<1> QED BY <1>2, <1>3

-----------------------------------------------------------------------------
(* The count.                                                              *)

\* The chunks, their count, and a block that is no longer than asked for.
CountInv ==
    /\ renderChunks \in Seq(Piece)
    /\ renderBuffered = Render!Frames(renderChunks)
    /\ renderWork \in [on : BOOLEAN, written : 0..Block, stepped : BOOLEAN, measured : BOOLEAN]
    /\ renderNextDue \in Int \cup {None}

LEMMA CountInitially == UnitInit => CountInv
<1> SUFFICES ASSUME Render!Init PROVE CountInv
  BY DEF UnitInit
<1> QED
  BY NoFrames, RenderAssumption DEF Render!Init, Render!NoWork, CountInv

\* What is left of the first chunk, and the others.
LEMMA RestCounts ==
  ASSUME CountInv, renderChunks # <<>>, NEW n \in 0..Render!First.left
  PROVE  /\ Render!Rest(n) \in Seq(Piece)
         /\ Render!Frames(Render!Rest(n)) = renderBuffered - n
<1> DEFINE first == renderChunks[1]
           c == [left |-> first.left - n, due |-> Render!Later(first.due, n)]
<1>1. /\ first \in Piece /\ Tail(renderChunks) \in Seq(Piece)
      /\ renderBuffered = first.left + Render!Frames(Tail(renderChunks))
  BY FramesOfTail DEF CountInv
<1>2. n \in Nat /\ n <= first.left /\ first.left \in Nat /\ Render!Frames(Tail(renderChunks)) \in Nat
  <2>1. Render!First = first
    BY DEF Render!First
  <2>2. first.left \in Nat
    BY <1>1 DEF Piece
  <2> HIDE DEF first
  <2>3. n \in 0..first.left
    BY <2>1
  <2>4. Render!Frames(Tail(renderChunks)) \in Nat
    BY <1>1, FramesType
  <2> QED BY <2>2, <2>3, <2>4
<1>3. c \in Piece
  <2>1. Render!Later(first.due, n) \in Int \cup {None}
    BY <1>1, <1>2 DEF Piece, Render!Later
  <2> QED BY <2>1, <1>2 DEF Piece
<1>4. Render!Rest(n) = <<c>> \o Tail(renderChunks)
  BY DEF Render!Rest, Render!First
<1>5. c.left = first.left - n
  OBVIOUS
<1> HIDE DEF c, first
<1>6. /\ <<c>> \o Tail(renderChunks) \in Seq(Piece)
      /\ Render!Frames(<<c>> \o Tail(renderChunks)) = c.left + Render!Frames(Tail(renderChunks))
  BY <1>1, <1>3, FramesBehind
<1> QED BY <1>1, <1>2, <1>4, <1>5, <1>6

LEMMA CountKeeps == ASSUME CountInv, Render!Next PROVE CountInv'
<1> USE RenderAssumption DEF CountInv
<1>1. ASSUME NEW l \in Lead, Render!StreamStarts(l) PROVE CountInv'
  BY <1>1 DEF Render!StreamStarts
<1>2. ASSUME NEW timed \in BOOLEAN, Render!Enqueue(timed) PROVE CountInv'
  <2> DEFINE c    == [left |-> Chunk, due |-> IF timed THEN renderNextDue ELSE None]
             all  == Append(renderChunks, c)
             drop == renderBuffered + Chunk - MaxFrames
  <2>1. /\ renderNextDue \in Int /\ renderNextDue' = renderNextDue + Chunk /\ UNCHANGED renderWork
        /\ renderChunks' = IF drop > 0 THEN Render!Without(all, drop) ELSE all
        /\ renderBuffered' = IF drop > 0 THEN MaxFrames ELSE renderBuffered + Chunk
    BY <1>2 DEF Render!Enqueue
  <2>2. c \in Piece /\ c.left = Chunk
    BY <2>1 DEF Piece
  <2>3. all \in Seq(Piece) /\ Render!Frames(all) = renderBuffered + Chunk /\ renderBuffered \in Nat
    <3> HIDE DEF c
    <3> QED BY <2>2, FramesOfMore, FramesType
  <2> HIDE DEF all
  <2>4. renderChunks' \in Seq(Piece) /\ renderBuffered' = Render!Frames(renderChunks')
    <3>1. CASE drop > 0
      <4>1. drop \in 0..Render!Frames(all)
        BY <3>1, <2>3
      <4>2. /\ Render!Without(all, drop) \in Seq(Piece)
            /\ Render!Frames(Render!Without(all, drop)) = Render!Frames(all) - drop
        BY <4>1, <2>3, FramesWithout
      <4>3. Render!Frames(all) - drop = MaxFrames
        BY <2>3
      <4> QED BY <3>1, <2>1, <4>2, <4>3
    <3>2. CASE ~ (drop > 0)
      BY <3>2, <2>1, <2>3
    <3> QED BY <3>1, <3>2
  <2>5. renderNextDue' \in Int
    BY <2>1
  <2> QED BY <2>1, <2>4, <2>5
<1>3. CASE Render!Flush
  BY <1>3, NoFrames DEF Render!Flush
<1>4. CASE Render!MarkIdle
  BY <1>4 DEF Render!MarkIdle
<1>5. CASE Render!Open
  BY <1>5 DEF Render!Open
<1>6. CASE Render!Callback
  <2>1. renderWork' = [on |-> TRUE, written |-> 0, stepped |-> FALSE, measured |-> FALSE]
    BY <1>6 DEF Render!Callback, Render!NoWork
  <2>2. UNCHANGED <<renderChunks, renderBuffered, renderNextDue>>
    BY <1>6 DEF Render!Callback
  <2> QED BY <2>1, <2>2
<1>7. CASE Render!PopHead
  <2>1. /\ renderChunks # <<>> /\ renderChunks[1].left = 0
        /\ renderChunks' = Tail(renderChunks) /\ UNCHANGED <<renderBuffered, renderWork, renderNextDue>>
    BY <1>7 DEF Render!PopHead, Render!Filling, Render!First
  <2>2. Tail(renderChunks) \in Seq(Piece) /\ Render!Frames(Tail(renderChunks)) \in Nat
    BY <2>1, FramesOfTail, FramesType
  <2>3. renderBuffered = renderChunks[1].left + Render!Frames(Tail(renderChunks))
    BY <2>1, FramesOfTail
  <2> QED BY <2>1, <2>2, <2>3
<1>8. ASSUME Render!Filling
      PROVE  /\ renderChunks # <<>> /\ Render!First.left \in Nat
             /\ renderWork.written \in Nat /\ renderWork.written < Block
             /\ Render!First.due \in Int \cup {None}
  <2>1. renderChunks # <<>> /\ renderWork.written < Block
    BY <1>8 DEF Render!Filling
  <2>2. renderChunks[1] \in Piece
    BY <2>1, FramesOfTail
  <2> QED BY <2>1, <2>2 DEF Render!First, Piece
<1>9. ASSUME NEW n \in 0..Render!First.left, renderChunks # <<>>, renderChunks' = Render!Rest(n),
             renderBuffered' = renderBuffered - n, renderNextDue' = renderNextDue,
             renderWork' \in [on : BOOLEAN, written : 0..Block, stepped : BOOLEAN, measured : BOOLEAN]
      PROVE  CountInv'
  BY <1>9, RestCounts
<1>10. CASE Render!Contiguous
  <2> DEFINE take == Render!Smaller(Block - renderWork.written, Render!First.left)
  <2>1. Render!Filling /\ renderChunks' = Render!Rest(take) /\ renderBuffered' = renderBuffered - take
        /\ renderWork' = [renderWork EXCEPT !.written = @ + take] /\ renderNextDue' = renderNextDue
    BY <1>10 DEF Render!Contiguous
  <2>2. take \in 0..Render!First.left /\ renderWork.written + take \in 0..Block
    BY <2>1, <1>8 DEF Render!Smaller
  <2> HIDE DEF take
  <2> QED BY <2>1, <2>2, <1>8, <1>9
<1>11. ASSUME Render!Scheduled
       PROVE  /\ Render!Filling /\ Render!Err \in Int
              /\ Render!Threshold \in Nat
  BY <1>11, <1>8 DEF Render!Scheduled, Render!Err, Render!Threshold
<1>12. CASE Render!Hold
  <2>1. /\ Render!Scheduled /\ Render!Err > Render!Threshold
        /\ UNCHANGED <<renderChunks, renderBuffered, renderNextDue>>
        /\ renderWork' = [renderWork EXCEPT !.written = Render!Smaller(Block, @ + Render!Err),
                                            !.stepped = TRUE, !.measured = TRUE]
    BY <1>12 DEF Render!Hold
  <2>2. Render!Smaller(Block, renderWork.written + Render!Err) \in 0..Block
    BY <2>1, <1>8, <1>11 DEF Render!Smaller
  <2> QED BY <2>1, <2>2
<1>13. CASE Render!Skip
  <2> DEFINE skip == Render!Smaller(Render!First.left, -Render!Err)
  <2>1. /\ Render!Scheduled /\ Render!Err < -Render!Threshold
        /\ renderChunks' = Render!Rest(skip) /\ renderBuffered' = renderBuffered - skip
        /\ renderWork' = [renderWork EXCEPT !.stepped = TRUE, !.measured = TRUE]
        /\ renderNextDue' = renderNextDue
    BY <1>13 DEF Render!Skip
  <2>2. skip \in 0..Render!First.left
    BY <2>1, <1>8, <1>11 DEF Render!Smaller
  <2> HIDE DEF skip
  <2> QED BY <2>1, <2>2, <1>8, <1>9, <1>11
<1>14. CASE Render!Copy
  <2>1. /\ Render!Scheduled
        /\ \E cut \in {0, 1}, twice \in {0, 1} :
             LET take == Render!Smaller(Block - renderWork.written - twice, Render!First.left - cut)
             IN  /\ cut = 1 => Render!First.left > 1
                 /\ renderChunks' = Render!Rest(cut + take)
                 /\ renderBuffered' = renderBuffered - cut - take
                 /\ renderWork' = [renderWork EXCEPT !.written = @ + twice + take, !.measured = TRUE]
        /\ renderNextDue' = renderNextDue
    <3> DEFINE cut   == IF renderTick' = 0 /\ renderEma' < -Deadband /\ Render!First.left > 1 THEN 1 ELSE 0
               twice == IF renderTick' = 0 /\ renderEma' > Deadband THEN 1 ELSE 0
               take  == Render!Smaller(Block - renderWork.written - twice, Render!First.left - cut)
    <3>1. /\ Render!Scheduled /\ renderNextDue' = renderNextDue
          /\ renderChunks' = Render!Rest(cut + take)
          /\ renderBuffered' = renderBuffered - cut - take
          /\ renderWork' = [renderWork EXCEPT !.written = @ + twice + take, !.measured = TRUE]
      BY <1>14 DEF Render!Copy
    <3>2. cut \in {0, 1} /\ twice \in {0, 1} /\ (cut = 1 => Render!First.left > 1)
      OBVIOUS
    <3> HIDE DEF cut, twice
    <3> QED BY <3>1, <3>2
  <2>2. PICK cut \in {0, 1}, twice \in {0, 1} :
             LET take == Render!Smaller(Block - renderWork.written - twice, Render!First.left - cut)
             IN  /\ cut = 1 => Render!First.left > 1
                 /\ renderChunks' = Render!Rest(cut + take)
                 /\ renderBuffered' = renderBuffered - cut - take
                 /\ renderWork' = [renderWork EXCEPT !.written = @ + twice + take, !.measured = TRUE]
    BY <2>1
  <2> DEFINE take == Render!Smaller(Block - renderWork.written - twice, Render!First.left - cut)
  <2>3. Render!First.left > 0
    BY <2>1 DEF Render!Scheduled
  <2>4. /\ take \in Nat /\ cut + take \in 0..Render!First.left
        /\ renderWork.written + twice + take \in 0..Block
    <3>1. /\ Render!First.left \in Nat /\ renderWork.written \in Nat /\ renderWork.written < Block
          /\ cut \in 0..Render!First.left /\ Block \in Nat
      BY <2>1, <2>2, <2>3, <1>8, <1>11
    <3>2. Block - renderWork.written - twice \in Nat /\ Render!First.left - cut \in Nat
      BY <3>1
    <3>3. take \in Nat /\ take <= Block - renderWork.written - twice /\ take <= Render!First.left - cut
      BY <3>2 DEF Render!Smaller
    <3> HIDE DEF take
    <3>4. cut \in Nat /\ twice \in Nat
      OBVIOUS
    <3>5. cut + take \in 0..Render!First.left
      BY <3>1, <3>3, <3>4
    <3>6. renderWork.written + twice + take \in 0..Block
      BY <3>1, <3>3, <3>4
    <3> QED BY <3>3, <3>5, <3>6
  <2>5. renderBuffered \in Nat
    BY FramesType
  <2> HIDE DEF take
  <2>6. renderBuffered - cut - take = renderBuffered - (cut + take)
    BY <2>4, <2>5
  <2>7. /\ renderChunks' = Render!Rest(cut + take) /\ renderBuffered' = renderBuffered - (cut + take)
        /\ renderWork' = [renderWork EXCEPT !.written = @ + twice + take, !.measured = TRUE]
    BY <2>2, <2>6 DEF take
  <2>8. renderWork' \in [on : BOOLEAN, written : 0..Block, stepped : BOOLEAN, measured : BOOLEAN]
    BY <2>4, <2>7
  <2> QED BY <2>1, <2>4, <2>7, <2>8, <1>8, <1>9, <1>11
<1>15. CASE Render!BlockEnds
  <2>1. PICK slip \in {0, -1, 1} : Render!Passes(Block, slip)
    BY <1>15 DEF Render!BlockEnds
  <2> DEFINE moved(c) == [c EXCEPT !.due = Render!Later(@, -Block - slip)]
  <2>2. /\ renderWork' = Render!NoWork /\ renderBuffered' = renderBuffered
        /\ renderChunks' = [i \in DOMAIN renderChunks |-> moved(renderChunks[i])]
        /\ renderNextDue' \in Int \cup {None}
    BY <2>1 DEF Render!Passes
  <2>3. \A i \in 1..Len(renderChunks) :
          /\ moved(renderChunks[i]) \in Piece
          /\ moved(renderChunks[i]).left = renderChunks[i].left
    <3> TAKE i \in 1..Len(renderChunks)
    <3>1. renderChunks[i] \in Piece
      BY PieceLeft
    <3>2. Render!Later(renderChunks[i].due, -Block - slip) \in Int \cup {None}
      BY <3>1 DEF Piece, Render!Later
    <3>3. moved(renderChunks[i]) = [renderChunks[i] EXCEPT !.due = Render!Later(renderChunks[i].due, -Block - slip)]
      OBVIOUS
    <3> HIDE DEF moved
    <3> QED BY <3>1, <3>2, <3>3 DEF Piece
  <2>4. DOMAIN renderChunks = 1..Len(renderChunks) /\ Len(renderChunks) \in Nat
    OBVIOUS
  <2> HIDE DEF moved
  <2>5. /\ renderChunks' \in Seq(Piece) /\ Len(renderChunks') = Len(renderChunks)
        /\ \A i \in 1..Len(renderChunks) : renderChunks'[i] = moved(renderChunks[i])
    BY <2>2, <2>3, <2>4
  <2>6. Render!Frames(renderChunks') = Render!Frames(renderChunks)
    BY <2>3, <2>5, FramesOfSame
  <2>7. Render!NoWork \in [on : BOOLEAN, written : 0..Block, stepped : BOOLEAN, measured : BOOLEAN]
    BY DEF Render!NoWork
  <2> QED BY <2>2, <2>5, <2>6, <2>7
<1> QED
  BY <1>1, <1>2, <1>3, <1>4, <1>5, <1>6, <1>7, <1>10, <1>12, <1>13, <1>14, <1>15 DEF Render!Next

\* No block is longer than asked for, every frame of the buffer is counted once, whatever is dropped,
\* skipped, trimmed, doubled, padded or flushed, and a stream starts within the deadband of its time
\* (sendspin_player.py, enqueue, _discard_oldest, _take).
THEOREM EveryFrameCounts == UnitSpec => []InPhase
<1>1. CountInv /\ [UnitNext]_unitVars => CountInv'
  <2> SUFFICES ASSUME CountInv, [UnitNext]_unitVars PROVE CountInv'
    OBVIOUS
  <2>1. CASE UNCHANGED renderVars
    BY <2>1 DEF renderVars, CountInv
  <2>2. CASE Render!Next
    BY <2>2, CountKeeps
  <2> QED
    BY <2>1, <2>2 DEF UnitNext, DiallingNext, PairNext, HeldNext, OutputNext, RenderNext, RelayNext,
       ReportNext, CoverNext, LineNext, unitVars
<1>2. CountInv => Render!Exact
  BY RenderAssumption DEF CountInv, Render!Exact
<1>3. Render!Exact /\ (focus = "render" => Render!FirstFrameOnTime) => InPhase
  BY DEF InPhase, Render!InPhase
<1> QED
  BY <1>1, <1>2, <1>3, CountInitially, FirstFrameIsOnTime, PTL DEF UnitSpec
=============================================================================
