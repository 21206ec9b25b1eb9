------------------------------ MODULE Renderer ------------------------------
(***************************************************************************)
(* The renderer of a player (backend/scripts/sendspin_player.py:           *)
(* AlsaRenderer): chunks come in on the event loop, each with the time its *)
(* first frame is due; the audio thread fills one block after the other,   *)
(* and holds, skips or trims until what it hands over is what is due.  The *)
(* loop of _take is here step by step, under the lock.  Times are in       *)
(* frames, counted from the start of the next block.                       *)
(***************************************************************************)
EXTENDS Integers, Sequences

CONSTANTS Block,      \* DAC_BLOCK_FRAMES
          Chunk,      \* frames in a chunk
          MaxFrames,  \* MAX_BUFFER_MS
          Hard,       \* SYNC_HARD_US
          Deadband,   \* SYNC_DEADBAND_US
          TrimEvery,  \* SYNC_TRIM_EVERY
          Lead,       \* how early the first chunk of a stream comes, or how late
          MaxTrouble, \* bound: streams, clearings, switches of the output, slips of a clock
          None

VARIABLES chunks,    \* the jitter buffer
          buffered,  \* _buffered
          aligned, ema, tick,
          work,      \* the block being filled, under the lock
          nextDue,   \* of the stream being sent: when its next chunk is due, or None
          fresh,     \* no frame of this stream has been served on schedule yet
          drained,   \* history: audio was left when the stream before ended
          off,       \* history: how far from its time the first frame of the stream was served
          trouble

vars == <<chunks, buffered, aligned, ema, tick, work, nextDue, fresh, drained, off, trouble>>

NoWork == [on |-> FALSE, written |-> 0, stepped |-> FALSE, measured |-> FALSE]
Span   == -20..20

TypeOK ==
    /\ \A i \in DOMAIN chunks : chunks[i] \in [left : 0..Chunk, due : Span \cup {None}]
    /\ buffered \in 0..(MaxFrames + Chunk)
    /\ aligned \in BOOLEAN
    /\ ema \in Span \cup {None}
    /\ tick \in 0..TrimEvery
    /\ work \in [on : BOOLEAN, written : 0..Block, stepped : BOOLEAN, measured : BOOLEAN]
    /\ nextDue \in Span \cup {None}
    /\ {fresh, drained} \subseteq BOOLEAN
    /\ off \in Span
    /\ trouble \in 0..MaxTrouble

Init ==
    /\ chunks = <<>> /\ buffered = 0
    /\ aligned = FALSE /\ ema = None /\ tick = 0
    /\ work = NoWork
    /\ nextDue = None
    /\ fresh = TRUE /\ drained = FALSE /\ off = 0
    /\ trouble = 0

\* How many frames the first i chunks have, and how many there are.
Sums(q) == LET sum[i \in 0..Len(q)] == IF i = 0 THEN 0 ELSE sum[i - 1] + q[i].left IN sum
Frames(q)  == Sums(q)[Len(q)]
Smaller(a, b) == IF a < b THEN a ELSE b
Size(a)    == IF a < 0 THEN -a ELSE a
Later(due, n) == IF due = None THEN None ELSE due + n
Trouble    == trouble < MaxTrouble /\ trouble' = trouble + 1

\* The chunks without their first n frames (_discard_oldest).
Without(q, n) ==
    IF n >= Frames(q) THEN <<>>
    ELSE LET k == CHOOSE i \in 1..Len(q) : Sums(q)[i] > n /\ Sums(q)[i - 1] <= n
             m == n - Sums(q)[k - 1]
         IN  <<[left |-> q[k].left - m, due |-> Later(q[k].due, m)]>> \o SubSeq(q, k + 1, Len(q))

-----------------------------------------------------------------------------
(* The event loop.                                                         *)

\* A stream begins, or the server changes: its first chunk is due some time ahead.
StreamStarts(lead) ==
    /\ Trouble /\ ~work.on
    /\ nextDue = None
    /\ nextDue' = lead
    /\ fresh' = TRUE /\ off' = 0
    /\ drained' = (drained /\ (chunks # <<>> \/ aligned))
    /\ UNCHANGED <<chunks, buffered, aligned, ema, tick, work>>

\* enqueue: a chunk that the clock filter could time, or not; what is too much goes at the old end.
Enqueue(timed) ==
    /\ ~work.on /\ nextDue # None
    /\ nextDue < 2 * Block + 1
    /\ LET all  == Append(chunks, [left |-> Chunk, due |-> IF timed THEN nextDue ELSE None])
           drop == buffered + Chunk - MaxFrames
       IN  /\ chunks' = IF drop > 0 THEN Without(all, drop) ELSE all
           /\ buffered' = IF drop > 0 THEN MaxFrames ELSE buffered + Chunk
    /\ nextDue' = nextDue + Chunk
    /\ UNCHANGED <<aligned, ema, tick, work, fresh, drained, off, trouble>>

\* flush, on stream_clear.
Flush ==
    /\ ~work.on /\ nextDue # None /\ Trouble
    /\ chunks' = <<>> /\ buffered' = 0
    /\ aligned' = FALSE /\ ema' = None
    /\ UNCHANGED <<tick, work, nextDue, fresh, drained, off>>

\* Mutant: the end of a stream leaves the alignment.
MarkIdleStaysAligned ==
    /\ ~work.on /\ nextDue # None
    /\ nextDue' = None
    /\ aligned' = aligned
    /\ drained' = (chunks # <<>>)
    /\ fresh' = TRUE /\ off' = 0
    /\ UNCHANGED <<chunks, buffered, ema, tick, work, trouble>>

\* mark_idle, on stream_end.
MarkIdle ==
    /\ ~work.on /\ nextDue # None
    /\ nextDue' = None
    /\ aligned' = FALSE
    /\ drained' = (chunks # <<>>)
    /\ fresh' = TRUE /\ off' = 0
    /\ UNCHANGED <<chunks, buffered, ema, tick, work, trouble>>

\* _open of another card.
Open ==
    /\ ~work.on /\ Trouble
    /\ aligned' = FALSE /\ ema' = None
    /\ UNCHANGED <<chunks, buffered, tick, work, nextDue, fresh, drained, off>>

-----------------------------------------------------------------------------
(* The audio thread.                                                       *)

\* _callback
Callback ==
    /\ ~work.on
    /\ work' = [NoWork EXCEPT !.on = TRUE]
    /\ UNCHANGED <<chunks, buffered, aligned, ema, tick, nextDue, fresh, drained, off, trouble>>

Filling == work.on /\ work.written < Block /\ chunks # <<>>
First    == chunks[1]
Rest(n) == <<[left |-> First.left - n, due |-> Later(First.due, n)]>> \o Tail(chunks)
Err     == First.due - work.written

\* _observe: the average is anywhere between what it was and the error, or starts again.
Observed ==
    IF work.measured THEN {ema}
    ELSE IF Size(Err) > Hard THEN {0}
    ELSE IF ema = None THEN {Err}
    ELSE {e \in Span : e >= Smaller(ema, Err) /\ -e >= Smaller(-ema, -Err)}

Threshold == IF aligned /\ ~work.stepped THEN Hard ELSE Deadband

PopHead ==
    /\ Filling /\ First.left = 0
    /\ chunks' = Tail(chunks)
    /\ UNCHANGED <<buffered, aligned, ema, tick, work, nextDue, fresh, drained, off, trouble>>

\* No schedule: it plays behind what there was.
Contiguous ==
    /\ Filling /\ First.left > 0 /\ First.due = None
    /\ LET take == Smaller(Block - work.written, First.left)
       IN  /\ chunks' = Rest(take) /\ buffered' = buffered - take
           /\ work' = [work EXCEPT !.written = @ + take]
    /\ UNCHANGED <<aligned, ema, tick, nextDue, fresh, drained, off, trouble>>

Scheduled == Filling /\ First.left > 0 /\ First.due # None

\* Due later: silence until then.  _note_step ends the alignment.
Hold ==
    /\ Scheduled /\ Err > Threshold
    /\ ema' \in Observed
    /\ work' = [work EXCEPT !.written = Smaller(Block, @ + Err), !.stepped = TRUE, !.measured = TRUE]
    /\ aligned' = (aligned /\ work.stepped)
    /\ UNCHANGED <<chunks, buffered, tick, nextDue, fresh, drained, off, trouble>>

\* Overdue: skip to the frame that is due now.
Skip ==
    /\ Scheduled /\ Err < -Threshold
    /\ ema' \in Observed
    /\ LET skip == Smaller(First.left, -Err)
       IN  chunks' = Rest(skip) /\ buffered' = buffered - skip
    /\ work' = [work EXCEPT !.stepped = TRUE, !.measured = TRUE]
    /\ aligned' = (aligned /\ work.stepped)
    /\ UNCHANGED <<tick, nextDue, fresh, drained, off, trouble>>

\* Close enough: one frame dropped or doubled now and then, and the audio.
Copy ==
    /\ Scheduled /\ Size(Err) <= Threshold
    /\ ema' \in Observed
    /\ tick' = (tick + 1) % TrimEvery
    /\ LET due   == tick' = 0
           cut   == IF due /\ ema' < -Deadband /\ First.left > 1 THEN 1 ELSE 0
           twice == IF due /\ ema' > Deadband THEN 1 ELSE 0
           take  == Smaller(Block - work.written - twice, First.left - cut)
       IN  /\ chunks' = Rest(cut + take)
           /\ buffered' = buffered - cut - take
           /\ work' = [work EXCEPT !.written = @ + twice + take, !.measured = TRUE]
    /\ aligned' = (aligned \/ Size(Err) <= Deadband)
    /\ fresh' = FALSE
    /\ off' = IF fresh THEN Err ELSE off
    /\ UNCHANGED <<nextDue, drained, trouble>>

Passes(n, slip) ==
    /\ work' = NoWork
    /\ chunks' = [i \in DOMAIN chunks |-> [chunks[i] EXCEPT !.due = Later(@, -n - slip)]]
    /\ nextDue' = IF nextDue = None THEN None
                  ELSE IF nextDue - n - slip < -Block THEN -Block ELSE nextDue - n - slip
    /\ UNCHANGED <<buffered, aligned, ema, tick, fresh, drained, off>>

\* The block is full, or what is missing is padded; it has been handed over, and the clock of the
\* card may have slipped against the player's meanwhile.
BlockEnds ==
    /\ work.on /\ (work.written = Block \/ chunks = <<>>)
    /\ \/ Passes(Block, 0) /\ UNCHANGED trouble
       \/ Trouble /\ \E slip \in {-1, 1} : Passes(Block, slip)

Next ==
    \/ \E l \in Lead : StreamStarts(l)
    \/ \E timed \in BOOLEAN : Enqueue(timed)
    \/ Flush \/ MarkIdle \/ Open
    \/ Callback \/ PopHead \/ Contiguous \/ Hold \/ Skip \/ Copy \/ BlockEnds

Spec == Init /\ [][Next]_vars

-----------------------------------------------------------------------------
(* Properties.                                                             *)

\* What the callback counts is what there is, and no block is longer than asked for.
Exact == buffered = Frames(chunks) /\ work.written <= Block

\* The first frame of a stream that is served on schedule is within the deadband of its time,
\* however the stream before it ended; unless it ended with audio still in the buffer, which aligns
\* the renderer again while it drains (mark_idle, _take).
FirstFrameOnTime == ~drained => Size(off) <= Deadband

\* Both: the block and the queue are accounted for to the frame, and a stream starts in phase.
InPhase == Exact /\ FirstFrameOnTime
=============================================================================
