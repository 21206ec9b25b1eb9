------------------------ MODULE CalibrationToneProofs ------------------------
(***************************************************************************)
(* Proofs about CalibrationTone for any speakers, sources, levels and      *)
(* number of callers: a session that has ended leaves nothing of itself    *)
(* behind, and every speaker that was on a tone is where people had it,    *)
(* and as loud, or will be when it connects.                               *)
(***************************************************************************)
EXTENDS CalibrationTone, SequenceTheorems, TLAPS

In(x, q) == \E i \in DOMAIN q : q[i] = x

Undoing  == {"restoring", "tearing", "relevel", "undone"}
Building == {"synth", "viewing", "opening", "routing", "adopting", "levelling", "dropping", "failing"}

\* Where the lock's holder is.
Point == IF queue = <<>> THEN "free" ELSE pc[Head(queue)]

\* The lock: those who want it are in its queue, and only the first of them is past waiting.
Locked ==
    /\ \A x \in Actor : In(x, queue) <=> pc[x] \notin {"idle", "asleep"}
    /\ \A x \in Actor : In(x, queue) <=> asked[x] # None
    /\ \A x \in Actor : pc[x] \in Undoing \cup Building => Holds(x)
    /\ \A x \in Actor : pc[x] \in Building => asked[x].op = "start"
    /\ \A c \in Caller : pc[c] # "asleep"
    /\ asked[Watch] # None => asked[Watch].op = "stop"

\* What its holder has in its hands.
InHand ==
    /\ old # None <=> Point \in Undoing
    /\ new # None <=> Point \in Building
    /\ Point \in Undoing \cup Building => state = None

\* A session that stands has its watchdog, and at no other time is there one.
Watched == state # None <=> pc[Watch] \in {"asleep", "waiting"}

\* The tone sources are those of the session that stands, is undone or is built, and all but the
\* newest have their writer.
Sounding ==
    IF state # None THEN {state.name}
    ELSE IF Point \in {"restoring", "tearing"} THEN {old.name}
    ELSE IF Point \in Building \ {"synth"} THEN {new.name}
    ELSE {}
Played == cal = Sounding /\ writers = IF Point = "viewing" THEN {} ELSE Sounding

Sessions == {state, old, new} \ {None}

\* A session's speaker is the one its name is of, and only the third-party one is ever adopted: when
\* it was with nobody, or is excused.
Formed ==
    /\ \A s \in Sessions :
        /\ s.speaker = Who(s.name)
        /\ s.adopted => s.speaker = Guest /\ (s.source = None \/ Guest \in excused)
    /\ Point = "adopting" => new.speaker = Guest
    /\ Point = "dropping" => new.adopted

\* A session remembers where its speaker was, and how loud if that could be known.
Remembered ==
    \A s \in Sessions : s.speaker \notin excused =>
        /\ s.source = home.at[s.speaker]
        /\ s.speaker \in Own \ unheard => s.level = home.level[s.speaker]

\* A speaker is where people had it, or on its own session's tone.
Placed ==
    \A p \in Speaker \ excused :
        \/ at[p] = home.at[p]
        \/ /\ \E s \in Sessions : s.speaker = p /\ at[p] = Cal(s.name)
           /\ Point \notin {"tearing", "relevel", "undone", "synth", "viewing", "opening", "routing"}

\* It is as loud as people had it, or will be, but while a session on it stands or is undone.
Levels ==
    \A p \in Own \ (excused \cup unheard) :
        \/ home.level[p] \in {level[p], held[p]}
        \/ /\ \E s \in {state, old} \ {None} : s.speaker = p
           /\ Point # "undone"

\* People put speakers on sources, and no view has a speaker on a source people did not put it on.
Viewed ==
    /\ \A p \in Speaker : home.at[p] \in Source \cup {None}
    /\ \A p \in Speaker \ excused : view.at[p] \in Source => view.at[p] = home.at[p]

\* Who is asked for by the name mDNS has was with nobody.
Nameless ==
    \A x \in Actor : asked[x] # None /\ asked[x].op = "start" /\ asked[x].name = Alias =>
        home.at[Guest] = None \/ Guest \in excused

Sound == InHand /\ Watched /\ Played /\ Formed /\ Remembered /\ Placed /\ Levels /\ Viewed /\ Nameless

IInv == TypeOK /\ Locked /\ Sound

-----------------------------------------------------------------------------
(* Queues without duplicates.                                              *)

\* Who comes waits behind those who are there.
LEMMA AppendFacts ==
  ASSUME NEW q \in Seq(Actor), IsInjective(q), NEW x \in Actor, ~In(x, q)
  PROVE  /\ Append(q, x) \in Seq(Actor) /\ IsInjective(Append(q, x)) /\ Append(q, x) # <<>>
         /\ Head(Append(q, x)) = IF q = <<>> THEN x ELSE Head(q)
         /\ \A y : In(y, Append(q, x)) <=> In(y, q) \/ y = x
<1>1. /\ Append(q, x) \in Seq(Actor) /\ Len(Append(q, x)) = Len(q) + 1
      /\ \A i \in 1 .. Len(q) : Append(q, x)[i] = q[i]
      /\ Append(q, x)[Len(q) + 1] = x
  BY AppendProperties
<1>2. DOMAIN q = 1 .. Len(q) /\ DOMAIN Append(q, x) = 1 .. (Len(q) + 1) /\ Len(q) \in Nat
  BY <1>1
<1>3. \A y : In(y, Append(q, x)) <=> In(y, q) \/ y = x
  BY <1>1, <1>2 DEF In
<1>4. IsInjective(Append(q, x))
  BY <1>1, <1>2 DEF IsInjective, In
<1>5. Head(Append(q, x)) = IF q = <<>> THEN x ELSE Head(q)
  BY <1>1, <1>2
<1> QED
  BY <1>1, <1>3, <1>4, <1>5

\* The first of a queue.
LEMMA HeadFacts ==
  ASSUME NEW q \in Seq(Actor)
  PROVE  /\ Len(q) \in Nat /\ DOMAIN q = 1 .. Len(q)
         /\ \A i \in DOMAIN q : q[i] \in Actor
         /\ q # <<>> => /\ Len(q) > 0 /\ Head(q) = q[1] /\ Head(q) \in Actor
                        /\ In(Head(q), q)
<1>1. Len(q) \in Nat /\ DOMAIN q = 1 .. Len(q)
  BY LenProperties
<1>2. \A i \in DOMAIN q : q[i] \in Actor
  BY ElementOfSeq, <1>1
<1>3. ASSUME q # <<>> PROVE Len(q) > 0 /\ Head(q) = q[1]
  BY <1>1, <1>3, EmptySeq
<1>4. ASSUME q # <<>> PROVE 1 \in DOMAIN q
  BY <1>1, <1>3, <1>4
<1> QED
  BY <1>1, <1>2, <1>3, <1>4 DEF In

\* Who lets the lock go is gone, and nobody else.
LEMMA TailFacts ==
  ASSUME NEW q \in Seq(Actor), IsInjective(q), q # <<>>
  PROVE  /\ Tail(q) \in Seq(Actor) /\ IsInjective(Tail(q))
         /\ \A y : In(y, Tail(q)) <=> In(y, q) /\ y # Head(q)
<1>1. /\ Tail(q) \in Seq(Actor) /\ Len(Tail(q)) = Len(q) - 1
      /\ \A i \in 1 .. Len(Tail(q)) : Tail(q)[i] = q[i + 1]
  BY HeadTailProperties
<1>2. DOMAIN q = 1 .. Len(q) /\ Len(q) \in Nat /\ Len(q) > 0 /\ Head(q) = q[1]
  BY HeadFacts
<1>3. DOMAIN Tail(q) = 1 .. (Len(q) - 1)
  BY <1>1, <1>2
<1>4. IsInjective(Tail(q))
  BY <1>1, <1>2, <1>3 DEF IsInjective
<1>5. ASSUME NEW y, In(y, Tail(q)) PROVE In(y, q) /\ y # Head(q)
  <2>1. PICK i \in 1 .. (Len(q) - 1) : Tail(q)[i] = y
    BY <1>3, <1>5 DEF In
  <2>2. q[i + 1] = y /\ i + 1 \in DOMAIN q /\ 1 \in DOMAIN q /\ i + 1 # 1
    BY <1>1, <1>2, <1>3, <2>1
  <2> QED
    BY <1>2, <2>2 DEF In, IsInjective
<1>6. ASSUME NEW y, In(y, q), y # Head(q) PROVE In(y, Tail(q))
  <2>1. PICK i \in 1 .. Len(q) : q[i] = y
    BY <1>2, <1>6 DEF In
  <2>2. i # 1 /\ i - 1 \in DOMAIN Tail(q) /\ Tail(q)[i - 1] = y
    BY <1>1, <1>2, <1>3, <1>6, <2>1
  <2> QED
    BY <2>2 DEF In
<1> QED
  BY <1>1, <1>4, <1>5, <1>6

\* Who is cancelled while it waits leaves the others in their order.
LEMMA RemoveFacts ==
  ASSUME NEW q \in Seq(Actor), IsInjective(q), q # <<>>, NEW w \in Actor, w # Head(q)
  PROVE  /\ RemoveFirst(q, w) \in Seq(Actor) /\ IsInjective(RemoveFirst(q, w))
         /\ RemoveFirst(q, w) # <<>> /\ Head(RemoveFirst(q, w)) = Head(q)
         /\ \A y : In(y, RemoveFirst(q, w)) <=> In(y, q) /\ y # w
<1>1. DOMAIN q = 1 .. Len(q) /\ Len(q) \in Nat /\ Len(q) > 0 /\ Head(q) = q[1]
  BY HeadFacts
<1>2. CASE ~In(w, q)
  <2>1. RemoveFirst(q, w) = q
    BY <1>1, <1>2 DEF RemoveFirst, In
  <2> QED
    BY <1>2, <2>1
<1>3. ASSUME NEW k \in 1 .. Len(q), q[k] = w, NEW r, r = SubSeq(q, 1, k - 1) \o SubSeq(q, k + 1, Len(q))
      PROVE  /\ r \in Seq(Actor) /\ IsInjective(r) /\ r # <<>> /\ Head(r) = Head(q)
             /\ \A y : In(y, r) <=> In(y, q) /\ y # w
  <2> DEFINE a == SubSeq(q, 1, k - 1)
             b == SubSeq(q, k + 1, Len(q))
             n == Len(q) - 1
  <2>1. k \in Int /\ 1 < k /\ k <= Len(q) /\ n \in Nat /\ n >= 1
    BY <1>1, <1>3
  <2>2. a \in Seq(Actor) /\ Len(a) = k - 1 /\ \A i \in 1 .. (k - 1) : a[i] = q[i]
    <3>1. \A i \in 1 .. (k - 1) : q[i] \in Actor
      BY HeadFacts, <1>1, <2>1
    <3>2. /\ a \in Seq(Actor) /\ Len(a) = IF 1 <= k - 1 THEN (k - 1) - 1 + 1 ELSE 0
          /\ \A i \in 1 .. (k - 1) - 1 + 1 : a[i] = q[1 + i - 1]
      BY <2>1, <3>1, SubSeqProperties
    <3> QED
      BY <2>1, <3>2
  <2>3. b \in Seq(Actor) /\ Len(b) = Len(q) - k /\ \A i \in 1 .. (Len(q) - k) : b[i] = q[k + i]
    <3>1. \A i \in (k + 1) .. Len(q) : q[i] \in Actor
      BY HeadFacts, <1>1, <2>1
    <3>2. /\ b \in Seq(Actor) /\ Len(b) = IF k + 1 <= Len(q) THEN Len(q) - (k + 1) + 1 ELSE 0
          /\ \A i \in 1 .. Len(q) - (k + 1) + 1 : b[i] = q[k + 1 + i - 1]
      BY <1>1, <2>1, <3>1, SubSeqProperties
    <3>3. Len(q) - (k + 1) + 1 = Len(q) - k /\ \A i \in Int : k + 1 + i - 1 = k + i
      BY <1>1, <2>1
    <3>4. Len(b) = Len(q) - k
      <4> HIDE DEF b
      <4>1. CASE k + 1 <= Len(q)
        BY <3>2, <3>3, <4>1
      <4>2. CASE ~(k + 1 <= Len(q))
        <5>1. Len(q) = k
          <6>1. k \in Int /\ Len(q) \in Int /\ k <= Len(q)
            BY <1>1, <2>1
          <6> QED
            BY <4>2, <6>1
        <5>2. Len(q) - k = 0
          BY <2>1, <5>1
        <5> QED
          BY <3>2, <4>2, <5>2
      <4> QED
        BY <4>1, <4>2
    <3>5. ASSUME NEW i \in 1 .. (Len(q) - k) PROVE b[i] = q[k + i]
      <4>1. b[i] = q[k + 1 + i - 1]
        BY <3>2, <3>3
      <4> QED
        BY <3>3, <4>1
    <3> QED
      BY <3>2, <3>4, <3>5
  <2>4. r = a \o b
    BY <1>3
  <2> HIDE DEF a, b
  <2>5. r \in Seq(Actor) /\ Len(r) = n /\ \A i \in 1 .. n : r[i] = IF i < k THEN q[i] ELSE q[i + 1]
    <3>1. /\ r \in Seq(Actor) /\ Len(r) = Len(a) + Len(b)
          /\ \A i \in 1 .. Len(a) + Len(b) : r[i] = IF i <= Len(a) THEN a[i] ELSE b[i - Len(a)]
      BY <2>2, <2>3, <2>4, ConcatProperties
    <3>2. Len(r) = n
      BY <1>1, <2>1, <2>2, <2>3, <3>1
    <3>3. ASSUME NEW i \in 1 .. n PROVE r[i] = IF i < k THEN q[i] ELSE q[i + 1]
      <4>1. i \in 1 .. Len(a) + Len(b)
        BY <1>1, <2>1, <2>2, <2>3
      <4>2. CASE i < k
        BY <2>1, <2>2, <3>1, <4>1, <4>2
      <4>3. CASE ~(i < k)
        <5>1. i - (k - 1) \in 1 .. (Len(q) - k) /\ k + (i - (k - 1)) = i + 1
          BY <1>1, <2>1, <4>3
        <5> QED
          BY <2>1, <2>2, <2>3, <3>1, <4>1, <4>3, <5>1
      <4> QED
        BY <4>2, <4>3
    <3> QED
      BY <3>1, <3>2, <3>3
  <2>6. DOMAIN r = 1 .. n
    BY <2>5, LenProperties
  <2>7. IsInjective(r)
    <3> SUFFICES ASSUME NEW i \in 1 .. n, NEW j \in 1 .. n, r[i] = r[j] PROVE i = j
      BY <2>6 DEF IsInjective
    <3> DEFINE At(m) == IF m < k THEN m ELSE m + 1
    <3>1. At(i) \in DOMAIN q /\ At(j) \in DOMAIN q
      BY <1>1, <2>1
    <3>2. q[At(i)] = q[At(j)]
      BY <2>1, <2>5
    <3>3. At(i) = At(j)
      BY <3>1, <3>2 DEF IsInjective
    <3> QED
      BY <2>1, <3>3
  <2>8. r # <<>> /\ Head(r) = Head(q)
    <3>1. r # <<>>
      BY <2>1, <2>5, EmptySeq
    <3>2. Head(r) = r[1] /\ r[1] = q[1]
      BY <2>1, <2>5, <3>1, HeadFacts
    <3> QED
      BY <1>1, <3>1, <3>2
  <2>9. ASSUME NEW y, In(y, r) PROVE In(y, q) /\ y # w
    <3>1. PICK i \in 1 .. n : r[i] = y
      BY <2>6, <2>9 DEF In
    <3>2. PICK j \in 1 .. Len(q) : q[j] = y /\ j # k
      <4>1. CASE i < k
        BY <1>1, <2>1, <2>5, <3>1, <4>1
      <4>2. CASE ~(i < k)
        <5>1. i + 1 \in 1 .. Len(q) /\ q[i + 1] = y /\ i + 1 # k
          BY <1>1, <2>1, <2>5, <3>1, <4>2
        <5> QED
          BY <5>1
      <4> QED
        BY <4>1, <4>2
    <3> QED
      BY <1>1, <1>3, <3>2 DEF In, IsInjective
  <2>10. ASSUME NEW y, In(y, q), y # w PROVE In(y, r)
    <3>1. PICK j \in 1 .. Len(q) : q[j] = y /\ j # k
      BY <1>1, <1>3, <2>10 DEF In
    <3>2. CASE j < k
      <4>1. j \in 1 .. n /\ r[j] = y
        BY <1>1, <2>1, <2>5, <3>1, <3>2
      <4> QED
        BY <2>6, <4>1 DEF In
    <3>3. CASE j > k
      <4>1. j - 1 \in 1 .. n /\ ~(j - 1 < k) /\ (j - 1) + 1 = j
        BY <1>1, <2>1, <3>3
      <4>2. r[j - 1] = y
        BY <2>5, <3>1, <4>1
      <4> QED
        BY <2>6, <4>1, <4>2 DEF In
    <3> QED
      BY <2>1, <3>1, <3>2, <3>3
  <2> QED
    BY <2>5, <2>7, <2>8, <2>9, <2>10
<1>4. CASE In(w, q)
  <2> DEFINE I == {i \in 1 .. Len(q) : q[i] = w}
  <2>1. PICK k \in 1 .. Len(q) : q[k] = w
    BY <1>1, <1>4 DEF In
  <2>2. I = {k}
    BY <1>1, <2>1 DEF IsInjective
  <2>3. SelectInSeq(q, LAMBDA v : v = w) = Min(I)
    BY <2>2 DEF SelectInSeq
  <2>4. Min(I) = k
    BY <2>2 DEF Min
  <2>5. RemoveFirst(q, w) = SubSeq(q, 1, k - 1) \o SubSeq(q, k + 1, Len(q))
    BY <1>1, <1>4, <2>3, <2>4 DEF RemoveFirst, RemoveAt, In
  <2> QED
    BY <1>3, <2>1, <2>5
<1> QED
  BY <1>2, <1>4

-----------------------------------------------------------------------------
(* The turns at the lock: each of them keeps Locked, and says where its    *)
(* holder is next.                                                         *)

LockType ==
    /\ queue \in Seq(Actor) /\ IsInjective(queue)
    /\ pc \in [Actor -> Label]
    /\ asked \in [Actor -> Request \cup {None}]

LockIs == LockType /\ Locked

\* What the queue says of the holder, and of who is waiting.
LEMMA LockFacts ==
  ASSUME LockIs
  PROVE  /\ queue = <<>> <=> Point = "free"
         /\ Point \in Label \cup {"free"} /\ Point \notin {"idle", "asleep"}
         /\ queue # <<>> => Head(queue) \in Actor
         /\ \A x \in Actor : Holds(x) => Point = pc[x] /\ In(x, queue)
         /\ \A x \in Actor : ~Holds(x) => pc[x] \in {"idle", "asleep", "waiting"}
         /\ \A x \in Actor : asked[x] # None <=> pc[x] \notin {"idle", "asleep"}
<1> USE DEF LockIs, LockType, Locked, Point, Holds
<1>1. queue # <<>> => Head(queue) \in Actor /\ In(Head(queue), queue)
  BY HeadFacts
<1>2. queue = <<>> => Point = "free"
  OBVIOUS
<1>3. queue # <<>> => Point \in Label /\ Point # "free" /\ Point \notin {"idle", "asleep"}
  BY <1>1 DEF Label
<1>4. \A x \in Actor : Holds(x) => Point = pc[x] /\ In(x, queue)
  BY <1>1
<1>5. \A x \in Actor : ~Holds(x) => pc[x] \in {"idle", "asleep", "waiting"}
  <2> SUFFICES ASSUME NEW x \in Actor, ~Holds(x) PROVE pc[x] \in {"idle", "asleep", "waiting"}
    OBVIOUS
  <2>1. pc[x] \in Label /\ pc[x] \notin Undoing \cup Building
    OBVIOUS
  <2> QED
    BY <2>1 DEF Label, Undoing, Building
<1> QED
  BY <1>1, <1>2, <1>3, <1>4, <1>5

\* Who asks waits at the end of the queue.
LEMMA WaitsLock ==
  ASSUME LockIs, NEW x \in Actor, NEW r \in Request, r # None,
         Waits(x), asked' = [asked EXCEPT ![x] = r],
         pc[x] \in {"idle", "asleep"}, x = Watch => r.op = "stop"
  PROVE  /\ LockIs'
         /\ Point' = IF Point = "free" THEN "waiting" ELSE Point
         /\ queue' # <<>>
<1> USE DEF LockIs, LockType, Locked, Waits, Goes
<1>1. /\ queue' \in Seq(Actor) /\ IsInjective(queue') /\ queue' # <<>>
      /\ Head(queue') = IF queue = <<>> THEN x ELSE Head(queue)
      /\ \A y : In(y, queue') <=> In(y, queue) \/ y = x
  BY AppendFacts
<1>2. LockType'
  BY <1>1 DEF Label
<1>3. queue # <<>> => Head(queue) \in Actor /\ Head(queue) # x
  <2>1. queue # <<>> => Head(queue) \in Actor /\ In(Head(queue), queue)
    BY HeadFacts
  <2> QED
    BY <2>1
<1>4. \A y \in Actor : pc'[y] = (IF y = x THEN "waiting" ELSE pc[y])
                       /\ asked'[y] = (IF y = x THEN r ELSE asked[y])
  OBVIOUS
<1>5. \A y \in Actor : Holds(y) => Holds(y)'
  BY <1>1, <1>3 DEF Holds
<1>6. Locked'
  <2>1. \A y \in Actor : In(y, queue') <=> pc'[y] \notin {"idle", "asleep"}
    BY <1>1, <1>4
  <2>2. \A y \in Actor : In(y, queue') <=> asked'[y] # None
    BY <1>1, <1>4
  <2>3. \A y \in Actor : pc'[y] \in Undoing \cup Building => pc[y] = pc'[y] /\ asked[y] = asked'[y]
    BY <1>4 DEF Undoing, Building
  <2>4. \A c \in Caller : pc'[c] # "asleep"
    BY <1>4 DEF Actor
  <2>5. asked'[Watch] # None => asked'[Watch].op = "stop"
    BY <1>4 DEF Actor
  <2> QED
    BY <1>5, <2>1, <2>2, <2>3, <2>4, <2>5
<1>7. Point' = IF Point = "free" THEN "waiting" ELSE Point
  BY <1>1, <1>3, <1>4, LockFacts DEF Point
<1> QED
  BY <1>1, <1>2, <1>6, <1>7

\* The holder goes on, and keeps the lock.
LEMMA GoesLock ==
  ASSUME LockIs, NEW x \in Actor, Holds(x), NEW label \in Label \ {"idle", "asleep"},
         label \in Building => asked[x].op = "start",
         Goes(x, label), UNCHANGED <<queue, asked>>
  PROVE  LockIs' /\ Point' = label /\ (x # Watch => pc'[Watch] = pc[Watch]) /\ pc'[x] = label
<1> USE DEF LockIs, LockType, Locked, Goes
<1>1. \A y \in Actor : pc'[y] = IF y = x THEN label ELSE pc[y]
  OBVIOUS
<1>2. In(x, queue)
  BY LockFacts
<1>3. Locked'
  BY <1>1, <1>2 DEF Holds
<1>4. Point' = label
  BY <1>1 DEF Point, Holds
<1> QED
  BY <1>1, <1>3, <1>4 DEF Actor

\* The holder ends, and the next in line, if there is one, waits no more.
LEMMA EndsLock ==
  ASSUME LockIs, NEW x \in Actor, Holds(x), NEW label, Ends(x, label),
         IF x = Watch THEN label = "idle" /\ pc[Watch] # "asleep"
                      ELSE \/ label = pc[Watch]
                           \/ label = "asleep" /\ pc[Watch] = "idle"
  PROVE  LockIs' /\ Point' \in {"free", "waiting"} /\ pc'[Watch] = label
<1> USE DEF LockIs, LockType, Locked, Ends
<1>1. queue # <<>> /\ Head(queue) = x
  BY DEF Holds
<1>2. /\ queue' \in Seq(Actor) /\ IsInjective(queue')
      /\ \A y : In(y, queue') <=> In(y, queue) /\ y # x
  BY <1>1, TailFacts
<1>3. Watch \in Actor /\ label \in Label
  BY DEF Actor, Label
<1>4. \A y \in Actor : pc'[y] = IF y = Watch THEN label ELSE IF y = x THEN "idle" ELSE pc[y]
  BY <1>3
<1>5. \A y \in Actor : asked'[y] = IF y = x THEN None ELSE asked[y]
  OBVIOUS
<1>6. LockType'
  BY <1>2, <1>3 DEF Label
<1>7. \A y \in Actor : y # x => pc[y] \in {"idle", "asleep", "waiting"}
  BY <1>1, LockFacts DEF Holds
<1>8. \A y \in Actor : pc'[y] \in {"idle", "asleep", "waiting"}
  BY <1>3, <1>4, <1>7
<1>9. \A y \in Actor : In(y, queue') <=> pc'[y] \notin {"idle", "asleep"}
  BY <1>2, <1>3, <1>4
<1>10. Locked'
  <2>1. \A y \in Actor : In(y, queue') <=> asked'[y] # None
    BY <1>2, <1>5
  <2>2. \A y \in Actor : pc'[y] \notin Undoing \cup Building
    BY <1>8 DEF Undoing, Building
  <2>3. \A c \in Caller : pc'[c] # "asleep"
    BY <1>4, ToneAssumption DEF Actor
  <2>4. asked'[Watch] # None => asked'[Watch].op = "stop"
    BY <1>3, <1>5
  <2> QED
    BY <1>9, <2>1, <2>2, <2>3, <2>4
<1>11. Point' \in {"free", "waiting"}
  <2>1. CASE queue' = <<>>
    BY <2>1 DEF Point
  <2>2. CASE queue' # <<>>
    <3>1. Head(queue') \in Actor /\ In(Head(queue'), queue')
      BY <1>2, <2>2, HeadFacts
    <3>2. pc'[Head(queue')] = "waiting"
      BY <1>8, <1>9, <3>1
    <3> QED
      BY <2>2, <3>2 DEF Point
  <2> QED
    BY <2>1, <2>2
<1> QED
  BY <1>3, <1>4, <1>6, <1>10, <1>11

\* The holder undoes the session: the watchdog, cancelled, is out of the queue.
LEMMA StopLock ==
  ASSUME LockIs, NEW x \in Actor, Holds(x), pc[x] = "waiting", StopLocked(x)
  PROVE  /\ LockIs' /\ Point' = "restoring"
         /\ pc'[Watch] = IF x = Watch THEN "restoring" ELSE "idle"
<1> USE DEF LockIs, LockType, Locked, StopLocked
<1>1. queue # <<>> /\ Head(queue) = x /\ In(x, queue)
  BY LockFacts DEF Holds
<1>2. Watch \in Actor
  BY DEF Actor
<1>3. CASE x = Watch
  <2>1. Goes(x, "restoring") /\ UNCHANGED <<queue, asked>>
    BY <1>3 DEF Goes
  <2>2. LockIs' /\ Point' = "restoring" /\ pc'[x] = "restoring"
    BY <2>1, GoesLock DEF Label, Building
  <2> QED
    BY <1>3, <2>2
<1>4. CASE x # Watch
  <2>1. /\ queue' \in Seq(Actor) /\ IsInjective(queue') /\ queue' # <<>> /\ Head(queue') = x
        /\ \A y : In(y, queue') <=> In(y, queue) /\ y # Watch
    BY <1>1, <1>2, <1>4, RemoveFacts
  <2>2. \A y \in Actor : pc'[y] = IF y = x THEN "restoring" ELSE IF y = Watch THEN "idle" ELSE pc[y]
    BY <1>2, <1>4
  <2>3. \A y \in Actor : asked'[y] = IF y = Watch THEN None ELSE asked[y]
    BY <1>2, <1>4
  <2>4. LockType'
    BY <1>4, <2>1 DEF Label
  <2>5. \A y \in Actor : In(y, queue') <=> pc'[y] \notin {"idle", "asleep"}
    BY <1>1, <1>4, <2>1, <2>2
  <2>6. \A y \in Actor : In(y, queue') <=> asked'[y] # None
    BY <2>1, <2>3
  <2>7. \A y \in Actor : pc'[y] \in Undoing \cup Building => y = x
    BY <1>1, <2>2 DEF Holds, Undoing, Building
  <2>8. /\ \A c \in Caller : pc'[c] # "asleep"
        /\ asked'[Watch] # None => asked'[Watch].op = "stop"
    BY <1>2, <2>2, <2>3 DEF Actor
  <2>9. pc'[x] \notin Building /\ Holds(x)'
    BY <2>1, <2>2 DEF Building, Holds
  <2>10. Locked'
    BY <2>5, <2>6, <2>7, <2>8, <2>9
  <2>11. Point' = "restoring"
    BY <2>1, <2>2 DEF Point
  <2> QED
    BY <1>2, <1>4, <2>2, <2>4, <2>10, <2>11
<1> QED
  BY <1>3, <1>4

-----------------------------------------------------------------------------
(* Steps.  Each of them leaves every part of the invariant true.           *)

\* What the invariant says of the holder of the lock and of what it has in its hands.
LEMMA HolderFacts ==
  ASSUME IInv, NEW x \in Actor, Holds(x)
  PROVE  /\ LockIs /\ Point = pc[x] /\ asked[x] \in Request
         /\ pc[x] \in Undoing => /\ old \in Session /\ old # None /\ state = None /\ new = None
         /\ pc[x] \in Building => /\ new \in Session /\ new # None /\ state = None /\ old = None
                                  /\ asked[x].op = "start" /\ x # Watch
         /\ pc[x] = "waiting" => old = None /\ new = None
         /\ state = None /\ x # Watch => pc[Watch] = "idle"
         /\ state = None /\ x = Watch => pc[x] # "waiting"
<1> USE DEF IInv, Sound, TypeOK, gainVars
<1>1. LockIs
  BY DEF LockIs, LockType
<1>2. Point = pc[x] /\ In(x, queue) /\ asked[x] # None
  BY <1>1, LockFacts DEF LockIs, Locked
<1>3. Watch \in Actor /\ (x # Watch => pc[Watch] \in {"idle", "asleep", "waiting"})
  BY <1>1, LockFacts DEF Actor, Holds
<1>4. pc[x] \in Building => asked[x].op = "start" /\ x # Watch
  BY <1>2, <1>3 DEF Locked
<1>5. Undoing \cap Building = {} /\ "waiting" \notin Undoing \cup Building
  BY DEF Undoing, Building
<1> QED
  BY <1>1, <1>2, <1>3, <1>4, <1>5 DEF InHand, Watched

GainType ==
    /\ level \in [Own -> Level]
    /\ link \in [Own -> {"here", "away", None}]
    /\ held \in [Own -> Level \cup {None}]

LEMMA Initially == Init => IInv
<1> SUFFICES ASSUME Init PROVE IInv
  OBVIOUS
<1> USE DEF Init
<1>1. TypeOK
  <2>1. at \in [Speaker -> Place] /\ at \in [Speaker -> Source \cup {None}]
    BY DEF Place
  <2>2. view \in [at : [Speaker -> Source \cup {None}], level : [Own -> Level \cup {None}]]
    BY DEF Published
  <2>3. home \in [at : [Speaker -> Place], level : [Own -> Level]]
    BY <2>1
  <2>4. queue \in Seq(Actor) /\ IsInjective(queue)
    BY EmptySeq DEF IsInjective
  <2>5. link \in [Own -> {"here", "away", None}] /\ held \in [Own -> Level \cup {None}]
    OBVIOUS
  <2> QED
    BY <2>1, <2>2, <2>3, <2>4, <2>5 DEF TypeOK, Label
<1>2. Point = "free"
  BY DEF Point
<1>3. \A x : ~In(x, queue)
  BY DEF In
<1>4. Locked
  BY <1>3 DEF Locked, Undoing, Building, Actor
<1>5. Sessions = {}
  BY DEF Sessions
<1>6. InHand /\ Watched /\ Played
  BY <1>2 DEF InHand, Watched, Played, Sounding, Undoing, Building, Actor
<1>7. Formed /\ Remembered
  BY <1>2, <1>5 DEF Formed, Remembered
<1>8. Placed /\ Levels /\ Nameless
  BY DEF Placed, Levels, Nameless, Speaker
<1>9. Viewed
  BY ToneAssumption DEF Viewed, Published
<1> QED
  BY <1>1, <1>4, <1>6, <1>7, <1>8, <1>9 DEF IInv, Sound

\* A level that is set is that of a speaker connected here, or held for it.
LEMMA SetLevelFacts ==
  ASSUME TypeOK, NEW p \in Speaker, NEW v \in Level, SetLevel(p, v)
  PROVE  /\ GainType'
         /\ \A q \in Own : q # p => level'[q] = level[q] /\ held'[q] = held[q]
         /\ p \in Own => v \in {level'[p], held'[p]}
BY DEF SetLevel, GainType, TypeOK

\* Whoever connects here is as loud as people had it if it was, or was to be, and nothing else is held.
LEMMA ComesFacts ==
  ASSUME TypeOK, NEW p \in Speaker, Comes(p)
  PROVE  /\ GainType'
         /\ \A q \in Own : q # p => level'[q] = level[q] /\ held'[q] = held[q]
         /\ \A q \in Own \ Overtaken(p) :
               home.level[q] \in {level[q], held[q]} => home.level[q] \in {level'[q], held'[q]}
<1> USE DEF TypeOK, Comes, GainType
<1>1. GainType' /\ \A q \in Own : q # p => level'[q] = level[q] /\ held'[q] = held[q]
  OBVIOUS
<1>2. ASSUME p \in Own \ Overtaken(p), home.level[p] \in {level[p], held[p]}
      PROVE  home.level[p] = level'[p]
  <2>1. held[p] \in {None, home.level[p]} /\ home.level[p] # None
    BY <1>2, ToneAssumption DEF Overtaken
  <2> QED
    BY <1>2, <2>1
<1> QED
  BY <1>1, <1>2

LEMMA AttachedFacts ==
  ASSUME TypeOK, NEW p \in Speaker, NEW s \in Place, Attached(p, s)
  PROVE  /\ at' = [at EXCEPT ![p] = s]
         /\ GainType'
         /\ \A q \in Own : q # p => level'[q] = level[q] /\ held'[q] = held[q]
         /\ \A q \in Own \ Overtaken(p) :
               home.level[q] \in {level[q], held[q]} => home.level[q] \in {level'[q], held'[q]}
<1>1. CASE Comes(p)
  BY <1>1, ComesFacts DEF Attached
<1>2. CASE ~Comes(p)
  BY <1>2 DEF Attached, TypeOK, GainType
<1> QED
  BY <1>1, <1>2

\* People, and the poll of the view.
LEMMA OutsideKeeps == IInv /\ (People \/ ViewPolled) => IInv'
<1> SUFFICES ASSUME IInv, People \/ ViewPolled PROVE IInv'
  OBVIOUS
<1> USE DEF IInv, Sound, TypeOK, gainVars, toneVars, taskVars
<1>1. LockIs /\ Watch \in Actor
  BY DEF LockIs, LockType, Actor
<1>2. CASE ViewPolled
  <2> USE <1>2 DEF ViewPolled
  <2>1. TypeOK'
    BY DEF Published
  <2>2. Locked' /\ Point' = Point
    BY DEF Locked, Holds, Point
  <2>3. InHand' /\ Watched' /\ Played' /\ Formed' /\ Remembered' /\ Placed' /\ Levels' /\ Nameless'
    BY <2>2 DEF InHand, Watched, Played, Sounding, Formed, Remembered, Placed, Levels, Nameless, Sessions
  <2>4. Viewed'
    <3>1. \A s \in Sessions : Cal(s.name) \notin Source
      BY ToneAssumption DEF Sessions, Session
    <3> QED
      BY <3>1, ToneAssumption DEF Viewed, Placed, Sessions, Published
  <2> QED
    BY <2>1, <2>2, <2>3, <2>4
<1>3. CASE People
  <2>1. Quiet /\ UNCHANGED <<toneVars, taskVars>>
    BY <1>3 DEF People, PersonMoves, PersonLevels
  <2>2. Point = "free" /\ state = None /\ old = None /\ new = None /\ Sessions = {}
    BY <1>1, <2>1, LockFacts DEF Quiet, InHand, Undoing, Building, Sessions
  <2>3. Locked' /\ Point' = Point /\ Sessions' = {}
    BY <2>1, <2>2 DEF Locked, Holds, Point, Sessions
  <2>4. InHand' /\ Watched' /\ Played' /\ Formed' /\ Remembered'
    BY <2>1, <2>2, <2>3 DEF InHand, Watched, Played, Sounding, Formed, Remembered, Undoing, Building
  <2>5. \A y \in Actor : asked[y] = None
    BY <1>1, <2>1 DEF Quiet, Locked, In
  <2>6. Nameless'
    BY <2>1, <2>5 DEF Nameless
  <2>7. ASSUME NEW p \in Speaker, NEW s \in Source \cup {None}, PersonMoves(p, s)
        PROVE  TypeOK' /\ Placed' /\ Levels' /\ Viewed'
    <3> USE <2>7 DEF PersonMoves, Noted
    <3>1. /\ at' = [at EXCEPT ![p] = s] /\ GainType'
          /\ \A q \in Own : q # p => level'[q] = level[q] /\ held'[q] = held[q]
      BY AttachedFacts DEF Place
    <3>2. TypeOK'
      BY <3>1 DEF Place, Published, GainType
    <3>3. Placed'
      BY <2>2, <3>1 DEF Placed
    <3>4. Levels'
      BY <2>2, <3>1 DEF Levels, Speaker
    <3>5. Viewed'
      BY <2>2, <3>1 DEF Viewed, Published
    <3> QED
      BY <3>2, <3>3, <3>4, <3>5
  <2>8. ASSUME NEW p \in Own, NEW v \in Level, PersonLevels(p, v)
        PROVE  TypeOK' /\ Placed' /\ Levels' /\ Viewed'
    <3> USE <2>8 DEF PersonLevels, Noted
    <3>1. TypeOK'
      BY DEF Place, Speaker, Published
    <3>2. Placed'
      BY <2>2 DEF Placed
    <3>3. Levels'
      BY <2>2 DEF Levels, Speaker
    <3>4. Viewed'
      BY <2>2 DEF Viewed, Placed, Published
    <3> QED
      BY <3>1, <3>2, <3>3, <3>4
  <2> QED
    BY <1>3, <2>3, <2>4, <2>6, <2>7, <2>8 DEF People
<1> QED
  BY <1>2, <1>3

\* A speaker that is with nobody connects and disconnects.
LEMMA LinksKeep == IInv /\ Links => IInv'
<1> SUFFICES ASSUME IInv, NEW p \in Own, Connects(p) \/ Leaves(p) PROVE IInv'
  BY DEF Links
<1> USE DEF IInv, Sound, TypeOK, gainVars, toneVars, taskVars
<1>1. UNCHANGED <<at, view, toneVars, taskVars, home, excused>> /\ unheard \subseteq unheard'
  BY DEF Connects, Leaves
<1>2. p \in Speaker
  BY DEF Speaker
<1>3. /\ GainType'
      /\ \A q \in Own \ unheard' :
             home.level[q] \in {level[q], held[q]} => home.level[q] \in {level'[q], held'[q]}
      /\ unheard' \subseteq Own
  <2>1. CASE Connects(p)
    BY <1>2, <2>1, ComesFacts DEF Connects, Overtaken
  <2>2. CASE Leaves(p)
    BY <2>2 DEF Leaves, GainType
  <2> QED
    BY <2>1, <2>2
<1>4. TypeOK' /\ Locked' /\ Point' = Point /\ Sessions' = Sessions
  BY <1>1, <1>3 DEF GainType, Locked, Holds, Point, Sessions
<1>5. InHand' /\ Watched' /\ Played' /\ Formed' /\ Remembered' /\ Placed' /\ Viewed' /\ Nameless'
  BY <1>1, <1>4 DEF InHand, Watched, Played, Sounding, Formed, Remembered, Placed, Viewed, Nameless
<1>6. Levels'
  BY <1>1, <1>3, <1>4 DEF Levels
<1> QED
  BY <1>4, <1>5, <1>6

\* Who asks, and the watchdog that wakes.
LEMMA AskKeeps ==
  ASSUME IInv, NEW x \in Actor, NEW r \in Request, Waits(x), asked' = [asked EXCEPT ![x] = r],
         UNCHANGED <<at, gainVars, view, toneVars, home, excused, unheard>>,
         IF x = Watch THEN pc[x] = "asleep" /\ r.op = "stop" ELSE pc[x] = "idle",
         r.op = "start" /\ r.name = Alias => home.at[Guest] = None \/ Guest \in excused
  PROVE  IInv'
<1> USE DEF IInv, Sound, TypeOK, gainVars, toneVars
<1>1. LockIs /\ Watch \in Actor /\ r # None
  BY ToneAssumption DEF LockIs, LockType, Actor
<1>2. LockIs' /\ Point' = IF Point = "free" THEN "waiting" ELSE Point
  BY <1>1, WaitsLock
<1>3. TypeOK'
  BY <1>2 DEF LockIs, LockType
<1>4. pc'[Watch] = IF x = Watch THEN "waiting" ELSE pc[Watch]
  BY <1>1 DEF Waits, Goes
<1>5. InHand'
  BY <1>2 DEF InHand, Undoing, Building
<1>6. Watched'
  BY <1>4 DEF Watched
<1>7. Played' /\ Formed' /\ Remembered' /\ Placed' /\ Levels' /\ Viewed'
  BY <1>2 DEF Played, Sounding, Formed, Remembered, Placed, Levels, Viewed, Sessions, Undoing, Building
<1>8. Nameless'
  BY DEF Nameless
<1> QED
  BY <1>2, <1>3, <1>5, <1>6, <1>7, <1>8 DEF LockIs

LEMMA AsksKeep == IInv /\ (Expires \/ \E c \in Caller, request \in Request : Ask(c, request)) => IInv'
<1> SUFFICES ASSUME IInv, Expires \/ \E c \in Caller, request \in Request : Ask(c, request) PROVE IInv'
  OBVIOUS
<1>1. CASE Expires
  <2>1. [op |-> "stop"] \in Request /\ Watch \in Actor
    BY DEF Request, Actor
  <2> QED
    BY <1>1, <2>1, AskKeeps DEF Expires
<1>2. ASSUME NEW c \in Caller, NEW r \in Request, Ask(c, r) PROVE IInv'
  <2>1. c \in Actor /\ c # Watch /\ Guest \in Speaker /\ Cal(Alias) # None
    BY ToneAssumption DEF Actor, Speaker, Name
  <2>2. r.op = "start" /\ r.name = Alias => home.at[Guest] = None \/ Guest \in excused
    <3> SUFFICES ASSUME r.op = "start", r.name = Alias PROVE home.at[Guest] = None \/ Guest \in excused
      OBVIOUS
    <3>1. at[Guest] = None /\ Guest \notin excused
      BY <1>2 DEF Ask, Who
    <3>2. \A s \in Sessions : Cal(s.name) # None
      BY ToneAssumption DEF IInv, TypeOK, Sessions, Session
    <3> QED
      BY <2>1, <3>1, <3>2 DEF IInv, Sound, Placed, Sessions
  <2> QED
    BY <1>2, <2>1, <2>2, AskKeeps DEF Ask
<1> QED
  BY <1>1, <1>2


\* What a step of the holder keeps as it is: the lock's and the types', given where it goes.
LEMMA StopKeeps ==
  ASSUME IInv, NEW x \in Actor, Holds(x), pc[x] = "waiting", state # None, StopLocked(x),
         UNCHANGED <<at, gainVars, view, cal, writers, home, new, excused, unheard>>
  PROVE  IInv'
<1> USE DEF IInv, Sound, TypeOK, gainVars
<1>1. LockIs /\ Point = "waiting" /\ old = None /\ new = None /\ state \in Session
  BY HolderFacts
<1>2. /\ LockIs' /\ Point' = "restoring" /\ state' = None /\ old' = state
      /\ pc'[Watch] = IF x = Watch THEN "restoring" ELSE "idle"
  BY <1>1, StopLock DEF StopLocked
<1>3. TypeOK'
  BY <1>2 DEF LockIs, LockType
<1>4. Sessions' = Sessions
  BY <1>1, <1>2 DEF Sessions
<1>5. InHand' /\ Watched' /\ Played'
  BY <1>1, <1>2 DEF InHand, Watched, Played, Sounding, Undoing, Building
<1>6. Formed' /\ Remembered' /\ Placed' /\ Viewed'
  BY <1>1, <1>2, <1>4 DEF Formed, Remembered, Placed, Viewed
<1>7. Levels'
  BY <1>1, <1>2 DEF Levels
<1>8. Nameless'
  BY <1>1, <1>2 DEF Nameless, StopLocked, Actor
<1> QED
  BY <1>2, <1>3, <1>5, <1>6, <1>7, <1>8 DEF LockIs

\* What a start keeps for the end is where its speaker was and how loud, or its speaker is excused.
LEMMA RecordIsRight ==
  ASSUME IInv, NEW x \in Actor, Holds(x), state = None, asked[x].op = "start",
         pc[x] \in {"waiting", "undone"}, Synthesise(x)
  PROVE  /\ new' \in Session /\ new'.speaker = Who(new'.name) /\ ~new'.adopted
         /\ excused \subseteq excused' /\ excused' \subseteq Speaker
         /\ unheard \subseteq unheard' /\ unheard' \subseteq Own
         /\ new'.speaker \notin excused' =>
              /\ new'.source = home.at[new'.speaker]
              /\ new'.speaker \in Own \ unheard' => new'.level = home.level[new'.speaker]
<1> USE DEF IInv, Sound, TypeOK, gainVars
<1> DEFINE n == asked[x].name
           p == Who(n)
<1>1. /\ asked[x] \in Request /\ asked[x] # None /\ new = None
      /\ pc[x] = "waiting" => old = None
      /\ pc[x] = "undone" => old \in Session /\ old # None
      /\ Point = pc[x]
  BY HolderFacts, ToneAssumption DEF Undoing
<1>2. n \in Name /\ p \in Speaker /\ (n # Alias => p = n) /\ (n = Alias => p = Guest)
      /\ (p \in Own => p = n) /\ (n \in Own => p = n) /\ Guest \notin Own /\ Alias \notin Own
  BY <1>1, ToneAssumption DEF Request, Name, Who, Speaker
<1>3. /\ Placement(n).source = IF n # Alias THEN view.at[n] ELSE None
      /\ Placement(n).level = IF n \in Own THEN view.level[n] ELSE None
  BY DEF Placement
<1>4. Placement(n).source \in Source \cup {None} /\ Placement(n).level \in Level \cup {None}
  BY <1>2, <1>3
<1>5. /\ new'.speaker = p /\ new'.name = n /\ new'.adopted = FALSE
      /\ new'.source = Record(x).source /\ new'.level = Record(x).level
      /\ new' = [speaker |-> p, name |-> n, source |-> Record(x).source, level |-> Record(x).level,
                 adopted |-> FALSE]
  BY DEF Synthesise
<1>6. /\ Record(x).source = IF old # None /\ (old.source # None \/ old.level # None)
                              THEN old.source ELSE Placement(n).source
      /\ Record(x).level = IF old # None /\ (old.source # None \/ old.level # None)
                              THEN old.level ELSE Placement(n).level
  BY DEF Record
<1>7. Record(x).source \in Source \cup {None} /\ Record(x).level \in Level \cup {None}
  BY <1>1, <1>4, <1>6 DEF Session
<1>8. new' \in Session
  BY <1>2, <1>5, <1>7 DEF Session
<1>9. excused' = IF IF old = None THEN Seen(p) ELSE old.speaker = p THEN excused ELSE excused \cup {p}
  BY DEF Synthesise
<1>10. p \notin excused' => p \notin excused /\ excused' = excused
  BY <1>9
<1>11. unheard' = IF old = None THEN unheard \cup Unknown(n) ELSE unheard
  BY DEF Synthesise
<1>12. Unknown(n) \subseteq Own
  BY DEF Unknown
<1>13. ASSUME p \notin excused, old = None, Seen(p)
       PROVE  /\ Placement(n).source = home.at[p]
              /\ p \in Own \ unheard' => Placement(n).level = home.level[p]
  <2>1. Sessions = {}
    BY <1>1, <1>13 DEF Sessions
  <2>2. at[p] = home.at[p] /\ (p \in Own \ unheard' => view.level[p] # None /\ level[p] = home.level[p])
    BY <1>2, <1>13, <1>11, <2>1 DEF Placed, Sessions, Unknown
  <2>3. home.at[p] \in Source \cup {None}
    BY <1>2 DEF Viewed
  <2>4. CASE n = Alias
    BY <1>1, <1>2, <1>3, <1>13, <2>4 DEF Nameless
  <2>5. CASE n # Alias
    BY <1>2, <1>3, <1>13, <2>2, <2>3, <2>5, ToneAssumption DEF Seen
  <2> QED
    BY <2>4, <2>5
<1>14. ASSUME p \notin excused, old # None, old.speaker = p
       PROVE  /\ Record(x).source = home.at[p]
              /\ p \in Own \ unheard' => Record(x).level = home.level[p]
  <2>1. old \in Session /\ old \in Sessions
    BY <1>1, <1>14 DEF Sessions
  <2>2. /\ old.source = home.at[p]
        /\ p \in Own \ unheard' => old.level = home.level[p] /\ old.level # None
    BY <1>2, <1>14, <1>11, <2>1, ToneAssumption DEF Remembered
  <2>3. CASE old.source # None \/ old.level # None
    BY <1>6, <1>14, <2>2, <2>3
  <2>4. CASE old.source = None /\ old.level = None
    <3>1. home.at[p] = None /\ p \notin Own \ unheard'
      BY <2>2, <2>4
    <3>2. view.at[p] = None
      BY <1>2, <1>14, <3>1, ToneAssumption DEF Viewed
    <3> QED
      BY <1>2, <1>3, <1>6, <2>4, <3>1, <3>2
  <2> QED
    BY <2>3, <2>4
<1> QED
  BY <1>2, <1>5, <1>6, <1>8, <1>9, <1>10, <1>13, <1>14, <1>11, <1>12

LEMMA SynthesiseKeeps ==
  ASSUME IInv, NEW x \in Actor, Holds(x), state = None, asked[x].op = "start",
         pc[x] \in {"waiting", "undone"}, Synthesise(x),
         UNCHANGED <<at, gainVars, view, cal, writers, home, queue, asked, state>>
  PROVE  IInv'
<1> USE DEF IInv, Sound, TypeOK, gainVars
<1>1. /\ LockIs /\ Point = pc[x] /\ new = None
      /\ pc[x] = "waiting" => old = None
      /\ pc[x] = "undone" => old \in Session /\ old # None
      /\ x = Watch => pc[x] # "waiting"
  BY HolderFacts DEF Undoing
<1>2. old' = None /\ Goes(x, "synth")
  BY DEF Synthesise
<1>3. LockIs' /\ Point' = "synth" /\ (x # Watch => pc'[Watch] = pc[Watch]) /\ pc'[x] = "synth"
  BY <1>1, <1>2, GoesLock DEF Label
<1>4. /\ new' \in Session /\ new'.speaker = Who(new'.name) /\ ~new'.adopted
      /\ excused \subseteq excused' /\ excused' \subseteq Speaker
      /\ unheard \subseteq unheard' /\ unheard' \subseteq Own
      /\ new'.speaker \notin excused' =>
              /\ new'.source = home.at[new'.speaker]
              /\ new'.speaker \in Own \ unheard' => new'.level = home.level[new'.speaker]
  BY RecordIsRight
<1>5. TypeOK'
  BY <1>2, <1>3, <1>4 DEF LockIs, LockType
<1>6. Sessions' = {new'} /\ new' # None
  BY <1>2, <1>4, ToneAssumption DEF Sessions
<1>7. InHand' /\ Watched' /\ Played'
  BY <1>1, <1>2, <1>3, <1>6 DEF InHand, Watched, Played, Sounding, Undoing, Building
<1>8. Formed' /\ Remembered'
  BY <1>3, <1>4, <1>6 DEF Formed, Remembered
<1>9. Placed'
  BY <1>1, <1>4 DEF Placed, Sessions
<1>10. Levels'
  BY <1>1, <1>4 DEF Levels
<1>11. Viewed' /\ Nameless'
  BY <1>4 DEF Viewed, Nameless
<1> QED
  BY <1>3, <1>5, <1>7, <1>8, <1>9, <1>10, <1>11 DEF LockIs


\* A stop has ended, with or without a session to undo.
LEMMA StopEnds ==
  ASSUME IInv, NEW x \in Actor, Holds(x), state = None, new = None,
         pc[x] \in {"waiting", "undone"}, Ends(x, "idle"), old' = None,
         UNCHANGED <<at, gainVars, view, cal, writers, home, state, new, excused, unheard>>
  PROVE  IInv'
<1> USE DEF IInv, Sound, TypeOK, gainVars
<1>1. /\ LockIs /\ Point = pc[x]
      /\ pc[x] = "waiting" => old = None
      /\ x # Watch => pc[Watch] = "idle"
  BY HolderFacts
<1>2. LockIs' /\ Point' \in {"free", "waiting"} /\ pc'[Watch] = "idle"
  BY <1>1, EndsLock
<1>3. TypeOK'
  BY <1>2 DEF LockIs, LockType
<1>4. Sessions' = {}
  BY DEF Sessions
<1>5. InHand' /\ Watched' /\ Played'
  BY <1>1, <1>2 DEF InHand, Watched, Played, Sounding, Undoing, Building
<1>6. Formed' /\ Remembered' /\ Viewed'
  BY <1>2, <1>4 DEF Formed, Remembered, Viewed
<1>7. Placed' /\ Levels'
  BY <1>1 DEF Placed, Levels, Sessions
<1>8. Nameless'
  BY DEF Nameless, Ends
<1> QED
  BY <1>2, <1>3, <1>5, <1>6, <1>7, <1>8 DEF LockIs

LEMMA TurnKeeps == ASSUME IInv, NEW x \in Actor, Turn(x) PROVE IInv'
<1> USE DEF Turn
<1>1. state = None => old = None /\ new = None
  BY HolderFacts
<1>2. CASE state # None
  BY <1>2, StopKeeps
<1>3. CASE state = None /\ asked[x].op = "start" /\ Synthesise(x) /\ UNCHANGED <<queue, asked, state>>
  BY <1>3, SynthesiseKeeps
<1>4. CASE state = None /\ Ends(x, "idle") /\ UNCHANGED <<state, old, new, excused, unheard>>
  BY <1>1, <1>4, StopEnds
<1> QED
  BY <1>2, <1>3, <1>4

LEMMA UndoneKeeps == ASSUME IInv, NEW x \in Actor, Undone(x) PROVE IInv'
<1> USE DEF Undone
<1>1. state = None /\ new = None
  BY HolderFacts DEF Undoing
<1>2. CASE asked[x].op = "start"
  BY <1>1, <1>2, SynthesiseKeeps
<1>3. CASE asked[x].op # "start"
  BY <1>1, <1>3, StopEnds
<1> QED
  BY <1>2, <1>3

LEMMA SetVolumeKeeps == ASSUME IInv, NEW x \in Actor, SetVolume(x) PROVE IInv'
<1> USE DEF IInv, Sound, TypeOK, gainVars, SetVolume, toneVars
<1>1. /\ LockIs /\ Point = "waiting" /\ asked[x] \in Request
      /\ old = None /\ new = None
  BY HolderFacts
<1>2. x # Watch /\ In(x, queue)
  BY <1>1, LockFacts DEF Locked
<1>3. LockIs' /\ Point' \in {"free", "waiting"} /\ pc'[Watch] = pc[Watch]
  BY <1>1, <1>2, EndsLock
<1>4. asked[x].level \in Level
  BY <1>1 DEF Request
<1>5. /\ GainType' /\ unheard' = unheard
      /\ \A q \in Own : state = None \/ q # state.speaker => level'[q] = level[q] /\ held'[q] = held[q]
  <2>1. CASE state # None /\ SetLevel(state.speaker, asked[x].level)
    BY <1>4, <2>1, SetLevelFacts DEF Session
  <2>2. CASE UNCHANGED gainVars
    BY <2>2 DEF GainType
  <2> QED
    BY <2>1, <2>2
<1>11. TypeOK'
  BY <1>3, <1>5 DEF LockIs, LockType, GainType
<1>6. Sessions' = Sessions
  BY DEF Sessions
<1>7. InHand' /\ Watched' /\ Played'
  BY <1>1, <1>3 DEF InHand, Watched, Played, Sounding, Undoing, Building
<1>8. Formed' /\ Remembered' /\ Placed' /\ Viewed'
  BY <1>1, <1>3, <1>6 DEF Formed, Remembered, Placed, Viewed
<1>9. Levels'
  BY <1>1, <1>3, <1>5 DEF Levels
<1>10. Nameless'
  BY DEF Nameless, Ends
<1> QED
  BY <1>3, <1>7, <1>8, <1>9, <1>10, <1>11 DEF LockIs

\* The speaker is moved off the tone, to where it was.
LEMMA RestoredKeeps == ASSUME IInv, NEW x \in Actor, Restored(x) PROVE IInv'
<1> USE DEF IInv, Sound, TypeOK, gainVars, Restored, toneVars
<1>1. /\ LockIs /\ Point = "restoring"
      /\ old \in Session /\ old # None /\ state = None /\ new = None
  BY HolderFacts DEF Undoing
<1>2. /\ LockIs' /\ Point' = "tearing" /\ pc'[x] = "tearing"
      /\ (x # Watch => pc'[Watch] = pc[Watch])
  BY <1>1, GoesLock DEF Label, Building
<1>3. Sessions = {old} /\ Sessions' = {old}
  BY <1>1 DEF Sessions
<1>4. old.speaker \in Speaker /\ old.source \in Source \cup {None} /\ old.name \in Name
  BY <1>1 DEF Session
<1> DEFINE back == IF old.adopted THEN None
                   ELSE IF old.source # None THEN old.source
                   ELSE IF at[old.speaker] = Cal(old.name) THEN None ELSE at[old.speaker]
<1>5. /\ GainType' /\ unheard \subseteq unheard' /\ unheard' \subseteq Own
      /\ excused \subseteq excused' /\ excused' \subseteq Speaker
      /\ \A q \in Own : q # old.speaker => level'[q] = level[q] /\ held'[q] = held[q]
      /\ \/ at' = [at EXCEPT ![old.speaker] = back]
         \/ at' = at /\ old.speaker \in excused'
  <2>1. back \in Place
    BY <1>4 DEF Place
  <2>2. CASE /\ Attached(old.speaker, back) /\ excused' = excused
             /\ unheard' = unheard \cup Overtaken(old.speaker)
    BY <1>4, <2>1, <2>2, AttachedFacts DEF Overtaken
  <2>3. CASE excused' = excused \cup {old.speaker} /\ UNCHANGED <<at, gainVars, unheard>>
    BY <1>4, <2>3 DEF GainType
  <2> QED
    BY <2>2, <2>3
<1>9. TypeOK'
  <2>1. back \in Place
    BY <1>4 DEF Place
  <2> QED
    BY <1>2, <1>5, <2>1 DEF LockIs, LockType, GainType
<1>6. InHand' /\ Watched' /\ Played'
  BY <1>1, <1>2 DEF InHand, Watched, Played, Sounding, Undoing, Building
<1>7. Formed' /\ Remembered' /\ Levels' /\ Viewed' /\ Nameless'
  BY <1>1, <1>2, <1>3, <1>5 DEF Formed, Remembered, Levels, Viewed, Nameless
<1>8. Placed'
  <2> SUFFICES ASSUME NEW p \in Speaker \ excused' PROVE at'[p] = home.at[p]
    BY DEF Placed
  <2>1. at[p] = home.at[p] \/ (p = old.speaker /\ at[p] = Cal(old.name))
    BY <1>3, <1>5 DEF Placed
  <2>2. CASE p # old.speaker
    BY <1>5, <2>1, <2>2
  <2>3. CASE p = old.speaker
    <3>1. old.source = home.at[p] /\ (old.adopted => old.source = None)
      BY <1>3, <1>5, <2>3 DEF Formed, Remembered
    <3>2. at'[p] = back
      BY <1>4, <1>5, <2>3
    <3> QED
      BY <2>1, <2>3, <3>1, <3>2
  <2> QED
    BY <2>2, <2>3
<1> QED
  BY <1>2, <1>6, <1>7, <1>8, <1>9 DEF LockIs

LEMMA TornDownKeeps == ASSUME IInv, NEW x \in Actor, TornDown(x) PROVE IInv'
<1> USE DEF IInv, Sound, TypeOK, gainVars, TornDown, Teardown
<1>1. /\ LockIs /\ Point = "tearing"
      /\ old \in Session /\ old # None /\ state = None /\ new = None
  BY HolderFacts DEF Undoing
<1>2. /\ LockIs' /\ Point' = "relevel" /\ pc'[x] = "relevel"
      /\ (x # Watch => pc'[Watch] = pc[Watch])
  BY <1>1, GoesLock DEF Label, Building
<1>3. Sessions' = Sessions
  BY DEF Sessions
<1>4. TypeOK'
  BY <1>2 DEF LockIs, LockType
<1>5. InHand' /\ Watched' /\ Played'
  BY <1>1, <1>2 DEF InHand, Watched, Played, Sounding, Undoing, Building
<1>6. Formed' /\ Remembered' /\ Placed' /\ Levels' /\ Viewed' /\ Nameless'
  BY <1>1, <1>2, <1>3 DEF Formed, Remembered, Placed, Levels, Viewed, Nameless
<1> QED
  BY <1>2, <1>4, <1>5, <1>6 DEF LockIs

LEMMA RelevelledKeeps == ASSUME IInv, NEW x \in Actor, Relevelled(x) PROVE IInv'
<1> USE DEF IInv, Sound, TypeOK, gainVars, Relevelled, toneVars
<1>1. /\ LockIs /\ Point = "relevel"
      /\ old \in Session /\ old # None /\ state = None /\ new = None
  BY HolderFacts DEF Undoing
<1>2. /\ LockIs' /\ Point' = "undone" /\ pc'[x] = "undone"
      /\ (x # Watch => pc'[Watch] = pc[Watch])
  BY <1>1, GoesLock DEF Label, Building
<1>3. Sessions = {old} /\ Sessions' = {old} /\ {state, old} \ {None} = {old}
  BY <1>1 DEF Sessions
<1>4. old.speaker \in Speaker /\ old.level \in Level \cup {None}
  BY <1>1 DEF Session
<1>5. /\ GainType' /\ excused \subseteq excused' /\ excused' \subseteq Speaker
      /\ \A q \in Own : q # old.speaker => level'[q] = level[q] /\ held'[q] = held[q]
      /\ old.speaker \in Own /\ old.level # None /\ old.speaker \notin excused'
            => old.level \in {level'[old.speaker], held'[old.speaker]}
  <2>1. CASE UNCHANGED gainVars /\ (old.level = None \/ old.speaker \in excused')
    BY <1>4, <2>1 DEF GainType
  <2>2. CASE old.level # None /\ SetLevel(old.speaker, old.level) /\ excused' = excused
    BY <1>4, <2>2, SetLevelFacts
  <2> QED
    BY <2>1, <2>2
<1>9. TypeOK'
  BY <1>2, <1>5 DEF LockIs, LockType, GainType
<1>6. InHand' /\ Watched' /\ Played'
  BY <1>1, <1>2 DEF InHand, Watched, Played, Sounding, Undoing, Building
<1>7. Formed' /\ Remembered' /\ Placed' /\ Viewed' /\ Nameless'
  BY <1>1, <1>2, <1>3, <1>5 DEF Formed, Remembered, Placed, Viewed, Nameless
<1>8. Levels'
  <2> SUFFICES ASSUME NEW p \in Own \ (excused' \cup unheard)
               PROVE  home.level[p] \in {level'[p], held'[p]}
    BY DEF Levels
  <2>1. home.level[p] \in {level[p], held[p]} \/ p = old.speaker
    BY <1>3, <1>5 DEF Levels
  <2>2. CASE p # old.speaker
    BY <1>5, <2>1, <2>2
  <2>3. CASE p = old.speaker
    <3>1. old.level = home.level[p] /\ old.level # None
      BY <1>3, <1>5, <2>3, ToneAssumption DEF Remembered
    <3> QED
      BY <1>5, <2>3, <3>1
  <2> QED
    BY <2>2, <2>3
<1> QED
  BY <1>2, <1>6, <1>7, <1>8, <1>9 DEF LockIs


\* A step of a start that has not ended: what its holder has, and what the lock's part keeps.
LEMMA BuildingFacts ==
  ASSUME IInv, NEW x \in Actor, Holds(x), pc[x] \in Building,
         NEW label \in Building, Goes(x, label), UNCHANGED <<queue, asked, state, old>>
  PROVE  /\ LockIs' /\ Point' = label /\ Point = pc[x]
         /\ new \in Session /\ new # None /\ state = None /\ old = None /\ Sessions = {new}
         /\ new.speaker \in Speaker /\ new.name \in Name /\ new.source \in Source \cup {None}
         /\ new' # None => InHand' /\ Sessions' = {new'}
         /\ Watched'
<1>1. /\ LockIs /\ Point = pc[x] /\ asked[x].op = "start" /\ x # Watch
      /\ new \in Session /\ new # None /\ state = None /\ old = None
  BY HolderFacts
<1>2. label \in Label \ {"idle", "asleep"}
  BY DEF Building, Label
<1>3. LockIs' /\ Point' = label /\ pc'[Watch] = pc[Watch]
  BY <1>1, <1>2, GoesLock
<1>4. Watched'
  BY <1>1, <1>3 DEF IInv, Sound, Watched
<1>5. new' # None => InHand' /\ Sessions' = {new'}
  BY <1>1, <1>3 DEF InHand, Sessions, Undoing, Building
<1>6. Sessions = {new}
  BY <1>1 DEF Sessions
<1> QED
  BY <1>1, <1>3, <1>4, <1>5, <1>6 DEF Session

\* The tone has its source, and then its writer.
LEMMA SynthesisedKeeps == ASSUME IInv, NEW x \in Actor, Synthesised(x) PROVE IInv'
<1> USE DEF IInv, Sound, TypeOK, gainVars, Synthesised
<1>1. "viewing" \in Building /\ pc[x] \in Building
  BY DEF Building
<1>2. /\ LockIs' /\ Point' = "viewing" /\ Point = "synth"
      /\ new # None /\ state = None /\ old = None /\ Sessions = {new}
      /\ new.name \in Name /\ InHand' /\ Sessions' = {new} /\ Watched'
  BY <1>1, BuildingFacts
<1>3. TypeOK'
  BY <1>2 DEF LockIs, LockType
<1>4. Played'
  BY <1>2 DEF Played, Sounding, Building, Undoing
<1>5. Formed' /\ Remembered' /\ Placed' /\ Levels' /\ Viewed' /\ Nameless'
  BY <1>2 DEF Formed, Remembered, Placed, Levels, Viewed, Nameless
<1> QED
  BY <1>2, <1>3, <1>4, <1>5 DEF LockIs

LEMMA RefreshedKeeps == ASSUME IInv, NEW x \in Actor, Refreshed(x) PROVE IInv'
<1> USE DEF IInv, Sound, TypeOK, gainVars, Refreshed
<1>1. "opening" \in Building /\ pc[x] \in Building
  BY DEF Building
<1>2. /\ LockIs' /\ Point' = "opening" /\ Point = "viewing"
      /\ new # None /\ state = None /\ old = None /\ Sessions = {new}
      /\ new.name \in Name /\ InHand' /\ Sessions' = {new} /\ Watched'
  BY <1>1, BuildingFacts
<1>3. TypeOK'
  BY <1>2 DEF LockIs, LockType, Published
<1>4. Played'
  BY <1>2 DEF Played, Sounding, Building, Undoing
<1>5. Formed' /\ Remembered' /\ Placed' /\ Levels' /\ Nameless'
  BY <1>2 DEF Formed, Remembered, Placed, Levels, Nameless
<1>6. Viewed'
  BY <1>2, ToneAssumption DEF Viewed, Placed, Published
<1> QED
  BY <1>2, <1>3, <1>4, <1>5, <1>6 DEF LockIs

LEMMA OpenedKeeps == ASSUME IInv, NEW x \in Actor, Opened(x) PROVE IInv'
<1> USE DEF IInv, Sound, TypeOK, gainVars, Opened, toneVars
<1>1. pc[x] \in Building
  BY DEF Building
<1>2. PICK label \in {"routing", "failing"} : Goes(x, label)
  OBVIOUS
<1>3. /\ LockIs' /\ Point' = label /\ Point = "opening"
      /\ new # None /\ state = None /\ old = None /\ Sessions = {new}
      /\ InHand' /\ Sessions' = {new} /\ Watched'
  BY <1>1, <1>2, BuildingFacts DEF Building
<1>4. TypeOK'
  BY <1>3 DEF LockIs, LockType
<1>5. Played'
  BY <1>3 DEF Played, Sounding, Building, Undoing
<1>6. Formed' /\ Remembered' /\ Placed' /\ Levels' /\ Viewed' /\ Nameless'
  BY <1>3 DEF Formed, Remembered, Placed, Levels, Viewed, Nameless
<1> QED
  BY <1>3, <1>4, <1>5, <1>6 DEF LockIs

\* The speaker is on the tone, or is not yet, or is a third-party one that must be adopted.
LEMMA RoutedKeeps == ASSUME IInv, NEW x \in Actor, Routed(x) PROVE IInv'
<1> USE DEF IInv, Sound, TypeOK, gainVars, Routed, toneVars
<1>1. pc[x] \in Building
  BY DEF Building
<1>2. PICK label \in {"levelling", "adopting", "failing"} :
        Goes(x, label) /\ (label = "adopting" => new.speaker = Guest)
  OBVIOUS
<1>3. /\ LockIs' /\ Point' = label /\ Point = "routing"
      /\ new # None /\ state = None /\ old = None /\ Sessions = {new}
      /\ new.speaker \in Speaker /\ new.name \in Name
      /\ InHand' /\ Sessions' = {new} /\ Watched'
  BY <1>1, <1>2, BuildingFacts DEF Building
<1>4. /\ \/ at' = at
         \/ at' = [at EXCEPT ![new.speaker] = Cal(new.name)]
      /\ GainType' /\ unheard \subseteq unheard' /\ unheard' \subseteq Own
      /\ \A q \in Own \ unheard' :
             home.level[q] \in {level[q], held[q]} => home.level[q] \in {level'[q], held'[q]}
  <2>1. Cal(new.name) \in Place
    BY <1>3 DEF Place
  <2>2. CASE Attached(new.speaker, Cal(new.name)) /\ unheard' = unheard \cup Overtaken(new.speaker)
    BY <1>3, <2>1, <2>2, AttachedFacts DEF Overtaken
  <2>3. CASE UNCHANGED <<at, gainVars, unheard>>
    BY <2>3 DEF GainType
  <2> QED
    BY <2>2, <2>3
<1>5. TypeOK'
  BY <1>3, <1>4 DEF LockIs, LockType, Place, GainType
<1>6. Played'
  BY <1>3 DEF Played, Sounding, Building, Undoing
<1>7. Formed' /\ Remembered' /\ Levels' /\ Viewed' /\ Nameless'
  BY <1>2, <1>3, <1>4 DEF Formed, Remembered, Levels, Viewed, Nameless
<1>8. Placed'
  BY <1>3, <1>4 DEF Placed
<1> QED
  BY <1>3, <1>5, <1>6, <1>7, <1>8 DEF LockIs

\* A third-party speaker is adopted; one that was with a source is excused.
LEMMA AdoptedKeeps == ASSUME IInv, NEW x \in Actor, Adopted(x) PROVE IInv'
<1> USE DEF IInv, Sound, TypeOK, gainVars, Adopted, toneVars
<1>1. pc[x] \in Building /\ {"levelling", "failing"} \subseteq Building
  BY DEF Building
<1>2. CASE UNCHANGED <<at, new, excused>> /\ Goes(x, "failing")
  <2>1. /\ LockIs' /\ Point' = "failing" /\ Point = "adopting"
        /\ new # None /\ state = None /\ old = None /\ Sessions = {new}
        /\ InHand' /\ Sessions' = {new} /\ Watched'
    BY <1>1, <1>2, BuildingFacts
  <2>2. TypeOK'
    BY <1>2, <2>1 DEF LockIs, LockType
  <2>3. Played'
    BY <1>2, <2>1 DEF Played, Sounding, Building, Undoing
  <2>4. Formed' /\ Remembered' /\ Placed' /\ Levels' /\ Viewed' /\ Nameless'
    BY <1>2, <2>1 DEF Formed, Remembered, Placed, Levels, Viewed, Nameless
  <2> QED
    BY <2>1, <2>2, <2>3, <2>4 DEF LockIs
<1>3. CASE /\ at' = [at EXCEPT ![Guest] = Cal(new.name)]
           /\ new' = [new EXCEPT !.adopted = TRUE]
           /\ excused' = IF new.source = None THEN excused ELSE excused \cup {Guest}
           /\ Goes(x, "levelling")
  <2> USE <1>3
  <2>1. new \in Session
    BY <1>1, HolderFacts
  <2>2. /\ new' \in Session /\ new'.speaker = new.speaker /\ new'.name = new.name
        /\ new'.source = new.source /\ new'.level = new.level /\ new'.adopted
    BY <2>1 DEF Session
  <2>3. new' # None /\ Guest \in Speaker
    BY <2>2, ToneAssumption DEF Speaker
  <2>4. /\ LockIs' /\ Point' = "levelling" /\ Point = "adopting"
        /\ new # None /\ state = None /\ old = None /\ Sessions = {new} /\ new.name \in Name
        /\ InHand' /\ Sessions' = {new'} /\ Watched'
    BY <1>1, <2>3, BuildingFacts
  <2>5. excused \subseteq excused' /\ excused' \subseteq Speaker
    BY <2>3
  <2>6. new.speaker = Guest
    BY <2>4 DEF Formed
  <2>7. TypeOK'
    BY <2>2, <2>4, <2>5 DEF LockIs, LockType, Place
  <2>8. Played'
    BY <2>2, <2>4 DEF Played, Sounding, Building, Undoing
  <2>9. Formed'
    BY <2>2, <2>4, <2>6 DEF Formed
  <2>10. Remembered'
    BY <2>2, <2>4, <2>5 DEF Remembered
  <2>11. Placed'
    BY <2>2, <2>3, <2>4, <2>5, <2>6 DEF Placed
  <2>12. Levels' /\ Viewed' /\ Nameless'
    BY <2>4, <2>5 DEF Levels, Viewed, Nameless
  <2> QED
    BY <2>4, <2>7, <2>8, <2>9, <2>10, <2>11, <2>12 DEF LockIs
<1> QED
  BY <1>2, <1>3


\* The session stands.
LEMMA LevelledKeeps == ASSUME IInv, NEW x \in Actor, Levelled(x) PROVE IInv'
<1> USE DEF IInv, Sound, TypeOK, gainVars, Levelled
<1>1. /\ LockIs /\ Point = "levelling" /\ asked[x] \in Request /\ asked[x].op = "start" /\ x # Watch
      /\ new \in Session /\ new # None /\ state = None /\ old = None /\ pc[Watch] = "idle"
  BY HolderFacts DEF Building
<1>2. LockIs' /\ Point' \in {"free", "waiting"} /\ pc'[Watch] = "asleep"
  BY <1>1, EndsLock
<1>3. asked[x].level \in Level
  BY <1>1 DEF Request
<1>11. /\ GainType'
       /\ \A q \in Own : q # new.speaker => level'[q] = level[q] /\ held'[q] = held[q]
  BY <1>1, <1>3, SetLevelFacts DEF Session
<1>4. TypeOK'
  BY <1>1, <1>2, <1>11 DEF LockIs, LockType, GainType
<1>5. Sessions = {new} /\ Sessions' = {new}
  BY <1>1 DEF Sessions
<1>6. InHand' /\ Watched' /\ Played'
  BY <1>1, <1>2 DEF InHand, Watched, Played, Sounding, Undoing, Building
<1>7. Formed' /\ Remembered' /\ Viewed'
  BY <1>2, <1>5 DEF Formed, Remembered, Viewed
<1>8. Placed'
  BY <1>1, <1>2, <1>5 DEF Placed
<1>9. Levels'
  BY <1>1, <1>2, <1>11 DEF Levels
<1>10. Nameless'
  BY DEF Nameless, Ends
<1> QED
  BY <1>2, <1>4, <1>6, <1>7, <1>8, <1>9, <1>10 DEF LockIs

LEMMA LevelRaisesKeeps == ASSUME IInv, NEW x \in Actor, LevelRaises(x) PROVE IInv'
<1> USE DEF IInv, Sound, TypeOK, gainVars, LevelRaises, toneVars
<1>1. pc[x] \in Building
  BY DEF Building
<1>2. PICK label \in {"dropping", "failing"} : Goes(x, label) /\ (label = "dropping" => new.adopted)
  OBVIOUS
<1>3. /\ LockIs' /\ Point' = label /\ Point = "levelling"
      /\ new # None /\ state = None /\ old = None /\ Sessions = {new}
      /\ InHand' /\ Sessions' = {new} /\ Watched'
  BY <1>1, <1>2, BuildingFacts DEF Building
<1>4. TypeOK'
  BY <1>3 DEF LockIs, LockType
<1>5. Played'
  BY <1>3 DEF Played, Sounding, Building, Undoing
<1>6. Formed' /\ Remembered' /\ Placed' /\ Levels' /\ Viewed' /\ Nameless'
  BY <1>2, <1>3 DEF Formed, Remembered, Placed, Levels, Viewed, Nameless
<1> QED
  BY <1>3, <1>4, <1>5, <1>6 DEF LockIs

LEMMA DroppedKeeps == ASSUME IInv, NEW x \in Actor, Dropped(x) PROVE IInv'
<1> USE DEF IInv, Sound, TypeOK, gainVars, Dropped, toneVars
<1>1. pc[x] \in Building /\ "failing" \in Building
  BY DEF Building
<1>2. /\ LockIs' /\ Point' = "failing" /\ Point = "dropping"
      /\ new # None /\ state = None /\ old = None /\ Sessions = {new}
      /\ InHand' /\ Sessions' = {new} /\ Watched'
  BY <1>1, BuildingFacts
<1>3. Guest \in Speaker
  BY DEF Speaker
<1>4. TypeOK'
  BY <1>2, <1>3 DEF LockIs, LockType, Place
<1>5. Played'
  BY <1>2 DEF Played, Sounding, Building, Undoing
<1>6. Formed' /\ Remembered' /\ Levels' /\ Viewed' /\ Nameless'
  BY <1>2 DEF Formed, Remembered, Levels, Viewed, Nameless
<1>7. Guest \notin excused => home.at[Guest] = None
  BY <1>2 DEF Formed, Remembered
<1>8. Placed'
  BY <1>2, <1>3, <1>7 DEF Placed
<1> QED
  BY <1>2, <1>4, <1>5, <1>6, <1>8 DEF LockIs

\* A start that fails takes its source with it, and excuses a speaker it leaves astray.
LEMMA FailsKeeps == ASSUME IInv, NEW x \in Actor, Fails(x) PROVE IInv'
<1> USE DEF IInv, Sound, TypeOK, gainVars, Fails, Teardown
<1>1. /\ LockIs /\ Point = "failing" /\ x # Watch
      /\ new \in Session /\ new # None /\ state = None /\ old = None /\ pc[Watch] = "idle"
  BY HolderFacts DEF Building
<1>2. LockIs' /\ Point' \in {"free", "waiting"} /\ pc'[Watch] = "idle"
  BY <1>1, EndsLock
<1>3. Sessions = {new} /\ Sessions' = {}
  BY <1>1 DEF Sessions
<1>4. excused \subseteq excused' /\ excused' \subseteq Speaker
  BY <1>1 DEF Session
<1>5. TypeOK'
  BY <1>2, <1>4 DEF LockIs, LockType
<1>6. InHand' /\ Watched' /\ Played'
  BY <1>1, <1>2 DEF InHand, Watched, Played, Sounding, Undoing, Building
<1>7. Formed' /\ Remembered' /\ Viewed'
  BY <1>2, <1>3, <1>4 DEF Formed, Remembered, Viewed
<1>8. Levels'
  BY <1>1, <1>2, <1>4 DEF Levels
<1>9. Nameless'
  BY <1>4 DEF Nameless, Ends
<1>10. Placed'
  <2> SUFFICES ASSUME NEW p \in Speaker \ excused' PROVE at[p] = home.at[p]
    BY DEF Placed
  <2>1. p \in Speaker \ excused
    BY <1>4
  <2>2. CASE p # new.speaker
    BY <1>3, <2>1, <2>2 DEF Placed
  <2>3. CASE p = new.speaker
    BY <1>3, <2>1, <2>3 DEF Remembered
  <2> QED
    BY <2>2, <2>3
<1> QED
  BY <1>2, <1>5, <1>6, <1>7, <1>8, <1>9, <1>10 DEF LockIs

-----------------------------------------------------------------------------
(* The theorems.                                                           *)

LEMMA HolderKeeps == IInv /\ Controller => IInv'
<1> SUFFICES ASSUME IInv, NEW x \in Actor, Holder(x) PROVE IInv'
  BY DEF Controller
<1> QED
  BY TurnKeeps, SetVolumeKeeps, RestoredKeeps, TornDownKeeps, RelevelledKeeps, UndoneKeeps,
     SynthesisedKeeps, RefreshedKeeps, OpenedKeeps, RoutedKeeps, AdoptedKeeps, LevelledKeeps, LevelRaisesKeeps,
     DroppedKeeps, FailsKeeps DEF Holder

LEMMA StutterKeeps == IInv /\ UNCHANGED vars => IInv'
<1> SUFFICES ASSUME IInv, UNCHANGED vars PROVE IInv'
  OBVIOUS
<1> USE DEF vars, gainVars, toneVars, taskVars
<1>1. TypeOK' <=> TypeOK
  BY DEF TypeOK
<1>2. Point' = Point /\ Sessions' = Sessions
  BY DEF Point, Sessions
<1>3. Locked' <=> Locked
  BY DEF Locked, Holds
<1> QED
  BY <1>1, <1>2, <1>3 DEF IInv, Sound, InHand, Watched, Played, Sounding, Formed, Remembered, Placed, Levels,
     Viewed, Nameless

\* The inductive invariant holds of every state of the tone, for any speakers, sources, levels and
\* any number of callers (calibration_tone.py, CalibrationToneController).
THEOREM Invariance == Spec => []IInv
<1>1. IInv /\ [Next]_vars => IInv'
  BY OutsideKeeps, LinksKeep, AsksKeep, HolderKeeps, StutterKeeps DEF Next
<1> QED
  BY Initially, <1>1, PTL DEF Spec

\* Every variable of the tone has its type.
THEOREM TypeCorrect == Spec => []TypeOK
<1>1. IInv => TypeOK
  BY DEF IInv
<1> QED
  BY <1>1, Invariance, PTL

LEMMA QuietFacts ==
  ASSUME IInv, Quiet
  PROVE  Point = "free" /\ Sessions = {} /\ old = None /\ new = None
<1>1. LockIs
  BY DEF IInv, TypeOK, LockIs, LockType
<1>2. Point = "free"
  BY <1>1, LockFacts DEF Quiet
<1> QED
  BY <1>2 DEF IInv, Sound, InHand, Quiet, Sessions, Undoing, Building

\* Without a session and without a request under way there is no tone source, no writer on a FIFO
\* and no task of the controller, whichever requests raced or failed before
\* (calibration_tone.py, start, _stop_locked and _teardown).
THEOREM NothingIsLeft == Spec => []NothingLeft
<1>1. ASSUME IInv PROVE NothingLeft
  <2> SUFFICES ASSUME Quiet PROVE cal = {} /\ writers = {} /\ \A x \in Actor : pc[x] = "idle"
    BY DEF NothingLeft
  <2>1. Point = "free" /\ state = None
    BY <1>1, QuietFacts DEF Quiet
  <2>2. cal = {} /\ writers = {}
    BY <1>1, <2>1 DEF IInv, Sound, Played, Sounding, Building
  <2>3. \A x \in Actor : pc[x] \in {"idle", "asleep"}
    BY <1>1 DEF IInv, Locked, Quiet, In
  <2>4. pc[Watch] # "asleep"
    BY <1>1, <2>1 DEF IInv, Sound, Watched
  <2> QED
    BY <1>1, <2>2, <2>3, <2>4 DEF IInv, Locked, Actor
<1> QED
  BY <1>1, Invariance, PTL

\* After any sessions, one on top of the other or ended by the watchdog, every speaker is where
\* people had it and as loud as they had it, or will be when it connects; but for those the code has
\* not the record or the answer to restore, and for a level that was in nobody's view
\* (calibration_tone.py, the record start keeps and _stop_locked).
THEOREM EveryoneIsPutBack == Spec => []PutBack
<1>1. ASSUME IInv PROVE PutBack
  <2> SUFFICES ASSUME Quiet, NEW p \in Speaker \ excused
               PROVE  /\ at[p] = home.at[p]
                      /\ p \in Own \ unheard => home.level[p] \in {level[p], held[p]}
    BY DEF PutBack
  <2>1. Sessions = {} /\ {state, old} \ {None} = {}
    BY <1>1, QuietFacts DEF Quiet
  <2> QED
    BY <1>1, <2>1 DEF IInv, Sound, Placed, Levels
<1> QED
  BY <1>1, Invariance, PTL
=============================================================================
