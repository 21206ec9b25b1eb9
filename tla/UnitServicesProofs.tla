-------------------------- MODULE UnitServicesProofs --------------------------
(***************************************************************************)
(* Proofs about two of a unit's services, for any number of requests,      *)
(* endpoints, outputs, units and saves and for whatever the units' clocks  *)
(* say: what a page was told is saved is kept, and a later calibration     *)
(* record wins.                                                            *)
(***************************************************************************)
EXTENDS UnitServices, TLAPS

-----------------------------------------------------------------------------
(* The settings store.                                                     *)

\* The parts of the file that can be told apart, and what was read of them.
StoreInv ==
    /\ storeContent \in Store!Content
    /\ storeTold \in Store!Content
    /\ storeStrayed \in Store!Content
    /\ storeCopy \in [Page -> Store!Content]
    /\ storeThread \in [Thread -> [busy : BOOLEAN, list : SUBSET Endpoint]]
    /\ Store!ToldIsKept

LEMMA StoreInitially == UnitInit => StoreInv
<1> SUFFICES ASSUME UnitInit PROVE StoreInv
  OBVIOUS
<1> USE DEF UnitInit, Store!Init
<1>1. storeContent \in Store!Content /\ storeStrayed \in Store!Content
  BY DEF Store!Content, Store!Defaults
<1>2. storeCopy \in [Page -> Store!Content] /\ storeTold \in Store!Content
  BY <1>1
<1>3. storeThread \in [Thread -> [busy : BOOLEAN, list : SUBSET Endpoint]]
  BY DEF Store!Idle
<1>4. Store!ToldIsKept
  BY DEF Store!ToldIsKept, Store!Apart
<1> QED
  BY <1>1, <1>2, <1>3, <1>4 DEF StoreInv

\* What the pages are served, and what a write is built on, is of the two sections.
LEMMA StoreReadings ==
  ASSUME StoreInv
  PROVE  /\ Store!GetSettings \in Store!Content
         /\ \A c \in Store!LoadMerged : c = storeContent
BY DEF StoreInv, Store!GetSettings, Store!LoadMerged, Store!Defaults, Store!Content

\* A write changes what it is about in the file and in what is told, and is recorded in strayed
\* where it undoes something else.
LEMMA StoreKeeps == ASSUME StoreInv, Store!Next PROVE StoreInv'
<1> USE DEF StoreInv
<1>1. ASSUME NEW p \in Room, Store!PutOne(p) \/ Store!DeleteOne(p) PROVE StoreInv'
  <2> USE DEF Store!Content
  <2>1. \/ /\ storeContent' = [storeContent EXCEPT !.records = @ \cup {p}]
           /\ storeTold' = [storeTold EXCEPT !.records = @ \cup {p}]
        \/ /\ storeContent' = [storeContent EXCEPT !.records = @ \ {p}]
           /\ storeTold' = [storeTold EXCEPT !.records = @ \ {p}]
    BY <1>1, StoreReadings DEF Store!PutOne, Store!DeleteOne
  <2>2. /\ storeStrayed' = [storeStrayed EXCEPT !.records = @ \ {p}]
        /\ UNCHANGED <<storeThread, storeCopy>>
    BY <1>1 DEF Store!PutOne, Store!DeleteOne
  <2>3. Store!ToldIsKept'
    BY <2>1, <2>2 DEF Store!ToldIsKept, Store!Apart
  <2>4. /\ storeContent' \in Store!Content /\ storeTold' \in Store!Content
        /\ storeStrayed' \in Store!Content
    BY <2>1, <2>2
  <2> QED
    BY <2>2, <2>3, <2>4
<1>2. ASSUME NEW g \in Page, Store!Serve(g) PROVE StoreInv'
  BY <1>2, StoreReadings DEF Store!Serve, Store!ToldIsKept
<1>3. ASSUME NEW g \in Page, NEW sections \in SUBSET DOMAIN storeContent,
             Store!PostSettings(g, sections)
      PROVE  StoreInv'
  <2> DEFINE D == {"endpoints", "records"}
  <2>1. /\ DOMAIN storeContent = D /\ DOMAIN storeStrayed = D
        /\ storeCopy[g] \in Store!Content
    BY DEF Store!Content
  <2>2. /\ storeContent' = [s \in D |-> IF s \in sections THEN storeCopy[g][s] ELSE storeContent[s]]
        /\ storeStrayed' = [s \in D |->
                              storeStrayed[s] \cup IF s \in sections
                                                   THEN Store!Apart(storeCopy[g][s], storeContent[s])
                                                   ELSE {}]
        /\ UNCHANGED <<storeTold, storeThread>>
    BY <1>3, <2>1, StoreReadings DEF Store!PostSettings
  <2>3. storeContent' \in Store!Content /\ storeStrayed' \in Store!Content
    BY <2>1, <2>2 DEF Store!Content, Store!Apart
  <2>4. storeCopy' \in [Page -> Store!Content]
    BY <1>3, <2>3 DEF Store!PostSettings
  <2>5. Store!ToldIsKept'
    BY <2>1, <2>2 DEF Store!ToldIsKept, Store!Apart
  <2> QED
    BY <2>2, <2>3, <2>4, <2>5
<1>4. ASSUME NEW r \in Thread, Store!Section(r) \/ Store!Refuse(r) \/ Store!SaveFails(r)
      PROVE  StoreInv'
  <2>1. UNCHANGED <<storeContent, storeTold, storeStrayed, storeCopy>>
    BY <1>4 DEF Store!Section, Store!Refuse, Store!SaveFails
  <2>2. Store!GetSettings.endpoints \subseteq Endpoint
    BY StoreReadings DEF Store!Content
  <2>3. \E list \in SUBSET Endpoint, busy \in BOOLEAN :
           storeThread' = [storeThread EXCEPT ![r] = [busy |-> busy, list |-> list]]
    BY <1>4, <2>2 DEF Store!Section, Store!Refuse, Store!SaveFails, Store!Idle
  <2> QED
    BY <2>1, <2>3 DEF Store!ToldIsKept
<1>5. ASSUME NEW r \in Thread, NEW own \in SUBSET Endpoint, Store!SaveList(r, own)
      PROVE  StoreInv'
  <2> DEFINE list == storeThread[r].list
  <2>1. list \subseteq Endpoint
    OBVIOUS
  <2>2. /\ storeContent' = [storeContent EXCEPT !.endpoints = Store!Apart(list, own)]
        /\ storeTold' = [storeTold EXCEPT !.endpoints = (@ \cup (own \ list)) \ (own \cap list)]
        /\ storeStrayed' = [storeStrayed EXCEPT
                              !.endpoints = (@ \cup Store!Apart(list, storeContent.endpoints)) \ own]
        /\ storeThread' = [storeThread EXCEPT ![r] = Store!Idle]
        /\ storeCopy' = storeCopy
    BY <1>5, StoreReadings DEF Store!SaveList
  <2> HIDE DEF list
  <2>3. /\ storeContent' \in Store!Content /\ storeTold' \in Store!Content
        /\ storeStrayed' \in Store!Content
    BY <2>1, <2>2 DEF Store!Content, Store!Apart
  <2>4. storeThread' \in [Thread -> [busy : BOOLEAN, list : SUBSET Endpoint]]
    BY <2>2 DEF Store!Idle
  <2>5. Store!ToldIsKept'
    BY <2>2 DEF Store!ToldIsKept, Store!Apart, Store!Content
  <2> QED
    BY <2>2, <2>3, <2>4, <2>5
<1>6. CASE Store!Restart \/ Store!Damage \/ Store!Repair
  <2>1. UNCHANGED <<storeContent, storeTold, storeStrayed, storeCopy>>
    BY <1>6 DEF Store!Restart, Store!Damage, Store!Repair
  <2>2. [r \in Thread |-> Store!Idle] \in [Thread -> [busy : BOOLEAN, list : SUBSET Endpoint]]
    BY DEF Store!Idle
  <2>3. storeThread' \in {storeThread, [r \in Thread |-> Store!Idle]}
    BY <1>6 DEF Store!Restart, Store!Damage, Store!Repair
  <2> QED
    BY <2>1, <2>2, <2>3 DEF Store!ToldIsKept
<1>7. ASSUME NEW r \in Thread, Store!SaveBack(r) PROVE StoreInv'
  BY <1>5, <1>7 DEF Store!SaveBack
<1>8. ASSUME NEW r \in Thread, NEW e \in Endpoint, Store!SaveEndpoints(r, e) PROVE StoreInv'
  BY <1>5, <1>8 DEF Store!SaveEndpoints
<1> QED
  BY <1>1, <1>2, <1>3, <1>4, <1>6, <1>7, <1>8 DEF Store!Next

\* What a page was told is saved stays in the file, item by item, whatever other requests,
\* conversions, damages, repairs and restarts come between; but for the items that a request has
\* written back as it had read them before they changed: an endpoint edit its whole list, a page's
\* POST its whole sections (settings_api.py, update_settings and mutate; integrations_api.py).
THEOREM WhatWasToldIsKept == UnitSpec => []ToldIsKept
<1>1. StoreInv /\ [UnitNext]_unitVars => StoreInv'
  <2> SUFFICES ASSUME StoreInv, [UnitNext]_unitVars PROVE StoreInv'
    OBVIOUS
  <2>1. CASE UNCHANGED storeVars
    BY <2>1 DEF storeVars, StoreInv, Store!ToldIsKept
  <2>2. CASE Store!Next
    BY <2>2, StoreKeeps
  <2> QED
    BY <2>1, <2>2
       DEF UnitNext, ToneNext, ManageNext, LoudNext, StoreNext, RecordNext, PeerNext, PhoneNext,
           unitVars
<1>2. StoreInv => ToldIsKept
  BY DEF StoreInv, ToldIsKept
<1> QED
  BY StoreInitially, <1>1, <1>2, PTL DEF UnitSpec

-----------------------------------------------------------------------------
(* The calibration records.                                                *)

\* Where a save is held, heard or shown it has been made, and each was made with a higher revision
\* than all that were in view.
Made == {s \in Table!Save : s <= recordSaves}

RecordInv ==
    /\ recordTable \in [Unit -> Made \cup {None}]
    /\ recordHeard \in [Unit -> [Unit -> Made \cup {None}]]
    /\ recordPage \in [Unit -> Made \cup {None}]
    /\ recordSaves \in 0..MaxSaves
    /\ DOMAIN recordSaved = Table!Save
    /\ \A s \in Table!Save : recordSaved[s].rev \in Nat
    /\ \A s \in Made : /\ recordSaved[s].knew \subseteq Made
                       /\ \A t \in recordSaved[s].knew : recordSaved[t].rev < recordSaved[s].rev

\* The greater of two numbers is one of them, and neither is above it.
LEMMA MaxOfTwo ==
  ASSUME NEW m \in Nat, NEW n \in Nat
  PROVE  /\ Table!Max({m, n}) \in Nat
         /\ m <= Table!Max({m, n}) /\ n <= Table!Max({m, n})
BY DEF Table!Max

LEMMA RecordInitially == UnitInit => RecordInv
BY RecordAssumption DEF UnitInit, Table!Init, RecordInv, Made, Table!Save, Table!Unsaved

LEMMA RecordKeeps == ASSUME RecordInv, Table!Next PROVE RecordInv'
<1> USE RecordAssumption DEF RecordInv
<1>1. ASSUME NEW u \in Unit, NEW v \in Unit, Table!Hear(u, v) PROVE RecordInv'
  <2> USE <1>1 DEF Table!Hear
  <2>1. Made' = Made
    BY DEF Made
  <2> QED
    BY <2>1
<1>2. ASSUME NEW u \in Unit, Table!Show(u) PROVE RecordInv'
  <2> USE <1>2 DEF Table!Show
  <2>1. Made' = Made
    BY DEF Made
  <2>2. PICK s \in Table!Save \cup {None} :
               Table!Merged(u, s) /\ recordPage' = [recordPage EXCEPT ![u] = s]
    OBVIOUS
  <2>3. s \in Made \cup {None}
    BY <2>2 DEF Table!Merged, Table!Winners
  <2> QED
    BY <2>1, <2>2, <2>3
<1>3. ASSUME NEW u \in Unit, Table!DeleteOne(u) PROVE RecordInv'
  <2> USE <1>3 DEF Table!DeleteOne
  <2>1. Made' = Made
    BY DEF Made
  <2> QED
    BY <2>1
<1>4. ASSUME NEW u \in Unit, Table!PutOne(u) PROVE RecordInv'
  <2> USE <1>4 DEF Table!PutOne
  <2> DEFINE n     == recordSaves + 1
             known == {recordPage[u], recordTable[u]} \ {None}
             knew  == UNION {{s} \cup recordSaved[s].knew : s \in known}
  <2>1. n \in Table!Save /\ n \notin Made /\ Made' = Made \cup {n} /\ recordSaves' \in 0..MaxSaves
    BY DEF Made, Table!Save
  <2>2. known \subseteq Made /\ Made \subseteq Table!Save
    BY DEF Made
  <2>3. /\ Table!Rev(recordPage[u]) \in Nat /\ Table!Rev(recordTable[u]) \in Nat
        /\ \A s \in known : recordSaved[s].rev \in {Table!Rev(recordPage[u]), Table!Rev(recordTable[u])}
    BY <2>2 DEF Table!Rev
  <2>4. /\ Table!NextRev(u) \in Nat
        /\ \A s \in known : recordSaved[s].rev < Table!NextRev(u)
    <3> DEFINE m == Table!Rev(recordPage[u])
               k == Table!Rev(recordTable[u])
               g == Table!Max({m, k})
    <3>1. Table!NextRev(u) = g + 1
      BY DEF Table!NextRev
    <3>2. m \in Nat /\ k \in Nat /\ \A s \in known : recordSaved[s].rev \in {m, k}
      BY <2>3
    <3> HIDE DEF m, k, g
    <3>3. g \in Nat /\ m <= g /\ k <= g
      BY <3>2, MaxOfTwo DEF g
    <3> QED
      BY <3>1, <3>2, <3>3
  <2>5. /\ recordSaved'[n].rev = Table!NextRev(u) /\ recordSaved'[n].knew = knew
        /\ \A s \in Table!Save : s # n => recordSaved'[s] = recordSaved[s]
        /\ DOMAIN recordSaved' = Table!Save
    BY <2>1
  <2>6. knew \subseteq Made
    BY <2>2
  <2>7. ASSUME NEW t \in knew PROVE recordSaved[t].rev < Table!NextRev(u)
    <3>1. PICK s \in known : t = s \/ t \in recordSaved[s].knew
      OBVIOUS
    <3>2. /\ recordSaved[s].rev < Table!NextRev(u) /\ recordSaved[s].rev \in Nat
          /\ recordSaved[t].rev \in Nat
      BY <2>2, <2>4, <2>6, <3>1
    <3>3. t # s => recordSaved[t].rev < recordSaved[s].rev
      BY <2>2, <3>1
    <3> QED
      BY <2>4, <3>2, <3>3
  <2> HIDE DEF n, known, knew
  <2>8. \A s \in Table!Save : recordSaved'[s].rev \in Nat
    BY <2>4, <2>5
  <2>9. ASSUME NEW s \in Made'
        PROVE  /\ recordSaved'[s].knew \subseteq Made'
               /\ \A t \in recordSaved'[s].knew : recordSaved'[t].rev < recordSaved'[s].rev
    <3>1. CASE s = n
      BY <2>1, <2>2, <2>5, <2>6, <2>7, <3>1
    <3>2. CASE s # n
      BY <2>1, <2>2, <2>5, <3>2
    <3> QED
      BY <3>1, <3>2
  <2>10. /\ recordTable' \in [Unit -> Made' \cup {None}]
         /\ recordHeard' \in [Unit -> [Unit -> Made' \cup {None}]]
         /\ recordPage' \in [Unit -> Made' \cup {None}]
    BY <2>1 DEF n
  <2> QED
    BY <2>1, <2>5, <2>8, <2>9, <2>10
<1> QED
  BY <1>1, <1>2, <1>3, <1>4 DEF Table!Next

\* No unit prefers a calibration record to one that was saved by someone who had it before them,
\* whatever the clocks say and in whatever order units hear of one another (calibration.py,
\* merge_calibrations and next_revision).
THEOREM LaterRecordWins == UnitSpec => []LaterWins
<1>1. RecordInv /\ [UnitNext]_unitVars => RecordInv'
  <2> SUFFICES ASSUME RecordInv, [UnitNext]_unitVars PROVE RecordInv'
    OBVIOUS
  <2>1. CASE UNCHANGED recordVars
    BY <2>1 DEF recordVars, RecordInv, Made
  <2>2. CASE Table!Next
    BY <2>2, RecordKeeps
  <2> QED
    BY <2>1, <2>2
       DEF UnitNext, ToneNext, ManageNext, LoudNext, StoreNext, RecordNext, PeerNext, PhoneNext,
           unitVars
<1>2. ASSUME RecordInv PROVE LaterWins
  <2> SUFFICES ASSUME NEW u \in Unit, NEW s \in Table!Winners(u), NEW v \in Unit,
                      recordHeard[u][v] # None, s \in recordSaved[recordHeard[u][v]].knew
               PROVE  FALSE
    BY DEF LaterWins, Table!LaterWins
  <2> DEFINE t == recordHeard[u][v]
  <2>1. t \in Made /\ t \in {recordHeard[u][w] : w \in Unit} \ {None}
    BY <1>2 DEF RecordInv
  <2>2. ~Table!Outranks(t, s)
    BY <2>1 DEF Table!Winners
  <2>3. recordSaved[s].rev < recordSaved[t].rev
    BY <1>2, <2>1 DEF RecordInv
  <2>4. recordSaved[s].rev \in Nat /\ recordSaved[t].rev \in Nat
    BY <1>2, <2>1 DEF RecordInv, Made
  <2> QED
    BY <2>2, <2>3, <2>4 DEF Table!Outranks
<1> QED
  BY RecordInitially, <1>1, <1>2, PTL DEF UnitSpec
=============================================================================
