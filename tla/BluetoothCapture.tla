-------------------------- MODULE BluetoothCapture --------------------------
(***************************************************************************)
(* Which phone a unit's Bluetooth source records                           *)
(* (backend/scripts/sources/bluetooth_adapter.py).  Every signal of BlueZ  *)
(* starts a handler of its own that reads the device anew and adopts or    *)
(* drops it; adopting, handing over and stopping wait for BlueZ and for    *)
(* the old recorder to die, and nothing keeps two handlers apart.          *)
(***************************************************************************)
EXTENDS FiniteSets, Naturals

CONSTANTS Phone,
          Task,        \* bound: handlers at a time
          Loop,        \* bound: capture loops and recorders at a time, by number
          MaxChanges,  \* bound: links made and lost, services found
          None

VARIABLES air,        \* phones whose link is up
          sender,     \* phones known to offer A2DP audio
          connected,  \* _connected
          task,       \* what each handler is at, or None
          active,     \* _active
          loop,       \* _capture_task
          loops,      \* the phone each capture loop that was not cancelled records
          recorder,   \* the recorder each loop spawned: its phone, and whether it was told to end
          capture,    \* _capture: the loop whose recorder it is
          strayed,    \* the capture last begun is of a phone that was dropped while it was adopted
          changes

captureVars == <<active, loop, loops, recorder, capture, strayed>>
vars == <<air, sender, connected, task, captureVars, changes>>

TypeOK ==
    /\ air \subseteq Phone /\ sender \subseteq Phone /\ connected \subseteq Phone
    /\ task \in [Task -> [at : {"read", "adopt", "pair", "judged"}, phone : Phone]
                    \cup [at : {"stopping"}, phone : Phone, old : Loop, next : Phone \cup {None}]
                    \cup {None}]
    /\ active \in Phone \cup {None} /\ loop \in Loop \cup {None}
    /\ loops \in [Loop -> Phone \cup {None}]
    /\ recorder \in [Loop -> [phone : Phone, ending : BOOLEAN] \cup {None}]
    /\ capture \in Loop \cup {None}
    /\ strayed \in BOOLEAN /\ changes \in 0..MaxChanges

Init ==
    /\ air = {} /\ sender \in SUBSET Phone
    /\ connected = {}
    /\ task = [t \in Task |-> None]
    /\ active = None /\ loop = None /\ loops = [l \in Loop |-> None]
    /\ recorder = [l \in Loop |-> None] /\ capture = None
    /\ strayed = FALSE /\ changes = 0

-----------------------------------------------------------------------------
(* Signals: each starts a handler.                                         *)

At(stage, p) == [at |-> stage, phone |-> p]

Starts(stage, p) ==
    /\ changes < MaxChanges /\ changes' = changes + 1
    /\ \E t \in Task : task[t] = None /\ task' = [task EXCEPT ![t] = At(stage, p)]
    /\ UNCHANGED captureVars

LinkUp(p) == p \notin air /\ air' = air \cup {p} /\ Starts("read", p) /\ UNCHANGED <<sender, connected>>

LinkDown(p) == p \in air /\ air' = air \ {p} /\ Starts("read", p) /\ UNCHANGED <<sender, connected>>

ServicesFound(p) ==
    /\ p \in air \ sender /\ sender' = sender \cup {p} /\ Starts("read", p)
    /\ UNCHANGED <<air, connected>>

\* The bond is removed (bound: not in the one round trip in which a handler asks for the address).
Unbonds(p) ==
    /\ \A t \in Task : task[t] # At("adopt", p)
    /\ air' = air \ {p} /\ sender' = sender \ {p} /\ connected' = connected \ {p}

\* By hand; _on_interfaces_removed drops the phone at once, without asking BlueZ.
Removed(p) == p \in connected /\ Unbonds(p) /\ Starts("judged", p)

-----------------------------------------------------------------------------
(* The capture.                                                            *)

FreeLoop == CHOOSE l \in Loop :
                /\ loops[l] = None /\ recorder[l] = None
                /\ \A k \in Loop : loops[k] = None /\ recorder[k] = None => l <= k

HasRoom == \E l \in Loop : loops[l] = None /\ recorder[l] = None

Begin(p) ==
    /\ HasRoom
    /\ active' = p /\ loop' = FreeLoop
    /\ strayed' = (p \notin connected)

\* _stop_capture as far as its wait for the recorder; the cancelled loop is gone at once.
StopsFor(t, next) ==
    LET cut     == IF loop = None THEN loops ELSE [loops EXCEPT ![loop] = None]
        running == capture # None /\ recorder[capture] # None
    IN  /\ capture' = None
        /\ IF running
           THEN /\ active' = None /\ loop' = None /\ loops' = cut /\ strayed' = FALSE
                /\ recorder' = [recorder EXCEPT ![capture].ending = TRUE]
                /\ task' = [task EXCEPT ![t] = [at |-> "stopping", phone |-> task[t].phone,
                                                old |-> capture, next |-> next]]
           ELSE /\ task' = [task EXCEPT ![t] = None]
                /\ UNCHANGED recorder
                /\ IF next = None
                   THEN active' = None /\ loop' = None /\ loops' = cut /\ strayed' = FALSE
                   ELSE Begin(next) /\ loops' = [cut EXCEPT ![FreeLoop] = next]

\* _start_capture: as it is if it records this phone already, or the old one is stopped first.
StartCapture(t, p) ==
    IF active = p /\ loop # None
    THEN task' = [task EXCEPT ![t] = None] /\ UNCHANGED captureVars
    ELSE StopsFor(t, p)

\* The rest of it, once the old recorder is dead; another handler may have begun a loop meanwhile.
Stopped(t) ==
    /\ task[t] # None /\ task[t].at = "stopping" /\ recorder[task[t].old] = None
    /\ IF task[t].next = None
       THEN UNCHANGED <<active, loop, loops, strayed>>
       ELSE Begin(task[t].next) /\ loops' = [loops EXCEPT ![FreeLoop] = task[t].next]
    /\ task' = [task EXCEPT ![t] = None]
    /\ UNCHANGED <<air, sender, connected, recorder, capture, changes>>

Taken(p) == \E k \in Loop : recorder[k] # None /\ recorder[k].phone = p

\* _capture_loop, _spawn_capture: a phone gives its audio to one recorder.
Spawns(l) ==
    /\ loops[l] # None /\ loops[l] = active /\ recorder[l] = None
    /\ active \in air /\ ~Taken(active)
    /\ recorder' = [recorder EXCEPT ![l] = [phone |-> active, ending |-> FALSE]]
    /\ capture' = l
    /\ UNCHANGED <<air, sender, connected, task, active, loop, loops, strayed, changes>>

\* The recorder exits at once, and stands in _capture.
SpawnFails(l) ==
    /\ loops[l] # None /\ loops[l] = active /\ recorder[l] = None
    /\ active \notin air \/ Taken(active)
    /\ capture' = l
    /\ UNCHANGED <<air, sender, connected, task, active, loop, loops, recorder, strayed, changes>>

\* A loop that is no longer the active phone's ends when it comes to look.
LoopEnds(l) ==
    /\ loops[l] # None /\ loops[l] # active /\ recorder[l] = None
    /\ loops' = [loops EXCEPT ![l] = None]
    /\ loop' = IF loop = l THEN None ELSE loop
    /\ UNCHANGED <<air, sender, connected, task, active, recorder, capture, strayed, changes>>

\* A recorder dies of its signal, or because its phone is gone.
RecorderDies(l) ==
    /\ recorder[l] # None /\ (recorder[l].ending \/ recorder[l].phone \notin air)
    /\ recorder' = [recorder EXCEPT ![l] = None]
    /\ UNCHANGED <<air, sender, connected, task, active, loop, loops, capture, strayed, changes>>

-----------------------------------------------------------------------------
(* The handlers.                                                           *)

\* _drop_device, to _judge_connection.
Drops(t, p) ==
    /\ connected' = connected \ {p}
    /\ task' = [task EXCEPT ![t] = IF p \in connected THEN At("judged", p) ELSE None]

\* _on_device_props as far as its decision.  BlueZ answers in order: who has read that the phone
\* is there has adopted it before the handler of its leaving has its answer.
Reads(t) ==
    /\ task[t] # None /\ task[t].at = "read"
    /\ LET p == task[t].phone IN
       IF p \in air \cap sender
       THEN /\ task' = [task EXCEPT ![t] = IF p \in connected THEN None ELSE At("adopt", p)]
            /\ UNCHANGED connected
       ELSE /\ \A u \in Task : task[u] # At("adopt", p)
            /\ Drops(t, p)
    /\ UNCHANGED <<air, sender, captureVars, changes>>

\* _forget_stale_bond: short and silent connections, of which this was one too many.  A phone that
\* is back by now is dropped again by the signal of its removal.
Forgets(t) ==
    /\ task[t] # None /\ task[t].at = "judged"
    /\ LET p == task[t].phone IN
       /\ p \in sender /\ Unbonds(p)
       /\ IF p \in connected
          THEN Starts("judged", p)
          ELSE /\ changes < MaxChanges /\ changes' = changes + 1
               /\ UNCHANGED <<task, captureVars>>

\* Its address has come: it is adopted, and paired and trusted for good.
Adopts(t) ==
    /\ task[t] # None /\ task[t].at = "adopt"
    /\ connected' = connected \cup {task[t].phone}
    /\ task' = [task EXCEPT ![t].at = "pair"]
    /\ UNCHANGED <<air, sender, captureVars, changes>>

\* _persist_pairing has returned, well or not: the phone connected last is captured.
Paired(t) ==
    /\ task[t] # None /\ task[t].at = "pair"
    /\ StartCapture(t, task[t].phone)
    /\ UNCHANGED <<air, sender, connected, changes>>

\* Mutant: the capture of a phone that left is stopped, whoever else is there.
StopsOnly(t) ==
    /\ task[t] # None /\ task[t].at = "judged"
    /\ IF active # task[t].phone
       THEN task' = [task EXCEPT ![t] = None] /\ UNCHANGED captureVars
       ELSE StopsFor(t, None)
    /\ UNCHANGED <<air, sender, connected, changes>>

\* The end of _drop_device: the capture is handed over or stopped, if it was this phone's.
HandsOver(t) ==
    /\ task[t] # None /\ task[t].at = "judged"
    /\ IF active # task[t].phone
       THEN task' = [task EXCEPT ![t] = None] /\ UNCHANGED captureVars
       ELSE IF connected = {} THEN StopsFor(t, None)
       ELSE \E q \in connected : StartCapture(t, q)
    /\ UNCHANGED <<air, sender, connected, changes>>

Handler(t) == Reads(t) \/ Adopts(t) \/ Paired(t) \/ HandsOver(t) \/ Stopped(t)
Capture(l) == Spawns(l) \/ LoopEnds(l) \/ RecorderDies(l)

Next ==
    \/ \E p \in Phone : LinkUp(p) \/ LinkDown(p) \/ ServicesFound(p) \/ Removed(p)
    \/ \E t \in Task : Handler(t) \/ Forgets(t)
    \/ \E l \in Loop : Capture(l) \/ SpawnFails(l)

Fairness == /\ \A t \in Task : WF_vars(Handler(t))
            /\ \A l \in Loop : WF_vars(Capture(l))

Spec == Init /\ [][Next]_vars /\ Fairness

-----------------------------------------------------------------------------
Recorded(p) == active = p /\ \E l \in Loop : recorder[l] = [phone |-> p, ending |-> FALSE]

Sending == air \cap sender

\* However the signals and the handlers interleave, a phone that sends is recorded in the end if
\* there is one, unless a phone that left while it was being paired took the capture with it.
CaptureSettles == <>[](strayed \/ Sending = {} \/ \E p \in Sending : Recorded(p))
=============================================================================
