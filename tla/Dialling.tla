------------------------------ MODULE Dialling ------------------------------
(***************************************************************************)
(* How a unit takes a speaker and lets go of it again: the dial tasks of   *)
(* the sync library for the speaker's URL, its registry with the eviction  *)
(* timers, and the requests that dial, adopt, reclaim and release          *)
(* (backend/scripts/sendspin_server.py: adopt_foreign_client,              *)
(* reclaim_remote_player, release_foreign_client, release_local_player,    *)
(* _stop_dialing, _cancel_pending_cleanup).                                *)
(*                                                                         *)
(* One speaker: what happens at one URL does not touch another.  The       *)
(* library is external; what it does is what docs/UPSTREAM-AIOSENDSPIN.md  *)
(* measured of it (sections 3 to 5).  A step is the code between awaits.   *)
(***************************************************************************)
EXTENDS Naturals, FiniteSets

CONSTANTS Caller,   \* REST handlers and feeders, each one request at a time
          Task,     \* names for dial tasks, free again when a task has ended: a bound on how many live
          None

Request == {"adopt", "reclaim", "release", "letGo"}

ASSUME DiallingAssumption == None \notin Task \cup Request

VARIABLES dial,       \* what each dial task is doing
          registered, \* SendspinServer._connection_tasks[url]
          known,      \* is the URL registered for the speaker's client id
          grouped,    \* is the client in the group of one of our sources
          handle,     \* SendspinClient._cleanup_handle: an eviction it can still cancel
          orphan,     \* an eviction nobody can cancel any more
          pc, old,    \* where each request is, and the dial task it waits to see ended
          asked,      \* what each request is
          excused,    \* history: two requests overlapped, or a stopped dial outlived its wait
          freed       \* history: the last request let go of the speaker

libraryVars == <<dial, registered, handle, orphan>>
requestVars == <<pc, old, asked>>
vars == <<libraryVars, known, grouped, requestVars, excused, freed>>

Label == {"idle", "stopping", "waiting", "detached", "hangUp", "forget"}

Running(t) == dial[t] # "gone"
InSession  == {t \in Task : dial[t] = "session"}
Connected  == InSession # {}

TypeOK ==
    /\ dial \in [Task -> {"gone", "connecting", "session", "backoff"}]
    /\ registered \in Task \cup {None}
    /\ {known, grouped, handle, orphan, excused, freed} \subseteq BOOLEAN
    /\ pc \in [Caller -> Label]
    /\ old \in [Caller -> Task \cup {None}]
    /\ asked \in [Caller -> Request \cup {None}]
    /\ \A c \in Caller : (pc[c] = "idle" <=> asked[c] = None) /\ (pc[c] = "stopping" <=> old[c] # None)

Init ==
    /\ dial = [t \in Task |-> "gone"]
    /\ registered = None
    /\ known \in BOOLEAN
    /\ grouped = FALSE
    /\ handle = FALSE
    /\ orphan = FALSE
    /\ pc = [c \in Caller |-> "idle"]
    /\ old = [c \in Caller |-> None]
    /\ asked = [c \in Caller |-> None]
    /\ excused = FALSE
    /\ freed = FALSE

-----------------------------------------------------------------------------
(* The library.                                                            *)

\* _schedule_cleanup overwrites the handle without cancelling what was there.
Schedule ==
    /\ handle' = TRUE
    /\ orphan' = (orphan \/ handle)

\* A cancel ends a task that connects or backs off; the message loop of a session consumes it, the
\* session ends without a goodbye, and the task goes on to redial.
Cancelled(t) ==
    \/ /\ dial[t] \in {"connecting", "backoff"}
       /\ dial' = [dial EXCEPT ![t] = "gone"]
       /\ UNCHANGED <<handle, orphan>>
    \/ /\ dial[t] = "session"
       /\ dial' = [dial EXCEPT ![t] = "backoff"]
       /\ Schedule

\* The speaker answers: it holds one websocket, so another dialler of ours loses its own.  A client
\* that comes back cancels the eviction it knows of.
Connects(t) ==
    /\ dial[t] = "connecting"
    /\ dial' = [u \in Task |-> IF u = t THEN "session"
                              ELSE IF u \in InSession THEN "backoff" ELSE dial[u]]
    /\ handle' = FALSE
    /\ UNCHANGED <<registered, orphan, known, grouped, requestVars, excused, freed>>

\* It does not, or the session breaks; the task backs off and dials again.
ConnectFails(t) ==
    /\ dial[t] = "connecting"
    /\ dial' = [dial EXCEPT ![t] = "backoff"]
    /\ UNCHANGED <<registered, handle, orphan, known, grouped, requestVars, excused, freed>>

SessionBreaks(t) ==
    /\ dial[t] = "session"
    /\ dial' = [dial EXCEPT ![t] = "backoff"]
    /\ Schedule
    /\ UNCHANGED <<registered, known, grouped, requestVars, excused, freed>>

Redials(t) ==
    /\ dial[t] = "backoff"
    /\ dial' = [dial EXCEPT ![t] = "connecting"]
    /\ UNCHANGED <<registered, handle, orphan, known, grouped, requestVars, excused, freed>>

\* Another server takes the speaker: its goodbye ends the dial.  A task that ends pops the URL's
\* registration, whoever it belongs to by then.
TakenAway(t) ==
    /\ dial[t] = "session"
    /\ dial' = [dial EXCEPT ![t] = "gone"]
    /\ registered' = None
    /\ Schedule
    /\ UNCHANGED <<known, grouped, requestVars, excused, freed>>

\* An eviction falls due: the client leaves the registry and, with it, its group.
EvictionDue ==
    /\ \/ handle /\ handle' = FALSE /\ UNCHANGED orphan
       \/ orphan /\ orphan' = FALSE /\ UNCHANGED handle
    /\ grouped' = FALSE
    /\ UNCHANGED <<dial, registered, known, requestVars, excused, freed>>

Unused == {t \in Task : dial[t] = "gone" /\ \A c \in Caller : old[c] # t}

\* connect_to_client: nothing to do while a task is registered for the URL.
ConnectToClient ==
    IF registered # None THEN UNCHANGED <<dial, registered>>
    ELSE \E t \in Unused :
            /\ dial' = [dial EXCEPT ![t] = "connecting"]
            /\ registered' = t

-----------------------------------------------------------------------------
(* Requests.                                                               *)

\* A request begins only while there are names for the tasks it and the others may start.
Begins(c, request) ==
    /\ pc[c] = "idle"
    /\ Cardinality({o \in Caller : pc[o] # "idle"}) < Cardinality(Unused)
    /\ asked' = [asked EXCEPT ![c] = request]
    /\ freed' = FALSE
    /\ excused' = (excused \/ \E o \in Caller : pc[o] # "idle")

Finishes(c, free) ==
    /\ pc' = [pc EXCEPT ![c] = "idle"]
    /\ asked' = [asked EXCEPT ![c] = None]
    /\ freed' = free

\* attach_player: the eviction it can reach is cancelled before anything else.
AttachPlayer ==
    /\ handle' = FALSE
    /\ grouped' = TRUE
    /\ known' = TRUE

\* _stop_dialing: the registration goes at once, the task is cancelled and then waited for.
StopDialing(c) ==
    /\ registered' = None
    /\ Cancelled(registered)
    /\ old' = [old EXCEPT ![c] = registered]
    /\ pc' = [pc EXCEPT ![c] = "stopping"]

\* adopt_foreign_client of a speaker we hold at this URL already: nothing is dialled.
AdoptHeld(c) ==
    /\ pc[c] = "idle"
    /\ Connected /\ known
    /\ AttachPlayer
    /\ freed' = FALSE
    /\ excused' = (excused \/ \E o \in Caller : pc[o] # "idle")
    /\ UNCHANGED <<dial, registered, orphan, requestVars>>

\* Mutant: a speaker that is held is dialled again.
AdoptRegardless(c) ==
    /\ Begins(c, "adopt")
    /\ IF registered = None
         THEN /\ ConnectToClient
              /\ pc' = [pc EXCEPT ![c] = "waiting"]
              /\ UNCHANGED <<old, handle, orphan>>
         ELSE StopDialing(c)
    /\ UNCHANGED <<known, grouped>>

\* Any other adopt: the dial that is there is stopped first.
Adopt(c) ==
    /\ ~(Connected /\ known)
    /\ Begins(c, "adopt")
    /\ IF registered = None
         THEN /\ ConnectToClient
              /\ pc' = [pc EXCEPT ![c] = "waiting"]
              /\ UNCHANGED <<old, handle, orphan>>
         ELSE StopDialing(c)
    /\ UNCHANGED <<known, grouped>>

\* reclaim_remote_player: the URL is registered and dialled, and the player waited for.
Reclaim(c) ==
    /\ Begins(c, "reclaim")
    /\ known' = TRUE
    /\ ConnectToClient
    /\ pc' = [pc EXCEPT ![c] = "waiting"]
    /\ UNCHANGED <<handle, orphan, grouped, old>>

\* release_foreign_client: the speaker leaves our group first.
Release(c) ==
    /\ known
    /\ Begins(c, "release")
    /\ grouped' = FALSE
    /\ pc' = [pc EXCEPT ![c] = "detached"]
    /\ UNCHANGED <<libraryVars, known, old>>

\* release_local_player: only a connected player that no source has.
LetGo(c) ==
    /\ Connected /\ known /\ ~grouped
    /\ Begins(c, "letGo")
    /\ IF registered = None
         THEN /\ pc' = [pc EXCEPT ![c] = "hangUp"]
              /\ UNCHANGED <<libraryVars, old>>
         ELSE StopDialing(c)
    /\ UNCHANGED <<known, grouped>>

\* One more cancel for the task that is waited for; the wait ends with it.
CancelAgain(c) ==
    /\ pc[c] = "stopping"
    /\ Running(old[c])
    /\ Cancelled(old[c])
    /\ registered' = IF dial[old[c]] = "session" THEN registered ELSE None
    /\ UNCHANGED <<known, grouped, requestVars, excused, freed>>

\* After the wait an adopt dials, the others hang up.
GoesOn(c) ==
    /\ \/ /\ asked[c] = "adopt"
          /\ ConnectToClient
          /\ pc' = [pc EXCEPT ![c] = "waiting"]
       \/ /\ asked[c] \in {"release", "letGo"}
          /\ pc' = [pc EXCEPT ![c] = "hangUp"]
          /\ UNCHANGED <<dial, registered>>
    /\ old' = [old EXCEPT ![c] = None]
    /\ UNCHANGED <<handle, orphan, known, grouped, asked, freed>>

\* Mutant: a dial that was cancelled once is taken for dead.
StoppedAtOnce(c) ==
    /\ pc[c] = "stopping"
    /\ GoesOn(c)
    /\ UNCHANGED excused

\* Mutant: the wait has no deadline.
StoppedWhenGone(c) ==
    /\ pc[c] = "stopping"
    /\ ~Running(old[c])
    /\ GoesOn(c)
    /\ UNCHANGED excused

\* It is gone, or the wait has lasted too long.
Stopped(c) ==
    /\ pc[c] = "stopping"
    /\ GoesOn(c)
    /\ excused' = (excused \/ Running(old[c]))

\* The speaker a request waits for is there.
Lands(c) ==
    /\ pc[c] = "waiting"
    /\ Connected
    /\ AttachPlayer
    /\ Finishes(c, FALSE)
    /\ UNCHANGED <<dial, registered, orphan, old, excused>>

\* It never came; the dial goes on.
GivesUp(c) ==
    /\ pc[c] = "waiting"
    /\ Finishes(c, FALSE)
    /\ UNCHANGED <<libraryVars, known, grouped, old, excused>>

\* The release goes on to the dial.
Detached(c) ==
    /\ pc[c] = "detached"
    /\ IF registered = None
         THEN /\ pc' = [pc EXCEPT ![c] = "hangUp"]
              /\ UNCHANGED <<libraryVars, old>>
         ELSE StopDialing(c)
    /\ UNCHANGED <<known, grouped, asked, excused, freed>>

\* release_foreign_client hangs up on a session that is left; that schedules an eviction too.
HangUp(c) ==
    /\ pc[c] = "hangUp"
    /\ asked[c] = "release"
    /\ Connected
    /\ dial' = [t \in Task |-> IF t \in InSession THEN "gone" ELSE dial[t]]
    /\ registered' = None
    /\ Schedule
    /\ pc' = [pc EXCEPT ![c] = "forget"]
    /\ UNCHANGED <<known, grouped, old, asked, excused, freed>>

\* Mutant: the eviction the hang-up scheduled is not cancelled before the goodbye schedules its own.
ForgetOverEviction(c) ==
    /\ asked[c] = "release"
    /\ pc[c] = "forget" \/ (pc[c] = "hangUp" /\ ~Connected)
    /\ orphan' = (orphan \/ handle)
    /\ handle' = FALSE
    /\ grouped' = FALSE
    /\ Finishes(c, TRUE)
    /\ UNCHANGED <<dial, registered, known, old, excused>>

\* The pending eviction is cancelled, the goodbye evicts at once.
Forget(c) ==
    /\ asked[c] = "release"
    /\ pc[c] = "forget" \/ (pc[c] = "hangUp" /\ ~Connected)
    /\ handle' = FALSE
    /\ grouped' = FALSE
    /\ Finishes(c, TRUE)
    /\ UNCHANGED <<dial, registered, orphan, known, old, excused>>

\* release_local_player drops the registration again, with one cancel for a dial that has it by now.
LetGoEnds(c) ==
    /\ pc[c] = "hangUp"
    /\ asked[c] = "letGo"
    /\ registered' = None
    /\ IF registered = None
         THEN UNCHANGED <<dial, handle, orphan>>
         ELSE Cancelled(registered)
    /\ Finishes(c, TRUE)
    /\ UNCHANGED <<known, grouped, old, excused>>

-----------------------------------------------------------------------------

Library ==
    \/ \E t \in Task : Connects(t) \/ ConnectFails(t) \/ SessionBreaks(t) \/ Redials(t) \/ TakenAway(t)
    \/ EvictionDue

Goes(c) ==
    \/ CancelAgain(c) \/ Stopped(c) \/ Lands(c) \/ GivesUp(c)
    \/ Detached(c) \/ HangUp(c) \/ Forget(c) \/ LetGoEnds(c)

Next ==
    \/ Library
    \/ \E c \in Caller : AdoptHeld(c) \/ Adopt(c) \/ Reclaim(c) \/ Release(c) \/ LetGo(c) \/ Goes(c)

\* The loop runs its ready tasks, and both waits have deadlines.
Spec == Init /\ [][Next]_vars /\ \A c \in Caller : WF_vars(Goes(c)) /\ WF_vars(Stopped(c))

-----------------------------------------------------------------------------
(* Properties.                                                             *)

\* One dialler per speaker, and the registry knows it unless a request is about to end it: a second
\* one fights the first for the only websocket the speaker has.
OneDial ==
    excused \/ \A t, u \in Task : Running(t) /\ Running(u) => t = u

DialIsKnown ==
    excused \/ \A t \in Task : Running(t) => t = registered \/ \E c \in Caller : old[c] = t

\* "A connected client must never have an eviction pending" (sendspin_server.py:1607).
NoEvictionPending == Connected => ~handle /\ ~orphan

\* What was released stays released: nobody is left dialling it, and it is in none of our groups.
ReleaseSticks == freed /\ ~excused => ~grouped /\ \A t \in Task : ~Running(t)

\* A redial never cuts a speaker that plays.
PlayingIsNotCut ==
    excused \/ \A c \in Caller : old[c] # None => ~(grouped /\ dial[old[c]] = "session")

\* Every request ends, whatever the speaker does.
RequestsEnd == \A c \in Caller : []<>(pc[c] = "idle")
=============================================================================
