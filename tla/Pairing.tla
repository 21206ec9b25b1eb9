------------------------------ MODULE Pairing ------------------------------
(***************************************************************************)
(* How a server comes to share a record with one speaker                   *)
(* (backend/scripts/sendspin_server.py, and the handlers of mesh/api.py):  *)
(* the shared secret staged before a handshake, an operator's attempts and *)
(* the PIN each waits for, the cancel, and the management session that     *)
(* opens a pairing window.  The handshake, the exchange and the store are  *)
(* the library's: they succeed or fail.                                    *)
(***************************************************************************)
EXTENDS Naturals

CONSTANTS MaxAttempts,  \* bound: attempts an operator starts
          MaxDrops,     \* bound: connections that end
          None

Attempt == 1..MaxAttempts

VARIABLES kind,                     \* our own player, a peer's, or one that speaks cleartext
          up,                       \* it is connected
          paired, staged, trusted,  \* the pairing store
          managing,                 \* our activities on it include management
          phase,                    \* how far each attempt is
          pin,                      \* _pending_pins: whose future is registered for the client
          future,                   \* each attempt's
          status,                   \* _pairing: what the dialog shows
          cancelling,               \* a cancel awaits end_pairing
          drops

linkVars == <<kind, up, paired, staged, trusted, managing, drops>>
pinVars  == <<phase, pin, future, status, cancelling>>
vars == <<linkVars, pinVars>>

Under  == {"exchange", "asking", "checking"}
Active == {a \in Attempt : phase[a] \in Under}

TypeOK ==
    /\ kind \in {"own", "peer", "cleartext"}
    /\ {up, paired, staged, trusted, managing, cancelling} \subseteq BOOLEAN
    /\ phase \in [Attempt -> Under \cup {"unused", "timed out", "done"}]
    /\ pin \in Attempt \cup {None}
    /\ future \in [Attempt -> {"open", "set", "cancelled"}]
    /\ status \in {"idle", "pending", "awaiting_pin", "paired", "failed", "cancelled"}
    /\ drops \in 0..MaxDrops

\* start() stages the secret for the unit's own player before that comes up, and approves it when
\* unpaired access is on.
Init ==
    /\ kind \in {"own", "peer", "cleartext"}
    /\ up = FALSE /\ paired = FALSE /\ managing = FALSE
    /\ staged = (kind = "own")
    /\ trusted \in {FALSE, kind = "own"}
    /\ phase = [a \in Attempt |-> "unused"]
    /\ future = [a \in Attempt |-> "open"]
    /\ pin = None /\ status = "idle" /\ cancelling = FALSE
    /\ drops = 0

-----------------------------------------------------------------------------
(* The connection.                                                         *)

\* Positive evidence of encryption: some unit's own speaker, or a report that says so.
MayStage == kind # "cleartext"

\* stage_shared_psk: nothing to do for a client that has a record.
StageSharedPsk == staged' = (staged \/ (MayStage /\ ~paired))

\* reclaim_remote_player before it dials.
Prepare ==
    /\ ~up
    /\ StageSharedPsk
    /\ trusted' = TRUE
    /\ UNCHANGED <<kind, up, paired, managing, drops, pinVars>>

\* A handshake consults what is staged; adopting a speaker stages nothing.
Connect ==
    /\ ~up
    /\ up' = TRUE
    /\ paired' = (paired \/ staged)
    /\ staged' = FALSE
    /\ UNCHANGED <<kind, trusted, managing, drops, pinVars>>

Drop ==
    /\ up /\ drops < MaxDrops
    /\ up' = FALSE /\ managing' = FALSE /\ drops' = drops + 1

Disconnect == Drop /\ UNCHANGED <<kind, paired, staged, trusted, pinVars>>

\* _maybe_pair_via_shared_psk: our own player, encrypted, and without a record.  The handshake it
\* needs may cost the connection.
PairOwn ==
    /\ up /\ kind = "own" /\ ~paired /\ Active = {}
    /\ \/ paired' = TRUE /\ UNCHANGED <<up, managing, drops>>
       \/ Drop /\ UNCHANGED paired
    /\ UNCHANGED <<kind, staged, trusted, pinVars>>

\* open_pairing_window: management takes a record, and is declared for the length of the call.
OpenWindow ==
    /\ up /\ paired /\ ~managing
    /\ managing' = TRUE
    /\ UNCHANGED <<kind, up, paired, staged, trusted, drops, pinVars>>

WindowAnswered ==
    /\ managing
    /\ managing' = FALSE
    /\ UNCHANGED <<kind, up, paired, staged, trusted, drops, pinVars>>

-----------------------------------------------------------------------------
(* An operator pairs the speaker.                                          *)

\* pair_client: the attempt becomes a task, whatever other one is under way.
PairClient(a) ==
    /\ up
    /\ phase[a] = "unused" /\ \A b \in 1..(a - 1) : phase[b] # "unused"
    /\ phase' = [phase EXCEPT ![a] = "exchange"]
    /\ status' = "pending"
    /\ UNCHANGED <<linkVars, pin, future, cancelling>>

\* The library awaits the PIN provider of the attempt; pairing_psk has none.
AskForPin(a) ==
    /\ phase[a] = "exchange" /\ kind # "cleartext"
    /\ phase' = [phase EXCEPT ![a] = "asking"]
    /\ pin' = a
    /\ status' = "awaiting_pin"
    /\ UNCHANGED <<linkVars, future, cancelling>>

SubmitPin ==
    /\ pin # None /\ future[pin] = "open"
    /\ future' = [future EXCEPT ![pin] = "set"]
    /\ UNCHANGED <<linkVars, phase, pin, status, cancelling>>

\* Mutant: nothing limits the wait for a PIN.
AwaitPinForever(a) ==
    /\ phase[a] = "asking" /\ future[a] # "open"
    /\ phase' = [phase EXCEPT ![a] = IF future[a] = "set" THEN "checking" ELSE "done"]
    /\ pin' = None
    /\ UNCHANGED <<linkVars, future, status, cancelling>>

\* The provider's wait ends with a PIN, with a cancel, or after PAIRING_PIN_TIMEOUT_S, and removes
\* whatever future the client then has.
AwaitPin(a) ==
    /\ phase[a] = "asking"
    /\ phase' = [phase EXCEPT ![a] = CASE future[a] = "set"       -> "checking"
                                       [] future[a] = "cancelled" -> "done"
                                       [] future[a] = "open"      -> "timed out"]
    /\ pin' = None
    /\ UNCHANGED <<linkVars, future, status, cancelling>>

\* _run_pairing: the outcome the dialog reads.  A cancelled wait is no Exception and leaves none.
RunPairing(a) ==
    /\ phase' = [phase EXCEPT ![a] = "done"]
    /\ \/ /\ phase[a] \in {"exchange", "checking"} /\ up /\ kind # "cleartext"
          /\ paired' = TRUE /\ staged' = FALSE
          /\ status' = "paired"
       \/ /\ phase[a] \in {"exchange", "checking", "timed out"}
          /\ status' = "failed"
          /\ UNCHANGED <<paired, staged>>
    /\ UNCHANGED <<kind, up, trusted, managing, drops, pin, future, cancelling>>

\* cancel_pairing as far as its await.
CancelPairing ==
    /\ ~cancelling
    /\ cancelling' = TRUE
    /\ pin' = None
    /\ future' = IF pin # None /\ future[pin] = "open" THEN [future EXCEPT ![pin] = "cancelled"] ELSE future
    /\ UNCHANGED <<linkVars, phase, status>>

\* end_pairing has returned, or raised.
EndedPairing ==
    /\ cancelling
    /\ cancelling' = FALSE
    /\ status' = "cancelled"
    /\ UNCHANGED <<linkVars, phase, pin, future>>

\* unpair_client: the client is told, and closes.
UnpairClient ==
    /\ paired /\ Drop
    /\ paired' = FALSE
    /\ status' = "idle"
    /\ UNCHANGED <<kind, staged, trusted, phase, pin, future, cancelling>>

-----------------------------------------------------------------------------

Exchange == \E a \in Attempt : AwaitPin(a) \/ RunPairing(a)

Next ==
    \/ Prepare \/ Connect \/ Disconnect \/ PairOwn
    \/ OpenWindow \/ WindowAnswered
    \/ \E a \in Attempt : PairClient(a) \/ AskForPin(a)
    \/ SubmitPin \/ Exchange
    \/ CancelPairing \/ EndedPairing
    \/ UnpairClient

\* The library ends an exchange it began, and the provider's wait has a timeout; nobody need answer.
Fairness == WF_vars(Exchange) /\ WF_vars(EndedPairing)
Spec == Init /\ [][Next]_vars /\ Fairness

-----------------------------------------------------------------------------
(* Properties.                                                             *)

\* The dialog does not wait for good: whether or not a PIN is typed, the attempt is cancelled, the
\* speaker leaves, or a second attempt is started on top, an outcome lands (_run_pairing,
\* cancel_pairing).
AttemptsEnd == []<>(status \notin {"pending", "awaiting_pin"})
=============================================================================
