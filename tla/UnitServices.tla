---------------------------- MODULE UnitServices ----------------------------
(***************************************************************************)
(* What a unit's audio server does besides its routing and its followers,  *)
(* each service in behaviours of its own: they share no state with one     *)
(* another, so one specification goes through them one by one.  A          *)
(* behaviour is of the service that focus names -- the calibration tone,   *)
(* which this module extends, or one of those it instantiates -- while the *)
(* others rest.                                                            *)
(***************************************************************************)
EXTENDS CalibrationTone, Endpoints

\* Loudness
CONSTANTS Matching, Foreign, LouderBy, Trim, Ceiling, Following, MaxVolume, MaxMoves, Careful
\* SettingsStore
CONSTANTS Thread, Page, Room, MaxHand
\* CalibrationRecords
CONSTANTS Unit, Clock, MaxSaves
\* Discovery
CONSTANTS Me, Other, Stranger, MaxPeers, Ttl, MaxPeerChanges, MaxNoise
\* BluetoothCapture
CONSTANTS Phones, Handlers, Loops, MaxPhoneChanges

VARIABLES focus

VARIABLES sourceAsked, sourceRendered, sourceSources, sourceRunning, sourceProcs, sourceLoaded,
          sourceBackoff, sourceLastDesired, sourceWanted, sourceLeft, sourceCur, sourceDoomed,
          sourceThen, sourcePc, sourceStrays, sourceSpoiled, sourceTrouble
sourceVars == <<sourceAsked, sourceRendered, sourceSources, sourceRunning, sourceProcs,
                sourceLoaded, sourceBackoff, sourceLastDesired, sourceWanted, sourceLeft,
                sourceCur, sourceDoomed, sourceThen, sourcePc, sourceStrays, sourceSpoiled,
                sourceTrouble>>
Manage == INSTANCE SourceManager
    WITH asked <- sourceAsked, rendered <- sourceRendered, sources <- sourceSources,
         running <- sourceRunning, procs <- sourceProcs, loaded <- sourceLoaded,
         backoff <- sourceBackoff, lastDesired <- sourceLastDesired, wanted <- sourceWanted,
         left <- sourceLeft, cur <- sourceCur, doomed <- sourceDoomed, then <- sourceThen,
         pc <- sourcePc, strays <- sourceStrays, spoiled <- sourceSpoiled,
         trouble <- sourceTrouble

VARIABLES loudDeaf, loudLevel, loudReported, loudMembers, loudView, loudMode, loudTone,
          loudCommanded, loudUnconfirmed, loudTarget, loudIntent, loudNudge, loudMoves, loudHand
loudVars == <<loudDeaf, loudLevel, loudReported, loudMembers, loudView, loudMode, loudTone,
              loudCommanded, loudUnconfirmed, loudTarget, loudIntent, loudNudge, loudMoves,
              loudHand>>
Loud == INSTANCE Loudness
    WITH Speaker <- Matching, Louder <- LouderBy, deaf <- loudDeaf, level <- loudLevel,
         reported <- loudReported, members <- loudMembers, view <- loudView, mode <- loudMode,
         tone <- loudTone, commanded <- loudCommanded, unconfirmed <- loudUnconfirmed,
         target <- loudTarget, intent <- loudIntent, nudge <- loudNudge, moves <- loudMoves,
         hand <- loudHand

VARIABLES storeFile, storeContent, storeThread, storeCopy, storeTold, storeStrayed, storeHand
storeVars == <<storeFile, storeContent, storeThread, storeCopy, storeTold, storeStrayed,
               storeHand>>
Store == INSTANCE SettingsStore
    WITH Request <- Thread, file <- storeFile, content <- storeContent, thread <- storeThread,
         copy <- storeCopy, told <- storeTold, strayed <- storeStrayed, hand <- storeHand

VARIABLES recordTable, recordHeard, recordPage, recordSaved, recordSaves
recordVars == <<recordTable, recordHeard, recordPage, recordSaved, recordSaves>>
Table == INSTANCE CalibrationRecords
    WITH table <- recordTable, heard <- recordHeard, page <- recordPage, saved <- recordSaved,
         saves <- recordSaves

VARIABLES peerUp, peerState, peerAge, peerHeard, peerView, peerRefresh, peerChanges, peerNoise
peerVars == <<peerUp, peerState, peerAge, peerHeard, peerView, peerRefresh, peerChanges,
              peerNoise>>
Peer == INSTANCE Discovery
    WITH Unit <- Other, MaxChanges <- MaxPeerChanges, up <- peerUp, state <- peerState,
         age <- peerAge, heard <- peerHeard, view <- peerView, refresh <- peerRefresh,
         changes <- peerChanges, noise <- peerNoise

VARIABLES phoneAir, phoneSender, phoneConnected, phoneTask, phoneActive, phoneLoop, phoneLoops,
          phoneRecorder, phoneCapture, phoneStrayed, phoneChanges
phoneVars == <<phoneAir, phoneSender, phoneConnected, phoneTask, phoneActive, phoneLoop,
               phoneLoops, phoneRecorder, phoneCapture, phoneStrayed, phoneChanges>>
Phone == INSTANCE BluetoothCapture
    WITH Phone <- Phones, Task <- Handlers, Loop <- Loops, MaxChanges <- MaxPhoneChanges,
         air <- phoneAir, sender <- phoneSender, connected <- phoneConnected, task <- phoneTask,
         active <- phoneActive, loop <- phoneLoop, loops <- phoneLoops, recorder <- phoneRecorder,
         capture <- phoneCapture, strayed <- phoneStrayed, changes <- phoneChanges

\* Saves are numbered from 1, and what is not there is none of them.
ASSUME RecordAssumption == MaxSaves \in Nat /\ None \notin Table!Save

-----------------------------------------------------------------------------
\* A service that rests is in one of its initial states.
UnitInit ==
    /\ focus \in {"tone", "manage", "loud", "store", "record", "peer", "phone"}
    /\ Init /\ (focus # "tone" => level = [p \in Own |-> CHOOSE v \in Level : TRUE] /\ link = held)
    /\ Manage!Init /\ (focus # "manage" => sourceAsked = sourceRendered)
    /\ Loud!Init /\ (focus # "loud" => loudDeaf = {} /\ loudLevel = [p \in Matching |-> 1])
    /\ Store!Init /\ (focus # "store" => storeFile = "good" /\ storeContent = Store!Defaults)
    /\ Table!Init
    /\ Peer!Init /\ (focus # "peer" => peerUp = {})
    /\ Phone!Init /\ (focus # "phone" => phoneSender = {})

ToneNext ==
    /\ focus = "tone" /\ Next
    /\ UNCHANGED <<focus, sourceVars, loudVars, storeVars, recordVars, peerVars, phoneVars>>

ManageNext ==
    /\ focus = "manage" /\ Manage!Next
    /\ UNCHANGED <<focus, vars, loudVars, storeVars, recordVars, peerVars, phoneVars>>

LoudNext ==
    /\ focus = "loud" /\ Loud!Next
    /\ UNCHANGED <<focus, vars, sourceVars, storeVars, recordVars, peerVars, phoneVars>>

StoreNext ==
    /\ focus = "store" /\ Store!Next
    /\ UNCHANGED <<focus, vars, sourceVars, loudVars, recordVars, peerVars, phoneVars>>

RecordNext ==
    /\ focus = "record" /\ Table!Next
    /\ UNCHANGED <<focus, vars, sourceVars, loudVars, storeVars, peerVars, phoneVars>>

PeerNext ==
    /\ focus = "peer" /\ Peer!Next
    /\ UNCHANGED <<focus, vars, sourceVars, loudVars, storeVars, recordVars, phoneVars>>

PhoneNext ==
    /\ focus = "phone" /\ Phone!Next
    /\ UNCHANGED <<focus, vars, sourceVars, loudVars, storeVars, recordVars, peerVars>>

UnitNext ==
    \/ ToneNext \/ ManageNext \/ LoudNext \/ StoreNext \/ RecordNext \/ PeerNext \/ PhoneNext

unitVars == <<focus, vars, sourceVars, loudVars, storeVars, recordVars, peerVars, phoneVars>>

\* The fairness of each service, as its module states it.
UnitFairness ==
    /\ WF_vars(focus = "tone" /\ Controller)
    /\ WF_vars(focus = "tone" /\ Expires)
    /\ WF_sourceVars(focus = "manage" /\ Manage!Manager)
    /\ \A e \in Endpoint : WF_sourceVars(focus = "manage" /\ Manage!BackoffElapses(e))
    /\ \A e \in Endpoint, d \in Daemon : WF_sourceVars(focus = "manage" /\ Manage!StrayDies(e, d))
    /\ \A p \in Matching : WF_loudVars(focus = "loud" /\ Loud!Echo(p))
    /\ WF_loudVars(focus = "loud" /\ Loud!Polled)
    /\ WF_loudVars(focus = "loud" /\ Loud!Cycle({}))
    /\ \A u \in Other : WF_peerVars(focus = "peer" /\ Peer!Beacon(u))
    /\ WF_peerVars(focus = "peer" /\ Peer!Interval)
    /\ WF_peerVars(focus = "peer" /\ Peer!RefreshBegins("poll"))
    /\ \A r \in {"poll", "request"} : WF_peerVars(focus = "peer" /\ Peer!Runs(r))
    /\ \A t \in Handlers : WF_phoneVars(focus = "phone" /\ Phone!Handler(t))
    /\ \A l \in Loops : WF_phoneVars(focus = "phone" /\ Phone!Capture(l))

UnitSpec == UnitInit /\ [][UnitNext]_unitVars /\ UnitFairness

-----------------------------------------------------------------------------
\* Daemons run the configuration that their manager takes them to run (SourceManager).
ConfigInForce == Manage!ConfigInForce

\* No endpoint has a daemon twice (SourceManager).
OneOfEach == Manage!OneOfEach

\* What happens to an endpoint leaves the healthy daemons of the others alone (SourceManager).
OthersUntouched == Manage!OthersUntouched

\* What runs comes to be what the settings ask for (SourceManager).
FollowsSettings == Manage!FollowsSettings

\* A group that is matched settles: nobody's volume is changed for ever (Loudness).
Settles == <>[](focus = "loud" => Loud!Matched)

\* What the others are set to follows from a level set by hand (Loudness).
OnlyHandsLead == Loud!OnlyHandsLead

\* What a page was told is saved is kept (SettingsStore).
ToldIsKept == focus = "store" => Store!ToldIsKept

\* No unit prefers a calibration record to one that was made with it in view (CalibrationRecords).
LaterWins == focus = "record" => Table!LaterWins

\* The mesh view comes to show the units that run, as they are (Discovery).
ViewSettles == Peer!ViewSettles

\* A phone that sends comes to be recorded (BluetoothCapture).
CaptureSettles == Phone!CaptureSettles
=============================================================================
