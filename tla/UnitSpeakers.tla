---------------------------- MODULE UnitSpeakers ----------------------------
(***************************************************************************)
(* How a unit deals with its speakers -- dialling, pairing, what is held   *)
(* for a speaker that is away, the player's output, rendering, relay and   *)
(* reports -- and what it shows of its phones, each in behaviours of its   *)
(* own: they share no state here, so one specification goes through them   *)
(* one by one.  A behaviour is of the part that focus names -- dialling,   *)
(* which this module extends, or one of those it instantiates -- while the *)
(* others rest.                                                            *)
(***************************************************************************)
EXTENDS Dialling, Integers

\* Pairing
CONSTANTS MaxAttempts, MaxPairDrops
\* HeldLevels
CONSTANTS Settable, MaxSets, MaxDrops, MaxTasks
\* OutputChoice
CONSTANTS Card, Boot, BootCard, NoOutput, Retries, MaxOutputTrouble
\* Renderer
CONSTANTS Block, Chunk, MaxFrames, Hard, Deadband, TrimEvery, Lead, MaxRenderTrouble
\* ConsumeRelay
CONSTANTS Gui, MaxRelayFrames, MaxRelayDrops, MaxVisits
\* PlayerReports
CONSTANTS Volume, Server, MaxEchoes, MaxReportTrouble
\* CoverArt, PhoneProgress
CONSTANTS Track, Unknown, MaxArtChanges, Length, MaxLineChanges

VARIABLES focus

VARIABLES pairKind, pairUp, pairPaired, pairStaged, pairTrusted, pairManaging, pairPhase, pairPin,
          pairFuture, pairStatus, pairCancelling, pairDrops
pairVars == <<pairKind, pairUp, pairPaired, pairStaged, pairTrusted, pairManaging, pairPhase,
              pairPin, pairFuture, pairStatus, pairCancelling, pairDrops>>
Pair == INSTANCE Pairing
    WITH MaxDrops <- MaxPairDrops, kind <- pairKind, up <- pairUp, paired <- pairPaired,
         staged <- pairStaged, trusted <- pairTrusted, managing <- pairManaging,
         phase <- pairPhase, pin <- pairPin, future <- pairFuture, status <- pairStatus,
         cancelling <- pairCancelling, drops <- pairDrops

VARIABLES heldLink, heldHeld, heldDelay, heldRole, heldTasks, heldWanted, heldRaced, heldSets,
          heldDrops
heldVars == <<heldLink, heldHeld, heldDelay, heldRole, heldTasks, heldWanted, heldRaced, heldSets,
              heldDrops>>
Held == INSTANCE HeldLevels
    WITH Level <- Settable, link <- heldLink,
         held <- heldHeld, delay <- heldDelay, role <- heldRole, tasks <- heldTasks,
         wanted <- heldWanted, raced <- heldRaced, sets <- heldSets, drops <- heldDrops

VARIABLES outputChoice, outputPresent, outputProc, outputTries, outputRenderer, outputAsked,
          outputWatch, outputSwitch, outputEcho, outputMissed, outputTrouble
outputVars == <<outputChoice, outputPresent, outputProc, outputTries, outputRenderer, outputAsked,
                outputWatch, outputSwitch, outputEcho, outputMissed, outputTrouble>>
Output == INSTANCE OutputChoice
    WITH MaxTrouble <- MaxOutputTrouble, choice <- outputChoice, present <- outputPresent, proc <- outputProc,
         tries <- outputTries, renderer <- outputRenderer, asked <- outputAsked,
         watch <- outputWatch, switch <- outputSwitch, echo <- outputEcho, missed <- outputMissed,
         trouble <- outputTrouble

VARIABLES renderChunks, renderBuffered, renderAligned, renderEma, renderTick, renderWork,
          renderNextDue, renderFresh, renderDrained, renderOff, renderTrouble
renderVars == <<renderChunks, renderBuffered, renderAligned, renderEma, renderTick, renderWork,
                renderNextDue, renderFresh, renderDrained, renderOff, renderTrouble>>
Render == INSTANCE Renderer
    WITH MaxTrouble <- MaxRenderTrouble, chunks <- renderChunks, buffered <- renderBuffered,
         aligned <- renderAligned, ema <- renderEma, tick <- renderTick, work <- renderWork,
         nextDue <- renderNextDue, fresh <- renderFresh, drained <- renderDrained,
         off <- renderOff, trouble <- renderTrouble

VARIABLES relayFrame, relayDirty, relayTurn, relaySending, relayLink, relayConns, relayBroken,
          relayWire, relayServing, relayProducer, relayCache, relayCasting, relayConsumers,
          relayBring, relayPage, relayMissed, relayOvertaken, relayVisits, relayDrops
relayVars == <<relayFrame, relayDirty, relayTurn, relaySending, relayLink, relayConns, relayBroken,
               relayWire, relayServing, relayProducer, relayCache, relayCasting, relayConsumers,
               relayBring, relayPage, relayMissed, relayOvertaken, relayVisits, relayDrops>>
Relay == INSTANCE ConsumeRelay
    WITH MaxFrames <- MaxRelayFrames, MaxDrops <- MaxRelayDrops, frame <- relayFrame,
         dirty <- relayDirty, turn <- relayTurn, sending <- relaySending, link <- relayLink,
         conns <- relayConns, broken <- relayBroken, wire <- relayWire, serving <- relayServing,
         producer <- relayProducer, cache <- relayCache, casting <- relayCasting,
         consumers <- relayConsumers, bring <- relayBring, page <- relayPage,
         missed <- relayMissed, overtaken <- relayOvertaken, visits <- relayVisits,
         drops <- relayDrops

VARIABLES reportLevel, reportCarried, reportFile, reportSaving, reportEchoes, reportSends,
          reportServer, reportBelieved, reportRendering, reportArriving, reportPaused,
          reportFlowing, reportStarved, reportDue, reportReported, reportLastPlaying, reportRelic,
          reportTrouble
reportVars == <<reportLevel, reportCarried, reportFile, reportSaving, reportEchoes, reportSends,
                reportServer, reportBelieved, reportRendering, reportArriving, reportPaused,
                reportFlowing, reportStarved, reportDue, reportReported, reportLastPlaying,
                reportRelic, reportTrouble>>
Report == INSTANCE PlayerReports
    WITH MaxTrouble <- MaxReportTrouble, level <- reportLevel,
         carried <- reportCarried, file <- reportFile, saving <- reportSaving,
         echoes <- reportEchoes, sends <- reportSends, server <- reportServer,
         believed <- reportBelieved, rendering <- reportRendering, arriving <- reportArriving,
         paused <- reportPaused, flowing <- reportFlowing, starved <- reportStarved,
         due <- reportDue, reported <- reportReported, lastPlaying <- reportLastPlaying,
         relic <- reportRelic, trouble <- reportTrouble

VARIABLES coverBound, coverCurrent, coverOffered, coverTrackKey, coverSession, coverReopening,
          coverLastKey, coverShownKey, coverClearing, coverFetch, coverArt, coverLate, coverChanges
coverVars == <<coverBound, coverCurrent, coverOffered, coverTrackKey, coverSession, coverReopening,
               coverLastKey, coverShownKey, coverClearing, coverFetch, coverArt, coverLate,
               coverChanges>>
Cover == INSTANCE CoverArt
    WITH MaxChanges <- MaxArtChanges, bound <- coverBound,
         current <- coverCurrent, offered <- coverOffered, trackKey <- coverTrackKey,
         session <- coverSession, reopening <- coverReopening, lastKey <- coverLastKey,
         shownKey <- coverShownKey, clearing <- coverClearing, fetch <- coverFetch,
         art <- coverArt, late <- coverLate, changes <- coverChanges

VARIABLES linePhone, lineOwed, lineBound, lineSeed, lineOurs, lineReads, lineShown, lineAstray,
          lineChanges
lineVars == <<linePhone, lineOwed, lineBound, lineSeed, lineOurs, lineReads, lineShown,
              lineAstray, lineChanges>>
Line == INSTANCE PhoneProgress
    WITH MaxChanges <- MaxLineChanges, phone <- linePhone,
         owed <- lineOwed, bound <- lineBound, seed <- lineSeed, ours <- lineOurs,
         reads <- lineReads, shown <- lineShown, astray <- lineAstray, changes <- lineChanges

\* What is not set is no level, and what is not due has no time; blocks, chunks, the buffer and
\* what is too far off are numbers of frames.
ASSUME HeldAssumption == None \notin Settable
ASSUME RenderAssumption ==
    Lead \subseteq Int /\ None \notin Int /\ {Block, Chunk, MaxFrames, Hard, Deadband} \subseteq Nat

-----------------------------------------------------------------------------
\* A service that rests is in one of its initial states.
UnitInit ==
    /\ focus \in {"dialling", "pair", "held", "output", "render", "relay", "report", "cover",
                  "line"}
    /\ Init /\ (focus # "dialling" => known)
    /\ Pair!Init /\ (focus # "pair" => pairKind = "own" /\ pairTrusted)
    /\ Held!Init
    /\ Output!Init /\ (focus # "output" => outputChoice = None /\ outputPresent = {BootCard})
    /\ Render!Init
    /\ Relay!Init
    /\ Report!Init /\ (focus # "report" => reportLevel = [volume |-> CHOOSE v \in Volume : TRUE, muted |-> FALSE])
    /\ Cover!Init /\ (focus # "cover" => coverCurrent = CHOOSE k \in Track : TRUE)
    /\ Line!Init /\ (focus # "line" => linePhone.track = (CHOOSE k \in Track : TRUE) /\ ~linePhone.playing)

DiallingNext ==
    /\ focus = "dialling" /\ Next
    /\ UNCHANGED <<focus, pairVars, heldVars, outputVars, renderVars, relayVars, reportVars,
                   coverVars, lineVars>>

PairNext ==
    /\ focus = "pair" /\ Pair!Next
    /\ UNCHANGED <<focus, vars, heldVars, outputVars, renderVars, relayVars, reportVars, coverVars,
                   lineVars>>

HeldNext ==
    /\ focus = "held" /\ Held!Next
    /\ UNCHANGED <<focus, vars, pairVars, outputVars, renderVars, relayVars, reportVars, coverVars,
                   lineVars>>

OutputNext ==
    /\ focus = "output" /\ Output!Next
    /\ UNCHANGED <<focus, vars, pairVars, heldVars, renderVars, relayVars, reportVars, coverVars,
                   lineVars>>

RenderNext ==
    /\ focus = "render" /\ Render!Next
    /\ UNCHANGED <<focus, vars, pairVars, heldVars, outputVars, relayVars, reportVars, coverVars,
                   lineVars>>

RelayNext ==
    /\ focus = "relay" /\ Relay!Next
    /\ UNCHANGED <<focus, vars, pairVars, heldVars, outputVars, renderVars, reportVars, coverVars,
                   lineVars>>

ReportNext ==
    /\ focus = "report" /\ Report!Next
    /\ UNCHANGED <<focus, vars, pairVars, heldVars, outputVars, renderVars, relayVars, coverVars,
                   lineVars>>

CoverNext ==
    /\ focus = "cover" /\ Cover!Next
    /\ UNCHANGED <<focus, vars, pairVars, heldVars, outputVars, renderVars, relayVars, reportVars,
                   lineVars>>

LineNext ==
    /\ focus = "line" /\ Line!Next
    /\ UNCHANGED <<focus, vars, pairVars, heldVars, outputVars, renderVars, relayVars, reportVars,
                   coverVars>>

UnitNext == DiallingNext \/ PairNext \/ HeldNext \/ OutputNext \/ RenderNext \/ RelayNext
            \/ ReportNext \/ CoverNext \/ LineNext

unitVars == <<focus, vars, pairVars, heldVars, outputVars, renderVars, relayVars, reportVars,
              coverVars, lineVars>>

\* The fairness of each service, as its module states it.
UnitFairness ==
    /\ \A c \in Caller : WF_vars(focus = "dialling" /\ Goes(c))
    /\ \A c \in Caller : WF_vars(focus = "dialling" /\ Stopped(c))
    /\ WF_pairVars(focus = "pair" /\ Pair!Exchange)
    /\ WF_pairVars(focus = "pair" /\ Pair!EndedPairing)
    /\ WF_outputVars(focus = "output" /\ Output!Player)
    /\ WF_relayVars(focus = "relay" /\ (Relay!SendStarts \/ Relay!SendEnds))
    /\ WF_relayVars(focus = "relay" /\ (Relay!Connects \/ Relay!Notices))
    /\ \A c \in Relay!Conn : WF_relayVars(focus = "relay" /\ Relay!Handler(c))
    /\ \A g \in Gui : WF_relayVars(focus = "relay" /\ Relay!BringsUp(g))
    /\ WF_reportVars(focus = "report" /\ Report!Saved)
    /\ WF_reportVars(focus = "report" /\ Report!EchoBegins)
    /\ WF_reportVars(focus = "report" /\ Report!HealthPolled)
    /\ WF_reportVars(focus = "report" /\ Report!SendEnds)
    /\ WF_reportVars(focus = "report" /\ Report!Stalls)
    /\ WF_reportVars(focus = "report" /\ Report!Interval)
    /\ WF_coverVars(focus = "cover" /\ Cover!Reset)
    /\ WF_coverVars(focus = "cover" /\ (Cover!Prepare \/ Cover!GivesUp))
    /\ WF_coverVars(focus = "cover" /\ Cover!RefreshArt)
    /\ WF_coverVars(focus = "cover" /\ Cover!Asks)
    /\ WF_coverVars(focus = "cover" /\ Cover!Lands)
    /\ WF_coverVars(focus = "cover" /\ Cover!ClearAfterGrace)
    /\ WF_lineVars(focus = "line" /\ Line!Signalled)
    /\ WF_lineVars(focus = "line" /\ Line!ReanchorNow)
    /\ WF_lineVars(focus = "line" /\ Line!PositionRead)
    /\ WF_lineVars(focus = "line" /\ Line!TickOnce)
    /\ WF_lineVars(focus = "line" /\ Line!Seeded)

UnitSpec == UnitInit /\ [][UnitNext]_unitVars /\ UnitFairness

-----------------------------------------------------------------------------
\* Every pairing attempt ends (Pairing).
AttemptsEnd == Pair!AttemptsEnd

\* A level or a delay set while a speaker is away is what it plays at once it is ready (HeldLevels).
HeldForIt == focus = "held" => Held!HeldForIt

\* The card chosen last is the one that sounds (OutputChoice).
ChoiceIsHeard == Output!ChoiceIsHeard

\* A stream starts in phase, and every frame is accounted for (Renderer).
InPhase == focus = "render" => Render!InPhase

\* A page comes to show the player's last frames (ConsumeRelay).
PagesSettle == Relay!PagesSettle

\* What a player says of itself comes to be true (PlayerReports).
SaidIsSo == Report!SaidIsSo

\* The cover shown comes to be that of the track, or none (CoverArt).
ArtSettles == Cover!ArtSettles

\* The timeline comes to be where the phone is (PhoneProgress).
TimelineSettles == Line!TimelineSettles
=============================================================================
