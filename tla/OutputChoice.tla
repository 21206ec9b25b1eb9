---------------------------- MODULE OutputChoice ----------------------------
(***************************************************************************)
(* Which card a unit plays on: the choice in settings.json, the gate that  *)
(* decides at container start whether there is a player at all, the player *)
(* with its renderer and its watcher of the settings, the echo it leaves   *)
(* in its state file, and what the configuration API makes of the two      *)
(* (backend/scripts/output_gate.py, audio_devices.py, apis/audio_api.py,   *)
(* player_state.py, sendspin_player.py: AlsaRenderer._open, reopen, main). *)
(***************************************************************************)
EXTENDS Naturals

CONSTANTS Card,        \* the cards, as the stable ids that are stored
          Boot,        \* PLUM_DAC_DEVICE: another spelling, of one card
          BootCard,    \* the card it names
          NoOutput,    \* NO_OUTPUT
          Retries,     \* supervisord's startretries
          MaxTrouble,  \* bound: choices, cards that come and go, restarts, deaths
          None

VARIABLES choice,   \* audio.output.device in settings.json
          present,  \* the cards there are
          proc,     \* the player process
          tries,    \* starts that failed in a row
          renderer, \* the spec it has open, whether it has a stream, and the card that sounds
          asked,    \* the spec main() read
          watch,    \* watch_output_device: the spec it knows, and whether it did not apply
          switch,   \* reopen under way: to which spec, from which, and how far
          echo,     \* output_device in player_state.json
          missed,   \* history: main() and the watcher read different choices, and it has not acted since
          trouble

vars == <<choice, present, proc, tries, renderer, asked, watch, switch, echo, missed, trouble>>

Spec_   == Card \cup {Boot}
Closed  == [spec |-> None, stream |-> FALSE, card |-> None]
NoWatch == [knows |-> None, retry |-> FALSE]
NoSwitch == [to |-> None, from |-> None, at |-> "none"]

TypeOK ==
    /\ choice \in Card \cup {NoOutput, None}
    /\ present \subseteq Card
    /\ proc \in {"gated", "down", "starting", "opened", "up", "fatal"}
    /\ tries \in 0..Retries
    /\ renderer \in [spec : Spec_ \cup {None}, stream : BOOLEAN, card : Card \cup {None}]
    /\ asked \in Spec_ \cup {NoOutput, None}
    /\ watch \in [knows : Spec_ \cup {NoOutput, None}, retry : BOOLEAN]
    /\ switch \in [to : Spec_ \cup {None}, from : Spec_ \cup {None},
                   at : {"none", "stopped", "failed", "done"}]
    /\ echo \in Card \cup {NoOutput, None}
    /\ missed \in BOOLEAN
    /\ trouble \in 0..MaxTrouble

-----------------------------------------------------------------------------
(* Specs.                                                                  *)

\* configured_output_spec: what is stored, or what the unit boots with.
Configured == IF choice = None THEN Boot ELSE choice

\* find_device: the card a spec names, if it is there.
Named(spec) == IF spec = Boot THEN BootCard ELSE spec
FindDevice(spec) == IF spec # NoOutput /\ Named(spec) \in present THEN Named(spec) ELSE None

\* output_gate.decide and main, at container start: no player if none is wanted or no card is there;
\* "No output" is stored for the user only where nothing was.
GateAnswers(stored) ==
    LET none == stored = NoOutput \/ present = {}
    IN  /\ proc' = IF none THEN "gated" ELSE "down"
        /\ echo' = IF none THEN NoOutput ELSE echo
        /\ choice' = IF none /\ stored = None THEN NoOutput ELSE stored

Init ==
    /\ choice \in Card \cup {NoOutput, None}
    /\ present \in SUBSET Card
    /\ proc = "down" /\ tries = 0
    /\ renderer = Closed
    /\ asked = None
    /\ watch = NoWatch
    /\ switch = NoSwitch
    /\ echo = None
    /\ missed = FALSE
    /\ trouble = 0
    /\ choice # NoOutput /\ present # {}

-----------------------------------------------------------------------------
(* The player process.                                                     *)

\* AlsaRenderer._open, where the card is there.
Opened(spec) == [spec |-> spec, stream |-> TRUE, card |-> FindDevice(spec)]

\* main reads the spec; a player that finds "No output" leaves, as one that cannot open its card.
PlayerStarts ==
    /\ proc = "down"
    /\ asked' = Configured
    /\ proc' = "starting"
    /\ UNCHANGED <<choice, present, tries, renderer, watch, switch, echo, missed, trouble>>

PlayerOpens ==
    /\ proc = "starting"
    /\ IF FindDevice(asked) # None
         THEN /\ renderer' = Opened(asked)
              /\ proc' = "opened"
              /\ tries' = 0
         ELSE /\ proc' = IF tries = Retries THEN "fatal" ELSE "down"
              /\ tries' = IF tries = Retries THEN tries ELSE tries + 1
              /\ UNCHANGED renderer
    /\ UNCHANGED <<choice, present, asked, watch, switch, echo, missed, trouble>>

\* main, when everything is started: the echo, and the watcher, which reads the settings anew.
WatchBegins ==
    /\ proc = "opened"
    /\ proc' = "up"
    /\ echo' = IF renderer.spec = None THEN None ELSE Named(renderer.spec)
    /\ watch' = [knows |-> Configured, retry |-> FALSE]
    /\ missed' = (Configured # asked)
    /\ UNCHANGED <<choice, present, tries, renderer, asked, switch, trouble>>

\* watch_output_device and _apply_output: "No output" waits for a restart; an output that is open
\* already, or one to be opened in a thread, which begins by closing the stream.
Tick ==
    /\ proc = "up" /\ switch = NoSwitch
    /\ Configured # watch.knows \/ watch.retry
    /\ IF Configured = NoOutput
         THEN /\ watch' = [knows |-> NoOutput, retry |-> FALSE]
              /\ UNCHANGED <<renderer, switch>>
         ELSE IF renderer.spec = Configured /\ renderer.stream
         THEN /\ switch' = [to |-> Configured, from |-> renderer.spec, at |-> "done"]
              /\ UNCHANGED <<renderer, watch>>
         ELSE /\ switch' = [to |-> Configured, from |-> renderer.spec, at |-> "stopped"]
              /\ renderer' = [renderer EXCEPT !.stream = FALSE, !.card = None]
              /\ UNCHANGED watch
    /\ missed' = FALSE
    /\ UNCHANGED <<choice, present, proc, tries, asked, echo, trouble>>

\* reopen: the new card, or the one before it, or nothing; without one before, PortAudio's default.
Reopen ==
    /\ switch.at = "stopped"
    /\ \/ /\ FindDevice(switch.to) # None
          /\ renderer' = Opened(switch.to)
          /\ switch' = [switch EXCEPT !.at = "done"]
       \/ /\ FindDevice(switch.to) = None
          /\ switch' = [switch EXCEPT !.at = "failed"]
          /\ \/ /\ switch.from # None /\ FindDevice(switch.from) # None
                /\ renderer' = Opened(switch.from)
             \/ /\ switch.from # None /\ FindDevice(switch.from) = None
                /\ renderer' = Closed
             \/ /\ switch.from = None
                /\ \E c \in present \cup {None} :
                      renderer' = [spec |-> None, stream |-> c # None, card |-> c]
    /\ UNCHANGED <<choice, present, proc, tries, asked, watch, echo, missed, trouble>>

\* Mutant: the baseline moves on whether or not the output could be opened.
TickEndsRegardless ==
    /\ switch.at \in {"failed", "done"}
    /\ echo' = IF renderer.spec = None THEN None ELSE Named(renderer.spec)
    /\ watch' = [knows |-> switch.to, retry |-> FALSE]
    /\ switch' = NoSwitch
    /\ UNCHANGED <<choice, present, proc, tries, renderer, asked, missed, trouble>>

\* _apply_output echoes what is open; a failure is tried again at the next tick.
TickEnds ==
    /\ switch.at \in {"failed", "done"}
    /\ echo' = IF renderer.spec = None THEN None ELSE Named(renderer.spec)
    /\ watch' = [knows |-> switch.to, retry |-> switch.at = "failed"]
    /\ switch' = NoSwitch
    /\ UNCHANGED <<choice, present, proc, tries, renderer, asked, missed, trouble>>

-----------------------------------------------------------------------------
(* People, cards and the supervisor.                                       *)

Trouble == trouble < MaxTrouble /\ trouble' = trouble + 1

\* set_output_device: a card that is there, or none.
SetOutputDevice(c) ==
    /\ Trouble
    /\ c \in present \cup {NoOutput} /\ c # choice
    /\ choice' = c
    /\ UNCHANGED <<present, proc, tries, renderer, asked, watch, switch, echo, missed>>

CardGoes(c) ==
    /\ Trouble
    /\ present' = present \ {c} /\ c \in present
    /\ renderer' = IF renderer.card = c THEN [renderer EXCEPT !.card = None] ELSE renderer
    /\ UNCHANGED <<choice, proc, tries, asked, watch, switch, echo, missed>>

CardComes(c) ==
    /\ Trouble
    /\ c \notin present /\ present' = present \cup {c}
    /\ UNCHANGED <<choice, proc, tries, renderer, asked, watch, switch, echo, missed>>

NoPlayer == /\ renderer' = Closed
            /\ asked' = None /\ watch' = NoWatch /\ switch' = NoSwitch
            /\ missed' = FALSE

PlayerDies ==
    /\ Trouble
    /\ proc \in {"starting", "opened", "up"}
    /\ proc' = "down"
    /\ NoPlayer
    /\ UNCHANGED <<choice, present, tries, echo>>

ContainerStarts ==
    /\ Trouble
    /\ GateAnswers(choice)
    /\ NoPlayer
    /\ tries' = 0
    /\ UNCHANGED present

Player == PlayerStarts \/ PlayerOpens \/ WatchBegins \/ Tick \/ Reopen \/ TickEnds

Next ==
    \/ Player
    \/ \E c \in Card \cup {NoOutput} : SetOutputDevice(c)
    \/ \E c \in Card : CardGoes(c) \/ CardComes(c)
    \/ PlayerDies \/ ContainerStarts

\* The supervisor starts the player, and its threads and timers run.
Spec == Init /\ [][Next]_vars /\ WF_vars(Player)

-----------------------------------------------------------------------------
(* Properties.                                                             *)

\* audio_api._current_output.
Target == IF Configured = NoOutput THEN NoOutput
          ELSE IF FindDevice(Configured) # None THEN FindDevice(Configured) ELSE Configured
Pending         == echo # None /\ echo # Target
RestartRequired == echo # None /\ (Configured = NoOutput) # (echo = NoOutput)

\* Its card went from under the stream: the renderer does not notice, and neither does the watcher.
Dead == renderer.stream /\ renderer.card = None

\* Does the unit play where it was told to, and say so; or say what it needs?  A player that has
\* nothing open echoes nothing, and the API takes that for an answer still to come.
AsTold ==
    IF proc = "up" /\ Configured # NoOutput
      THEN FindDevice(Configured) # None /\ ~Dead =>
              renderer.card = Named(Configured) /\ ~Pending /\ ~RestartRequired
      ELSE echo # None => /\ RestartRequired = ((proc = "gated") # (Configured = NoOutput))
                          /\ Pending = RestartRequired

\* When people and cards have calmed down, a unit whose player runs plays on the card that was
\* chosen, if it is there, and its API says so; where a restart is needed it says that
\* (watch_output_device, reopen, output_gate.main, _current_output).  `missed`: a choice made while
\* the player starts is taken up at the next one only.
ChoiceIsHeard == <>[](proc \in {"up", "gated"} /\ ~missed => AsTold)
=============================================================================
