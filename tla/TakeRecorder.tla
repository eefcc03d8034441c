---------------------------- MODULE TakeRecorder ----------------------------
(***************************************************************************)
(* The player and the recorder of the engine on the main thread: the       *)
(* commands of the user, those of the other members of the room, the echo  *)
(* of a stop, the sessions that open the microphone and take it back, and  *)
(* the audio thread that answers them.                                     *)
(*                                                                         *)
(* Everything the main thread keeps is the record deck; its operators are  *)
(* the functions of the code, and Run commits what one of them did and     *)
(* posts its messages.  A continuation of a resolved promise runs before   *)
(* the next event: events wait for Settled.  The audio thread handles a    *)
(* message at once and its answers take their time.                        *)
(***************************************************************************)
EXTENDS Naturals, Sequences, SequencesExt

CONSTANTS
    SessionCount,   \* recording sessions, at most
    CallCount,      \* commands of the user and of the decoder, at most
    MishapCount     \* failures, seeks, ends of the song and commands of others, at most

ASSUME DeckAssumption ==
    SessionCount \in Nat /\ CallCount \in Nat /\ MishapCount \in Nat

VARIABLES
    deck,   \* the main thread
    box     \* the audio thread and its answers

deckVars == <<deck, box>>

Sessions == 1..SessionCount
Calls == 1..CallCount
Nobody == <<"nobody", 0>>
NoCall == [kind |-> "none", at |-> "done", session |-> 0, was |-> FALSE]
Unmade == [init |-> "none", halt |-> "none", back |-> "none", mic |-> FALSE,
           play |-> FALSE, keep |-> FALSE, stopRequested |-> FALSE,
           streamed |-> FALSE, streamClosed |-> FALSE, subscribed |-> FALSE, waits |-> 0]

DeckInit ==
    /\ deck = [playing |-> FALSE, recording |-> FALSE, pending |-> FALSE,
               slave |-> FALSE, revision |-> 0, current |-> 0,
               waiter |-> [revision |-> 0, owner |-> Nobody],
               flusher |-> Nobody, promise |-> 0, finishes |-> 0,
               takes |-> [s \in Sessions |-> Unmade],
               calls |-> [c \in Calls |-> NoCall],
               made |-> 0, asked |-> 0, echoes |-> 0,
               mishaps |-> 0, out |-> <<>>]
    /\ box = [playing |-> FALSE, revision |-> 0, stream |-> 0,
              draining |-> FALSE, answers |-> <<>>]

-----------------------------------------------------------------------------
(* The audio thread.                                                       *)

SetPlayingAnswer(b, jump) ==
    [b EXCEPT !.answers = Append(@, [kind |-> "setPlaying", playing |-> b.playing,
                                     revision |-> b.revision, jump |-> jump])]

Drained(b) ==
    [b EXCEPT !.stream = 0, !.draining = FALSE,
              !.answers = Append(@, [kind |-> "flushed"])]

\* A new take and a seek let go of the drain that is still under way.
BoxHandles(b, message) ==
    LET moved == [b EXCEPT !.revision = message.revision] IN
    CASE message.kind = "play" ->
           SetPlayingAnswer([moved EXCEPT !.playing = TRUE], FALSE)
      [] message.kind = "stop" ->
           SetPlayingAnswer([moved EXCEPT !.playing = FALSE], FALSE)
      [] message.kind = "seek" ->
           IF b.draining THEN Drained(moved) ELSE moved
      [] message.kind = "record" ->
           [(IF b.draining THEN Drained(moved) ELSE moved) EXCEPT !.stream = message.take]
      [] message.kind = "flush" ->
           IF b.stream = 0 THEN Drained(b) ELSE [b EXCEPT !.draining = TRUE]

Run(d) ==
    /\ deck' = [d EXCEPT !.out = <<>>]
    /\ box' = FoldLeft(BoxHandles, box, d.out)

Posted(d, kind, take) ==
    [d EXCEPT !.out = Append(@, [kind |-> kind, revision |-> d.revision, take |-> take])]

-----------------------------------------------------------------------------
(* The recorder.                                                           *)

RequestStop(d, s, keep) ==
    IF d.takes[s].halt # "none" THEN d
    ELSE [d EXCEPT !.takes[s].halt = "init", !.takes[s].keep = keep,
                   !.takes[s].stopRequested = TRUE]

\* The session that records watches the player: when it stops, so does it.
SetPlaying(d, playing) ==
    LET set == [d EXCEPT !.playing = playing] IN
    IF d.playing /\ ~playing /\ d.current # 0 /\ d.takes[d.current].subscribed
    THEN RequestStop(set, d.current, FALSE) ELSE set

\* Mutant: the microphone is not given back.
CleanedUpOpen(d, s) ==
    [d EXCEPT !.takes[s].subscribed = FALSE, !.current = IF @ = s THEN 0 ELSE @]

CleanedUp(d, s) ==
    [d EXCEPT !.takes[s].mic = FALSE, !.takes[s].subscribed = FALSE,
              !.current = IF @ = s THEN 0 ELSE @]

\* closeDecoderStream up to its first await; who is the stop of the session
\* or what a failed session leaves behind.
CloseStream(d, s, who) ==
    IF ~d.takes[s].streamed \/ d.takes[s].streamClosed
    THEN [d EXCEPT !.takes[s][who] = "closed"]
    ELSE Posted([d EXCEPT !.takes[s].streamClosed = TRUE,
                          !.takes[s][who] = "flush", !.flusher = <<who, s>>], "flush", s)

\* Mutant: the stop waits for a stream though nobody holds one.
FinishStreamAlways(d, s, who) ==
    [d EXCEPT !.takes[s][who] = "finish", !.takes[s].waits = d.promise,
              !.finishes = @ + 1]

\* The flush is answered: the decoder is asked to finish the stream whose
\* promise is held, and nobody is when none is held.
FinishStream(d, s, who) ==
    IF d.promise = 0 THEN [d EXCEPT !.takes[s][who] = "closed"]
    ELSE [d EXCEPT !.takes[s][who] = "finish", !.takes[s].waits = d.promise,
                   !.finishes = @ + 1]

FailSession(d, s) ==
    [CleanedUp(CloseStream(d, s, "back"), s) EXCEPT
        !.takes[s].init = "failed", !.recording = FALSE]

\* enginePlayback.stop up to its await: the waiter before it is forgotten.
StopPlayback(d, owner) ==
    Posted([d EXCEPT !.waiter = [revision |-> d.revision, owner |-> owner]], "stop", 0)

HaltSettled(d, s) ==
    [CleanedUp(d, s) EXCEPT !.takes[s].halt = "done", !.recording = FALSE]

\* One continuation of the stop of session s.
HaltGoesOn(s) ==
    LET take == deck.takes[s] IN
    /\ \/ /\ take.halt = "init" /\ take.init \in {"ok", "failed"}
          /\ Run(IF deck.current # s THEN HaltSettled(deck, s)
                 ELSE IF take.keep THEN CloseStream(deck, s, "halt")
                 ELSE StopPlayback([deck EXCEPT !.takes[s].halt = "stopping"], <<"halt", s>>))
       \/ /\ take.halt = "stopped"
          /\ Run(CloseStream(deck, s, "halt"))
       \/ /\ take.halt = "closed"
          /\ Run(HaltSettled(IF take.streamed /\ ~take.keep
                             THEN Posted(deck, "seek", 0) ELSE deck, s))

-----------------------------------------------------------------------------
(* The commands.                                                           *)

\* A command that returns at its guard leaves no trace and is not a step.
Ask(kind, at, s, d) ==
    [d EXCEPT !.asked = @ + 1, !.calls[d.asked + 1] =
        [kind |-> kind, at |-> at, session |-> s, was |-> deck.playing]]

\* engineRecorder.stop and finish: without a session only the flag is reset.
StopRecorder(d, kind, keep) ==
    IF d.current = 0 THEN Ask(kind, "halted", 0, [d EXCEPT !.recording = FALSE])
    ELSE RequestStop(Ask(kind, "halting", d.current, d), d.current, keep)

Play ==
    /\ ~deck.pending /\ ~deck.playing /\ ~deck.slave
    /\ Run(Ask("play", "waking", 0, [deck EXCEPT !.playing = TRUE, !.pending = TRUE]))

Stop(d) ==
    LET set == SetPlaying([d EXCEPT !.slave = FALSE, !.pending = TRUE], FALSE) IN
    IF d.recording THEN StopRecorder(set, "stop", FALSE)
    ELSE StopPlayback(Ask("stop", "stopping", 0, set), <<"call", d.asked + 1>>)

\* A second press joins the session that is being prepared or stopped.
Record ==
    /\ ~deck.pending /\ ~deck.recording /\ ~deck.slave
    /\ LET set == [deck EXCEPT !.recording = TRUE, !.playing = TRUE, !.pending = TRUE]
           s == deck.made + 1
       IN IF deck.current # 0 THEN Run(Ask("record", "joining", deck.current, set))
          ELSE /\ s \in Sessions
               /\ Run(Ask("record", "joining", s,
                    [set EXCEPT !.made = s, !.current = s, !.takes[s].init = "waking",
                                !.takes[s].play = ~deck.playing]))

StopRecording ==
    /\ ~deck.pending /\ deck.recording /\ ~deck.slave
    /\ Run(StopRecorder([deck EXCEPT !.pending = TRUE], "finish", TRUE))

Done(d, c) == [d EXCEPT !.pending = FALSE, !.calls[c] = NoCall]
SendStop(d) == [d EXCEPT !.echoes = @ + 1]

\* The last part of a command, once what it waits for has come.
CallGoesOn(c) ==
    LET call == deck.calls[c]
        take == deck.takes[call.session]
        halted == call.at = "halted"
                    \/ (call.at = "halting" /\ take.halt = "done")
    IN \/ /\ call.kind = "record" /\ call.at = "joining" /\ take.init = "ok"
          /\ Run(Done(deck, c))
       \/ /\ call.kind = "record" /\ call.at = "joining" /\ take.init = "failed"
          /\ LET told == IF ~deck.slave /\ ~call.was THEN SendStop(deck) ELSE deck
                 reset == [told EXCEPT !.recording = FALSE]
             IN Run(Done(IF call.was THEN reset ELSE SetPlaying(reset, FALSE), c))
       \/ call.kind = "stop" /\ (halted \/ call.at = "answered") /\ Run(Done(SendStop(deck), c))
       \/ call.kind = "finish" /\ halted /\ Run(Done(deck, c))
       \/ call.kind = "play" /\ call.at = "answered" /\ Run(Done(deck, c))
       \/ /\ call.kind = "remotePlay" /\ (halted \/ call.at = "answered")
          /\ Run([Done(SetPlaying(deck, TRUE), c) EXCEPT !.slave = TRUE, !.recording = FALSE])

-----------------------------------------------------------------------------
(* The start of a session.                                                 *)

Ends(d, s) == [d EXCEPT !.takes[s].init = "ok"]
Continues(d, s, at) ==
    IF d.takes[s].stopRequested THEN Ends(d, s) ELSE [d EXCEPT !.takes[s].init = at]

\* The gain is connected, the decoder gets a stream with a new promise and the
\* audio thread the other end of it; only then does the session watch playing.
Connected(d, s) ==
    LET streaming == Posted([d EXCEPT !.takes[s].streamed = TRUE, !.promise = s],
                            "record", s)
    IN [streaming EXCEPT !.takes[s].subscribed = TRUE,
                         !.takes[s].init = IF d.takes[s].play THEN "starting" ELSE "ok"]

InitGoesOn(s) ==
    LET take == deck.takes[s] IN
    \/ /\ take.init = "waking"
       /\ Run(Continues(deck, s, "opening"))
    \/ /\ take.init = "opening"
       /\ Run(Continues([deck EXCEPT !.takes[s].mic = TRUE], s, "measuring"))
    \/ /\ take.init = "measuring"
       /\ Run(IF take.stopRequested THEN Ends(deck, s) ELSE Connected(deck, s))
    \/ /\ take.init = "starting"
       /\ Run(Posted([deck EXCEPT !.takes[s].init = "playing",
                                  !.waiter = [revision |-> deck.revision,
                                              owner |-> <<"init", s>>]], "play", 0))

\* The output does not wake or the microphone does not open.
InitFails(s) ==
    /\ deck.mishaps < MishapCount
    /\ deck.takes[s].init \in {"waking", "opening", "measuring", "starting"}
    /\ Run(FailSession([deck EXCEPT !.mishaps = @ + 1], s))

\* The output is awake: the command of a play reaches the audio thread.
Woken(c) ==
    /\ deck.calls[c].at = "waking"
    /\ Run(Posted([deck EXCEPT !.calls[c].at = "waiting",
                               !.waiter = [revision |-> deck.revision,
                                           owner |-> <<"call", c>>]], "play", 0))

WakeFails(c) ==
    /\ deck.mishaps < MishapCount
    /\ deck.calls[c].at = "waking"
    /\ Run(Done(SetPlaying(SendStop([deck EXCEPT !.mishaps = @ + 1]), FALSE), c))

-----------------------------------------------------------------------------
(* What arrives on the main thread.                                        *)

Answered(d, owner) ==
    CASE owner[1] = "call" -> [d EXCEPT !.calls[owner[2]].at = "answered"]
      [] owner[1] = "halt" -> [d EXCEPT !.takes[owner[2]].halt = "stopped"]
      [] owner[1] = "init" -> [d EXCEPT !.takes[owner[2]].init = "ok"]
      [] OTHER -> d

HearPlaying(answer) ==
    LET current == deck.revision = answer.revision
        set == IF current THEN SetPlaying(deck, answer.playing) ELSE deck
        jumped == [set EXCEPT !.revision = @ + 1]
        ended == IF ~current \/ ~answer.jump THEN set
                 ELSE IF answer.playing \/ set.slave THEN jumped ELSE SendStop(jumped)
    IN IF deck.waiter.owner # Nobody /\ deck.waiter.revision = answer.revision
       THEN Answered([ended EXCEPT !.waiter.owner = Nobody], deck.waiter.owner)
       ELSE ended

HearFlushed ==
    IF deck.flusher = Nobody THEN deck
    ELSE FinishStream([deck EXCEPT !.flusher = Nobody], deck.flusher[2], deck.flusher[1])

HearBox ==
    /\ box.answers # <<>>
    /\ LET answer == Head(box.answers)
           heard == IF answer.kind = "flushed" THEN HearFlushed ELSE HearPlaying(answer)
       IN /\ deck' = [heard EXCEPT !.out = <<>>]
          /\ box' = [box EXCEPT !.answers = Tail(@)]

\* What waits for the promise goes on once it is resolved.
Resumed(take, promise) ==
    LET resumed(at) == IF at = "finish" THEN "closed" ELSE at IN
    IF promise # 0 /\ take.waits = promise
    THEN [take EXCEPT !.halt = resumed(@), !.back = resumed(@), !.waits = 0]
    ELSE take

\* The answer of the decoder resolves the promise that is held, whichever it is.
Resolves(d) ==
    [d EXCEPT !.promise = 0,
              !.takes = [s \in Sessions |-> Resumed(d.takes[s], d.promise)]]

DecoderAnswers ==
    /\ deck.finishes > 0
    /\ Run(Resolves([deck EXCEPT !.finishes = @ - 1]))

\* The stream of the decoder fails: the player stops, unless a command is on.
DecoderFails ==
    /\ deck.mishaps < MishapCount /\ deck.promise # 0
    /\ deck.asked < CallCount
    /\ LET told == Resolves([deck EXCEPT !.mishaps = @ + 1])
       IN Run(IF told.pending THEN told ELSE Stop(told))

\* A stop of the room, that of this member too: everybody is told.
ApplyRemoteStop(d) ==
    LET was == d.recording
        set == SetPlaying([d EXCEPT !.slave = FALSE, !.recording = FALSE,
                                    !.pending = FALSE], FALSE)
    IN IF ~was THEN StopPlayback(set, Nobody)
       ELSE IF set.current = 0 THEN set ELSE RequestStop(set, set.current, FALSE)

EchoArrives ==
    /\ deck.echoes > 0
    /\ Run(ApplyRemoteStop([deck EXCEPT !.echoes = @ - 1]))

\* Another member plays: this one stops what it does and follows.
OtherPlays ==
    /\ deck.mishaps < MishapCount /\ deck.asked < CallCount
    /\ LET d == [deck EXCEPT !.mishaps = @ + 1] IN
       Run(IF d.recording THEN StopRecorder(d, "remotePlay", FALSE)
           ELSE IF d.playing
           THEN StopPlayback(Ask("remotePlay", "stopping", 0, d), <<"call", d.asked + 1>>)
           ELSE [SetPlaying(d, TRUE) EXCEPT !.slave = TRUE, !.pending = FALSE])

OtherStops ==
    /\ deck.mishaps < MishapCount
    /\ Run(ApplyRemoteStop([deck EXCEPT !.mishaps = @ + 1]))

Seek ==
    /\ deck.mishaps < MishapCount
    /\ Run(Posted([deck EXCEPT !.mishaps = @ + 1, !.revision = @ + 1], "seek", 0))

\* The audio thread on its own: the song ends, or the drained take is full.
SongEnds ==
    /\ deck.mishaps < MishapCount /\ box.playing
    /\ box' = SetPlayingAnswer([box EXCEPT !.playing = FALSE], TRUE)
    /\ deck' = [deck EXCEPT !.mishaps = @ + 1]

Drain ==
    /\ box.draining
    /\ box' = Drained(box)
    /\ UNCHANGED deck

-----------------------------------------------------------------------------
(* Promises resolve before the next event is heard.                        *)

HaltReady(s) ==
    \/ deck.takes[s].halt = "init" /\ deck.takes[s].init \in {"ok", "failed"}
    \/ deck.takes[s].halt \in {"stopped", "closed"}

CallReady(c) ==
    LET call == deck.calls[c] IN
    \/ call.at \in {"halted", "answered"}
    \/ call.at = "halting" /\ deck.takes[call.session].halt = "done"
    \/ call.at = "joining" /\ deck.takes[call.session].init \in {"ok", "failed"}

Settled == (\A s \in Sessions : ~HaltReady(s)) /\ (\A c \in Calls : ~CallReady(c))

GoesOn == (\E s \in Sessions : HaltGoesOn(s)) \/ (\E c \in Calls : CallGoesOn(c))

Command ==
    /\ Settled /\ deck.asked < CallCount
    /\ \/ Play
       \/ ~deck.pending /\ Run(Stop(deck))
       \/ Record
       \/ StopRecording

Event ==
    /\ Settled
    /\ \/ \E s \in Sessions : InitGoesOn(s)
       \/ \E c \in Calls : Woken(c)
       \/ HearBox
       \/ DecoderAnswers
       \/ EchoArrives

Mishap ==
    /\ Settled
    /\ \/ \E s \in Sessions : InitFails(s)
       \/ \E c \in Calls : WakeFails(c)
       \/ DecoderFails
       \/ OtherPlays
       \/ OtherStops
       \/ Seek
       \/ SongEnds

DeckNext == GoesOn \/ Command \/ Event \/ Mishap \/ Drain
DeckSystem == GoesOn \/ Event \/ Drain
DeckSpec == DeckInit /\ [][DeckNext]_deckVars /\ WF_deckVars(DeckSystem)

-----------------------------------------------------------------------------
\* The microphone is open for the session that is on and for no other, and
\* what the interface shows as recording here has a session behind it, however
\* stops, failures and the commands of others met (recorder.ts cleanUp,
\* requestSessionStop and failSession, player/index.ts applyRemoteStop).
MicrophoneHeld ==
    /\ \A s \in Sessions : deck.takes[s].mic => deck.current = s
    /\ deck.recording => deck.current # 0

\* The player keeps one waiter, one flush and one stream: what a later command
\* put in their place is not answered any more.
Overtaken(s) ==
    LET take == deck.takes[s] IN
    \/ take.init = "playing" /\ deck.waiter.owner # <<"init", s>>
    \/ take.halt = "stopping" /\ deck.waiter.owner # <<"halt", s>>
    \/ take.halt = "flush" /\ deck.flusher # <<"halt", s>>
    \/ take.halt = "finish" /\ deck.promise # take.waits

\* A command holds the player, or a session is being stopped.
CommandAwaited ==
    /\ deck.pending \/ \E s \in Sessions : deck.takes[s].halt \notin {"none", "done"}
    /\ ~\E s \in Sessions : Overtaken(s)
=============================================================================
