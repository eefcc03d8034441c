------------------------------ MODULE HeardTake ------------------------------
(***************************************************************************)
(* The audio thread while a take is recorded: it renders the song, knows   *)
(* which frame of it is heard after the latency of the output, and writes  *)
(* what the microphone brings after the latency of the input to the place  *)
(* in the song that was heard when it was sung.  The main thread plays,    *)
(* stops, seeks, holds, opens and closes a loop and drains the take.       *)
(*                                                                         *)
(* A quantum is one frame and the tempo is one.  The singer repeats what   *)
(* is heard: a sample is the frame of the song that was rendered a round   *)
(* trip before, or Silence.                                                *)
(***************************************************************************)
EXTENDS Integers, Sequences, FiniteSets

CONSTANTS
    SongLength,     \* frames of the song
    FromFrame,      \* the loop: its first frame
    ToFrame,        \* and the one after its last
    OutputLatency,  \* frames from the rendering to the ear
    InputLatency,   \* frames from the voice to the audio thread
    ChunkLength,    \* samples that are posted together
    CommandCount    \* commands of the user, at most

ASSUME HeardAssumption ==
    /\ {SongLength, FromFrame, ToFrame, OutputLatency, InputLatency, ChunkLength,
        CommandCount} \subseteq Nat
    \* A loop is a second at least, which is many quanta (minLoopSeconds in loopRange.ts).
    /\ FromFrame + 1 < ToFrame /\ ToFrame < SongLength
    /\ OutputLatency > 0 /\ InputLatency > 0 /\ ChunkLength > 0

VARIABLES
    player,     \* the player of the audio thread
    recorder,   \* the recording of the audio thread
    air,        \* the quanta of the last round trip: what each rendered, whether
                \* it was held, and whether its input was dropped meanwhile
    booth,      \* the main thread
    take        \* what was stored of the take, what was to be, and history:
                \* whether the song stood still, how much of that is yet to be
                \* heard when the run begins, whether the loop was closed

heardVars == <<player, recorder, air, booth, take>>

RoundTrip == OutputLatency + InputLatency
Silence == SongLength
LoopLength == ToFrame - FromFrame
Endless == -1                   \* no end of a run
NoDrain == RoundTrip + 1

HeardInit ==
    /\ player \in [playing : {FALSE}, frozen : {FALSE}, range : {"none"},
                   known : BOOLEAN, frame : {0}, render : {0}, began : {0},
                   rendered : {<<>>}]
    /\ recorder = [active |-> FALSE, chunk |-> <<>>, start |-> 0, written |-> 0,
                   posted |-> 0, skip |-> 0, leadIn |-> 0, pass |-> FALSE, shift |-> 0,
                   state |-> "waiting", end |-> Endless, drain |-> NoDrain]
    /\ air = <<>>
    /\ booth = [phase |-> "none", commands |-> 0]
    /\ take = [stored |-> {}, due |-> {}, complete |-> FALSE, still |-> FALSE,
               unheard |-> 0, try |-> FALSE, closed |-> FALSE, crossed |-> FALSE,
               ended |-> FALSE]

-----------------------------------------------------------------------------
(* The heard position.                                                     *)

Latency(p, frames) == IF p.known THEN frames ELSE 0

SongFrame(p, frame) ==
    IF p.range = "cycle" /\ frame >= ToFrame THEN FromFrame + ((frame - FromFrame) % LoopLength)
    ELSE frame

\* Only as much of the history is kept as the latency of the output looks back.
Refreshed(p) ==
    [p EXCEPT !.frame =
        IF p.rendered = <<>> THEN p.began
        ELSE IF ~p.known THEN SongFrame(p, p.render)
        ELSE IF Len(p.rendered) < OutputLatency THEN p.began
        ELSE SongFrame(p, Head(p.rendered))]

Pushed(seq, item, count) ==
    IF Len(seq) < count THEN Append(seq, item) ELSE Append(Tail(seq), item)

Begin(p, frame) ==
    [p EXCEPT !.frame = frame, !.render = frame, !.began = frame, !.rendered = <<>>]

Hold(p) == Refreshed([p EXCEPT !.rendered = Pushed(@, p.render, OutputLatency)])

Advance(p) ==
    Refreshed([p EXCEPT !.rendered = Pushed(@, p.render, OutputLatency),
                        !.render = SongFrame(p, p.render + 1)])

\* The loop went round within what is yet to be heard.
GoesBack(p) ==
    \E i \in DOMAIN p.rendered : Append(p.rendered, p.render)[i + 1] < p.rendered[i]

PendingOutput(p) ==
    LET latency == Latency(p, OutputLatency) IN
    IF ~p.playing THEN latency
    ELSE IF latency > Len(p.rendered) THEN latency - Len(p.rendered) ELSE 0

-----------------------------------------------------------------------------
(* The recording.                                                          *)

ResetInput(p, r) == [r EXCEPT !.skip = Latency(p, InputLatency)]

\* The pass that begins next, by how often the loop has gone round.
FindPass(frame) ==
    IF frame <= FromFrame THEN 0
    ELSE LoopLength * (1 + ((frame - FromFrame - 1) \div LoopLength))

StartRun(p, r, frame) ==
    LET pending == PendingOutput(p)
        inPass == r.pass /\ p.range = "cycle"
        shift == IF inPass THEN FindPass(frame) ELSE 0
        punchIn == IF inPass THEN FromFrame + shift - frame ELSE 0
        start == frame + punchIn
    IN [r EXCEPT !.leadIn = pending + punchIn, !.start = start, !.written = 0,
                 !.posted = 0, !.shift = shift,
                 !.end = IF inPass THEN ToFrame + shift - start ELSE Endless]

\* The buffer goes to the stream of the take, each sample with its place.
Placed(r) ==
    {[at |-> r.start - r.shift + r.posted + i - 1, sung |-> r.chunk[i].sung,
      late |-> r.chunk[i].late] : i \in DOMAIN r.chunk}

FlushBuffer(r, t) ==
    [recorder |-> [r EXCEPT !.chunk = <<>>, !.posted = IF r.chunk = <<>> THEN @ ELSE r.written],
     take |-> IF r.active THEN [t EXCEPT !.stored = @ \cup Placed(r)] ELSE t]

EndPass(r, t, complete) ==
    IF ~r.pass \/ r.state = "ended" THEN [recorder |-> r, take |-> t]
    ELSE LET flushed == FlushBuffer([r EXCEPT !.state = "ended"], t) IN
         [flushed EXCEPT !.take.complete = complete]

RunOver(r) == r.end # Endless /\ r.written >= r.end

\* Mutant: what was rendered before the run began is not left out.
PushAtOnce(r, t, sample) ==
    IF r.state = "ended" THEN [recorder |-> r, take |-> t]
    ELSE IF RunOver(r) THEN EndPass(r, t, TRUE)
    ELSE LET pushed == [r EXCEPT !.chunk = Append(@, sample), !.written = @ + 1] IN
         IF Len(pushed.chunk) = ChunkLength THEN FlushBuffer(pushed, t)
         ELSE [recorder |-> pushed, take |-> t]

Push(r, t, sample) ==
    IF r.leadIn > 0 THEN [recorder |-> [r EXCEPT !.leadIn = @ - 1], take |-> t]
    ELSE IF r.state = "ended" THEN [recorder |-> r, take |-> t]
    ELSE IF RunOver(r) THEN EndPass(r, t, TRUE)
    ELSE LET pushed == [r EXCEPT !.chunk = Append(@, sample), !.written = @ + 1,
                                 !.state = IF r.pass THEN "writing" ELSE @]
         IN IF Len(pushed.chunk) = ChunkLength THEN FlushBuffer(pushed, t)
            ELSE [recorder |-> pushed, take |-> t]

WriteInput(r, t, sample) ==
    IF r.skip > 0 THEN [recorder |-> [r EXCEPT !.skip = @ - 1], take |-> t]
    ELSE Push(r, t, sample)

\* The take ends: its stream is told and forgotten.
EndStream(both) ==
    LET flushed == FlushBuffer(both.recorder, both.take) IN
    [flushed EXCEPT !.recorder.active = FALSE, !.recorder.pass = FALSE,
                    !.recorder.shift = 0, !.recorder.end = Endless,
                    !.recorder.drain = NoDrain,
                    !.take.ended = TRUE]

CountDrain(both) ==
    LET left == both.recorder.drain - 1 IN
    IF both.recorder.drain = NoDrain THEN both
    ELSE IF left <= 0 THEN EndStream(both)
    ELSE [both EXCEPT !.recorder.drain = left]

\* Mutant: what was sung and has not arrived is not awaited.
DrainAtOnce(p, r, t) == EndStream([recorder |-> r, take |-> t])

\* What was sung before the end is still on its way.
StartDrain(p, r, t) ==
    IF r.active /\ Latency(p, InputLatency) > 0
    THEN [recorder |-> [r EXCEPT !.drain = IF @ = NoDrain THEN Latency(p, InputLatency) ELSE @],
          take |-> t]
    ELSE EndStream([recorder |-> r, take |-> t])

HandleSeek(p, r, t, frame) ==
    IF r.drain # NoDrain THEN EndStream([recorder |-> r, take |-> t])
    ELSE IF r.pass THEN EndPass(r, t, FALSE)
    ELSE LET flushed == FlushBuffer(r, t) IN
         [flushed EXCEPT !.recorder = StartRun(p, ResetInput(p, @), frame)]

Both(outcome) == recorder' = outcome.recorder /\ take' = outcome.take

-----------------------------------------------------------------------------
(* A quantum.                                                              *)

\* How many of the last quanta were held.
Held(count) == Cardinality({i \in DOMAIN air : i > Len(air) - count /\ air[i].held})

\* What the singer repeats now, and how far it is behind what is written:
\* the song stood still since, or before the run began.
Input ==
    [sung |-> IF Len(air) = RoundTrip THEN Head(air).frame ELSE Silence,
     late |-> Cardinality({i \in DOMAIN air : air[i].dropped}) - take.unheard]

Unchanged == [recorder |-> recorder, take |-> take]

\* The song stands still and the recording does not take what is sung.
Drops == recorder.active /\ booth.phase # "armed" /\ recorder.drain = NoDrain

\* What is heard while the take is on is to be stored; of a loop, from its
\* first frame on.
Due(t) ==
    LET heard == SongFrame(player, Head(player.rendered))
        starts == recorder.pass => t.due # {} \/ heard = FromFrame
    IN IF /\ booth.phase = "on" /\ recorder.active /\ recorder.state # "ended"
          /\ Len(player.rendered) = OutputLatency /\ starts
       THEN [t EXCEPT !.due = @ \cup {heard}] ELSE t

Drains ==
    IF recorder.drain = NoDrain THEN Unchanged
    ELSE CountDrain(WriteInput(recorder, take, Input))

Still(outcome, held, dropped) ==
    /\ recorder' = outcome.recorder
    /\ take' = [outcome.take EXCEPT !.still = @ \/ (dropped /\ recorder.active)]
    /\ air' = Pushed(air, [frame |-> Silence, held |-> held, dropped |-> dropped], RoundTrip)

ProcessStopped ==
    /\ ~player.playing
    /\ Still(Drains, FALSE, Drops)
    /\ UNCHANGED <<player, booth>>

ProcessFrozen ==
    /\ player.playing /\ player.frozen
    /\ Still(Drains, TRUE, recorder.drain = NoDrain)
    /\ player' = Hold(player)
    /\ UNCHANGED booth

\* What the mixed tracks give: nothing after the end of a range played once.
Mixed ==
    LET frame == SongFrame(player, player.render) IN
    IF frame >= IF player.range = "once" THEN ToFrame ELSE SongLength THEN Silence ELSE frame

\* The end of the song, or of a range that is played once.
Over(p) == p.frame >= IF p.range = "once" THEN ToFrame ELSE SongLength

ProcessPlaying ==
    /\ player.playing /\ ~player.frozen
    /\ LET next == Advance(player)
           outcome == IF recorder.active THEN CountDrain(WriteInput(recorder, Due(take), Input))
                      ELSE Unchanged
       IN \/ /\ ~Over(next)
             /\ player' = next /\ Both(outcome)
          \/ /\ Over(next)
             /\ player' = [Begin(next, IF next.range = "once" THEN FromFrame ELSE 0) EXCEPT
                             !.playing = FALSE]
             /\ recorder' = ResetInput(player, outcome.recorder)
             /\ take' = [outcome.take EXCEPT !.still = @ \/ recorder.active]
    /\ air' = Pushed(air, [frame |-> Mixed, held |-> FALSE, dropped |-> FALSE], RoundTrip)
    /\ UNCHANGED booth

-----------------------------------------------------------------------------
(* The messages of the main thread.                                        *)

Commanded == booth.commands < CommandCount
Counted(phase) == booth' = [booth EXCEPT !.phase = phase, !.commands = @ + 1]

PlayMessage ==
    /\ player' = [player EXCEPT !.playing = TRUE]
    /\ recorder' = ResetInput(player, recorder)

StopMessage == player' = [Begin(player, player.frame) EXCEPT !.playing = FALSE]

SeekTo(p, frame) ==
    /\ player' = Begin(p, frame)
    /\ Both(IF recorder.active
            THEN [HandleSeek(Begin(p, frame), recorder, take, frame) EXCEPT
                    !.take.due = {}, !.take.still = FALSE, !.take.unheard = 0]
            ELSE Unchanged)

PlaySong ==
    /\ Commanded /\ booth.phase = "none" /\ ~player.playing
    /\ PlayMessage /\ Counted("none")
    /\ UNCHANGED <<air, take>>

StopSong ==
    /\ Commanded /\ booth.phase = "none" /\ player.playing
    /\ StopMessage /\ Counted("none")
    /\ UNCHANGED <<air, recorder, take>>

\* A take of the song, or a try of the loop; the latencies are known by now.
StartRecording ==
    /\ Commanded /\ booth.phase = "none"
    /\ LET pass == player.range # "none"
           cycling == [player EXCEPT !.range = IF pass THEN "cycle" ELSE "none"]
           placed == IF pass /\ ~player.playing THEN Begin(cycling, FromFrame) ELSE cycling
           informed == [placed EXCEPT !.known = TRUE]
           ready == IF player.playing THEN Refreshed(informed) ELSE informed
           fresh == [ResetInput(ready, recorder) EXCEPT
                       !.active = TRUE, !.chunk = <<>>, !.pass = pass, !.state = "waiting"]
       IN /\ player' = ready
          /\ recorder' = StartRun(ready, fresh, ready.frame)
          /\ take' = [stored |-> {}, due |-> {}, complete |-> FALSE,
                      still |-> Held(RoundTrip) > 0,
                      unheard |-> IF player.playing THEN Held(Len(player.rendered)) ELSE 0,
                      try |-> pass, closed |-> FALSE,
                      \* The loop was closed, and what is heard is from before its end.
                      crossed |-> ~pass /\ player.playing /\ GoesBack(ready),
                      ended |-> FALSE]
    /\ Counted(IF player.playing THEN "on" ELSE "armed")
    \* Of what came before, the recording took nothing.
    /\ air' = [i \in DOMAIN air |-> [air[i] EXCEPT !.dropped = air[i].held]]

\* The output is awake: the take begins to play.
PlayTake ==
    /\ booth.phase = "armed"
    /\ PlayMessage
    /\ booth' = [booth EXCEPT !.phase = "on"]
    /\ UNCHANGED <<air, take>>

\* The user, or the end of the song, stops the player before the take.
StopAndFinish ==
    /\ booth.phase = "on" /\ (Commanded \/ ~player.playing)
    /\ StopMessage
    /\ booth' = [booth EXCEPT !.phase = "stopping",
                              !.commands = IF player.playing THEN @ + 1 ELSE @]
    /\ UNCHANGED <<air, recorder, take>>

\* The user ends the take, or the pass has ended: the song plays on.
FinishRecording ==
    /\ booth.phase = "on"
    /\ \/ Commanded /\ Counted("ending")
       \/ /\ recorder.pass /\ recorder.state = "ended"
          /\ booth' = [booth EXCEPT !.phase = "ending"]
    /\ UNCHANGED <<player, recorder, air, take>>

FlushRecording ==
    /\ booth.phase \in {"stopping", "ending"}
    /\ booth' = [booth EXCEPT !.phase = "flushing"]
    /\ Both(StartDrain(player, recorder, take))
    /\ UNCHANGED <<player, air>>

RecordingFlushed ==
    /\ booth.phase = "flushing" /\ ~recorder.active
    /\ booth' = [booth EXCEPT !.phase = "none"]
    /\ UNCHANGED <<player, recorder, air, take>>

SeekSong ==
    /\ Commanded
    /\ \E frame \in IF player.range = "none" THEN {0, ToFrame} ELSE {FromFrame, ToFrame - 1} :
         SeekTo(player, frame)
    /\ Counted(booth.phase) /\ UNCHANGED air

SetFrozen ==
    /\ Commanded
    /\ player' = [player EXCEPT !.frozen = ~@]
    /\ Counted(booth.phase) /\ UNCHANGED <<recorder, air, take>>

\* The loop is played, once if nothing played before.
OpenRange ==
    /\ Commanded /\ booth.phase = "none" /\ player.range = "none"
    /\ player' = [Begin(player, FromFrame) EXCEPT
                    !.playing = TRUE, !.range = IF player.playing THEN "cycle" ELSE "once"]
    /\ recorder' = IF player.playing THEN recorder ELSE ResetInput(player, recorder)
    /\ Counted("none") /\ UNCHANGED <<air, take>>

CloseRange ==
    /\ Commanded /\ player.range # "none"
    /\ player' = [player EXCEPT !.range = "none"]
    /\ Counted(IF booth.phase = "on" THEN "ending" ELSE booth.phase)
    /\ take' = [take EXCEPT !.closed = TRUE]
    /\ UNCHANGED <<recorder, air>>

HeardNext ==
    \/ ProcessStopped \/ ProcessFrozen \/ ProcessPlaying
    \/ PlaySong \/ StopSong \/ SeekSong \/ SetFrozen \/ OpenRange \/ CloseRange
    \/ StartRecording \/ PlayTake \/ StopAndFinish \/ FinishRecording
    \/ FlushRecording \/ RecordingFlushed

HeardSpec == HeardInit /\ [][HeardNext]_heardVars

-----------------------------------------------------------------------------
\* The places of the song the take has samples of.
Places == {sample.at : sample \in take.stored}

\* A sample is stored at the place that was heard when it was sung, whatever
\* was played, sought, held and looped before (recording.worklet.ts startRun and
\* writeInput, heardPosition.worklet.ts refresh).  While the song stood still and
\* its input was dropped within the last round trip, it is off by exactly that;
\* a take that begins within the output latency of a hold is off by what was held
\* to its end.  Left out are tries that are thrown away, and a take that begins
\* when the loop was closed within the output latency of its end.
SungWhereHeard ==
    (take.try => take.complete /\ ~take.closed) /\ ~take.crossed =>
    \A sample \in take.stored :
        LET away == sample.at + sample.late - sample.sung IN
        sample.sung # Silence => IF take.try THEN away % LoopLength = 0 ELSE away = 0

\* A try that is complete has each place of the loop and no other.  A take that
\* ends, by its end or by that of the player, has each place that was heard while
\* it was on, unless the song stood still or ended under it (recording.worklet.ts
\* drain, countDrain, findPass and endPass).
TakeKept ==
    /\ take.complete => Places = FromFrame..(ToFrame - 1)
    /\ take.ended /\ ~take.still /\ ~take.crossed /\ ~take.complete => take.due \subseteq Places
=============================================================================
