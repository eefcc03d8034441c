------------------------------ MODULE TakeWire ------------------------------
(***************************************************************************)
(* A take on its way from the audio thread to the server: the main thread  *)
(* starts and finishes a recording stream, the audio thread posts chunks   *)
(* and one flush on the port of the stream, the decoder worker forwards    *)
(* them over the socket of the project and waits, with time limits, for    *)
(* the server to accept and to finish the take.                            *)
(*                                                                         *)
(* The decoder worker is one JavaScript thread: a continuation of a        *)
(* promise that is resolved runs before the next message, event or timer.  *)
(***************************************************************************)
EXTENDS Naturals, Sequences, FiniteSets, SequencesExt

CONSTANTS
    TakeCount,      \* recording streams the main thread starts
    ChunkCount,     \* chunks the audio thread posts for one stream, at most
    WireFaults      \* sockets that break and sessions others open, together

ASSUME TakeWireAssumption ==
    TakeCount \in Nat /\ ChunkCount \in Nat /\ WireFaults \in Nat

VARIABLES
    singer,     \* the main thread: its stage, its take, the promise it holds, and
                \* whether an answer about one take has released a later one
    toDecoder,  \* messages to the decoder worker
    toSinger,   \* messages of the decoder worker: the takes that are over for it
    pipe,       \* the port of every stream: posted and handled
    stage,      \* the state of the decoder worker
    wire,       \* the socket, what waits for it and what is on it
    room,       \* the server: the connection and the session of the room
    troubles    \* faults that happened

wireVars ==
    <<singer, toDecoder, toSinger, pipe, stage, wire, room, troubles>>

Takes == 1..TakeCount
NoTake == 0
Waits == {"flush", "ready", "start", "finish"}

WireInit ==
    /\ singer = [at |-> "idle", take |-> NoTake, promise |-> NoTake,
                 misled |-> FALSE]
    /\ toDecoder = <<>> /\ toSinger = <<>>
    /\ pipe = [s \in Takes |->
                 [posted |-> 0, flushed |-> FALSE, read |-> 0, flushRead |-> FALSE]]
    /\ stage = [stream |-> NoTake, draft |-> FALSE, session |-> NoTake,
                ready |-> FALSE, started |-> {}, over |-> {}, closed |-> {},
                gaveUp |-> {}, failed |-> {}, rushed |-> FALSE,
                chain |-> [s \in Takes |-> "none"],
                cleanup |-> [s \in Takes |-> "none"]]
    /\ \E opening \in {"connecting", "open"} :
         wire = [socket |-> opening, pending |-> <<>>, up |-> <<>>, down |-> <<>>]
    /\ room = [take |-> NoTake, refused |-> NoTake, waiting |-> NoTake,
               other |-> "none", ended |-> {},
               stored |-> [s \in Takes |-> <<>>]]
    /\ troubles = 0

-----------------------------------------------------------------------------
(* The main thread and the audio thread.                                   *)

\* A take starts when the one before it has been let go: the promise of its
\* stream is made, and the decoder is told whether it is a draft of the loop.
StartTake(draft) ==
    /\ singer.at = "idle" /\ singer.take < TakeCount
    /\ LET s == singer.take + 1 IN
         /\ singer' = [singer EXCEPT !.at = "recording", !.take = s, !.promise = s]
         /\ toDecoder' = Append(toDecoder, [kind |-> "start", take |-> s, draft |-> draft])
    /\ UNCHANGED <<toSinger, pipe, stage, wire, room, troubles>>

\* The take is stopped by the user, by the end of the song or because its
\* stream failed: the audio thread is asked for what it still holds.
StopTake ==
    /\ singer.at = "recording"
    /\ singer' = [singer EXCEPT !.at = "flushing"]
    /\ UNCHANGED <<toDecoder, toSinger, pipe, stage, wire, room, troubles>>

PostChunk ==
    /\ singer.at \in {"recording", "flushing"}
    /\ LET s == singer.take IN
         /\ pipe[s].posted < ChunkCount /\ ~pipe[s].flushed
         /\ pipe' = [pipe EXCEPT ![s].posted = @ + 1]
    /\ UNCHANGED <<singer, toDecoder, toSinger, stage, wire, room, troubles>>

PostFlush ==
    /\ singer.at = "flushing" /\ ~pipe[singer.take].flushed
    /\ pipe' = [pipe EXCEPT ![singer.take].flushed = TRUE]
    /\ UNCHANGED <<singer, toDecoder, toSinger, stage, wire, room, troubles>>

\* The audio thread has answered: the decoder is asked to finish the stream,
\* unless it has let the stream go already.
FinishTake ==
    /\ singer.at = "flushing" /\ pipe[singer.take].flushed
    /\ IF singer.promise = NoTake
       THEN singer' = [singer EXCEPT !.at = "idle"] /\ UNCHANGED toDecoder
       ELSE /\ singer' = [singer EXCEPT !.at = "finishing"]
            /\ toDecoder' = Append(toDecoder, [kind |-> "finish", take |-> singer.take])
    /\ UNCHANGED <<toSinger, pipe, stage, wire, room, troubles>>

\* "recordingStreamFinished" and "recordingStreamFailed" resolve the promise
\* of the stream that is held now.
HearDecoder ==
    /\ toSinger # <<>>
    /\ toSinger' = Tail(toSinger)
    /\ singer' = [singer EXCEPT !.promise = NoTake,
                     !.at = IF @ = "finishing" THEN "idle" ELSE @,
                     !.misled = @ \/ singer.promise \notin {NoTake, Head(toSinger)}]
    /\ UNCHANGED <<toDecoder, pipe, stage, wire, room, troubles>>

-----------------------------------------------------------------------------
(* The socket of the project as the decoder worker sees it.                *)

IsPacket(message) == message.kind = "packet"

\* The messages of a queue at the given places, in their order.
Picked(queue, places) ==
    [n \in 1..Cardinality(places) |->
        queue[CHOOSE i \in places : Cardinality({j \in places : j <= i}) = n]]

\* Texts need an open socket, packets a take that was accepted as well.
Sendable(queue, ready) == {i \in DOMAIN queue : ready \/ ~IsPacket(queue[i])}

\* Mutant: what was sent stays with what waits.
FlushedKept(net, ready) ==
    IF net.socket # "open" THEN net
    ELSE [net EXCEPT !.up = @ \o Picked(net.pending, Sendable(net.pending, ready))]

\* What can be sent is sent in its order, the rest keeps waiting.
Flushed(net, ready) ==
    LET sent == Sendable(net.pending, ready)
    IN IF net.socket # "open" THEN net
       ELSE [net EXCEPT !.up = @ \o Picked(net.pending, sent),
                        !.pending = Picked(net.pending, DOMAIN net.pending \ sent)]

\* Text goes at once over an open socket and waits for one that connects.
SendJson(net, ready, message) ==
    CASE net.socket = "open" ->
           [Flushed(net, ready) EXCEPT !.up = Append(@, message)]
      [] net.socket = "connecting" -> [net EXCEPT !.pending = Append(@, message)]
      [] OTHER -> net

\* A packet of a socket that is gone is lost with the error it raises.
SendBinary(net, ready, packet) ==
    CASE net.socket = "gone" -> net
      [] net.socket = "open" /\ ready ->
           [Flushed(net, ready) EXCEPT !.up = Append(@, packet)]
      [] OTHER -> [net EXCEPT !.pending = Append(@, packet)]

OpenSocket(net) ==
    IF net.socket = "gone"
    THEN [socket |-> "connecting", pending |-> <<>>, up |-> <<>>, down |-> <<>>]
    ELSE net

-----------------------------------------------------------------------------
(* The decoder worker.                                                     *)

\* Closing a stream resolves everything that waits on it.
Cleared(st) ==
    [st EXCEPT !.closed = @ \cup ({st.stream} \ {NoTake}),
               !.started = @ \ {st.stream}, !.over = @ \ {st.stream},
               !.stream = NoTake, !.ready = FALSE]

\* Mutant: the stream is closed and the server is not asked to finish it.
InterruptedOnly(st) ==
    IF st.stream = NoTake THEN Cleared(st)
    ELSE [Cleared(st) EXCEPT !.failed = @ \cup {st.stream}]

\* The stream that is open, if any, is finished behind the scenes and closed.
Interrupted(st) ==
    IF st.stream = NoTake THEN Cleared(st)
    ELSE [Cleared(st) EXCEPT !.cleanup[st.stream] = "ready",
                             !.failed = @ \cup {st.stream}]

\* Mutant: the finish does not wait for the flush of the stream.
ResolvedUnflushed(s, wait) ==
    CASE wait = "flush" -> TRUE
      [] wait = "ready" -> wire.socket # "connecting"
      [] wait = "start" -> s \in stage.started \cup stage.closed
      [] wait = "finish" -> s \in stage.over \cup stage.closed
      [] OTHER -> FALSE

\* A wait of the finishing of stream s that what it waits for has resolved.
Resolved(s, wait) ==
    CASE wait = "flush" -> pipe[s].flushRead \/ s \in stage.closed
      [] wait = "ready" -> wire.socket # "connecting"
      [] wait = "start" -> s \in stage.started \cup stage.closed
      [] wait = "finish" -> s \in stage.over \cup stage.closed
      [] OTHER -> FALSE

DecoderBusy ==
    \E s \in Takes : Resolved(s, stage.chain[s]) \/ Resolved(s, stage.cleanup[s])

\* The draft of a loop try stays in the worker; any other take is announced.
HandleStart ==
    /\ ~DecoderBusy /\ toDecoder # <<>> /\ Head(toDecoder).kind = "start"
    /\ toDecoder' = Tail(toDecoder)
    /\ LET s == Head(toDecoder).take
           cleared == Cleared(stage)
       IN IF Head(toDecoder).draft
          THEN /\ stage' = [cleared EXCEPT !.draft = TRUE, !.stream = s]
               /\ UNCHANGED <<wire, toSinger>>
          ELSE \/ /\ stage' = [cleared EXCEPT !.draft = FALSE, !.stream = s,
                                              !.session = s]
                  /\ wire' = SendJson(OpenSocket(wire), FALSE,
                                      [kind |-> "recording.start", take |-> s])
                  /\ UNCHANGED toSinger
               \/ /\ stage' = [cleared EXCEPT !.draft = FALSE]  \* no recording is active
                  /\ wire' = OpenSocket(wire)
                  /\ toSinger' = Append(toSinger, s)
    /\ UNCHANGED <<singer, pipe, room, troubles>>

HandleFinish ==
    /\ ~DecoderBusy /\ toDecoder # <<>> /\ Head(toDecoder).kind = "finish"
    /\ toDecoder' = Tail(toDecoder)
    /\ IF stage.stream = NoTake
       THEN toSinger' = Append(toSinger, Head(toDecoder).take) /\ UNCHANGED stage
       ELSE /\ stage' = [stage EXCEPT !.chain[stage.stream] = "flush"]
            /\ UNCHANGED toSinger
    /\ UNCHANGED <<singer, pipe, wire, room, troubles>>

\* The port of a stream is handled in its order until the stream is closed.
HandleChunk(s) ==
    /\ ~DecoderBusy /\ s \notin stage.closed
    /\ s = stage.stream /\ pipe[s].read < pipe[s].posted
    /\ pipe' = [pipe EXCEPT ![s].read = @ + 1]
    /\ wire' = IF stage.draft THEN wire
               ELSE SendBinary(wire, stage.ready,
                      [kind |-> "packet", take |-> s, number |-> pipe[s].read + 1])
    /\ UNCHANGED <<singer, toDecoder, toSinger, stage, room, troubles>>

HandleFlush(s) ==
    /\ ~DecoderBusy /\ s \notin stage.closed /\ s = stage.stream
    /\ pipe[s].flushed /\ pipe[s].read = pipe[s].posted /\ ~pipe[s].flushRead
    /\ pipe' = [pipe EXCEPT ![s].flushRead = TRUE]
    /\ UNCHANGED <<singer, toDecoder, toSinger, stage, wire, room, troubles>>

\* One continuation of the finishing of stream s.  The last step of a stream
\* that the main thread asked to finish tells it so.
Continue(s, kind) ==
    LET wait == stage[kind][s]
        step(next) == [stage EXCEPT ![kind][s] = next]
    IN /\ Resolved(s, wait)
       /\ \/ /\ wait = "flush" /\ ~stage.draft
             /\ stage' = step("ready") /\ UNCHANGED <<wire, toSinger>>
          \/ /\ wait = "ready"
             /\ stage' = step("start") /\ UNCHANGED <<wire, toSinger>>
          \/ /\ wait = "start"
             /\ stage' = step("finish")
             /\ wire' = SendJson(Flushed(wire, stage.ready), stage.ready,
                                 [kind |-> "recording.finish"])
             /\ UNCHANGED toSinger
          \/ /\ wait = "finish" \/ (wait = "flush" /\ stage.draft)
             /\ IF kind = "cleanup"
                THEN stage' = step("done") /\ UNCHANGED toSinger
                ELSE /\ stage' = IF stage.stream = s THEN Cleared(step("done"))
                                                     ELSE step("done")
                     /\ toSinger' = Append(toSinger, s)
             /\ UNCHANGED wire
       /\ UNCHANGED <<singer, toDecoder, pipe, room, troubles>>

\* Mutant: only the opening and the end have a time limit.
TimeOutNoStart(s, kind) ==
    LET wait == stage[kind][s]
        done(st) == [st EXCEPT ![kind][s] = "done"]
    IN /\ ~DecoderBusy
       /\ \/ /\ wait = "ready"
             /\ stage' = [stage EXCEPT ![kind][s] = "start", !.rushed = TRUE]
             /\ UNCHANGED toSinger
          \/ /\ wait = "finish"
             /\ stage' = IF stage.stream = s THEN Cleared(done(stage)) ELSE done(stage)
             /\ toSinger' = IF kind = "cleanup" THEN toSinger ELSE Append(toSinger, s)
       /\ UNCHANGED <<singer, toDecoder, pipe, wire, room, troubles>>

\* A time limit: a socket that does not open and a finish that is not
\* confirmed are passed over, a start that is not confirmed is a failure.
TimeOut(s, kind) ==
    LET wait == stage[kind][s]
        done(st) == [st EXCEPT ![kind][s] = "done"]
    IN /\ ~DecoderBusy
       /\ \/ /\ wait = "ready"
             /\ stage' = [stage EXCEPT ![kind][s] = "start", !.rushed = TRUE]
             /\ UNCHANGED toSinger
          \/ /\ wait = "start" /\ kind = "chain"
             /\ stage' = [Interrupted(done(stage)) EXCEPT !.gaveUp = @ \cup {s}]
             /\ toSinger' = Append(toSinger, s)
          \/ /\ wait = "finish"
             /\ IF kind = "cleanup"
                THEN stage' = done(stage) /\ UNCHANGED toSinger
                ELSE /\ stage' = IF stage.stream = s THEN Cleared(done(stage))
                                                     ELSE done(stage)
                     /\ toSinger' = Append(toSinger, s)
       /\ UNCHANGED <<singer, toDecoder, pipe, wire, room, troubles>>

\* Events of the server.  Only those of the own session move the stream, and
\* they move the one that is open now.
HandleEvent ==
    /\ ~DecoderBusy /\ wire.socket = "open"
    /\ wire.down # <<>> /\ Head(wire.down).kind # "close"
    /\ LET event == Head(wire.down)
           rest == [wire EXCEPT !.down = Tail(@)]
           current == {stage.stream} \ {NoTake}
       IN CASE event.take # stage.session -> wire' = rest /\ UNCHANGED stage
            [] event.take = stage.session /\ event.kind = "started" ->
                 /\ stage' = [stage EXCEPT !.ready = TRUE, !.started = @ \cup current]
                 /\ wire' = Flushed(rest, TRUE)
            [] OTHER ->
                 /\ stage' = [stage EXCEPT !.ready = FALSE, !.over = @ \cup current]
                 /\ wire' = rest
    /\ UNCHANGED <<singer, toDecoder, toSinger, pipe, room, troubles>>

SocketOpens ==
    /\ ~DecoderBusy /\ wire.socket = "connecting"
    /\ wire' = Flushed([wire EXCEPT !.socket = "open"], stage.ready)
    /\ UNCHANGED <<singer, toDecoder, toSinger, pipe, stage, room, troubles>>

\* The socket breaks, or the server closes it: what waits for it is gone with
\* it, a stream is interrupted, and a wait for its opening fails.
LoseSocket ==
    LET failing == {s \in Takes : wire.socket = "connecting" /\ stage.chain[s] = "ready"}
        broken == [stage EXCEPT
                     !.chain = [s \in Takes |-> IF s \in failing THEN "done" ELSE @[s]],
                     !.cleanup = [s \in Takes |->
                        IF wire.socket = "connecting" /\ @[s] = "ready" THEN "done" ELSE @[s]]]
        told == (IF stage.stream # NoTake THEN <<stage.stream>> ELSE <<>>) \o SetToSeq(failing)
    IN /\ stage' = IF told # <<>> THEN Interrupted(broken) ELSE broken
       /\ toSinger' = toSinger \o told
       /\ wire' = [socket |-> "gone", pending |-> <<>>, up |-> <<>>, down |-> <<>>]
       /\ room' = [room EXCEPT !.take = NoTake, !.refused = NoTake, !.waiting = NoTake]

SocketBreaks ==
    /\ ~DecoderBusy /\ troubles < WireFaults /\ wire.socket # "gone"
    /\ LoseSocket
    /\ troubles' = troubles + 1
    /\ UNCHANGED <<singer, toDecoder, pipe>>

ServerCloses ==
    /\ ~DecoderBusy /\ wire.socket = "open"
    /\ wire.down # <<>> /\ Head(wire.down).kind = "close"
    /\ LoseSocket
    /\ UNCHANGED <<singer, toDecoder, pipe, troubles>>

-----------------------------------------------------------------------------
(* The server's side of the connection.                                    *)

Answer(kind, s) == [wire EXCEPT !.up = Tail(@), !.down = Append(@, [kind |-> kind, take |-> s])]

\* A start is refused while another member plays or records, waits while the
\* recording is being saved, and finishes the take that is still open.
ServeStart ==
    /\ room.waiting = NoTake /\ wire.up # <<>> /\ Head(wire.up).kind = "recording.start"
    /\ LET s == Head(wire.up).take
           own == room.take
           finished == IF own = NoTake THEN <<>> ELSE <<[kind |-> "finished", take |-> own]>>
           settled == [room EXCEPT !.take = NoTake, !.ended = @ \cup ({own} \ {NoTake})]
           answered(events) == [wire EXCEPT !.up = Tail(@), !.down = @ \o events]
       IN \/ /\ room.other = "take"
             /\ room' = [room EXCEPT !.refused = s]
             /\ wire' = answered(<<[kind |-> "finished", take |-> s]>>)
          \/ /\ room.other = "edit"
             /\ room' = [settled EXCEPT !.waiting = s]
             /\ wire' = answered(finished)
          \/ /\ room.other = "none"
             /\ room' = [settled EXCEPT !.take = s]
             /\ wire' = answered(finished \o <<[kind |-> "started", take |-> s]>>)
    /\ UNCHANGED <<singer, toDecoder, toSinger, pipe, stage, troubles>>

\* The session of the room comes free, or the wait for it ends.
ServeWaiting ==
    /\ room.waiting # NoTake
    /\ LET s == room.waiting IN
         \/ /\ room.other = "none"
            /\ room' = [room EXCEPT !.waiting = NoTake, !.take = s]
            /\ wire' = [wire EXCEPT !.down = Append(@, [kind |-> "started", take |-> s])]
         \/ /\ room.other # "none"
            /\ room' = [room EXCEPT !.waiting = NoTake, !.refused = s]
            /\ wire' = [wire EXCEPT !.down = Append(@, [kind |-> "finished", take |-> s])]
    /\ UNCHANGED <<singer, toDecoder, toSinger, pipe, stage, troubles>>

ServeFinish ==
    /\ room.waiting = NoTake /\ wire.up # <<>> /\ Head(wire.up).kind = "recording.finish"
    /\ CASE room.refused # NoTake ->
              /\ room' = [room EXCEPT !.refused = NoTake]
              /\ wire' = Answer("finished", room.refused)
         [] room.refused = NoTake /\ room.take # NoTake ->
              /\ room' = [room EXCEPT !.take = NoTake, !.ended = @ \cup {room.take}]
              /\ wire' = Answer("finished", room.take)
         [] OTHER -> wire' = [wire EXCEPT !.up = Tail(@)] /\ UNCHANGED room
    /\ UNCHANGED <<singer, toDecoder, toSinger, pipe, stage, troubles>>

\* A packet of a refused take is passed over; one that follows no start
\* closes the connection.
ServePacket ==
    /\ room.waiting = NoTake /\ wire.up # <<>> /\ IsPacket(Head(wire.up))
    /\ LET packet == Head(wire.up) IN
         CASE room.refused # NoTake ->
                wire' = [wire EXCEPT !.up = Tail(@)] /\ UNCHANGED room
           [] room.refused = NoTake /\ room.take # NoTake ->
                /\ room' = [room EXCEPT !.stored[room.take] = Append(@, packet)]
                /\ wire' = [wire EXCEPT !.up = Tail(@)]
           [] OTHER ->
                /\ wire' = [wire EXCEPT !.up = <<>>, !.down = Append(@, [kind |-> "close"])]
                /\ UNCHANGED room
    /\ UNCHANGED <<singer, toDecoder, toSinger, pipe, stage, troubles>>

\* Another member of the room edits the recording or takes the player.
OtherSession(kind) ==
    /\ troubles < WireFaults
    /\ room.other = "none" /\ room.take = NoTake /\ room.waiting = NoTake
    /\ room' = [room EXCEPT !.other = kind]
    /\ troubles' = troubles + 1
    /\ UNCHANGED <<singer, toDecoder, toSinger, pipe, stage, wire>>

OtherEnds ==
    /\ room.other # "none"
    /\ room' = [room EXCEPT !.other = "none"]
    /\ UNCHANGED <<singer, toDecoder, toSinger, pipe, stage, wire, troubles>>

-----------------------------------------------------------------------------
WireSystem ==
    \/ PostFlush \/ FinishTake \/ HearDecoder
    \/ HandleStart \/ HandleFinish \/ HandleEvent \/ SocketOpens \/ ServerCloses
    \/ \E s \in Takes :
         \/ HandleChunk(s) \/ HandleFlush(s)
         \/ \E kind \in {"chain", "cleanup"} : Continue(s, kind) \/ TimeOut(s, kind)
    \/ ServeStart \/ ServeWaiting \/ ServeFinish \/ ServePacket

WireNext ==
    \/ \E draft \in BOOLEAN : StartTake(draft)
    \/ StopTake \/ PostChunk
    \/ WireSystem
    \/ SocketBreaks
    \/ \E kind \in {"edit", "take"} : OtherSession(kind)
    \/ OtherEnds

WireSpec == WireInit /\ [][WireNext]_wireVars /\ WF_wireVars(WireSystem)

-----------------------------------------------------------------------------
StoredOf(s) ==
    Picked(room.stored[s], {i \in DOMAIN room.stored[s] : room.stored[s][i].take = s})

\* What the page and the worker agreed on held so far: no finish was sent
\* before the socket opened, and no answer about one take was heard as that of
\* the next.  A take that is refused or interrupted while its finish is on the
\* way is answered twice (index.ts recordingStreamFailed and
\* recordingStreamFinished resolve whichever promise is held).
InStep == ~stage.rushed /\ ~singer.misled

\* A chunk is stored in its own take: what one take leaves in the queues ends
\* up in another only when the client gave up waiting for the start of the
\* first (realtime.worker.ts flush and sendBinary, runtime.worker.ts
\* applyTakeEvent).
TakesApart ==
    InStep => \A s \in Takes : \A i \in DOMAIN room.stored[s] :
        room.stored[s][i].take \in {s} \cup stage.gaveUp

\* A take that the server ended and no failure interrupted holds every chunk
\* that was sung, in its order: the finish overtakes no chunk
\* (runtime.worker.ts finishRecordingStream, recordingStream.worker.ts).
TakesWhole ==
    InStep => \A s \in room.ended \ stage.failed :
        StoredOf(s) = [n \in 1..pipe[s].posted |->
                          [kind |-> "packet", take |-> s, number |-> n]]

\* A take is not begun under the refusal of an earlier one, which would pass
\* over its packets and swallow its finish (realtime.rs handle_packet and
\* finish_recording).
RefusalsAnswered ==
    InStep => room.take = NoTake \/ room.refused = NoTake

\* The recorder waits for the end of a take that was stopped.
StopAwaited == singer.at \in {"flushing", "finishing"}
=============================================================================
