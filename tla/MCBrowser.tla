------------------------------ MODULE MCBrowser ------------------------------
(***************************************************************************)
(* The components of the page, and the cache its models come from, each    *)
(* checked on its own: the subject of a behaviour is chosen in its first   *)
(* state and only its component moves, so that the states of the           *)
(* components add up and do not multiply.                                  *)
(***************************************************************************)
EXTENDS TakeWire, TakeRecorder, LoopTries, PlayRoom, RecordingShelf,
        ViewportGesture, GpuPacer, HeardTake, MicrophoneShare,
        ModelCache

VARIABLE subject    \* the component that moves

pageVars == <<subject, wireVars, deckVars, loopVars, roomVars, shelfVars, gestureVars,
              pacerVars, heardVars, mikeVars, cacheVars>>

Subjects == {"wire", "deck", "loop", "room", "shelf", "gesture", "pacer", "heard",
             "mikes", "cache"}

PageInit ==
    /\ subject \in Subjects
    /\ WireInit /\ DeckInit /\ LoopInit /\ RoomInit /\ ShelfInit
    /\ GestureInit /\ PacerInit /\ HeardInit /\ MikeInit /\ CacheInit
    \* What a component that rests begins with makes no difference.
    /\ subject = "wire" \/ wire.socket = "open"
    /\ subject = "gesture" \/ hand.readable = Axes
    /\ subject = "heard" \/ player.known
    /\ subject = "mikes" \/ mikes.platform = "web"
    /\ subject = "cache" \/ pinned.ranges

\* Only the part named part moves.
OthersRest(part) ==
    /\ subject = part /\ UNCHANGED subject
    /\ part = "wire" \/ UNCHANGED wireVars
    /\ part = "deck" \/ UNCHANGED deckVars
    /\ part = "loop" \/ UNCHANGED loopVars
    /\ part = "room" \/ UNCHANGED roomVars
    /\ part = "shelf" \/ UNCHANGED shelfVars
    /\ part = "gesture" \/ UNCHANGED gestureVars
    /\ part = "pacer" \/ UNCHANGED pacerVars
    /\ part = "heard" \/ UNCHANGED heardVars
    /\ part = "mikes" \/ UNCHANGED mikeVars
    /\ part = "cache" \/ UNCHANGED cacheVars

PageNext ==
    \/ OthersRest("wire") /\ WireNext
    \/ OthersRest("deck") /\ DeckNext
    \/ OthersRest("loop") /\ LoopNext
    \/ OthersRest("room") /\ RoomNext
    \/ OthersRest("shelf") /\ ShelfNext
    \/ OthersRest("gesture") /\ GestureNext
    \/ OthersRest("pacer") /\ PacerNext
    \/ OthersRest("heard") /\ HeardNext
    \/ OthersRest("mikes") /\ MikeNext
    \/ OthersRest("cache") /\ CacheNext

\* What the code does by itself goes on, whichever component it is.
PageWorks ==
    \/ OthersRest("wire") /\ WireSystem
    \/ OthersRest("deck") /\ DeckSystem
    \/ OthersRest("room") /\ RoomWorks
    \/ OthersRest("pacer") /\ PacerSystem
    \/ OthersRest("cache") /\ CacheSystem

PageSpec == PageInit /\ [][PageNext]_pageVars /\ WF_pageVars(PageWorks)

\* Whatever the page waits for comes to an end.  A take that is stopped is let
\* go, whatever becomes of the socket, of the other members and of the answers
\* (runtime.worker.ts finishRecordingStream).  A command gives the player back
\* and a session that is stopped ends, unless its answer was overtaken
\* (recorder.ts stop and closeDecoderStream, playback.ts createPlayingPromise).
\* A paced run and a release end, though the device is lost while they wait for
\* it (gpuPacer.ts fail, complete and drain).  A model is had or refused (cache.rs
\* download_with_retries).
Awaited == StopAwaited \/ CommandAwaited \/ GpuAwaited \/ FetchAwaited
PageSettles == Awaited ~> ~Awaited
=============================================================================
