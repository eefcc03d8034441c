--------------------------- MODULE MicrophoneShare ---------------------------
(***************************************************************************)
(* One microphone and those who share it: the preview of the settings,     *)
(* which opens its input anew whenever the device changes, the takes, and  *)
(* the check of the access.  On a phone they share one native capture      *)
(* behind a bridge; in a browser each has a stream of its own.             *)
(*                                                                         *)
(* The page is the record mikes, and its functions are functions of that   *)
(* record; what a handler posts is appended to posted.                     *)
(***************************************************************************)
EXTENDS Naturals, Sequences, SequencesExt

CONSTANTS
    OpeningCount,   \* microphones asked for
    InputCount,     \* times the preview opens its input
    MikeFaults      \* captures that do not start

ASSUME MikeAssumption == OpeningCount \in Nat /\ InputCount \in Nat /\ MikeFaults \in Nat

VARIABLES
    mikes,      \* the page: the audio session and its users
    capture     \* the native side: MicrophoneBridge.kt, MicrophoneCapture.swift

mikeVars == <<mikes, capture>>

NoMike == 0
Platforms == {"android", "ios", "web"}

NoInput == [stage |-> "none", life |-> 0, generation |-> 0, mike |-> NoMike]
NobodyAsks == [by |-> "nobody", input |-> 0, stage |-> "none"]
StopCapturing == [type |-> "stop", mike |-> NoMike]
StartCapturing(m) == [type |-> "start", mike |-> m]

\* The Android page stops what an earlier page may have left.
MikeInit ==
    /\ \E platform \in Platforms :
         mikes = [platform |-> platform, opening |-> {}, sources |-> {}, tracks |-> {},
                  session |-> 0, graph |-> FALSE, current |-> 0, minimum |-> 0,
                  calls |-> <<>>,
                  up |-> FALSE, life |-> 0, generation |-> 0, active |-> NoMike,
                  denied |-> FALSE, inputs |-> <<>>,
                  takes |-> {}, checking |-> "no",
                  posted |-> IF platform = "android" THEN <<StopCapturing>> ELSE <<>>]
    /\ capture = [running |-> FALSE, session |-> 0, generation |-> 0, waiting |-> <<>>,
                  access |-> "unasked", answers |-> <<>>, faults |-> 0, halted |-> FALSE]

-----------------------------------------------------------------------------
(* The audio session: who has a microphone, and when the capture stops.    *)

\* A stop that forgets those who are still opening.
StopCaptureEager(p) ==
    IF p.sources # {} \/ p.platform = "web" THEN p
    ELSE [p EXCEPT !.session = 0, !.graph = FALSE, !.minimum = p.current + 1,
                   !.posted = Append(@, StopCapturing)]

\* Whoever is the last leaves nothing running.
StopCapture(p) ==
    IF p.sources # {} \/ p.opening # {} \/ p.platform = "web" THEN p
    ELSE [p EXCEPT !.session = 0, !.graph = FALSE, !.minimum = p.current + 1,
                   !.posted = Append(@, StopCapturing)]

CloseMicrophone(p, m) ==
    IF m \notin p.sources THEN p
    ELSE StopCapture([p EXCEPT !.sources = @ \ {m}, !.tracks = @ \ {m}])

\* The iOS page loads its worklet first.
OpenMicrophone(p, by, input) ==
    LET m == Len(p.calls) + 1
        loads == p.platform = "ios"
    IN [p EXCEPT !.opening = @ \union {m},
                 !.calls = Append(@, [by |-> by, input |-> input,
                                      stage |-> IF loads THEN "loading" ELSE "asked"]),
                 !.posted = IF loads THEN @ ELSE Append(@, StartCapturing(m))]

-----------------------------------------------------------------------------
(* The preview.                                                            *)

Cancelled(p, i) == ~p.up \/ p.inputs[i].life # p.life
Stale(p, i) == Cancelled(p, i) \/ p.inputs[i].generation # p.generation
At(p, i, stage) == [p EXCEPT !.inputs[i].stage = stage]
InputEnds(p, i) == [p EXCEPT !.inputs[i] = NoInput]

DropActive(p) == [CloseMicrophone(p, p.active) EXCEPT !.active = NoMike]

OpenInput(p) ==
    LET q == DropActive([p EXCEPT !.generation = @ + 1]) IN
    [q EXCEPT !.inputs = Append(@, [stage |-> "wake", life |-> q.life,
                                    generation |-> q.generation, mike |-> NoMike])]

\* The preview listens to the denial and tries again once it is gone.
ClearDenial(p) ==
    LET q == [p EXCEPT !.denied = FALSE] IN
    IF p.denied /\ p.up /\ p.active = NoMike THEN OpenInput(q) ELSE q

Report(p, denied) == [p EXCEPT !.denied = @ \/ denied]

InputOpened(p, i, m) ==
    CASE Stale(p, i) -> InputEnds(CloseMicrophone(p, m), i)
      [] ~Stale(p, i) /\ p.inputs[i].stage = "open" ->
           ClearDenial([p EXCEPT !.active = m, !.inputs[i].mike = m,
                                 !.inputs[i].stage = "relist"])
      [] OTHER -> InputEnds([p EXCEPT !.active = m], i)

-----------------------------------------------------------------------------
(* What an opening comes to, and what its user does with it.               *)

Opened(p, m) ==
    LET q == [p EXCEPT !.opening = @ \ {m}, !.sources = @ \union {m},
                       !.calls[m] = NobodyAsks]
        by == p.calls[m].by
    IN CASE by = "take" -> ClearDenial([q EXCEPT !.takes = @ \union {m}])
         [] by = "check" -> ClearDenial([CloseMicrophone(q, m) EXCEPT !.checking = "no"])
         [] OTHER -> InputOpened(q, p.calls[m].input, m)

Failed(p, m, denied) ==
    LET q == StopCapture([p EXCEPT !.opening = @ \ {m}, !.tracks = @ \ {m},
                                   !.calls[m] = NobodyAsks])
        by == p.calls[m].by
    IN CASE by = "take" -> Report(q, denied)
         [] by = "check" -> Report([q EXCEPT !.checking = "no"], denied)
         [] OTHER -> LET i == p.calls[m].input IN
                     InputEnds(IF Cancelled(q, i) THEN q ELSE Report(q, denied), i)

-----------------------------------------------------------------------------
(* The page.                                                               *)

Mike == UNCHANGED capture

PreviewOpens ==
    /\ ~mikes.up
    /\ mikes' = OpenInput([mikes EXCEPT !.up = TRUE, !.life = @ + 1, !.generation = 0])
    /\ Mike

PreviewCloses ==
    /\ mikes.up
    /\ mikes' = DropActive([mikes EXCEPT !.up = FALSE])
    /\ Mike

\* Another device is chosen, or the chosen one is lost.
DeviceChosen ==
    /\ mikes.up
    /\ mikes' = OpenInput(mikes)
    /\ Mike

\* What the preview waits for may fail as well: then its error is all there is.
ClockAwake(i) ==
    /\ mikes.inputs[i].stage = "wake"
    /\ \/ mikes' = InputEnds(mikes, i)
       \/ ~Stale(mikes, i) /\ mikes' = At(mikes, i, "list")
    /\ Mike

DevicesListed(i) ==
    /\ mikes.inputs[i].stage = "list"
    /\ \/ mikes' = InputEnds(mikes, i)
       \/ ~Stale(mikes, i) /\ mikes' = OpenMicrophone(At(mikes, i, "open"), "preview", i)
    /\ Mike

\* The names of the devices are known only now: another may be the one to use.
DevicesListedAgain(i) ==
    LET input == mikes.inputs[i] IN
    /\ input.stage = "relist"
    /\ \/ mikes' = InputEnds(mikes, i)
       \/ /\ ~Stale(mikes, i) /\ mikes.active = input.mike
          /\ mikes' = OpenMicrophone(At(DropActive(mikes), i, "reopen"), "preview", i)
    /\ Mike

TakeOpens ==
    /\ mikes' = OpenMicrophone(mikes, "take", 0)
    /\ Mike

TakeCloses(m) ==
    /\ m \in mikes.takes
    /\ mikes' = CloseMicrophone([mikes EXCEPT !.takes = @ \ {m}], m)
    /\ Mike

\* Only one check at a time; on Android it asks without opening anything.
Recheck ==
    /\ mikes.checking = "no" /\ mikes.denied
    /\ mikes' = IF mikes.platform = "android" THEN [mikes EXCEPT !.checking = "access"]
                ELSE OpenMicrophone([mikes EXCEPT !.checking = "open"], "check", 0)
    /\ Mike

AccessChecked ==
    /\ mikes.checking = "access"
    /\ LET p == [mikes EXCEPT !.checking = "no"] IN
       mikes' = IF capture.access = "granted" THEN ClearDenial(p) ELSE p
    /\ Mike

ModuleLoaded(m) ==
    /\ mikes.calls[m].stage = "loading"
    /\ \/ mikes' = [mikes EXCEPT !.calls[m].stage = "asked", !.posted = Append(@, StartCapturing(m))]
       \/ mikes' = Failed(mikes, m, FALSE)
    /\ Mike

\* The native side has answered: on a phone the worklet has to be ready as well.
AnswerHeard ==
    /\ capture.answers # <<>>
    /\ LET answer == Head(capture.answers)
           m == answer.mike
           p == [mikes EXCEPT !.calls[m].stage = "ready",
                              !.session = IF mikes.platform = "android" THEN answer.session ELSE @,
                              !.graph = mikes.platform = "ios",
                              !.tracks = IF mikes.platform = "web" THEN @ \union {m} ELSE @]
       IN mikes' = IF answer.ok THEN p ELSE Failed(mikes, m, answer.denied)
    /\ capture' = [capture EXCEPT !.answers = Tail(@)]

\* On Android no timed audio is a failure; elsewhere the wait just ends.
MikeReady(m) ==
    /\ mikes.calls[m].stage = "ready"
    /\ \/ mikes' = Opened(mikes, m)
       \/ mikes.platform = "android" /\ mikes' = Failed(mikes, m, FALSE)
    /\ Mike

\* A chunk of the capture that runs; whose session it is, decides.
ChunkHeard ==
    /\ mikes.platform = "ios" /\ mikes.graph /\ capture.running
    /\ capture.session >= mikes.minimum /\ mikes.current # capture.session
    /\ mikes' = [mikes EXCEPT !.current = capture.session]
    /\ Mike

-----------------------------------------------------------------------------
(* The native side.                                                        *)

StartAnswer(m, ok, denied, session) ==
    [mike |-> m, ok |-> ok, denied |-> denied, session |-> session]

\* A capture that runs is shared; one that does not start leaves none.
BeginCapture(n, m) ==
    LET session == IF n.running THEN n.session ELSE n.session + 1 IN
    [n EXCEPT !.running = TRUE, !.session = session,
              !.answers = Append(@, StartAnswer(m, TRUE, FALSE, session))]

\* On Android one that runs is answered for; on iOS it is started all the same,
\* and halted for all of its users if that fails.
BeginFails(n, m) ==
    [n EXCEPT !.running = FALSE, !.session = IF n.running THEN @ ELSE @ + 1,
              !.faults = @ + 1,
              !.halted = @ \/ n.running,
              !.answers = Append(@, StartAnswer(m, FALSE, FALSE, 0))]

MayFail(n) == n.faults < MikeFaults /\ (mikes.platform = "android" => ~n.running)

Begins(n, m) == {BeginCapture(n, m)} \union (IF MayFail(n) THEN {BeginFails(n, m)} ELSE {})
Refuse(n, m, denied) == [n EXCEPT !.answers = Append(@, StartAnswer(m, FALSE, denied, 0))]

Received(n, message) ==
    CASE message.type = "stop" -> {[n EXCEPT !.running = FALSE, !.generation = @ + 1]}
      [] message.type = "start" /\ mikes.platform = "android" /\ n.access = "granted" ->
           Begins(n, message.mike)
      [] OTHER -> {[n EXCEPT !.waiting = Append(@, [mike |-> message.mike,
                                                    generation |-> n.generation])]}

MessageReceived ==
    /\ mikes.posted # <<>>
    /\ capture' \in Received(capture, Head(mikes.posted))
    /\ mikes' = [mikes EXCEPT !.posted = Tail(@)]

Decided(granted) == IF granted THEN "granted" ELSE "denied"

\* Those who wait are answered in their order: a capture that starts is shared
\* by all behind, one that runs by all.
BeginAll(n, failing) ==
    LET starts == failing < Len(n.waiting)
        session == IF n.running THEN n.session
                   ELSE n.session + failing + (IF starts THEN 1 ELSE 0)
        answer(k) == IF k <= failing THEN StartAnswer(n.waiting[k].mike, FALSE, FALSE, 0)
                     ELSE StartAnswer(n.waiting[k].mike, TRUE, FALSE, session)
    IN [n EXCEPT !.running = @ \/ starts, !.session = session, !.faults = @ + failing,
                 !.answers = @ \o [k \in DOMAIN n.waiting |-> answer(k)],
                 !.waiting = <<>>]

RefuseAll(n) ==
    [n EXCEPT !.answers = @ \o [k \in DOMAIN n.waiting |->
                                  StartAnswer(n.waiting[k].mike, FALSE, TRUE, 0)],
              !.waiting = <<>>]

\* Android asks once for all who wait.
AndroidAllows(granted) ==
    LET n == [capture EXCEPT !.access = Decided(granted)]
    IN /\ mikes.platform = "android" /\ capture.waiting # <<>>
       /\ \/ /\ granted
             /\ \E failing \in 0..Len(n.waiting) :
                  /\ n.faults + failing <= MikeFaults /\ (n.running => failing = 0)
                  /\ capture' = BeginAll(n, failing)
          \/ ~granted /\ capture' = RefuseAll(n)
       /\ UNCHANGED mikes

\* iOS answers each start by itself, in any order, and drops those from before a
\* stop; what the user decided stays for as long as the app runs.
IosAllows(granted) ==
    /\ mikes.platform = "ios" /\ capture.access \in {"unasked", Decided(granted)}
    /\ \E k \in DOMAIN capture.waiting :
         LET start == capture.waiting[k]
             n == [capture EXCEPT !.waiting = RemoveAt(@, k), !.access = Decided(granted)]
         IN capture' \in IF start.generation # n.generation
                           THEN {Refuse(n, start.mike, FALSE)}
                         ELSE IF granted THEN Begins(n, start.mike)
                         ELSE {Refuse(n, start.mike, TRUE)}
    /\ UNCHANGED mikes

\* A browser gives each its own stream, in any order.
WebAllows(granted) ==
    /\ mikes.platform = "web"
    /\ \E k \in DOMAIN capture.waiting :
         LET start == capture.waiting[k]
             n == [capture EXCEPT !.waiting = RemoveAt(@, k)]
         IN capture' = [n EXCEPT !.answers = Append(@, StartAnswer(start.mike, granted, ~granted, 0))]
    /\ UNCHANGED mikes

\* The user allows it in the settings of the phone.
SettingsAllow ==
    /\ mikes.platform = "android" /\ capture.access = "denied" /\ capture.waiting = <<>>
    /\ capture' = [capture EXCEPT !.access = "granted"]
    /\ UNCHANGED mikes

-----------------------------------------------------------------------------
MikeStep ==
    \/ PreviewOpens \/ PreviewCloses \/ DeviceChosen
    \/ \E i \in DOMAIN mikes.inputs : ClockAwake(i) \/ DevicesListed(i) \/ DevicesListedAgain(i)
    \/ TakeOpens \/ Recheck \/ AccessChecked
    \/ \E m \in DOMAIN mikes.calls : TakeCloses(m) \/ ModuleLoaded(m) \/ MikeReady(m)
    \/ AnswerHeard \/ ChunkHeard \/ MessageReceived \/ SettingsAllow
    \/ \E granted \in BOOLEAN :
         AndroidAllows(granted) \/ IosAllows(granted) \/ WebAllows(granted)

\* As many inputs and microphones as the bounds allow are opened.
MikeNext ==
    /\ MikeStep
    /\ Len(mikes'.inputs) <= InputCount /\ Len(mikes'.calls) <= OpeningCount

MikeSpec == MikeInit /\ [][MikeNext]_mikeVars

-----------------------------------------------------------------------------
\* What reaches the page of the capture is what it lets through.
Hears(m) ==
    CASE mikes.platform = "web" -> m \in mikes.tracks
      [] mikes.platform = "android" ->
           capture.running /\ mikes.session = capture.session
      [] mikes.platform = "ios" ->
           capture.running /\ mikes.graph /\ capture.session >= mikes.minimum

Capturing == capture.running \/ mikes.tracks # {}

\* However the preview, the takes and the check open and close their microphones
\* across one another: an open microphone has an owner who will close it, it is
\* heard, unless an opening that failed on iOS has halted the capture of all
\* (MicrophoneCapture.swift start), and once nobody has one nor asks for one the
\* capture stops (stopCapture of android.ts and native.ts, preview.ts openInput).
MicrophonesShared ==
    /\ \A m \in mikes.sources :
         /\ m = mikes.active \/ m \in mikes.takes
         /\ Hears(m) \/ capture.halted
    /\ mikes.sources = {} /\ mikes.opening = {} /\ mikes.posted = <<>> => ~Capturing
=============================================================================
