---------------------------- MODULE RecordingShelf ----------------------------
(***************************************************************************)
(* The recordings of a project and the page that shows one of them.  The   *)
(* server switches between them, changes the pieces of the active one and  *)
(* tells the room of it; the decoder worker of the page learns the list    *)
(* and the pieces by HTTP, while the events of the room overtake the       *)
(* answers, and loads the pieces anew one time after another.              *)
(*                                                                         *)
(* A list is the number of changes it tells of and the active recording;   *)
(* the pieces of a recording are how often they were changed.  The decoder *)
(* worker is one thread: a load that is queued begins before the next      *)
(* event.  What it posts to the player and to the picture comes in order.  *)
(***************************************************************************)
EXTENDS Naturals, Sequences

CONSTANTS
    EditCount,      \* changes of the recordings and takes, together, at most
    VisitCount      \* times the page opens the project, at most

ASSUME ShelfAssumption == EditCount \in Nat /\ VisitCount \in Nat

VARIABLES
    desk,       \* the server: recordings, the take, what it has to announce
    reader,     \* the decoder worker of the page
    mail,       \* events to the page, messages of it
    slips       \* what was overtaken, lost or failed

shelfVars == <<desk, reader, mail, slips>>

Recordings == {1, 2}
Edits == 1..EditCount
Nothing == 0
NoWork == [at |-> "none", active |-> Nothing, number |-> 0]
NoList == [number |-> 0, active |-> Nothing]
Unmounted == [recording |-> Nothing, version |-> 0]
NoLoad == [at |-> "none", visit |-> 0, recording |-> Nothing, version |-> 0]
Away == [stage |-> "away", joined |-> FALSE, answer |-> NoList,
         known |-> Nothing, heard |-> 0, wanted |-> Nothing, fetched |-> 0,
         mounted |-> Unmounted, onMount |-> [is |-> FALSE, take |-> Nothing],
         player |-> Nothing, picture |-> Nothing, own |-> Nothing,
         queue |-> <<>>, load |-> NoLoad, finished |-> Nothing, visit |-> 0]

NoSlips == [early |-> FALSE, outrun |-> FALSE, dropped |-> FALSE, lost |-> FALSE,
            failed |-> FALSE]

ShelfInit ==
    /\ desk = [active |-> 1, content |-> [r \in Recordings |-> 0], number |-> 0,
               holder |-> "nobody", take |-> Nothing, made |-> 0, ended |-> Nothing,
               wrote |-> FALSE, said |-> FALSE,
               works |-> [k \in Edits |-> NoWork]]
    /\ reader = Away
    /\ mail = [events |-> <<>>, up |-> <<>>]
    /\ slips = NoSlips

-----------------------------------------------------------------------------
(* The server.                                                             *)

MayChange == desk.number + desk.made < EditCount
Shelved == [number |-> desk.number, active |-> desk.active]

\* The room is told: a page that is not yet in it never hears of it.
Announced(event) ==
    /\ mail' = IF reader.joined THEN [mail EXCEPT !.events = Append(@, event)] ELSE mail
    /\ slips' = [slips EXCEPT !.early =
         @ \/ (~reader.joined /\ reader.stage \notin {"away", "listing"}
                              /\ event.kind \in {"list", "changed"})]

Numbered(d, at) ==
    [d EXCEPT !.number = @ + 1,
              !.works[d.number + 1] = [at |-> at, active |-> d.active, number |-> 0]]

\* Another member chooses, creates or deletes a recording.
SwitchRecording ==
    /\ desk.holder = "nobody" /\ MayChange
    /\ \E r \in Recordings \ {desk.active} :
         desk' = Numbered([desk EXCEPT !.active = r], "list")
    /\ UNCHANGED <<reader, mail, slips>>

\* An undo, a redo or a take of a loop: the lock is gone before it is told.
ChangePieces ==
    /\ desk.holder = "nobody" /\ MayChange
    /\ desk' = Numbered([desk EXCEPT !.content[desk.active] = @ + 1], "changed")
    /\ UNCHANGED <<reader, mail, slips>>

TellChanged(k) ==
    /\ desk.works[k].at = "changed"
    /\ desk' = [desk EXCEPT !.works[k].at = "list"]
    /\ Announced([kind |-> "changed", recording |-> desk.works[k].active])
    /\ UNCHANGED reader

\* The list is read and sent without a lock: announcements may cross.
ReadShelf(k) ==
    /\ desk.works[k].at = "list"
    /\ desk' = [desk EXCEPT !.works[k] = [at |-> "say", active |-> desk.active,
                                          number |-> desk.number]]
    /\ UNCHANGED <<reader, mail, slips>>

TellShelf(k) ==
    /\ desk.works[k].at = "say"
    /\ desk' = [desk EXCEPT !.works[k] = NoWork]
    /\ Announced([kind |-> "list", active |-> desk.works[k].active,
                  number |-> desk.works[k].number])
    /\ UNCHANGED reader

\* Another member begins a take.
OthersTake ==
    /\ desk.holder = "nobody" /\ MayChange
    /\ desk' = [desk EXCEPT !.holder = "other", !.made = @ + 1, !.take = desk.made + 1]
    /\ Announced([kind |-> "started", take |-> desk.made + 1, recording |-> desk.active])
    /\ UNCHANGED reader

\* The pieces of the take are committed, if it has any.
TakeEnds(wrote) ==
    /\ desk.take # Nothing
    /\ ~wrote \/ MayChange
    /\ desk' = [desk EXCEPT !.ended = desk.take, !.take = Nothing, !.wrote = wrote,
                            !.content[desk.active] = IF wrote THEN @ + 1 ELSE @,
                            !.number = IF wrote THEN @ + 1 ELSE @]
    /\ UNCHANGED <<reader, mail, slips>>

TellFinished ==
    /\ desk.ended # Nothing /\ ~desk.said
    /\ desk' = IF desk.wrote THEN [desk EXCEPT !.said = TRUE]
               ELSE [desk EXCEPT !.ended = Nothing, !.holder = "nobody"]
    /\ Announced([kind |-> "finished", take |-> desk.ended])
    /\ UNCHANGED reader

TellTaken ==
    /\ desk.said
    /\ desk' = [desk EXCEPT !.ended = Nothing, !.said = FALSE, !.wrote = FALSE, !.holder = "nobody",
                  !.works[desk.number] = [at |-> "list", active |-> desk.active, number |-> 0]]
    /\ Announced([kind |-> "changed", recording |-> desk.active])
    /\ UNCHANGED reader

\* A take of the page begins, unless the recordings are held or it was begun
\* for another recording.
ServeTake ==
    /\ reader.joined /\ mail.up # <<>> /\ Head(mail.up).kind = "start"
    /\ LET start == Head(mail.up)
           rest == [mail EXCEPT !.up = Tail(@)]
       IN IF desk.holder = "nobody" /\ start.recording = desk.active
          THEN /\ desk' = [desk EXCEPT !.holder = "own", !.take = start.take]
               /\ mail' = rest
          ELSE /\ desk' = desk
               /\ mail' = [rest EXCEPT !.events =
                             Append(@, [kind |-> "finished", take |-> start.take])]
    /\ UNCHANGED <<reader, slips>>

\* A page that has opened the project is told of the take that is on.
ServeSyncOf ==
    /\ reader.joined /\ mail.up # <<>> /\ Head(mail.up).kind = "sync"
    /\ LET rest == [mail EXCEPT !.up = Tail(@)] IN
       mail' = IF desk.holder = "other" /\ desk.take # Nothing
               THEN [rest EXCEPT !.events = Append(@,
                       [kind |-> "started", take |-> desk.take, recording |-> desk.active])]
               ELSE rest
    /\ UNCHANGED <<desk, reader, slips>>

-----------------------------------------------------------------------------
(* The loads of the page, one after another.                               *)

Reload(take, switched) == [take |-> take, switched |-> switched]
Queued(r, reload) == [r EXCEPT !.queue = Append(@, reload)]
LoadReady == reader.queue # <<>> /\ reader.load.at = "none"
Mounted(r) == r.mounted # Unmounted
Dequeued(r) == [r EXCEPT !.queue = Tail(@), !.load = NoLoad]

\* A load that was asked for before the project is mounted waits for that; one
\* for a switch that has been taken back is not needed.
LoadBegins ==
    /\ LoadReady
    /\ LET reload == Head(reader.queue)
           needless == reload.switched /\ reader.mounted.recording = reader.known
       IN /\ reader' =
               CASE ~Mounted(reader) ->
                      [Dequeued(reader) EXCEPT !.onMount = [is |-> TRUE, take |-> reload.take]]
                 [] Mounted(reader) /\ needless -> Dequeued(reader)
                 [] OTHER -> [reader EXCEPT !.load = [NoLoad EXCEPT !.at = "asked",
                                !.visit = reader.visit, !.recording = reader.known]]
          /\ slips' = [slips EXCEPT !.lost = @
               \/ (Mounted(reader) /\ needless /\ slips.dropped)
               \/ (~Mounted(reader) /\ reader.onMount.take \notin {Nothing, reload.take})]
    /\ UNCHANGED <<desk, mail>>

LoadRead ==
    /\ reader.load.at = "asked"
    /\ reader' = [reader EXCEPT !.load.at = "read",
                                !.load.version = desk.content[reader.load.recording]]
    /\ UNCHANGED <<desk, mail, slips>>

\* The live take goes with the pieces that hold it and with the recording.
Switches(r, load, reload) == reload.switched \/ r.mounted.recording # load.recording
Laid(r, load, reload) ==
    LET Kept(live) ==
          IF Switches(r, load, reload) \/ live = reload.take THEN Nothing ELSE live
    IN [Dequeued(r) EXCEPT
          !.mounted = [recording |-> load.recording, version |-> load.version],
          !.player = Kept(@), !.picture = Kept(@)]

\* Mutant: what has arrived is shown, whatever has become of the page.
LoadArrivesAlways ==
    /\ reader.load.at = "read"
    /\ reader' = IF Mounted(reader) THEN Laid(reader, reader.load, Head(reader.queue))
                                    ELSE Dequeued(reader)
    /\ UNCHANGED <<desk, mail, slips>>

\* What has arrived for another visit or another recording is not wanted.
LoadArrives ==
    /\ reader.load.at = "read"
    /\ LET load == reader.load
           reload == Head(reader.queue)
           here == Mounted(reader) /\ load.visit = reader.visit
           wanted == here /\ load.recording = reader.known
       IN /\ reader' = IF wanted THEN Laid(reader, load, reload) ELSE Dequeued(reader)
          /\ slips' = [slips EXCEPT !.dropped =
               IF wanted THEN @ /\ ~Switches(reader, load, reload) ELSE @ \/ here]
    /\ UNCHANGED <<desk, mail>>

LoadFails ==
    /\ reader.load.at \in {"asked", "read"} /\ ~slips.failed
    /\ reader' = Dequeued(reader)
    /\ slips' = [slips EXCEPT !.failed = TRUE]
    /\ UNCHANGED <<desk, mail>>

-----------------------------------------------------------------------------
(* What the page hears.                                                    *)

Applied(r, list) ==
    LET told == [r EXCEPT !.known = list.active, !.heard = list.number] IN
    IF Mounted(r) /\ r.known # list.active THEN Queued(told, Reload(Nothing, TRUE)) ELSE told

Outrun(list) == [slips EXCEPT !.outrun = @ \/ list.number < reader.heard]
Lit(r, take) == [r EXCEPT !.player = take, !.picture = take]

HearEventOf ==
    /\ ~LoadReady /\ mail.events # <<>>
    /\ mail' = [mail EXCEPT !.events = Tail(@)]
    /\ LET event == Head(mail.events) IN
         CASE event.kind = "list" ->
                reader' = Applied(reader, event) /\ slips' = Outrun(event)
           [] event.kind = "changed" ->
                /\ reader' = IF event.recording = reader.known
                             THEN Queued(reader, Reload(reader.finished, FALSE)) ELSE reader
                /\ slips' = [slips EXCEPT !.lost =
                     @ \/ (event.recording # reader.known
                            /\ event.recording \in {reader.mounted.recording, reader.wanted,
                                                   reader.load.recording})]
           [] event.kind = "started" ->
                /\ reader' = IF event.recording = reader.known
                             THEN Lit(reader, event.take) ELSE reader
                /\ UNCHANGED slips
           [] event.kind = "finished" ->
                /\ reader' = Queued([reader EXCEPT !.finished = event.take],
                                    Reload(event.take, FALSE))
                /\ UNCHANGED slips
    /\ UNCHANGED desk

-----------------------------------------------------------------------------
(* The page opens and leaves the project.                                  *)

\* The socket is opened and the list is asked for, one beside the other.
OpenProject ==
    /\ reader.stage = "away" /\ reader.visit < VisitCount
    /\ reader' = [reader EXCEPT !.stage = "listing", !.visit = @ + 1]
    /\ UNCHANGED <<desk, mail, slips>>

JoinRoom ==
    /\ reader.stage # "away" /\ ~reader.joined
    /\ reader' = [reader EXCEPT !.joined = TRUE]
    /\ UNCHANGED <<desk, mail, slips>>

ListRead ==
    /\ reader.stage = "listing"
    /\ reader' = [reader EXCEPT !.stage = "listed", !.answer = Shelved]
    /\ UNCHANGED <<desk, mail, slips>>

ListArrives ==
    /\ ~LoadReady /\ reader.stage = "listed"
    /\ reader' = [Applied(reader, reader.answer) EXCEPT
                    !.stage = "asking", !.answer = NoList, !.wanted = reader.answer.active]
    /\ slips' = Outrun(reader.answer)
    /\ UNCHANGED <<desk, mail>>

PiecesRead ==
    /\ reader.stage = "asking"
    /\ reader' = [reader EXCEPT !.stage = "asked", !.fetched = desk.content[reader.wanted]]
    /\ UNCHANGED <<desk, mail, slips>>

\* The player forgets a live take, the picture keeps it; what came meanwhile is
\* loaded anew.
PiecesArrive ==
    /\ ~LoadReady /\ reader.stage = "asked"
    /\ LET laid == [reader EXCEPT !.stage = "mounted", !.player = Nothing,
                      !.wanted = Nothing, !.fetched = 0,
                      !.mounted = [recording |-> reader.wanted, version |-> reader.fetched],
                      !.onMount = [is |-> FALSE, take |-> Nothing]]
       IN reader' = IF reader.onMount.is \/ reader.known # reader.wanted
                    THEN Queued(laid, Reload(reader.onMount.take, FALSE)) ELSE laid
    /\ mail' = [mail EXCEPT !.up = Append(@, [kind |-> "sync"])]
    /\ UNCHANGED <<desk, slips>>

MountFails ==
    /\ ~LoadReady /\ reader.stage \in {"listing", "asked"} /\ ~slips.failed
    /\ reader' = [reader EXCEPT !.stage = "failed"]
    /\ slips' = [slips EXCEPT !.failed = TRUE]
    /\ UNCHANGED <<desk, mail>>

\* Loads that are queued or under way survive the visit, and so does the take
\* that finished last.
CloseProject ==
    /\ ~LoadReady /\ reader.stage \in {"mounted", "failed"}
    /\ reader' = [Away EXCEPT !.queue = reader.queue, !.load = reader.load,
                              !.finished = reader.finished, !.visit = reader.visit]
    /\ mail' = [events |-> <<>>, up |-> <<>>]
    /\ slips' = NoSlips
    /\ UNCHANGED desk

\* A take of the page is shown before the server has accepted it.
OwnTake ==
    /\ ~LoadReady /\ reader.stage = "mounted" /\ MayChange
    /\ reader.own = reader.finished \/ reader.own = Nothing
    /\ LET take == desk.made + 1 IN
         /\ desk' = [desk EXCEPT !.made = take]
         /\ reader' = [Lit(reader, take) EXCEPT !.own = take]
         /\ mail' = [mail EXCEPT !.up = Append(@,
                       [kind |-> "start", take |-> take, recording |-> reader.known])]
    /\ UNCHANGED slips

-----------------------------------------------------------------------------
ShelfNext ==
    \/ SwitchRecording \/ ChangePieces \/ OthersTake
    \/ \E wrote \in BOOLEAN : TakeEnds(wrote)
    \/ TellFinished \/ TellTaken \/ ServeTake \/ ServeSyncOf
    \/ \E k \in Edits : TellChanged(k) \/ ReadShelf(k) \/ TellShelf(k)
    \/ LoadBegins \/ LoadRead \/ LoadArrives \/ LoadFails \/ HearEventOf
    \/ OpenProject \/ JoinRoom \/ ListRead \/ ListArrives
    \/ PiecesRead \/ PiecesArrive \/ MountFails \/ CloseProject
    \/ OwnTake

ShelfSpec == ShelfInit /\ [][ShelfNext]_shelfVars

-----------------------------------------------------------------------------
ShelfQuiet ==
    /\ reader.stage = "mounted" /\ reader.joined
    /\ reader.queue = <<>> /\ mail.events = <<>> /\ mail.up = <<>>
    /\ desk.ended = Nothing
    /\ \A k \in Edits : desk.works[k]= NoWork

\* When everything is told and loaded the page shows the pieces of the active
\* recording as they are, and a live take only while it is sung: no load that
\* was overtaken wins and no take is left over, across visits, switches and
\* takes that finish while the project is being mounted (audioDecode.worker.ts
\* reloadPieces and mount, recordingList.worker.ts, runtime.worker.ts
\* applyTakeEvent).  What may come between: an answer or an announcement that
\* was overtaken by a newer one, a change told before the page was in the room,
\* a load that failed; and, when a switch is taken back, the load of a take that
\* finished there, or a change told of a recording that is mounted, being mounted
\* or being loaded but is not the one chosen just then.
ShelfAgrees ==
    ShelfQuiet /\ slips = [slips EXCEPT !.early = FALSE, !.outrun = FALSE,
                                        !.lost = FALSE, !.failed = FALSE] =>
        /\ reader.mounted = [recording |-> desk.active,
                             version |-> desk.content[desk.active]]
        /\ {reader.player, reader.picture} \subseteq {Nothing, desk.take}
=============================================================================
