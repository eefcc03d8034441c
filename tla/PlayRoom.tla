------------------------------- MODULE PlayRoom -------------------------------
(***************************************************************************)
(* The player that the members of a room share: one of them plays, the     *)
(* others follow it, and everybody may seek.  A member is two threads: the *)
(* decoder worker, which holds the socket and reports the position while   *)
(* it plays, and the main thread.  The server handles a message of a       *)
(* member under the lock of the rooms.                                     *)
(*                                                                         *)
(* A position is the number of the seek it follows from: how far the song  *)
(* has moved on since is left out, and a member that plays may report at   *)
(* any time.  Recording is playing here (TakeRecorder has its steps).      *)
(***************************************************************************)
EXTENDS Naturals, Sequences

CONSTANTS
    MemberCount,    \* members of the room
    PressCount,     \* plays, stops, seeks and holds of all of them, at most
    ComingCount     \* pages that are opened or closed, at most

ASSUME PlayRoomAssumption ==
    MemberCount \in Nat /\ PressCount \in Nat /\ ComingCount \in Nat

VARIABLES
    member,     \* the page of every member
    net,        \* what is under way: to the server, to the decoder, to the page
    shared,     \* the player of the room
    history     \* what was pressed, and which messages have crossed

roomVars == <<member, net, shared, history>>

Members == 1..MemberCount
NoMaster == 0
Nowhere == PressCount + 1     \* no position
Page == [here |-> TRUE, playing |-> FALSE, slave |-> FALSE, at |-> 0,
         moved |-> FALSE, revision |-> 0, command |-> FALSE, waking |-> FALSE,
         awaits |-> "nothing", sync |-> <<>>,
         known |-> 0, reports |-> FALSE, told |-> [at |-> 0, revision |-> 0]]
NoMail == [up |-> <<>>, down |-> <<>>, page |-> <<>>]

RoomInit ==
    /\ member = [m \in Members |-> Page]
    /\ net = [m \in Members |-> NoMail]
    /\ shared = [exists |-> FALSE, master |-> NoMaster, at |-> 0, revision |-> 0]
    /\ history = [presses |-> 0, comings |-> 0, seeks |-> 0,
                  late |-> FALSE, overtaken |-> FALSE]

Here == {m \in Members : member[m].here}
Send(n, m, message) == [n EXCEPT ![m].up = Append(@, message)]
Tell(n, who, message) ==
    [m \in Members |-> IF m \in who THEN [n[m] EXCEPT !.down = Append(@, message)]
                                    ELSE n[m]]

-----------------------------------------------------------------------------
(* The user of a page.                                                     *)

Pressed == history' = [history EXCEPT !.presses = @ + 1]
MayPress(m) == member[m].here /\ history.presses < PressCount

\* The claim goes out before the output is awake.
PressPlay(m) ==
    /\ MayPress(m)
    /\ ~member[m].command /\ ~member[m].playing /\ ~member[m].slave
    /\ member' = [member EXCEPT ![m].playing = TRUE, ![m].command = TRUE,
                                ![m].waking = TRUE, ![m].reports = TRUE,
                                ![m].told.at = Nowhere]
    /\ net' = Send(net, m, [kind |-> "play"])
    /\ Pressed /\ UNCHANGED shared

\* The audio thread plays, whatever became of the command meanwhile.
Wakes(m) ==
    /\ member[m].waking
    /\ member' = [member EXCEPT ![m].waking = FALSE, ![m].playing = TRUE,
                                ![m].command = FALSE]
    /\ UNCHANGED <<net, shared, history>>

\* Everybody may stop everybody; the room is told once the audio thread has
\* answered.
PressStop(m) ==
    /\ MayPress(m) /\ ~member[m].command
    /\ member' = [member EXCEPT ![m].playing = FALSE, ![m].slave = FALSE,
                                ![m].command = TRUE, ![m].awaits = "stop"]
    /\ Pressed /\ UNCHANGED <<net, shared>>

\* A seek and a hold of the picture tell the room the position.
PressSeek(m, held) ==
    /\ MayPress(m)
    /\ LET to == IF held THEN member[m].at ELSE history.seeks + 1 IN
         /\ member' = [member EXCEPT ![m].at = to, ![m].moved = TRUE]
         /\ net' = Send(net, m, [kind |-> "move", at |-> to])
         /\ history' = [history EXCEPT !.presses = @ + 1,
                                       !.seeks = IF held THEN @ ELSE @ + 1]
    /\ UNCHANGED shared

\* The player keeps one waiter for the answer of the audio thread: a later
\* stop takes the place of an earlier one.
Follows(p) ==
    [p EXCEPT !.slave = TRUE, !.playing = TRUE, !.command = FALSE, !.moved = FALSE]

Synced(p, state) ==
    [p EXCEPT !.revision = state.revision, !.moved = FALSE, !.slave = state.active,
              !.playing = state.active, !.at = state.at, !.command = FALSE]

Stopped(m) ==
    /\ member[m].awaits # "nothing"
    /\ LET p == [member[m] EXCEPT !.awaits = "nothing", !.sync = <<>>] IN
         CASE member[m].awaits = "stop" ->
                /\ member' = [member EXCEPT ![m] = [p EXCEPT !.command = FALSE,
                                                            !.reports = FALSE]]
                /\ net' = Send(net, m, [kind |-> "stop"])
           [] member[m].awaits = "follow" ->
                member' = [member EXCEPT ![m] = Follows(p)] /\ UNCHANGED net
           [] member[m].awaits = "sync" ->
                /\ member' = [member EXCEPT ![m] = Synced(p, Head(member[m].sync))]
                /\ UNCHANGED net
           [] OTHER -> member' = [member EXCEPT ![m] = p] /\ UNCHANGED net
    \* The state that was waited with puts back the revision that came since.
    /\ history' = [history EXCEPT !.overtaken =
                     @ \/ \E i \in DOMAIN member[m].sync :
                             member[m].sync[i].revision < member[m].revision]
    /\ UNCHANGED shared

-----------------------------------------------------------------------------
(* What the page hears.                                                    *)

\* Mutant: a stop does not free a follower.
HeardStopKept(p, message) ==
    CASE message.kind = "play" ->
           IF p.playing THEN [p EXCEPT !.awaits = "follow"] ELSE Follows(p)
      [] message.kind = "stop" ->
           [p EXCEPT !.playing = FALSE, !.command = FALSE, !.moved = FALSE,
                     !.awaits = "echo"]
      [] message.kind = "sync" ->
           IF message.active /\ p.playing
           THEN [p EXCEPT !.awaits = "sync", !.sync = <<message>>]
           ELSE Synced(p, message)
      [] message.kind = "revision" ->
           [p EXCEPT !.revision = message.revision, !.moved = FALSE]
      [] message.kind = "position" ->
           IF ~message.user /\ (p.moved \/ p.revision # message.revision) THEN p
           ELSE [p EXCEPT !.revision = message.revision, !.moved = FALSE,
                          !.at = message.at]

Heard(p, message) ==
    CASE message.kind = "play" ->
           IF p.playing THEN [p EXCEPT !.awaits = "follow"] ELSE Follows(p)
      [] message.kind = "stop" ->
           [p EXCEPT !.slave = FALSE, !.playing = FALSE, !.command = FALSE,
                     !.moved = FALSE, !.awaits = "echo"]
      [] message.kind = "sync" ->
           IF message.active /\ p.playing
           THEN [p EXCEPT !.awaits = "sync", !.sync = <<message>>]
           ELSE Synced(p, message)
      [] message.kind = "revision" ->
           [p EXCEPT !.revision = message.revision, !.moved = FALSE]
      [] message.kind = "position" ->
           IF ~message.user /\ (p.moved \/ p.revision # message.revision) THEN p
           ELSE [p EXCEPT !.revision = message.revision, !.moved = FALSE,
                          !.at = message.at]

\* A stop, or the state of a room that rests, that crosses a claim stops a
\* member that will be the master.
Halts(message) ==
    message.kind = "stop" \/ (message.kind = "sync" /\ ~message.active)
Claims(m) == \E i \in DOMAIN net[m].up : net[m].up[i].kind = "play"

HearPage(m) ==
    /\ net[m].page # <<>>
    /\ member' = [member EXCEPT ![m] = Heard(@, Head(net[m].page))]
    /\ net' = [net EXCEPT ![m].page = Tail(@)]
    /\ history' = [history EXCEPT !.late =
                     @ \/ (Halts(Head(net[m].page)) /\ Claims(m))]
    /\ UNCHANGED shared

-----------------------------------------------------------------------------
(* The decoder worker.  It notes the revision before the page moves.       *)

HearServer(m) ==
    /\ net[m].down # <<>>
    /\ LET message == Head(net[m].down) IN
         /\ member' = IF message.kind \in {"sync", "position", "revision"}
                      THEN [member EXCEPT ![m].known = message.revision] ELSE member
         /\ net' = [net EXCEPT ![m].down = Tail(@), ![m].page = Append(@, message)]
    /\ UNCHANGED <<shared, history>>

Calm ==
    \A m \in Here : /\ net[m].up = <<>> /\ net[m].down = <<>> /\ net[m].page = <<>>
                    /\ member[m].awaits = "nothing" /\ ~member[m].waking

\* A playhead that stands still is reported once, and the loop of the reports
\* goes on after the stop of another member.  A playing one moves on: of the
\* reports that repeat a position only those are kept that nothing else is
\* under way with and that somebody has not followed.
Reports(m) ==
    LET p == member[m] IN
    /\ p.here /\ p.reports
    /\ \/ p.told.at # p.at
       \/ /\ p.playing /\ ~p.slave
          /\ p.told.revision # p.known \/ (Calm /\ \E n \in Here : member[n].at # p.at)
    /\ member' = [member EXCEPT ![m].told = [at |-> p.at, revision |-> p.known]]
    /\ net' = Send(net, m, [kind |-> "report", at |-> p.at, revision |-> p.known])
    /\ UNCHANGED <<shared, history>>

-----------------------------------------------------------------------------
(* The server.                                                             *)

Active == shared.master # NoMaster
SyncState == [kind |-> "sync", active |-> Active, at |-> shared.at,
              revision |-> shared.revision]
Position(s, user) == [kind |-> "position", at |-> s.at, revision |-> s.revision,
                      user |-> user]
Taken(m) == [net EXCEPT ![m].up = Tail(@)]
Halting(m) ==
    (\E i \in DOMAIN net[m].down : Halts(net[m].down[i]))
        \/ (\E i \in DOMAIN net[m].page : Halts(net[m].page[i]))

ServePlay(m) ==
    /\ net[m].up # <<>> /\ Head(net[m].up).kind = "play"
    /\ IF Active
       THEN /\ shared' = shared
            /\ net' = IF shared.master = m THEN Taken(m)
                      ELSE Tell(Taken(m), {m}, SyncState)
       ELSE /\ shared' = [shared EXCEPT !.exists = TRUE, !.master = m]
            /\ net' = Tell(Taken(m), Here \ {m}, [kind |-> "play"])
    /\ history' = [history EXCEPT !.late = @ \/ (~Active /\ Halting(m))]
    /\ UNCHANGED member

Released(s) == [s EXCEPT !.master = NoMaster]

ServeStop(m) ==
    /\ net[m].up # <<>> /\ Head(net[m].up).kind = "stop"
    /\ shared' = Released(shared)
    /\ net' = Tell(Taken(m), Here, [kind |-> "stop"])
    /\ UNCHANGED <<member, history>>

\* Mutant: the member that seeks is not told the revision.
ServeMoveOthers(m) ==
    /\ net[m].up # <<>> /\ Head(net[m].up).kind = "move"
    /\ IF shared.exists
       THEN LET moved == [shared EXCEPT !.revision = @ + 1, !.at = Head(net[m].up).at] IN
              /\ shared' = moved
              /\ net' = Tell(Taken(m), Here \ {m}, Position(moved, TRUE))
       ELSE shared' = shared /\ net' = Taken(m)
    /\ UNCHANGED <<member, history>>

ServeMove(m) ==
    /\ net[m].up # <<>> /\ Head(net[m].up).kind = "move"
    /\ IF shared.exists
       THEN LET moved == [shared EXCEPT !.revision = @ + 1, !.at = Head(net[m].up).at] IN
              /\ shared' = moved
              /\ net' = Tell(Tell(Taken(m), {m}, [kind |-> "revision",
                                                  revision |-> moved.revision]),
                             Here \ {m}, Position(moved, TRUE))
       ELSE shared' = shared /\ net' = Taken(m)
    /\ UNCHANGED <<member, history>>

\* The position of the master counts when it has heard of the last seek.
ServeReport(m) ==
    /\ net[m].up # <<>> /\ Head(net[m].up).kind = "report"
    /\ LET report == Head(net[m].up)
           moved == [shared EXCEPT !.at = report.at]
       IN CASE ~shared.exists -> shared' = shared /\ net' = Taken(m)
            [] shared.exists /\ shared.master # m ->
                 shared' = shared /\ net' = Tell(Taken(m), {m}, SyncState)
            [] shared.exists /\ shared.master = m /\ report.revision = shared.revision ->
                 shared' = moved /\ net' = Tell(Taken(m), Here \ {m}, Position(moved, FALSE))
            [] OTHER -> shared' = shared /\ net' = Taken(m)
    /\ UNCHANGED <<member, history>>

ServeSync(m) ==
    /\ net[m].up # <<>> /\ Head(net[m].up).kind = "sync"
    /\ shared' = shared
    /\ net' = IF shared.exists THEN Tell(Taken(m), {m}, SyncState) ELSE Taken(m)
    /\ UNCHANGED <<member, history>>

-----------------------------------------------------------------------------
(* A page is closed, and a new one opened in its place.                    *)

Coming == history' = [history EXCEPT !.comings = @ + 1]

\* The room forgets its player with the last member.
Leave(m) ==
    /\ member[m].here /\ history.comings < ComingCount
    /\ member' = [member EXCEPT ![m] = [Page EXCEPT !.here = FALSE]]
    /\ LET left == [net EXCEPT ![m] = NoMail]
           rest == Here \ {m}
       IN IF rest = {}
          THEN /\ net' = left
               /\ shared' = [exists |-> FALSE, master |-> NoMaster, at |-> 0, revision |-> 0]
          ELSE IF shared.master = m
          THEN shared' = Released(shared) /\ net' = Tell(left, rest, [kind |-> "stop"])
          ELSE shared' = shared /\ net' = left
    /\ Coming

Join(m) ==
    /\ ~member[m].here
    /\ member' = [member EXCEPT ![m] = Page]
    /\ net' = Send(net, m, [kind |-> "sync"])
    /\ UNCHANGED <<shared, history>>

RoomSystem(m) ==
    \/ Wakes(m) \/ Stopped(m) \/ HearPage(m) \/ HearServer(m) \/ Reports(m)
    \/ ServePlay(m) \/ ServeStop(m) \/ ServeMove(m) \/ ServeReport(m) \/ ServeSync(m)

RoomNext ==
    \E m \in Members :
        \/ PressPlay(m) \/ PressStop(m)
        \/ \E held \in BOOLEAN : PressSeek(m, held)
        \/ Leave(m) \/ Join(m)
        \/ RoomSystem(m)

RoomWorks == \E m \in Members : RoomSystem(m)
RoomSpec == RoomInit /\ [][RoomNext]_roomVars /\ WF_roomVars(RoomWorks)

-----------------------------------------------------------------------------
\* When nothing is under way exactly those follow who are not the master of the
\* room, whatever claims, stops and pages that come and go crossed (rooms.rs
\* claim_master and stop_player, player/index.ts applyRemoteStop and
\* applyRemotePlayState), and the master plays, unless a stop, or the state of a
\* room that rested, crossed its claim: that stops who has become the master.
SlavesFollow ==
    Calm =>
        /\ \A m \in Here : member[m].slave <=> Active /\ shared.master # m
        /\ Active /\ ~history.late => member[shared.master].playing

\* While somebody plays, everybody comes to where the master is and stays
\* there: no position of before a seek holds out and no follower goes deaf to
\* the positions of after it (rooms.rs set_frame_index, player/index.ts
\* applyRemoteFrameIndex), unless the state of the room was applied so late
\* that it put an older revision back (applyRemoteSyncState).
FollowersConverge ==
    <>[](Active /\ ~history.late /\ ~history.overtaken =>
            \A m \in Here : member[m].at = member[shared.master].at)
=============================================================================
