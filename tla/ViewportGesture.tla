--------------------------- MODULE ViewportGesture ---------------------------
(***************************************************************************)
(* The gestures on the picture of the song: pointers that pan, pinch and   *)
(* drag to zoom, the inertia that goes on after them, the wheel, and the   *)
(* seeks of others that abort them all.  While a hand is on the picture    *)
(* the playback is frozen, and it has to be let go afterwards.             *)
(*                                                                         *)
(* The parts are functions of the record touch, as the handlers are; a     *)
(* move counts when it locks an axis, the picture itself is left out.      *)
(***************************************************************************)
EXTENDS Naturals, FiniteSets

CONSTANTS
    PointerCount,   \* fingers
    WheelCount      \* turns of the wheel and foreign seeks, at most

ASSUME GestureAssumption == PointerCount \in Nat /\ WheelCount \in Nat

VARIABLES
    touch,      \* the gesture
    hand        \* the fingers on the screen, the axes that have a state

gestureVars == <<touch, hand>>

Pointers == 1..PointerCount
Axes == {"x", "y"}
NoPan == [pointer |-> 0, axis |-> "none"]
NoPinch == [fingers |-> {}, axis |-> "none"]

GestureInit ==
    /\ touch = [down |-> {}, pan |-> NoPan, pinch |-> NoPinch, mode |-> "idle",
                frozen |-> FALSE, active |-> "none", pinching |-> "none",
                dragging |-> "none", custom |-> FALSE, inertia |-> "none",
                turned |-> FALSE]
    /\ \E readable \in {{"y"}, Axes} :   \* no song, no position
         hand = [held |-> {}, readable |-> readable, turns |-> 0]

-----------------------------------------------------------------------------
(* The viewport.                                                           *)

Freeze(g) == [g EXCEPT !.frozen = TRUE]
LetGo(g) == [g EXCEPT !.frozen = FALSE, !.turned = FALSE]
Idle(g) == [g EXCEPT !.mode = "idle"]

StopInertia(g) ==
    IF g.inertia = "none" THEN g
    ELSE [g EXCEPT !.inertia = "none", !.active = "none",
                   !.mode = IF @ = "pan-inertia" THEN "idle" ELSE @]

\* A custom pan takes the gesture unless a key makes it a zoom.
PanStarts(g, axis, zoom, custom) ==
    LET still == [StopInertia(g) EXCEPT !.custom = ~zoom /\ custom]
        readable == axis \in hand.readable
    IN Freeze(
         CASE ~zoom /\ custom -> [still EXCEPT !.mode = "custom-pan"]
           [] zoom /\ readable -> [still EXCEPT !.dragging = axis, !.mode = "drag-zoom"]
           [] zoom /\ ~readable -> [Idle(still) EXCEPT !.dragging = "none"]
           [] ~zoom /\ ~custom /\ readable -> [still EXCEPT !.active = axis, !.mode = "pan"]
           [] OTHER -> [Idle(still) EXCEPT !.active = "none"])

PanAborts(g) ==
    LetGo([Idle(g) EXCEPT !.active = "none", !.pinching = "none",
                             !.dragging = "none", !.custom = FALSE])

PanEnds(g, axis, fast) ==
    CASE g.mode = "custom-pan" -> LetGo([Idle(g) EXCEPT !.custom = FALSE])
      [] g.mode = "pan" /\ g.active = axis /\ fast ->
           [g EXCEPT !.mode = "pan-inertia", !.inertia = axis]
      [] OTHER ->
           LetGo([Idle(g) EXCEPT
               !.active = IF g.mode = "pan" /\ @ = axis THEN "none" ELSE @,
               !.dragging = IF g.mode = "drag-zoom" THEN "none" ELSE @])

PinchStarts(g, axis) ==
    LET still == StopInertia(g) IN
    IF axis \in hand.readable
    THEN Freeze([still EXCEPT !.pinching = axis, !.mode = "pinch-zoom"])
    ELSE [Idle(still) EXCEPT !.pinching = "none"]

PinchEnds(g) == LetGo([Idle(g) EXCEPT !.pinching = "none"])

\* A pan that moves nothing is stopped by the viewport.
Moves(g, axis) ==
    \/ g.mode = "custom-pan" /\ g.custom
    \/ g.mode = "pan" /\ g.active = axis
    \/ g.mode = "drag-zoom" /\ g.dragging = axis

-----------------------------------------------------------------------------
(* The pointers.  The trackers tell the viewport of a gesture only once it *)
(* has locked an axis.                                                     *)

EndPan(g, fast) ==
    LET over == [g EXCEPT !.pan = NoPan] IN
    IF g.pan.axis = "none" THEN over ELSE PanEnds(over, g.pan.axis, fast)

AbortPan(g) ==
    LET over == [g EXCEPT !.pan = NoPan] IN
    IF g.pan.axis = "none" THEN over ELSE PanAborts(over)

EndPinch(g) ==
    LET over == [g EXCEPT !.pinch = NoPinch] IN
    IF g.pinch.axis = "none" THEN over ELSE PinchEnds(over)

\* The first finger stops the inertia and freezes, before it is tracked.
PointerDown(p, fast) ==
    /\ p \notin hand.held
    /\ hand' = [hand EXCEPT !.held = @ \cup {p}]
    /\ LET met == IF hand.held = {} THEN Freeze(StopInertia(touch)) ELSE touch
           g == [met EXCEPT !.down = @ \cup {p}]
       IN touch' = CASE Cardinality(g.down) = 1 -> [g EXCEPT !.pan = [pointer |-> p, axis |-> "none"]]
                     [] Cardinality(g.down) = 2 ->
                          [EndPan(g, fast) EXCEPT
                             !.pinch = [fingers |-> g.down, axis |-> "none"]]
                     [] OTHER -> g

\* The document hears of the end of a pointer before the picture does.
Lifted(p, End(_)) ==
    LET rest == IF touch.mode = "idle" /\ touch.inertia = "none"
                THEN LetGo(touch) ELSE touch
        g == [rest EXCEPT !.down = @ \ {p}]
    IN IF p \notin touch.down THEN rest
       ELSE IF p \in g.pinch.fingers THEN EndPinch(g)
       ELSE IF p = g.pan.pointer THEN End(g) ELSE g

PointerUp(p, fast) ==
    /\ p \in hand.held
    /\ hand' = [hand EXCEPT !.held = @ \ {p}]
    /\ touch' = Lifted(p, LAMBDA g : EndPan(g, fast))

PointerCancel(p) ==
    /\ p \in hand.held
    /\ hand' = [hand EXCEPT !.held = @ \ {p}]
    /\ touch' = Lifted(p, AbortPan)

PanLocks(axis, zoom, custom) ==
    /\ touch.pan.pointer # 0 /\ touch.pan.axis = "none"
    /\ LET g == PanStarts([touch EXCEPT !.pan.axis = axis], axis, zoom, custom)
       IN touch' = IF Moves(g, axis) THEN g ELSE AbortPan(g)
    /\ UNCHANGED hand

PanMoves ==
    /\ touch.pan.axis # "none" /\ ~Moves(touch, touch.pan.axis)
    /\ touch' = AbortPan(touch)
    /\ UNCHANGED hand

PinchLocks(axis) ==
    /\ touch.pinch.fingers # {} /\ touch.pinch.axis = "none"
    /\ touch.pinch.fingers \subseteq touch.down
    /\ touch' = PinchStarts([touch EXCEPT !.pinch.axis = axis], axis)
    /\ UNCHANGED hand

\* Mutant: the inertia dies down and nobody lets the playback go.
InertiaEndsFrozen ==
    /\ touch.inertia # "none"
    /\ touch' = [Idle(touch) EXCEPT !.inertia = "none", !.active = "none"]
    /\ UNCHANGED hand

\* The inertia dies down, reaches an edge or finds that it is not wanted.
InertiaEnds ==
    /\ touch.inertia # "none"
    /\ touch' = LetGo([Idle(touch) EXCEPT !.inertia = "none", !.active = "none"])
    /\ UNCHANGED hand

-----------------------------------------------------------------------------
Turned == hand' = [hand EXCEPT !.turns = @ + 1]

\* A turn freezes and releases, also while a finger holds the picture.
Wheel(axis) ==
    /\ hand.turns < WheelCount
    /\ LET still == StopInertia(touch) IN
       touch' = IF axis \in hand.readable
                THEN [LetGo(Freeze(still)) EXCEPT !.turned = TRUE] ELSE still
    /\ Turned

Abort ==
    /\ hand.turns < WheelCount
    /\ LET lifted == [EndPinch(AbortPan(StopInertia(touch))) EXCEPT !.down = {}]
       IN touch' = PanAborts(lifted)
    /\ Turned

GestureNext ==
    \/ \E p \in Pointers, fast \in BOOLEAN : PointerDown(p, fast) \/ PointerUp(p, fast)
    \/ \E p \in Pointers : PointerCancel(p)
    \/ \E axis \in Axes :
         \/ \E zoom, custom \in BOOLEAN : PanLocks(axis, zoom, custom)
         \/ PinchLocks(axis)
         \/ Wheel(axis)
    \/ PanMoves \/ InertiaEnds \/ Abort

GestureSpec == GestureInit /\ [][GestureNext]_gestureVars

-----------------------------------------------------------------------------
\* With no finger on the picture and no inertia the playback of a song is not
\* frozen, and while a gesture or its inertia moves the picture it is, in
\* whatever order fingers, inertia, the wheel and foreign seeks came: only the
\* wheel, turned in the middle of a gesture, lets it go (viewportGesture.ts
\* freeze and releaseFrozen, multiPointerGesture.ts, inertiaRunner.ts).
FreezeReleased ==
    /\ hand.held = {} /\ touch.inertia = "none" /\ hand.readable = Axes => ~touch.frozen
    /\ touch.mode # "idle" => touch.frozen \/ touch.turned
=============================================================================
