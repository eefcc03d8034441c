------------------------------ MODULE StageUnits ------------------------------
(***************************************************************************)
(* How the units of one separation attempt come back from the executor:    *)
(* the runner names one unit after another, the executor's page computes   *)
(* it and PUTs its outputs, and the handler of each PUT receives a file,   *)
(* marks the output accepted and, with the last output, folds the unit.    *)
(*                                                                         *)
(* The page sends one PUT at a time.  A connection may break at any moment *)
(* and the browser may then send the same PUT anew; the handler of the     *)
(* broken one is dropped, at any await, at once or when its end is noticed.*)
(* Until then two handlers work on the same files.                         *)
(***************************************************************************)
EXTENDS Integers, FiniteSets, Sequences

CONSTANTS UnitCount,    \* units of the plan
          NextUnit,     \* the unit a restored attempt goes on with
          Outputs,      \* outputs the stage declares
          Handlers,     \* bound: PUT handlers alive at once
          MaxBreaks,    \* bound: connections that break
          Nobody        \* no handler

ASSUME UnitsAssumption ==
    /\ UnitCount \in Nat
    /\ NextUnit \in 0..(UnitCount - 1)
    /\ Outputs # {}
    /\ Nobody \notin Handlers
    /\ Handlers \intersect {"none", "cut", "whole"} = {}
    /\ MaxBreaks \in Nat

UnitIndices == 0..(UnitCount - 1)
Keys == UnitIndices \X Outputs

VARIABLES
    \* the session's stage
    accepted,     \* StageState.accepted
    foldedUnits,  \* StageState.folded
    added,        \* what has been added to the fold of each unit, in order
    \* the files of the attempt's incoming directory
    part, ready,  \* per output: "none", "cut", "whole", or the handler writing it
    \* the PUT handlers
    handler,
    \* the runner and the page
    sent,         \* the unit the runner has sent last, whose fold it awaits
    serving,      \* the unit the page serves
    todo,         \* the outputs of it that are not stored yet
    asked,        \* the output of the PUT under way and the handler it reached
    failed,       \* the page has failed the job
    breaks,
    \* history
    overlapped,   \* outputs two handlers have worked on at once
    lostFold      \* units whose folding handler did not come to the fold

stageVars == <<accepted, foldedUnits, added>>
incomingVars == <<part, ready>>
pageVars == <<sent, serving, todo, asked, failed, breaks>>
historyVars == <<overlapped, lostFold>>
unitVars == <<stageVars, incomingVars, handler, pageVars, historyVars>>

Idle == [pc |-> "idle"]
At(pc, k) == [pc |-> pc, key |-> k]
NotAsked == [output |-> "none", by |-> Nobody]

UnitsInit ==
    /\ accepted = {}
    /\ foldedUnits = 0..(NextUnit - 1)
    /\ added = [u \in UnitIndices |-> <<>>]
    /\ part = [k \in Keys |-> "none"]
    /\ ready = [k \in Keys |-> "none"]
    /\ handler = [h \in Handlers |-> Idle]
    /\ sent = NextUnit
    /\ serving = NextUnit
    /\ todo = Outputs
    /\ asked = NotAsked
    /\ failed = FALSE
    /\ breaks = 0
    /\ overlapped = {}
    /\ lostFold = {}

KeysOf(u) == {u} \X Outputs
In(h, pc) == handler[h].pc = pc
Unit(h) == handler[h].key[1]
WorkingOn(k) == {h \in Handlers : ~In(h, "idle") /\ handler[h].key = k}

\* The handler goes on, with the rest of what it carries unchanged.
Goes(h, pc) == handler' = [handler EXCEPT ![h].pc = pc]

-----------------------------------------------------------------------------
(* The runner and the page.                                                 *)

\* Mutant: the runner does not wait for the fold.
SendUnitAhead ==
    /\ sent + 1 \in UnitIndices
    /\ ~failed
    /\ sent' = sent + 1
    /\ UNCHANGED <<stageVars, incomingVars, handler, serving, todo, asked, failed,
                   breaks, historyVars>>

\* The runner saw the fold of the unit it sent, and sends the next one.
SendUnit ==
    /\ sent \in foldedUnits
    /\ sent + 1 \in UnitIndices
    /\ ~failed
    /\ sent' = sent + 1
    /\ UNCHANGED <<stageVars, incomingVars, handler, serving, todo, asked, failed,
                   breaks, historyVars>>

\* StageUnits::target: what the handler of a PUT does with the body.
Target(k) ==
    CASE k[1] \in foldedUnits -> "stored"
      [] k[1] \notin foldedUnits /\ k \in accepted -> "compare"
      [] OTHER -> "create"

\* The page PUTs an output, for the first time or after a break.
Put(h, o) ==
    LET k == <<serving, o>> IN
    /\ ~failed
    /\ serving <= sent
    /\ In(h, "idle")
    /\ asked.by = Nobody
    /\ o \in IF asked = NotAsked THEN todo ELSE {asked.output}
    /\ asked' = [output |-> o, by |-> h]
    /\ handler' = [handler EXCEPT ![h] = At(Target(k), k)]
    /\ overlapped' = IF WorkingOn(k) = {} THEN overlapped ELSE overlapped \union {k}
    /\ UNCHANGED <<stageVars, incomingVars, sent, serving, todo, failed, breaks, lostFold>>

\* The connection of the PUT under way breaks before the page has its answer.
Break ==
    /\ asked.by # Nobody
    /\ breaks < MaxBreaks
    /\ breaks' = breaks + 1
    /\ asked' = [asked EXCEPT !.by = Nobody]
    /\ UNCHANGED <<stageVars, incomingVars, handler, sent, serving, todo, failed, historyVars>>

\* The page learns that the output is stored; with the last one it is done with
\* the unit and serves the next, if there is one.
Stored(h) ==
    /\ In(h, "stored")
    /\ asked.by = h
    /\ handler' = [handler EXCEPT ![h] = Idle]
    /\ asked' = NotAsked
    /\ IF todo = {asked.output}
         THEN serving' = serving + 1 /\ todo' = Outputs
         ELSE serving' = serving /\ todo' = todo \ {asked.output}
    /\ UNCHANGED <<stageVars, incomingVars, sent, failed, breaks, historyVars>>

\* A refused PUT, or a break without a second try, fails the page's job.
FailJob ==
    /\ ~failed
    /\ \/ asked.by # Nobody /\ In(asked.by, "refused")
       \/ asked.by = Nobody /\ asked # NotAsked
    /\ failed' = TRUE
    /\ asked' = NotAsked
    /\ UNCHANGED <<stageVars, incomingVars, handler, sent, serving, todo, breaks, historyVars>>

-----------------------------------------------------------------------------
(* receive_output: each action is one stretch between two awaits.           *)

\* File::create truncates the part that another handler may be writing.
Create(h) ==
    /\ In(h, "create")
    /\ part' = [part EXCEPT ![handler[h].key] = h]
    /\ Goes(h, "body")
    /\ UNCHANGED <<stageVars, ready, pageVars, historyVars>>

\* The file that h has truncated last, wherever it has been renamed to, becomes c.
Written(h, file, c) == [k \in Keys |-> IF file[k] = h THEN c ELSE file[k]]

Receive(h) ==
    /\ In(h, "body")
    /\ part' = Written(h, part, "whole")
    /\ ready' = Written(h, ready, "whole")
    /\ Goes(h, "promote")
    /\ UNCHANGED <<stageVars, pageVars, historyVars>>

\* Mutant: a body that ends early is taken for whole.
CutShortPromoted(h) ==
    /\ In(h, "body")
    /\ part' = Written(h, part, "cut")
    /\ ready' = Written(h, ready, "cut")
    /\ Goes(h, "promote")
    /\ UNCHANGED <<stageVars, pageVars, historyVars>>

\* The file cannot be written, or the body of a broken connection ends early.
CutShort(h) ==
    /\ \/ In(h, "create")
       \/ In(h, "body")
    /\ part' = Written(h, part, "cut")
    /\ ready' = Written(h, ready, "cut")
    /\ Goes(h, "remove")
    /\ UNCHANGED <<stageVars, pageVars, historyVars>>

RemovePart(h) ==
    /\ In(h, "remove")
    /\ part' = [part EXCEPT ![handler[h].key] = "none"]
    /\ Goes(h, "refused")
    /\ UNCHANGED <<stageVars, ready, pageVars, historyVars>>

\* The bytes of an output are the same in every PUT of it.
Compare(h) ==
    /\ In(h, "compare")
    /\ Goes(h, IF ready[handler[h].key] = "whole" THEN "stored" ELSE "refused")
    /\ UNCHANGED <<stageVars, incomingVars, pageVars, historyVars>>

Promote(h) ==
    LET k == handler[h].key IN
    /\ In(h, "promote")
    /\ IF part[k] = "none"
         THEN Goes(h, "refused") /\ UNCHANGED incomingVars
         ELSE /\ Goes(h, "mark")
              /\ part' = [part EXCEPT ![k] = "none"]
              /\ ready' = [ready EXCEPT ![k] = part[k]]
    /\ UNCHANGED <<stageVars, pageVars, historyVars>>

\* Mutant: whether every output is there is asked before this one is entered.
MarkBefore(h) ==
    LET k == handler[h].key IN
    /\ In(h, "mark")
    /\ k[1] \notin foldedUnits
    /\ accepted' = accepted \union {k}
    /\ IF KeysOf(k[1]) \subseteq accepted
         THEN handler' = [handler EXCEPT ![h] =
                  [pc |-> "read", key |-> k, got |-> {}, whole |-> TRUE]]
         ELSE Goes(h, "stored")
    /\ UNCHANGED <<foldedUnits, added, incomingVars, pageVars, historyVars>>

\* mark_accepted, and the first look of fold at what has been folded.
Mark(h) ==
    LET k == handler[h].key IN
    /\ In(h, "mark")
    /\ \/ /\ k[1] \in foldedUnits
          /\ Goes(h, "stored")
          /\ UNCHANGED accepted
       \/ /\ k[1] \notin foldedUnits
          /\ accepted' = accepted \union {k}
          /\ IF KeysOf(k[1]) \subseteq accepted'
               THEN handler' = [handler EXCEPT ![h] =
                        [pc |-> "read", key |-> k, got |-> {}, whole |-> TRUE]]
               ELSE Goes(h, "stored")
    /\ UNCHANGED <<foldedUnits, added, incomingVars, pageVars, historyVars>>

\* A file may be there or may not; a read may fail.
Read(h, o) ==
    LET file == ready[<<Unit(h), o>>] IN
    /\ In(h, "read")
    /\ o \notin handler[h].got
    /\ file # "none"
    /\ handler' = [handler EXCEPT ![h].got = @ \union {o},
                                  ![h].whole = @ /\ file = "whole"]
    /\ UNCHANGED <<stageVars, incomingVars, pageVars, historyVars>>

ReadFails(h) ==
    /\ In(h, "read")
    /\ handler[h].got # Outputs
    /\ Goes(h, "refused")
    /\ lostFold' = lostFold \union {Unit(h)}
    /\ UNCHANGED <<stageVars, incomingVars, pageVars, overlapped>>

\* Mutant: what has been folded meanwhile is not looked at once more.
AddAgain(h) ==
    LET u == Unit(h) IN
    /\ In(h, "read")
    /\ handler[h].got = Outputs
    /\ added' = [added EXCEPT ![u] = Append(@, handler[h].whole)]
    /\ foldedUnits' = foldedUnits \union {u}
    /\ accepted' = accepted \ KeysOf(u)
    /\ Goes(h, "clean")
    /\ UNCHANGED <<incomingVars, pageVars, historyVars>>

\* The fold, both locks held.  A chunk that is not whole counts as added, too:
\* where it is shorter than its unit the code panics instead.
AddUnit(h) ==
    LET u == Unit(h) IN
    /\ In(h, "read")
    /\ handler[h].got = Outputs
    /\ \/ /\ u \in foldedUnits
          /\ Goes(h, "stored")
          /\ UNCHANGED stageVars
       \/ /\ u \notin foldedUnits
          /\ added' = [added EXCEPT ![u] = Append(@, handler[h].whole)]
          /\ foldedUnits' = foldedUnits \union {u}
          /\ accepted' = accepted \ KeysOf(u)
          /\ Goes(h, "clean")
    /\ UNCHANGED <<incomingVars, pageVars, historyVars>>

\* The directory of the unit goes; its removal may fail, which nobody looks at.
Clean(h) ==
    /\ In(h, "clean")
    /\ \/ /\ part' = [k \in Keys |-> IF k \in KeysOf(Unit(h)) THEN "none" ELSE part[k]]
          /\ ready' = [k \in Keys |-> IF k \in KeysOf(Unit(h)) THEN "none" ELSE ready[k]]
       \/ UNCHANGED incomingVars
    /\ Goes(h, "stored")
    /\ UNCHANGED <<stageVars, pageVars, historyVars>>

\* A handler whose connection is gone is dropped at the await it stands at.
DropHandler(h) ==
    /\ ~In(h, "idle")
    /\ asked.by # h
    /\ handler' = [handler EXCEPT ![h] = Idle]
    /\ part' = Written(h, part, "cut")
    /\ ready' = Written(h, ready, "cut")
    /\ lostFold' = IF In(h, "read") THEN lostFold \union {Unit(h)} ELSE lostFold
    /\ UNCHANGED <<stageVars, pageVars, overlapped>>

Handle(h) ==
    \/ Create(h) \/ Receive(h) \/ RemovePart(h) \/ Compare(h)
    \/ Promote(h) \/ Mark(h) \/ AddUnit(h) \/ Clean(h)
    \/ \E o \in Outputs : Read(h, o)

Page == Break \/ FailJob \/ \E h \in Handlers : Stored(h) \/ \E o \in Outputs : Put(h, o)

UnitsNext ==
    \/ SendUnit
    \/ Page
    \/ \E h \in Handlers : Handle(h) \/ CutShort(h) \/ ReadFails(h) \/ DropHandler(h)

UnitsSpec == UnitsInit /\ [][UnitsNext]_unitVars

\* The runner and the handlers are tasks that nothing holds up, the page goes on
\* with what it is answered, and the end of a broken connection is noticed.
FairSpec ==
    /\ UnitsSpec
    /\ WF_unitVars(SendUnit)
    /\ \A h \in Handlers :
         /\ WF_unitVars(Handle(h) \/ ReadFails(h))
         /\ WF_unitVars(DropHandler(h))
         /\ WF_unitVars(Stored(h))
    /\ WF_unitVars(FailJob \/ \E h \in Handlers, o \in Outputs : Put(h, o))

-----------------------------------------------------------------------------
(* Properties.                                                              *)

\* However often an output comes and however its handlers overlap, a unit is
\* added to the fold at most once, and exactly when it counts as folded; and
\* what is added is whole unless two handlers have shared a part file of it.
AddedOnce ==
    \A u \in NextUnit..(UnitCount - 1) :
        /\ Len(added[u]) = IF u \in foldedUnits THEN 1 ELSE 0
        /\ KeysOf(u) \intersect overlapped = {} => added[u] \in {<<>>, <<TRUE>>}

\* The folded units are the first of the plan, so that their number, which
\* next_unit gives, names the unit to go on with.
FoldedPrefix == foldedUnits = 0..(Cardinality(foldedUnits) - 1)

\* An accepted output of a unit that is not folded has a file to compare a second
\* PUT with, whole unless two handlers have shared it.
AcceptedStored ==
    \A k \in accepted :
        /\ k[1] \notin foldedUnits
        /\ ready[k] # "none"
        /\ k \notin overlapped => ready[k] = "whole"

Folding(u) == \E h \in Handlers : In(h, "read") /\ Unit(h) = u

\* A unit whose outputs the page was told are stored is folded or being folded,
\* unless a handler was cut off between accepting its last output and the fold.
DeliveredFolds ==
    \A u \in NextUnit..(serving - 1) : u \in foldedUnits \/ Folding(u) \/ u \in lostFold

\* "the unit should fold after the retry" (stage_units/tests.rs): a unit whose
\* outputs the page was told are stored is folded or being folded.
RetriedUnitFolds ==
    \A u \in NextUnit..(serving - 1) : u \in foldedUnits \/ Folding(u)

\* The attempt comes to its end: every unit is folded or the job fails, unless a
\* handler was cut off between accepting a unit's last output and the fold.
AttemptEnds == <>(foldedUnits = UnitIndices \/ failed \/ lostFold # {})
=============================================================================
