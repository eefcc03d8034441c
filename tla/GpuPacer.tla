------------------------------- MODULE GpuPacer -------------------------------
(***************************************************************************)
(* The pacer that stands between a model and the queue of the GPU: during  *)
(* a paced run the work is queued and handed over a little at a time, with *)
(* a wait for the GPU in between; outside of a run it goes straight on.    *)
(*                                                                         *)
(* JavaScript runs one thing at a time: a handler, or what follows a       *)
(* promise, up to its next wait.                                           *)
(***************************************************************************)
EXTENDS Naturals, Sequences

CONSTANTS
    WorkCount,      \* pieces of work the model hands over, at most
    RunCount        \* paced runs, at most

ASSUME PacerAssumption == WorkCount \in Nat /\ RunCount \in Nat

VARIABLES
    pacer,      \* the pacer and what calls it
    gpu         \* the work the GPU was given, and whether it is there

pacerVars == <<pacer, gpu>>

PacerInit ==
    /\ pacer = [active |-> FALSE, released |-> FALSE, failed |-> FALSE,
                pending |-> <<>>, pumping |-> "no", made |-> 0,
                run |-> "none", runs |-> 0, releasing |-> FALSE]
    /\ gpu = [given |-> <<>>, lost |-> FALSE]

Healthy == ~pacer.failed /\ ~pacer.released
Piece(p, submit) == [number |-> p.made + 1, submit |-> submit]

\* Mutant: what is held is dropped, the wait for the GPU goes on.
FailSilently(p) == [p EXCEPT !.failed = TRUE, !.pending = <<>>]

\* What is held is dropped and whoever waits for the GPU is told.
Fail(p) == [p EXCEPT !.failed = TRUE, !.pending = <<>>,
                     !.pumping = IF @ = "fence" THEN "over" ELSE @]

\* Hands over the first n pieces: to a submission after which the GPU is
\* waited for, or to the end, when the budget left room for all of them.
Flush(p, n) ==
    /\ n \in 0..Len(p.pending)
    /\ \/ /\ n > 0 /\ p.pending[n].submit
          /\ pacer' = [p EXCEPT !.pending = SubSeq(@, n + 1, Len(@)), !.pumping = "fence"]
       \/ /\ n = Len(p.pending)
          /\ pacer' = [p EXCEPT !.pending = <<>>, !.pumping = "over"]
    /\ gpu' = [gpu EXCEPT !.given = @ \o SubSeq(p.pending, 1, n)]

Flushes(p) == \E n \in 0..WorkCount : Flush(p, n)

-----------------------------------------------------------------------------
(* The model.                                                              *)

BeginRun ==
    /\ Healthy /\ ~pacer.active /\ pacer.run = "none"
    /\ pacer.runs < RunCount
    /\ pacer' = [pacer EXCEPT !.active = TRUE, !.run = "operating", !.runs = @ + 1]
    /\ UNCHANGED gpu

\* submit, writeBuffer and destroy: queued in a run, behind what is queued.
\* A pacer that has let go of the queue no longer stands in its way.
Call(submit) ==
    /\ pacer.made < WorkCount
    /\ LET piece == Piece(pacer, submit)
           counted == [pacer EXCEPT !.made = @ + 1]
           queued == [counted EXCEPT !.pending = Append(@, piece)]
       IN \/ /\ Healthy /\ pacer.active
             /\ IF pacer.pumping = "no" THEN Flushes(queued)
                ELSE pacer' = queued /\ UNCHANGED gpu
          \/ /\ pacer.released \/ (Healthy /\ ~pacer.active)
             /\ pacer' = counted
             /\ gpu' = [gpu EXCEPT !.given = Append(@, piece)]

\* The operation is over, or a call of it threw: the queue is drained.
EndOperation ==
    /\ pacer.run = "operating"
    /\ pacer' = [pacer EXCEPT !.run = "draining"]
    /\ UNCHANGED gpu

RunDrained ==
    /\ pacer.run = "draining" /\ pacer.pumping = "no"
    /\ pacer' = [pacer EXCEPT !.run = "none", !.active = FALSE]
    /\ UNCHANGED gpu

Release ==
    /\ ~pacer.released /\ ~pacer.releasing
    /\ pacer' = [pacer EXCEPT !.releasing = TRUE]
    /\ UNCHANGED gpu

ReleaseDrained ==
    /\ pacer.releasing /\ pacer.pumping = "no"
    /\ pacer' = [pacer EXCEPT !.releasing = FALSE, !.released = TRUE]
    /\ UNCHANGED gpu

-----------------------------------------------------------------------------
(* The pump and the GPU.                                                   *)

\* The GPU is done with what it was given: the pump goes on.
FenceReached ==
    /\ pacer.pumping = "fence" /\ ~gpu.lost
    /\ Flushes(pacer)

\* Mutant: work that came meanwhile waits for the next call.
PumpSettlesOnce ==
    /\ pacer.pumping = "over"
    /\ pacer' = [pacer EXCEPT !.pumping = "no"]
    /\ UNCHANGED gpu

\* The promise of the pump settles; work that came meanwhile starts it anew.
PumpSettles ==
    /\ pacer.pumping = "over"
    /\ IF pacer.pending # <<>> /\ ~pacer.failed THEN Flushes(pacer)
       ELSE pacer' = [pacer EXCEPT !.pumping = "no"] /\ UNCHANGED gpu

DeviceLost ==
    /\ ~gpu.lost
    /\ gpu' = [gpu EXCEPT !.lost = TRUE]
    /\ pacer' = IF pacer.released THEN pacer ELSE Fail(pacer)

UncapturedError ==
    /\ ~gpu.lost /\ ~pacer.released /\ ~pacer.failed
    /\ pacer' = Fail(pacer)
    /\ UNCHANGED gpu

PacerSystem == EndOperation \/ RunDrained \/ ReleaseDrained \/ FenceReached \/ PumpSettles

PacerNext ==
    \/ BeginRun \/ Release
    \/ \E submit \in BOOLEAN : Call(submit)
    \/ DeviceLost \/ UncapturedError
    \/ PacerSystem

PacerSpec == PacerInit /\ [][PacerNext]_pacerVars /\ WF_pacerVars(PacerSystem)

-----------------------------------------------------------------------------
\* The GPU gets the work in the order of the calls and, unless the device
\* failed, without a gap, whether it came in a run, outside of one or after
\* the release (gpuPacer.ts flush, enqueue and release).
WorkInOrder ==
    /\ \A i, j \in DOMAIN gpu.given : i < j => gpu.given[i].number < gpu.given[j].number
    /\ pacer.run = "none" /\ ~pacer.failed => Len(gpu.given) = pacer.made

\* The end of a run, or the release, waits for the GPU.
GpuAwaited == pacer.run = "draining" \/ pacer.releasing
=============================================================================
