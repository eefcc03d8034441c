----------------------------- MODULE DurableFold -----------------------------
(***************************************************************************)
(* What the checkpoints of a step promise, whoever runs it and however     *)
(* often it is stopped: the units that are durably folded only grow in     *)
(* number while the release computes the same thing, and the result is     *)
(* stored only once all of them are durable.                               *)
(***************************************************************************)
EXTENDS Naturals

CONSTANTS Computations,   \* what a release of the program may compute
          Count           \* the units of the plan

VARIABLES computation,    \* the one the committed checkpoint belongs to
          durable,        \* units folded into it
          complete        \* whether a result has been stored

Init == computation = "none" /\ durable = 0 /\ complete = FALSE

Advance ==
    /\ computation # "none"
    /\ durable' \in (durable + 1)..Count
    /\ UNCHANGED <<computation, complete>>

\* Another release, or the first, starts from the beginning.
Begin(k) ==
    /\ computation # k
    /\ computation' = k
    /\ durable' \in 1..Count
    /\ UNCHANGED complete

Store ==
    /\ durable = Count
    /\ complete' = TRUE
    /\ UNCHANGED <<computation, durable>>

Next == Advance \/ Store \/ \E k \in Computations : Begin(k)

Spec == Init /\ [][Next]_<<computation, durable, complete>>
=============================================================================
