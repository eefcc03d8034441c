------------------------------ MODULE LoopTries ------------------------------
(***************************************************************************)
(* The tries of a loop: the player lists them, the decoder worker keeps    *)
(* their samples and shows one of them, and every word between the two is  *)
(* a message of one of two ordered ports.  A try is recorded, settled when *)
(* its session has closed, selected, deleted and kept in the recording.    *)
(*                                                                         *)
(* A session and its try have one number; the identifier of the try, which *)
(* the decoder invents, is that number.                                    *)
(***************************************************************************)
EXTENDS Naturals, Sequences, FiniteSets

CONSTANTS
    TryCount,       \* sessions of a loop, at most
    ChoiceCount     \* selections, deletions and closings of the user, at most

ASSUME LoopAssumption == TryCount \in Nat /\ ChoiceCount \in Nat

VARIABLES
    loop,       \* the store of the engine and the recorder
    orders,     \* messages to the decoder
    replies,    \* messages of the decoder
    keeper      \* the tries of the decoder

loopVars == <<loop, orders, replies, keeper>>

Tries == 1..TryCount
NoTry == 0

LoopInit ==
    /\ loop = [stage |-> "none", tries |-> {}, selected |-> NoTry, phase |-> "none",
               recording |-> FALSE, pending |-> FALSE, inserting |-> NoTry,
               session |-> NoTry, made |-> 0, choices |-> 0, settler |-> NoTry,
               at |-> [t \in Tries |-> "none"], complete |-> {}, crossed |-> FALSE]
    /\ orders = <<>> /\ replies = <<>>
    /\ keeper = [kept |-> {}, draft |-> NoTry, sung |-> {}, live |-> NoTry,
                 sending |-> NoTry]

Order(kind, t) == [kind |-> kind, try |-> t]
Busy == loop.inserting # NoTry \/ loop.phase # "none"
Forgotten(l) == [l EXCEPT !.tries = {}, !.selected = NoTry]
Settling(l) == \E t \in Tries : l.at[t] \in {"closing", "settling"}

-----------------------------------------------------------------------------
(* The recorder of the tries.                                              *)

\* A stop of the session is asked for once: it closes the stream first.
StopTry(l) ==
    IF l.session = NoTry \/ l.at[l.session] # "open" THEN l
    ELSE [l EXCEPT !.at[l.session] = "closing"]

RecordTry ==
    /\ loop.stage = "sing" /\ ~loop.pending /\ ~loop.recording
    /\ loop.session = NoTry /\ loop.made < TryCount
    /\ LET t == loop.made + 1 IN
         loop' = [loop EXCEPT !.made = t, !.session = t, !.at[t] = "preparing",
                              !.recording = TRUE, !.pending = TRUE, !.phase = "armed"]
    /\ UNCHANGED <<orders, replies, keeper>>

\* The microphone is open: the decoder begins the draft of the try.
TryOpens(t) ==
    /\ loop.at[t] = "preparing"
    /\ loop' = [loop EXCEPT !.at[t] = "open", !.pending = FALSE]
    /\ orders' = Append(orders, Order("open", t))
    /\ UNCHANGED <<replies, keeper>>

\* It does not open: nothing was begun and nothing is to be settled.
TryFails(t) ==
    /\ loop.at[t] = "preparing"
    /\ loop' = [loop EXCEPT !.at[t] = "done", !.session = NoTry, !.pending = FALSE,
                            !.recording = FALSE, !.phase = "none"]
    /\ orders' = Append(orders, Order("select", loop.selected))
    /\ UNCHANGED <<replies, keeper>>

PassStarts ==
    /\ loop.session # NoTry /\ loop.at[loop.session] = "open" /\ loop.phase = "armed"
    /\ loop' = [loop EXCEPT !.phase = "writing"]
    /\ UNCHANGED <<orders, replies, keeper>>

\* The pass is over, whole or cut short; a stop under way keeps the verdict.
PassEnds(whole) ==
    /\ loop.session # NoTry /\ loop.at[loop.session] \in {"open", "closing"}
    /\ loop' = StopTry([loop EXCEPT !.complete =
                          IF whole THEN @ \cup {loop.session} ELSE @ \ {loop.session}])
    /\ UNCHANGED <<orders, replies, keeper>>

CancelTry(l) ==
    IF l.pending \/ l.phase = "none" THEN l
    ELSE IF l.session = NoTry THEN [l EXCEPT !.recording = FALSE]
    ELSE [StopTry(l) EXCEPT !.pending = TRUE]

Cancel ==
    /\ CancelTry(loop) # loop
    /\ loop' = CancelTry(loop)
    /\ UNCHANGED <<orders, replies, keeper>>

\* The stream is closed: the session is let go and its try is settled.
TryCloses(t) ==
    /\ loop.at[t] = "closing"
    /\ loop' = [loop EXCEPT !.at[t] = "settling", !.session = NoTry, !.settler = t]
    /\ orders' = Append(orders, [kind |-> "settle", keep |-> t \in loop.complete])
    /\ UNCHANGED <<replies, keeper>>

-----------------------------------------------------------------------------
(* The commands of the user, as the interface offers them.                 *)

Chosen(l) == [l EXCEPT !.choices = @ + 1]

OpenLoop ==
    /\ loop.stage = "none" /\ ~loop.recording
    /\ loop.choices < ChoiceCount
    /\ loop' = [Forgotten(Chosen(loop)) EXCEPT !.stage = "range",
                                               !.crossed = @ \/ Settling(loop)]
    /\ orders' = Append(orders, [kind |-> "discard"])
    /\ UNCHANGED <<replies, keeper>>

LockLoop ==
    /\ loop.stage = "range"
    /\ loop' = [loop EXCEPT !.stage = "sing"]
    /\ UNCHANGED <<orders, replies, keeper>>

\* closeLoop: the try under way is cancelled and all of them are discarded.
Closed(l) ==
    [Forgotten(CancelTry(l)) EXCEPT !.stage = "none",
                                    !.crossed = @ \/ Settling(CancelTry(l))]

CloseLoop ==
    /\ loop.stage # "none" /\ (loop.tries = {} \/ ~Busy)
    /\ loop' = Closed(loop)
    /\ orders' = Append(orders, [kind |-> "discard"])
    /\ UNCHANGED <<replies, keeper>>

SelectTry(t) ==
    /\ loop.stage = "sing" /\ loop.choices < ChoiceCount
    /\ loop.inserting = NoTry /\ t \in loop.tries \cup {NoTry} /\ t # loop.selected
    /\ loop' = [Chosen(loop) EXCEPT !.selected = t]
    /\ orders' = Append(orders, Order("select", t))
    /\ UNCHANGED <<replies, keeper>>

DeleteTry ==
    /\ loop.stage = "sing" /\ ~Busy /\ loop.selected # NoTry
    /\ loop' = [loop EXCEPT !.tries = @ \ {loop.selected}, !.selected = NoTry]
    /\ orders' = Append(orders, Order("remove", loop.selected))
    /\ UNCHANGED <<replies, keeper>>

InsertTry ==
    /\ loop.stage = "sing" /\ ~Busy /\ loop.selected # NoTry
    /\ loop' = [loop EXCEPT !.inserting = loop.selected]
    /\ orders' = Append(orders, Order("insert", loop.selected))
    /\ UNCHANGED <<replies, keeper>>

-----------------------------------------------------------------------------
(* What the decoder answers.                                               *)

\* The answer goes to the session whose promise is held; the list gets the try
\* whatever has become of the loop, and the decoder is told the selection.
HearSettled ==
    /\ replies # <<>> /\ Head(replies).kind = "settled"
    /\ replies' = Tail(replies)
    /\ LET t == Head(replies).try
           listed == IF t = NoTry THEN loop
                     ELSE [loop EXCEPT !.tries = @ \cup {t}, !.selected = t]
       IN /\ loop' = [listed EXCEPT !.at = [s \in Tries |-> IF s = loop.settler THEN "done" ELSE @[s]],
                         !.settler = NoTry,
                         !.phase = "none", !.recording = FALSE,
                         !.pending = @ /\ loop.session # NoTry]
          /\ orders' = Append(orders, Order("select", listed.selected))
    /\ UNCHANGED keeper

\* A try that was kept in the recording closes the loop.
HearInserted ==
    /\ replies # <<>> /\ Head(replies).kind = "inserted"
    /\ replies' = Tail(replies)
    /\ LET back == [loop EXCEPT !.inserting = NoTry] IN
         IF Head(replies).done
         THEN /\ loop' = Closed(back)
              /\ orders' = Append(orders, [kind |-> "discard"])
         ELSE loop' = back /\ UNCHANGED orders
    /\ UNCHANGED keeper

-----------------------------------------------------------------------------
(* The decoder.                                                            *)

Shown(k, t) ==
    IF t = k.live THEN k
    ELSE [k EXCEPT !.live = IF t \in k.kept THEN t ELSE NoTry]

\* Mutant: the tries are thrown away, the one that is shown stays.
ObeyedShown(k, order) ==
    CASE order.kind = "open" -> [k EXCEPT !.draft = order.try, !.live = order.try]
      [] order.kind = "settle" ->
           [k EXCEPT !.draft = NoTry,
              !.kept = IF order.keep THEN @ \cup ({k.draft} \cap k.sung) ELSE @]
      [] order.kind = "select" -> Shown(k, order.try)
      [] order.kind \in {"remove", "discard"} ->
           [k EXCEPT !.kept = IF order.kind = "remove" THEN @ \ {order.try} ELSE {}]
      [] order.kind = "insert" ->
           IF order.try \in k.kept THEN [k EXCEPT !.sending = order.try] ELSE k

Obeyed(k, order) ==
    CASE order.kind = "open" -> [k EXCEPT !.draft = order.try, !.live = order.try]
      [] order.kind = "settle" ->
           [k EXCEPT !.draft = NoTry,
              !.kept = IF order.keep THEN @ \cup ({k.draft} \cap k.sung) ELSE @]
      [] order.kind = "select" -> Shown(k, order.try)
      [] order.kind = "remove" ->
           [k EXCEPT !.kept = @ \ {order.try},
                     !.live = IF @ = order.try THEN NoTry ELSE @]
      [] order.kind = "discard" -> [k EXCEPT !.kept = {}, !.live = NoTry]
      [] order.kind = "insert" ->
           IF order.try \in k.kept THEN [k EXCEPT !.sending = order.try] ELSE k

\* The port handles one message at a time: the upload of a try holds up the
\* messages behind it.
HandleOrder ==
    /\ orders # <<>> /\ keeper.sending = NoTry
    /\ orders' = Tail(orders)
    /\ LET order == Head(orders) IN
         /\ keeper' = Obeyed(keeper, order)
         /\ replies' = CASE order.kind = "settle" ->
                              Append(replies, [kind |-> "settled",
                                 try |-> IF order.keep /\ keeper.draft \in keeper.sung
                                         THEN keeper.draft ELSE NoTry])
                         [] order.kind = "insert" /\ order.try \notin keeper.kept ->
                              Append(replies, [kind |-> "inserted", done |-> FALSE])
                         [] OTHER -> replies
    /\ UNCHANGED loop

\* Samples of the draft that is open arrive.
Sing ==
    /\ keeper.draft \notin keeper.sung \cup {NoTry}
    /\ keeper' = [keeper EXCEPT !.sung = @ \cup {keeper.draft}]
    /\ UNCHANGED <<loop, orders, replies>>

Sent(done) ==
    /\ keeper.sending # NoTry
    /\ keeper' = IF done
                 THEN [keeper EXCEPT !.sending = NoTry, !.kept = @ \ {keeper.sending},
                                     !.live = IF @ = keeper.sending THEN NoTry ELSE @]
                 ELSE [keeper EXCEPT !.sending = NoTry]
    /\ replies' = Append(replies, [kind |-> "inserted", done |-> done])
    /\ UNCHANGED <<loop, orders>>

-----------------------------------------------------------------------------
LoopNext ==
    \/ RecordTry \/ PassStarts \/ Cancel
    \/ \E t \in Tries : TryOpens(t) \/ TryFails(t) \/ TryCloses(t)
    \/ \E whole \in BOOLEAN : PassEnds(whole)
    \/ OpenLoop \/ LockLoop \/ CloseLoop
    \/ \E t \in Tries \cup {NoTry} : SelectTry(t)
    \/ DeleteTry \/ InsertTry
    \/ HearSettled \/ HearInserted
    \/ HandleOrder \/ Sing
    \/ \E done \in BOOLEAN : Sent(done)

LoopSpec == LoopInit /\ [][LoopNext]_loopVars

-----------------------------------------------------------------------------
Quiet ==
    /\ orders = <<>> /\ replies = <<>> /\ keeper.sending = NoTry
    /\ loop.session = NoTry

\* When nothing is under way no try is announced and no command is pending,
\* the player lists the tries the decoder keeps and the decoder shows the one
\* that is selected, however a stop, a cancel, the end of the pass and a
\* deletion met (recorder.ts requestSessionStop, loop.ts cancelTry, loopTry.ts
\* settleLoopTry, loopTries.worker.ts).  The lists may differ after the loop
\* was closed while a whole pass was being settled: the answer then lists a
\* try that the discard has thrown away.
TriesAgree ==
    Quiet => /\ loop.phase = "none" /\ ~loop.pending
             /\ loop.crossed \/ (loop.tries = keeper.kept /\ keeper.live = loop.selected)
=============================================================================
