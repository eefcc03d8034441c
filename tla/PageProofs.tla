----------------------------- MODULE PageProofs -----------------------------
(***************************************************************************)
(* What holds of the parts of the page for any number of calls and runs,   *)
(* of pointers and of turns, of tries and of choices, of changes and of    *)
(* visits: the GPU gets the work of the model in order and whole, a        *)
(* gesture lets the playback go, the player and the decoder agree on the   *)
(* tries of a loop, and the page shows the recording that is active.       *)
(***************************************************************************)
EXTENDS GpuPacer, ViewportGesture, LoopTries, RecordingShelf, FiniteSetTheorems, SequenceTheorems, TLAPS

-----------------------------------------------------------------------------
(* The pacer: what is held and what was given are all the calls, in order. *)

Pieces == [number : Nat, submit : BOOLEAN]
Pacers ==
    [active : BOOLEAN, released : BOOLEAN, failed : BOOLEAN, pending : Seq(Pieces),
     pumping : {"no", "fence", "over"}, made : Nat,
     run : {"none", "operating", "draining"}, runs : Nat, releasing : BOOLEAN]

PacerType == pacer \in Pacers /\ gpu \in [given : Seq(Pieces), lost : BOOLEAN]

\* What is held are the last calls, one after another; what was given came
\* before them, in order, and is all of it unless something was dropped.
InOrder(made, failed, held, given) ==
    /\ \A i \in 1..Len(held) : held[i].number = made - Len(held) + i
    /\ \A i \in 1..Len(given) : given[i].number <= made - Len(held)
    /\ \A i, j \in 1..Len(given) : i < j => given[i].number < given[j].number
    /\ ~failed => Len(given) + Len(held) = made

InTurn(p, given) == InOrder(p.made, p.failed, p.pending, given)

\* Nothing is held after a failure; outside of a run or after the release the
\* pump rests, and it never rests on work.
Emptied ==
    /\ pacer.failed => pacer.pending = <<>>
    /\ pacer.pumping = "no" => pacer.pending = <<>>
    /\ ~pacer.active \/ pacer.released => pacer.pumping = "no"
    /\ pacer.run = "none" => ~pacer.active

PacerInv == PacerType /\ InTurn(pacer, gpu.given) /\ Emptied

LEMMA NumbersNat ==
  ASSUME NEW s \in Seq(Pieces)
  PROVE  Len(s) \in Nat /\ \A i \in 1..Len(s) : s[i].number \in Nat
<1>1. ASSUME NEW i \in 1..Len(s) PROVE s[i] \in Pieces
  BY <1>1, ElementOfSeq
<1> QED
  BY <1>1 DEF Pieces

\* Moving the first pieces from what is held to the end of what was given keeps
\* the order.
LEMMA MovedInOrder ==
  ASSUME NEW held \in Seq(Pieces), NEW given \in Seq(Pieces),
         NEW rest \in Seq(Pieces), NEW all \in Seq(Pieces),
         NEW made \in Nat, NEW failed, NEW n \in 0..Len(held),
         InOrder(made, failed, held, given),
         Len(rest) = Len(held) - n, \A i \in 1..(Len(held) - n) : rest[i] = held[n + i],
         Len(all) = Len(given) + n,
         \A i \in 1..(Len(given) + n) :
           all[i] = IF i <= Len(given) THEN given[i] ELSE held[i - Len(given)]
  PROVE  InOrder(made, failed, rest, all)
<1>1. /\ Len(held) \in Nat /\ Len(given) \in Nat
      /\ \A i \in 1..Len(given) : given[i].number \in Nat
  BY NumbersNat
<1>2. /\ \A i \in 1..Len(held) : held[i].number = made - Len(held) + i
      /\ \A i \in 1..Len(given) : given[i].number <= made - Len(held)
      /\ \A i, j \in 1..Len(given) : i < j => given[i].number < given[j].number
      /\ ~failed => Len(given) + Len(held) = made
  BY DEF InOrder
<1>3. ASSUME NEW i \in 1..Len(rest) PROVE rest[i].number = made - Len(rest) + i
  <2>1. rest[i] = held[n + i] /\ n + i \in 1..Len(held)
    BY <1>1
  <2> QED
    BY <1>1, <1>2, <2>1, SMTT(60)
<1>4. ASSUME NEW i \in 1..Len(all), i > Len(given)
      PROVE  all[i].number = made - Len(held) + (i - Len(given))
  <2>1. all[i] = held[i - Len(given)] /\ i - Len(given) \in 1..Len(held)
    BY <1>1, <1>4
  <2> QED
    BY <1>2, <2>1
<1>5. ASSUME NEW i \in 1..Len(all), i <= Len(given)
      PROVE  all[i] = given[i] /\ i \in 1..Len(given)
  BY <1>1, <1>5
<1>6. ASSUME NEW i \in 1..Len(all) PROVE all[i].number <= made - Len(rest)
  <2>1. CASE i <= Len(given)
    <3>1. all[i].number \in Nat /\ all[i].number <= made - Len(held)
      BY <1>1, <1>2, <1>5, <2>1
    <3> QED
      BY <1>1, <3>1
  <2>2. CASE i > Len(given)
    BY <1>1, <1>4, <2>2
  <2> QED
    BY <1>1, <2>1, <2>2
<1>7. ASSUME NEW i \in 1..Len(all), NEW j \in 1..Len(all), i < j
      PROVE  all[i].number < all[j].number
  <2>1. CASE j <= Len(given)
    <3>1. i <= Len(given)
      BY <1>1, <1>7, <2>1
    <3> QED
      BY <1>2, <1>5, <1>7, <2>1, <3>1
  <2>2. CASE j > Len(given) /\ i <= Len(given)
    <3>1. all[i].number \in Nat /\ all[i].number <= made - Len(held)
      BY <1>1, <1>2, <1>5, <2>2
    <3>2. all[j].number = made - Len(held) + (j - Len(given))
      BY <1>4, <2>2
    <3> QED
      BY <1>1, <2>2, <3>1, <3>2
  <2>3. CASE j > Len(given) /\ i > Len(given)
    <3>1. /\ all[i].number = made - Len(held) + (i - Len(given))
          /\ all[j].number = made - Len(held) + (j - Len(given))
      BY <1>4, <2>3
    <3> QED
      BY <1>1, <1>7, <3>1
  <2> QED
    BY <1>1, <2>1, <2>2, <2>3
<1>8. ASSUME ~failed PROVE Len(all) + Len(rest) = made
  <2>1. Len(given) + Len(held) = made
    BY <1>2, <1>8
  <2>2. Len(all) + Len(rest) = (Len(given) + n) + (Len(held) - n)
    OBVIOUS
  <2>3. \A a, b, c \in Int : (a + c) + (b - c) = a + b
    OBVIOUS
  <2>4. Len(given) \in Int /\ Len(held) \in Int /\ n \in Int
    BY <1>1
  <2>5. (Len(given) + n) + (Len(held) - n) = Len(given) + Len(held)
    BY <2>3, <2>4
  <2> QED
    BY <2>1, <2>2, <2>5
<1> QED
  BY <1>3, <1>6, <1>7, <1>8 DEF InOrder

\* One more call at the end of what is held.
LEMMA HeldInOrder ==
  ASSUME NEW held \in Seq(Pieces), NEW given \in Seq(Pieces), NEW made \in Nat,
         NEW failed \in BOOLEAN, NEW piece \in Pieces, piece.number = made + 1,
         InOrder(made, failed, held, given)
  PROVE  /\ Append(held, piece) \in Seq(Pieces)
         /\ InOrder(made + 1, failed, Append(held, piece), given)
<1> SUFFICES ASSUME NEW more, more = Append(held, piece)
             PROVE  more \in Seq(Pieces) /\ InOrder(made + 1, failed, more, given)
  OBVIOUS
<1>1. /\ more \in Seq(Pieces) /\ Len(more) = Len(held) + 1
      /\ \A i \in 1..Len(held) : more[i] = held[i]
      /\ more[Len(held) + 1] = piece
  BY AppendProperties
<1>2. Len(held) \in Nat /\ Len(given) \in Nat
  BY NumbersNat
<1>3. \A i \in 1..Len(held) : held[i].number = made - Len(held) + i
  BY DEF InOrder
<1>4. ASSUME NEW i \in 1..Len(more)
      PROVE  more[i].number = (made + 1) - Len(more) + i
  <2>1. CASE i \in 1..Len(held)
    BY <1>1, <1>2, <1>3, <2>1
  <2>2. CASE i = Len(held) + 1
    BY <1>1, <1>2, <2>2
  <2> QED
    BY <1>1, <1>2, <2>1, <2>2
<1>5. (made + 1) - Len(more) = made - Len(held)
  BY <1>1, <1>2
<1>6. ASSUME ~failed PROVE Len(given) + Len(more) = made + 1
  <2>1. Len(given) + Len(held) = made
    BY <1>6 DEF InOrder
  <2>2. Len(given) + Len(more) = Len(given) + (Len(held) + 1)
    BY <1>1
  <2>3. \A a, b \in Int : a + (b + 1) = (a + b) + 1
    OBVIOUS
  <2>4. Len(given) + (Len(held) + 1) = (Len(given) + Len(held)) + 1
    BY <1>2, <2>3
  <2> QED
    BY <2>1, <2>2, <2>4
<1> QED
  BY <1>1, <1>4, <1>5, <1>6 DEF InOrder

\* One more call straight to the end of what was given, with nothing held.
LEMMA GivenInOrder ==
  ASSUME NEW given \in Seq(Pieces), NEW made \in Nat,
         NEW failed \in BOOLEAN, NEW piece \in Pieces, piece.number = made + 1,
         InOrder(made, failed, <<>>, given)
  PROVE  /\ Append(given, piece) \in Seq(Pieces)
         /\ InOrder(made + 1, failed, <<>>, Append(given, piece))
<1> SUFFICES ASSUME NEW more, more = Append(given, piece)
             PROVE  more \in Seq(Pieces) /\ InOrder(made + 1, failed, <<>>, more)
  OBVIOUS
<1>1. /\ more \in Seq(Pieces) /\ Len(more) = Len(given) + 1
      /\ \A i \in 1..Len(given) : more[i] = given[i]
      /\ more[Len(given) + 1] = piece
  BY AppendProperties
<1>2. /\ Len(given) \in Nat /\ Len(<<>>) = 0
      /\ \A i \in 1..Len(given) : given[i].number \in Nat
  BY NumbersNat, SMTT(60)
<1>3. /\ \A i \in 1..Len(given) : given[i].number <= made
      /\ \A i, j \in 1..Len(given) : i < j => given[i].number < given[j].number
      /\ ~failed => Len(given) = made
  <2>1. \A i \in 1..Len(given) : given[i].number <= made - Len(<<>>)
    BY DEF InOrder
  <2>2. \A i, j \in 1..Len(given) : i < j => given[i].number < given[j].number
    BY DEF InOrder
  <2>3. ~failed => Len(given) + Len(<<>>) = made
    BY DEF InOrder
  <2>4. made - Len(<<>>) = made /\ Len(given) + Len(<<>>) = Len(given)
    BY <1>2
  <2> QED
    BY <2>1, <2>2, <2>3, <2>4
<1>4. ASSUME NEW i \in 1..Len(more)
      PROVE  /\ more[i].number <= made + 1
             /\ i # Len(given) + 1 => i \in 1..Len(given) /\ more[i].number = given[i].number
  <2>1. CASE i \in 1..Len(given)
    BY <1>1, <1>2, <1>3, <2>1
  <2>2. CASE i = Len(given) + 1
    BY <1>1, <1>2, <2>2
  <2> QED
    BY <1>1, <1>2, <2>1, <2>2
<1>5. ASSUME NEW i \in 1..Len(more), NEW j \in 1..Len(more), i < j
      PROVE  more[i].number < more[j].number
  <2>1. i \in 1..Len(given) /\ more[i].number = given[i].number
    BY <1>1, <1>2, <1>4, <1>5
  <2>2. CASE j = Len(given) + 1
    BY <1>1, <1>2, <1>3, <2>1, <2>2
  <2>3. CASE j # Len(given) + 1
    BY <1>3, <1>4, <1>5, <2>1, <2>3
  <2> QED
    BY <2>2, <2>3
<1> QED
  BY <1>1, <1>2, <1>3, <1>4, <1>5 DEF InOrder

\* A failure drops what is held.
LEMMA DroppedInOrder ==
  ASSUME NEW held \in Seq(Pieces), NEW given \in Seq(Pieces), NEW made \in Nat,
         NEW failed \in BOOLEAN, InOrder(made, failed, held, given)
  PROVE  InOrder(made, TRUE, <<>>, given)
<1>1. /\ Len(held) \in Nat /\ Len(<<>>) = 0
      /\ \A i \in 1..Len(given) : given[i].number \in Nat
  BY NumbersNat
<1>2. \A i \in 1..Len(given) : given[i].number <= made - Len(held)
  BY DEF InOrder
<1>3. \A i \in 1..Len(given) : given[i].number <= made
  BY <1>1, <1>2
<1> QED
  BY <1>1, <1>3 DEF InOrder

\* Handing over the first pieces keeps the numbers, and the pump is at work.
LEMMA FlushKeeps ==
  ASSUME NEW p \in Pacers, gpu \in [given : Seq(Pieces), lost : BOOLEAN],
         NEW n \in Nat, Flush(p, n), InTurn(p, gpu.given)
  PROVE  /\ PacerType'
         /\ InTurn(pacer', gpu'.given)
         /\ pacer'.pumping \in {"fence", "over"} /\ pacer'.failed = p.failed
         /\ pacer'.active = p.active /\ pacer'.released = p.released
         /\ pacer'.run = p.run
         /\ p.pending = <<>> => pacer'.pending = <<>>
<1>1. PICK held, given, first, rest, all :
         /\ held = p.pending /\ given = gpu.given
         /\ first = SubSeq(held, 1, n) /\ rest = SubSeq(held, n + 1, Len(held))
         /\ all = given \o first
  OBVIOUS
<1>2. /\ held \in Seq(Pieces) /\ given \in Seq(Pieces) /\ Len(held) \in Nat
      /\ n \in 0..Len(held) /\ p.made \in Nat /\ p.failed \in BOOLEAN
      /\ \A i \in 1..Len(held) : held[i] \in Pieces
  BY <1>1, NumbersNat, ElementOfSeq DEF Pacers, Flush
<1>3. first \in Seq(Pieces) /\ Len(first) = n /\ \A i \in 1..n : first[i] = held[i]
  <2>1. \A i \in 1..n : held[i] \in Pieces
    BY <1>2
  <2>2. 1 \in Int /\ n \in Int
    OBVIOUS
  <2>3. /\ SubSeq(held, 1, n) \in Seq(Pieces)
        /\ Len(SubSeq(held, 1, n)) = IF 1 <= n THEN n - 1 + 1 ELSE 0
        /\ \A i \in 1..(n - 1 + 1) : SubSeq(held, 1, n)[i] = held[1 + i - 1]
    BY <2>1, <2>2, SubSeqProperties
  <2> QED
    BY <1>1, <2>3
<1>4. /\ rest \in Seq(Pieces) /\ Len(rest) = Len(held) - n
      /\ \A i \in 1..(Len(held) - n) : rest[i] = held[n + i]
  <2>1. \A i \in (n + 1)..Len(held) : held[i] \in Pieces
    BY <1>2
  <2>2. n + 1 \in Int /\ Len(held) \in Int
    BY <1>2
  <2>3. /\ SubSeq(held, n + 1, Len(held)) \in Seq(Pieces)
        /\ Len(SubSeq(held, n + 1, Len(held)))
             = IF n + 1 <= Len(held) THEN Len(held) - (n + 1) + 1 ELSE 0
        /\ \A i \in 1..(Len(held) - (n + 1) + 1) :
             SubSeq(held, n + 1, Len(held))[i] = held[(n + 1) + i - 1]
    BY <2>1, <2>2, SubSeqProperties
  <2> QED
    BY <1>1, <1>2, <2>3
<1>5. n = Len(held) => rest = <<>>
  BY <1>2, <1>4, EmptySeq
<1>6. /\ all \in Seq(Pieces) /\ Len(all) = Len(given) + n
      /\ \A i \in 1..(Len(given) + n) :
           all[i] = IF i <= Len(given) THEN given[i] ELSE held[i - Len(given)]
  <2>1. /\ all \in Seq(Pieces) /\ Len(all) = Len(given) + n
        /\ \A i \in 1..(Len(given) + n) :
             all[i] = IF i <= Len(given) THEN given[i] ELSE first[i - Len(given)]
    BY <1>1, <1>2, <1>3, ConcatProperties
  <2>2. \A i \in 1..(Len(given) + n) : i > Len(given) => first[i - Len(given)] = held[i - Len(given)]
    BY <1>2, <1>3, NumbersNat
  <2>3. Len(given) \in Nat
    BY <1>2, NumbersNat
  <2> QED
    BY <2>1, <2>2, <2>3
<1>7. InOrder(p.made, p.failed, rest, all)
  <2>1. InOrder(p.made, p.failed, held, given)
    BY <1>1 DEF InTurn
  <2> QED
    BY <1>2, <1>4, <1>6, <2>1, MovedInOrder
<1>8. PICK pumping \in {"fence", "over"} :
         pacer' = [[p EXCEPT !.pending = rest] EXCEPT !.pumping = pumping]
  BY <1>1, <1>5 DEF Flush
<1>9. /\ pacer' \in Pacers
      /\ pacer'.pending = rest /\ pacer'.pumping = pumping /\ pacer'.made = p.made
      /\ pacer'.failed = p.failed /\ pacer'.active = p.active
      /\ pacer'.released = p.released /\ pacer'.run = p.run
  BY <1>4, <1>8 DEF Pacers
<1>10. gpu' = [gpu EXCEPT !.given = all]
  BY <1>1 DEF Flush
<1>11. gpu'.given = all /\ gpu' \in [given : Seq(Pieces), lost : BOOLEAN]
  BY <1>6, <1>10
<1>12. held = <<>> => rest = <<>>
  BY <1>2, <1>5, EmptySeq
<1> QED
  BY <1>1, <1>7, <1>9, <1>11, <1>12 DEF PacerType, InTurn

LEMMA PieceType ==
  ASSUME PacerType, NEW submit \in BOOLEAN
  PROVE  /\ Piece(pacer, submit) \in Pieces
         /\ Piece(pacer, submit).number = pacer.made + 1
  BY DEF Piece, Pieces, PacerType, Pacers

\* One more call, given straight on.
LEMMA GivenStraight ==
  ASSUME PacerType, InTurn(pacer, gpu.given), pacer.pending = <<>>,
         NEW submit \in BOOLEAN,
         gpu' = [gpu EXCEPT !.given = Append(@, Piece(pacer, submit))],
         pacer' = [pacer EXCEPT !.made = @ + 1]
  PROVE  PacerType' /\ InTurn(pacer', gpu'.given)
<1>1. PICK given, piece : given = gpu.given /\ piece = Piece(pacer, submit)
  OBVIOUS
<1>2. /\ given \in Seq(Pieces) /\ pacer.made \in Nat /\ pacer.failed \in BOOLEAN
      /\ piece \in Pieces /\ piece.number = pacer.made + 1
  BY <1>1, PieceType DEF PacerType, Pacers
<1>3. InOrder(pacer.made, pacer.failed, <<>>, given)
  BY <1>1 DEF InTurn
<1>4. PICK more : more = Append(given, piece)
  OBVIOUS
<1>5. more \in Seq(Pieces) /\ InOrder(pacer.made + 1, pacer.failed, <<>>, more)
  BY <1>2, <1>3, <1>4, GivenInOrder
<1>6. gpu' = [gpu EXCEPT !.given = more]
  BY <1>1, <1>4
<1>7. gpu'.given = more /\ gpu' \in [given : Seq(Pieces), lost : BOOLEAN]
  BY <1>5, <1>6 DEF PacerType
<1>8. PICK made \in Nat : made = pacer.made + 1
  BY <1>2
<1>9. pacer' = [pacer EXCEPT !.made = made]
  BY <1>8
<1>10. /\ pacer' \in Pacers /\ pacer'.made = made
       /\ pacer'.pending = <<>> /\ pacer'.failed = pacer.failed
  BY <1>9 DEF PacerType, Pacers
<1> QED
  BY <1>5, <1>7, <1>8, <1>10 DEF InTurn, PacerType

\* One more call, held behind what is held.
LEMMA QueuedBehind ==
  ASSUME PacerType, InTurn(pacer, gpu.given), NEW submit \in BOOLEAN
  PROVE  LET queued == [[pacer EXCEPT !.made = @ + 1] EXCEPT
                          !.pending = Append(@, Piece(pacer, submit))]
         IN  queued \in Pacers /\ InTurn(queued, gpu.given)
<1>1. PICK held, piece, more, made, queued :
         /\ held = pacer.pending /\ piece = Piece(pacer, submit)
         /\ more = Append(held, piece) /\ made = pacer.made + 1
         /\ queued = [[pacer EXCEPT !.made = made] EXCEPT !.pending = more]
  OBVIOUS
<1>2. /\ held \in Seq(Pieces) /\ gpu.given \in Seq(Pieces) /\ pacer.made \in Nat
      /\ pacer.failed \in BOOLEAN /\ made \in Nat
      /\ piece \in Pieces /\ piece.number = pacer.made + 1
  BY <1>1, PieceType DEF PacerType, Pacers
<1>3. InOrder(pacer.made, pacer.failed, held, gpu.given)
  BY <1>1 DEF InTurn
<1>4. more \in Seq(Pieces) /\ InOrder(made, pacer.failed, more, gpu.given)
  BY <1>1, <1>2, <1>3, HeldInOrder
<1>5. /\ queued \in Pacers /\ queued.made = made /\ queued.pending = more
      /\ queued.failed = pacer.failed
  BY <1>1, <1>2, <1>4 DEF PacerType, Pacers
<1>6. queued \in Pacers /\ InTurn(queued, gpu.given)
  BY <1>4, <1>5 DEF InTurn
<1>7. queued = [[pacer EXCEPT !.made = @ + 1] EXCEPT
                  !.pending = Append(@, Piece(pacer, submit))]
  <2>1. [pacer EXCEPT !.made = made].pending = pacer.pending
    BY DEF PacerType, Pacers
  <2> QED
    BY <1>1, <2>1
<1> QED
  BY <1>6, <1>7

LEMMA PacerInvInit == PacerInit => PacerInv
<1> SUFFICES ASSUME PacerInit PROVE PacerInv
  OBVIOUS
<1>1. <<>> \in Seq(Pieces) /\ Len(<<>>) = 0
  BY EmptySeq
<1>2. PacerType /\ Emptied
  BY <1>1 DEF PacerInit, PacerType, Pacers, Emptied
<1>3. pacer.made = 0 /\ pacer.pending = <<>> /\ gpu.given = <<>>
  BY DEF PacerInit
<1>4. InTurn(pacer, gpu.given)
  BY <1>1, <1>3 DEF InTurn, InOrder
<1> QED
  BY <1>2, <1>4 DEF PacerInv

\* The numbers do not notice what is not about them, nor a failure.
LEMMA NumberedKept ==
  ASSUME PacerType, InTurn(pacer, gpu.given), gpu'.given = gpu.given,
         pacer'.made = pacer.made,
         \/ pacer'.pending = pacer.pending /\ pacer'.failed = pacer.failed
         \/ pacer'.pending = <<>> /\ pacer'.failed = TRUE
  PROVE  InTurn(pacer', gpu'.given)
<1>1. CASE pacer'.pending = pacer.pending /\ pacer'.failed = pacer.failed
  BY <1>1 DEF InTurn
<1>2. CASE pacer'.pending = <<>> /\ pacer'.failed = TRUE
  <2>1. /\ pacer.pending \in Seq(Pieces) /\ gpu.given \in Seq(Pieces)
        /\ pacer.made \in Nat /\ pacer.failed \in BOOLEAN
    BY DEF PacerType, Pacers
  <2>2. InOrder(pacer.made, TRUE, <<>>, gpu.given)
    BY <2>1, DroppedInOrder DEF InTurn
  <2> QED
    BY <1>2, <2>2 DEF InTurn
<1> QED
  BY <1>1, <1>2

LEMMA PacerInvCall ==
  ASSUME PacerInv, NEW submit \in BOOLEAN, Call(submit)
  PROVE  PacerInv'
<1> DEFINE queued == [[pacer EXCEPT !.made = @ + 1] EXCEPT
                        !.pending = Append(@, Piece(pacer, submit))]
<1>1. PacerType /\ InTurn(pacer, gpu.given) /\ Emptied
  BY DEF PacerInv
<1>2. queued \in Pacers /\ InTurn(queued, gpu.given)
  BY <1>1, QueuedBehind
<1>3. /\ queued.pumping = pacer.pumping /\ queued.active = pacer.active
      /\ queued.released = pacer.released /\ queued.failed = pacer.failed
      /\ queued.run = pacer.run
  BY <1>1 DEF PacerType, Pacers
<1>4. CASE Healthy /\ pacer.active /\ pacer.pumping = "no" /\ Flushes(queued)
  <2>1. PICK n \in 0..WorkCount : Flush(queued, n)
    BY <1>4 DEF Flushes
  <2>2. n \in Nat /\ gpu \in [given : Seq(Pieces), lost : BOOLEAN]
    BY <1>1, <2>1, PacerAssumption DEF PacerAssumption, PacerType
  <2> HIDE DEF queued
  <2>3. /\ PacerType' /\ InTurn(pacer', gpu'.given)
        /\ pacer'.pumping \in {"fence", "over"} /\ pacer'.failed = queued.failed
        /\ pacer'.active = queued.active /\ pacer'.released = queued.released
        /\ pacer'.run = queued.run
    BY <1>2, <2>1, <2>2, FlushKeeps
  <2> QED
    BY <1>1, <1>3, <1>4, <2>3 DEF PacerInv, Emptied, Healthy
<1>5. CASE Healthy /\ pacer.active /\ pacer.pumping # "no" /\ pacer' = queued /\ UNCHANGED gpu
  <2>1. PacerType' /\ InTurn(pacer', gpu'.given)
    BY <1>1, <1>2, <1>5 DEF PacerType
  <2> HIDE DEF queued
  <2> QED
    BY <1>1, <1>3, <1>5, <2>1 DEF PacerInv, Emptied, Healthy
<1>6. CASE /\ pacer.released \/ (Healthy /\ ~pacer.active)
           /\ pacer' = [pacer EXCEPT !.made = @ + 1]
           /\ gpu' = [gpu EXCEPT !.given = Append(@, Piece(pacer, submit))]
  <2>1. pacer.pending = <<>>
    BY <1>1, <1>6 DEF Emptied
  <2>2. PacerType' /\ InTurn(pacer', gpu'.given)
    BY <1>1, <1>6, <2>1, GivenStraight
  <2> QED
    BY <1>1, <1>6, <2>2 DEF PacerInv, Emptied, PacerType, Pacers
<1> QED
  BY <1>4, <1>5, <1>6 DEF Call

LEMMA PacerInvStep == PacerInv /\ [PacerNext]_pacerVars => PacerInv'
<1> SUFFICES ASSUME PacerInv, [PacerNext]_pacerVars PROVE PacerInv'
  OBVIOUS
<1>1. PacerType /\ InTurn(pacer, gpu.given) /\ Emptied
  BY DEF PacerInv
<1>2. ASSUME PacerType', Emptied', gpu'.given = gpu.given, pacer'.made = pacer.made,
             \/ pacer'.pending = pacer.pending /\ pacer'.failed = pacer.failed
             \/ pacer'.pending = <<>> /\ pacer'.failed = TRUE
      PROVE  PacerInv'
  BY <1>1, <1>2, NumberedKept DEF PacerInv
<1>3. ASSUME Flushes(pacer), pacer.pumping # "no", ~pacer.failed \/ pacer.pending = <<>>
      PROVE  PacerInv'
  <2>1. PICK n \in 0..WorkCount : Flush(pacer, n)
    BY <1>3 DEF Flushes
  <2>2. n \in Nat
    BY <2>1, PacerAssumption DEF PacerAssumption
  <2>3. /\ PacerType' /\ InTurn(pacer', gpu'.given)
        /\ pacer'.pumping \in {"fence", "over"} /\ pacer'.failed = pacer.failed
        /\ pacer'.active = pacer.active /\ pacer'.released = pacer.released
        /\ pacer'.run = pacer.run
        /\ pacer.pending = <<>> => pacer'.pending = <<>>
    BY <1>1, <2>1, <2>2, FlushKeeps DEF PacerType
  <2> QED
    BY <1>1, <1>3, <2>3 DEF PacerInv, Emptied
<1>4. CASE BeginRun \/ EndOperation \/ RunDrained \/ Release \/ ReleaseDrained
  <2>1. PICK active \in BOOLEAN, released \in BOOLEAN, releasing \in BOOLEAN, runs \in Nat,
             run \in {"none", "operating", "draining"} :
          /\ pacer' = [pacer EXCEPT !.active = active, !.released = released,
                                    !.releasing = releasing, !.runs = runs, !.run = run]
          /\ ~active \/ released => pacer.pumping = "no"
          /\ run = "none" => ~active
    <3>1. /\ pacer \in Pacers
          /\ ~pacer.active \/ pacer.released => pacer.pumping = "no"
          /\ pacer.run = "none" => ~pacer.active
      BY <1>1 DEF PacerType, Emptied
    <3>2. CASE BeginRun
      <4>1. /\ pacer' = [pacer EXCEPT !.active = TRUE, !.released = pacer.released,
                                  !.releasing = pacer.releasing, !.runs = pacer.runs + 1,
                                  !.run = "operating"]
            /\ ~pacer.released
        BY <3>1, <3>2 DEF BeginRun, Healthy, Pacers
      <4>2. pacer.runs + 1 \in Nat /\ pacer.releasing \in BOOLEAN /\ pacer.released \in BOOLEAN
        BY <3>1 DEF Pacers
      <4> QED
        BY <4>1, <4>2
    <3>3. CASE EndOperation
      <4>1. /\ pacer' = [pacer EXCEPT !.active = pacer.active, !.released = pacer.released,
                                  !.releasing = pacer.releasing, !.runs = pacer.runs,
                                  !.run = "draining"]
        BY <3>1, <3>3 DEF EndOperation, Pacers
      <4> QED
        BY <3>1, <4>1 DEF Pacers
    <3>4. CASE RunDrained
      <4>1. /\ pacer' = [pacer EXCEPT !.active = FALSE, !.released = pacer.released,
                                  !.releasing = pacer.releasing, !.runs = pacer.runs,
                                  !.run = "none"]
            /\ pacer.pumping = "no"
        BY <3>1, <3>4 DEF RunDrained, Pacers
      <4> QED
        BY <3>1, <4>1 DEF Pacers
    <3>5. CASE Release
      <4>1. /\ pacer' = [pacer EXCEPT !.active = pacer.active, !.released = pacer.released,
                                  !.releasing = TRUE, !.runs = pacer.runs, !.run = pacer.run]
        BY <3>1, <3>5 DEF Release, Pacers
      <4> QED
        BY <3>1, <4>1 DEF Pacers
    <3>6. CASE ReleaseDrained
      <4>1. /\ pacer' = [pacer EXCEPT !.active = pacer.active, !.released = TRUE,
                                  !.releasing = FALSE, !.runs = pacer.runs, !.run = pacer.run]
            /\ pacer.pumping = "no"
        BY <3>1, <3>6 DEF ReleaseDrained, Pacers
      <4> QED
        BY <3>1, <4>1 DEF Pacers
    <3> QED
      BY <1>4, <3>2, <3>3, <3>4, <3>5, <3>6
  <2>2. gpu' = gpu
    BY <1>4 DEF BeginRun, EndOperation, RunDrained, Release, ReleaseDrained
  <2>3. PacerType' /\ pacer'.made = pacer.made
        /\ pacer'.pending = pacer.pending /\ pacer'.failed = pacer.failed
        /\ pacer'.active = active /\ pacer'.released = released /\ pacer'.run = run
        /\ pacer'.pumping = pacer.pumping
    BY <1>1, <2>1, <2>2 DEF PacerType, Pacers
  <2>4. Emptied'
    BY <1>1, <2>1, <2>3 DEF Emptied
  <2> QED
    BY <1>2, <2>2, <2>3, <2>4, SMTT(60)
<1>5. CASE FenceReached
  BY <1>1, <1>3, <1>5 DEF FenceReached, Emptied
<1>6. CASE PumpSettles
  <2>1. CASE pacer.pending # <<>> /\ ~pacer.failed
    BY <1>3, <1>6, <2>1 DEF PumpSettles
  <2>2. CASE pacer.pending = <<>> \/ pacer.failed
    <3>1. PacerType' /\ Emptied' /\ gpu' = gpu /\ pacer'.made = pacer.made
          /\ pacer'.pending = pacer.pending /\ pacer'.failed = pacer.failed
      BY <1>1, <1>6, <2>2 DEF PumpSettles, PacerType, Pacers, Emptied
    <3> QED
      BY <1>2, <3>1
  <2> QED
    BY <2>1, <2>2
<1>7. CASE DeviceLost \/ UncapturedError
  <2>1. gpu'.given = gpu.given /\ gpu' \in [given : Seq(Pieces), lost : BOOLEAN]
    BY <1>1, <1>7 DEF DeviceLost, UncapturedError, PacerType
  <2>2. CASE pacer' = pacer
    BY <1>1, <1>2, <2>1, <2>2 DEF PacerType, Emptied
  <2>3. CASE pacer' = Fail(pacer) /\ ~pacer.released
    <3>1. PICK pumping \in {"no", "fence", "over"} :
             /\ pacer' = [pacer EXCEPT !.failed = TRUE, !.pending = <<>>, !.pumping = pumping]
             /\ pacer.pumping = "no" => pumping = "no"
      BY <1>1, <2>3 DEF Fail, PacerType, Pacers
    <3>2. <<>> \in Seq(Pieces)
      BY EmptySeq
    <3>3. /\ pacer' \in Pacers /\ pacer'.made = pacer.made
          /\ pacer'.pending = <<>> /\ pacer'.failed = TRUE /\ pacer'.pumping = pumping
          /\ pacer'.active = pacer.active /\ pacer'.released = pacer.released
          /\ pacer'.run = pacer.run
      BY <1>1, <3>1, <3>2 DEF PacerType, Pacers
    <3>4. Emptied'
      BY <1>1, <3>1, <3>3 DEF Emptied
    <3> QED
      BY <1>2, <2>1, <3>3, <3>4 DEF PacerType
  <2> QED
    BY <1>7, <2>2, <2>3 DEF DeviceLost, UncapturedError
<1>8. ASSUME NEW submit \in BOOLEAN, Call(submit) PROVE PacerInv'
  BY <1>8, PacerInvCall
<1>9. CASE UNCHANGED pacerVars
  BY <1>9 DEF pacerVars, PacerInv, PacerType, InTurn, Emptied
<1> QED
  BY <1>4, <1>5, <1>6, <1>7, <1>8, <1>9 DEF PacerNext, PacerSystem

\* The GPU gets every call of a healthy device, in the order of the calls.
THEOREM WorkInOrderCorrect == PacerSpec => []WorkInOrder
<1>1. PacerInv => WorkInOrder
  <2> SUFFICES ASSUME PacerInv PROVE WorkInOrder
    OBVIOUS
  <2>1. gpu.given \in Seq(Pieces) /\ DOMAIN gpu.given = 1..Len(gpu.given)
    BY DEF PacerInv, PacerType
  <2>2. pacer.run = "none" => Len(pacer.pending) = 0
    BY EmptySeq DEF PacerInv, Emptied
  <2>3. Len(gpu.given) \in Nat /\ pacer.made \in Nat
    BY <2>1 DEF PacerInv, PacerType, Pacers
  <2>4. InOrder(pacer.made, pacer.failed, pacer.pending, gpu.given)
    BY DEF PacerInv, InTurn
  <2>5. ASSUME pacer.run = "none", ~pacer.failed PROVE Len(gpu.given) = pacer.made
    <3>1. Len(gpu.given) + Len(pacer.pending) = pacer.made
      BY <2>4, <2>5 DEF InOrder
    <3>2. Len(pacer.pending) = 0
      BY <2>2, <2>5
    <3> QED
      BY ONLY <2>3, <3>1, <3>2
  <2>6. \A i, j \in DOMAIN gpu.given : i < j => gpu.given[i].number < gpu.given[j].number
    BY <2>1, <2>4 DEF InOrder
  <2> QED
    BY <2>5, <2>6 DEF WorkInOrder
<1> QED
  BY <1>1, PacerInvInit, PacerInvStep, PTL DEF PacerSpec

-----------------------------------------------------------------------------
(* Gestures: who moves the picture, and who holds the playback.            *)

Modes == {"idle", "custom-pan", "pan", "drag-zoom", "pinch-zoom", "pan-inertia"}
AxisOrNone == Axes \cup {"none"}
Gestures ==
    [down : SUBSET Pointers, pan : [pointer : Pointers \cup {0}, axis : AxisOrNone],
     pinch : [fingers : SUBSET Pointers, axis : AxisOrNone], mode : Modes,
     frozen : BOOLEAN, active : AxisOrNone, pinching : AxisOrNone,
     dragging : AxisOrNone, custom : BOOLEAN, inertia : AxisOrNone, turned : BOOLEAN]
Hands == [held : SUBSET Pointers, readable : {{"y"}, Axes}, turns : Nat]

Several(fingers) == \E p, q \in fingers : p # q

\* The tracker of a pan or a pinch that moves the picture has its fingers on
\* it, only one of them has any, and inertia is no gesture's.
Tracked(g) ==
    /\ g.pan # NoPan => g.pan.pointer \in g.down /\ g.pinch = NoPinch
    /\ g.pinch # NoPinch =>
         /\ g.pinch.fingers \subseteq g.down
         /\ Several(g.pinch.fingers)
    /\ g.mode \in {"custom-pan", "pan", "drag-zoom"} => g.pan.axis # "none"
    /\ g.mode = "pinch-zoom" => g.pinch.axis # "none"
    /\ g.inertia # "none" <=> g.mode = "pan-inertia"
    /\ g.inertia # "none" => g.pan.axis = "none" /\ g.pinch.axis = "none"

Held(g, fingers) ==
    /\ g.mode # "idle" => g.frozen \/ g.turned
    /\ hand.readable = Axes /\ g.frozen => fingers # {} \/ g.inertia # "none"

\* A finger less on the picture; a pan that begins.
Without(g, p) == [g EXCEPT !.down = @ \ {p}]
Begun(g, mode, active, dragging) ==
    [g EXCEPT !.mode = mode, !.active = active, !.dragging = dragging, !.frozen = TRUE]

GestureInv ==
    /\ touch \in Gestures /\ hand \in Hands
    /\ touch.down \subseteq hand.held
    /\ Tracked(touch) /\ Held(touch, hand.held)

LEMMA GestureStarts == GestureInit => GestureInv
BY DEF GestureInit, GestureInv, Gestures, Hands, Tracked, Held, NoPan, NoPinch, Modes,
       AxisOrNone, Axes

LEMMA StillInertia ==
  ASSUME NEW g \in Gestures, Tracked(g)
  PROVE  /\ StopInertia(g) \in Gestures
         /\ Tracked(StopInertia(g)) /\ StopInertia(g).inertia = "none"
         /\ StopInertia(g).frozen = g.frozen
         /\ StopInertia(g).down = g.down /\ StopInertia(g).pan = g.pan
         /\ StopInertia(g).pinch = g.pinch
         /\ StopInertia(g).turned = g.turned
         /\ StopInertia(g).mode = IF g.inertia = "none" THEN g.mode ELSE "idle"
<1>1. CASE g.inertia = "none"
  BY <1>1 DEF StopInertia
<1>2. CASE g.inertia # "none"
  <2> DEFINE q == [g EXCEPT !.inertia = "none", !.active = "none", !.mode = "idle"]
  <2>1. StopInertia(g) = q
    BY <1>2 DEF StopInertia, Tracked
  <2>2. q \in Gestures
    BY DEF Gestures, AxisOrNone, Modes
  <2>3. /\ q.inertia = "none" /\ q.mode = "idle" /\ q.frozen = g.frozen
        /\ q.down = g.down /\ q.pan = g.pan /\ q.pinch = g.pinch /\ q.turned = g.turned
    BY DEF Gestures
  <2> QED
    BY <1>2, <2>1, <2>2, <2>3 DEF Tracked
<1> QED
  BY <1>1, <1>2

LEMMA GestureAxes ==
  /\ NoPan \in [pointer : Pointers \cup {0}, axis : AxisOrNone]
  /\ NoPinch \in [fingers : SUBSET Pointers, axis : AxisOrNone]
  /\ NoPan.axis = "none" /\ NoPinch.axis = "none" /\ NoPinch.fingers = {}
BY DEF NoPan, NoPinch, AxisOrNone

\* The end of a pan lets the playback go or leaves it to the inertia.
LEMMA PanOver ==
  ASSUME NEW g \in Gestures, Tracked(g), NEW h \in SUBSET Pointers,
         NEW fast \in BOOLEAN
  PROVE  /\ EndPan(g, fast) \in Gestures /\ Tracked(EndPan(g, fast))
         /\ Held(g, h) => Held(EndPan(g, fast), h)
         /\ EndPan(g, fast).down = g.down
         /\ EndPan(g, fast).pan = NoPan /\ EndPan(g, fast).pinch = g.pinch
         /\ g.pan.axis # "none" /\ EndPan(g, fast).frozen => EndPan(g, fast).inertia # "none"
         /\ g.pan.axis = "none" => EndPan(g, fast).frozen = g.frozen /\ EndPan(g, fast).inertia = g.inertia
<1> DEFINE over == [g EXCEPT !.pan = NoPan]
           axis == g.pan.axis
<1>1. /\ over \in Gestures /\ over.pan = NoPan /\ over.mode = g.mode /\ over.active = g.active
      /\ over.dragging = g.dragging /\ over.custom = g.custom
      /\ over.inertia = g.inertia /\ over.frozen = g.frozen /\ over.turned = g.turned
      /\ over.down = g.down /\ over.pinch = g.pinch
  BY GestureAxes DEF Gestures
<1>2. CASE axis = "none"
  <2>1. EndPan(g, fast) = over
    BY <1>2 DEF EndPan
  <2> HIDE DEF over
  <2> QED
    BY <1>1, <1>2, <2>1, GestureAxes DEF Tracked, Held
<1>3. CASE axis # "none" /\ g.mode = "pan" /\ g.active = axis /\ fast
  <2> DEFINE q == [over EXCEPT !.mode = "pan-inertia", !.inertia = axis]
  <2>1. EndPan(g, fast) = q
    BY <1>1, <1>3 DEF EndPan, PanEnds
  <2>2. /\ q \in Gestures /\ q.mode = "pan-inertia" /\ q.inertia = axis /\ q.pan = over.pan
        /\ q.frozen = over.frozen /\ q.turned = over.turned /\ q.down = over.down
        /\ q.pinch = over.pinch
    BY <1>1 DEF Gestures, Modes
  <2> HIDE DEF q, over
  <2>3. g.pinch = NoPinch
    BY <1>3, GestureAxes DEF Tracked
  <2>4. Tracked(q)
    BY <1>1, <1>3, <2>2, <2>3, GestureAxes DEF Tracked
  <2>5. Held(g, h) => Held(q, h)
    BY <1>1, <1>3, <2>2 DEF Held
  <2> QED
    BY <1>1, <1>3, <2>1, <2>2, <2>4, <2>5
<1>4. CASE axis # "none" /\ ~(g.mode = "pan" /\ g.active = axis /\ fast)
  <2> DEFINE active == IF g.mode = "pan" /\ g.active = axis THEN "none" ELSE g.active
             dragging == IF g.mode = "drag-zoom" THEN "none" ELSE g.dragging
             custom == IF g.mode = "custom-pan" THEN FALSE ELSE g.custom
             q == [over EXCEPT !.mode = "idle", !.active = active, !.dragging = dragging,
                               !.custom = custom, !.frozen = FALSE, !.turned = FALSE]
  <2>2. EndPan(g, fast) = q
    BY <1>1, <1>4, ZenonT(60) DEF EndPan, PanEnds, Gestures, Idle, LetGo
  <2>3. active \in AxisOrNone /\ dragging \in AxisOrNone /\ custom \in BOOLEAN
    BY DEF Gestures, AxisOrNone
  <2> HIDE DEF active, dragging, custom, over
  <2>4. /\ q \in Gestures /\ q.mode = "idle" /\ q.inertia = over.inertia /\ q.pan = over.pan
        /\ q.frozen = FALSE /\ q.turned = FALSE /\ q.down = over.down
        /\ q.pinch = over.pinch
    BY <1>1, <2>3 DEF Gestures, Modes
  <2> HIDE DEF q
  <2> QED
    BY <1>1, <1>4, <2>2, <2>4, GestureAxes DEF Tracked, Held
<1> QED
  BY <1>2, <1>3, <1>4

\* A pan that is aborted, and a pinch that ends, let the playback go if they
\* had moved the picture.
LEMMA PanAborted ==
  ASSUME NEW g \in Gestures, Tracked(g), NEW h \in SUBSET Pointers
  PROVE  /\ AbortPan(g) \in Gestures /\ Tracked(AbortPan(g))
         /\ Held(g, h) => Held(AbortPan(g), h)
         /\ AbortPan(g).down = g.down
         /\ AbortPan(g).pan = NoPan /\ AbortPan(g).pinch = g.pinch
         /\ AbortPan(g).inertia = g.inertia
         /\ g.pan.axis # "none" => ~AbortPan(g).frozen
         /\ g.pan.axis = "none" => AbortPan(g).frozen = g.frozen /\ AbortPan(g).inertia = g.inertia
<1> DEFINE over == [g EXCEPT !.pan = NoPan]
<1>1. /\ over \in Gestures /\ over.pan = NoPan /\ over.mode = g.mode
      /\ over.inertia = g.inertia /\ over.frozen = g.frozen /\ over.turned = g.turned
      /\ over.down = g.down /\ over.pinch = g.pinch
  BY GestureAxes DEF Gestures
<1>2. CASE g.pan.axis = "none"
  <2>1. AbortPan(g) = over
    BY <1>2 DEF AbortPan
  <2> HIDE DEF over
  <2> QED
    BY <1>1, <1>2, <2>1, GestureAxes DEF Tracked, Held
<1>3. CASE g.pan.axis # "none"
  <2> DEFINE q == [over EXCEPT !.mode = "idle", !.active = "none", !.pinching = "none",
                               !.dragging = "none", !.custom = FALSE, !.frozen = FALSE,
                               !.turned = FALSE]
  <2>1. AbortPan(g) = q
    BY <1>1, <1>3 DEF AbortPan, PanAborts, LetGo, Idle, Gestures
  <2> HIDE DEF over
  <2>2. /\ q \in Gestures /\ q.mode = "idle" /\ q.inertia = over.inertia /\ q.pan = over.pan
        /\ q.frozen = FALSE /\ q.turned = FALSE /\ q.down = over.down
        /\ q.pinch = over.pinch
    BY <1>1, ZenonT(60) DEF Gestures, Modes, AxisOrNone
  <2> HIDE DEF q
  <2> QED
    BY <1>1, <1>3, <2>1, <2>2, GestureAxes DEF Tracked, Held
<1> QED
  BY <1>2, <1>3

LEMMA PinchOver ==
  ASSUME NEW g \in Gestures, Tracked(g), NEW h \in SUBSET Pointers
  PROVE  /\ EndPinch(g) \in Gestures /\ Tracked(EndPinch(g))
         /\ Held(g, h) => Held(EndPinch(g), h)
         /\ EndPinch(g).down = g.down
         /\ EndPinch(g).pinch = NoPinch /\ EndPinch(g).pan = g.pan
         /\ EndPinch(g).inertia = g.inertia
         /\ g.pinch.axis # "none" => ~EndPinch(g).frozen
         /\ g.pinch.axis = "none" => EndPinch(g).frozen = g.frozen /\ EndPinch(g).inertia = g.inertia
<1> DEFINE over == [g EXCEPT !.pinch = NoPinch]
<1>1. /\ over \in Gestures /\ over.pan = g.pan /\ over.mode = g.mode
      /\ over.inertia = g.inertia /\ over.frozen = g.frozen /\ over.turned = g.turned
      /\ over.down = g.down /\ over.pinch = NoPinch
  BY GestureAxes DEF Gestures
<1>2. CASE g.pinch.axis = "none"
  <2>1. EndPinch(g) = over
    BY <1>2 DEF EndPinch
  <2> HIDE DEF over
  <2> QED
    BY <1>1, <1>2, <2>1, GestureAxes DEF Tracked, Held
<1>3. CASE g.pinch.axis # "none"
  <2> DEFINE q == [over EXCEPT !.mode = "idle", !.pinching = "none", !.frozen = FALSE,
                               !.turned = FALSE]
  <2>1. EndPinch(g) = q
    BY <1>1, <1>3 DEF EndPinch, PinchEnds, LetGo, Idle, Gestures
  <2> HIDE DEF over
  <2>2. /\ q \in Gestures /\ q.mode = "idle" /\ q.inertia = over.inertia /\ q.pan = over.pan
        /\ q.frozen = FALSE /\ q.turned = FALSE /\ q.down = over.down
        /\ q.pinch = over.pinch
    BY <1>1, ZenonT(60) DEF Gestures, Modes, AxisOrNone
  <2> HIDE DEF q
  <2>3. g.pan = NoPan
    BY <1>3, GestureAxes DEF Tracked
  <2> QED
    BY <1>1, <1>3, <2>1, <2>2, <2>3, GestureAxes DEF Tracked, Held
<1> QED
  BY <1>2, <1>3


\* What moves the picture has a finger that is down.
LEMMA Moved ==
  ASSUME NEW g \in Gestures, Tracked(g), g.mode # "idle"
  PROVE  \/ g.inertia # "none"
         \/ g.pan.axis # "none" /\ g.pan.pointer \in g.down /\ g.pinch = NoPinch
         \/ g.pinch.axis # "none" /\ g.pinch.fingers # {} /\ g.pinch.fingers \subseteq g.down
<1>1. CASE g.mode \in {"custom-pan", "pan", "drag-zoom"}
  BY <1>1, GestureAxes DEF Tracked
<1>2. CASE g.mode = "pinch-zoom"
  <2>1. g.pinch.axis # "none"
    BY <1>2 DEF Tracked
  <2>2. g.pinch # NoPinch
    BY <2>1, GestureAxes
  <2> QED
    BY <2>1, <2>2 DEF Tracked, Several
<1>3. CASE g.mode = "pan-inertia"
  BY <1>3 DEF Tracked
<1> QED
  BY <1>1, <1>2, <1>3 DEF Gestures, Modes

LEMMA FewDown ==
  ASSUME NEW D \in SUBSET Pointers, NEW p \in Pointers, p \notin D
  PROVE  /\ Cardinality(D \cup {p}) = 1 => D = {}
         /\ Cardinality(D \cup {p}) = 2 => \E q \in D : D = {q}
<1>1. IsFiniteSet(Pointers)
  BY GestureAssumption, FS_Interval DEF Pointers
<1>2. IsFiniteSet(D)
  BY <1>1, FS_Subset
<1>3. Cardinality(D \cup {p}) = Cardinality(D) + 1 /\ Cardinality(D) \in Nat
  BY <1>2, FS_AddElement, FS_CardinalityType
<1>4. Cardinality(D) = 0 => D = {}
  BY <1>2, FS_EmptySet
<1>5. Cardinality(D) = 1 => \E q : D = {q}
  BY <1>2, FS_Singleton
<1>6. ASSUME Cardinality(D \cup {p}) = 2 PROVE \E q \in D : D = {q}
  <2>1. Cardinality(D) = 1
    BY <1>3, <1>6
  <2> QED
    BY <1>5, <2>1
<1>7. ASSUME Cardinality(D \cup {p}) = 1 PROVE D = {}
  <2>1. Cardinality(D) = 0
    BY <1>3, <1>7
  <2> QED
    BY <1>4, <2>1
<1> QED
  BY <1>6, <1>7

\* A finger is put on the picture.
LEMMA PointerDownKeeps ==
  ASSUME GestureInv, NEW p \in Pointers, NEW fast \in BOOLEAN, PointerDown(p, fast)
  PROVE  GestureInv'
<1> DEFINE met == IF hand.held = {} THEN Freeze(StopInertia(touch)) ELSE touch
           g == [met EXCEPT !.down = @ \cup {p}]
           fingers == hand.held \cup {p}
<1>1. /\ hand'.held = fingers /\ hand'.readable = hand.readable /\ hand' \in Hands
      /\ fingers \in SUBSET Pointers /\ p \in fingers
  BY DEF PointerDown, GestureInv, Hands
<1>2. /\ met \in Gestures /\ Tracked(met) /\ Held(met, fingers)
      /\ met.down = touch.down /\ met.pan = touch.pan /\ met.pinch = touch.pinch
  <2>1. CASE hand.held = {}
    <3> DEFINE q == StopInertia(touch)
    <3>1. /\ q \in Gestures /\ Tracked(q) /\ q.down = touch.down /\ q.pan = touch.pan
          /\ q.pinch = touch.pinch
      BY StillInertia DEF GestureInv
    <3> HIDE DEF q
    <3>2. met = [q EXCEPT !.frozen = TRUE]
      BY <2>1 DEF Freeze, q
    <3>3. /\ met \in Gestures /\ met.down = q.down /\ met.pan = q.pan /\ met.pinch = q.pinch
          /\ met.mode = q.mode /\ met.inertia = q.inertia /\ met.frozen
      BY <3>1, <3>2 DEF Gestures
    <3> HIDE DEF met
    <3> QED
      BY <3>1, <3>3, <1>1 DEF Tracked, Held
  <2>2. CASE hand.held # {}
    BY <2>2 DEF GestureInv, Held
  <2> QED
    BY <2>1, <2>2
<1> HIDE DEF met
<1>3. touch.down \subseteq hand.held /\ p \notin touch.down /\ touch.down \in SUBSET Pointers
  BY DEF GestureInv, PointerDown, Gestures
<1>4. /\ g \in Gestures /\ g.down = touch.down \cup {p} /\ g.pan = met.pan
      /\ g.pinch = met.pinch /\ g.mode = met.mode /\ g.inertia = met.inertia
      /\ g.frozen = met.frozen /\ g.turned = met.turned
  BY <1>2, <1>3 DEF Gestures
<1>5. touch' = CASE Cardinality(g.down) = 1 ->
                      [g EXCEPT !.pan = [pointer |-> p, axis |-> "none"]]
                 [] Cardinality(g.down) = 2 ->
                      [EndPan(g, fast) EXCEPT !.pinch = [fingers |-> g.down, axis |-> "none"]]
                 [] OTHER -> g
  BY DEF PointerDown, met
<1> HIDE DEF g
<1>6. Tracked(g) /\ Held(g, fingers)
  <2>1. Held(g, fingers)
    BY <1>2, <1>4 DEF Held
  <2>2. Tracked(g)
    BY <1>2, <1>4 DEF Tracked
  <2> QED
    BY <2>1, <2>2
<1>7. CASE Cardinality(g.down) = 1
  <2> DEFINE q == [g EXCEPT !.pan = [pointer |-> p, axis |-> "none"]]
  <2>1. touch' = q
    BY <1>5, <1>7
  <2>2. touch.down = {}
    BY <1>3, <1>4, <1>7, FewDown
  <2>3. touch.pan = NoPan /\ touch.pinch = NoPinch
    BY <2>2 DEF GestureInv, Tracked, Several
  <2>4. /\ q \in Gestures /\ q.pan = [pointer |-> p, axis |-> "none"] /\ q.down = g.down
        /\ q.pinch = g.pinch /\ q.mode = g.mode /\ q.inertia = g.inertia
        /\ q.frozen = g.frozen /\ q.turned = g.turned
    BY <1>4 DEF Gestures, AxisOrNone
  <2> HIDE DEF q
  <2>5. Tracked(q)
    <3>1. g.pan.axis = "none" /\ g.pinch = NoPinch /\ q.pan.axis = "none" /\ q.pan.pointer \in q.down
      BY <1>2, <1>4, <2>3, <2>4, GestureAxes
    <3> QED
      BY <1>6, <2>4, <3>1 DEF Tracked
  <2>6. Held(q, fingers)
    BY <1>6, <2>4 DEF Held
  <2> QED
    BY <1>1, <1>3, <1>4, <2>1, <2>4, <2>5, <2>6 DEF GestureInv, Held
<1>8. CASE Cardinality(g.down) = 2
  <2> DEFINE e == EndPan(g, fast)
             q == [e EXCEPT !.pinch = [fingers |-> g.down, axis |-> "none"]]
  <2>1. /\ e \in Gestures /\ Tracked(e) /\ Held(e, fingers) /\ e.down = g.down
        /\ e.pan = NoPan /\ e.pinch = g.pinch
    BY <1>1, <1>4, <1>6, PanOver
  <2>2. touch' = q
    BY <1>5, <1>8
  <2> HIDE DEF e
  <2>3. PICK r \in touch.down : touch.down = {r}
    BY <1>3, <1>4, <1>8, FewDown
  <2>4. g.pinch = NoPinch
    <3>1. touch.pinch = NoPinch
      BY <2>3 DEF GestureInv, Tracked, Several
    <3> QED
      BY <1>2, <1>4, <3>1
  <2>5. /\ q \in Gestures /\ q.pan = NoPan /\ q.down = g.down
        /\ q.pinch = [fingers |-> g.down, axis |-> "none"] /\ q.mode = e.mode
        /\ q.inertia = e.inertia /\ q.frozen = e.frozen /\ q.turned = e.turned
    BY <1>4, <2>1 DEF Gestures, AxisOrNone
  <2> HIDE DEF q
  <2>6. /\ r \in q.pinch.fingers /\ p \in q.pinch.fingers /\ r # p
        /\ q.pinch.fingers \subseteq q.down /\ q.pinch.axis = "none"
    BY <1>3, <1>4, <2>3, <2>5
  <2>7. Tracked(q)
    BY <2>1, <2>4, <2>5, <2>6, GestureAxes DEF Tracked, Several
  <2>8. Held(q, fingers)
    BY <2>1, <2>5 DEF Held
  <2> QED
    BY <1>1, <1>3, <1>4, <2>2, <2>5, <2>7, <2>8 DEF GestureInv, Held
<1>9. CASE Cardinality(g.down) \notin {1, 2}
  <2>1. touch' = g
    BY <1>5, <1>9
  <2> QED
    BY <1>1, <1>3, <1>4, <1>6, <2>1 DEF GestureInv, Held
<1> QED
  BY <1>7, <1>8, <1>9


\* A finger is lifted.  End is the end of a pan, or its abort.
LEMMA LiftedKeeps ==
  ASSUME GestureInv, NEW p \in hand.held,
         NEW rest,
         rest = IF touch.mode = "idle" /\ touch.inertia = "none" THEN LetGo(touch) ELSE touch,
         NEW e, \/ e = Without(AbortPan(rest), p)
                \/ \E fast \in BOOLEAN : e = Without(EndPan(rest, fast), p),
         NEW q,
         q = IF p \notin touch.down THEN rest
             ELSE IF p \in rest.pinch.fingers THEN Without(EndPinch(rest), p)
             ELSE IF p = rest.pan.pointer THEN e ELSE Without(rest, p)
  PROVE  /\ q \in Gestures /\ Tracked(q) /\ Held(q, hand.held \ {p})
         /\ q.down \subseteq hand.held \ {p}
<1> DEFINE left == hand.held \ {p}
<1>1. /\ rest \in Gestures /\ Tracked(rest) /\ Held(rest, hand.held)
      /\ rest.down = touch.down /\ rest.inertia = touch.inertia /\ rest.mode = touch.mode
      /\ rest.mode = "idle" /\ rest.inertia = "none" => ~rest.frozen
  <2>1. CASE touch.mode = "idle" /\ touch.inertia = "none"
    <3>1. rest = [touch EXCEPT !.frozen = FALSE, !.turned = FALSE]
      BY <2>1 DEF LetGo
    <3>2. /\ rest \in Gestures /\ rest.down = touch.down /\ rest.pan = touch.pan
          /\ rest.pinch = touch.pinch /\ rest.mode = touch.mode
          /\ rest.inertia = touch.inertia /\ ~rest.frozen
      BY <3>1 DEF GestureInv, Gestures
    <3> QED
      BY <2>1, <3>2 DEF GestureInv, Tracked, Held
  <2>2. CASE ~(touch.mode = "idle" /\ touch.inertia = "none")
    BY <2>2 DEF GestureInv
  <2> QED
    BY <2>1, <2>2
<1>2. /\ hand.held \in SUBSET Pointers /\ touch.down \subseteq hand.held
      /\ p \in Pointers /\ left \in SUBSET Pointers
  BY DEF GestureInv, Hands
\* With the last finger nothing is left that freezes.
<1>4. ASSUME NEW x \in Gestures, Tracked(x), Held(x, hand.held), x.down = rest.down,
             x.pan.pointer # p, p \notin x.pinch.fingers,
             left = {} /\ x.frozen => x.inertia # "none",
             q = Without(x, p)
      PROVE  /\ q \in Gestures /\ Tracked(q) /\ Held(q, left) /\ q.down \subseteq left
  <2>1. /\ q \in Gestures /\ q.down = x.down \ {p}
        /\ q.inertia = x.inertia /\ q.frozen = x.frozen /\ q.mode = x.mode
        /\ q.turned = x.turned /\ q.pan = x.pan /\ q.pinch = x.pinch
    BY <1>4, SMTT(60) DEF Gestures, Without
  <2>2. Tracked(q)
    BY <1>4, <2>1 DEF Tracked
  <2>3. Held(q, left)
    BY <1>4, <2>1 DEF Held
  <2> QED
    BY <1>1, <1>2, <1>4, <2>1, <2>2, <2>3
<1>6. CASE p \notin touch.down
  <2>1. q = rest
    BY <1>6
  <2>2. ASSUME left = {}, rest.frozen PROVE rest.inertia # "none"
    <3>1. rest.mode # "idle" \/ rest.inertia # "none"
      BY <1>1, <2>2
    <3>2. rest.down = {}
      BY <1>1, <1>2, <1>6, <2>2
    <3> QED
      BY <1>1, <3>1, <3>2, Moved
  <2>3. Held(rest, left)
    BY <1>1, <2>2 DEF Held
  <2> QED
    BY <1>1, <1>2, <1>6, <2>1, <2>3
<1>7. CASE p \in touch.down /\ p \in rest.pinch.fingers
  <2> DEFINE x == EndPinch(rest)
  <2>1. /\ x \in Gestures /\ Tracked(x) /\ Held(x, hand.held) /\ x.down = rest.down
        /\ x.pinch = NoPinch /\ x.pan = rest.pan
        /\ rest.pinch.axis # "none" => ~x.frozen
        /\ rest.pinch.axis = "none" => x.frozen = rest.frozen /\ x.inertia = rest.inertia
    BY <1>1, <1>2, PinchOver
  <2>2. rest.pinch # NoPinch /\ rest.pan = NoPan
    BY <1>1, <1>7, GestureAxes DEF Tracked
  <2>3. q = Without(x, p)
    BY <1>7
  <2> HIDE DEF x
  <2>4. x.pan.pointer # p /\ p \notin x.pinch.fingers
    BY <1>2, <2>1, <2>2, GestureAxes DEF NoPan, Pointers
  <2>5. ASSUME left = {}, x.frozen PROVE x.inertia # "none"
    <3>1. rest.pinch.axis = "none" /\ rest.frozen
      BY <2>1, <2>5
    <3>2. rest.mode # "idle" \/ rest.inertia # "none"
      BY <1>1, <3>1
    <3>3. rest.inertia # "none"
      BY <1>1, <2>2, <3>1, <3>2, Moved, GestureAxes
    <3> QED
      BY <2>1, <3>1, <3>3
  <2> QED
    BY <1>4, <2>1, <2>3, <2>4, <2>5
<1>8. CASE p \in touch.down /\ p \notin rest.pinch.fingers /\ p = rest.pan.pointer
  <2>1. PICK x : /\ q = Without(x, p)
                 /\ x \in Gestures /\ Tracked(x) /\ Held(x, hand.held) /\ x.down = rest.down
                 /\ x.pan = NoPan /\ x.pinch = rest.pinch
                 /\ rest.pan.axis # "none" /\ x.frozen => x.inertia # "none"
                 /\ rest.pan.axis = "none" => x.frozen = rest.frozen /\ x.inertia = rest.inertia
    <3>1. q = e
      BY <1>8
    <3>2. CASE e = Without(AbortPan(rest), p)
      BY <1>1, <1>2, <3>1, <3>2, PanAborted
    <3>3. CASE \E fast \in BOOLEAN : e = Without(EndPan(rest, fast), p)
      <4>1. PICK fast \in BOOLEAN : e = Without(EndPan(rest, fast), p)
        BY <3>3
      <4> DEFINE x == EndPan(rest, fast)
      <4>2. /\ x \in Gestures /\ Tracked(x) /\ Held(x, hand.held) /\ x.down = rest.down
            /\ x.pan = NoPan /\ x.pinch = rest.pinch
            /\ rest.pan.axis # "none" /\ x.frozen => x.inertia # "none"
            /\ rest.pan.axis = "none" => x.frozen = rest.frozen /\ x.inertia = rest.inertia
        BY <1>1, <1>2, PanOver
      <4>3. q = Without(x, p)
        BY <3>1, <4>1
      <4> HIDE DEF x
      <4> QED
        BY <4>2, <4>3
    <3> QED
      BY <3>2, <3>3
  <2>2. rest.pan # NoPan /\ rest.pinch = NoPinch
    BY <1>1, <1>2, <1>8, GestureAxes DEF NoPan, Pointers, Tracked
  <2>3. x.pan.pointer # p /\ p \notin x.pinch.fingers
    BY <1>2, <2>1, <2>2, GestureAxes DEF NoPan, Pointers
  <2>4. ASSUME left = {}, x.frozen PROVE x.inertia # "none"
    <3>1. CASE rest.pan.axis = "none"
      <4>1. rest.mode # "idle" \/ rest.inertia # "none"
        BY <1>1, <2>1, <2>4, <3>1
      <4>2. rest.inertia # "none"
        BY <1>1, <2>2, <3>1, <4>1, Moved, GestureAxes
      <4> QED
        BY <2>1, <3>1, <4>2
    <3>2. CASE rest.pan.axis # "none"
      BY <2>1, <2>4, <3>2
    <3> QED
      BY <3>1, <3>2
  <2> QED
    BY <1>4, <2>1, <2>3, <2>4
<1>9. CASE p \in touch.down /\ p \notin rest.pinch.fingers /\ p # rest.pan.pointer
  <2>1. q = Without(rest, p)
    BY <1>9
  <2>2. ASSUME left = {}, rest.frozen PROVE rest.inertia # "none"
    <3>1. rest.mode # "idle" \/ rest.inertia # "none"
      BY <1>1, <2>2
    <3>2. rest.down \subseteq {p}
      BY <1>1, <1>2, <2>2
    <3> QED
      BY <1>1, <1>9, <3>1, <3>2, Moved
  <2> QED
    BY <1>1, <1>4, <1>9, <2>1, <2>2
<1> QED
  BY <1>1, <1>6, <1>7, <1>8, <1>9


\* The ends of a pan and of a pinch ask nothing of which fingers are down.
LEMMA DownApart ==
  ASSUME NEW g \in Gestures, NEW p, NEW fast \in BOOLEAN
  PROVE  /\ EndPinch(Without(g, p)) = Without(EndPinch(g), p)
         /\ AbortPan(Without(g, p)) = Without(AbortPan(g), p)
         /\ EndPan(Without(g, p), fast) = Without(EndPan(g, fast), p)
<1> USE DEF Without
<1>1. EndPinch(Without(g, p)) = Without(EndPinch(g), p)
  BY DEF EndPinch, PinchEnds, LetGo, Idle, Gestures
<1>2. AbortPan(Without(g, p)) = Without(AbortPan(g), p)
  BY ZenonT(60) DEF AbortPan, PanAborts, LetGo, Idle, Gestures
<1>3. EndPan(Without(g, p), fast) = Without(EndPan(g, fast), p)
  <2>1. CASE g.pan.axis = "none"
    BY <2>1 DEF EndPan, Gestures
  <2>2. CASE g.pan.axis # "none" /\ g.mode = "custom-pan"
    BY <2>2, ZenonT(60) DEF EndPan, PanEnds, LetGo, Idle, Gestures
  <2>3. CASE g.pan.axis # "none" /\ g.mode # "custom-pan" /\ g.mode = "pan" /\ g.active = g.pan.axis /\ fast
    BY <2>3 DEF EndPan, PanEnds, LetGo, Idle, Gestures
  <2>4. CASE g.pan.axis # "none" /\ g.mode # "custom-pan" /\ ~(g.mode = "pan" /\ g.active = g.pan.axis /\ fast)
    <3> DEFINE active == IF g.mode = "pan" /\ g.active = g.pan.axis THEN "none" ELSE g.active
               dragging == IF g.mode = "drag-zoom" THEN "none" ELSE g.dragging
    <3>1. EndPan(g, fast) = [g EXCEPT !.pan = NoPan, !.mode = "idle", !.active = active,
                               !.dragging = dragging, !.frozen = FALSE, !.turned = FALSE]
      BY <2>4 DEF EndPan, PanEnds, LetGo, Idle, Gestures
    <3>2. EndPan(Without(g, p), fast) =
            [g EXCEPT !.down = @ \ {p}, !.pan = NoPan, !.mode = "idle", !.active = active,
                      !.dragging = dragging, !.frozen = FALSE, !.turned = FALSE]
      BY <2>4 DEF EndPan, PanEnds, LetGo, Idle, Gestures
    <3> HIDE DEF active, dragging
    <3> QED
      BY <3>1, <3>2 DEF Gestures
  <2> QED
    BY <2>1, <2>2, <2>3, <2>4
<1> QED
  BY <1>1, <1>2, <1>3

LEMMA PointerUpKeeps ==
  ASSUME GestureInv, NEW p \in Pointers,
         PointerCancel(p) \/ \E fast \in BOOLEAN : PointerUp(p, fast)
  PROVE  GestureInv'
<1> DEFINE rest == IF touch.mode = "idle" /\ touch.inertia = "none" THEN LetGo(touch) ELSE touch
<1>1. /\ p \in hand.held /\ hand' = [hand EXCEPT !.held = @ \ {p}]
      /\ hand'.held = hand.held \ {p} /\ hand'.readable = hand.readable /\ hand' \in Hands
  BY DEF PointerCancel, PointerUp, GestureInv, Hands
<1>2. rest \in Gestures
  BY DEF LetGo, GestureInv, Gestures
<1>3. rest = IF touch.mode = "idle" /\ touch.inertia = "none" THEN LetGo(touch) ELSE touch
  OBVIOUS
<1>4. PICK e : /\ \/ e = Without(AbortPan(rest), p)
                  \/ \E fast \in BOOLEAN : e = Without(EndPan(rest, fast), p)
               /\ touch' = IF p \notin touch.down THEN rest
                           ELSE IF p \in rest.pinch.fingers THEN Without(EndPinch(rest), p)
                           ELSE IF p = rest.pan.pointer THEN e ELSE Without(rest, p)
  <2> DEFINE g == Without(rest, p)
  <2>0. g.pinch = rest.pinch /\ g.pan = rest.pan
    <3> HIDE DEF rest
    <3> QED
      BY <1>2 DEF Without, Gestures
  <2>1. CASE PointerCancel(p)
    <3>1. touch' = IF p \notin touch.down THEN rest
                   ELSE IF p \in g.pinch.fingers THEN EndPinch(g)
                   ELSE IF p = g.pan.pointer THEN AbortPan(g) ELSE g
      BY <2>1 DEF PointerCancel, Lifted, Without
    <3> HIDE DEF rest
    <3>2. EndPinch(g) = Without(EndPinch(rest), p) /\ AbortPan(g) = Without(AbortPan(rest), p)
      BY <1>2, DownApart
    <3> HIDE DEF g
    <3>3. touch' = IF p \notin touch.down THEN rest
                   ELSE IF p \in rest.pinch.fingers THEN Without(EndPinch(rest), p)
                   ELSE IF p = rest.pan.pointer THEN Without(AbortPan(rest), p) ELSE g
      BY <2>0, <3>1, <3>2
    <3> QED
      BY <3>3 DEF g
  <2>2. CASE \E fast \in BOOLEAN : PointerUp(p, fast)
    <3>1. PICK fast \in BOOLEAN : PointerUp(p, fast)
      BY <2>2
    <3>2. touch' = IF p \notin touch.down THEN rest
                   ELSE IF p \in g.pinch.fingers THEN EndPinch(g)
                   ELSE IF p = g.pan.pointer THEN EndPan(g, fast) ELSE g
      BY <3>1 DEF PointerUp, Lifted, Without
    <3> HIDE DEF rest
    <3>3. EndPinch(g) = Without(EndPinch(rest), p) /\ EndPan(g, fast) = Without(EndPan(rest, fast), p)
      BY <1>2, DownApart
    <3> HIDE DEF g
    <3>4. touch' = IF p \notin touch.down THEN rest
                   ELSE IF p \in rest.pinch.fingers THEN Without(EndPinch(rest), p)
                   ELSE IF p = rest.pan.pointer THEN Without(EndPan(rest, fast), p) ELSE g
      BY <2>0, <3>2, <3>3
    <3> QED
      BY <3>4 DEF g
  <2> QED
    BY <2>1, <2>2
<1> HIDE DEF rest
<1>8. /\ touch' \in Gestures /\ Tracked(touch') /\ Held(touch', hand.held \ {p})
      /\ touch'.down \subseteq hand.held \ {p}
  BY <1>1, <1>3, <1>4, LiftedKeeps, ZenonT(60)
<1> QED
  BY <1>1, <1>8 DEF GestureInv, Held

\* The tracker of a finger, or of two, locks its axis: the inertia is stopped
\* and the picture frozen.
LEMMA PanLocksKeeps ==
  ASSUME GestureInv, NEW axis \in Axes, NEW zoom \in BOOLEAN, NEW custom \in BOOLEAN,
         PanLocks(axis, zoom, custom)
  PROVE  GestureInv'
<1> DEFINE t == [touch EXCEPT !.pan.axis = axis]
           s == [StopInertia(t) EXCEPT !.custom = ~zoom /\ custom]
           g == PanStarts(t, axis, zoom, custom)
<1>1. /\ touch \in Gestures /\ touch.pan # NoPan /\ touch.pinch = NoPinch
      /\ touch.pan.pointer \in touch.down /\ touch.pan.axis = "none"
      /\ hand' = hand /\ hand.held # {} /\ touch.down \subseteq hand.held
      /\ touch.mode \in {"idle", "pan-inertia"}
      /\ touch.mode = "idle" <=> touch.inertia = "none"
  BY GestureAxes DEF GestureInv, PanLocks, Tracked, NoPan, Gestures, Modes
<1>2. axis \in AxisOrNone /\ axis # "none"
  BY DEF AxisOrNone, Axes
<1>3. /\ t \in Gestures /\ t.pan = [pointer |-> touch.pan.pointer, axis |-> axis]
      /\ t.down = touch.down /\ t.pinch = touch.pinch /\ t.mode = touch.mode
      /\ t.inertia = touch.inertia
  BY <1>1, <1>2 DEF Gestures
<1> HIDE DEF t
<1>4. /\ s \in Gestures /\ s.pan = t.pan /\ s.pinch = NoPinch /\ s.down = touch.down
      /\ s.mode = "idle" /\ s.inertia = "none"
  <2>1. CASE touch.inertia = "none"
    BY <1>1, <1>3, <2>1 DEF StopInertia, Gestures
  <2>2. CASE touch.inertia # "none"
    <3>1. s = [t EXCEPT !.inertia = "none", !.active = "none", !.mode = "idle",
                        !.custom = ~zoom /\ custom]
      BY <1>1, <1>3, <2>2 DEF StopInertia, Gestures
    <3>2. (~zoom /\ custom) \in BOOLEAN /\ "none" \in AxisOrNone /\ "idle" \in Modes
      BY DEF AxisOrNone, Modes
    <3> HIDE DEF s
    <3> QED
      BY <1>1, <1>3, <3>1, <3>2 DEF Gestures
  <2> QED
    BY <2>1, <2>2
<1> HIDE DEF s
<1>5. /\ g \in Gestures /\ g.pan = s.pan /\ g.pinch = s.pinch /\ g.down = s.down
      /\ g.inertia = s.inertia /\ g.frozen
      /\ g.mode \in {"idle", "custom-pan", "drag-zoom", "pan"}
  <2>1. g = Freeze(
         CASE ~zoom /\ custom -> [s EXCEPT !.mode = "custom-pan"]
           [] zoom /\ axis \in hand.readable -> [s EXCEPT !.dragging = axis, !.mode = "drag-zoom"]
           [] zoom /\ axis \notin hand.readable -> [s EXCEPT !.mode = "idle", !.dragging = "none"]
           [] ~zoom /\ ~custom /\ axis \in hand.readable -> [s EXCEPT !.active = axis, !.mode = "pan"]
           [] OTHER -> [s EXCEPT !.mode = "idle", !.active = "none"])
    BY DEF PanStarts, s, Idle
  <2>2. CASE ~zoom /\ custom
    <3>1. g = Begun(s, "custom-pan", s.active, s.dragging)
      BY <1>4, <2>1, <2>2 DEF Freeze, Gestures, Begun
    <3>2. s \in Gestures /\ s.active \in AxisOrNone /\ s.dragging \in AxisOrNone
      BY <1>2, <1>4 DEF Gestures, AxisOrNone
    <3> HIDE DEF g
    <3> QED
      BY <3>1, <3>2 DEF Begun, Gestures, Modes
  <2>3. CASE zoom /\ axis \in hand.readable
    <3>1. g = Begun(s, "drag-zoom", s.active, axis)
      BY <1>4, <2>1, <2>3 DEF Freeze, Gestures, Begun
    <3>2. s \in Gestures /\ s.active \in AxisOrNone /\ axis \in AxisOrNone
      BY <1>2, <1>4 DEF Gestures, AxisOrNone
    <3> HIDE DEF g
    <3> QED
      BY <3>1, <3>2 DEF Begun, Gestures, Modes
  <2>4. CASE zoom /\ axis \notin hand.readable
    <3>1. g = Begun(s, "idle", s.active, "none")
      BY <1>4, <2>1, <2>4 DEF Freeze, Gestures, Begun
    <3>2. s \in Gestures /\ s.active \in AxisOrNone /\ "none" \in AxisOrNone
      BY <1>2, <1>4 DEF Gestures, AxisOrNone
    <3> HIDE DEF g
    <3> QED
      BY <3>1, <3>2 DEF Begun, Gestures, Modes
  <2>5. CASE ~zoom /\ ~custom /\ axis \in hand.readable
    <3>1. g = Begun(s, "pan", axis, s.dragging)
      BY <1>4, <2>1, <2>5 DEF Freeze, Gestures, Begun
    <3>2. s \in Gestures /\ axis \in AxisOrNone /\ s.dragging \in AxisOrNone
      BY <1>2, <1>4 DEF Gestures, AxisOrNone
    <3> HIDE DEF g
    <3> QED
      BY <3>1, <3>2 DEF Begun, Gestures, Modes
  <2>6. CASE ~zoom /\ ~custom /\ axis \notin hand.readable
    <3>1. g = Begun(s, "idle", "none", s.dragging)
      BY <1>4, <2>1, <2>6 DEF Freeze, Gestures, Begun
    <3>2. s \in Gestures /\ "none" \in AxisOrNone /\ s.dragging \in AxisOrNone
      BY <1>2, <1>4 DEF Gestures, AxisOrNone
    <3> HIDE DEF g
    <3> QED
      BY <3>1, <3>2 DEF Begun, Gestures, Modes
  <2> QED
    BY <2>2, <2>3, <2>4, <2>5, <2>6
<1>6. touch' = IF Moves(g, axis) THEN g ELSE AbortPan(g)
  BY DEF PanLocks, t
<1> HIDE DEF g
<1>7. Tracked(g) /\ Held(g, hand.held) /\ hand.held \in SUBSET Pointers
  <2>1. g.pan.axis # "none" /\ g.pan.pointer \in g.down
    BY <1>1, <1>2, <1>3, <1>4, <1>5
  <2> QED
    BY <1>1, <1>4, <1>5, <2>1, GestureAxes DEF Tracked, Held, GestureInv, Hands
<1>8. touch' \in Gestures /\ Tracked(touch') /\ Held(touch', hand.held) /\ touch'.down = touch.down
  <2>1. CASE Moves(g, axis)
    BY <1>4, <1>5, <1>6, <1>7, <2>1
  <2>2. CASE ~Moves(g, axis)
    <3>1. touch' = AbortPan(g)
      BY <1>6, <2>2
    <3> QED
      BY <1>4, <1>5, <1>7, <3>1, PanAborted
  <2> QED
    BY <2>1, <2>2
<1> QED
  BY <1>1, <1>8 DEF GestureInv, Held

\* A pan that would move nothing is aborted.
LEMMA PanMovesKeeps ==
  ASSUME GestureInv, PanMoves
  PROVE  GestureInv'
<1>1. hand.held \in SUBSET Pointers /\ hand' = hand
  BY DEF GestureInv, Hands, PanMoves
<1>2. /\ AbortPan(touch) \in Gestures /\ Tracked(AbortPan(touch))
      /\ Held(AbortPan(touch), hand.held) /\ AbortPan(touch).down = touch.down
  BY <1>1, PanAborted DEF GestureInv
<1>3. touch' = AbortPan(touch)
  BY DEF PanMoves
<1> QED
  BY <1>1, <1>2, <1>3 DEF GestureInv, Held

\* A pinch stops the inertia; it freezes an axis that has a picture.
LEMMA PinchLocksKeeps ==
  ASSUME GestureInv, NEW axis \in Axes, PinchLocks(axis)
  PROVE  GestureInv'
<1> DEFINE t == [touch EXCEPT !.pinch.axis = axis]
           s == StopInertia(t)
           g == PinchStarts(t, axis)
<1>1. /\ touch \in Gestures /\ touch.pinch # NoPinch /\ touch.pan = NoPan
      /\ touch.pinch.fingers \subseteq touch.down /\ touch.pinch.axis = "none"
      /\ Several(touch.pinch.fingers)
      /\ hand' = hand /\ hand.held # {} /\ touch.down \subseteq hand.held
      /\ touch.mode \in {"idle", "pan-inertia"}
      /\ touch.mode = "idle" <=> touch.inertia = "none"
  BY GestureAxes DEF GestureInv, PinchLocks, Tracked, Gestures, Modes
<1>2. axis \in AxisOrNone /\ axis # "none"
  BY DEF AxisOrNone, Axes
<1>3. /\ t \in Gestures /\ t.pinch = [fingers |-> touch.pinch.fingers, axis |-> axis]
      /\ t.down = touch.down /\ t.pan = touch.pan /\ t.mode = touch.mode
      /\ t.inertia = touch.inertia /\ t.frozen = touch.frozen
  BY <1>1, <1>2 DEF Gestures
<1>4. g = IF axis \in hand.readable
          THEN Freeze([s EXCEPT !.pinching = axis, !.mode = "pinch-zoom"])
          ELSE [Idle(s) EXCEPT !.pinching = "none"]
  BY DEF PinchStarts
<1>5. touch' = g
  BY DEF PinchLocks
<1> HIDE DEF t, g
<1>6. /\ s \in Gestures /\ s.pinch = t.pinch /\ s.pan = NoPan /\ s.down = touch.down
      /\ s.mode = "idle" /\ s.inertia = "none" /\ s.frozen = touch.frozen
  <2>1. CASE touch.inertia = "none"
    BY <1>1, <1>3, <2>1 DEF StopInertia, Gestures
  <2>2. CASE touch.inertia # "none"
    <3>1. s = [t EXCEPT !.inertia = "none", !.active = "none", !.mode = "idle"]
      BY <1>1, <1>3, <2>2 DEF StopInertia, Gestures
    <3>2. "none" \in AxisOrNone /\ "idle" \in Modes
      BY DEF AxisOrNone, Modes
    <3> HIDE DEF s
    <3> QED
      BY <1>1, <1>3, <3>1, <3>2 DEF Gestures
  <2> QED
    BY <2>1, <2>2
<1> HIDE DEF s
<1>7. /\ g \in Gestures /\ g.pinch = s.pinch /\ g.pan = s.pan /\ g.down = s.down
      /\ g.inertia = s.inertia /\ g.mode \in {"idle", "pinch-zoom"}
      /\ g.mode # "idle" => g.frozen
  <2>1. CASE axis \in hand.readable
    BY <1>2, <1>4, <1>6, <2>1 DEF Freeze, Gestures, Modes
  <2>2. CASE axis \notin hand.readable
    BY <1>4, <1>6, <2>2 DEF Idle, Gestures, Modes, AxisOrNone
  <2> QED
    BY <2>1, <2>2
<1>8. Tracked(g) /\ Held(g, hand.held)
  <2>1. /\ g.pinch.axis = axis /\ g.pinch.fingers = touch.pinch.fingers
        /\ g.pinch.fingers \subseteq g.down /\ g.pan = NoPan
    BY <1>1, <1>3, <1>6, <1>7
  <2> QED
    BY <1>1, <1>2, <1>6, <1>7, <2>1, GestureAxes DEF Tracked, Held
<1> QED
  BY <1>1, <1>5, <1>6, <1>7, <1>8 DEF GestureInv, Held

\* The inertia comes to its end and lets the playback go.
LEMMA InertiaEndsKeeps ==
  ASSUME GestureInv, InertiaEnds
  PROVE  GestureInv'
<1> DEFINE g == [touch EXCEPT !.mode = "idle", !.inertia = "none", !.active = "none",
                              !.frozen = FALSE, !.turned = FALSE]
<1>1. touch' = g /\ hand' = hand
  BY DEF InertiaEnds, LetGo, Idle, GestureInv, Gestures
<1>2. /\ g \in Gestures /\ g.mode = "idle" /\ g.inertia = "none" /\ ~g.frozen
      /\ g.down = touch.down /\ g.pan = touch.pan /\ g.pinch = touch.pinch
  BY DEF GestureInv, Gestures, Modes, AxisOrNone
<1> HIDE DEF g
<1> QED
  BY <1>1, <1>2 DEF GestureInv, Tracked, Held

\* The wheel freezes and lets go at once; on an axis without a picture it only
\* stops the inertia.  Y always has one: only with both is the playback watched.
LEMMA WheelKeeps ==
  ASSUME GestureInv, NEW axis \in Axes, Wheel(axis)
  PROVE  GestureInv'
<1> DEFINE s == StopInertia(touch)
           g == [s EXCEPT !.frozen = FALSE, !.turned = TRUE]
<1>1. /\ hand'.held = hand.held /\ hand'.readable = hand.readable /\ hand' \in Hands
  BY DEF Wheel, Turned, GestureInv, Hands
<1>2. /\ s \in Gestures /\ Tracked(s) /\ s.inertia = "none" /\ s.down = touch.down
  BY StillInertia DEF GestureInv
<1>3. touch' = IF axis \in hand.readable THEN g ELSE s
  BY DEF Wheel, LetGo, Freeze, GestureInv, Gestures, StopInertia
<1>4. axis \notin hand.readable => hand.readable # Axes
  OBVIOUS
<1>5. s.mode # "idle" => s.frozen \/ s.turned
  BY StillInertia DEF GestureInv, Held
<1> HIDE DEF s
<1>6. /\ g \in Gestures /\ g.mode = s.mode /\ g.inertia = s.inertia /\ ~g.frozen
      /\ g.down = s.down /\ g.pan = s.pan /\ g.pinch = s.pinch /\ g.turned
  BY <1>2 DEF Gestures
<1> HIDE DEF g
<1>7. Tracked(g)
  BY <1>2, <1>6 DEF Tracked
<1> QED
  BY <1>1, <1>2, <1>3, <1>4, <1>5, <1>6, <1>7 DEF GestureInv, Held

\* The seek of another aborts every gesture.
LEMMA AbortKeeps ==
  ASSUME GestureInv, Abort
  PROVE  GestureInv'
<1> DEFINE s == StopInertia(touch)
           a == AbortPan(s)
           e == EndPinch(a)
           g == [e EXCEPT !.down = {}, !.mode = "idle", !.active = "none", !.pinching = "none",
                          !.dragging = "none", !.custom = FALSE, !.frozen = FALSE,
                          !.turned = FALSE]
<1>1. /\ hand'.held = hand.held /\ hand'.readable = hand.readable /\ hand' \in Hands
      /\ hand.held \in SUBSET Pointers
  BY DEF Abort, Turned, GestureInv, Hands
<1>2. s \in Gestures /\ Tracked(s) /\ s.inertia = "none"
  BY StillInertia DEF GestureInv
<1>3. a \in Gestures /\ Tracked(a) /\ a.inertia = "none" /\ a.pan = NoPan
  <2> HIDE DEF s
  <2> QED
    BY <1>1, <1>2, PanAborted
<1>4. e \in Gestures /\ e.inertia = "none" /\ e.pan = NoPan /\ e.pinch = NoPinch
  <2> HIDE DEF a
  <2> QED
    BY <1>1, <1>3, PinchOver
<1>5. touch' = PanAborts([e EXCEPT !.down = {}])
  BY DEF Abort
<1> HIDE DEF e
<1>6. touch' = g
  BY <1>4, <1>5 DEF PanAborts, LetGo, Idle, Gestures
<1>7. /\ g \in Gestures /\ g.mode = "idle" /\ g.inertia = "none" /\ ~g.frozen
      /\ g.down = {} /\ g.pan = NoPan /\ g.pinch = NoPinch
  BY <1>4 DEF Gestures, Modes, AxisOrNone
<1> HIDE DEF g
<1> QED
  BY <1>1, <1>6, <1>7, GestureAxes DEF GestureInv, Tracked, Held

\* Every step keeps the invariant.
LEMMA GestureKeeps == GestureInv /\ [GestureNext]_gestureVars => GestureInv'
<1> SUFFICES ASSUME GestureInv, [GestureNext]_gestureVars PROVE GestureInv'
  OBVIOUS
<1>1. ASSUME NEW p \in Pointers, NEW fast \in BOOLEAN, PointerDown(p, fast)
      PROVE  GestureInv'
  BY <1>1, PointerDownKeeps
<1>2. ASSUME NEW p \in Pointers, PointerCancel(p) \/ \E fast \in BOOLEAN : PointerUp(p, fast)
      PROVE  GestureInv'
  BY <1>2, PointerUpKeeps
<1>3. ASSUME NEW axis \in Axes, NEW zoom \in BOOLEAN, NEW custom \in BOOLEAN,
             PanLocks(axis, zoom, custom)
      PROVE  GestureInv'
  BY <1>3, PanLocksKeeps
<1>4. ASSUME NEW axis \in Axes, PinchLocks(axis) PROVE GestureInv'
  BY <1>4, PinchLocksKeeps
<1>5. ASSUME NEW axis \in Axes, Wheel(axis) PROVE GestureInv'
  BY <1>5, WheelKeeps
<1>6. CASE PanMoves
  BY <1>6, PanMovesKeeps
<1>7. CASE InertiaEnds
  BY <1>7, InertiaEndsKeeps
<1>8. CASE Abort
  BY <1>8, AbortKeeps
<1>9. CASE UNCHANGED gestureVars
  BY <1>9 DEF gestureVars, GestureInv, Tracked, Held
<1> QED
  BY <1>1, <1>2, <1>3, <1>4, <1>5, <1>6, <1>7, <1>8, <1>9 DEF GestureNext

\* Whatever fingers, inertia, wheel and foreign seeks do, the playback of a song
\* is let go when nothing holds it, and frozen while a gesture moves the picture.
THEOREM FreezeCorrect == GestureSpec => []FreezeReleased
<1>1. GestureInv => FreezeReleased
  BY DEF GestureInv, Held, FreezeReleased
<1> QED
  BY <1>1, GestureStarts, GestureKeeps, PTL DEF GestureSpec

-----------------------------------------------------------------------------
(* The tries of a loop: for whatever is listed, kept or shown on one side  *)
(* the other agrees or a message that will make it agree is under way.     *)

Stages == {"none", "preparing", "open", "closing", "settling", "done"}
TryOrNone == Tries \cup {NoTry}
Loops ==
    [stage : {"none", "range", "sing"}, tries : SUBSET Tries, selected : TryOrNone,
     phase : {"none", "armed", "writing"}, recording : BOOLEAN, pending : BOOLEAN,
     inserting : TryOrNone, session : TryOrNone, made : Nat, choices : Nat,
     settler : TryOrNone, at : [Tries -> Stages], complete : SUBSET Tries,
     crossed : BOOLEAN]
Keepers ==
    [kept : SUBSET Tries, draft : TryOrNone, sung : SUBSET Tries, live : TryOrNone,
     sending : TryOrNone]
Orders ==
    [kind : {"open", "select", "remove", "insert"}, try : TryOrNone]
        \cup [kind : {"settle"}, keep : BOOLEAN] \cup [kind : {"discard"}]
Replies == [kind : {"settled"}, try : TryOrNone] \cup [kind : {"inserted"}, done : BOOLEAN]
LoopType ==
    loop \in Loops /\ orders \in Seq(Orders) /\ replies \in Seq(Replies) /\ keeper \in Keepers

Has(s, kind) == \E i \in DOMAIN s : s[i].kind = kind
Says(s, kind, t) == \E i \in DOMAIN s : s[i].kind = kind /\ s[i].try = t
Once(s, kind) == \A i, j \in DOMAIN s : s[i].kind = kind /\ s[j].kind = kind => i = j
OnceOf(s, kind) ==
    \A i, j \in DOMAIN s :
      s[i].kind = kind /\ s[j].kind = kind /\ s[i].try = s[j].try => i = j \/ s[i].try = NoTry

\* The order or the answer that settles a try is under way, and two of them.
SettleUnderway == Has(orders, "settle") \/ Has(replies, "settled")
SettlesUnderway ==
    \/ ~Once(orders, "settle") \/ ~Once(replies, "settled")
    \/ Has(orders, "settle") /\ Has(replies, "settled")

\* One session at a time is before the end of its stream.
InSession ==
    /\ loop.session # NoTry => loop.at[loop.session] \in {"preparing", "open", "closing"}
    /\ \A t \in Tries : loop.at[t] \in {"preparing", "open", "closing"} => t = loop.session
    /\ \A t \in Tries : t > loop.made => loop.at[t] = "none"
    /\ loop.settler # NoTry => loop.at[loop.settler] = "settling"

\* For whatever settles a try there is one that waits for it, so that a discard
\* that meets one has crossed it; what is announced ends with a session or an
\* answer; a draft is closed by an order behind it or by the session.
Awaited ==
    /\ SettleUnderway => \E t \in Tries : loop.at[t] = "settling"
    /\ SettlesUnderway => \E t \in Tries \ {loop.settler} : loop.at[t] = "settling"
    /\ loop.phase # "none" \/ loop.pending => loop.session # NoTry \/ SettleUnderway
    /\ \A i \in DOMAIN orders : orders[i].kind = "open" =>
         \/ \E j \in DOMAIN orders : j > i /\ orders[j].kind = "settle"
         \/ loop.session # NoTry /\ loop.at[loop.session] \in {"open", "closing"}

\* A try is drafted once, and known to nobody before it is settled.
Spent(t) ==
    \/ t \in keeper.kept \cup loop.tries
    \/ Says(replies, "settled", t) \/ Says(orders, "remove", t)
Fresh ==
    /\ OnceOf(orders, "open")
    /\ \A t \in Tries :
         /\ t = keeper.draft => ~Spent(t)
         /\ Says(orders, "open", t) => ~Spent(t) /\ t # keeper.draft
         /\ loop.at[t] \in {"none", "preparing"} =>
              ~Spent(t) /\ t # keeper.draft /\ ~Says(orders, "open", t)

\* A try is listed, about to be listed or about to be removed.
Apart ==
    /\ \A t \in Tries :
         /\ t \in loop.tries => ~Says(replies, "settled", t) /\ ~Says(orders, "remove", t)
         /\ Says(replies, "settled", t) => ~Says(orders, "remove", t)
    /\ OnceOf(orders, "remove") /\ OnceOf(replies, "settled")
    /\ ~Says(orders, "remove", NoTry)
    /\ loop.selected \in loop.tries \cup {NoTry}

\* A try that is being kept in the recording is ordered, sent or answered for.
Inserting ==
    /\ loop.inserting # NoTry => loop.inserting \in loop.tries /\ loop.stage # "none"
    /\ loop.inserting = NoTry =>
         ~Has(orders, "insert") /\ keeper.sending = NoTry /\ ~Has(replies, "inserted")
    /\ \A t \in TryOrNone : Says(orders, "insert", t) => t = loop.inserting
    /\ keeper.sending \in {NoTry, loop.inserting}
    /\ Has(orders, "insert") => keeper.sending = NoTry /\ ~Has(replies, "inserted")
    /\ keeper.sending # NoTry => ~Has(replies, "inserted")
    /\ Once(orders, "insert") /\ Once(replies, "inserted")

Inserted == \E i \in DOMAIN replies : replies[i].kind = "inserted" /\ replies[i].done

\* The decoder keeps what is listed, about to be listed or about to be removed.
Listed ==
    ~Has(orders, "discard") =>
      \A t \in Tries : t \in keeper.kept <=>
        \/ t \in loop.tries /\ ~(t = loop.inserting /\ Inserted)
        \/ Says(replies, "settled", t)
        \/ Says(orders, "remove", t)

\* Nothing is listed or settled ahead of a discard nor removed behind it.
Discarding ==
    \A i \in DOMAIN orders : orders[i].kind = "discard" =>
      /\ loop.tries = {} /\ ~Has(replies, "settled")
      /\ \A j \in DOMAIN orders : j < i => orders[j].kind # "settle"
      /\ \A j \in DOMAIN orders : i < j => orders[j].kind # "remove"

\* Once the orders are obeyed the decoder shows the try that is selected.
Shows(o) == o.kind \in {"select", "discard"}
Target(o) == IF o.kind = "select" THEN o.try ELSE NoTry
Left(q, t, i) ==
    IF \E j \in DOMAIN q : j > i /\ q[j].kind = "remove" /\ q[j].try = t
    THEN NoTry ELSE t
Showing ==
    loop.session = NoTry /\ ~SettleUnderway /\ ~Inserted =>
      /\ (\A i \in DOMAIN orders : ~Shows(orders[i])) => loop.selected = Left(orders, keeper.live, 0)
      /\ \A i \in DOMAIN orders :
           Shows(orders[i]) /\ (\A j \in DOMAIN orders : j > i => ~Shows(orders[j])) =>
             loop.selected = Left(orders, Target(orders[i]), i)

Uncrossed == ~loop.crossed => Listed /\ Discarding /\ Showing
LoopInv ==
    LoopType /\ InSession /\ Awaited /\ Fresh /\ Apart /\ Inserting /\ Uncrossed

LEMMA LoopAgrees == LoopInv => TriesAgree
<1> SUFFICES ASSUME LoopInv, Quiet PROVE TriesAgree
  BY DEF TriesAgree
<1>1. orders = <<>> /\ replies = <<>> /\ loop.session = NoTry
  BY DEF Quiet
<1>2. ~SettleUnderway /\ ~Inserted /\ ~Has(orders, "discard")
  BY <1>1 DEF SettleUnderway, Has, Inserted
<1>3. loop.phase = "none" /\ ~loop.pending
  BY <1>1, <1>2 DEF LoopInv, Awaited
<1>4. CASE ~loop.crossed
  <2>1. \A t \in Tries : t \in keeper.kept <=> t \in loop.tries
    BY <1>1, <1>2, <1>4 DEF LoopInv, Uncrossed, Listed, Says
  <2>2. loop.tries = keeper.kept
    BY <2>1 DEF LoopInv, LoopType, Loops, Keepers
  <2>3. loop.selected = keeper.live
    BY <1>1, <1>2, <1>4 DEF LoopInv, Uncrossed, Showing, Left
  <2> QED
    BY <1>3, <2>2, <2>3 DEF TriesAgree
<1> QED
  BY <1>3, <1>4 DEF TriesAgree

LEMMA LoopStarts == LoopInit => LoopInv
<1> SUFFICES ASSUME LoopInit PROVE LoopInv
  OBVIOUS
<1>1. orders = <<>> /\ replies = <<>> /\ DOMAIN orders = {} /\ DOMAIN replies = {}
  BY DEF LoopInit
<1>2. LoopType
  BY DEF LoopInit, LoopType, Loops, Keepers, TryOrNone, Stages, NoTry
<1> QED
  BY <1>1, <1>2 DEF LoopInit, LoopInv, InSession, Awaited, Fresh, Apart, Inserting, Uncrossed,
     Listed, Discarding, Showing, SettleUnderway, SettlesUnderway, Has, Says, Once, OnceOf, Spent,
     Left, Inserted, NoTry, Tries

-----------------------------------------------------------------------------
(* What a step leaves alone.                                               *)

SameTries(l, m) ==
    /\ m.tries = l.tries /\ m.selected = l.selected /\ m.inserting = l.inserting
    /\ m.crossed = l.crossed /\ (m.stage = "none" => l.stage = "none")
SameSession(l, m) ==
    m.session = l.session /\ m.at = l.at /\ m.settler = l.settler /\ m.made = l.made
SamePhase(l, m) == m.phase = l.phase /\ m.pending = l.pending

\* The stream of the session that is on is being closed.
Stops(l, m) ==
    /\ m.session = l.session /\ m.settler = l.settler /\ m.made = l.made
    /\ \/ m.at = l.at
       \/ /\ l.session # NoTry /\ l.at[l.session] = "open"
          /\ m.at = [l.at EXCEPT ![l.session] = "closing"]

LEMMA StopTryFacts ==
  ASSUME NEW l \in Loops
  PROVE  LET m == StopTry(l) IN
         m \in Loops /\ Stops(l, m) /\ SameTries(l, m) /\ SamePhase(l, m)
<1> DEFINE e == [l EXCEPT !.at[l.session] = "closing"]
<1>1. CASE l.session = NoTry \/ l.at[l.session] # "open"
  BY <1>1 DEF StopTry, Stops, SameTries, SamePhase
<1>2. CASE l.session # NoTry /\ l.at[l.session] = "open"
  <2>1. l.session \in Tries
    BY <1>2 DEF Loops, TryOrNone
  <2>2. StopTry(l) = e
    BY <1>2 DEF StopTry
  <2>3. /\ e.at = [l.at EXCEPT ![l.session] = "closing"]
        /\ e.session = l.session /\ e.settler = l.settler /\ e.made = l.made
        /\ SameTries(l, e) /\ SamePhase(l, e)
    BY DEF Loops, SameTries, SamePhase
  <2>4. e.at \in [Tries -> Stages]
    BY <2>1, <2>3 DEF Loops, Stages
  <2>5. e \in Loops
    BY <2>4 DEF Loops
  <2> QED
    BY <1>2, <2>2, <2>3, <2>5 DEF Stops
<1> QED
  BY <1>1, <1>2

LEMMA CancelTryFacts ==
  ASSUME NEW l \in Loops
  PROVE  LET m == CancelTry(l) IN
         /\ m \in Loops /\ Stops(l, m) /\ SameTries(l, m) /\ m.phase = l.phase
         /\ m.pending => l.pending \/ l.session # NoTry
<1> DEFINE s == StopTry(l)
<1>1. s \in Loops /\ Stops(l, s) /\ SameTries(l, s) /\ SamePhase(l, s)
  BY StopTryFacts
<1>2. CASE l.pending \/ l.phase = "none"
  BY <1>2 DEF CancelTry, Stops, SameTries
<1>3. CASE ~(l.pending \/ l.phase = "none") /\ l.session = NoTry
  BY <1>3 DEF CancelTry, Stops, SameTries, Loops
<1>4. CASE ~(l.pending \/ l.phase = "none") /\ l.session # NoTry
  <2>1. CancelTry(l) = [s EXCEPT !.pending = TRUE]
    BY <1>4 DEF CancelTry
  <2> HIDE DEF s
  <2> QED
    BY <1>1, <1>4, <2>1, ZenonT(60) DEF Stops, SameTries, SamePhase, Loops
<1> QED
  BY <1>2, <1>3, <1>4

\* A step of the session alone.
LEMMA SessionGoesOn ==
  ASSUME LoopInv, UNCHANGED <<orders, replies, keeper>>, loop' \in Loops,
         SameTries(loop, loop'), Stops(loop, loop'),
         loop'.phase # "none" \/ loop'.pending =>
           loop.phase # "none" \/ loop.pending \/ loop.session # NoTry
  PROVE  LoopInv'
<1> DEFINE s == loop.session
<1>1. LoopType'
  BY DEF LoopInv, LoopType
<1>2. /\ loop'.session = s /\ loop'.settler = loop.settler /\ loop'.made = loop.made
      /\ s \in Tries \cup {NoTry} /\ loop.settler \in Tries \cup {NoTry}
      /\ \A t \in Tries :
           \/ loop'.at[t] = loop.at[t]
           \/ t = s /\ loop.at[t] = "open" /\ loop'.at[t] = "closing"
  BY DEF Stops, LoopInv, LoopType, Loops, TryOrNone, Stages
<1>3. InSession'
  <2>1. InSession
    BY DEF LoopInv
  <2> QED
    BY <1>2, <2>1 DEF InSession, Tries, NoTry
<1>4. Awaited'
  BY <1>2 DEF LoopInv, Awaited, InSession, SettleUnderway, SettlesUnderway, Has, Once
<1>5. Fresh' /\ Apart' /\ Inserting'
  BY <1>2 DEF LoopInv, Fresh, Apart, Inserting, SameTries, Spent, Has, Says, Once, OnceOf
<1>6. Uncrossed'
  BY <1>2 DEF LoopInv, Uncrossed, SameTries, Listed, Discarding, Showing, SettleUnderway,
     Has, Says, Inserted, Left
<1> QED
  BY <1>1, <1>3, <1>4, <1>5, <1>6 DEF LoopInv

-----------------------------------------------------------------------------
(* Queues.                                                                 *)

LEMMA Appended ==
  ASSUME NEW S, NEW q \in Seq(S), NEW e \in S, NEW r, r = Append(q, e)
  PROVE  /\ r \in Seq(S) /\ Len(q) \in Nat
         /\ DOMAIN q = 1..Len(q) /\ DOMAIN r = 1..(Len(q) + 1)
         /\ \A i \in DOMAIN q : i \in DOMAIN r /\ r[i] = q[i]
         /\ r[Len(q) + 1] = e /\ Len(q) + 1 \in DOMAIN r
         /\ \A i \in DOMAIN r : i \in DOMAIN q \/ i = Len(q) + 1
OBVIOUS

LEMMA AppendedSays ==
  ASSUME NEW S, NEW q \in Seq(S), NEW e \in S, NEW r, r = Append(q, e)
  PROVE  /\ \A k : Has(r, k) <=> Has(q, k) \/ e.kind = k
         /\ \A k, t : Says(r, k, t) <=> Says(q, k, t) \/ (e.kind = k /\ e.try = t)
         /\ \A k : Once(q, k) /\ (e.kind = k => ~Has(q, k)) => Once(r, k)
         /\ \A k : OnceOf(q, k) /\ (e.kind = k => e.try = NoTry \/ ~Says(q, k, e.try)) => OnceOf(r, k)
<1> DEFINE n == Len(q)
<1>1. /\ \A i \in DOMAIN q : i \in DOMAIN r /\ r[i] = q[i]
      /\ r[n + 1] = e /\ n + 1 \in DOMAIN r
      /\ \A i \in DOMAIN r : i \in DOMAIN q \/ i = n + 1
  BY Appended
<1> HIDE DEF n
<1>2. \A k : Has(r, k) <=> Has(q, k) \/ e.kind = k
  BY <1>1 DEF Has
<1>3. \A k, t : Says(r, k, t) <=> Says(q, k, t) \/ (e.kind = k /\ e.try = t)
  BY <1>1 DEF Says
<1>4. \A k : Once(q, k) /\ (e.kind = k => ~Has(q, k)) => Once(r, k)
  BY <1>1 DEF Has, Once
<1>5. \A k : OnceOf(q, k) /\ (e.kind = k => e.try = NoTry \/ ~Says(q, k, e.try)) => OnceOf(r, k)
  BY <1>1 DEF Says, OnceOf
<1> QED
  BY <1>2, <1>3, <1>4, <1>5

LEMMA Tailed ==
  ASSUME NEW S, NEW q \in Seq(S), q # <<>>, NEW r, r = Tail(q)
  PROVE  /\ r \in Seq(S) /\ Head(q) \in S /\ Len(q) \in Nat /\ Len(q) >= 1
         /\ DOMAIN q = 1..Len(q) /\ DOMAIN r = 1..(Len(q) - 1)
         /\ Head(q) = q[1] /\ 1 \in DOMAIN q
         /\ \A i \in DOMAIN r : i \in Nat /\ i >= 1 /\ i + 1 \in DOMAIN q /\ r[i] = q[i + 1]
         /\ \A i \in DOMAIN q : i = 1 \/ (i \in Nat /\ i > 1 /\ i - 1 \in DOMAIN r /\ q[i] = r[i - 1])
<1>1. Len(q) >= 1 /\ Len(q) \in Nat
  BY EmptySeq
<1>2. r \in Seq(S) /\ Len(r) = Len(q) - 1 /\ \A i \in 1..Len(r) : r[i] = q[i + 1]
  BY <1>1
<1> QED
  BY <1>1, <1>2

LEMMA TailedSays ==
  ASSUME NEW S, NEW q \in Seq(S), q # <<>>, NEW r, r = Tail(q)
  PROVE  LET h == Head(q) IN
         /\ \A k : Has(q, k) <=> Has(r, k) \/ h.kind = k
         /\ \A k, t : Says(q, k, t) <=> Says(r, k, t) \/ (h.kind = k /\ h.try = t)
         /\ \A k : Once(q, k) => Once(r, k) /\ (h.kind = k => ~Has(r, k))
         /\ \A k : OnceOf(q, k) =>
              OnceOf(r, k) /\ (h.kind = k => h.try = NoTry \/ ~Says(r, k, h.try))
<1> DEFINE h == Head(q)
           up(i) == i + 1
           low(i) == i - 1
<1>1. /\ h = q[1] /\ 1 \in DOMAIN q
      /\ \A i \in DOMAIN r : up(i) \in DOMAIN q /\ up(i) # 1 /\ r[i] = q[up(i)] /\ low(up(i)) = i
      /\ \A i \in DOMAIN q : i = 1 \/ (low(i) \in DOMAIN r /\ q[i] = r[low(i)])
  BY Tailed
<1> HIDE DEF h, up, low
<1>2. \A k : Has(q, k) <=> Has(r, k) \/ h.kind = k
  BY <1>1 DEF Has
<1>3. \A k, t : Says(q, k, t) <=> Says(r, k, t) \/ (h.kind = k /\ h.try = t)
  BY <1>1 DEF Says
<1>4. \A k : Once(q, k) => Once(r, k) /\ (h.kind = k => ~Has(r, k))
  BY <1>1 DEF Has, Once
<1>5. \A k : OnceOf(q, k) => OnceOf(r, k) /\ (h.kind = k => h.try = NoTry \/ ~Says(r, k, h.try))
  BY <1>1 DEF Says, OnceOf
<1> QED
  BY <1>2, <1>3, <1>4, <1>5 DEF h

-----------------------------------------------------------------------------
(* An order to the decoder.                                                *)

\* What an order adds to the queue.
Ordering(e) ==
    /\ \A k : Has(orders', k) <=> Has(orders, k) \/ e.kind = k
    /\ \A k, t : Says(orders', k, t) <=> Says(orders, k, t) \/ (e.kind = k /\ e.try = t)
    /\ \A k : Once(orders, k) /\ (e.kind = k => ~Has(orders, k)) => Once(orders', k)
    /\ \A k : OnceOf(orders, k) /\ (e.kind = k => e.try = NoTry \/ ~Says(orders, k, e.try)) =>
         OnceOf(orders', k)
Lined(e, n) ==
    /\ n \in Nat /\ DOMAIN orders = 1..n /\ DOMAIN orders' = 1..(n + 1)
    /\ \A i \in 1..n : orders'[i] = orders[i]
    /\ orders'[n + 1] = e

LEMMA OrderFacts ==
  ASSUME LoopType, NEW e \in Orders, orders' = Append(orders, e)
  PROVE  orders' \in Seq(Orders) /\ Ordering(e) /\ \E n : Lined(e, n)
<1>1. orders \in Seq(Orders)
  BY DEF LoopType
<1>2. Ordering(e)
  BY <1>1, AppendedSays DEF Ordering
<1>3. orders' \in Seq(Orders) /\ Lined(e, Len(orders))
  BY <1>1, Appended DEF Lined
<1> QED
  BY <1>2, <1>3

LEMMA NoTryIsNone == NoTry \notin Tries /\ \A t \in Tries : t \in TryOrNone
BY DEF Tries, NoTry, TryOrNone

LEMMA DiscardingLined ==
  ASSUME Discarding, NEW e, NEW n, Lined(e, n), e.kind \notin {"discard", "remove"},
         replies' = replies, loop'.tries = loop.tries
  PROVE  Discarding'
BY DEF Discarding, Lined

\* The discard of a loop that settles nothing.
LEMMA DiscardingBegins ==
  ASSUME NEW e, NEW n, Lined(e, n), e.kind = "discard", ~SettleUnderway,
         ~Has(replies', "settled"), loop'.tries = {}, Discarding
  PROVE  Discarding'
<1>1. \A j \in 1..n : orders[j].kind # "settle"
  BY DEF Lined, SettleUnderway, Has
<1> QED
  BY <1>1 DEF Discarding, Lined

LEMMA ShowingLined ==
  ASSUME Showing, NEW e, NEW n, Lined(e, n), e.kind \notin {"select", "discard", "remove"},
         loop'.session = NoTry /\ ~SettleUnderway' /\ ~Inserted' =>
           loop.session = NoTry /\ ~SettleUnderway /\ ~Inserted,
         loop'.selected = loop.selected, keeper' = keeper
  PROVE  Showing'
<1> SUFFICES ASSUME loop.session = NoTry /\ ~SettleUnderway /\ ~Inserted
             PROVE  Showing'
  BY DEF Showing
<1>1. \A t : \A i \in 0..n : Left(orders', t, i) = Left(orders, t, i)
  BY DEF Left, Lined
<1>2. \A i \in 1..n : Shows(orders'[i]) <=> Shows(orders[i])
  BY DEF Lined
<1>3. ~Shows(orders'[n + 1])
  BY DEF Lined, Shows
<1>4. ASSUME \A i \in DOMAIN orders' : ~Shows(orders'[i])
      PROVE  loop'.selected = Left(orders', keeper'.live, 0)
  <2>1. \A i \in DOMAIN orders : ~Shows(orders[i])
    BY <1>2, <1>4 DEF Lined
  <2>2. loop.selected = Left(orders, keeper.live, 0)
    BY <2>1 DEF Showing
  <2> QED
    BY <1>1, <2>2 DEF Left, Lined
<1>5. ASSUME NEW i \in DOMAIN orders', Shows(orders'[i]),
             \A j \in DOMAIN orders' : j > i => ~Shows(orders'[j])
      PROVE  loop'.selected = Left(orders', Target(orders'[i]), i)
  <2>1. i \in 1..n /\ orders'[i] = orders[i]
    BY <1>3, <1>5 DEF Lined
  <2>2. \A j \in DOMAIN orders : j > i => ~Shows(orders[j])
    BY <1>2, <1>5, <2>1 DEF Lined
  <2>3. loop.selected = Left(orders, Target(orders[i]), i)
    BY <1>2, <1>5, <2>1, <2>2 DEF Showing, Lined
  <2> QED
    BY <1>1, <2>1, <2>3 DEF Left, Lined
<1> QED
  BY <1>4, <1>5 DEF Showing

\* Whatever is on its way, the decoder is told what is selected.
LEMMA ShowingTold ==
  ASSUME NEW e, NEW n, Lined(e, n), Shows(e), loop'.selected = Target(e)
  PROVE  Showing'
<1>1. ~(\A i \in DOMAIN orders' : ~Shows(orders'[i]))
  BY DEF Lined
<1>2. ASSUME NEW i \in DOMAIN orders', Shows(orders'[i]),
             \A j \in DOMAIN orders' : j > i => ~Shows(orders'[j])
      PROVE  loop'.selected = Left(orders', Target(orders'[i]), i)
  <2>1. i = n + 1 /\ orders'[i] = e
    BY <1>2 DEF Lined
  <2> QED
    BY <2>1 DEF Left, Lined
<1> QED
  BY <1>1, <1>2 DEF Showing

LEMMA TryOpensKeeps ==
  ASSUME LoopInv, NEW t \in Tries, TryOpens(t)
  PROVE  LoopInv'
<1> DEFINE e == Order("open", t)
<1>1. /\ e \in Orders /\ e.kind = "open" /\ e.try = t
  BY DEF Order, Orders, TryOrNone
<1>2. orders' \in Seq(Orders) /\ Ordering(e) /\ \E n : Lined(e, n)
  BY <1>1, OrderFacts DEF LoopInv, TryOpens
<1> HIDE DEF e
<1>3. /\ loop.at[t] = "preparing" /\ t = loop.session
      /\ loop.settler \in Tries \cup {NoTry} /\ loop.at \in [Tries -> Stages]
      /\ UNCHANGED <<replies, keeper>>
  BY DEF TryOpens, LoopInv, InSession, LoopType, Loops, TryOrNone
<1>4. /\ loop'.at = [loop.at EXCEPT ![t] = "open"]
      /\ loop'.pending = FALSE /\ loop'.phase = loop.phase
      /\ loop'.session = loop.session /\ loop'.settler = loop.settler /\ loop'.made = loop.made
      /\ SameTries(loop, loop')
  BY DEF TryOpens, LoopInv, LoopType, Loops, SameTries
<1>5. LoopType'
  <2>1. [loop.at EXCEPT ![t] = "open"] \in [Tries -> Stages]
    BY <1>3 DEF Stages
  <2> QED
    BY <1>2, <1>3, <2>1 DEF TryOpens, LoopInv, LoopType, Loops
<1>6. InSession'
  <2>1. InSession
    BY DEF LoopInv
  <2> QED
    BY <1>3, <1>4, <2>1 DEF InSession, Tries, NoTry
<1>7. Awaited'
  <2>1. Awaited
    BY DEF LoopInv
  <2>2. (SettleUnderway' => SettleUnderway) /\ (SettlesUnderway' => SettlesUnderway)
    BY <1>1, <1>2, <1>3 DEF Ordering, SettleUnderway, SettlesUnderway
  <2>3. \A i \in DOMAIN orders' : orders'[i].kind = "open" =>
          loop'.session # NoTry /\ loop'.at[loop'.session] \in {"open", "closing"}
    <3>1. loop'.session = t /\ t # NoTry /\ loop'.at[t] = "open"
      BY <1>3, <1>4, NoTryIsNone
    <3> QED
      BY <3>1
  <2>4. \A r \in Tries : loop.at[r] = "settling" => loop'.at[r] = "settling"
    BY <1>3, <1>4
  <2> QED
    BY <1>3, <1>4, <2>1, <2>2, <2>3, <2>4 DEF Awaited, Tries, NoTry
<1>8. Fresh'
  <2>1. Fresh
    BY DEF LoopInv
  <2>2. \A r : Spent(r)' <=> Spent(r)
    BY <1>1, <1>2, <1>3, <1>4 DEF Spent, Ordering, SameTries
  <2> QED
    BY <1>1, <1>2, <1>3, <1>4, <2>1, <2>2 DEF Fresh, Ordering
<1>9. Apart' /\ Inserting'
  BY <1>1, <1>2, <1>3, <1>4 DEF LoopInv, Apart, Inserting, Ordering, SameTries
<1>10. Uncrossed'
  <2> SUFFICES ASSUME ~loop.crossed PROVE Listed' /\ Discarding' /\ Showing'
    BY <1>4 DEF Uncrossed, SameTries
  <2>1. Listed'
    BY <1>1, <1>2, <1>3, <1>4 DEF LoopInv, Uncrossed, Listed, Ordering, SameTries, Inserted
  <2>2. Discarding'
    BY <1>1, <1>2, <1>3, <1>4, DiscardingLined DEF LoopInv, Uncrossed, SameTries
  <2>3. Showing'
    BY <1>3, <1>4 DEF Showing, Tries, NoTry
  <2> QED
    BY <2>1, <2>2, <2>3
<1> QED
  BY <1>5, <1>6, <1>7, <1>8, <1>9, <1>10 DEF LoopInv

\* No try is settled, and the other answers are nobody's but the insertion's.
SameAnswers ==
    /\ replies' \in Seq(Replies)
    /\ Has(replies', "settled") <=> Has(replies, "settled")
    /\ \A t : Says(replies', "settled", t) <=> Says(replies, "settled", t)
    /\ Once(replies, "settled") => Once(replies', "settled")
    /\ OnceOf(replies, "settled") => OnceOf(replies', "settled")

LEMMA SameAnswersSame ==
  ASSUME LoopInv, replies' = replies
  PROVE  SameAnswers
BY DEF LoopInv, LoopType, SameAnswers

\* A command to the decoder leaves the sessions as they are, or asks the one
\* that is on to stop.
LEMMA CommandGoesOut ==
  ASSUME LoopInv, NEW e \in Orders, orders' = Append(orders, e),
         e.kind \notin {"open", "settle"}, SameAnswers, keeper' = keeper, loop' \in Loops,
         Stops(loop, loop'), \A t : Spent(t)' => Spent(t),
         loop'.phase # "none" \/ loop'.pending =>
           loop.phase # "none" \/ loop.pending \/ loop.session # NoTry
  PROVE  /\ LoopType' /\ InSession' /\ Awaited' /\ Fresh'
         /\ Ordering(e) /\ \E n : Lined(e, n)
<1> DEFINE s == loop.session
<1>1. orders' \in Seq(Orders) /\ Ordering(e) /\ \E n : Lined(e, n)
  BY OrderFacts DEF LoopInv
<1>2. LoopType'
  BY <1>1 DEF LoopInv, LoopType, SameAnswers
<1>3. /\ loop'.session = s /\ loop'.settler = loop.settler /\ loop'.made = loop.made
      /\ s \in Tries \cup {NoTry} /\ loop.settler \in Tries \cup {NoTry}
      /\ \A t \in Tries :
           \/ loop'.at[t] = loop.at[t]
           \/ t = s /\ loop.at[t] = "open" /\ loop'.at[t] = "closing"
  BY DEF Stops, LoopInv, LoopType, Loops, TryOrNone, Stages
<1>4. InSession'
  <2>1. InSession
    BY DEF LoopInv
  <2> QED
    BY <1>3, <2>1 DEF InSession, Tries, NoTry
<1>5. Awaited'
  <2>1. Awaited /\ InSession
    BY DEF LoopInv
  <2>2. (SettleUnderway' <=> SettleUnderway) /\ (SettlesUnderway' => SettlesUnderway)
    BY <1>1 DEF Ordering, SettleUnderway, SettlesUnderway, SameAnswers
  <2>3. PICK n : Lined(e, n)
    BY <1>1
  <2>4. \A t \in Tries : loop.at[t] = "settling" => loop'.at[t] = "settling"
    BY <1>3
  <2>5. s # NoTry /\ loop.at[s] \in {"open", "closing"} =>
          loop'.session # NoTry /\ loop'.at[loop'.session] \in {"open", "closing"}
    BY <1>3
  <2>6. \A i \in DOMAIN orders' : orders'[i].kind = "open" =>
          \/ \E j \in DOMAIN orders' : j > i /\ orders'[j].kind = "settle"
          \/ loop'.session # NoTry /\ loop'.at[loop'.session] \in {"open", "closing"}
    BY <2>1, <2>3, <2>5 DEF Awaited, Lined
  <2> QED
    BY <1>3, <2>1, <2>2, <2>4, <2>6 DEF Awaited
<1>6. Fresh'
  <2>1. Fresh
    BY DEF LoopInv
  <2>2. \A t \in Tries : loop'.at[t] \in {"none", "preparing"} => loop.at[t] \in {"none", "preparing"}
    BY <1>3
  <2> QED
    BY <1>1, <2>1, <2>2 DEF Fresh, Ordering
<1> QED
  BY <1>1, <1>2, <1>4, <1>5, <1>6

LEMMA SelectTryKeeps ==
  ASSUME LoopInv, NEW t \in TryOrNone, SelectTry(t)
  PROVE  LoopInv'
<1> DEFINE e == Order("select", t)
<1>1. e \in Orders /\ e.kind = "select" /\ e.try = t /\ Shows(e) /\ Target(e) = t
  BY DEF Order, Orders, Shows, Target
<1> HIDE DEF e
<1>2. /\ orders' = Append(orders, e) /\ UNCHANGED <<replies, keeper>>
      /\ t \in loop.tries \cup {NoTry} /\ loop.inserting = NoTry
  BY DEF SelectTry, e
<1>3. /\ loop' \in Loops /\ loop'.selected = t
      /\ loop'.tries = loop.tries /\ loop'.inserting = loop.inserting
      /\ loop'.crossed = loop.crossed /\ loop'.stage = loop.stage
      /\ SameSession(loop, loop') /\ SamePhase(loop, loop')
  <2> DEFINE l == Chosen(loop)
  <2>1. l \in Loops /\ SameSession(loop, l) /\ SamePhase(loop, l) /\ SameTries(loop, l)
        /\ l.stage = loop.stage
    <3>1. loop \in Loops /\ loop.choices + 1 \in Nat
      BY DEF LoopInv, LoopType, Loops
    <3> QED
      BY <3>1 DEF Chosen, Loops, SameSession, SamePhase, SameTries
  <2>2. loop' = [l EXCEPT !.selected = t]
    BY DEF SelectTry
  <2> HIDE DEF l
  <2> QED
    BY <2>1, <2>2 DEF Loops, SameSession, SamePhase, SameTries
<1>4. \A r : Spent(r)' => Spent(r)
  <2>1. Ordering(e)
    BY <1>1, <1>2, OrderFacts DEF LoopInv
  <2> QED
    BY <1>1, <1>2, <1>3, <2>1 DEF Spent, Ordering
<1>5. /\ LoopType' /\ InSession' /\ Awaited' /\ Fresh'
      /\ Ordering(e) /\ \E n : Lined(e, n)
  BY <1>1, <1>2, <1>3, <1>4, CommandGoesOut, SameAnswersSame DEF Stops, SameSession, SamePhase
<1>6. Apart' /\ Inserting'
  BY <1>1, <1>2, <1>3, <1>5 DEF LoopInv, Apart, Inserting, Ordering
<1>7. Uncrossed'
  <2> SUFFICES ASSUME ~loop.crossed PROVE Listed' /\ Discarding' /\ Showing'
    BY <1>3 DEF Uncrossed
  <2>1. Listed'
    BY <1>1, <1>2, <1>3, <1>5 DEF LoopInv, Uncrossed, Listed, Ordering, Inserted
  <2>2. Discarding'
    BY <1>1, <1>2, <1>3, <1>5, DiscardingLined DEF LoopInv, Uncrossed
  <2>3. Showing'
    BY <1>1, <1>3, <1>5, ShowingTold
  <2> QED
    BY <2>1, <2>2, <2>3
<1> QED
  BY <1>5, <1>6, <1>7 DEF LoopInv

LEMMA InsertTryKeeps ==
  ASSUME LoopInv, InsertTry
  PROVE  LoopInv'
<1> DEFINE t == loop.selected
           e == Order("insert", t)
<1>1. e \in Orders /\ e.kind = "insert" /\ e.try = t
  BY DEF Order, Orders, LoopInv, LoopType, Loops
<1> HIDE DEF e
<1>2. /\ orders' = Append(orders, e) /\ UNCHANGED <<replies, keeper>>
      /\ t \in loop.tries /\ t # NoTry /\ t \in TryOrNone /\ loop.inserting = NoTry /\ loop.stage = "sing"
  BY DEF InsertTry, Busy, e, LoopInv, Apart, LoopType, Loops
<1>3. /\ loop' \in Loops /\ loop'.inserting = t
      /\ loop'.tries = loop.tries /\ loop'.selected = loop.selected
      /\ loop'.crossed = loop.crossed /\ loop'.stage = loop.stage
      /\ SameSession(loop, loop') /\ SamePhase(loop, loop')
  BY DEF InsertTry, LoopInv, LoopType, Loops, SameSession, SamePhase
<1>4. \A r : Spent(r)' => Spent(r)
  <2>1. Ordering(e)
    BY <1>1, <1>2, OrderFacts DEF LoopInv
  <2> QED
    BY <1>1, <1>2, <1>3, <2>1 DEF Spent, Ordering
<1>5. /\ LoopType' /\ InSession' /\ Awaited' /\ Fresh'
      /\ Ordering(e) /\ \E n : Lined(e, n)
  BY <1>1, <1>2, <1>3, <1>4, CommandGoesOut, SameAnswersSame DEF Stops, SameSession, SamePhase
<1>6. ~Has(orders, "insert") /\ keeper.sending = NoTry /\ ~Has(replies, "inserted")
  BY <1>2 DEF LoopInv, Inserting
<1>7. Inserting'
  <2>1. \A r : ~Says(orders, "insert", r)
    BY <1>6 DEF Says, Has
  <2> QED
    BY <1>1, <1>2, <1>3, <1>5, <1>6, <2>1 DEF LoopInv, Inserting, Ordering
<1>8. Apart'
  BY <1>1, <1>2, <1>3, <1>5 DEF LoopInv, Apart, Ordering
<1>9. Uncrossed'
  <2> SUFFICES ASSUME ~loop.crossed PROVE Listed' /\ Discarding' /\ Showing'
    BY <1>3 DEF Uncrossed
  <2>1. Listed'
    <3>1. ~Inserted /\ ~Inserted'
      BY <1>2, <1>6 DEF Inserted, Has
    <3> QED
      BY <1>1, <1>2, <1>3, <1>5, <3>1 DEF LoopInv, Uncrossed, Listed, Ordering
  <2>2. Discarding'
    BY <1>1, <1>2, <1>3, <1>5, DiscardingLined DEF LoopInv, Uncrossed
  <2>3. Showing'
    <3>1. /\ SettleUnderway' <=> SettleUnderway
          /\ Inserted' <=> Inserted
      BY <1>1, <1>2, <1>5 DEF SettleUnderway, Ordering, Inserted
    <3> QED
      BY <1>1, <1>2, <1>3, <1>5, <3>1, ShowingLined DEF LoopInv, Uncrossed, SameSession
  <2> QED
    BY <2>1, <2>2, <2>3
<1> QED
  BY <1>5, <1>7, <1>8, <1>9 DEF LoopInv

LEMMA DeleteTryKeeps ==
  ASSUME LoopInv, DeleteTry
  PROVE  LoopInv'
<1> DEFINE t == loop.selected
           e == Order("remove", t)
<1>1. e \in Orders /\ e.kind = "remove" /\ e.try = t
  BY DEF Order, Orders, LoopInv, LoopType, Loops
<1> HIDE DEF e
<1>2. /\ orders' = Append(orders, e) /\ UNCHANGED <<replies, keeper>>
      /\ t \in loop.tries /\ t # NoTry /\ t \in Tries /\ loop.inserting = NoTry
  BY DEF DeleteTry, Busy, e, LoopInv, Apart, LoopType, Loops
<1>3. /\ loop' \in Loops /\ loop'.tries = loop.tries \ {t} /\ loop'.selected = NoTry
      /\ loop'.inserting = loop.inserting
      /\ loop'.crossed = loop.crossed /\ loop'.stage = loop.stage
      /\ SameSession(loop, loop') /\ SamePhase(loop, loop')
  BY DEF DeleteTry, LoopInv, LoopType, Loops, SameSession, SamePhase, TryOrNone
<1>4. Ordering(e)
  BY <1>1, <1>2, OrderFacts DEF LoopInv
<1>5. \A r : Spent(r)' => Spent(r)
  BY <1>1, <1>2, <1>3, <1>4 DEF Spent, Ordering
<1>6. /\ LoopType' /\ InSession' /\ Awaited' /\ Fresh' /\ \E n : Lined(e, n)
  BY <1>1, <1>2, <1>3, <1>5, CommandGoesOut, SameAnswersSame DEF Stops, SameSession, SamePhase
<1>7. Apart' /\ Inserting'
  BY <1>1, <1>2, <1>3, <1>4 DEF LoopInv, Apart, Inserting, Ordering
<1>8. Uncrossed'
  <2> SUFFICES ASSUME ~loop.crossed PROVE Listed' /\ Discarding' /\ Showing'
    BY <1>3 DEF Uncrossed
  <2>1. Listed /\ Discarding /\ Showing
    BY DEF LoopInv, Uncrossed
  <2>2. ~Inserted /\ ~Inserted'
    BY <1>2 DEF Inserted, LoopInv, Inserting, Has
  <2>3. Listed'
    BY <1>1, <1>2, <1>3, <1>4, <2>1, <2>2 DEF Listed, Ordering
  <2>4. PICK n : Lined(e, n)
    BY <1>6
  <2>5. Discarding'
    BY <1>1, <1>2, <1>3, <2>1, <2>4 DEF Discarding, Lined
  <2>6. Showing'
    <3> SUFFICES ASSUME loop.session = NoTry /\ ~SettleUnderway
                 PROVE  Showing'
      BY <1>1, <1>2, <1>3, <1>4 DEF Showing, SameSession, SettleUnderway, Ordering
    <3>1. \A r : \A i \in 0..n : Left(orders', r, i) = IF r = t THEN NoTry ELSE Left(orders, r, i)
      BY <1>1, <1>2, <2>4 DEF Left, Lined
    <3>2. /\ \A i \in 1..n : Shows(orders'[i]) <=> Shows(orders[i])
          /\ ~Shows(orders'[n + 1])
      BY <1>1, <2>4 DEF Lined, Shows
    <3>3. \A r : \A i \in 0..n : loop.selected = Left(orders, r, i) => Left(orders', r, i) = NoTry
      BY <1>2, <3>1 DEF Left
    <3>4. ASSUME \A i \in DOMAIN orders' : ~Shows(orders'[i])
          PROVE  loop'.selected = Left(orders', keeper'.live, 0)
      <4>1. \A i \in DOMAIN orders : ~Shows(orders[i])
        BY <2>4, <3>2, <3>4 DEF Lined
      <4>2. loop.selected = Left(orders, keeper.live, 0)
        BY <2>1, <2>2, <4>1 DEF Showing
      <4> QED
        <5>1. 0 \in 0..n /\ keeper' = keeper
          BY <1>2, <2>4 DEF Lined
        <5> QED
          BY <1>3, <3>3, <4>2, <5>1
    <3>5. ASSUME NEW i \in DOMAIN orders', Shows(orders'[i]),
                 \A j \in DOMAIN orders' : j > i => ~Shows(orders'[j])
          PROVE  loop'.selected = Left(orders', Target(orders'[i]), i)
      <4>1. i \in 1..n /\ orders'[i] = orders[i]
        BY <2>4, <3>2, <3>5 DEF Lined
      <4>2. \A j \in DOMAIN orders : j > i => ~Shows(orders[j])
        BY <2>4, <3>2, <3>5, <4>1 DEF Lined
      <4>3. loop.selected = Left(orders, Target(orders[i]), i)
        BY <2>1, <2>2, <2>4, <3>2, <3>5, <4>1, <4>2 DEF Showing, Lined
      <4>4. i \in 0..n
        BY <2>4, <4>1 DEF Lined
      <4>5. Left(orders', Target(orders[i]), i) = NoTry
        BY <3>3, <4>3, <4>4
      <4> QED
        BY <1>3, <4>1, <4>5
    <3> QED
      BY <3>4, <3>5 DEF Showing
  <2> QED
    BY <2>3, <2>5, <2>6
<1> QED
  BY <1>4, <1>6, <1>7, <1>8 DEF LoopInv

\* The loop is opened or closed: nothing of it is kept.
LEMMA DiscardKeeps ==
  ASSUME LoopInv, NEW e \in Orders, e.kind = "discard", orders' = Append(orders, e),
         SameAnswers, ~Has(replies', "inserted"), ~Has(orders, "insert"),
         keeper' = keeper, keeper.sending = NoTry,
         loop' \in Loops, Stops(loop, loop'), loop'.tries = {}, loop'.selected = NoTry,
         loop'.inserting = NoTry, loop'.crossed = (loop.crossed \/ Settling(loop')),
         loop'.phase # "none" \/ loop'.pending =>
           loop.phase # "none" \/ loop.pending \/ loop.session # NoTry
  PROVE  LoopInv'
<1>1. Ordering(e)
  BY OrderFacts DEF LoopInv
<1>2. \A r : Spent(r)' => Spent(r)
  BY <1>1 DEF Spent, Ordering, SameAnswers
<1>3. /\ LoopType' /\ InSession' /\ Awaited' /\ Fresh' /\ \E n : Lined(e, n)
  BY <1>2, CommandGoesOut
<1>4. Apart'
  BY <1>1 DEF LoopInv, Apart, Ordering, SameAnswers
<1>5. Inserting'
  <2>1. \A t \in TryOrNone : ~Says(orders', "insert", t)
    BY <1>1 DEF Ordering, Says, Has
  <2>2. ~Has(orders', "insert") /\ Once(orders', "insert") /\ Once(replies', "inserted")
    BY <1>1 DEF Ordering, Has, Once
  <2> QED
    BY <2>1, <2>2 DEF Inserting
<1>6. Uncrossed'
  <2> SUFFICES ASSUME ~loop.crossed, ~Settling(loop') PROVE Listed' /\ Discarding' /\ Showing'
    BY DEF Uncrossed
  <2>1. ~SettleUnderway
    <3>1. \A t \in Tries : loop.at[t] # "settling"
      BY DEF Settling, Stops, LoopInv, LoopType, Loops, TryOrNone
    <3> QED
      BY <3>1 DEF LoopInv, Awaited
  <2>2. Listed'
    BY <1>1 DEF Listed, Ordering
  <2>3. Discarding'
    BY <1>3, <2>1, DiscardingBegins DEF LoopInv, Uncrossed, SettleUnderway, SameAnswers
  <2>4. Showing'
    BY <1>3, ShowingTold DEF Shows, Target
  <2> QED
    BY <2>2, <2>3, <2>4
<1> QED
  BY <1>3, <1>4, <1>5, <1>6 DEF LoopInv

LEMMA OpenLoopKeeps ==
  ASSUME LoopInv, OpenLoop
  PROVE  LoopInv'
<1> DEFINE e == [kind |-> "discard"]
           l == Chosen(loop)
<1>1. l \in Loops /\ SameSession(loop, l) /\ SamePhase(loop, l) /\ SameTries(loop, l)
  <2>1. loop \in Loops /\ loop.choices + 1 \in Nat
    BY DEF LoopInv, LoopType, Loops
  <2> QED
    BY <2>1 DEF Chosen, Loops, SameSession, SamePhase, SameTries
<1>2. loop' = [Forgotten(l) EXCEPT !.stage = "range", !.crossed = loop.crossed \/ Settling(loop)]
  BY <1>1 DEF OpenLoop, Forgotten, SameTries, Loops
<1> HIDE DEF l
<1>3. /\ loop' \in Loops /\ SameSession(loop, loop') /\ SamePhase(loop, loop')
      /\ loop'.tries = {} /\ loop'.selected = NoTry /\ loop'.inserting = loop.inserting
      /\ loop'.crossed = (loop.crossed \/ Settling(loop))
  <2>1. (loop.crossed \/ Settling(loop)) \in BOOLEAN
    BY DEF Settling, LoopInv, LoopType, Loops
  <2> QED
    BY <1>1, <1>2, <2>1, ZenonT(60)
       DEF Forgotten, Loops, SameSession, SamePhase, SameTries, TryOrNone
<1>4. Settling(loop') <=> Settling(loop)
  BY <1>3 DEF Settling, SameSession
<1>5. /\ e \in Orders /\ e.kind = "discard" /\ orders' = Append(orders, e)
      /\ UNCHANGED <<replies, keeper>> /\ loop.stage = "none"
  BY DEF OpenLoop, Orders
<1>6. /\ loop.inserting = NoTry /\ keeper.sending = NoTry
      /\ ~Has(orders, "insert") /\ ~Has(replies, "inserted")
  BY <1>5 DEF LoopInv, Inserting
<1> HIDE DEF e
<1> QED
  BY <1>3, <1>4, <1>5, <1>6, DiscardKeeps, SameAnswersSame DEF Stops, SameSession, SamePhase

LEMMA ClosedFacts ==
  ASSUME NEW l \in Loops
  PROVE  LET m == Closed(l) IN
         /\ m \in Loops /\ Stops(l, m) /\ m.tries = {} /\ m.selected = NoTry
         /\ m.inserting = l.inserting /\ m.crossed = (l.crossed \/ Settling(m))
         /\ m.phase = l.phase /\ (m.pending => l.pending \/ l.session # NoTry)
<1> DEFINE c == CancelTry(l)
<1>1. /\ c \in Loops /\ Stops(l, c) /\ SameTries(l, c) /\ c.phase = l.phase
      /\ c.pending => l.pending \/ l.session # NoTry
  BY CancelTryFacts
<1>2. Closed(l) = [Forgotten(c) EXCEPT !.stage = "none", !.crossed = c.crossed \/ Settling(c)]
  BY <1>1 DEF Closed, Forgotten, Loops
<1> HIDE DEF c
<1> DEFINE m == Closed(l)
<1>3. /\ m \in Loops /\ SameSession(c, m) /\ SamePhase(c, m)
      /\ m.tries = {} /\ m.selected = NoTry /\ m.inserting = c.inserting
      /\ m.crossed = (c.crossed \/ Settling(c))
  <2>1. (c.crossed \/ Settling(c)) \in BOOLEAN
    BY <1>1 DEF Settling, Loops
  <2> QED
    BY <1>1, <1>2, <2>1 DEF Forgotten, Loops, SameSession, SamePhase, TryOrNone
<1> HIDE DEF m
<1>4. Settling(m) <=> Settling(c)
  BY <1>3 DEF Settling, SameSession
<1> QED
  BY <1>1, <1>3, <1>4 DEF m, Stops, SameSession, SamePhase, SameTries

LEMMA CloseLoopKeeps ==
  ASSUME LoopInv, CloseLoop
  PROVE  LoopInv'
<1> DEFINE e == [kind |-> "discard"]
<1>1. /\ e \in Orders /\ e.kind = "discard" /\ orders' = Append(orders, e)
      /\ UNCHANGED <<replies, keeper>> /\ loop' = Closed(loop)
      /\ loop.tries = {} \/ loop.inserting = NoTry
  BY DEF CloseLoop, Orders, Busy
<1> HIDE DEF e
<1>2. /\ loop.inserting = NoTry /\ keeper.sending = NoTry
      /\ ~Has(orders, "insert") /\ ~Has(replies, "inserted")
  BY <1>1 DEF LoopInv, Inserting
<1>3. loop \in Loops
  BY DEF LoopInv, LoopType
<1> QED
  BY <1>1, <1>2, <1>3, ClosedFacts, DiscardKeeps, SameAnswersSame

LEMMA TryFailsKeeps ==
  ASSUME LoopInv, NEW t \in Tries, TryFails(t)
  PROVE  LoopInv'
<1> DEFINE e == Order("select", loop.selected)
<1>1. /\ e \in Orders /\ e.kind = "select" /\ e.try = loop.selected
      /\ Shows(e) /\ Target(e) = loop.selected
  BY DEF Order, Orders, LoopInv, LoopType, Loops, Shows, Target
<1>2. orders' \in Seq(Orders) /\ Ordering(e) /\ \E n : Lined(e, n)
  BY <1>1, OrderFacts DEF LoopInv, TryFails
<1> HIDE DEF e
<1>3. /\ loop.at[t] = "preparing" /\ t = loop.session
      /\ loop.settler \in Tries \cup {NoTry} /\ loop.at \in [Tries -> Stages]
      /\ UNCHANGED <<replies, keeper>>
  BY DEF TryFails, LoopInv, InSession, LoopType, Loops, TryOrNone
<1>4. /\ loop'.at = [loop.at EXCEPT ![t] = "done"]
      /\ loop'.pending = FALSE /\ loop'.phase = "none"
      /\ loop'.session = NoTry /\ loop'.settler = loop.settler /\ loop'.made = loop.made
      /\ SameTries(loop, loop')
  BY DEF TryFails, LoopInv, LoopType, Loops, SameTries
<1>5. LoopType'
  <2>1. [loop.at EXCEPT ![t] = "done"] \in [Tries -> Stages]
    BY <1>3 DEF Stages
  <2> QED
    BY <1>2, <1>3, <2>1 DEF TryFails, LoopInv, LoopType, Loops, TryOrNone
<1>6. InSession'
  <2>1. InSession
    BY DEF LoopInv
  <2> QED
    BY <1>3, <1>4, <2>1, ZenonT(60) DEF InSession, Tries, NoTry
<1>7. Awaited'
  <2>1. Awaited
    BY DEF LoopInv
  <2>2. (SettleUnderway' => SettleUnderway) /\ (SettlesUnderway' => SettlesUnderway)
    BY <1>1, <1>2, <1>3 DEF Ordering, SettleUnderway, SettlesUnderway
  <2>3. PICK n : Lined(e, n)
    BY <1>2
  <2>4. \A i \in DOMAIN orders' : orders'[i].kind = "open" =>
          \E j \in DOMAIN orders' : j > i /\ orders'[j].kind = "settle"
    BY <1>1, <1>3, <2>1, <2>3 DEF Awaited, Lined
  <2>5. \A r \in Tries : loop.at[r] = "settling" => loop'.at[r] = "settling"
    BY <1>3, <1>4
  <2> QED
    BY <1>4, <2>1, <2>2, <2>4, <2>5 DEF Awaited
<1>8. Fresh'
  <2>1. Fresh
    BY DEF LoopInv
  <2>2. \A r : Spent(r)' <=> Spent(r)
    BY <1>1, <1>2, <1>3, <1>4 DEF Spent, Ordering, SameTries
  <2> QED
    BY <1>1, <1>2, <1>3, <1>4, <2>1, <2>2 DEF Fresh, Ordering
<1>9. Apart' /\ Inserting'
  BY <1>1, <1>2, <1>3, <1>4 DEF LoopInv, Apart, Inserting, Ordering, SameTries
<1>10. Uncrossed'
  <2> SUFFICES ASSUME ~loop.crossed PROVE Listed' /\ Discarding' /\ Showing'
    BY <1>4 DEF Uncrossed, SameTries
  <2>1. Listed'
    BY <1>1, <1>2, <1>3, <1>4 DEF LoopInv, Uncrossed, Listed, Ordering, SameTries, Inserted
  <2>2. Discarding'
    BY <1>1, <1>2, <1>3, <1>4, DiscardingLined DEF LoopInv, Uncrossed, SameTries
  <2>3. Showing'
    BY <1>1, <1>2, <1>4, ShowingTold DEF SameTries
  <2> QED
    BY <2>1, <2>2, <2>3
<1> QED
  BY <1>5, <1>6, <1>7, <1>8, <1>9, <1>10 DEF LoopInv

LEMMA TryClosesKeeps ==
  ASSUME LoopInv, NEW t \in Tries, TryCloses(t)
  PROVE  LoopInv'
<1> DEFINE e == [kind |-> "settle", keep |-> t \in loop.complete]
<1>1. e \in Orders /\ e.kind = "settle"
  BY DEF Orders
<1>2. orders' \in Seq(Orders) /\ Ordering(e) /\ \E n : Lined(e, n)
  BY <1>1, OrderFacts DEF LoopInv, TryCloses
<1> HIDE DEF e
<1>3. /\ loop.at[t] = "closing" /\ t = loop.session
      /\ loop.settler \in Tries \cup {NoTry} /\ loop.at \in [Tries -> Stages]
      /\ UNCHANGED <<replies, keeper>>
  BY DEF TryCloses, LoopInv, InSession, LoopType, Loops, TryOrNone
<1>4. /\ loop'.at = [loop.at EXCEPT ![t] = "settling"]
      /\ loop'.session = NoTry /\ loop'.settler = t /\ loop'.made = loop.made
      /\ SameTries(loop, loop') /\ SamePhase(loop, loop')
  BY DEF TryCloses, LoopInv, LoopType, Loops, SameTries, SamePhase
<1>5. LoopType'
  <2>1. [loop.at EXCEPT ![t] = "settling"] \in [Tries -> Stages]
    BY <1>3 DEF Stages
  <2> QED
    BY <1>2, <1>3, <2>1 DEF TryCloses, LoopInv, LoopType, Loops, TryOrNone
<1>6. InSession'
  <2>1. InSession
    BY DEF LoopInv
  <2>2. \A r \in Tries : IF r = t THEN loop'.at[r] = "settling" ELSE loop'.at[r] = loop.at[r]
    BY <1>3, <1>4
  <2> QED
    BY <1>3, <1>4, <2>1, <2>2, NoTryIsNone DEF InSession
<1>7. Awaited'
  <2>1. Awaited
    BY DEF LoopInv
  <2>2. SettleUnderway'
    BY <1>1, <1>2 DEF Ordering, SettleUnderway
  <2>3. loop'.at[t] = "settling"
    BY <1>3, <1>4
  <2>4. SettlesUnderway' => SettleUnderway
    <3> SUFFICES ASSUME ~SettleUnderway PROVE ~SettlesUnderway'
      OBVIOUS
    <3>1. ~Has(orders, "settle") /\ ~Has(replies, "settled")
      BY DEF SettleUnderway
    <3>2. Once(orders, "settle") /\ Once(replies, "settled")
      BY <3>1 DEF Once, Has
    <3> QED
      BY <1>1, <1>2, <1>3, <3>1, <3>2 DEF Ordering, SettlesUnderway
  <2>5. SettleUnderway => \E r \in Tries \ {t} : loop'.at[r] = "settling"
    BY <1>3, <1>4, <2>1 DEF Awaited
  <2>6. PICK n : Lined(e, n)
    BY <1>2
  <2>7. \A i \in DOMAIN orders' : orders'[i].kind = "open" =>
          \E j \in DOMAIN orders' : j > i /\ orders'[j].kind = "settle"
    BY <1>1, <2>6 DEF Lined
  <2> QED
    BY <1>4, <2>2, <2>3, <2>4, <2>5, <2>7 DEF Awaited
<1>8. Fresh'
  <2>1. Fresh
    BY DEF LoopInv
  <2>2. \A r : Spent(r)' <=> Spent(r)
    BY <1>1, <1>2, <1>3, <1>4 DEF Spent, Ordering, SameTries
  <2> QED
    BY <1>1, <1>2, <1>3, <1>4, <2>1, <2>2 DEF Fresh, Ordering
<1>9. Apart' /\ Inserting'
  BY <1>1, <1>2, <1>3, <1>4 DEF LoopInv, Apart, Inserting, Ordering, SameTries
<1>10. Uncrossed'
  <2> SUFFICES ASSUME ~loop.crossed PROVE Listed' /\ Discarding' /\ Showing'
    BY <1>4 DEF Uncrossed, SameTries
  <2>1. Listed'
    BY <1>1, <1>2, <1>3, <1>4 DEF LoopInv, Uncrossed, Listed, Ordering, SameTries, Inserted
  <2>2. Discarding'
    BY <1>1, <1>2, <1>3, <1>4, DiscardingLined DEF LoopInv, Uncrossed, SameTries
  <2>3. Showing'
    BY <1>1, <1>2 DEF Showing, SettleUnderway, Ordering
  <2> QED
    BY <2>1, <2>2, <2>3
<1> QED
  BY <1>5, <1>6, <1>7, <1>8, <1>9, <1>10 DEF LoopInv

LEMMA RecordTryKeeps ==
  ASSUME LoopInv, RecordTry
  PROVE  LoopInv'
<1> DEFINE t == loop.made + 1
<1>1. /\ t \in Tries /\ loop.made \in Nat /\ loop.at[t] = "none" /\ loop.session = NoTry
      /\ loop.settler \in Tries \cup {NoTry} /\ loop.at \in [Tries -> Stages]
      /\ UNCHANGED <<orders, replies, keeper>>
  BY LoopAssumption DEF RecordTry, LoopInv, InSession, LoopType, Loops, TryOrNone, Tries
<1>2. /\ loop'.at = [loop.at EXCEPT ![t] = "preparing"] /\ loop'.made = t
      /\ loop'.session = t /\ loop'.settler = loop.settler
      /\ SameTries(loop, loop')
  BY DEF RecordTry, LoopInv, LoopType, Loops, SameTries
<1>3. LoopType'
  <2>1. [loop.at EXCEPT ![t] = "preparing"] \in [Tries -> Stages]
    BY <1>1 DEF Stages
  <2>2. t \in Nat
    BY <1>1
  <2> QED
    BY <1>1, <2>1, <2>2 DEF RecordTry, LoopInv, LoopType, Loops, TryOrNone
<1> HIDE DEF t
<1>4. InSession'
  <2>1. InSession
    BY DEF LoopInv
  <2>2. \A r \in Tries : r > t => r > loop.made /\ r # t
    BY <1>1 DEF Tries, t
  <2> QED
    BY <1>1, <1>2, <2>1, <2>2, NoTryIsNone DEF InSession
<1>5. Awaited'
  <2>1. Awaited
    BY DEF LoopInv
  <2>2. \A r \in Tries : loop.at[r] = "settling" => loop'.at[r] = "settling"
    BY <1>1, <1>2
  <2>3. (SettleUnderway' <=> SettleUnderway) /\ (SettlesUnderway' <=> SettlesUnderway)
    BY <1>1 DEF SettleUnderway, SettlesUnderway
  <2> QED
    BY <1>1, <1>2, <2>1, <2>2, <2>3, NoTryIsNone DEF Awaited
<1>6. Fresh' /\ Apart' /\ Inserting'
  BY <1>1, <1>2 DEF LoopInv, Fresh, Apart, Inserting, SameTries, Spent
<1>7. Uncrossed'
  BY <1>1, <1>2, NoTryIsNone DEF LoopInv, Uncrossed, SameTries, Listed, Discarding, Showing, Inserted
<1> QED
  BY <1>3, <1>4, <1>5, <1>6, <1>7 DEF LoopInv

-----------------------------------------------------------------------------
(* What the decoder answers.                                               *)

\* What an answer leaves behind.
Answering ==
    LET h == Head(replies) IN
    /\ replies' \in Seq(Replies) /\ h \in Replies
    /\ \A k : Has(replies, k) <=> Has(replies', k) \/ h.kind = k
    /\ \A k, t : Says(replies, k, t) <=> Says(replies', k, t) \/ (h.kind = k /\ h.try = t)
    /\ \A k : Once(replies, k) => Once(replies', k) /\ (h.kind = k => ~Has(replies', k))
    /\ \A k : OnceOf(replies, k) =>
         OnceOf(replies', k) /\ (h.kind = k => h.try = NoTry \/ ~Says(replies', k, h.try))

LEMMA AnswerFacts ==
  ASSUME LoopType, replies # <<>>, replies' = Tail(replies)
  PROVE  Answering
<1>1. replies \in Seq(Replies)
  BY DEF LoopType
<1>2. replies' \in Seq(Replies) /\ Head(replies) \in Replies
  BY <1>1, Tailed
<1> QED
  BY <1>1, <1>2, TailedSays DEF Answering

LEMMA HearInsertedKeeps ==
  ASSUME LoopInv, HearInserted
  PROVE  LoopInv'
<1> DEFINE h == Head(replies)
           back == [loop EXCEPT !.inserting = NoTry]
<1>1. /\ Answering /\ h.kind = "inserted" /\ keeper' = keeper
  BY AnswerFacts DEF HearInserted, LoopInv
<1>2. /\ Has(replies, "inserted") /\ ~Has(replies', "inserted")
      /\ loop.inserting # NoTry /\ ~Has(orders, "insert") /\ keeper.sending = NoTry
  BY <1>1 DEF LoopInv, Inserting, Answering
<1>3. SameAnswers
  BY <1>1 DEF SameAnswers, Answering, SettleUnderway
<1>4. /\ back \in Loops /\ back.inserting = NoTry
      /\ back.tries = loop.tries /\ back.selected = loop.selected
      /\ back.crossed = loop.crossed /\ back.stage = loop.stage
      /\ SameSession(loop, back) /\ SamePhase(loop, back)
  BY DEF LoopInv, LoopType, Loops, SameSession, SamePhase, TryOrNone
<1>5. CASE h.done
  <2> DEFINE e == [kind |-> "discard"]
  <2>1. /\ e \in Orders /\ e.kind = "discard" /\ orders' = Append(orders, e)
        /\ loop' = Closed(back)
    BY <1>5 DEF HearInserted, Orders
  <2> HIDE DEF e, back
  <2>2. /\ loop' \in Loops /\ Stops(back, loop') /\ loop'.tries = {} /\ loop'.selected = NoTry
        /\ loop'.inserting = back.inserting /\ loop'.crossed = (back.crossed \/ Settling(loop'))
        /\ loop'.phase = back.phase /\ (loop'.pending => back.pending \/ back.session # NoTry)
    BY <1>4, <2>1, ClosedFacts
  <2>3. /\ Stops(loop, loop') /\ loop'.inserting = NoTry
        /\ loop'.crossed = (loop.crossed \/ Settling(loop'))
        /\ loop'.phase # "none" \/ loop'.pending =>
             loop.phase # "none" \/ loop.pending \/ loop.session # NoTry
    BY <1>4, <2>2 DEF Stops, SameSession, SamePhase
  <2> QED
    BY <1>1, <1>2, <1>3, <2>1, <2>2, <2>3, DiscardKeeps
<1>6. CASE ~h.done
  <2>1. loop' = back /\ orders' = orders
    BY <1>6 DEF HearInserted
  <2> HIDE DEF back
  <2>2. LoopType'
    BY <1>1, <1>4, <2>1 DEF LoopInv, LoopType, Answering
  <2>3. InSession' /\ Awaited' /\ Fresh'
    BY <1>1, <1>3, <1>4, <2>1 DEF LoopInv, InSession, Awaited, Fresh, Spent, SettleUnderway,
       SettlesUnderway, SameAnswers, SameSession, SamePhase
  <2>4. Apart'
    BY <1>1, <1>3, <1>4, <2>1 DEF LoopInv, Apart, SameAnswers
  <2>5. Inserting'
    <3>1. \A t \in TryOrNone : ~Says(orders, "insert", t)
      BY <1>2 DEF Says, Has
    <3>2. Once(orders, "insert") /\ Once(replies', "inserted")
      BY <1>2 DEF Has, Once
    <3> QED
      BY <1>1, <1>2, <1>4, <2>1, <3>1, <3>2 DEF Inserting
  <2>6. Uncrossed'
    <3>1. ~Inserted /\ ~Inserted'
      <4>1. ~Inserted'
        BY <1>2 DEF Inserted, Has
      <4>2. \A i \in DOMAIN replies : replies[i].kind = "inserted" => i = 1
        BY <1>1, Tailed DEF LoopInv, LoopType, Inserting, Once, HearInserted
      <4>3. h = replies[1]
        BY Tailed DEF LoopInv, LoopType, HearInserted
      <4> QED
        BY <1>6, <4>1, <4>2, <4>3 DEF Inserted
    <3> QED
      BY <1>1, <1>3, <1>4, <2>1, <3>1 DEF LoopInv, Uncrossed, Listed, Discarding, Showing,
         SettleUnderway, SameAnswers, SameSession
  <2> QED
    BY <2>2, <2>3, <2>4, <2>5, <2>6 DEF LoopInv
<1> QED
  BY <1>5, <1>6

LEMMA HearSettledKeeps ==
  ASSUME LoopInv, HearSettled
  PROVE  LoopInv'
<1> DEFINE h == Head(replies)
           t == h.try
           listed == IF t = NoTry THEN loop
                     ELSE [loop EXCEPT !.tries = @ \cup {t}, !.selected = t]
           at == [s \in Tries |-> IF s = loop.settler THEN "done" ELSE loop.at[s]]
           e == Order("select", listed.selected)
<1>1. /\ Answering /\ h.kind = "settled" /\ keeper' = keeper
      /\ orders' = Append(orders, e)
  BY AnswerFacts DEF HearSettled, LoopInv
<1>2. t \in TryOrNone /\ (t # NoTry => t \in Tries)
  BY <1>1 DEF Answering, Replies, TryOrNone
<1>3. /\ listed \in Loops /\ SameSession(loop, listed) /\ SamePhase(loop, listed)
      /\ listed.tries = IF t = NoTry THEN loop.tries ELSE loop.tries \cup {t}
      /\ listed.selected = IF t = NoTry THEN loop.selected ELSE t
      /\ listed.inserting = loop.inserting /\ listed.stage = loop.stage
      /\ listed.crossed = loop.crossed
  <2>1. loop \in Loops
    BY DEF LoopInv, LoopType
  <2>2. CASE t = NoTry
    BY <2>1, <2>2 DEF SameSession, SamePhase
  <2>3. CASE t # NoTry
    <3> DEFINE l == [loop EXCEPT !.tries = @ \cup {t}, !.selected = t]
    <3>1. listed = l
      BY <2>3
    <3>2. loop.tries \cup {t} \in SUBSET Tries
      BY <1>2, <2>1, <2>3 DEF Loops
    <3> HIDE DEF listed, t
    <3> QED
      BY <1>2, <2>1, <2>3, <3>1, <3>2 DEF Loops, SameSession, SamePhase
  <2> QED
    BY <2>2, <2>3
<1>4. /\ loop' = [listed EXCEPT !.at = at, !.settler = NoTry, !.phase = "none",
                     !.recording = FALSE, !.pending = loop.pending /\ loop.session # NoTry]
      /\ listed.at = loop.at /\ listed.pending = loop.pending
  BY <1>3 DEF HearSettled, SameSession, SamePhase, Loops
<1>5. /\ e \in Orders /\ e.kind = "select" /\ e.try = listed.selected
      /\ Shows(e) /\ Target(e) = listed.selected
  BY <1>3 DEF Order, Orders, Loops, Shows, Target
<1> HIDE DEF e, listed, h, t
<1>6. /\ at \in [Tries -> Stages] /\ (loop.pending /\ loop.session # NoTry) \in BOOLEAN
  BY DEF LoopInv, LoopType, Loops, Stages
<1>7. /\ \A r \in Tries : at[r] = IF r = loop.settler THEN "done" ELSE loop.at[r]
      /\ loop.settler # NoTry => loop.at[loop.settler] = "settling"
      /\ loop.session \in Tries \cup {NoTry} /\ loop.settler \in Tries \cup {NoTry}
  BY DEF LoopInv, InSession, LoopType, Loops, TryOrNone
<1> HIDE DEF at
<1>8. /\ loop' \in Loops /\ loop'.at = at /\ loop'.settler = NoTry /\ loop'.phase = "none"
      /\ loop'.pending = (loop.pending /\ loop.session # NoTry)
      /\ loop'.session = loop.session /\ loop'.made = loop.made
      /\ loop'.tries = listed.tries /\ loop'.selected = listed.selected
      /\ loop'.inserting = loop.inserting /\ loop'.stage = loop.stage
      /\ loop'.crossed = loop.crossed
  BY <1>3, <1>4, <1>6, ZenonT(60) DEF Loops, SameSession, TryOrNone
<1>9. orders' \in Seq(Orders) /\ Ordering(e) /\ \E n : Lined(e, n)
  BY <1>1, <1>5, OrderFacts DEF LoopInv
<1>10. LoopType'
  BY <1>1, <1>8, <1>9 DEF LoopInv, LoopType, Answering
<1>11. InSession'
  <2>1. InSession
    BY DEF LoopInv
  <2> QED
    BY <1>7, <1>8, <2>1, NoTryIsNone DEF InSession
<1>12. Awaited'
  <2>1. Awaited /\ InSession
    BY DEF LoopInv
  <2>2. (SettleUnderway' => SettlesUnderway) /\ (SettlesUnderway' => SettlesUnderway)
    BY <1>1, <1>5, <1>9 DEF Ordering, Answering, SettleUnderway, SettlesUnderway, h
  <2>3. SettlesUnderway => \E r \in Tries : loop'.at[r] = "settling" /\ r # NoTry
    BY <1>7, <1>8, <2>1, NoTryIsNone DEF Awaited
  <2>4. PICK n : Lined(e, n)
    BY <1>9
  <2>5. loop.session # NoTry => loop'.at[loop'.session] = loop.at[loop.session]
    BY <1>7, <1>8, <2>1 DEF InSession
  <2>6. \A i \in DOMAIN orders' : orders'[i].kind = "open" =>
          \/ \E j \in DOMAIN orders' : j > i /\ orders'[j].kind = "settle"
          \/ loop'.session # NoTry /\ loop'.at[loop'.session] \in {"open", "closing"}
    BY <1>5, <1>8, <2>1, <2>4, <2>5 DEF Awaited, Lined
  <2> QED
    BY <1>8, <2>2, <2>3, <2>6 DEF Awaited
<1>13. Fresh'
  <2>1. Fresh
    BY DEF LoopInv
  <2>2. \A r \in Tries : Spent(r)' => Spent(r)
    BY <1>1, <1>3, <1>5, <1>8, <1>9, NoTryIsNone DEF Spent, Ordering, Answering, t, h
  <2> QED
    BY <1>1, <1>5, <1>7, <1>8, <1>9, <2>1, <2>2 DEF Fresh, Ordering
<1>14. Apart'
  <2>1. Apart
    BY DEF LoopInv
  <2>2. t # NoTry =>
          Says(replies, "settled", t) /\ ~Says(replies', "settled", t) /\ ~Says(orders', "remove", t)
    BY <1>1, <1>2, <1>5, <1>9, <2>1 DEF Apart, Answering, Ordering, t, h
  <2>3. OnceOf(orders', "remove") /\ OnceOf(replies', "settled") /\ ~Says(orders', "remove", NoTry)
    BY <1>1, <1>5, <1>9, <2>1 DEF Apart, Answering, Ordering
  <2> QED
    BY <1>1, <1>3, <1>5, <1>8, <1>9, <2>1, <2>2, <2>3 DEF Apart, Answering, Ordering
<1>15. Inserting'
  <2>1. /\ Has(replies', "inserted") <=> Has(replies, "inserted")
        /\ Once(replies, "inserted") => Once(replies', "inserted")
    BY <1>1 DEF Answering, h
  <2> QED
    BY <1>1, <1>3, <1>5, <1>8, <1>9, <2>1 DEF LoopInv, Inserting, Ordering
<1>16. Uncrossed'
  <2> SUFFICES ASSUME ~loop.crossed PROVE Listed' /\ Discarding' /\ Showing'
    BY <1>8 DEF Uncrossed
  <2>1. Listed /\ Discarding
    BY DEF LoopInv, Uncrossed
  <2>2. ~Has(orders, "discard") /\ ~Has(orders', "discard")
    <3>1. Has(replies, "settled")
      BY <1>1 DEF Answering, h
    <3> QED
      BY <1>5, <1>9, <2>1, <3>1 DEF Discarding, Ordering, Has
  <2>3. Inserted' <=> Inserted
    <3>1. replies \in Seq(Replies) /\ replies # <<>> /\ replies' = Tail(replies)
      BY DEF LoopInv, LoopType, HearSettled
    <3>2. \A i \in DOMAIN replies' : i + 1 \in DOMAIN replies /\ replies'[i] = replies[i + 1]
      BY <3>1, Tailed
    <3>3. \A i \in DOMAIN replies : i # 1 => i - 1 \in DOMAIN replies' /\ replies'[i - 1] = replies[i]
      BY <3>1, Tailed
    <3>4. replies[1].kind = "settled"
      BY <1>1, <3>1, Tailed DEF h
    <3> QED
      BY <3>2, <3>3, <3>4 DEF Inserted
  <2>4. t # NoTry => Says(replies, "settled", t) /\ t \notin loop.tries /\ t # loop.inserting
    BY <1>1, <1>2 DEF LoopInv, Apart, Inserting, Answering, t, h
  <2>5. \A r \in Tries : Says(replies, "settled", r) <=> Says(replies', "settled", r) \/ r = t
    BY <1>1 DEF Answering, t, h
  <2>6. Listed'
    BY <1>1, <1>3, <1>5, <1>8, <1>9, <2>1, <2>2, <2>3, <2>4, <2>5, NoTryIsNone DEF Listed, Ordering
  <2>7. Discarding'
    BY <2>2 DEF Discarding, Has
  <2>8. Showing'
    BY <1>5, <1>8, <1>9, ShowingTold
  <2> QED
    BY <2>6, <2>7, <2>8
<1> QED
  BY <1>10, <1>11, <1>12, <1>13, <1>14, <1>15, <1>16 DEF LoopInv

-----------------------------------------------------------------------------
(* The decoder.                                                            *)

\* What an order that is obeyed leaves behind.
Obeying ==
    LET h == Head(orders) IN
    /\ orders' \in Seq(Orders) /\ h \in Orders
    /\ \A k : Has(orders, k) <=> Has(orders', k) \/ h.kind = k
    /\ \A k, t : Says(orders, k, t) <=> Says(orders', k, t) \/ (h.kind = k /\ h.try = t)
    /\ \A k : Once(orders, k) => Once(orders', k) /\ (h.kind = k => ~Has(orders', k))
    /\ \A k : OnceOf(orders, k) =>
         OnceOf(orders', k) /\ (h.kind = k => h.try = NoTry \/ ~Says(orders', k, h.try))
Stepped(n) ==
    /\ n \in Nat /\ DOMAIN orders = 1..(n + 1) /\ DOMAIN orders' = 1..n
    /\ \A i \in 1..n : orders'[i] = orders[i + 1]
    /\ Head(orders) = orders[1]

LEMMA ObeyFacts ==
  ASSUME LoopType, orders # <<>>, orders' = Tail(orders)
  PROVE  Obeying /\ \E n : Stepped(n)
<1>1. orders \in Seq(Orders)
  BY DEF LoopType
<1>2. orders' \in Seq(Orders) /\ Head(orders) \in Orders
  BY <1>1, Tailed
<1>3. Obeying
  BY <1>1, <1>2, TailedSays DEF Obeying
<1> DEFINE n == Len(orders) - 1
<1>4. /\ Len(orders) \in Nat /\ Len(orders) >= 1
      /\ DOMAIN orders = 1..Len(orders) /\ DOMAIN orders' = 1..n /\ Head(orders) = orders[1]
      /\ \A i \in DOMAIN orders' : orders'[i] = orders[i + 1]
  BY <1>1, Tailed
<1>5. n \in Nat /\ n + 1 = Len(orders)
  BY <1>4
<1>6. Stepped(n)
  BY <1>4, <1>5 DEF Stepped
<1> QED
  BY <1>3, <1>6

\* A draft that is open is still closed behind its order.
LEMMA OpensTailed ==
  ASSUME Awaited, NEW n, Stepped(n), loop' = loop
  PROVE  \A i \in DOMAIN orders' : orders'[i].kind = "open" =>
           \/ \E j \in DOMAIN orders' : j > i /\ orders'[j].kind = "settle"
           \/ loop'.session # NoTry /\ loop'.at[loop'.session] \in {"open", "closing"}
<1> SUFFICES ASSUME NEW i \in DOMAIN orders', orders'[i].kind = "open",
                    ~(loop.session # NoTry /\ loop.at[loop.session] \in {"open", "closing"})
             PROVE  \E j \in DOMAIN orders' : j > i /\ orders'[j].kind = "settle"
  OBVIOUS
<1>1. i \in 1..n /\ i + 1 \in DOMAIN orders /\ orders[i + 1].kind = "open"
  BY DEF Stepped
<1>2. PICK j \in DOMAIN orders : j > i + 1 /\ orders[j].kind = "settle"
  BY <1>1 DEF Awaited
<1>3. j - 1 \in 1..n /\ (j - 1) + 1 = j /\ j - 1 > i
  BY <1>1, <1>2 DEF Stepped
<1>4. orders'[j - 1] = orders[j] /\ j - 1 \in DOMAIN orders'
  BY <1>3 DEF Stepped
<1> QED
  BY <1>2, <1>3, <1>4

LEMMA DiscardingTailed ==
  ASSUME Discarding, NEW n, Stepped(n), loop'.tries = loop.tries,
         Has(replies', "settled") => Has(replies, "settled")
  PROVE  Discarding'
<1> SUFFICES ASSUME NEW i \in DOMAIN orders', orders'[i].kind = "discard"
             PROVE  /\ loop'.tries = {} /\ ~Has(replies', "settled")
                    /\ \A j \in DOMAIN orders' : j < i => orders'[j].kind # "settle"
                    /\ \A j \in DOMAIN orders' : i < j => orders'[j].kind # "remove"
  BY DEF Discarding
<1>1. i \in 1..n /\ i + 1 \in DOMAIN orders /\ orders[i + 1].kind = "discard"
  BY DEF Stepped
<1>2. /\ loop.tries = {} /\ ~Has(replies, "settled")
      /\ \A j \in DOMAIN orders : j < i + 1 => orders[j].kind # "settle"
      /\ \A j \in DOMAIN orders : i + 1 < j => orders[j].kind # "remove"
  BY <1>1 DEF Discarding
<1>3. \A j \in DOMAIN orders' :
        /\ j \in 1..n /\ j + 1 \in DOMAIN orders /\ orders'[j] = orders[j + 1]
        /\ j < i => j + 1 < i + 1
        /\ i < j => i + 1 < j + 1
  BY <1>1 DEF Stepped
<1> QED
  BY <1>2, <1>3

\* What the orders left behind say of the try that is shown.
LEMMA ShowingTailed ==
  ASSUME Showing, loop.session = NoTry /\ ~SettleUnderway /\ ~Inserted, NEW n, Stepped(n)
  PROVE  /\ \A i \in DOMAIN orders' :
              Shows(orders'[i]) /\ (\A j \in DOMAIN orders' : j > i => ~Shows(orders'[j])) =>
                loop.selected = Left(orders', Target(orders'[i]), i)
         /\ (\A i \in DOMAIN orders' : ~Shows(orders'[i])) =>
              loop.selected = IF Shows(orders[1]) THEN Left(orders', Target(orders[1]), 0)
                              ELSE Left(orders, keeper.live, 0)
<1>1. \A j \in DOMAIN orders : j = 1 \/ (j - 1 \in DOMAIN orders' /\ orders[j] = orders'[j - 1])
  <2> TAKE j \in DOMAIN orders
  <2>1. j = 1 \/ (j - 1 \in 1..n /\ (j - 1) + 1 = j)
    BY DEF Stepped
  <2> QED
    BY <2>1 DEF Stepped
<1>2. \A t : \A i \in 0..n : Left(orders', t, i) = Left(orders, t, i + 1)
  <2> SUFFICES ASSUME NEW t, NEW i \in 0..n
               PROVE  (\E j \in DOMAIN orders' : j > i /\ orders'[j].kind = "remove" /\ orders'[j].try = t)
                      <=> (\E j \in DOMAIN orders : j > i + 1 /\ orders[j].kind = "remove" /\ orders[j].try = t)
    BY DEF Left
  <2>1. ASSUME NEW j \in DOMAIN orders', j > i
        PROVE  j + 1 \in DOMAIN orders /\ j + 1 > i + 1 /\ orders[j + 1] = orders'[j]
    BY <2>1 DEF Stepped
  <2>2. ASSUME NEW j \in DOMAIN orders, j > i + 1
        PROVE  j - 1 \in DOMAIN orders' /\ j - 1 > i /\ orders'[j - 1] = orders[j]
    BY <1>1, <2>2 DEF Stepped
  <2> QED
    BY <2>1, <2>2
<1>3. ASSUME NEW i \in DOMAIN orders', Shows(orders'[i]),
             \A j \in DOMAIN orders' : j > i => ~Shows(orders'[j])
      PROVE  loop.selected = Left(orders', Target(orders'[i]), i)
  <2>1. i \in 1..n /\ i + 1 \in DOMAIN orders /\ orders'[i] = orders[i + 1]
    BY DEF Stepped
  <2>2. ASSUME NEW j \in DOMAIN orders, j > i + 1 PROVE ~Shows(orders[j])
    <3>1. j - 1 \in DOMAIN orders' /\ orders[j] = orders'[j - 1] /\ j - 1 > i
      BY <1>1, <2>1, <2>2 DEF Stepped
    <3> QED
      BY <1>3, <3>1
  <2>3. loop.selected = Left(orders, Target(orders[i + 1]), i + 1)
    BY <1>3, <2>1, <2>2 DEF Showing
  <2>4. i \in 0..n
    BY <2>1
  <2> QED
    BY <1>2, <2>1, <2>3, <2>4
<1>4. ASSUME \A i \in DOMAIN orders' : ~Shows(orders'[i])
      PROVE  loop.selected = IF Shows(orders[1]) THEN Left(orders', Target(orders[1]), 0)
                             ELSE Left(orders, keeper.live, 0)
  <2>1. \A j \in DOMAIN orders : j # 1 => ~Shows(orders[j])
    BY <1>1, <1>4
  <2>2. 1 \in DOMAIN orders /\ 0 \in 0..n
    BY DEF Stepped
  <2>3. CASE Shows(orders[1])
    <3>1. \A j \in DOMAIN orders : j > 1 => ~Shows(orders[j])
      BY <2>1
    <3>2. loop.selected = Left(orders, Target(orders[1]), 0 + 1)
      BY <2>2, <2>3, <3>1 DEF Showing
    <3> QED
      BY <1>2, <2>2, <2>3, <3>2
  <2>4. CASE ~Shows(orders[1])
    BY <2>1, <2>4 DEF Showing
  <2> QED
    BY <2>3, <2>4
<1> QED
  BY <1>3, <1>4

\* An order that is not answered: the decoder opens a draft, shows a try or
\* throws some away.
LEMMA HandlesQuietly ==
  ASSUME LoopInv, orders # <<>>, orders' = Tail(orders), UNCHANGED <<loop, replies>>,
         keeper' \in Keepers, keeper'.kept \subseteq keeper.kept,
         keeper'.sending = keeper.sending,
         Head(orders).kind \notin {"settle", "insert"},
         keeper'.draft = IF Head(orders).kind = "open" THEN Head(orders).try ELSE keeper.draft,
         ~loop.crossed => Listed' /\ Showing'
  PROVE  LoopInv'
<1> DEFINE h == Head(orders)
<1>1. Obeying /\ \E n : Stepped(n)
  BY ObeyFacts DEF LoopInv
<1>2. LoopType'
  BY <1>1 DEF LoopInv, LoopType, Obeying
<1>3. InSession'
  BY DEF LoopInv, InSession
<1>4. Awaited'
  <2>1. Awaited
    BY DEF LoopInv
  <2>2. (SettleUnderway' <=> SettleUnderway) /\ (SettlesUnderway' => SettlesUnderway)
    BY <1>1 DEF Obeying, SettleUnderway, SettlesUnderway
  <2>3. \A i \in DOMAIN orders' : orders'[i].kind = "open" =>
           \/ \E j \in DOMAIN orders' : j > i /\ orders'[j].kind = "settle"
           \/ loop'.session # NoTry /\ loop'.at[loop'.session] \in {"open", "closing"}
    BY <1>1, <2>1, OpensTailed
  <2> QED
    BY <2>1, <2>2, <2>3 DEF Awaited
<1>5. Fresh'
  <2>1. Fresh
    BY DEF LoopInv
  <2>2. \A r : Spent(r)' => Spent(r)
    BY <1>1 DEF Spent, Obeying
  <2>3. /\ OnceOf(orders', "open")
        /\ h.kind = "open" => h.try = NoTry \/ ~Says(orders', "open", h.try)
        /\ h.kind = "open" => Says(orders, "open", h.try)
        /\ \A r : Says(orders', "open", r) => Says(orders, "open", r)
    BY <1>1, <2>1 DEF Fresh, Obeying
  <2> QED
    BY <2>1, <2>2, <2>3, NoTryIsNone DEF Fresh
<1>6. Apart' /\ Inserting'
  BY <1>1 DEF LoopInv, Apart, Inserting, Obeying
<1>7. Uncrossed'
  BY <1>1, DiscardingTailed DEF LoopInv, Uncrossed
<1> QED
  BY <1>2, <1>3, <1>4, <1>5, <1>6, <1>7 DEF LoopInv

LEMMA HandleOpenKeeps ==
  ASSUME LoopInv, HandleOrder, Head(orders).kind = "open"
  PROVE  LoopInv'
<1> DEFINE h == Head(orders)
<1>1. /\ orders # <<>> /\ orders' = Tail(orders) /\ UNCHANGED <<loop, replies>>
      /\ keeper' = [keeper EXCEPT !.draft = h.try, !.live = h.try]
  BY DEF HandleOrder, Obeyed
<1>2. Obeying /\ \E n : Stepped(n)
  BY <1>1, ObeyFacts DEF LoopInv
<1>3. h.try \in TryOrNone
  BY <1>2 DEF Obeying, Orders
<1>4. /\ keeper' \in Keepers /\ keeper'.kept = keeper.kept
      /\ keeper'.sending = keeper.sending /\ keeper'.draft = h.try
  BY <1>1, <1>3 DEF LoopInv, LoopType, Keepers
<1>5. ASSUME ~loop.crossed PROVE Listed' /\ Showing'
  <2>1. Listed'
    BY <1>1, <1>2, <1>4, <1>5 DEF LoopInv, Uncrossed, Listed, Obeying, Inserted
  <2>2. loop.session # NoTry \/ SettleUnderway'
    <3>1. PICK n : Stepped(n)
      BY <1>2
    <3>2. 1 \in DOMAIN orders /\ orders[1].kind = "open"
      BY <3>1 DEF Stepped
    <3>3. loop.session # NoTry \/ \E j \in DOMAIN orders : j > 1 /\ orders[j].kind = "settle"
      BY <3>2 DEF LoopInv, Awaited
    <3>4. Has(orders, "settle") => Has(orders', "settle")
      BY <1>2 DEF Obeying
    <3> QED
      BY <3>3, <3>4 DEF Has, SettleUnderway
  <2> QED
    BY <1>1, <2>1, <2>2 DEF Showing
<1> QED
  BY <1>1, <1>4, <1>5, HandlesQuietly

LEMMA HandleSelectKeeps ==
  ASSUME LoopInv, HandleOrder, Head(orders).kind = "select"
  PROVE  LoopInv'
<1> DEFINE h == Head(orders)
           t == h.try
<1>1. /\ orders # <<>> /\ orders' = Tail(orders) /\ UNCHANGED <<loop, replies>>
      /\ keeper' = Shown(keeper, t)
  BY DEF HandleOrder, Obeyed
<1>2. Obeying /\ \E n : Stepped(n)
  BY <1>1, ObeyFacts DEF LoopInv
<1>3. t \in TryOrNone
  BY <1>2 DEF Obeying, Orders
<1>4. /\ keeper' \in Keepers /\ keeper'.kept = keeper.kept
      /\ keeper'.sending = keeper.sending /\ keeper'.draft = keeper.draft
      /\ keeper'.live = IF t = keeper.live \/ t \in keeper.kept THEN t ELSE NoTry
  <2> HIDE DEF t
  <2> QED
    BY <1>1, <1>3 DEF LoopInv, LoopType, Keepers, Shown, TryOrNone
<1>5. ASSUME ~loop.crossed PROVE Listed' /\ Showing'
  <2>1. Listed /\ Showing
    BY <1>5 DEF LoopInv, Uncrossed
  <2>2. Listed'
    BY <1>1, <1>2, <1>4, <2>1 DEF Listed, Obeying, Inserted
  <2>3. Showing'
    <3> SUFFICES ASSUME loop.session = NoTry /\ ~SettleUnderway /\ ~Inserted
                 PROVE  Showing'
      BY <1>1, <1>2 DEF Showing, SettleUnderway, Obeying, Inserted
    <3>1. PICK n : Stepped(n)
      BY <1>2
    <3>2. /\ \A i \in DOMAIN orders' :
               Shows(orders'[i]) /\ (\A j \in DOMAIN orders' : j > i => ~Shows(orders'[j])) =>
                 loop.selected = Left(orders', Target(orders'[i]), i)
          /\ (\A i \in DOMAIN orders' : ~Shows(orders'[i])) =>
               loop.selected = IF Shows(orders[1]) THEN Left(orders', Target(orders[1]), 0)
                               ELSE Left(orders, keeper.live, 0)
      BY <2>1, <3>1, ShowingTailed
    <3>3. Shows(orders[1]) /\ Target(orders[1]) = t
      BY <3>1 DEF Stepped, Shows, Target
    <3>4. ASSUME \A i \in DOMAIN orders' : ~Shows(orders'[i])
          PROVE  loop.selected = Left(orders', keeper'.live, 0)
      <4>1. loop.selected = Left(orders', t, 0)
        BY <3>2, <3>3, <3>4
      <4>2. CASE keeper'.live = t
        BY <4>1, <4>2
      <4>3. CASE keeper'.live # t
        <5>1. keeper'.live = NoTry /\ t \notin keeper.kept
          BY <1>4, <4>3
        <5>2. loop.selected \in {t, NoTry}
          BY <4>1 DEF Left
        <5>3. ~Has(orders, "discard")
          <6>1. ~Has(orders', "discard")
            BY <3>4 DEF Shows, Has
          <6> QED
            BY <1>2, <6>1 DEF Obeying
        <5>4. loop.selected # NoTry => loop.selected \in loop.tries /\ loop.selected \in Tries
          BY DEF LoopInv, Apart, LoopType, Loops
        <5>5. loop.selected = NoTry
          BY <2>1, <5>1, <5>2, <5>3, <5>4 DEF Listed
        <5> QED
          BY <5>1, <5>5 DEF Left
      <4> QED
        BY <4>2, <4>3
    <3> QED
      BY <1>1, <3>2, <3>4 DEF Showing
  <2> QED
    BY <2>2, <2>3
<1> QED
  BY <1>1, <1>4, <1>5, HandlesQuietly

LEMMA HandleRemoveKeeps ==
  ASSUME LoopInv, HandleOrder, Head(orders).kind = "remove"
  PROVE  LoopInv'
<1> DEFINE h == Head(orders)
           t == h.try
<1>1. /\ orders # <<>> /\ orders' = Tail(orders) /\ UNCHANGED <<loop, replies>>
      /\ keeper' = [keeper EXCEPT !.kept = keeper.kept \ {t},
                                  !.live = IF keeper.live = t THEN NoTry ELSE keeper.live]
  BY DEF HandleOrder, Obeyed, LoopInv, LoopType, Keepers
<1>2. Obeying /\ \E n : Stepped(n)
  BY <1>1, ObeyFacts DEF LoopInv
<1>3. Says(orders, "remove", t) /\ t # NoTry /\ ~Says(orders', "remove", t)
  <2>1. Says(orders, "remove", t)
    BY <1>2 DEF Obeying
  <2>2. t # NoTry
    BY <2>1 DEF LoopInv, Apart
  <2> QED
    BY <1>2, <2>1, <2>2 DEF LoopInv, Apart, Obeying
<1> HIDE DEF t
<1>4. /\ keeper' \in Keepers /\ keeper'.kept = keeper.kept \ {t}
      /\ keeper'.sending = keeper.sending /\ keeper'.draft = keeper.draft
      /\ keeper'.live = IF keeper.live = t THEN NoTry ELSE keeper.live
  BY <1>1 DEF LoopInv, LoopType, Keepers, TryOrNone
<1>5. ASSUME ~loop.crossed PROVE Listed' /\ Showing'
  <2>1. Listed /\ Showing /\ Apart
    BY <1>5 DEF LoopInv, Uncrossed
  <2>2. Listed'
    <3>1. \A r \in Tries : r # t => (Says(orders', "remove", r) <=> Says(orders, "remove", r))
      BY <1>2 DEF Obeying, t
    <3>2. t \in Tries => t \notin loop.tries /\ ~Says(replies, "settled", t)
      BY <1>3, <2>1 DEF Apart
    <3>3. Has(orders', "discard") <=> Has(orders, "discard")
      BY <1>2 DEF Obeying
    <3> QED
      BY <1>1, <1>3, <1>4, <2>1, <3>1, <3>2, <3>3 DEF Listed, Inserted
  <2>3. Showing'
    <3> SUFFICES ASSUME loop.session = NoTry /\ ~SettleUnderway /\ ~Inserted
                 PROVE  Showing'
      BY <1>1, <1>2 DEF Showing, SettleUnderway, Obeying, Inserted
    <3>1. PICK n : Stepped(n)
      BY <1>2
    <3>2. /\ \A i \in DOMAIN orders' :
               Shows(orders'[i]) /\ (\A j \in DOMAIN orders' : j > i => ~Shows(orders'[j])) =>
                 loop.selected = Left(orders', Target(orders'[i]), i)
          /\ (\A i \in DOMAIN orders' : ~Shows(orders'[i])) =>
               loop.selected = IF Shows(orders[1]) THEN Left(orders', Target(orders[1]), 0)
                               ELSE Left(orders, keeper.live, 0)
      BY <2>1, <3>1, ShowingTailed
    <3>3. ~Shows(orders[1]) /\ 1 \in DOMAIN orders /\ orders[1].kind = "remove" /\ orders[1].try = t
      BY <3>1 DEF Stepped, Shows, t
    <3>4. ASSUME \A i \in DOMAIN orders' : ~Shows(orders'[i])
          PROVE  loop.selected = Left(orders', keeper'.live, 0)
      <4>1. loop.selected = Left(orders, keeper.live, 0)
        BY <3>2, <3>3, <3>4
      <4>2. CASE keeper.live = t
        BY <1>4, <3>3, <4>1, <4>2 DEF Left
      <4>3. CASE keeper.live # t
        <5>1. Says(orders', "remove", keeper.live) <=> Says(orders, "remove", keeper.live)
          BY <1>2, <4>3 DEF Obeying, t
        <5>2. /\ Left(orders, keeper.live, 0) =
                   IF Says(orders, "remove", keeper.live) THEN NoTry ELSE keeper.live
              /\ Left(orders', keeper.live, 0) =
                   IF Says(orders', "remove", keeper.live) THEN NoTry ELSE keeper.live
          BY <3>1 DEF Left, Says, Stepped
        <5> QED
          BY <1>4, <4>1, <4>3, <5>1, <5>2
      <4> QED
        BY <4>2, <4>3
    <3> QED
      BY <1>1, <3>2, <3>4 DEF Showing
  <2> QED
    BY <2>2, <2>3
<1> QED
  BY <1>1, <1>4, <1>5, HandlesQuietly

LEMMA HandleDiscardKeeps ==
  ASSUME LoopInv, HandleOrder, Head(orders).kind = "discard"
  PROVE  LoopInv'
<1> DEFINE h == Head(orders)
<1>1. /\ orders # <<>> /\ orders' = Tail(orders) /\ UNCHANGED <<loop, replies>>
      /\ keeper' = [keeper EXCEPT !.kept = {}, !.live = NoTry]
  BY DEF HandleOrder, Obeyed
<1>2. Obeying /\ \E n : Stepped(n)
  BY <1>1, ObeyFacts DEF LoopInv
<1>3. /\ keeper' \in Keepers /\ keeper'.kept = {} /\ keeper'.live = NoTry
      /\ keeper'.sending = keeper.sending /\ keeper'.draft = keeper.draft
  BY <1>1 DEF LoopInv, LoopType, Keepers, TryOrNone
<1>4. ASSUME ~loop.crossed PROVE Listed' /\ Showing'
  <2>1. Discarding /\ Showing
    BY <1>4 DEF LoopInv, Uncrossed
  <2>2. PICK n : Stepped(n)
    BY <1>2
  <2>3. 1 \in DOMAIN orders /\ orders[1].kind = "discard"
    BY <2>2 DEF Stepped
  <2>4. Listed'
    <3>1. /\ loop.tries = {} /\ ~Has(replies, "settled")
          /\ \A j \in DOMAIN orders : 1 < j => orders[j].kind # "remove"
      BY <2>1, <2>3 DEF Discarding
    <3>2. \A r : ~Says(replies, "settled", r)
      BY <3>1 DEF Says, Has
    <3>3. \A i \in DOMAIN orders' : orders'[i].kind # "remove"
      BY <2>2, <3>1 DEF Stepped
    <3> QED
      BY <1>1, <1>3, <3>1, <3>2, <3>3 DEF Listed, Says
  <2>5. Showing'
    <3> SUFFICES ASSUME loop.session = NoTry /\ ~SettleUnderway /\ ~Inserted
                 PROVE  Showing'
      BY <1>1, <1>2 DEF Showing, SettleUnderway, Obeying, Inserted
    <3>1. /\ \A i \in DOMAIN orders' :
               Shows(orders'[i]) /\ (\A j \in DOMAIN orders' : j > i => ~Shows(orders'[j])) =>
                 loop.selected = Left(orders', Target(orders'[i]), i)
          /\ (\A i \in DOMAIN orders' : ~Shows(orders'[i])) =>
               loop.selected = IF Shows(orders[1]) THEN Left(orders', Target(orders[1]), 0)
                               ELSE Left(orders, keeper.live, 0)
      BY <2>1, <2>2, ShowingTailed
    <3>2. Shows(orders[1]) /\ Target(orders[1]) = NoTry
      BY <2>3 DEF Shows, Target
    <3> QED
      BY <1>1, <1>3, <3>1, <3>2 DEF Showing
  <2> QED
    BY <2>4, <2>5
<1> QED
  BY <1>1, <1>3, <1>4, HandlesQuietly

\* What an answer of the decoder adds to the queue.
Replying(a) ==
    /\ replies' \in Seq(Replies)
    /\ \A k : Has(replies', k) <=> Has(replies, k) \/ a.kind = k
    /\ \A k, t : Says(replies', k, t) <=> Says(replies, k, t) \/ (a.kind = k /\ a.try = t)
    /\ \A k : Once(replies, k) /\ (a.kind = k => ~Has(replies, k)) => Once(replies', k)
    /\ \A k : OnceOf(replies, k) /\ (a.kind = k => a.try = NoTry \/ ~Says(replies, k, a.try)) =>
         OnceOf(replies', k)
    /\ Inserted' <=> Inserted \/ (a.kind = "inserted" /\ a.done)

LEMMA ReplyFacts ==
  ASSUME LoopType, NEW a \in Replies, replies' = Append(replies, a)
  PROVE  Replying(a)
<1>1. replies \in Seq(Replies)
  BY DEF LoopType
<1>2. /\ replies' \in Seq(Replies)
      /\ \A i \in DOMAIN replies : i \in DOMAIN replies' /\ replies'[i] = replies[i]
      /\ \E n \in DOMAIN replies' :
           /\ replies'[n] = a
           /\ \A i \in DOMAIN replies' : i \in DOMAIN replies \/ i = n
  <2> DEFINE n == Len(replies) + 1
  <2>1. /\ replies' \in Seq(Replies) /\ n \in DOMAIN replies' /\ replies'[n] = a
        /\ \A i \in DOMAIN replies : i \in DOMAIN replies' /\ replies'[i] = replies[i]
        /\ \A i \in DOMAIN replies' : i \in DOMAIN replies \/ i = n
    BY <1>1, Appended
  <2> QED
    BY <2>1
<1>3. Inserted' <=> Inserted \/ (a.kind = "inserted" /\ a.done)
  BY <1>2 DEF Inserted
<1>4. /\ \A k : Has(replies', k) <=> Has(replies, k) \/ a.kind = k
      /\ \A k, t : Says(replies', k, t) <=> Says(replies, k, t) \/ (a.kind = k /\ a.try = t)
      /\ \A k : Once(replies, k) /\ (a.kind = k => ~Has(replies, k)) => Once(replies', k)
      /\ \A k : OnceOf(replies, k) /\ (a.kind = k => a.try = NoTry \/ ~Says(replies, k, a.try)) =>
           OnceOf(replies', k)
  BY <1>1, AppendedSays
<1> QED
  BY <1>2, <1>3, <1>4 DEF Replying

\* The draft is kept, if it was asked for and sung, and answered for.
LEMMA HandleSettleKeeps ==
  ASSUME LoopInv, HandleOrder, Head(orders).kind = "settle"
  PROVE  LoopInv'
<1> DEFINE h == Head(orders)
           u == IF h.keep /\ keeper.draft \in keeper.sung THEN keeper.draft ELSE NoTry
           a == [kind |-> "settled", try |-> u]
<1>1. /\ orders # <<>> /\ orders' = Tail(orders) /\ loop' = loop
      /\ keeper' = [keeper EXCEPT !.draft = NoTry,
                      !.kept = IF h.keep THEN keeper.kept \cup ({keeper.draft} \cap keeper.sung)
                               ELSE keeper.kept]
      /\ replies' = Append(replies, a)
  BY DEF HandleOrder, Obeyed, LoopInv, LoopType, Keepers
<1>2. Obeying /\ \E n : Stepped(n)
  BY <1>1, ObeyFacts DEF LoopInv
<1>3. h.keep \in BOOLEAN
  BY <1>2 DEF Obeying, Orders
<1>4. u \in TryOrNone /\ (u # NoTry => u = keeper.draft /\ u \in Tries)
  BY DEF LoopInv, LoopType, Keepers, TryOrNone
<1>5. /\ keeper' \in Keepers /\ keeper'.draft = NoTry /\ keeper'.sending = keeper.sending
      /\ keeper'.kept = IF u = NoTry THEN keeper.kept ELSE keeper.kept \cup {u}
  <2>1. keeper \in Keepers /\ keeper.sung \in SUBSET Tries /\ keeper.kept \in SUBSET Tries
    BY DEF LoopInv, LoopType, Keepers
  <2>2. keeper' \in Keepers /\ keeper'.draft = NoTry /\ keeper'.sending = keeper.sending
        /\ keeper'.kept = IF h.keep THEN keeper.kept \cup ({keeper.draft} \cap keeper.sung)
                          ELSE keeper.kept
    <3> HIDE DEF h
    <3> QED
      BY <1>1, <2>1 DEF Keepers, TryOrNone
  <2> HIDE DEF h
  <2> QED
    BY <2>1, <2>2, NoTryIsNone
<1>6. a \in Replies /\ a.kind = "settled" /\ a.try = u
  BY <1>4 DEF Replies
<1>7. Replying(a)
  BY <1>1, <1>6, ReplyFacts DEF LoopInv
<1> HIDE DEF a, u
<1>8. u # NoTry => ~Spent(u)
  BY <1>4 DEF LoopInv, Fresh
<1>9. Has(orders, "settle") /\ (Once(orders, "settle") => ~Has(orders', "settle"))
  BY <1>2 DEF Obeying
<1> HIDE DEF h
<1>10. /\ \A k : k # "settle" => (Has(orders', k) <=> Has(orders, k))
       /\ \A k, t : k # "settle" => (Says(orders', k, t) <=> Says(orders, k, t))
       /\ \A k : Once(orders, k) => Once(orders', k)
       /\ \A k : OnceOf(orders, k) => OnceOf(orders', k)
  BY <1>2 DEF Obeying
<1>11. LoopType' /\ InSession'
  BY <1>1, <1>2, <1>5, <1>7 DEF LoopInv, LoopType, Obeying, Replying, InSession
<1>12. Awaited'
  <2>1. Awaited
    BY DEF LoopInv
  <2>2. SettleUnderway
    BY <1>9 DEF SettleUnderway
  <2>3. SettleUnderway'
    BY <1>6, <1>7 DEF SettleUnderway, Replying
  <2>4. SettlesUnderway' => SettlesUnderway
    BY <1>6, <1>7, <1>9, <1>10 DEF SettlesUnderway, Replying
  <2>5. \A i \in DOMAIN orders' : orders'[i].kind = "open" =>
           \/ \E j \in DOMAIN orders' : j > i /\ orders'[j].kind = "settle"
           \/ loop'.session # NoTry /\ loop'.at[loop'.session] \in {"open", "closing"}
    BY <1>1, <1>2, <2>1, OpensTailed
  <2> QED
    BY <1>1, <2>1, <2>2, <2>3, <2>4, <2>5 DEF Awaited
<1>13. Fresh'
  <2>1. Fresh
    BY DEF LoopInv
  <2>2. \A t \in Tries : Spent(t)' => Spent(t) \/ t = keeper.draft
    BY <1>1, <1>4, <1>5, <1>6, <1>7, <1>10, NoTryIsNone DEF Spent, Replying
  <2> QED
    BY <1>1, <1>5, <1>10, <2>1, <2>2, NoTryIsNone DEF Fresh
<1>14. Apart'
  BY <1>1, <1>4, <1>6, <1>7, <1>8, <1>10, NoTryIsNone DEF LoopInv, Apart, Replying, Spent
<1>15. Inserting'
  BY <1>1, <1>5, <1>6, <1>7, <1>10 DEF LoopInv, Inserting, Replying
<1>16. Uncrossed'
  <2> SUFFICES ASSUME ~loop.crossed PROVE Listed' /\ Discarding' /\ Showing'
    BY <1>1 DEF Uncrossed
  <2>1. Listed'
    <3>1. \A t \in Tries : Says(replies', "settled", t) <=> Says(replies, "settled", t) \/ t = u
      BY <1>6, <1>7 DEF Replying
    <3>2. \A t \in Tries : t \in keeper'.kept <=> t \in keeper.kept \/ t = u
      BY <1>5, NoTryIsNone
    <3>3. Inserted' <=> Inserted
      BY <1>6, <1>7 DEF Replying
    <3>4. u # NoTry => u \notin loop.tries /\ ~Says(orders, "remove", u)
      BY <1>8 DEF Spent
    <3> QED
      BY <1>1, <1>10, <3>1, <3>2, <3>3, <3>4, NoTryIsNone DEF LoopInv, Uncrossed, Listed
  <2>2. Discarding'
    <3>1. PICK n : Stepped(n)
      BY <1>2
    <3>2. orders[1].kind = "settle" /\ 1 \in DOMAIN orders
      BY <3>1 DEF Stepped
    <3>3. \A i \in DOMAIN orders : i = 1 \/ 1 < i
      BY <3>1 DEF Stepped
    <3>4. ~Has(orders, "discard")
      BY <3>2, <3>3 DEF LoopInv, Uncrossed, Discarding, Has
    <3>5. ~Has(orders', "discard")
      BY <1>10, <3>4
    <3> QED
      BY <3>5 DEF Discarding, Has
  <2>3. Showing'
    BY <1>6, <1>7 DEF Showing, SettleUnderway, Replying
  <2> QED
    BY <2>1, <2>2, <2>3
<1> QED
  BY <1>11, <1>12, <1>13, <1>14, <1>15, <1>16 DEF LoopInv

\* The try is sent to the recording, or there is none to send.
LEMMA HandleInsertKeeps ==
  ASSUME LoopInv, HandleOrder, Head(orders).kind = "insert"
  PROVE  LoopInv'
<1> DEFINE h == Head(orders)
           t == h.try
           a == [kind |-> "inserted", done |-> FALSE]
<1>1. /\ orders # <<>> /\ orders' = Tail(orders) /\ loop' = loop
      /\ \/ keeper' = [keeper EXCEPT !.sending = t] /\ replies' = replies
         \/ keeper' = keeper /\ replies' = Append(replies, a)
  BY DEF HandleOrder, Obeyed
<1>2. Obeying /\ \E n : Stepped(n)
  BY <1>1, ObeyFacts DEF LoopInv
<1>3. t \in TryOrNone /\ Says(orders, "insert", t) /\ Has(orders, "insert") /\ ~Has(orders', "insert")
  BY <1>2 DEF Obeying, Orders, LoopInv, Inserting
<1>4. t = loop.inserting /\ t # NoTry /\ keeper.sending = NoTry /\ ~Has(replies, "inserted")
  BY <1>3 DEF LoopInv, Inserting
<1>5. /\ \A k : k # "insert" => (Has(orders', k) <=> Has(orders, k))
      /\ \A k, r : k # "insert" => (Says(orders', k, r) <=> Says(orders, k, r))
      /\ \A k : Once(orders, k) => Once(orders', k)
      /\ \A k : OnceOf(orders, k) => OnceOf(orders', k)
  BY <1>2 DEF Obeying
<1>6. a \in Replies /\ a.kind = "inserted" /\ ~a.done
  BY DEF Replies
<1> HIDE DEF a, t, h
<1>7. replies' = Append(replies, a) => Replying(a)
  BY <1>6, ReplyFacts DEF LoopInv
<1>8. SameAnswers
  BY <1>1, <1>6, <1>7, SameAnswersSame DEF SameAnswers, Replying
<1>9. /\ keeper' \in Keepers /\ keeper'.draft = keeper.draft /\ keeper'.kept = keeper.kept
      /\ keeper'.live = keeper.live
      /\ \/ keeper'.sending = t /\ ~Has(replies', "inserted")
         \/ keeper'.sending = NoTry
  BY <1>1, <1>3, <1>4 DEF LoopInv, LoopType, Keepers
<1>10. Once(replies', "inserted") /\ ~Inserted /\ ~Inserted'
  <2>1. Once(replies, "inserted") /\ ~Inserted
    BY <1>4 DEF Once, Has, Inserted
  <2>2. CASE replies' = replies
    BY <2>1, <2>2 DEF Inserted
  <2>3. CASE replies' = Append(replies, a)
    BY <1>4, <1>6, <1>7, <2>1, <2>3 DEF Replying
  <2> QED
    BY <1>1, <2>2, <2>3
<1>11. LoopType' /\ InSession'
  BY <1>1, <1>2, <1>8, <1>9 DEF LoopInv, LoopType, Obeying, SameAnswers, InSession
<1>12. Awaited'
  <2>1. Awaited
    BY DEF LoopInv
  <2>2. (SettleUnderway' <=> SettleUnderway) /\ (SettlesUnderway' => SettlesUnderway)
    BY <1>5, <1>8 DEF SettleUnderway, SettlesUnderway, SameAnswers
  <2>3. \A i \in DOMAIN orders' : orders'[i].kind = "open" =>
           \/ \E j \in DOMAIN orders' : j > i /\ orders'[j].kind = "settle"
           \/ loop'.session # NoTry /\ loop'.at[loop'.session] \in {"open", "closing"}
    BY <1>1, <1>2, <2>1, OpensTailed
  <2> QED
    BY <1>1, <2>1, <2>2, <2>3 DEF Awaited
<1>13. Fresh' /\ Apart'
  <2>1. \A r : Spent(r)' <=> Spent(r)
    BY <1>1, <1>5, <1>8, <1>9 DEF Spent, SameAnswers
  <2>2. Fresh'
    BY <1>1, <1>5, <1>9, <2>1 DEF LoopInv, Fresh
  <2>3. Apart'
    BY <1>1, <1>5, <1>8 DEF LoopInv, Apart, SameAnswers
  <2> QED
    BY <2>2, <2>3
<1>14. Inserting'
  <2>1. \A r \in TryOrNone : ~Says(orders', "insert", r)
    BY <1>3 DEF Says, Has
  <2>2. Once(orders', "insert")
    BY <1>3 DEF Once, Has
  <2> QED
    BY <1>1, <1>3, <1>4, <1>9, <1>10, <2>1, <2>2 DEF LoopInv, Inserting
<1>15. Uncrossed'
  <2> SUFFICES ASSUME ~loop.crossed PROVE Listed' /\ Discarding' /\ Showing'
    BY <1>1 DEF Uncrossed
  <2>1. Listed /\ Discarding /\ Showing
    BY DEF LoopInv, Uncrossed
  <2>2. Listed'
    BY <1>1, <1>5, <1>8, <1>9, <1>10, <2>1 DEF Listed, SameAnswers
  <2>3. PICK n : Stepped(n)
    BY <1>2
  <2>4. Discarding'
    BY <1>1, <1>8, <2>1, <2>3, DiscardingTailed DEF SameAnswers
  <2>5. Showing'
    <3> SUFFICES ASSUME loop.session = NoTry /\ ~SettleUnderway PROVE Showing'
      BY <1>1, <1>5, <1>8 DEF Showing, SettleUnderway, SameAnswers
    <3>1. /\ \A i \in DOMAIN orders' :
               Shows(orders'[i]) /\ (\A j \in DOMAIN orders' : j > i => ~Shows(orders'[j])) =>
                 loop.selected = Left(orders', Target(orders'[i]), i)
          /\ (\A i \in DOMAIN orders' : ~Shows(orders'[i])) =>
               loop.selected = IF Shows(orders[1]) THEN Left(orders', Target(orders[1]), 0)
                               ELSE Left(orders, keeper.live, 0)
      BY <1>10, <2>1, <2>3, ShowingTailed
    <3>2. ~Shows(orders[1])
      BY <2>3 DEF Stepped, Shows
    <3>3. Says(orders', "remove", keeper.live) <=> Says(orders, "remove", keeper.live)
      BY <1>5
    <3>4. /\ Left(orders, keeper.live, 0) =
               IF Says(orders, "remove", keeper.live) THEN NoTry ELSE keeper.live
          /\ Left(orders', keeper.live, 0) =
               IF Says(orders', "remove", keeper.live) THEN NoTry ELSE keeper.live
      BY <2>3, SMTT(60) DEF Left, Says, Stepped
    <3> QED
      BY <1>1, <1>9, <3>1, <3>2, <3>3, <3>4 DEF Showing
  <2> QED
    BY <2>2, <2>4, <2>5
<1> QED
  BY <1>11, <1>12, <1>13, <1>14, <1>15 DEF LoopInv

LEMMA SentKeeps ==
  ASSUME LoopInv, NEW done \in BOOLEAN, Sent(done)
  PROVE  LoopInv'
<1> DEFINE s == keeper.sending
           a == [kind |-> "inserted", done |-> done]
<1>1. /\ s # NoTry /\ UNCHANGED <<loop, orders>> /\ replies' = Append(replies, a)
  BY DEF Sent
<1>2. a \in Replies /\ a.kind = "inserted" /\ a.done = done
  BY DEF Replies
<1> HIDE DEF a
<1>3. Replying(a)
  BY <1>1, <1>2, ReplyFacts DEF LoopInv
<1>4. /\ s = loop.inserting /\ s \in loop.tries /\ loop.stage # "none"
      /\ ~Has(replies, "inserted") /\ ~Has(orders, "insert")
  BY <1>1 DEF LoopInv, Inserting
<1>5. /\ keeper' \in Keepers /\ keeper'.draft = keeper.draft /\ keeper'.sending = NoTry
      /\ keeper'.kept = IF done THEN keeper.kept \ {s} ELSE keeper.kept
      /\ ~done => keeper'.live = keeper.live
  BY DEF Sent, LoopInv, LoopType, Keepers, TryOrNone
<1>6. SameAnswers
  BY <1>2, <1>3 DEF SameAnswers, Replying
<1>7. ~Inserted /\ (Inserted' <=> done)
  <2>1. ~Inserted
    BY <1>4 DEF Inserted, Has
  <2> QED
    BY <1>2, <1>3, <2>1 DEF Replying
<1>8. LoopType' /\ InSession'
  BY <1>1, <1>5, <1>6 DEF LoopInv, LoopType, SameAnswers, InSession
<1>9. Awaited'
  <2>1. (SettleUnderway' <=> SettleUnderway) /\ (SettlesUnderway' => SettlesUnderway)
    BY <1>1, <1>6 DEF SettleUnderway, SettlesUnderway, SameAnswers
  <2> QED
    BY <1>1, <2>1 DEF LoopInv, Awaited
<1>10. Fresh' /\ Apart'
  <2>1. \A r : Spent(r)' => Spent(r)
    BY <1>1, <1>5, <1>6 DEF Spent, SameAnswers
  <2>2. Fresh'
    BY <1>1, <1>5, <2>1 DEF LoopInv, Fresh
  <2>3. Apart'
    BY <1>1, <1>6 DEF LoopInv, Apart, SameAnswers
  <2> QED
    BY <2>2, <2>3
<1>11. Inserting'
  <2>1. Once(replies', "inserted")
    <3>1. Once(replies, "inserted")
      BY <1>4 DEF Once, Has
    <3> QED
      BY <1>3, <1>4, <3>1 DEF Replying
  <2> QED
    BY <1>1, <1>4, <1>5, <2>1 DEF LoopInv, Inserting
<1>12. Uncrossed'
  <2> SUFFICES ASSUME ~loop.crossed PROVE Listed' /\ Discarding' /\ Showing'
    BY <1>1 DEF Uncrossed
  <2>1. Listed'
    <3>1. ~Says(replies, "settled", s) /\ ~Says(orders, "remove", s)
      BY <1>4 DEF LoopInv, Apart, LoopType, Loops
    <3> QED
      BY <1>1, <1>4, <1>5, <1>6, <1>7, <3>1 DEF LoopInv, Uncrossed, Listed, SameAnswers
  <2>2. Discarding'
    BY <1>1, <1>6 DEF LoopInv, Uncrossed, Discarding, SameAnswers
  <2>3. Showing'
    BY <1>1, <1>5, <1>6, <1>7 DEF LoopInv, Uncrossed, Showing, SettleUnderway, SameAnswers
  <2> QED
    BY <2>1, <2>2, <2>3
<1> QED
  BY <1>8, <1>9, <1>10, <1>11, <1>12 DEF LoopInv

LEMMA SingKeeps ==
  ASSUME LoopInv, Sing
  PROVE  LoopInv'
<1>1. /\ UNCHANGED <<loop, orders, replies>> /\ keeper' \in Keepers
      /\ keeper'.kept = keeper.kept /\ keeper'.draft = keeper.draft
      /\ keeper'.live = keeper.live /\ keeper'.sending = keeper.sending
  BY DEF Sing, LoopInv, LoopType, Keepers, TryOrNone
<1>2. LoopType' /\ InSession' /\ Awaited'
  BY <1>1 DEF LoopInv, LoopType, InSession, Awaited, SettleUnderway, SettlesUnderway
<1>3. Fresh' /\ Apart' /\ Inserting'
  BY <1>1 DEF LoopInv, Fresh, Spent, Apart, Inserting
<1>4. Uncrossed'
  BY <1>1 DEF LoopInv, Uncrossed, Listed, Discarding, Showing, Inserted, SettleUnderway
<1> QED
  BY <1>2, <1>3, <1>4 DEF LoopInv

-----------------------------------------------------------------------------
(* Every step.                                                             *)

LEMMA SessionStepsKeep ==
  ASSUME LoopInv,
         \/ PassStarts \/ Cancel \/ LockLoop \/ \E whole \in BOOLEAN : PassEnds(whole)
  PROVE  LoopInv'
<1>1. loop \in Loops
  BY DEF LoopInv, LoopType
<1>2. CASE PassStarts
  <2>1. /\ loop' \in Loops /\ SameTries(loop, loop') /\ SameSession(loop, loop')
        /\ loop.session # NoTry
    BY <1>1, <1>2 DEF PassStarts, Loops, SameTries, SameSession
  <2> QED
    BY <1>2, <2>1, SessionGoesOn DEF PassStarts, Stops, SameSession
<1>3. CASE Cancel
  <2>1. /\ loop' \in Loops /\ Stops(loop, loop') /\ SameTries(loop, loop')
        /\ loop'.phase = loop.phase /\ (loop'.pending => loop.pending \/ loop.session # NoTry)
    BY <1>1, <1>3, CancelTryFacts DEF Cancel
  <2> QED
    BY <1>3, <2>1, SessionGoesOn DEF Cancel
<1>4. CASE LockLoop
  <2>1. /\ loop' \in Loops /\ SameTries(loop, loop') /\ SameSession(loop, loop')
        /\ SamePhase(loop, loop')
    BY <1>1, <1>4 DEF LockLoop, Loops, SameTries, SameSession, SamePhase
  <2> QED
    BY <1>4, <2>1, SessionGoesOn DEF LockLoop, Stops, SameSession, SamePhase
<1>5. ASSUME NEW whole \in BOOLEAN, PassEnds(whole)
      PROVE  LoopInv'
  <2> DEFINE c == IF whole THEN loop.complete \cup {loop.session}
                  ELSE loop.complete \ {loop.session}
             l == [loop EXCEPT !.complete = c]
  <2>1. loop' = StopTry(l) /\ loop.session # NoTry /\ UNCHANGED <<orders, replies, keeper>>
    BY <1>1, <1>5 DEF PassEnds, Loops
  <2>2. c \in SUBSET Tries
    BY <1>1, <2>1 DEF Loops, TryOrNone
  <2> HIDE DEF c
  <2>3. l \in Loops /\ SameTries(loop, l) /\ SameSession(loop, l) /\ SamePhase(loop, l)
    BY <1>1, <2>2 DEF Loops, SameTries, SameSession, SamePhase
  <2> HIDE DEF l
  <2>4. loop' \in Loops /\ Stops(l, loop') /\ SameTries(l, loop') /\ SamePhase(l, loop')
    BY <2>1, <2>3, StopTryFacts
  <2>5. Stops(loop, loop') /\ SameTries(loop, loop')
    BY <2>3, <2>4 DEF Stops, SameTries, SameSession
  <2> QED
    BY <2>1, <2>4, <2>5, SessionGoesOn
<1> QED
  BY <1>2, <1>3, <1>4, <1>5

LEMMA HandleOrderKeeps ==
  ASSUME LoopInv, HandleOrder
  PROVE  LoopInv'
<1>1. Head(orders).kind \in {"open", "select", "remove", "insert", "settle", "discard"}
  <2>1. orders \in Seq(Orders) /\ orders # <<>>
    BY DEF HandleOrder, LoopInv, LoopType
  <2>2. Head(orders) \in Orders
    BY <2>1
  <2> QED
    BY <2>2 DEF Orders
<1> QED
  BY <1>1, HandleOpenKeeps, HandleSelectKeeps, HandleRemoveKeeps, HandleInsertKeeps,
     HandleSettleKeeps, HandleDiscardKeeps

LEMMA LoopKeeps == LoopInv /\ [LoopNext]_loopVars => LoopInv'
<1> SUFFICES ASSUME LoopInv, [LoopNext]_loopVars PROVE LoopInv'
  OBVIOUS
<1>1. CASE UNCHANGED loopVars
  <2>1. SameSession(loop, loop') /\ SameTries(loop, loop') /\ SamePhase(loop, loop')
    BY <1>1 DEF loopVars, SameSession, SameTries, SamePhase
  <2>2. loop' \in Loops /\ UNCHANGED <<orders, replies, keeper>>
    BY <1>1 DEF loopVars, LoopInv, LoopType
  <2> QED
    BY <2>1, <2>2, SessionGoesOn DEF Stops, SameSession, SamePhase
<1>2. CASE RecordTry
  BY <1>2, RecordTryKeeps
<1>3. CASE PassStarts \/ Cancel \/ LockLoop \/ \E whole \in BOOLEAN : PassEnds(whole)
  BY <1>3, SessionStepsKeep
<1>4. ASSUME NEW t \in Tries, TryOpens(t) \/ TryFails(t) \/ TryCloses(t)
      PROVE  LoopInv'
  BY <1>4, TryOpensKeeps, TryFailsKeeps, TryClosesKeeps
<1>5. CASE OpenLoop \/ CloseLoop
  BY <1>5, OpenLoopKeeps, CloseLoopKeeps
<1>6. ASSUME NEW t \in Tries \cup {NoTry}, SelectTry(t)
      PROVE  LoopInv'
  BY <1>6, SelectTryKeeps DEF TryOrNone
<1>7. CASE DeleteTry \/ InsertTry
  BY <1>7, DeleteTryKeeps, InsertTryKeeps
<1>8. CASE HearSettled \/ HearInserted
  BY <1>8, HearSettledKeeps, HearInsertedKeeps
<1>9. CASE HandleOrder \/ Sing
  BY <1>9, HandleOrderKeeps, SingKeeps
<1>10. ASSUME NEW done \in BOOLEAN, Sent(done)
       PROVE  LoopInv'
  BY <1>10, SentKeeps
<1> QED
  BY <1>1, <1>2, <1>3, <1>4, <1>5, <1>6, <1>7, <1>8, <1>9, <1>10 DEF LoopNext

\* However a stop, a cancel, the end of a pass, a selection, a deletion and an
\* insertion meet, once nothing is under way the player lists the tries the
\* decoder keeps and the decoder shows the selected one, whatever the numbers of
\* tries and choices (loop.ts cancelTry, loopTry.ts settleLoopTry,
\* loopTries.worker.ts).
THEOREM TriesCorrect == LoopSpec => []TriesAgree
<1>1. LoopInit => LoopInv
  BY LoopStarts
<1>2. LoopInv /\ [LoopNext]_loopVars => LoopInv'
  BY LoopKeeps
<1>3. LoopInv => TriesAgree
  BY LoopAgrees
<1> QED
  BY <1>1, <1>2, <1>3, PTL DEF LoopSpec

-----------------------------------------------------------------------------
(* The recordings of a project and the page.  A list that counts all the   *)
(* changes is known or comes; what the page has of a recording is current, *)
(* or the page will be told or load anew; a load that was begun for        *)
(* another recording has the load of a switch behind it; and a live take   *)
(* is on, ends, begins, or there is a load that takes it away.             *)

Works == [at : {"none", "changed", "list", "say"}, active : Nat, number : Nat]
Desks ==
    [active : Recordings, content : [Recordings -> Nat], number : Nat,
     holder : {"nobody", "other", "own"}, take : Nat, made : Nat, ended : Nat,
     wrote : BOOLEAN, said : BOOLEAN, works : [Edits -> Works]]
Reloads == [take : Nat, switched : BOOLEAN]
PieceLoads ==
    [at : {"none", "asked", "read"}, visit : Nat, recording : Nat, version : Nat]
Readers ==
    [stage : {"away", "listing", "listed", "asking", "asked", "mounted", "failed"},
     joined : BOOLEAN, answer : [number : Nat, active : Nat], known : Nat, heard : Nat,
     wanted : Nat, fetched : Nat, mounted : [recording : Nat, version : Nat],
     onMount : [is : BOOLEAN, take : Nat], player : Nat, picture : Nat, own : Nat,
     queue : Seq(Reloads), load : PieceLoads, finished : Nat, visit : Nat]
ShelfEvents ==
    [kind : {"list"}, active : Nat, number : Nat]
        \cup [kind : {"changed"}, recording : Nat]
        \cup [kind : {"started"}, take : Nat \ {Nothing}, recording : Nat]
        \cup [kind : {"finished"}, take : Nat]
Letters == [kind : {"start"}, take : Nat \ {Nothing}, recording : Nat] \cup [kind : {"sync"}]
Mails == [events : Seq(ShelfEvents), up : Seq(Letters)]
SlipTypes ==
    [early : BOOLEAN, outrun : BOOLEAN, dropped : BOOLEAN, lost : BOOLEAN, failed : BOOLEAN]
ShelfType == desk \in Desks /\ reader \in Readers /\ mail \in Mails /\ slips \in SlipTypes

\* The loads that wait, and the one that is under way.
Loading(r) == r.load.at # "none"
Waits(r) == IF Loading(r) THEN Tail(r.queue) ELSE r.queue
AnyPlain(w) == \E i \in DOMAIN w : ~w[i].switched
AnySwitch(w) == \E i \in DOMAIN w : w[i].switched
AnyOf(w, t) == \E i \in DOMAIN w : w[i].take = t

Here(r) == r.stage = "mounted"
InFlight(r) == Here(r) /\ Loading(r) /\ r.load.visit = r.visit
Knows(r) == r.stage \in {"asking", "asked", "mounted"}
Clean(s) == ~s.early /\ ~s.outrun /\ ~s.lost /\ ~s.failed

\* What the events on their way tell.
Tells(q, r) == \E i \in DOMAIN q : q[i].kind = "changed" /\ q[i].recording = r
TellsList(q, n) == \E i \in DOMAIN q : q[i].kind = "list" /\ q[i].number = n
Ends(q, t, i) == \E j \in DOMAIN q : j > i /\ q[j].kind = "finished" /\ q[j].take = t
Starts(q, t) == \E i \in DOMAIN q : q[i].kind = "start" /\ q[i].take = t

\* The recordings are held as long as a take is on or is told of; every change
\* has a number, and the work that tells of it.
Holds(d) ==
    /\ (d.holder = "nobody") = (d.take = Nothing /\ d.ended = Nothing)
    /\ d.take = Nothing \/ d.ended = Nothing
    /\ d.said \/ d.wrote => d.ended # Nothing
    /\ d.said => d.wrote
    /\ d.wrote => d.number # 0
    /\ d.number <= EditCount
    /\ \A k \in Edits : k > d.number \/ (k = d.number /\ d.wrote) => d.works[k] = NoWork

\* What the page has and at which stage of a visit.
Placed ==
    /\ (reader.mounted # Unmounted) = Here(reader)
    /\ Knows(reader) => reader.known \in Recordings
    /\ Here(reader) => reader.mounted.recording \in Recordings
    /\ reader.stage \in {"asking", "asked"} => reader.wanted \in Recordings
    /\ reader.stage = "away" => ~reader.joined /\ reader.player = Nothing /\ reader.picture = Nothing
    /\ ~Here(reader) => ~slips.dropped
    /\ ~reader.joined => mail.events = <<>>
    /\ Loading(reader) =>
         /\ reader.queue # <<>> /\ reader.load.visit <= reader.visit
         /\ reader.load.recording \in Recordings
         /\ Here(reader) \/ reader.stage = "away" \/ reader.load.visit # reader.visit
    /\ \A i \in DOMAIN reader.queue : reader.queue[i].switched => reader.queue[i].take = Nothing
    /\ reader.onMount.take # Nothing => reader.onMount.is

\* A list says which recording was active after the changes it counts.
True(d, list) ==
    /\ list.number <= d.number /\ list.active \in Recordings
    /\ list.number = d.number => list.active = d.active
Truths ==
    /\ \A k \in Edits : desk.works[k].at = "say" => True(desk, desk.works[k])
    /\ \A i \in DOMAIN mail.events : mail.events[i].kind = "list" => True(desk, mail.events[i])
Learnt ==
    /\ reader.heard <= desk.number
    /\ Knows(reader) /\ reader.heard = desk.number => reader.known = desk.active
    /\ reader.stage = "listed" => True(desk, reader.answer)

\* The list that counts all changes is known or comes.
Coming ==
    \/ desk.wrote
    \/ \E k \in Edits : desk.works[k].at \in {"changed", "list"}
    \/ \E k \in Edits : desk.works[k].at = "say" /\ desk.works[k].number = desk.number
    \/ TellsList(mail.events, desk.number)
Informed ==
    /\ Knows(reader) => reader.heard = desk.number \/ Coming
    /\ reader.stage = "listed" =>
         reader.heard = desk.number \/ reader.answer.number = desk.number \/ Coming

\* What the page has of a recording is current, or it will be told or load anew.
Told(r) ==
    \/ desk.wrote /\ desk.active = r
    \/ \E k \in Edits : desk.works[k].at = "changed" /\ desk.works[k].active = r
    \/ Tells(mail.events, r)
Current(r, v) == v = desk.content[r] \/ Told(r) \/ AnyPlain(Waits(reader))
Fetching ==
    /\ reader.stage = "asked" => Current(reader.wanted, reader.fetched) \/ reader.onMount.is
    /\ InFlight(reader) /\ reader.load.at = "read" =>
         Current(reader.load.recording, reader.load.version)
    /\ Here(reader) =>
         \/ Current(reader.mounted.recording, reader.mounted.version)
         \/ InFlight(reader) \/ slips.dropped

\* A load that was begun for another recording, or whose pieces were thrown away,
\* has the load of a switch behind it.
Switching ==
    /\ InFlight(reader) /\ reader.load.recording # reader.known => AnySwitch(Waits(reader))
    /\ Here(reader) /\ reader.mounted.recording # reader.known =>
         Waits(reader) # <<>> \/ (InFlight(reader) /\ reader.load.recording = reader.known)
    /\ slips.dropped =>
         \/ AnySwitch(Waits(reader))
         \/ /\ InFlight(reader) /\ reader.load.recording = reader.known
            /\ Switches(reader, reader.load, Head(reader.queue))

\* A live take is on, ending, about to begin, or there is a load that takes it away.
Ending(q, t, i) ==
    t = desk.take \/ (t = desk.ended /\ ~desk.said) \/ Ends(q, t, i)
Sung(t) == (reader.joined /\ Ending(mail.events, t, 0)) \/ Starts(mail.up, t)
Living(t) ==
    \/ t = Nothing \/ Sung(t)
    \/ AnyOf(Waits(reader), t)
    \/ InFlight(reader) /\ Head(reader.queue).take = t
    \/ ~Here(reader) /\ reader.onMount.take = t
    \/ slips.dropped
Lighting ==
    \A i \in DOMAIN mail.events : mail.events[i].kind = "started" =>
      Ending(mail.events, mail.events[i].take, i)
Lives == Living(reader.player) /\ Living(reader.picture)

ShelfInv ==
    /\ ShelfType /\ Holds(desk) /\ Placed /\ Truths /\ Learnt /\ Lighting
    /\ Clean(slips) => Informed /\ Fetching /\ Switching /\ Lives

LEMMA ShelfHolds == ShelfInv => ShelfAgrees
<1> SUFFICES ASSUME ShelfInv, ShelfQuiet,
                    slips = [slips EXCEPT !.early = FALSE, !.outrun = FALSE,
                                          !.lost = FALSE, !.failed = FALSE]
             PROVE  /\ reader.mounted = [recording |-> desk.active,
                                         version |-> desk.content[desk.active]]
                    /\ {reader.player, reader.picture} \subseteq {Nothing, desk.take}
  BY DEF ShelfAgrees
<1>1. Clean(slips)
  BY DEF ShelfInv, ShelfType, SlipTypes, Clean
<1>2. /\ reader.stage = "mounted" /\ reader.queue = <<>> /\ mail.events = <<>> /\ mail.up = <<>>
      /\ desk.ended = Nothing /\ \A k \in Edits : desk.works[k].at = "none"
  BY DEF ShelfQuiet, NoWork
<1>3. /\ ~Loading(reader) /\ Waits(reader) = <<>> /\ ~InFlight(reader)
      /\ ~AnyPlain(Waits(reader)) /\ ~AnySwitch(Waits(reader))
      /\ \A t : ~AnyOf(Waits(reader), t)
  BY <1>2 DEF ShelfInv, Placed, Loading, Waits, InFlight, AnyPlain, AnySwitch, AnyOf
<1>4. ~slips.dropped /\ ~desk.wrote
  BY <1>1, <1>2, <1>3 DEF ShelfInv, Switching, Holds
<1>5. reader.known = desk.active
  <2>1. ~Coming
    BY <1>2, <1>4 DEF Coming, TellsList
  <2> QED
    BY <1>1, <1>2, <2>1 DEF ShelfInv, Informed, Learnt, Knows
<1>6. reader.mounted.recording = desk.active
  BY <1>1, <1>2, <1>3, <1>5 DEF ShelfInv, Switching, Here
<1>7. reader.mounted.version = desk.content[desk.active]
  <2>1. \A r : ~Told(r)
    BY <1>2, <1>4 DEF Told, Tells
  <2> QED
    BY <1>1, <1>2, <1>3, <1>4, <1>6, <2>1 DEF ShelfInv, Fetching, Current, Here
<1>8. \A t : Living(t) => t = Nothing \/ t = desk.take
  BY <1>2, <1>3, <1>4 DEF Living, Sung, Ending, Ends, Starts, Here
<1> QED
  BY <1>1, <1>6, <1>7, <1>8 DEF ShelfInv, Lives, ShelfType, Readers

LEMMA ShelfStarts == ShelfInit => ShelfInv
<1> SUFFICES ASSUME ShelfInit PROVE ShelfInv
  OBVIOUS
<1>1. ShelfType
  BY ShelfAssumption DEF ShelfInit, ShelfType, Desks, Readers, Mails, SlipTypes, Works, Recordings, Away, NoWork, NoList,
     Unmounted, NoLoad, NoSlips, Nothing, PieceLoads
<1>2. Holds(desk)
  BY ShelfAssumption DEF ShelfInit, Holds, Edits, Nothing, NoWork
<1>3. /\ reader = Away /\ mail.events = <<>> /\ mail.up = <<>> /\ slips = NoSlips
      /\ desk.number = 0 /\ \A k \in Edits : desk.works[k].at = "none"
  BY DEF ShelfInit, NoWork
<1>4. /\ reader.stage = "away" /\ reader.mounted = Unmounted /\ ~reader.joined
      /\ reader.player = Nothing /\ reader.picture = Nothing /\ ~slips.dropped
      /\ reader.load.at = "none" /\ reader.queue = <<>> /\ reader.onMount.take = Nothing
      /\ reader.heard = 0
  BY <1>3 DEF Away, NoLoad, NoSlips
<1>5. Placed
  BY <1>3, <1>4 DEF Placed, Here, Knows, Loading
<1>6. Truths /\ Learnt /\ Lighting
  BY <1>3, <1>4 DEF Truths, Learnt, Lighting, Knows
<1>7. Informed /\ Fetching /\ Switching /\ Lives
  BY <1>3, <1>4 DEF Informed, Fetching, Switching, Lives, Living, Knows, Here, InFlight
<1> QED
  BY <1>1, <1>2, <1>5, <1>6, <1>7 DEF ShelfInv

-----------------------------------------------------------------------------
(* Queues.                                                                 *)

\* An event at the end.
LEMMA EventSent ==
  ASSUME NEW q \in Seq(ShelfEvents), NEW e \in ShelfEvents, NEW r, r = Append(q, e)
  PROVE  /\ r \in Seq(ShelfEvents)
         /\ \A a : Tells(q, a) => Tells(r, a)
         /\ \A n : TellsList(q, n) => TellsList(r, n)
         /\ \A t, i : Ends(q, t, i) => Ends(r, t, i)
         /\ e.kind = "changed" => Tells(r, e.recording)
         /\ e.kind = "list" => TellsList(r, e.number)
         /\ e.kind = "finished" => Ends(r, e.take, 0) /\ \A i \in DOMAIN q : Ends(r, e.take, i)
         /\ \A i \in DOMAIN r : (i \in DOMAIN q /\ r[i] = q[i]) \/ r[i] = e
<1> DEFINE n == Len(q) + 1
<1>1. /\ r \in Seq(ShelfEvents) /\ n \in DOMAIN r /\ r[n] = e /\ n > 0
      /\ \A i \in DOMAIN q : i \in DOMAIN r /\ r[i] = q[i] /\ n > i
      /\ \A i \in DOMAIN r : i \in DOMAIN q \/ i = n
  BY Appended
<1> HIDE DEF n
<1> QED
  BY <1>1 DEF Tells, TellsList, Ends

\* The first event is heard.
LEMMA EventHeard ==
  ASSUME NEW q \in Seq(ShelfEvents), q # <<>>, NEW r, r = Tail(q)
  PROVE  LET h == Head(q) IN
         /\ r \in Seq(ShelfEvents) /\ h \in ShelfEvents /\ h = q[1] /\ 1 \in DOMAIN q
         /\ \A a : Tells(q, a) => Tells(r, a) \/ (h.kind = "changed" /\ h.recording = a)
         /\ \A n : TellsList(q, n) => TellsList(r, n) \/ (h.kind = "list" /\ h.number = n)
         /\ \A t : Ends(q, t, 0) => Ends(r, t, 0) \/ (h.kind = "finished" /\ h.take = t)
         /\ \A t : Ends(q, t, 1) => Ends(r, t, 0)
         /\ \A i \in DOMAIN r : i + 1 \in DOMAIN q /\ r[i] = q[i + 1]
                                /\ \A t : Ends(q, t, i + 1) => Ends(r, t, i)
<1> DEFINE h == Head(q)
           low(i) == i - 1
<1>1. /\ r \in Seq(ShelfEvents) /\ h \in ShelfEvents /\ h = q[1] /\ 1 \in DOMAIN q
      /\ \A i \in DOMAIN r : i \in Nat /\ i >= 1 /\ i + 1 \in DOMAIN q /\ r[i] = q[i + 1]
      /\ \A j \in DOMAIN q : j = 1 \/ (j \in Nat /\ j > 1 /\ low(j) \in DOMAIN r /\ q[j] = r[low(j)])
  BY Tailed
<1>2. ASSUME NEW t, NEW i \in Nat, Ends(q, t, i + 1) PROVE Ends(r, t, i)
  <2>1. PICK j \in DOMAIN q : j > i + 1 /\ q[j].kind = "finished" /\ q[j].take = t
    BY <1>2 DEF Ends
  <2>2. low(j) \in DOMAIN r /\ low(j) > i /\ r[low(j)] = q[j]
    BY <1>1, <2>1
  <2> QED
    BY <2>1, <2>2 DEF Ends
<1>3. \A t : Ends(q, t, 1) => Ends(r, t, 0)
  BY <1>2
<1>4. ASSUME NEW t, Ends(q, t, 0) PROVE Ends(r, t, 0) \/ (h.kind = "finished" /\ h.take = t)
  <2>1. PICK j \in DOMAIN q : j > 0 /\ q[j].kind = "finished" /\ q[j].take = t
    BY <1>4 DEF Ends
  <2>2. CASE j = 1
    BY <1>1, <2>1, <2>2
  <2>3. CASE j # 1
    <3>1. Ends(q, t, 1)
      BY <1>1, <2>1, <2>3 DEF Ends
    <3> QED
      BY <1>3, <3>1
  <2> QED
    BY <2>2, <2>3
<1>5. \A i \in DOMAIN r : \A t : Ends(q, t, i + 1) => Ends(r, t, i)
  BY <1>1, <1>2
<1> HIDE DEF low, h
<1>6. \A a : Tells(q, a) => Tells(r, a) \/ (h.kind = "changed" /\ h.recording = a)
  BY <1>1 DEF Tells
<1>7. \A n : TellsList(q, n) => TellsList(r, n) \/ (h.kind = "list" /\ h.number = n)
  BY <1>1 DEF TellsList
<1> QED
  BY <1>1, <1>3, <1>4, <1>5, <1>6, <1>7 DEF h

\* A load is asked for, and taken up.
LEMMA LoadQueued ==
  ASSUME NEW w \in Seq(Reloads), NEW e \in Reloads, NEW v, v = Append(w, e)
  PROVE  /\ v \in Seq(Reloads) /\ v # <<>>
         /\ AnyPlain(w) \/ ~e.switched => AnyPlain(v)
         /\ AnySwitch(w) \/ e.switched => AnySwitch(v)
         /\ \A t : AnyOf(w, t) \/ e.take = t => AnyOf(v, t)
         /\ \A i \in DOMAIN v : (i \in DOMAIN w /\ v[i] = w[i]) \/ v[i] = e
<1> DEFINE n == Len(w) + 1
<1>1. /\ v \in Seq(Reloads) /\ n \in DOMAIN v /\ v[n] = e
      /\ \A i \in DOMAIN w : i \in DOMAIN v /\ v[i] = w[i]
      /\ \A i \in DOMAIN v : i \in DOMAIN w \/ i = n
  BY Appended
<1> HIDE DEF n
<1>2. v # <<>>
  BY <1>1
<1>3. e.switched \in BOOLEAN
  BY DEF Reloads
<1>4. AnyPlain(w) \/ ~e.switched => AnyPlain(v)
  BY <1>1 DEF AnyPlain
<1>5. AnySwitch(w) \/ e.switched => AnySwitch(v)
  BY <1>1 DEF AnySwitch
<1>6. \A t : AnyOf(w, t) \/ e.take = t => AnyOf(v, t)
  BY <1>1 DEF AnyOf
<1> QED
  BY <1>1, <1>2, <1>4, <1>5, <1>6

LEMMA LoadTaken ==
  ASSUME NEW w \in Seq(Reloads), w # <<>>, NEW v, v = Tail(w)
  PROVE  LET h == Head(w) IN
         /\ v \in Seq(Reloads) /\ h \in Reloads /\ h = w[1] /\ 1 \in DOMAIN w
         /\ AnyPlain(w) => AnyPlain(v) \/ ~h.switched
         /\ AnySwitch(w) => AnySwitch(v) \/ h.switched
         /\ \A t : AnyOf(w, t) => AnyOf(v, t) \/ h.take = t
         /\ \A i \in DOMAIN v : i + 1 \in DOMAIN w /\ v[i] = w[i + 1]
<1> DEFINE h == Head(w)
           low(i) == i - 1
<1>1. /\ v \in Seq(Reloads) /\ h \in Reloads /\ h = w[1] /\ 1 \in DOMAIN w
      /\ \A i \in DOMAIN v : i + 1 \in DOMAIN w /\ v[i] = w[i + 1]
      /\ \A j \in DOMAIN w : j = 1 \/ (low(j) \in DOMAIN v /\ w[j] = v[low(j)])
  BY Tailed
<1> HIDE DEF low, h
<1>2. AnyPlain(w) => AnyPlain(v) \/ ~h.switched
  BY <1>1 DEF AnyPlain
<1>3. AnySwitch(w) => AnySwitch(v) \/ h.switched
  BY <1>1 DEF AnySwitch
<1>4. \A t : AnyOf(w, t) => AnyOf(v, t) \/ h.take = t
  BY <1>1 DEF AnyOf
<1> QED
  BY <1>1, <1>2, <1>3, <1>4 DEF h

\* What waits behind a load that is under way.
LEMMA WaitsQueued ==
  ASSUME NEW r \in Readers, NEW s, NEW e \in Reloads, Loading(r) => r.queue # <<>>,
         s.queue = Append(r.queue, e), s.load = r.load
  PROVE  Waits(s) = Append(Waits(r), e) /\ Waits(r) \in Seq(Reloads)
         /\ (Loading(r) => Head(s.queue) = Head(r.queue))
<1>1. r.queue \in Seq(Reloads)
  BY DEF Readers
<1>2. CASE ~Loading(r)
  BY <1>1, <1>2 DEF Waits, Loading
<1>3. CASE Loading(r)
  <2>1. r.queue # <<>> /\ Len(r.queue) >= 1
    BY <1>1, <1>3, EmptySeq
  <2>2. Tail(Append(r.queue, e)) = Append(Tail(r.queue), e)
    BY <1>1, <2>1
  <2>3. Head(Append(r.queue, e)) = Head(r.queue)
    BY <1>1, <2>1
  <2> QED
    BY <1>1, <1>3, <2>1, <2>2, <2>3 DEF Waits, Loading
<1> QED
  BY <1>2, <1>3

-----------------------------------------------------------------------------
(* The server.                                                             *)

\* A step of the server, which the page does not see at once: what it was going
\* to tell it still tells, and what it changes it tells.
LEMMA ServerKeeps ==
  ASSUME ShelfInv, reader' = reader, desk' \in Desks, mail' \in Mails, slips' \in SlipTypes,
         slips'.dropped = slips.dropped, Clean(slips') => Clean(slips),
         Holds(desk'), Truths', Lighting',
         desk'.number >= desk.number,
         desk'.number = desk.number => desk'.active = desk.active,
         ~reader.joined => mail'.events = <<>>,
         Clean(slips') /\ reader.stage \notin {"away", "listing"} =>
           /\ Coming \/ desk'.number # desk.number => Coming'
           /\ \A r \in Recordings : Told(r) \/ desk'.content[r] # desk.content[r] => Told(r)',
         Clean(slips') => \A t : t # Nothing /\ Sung(t) => Sung(t)'
  PROVE  ShelfInv'
<1>1. ShelfType'
  BY DEF ShelfInv, ShelfType
<1>2. Holds(desk)' /\ Placed'
  BY DEF ShelfInv, Placed
<1>3. Learnt'
  <2>1. /\ desk.number \in Nat /\ desk'.number \in Nat
        /\ reader.heard \in Nat /\ reader.answer.number \in Nat
    BY DEF ShelfInv, ShelfType, Desks, Readers
  <2>2. Learnt
    BY DEF ShelfInv
  <2> QED
    BY <2>1, <2>2 DEF Learnt, True
<1> SUFFICES ASSUME Clean(slips') PROVE Informed' /\ Fetching' /\ Switching' /\ Lives'
  BY <1>1, <1>2, <1>3 DEF ShelfInv
<1>4. Informed /\ Fetching /\ Switching /\ Lives
  BY DEF ShelfInv
<1>5. Informed'
  <2>1. Knows(reader) \/ reader.stage = "listed" => reader.stage \notin {"away", "listing"}
    BY DEF Knows
  <2> QED
    BY <1>4, <2>1 DEF Informed
<1>6. Fetching'
  <2>1. ASSUME NEW r \in Recordings, NEW v, Current(r, v), reader.stage \notin {"away", "listing"}
        PROVE  Current(r, v)'
    BY <2>1 DEF Current
  <2>2. reader.stage = "asked" => reader.wanted \in Recordings
    BY DEF ShelfInv, Placed
  <2>3. InFlight(reader) => reader.load.recording \in Recordings /\ Here(reader)
    BY DEF ShelfInv, Placed, InFlight
  <2>4. Here(reader) => reader.mounted.recording \in Recordings /\ reader.stage \notin {"away", "listing"}
    BY DEF ShelfInv, Placed, Here
  <2>5. reader.stage = "asked" => Current(reader.wanted, reader.fetched)' \/ reader.onMount.is
    BY <1>4, <2>1, <2>2 DEF Fetching
  <2>6. InFlight(reader) /\ reader.load.at = "read" =>
          Current(reader.load.recording, reader.load.version)'
    BY <1>4, <2>1, <2>3, <2>4 DEF Fetching
  <2>7. Here(reader) =>
          \/ Current(reader.mounted.recording, reader.mounted.version)'
          \/ InFlight(reader) \/ slips.dropped
    BY <1>4, <2>1, <2>4 DEF Fetching
  <2> QED
    BY <2>5, <2>6, <2>7 DEF Fetching
<1>7. Switching'
  BY <1>4 DEF Switching
<1>8. Lives'
  BY <1>4 DEF Lives, Living
<1> QED
  BY <1>5, <1>6, <1>7, <1>8

\* A recording is switched to or its pieces are changed: there is work to tell of it.
LEMMA NumberedFacts ==
  ASSUME NEW d \in Desks, NEW at \in {"changed", "list"}, d.number + 1 \in Edits
  PROVE  LET m == Numbered(d, at) IN
         /\ m \in Desks /\ m.number = d.number + 1
         /\ m.active = d.active /\ m.content = d.content /\ m.holder = d.holder
         /\ m.take = d.take /\ m.ended = d.ended /\ m.wrote = d.wrote /\ m.said = d.said
         /\ m.works[d.number + 1] = [at |-> at, active |-> d.active, number |-> 0]
         /\ \A k \in Edits : k # d.number + 1 => m.works[k] = d.works[k]
<1> DEFINE n == d.number + 1
           job == [at |-> at, active |-> d.active, number |-> 0]
<1>1. /\ n \in Edits /\ n \in Nat /\ job \in Works
  BY DEF Desks, Works, Recordings
<1>2. Numbered(d, at) = [d EXCEPT !.number = n, !.works = [d.works EXCEPT ![n] = job]]
  BY DEF Numbered, Desks
<1>3. d.works \in [Edits -> Works]
  BY DEF Desks
<1> HIDE DEF job, n
<1> DEFINE w == [d.works EXCEPT ![n] = job]
<1>4. /\ w \in [Edits -> Works] /\ w[n] = job
      /\ \A k \in Edits : k # n => w[k] = d.works[k]
  BY <1>1, <1>3
<1> HIDE DEF w
<1>5. Numbered(d, at) = [d EXCEPT !.number = n, !.works = w]
  BY <1>2 DEF w
<1> QED
  BY <1>1, <1>4, <1>5 DEF Desks, n, job

LEMMA ChangeKeeps ==
  ASSUME ShelfInv, UNCHANGED <<reader, mail, slips>>, MayChange, desk.holder = "nobody",
         NEW d \in Desks, NEW at \in {"changed", "list"}, desk' = Numbered(d, at),
         d.number = desk.number, d.holder = desk.holder, d.take = desk.take,
         d.ended = desk.ended, d.wrote = desk.wrote, d.said = desk.said, d.works = desk.works,
         \A r \in Recordings : d.content[r] # desk.content[r] => at = "changed" /\ d.active = r
  PROVE  ShelfInv'
<1> DEFINE n == desk.number + 1
<1>1. /\ n \in Edits /\ desk.number \in Nat /\ n \in Nat /\ n <= EditCount
  BY ShelfAssumption DEF MayChange, ShelfInv, ShelfType, Desks, Edits
<1>2. /\ desk' \in Desks /\ desk'.number = n
      /\ desk'.active = d.active /\ desk'.content = d.content /\ desk'.holder = desk.holder
      /\ desk'.take = desk.take /\ desk'.ended = desk.ended /\ desk'.wrote = desk.wrote
      /\ desk'.said = desk.said
      /\ desk'.works[n] = [at |-> at, active |-> d.active, number |-> 0]
      /\ \A k \in Edits : k # n => desk'.works[k] = desk.works[k]
  <2>1. d.number + 1 \in Edits
    BY <1>1
  <2>2. /\ desk' \in Desks /\ desk'.number = d.number + 1
        /\ desk'.active = d.active /\ desk'.content = d.content /\ desk'.holder = d.holder
        /\ desk'.take = d.take /\ desk'.ended = d.ended /\ desk'.wrote = d.wrote
        /\ desk'.said = d.said
        /\ desk'.works[d.number + 1] = [at |-> at, active |-> d.active, number |-> 0]
        /\ \A k \in Edits : k # d.number + 1 => desk'.works[k] = d.works[k]
    BY <2>1, NumberedFacts
  <2> QED
    BY <2>2
<1>3. /\ Holds(desk) /\ desk.take = Nothing /\ desk.ended = Nothing /\ ~desk.wrote
      /\ desk.works[n] = NoWork
  BY <1>1 DEF ShelfInv, Holds, Edits
<1>4. Holds(desk')
  BY <1>1, <1>2, <1>3 DEF Holds, Edits
<1>5. \A list : list.number \in Nat /\ True(desk, list) => True(desk', list)
  BY <1>1, <1>2 DEF True
<1>6. Truths'
  <2>1. \A k \in Edits : desk.works[k].number \in Nat
    BY DEF ShelfInv, ShelfType, Desks, Works
  <2>2. \A i \in DOMAIN mail.events : mail.events[i].kind = "list" => mail.events[i].number \in Nat
    <3>1. \A i \in DOMAIN mail.events : mail.events[i] \in ShelfEvents
      BY DEF ShelfInv, ShelfType, Mails
    <3> QED
      BY <3>1 DEF ShelfEvents
  <2> QED
    BY <1>2, <1>5, <2>1, <2>2 DEF ShelfInv, Truths
<1>7. Lighting'
  BY <1>2 DEF ShelfInv, Lighting, Ending
<1>8. Coming'
  BY <1>1, <1>2 DEF Coming
<1>9. \A r \in Recordings : Told(r) \/ desk'.content[r] # desk.content[r] => Told(r)'
  BY <1>1, <1>2, <1>3 DEF Told, NoWork
<1>10. \A t : Sung(t) => Sung(t)'
  BY <1>2 DEF Sung, Ending
<1>11. /\ mail' \in Mails /\ slips' \in SlipTypes /\ desk'.number >= desk.number
       /\ desk'.number # desk.number
       /\ ~reader.joined => mail'.events = <<>>
  BY <1>1, <1>2 DEF ShelfInv, ShelfType, Placed
<1> QED
  BY <1>2, <1>4, <1>6, <1>7, <1>8, <1>9, <1>10, <1>11, ServerKeeps

LEMMA SwitchRecordingKeeps ==
  ASSUME ShelfInv, SwitchRecording
  PROVE  ShelfInv'
<1>1. PICK r \in Recordings : desk' = Numbered([desk EXCEPT !.active = r], "list")
  BY DEF SwitchRecording
<1> DEFINE d == [desk EXCEPT !.active = r]
<1>2. /\ d \in Desks /\ d.content = desk.content /\ d.number = desk.number /\ d.holder = desk.holder
      /\ d.take = desk.take /\ d.ended = desk.ended /\ d.wrote = desk.wrote
      /\ d.said = desk.said /\ d.works = desk.works
  BY DEF ShelfInv, ShelfType, Desks
<1> HIDE DEF d
<1> QED
  BY <1>1, <1>2, ChangeKeeps DEF SwitchRecording, d

LEMMA ChangePiecesKeeps ==
  ASSUME ShelfInv, ChangePieces
  PROVE  ShelfInv'
<1> DEFINE a == desk.active
           c == [desk.content EXCEPT ![a] = desk.content[a] + 1]
           d == [desk EXCEPT !.content = c]
<1>1. desk \in Desks /\ a \in Recordings /\ desk.content \in [Recordings -> Nat]
  BY DEF ShelfInv, ShelfType, Desks
<1>2. desk' = Numbered(d, "changed")
  BY <1>1 DEF ChangePieces, Desks
<1>3. c \in [Recordings -> Nat] /\ \A r \in Recordings : r # a => c[r] = desk.content[r]
  BY <1>1
<1> HIDE DEF c
<1>4. /\ d \in Desks /\ d.content = c /\ d.active = a /\ d.number = desk.number /\ d.holder = desk.holder
      /\ d.take = desk.take /\ d.ended = desk.ended /\ d.wrote = desk.wrote
      /\ d.said = desk.said /\ d.works = desk.works
  BY <1>1, <1>3 DEF Desks
<1> HIDE DEF d
<1> QED
  BY <1>2, <1>3, <1>4, ChangeKeeps DEF ChangePieces

LEMMA ReadShelfKeeps ==
  ASSUME ShelfInv, NEW k \in Edits, ReadShelf(k)
  PROVE  ShelfInv'
<1> DEFINE job == [at |-> "say", active |-> desk.active, number |-> desk.number]
           w == [desk.works EXCEPT ![k] = job]
<1>1. /\ desk \in Desks /\ desk.works \in [Edits -> Works] /\ job \in Works
      /\ desk.works[k].at = "list" /\ desk.active \in Recordings /\ desk.number \in Nat
  BY DEF ShelfInv, ShelfType, Desks, Works, Recordings, ReadShelf
<1>2. desk' = [desk EXCEPT !.works = w]
  BY <1>1 DEF ReadShelf, Desks
<1>3. job.at = "say" /\ job.active = desk.active /\ job.number = desk.number
  OBVIOUS
<1> HIDE DEF job
<1>4. w \in [Edits -> Works] /\ w[k] = job /\ \A j \in Edits : j # k => w[j] = desk.works[j]
  BY <1>1
<1> HIDE DEF w
<1>5. /\ desk' \in Desks /\ desk'.works = w /\ desk'.number = desk.number
      /\ desk'.active = desk.active /\ desk'.content = desk.content /\ desk'.holder = desk.holder
      /\ desk'.take = desk.take /\ desk'.ended = desk.ended /\ desk'.wrote = desk.wrote
      /\ desk'.said = desk.said
      /\ UNCHANGED <<reader, mail, slips>>
  BY <1>1, <1>2, <1>4 DEF Desks, ReadShelf
<1>6. Holds(desk')
  BY <1>1, <1>4, <1>5 DEF ShelfInv, Holds, NoWork
<1>7. Truths'
  BY <1>1, <1>3, <1>4, <1>5 DEF ShelfInv, Truths, True
<1>8. Lighting'
  BY <1>5 DEF ShelfInv, Lighting, Ending
<1>9. Coming => Coming'
  BY <1>3, <1>4, <1>5 DEF Coming
<1>10. \A r : Told(r) => Told(r)'
  BY <1>1, <1>4, <1>5 DEF Told
<1>11. \A t : Sung(t) => Sung(t)'
  BY <1>5 DEF Sung, Ending
<1>12. /\ mail' \in Mails /\ slips' \in SlipTypes /\ desk'.number >= desk.number
       /\ ~reader.joined => mail'.events = <<>>
  BY <1>1, <1>5 DEF ShelfInv, ShelfType, Placed
<1> QED
  BY <1>5, <1>6, <1>7, <1>8, <1>9, <1>10, <1>11, <1>12, ServerKeeps

LEMMA TakeEndsKeeps ==
  ASSUME ShelfInv, NEW wrote \in BOOLEAN, TakeEnds(wrote)
  PROVE  ShelfInv'
<1> DEFINE a == desk.active
           c == [desk.content EXCEPT ![a] = IF wrote THEN desk.content[a] + 1 ELSE desk.content[a]]
           n == IF wrote THEN desk.number + 1 ELSE desk.number
<1>1. /\ desk \in Desks /\ a \in Recordings /\ desk.content \in [Recordings -> Nat]
      /\ desk.number \in Nat /\ n \in Nat
      /\ desk.take # Nothing /\ desk.ended = Nothing /\ ~desk.said /\ ~desk.wrote
      /\ UNCHANGED <<reader, mail, slips>>
  BY DEF ShelfInv, ShelfType, Desks, Holds, TakeEnds
<1>2. desk' = [desk EXCEPT !.ended = desk.take, !.take = Nothing, !.wrote = wrote,
                           !.content = c, !.number = n]
  BY <1>1 DEF TakeEnds, Desks
<1>3. /\ c \in [Recordings -> Nat] /\ \A r \in Recordings : r # a => c[r] = desk.content[r]
      /\ ~wrote => c[a] = desk.content[a]
  BY <1>1
<1>4. /\ n >= desk.number /\ (~wrote => n = desk.number) /\ (wrote => n = desk.number + 1)
      /\ wrote => n <= EditCount
  BY <1>1, ShelfAssumption DEF TakeEnds, MayChange, ShelfInv, ShelfType, Desks
<1> HIDE DEF c, n
<1>5. /\ desk' \in Desks /\ desk'.works = desk.works /\ desk'.number = n
      /\ desk'.active = a /\ desk'.content = c /\ desk'.holder = desk.holder
      /\ desk'.take = Nothing /\ desk'.ended = desk.take /\ desk'.wrote = wrote
      /\ desk'.said = desk.said
  BY <1>1, <1>2, <1>3 DEF Desks, Nothing
<1>6. Holds(desk')
  BY <1>1, <1>4, <1>5 DEF ShelfInv, Holds, Edits, Nothing
<1>7. \A list : list.number \in Nat /\ True(desk, list) => True(desk', list)
  BY <1>1, <1>4, <1>5 DEF True
<1>8. Truths'
  <2>1. \A k \in Edits : desk.works[k].number \in Nat
    BY DEF ShelfInv, ShelfType, Desks, Works
  <2>2. \A i \in DOMAIN mail.events : mail.events[i].kind = "list" => mail.events[i].number \in Nat
    <3>1. \A i \in DOMAIN mail.events : mail.events[i] \in ShelfEvents
      BY DEF ShelfInv, ShelfType, Mails
    <3> QED
      BY <3>1 DEF ShelfEvents
  <2> QED
    BY <1>1, <1>5, <1>7, <2>1, <2>2 DEF ShelfInv, Truths
<1>9. Lighting'
  <2>1. \A i \in DOMAIN mail.events : mail.events[i].kind = "started" => mail.events[i].take # Nothing
    <3>1. \A i \in DOMAIN mail.events : mail.events[i] \in ShelfEvents
      BY DEF ShelfInv, ShelfType, Mails
    <3> QED
      BY <3>1 DEF ShelfEvents
  <2> QED
    BY <1>1, <1>5, <2>1 DEF ShelfInv, Lighting, Ending
<1>10. Coming \/ desk'.number # desk.number => Coming'
  BY <1>1, <1>4, <1>5 DEF Coming
<1>11. \A r \in Recordings : Told(r) \/ desk'.content[r] # desk.content[r] => Told(r)'
  BY <1>1, <1>3, <1>5 DEF Told
<1>12. \A t : t # Nothing /\ Sung(t) => Sung(t)'
  BY <1>1, <1>5 DEF Sung, Ending
<1>13. /\ mail' \in Mails /\ slips' \in SlipTypes /\ desk'.number >= desk.number
       /\ ~reader.joined => mail'.events = <<>>
  BY <1>1, <1>4, <1>5 DEF ShelfInv, ShelfType, Placed
<1> QED
  BY <1>1, <1>5, <1>6, <1>8, <1>9, <1>10, <1>11, <1>12, <1>13, ServerKeeps

\* What an event adds to those on their way, if the page is in the room.
Posting(e) ==
    /\ mail'.events \in Seq(ShelfEvents)
    /\ \A a : Tells(mail.events, a) => Tells(mail'.events, a)
    /\ \A n : TellsList(mail.events, n) => TellsList(mail'.events, n)
    /\ \A t, i : Ends(mail.events, t, i) => Ends(mail'.events, t, i)
    /\ reader.joined /\ e.kind = "changed" => Tells(mail'.events, e.recording)
    /\ reader.joined /\ e.kind = "list" => TellsList(mail'.events, e.number)
    /\ reader.joined /\ e.kind = "finished" =>
         Ends(mail'.events, e.take, 0) /\ \A i \in DOMAIN mail.events : Ends(mail'.events, e.take, i)
    /\ \A i \in DOMAIN mail'.events :
         \/ i \in DOMAIN mail.events /\ mail'.events[i] = mail.events[i] /\ reader.joined
         \/ mail'.events[i] = e
    /\ ~reader.joined => mail'.events = <<>>

LEMMA PostFacts ==
  ASSUME ShelfInv, NEW e \in ShelfEvents,
         mail'.events = IF reader.joined THEN Append(mail.events, e) ELSE mail.events
  PROVE  Posting(e)
<1>1. mail.events \in Seq(ShelfEvents) /\ (~reader.joined => mail.events = <<>>)
  BY DEF ShelfInv, ShelfType, Mails, Placed
<1>2. CASE reader.joined
  <2>1. \A q \in Seq(ShelfEvents) : \A r : r = Append(q, e) =>
          /\ r \in Seq(ShelfEvents)
          /\ \A a : Tells(q, a) => Tells(r, a)
          /\ \A n : TellsList(q, n) => TellsList(r, n)
          /\ \A t, i : Ends(q, t, i) => Ends(r, t, i)
          /\ e.kind = "changed" => Tells(r, e.recording)
          /\ e.kind = "list" => TellsList(r, e.number)
          /\ e.kind = "finished" => Ends(r, e.take, 0) /\ \A i \in DOMAIN q : Ends(r, e.take, i)
          /\ \A i \in DOMAIN r : (i \in DOMAIN q /\ r[i] = q[i]) \/ r[i] = e
    BY EventSent
  <2>2. mail'.events = Append(mail.events, e)
    BY <1>2
  <2>3. /\ mail'.events \in Seq(ShelfEvents)
        /\ \A a : Tells(mail.events, a) => Tells(mail'.events, a)
        /\ \A n : TellsList(mail.events, n) => TellsList(mail'.events, n)
        /\ \A t, i : Ends(mail.events, t, i) => Ends(mail'.events, t, i)
        /\ e.kind = "changed" => Tells(mail'.events, e.recording)
        /\ e.kind = "list" => TellsList(mail'.events, e.number)
        /\ e.kind = "finished" => Ends(mail'.events, e.take, 0)
             /\ \A i \in DOMAIN mail.events : Ends(mail'.events, e.take, i)
        /\ \A i \in DOMAIN mail'.events :
             (i \in DOMAIN mail.events /\ mail'.events[i] = mail.events[i]) \/ mail'.events[i] = e
    BY <1>1, <2>1, <2>2
  <2> QED
    BY <1>2, <2>3 DEF Posting
<1>3. CASE ~reader.joined
  BY <1>1, <1>3 DEF Posting
<1> QED
  BY <1>2, <1>3

LEMMA AnnouncedFacts ==
  ASSUME ShelfInv, NEW e \in ShelfEvents, Announced(e)
  PROVE  /\ mail' \in Mails /\ mail'.up = mail.up /\ Posting(e)
         /\ slips' \in SlipTypes /\ slips'.dropped = slips.dropped
         /\ Clean(slips') => Clean(slips)
         /\ Clean(slips') /\ e.kind \in {"list", "changed"}
              /\ reader.stage \notin {"away", "listing"} => reader.joined
<1>1. mail \in Mails /\ slips \in SlipTypes
  BY DEF ShelfInv, ShelfType
<1>2. mail' = [mail EXCEPT !.events = IF reader.joined THEN Append(mail.events, e) ELSE mail.events]
  BY <1>1 DEF Announced, Mails
<1>3. mail'.events = (IF reader.joined THEN Append(mail.events, e) ELSE mail.events)
      /\ mail'.up = mail.up
  BY <1>1, <1>2 DEF Mails
<1>4. Posting(e)
  BY <1>3, PostFacts
<1>5. mail' \in Mails
  BY <1>1, <1>2, <1>3, <1>4 DEF Posting, Mails
<1>6. /\ slips' \in SlipTypes /\ slips'.dropped = slips.dropped /\ slips'.outrun = slips.outrun
      /\ slips'.lost = slips.lost /\ slips'.failed = slips.failed
      /\ slips'.early = (slips.early \/ (~reader.joined /\ reader.stage \notin {"away", "listing"}
                              /\ e.kind \in {"list", "changed"}))
  BY <1>1 DEF Announced, SlipTypes
<1> QED
  BY <1>3, <1>4, <1>5, <1>6 DEF Clean

\* What was on its way before and a take that still is on.
LEMMA PostTruths ==
  ASSUME ShelfInv, NEW e \in ShelfEvents, Posting(e),
         desk'.number = desk.number, desk'.active = desk.active,
         e.kind = "list" => True(desk, e),
         \A k \in Edits : desk'.works[k] = desk.works[k] \/ desk'.works[k].at # "say"
  PROVE  Truths'
<1>1. \A list : True(desk', list) <=> True(desk, list)
  BY DEF True
<1> QED
  BY <1>1 DEF ShelfInv, Truths, Posting

LEMMA PostLighting ==
  ASSUME ShelfInv, NEW e \in ShelfEvents, Posting(e),
         e.kind = "started" => e.take = desk'.take,
         \A t : \A i \in DOMAIN mail.events :
           t # Nothing /\ reader.joined /\ Ending(mail.events, t, i) => Ending(mail.events, t, i)'
  PROVE  Lighting'
<1>1. \A i \in DOMAIN mail.events : mail.events[i].kind = "started" =>
        mail.events[i].take # Nothing /\ Ending(mail.events, mail.events[i].take, i)
  <2>1. \A i \in DOMAIN mail.events : mail.events[i] \in ShelfEvents
    BY DEF ShelfInv, ShelfType, Mails
  <2> QED
    BY <2>1 DEF ShelfInv, Lighting, ShelfEvents
<1> SUFFICES ASSUME NEW i \in DOMAIN mail'.events, mail'.events[i].kind = "started"
             PROVE  Ending(mail.events, mail.events[i].take, i)'
  BY DEF Lighting
<1>2. CASE mail'.events[i] = e
  BY <1>2 DEF Ending
<1>3. CASE i \in DOMAIN mail.events /\ mail'.events[i] = mail.events[i] /\ reader.joined
  BY <1>1, <1>3
<1> QED
  BY <1>2, <1>3 DEF Posting

LEMMA TellChangedKeeps ==
  ASSUME ShelfInv, NEW k \in Edits, TellChanged(k)
  PROVE  ShelfInv'
<1> DEFINE e == [kind |-> "changed", recording |-> desk.works[k].active]
           job == [desk.works[k] EXCEPT !.at = "list"]
           w == [desk.works EXCEPT ![k] = job]
<1>1. /\ desk \in Desks /\ desk.works \in [Edits -> Works] /\ desk.works[k] \in Works
      /\ desk.works[k].at = "changed" /\ reader' = reader
  BY DEF ShelfInv, ShelfType, Desks, TellChanged
<1>2. job \in Works /\ job.at = "list"
  BY <1>1 DEF Works
<1>3. e \in ShelfEvents /\ e.kind = "changed" /\ e.recording = desk.works[k].active
  BY <1>1 DEF ShelfEvents, Works
<1>4. desk' = [desk EXCEPT !.works = w] /\ Announced(e)
  BY <1>1 DEF TellChanged, Desks
<1> HIDE DEF e, job
<1>5. w \in [Edits -> Works] /\ w[k] = job /\ \A j \in Edits : j # k => w[j] = desk.works[j]
  BY <1>1, <1>2
<1> HIDE DEF w
<1>6. /\ desk' \in Desks /\ desk'.works = w /\ desk'.number = desk.number
      /\ desk'.active = desk.active /\ desk'.content = desk.content /\ desk'.holder = desk.holder
      /\ desk'.take = desk.take /\ desk'.ended = desk.ended /\ desk'.wrote = desk.wrote
      /\ desk'.said = desk.said
  BY <1>1, <1>4, <1>5 DEF Desks
<1>7. /\ mail' \in Mails /\ mail'.up = mail.up /\ Posting(e)
      /\ slips' \in SlipTypes /\ slips'.dropped = slips.dropped
      /\ Clean(slips') => Clean(slips)
      /\ Clean(slips') /\ reader.stage \notin {"away", "listing"} => reader.joined
  BY <1>3, <1>4, AnnouncedFacts
<1>8. Holds(desk')
  BY <1>1, <1>5, <1>6 DEF ShelfInv, Holds, NoWork
<1>9. Truths'
  BY <1>2, <1>3, <1>5, <1>6, <1>7, PostTruths
<1>10. \A t, i : Ending(mail.events, t, i) => Ending(mail.events, t, i)'
  BY <1>6, <1>7 DEF Ending, Posting
<1>11. Lighting'
  BY <1>3, <1>7, <1>10, PostLighting
<1>12. Coming'
  BY <1>2, <1>5, <1>6 DEF Coming
<1>13. reader.joined => \A r : Told(r) => Told(r)'
  BY <1>3, <1>5, <1>6, <1>7 DEF Told, Posting
<1>14. \A t : Sung(t) => Sung(t)'
  BY <1>1, <1>7, <1>10 DEF Sung
<1>15. desk'.number >= desk.number
  BY <1>1, <1>6 DEF Desks
<1> QED
  BY <1>1, <1>6, <1>7, <1>8, <1>9, <1>11, <1>12, <1>13, <1>14, <1>15, ServerKeeps DEF Posting

LEMMA TellShelfKeeps ==
  ASSUME ShelfInv, NEW k \in Edits, TellShelf(k)
  PROVE  ShelfInv'
<1> DEFINE e == [kind |-> "list", active |-> desk.works[k].active, number |-> desk.works[k].number]
           w == [desk.works EXCEPT ![k] = NoWork]
<1>1. /\ desk \in Desks /\ desk.works \in [Edits -> Works] /\ desk.works[k] \in Works
      /\ desk.works[k].at = "say" /\ reader' = reader
  BY DEF ShelfInv, ShelfType, Desks, TellShelf
<1>2. NoWork \in Works /\ NoWork.at = "none"
  BY DEF Works, NoWork, Nothing
<1>3. /\ e \in ShelfEvents /\ e.kind = "list" /\ e.active = desk.works[k].active
      /\ e.number = desk.works[k].number
  BY <1>1 DEF ShelfEvents, Works
<1>4. desk' = [desk EXCEPT !.works = w] /\ Announced(e)
  BY <1>1 DEF TellShelf, Desks
<1> HIDE DEF e
<1>5. w \in [Edits -> Works] /\ w[k] = NoWork /\ \A j \in Edits : j # k => w[j] = desk.works[j]
  BY <1>1, <1>2
<1> HIDE DEF w
<1>6. /\ desk' \in Desks /\ desk'.works = w /\ desk'.number = desk.number
      /\ desk'.active = desk.active /\ desk'.content = desk.content /\ desk'.holder = desk.holder
      /\ desk'.take = desk.take /\ desk'.ended = desk.ended /\ desk'.wrote = desk.wrote
      /\ desk'.said = desk.said
  BY <1>1, <1>4, <1>5 DEF Desks
<1>7. /\ mail' \in Mails /\ mail'.up = mail.up /\ Posting(e)
      /\ slips' \in SlipTypes /\ slips'.dropped = slips.dropped
      /\ Clean(slips') => Clean(slips)
      /\ Clean(slips') /\ reader.stage \notin {"away", "listing"} => reader.joined
  BY <1>3, <1>4, AnnouncedFacts
<1>8. Holds(desk')
  BY <1>1, <1>5, <1>6 DEF ShelfInv, Holds
<1>9. Truths'
  <2>1. True(desk, e)
    BY <1>1, <1>3 DEF ShelfInv, Truths, True
  <2> QED
    BY <1>2, <1>3, <1>5, <1>6, <1>7, <2>1, PostTruths
<1>10. \A t, i : Ending(mail.events, t, i) => Ending(mail.events, t, i)'
  BY <1>6, <1>7 DEF Ending, Posting
<1>11. Lighting'
  BY <1>3, <1>7, <1>10, PostLighting
<1>12. reader.joined => (Coming => Coming')
  BY <1>1, <1>3, <1>5, <1>6, <1>7 DEF Coming, Posting
<1>13. \A r : Told(r) => Told(r)'
  BY <1>1, <1>5, <1>6, <1>7 DEF Told, Posting
<1>14. \A t : Sung(t) => Sung(t)'
  BY <1>1, <1>7, <1>10 DEF Sung
<1>15. desk'.number >= desk.number
  BY <1>1, <1>6 DEF Desks
<1> QED
  BY <1>1, <1>6, <1>7, <1>8, <1>9, <1>11, <1>12, <1>13, <1>14, <1>15, ServerKeeps DEF Posting

LEMMA OthersTakeKeeps ==
  ASSUME ShelfInv, OthersTake
  PROVE  ShelfInv'
<1> DEFINE t == desk.made + 1
           e == [kind |-> "started", take |-> t, recording |-> desk.active]
<1>1. /\ desk \in Desks /\ desk.made \in Nat /\ t \in Nat \ {Nothing} /\ reader' = reader
      /\ desk.take = Nothing /\ desk.ended = Nothing
  BY DEF ShelfInv, ShelfType, Desks, OthersTake, Nothing, Holds
<1>2. e \in ShelfEvents /\ e.kind = "started" /\ e.take = t
  BY <1>1 DEF ShelfEvents, Recordings, Desks
<1>3. desk' = [desk EXCEPT !.holder = "other", !.made = t, !.take = t] /\ Announced(e)
  BY <1>1 DEF OthersTake, Desks
<1> HIDE DEF e, t
<1>4. /\ desk' \in Desks /\ desk'.works = desk.works /\ desk'.number = desk.number
      /\ desk'.active = desk.active /\ desk'.content = desk.content /\ desk'.holder = "other"
      /\ desk'.take = t /\ desk'.ended = desk.ended /\ desk'.wrote = desk.wrote
      /\ desk'.said = desk.said
  BY <1>1, <1>3 DEF Desks
<1>5. /\ mail' \in Mails /\ mail'.up = mail.up /\ Posting(e)
      /\ slips' \in SlipTypes /\ slips'.dropped = slips.dropped
      /\ Clean(slips') => Clean(slips)
  BY <1>2, <1>3, AnnouncedFacts
<1>6. Holds(desk')
  BY <1>1, <1>4 DEF ShelfInv, Holds
<1>7. Truths'
  BY <1>2, <1>4, <1>5, PostTruths
<1>8. \A s, i : s # Nothing /\ Ending(mail.events, s, i) => Ending(mail.events, s, i)'
  BY <1>1, <1>4, <1>5 DEF Ending, Posting
<1>9. Lighting'
  BY <1>2, <1>4, <1>5, <1>8, PostLighting
<1>10. Coming => Coming'
  BY <1>4, <1>5 DEF Coming, Posting
<1>11. \A r : Told(r) => Told(r)'
  BY <1>4, <1>5 DEF Told, Posting
<1>12. \A s : s # Nothing /\ Sung(s) => Sung(s)'
  BY <1>1, <1>5, <1>8 DEF Sung
<1>13. desk'.number >= desk.number
  BY <1>1, <1>4 DEF Desks
<1> QED
  BY <1>1, <1>4, <1>5, <1>6, <1>7, <1>9, <1>10, <1>11, <1>12, <1>13, ServerKeeps DEF Posting

LEMMA TellFinishedKeeps ==
  ASSUME ShelfInv, TellFinished
  PROVE  ShelfInv'
<1> DEFINE t == desk.ended
           e == [kind |-> "finished", take |-> t]
<1>1. /\ desk \in Desks /\ t \in Nat /\ t # Nothing /\ desk.take = Nothing /\ ~desk.said /\ reader' = reader
  BY DEF ShelfInv, ShelfType, Desks, TellFinished, Holds
<1>2. e \in ShelfEvents /\ e.kind = "finished" /\ e.take = t /\ Announced(e)
  BY <1>1 DEF ShelfEvents, TellFinished
<1> HIDE DEF e
<1>3. /\ desk' \in Desks /\ desk'.works = desk.works /\ desk'.number = desk.number
      /\ desk'.active = desk.active /\ desk'.content = desk.content
      /\ desk'.take = desk.take /\ desk'.wrote = desk.wrote
      /\ \/ desk.wrote /\ desk'.said /\ desk'.ended = desk.ended /\ desk'.holder = desk.holder
         \/ ~desk.wrote /\ ~desk'.said /\ desk'.ended = Nothing /\ desk'.holder = "nobody"
  BY <1>1 DEF Desks, TellFinished, Nothing
<1>4. /\ mail' \in Mails /\ mail'.up = mail.up /\ Posting(e)
      /\ slips' \in SlipTypes /\ slips'.dropped = slips.dropped
      /\ Clean(slips') => Clean(slips)
  BY <1>2, AnnouncedFacts
<1>5. Holds(desk')
  BY <1>1, <1>3 DEF ShelfInv, Holds
<1>6. Truths'
  BY <1>2, <1>3, <1>4, PostTruths
<1>7. \A s : s # Nothing /\ reader.joined =>
        /\ Ending(mail.events, s, 0) => Ending(mail.events, s, 0)'
        /\ \A i \in DOMAIN mail.events : Ending(mail.events, s, i) => Ending(mail.events, s, i)'
  BY <1>1, <1>2, <1>3, <1>4 DEF Ending, Posting
<1>8. Lighting'
  BY <1>2, <1>4, <1>7, PostLighting
<1>9. Coming => Coming'
  BY <1>3, <1>4 DEF Coming, Posting
<1>10. \A r : Told(r) => Told(r)'
  BY <1>3, <1>4 DEF Told, Posting
<1>11. \A s : s # Nothing /\ Sung(s) => Sung(s)'
  BY <1>1, <1>4, <1>7 DEF Sung
<1>12. desk'.number >= desk.number
  BY <1>1, <1>3 DEF Desks
<1> QED
  BY <1>1, <1>3, <1>4, <1>5, <1>6, <1>8, <1>9, <1>10, <1>11, <1>12, ServerKeeps DEF Posting

LEMMA TellTakenKeeps ==
  ASSUME ShelfInv, TellTaken
  PROVE  ShelfInv'
<1> DEFINE n == desk.number
           e == [kind |-> "changed", recording |-> desk.active]
           job == [at |-> "list", active |-> desk.active, number |-> 0]
           w == [desk.works EXCEPT ![n] = job]
<1>1. /\ desk \in Desks /\ desk.works \in [Edits -> Works] /\ reader' = reader
      /\ desk.said /\ desk.wrote /\ desk.ended # Nothing /\ desk.take = Nothing
  BY DEF ShelfInv, ShelfType, Desks, TellTaken, Holds
<1>2. n \in Edits /\ desk.works[n] = NoWork
  BY <1>1, ShelfAssumption DEF ShelfInv, Holds, Edits, Desks
<1>3. job \in Works /\ job.at = "list"
  BY <1>1 DEF Works, Desks, Recordings
<1>4. e \in ShelfEvents /\ e.kind = "changed" /\ e.recording = desk.active
  BY <1>1 DEF ShelfEvents, Desks, Recordings
<1>5. desk' = [desk EXCEPT !.ended = Nothing, !.said = FALSE, !.wrote = FALSE, !.holder = "nobody",
                           !.works = w] /\ Announced(e)
  BY <1>1 DEF TellTaken, Desks
<1> HIDE DEF e, job, n
<1>6. w \in [Edits -> Works] /\ w[n] = job /\ \A j \in Edits : j # n => w[j] = desk.works[j]
  BY <1>1, <1>2, <1>3
<1> HIDE DEF w
<1>7. /\ desk' \in Desks /\ desk'.works = w /\ desk'.number = desk.number
      /\ desk'.active = desk.active /\ desk'.content = desk.content /\ desk'.holder = "nobody"
      /\ desk'.take = desk.take /\ desk'.ended = Nothing /\ ~desk'.wrote /\ ~desk'.said
  BY <1>1, <1>5, <1>6 DEF Desks, Nothing
<1>8. /\ mail' \in Mails /\ mail'.up = mail.up /\ Posting(e)
      /\ slips' \in SlipTypes /\ slips'.dropped = slips.dropped
      /\ Clean(slips') => Clean(slips)
      /\ Clean(slips') /\ reader.stage \notin {"away", "listing"} => reader.joined
  BY <1>4, <1>5, AnnouncedFacts
<1>9. Holds(desk')
  <2>1. desk.number \in Nat
    BY <1>1 DEF Desks
  <2>2. \A k \in Edits : k > desk.number => k # n
    BY <2>1 DEF Edits, n
  <2> QED
    BY <1>1, <1>6, <1>7, <2>2 DEF ShelfInv, Holds
<1>10. Truths'
  BY <1>3, <1>4, <1>6, <1>7, <1>8, PostTruths
<1>11. \A t, i : t # Nothing /\ Ending(mail.events, t, i) => Ending(mail.events, t, i)'
  BY <1>1, <1>7, <1>8 DEF Ending, Posting
<1>12. Lighting'
  BY <1>4, <1>8, <1>11, PostLighting
<1>13. Coming'
  BY <1>2, <1>3, <1>6, <1>7 DEF Coming
<1>14. reader.joined => \A r : Told(r) => Told(r)'
  BY <1>2, <1>4, <1>6, <1>7, <1>8 DEF Told, Posting, NoWork
<1>15. \A t : t # Nothing /\ Sung(t) => Sung(t)'
  BY <1>1, <1>8, <1>11 DEF Sung
<1>16. desk'.number >= desk.number
  BY <1>1, <1>7 DEF Desks
<1> QED
  BY <1>1, <1>7, <1>8, <1>9, <1>10, <1>12, <1>13, <1>14, <1>15, <1>16, ServerKeeps DEF Posting

\* A letter of the page is read, or written.
LEMMA LetterServed ==
  ASSUME NEW q \in Seq(Letters), q # <<>>, NEW r, r = Tail(q)
  PROVE  /\ r \in Seq(Letters) /\ Head(q) \in Letters
         /\ \A t : Starts(q, t) => Starts(r, t) \/ (Head(q).kind = "start" /\ Head(q).take = t)
<1> DEFINE h == Head(q)
           low(i) == i - 1
<1>1. /\ r \in Seq(Letters) /\ h \in Letters /\ h = q[1]
      /\ \A j \in DOMAIN q : j = 1 \/ (low(j) \in DOMAIN r /\ q[j] = r[low(j)])
  BY Tailed
<1> HIDE DEF low, h
<1> QED
  BY <1>1 DEF Starts, h

LEMMA LetterSent ==
  ASSUME NEW q \in Seq(Letters), NEW e \in Letters, NEW r, r = Append(q, e)
  PROVE  /\ r \in Seq(Letters)
         /\ \A t : Starts(q, t) => Starts(r, t)
         /\ e.kind = "start" => Starts(r, e.take)
<1> DEFINE n == Len(q) + 1
<1>1. /\ r \in Seq(Letters) /\ n \in DOMAIN r /\ r[n] = e
      /\ \A i \in DOMAIN q : i \in DOMAIN r /\ r[i] = q[i]
  BY Appended
<1> HIDE DEF n
<1> QED
  BY <1>1 DEF Starts

LEMMA ServedFacts ==
  ASSUME ShelfInv, mail.up # <<>>, mail'.up = Tail(mail.up)
  PROVE  /\ mail'.up \in Seq(Letters) /\ Head(mail.up) \in Letters
         /\ \A t : Starts(mail.up, t) =>
              Starts(mail'.up, t) \/ (Head(mail.up).kind = "start" /\ Head(mail.up).take = t)
<1>1. \A q \in Seq(Letters) : \A r : q # <<>> /\ r = Tail(q) =>
        /\ r \in Seq(Letters) /\ Head(q) \in Letters
        /\ \A t : Starts(q, t) => Starts(r, t) \/ (Head(q).kind = "start" /\ Head(q).take = t)
  BY LetterServed
<1>2. mail.up \in Seq(Letters)
  BY DEF ShelfInv, ShelfType, Mails
<1> QED
  BY <1>1, <1>2

LEMMA ServeTakeKeeps ==
  ASSUME ShelfInv, ServeTake
  PROVE  ShelfInv'
<1> DEFINE start == Head(mail.up)
           t == start.take
           e == [kind |-> "finished", take |-> t]
<1>1. /\ mail \in Mails /\ desk \in Desks /\ reader.joined /\ mail.up # <<>> /\ start.kind = "start"
      /\ reader' = reader /\ slips' = slips /\ slips \in SlipTypes
  BY DEF ShelfInv, ShelfType, ServeTake
<1>2. mail'.up = Tail(mail.up)
  BY <1>1 DEF ServeTake, Mails
<1>3. /\ mail'.up \in Seq(Letters) /\ start \in Letters
      /\ \A s : Starts(mail.up, s) => Starts(mail'.up, s) \/ s = t
  BY <1>1, <1>2, ServedFacts
<1>4. t \in Nat \ {Nothing}
  BY <1>1, <1>3 DEF Letters
<1>5. CASE desk.holder = "nobody" /\ start.recording = desk.active
  <2>1. desk' = [desk EXCEPT !.holder = "own", !.take = t] /\ mail' = [mail EXCEPT !.up = Tail(mail.up)]
    BY <1>1, <1>5 DEF ServeTake, Mails
  <2> HIDE DEF t, start
  <2>2. /\ desk' \in Desks /\ desk'.works = desk.works /\ desk'.number = desk.number
        /\ desk'.active = desk.active /\ desk'.content = desk.content /\ desk'.holder = "own"
        /\ desk'.take = t /\ desk'.ended = desk.ended /\ desk'.wrote = desk.wrote
        /\ desk'.said = desk.said
    BY <1>1, <1>4, <2>1 DEF Desks
  <2>3. mail'.events = mail.events /\ mail' \in Mails
    BY <1>1, <1>3, <2>1, <1>2 DEF Mails
  <2>4. desk.take = Nothing /\ desk.ended = Nothing
    BY <1>5 DEF ShelfInv, Holds
  <2>5. Holds(desk')
    BY <1>4, <2>2, <2>4 DEF ShelfInv, Holds
  <2>6. Truths'
    BY <2>2, <2>3 DEF ShelfInv, Truths, True
  <2>7. \A s, i : s # Nothing /\ Ending(mail.events, s, i) => Ending(mail.events, s, i)'
    BY <2>2, <2>3, <2>4 DEF Ending
  <2>8. \A i \in DOMAIN mail.events : mail.events[i].kind = "started" => mail.events[i].take # Nothing
    <3>1. \A i \in DOMAIN mail.events : mail.events[i] \in ShelfEvents
      BY DEF ShelfInv, ShelfType, Mails
    <3> QED
      BY <3>1 DEF ShelfEvents
  <2>9. Lighting'
    BY <2>3, <2>7, <2>8 DEF ShelfInv, Lighting
  <2>10. Coming => Coming'
    BY <2>2, <2>3 DEF Coming
  <2>11. \A r : Told(r) => Told(r)'
    BY <2>2, <2>3 DEF Told
  <2>12. \A s : s = t => Ending(mail.events, s, 0)'
    BY <2>2 DEF Ending
  <2>13. \A s : s # Nothing /\ Sung(s) => Sung(s)'
    BY <1>1, <1>3, <2>7, <2>12 DEF Sung
  <2>14. desk'.number >= desk.number
    BY <1>1, <2>2 DEF Desks
  <2> QED
    BY <1>1, <2>2, <2>3, <2>5, <2>6, <2>9, <2>10, <2>11, <2>13, <2>14, ServerKeeps
<1>6. CASE ~(desk.holder = "nobody" /\ start.recording = desk.active)
  <2>1. desk' = desk /\ mail' = [mail EXCEPT !.up = Tail(mail.up), !.events = Append(mail.events, e)]
    BY <1>1, <1>6 DEF ServeTake, Mails
  <2>2. e \in ShelfEvents /\ e.kind = "finished" /\ e.take = t
    BY <1>4 DEF ShelfEvents
  <2> HIDE DEF e, t, start
  <2>3. mail'.events = Append(mail.events, e)
    BY <1>1, <2>1 DEF Mails
  <2>4. Posting(e)
    BY <1>1, <2>2, <2>3, PostFacts
  <2>5. mail' \in Mails
    BY <1>1, <1>2, <1>3, <2>1, <2>3, <2>4 DEF Mails, Posting
  <2>6. Holds(desk')
    BY <2>1 DEF ShelfInv
  <2>7. Truths'
    BY <2>1, <2>2, <2>4, PostTruths
  <2>8. \A s, i : Ending(mail.events, s, i) => Ending(mail.events, s, i)'
    BY <2>1, <2>4 DEF Ending, Posting
  <2>9. Lighting'
    BY <2>2, <2>4, <2>8, PostLighting
  <2>10. Coming => Coming'
    BY <2>1, <2>4 DEF Coming, Posting
  <2>11. \A r : Told(r) => Told(r)'
    BY <2>1, <2>4 DEF Told, Posting
  <2>12. \A s : s = t => Ending(mail.events, s, 0)'
    BY <1>1, <2>2, <2>4 DEF Ending, Posting
  <2>13. \A s : Sung(s) => Sung(s)'
    BY <1>1, <1>3, <2>8, <2>12 DEF Sung
  <2>14. desk'.number >= desk.number /\ desk' \in Desks
    BY <1>1, <2>1 DEF Desks
  <2> QED
    BY <1>1, <2>1, <2>4, <2>5, <2>6, <2>7, <2>9, <2>10, <2>11, <2>13, <2>14, ServerKeeps DEF Posting
<1> QED
  BY <1>5, <1>6

LEMMA ServeSyncOfKeeps ==
  ASSUME ShelfInv, ServeSyncOf
  PROVE  ShelfInv'
<1> DEFINE e == [kind |-> "started", take |-> desk.take, recording |-> desk.active]
           told == desk.holder = "other" /\ desk.take # Nothing
<1>1. /\ mail \in Mails /\ desk \in Desks /\ reader.joined /\ mail.up # <<>>
      /\ Head(mail.up).kind = "sync"
      /\ desk' = desk /\ reader' = reader /\ slips' = slips /\ slips \in SlipTypes
  BY DEF ShelfInv, ShelfType, ServeSyncOf
<1>2. mail'.up = Tail(mail.up)
  BY <1>1 DEF ServeSyncOf, Mails
<1>3. /\ mail'.up \in Seq(Letters)
      /\ \A s : Starts(mail.up, s) => Starts(mail'.up, s)
  BY <1>1, <1>2, ServedFacts
<1>4. \/ mail' = [mail EXCEPT !.up = Tail(mail.up)]
      \/ told /\ mail' = [mail EXCEPT !.up = Tail(mail.up), !.events = Append(mail.events, e)]
  BY <1>1 DEF ServeSyncOf, Mails
<1>5. told => e \in ShelfEvents /\ e.kind = "started" /\ e.take = desk.take
  BY <1>1 DEF ShelfEvents, Desks, Recordings
<1> HIDE DEF e, told
<1>6. mail' \in Mails /\ (mail'.events = mail.events \/ (told /\ Posting(e)))
  <2>1. CASE mail' = [mail EXCEPT !.up = Tail(mail.up)]
    BY <1>1, <1>2, <1>3, <2>1 DEF Mails
  <2>2. CASE told /\ mail' = [mail EXCEPT !.up = Tail(mail.up), !.events = Append(mail.events, e)]
    <3>1. mail'.events = Append(mail.events, e)
      BY <1>1, <2>2 DEF Mails
    <3>2. Posting(e)
      BY <1>1, <1>5, <2>2, <3>1, PostFacts
    <3> QED
      BY <1>1, <1>2, <1>3, <2>2, <3>1, <3>2 DEF Mails, Posting
  <2> QED
    BY <1>4, <2>1, <2>2
<1>7. Truths'
  <2>1. CASE mail'.events = mail.events
    BY <1>1, <2>1 DEF ShelfInv, Truths
  <2>2. CASE told /\ Posting(e)
    BY <1>1, <1>5, <2>2, PostTruths
  <2> QED
    BY <1>6, <2>1, <2>2
<1>8. \A s, i : Ending(mail.events, s, i) => Ending(mail.events, s, i)'
  BY <1>1, <1>6 DEF Ending, Posting
<1>9. Lighting'
  <2>1. CASE mail'.events = mail.events
    BY <1>1, <1>8, <2>1 DEF ShelfInv, Lighting
  <2>2. CASE told /\ Posting(e)
    BY <1>1, <1>5, <1>8, <2>2, PostLighting
  <2> QED
    BY <1>6, <2>1, <2>2
<1>10. Coming => Coming'
  BY <1>1, <1>6 DEF Coming, Posting
<1>11. \A r : Told(r) => Told(r)'
  BY <1>1, <1>6 DEF Told, Posting
<1>12. \A s : Sung(s) => Sung(s)'
  BY <1>1, <1>3, <1>8 DEF Sung
<1>13. Holds(desk') /\ desk'.number >= desk.number /\ desk' \in Desks
  BY <1>1 DEF Desks, ShelfInv
<1> QED
  BY <1>1, <1>6, <1>7, <1>9, <1>10, <1>11, <1>12, <1>13, ServerKeeps

-----------------------------------------------------------------------------
(* The page.                                                               *)

\* A step of the page alone.
LEMMA Aside ==
  ASSUME ShelfInv, desk' = desk, mail' = mail, reader'.joined = reader.joined
  PROVE  /\ desk' \in Desks /\ mail' \in Mails
         /\ Holds(desk)' /\ Truths' /\ Lighting'
         /\ Coming' = Coming /\ \A r : Told(r)' = Told(r)
         /\ \A t : Sung(t)' = Sung(t)
<1>1. desk' \in Desks /\ mail' \in Mails
  BY DEF ShelfInv, ShelfType
<1>2. Holds(desk)' /\ Truths' /\ Lighting'
  BY DEF ShelfInv, Truths, Lighting, Ending
<1>3. Coming' = Coming /\ \A r : Told(r)' = Told(r)
  BY DEF Coming, Told
<1>4. \A t : Sung(t)' = Sung(t)
  BY DEF Sung, Ending
<1> QED
  BY <1>1, <1>2, <1>3, <1>4

\* A load is asked for, whatever is under way.
LEMMA WaitsGrow ==
  ASSUME ShelfInv, NEW e \in Reloads, e.switched => e.take = Nothing,
         reader'.queue = Append(reader.queue, e), reader'.load = reader.load
  PROVE  /\ reader'.queue \in Seq(Reloads) /\ reader'.queue # <<>>
         /\ Waits(reader') # <<>>
         /\ AnyPlain(Waits(reader)) \/ ~e.switched => AnyPlain(Waits(reader'))
         /\ AnySwitch(Waits(reader)) \/ e.switched => AnySwitch(Waits(reader'))
         /\ \A t : AnyOf(Waits(reader), t) \/ e.take = t => AnyOf(Waits(reader'), t)
         /\ \A i \in DOMAIN reader'.queue :
              reader'.queue[i].switched => reader'.queue[i].take = Nothing
         /\ Loading(reader) => Head(reader'.queue) = Head(reader.queue)
<1>1. \A w \in Seq(Reloads) : \A v : v = Append(w, e) =>
        /\ v \in Seq(Reloads) /\ v # <<>>
        /\ AnyPlain(w) \/ ~e.switched => AnyPlain(v)
        /\ AnySwitch(w) \/ e.switched => AnySwitch(v)
        /\ \A t : AnyOf(w, t) \/ e.take = t => AnyOf(v, t)
        /\ \A i \in DOMAIN v : (i \in DOMAIN w /\ v[i] = w[i]) \/ v[i] = e
  BY LoadQueued
<1>2. \A r \in Readers : \A s :
        (Loading(r) => r.queue # <<>>) /\ s.queue = Append(r.queue, e) /\ s.load = r.load =>
          /\ Waits(s) = Append(Waits(r), e) /\ Waits(r) \in Seq(Reloads)
          /\ (Loading(r) => Head(s.queue) = Head(r.queue))
  BY WaitsQueued
<1>3. /\ reader \in Readers /\ reader.queue \in Seq(Reloads)
      /\ Loading(reader) => reader.queue # <<>>
      /\ \A i \in DOMAIN reader.queue : reader.queue[i].switched => reader.queue[i].take = Nothing
  BY DEF ShelfInv, ShelfType, Readers, Placed
<1>4. /\ Waits(reader') = Append(Waits(reader), e) /\ Waits(reader) \in Seq(Reloads)
      /\ (Loading(reader) => Head(reader'.queue) = Head(reader.queue))
  BY <1>2, <1>3
<1>5. /\ Waits(reader') # <<>>
      /\ AnyPlain(Waits(reader)) \/ ~e.switched => AnyPlain(Waits(reader'))
      /\ AnySwitch(Waits(reader)) \/ e.switched => AnySwitch(Waits(reader'))
      /\ \A t : AnyOf(Waits(reader), t) \/ e.take = t => AnyOf(Waits(reader'), t)
  BY <1>1, <1>4
<1>6. /\ reader'.queue \in Seq(Reloads) /\ reader'.queue # <<>>
      /\ \A i \in DOMAIN reader'.queue :
           (i \in DOMAIN reader.queue /\ reader'.queue[i] = reader.queue[i]) \/ reader'.queue[i] = e
  BY <1>1, <1>3
<1>7. \A i \in DOMAIN reader'.queue : reader'.queue[i].switched => reader'.queue[i].take = Nothing
  BY <1>3, <1>6
<1> QED
  BY <1>4, <1>5, <1>6, <1>7

\* A load is over, or is not begun: what waits behind it is all that waits.
LEMMA WaitsLeft ==
  ASSUME ShelfInv, reader.queue # <<>>, reader'.queue = Tail(reader.queue)
  PROVE  /\ reader'.queue \in Seq(Reloads) /\ Head(reader.queue) \in Reloads
         /\ \A i \in DOMAIN reader'.queue :
              reader'.queue[i].switched => reader'.queue[i].take = Nothing
         /\ Head(reader.queue).switched => Head(reader.queue).take = Nothing
         /\ AnyPlain(reader.queue) => AnyPlain(reader'.queue) \/ ~Head(reader.queue).switched
         /\ AnySwitch(reader.queue) => AnySwitch(reader'.queue) \/ Head(reader.queue).switched
         /\ \A t : AnyOf(reader.queue, t) => AnyOf(reader'.queue, t) \/ Head(reader.queue).take = t
<1>1. \A w \in Seq(Reloads) : \A v : w # <<>> /\ v = Tail(w) =>
        /\ v \in Seq(Reloads) /\ Head(w) \in Reloads /\ Head(w) = w[1] /\ 1 \in DOMAIN w
        /\ AnyPlain(w) => AnyPlain(v) \/ ~Head(w).switched
        /\ AnySwitch(w) => AnySwitch(v) \/ Head(w).switched
        /\ \A t : AnyOf(w, t) => AnyOf(v, t) \/ Head(w).take = t
        /\ \A i \in DOMAIN v : i + 1 \in DOMAIN w /\ v[i] = w[i + 1]
  BY LoadTaken
<1>2. /\ reader.queue \in Seq(Reloads)
      /\ \A i \in DOMAIN reader.queue : reader.queue[i].switched => reader.queue[i].take = Nothing
  BY DEF ShelfInv, ShelfType, Readers, Placed
<1>3. /\ reader'.queue \in Seq(Reloads) /\ Head(reader.queue) \in Reloads
      /\ Head(reader.queue) = reader.queue[1] /\ 1 \in DOMAIN reader.queue
      /\ AnyPlain(reader.queue) => AnyPlain(reader'.queue) \/ ~Head(reader.queue).switched
      /\ AnySwitch(reader.queue) => AnySwitch(reader'.queue) \/ Head(reader.queue).switched
      /\ \A t : AnyOf(reader.queue, t) => AnyOf(reader'.queue, t) \/ Head(reader.queue).take = t
      /\ \A i \in DOMAIN reader'.queue :
           i + 1 \in DOMAIN reader.queue /\ reader'.queue[i] = reader.queue[i + 1]
  BY <1>1, <1>2
<1>4. \A i \in DOMAIN reader'.queue : reader'.queue[i].switched => reader'.queue[i].take = Nothing
  BY <1>2, <1>3
<1> QED
  BY <1>2, <1>3, <1>4

\* The page opens the project and asks for the list, then for the pieces: it has
\* nothing mounted, and no load of this visit.
LEMMA VisitKeeps ==
  ASSUME ShelfInv, UNCHANGED <<desk, mail, slips>>,
         OpenProject \/ JoinRoom \/ ListRead \/ PiecesRead
  PROVE  ShelfInv'
<1>1. reader \in Readers /\ desk \in Desks
  BY DEF ShelfInv, ShelfType
<1>2. /\ reader' \in Readers
      /\ reader'.known = reader.known /\ reader'.heard = reader.heard
      /\ reader'.wanted = reader.wanted /\ reader'.mounted = reader.mounted
      /\ reader'.onMount = reader.onMount /\ reader'.player = reader.player
      /\ reader'.picture = reader.picture /\ reader'.queue = reader.queue
      /\ reader'.load = reader.load
      /\ \/ /\ reader.stage = "away" /\ reader'.stage = "listing"
            /\ reader'.joined = reader.joined /\ reader'.visit = reader.visit + 1
         \/ /\ reader'.stage = reader.stage /\ reader'.visit = reader.visit
            /\ reader.stage # "away" /\ ~reader.joined /\ reader'.joined
            /\ reader'.answer = reader.answer /\ reader'.fetched = reader.fetched
         \/ /\ reader.stage = "listing" /\ reader'.stage = "listed"
            /\ reader'.joined = reader.joined /\ reader'.visit = reader.visit
            /\ reader'.answer = Shelved
         \/ /\ reader.stage = "asking" /\ reader'.stage = "asked"
            /\ reader'.joined = reader.joined /\ reader'.visit = reader.visit
            /\ reader'.fetched = desk.content[reader.wanted]
  <2>1. Shelved \in [number : Nat, active : Nat]
    BY <1>1 DEF Shelved, Desks, Recordings
  <2>2. PiecesRead => desk.content[reader.wanted] \in Nat
    BY <1>1 DEF PiecesRead, ShelfInv, Placed, Desks
  <2>3. CASE OpenProject
    <3>1. reader' = [reader EXCEPT !.stage = "listing", !.visit = reader.visit + 1]
      BY <1>1, <2>3 DEF OpenProject, Readers
    <3>2. reader.visit + 1 \in Nat
      BY <1>1 DEF Readers
    <3> QED
      BY <1>1, <2>3, <3>1, <3>2, ZenonT(60) DEF OpenProject, Readers
  <2>4. CASE JoinRoom
    BY <1>1, <2>4 DEF JoinRoom, Readers
  <2>5. CASE ListRead
    BY <1>1, <2>1, <2>5 DEF ListRead, Readers
  <2>6. CASE PiecesRead
    BY <1>1, <2>2, <2>6 DEF PiecesRead, Readers
  <2> QED
    BY <2>3, <2>4, <2>5, <2>6
<1>3. ShelfType'
  BY <1>2 DEF ShelfInv, ShelfType
<1>4. Holds(desk)' /\ Truths' /\ Lighting'
  BY DEF ShelfInv, Truths, Lighting, Ending
<1>5. Placed'
  <2>1. reader.visit \in Nat /\ reader.load.visit \in Nat
    BY <1>1 DEF Readers, PieceLoads
  <2> QED
    BY <1>2, <2>1 DEF ShelfInv, Placed, Here, Knows, Loading
<1>6. Learnt'
  BY <1>1, <1>2 DEF ShelfInv, Learnt, Knows, True, Shelved, Desks
<1>7. Coming' = Coming /\ \A r : Told(r)' = Told(r)
  BY DEF Coming, Told
<1>8. \A t : Sung(t) => Sung(t)'
  BY <1>2 DEF Sung, Ending
<1>9. Waits(reader') = Waits(reader) /\ Here(reader') = Here(reader)
      /\ Loading(reader') = Loading(reader) /\ InFlight(reader') = InFlight(reader)
  BY <1>2 DEF Waits, Here, Loading, InFlight
<1> SUFFICES ASSUME Clean(slips') PROVE Informed' /\ Fetching' /\ Switching' /\ Lives'
  BY <1>3, <1>4, <1>5, <1>6 DEF ShelfInv
<1>10. Informed /\ Fetching /\ Switching /\ Lives
  BY DEF ShelfInv
<1>11. Informed'
  BY <1>2, <1>7, <1>10 DEF Informed, Knows, Shelved
<1>12. Fetching'
  BY <1>2, <1>7, <1>9, <1>10 DEF Fetching, Current
<1>13. Switching'
  BY <1>2, <1>9, <1>10 DEF Switching, Switches
<1>14. Lives'
  BY <1>2, <1>8, <1>9, <1>10 DEF Lives, Living
<1> QED
  BY <1>11, <1>12, <1>13, <1>14

LEMMA LoadReadKeeps ==
  ASSUME ShelfInv, LoadRead
  PROVE  ShelfInv'
<1> DEFINE v == desk.content[reader.load.recording]
           l == [reader.load EXCEPT !.at = "read", !.version = v]
<1>1. /\ reader \in Readers /\ desk \in Desks /\ reader.load \in PieceLoads
      /\ reader.load.at = "asked" /\ UNCHANGED <<desk, mail, slips>> /\ Loading(reader)
      /\ reader.load.recording \in Recordings
  BY DEF ShelfInv, ShelfType, Readers, LoadRead, Placed, Loading
<1>2. v \in Nat
  BY <1>1 DEF Desks
<1>3. reader' = [reader EXCEPT !.load = l]
  BY <1>1 DEF LoadRead, Readers
<1>4. /\ l \in PieceLoads /\ l.at = "read" /\ l.version = v
      /\ l.visit = reader.load.visit /\ l.recording = reader.load.recording
  BY <1>1, <1>2 DEF PieceLoads
<1> HIDE DEF l
<1>5. /\ reader' \in Readers /\ reader'.load = l
      /\ reader'.stage = reader.stage /\ reader'.joined = reader.joined
      /\ reader'.answer = reader.answer /\ reader'.fetched = reader.fetched
      /\ reader'.known = reader.known /\ reader'.heard = reader.heard
      /\ reader'.wanted = reader.wanted /\ reader'.mounted = reader.mounted
      /\ reader'.onMount = reader.onMount /\ reader'.player = reader.player
      /\ reader'.picture = reader.picture /\ reader'.queue = reader.queue
      /\ reader'.visit = reader.visit
  BY <1>1, <1>3, <1>4 DEF Readers
<1>6. /\ Holds(desk)' /\ Truths' /\ Lighting' /\ Coming' = Coming
      /\ \A r : Told(r)' = Told(r)
      /\ \A t : Sung(t)' = Sung(t)
  BY <1>1, <1>5, Aside
<1>7. ShelfType'
  BY <1>1, <1>5 DEF ShelfInv, ShelfType
<1>8. Waits(reader') = Waits(reader) /\ Here(reader') = Here(reader)
      /\ Loading(reader') /\ InFlight(reader') = InFlight(reader)
  BY <1>1, <1>4, <1>5 DEF Waits, Here, Loading, InFlight
<1>9. Placed'
  BY <1>1, <1>4, <1>5, <1>8 DEF ShelfInv, Placed, Knows
<1>10. Learnt'
  BY <1>1, <1>5 DEF ShelfInv, Learnt, Knows
<1> SUFFICES ASSUME Clean(slips') PROVE Informed' /\ Fetching' /\ Switching' /\ Lives'
  BY <1>6, <1>7, <1>9, <1>10 DEF ShelfInv
<1>11. Informed /\ Fetching /\ Switching /\ Lives
  BY <1>1 DEF ShelfInv
<1>12. Informed'
  BY <1>1, <1>5, <1>6, <1>11 DEF Informed, Knows
<1>13. Fetching'
  BY <1>1, <1>4, <1>5, <1>6, <1>8, <1>11 DEF Fetching, Current
<1>14. Switching'
  BY <1>1, <1>4, <1>5, <1>8, <1>11 DEF Switching, Switches
<1>15. Lives'
  BY <1>1, <1>5, <1>6, <1>8, <1>11 DEF Lives, Living
<1> QED
  BY <1>12, <1>13, <1>14, <1>15

\* A load, or the mounting, fails: from here on nothing is promised.
LEMMA FailsKeeps ==
  ASSUME ShelfInv, LoadFails \/ MountFails
  PROVE  ShelfInv'
<1>1. /\ reader \in Readers /\ UNCHANGED <<desk, mail>> /\ slips \in SlipTypes
      /\ slips' = [slips EXCEPT !.failed = TRUE]
  BY DEF ShelfInv, ShelfType, LoadFails, MountFails
<1>2. slips' \in SlipTypes /\ slips'.dropped = slips.dropped /\ ~Clean(slips')
  BY <1>1 DEF SlipTypes, Clean
<1>3. NoLoad \in PieceLoads /\ NoLoad.at = "none"
  BY DEF NoLoad, PieceLoads, Nothing
<1>4. /\ reader' \in Readers
      /\ reader'.joined = reader.joined
      /\ reader'.answer = reader.answer
      /\ reader'.known = reader.known /\ reader'.heard = reader.heard
      /\ reader'.wanted = reader.wanted /\ reader'.mounted = reader.mounted
      /\ reader'.onMount = reader.onMount /\ reader'.player = reader.player
      /\ reader'.picture = reader.picture
      /\ reader'.visit = reader.visit
      /\ \/ reader'.stage = reader.stage /\ ~Loading(reader')
         \/ /\ reader.stage \in {"listing", "asked"} /\ reader'.stage = "failed"
            /\ reader'.queue = reader.queue /\ reader'.load = reader.load
      /\ \A i \in DOMAIN reader'.queue :
           reader'.queue[i].switched => reader'.queue[i].take = Nothing
  <2>1. CASE LoadFails
    <3>1. reader.queue # <<>>
      BY <2>1 DEF ShelfInv, Placed, Loading, LoadFails
    <3>2. reader' = [reader EXCEPT !.queue = Tail(reader.queue), !.load = NoLoad]
      BY <1>1, <2>1 DEF LoadFails, Dequeued, Readers
    <3>3. reader'.queue = Tail(reader.queue)
      BY <1>1, <3>2 DEF Readers
    <3>4. /\ reader'.queue \in Seq(Reloads)
          /\ \A i \in DOMAIN reader'.queue :
               reader'.queue[i].switched => reader'.queue[i].take = Nothing
      BY <3>1, <3>3, WaitsLeft
    <3> HIDE DEF NoLoad
    <3> QED
      BY <1>1, <1>3, <3>2, <3>3, <3>4 DEF Readers, Loading
  <2>2. CASE MountFails
    <3>1. reader' = [reader EXCEPT !.stage = "failed"] /\ reader.stage \in {"listing", "asked"}
      BY <2>2 DEF MountFails
    <3> QED
      BY <1>1, <3>1 DEF Readers, ShelfInv, Placed
  <2> QED
    BY <2>1, <2>2
<1>5. Holds(desk)' /\ Truths' /\ Lighting'
  BY <1>1, <1>4, Aside
<1>6. ShelfType'
  BY <1>1, <1>2, <1>4 DEF ShelfInv, ShelfType
<1>7. Placed'
  BY <1>1, <1>2, <1>4 DEF ShelfInv, Placed, Here, Knows, Loading
<1>8. Learnt'
  BY <1>1, <1>4 DEF ShelfInv, Learnt, Knows
<1> QED
  BY <1>2, <1>5, <1>6, <1>7, <1>8 DEF ShelfInv

LEMMA CloseProjectKeeps ==
  ASSUME ShelfInv, CloseProject
  PROVE  ShelfInv'
<1>1. reader \in Readers /\ desk \in Desks /\ desk' = desk /\ slips' = NoSlips
  BY DEF ShelfInv, ShelfType, CloseProject
<1>2. Away \in Readers /\ Away.stage = "away" /\ ~Away.joined /\ Away.heard = 0
      /\ Away.mounted = Unmounted /\ Away.player = Nothing /\ Away.picture = Nothing
      /\ Away.onMount.take = Nothing
  BY DEF Away, Readers, NoList, Unmounted, NoLoad, Nothing, Reloads, PieceLoads
<1>3. reader' = [Away EXCEPT !.queue = reader.queue, !.load = reader.load,
                             !.finished = reader.finished, !.visit = reader.visit]
  BY DEF CloseProject
<1> HIDE DEF Away
<1>4. /\ reader' \in Readers /\ reader'.stage = "away" /\ ~reader'.joined /\ reader'.heard = 0
      /\ reader'.mounted = Unmounted /\ reader'.player = Nothing /\ reader'.picture = Nothing
      /\ reader'.onMount.take = Nothing /\ reader'.queue = reader.queue
      /\ reader'.load = reader.load /\ reader'.visit = reader.visit
  BY <1>1, <1>2, <1>3 DEF Readers
<1>5. mail'.events = <<>> /\ mail' \in Mails
  BY DEF CloseProject, Mails
<1>6. slips' \in SlipTypes /\ ~slips'.dropped
  BY <1>1 DEF NoSlips, SlipTypes
<1>7. ShelfType'
  BY <1>1, <1>4, <1>5, <1>6 DEF ShelfType
<1>8. Holds(desk)'
  BY <1>1 DEF ShelfInv
<1>9. Truths' /\ Lighting'
  BY <1>1, <1>5 DEF ShelfInv, Truths, Lighting
<1>10. Placed'
  BY <1>4, <1>5, <1>6 DEF ShelfInv, Placed, Here, Knows, Loading
<1>11. Learnt'
  BY <1>1, <1>4 DEF Learnt, Knows, Desks
<1>12. Informed' /\ Fetching' /\ Switching' /\ Lives'
  BY <1>4, <1>6 DEF Informed, Fetching, Switching, Lives, Living, Knows, Here, InFlight
<1> QED
  BY <1>7, <1>8, <1>9, <1>10, <1>11, <1>12 DEF ShelfInv

LEMMA LoadBeginsKeeps ==
  ASSUME ShelfInv, LoadBegins
  PROVE  ShelfInv'
<1> DEFINE reload == Head(reader.queue)
           rest == Tail(reader.queue)
           needless == reload.switched /\ reader.mounted.recording = reader.known
           asked == [NoLoad EXCEPT !.at = "asked", !.visit = reader.visit,
                                   !.recording = reader.known]
<1>1. /\ reader \in Readers /\ slips \in SlipTypes /\ UNCHANGED <<desk, mail>>
      /\ reader.queue \in Seq(Reloads) /\ reader.queue # <<>> /\ reader.load.at = "none"
      /\ ~Loading(reader) /\ Waits(reader) = reader.queue /\ ~InFlight(reader)
  BY DEF ShelfInv, ShelfType, LoadBegins, LoadReady, Loading, Waits, InFlight, Readers
<1>2. \A q \in Seq(Reloads) : q # <<>> => Head(q) \in Reloads /\ Tail(q) \in Seq(Reloads)
  BY LoadTaken
<1>3. reload \in Reloads /\ rest \in Seq(Reloads) /\ reload.take \in Nat
  BY <1>1, <1>2 DEF Reloads
<1>4. Mounted(reader) = Here(reader)
  BY DEF ShelfInv, Placed, Mounted
<1>5. /\ slips' \in SlipTypes /\ slips'.dropped = slips.dropped
      /\ Clean(slips') => Clean(slips)
      /\ Clean(slips') /\ Here(reader) /\ needless => ~slips.dropped
      /\ Clean(slips') /\ ~Here(reader) => reader.onMount.take \in {Nothing, reload.take}
  <2>1. slips' = [slips EXCEPT !.lost = slips.lost
               \/ (Here(reader) /\ needless /\ slips.dropped)
               \/ (~Here(reader) /\ reader.onMount.take \notin {Nothing, reload.take})]
    BY <1>1, <1>4 DEF LoadBegins, SlipTypes
  <2>2. /\ slips' \in SlipTypes /\ slips'.dropped = slips.dropped
        /\ slips'.early = slips.early /\ slips'.outrun = slips.outrun
        /\ slips'.failed = slips.failed
        /\ slips'.lost = (slips.lost \/ (Here(reader) /\ needless /\ slips.dropped)
               \/ (~Here(reader) /\ reader.onMount.take \notin {Nothing, reload.take}))
    <3> DEFINE b == slips.lost \/ (Here(reader) /\ needless /\ slips.dropped)
               \/ (~Here(reader) /\ reader.onMount.take \notin {Nothing, reload.take})
    <3>1. b \in BOOLEAN
      BY <1>1 DEF SlipTypes
    <3> HIDE DEF b
    <3>2. slips' = [slips EXCEPT !.lost = b]
      BY <2>1 DEF b
    <3>3. /\ slips' \in SlipTypes /\ slips'.dropped = slips.dropped
          /\ slips'.early = slips.early /\ slips'.outrun = slips.outrun
          /\ slips'.failed = slips.failed /\ slips'.lost = b
      BY <1>1, <3>1, <3>2 DEF SlipTypes
    <3> QED
      BY <3>3 DEF b
  <2> QED
    BY <2>2 DEF Clean
<1>6. /\ asked \in PieceLoads /\ asked.at = "asked" /\ asked.visit = reader.visit
      /\ asked.recording = reader.known
  BY <1>1 DEF PieceLoads, Readers, NoLoad, Nothing
<1>7. NoLoad \in PieceLoads /\ NoLoad.at = "none"
  BY DEF NoLoad, PieceLoads, Nothing
<1>8. \/ /\ ~Here(reader)
         /\ reader' = [reader EXCEPT !.queue = rest, !.load = NoLoad,
                                     !.onMount = [is |-> TRUE, take |-> reload.take]]
      \/ Here(reader) /\ needless /\ reader' = [reader EXCEPT !.queue = rest, !.load = NoLoad]
      \/ Here(reader) /\ ~needless /\ reader' = [reader EXCEPT !.load = asked]
  <2>1. CASE ~Here(reader)
    BY <1>1, <1>4, <2>1 DEF LoadBegins, Dequeued, Readers
  <2>2. CASE Here(reader) /\ needless
    BY <1>1, <1>4, <2>2 DEF LoadBegins, Dequeued, Readers
  <2>3. CASE Here(reader) /\ ~needless
    BY <1>1, <1>4, <2>3 DEF LoadBegins
  <2> QED
    BY <2>1, <2>2, <2>3
<1> HIDE DEF asked, NoLoad
<1>9. /\ reader' \in Readers
      /\ reader'.stage = reader.stage /\ reader'.joined = reader.joined
      /\ reader'.answer = reader.answer /\ reader'.fetched = reader.fetched
      /\ reader'.known = reader.known /\ reader'.heard = reader.heard
      /\ reader'.wanted = reader.wanted /\ reader'.mounted = reader.mounted
      /\ reader'.player = reader.player
      /\ reader'.picture = reader.picture /\ reader'.visit = reader.visit
      /\ \/ /\ ~Here(reader) /\ reader'.queue = rest /\ reader'.load = NoLoad
            /\ reader'.onMount.is /\ reader'.onMount.take = reload.take
         \/ /\ Here(reader) /\ needless /\ reader'.queue = rest /\ reader'.load = NoLoad
            /\ reader'.onMount = reader.onMount
         \/ /\ Here(reader) /\ ~needless /\ reader'.queue = reader.queue /\ reader'.load = asked
            /\ reader'.onMount = reader.onMount
  <2> HIDE DEF reload, rest, needless
  <2>1. CASE /\ ~Here(reader)
             /\ reader' = [reader EXCEPT !.queue = rest, !.load = NoLoad,
                                     !.onMount = [is |-> TRUE, take |-> reload.take]]
    BY <1>1, <1>3, <1>7, <2>1 DEF Readers
  <2>2. CASE Here(reader) /\ needless /\ reader' = [reader EXCEPT !.queue = rest, !.load = NoLoad]
    BY <1>1, <1>3, <1>7, <2>2 DEF Readers
  <2>3. CASE Here(reader) /\ ~needless /\ reader' = [reader EXCEPT !.load = asked]
    BY <1>1, <1>6, <2>3 DEF Readers
  <2> QED
    BY <1>8, <2>1, <2>2, <2>3
<1>10. /\ Holds(desk)' /\ Truths' /\ Lighting' /\ Coming' = Coming
       /\ \A r : Told(r)' = Told(r)
       /\ \A t : Sung(t)' = Sung(t)
  BY <1>1, <1>9, Aside
<1>11. ShelfType'
  BY <1>1, <1>5, <1>9 DEF ShelfInv, ShelfType
<1>12. /\ \A i \in DOMAIN rest : rest[i].switched => rest[i].take = Nothing
       /\ reload.switched => reload.take = Nothing
       /\ AnyPlain(reader.queue) => AnyPlain(rest) \/ ~reload.switched
       /\ AnySwitch(reader.queue) => AnySwitch(rest) \/ reload.switched
       /\ \A t : AnyOf(reader.queue, t) => AnyOf(rest, t) \/ reload.take = t
  <2>1. \A w \in Seq(Reloads) : w # <<>> =>
          /\ Head(w) = w[1] /\ 1 \in DOMAIN w
          /\ AnyPlain(w) => AnyPlain(Tail(w)) \/ ~Head(w).switched
          /\ AnySwitch(w) => AnySwitch(Tail(w)) \/ Head(w).switched
          /\ \A t : AnyOf(w, t) => AnyOf(Tail(w), t) \/ Head(w).take = t
          /\ \A i \in DOMAIN Tail(w) : i + 1 \in DOMAIN w /\ Tail(w)[i] = w[i + 1]
    BY LoadTaken
  <2>2. \A i \in DOMAIN reader.queue : reader.queue[i].switched => reader.queue[i].take = Nothing
    BY DEF ShelfInv, Placed
  <2>3. /\ reload = reader.queue[1] /\ 1 \in DOMAIN reader.queue
        /\ AnyPlain(reader.queue) => AnyPlain(rest) \/ ~reload.switched
        /\ AnySwitch(reader.queue) => AnySwitch(rest) \/ reload.switched
        /\ \A t : AnyOf(reader.queue, t) => AnyOf(rest, t) \/ reload.take = t
        /\ \A i \in DOMAIN rest : i + 1 \in DOMAIN reader.queue /\ rest[i] = reader.queue[i + 1]
    BY <1>1, <2>1
  <2> HIDE DEF reload, rest
  <2> QED
    BY <2>2, <2>3
<1>13. /\ Here(reader') = Here(reader)
       /\ Waits(reader') = rest
       /\ Loading(reader') = (Here(reader) /\ ~needless)
       /\ InFlight(reader') = (Here(reader) /\ ~needless)
  BY <1>1, <1>6, <1>7, <1>9 DEF Waits, Here, Loading, InFlight
<1>14. Here(reader) => reader.known \in Recordings /\ reader.mounted.recording \in Recordings
  BY DEF ShelfInv, Placed, Here, Knows
<1>15. reader'.queue = reader.queue \/ reader'.queue = rest
  BY <1>9
<1> HIDE DEF reload, rest
<1>16. Placed'
  <2>1. reader.visit \in Nat
    BY <1>1 DEF Readers
  <2>2. \A i \in DOMAIN reader'.queue : reader'.queue[i].switched => reader'.queue[i].take = Nothing
    BY <1>12, <1>15 DEF ShelfInv, Placed
  <2>3. reader'.onMount.take # Nothing => reader'.onMount.is
    BY <1>9 DEF ShelfInv, Placed
  <2>4. Loading(reader') =>
          /\ reader'.queue # <<>> /\ reader'.load.visit <= reader'.visit
          /\ reader'.load.recording \in Recordings /\ Here(reader')
    <3>1. Loading(reader') => Here(reader) /\ reader'.queue = reader.queue /\ reader'.load = asked
      BY <1>9, <1>13
    <3>2. reader'.visit = reader.visit /\ Here(reader') = Here(reader)
      BY <1>9, <1>13
    <3>3. asked.visit <= reader.visit
      BY <1>6, <2>1
    <3> QED
      BY <1>1, <1>6, <1>14, <3>1, <3>2, <3>3
  <2> QED
    BY <1>1, <1>5, <1>9, <1>13, <2>2, <2>3, <2>4 DEF ShelfInv, Placed, Knows
<1>17. Learnt'
  BY <1>1, <1>9 DEF ShelfInv, Learnt, Knows
<1> SUFFICES ASSUME Clean(slips') PROVE Informed' /\ Fetching' /\ Switching' /\ Lives'
  BY <1>10, <1>11, <1>16, <1>17 DEF ShelfInv
<1>18. Informed /\ Fetching /\ Switching /\ Lives
  BY <1>5 DEF ShelfInv
<1>19. Informed'
  BY <1>1, <1>9, <1>10, <1>18 DEF Informed, Knows
<1>20. Fetching'
  <2>1. CASE ~Here(reader)
    BY <1>1, <1>9, <1>10, <1>13, <2>1 DEF Fetching, Here
  <2>2. CASE Here(reader) /\ needless
    <3>1. Current(reader.mounted.recording, reader.mounted.version)
      BY <1>1, <1>5, <1>18, <2>2 DEF Fetching
    <3>2. \A r, v : Current(r, v) => Current(r, v)'
      BY <1>1, <1>10, <1>12, <1>13, <2>2 DEF Current
    <3>3. Current(reader.mounted.recording, reader.mounted.version)'
      BY <1>9, <3>1, <3>2
    <3> QED
      BY <1>9, <1>13, <2>2, <3>3 DEF Fetching, Here
  <2>3. CASE Here(reader) /\ ~needless
    BY <1>6, <1>9, <1>13, <2>3 DEF Fetching, Here
  <2> QED
    BY <2>1, <2>2, <2>3
<1>21. Switching'
  <2>1. CASE ~Here(reader)
    BY <1>5, <1>13, <2>1 DEF Switching, ShelfInv, Placed
  <2>2. CASE Here(reader) /\ needless
    BY <1>5, <1>9, <1>13, <2>2 DEF Switching
  <2>3. CASE Here(reader) /\ ~needless
    <3>1. slips.dropped => AnySwitch(rest) \/ reload.switched
      BY <1>1, <1>12, <1>18 DEF Switching
    <3>2. Head(reader'.queue) = reload
      BY <1>9, <2>3 DEF reload
    <3>3. reload.switched => Switches(reader', reader'.load, Head(reader'.queue))
      BY <3>2 DEF Switches
    <3> QED
      BY <1>5, <1>6, <1>9, <1>13, <2>3, <3>1, <3>3 DEF Switching
  <2> QED
    BY <2>1, <2>2, <2>3
<1>22. Lives'
  <2>1. ASSUME NEW t \in Nat, Living(t) PROVE Living(t)'
    <3>1. CASE t = Nothing \/ Sung(t) \/ slips.dropped
      BY <1>5, <1>10, <3>1 DEF Living
    <3>2. CASE AnyOf(reader.queue, t) /\ t # Nothing
      <4>1. AnyOf(rest, t) \/ reload.take = t
        BY <1>12, <3>2
      <4>2. reload.take = t =>
              \/ ~Here(reader) /\ reader'.onMount.take = t
              \/ Here(reader) /\ ~needless /\ Head(reader'.queue).take = t
        BY <1>9, <1>12, <3>2 DEF reload
      <4> QED
        BY <1>13, <4>1, <4>2 DEF Living
    <3>3. CASE ~Here(reader) /\ reader.onMount.take = t /\ t # Nothing
      BY <1>5, <1>9, <1>13, <3>3 DEF Living
    <3> QED
      BY <1>1, <2>1, <3>1, <3>2, <3>3 DEF Living
  <2>2. reader.player \in Nat /\ reader.picture \in Nat
    BY <1>1 DEF Readers
  <2>3. Living(reader.player) /\ Living(reader.picture)
    BY <1>18 DEF Lives
  <2>4. \A t \in Nat : Living(t) => Living(t)'
    BY <2>1
  <2> QED
    BY <1>9, <2>2, <2>3, <2>4 DEF Lives
<1> QED
  BY <1>19, <1>20, <1>21, <1>22

LEMMA LoadArrivesKeeps ==
  ASSUME ShelfInv, LoadArrives
  PROVE  ShelfInv'
<1> DEFINE load == reader.load
           reload == Head(reader.queue)
           rest == Tail(reader.queue)
           here == Here(reader) /\ load.visit = reader.visit
           wanted == here /\ load.recording = reader.known
           gone(live) == Switches(reader, load, reload) \/ live = reload.take
           kept(live) == IF gone(live) THEN Nothing ELSE live
           pieces == [recording |-> load.recording, version |-> load.version]
<1>1. /\ reader \in Readers /\ slips \in SlipTypes /\ UNCHANGED <<desk, mail>>
      /\ reader.queue \in Seq(Reloads) /\ reader.queue # <<>> /\ load.at = "read"
      /\ Loading(reader) /\ Waits(reader) = rest /\ InFlight(reader) = here
      /\ load \in PieceLoads /\ load.recording \in Recordings
      /\ reader.player \in Nat /\ reader.picture \in Nat
  BY DEF ShelfInv, ShelfType, LoadArrives, Loading, Waits, InFlight, Readers, Placed
<1>2. Mounted(reader) = Here(reader)
  BY DEF ShelfInv, Placed, Mounted
<1>3. NoLoad \in PieceLoads /\ NoLoad.at = "none"
  BY DEF NoLoad, PieceLoads, Nothing
<1>4. /\ pieces \in [recording : Nat, version : Nat] /\ pieces.recording = load.recording
      /\ pieces.version = load.version
  BY <1>1 DEF PieceLoads
<1>5. \/ wanted /\ reader' = [reader EXCEPT !.queue = rest, !.load = NoLoad, !.mounted = pieces,
                                !.player = kept(reader.player), !.picture = kept(reader.picture)]
      \/ ~wanted /\ reader' = [reader EXCEPT !.queue = rest, !.load = NoLoad]
  <2>1. CASE wanted
    <3>1. reader' = Laid(reader, load, reload)
      BY <1>2, <2>1 DEF LoadArrives
    <3> HIDE DEF load, reload
    <3> QED
      BY <1>1, <2>1, <3>1 DEF Laid, Dequeued, Readers
  <2>2. CASE ~wanted
    BY <1>2, <2>2 DEF LoadArrives, Dequeued
  <2> QED
    BY <2>1, <2>2
<1>6. slips' = [slips EXCEPT !.dropped = IF wanted THEN slips.dropped /\ ~Switches(reader, load, reload)
                                                  ELSE slips.dropped \/ here]
  <2>1. slips' = [slips EXCEPT !.dropped =
               IF wanted THEN @ /\ ~Switches(reader, load, reload) ELSE @ \/ here]
    BY <1>2 DEF LoadArrives
  <2> HIDE DEF load, reload, here, wanted
  <2> QED
    BY <1>1, <2>1 DEF SlipTypes
<1>7. /\ rest \in Seq(Reloads) /\ reload \in Reloads
      /\ \A i \in DOMAIN rest : rest[i].switched => rest[i].take = Nothing
  <2>1. \A w \in Seq(Reloads) : w # <<>> =>
          /\ Tail(w) \in Seq(Reloads) /\ Head(w) \in Reloads
          /\ \A i \in DOMAIN Tail(w) : i + 1 \in DOMAIN w /\ Tail(w)[i] = w[i + 1]
    BY LoadTaken
  <2>2. \A i \in DOMAIN reader.queue : reader.queue[i].switched => reader.queue[i].take = Nothing
    BY DEF ShelfInv, Placed
  <2>3. /\ rest \in Seq(Reloads) /\ reload \in Reloads
        /\ \A i \in DOMAIN rest : i + 1 \in DOMAIN reader.queue /\ rest[i] = reader.queue[i + 1]
    BY <1>1, <2>1
  <2> HIDE DEF reload, rest
  <2> QED
    BY <2>2, <2>3
<1>8. wanted \in BOOLEAN /\ here \in BOOLEAN /\ (wanted => here)
  OBVIOUS
<1>9. Switches(reader, load, reload) \in BOOLEAN
  BY <1>7 DEF Switches, Reloads
<1> HIDE DEF rest, pieces, NoLoad, reload
<1>10. /\ reader' \in Readers
      /\ reader'.stage = reader.stage /\ reader'.joined = reader.joined
      /\ reader'.answer = reader.answer /\ reader'.fetched = reader.fetched
      /\ reader'.known = reader.known /\ reader'.heard = reader.heard
      /\ reader'.wanted = reader.wanted /\ reader'.onMount = reader.onMount
      /\ reader'.visit = reader.visit /\ reader'.queue = rest /\ reader'.load = NoLoad
      /\ \/ /\ wanted /\ reader'.mounted = pieces
            /\ reader'.player = kept(reader.player) /\ reader'.picture = kept(reader.picture)
         \/ /\ ~wanted /\ reader'.mounted = reader.mounted
            /\ reader'.player = reader.player /\ reader'.picture = reader.picture
  <2>1. kept(reader.player) \in Nat /\ kept(reader.picture) \in Nat
    BY <1>1 DEF Nothing
  <2> HIDE DEF wanted, kept
  <2>2. CASE wanted /\ reader' = [reader EXCEPT !.queue = rest, !.load = NoLoad, !.mounted = pieces,
                                !.player = kept(reader.player), !.picture = kept(reader.picture)]
    BY <1>1, <1>3, <1>4, <1>7, <2>1, <2>2 DEF Readers
  <2>3. CASE ~wanted /\ reader' = [reader EXCEPT !.queue = rest, !.load = NoLoad]
    BY <1>1, <1>3, <1>7, <2>3 DEF Readers
  <2> QED
    BY <1>5, <2>2, <2>3
<1> DEFINE switch == Switches(reader, load, reload)
<1>11. /\ slips' \in SlipTypes /\ (Clean(slips') => Clean(slips))
       /\ slips'.dropped = IF wanted THEN slips.dropped /\ ~switch ELSE slips.dropped \/ here
  <2> DEFINE b == IF wanted THEN slips.dropped /\ ~switch ELSE slips.dropped \/ here
  <2>1. b \in BOOLEAN
    <3> HIDE DEF wanted, here, switch
    <3> QED
      BY <1>1, <1>8, <1>9 DEF SlipTypes
  <2> HIDE DEF b
  <2>2. slips' = [slips EXCEPT !.dropped = b]
    BY <1>6 DEF b
  <2>3. slips' \in SlipTypes /\ slips'.dropped = b /\ (Clean(slips') => Clean(slips))
    BY <1>1, <2>1, <2>2 DEF SlipTypes, Clean
  <2> QED
    BY <2>3 DEF b
<1>12. /\ Holds(desk)' /\ Truths' /\ Lighting' /\ Coming' = Coming
       /\ \A r : Told(r)' = Told(r)
       /\ \A t : Sung(t)' = Sung(t)
  BY <1>1, <1>10, Aside
<1>13. ShelfType'
  BY <1>1, <1>10, <1>11 DEF ShelfInv, ShelfType
<1>14. /\ Here(reader') = Here(reader) /\ Waits(reader') = Waits(reader)
       /\ ~Loading(reader') /\ ~InFlight(reader')
  BY <1>1, <1>3, <1>10 DEF Waits, Here, Loading, InFlight
<1>15. Placed'
  <2>1. (reader'.mounted # Unmounted) = Here(reader)
       /\ (Here(reader) => reader'.mounted.recording \in Recordings)
    <3>1. CASE wanted
      <4>1. pieces # Unmounted
        BY <1>1, <1>4 DEF Unmounted, Recordings, Nothing
      <4> QED
        BY <1>1, <1>4, <1>10, <3>1, <4>1
    <3>2. CASE ~wanted
      BY <1>10, <3>2 DEF ShelfInv, Placed
    <3> QED
      BY <3>1, <3>2
  <2>2. reader'.stage = "away" => reader'.player = Nothing /\ reader'.picture = Nothing
    BY <1>10 DEF ShelfInv, Placed, Here
  <2>3. ~Here(reader) => ~slips'.dropped
    BY <1>11 DEF ShelfInv, Placed
  <2> HIDE DEF load, wanted, here, kept, switch
  <2> QED
    BY <1>1, <1>7, <1>10, <1>14, <2>1, <2>2, <2>3 DEF ShelfInv, Placed, Knows
<1>16. Learnt'
  BY <1>1, <1>10 DEF ShelfInv, Learnt, Knows
<1> SUFFICES ASSUME Clean(slips') PROVE Informed' /\ Fetching' /\ Switching' /\ Lives'
  BY <1>12, <1>13, <1>15, <1>16 DEF ShelfInv
<1>17. Informed /\ Fetching /\ Switching /\ Lives
  BY <1>11 DEF ShelfInv
<1>18. Informed'
  BY <1>1, <1>10, <1>12, <1>17 DEF Informed, Knows
<1>19. \A r, v : Current(r, v) => Current(r, v)'
  BY <1>1, <1>12, <1>14 DEF Current
<1>20. Fetching'
  <2>1. CASE wanted
    <3>1. Current(load.recording, load.version)
      BY <1>1, <1>17, <2>1 DEF Fetching
    <3>2. reader'.mounted.recording = load.recording /\ reader'.mounted.version = load.version
      BY <1>4, <1>10, <2>1
    <3>3. \A r, v : r = load.recording /\ v = load.version => Current(r, v)'
      BY <1>19, <3>1
    <3>4. Current(reader.mounted.recording, reader.mounted.version)'
      BY <3>2, <3>3
    <3>5. reader'.stage # "asked"
      BY <1>10, <2>1 DEF Here
    <3> QED
      BY <1>14, <3>4, <3>5 DEF Fetching
  <2>2. CASE ~wanted /\ here
    BY <1>10, <1>11, <1>14, <2>2 DEF Fetching, Here
  <2>3. CASE ~here
    <3>1. reader.stage = "asked" => Current(reader.wanted, reader.fetched)' \/ reader.onMount.is
      BY <1>10, <1>17, <1>19 DEF Fetching
    <3>2. Here(reader) => Current(reader.mounted.recording, reader.mounted.version)' \/ slips.dropped
      BY <1>1, <1>10, <1>17, <1>19, <2>3 DEF Fetching
    <3> QED
      BY <1>10, <1>11, <1>14, <2>3, <3>1, <3>2 DEF Fetching
  <2> QED
    BY <1>8, <2>1, <2>2, <2>3
<1>21. Switching'
  <2>1. CASE wanted
    <3>1. reader'.mounted.recording = reader'.known
      BY <1>4, <1>10, <2>1
    <3>2. slips'.dropped => AnySwitch(Waits(reader'))
      BY <1>1, <1>11, <1>14, <1>17, <2>1 DEF Switching, reload
    <3> QED
      BY <1>14, <3>1, <3>2 DEF Switching
  <2>2. CASE ~wanted /\ here
    <3>1. AnySwitch(Waits(reader))
      BY <1>1, <1>17, <2>2 DEF Switching
    <3>2. Waits(reader) # <<>>
      BY <3>1 DEF AnySwitch
    <3> QED
      BY <1>14, <3>1, <3>2 DEF Switching
  <2>3. CASE ~here
    BY <1>1, <1>10, <1>11, <1>14, <1>17, <2>3 DEF Switching
  <2> QED
    BY <1>8, <2>1, <2>2, <2>3
<1>22. Lives'
  <2>1. CASE wanted
    <3>1. ASSUME NEW t \in Nat, Living(t), t = Nothing \/ ~gone(t) PROVE Living(t)'
      <4>1. CASE t = Nothing \/ Sung(t)
        BY <1>12, <4>1 DEF Living
      <4>2. CASE AnyOf(Waits(reader), t)
        BY <1>14, <4>2 DEF Living
      <4>3. CASE t # Nothing /\ slips.dropped
        BY <1>11, <2>1, <3>1, <4>3 DEF Living
      <4> QED
        BY <1>1, <2>1, <3>1, <4>1, <4>2, <4>3 DEF Living, reload
    <3>2. \A t \in Nat : Living(t) /\ (t = Nothing \/ ~gone(t)) => Living(t)'
      BY <3>1
    <3>3. Living(Nothing)'
      BY DEF Living
    <3>4. \A t \in Nat : Living(t) => \A s : s = kept(t) => Living(s)'
      BY <3>2, <3>3
    <3> HIDE DEF kept
    <3>5. \A s : s = kept(reader.player) \/ s = kept(reader.picture) => Living(s)'
      BY <1>1, <1>17, <3>4 DEF Lives
    <3> QED
      BY <1>10, <2>1, <3>5 DEF Lives
  <2>2. CASE ~wanted /\ here
    BY <1>11, <2>2 DEF Lives, Living
  <2>3. CASE ~here
    BY <1>1, <1>10, <1>11, <1>12, <1>14, <1>17, <2>3 DEF Lives, Living
  <2> QED
    BY <1>8, <2>1, <2>2, <2>3
<1> QED
  BY <1>18, <1>20, <1>21, <1>22

LEMMA ListArrivesKeeps ==
  ASSUME ShelfInv, ListArrives
  PROVE  ShelfInv'
<1> DEFINE list == reader.answer
           out == slips.outrun \/ list.number < reader.heard
<1>1. /\ reader \in Readers /\ slips \in SlipTypes /\ desk \in Desks /\ UNCHANGED <<desk, mail>>
      /\ reader.stage = "listed" /\ ~Here(reader) /\ ~InFlight(reader)
      /\ list.number \in Nat /\ list.active \in Recordings /\ True(desk, list)
  BY DEF ShelfInv, ShelfType, ListArrives, Readers, Learnt, True, Here, InFlight
<1>2. ~Mounted(reader)
  BY <1>1 DEF ShelfInv, Placed, Mounted
<1>3. NoList \in [number : Nat, active : Nat]
  BY DEF NoList, Nothing
<1>4. reader' = [reader EXCEPT !.known = list.active, !.heard = list.number, !.stage = "asking",
                               !.answer = NoList, !.wanted = list.active]
  BY <1>1, <1>2 DEF ListArrives, Applied, Readers
<1> HIDE DEF NoList
<1>5. /\ reader' \in Readers
      /\ reader'.stage = "asking" /\ reader'.joined = reader.joined
      /\ reader'.known = list.active /\ reader'.heard = list.number
      /\ reader'.wanted = list.active /\ reader'.mounted = reader.mounted
      /\ reader'.onMount = reader.onMount /\ reader'.player = reader.player
      /\ reader'.picture = reader.picture /\ reader'.visit = reader.visit
      /\ reader'.queue = reader.queue /\ reader'.load = reader.load
  <2>1. list.active \in Nat
    BY <1>1 DEF Recordings
  <2> HIDE DEF list
  <2> QED
    BY <1>1, <1>3, <1>4, <2>1 DEF Readers
<1>6. /\ slips' \in SlipTypes /\ slips'.dropped = slips.dropped
      /\ Clean(slips') => Clean(slips) /\ ~out
  <2>1. out \in BOOLEAN
    BY <1>1 DEF SlipTypes
  <2>2. slips' = [slips EXCEPT !.outrun = out]
    BY <1>1 DEF ListArrives, Outrun, SlipTypes
  <2> HIDE DEF out
  <2>3. /\ slips' \in SlipTypes /\ slips'.dropped = slips.dropped /\ slips'.outrun = out
        /\ slips'.early = slips.early /\ slips'.lost = slips.lost /\ slips'.failed = slips.failed
    BY <1>1, <2>1, <2>2 DEF SlipTypes
  <2> QED
    BY <2>3 DEF Clean, out
<1>7. /\ Holds(desk)' /\ Truths' /\ Lighting' /\ Coming' = Coming
      /\ \A r : Told(r)' = Told(r)
      /\ \A t : Sung(t)' = Sung(t)
  BY <1>1, <1>5, Aside
<1>8. ShelfType'
  BY <1>1, <1>5, <1>6 DEF ShelfInv, ShelfType
<1>9. Placed'
  BY <1>1, <1>5, <1>6 DEF ShelfInv, Placed, Here, Knows, Loading
<1>10. Learnt'
  BY <1>1, <1>5 DEF Learnt, True
<1> SUFFICES ASSUME Clean(slips') PROVE Informed' /\ Fetching' /\ Switching' /\ Lives'
  BY <1>7, <1>8, <1>9, <1>10 DEF ShelfInv
<1>11. Informed /\ Lives /\ ~slips.dropped
  BY <1>1, <1>6 DEF ShelfInv, Placed
<1>12. Informed'
  <2>1. desk.number \in Nat /\ reader.heard \in Nat /\ reader.heard <= desk.number
    BY <1>1 DEF Desks, Readers, ShelfInv, Learnt
  <2>2. reader.heard = desk.number \/ list.number = desk.number \/ Coming
    BY <1>1, <1>11 DEF Informed
  <2>3. list.number = desk.number \/ Coming
    BY <1>1, <1>6, <2>1, <2>2 DEF True
  <2> QED
    BY <1>1, <1>5, <1>7, <2>3 DEF Informed
<1>13. ~Here(reader') /\ ~InFlight(reader') /\ Waits(reader') = Waits(reader)
  BY <1>5 DEF Here, InFlight, Waits, Loading
<1>14. Fetching' /\ Switching'
  BY <1>5, <1>6, <1>11, <1>13 DEF Fetching, Switching
<1>15. Lives'
  BY <1>1, <1>5, <1>6, <1>7, <1>11, <1>13 DEF Lives, Living
<1> QED
  BY <1>12, <1>14, <1>15

LEMMA PiecesArriveKeeps ==
  ASSUME ShelfInv, PiecesArrive
  PROVE  ShelfInv'
<1> DEFINE anew == reader.onMount.is \/ reader.known # reader.wanted
           e == Reload(reader.onMount.take, FALSE)
           pieces == [recording |-> reader.wanted, version |-> reader.fetched]
           none == [is |-> FALSE, take |-> Nothing]
           queue == IF anew THEN Append(reader.queue, e) ELSE reader.queue
           letter == [kind |-> "sync"]
<1>1. /\ reader \in Readers /\ slips \in SlipTypes /\ UNCHANGED <<desk, slips>> /\ mail \in Mails
      /\ reader.stage = "asked" /\ ~Here(reader) /\ ~InFlight(reader)
      /\ reader.wanted \in Recordings /\ reader.known \in Recordings /\ ~slips.dropped
      /\ reader.queue \in Seq(Reloads)
  BY DEF ShelfInv, ShelfType, PiecesArrive, Placed, Knows, Here, InFlight, Readers
<1>2. /\ pieces \in [recording : Nat, version : Nat] /\ pieces.recording = reader.wanted
      /\ pieces.version = reader.fetched /\ none \in [is : BOOLEAN, take : Nat]
      /\ none.take = Nothing /\ pieces # Unmounted
  BY <1>1, SMTT(60) DEF Readers, Recordings, Nothing, Unmounted
<1>3. e \in Reloads /\ ~e.switched /\ e.take = reader.onMount.take
  BY <1>1 DEF Reloads, Reload, Readers
<1>4. queue \in Seq(Reloads)
  <2> HIDE DEF e
  <2>1. Append(reader.queue, e) \in Seq(Reloads)
    BY <1>1, <1>3
  <2> QED
    BY <1>1, <2>1
<1>5. reader' = [reader EXCEPT !.stage = "mounted", !.player = Nothing, !.wanted = Nothing,
                   !.fetched = 0, !.mounted = pieces, !.onMount = none, !.queue = queue]
  BY <1>1 DEF PiecesArrive, Queued, Readers
<1> HIDE DEF pieces, none, queue, e
<1>6. /\ reader' \in Readers
      /\ reader'.stage = "mounted" /\ reader'.joined = reader.joined
      /\ reader'.known = reader.known /\ reader'.heard = reader.heard
      /\ reader'.mounted = pieces
      /\ reader'.onMount = none /\ reader'.player = Nothing
      /\ reader'.picture = reader.picture /\ reader'.visit = reader.visit
      /\ reader'.queue = queue /\ reader'.load = reader.load
  BY <1>1, <1>2, <1>4, <1>5 DEF Readers, Nothing
<1>7. mail' = [mail EXCEPT !.up = Append(mail.up, letter)]
  BY <1>1 DEF PiecesArrive, Mails
<1>8. mail'.up = Append(mail.up, letter) /\ mail'.events = mail.events
  BY <1>1, <1>7 DEF Mails
<1>9. mail'.up \in Seq(Letters) /\ \A t : Starts(mail.up, t) => Starts(mail'.up, t)
  <2>1. letter \in Letters
    BY DEF Letters
  <2>2. \A q \in Seq(Letters) : \A r : r = Append(q, letter) =>
          r \in Seq(Letters) /\ \A t : Starts(q, t) => Starts(r, t)
    BY <2>1, LetterSent
  <2>3. mail.up \in Seq(Letters)
    BY <1>1 DEF Mails
  <2> QED
    BY <1>8, <2>2, <2>3
<1>10. mail' \in Mails
  BY <1>1, <1>7, <1>9, <1>8 DEF Mails
<1>11. /\ Waits(reader') = Waits(reader) \/ anew
       /\ anew => Waits(reader') # <<>>
       /\ AnyPlain(Waits(reader)) \/ anew => AnyPlain(Waits(reader'))
       /\ \A t : AnyOf(Waits(reader), t) \/ (anew /\ reader.onMount.take = t) => AnyOf(Waits(reader'), t)
       /\ \A i \in DOMAIN reader'.queue :
            reader'.queue[i].switched => reader'.queue[i].take = Nothing
       /\ Loading(reader') => reader'.queue # <<>>
  <2>1. CASE anew
    <3>1. reader'.queue = Append(reader.queue, e)
      BY <1>6, <2>1 DEF queue
    <3>2. /\ reader'.queue # <<>> /\ Waits(reader') # <<>>
          /\ AnyPlain(Waits(reader'))
          /\ \A t : AnyOf(Waits(reader), t) \/ e.take = t => AnyOf(Waits(reader'), t)
          /\ \A i \in DOMAIN reader'.queue :
               reader'.queue[i].switched => reader'.queue[i].take = Nothing
      BY <1>3, <1>6, <3>1, WaitsGrow
    <3> QED
      BY <1>3, <2>1, <3>2
  <2>2. CASE ~anew
    BY <1>6, <2>2 DEF queue, Waits, Loading, ShelfInv, Placed
  <2> QED
    BY <2>1, <2>2
<1>12. Here(reader') /\ ~InFlight(reader')
  <2>1. Loading(reader) => reader.load.visit # reader.visit
    BY <1>1 DEF ShelfInv, Placed, Here
  <2> QED
    BY <1>6, <2>1 DEF Here, InFlight, Loading
<1>13. ShelfType'
  BY <1>1, <1>6, <1>10 DEF ShelfInv, ShelfType
<1>14. Holds(desk)' /\ Truths' /\ Lighting'
  BY <1>1, <1>8 DEF ShelfInv, Truths, Lighting, Ending
<1>15. Placed'
  <2>1. Loading(reader') => Loading(reader)
    BY <1>6 DEF Loading
  <2> QED
    BY <1>1, <1>2, <1>6, <1>8, <1>11, <1>12, <2>1 DEF ShelfInv, Placed, Knows
<1>16. Learnt'
  BY <1>1, <1>6 DEF ShelfInv, Learnt, Knows
<1> SUFFICES ASSUME Clean(slips') PROVE Informed' /\ Fetching' /\ Switching' /\ Lives'
  BY <1>13, <1>14, <1>15, <1>16 DEF ShelfInv
<1>17. Informed /\ Fetching /\ Lives
  BY <1>1 DEF ShelfInv
<1>18. Coming' = Coming /\ \A r : Told(r)' = Told(r)
  BY <1>1, <1>8 DEF Coming, Told
<1>19. \A t : Sung(t) => Sung(t)'
  BY <1>1, <1>6, <1>8, <1>9 DEF Sung, Ending
<1>20. Informed'
  BY <1>1, <1>6, <1>17, <1>18 DEF Informed, Knows
<1>21. Fetching'
  <2>1. \A r, v : Current(r, v) => Current(r, v)'
    BY <1>1, <1>11, <1>18 DEF Current
  <2>2. Current(reader.wanted, reader.fetched) \/ reader.onMount.is
    BY <1>1, <1>17 DEF Fetching
  <2>3. \A r, v : r = reader.wanted /\ v = reader.fetched => Current(r, v)'
    BY <1>11, <2>1, <2>2 DEF Current
  <2>4. Current(reader.mounted.recording, reader.mounted.version)'
    BY <1>2, <1>6, <2>3
  <2> QED
    BY <1>6, <1>12, <2>4 DEF Fetching
<1>22. Switching'
  BY <1>1, <1>2, <1>6, <1>11, <1>12 DEF Switching
<1>23. Lives'
  <2>1. Living(reader.picture)
    BY <1>17 DEF Lives
  <2>2. reader.onMount.take # Nothing => reader.onMount.is
    BY DEF ShelfInv, Placed
  <2>3. \A t : t = reader.picture => Living(t)'
    BY <1>1, <1>11, <1>19, <2>1, <2>2 DEF Living
  <2> QED
    BY <1>6, <2>3 DEF Lives, Living
<1> QED
  BY <1>20, <1>21, <1>22, <1>23

LEMMA OwnTakeKeeps ==
  ASSUME ShelfInv, OwnTake
  PROVE  ShelfInv'
<1> DEFINE take == desk.made + 1
           letter == [kind |-> "start", take |-> take, recording |-> reader.known]
<1>1. /\ reader \in Readers /\ desk \in Desks /\ mail \in Mails /\ slips' = slips
      /\ reader.stage = "mounted" /\ take \in Nat \ {Nothing} /\ slips \in SlipTypes
  BY DEF ShelfInv, ShelfType, OwnTake, Desks, Nothing
<1>2. letter \in Letters /\ letter.kind = "start" /\ letter.take = take
  BY <1>1 DEF Letters, Readers
<1>3. /\ desk' = [desk EXCEPT !.made = take]
      /\ reader' = [reader EXCEPT !.player = take, !.picture = take, !.own = take]
      /\ mail' = [mail EXCEPT !.up = Append(mail.up, letter)]
  BY <1>1 DEF OwnTake, Lit, Mails
<1> HIDE DEF take, letter
<1>4. /\ desk' \in Desks /\ desk'.works = desk.works /\ desk'.number = desk.number
      /\ desk'.active = desk.active /\ desk'.content = desk.content /\ desk'.holder = desk.holder
      /\ desk'.take = desk.take /\ desk'.ended = desk.ended /\ desk'.wrote = desk.wrote
      /\ desk'.said = desk.said
  BY <1>1, <1>3 DEF Desks
<1>5. /\ reader' \in Readers
      /\ reader'.stage = reader.stage /\ reader'.joined = reader.joined
      /\ reader'.answer = reader.answer /\ reader'.fetched = reader.fetched
      /\ reader'.known = reader.known /\ reader'.heard = reader.heard
      /\ reader'.wanted = reader.wanted /\ reader'.mounted = reader.mounted
      /\ reader'.onMount = reader.onMount /\ reader'.player = take
      /\ reader'.picture = take /\ reader'.visit = reader.visit
      /\ reader'.queue = reader.queue /\ reader'.load = reader.load
  BY <1>1, <1>3 DEF Readers
<1>6. mail'.up = Append(mail.up, letter) /\ mail'.events = mail.events
  BY <1>1, <1>3 DEF Mails
<1>7. /\ mail'.up \in Seq(Letters) /\ Starts(mail'.up, take)
  <2>1. \A q \in Seq(Letters) : \A r : r = Append(q, letter) =>
          r \in Seq(Letters) /\ Starts(r, letter.take)
    BY <1>2, LetterSent
  <2>2. mail.up \in Seq(Letters)
    BY <1>1 DEF Mails
  <2> QED
    BY <1>2, <1>6, <2>1, <2>2
<1>8. mail' \in Mails
  BY <1>1, <1>3, <1>6, <1>7 DEF Mails
<1>9. ShelfType'
  BY <1>1, <1>4, <1>5, <1>8 DEF ShelfType
<1>10. Holds(desk)'
  BY <1>4 DEF ShelfInv, Holds
<1>11. Truths' /\ Lighting'
  BY <1>4, <1>6 DEF ShelfInv, Truths, True, Lighting, Ending
<1>12. /\ Here(reader') = Here(reader) /\ Waits(reader') = Waits(reader)
       /\ Loading(reader') = Loading(reader) /\ InFlight(reader') = InFlight(reader)
  BY <1>5 DEF Waits, Here, Loading, InFlight
<1>13. Placed'
  BY <1>1, <1>5, <1>6, <1>12 DEF ShelfInv, Placed, Knows
<1>14. Learnt'
  BY <1>1, <1>4, <1>5 DEF ShelfInv, Learnt, Knows
<1> SUFFICES ASSUME Clean(slips') PROVE Informed' /\ Fetching' /\ Switching' /\ Lives'
  BY <1>9, <1>10, <1>11, <1>13, <1>14 DEF ShelfInv
<1>15. Informed /\ Fetching /\ Switching
  BY <1>1 DEF ShelfInv
<1>16. Coming' = Coming /\ \A r : Told(r)' = Told(r)
  BY <1>4, <1>6 DEF Coming, Told
<1>17. Informed'
  BY <1>1, <1>4, <1>5, <1>15, <1>16 DEF Informed, Knows
<1>18. Fetching'
  BY <1>1, <1>4, <1>5, <1>12, <1>15, <1>16 DEF Fetching, Current
<1>19. Switching'
  BY <1>1, <1>5, <1>12, <1>15 DEF Switching, Switches
<1>20. Lives'
  BY <1>5, <1>7 DEF Lives, Living, Sung
<1> QED
  BY <1>17, <1>18, <1>19, <1>20

-----------------------------------------------------------------------------
(* What the page hears.                                                    *)

\* What is heard is gone from the events on their way.
LEMMA HeardFacts ==
  ASSUME ShelfInv, desk' = desk, mail.events # <<>>,
         mail' = [mail EXCEPT !.events = Tail(mail.events)], reader'.joined = reader.joined
  PROVE  LET h == Head(mail.events) IN
         /\ mail' \in Mails /\ h \in ShelfEvents /\ reader.joined
         /\ Holds(desk)' /\ Truths' /\ Lighting'
         /\ h.kind = "list" => True(desk, h)
         /\ Coming => Coming' \/ (h.kind = "list" /\ h.number = desk.number)
         /\ \A r : Told(r) => Told(r)' \/ (h.kind = "changed" /\ h.recording = r)
         /\ \A t : Sung(t) => Sung(t)' \/ (h.kind = "finished" /\ h.take = t)
         /\ h.kind = "started" => \A t : t = h.take => Sung(t)'
<1> DEFINE h == Head(mail.events)
<1>1. /\ mail \in Mails /\ mail.events \in Seq(ShelfEvents) /\ reader.joined
      /\ Truths /\ Lighting /\ Holds(desk)
  BY DEF ShelfInv, ShelfType, Mails, Placed
<1>2. mail'.events = Tail(mail.events) /\ mail'.up = mail.up
  BY <1>1 DEF Mails
<1>3. \A q \in Seq(ShelfEvents) : \A r : q # <<>> /\ r = Tail(q) =>
         /\ r \in Seq(ShelfEvents) /\ Head(q) \in ShelfEvents /\ Head(q) = q[1] /\ 1 \in DOMAIN q
         /\ \A a : Tells(q, a) => Tells(r, a) \/ (Head(q).kind = "changed" /\ Head(q).recording = a)
         /\ \A n : TellsList(q, n) => TellsList(r, n) \/ (Head(q).kind = "list" /\ Head(q).number = n)
         /\ \A t : Ends(q, t, 0) => Ends(r, t, 0) \/ (Head(q).kind = "finished" /\ Head(q).take = t)
         /\ \A t : Ends(q, t, 1) => Ends(r, t, 0)
         /\ \A i \in DOMAIN r : i + 1 \in DOMAIN q /\ r[i] = q[i + 1]
                                /\ \A t : Ends(q, t, i + 1) => Ends(r, t, i)
  BY EventHeard
<1>4. /\ mail'.events \in Seq(ShelfEvents) /\ h \in ShelfEvents
      /\ h = mail.events[1] /\ 1 \in DOMAIN mail.events
      /\ \A a : Tells(mail.events, a) =>
           Tells(mail'.events, a) \/ (h.kind = "changed" /\ h.recording = a)
      /\ \A n : TellsList(mail.events, n) =>
           TellsList(mail'.events, n) \/ (h.kind = "list" /\ h.number = n)
      /\ \A t : Ends(mail.events, t, 0) =>
           Ends(mail'.events, t, 0) \/ (h.kind = "finished" /\ h.take = t)
      /\ \A t : Ends(mail.events, t, 1) => Ends(mail'.events, t, 0)
      /\ \A i \in DOMAIN mail'.events :
           /\ i + 1 \in DOMAIN mail.events /\ mail'.events[i] = mail.events[i + 1]
           /\ \A t : Ends(mail.events, t, i + 1) => Ends(mail'.events, t, i)
  <2> DEFINE Heard(q, r) ==
         /\ r \in Seq(ShelfEvents) /\ Head(q) \in ShelfEvents /\ Head(q) = q[1] /\ 1 \in DOMAIN q
         /\ \A a : Tells(q, a) => Tells(r, a) \/ (Head(q).kind = "changed" /\ Head(q).recording = a)
         /\ \A n : TellsList(q, n) => TellsList(r, n) \/ (Head(q).kind = "list" /\ Head(q).number = n)
         /\ \A t : Ends(q, t, 0) => Ends(r, t, 0) \/ (Head(q).kind = "finished" /\ Head(q).take = t)
         /\ \A t : Ends(q, t, 1) => Ends(r, t, 0)
         /\ \A i \in DOMAIN r : i + 1 \in DOMAIN q /\ r[i] = q[i + 1]
                                /\ \A t : Ends(q, t, i + 1) => Ends(r, t, i)
  <2>1. \A q \in Seq(ShelfEvents) : \A r : q # <<>> /\ r = Tail(q) => Heard(q, r)
    BY <1>3
  <2> HIDE DEF Heard
  <2>2. Heard(mail.events, mail'.events)
    BY <1>1, <1>2, <2>1
  <2> QED
    BY <2>2 DEF Heard
<1> HIDE DEF h
<1>5. mail' \in Mails
  BY <1>1, <1>2, <1>4 DEF Mails
<1>6. Truths'
  BY <1>1, <1>4 DEF Truths
<1>7. Lighting'
  BY <1>1, <1>4 DEF Lighting, Ending
<1>8. h.kind = "list" => True(desk, h)
  BY <1>1, <1>4 DEF Truths
<1>9. Coming => Coming' \/ (h.kind = "list" /\ h.number = desk.number)
  BY <1>4 DEF Coming
<1>10. \A r : Told(r) => Told(r)' \/ (h.kind = "changed" /\ h.recording = r)
  BY <1>4 DEF Told
<1>11. \A t : Sung(t) => Sung(t)' \/ (h.kind = "finished" /\ h.take = t)
  BY <1>2, <1>4 DEF Sung, Ending
<1>12. h.kind = "started" => \A t : t = h.take => Sung(t)'
  BY <1>1, <1>4 DEF Sung, Ending, Lighting
<1> QED
  BY <1>1, <1>4, <1>5, <1>6, <1>7, <1>8, <1>9, <1>10, <1>11, <1>12 DEF h

\* What is heard changes what the page knows, lights a take or asks for a load;
\* it touches neither what is mounted nor the load that is under way.
LEMMA HearingKeeps ==
  ASSUME ShelfInv, HearEventOf, reader' \in Readers,
         slips' \in SlipTypes, slips'.dropped = slips.dropped, Clean(slips') => Clean(slips),
         reader'.stage = reader.stage, reader'.joined = reader.joined,
         reader'.answer = reader.answer, reader'.fetched = reader.fetched,
         reader'.wanted = reader.wanted, reader'.mounted = reader.mounted,
         reader'.onMount = reader.onMount, reader'.visit = reader.visit,
         reader'.load = reader.load, reader'.known \in Recordings \/ reader'.known = reader.known,
         \/ reader'.queue = reader.queue
         \/ \E e \in Reloads : (e.switched => e.take = Nothing)
                               /\ reader'.queue = Append(reader.queue, e),
         Learnt', Clean(slips') => Informed',
         Clean(slips') =>
           \A r : r \in {reader.wanted, reader.load.recording, reader.mounted.recording}
                  /\ Head(mail.events).kind = "changed" /\ Head(mail.events).recording = r =>
                    AnyPlain(Waits(reader')),
         reader'.known = reader.known \/ (Here(reader) => AnySwitch(Waits(reader'))),
         Clean(slips') => Lives'
  PROVE  ShelfInv'
<1> DEFINE h == Head(mail.events)
<1>1. /\ desk' = desk /\ mail.events # <<>> /\ mail \in Mails
      /\ mail' = [mail EXCEPT !.events = Tail(mail.events)]
  BY DEF HearEventOf, ShelfInv, ShelfType, Mails
<1>2. /\ mail' \in Mails /\ reader.joined
      /\ Holds(desk)' /\ Truths' /\ Lighting'
      /\ \A r : Told(r) => Told(r)' \/ (h.kind = "changed" /\ h.recording = r)
  BY <1>1, HeardFacts
<1>3. /\ AnyPlain(Waits(reader)) => AnyPlain(Waits(reader'))
      /\ AnySwitch(Waits(reader)) => AnySwitch(Waits(reader'))
      /\ Waits(reader) # <<>> => Waits(reader') # <<>>
      /\ \A i \in DOMAIN reader'.queue :
           reader'.queue[i].switched => reader'.queue[i].take = Nothing
      /\ Loading(reader) => Head(reader'.queue) = Head(reader.queue) /\ reader'.queue # <<>>
  <2>1. CASE reader'.queue = reader.queue
    BY <2>1 DEF Waits, Loading, ShelfInv, Placed
  <2>2. ASSUME NEW e \in Reloads, e.switched => e.take = Nothing,
               reader'.queue = Append(reader.queue, e)
        PROVE  /\ reader'.queue # <<>> /\ Waits(reader') # <<>>
               /\ AnyPlain(Waits(reader)) => AnyPlain(Waits(reader'))
               /\ AnySwitch(Waits(reader)) => AnySwitch(Waits(reader'))
               /\ \A i \in DOMAIN reader'.queue :
                    reader'.queue[i].switched => reader'.queue[i].take = Nothing
               /\ Loading(reader) => Head(reader'.queue) = Head(reader.queue)
    BY <2>2, WaitsGrow
  <2> QED
    BY <2>1, <2>2
<1>4. /\ Here(reader') = Here(reader) /\ Loading(reader') = Loading(reader)
      /\ InFlight(reader') = InFlight(reader) /\ Knows(reader') = Knows(reader)
  BY DEF Here, Loading, InFlight, Knows
<1>5. ShelfType'
  BY <1>1, <1>2 DEF ShelfInv, ShelfType
<1>6. Placed'
  <2>1. Knows(reader) => reader'.known \in Recordings
    BY DEF ShelfInv, Placed
  <2>2. reader'.stage = "away" => reader'.player = Nothing /\ reader'.picture = Nothing
    BY <1>2 DEF ShelfInv, Placed
  <2> QED
    BY <1>2, <1>3, <1>4, <2>1, <2>2 DEF ShelfInv, Placed
<1> SUFFICES ASSUME Clean(slips') PROVE Fetching' /\ Switching' /\ Lives'
  BY <1>2, <1>5, <1>6 DEF ShelfInv
<1>7. Fetching /\ Switching
  BY DEF ShelfInv
<1>8. Fetching'
  <2>1. ASSUME NEW r \in {reader.wanted, reader.load.recording, reader.mounted.recording},
               NEW v, Current(r, v)
        PROVE  Current(r, v)'
    BY <1>1, <1>2, <1>3, <2>1 DEF Current
  <2>2. reader.stage = "asked" => Current(reader.wanted, reader.fetched)' \/ reader.onMount.is
    BY <1>7, <2>1 DEF Fetching
  <2>3. InFlight(reader) /\ reader.load.at = "read" =>
          Current(reader.load.recording, reader.load.version)'
    BY <1>7, <2>1 DEF Fetching
  <2>4. Here(reader) =>
          \/ Current(reader.mounted.recording, reader.mounted.version)'
          \/ InFlight(reader) \/ slips.dropped
    BY <1>7, <2>1 DEF Fetching
  <2> QED
    BY <1>4, <2>2, <2>3, <2>4 DEF Fetching
<1>9. Switching'
  <2>1. CASE reader'.known = reader.known
    <3>1. InFlight(reader) => Head(reader'.queue) = Head(reader.queue)
      BY <1>3 DEF InFlight
    <3>2. InFlight(reader) /\ Switches(reader, reader.load, Head(reader.queue)) =>
            Switches(reader', reader'.load, Head(reader'.queue))
      BY <3>1 DEF Switches
    <3> QED
      BY <1>3, <1>4, <1>7, <2>1, <3>2 DEF Switching
  <2>2. CASE Here(reader) => AnySwitch(Waits(reader'))
    <3>1. slips.dropped => Here(reader)
      BY DEF ShelfInv, Placed
    <3>2. AnySwitch(Waits(reader')) => Waits(reader') # <<>>
      BY DEF AnySwitch
    <3> QED
      BY <1>4, <2>2, <3>1, <3>2 DEF Switching, InFlight
  <2> QED
    BY <2>1, <2>2
<1> QED
  BY <1>8, <1>9

LEMMA HearListKeeps ==
  ASSUME ShelfInv, HearEventOf, Head(mail.events).kind = "list"
  PROVE  ShelfInv'
<1> DEFINE h == Head(mail.events)
           e == Reload(Nothing, TRUE)
           anew == Here(reader) /\ reader.known # h.active
           queue == IF anew THEN Append(reader.queue, e) ELSE reader.queue
           out == slips.outrun \/ h.number < reader.heard
<1>1. /\ desk' = desk /\ mail.events # <<>> /\ mail \in Mails /\ desk \in Desks
      /\ mail' = [mail EXCEPT !.events = Tail(mail.events)]
      /\ reader \in Readers /\ slips \in SlipTypes /\ reader.queue \in Seq(Reloads)
      /\ reader' = Applied(reader, h) /\ slips' = Outrun(h)
  BY DEF HearEventOf, ShelfInv, ShelfType, Mails, Readers
<1>2. e \in Reloads /\ e.take = Nothing /\ e.switched
  BY DEF Reload, Reloads, Nothing
<1>3. queue \in Seq(Reloads)
  <2> HIDE DEF e
  <2>1. Append(reader.queue, e) \in Seq(Reloads)
    BY <1>1, <1>2
  <2> QED
    BY <1>1, <2>1
<1>4. h \in ShelfEvents /\ mail.events \in Seq(ShelfEvents)
  <2>1. mail.events \in Seq(ShelfEvents)
    BY <1>1 DEF Mails
  <2>2. \A q \in Seq(ShelfEvents) : q # <<>> => Head(q) \in ShelfEvents
    BY EventHeard
  <2> QED
    BY <1>1, <2>1, <2>2
<1>5. h.number \in Nat /\ h.active \in Nat
  BY <1>4 DEF ShelfEvents
<1>6. reader' = [reader EXCEPT !.known = h.active, !.heard = h.number, !.queue = queue]
  <2>1. Mounted([reader EXCEPT !.known = h.active, !.heard = h.number]) = Here(reader)
        /\ Mounted(reader) = Here(reader)
    BY <1>1 DEF ShelfInv, Placed, Mounted, Readers
  <2> HIDE DEF h, e
  <2> QED
    BY <1>1, <2>1 DEF Applied, Queued, Readers, e
<1> HIDE DEF queue, e
<1>7. /\ reader' \in Readers
      /\ reader'.stage = reader.stage /\ reader'.joined = reader.joined
      /\ reader'.answer = reader.answer /\ reader'.fetched = reader.fetched
      /\ reader'.known = h.active /\ reader'.heard = h.number
      /\ reader'.wanted = reader.wanted /\ reader'.mounted = reader.mounted
      /\ reader'.onMount = reader.onMount /\ reader'.player = reader.player
      /\ reader'.picture = reader.picture /\ reader'.visit = reader.visit
      /\ reader'.queue = queue /\ reader'.load = reader.load
  <2> HIDE DEF h
  <2> QED
    BY <1>1, <1>3, <1>5, <1>6, ZenonT(60) DEF Readers
<1>8. /\ slips' \in SlipTypes /\ slips'.dropped = slips.dropped
      /\ Clean(slips') => Clean(slips) /\ ~out
  <2>1. out \in BOOLEAN
    BY <1>1 DEF SlipTypes
  <2>2. slips' = [slips EXCEPT !.outrun = out]
    BY <1>1 DEF Outrun, SlipTypes
  <2> HIDE DEF out
  <2>3. /\ slips' \in SlipTypes /\ slips'.dropped = slips.dropped /\ slips'.outrun = out
        /\ slips'.early = slips.early /\ slips'.lost = slips.lost /\ slips'.failed = slips.failed
    BY <1>1, <2>1, <2>2 DEF SlipTypes
  <2> QED
    BY <2>3 DEF Clean, out
<1>9. /\ True(desk, h) /\ (Coming => Coming' \/ h.number = desk.number)
      /\ \A t : Sung(t) => Sung(t)'
  <2>1. reader'.joined = reader.joined
    BY <1>7
  <2> QED
    BY <1>1, <2>1, HeardFacts
<1>10. /\ anew => AnySwitch(Waits(reader'))
       /\ \A t : AnyOf(Waits(reader), t) => AnyOf(Waits(reader'), t)
       /\ Loading(reader) => Head(reader'.queue) = Head(reader.queue)
  <2>1. CASE anew
    <3>1. reader'.queue = Append(reader.queue, e)
      BY <1>7, <2>1 DEF queue
    <3> QED
      BY <1>2, <1>7, <3>1, WaitsGrow
  <2>2. CASE ~anew
    BY <1>7, <2>2 DEF queue, Waits, Loading
  <2> QED
    BY <2>1, <2>2
<1>11. /\ reader'.queue = reader.queue \/ \E f \in Reloads :
            (f.switched => f.take = Nothing) /\ reader'.queue = Append(reader.queue, f)
  BY <1>2, <1>7 DEF queue
<1>12. h.active \in Recordings /\ Learnt'
  BY <1>1, <1>7, <1>9 DEF True, Learnt, ShelfInv
<1>13. reader'.known = reader.known \/ (Here(reader) => AnySwitch(Waits(reader')))
  BY <1>7, <1>10
<1>14. ASSUME Clean(slips') PROVE Informed' /\ Lives'
  <2>1. Informed /\ Lives
    BY <1>8, <1>14 DEF ShelfInv
  <2>2. /\ desk.number \in Nat /\ reader.heard \in Nat /\ reader.heard <= desk.number
        /\ h.number <= desk.number /\ h.number >= reader.heard
    <3>1. desk.number \in Nat /\ reader.heard \in Nat
      BY <1>1 DEF Desks, Readers
    <3>2. reader.heard <= desk.number
      BY DEF ShelfInv, Learnt
    <3>3. h.number <= desk.number
      BY <1>9 DEF True
    <3> HIDE DEF h
    <3>4. h.number >= reader.heard
      BY <1>5, <1>8, <1>14, <3>1
    <3> QED
      BY <3>1, <3>2, <3>3, <3>4
  <2>3. reader.heard = desk.number \/ Coming => h.number = desk.number \/ Coming'
    <3> HIDE DEF h
    <3> QED
      BY <1>5, <1>9, <2>2
  <2>4. Informed'
    BY <1>1, <1>7, <2>1, <2>3 DEF Informed, Knows
  <2>5. Lives'
    <3>1. InFlight(reader) => InFlight(reader') /\ Head(reader'.queue) = Head(reader.queue)
      BY <1>7, <1>10 DEF InFlight, Here, Loading
    <3> QED
      BY <1>7, <1>8, <1>9, <1>10, <2>1, <3>1 DEF Lives, Living, Here
  <2> QED
    BY <2>4, <2>5
<1>15. h.kind # "changed"
  OBVIOUS
<1> HIDE DEF anew, out
<1> QED
  BY <1>7, <1>8, <1>11, <1>12, <1>13, <1>14, <1>15, HearingKeeps

LEMMA HearChangedKeeps ==
  ASSUME ShelfInv, HearEventOf, Head(mail.events).kind = "changed"
  PROVE  ShelfInv'
<1> DEFINE h == Head(mail.events)
           e == Reload(reader.finished, FALSE)
           anew == h.recording = reader.known
           queue == IF anew THEN Append(reader.queue, e) ELSE reader.queue
           passed == ~anew /\ h.recording \in {reader.mounted.recording, reader.wanted,
                                               reader.load.recording}
<1>1. /\ desk' = desk /\ mail.events # <<>> /\ mail \in Mails /\ desk \in Desks
      /\ mail' = [mail EXCEPT !.events = Tail(mail.events)]
      /\ reader \in Readers /\ slips \in SlipTypes /\ reader.queue \in Seq(Reloads)
      /\ reader' = (IF anew THEN Queued(reader, e) ELSE reader)
      /\ slips' = [slips EXCEPT !.lost = slips.lost \/ passed]
  BY DEF HearEventOf, ShelfInv, ShelfType, Mails, Readers, SlipTypes
<1>2. e \in Reloads /\ ~e.switched
  BY <1>1 DEF Reload, Reloads, Readers
<1>3. queue \in Seq(Reloads)
  <2> HIDE DEF e
  <2>1. Append(reader.queue, e) \in Seq(Reloads)
    BY <1>1, <1>2
  <2> QED
    BY <1>1, <2>1
<1>4. reader' = [reader EXCEPT !.queue = queue]
  <2> HIDE DEF h, e
  <2> QED
    BY <1>1 DEF Queued, Readers
<1> HIDE DEF queue, e
<1>5. /\ reader' \in Readers
      /\ reader'.stage = reader.stage /\ reader'.joined = reader.joined
      /\ reader'.answer = reader.answer /\ reader'.fetched = reader.fetched
      /\ reader'.known = reader.known /\ reader'.heard = reader.heard
      /\ reader'.wanted = reader.wanted /\ reader'.mounted = reader.mounted
      /\ reader'.onMount = reader.onMount /\ reader'.player = reader.player
      /\ reader'.picture = reader.picture /\ reader'.visit = reader.visit
      /\ reader'.queue = queue /\ reader'.load = reader.load
  BY <1>1, <1>3, <1>4 DEF Readers
<1>6. /\ slips' \in SlipTypes /\ slips'.dropped = slips.dropped
      /\ Clean(slips') => Clean(slips) /\ ~passed
  <2> DEFINE b == slips.lost \/ passed
  <2>1. b \in BOOLEAN
    BY <1>1 DEF SlipTypes
  <2>2. slips' = [slips EXCEPT !.lost = b]
    BY <1>1
  <2> HIDE DEF b
  <2>3. /\ slips' \in SlipTypes /\ slips'.dropped = slips.dropped /\ slips'.lost = b
        /\ slips'.early = slips.early /\ slips'.outrun = slips.outrun /\ slips'.failed = slips.failed
    BY <1>1, <2>1, <2>2 DEF SlipTypes
  <2> QED
    BY <2>3 DEF Clean, b
<1>7. (Coming => Coming') /\ \A t : Sung(t) => Sung(t)'
  <2>1. reader'.joined = reader.joined
    BY <1>5
  <2> QED
    BY <1>1, <2>1, HeardFacts
<1>8. /\ anew => AnyPlain(Waits(reader'))
      /\ \A t : AnyOf(Waits(reader), t) => AnyOf(Waits(reader'), t)
      /\ Loading(reader) => Head(reader'.queue) = Head(reader.queue)
  <2>1. CASE anew
    <3>1. reader'.queue = Append(reader.queue, e)
      BY <1>5, <2>1 DEF queue
    <3> QED
      BY <1>2, <1>5, <3>1, WaitsGrow
  <2>2. CASE ~anew
    BY <1>5, <2>2 DEF queue, Waits, Loading
  <2> QED
    BY <2>1, <2>2
<1>9. /\ reader'.queue = reader.queue \/ \E f \in Reloads :
            (f.switched => f.take = Nothing) /\ reader'.queue = Append(reader.queue, f)
  BY <1>2, <1>5 DEF queue
<1>10. Learnt'
  BY <1>1, <1>5 DEF Learnt, ShelfInv, Knows
<1>11. ASSUME Clean(slips') PROVE Informed' /\ Lives'
  <2>1. Informed /\ Lives
    BY <1>6, <1>11 DEF ShelfInv
  <2>2. Informed'
    BY <1>1, <1>5, <1>7, <2>1 DEF Informed, Knows
  <2>3. InFlight(reader) => InFlight(reader') /\ Head(reader'.queue) = Head(reader.queue)
    BY <1>5, <1>8 DEF InFlight, Here, Loading
  <2>4. Lives'
    BY <1>5, <1>6, <1>7, <1>8, <2>1, <2>3 DEF Lives, Living, Here
  <2> QED
    BY <2>2, <2>4
<1>12. Clean(slips') =>
         \A r : r \in {reader.wanted, reader.load.recording, reader.mounted.recording}
                /\ h.recording = r => AnyPlain(Waits(reader'))
  BY <1>6, <1>8
<1> HIDE DEF anew, passed
<1> QED
  BY <1>5, <1>6, <1>9, <1>10, <1>11, <1>12, HearingKeeps

LEMMA HearStartedKeeps ==
  ASSUME ShelfInv, HearEventOf, Head(mail.events).kind = "started"
  PROVE  ShelfInv'
<1> DEFINE h == Head(mail.events)
           t == h.take
           lit == h.recording = reader.known
<1>1. /\ desk' = desk /\ mail.events # <<>> /\ mail \in Mails /\ desk \in Desks
      /\ mail' = [mail EXCEPT !.events = Tail(mail.events)]
      /\ reader \in Readers /\ slips \in SlipTypes
      /\ reader' = (IF lit THEN Lit(reader, t) ELSE reader)
      /\ slips' = slips
  BY DEF HearEventOf, ShelfInv, ShelfType, Mails
<1>2. t \in Nat
  <2>1. mail.events \in Seq(ShelfEvents)
    BY <1>1 DEF Mails
  <2>2. \A q \in Seq(ShelfEvents) : q # <<>> => Head(q) \in ShelfEvents
    BY EventHeard
  <2>3. h \in ShelfEvents
    BY <1>1, <2>1, <2>2
  <2> QED
    BY <2>3 DEF ShelfEvents
<1> HIDE DEF t, lit
<1>3. /\ reader' \in Readers
      /\ reader'.stage = reader.stage /\ reader'.joined = reader.joined
      /\ reader'.answer = reader.answer /\ reader'.fetched = reader.fetched
      /\ reader'.known = reader.known /\ reader'.heard = reader.heard
      /\ reader'.wanted = reader.wanted /\ reader'.mounted = reader.mounted
      /\ reader'.onMount = reader.onMount /\ reader'.visit = reader.visit
      /\ reader'.queue = reader.queue /\ reader'.load = reader.load
      /\ reader'.player \in {reader.player, t} /\ reader'.picture \in {reader.picture, t}
  BY <1>1, <1>2 DEF Readers, Lit
<1>4. /\ Coming => Coming'
      /\ \A s : Sung(s) => Sung(s)'
      /\ \A s : s = t => Sung(s)'
  <2>1. reader'.joined = reader.joined
    BY <1>3
  <2> QED
    BY <1>1, <2>1, HeardFacts DEF t
<1>5. Learnt'
  BY <1>1, <1>3 DEF Learnt, ShelfInv, Knows
<1>6. ASSUME Clean(slips') PROVE Informed' /\ Lives'
  <2>1. Informed /\ Lives
    BY <1>1, <1>6 DEF ShelfInv
  <2>2. Informed'
    BY <1>1, <1>3, <1>4, <2>1 DEF Informed, Knows
  <2>3. /\ InFlight(reader') = InFlight(reader) /\ Waits(reader') = Waits(reader)
        /\ Here(reader') = Here(reader)
    BY <1>3 DEF InFlight, Here, Loading, Waits
  <2>4. \A s : Living(s) \/ s = t => Living(s)'
    BY <1>1, <1>3, <1>4, <2>3 DEF Living
  <2> QED
    BY <1>3, <2>1, <2>2, <2>4 DEF Lives
<1> QED
  BY <1>1, <1>3, <1>5, <1>6, HearingKeeps

LEMMA HearFinishedKeeps ==
  ASSUME ShelfInv, HearEventOf, Head(mail.events).kind = "finished"
  PROVE  ShelfInv'
<1> DEFINE h == Head(mail.events)
           t == h.take
           e == Reload(t, FALSE)
           queue == Append(reader.queue, e)
<1>1. /\ desk' = desk /\ mail.events # <<>> /\ mail \in Mails /\ desk \in Desks
      /\ mail' = [mail EXCEPT !.events = Tail(mail.events)]
      /\ reader \in Readers /\ slips \in SlipTypes /\ reader.queue \in Seq(Reloads)
      /\ reader' = Queued([reader EXCEPT !.finished = t], e)
      /\ slips' = slips
  BY DEF HearEventOf, ShelfInv, ShelfType, Mails, Readers
<1>2. t \in Nat
  <2>1. mail.events \in Seq(ShelfEvents)
    BY <1>1 DEF Mails
  <2>2. \A q \in Seq(ShelfEvents) : q # <<>> => Head(q) \in ShelfEvents
    BY EventHeard
  <2>3. h \in ShelfEvents
    BY <1>1, <2>1, <2>2
  <2> QED
    BY <2>3 DEF ShelfEvents
<1>3. e \in Reloads /\ ~e.switched /\ e.take = t
  BY <1>2 DEF Reload, Reloads
<1> HIDE DEF e, t
<1>4. queue \in Seq(Reloads)
  BY <1>1, <1>3
<1>5. reader' = [reader EXCEPT !.finished = t, !.queue = queue]
  BY <1>1, <1>2 DEF Queued, Readers
<1> HIDE DEF queue
<1>6. /\ reader' \in Readers
      /\ reader'.stage = reader.stage /\ reader'.joined = reader.joined
      /\ reader'.answer = reader.answer /\ reader'.fetched = reader.fetched
      /\ reader'.known = reader.known /\ reader'.heard = reader.heard
      /\ reader'.wanted = reader.wanted /\ reader'.mounted = reader.mounted
      /\ reader'.onMount = reader.onMount /\ reader'.visit = reader.visit
      /\ reader'.queue = queue /\ reader'.load = reader.load
      /\ reader'.player = reader.player /\ reader'.picture = reader.picture
  BY <1>1, <1>2, <1>4, <1>5, ZenonT(60) DEF Readers
<1>7. /\ Coming => Coming'
      /\ \A s : Sung(s) => Sung(s)' \/ s = t
  <2>1. reader'.joined = reader.joined
    BY <1>6
  <2> QED
    BY <1>1, <2>1, HeardFacts DEF t
<1>8. /\ \A s : AnyOf(Waits(reader), s) \/ s = t => AnyOf(Waits(reader'), s)
      /\ Loading(reader) => Head(reader'.queue) = Head(reader.queue)
      /\ reader'.queue = Append(reader.queue, e)
  <2>1. reader'.queue = Append(reader.queue, e)
    BY <1>6 DEF queue
  <2> QED
    BY <1>3, <1>6, <2>1, WaitsGrow
<1>9. Learnt'
  BY <1>1, <1>6 DEF Learnt, ShelfInv, Knows
<1>10. ASSUME Clean(slips') PROVE Informed' /\ Lives'
  <2>1. Informed /\ Lives
    BY <1>1, <1>10 DEF ShelfInv
  <2>2. Informed'
    BY <1>1, <1>6, <1>7, <2>1 DEF Informed, Knows
  <2>3. /\ InFlight(reader) => InFlight(reader') /\ Head(reader'.queue) = Head(reader.queue)
        /\ Here(reader') = Here(reader)
    BY <1>6, <1>8 DEF InFlight, Here, Loading
  <2>4. \A s : Living(s) => Living(s)'
    BY <1>1, <1>6, <1>7, <1>8, <2>3 DEF Living
  <2> QED
    BY <1>6, <2>1, <2>2, <2>4 DEF Lives
<1> QED
  BY <1>1, <1>3, <1>6, <1>8, <1>9, <1>10, HearingKeeps

LEMMA HearEventOfKeeps ==
  ASSUME ShelfInv, HearEventOf
  PROVE  ShelfInv'
<1>1. Head(mail.events) \in ShelfEvents
  <2>1. mail.events \in Seq(ShelfEvents) /\ mail.events # <<>>
    BY DEF ShelfInv, ShelfType, Mails, HearEventOf
  <2>2. \A q \in Seq(ShelfEvents) : q # <<>> => Head(q) \in ShelfEvents
    BY EventHeard
  <2> QED
    BY <2>1, <2>2
<1>2. Head(mail.events).kind \in {"list", "changed", "started", "finished"}
  BY <1>1 DEF ShelfEvents
<1> QED
  BY <1>2, HearListKeeps, HearChangedKeeps, HearStartedKeeps, HearFinishedKeeps

-----------------------------------------------------------------------------

LEMMA ShelfKeeps == ShelfInv /\ [ShelfNext]_shelfVars => ShelfInv'
<1> SUFFICES ASSUME ShelfInv, [ShelfNext]_shelfVars PROVE ShelfInv'
  OBVIOUS
<1>1. CASE SwitchRecording
  BY <1>1, SwitchRecordingKeeps
<1>2. CASE ChangePieces
  BY <1>2, ChangePiecesKeeps
<1>3. CASE OthersTake
  BY <1>3, OthersTakeKeeps
<1>4. CASE \E wrote \in BOOLEAN : TakeEnds(wrote)
  BY <1>4, TakeEndsKeeps
<1>5. CASE TellFinished
  BY <1>5, TellFinishedKeeps
<1>6. CASE TellTaken
  BY <1>6, TellTakenKeeps
<1>7. CASE ServeTake
  BY <1>7, ServeTakeKeeps
<1>8. CASE ServeSyncOf
  BY <1>8, ServeSyncOfKeeps
<1>9. CASE \E k \in Edits : TellChanged(k) \/ ReadShelf(k) \/ TellShelf(k)
  BY <1>9, TellChangedKeeps, ReadShelfKeeps, TellShelfKeeps
<1>10. CASE LoadBegins
  BY <1>10, LoadBeginsKeeps
<1>11. CASE LoadRead
  BY <1>11, LoadReadKeeps
<1>12. CASE LoadArrives
  BY <1>12, LoadArrivesKeeps
<1>13. CASE LoadFails \/ MountFails
  BY <1>13, FailsKeeps
<1>14. CASE HearEventOf
  BY <1>14, HearEventOfKeeps
<1>15. CASE OpenProject \/ JoinRoom \/ ListRead \/ PiecesRead
  <2>1. UNCHANGED <<desk, mail, slips>>
    BY <1>15 DEF OpenProject, JoinRoom, ListRead, PiecesRead
  <2> QED
    BY <1>15, <2>1, VisitKeeps
<1>16. CASE ListArrives
  BY <1>16, ListArrivesKeeps
<1>17. CASE PiecesArrive
  BY <1>17, PiecesArriveKeeps
<1>18. CASE CloseProject
  BY <1>18, CloseProjectKeeps
<1>19. CASE OwnTake
  BY <1>19, OwnTakeKeeps
<1>20. CASE UNCHANGED shelfVars
  BY <1>20 DEF shelfVars, ShelfInv, ShelfType, Placed, Truths, Learnt, Lighting, Informed, Coming,
     Fetching, Current, Told, Switching, Lives, Living, Sung, Ending
<1> QED
  BY <1>1, <1>2, <1>3, <1>4, <1>5, <1>6, <1>7, <1>8, <1>9, <1>10, <1>11, <1>12, <1>13, <1>14,
     <1>15, <1>16, <1>17, <1>18, <1>19, <1>20 DEF ShelfNext

\* When everything is told and loaded the page shows the pieces of the active
\* recording as they are, and a live take only while it is sung, whatever
\* overtook what on the way (audioDecode.worker.ts reloadPieces and mount,
\* recordingList.worker.ts, runtime.worker.ts applyTakeEvent).
THEOREM ShelfCorrect == ShelfSpec => []ShelfAgrees
<1> QED
  BY ShelfStarts, ShelfKeeps, ShelfHolds, PTL DEF ShelfSpec
=============================================================================
