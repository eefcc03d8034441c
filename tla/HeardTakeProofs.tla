--------------------------- MODULE HeardTakeProofs ---------------------------
(***************************************************************************)
(* What holds of a take for any song, any loop, any latencies and however  *)
(* often it is played, sought, held and looped: what was sung is stored    *)
(* where it was heard, and what was heard while the take was on is stored. *)
(***************************************************************************)
EXTENDS HeardTake, FiniteSetTheorems, SequenceTheorems, TLAPS

-----------------------------------------------------------------------------
(* The song and its loop.                                                  *)

\* The same place of the loop, however often it went round.
Same(a, b) == (a - b) % LoopLength = 0

LEMMA LoopFacts ==
  /\ LoopLength \in Nat /\ LoopLength >= 2 /\ RoundTrip \in Nat
  /\ SongLength \in Nat /\ FromFrame \in Nat /\ ToFrame \in Nat
  /\ OutputLatency \in Nat /\ InputLatency \in Nat /\ ChunkLength \in Nat
  /\ ToFrame = FromFrame + LoopLength /\ ToFrame < SongLength
  /\ OutputLatency > 0 /\ InputLatency > 0 /\ ChunkLength > 0
  /\ RoundTrip = OutputLatency + InputLatency
  /\ NoDrain = RoundTrip + 1 /\ Silence = SongLength
BY HeardAssumption DEF HeardAssumption, LoopLength, RoundTrip, NoDrain, Silence

\* Remainders, by multiples.
LEMMA Quotients ==
  ASSUME NEW L \in Nat, L > 0, NEW x \in Int
  PROVE  /\ x % L = 0 <=> \E q \in Int : x = q * L
         /\ x % L \in 0..(L - 1) /\ x \div L \in Int /\ x = (L * (x \div L)) + (x % L)
<1>1. x % L \in 0..(L - 1) /\ x \div L \in Int /\ x = (L * (x \div L)) + (x % L)
  OBVIOUS
<1>2. ASSUME NEW q \in Int, x = q * L PROVE x % L = 0
  <2> DEFINE r == x % L
             d == x \div L
  <2>1. r \in 0..(L - 1) /\ d \in Int /\ q * L = L * d + r
    BY <1>1, <1>2
  <2> HIDE DEF r, d
  <2>2. CASE q > d
    <3>1. PICK m \in Nat : q = d + 1 + m
      <4>1. q - d - 1 \in Nat /\ q = d + 1 + (q - d - 1)
        BY <2>1, <2>2
      <4> QED BY <4>1
    <3>2. (d + 1 + m) * L = L * d + L + m * L /\ m * L >= 0
      BY <2>1
    <3> QED
      BY <2>1, <3>1, <3>2
  <2>3. CASE q < d
    <3>1. PICK m \in Nat : d = q + 1 + m
      <4>1. d - q - 1 \in Nat /\ d = q + 1 + (d - q - 1)
        BY <2>1, <2>3
      <4> QED BY <4>1
    <3>2. L * (q + 1 + m) = q * L + L + m * L /\ m * L >= 0
      BY <2>1
    <3> QED
      BY <2>1, <3>1, <3>2
  <2>4. CASE q = d
    BY <2>1, <2>4 DEF r
  <2> QED
    BY <2>1, <2>2, <2>3, <2>4
<1>3. ASSUME x % L = 0 PROVE \E q \in Int : x = q * L
  <2>1. x = (x \div L) * L
    BY <1>1, <1>3
  <2> QED
    BY <1>1, <2>1
<1> QED
  BY <1>1, <1>2, <1>3

\* To be the same place is an equivalence that shifts keep, and places that are
\* the same and differ are a round apart.
LEMMA SameFacts ==
  ASSUME NEW a \in Int, NEW b \in Int
  PROVE  /\ Same(a, a)
         /\ \A c \in Int : Same(a, b) => Same(a + c, b + c)
         /\ \A c, d \in Int : Same(a, b) /\ a - b = c - d => Same(c, d)
         /\ \A c \in Int : Same(a, b) /\ Same(b, c) => Same(a, c)
         /\ Same(a, b) => Same(b, a)
         /\ Same(a, b) => a <= b \/ a - b >= LoopLength
<1> DEFINE L == LoopLength
<1>1. L \in Nat /\ L > 0
  BY LoopFacts
<1> HIDE DEF L
<1>2. \A x \in Int : x % L = 0 <=> \E q \in Int : x = q * L
  BY <1>1, Quotients
<1>3. \A x, y \in Int : Same(x, y) <=> \E q \in Int : x - y = q * L
  BY <1>2 DEF Same, L
<1>4. Same(a, a)
  <2>1. a - a = 0 * L
    BY <1>1
  <2> QED
    BY <1>3, <2>1
<1>5. ASSUME NEW c \in Int, NEW d \in Int, Same(a, b), a - b = c - d PROVE Same(c, d)
  BY <1>5 DEF Same
<1>6. ASSUME NEW c \in Int, Same(a, b), Same(b, c) PROVE Same(a, c)
  <2>1. PICK q \in Int : a - b = q * L
    BY <1>3, <1>6
  <2>2. PICK r \in Int : b - c = r * L
    BY <1>3, <1>6
  <2>3. a - c = (q + r) * L /\ q + r \in Int
    BY <1>1, <2>1, <2>2
  <2> QED
    BY <1>3, <2>3
<1>7. ASSUME Same(a, b) PROVE Same(b, a)
  <2>1. PICK q \in Int : a - b = q * L
    BY <1>3, <1>7
  <2>2. b - a = (-q) * L /\ -q \in Int
    BY <1>1, <2>1
  <2> QED
    BY <1>3, <2>2
<1>8. ASSUME Same(a, b), a > b PROVE a - b >= L
  <2>1. PICK q \in Int : a - b = q * L
    BY <1>3, <1>8
  <2>2. q >= 1
    <3>1. SUFFICES ASSUME q <= 0 PROVE FALSE
      BY <2>1
    <3>2. q * L <= 0
      BY <1>1, <3>1
    <3> QED
      BY <1>8, <2>1, <3>2
  <2>3. PICK m \in Nat : q = m + 1
    <3>1. q - 1 \in Nat /\ q = (q - 1) + 1
      BY <2>2
    <3> QED
      BY <3>1
  <2>4. q * L = m * L + L /\ m * L >= 0
    BY <1>1, <2>3
  <2> QED
    BY <1>1, <2>1, <2>4
<1>9. \A c \in Int : Same(a, b) => Same(a + c, b + c)
  <2>1. \A c \in Int : a + c \in Int /\ b + c \in Int /\ a - b = (a + c) - (b + c)
    OBVIOUS
  <2> QED
    BY <1>5, <2>1
<1> QED
  BY <1>4, <1>5, <1>6, <1>7, <1>8, <1>9, <1>1 DEF L

-----------------------------------------------------------------------------
(* Types.                                                                  *)

Quantum == [frame : Nat, held : BOOLEAN, dropped : BOOLEAN]
Sample == [sung : Nat, late : Int]
StoredSample == [at : Int, sung : Nat, late : Int]
Players == [playing : BOOLEAN, frozen : BOOLEAN, range : {"none", "once", "cycle"},
            known : BOOLEAN, frame : Nat, render : Nat, began : Nat, rendered : Seq(Nat)]
Recorders == [active : BOOLEAN, chunk : Seq(Sample), start : Nat, written : Nat,
              posted : Nat, skip : Nat, leadIn : Nat, pass : BOOLEAN, shift : Nat,
              state : {"waiting", "writing", "ended"}, end : Int, drain : Nat]
Takes == [stored : SUBSET StoredSample, due : SUBSET Nat, complete : BOOLEAN,
          still : BOOLEAN, unheard : Nat, try : BOOLEAN, closed : BOOLEAN,
          crossed : BOOLEAN, ended : BOOLEAN]
Booths == [phase : {"none", "armed", "on", "stopping", "ending", "flushing"},
           commands : Nat]

HeardTypes ==
    /\ player \in Players /\ recorder \in Recorders /\ take \in Takes /\ booth \in Booths
    /\ air \in Seq(Quantum) /\ Len(air) <= RoundTrip

-----------------------------------------------------------------------------
(* What is rendered after what.                                            *)

\* One frame on, or round the loop.
Step(x, y) ==
    /\ Same(y, x + 1)
    /\ y = x + 1 \/ y < x
    /\ x + 1 < FromFrame => y = x + 1
    /\ x + 1 = FromFrame => y = x + 1
    /\ x + 1 >= FromFrame => y >= FromFrame

\* What the loop makes of a frame: the same place, and within the loop.
LEMMA SongFrameFacts ==
  ASSUME NEW p \in Players, NEW f \in Nat
  PROVE  /\ SongFrame(p, f) \in Nat
         /\ Same(SongFrame(p, f), f)
         /\ SongFrame(p, f) = f
              \/ (p.range = "cycle" /\ f >= ToFrame /\ FromFrame <= SongFrame(p, f))
         /\ p.range = "cycle" => SongFrame(p, f) < ToFrame
         /\ f >= FromFrame => SongFrame(p, f) >= FromFrame
         /\ p.range # "cycle" => SongFrame(p, f) = f
         /\ f < ToFrame => SongFrame(p, f) = f
<1>1. CASE p.range = "cycle" /\ f >= ToFrame
  <2> DEFINE x == f - FromFrame
             r == x % LoopLength
             d == x \div LoopLength
  <2>1. LoopLength \in Nat /\ LoopLength > 0 /\ x \in Int /\ FromFrame \in Nat
        /\ ToFrame = FromFrame + LoopLength
    BY LoopFacts
  <2>2. r \in 0..(LoopLength - 1) /\ d \in Int /\ x = (LoopLength * d) + r
    <3> HIDE DEF x
    <3> QED
      BY <2>1, Quotients
  <2>3. SongFrame(p, f) = FromFrame + r
    BY <1>1 DEF SongFrame
  <2> HIDE DEF r, d
  <2>4. (FromFrame + r) - f = (-d) * LoopLength /\ -d \in Int
    BY <2>1, <2>2
  <2>5. ((FromFrame + r) - f) % LoopLength = 0
    <3>1. (FromFrame + r) - f \in Int
      BY <2>1, <2>2
    <3> QED
      BY <2>1, <2>4, <3>1, Quotients
  <2> QED
    BY <1>1, <2>1, <2>2, <2>3, <2>5 DEF Same
<1>2. CASE ~(p.range = "cycle" /\ f >= ToFrame)
  <2>1. SongFrame(p, f) = f
    BY <1>2 DEF SongFrame
  <2>2. Same(SongFrame(p, f), f)
    <3>1. Same(f, f)
      BY SameFacts
    <3> QED
      BY <2>1, <3>1, Zenon
  <2>3. FromFrame \in Nat /\ ToFrame \in Nat
    BY LoopFacts
  <2>4. p.range = "cycle" => f < ToFrame
    BY <1>2, <2>3
  <2>5. p.range = "cycle" => SongFrame(p, f) < ToFrame
    BY <2>1, <2>4, Zenon
  <2>6. f >= FromFrame => SongFrame(p, f) >= FromFrame
    BY <2>1, Zenon
  <2>7. SongFrame(p, f) \in Nat
    BY <2>1, Zenon
  <2> QED
    BY <2>1, <2>2, <2>5, <2>6, <2>7, Zenon
<1> QED
  BY <1>1, <1>2

\* The next frame is one on, or back round the loop.
LEMMA StepFacts ==
  ASSUME NEW p \in Players, NEW f \in Nat
  PROVE  /\ SongFrame(p, f + 1) \in Nat /\ Step(f, SongFrame(p, f + 1))
         /\ f >= ToFrame /\ SongFrame(p, f) # f => SongFrame(p, f + 1) < f
<1>1. f + 1 \in Nat
  OBVIOUS
<1> DEFINE g == SongFrame(p, f + 1)
<1>2. /\ g \in Nat /\ Same(g, f + 1)
      /\ g = f + 1 \/ (p.range = "cycle" /\ f + 1 >= ToFrame /\ FromFrame <= g)
      /\ p.range = "cycle" => g < ToFrame
      /\ f + 1 >= FromFrame => g >= FromFrame
      /\ f + 1 < ToFrame => g = f + 1
  BY <1>1, SongFrameFacts
<1>3. f >= ToFrame /\ SongFrame(p, f) # f => p.range = "cycle"
  BY SongFrameFacts
<1> HIDE DEF g
<1>4. g = f + 1 \/ g < f
  <2>1. CASE p.range = "cycle" /\ f + 1 = ToFrame
    <3>1. g - (f + 1) <= 0 /\ g >= FromFrame /\ g < f + 1
      BY <1>2, <2>1, LoopFacts
    <3>2. (f + 1) - g >= LoopLength
      <4>1. Same(f + 1, g)
        BY <1>1, <1>2, SameFacts
      <4>2. (f + 1) \in Int /\ g \in Int
        BY <1>2
      <4> QED
        BY <3>1, <4>1, <4>2, SameFacts
    <3> QED
      BY <1>2, <3>1, <3>2, LoopFacts
  <2> QED
    BY <1>2, <2>1, LoopFacts
<1>5. Step(f, g)
  BY <1>2, <1>4, LoopFacts DEF Step
<1> QED
  BY <1>2, <1>3, <1>5, LoopFacts DEF g

\* The pass that begins next is whole rounds away, not before what is heard, and
\* less than a round after it.
LEMMA FindPassFacts ==
  ASSUME NEW f \in Nat
  PROVE  /\ FindPass(f) \in Nat /\ Same(FindPass(f), 0)
         /\ FromFrame + FindPass(f) >= f
         /\ FindPass(f) > 0 => f > FromFrame /\ f > FromFrame + FindPass(f) - LoopLength
<1>0. LoopLength \in Nat /\ LoopLength > 0 /\ FromFrame \in Nat
  BY LoopFacts
<1>1. CASE f <= FromFrame
  <2>1. FindPass(f) = 0
    BY <1>1 DEF FindPass
  <2> QED
    BY <1>0, <1>1, <2>1, SameFacts
<1>2. CASE f > FromFrame
  <2> DEFINE x == f - FromFrame - 1
             d == x \div LoopLength
             r == x % LoopLength
  <2>1. x \in Nat
    BY <1>0, <1>2
  <2>2. r \in 0..(LoopLength - 1) /\ d \in Int /\ x = (LoopLength * d) + r
    <3> HIDE DEF x
    <3> QED
      BY <1>0, <2>1, Quotients
  <2>3. FindPass(f) = LoopLength * (1 + d)
    BY <1>0, <1>2 DEF FindPass
  <2>4. f = FromFrame + 1 + x
    BY <1>0
  <2> HIDE DEF x, d, r
  <2>5. d >= 0
    <3>1. SUFFICES ASSUME d <= -1 PROVE FALSE
      BY <2>2
    <3>2. PICK m \in Nat : d = -1 - m
      <4>1. -1 - d \in Nat /\ d = -1 - (-1 - d)
        BY <2>2, <3>1
      <4> QED
        BY <4>1
    <3>3. LoopLength * (-1 - m) = -LoopLength - (LoopLength * m) /\ LoopLength * m >= 0
      BY <1>0
    <3> QED
      BY <1>0, <2>1, <2>2, <3>2, <3>3
  <2>6. LoopLength * (1 + d) = LoopLength + (LoopLength * d)
        /\ LoopLength * d \in Nat /\ LoopLength * (1 + d) = (1 + d) * LoopLength
    BY <1>0, <2>2, <2>5
  <2>7. Same(LoopLength * (1 + d), 0)
    <3>1. (1 + d) \in Int /\ (LoopLength * (1 + d)) - 0 = (1 + d) * LoopLength
          /\ (LoopLength * (1 + d)) - 0 \in Int
      BY <1>0, <2>2, <2>6
    <3>2. ((LoopLength * (1 + d)) - 0) % LoopLength = 0
      BY <1>0, <3>1, Quotients
    <3> QED
      BY <3>2 DEF Same
  <2> QED
    BY <1>0, <1>2, <2>1, <2>2, <2>3, <2>4, <2>6, <2>7
<1> QED
  BY <1>0, <1>1, <1>2

-----------------------------------------------------------------------------
(* Histories of bounded length.                                            *)

\* How many of the items of s are gone from t.
Gone(s, t) == (Len(s) + 1) - Len(t)

\* A push to a history of bounded length forgets the oldest when it is full.
LEMMA PushedFacts ==
  ASSUME NEW S, NEW s \in Seq(S), NEW item \in S, NEW count \in Nat, count > 0,
         Len(s) <= count
  PROVE  /\ Pushed(s, item, count) \in Seq(S)
         /\ Len(Pushed(s, item, count)) = IF Len(s) < count THEN Len(s) + 1 ELSE Len(s)
         /\ Len(Pushed(s, item, count)) <= count /\ Len(Pushed(s, item, count)) > 0
         /\ Pushed(s, item, count)[Len(Pushed(s, item, count))] = item
         /\ Gone(s, Pushed(s, item, count)) \in {0, 1}
         /\ Len(Pushed(s, item, count)) + Gone(s, Pushed(s, item, count)) = Len(s) + 1
         /\ \A i \in 1..(Len(Pushed(s, item, count)) - 1) :
              /\ i + Gone(s, Pushed(s, item, count)) \in 1..Len(s)
              /\ Pushed(s, item, count)[i] = s[i + Gone(s, Pushed(s, item, count))]
<1> DEFINE t == Pushed(s, item, count)
<1>1. CASE Len(s) < count
  <2>1. t = Append(s, item)
    BY <1>1 DEF Pushed
  <2>2. /\ t \in Seq(S) /\ Len(t) = Len(s) + 1 /\ t[Len(t)] = item
        /\ \A i \in 1..(Len(t) - 1) : t[i] = s[i]
    BY <2>1
  <2>3. Gone(s, t) = 0
    BY <2>2 DEF Gone
  <2> HIDE DEF t
  <2>4. \A i \in 1..(Len(t) - 1) : i + Gone(s, t) = i /\ i \in 1..Len(s)
    BY <2>2, <2>3
  <2> QED
    BY <1>1, <2>2, <2>3, <2>4 DEF t
<1>2. CASE ~(Len(s) < count)
  <2>1. t = Append(Tail(s), item) /\ Len(s) > 0
    BY <1>2 DEF Pushed
  <2>2. Tail(s) \in Seq(S) /\ Len(Tail(s)) = Len(s) - 1
        /\ \A i \in 1..(Len(s) - 1) : Tail(s)[i] = s[i + 1]
    BY <2>1
  <2>3. /\ t \in Seq(S) /\ Len(t) = Len(s)
        /\ t[Len(s)] = item
        /\ \A i \in 1..(Len(s) - 1) : t[i] = Tail(s)[i]
    BY <2>1, <2>2
  <2>4. Gone(s, t) = 1
    BY <2>3 DEF Gone
  <2> HIDE DEF t
  <2>5. \A i \in 1..(Len(t) - 1) : t[i] = s[i + Gone(s, t)] /\ i + Gone(s, t) \in 1..Len(s)
    BY <2>2, <2>3, <2>4
  <2> QED
    BY <1>2, <2>1, <2>3, <2>4, <2>5 DEF t
<1> QED
  BY <1>1, <1>2

\* How many of the places M are at i or after it.
After(M, i) == Cardinality({j \in M : j >= i})

\* How many places there are from one on.
LEMMA AfterFacts ==
  ASSUME NEW n \in Nat, NEW M \in SUBSET (1..n)
  PROVE  /\ \A i \in Int : IsFiniteSet({j \in M : j >= i}) /\ After(M, i) \in Nat
         /\ After(M, n + 1) = 0
         /\ M = {} => \A i \in Int : After(M, i) = 0
<1>1. IsFiniteSet(M)
  <2>1. IsFiniteSet(1..n)
    BY FS_Interval
  <2> QED
    BY <2>1, FS_Subset
<1>2. ASSUME NEW i \in Int PROVE IsFiniteSet({j \in M : j >= i}) /\ After(M, i) \in Nat
  <2>1. {j \in M : j >= i} \in SUBSET M
    OBVIOUS
  <2>2. IsFiniteSet({j \in M : j >= i})
    BY <1>1, <2>1, FS_Subset
  <2> QED
    BY <2>2, FS_CardinalityType DEF After
<1>3. After(M, n + 1) = 0
  <2>1. \A j \in M : ~(j >= n + 1)
    OBVIOUS
  <2>2. {j \in M : j >= n + 1} = {}
    BY <2>1, Zenon
  <2> QED
    BY <2>2, FS_EmptySet DEF After
<1>4. ASSUME M = {}, NEW i \in Int PROVE After(M, i) = 0
  <2>1. {j \in M : j >= i} = {}
    BY <1>4
  <2> QED
    BY <2>1, FS_EmptySet DEF After
<1> QED
  BY <1>2, <1>3, <1>4

\* Places of n and of m items, o of the n being gone and one being new.
Shifted(M, n, N, m, o) ==
    /\ n \in Nat /\ M \in SUBSET (1..n) /\ m \in Nat /\ N \in SUBSET (1..m)
    /\ o \in {0, 1} /\ m + o = n + 1 /\ m > 0
    /\ \A j \in 1..(m - 1) : j \in N <=> j + o \in M

LEMMA AfterPush ==
  ASSUME NEW n, NEW M, NEW m, NEW N, NEW o, Shifted(M, n, N, m, o), NEW i \in 1..m
  PROVE  After(N, i) = After(M, i + o) + IF m \in N THEN 1 ELSE 0
<1>0. /\ n \in Nat /\ M \in SUBSET (1..n) /\ m \in Nat /\ N \in SUBSET (1..m)
      /\ o \in {0, 1} /\ m + o = n + 1 /\ m > 0
      /\ \A j \in 1..(m - 1) : j \in N <=> j + o \in M
  BY DEF Shifted
<1> DEFINE A == {j \in M : j >= i + o}
           B == {j \in N : j >= i /\ j < m}
<1>1. IsFiniteSet(A) /\ After(M, i + o) = Cardinality(A) /\ Cardinality(A) \in Nat
  <2>1. i + o \in Int
    BY <1>0
  <2> QED
    BY <1>0, <2>1, AfterFacts DEF After
<1>2. IsFiniteSet({j \in N : j >= i}) /\ After(N, i) = Cardinality({j \in N : j >= i})
  <2>1. i \in Int
    BY <1>0
  <2> QED
    BY <1>0, <2>1, AfterFacts DEF After
<1>3. IsFiniteSet(B)
  <2>1. B \in SUBSET {j \in N : j >= i}
    OBVIOUS
  <2> QED
    BY <1>2, <2>1, FS_Subset
<1>4. Cardinality(B) = Cardinality(A)
  <2> DEFINE f == [j \in B |-> j + o]
  <2>1. ASSUME NEW j \in B PROVE f[j] \in A
    <3>1. j \in 1..(m - 1) /\ j \in N /\ j + o \in M /\ j + o >= i + o
      BY <1>0
    <3> QED
      BY <3>1
  <2>2. ASSUME NEW k \in A PROVE \E j \in B : f[j] = k
    <3>1. k \in 1..n /\ k >= i + o
      BY <1>0
    <3>2. k - o \in 1..(m - 1) /\ (k - o) + o = k
      BY <1>0, <3>1
    <3>3. k - o \in B
      BY <1>0, <3>1, <3>2
    <3> QED
      BY <3>2, <3>3
  <2>3. \A j, k \in B : f[j] = f[k] => j = k
    <3>1. \A j \in B : j \in Int
      BY <1>0
    <3> QED
      BY <1>0, <3>1
  <2>4. f \in Bijection(B, A)
    <3>1. f \in [B -> A]
      BY <2>1
    <3> HIDE DEF f, A, B
    <3>2. f \in Injection(B, A)
      BY <2>3, <3>1 DEF Injection, IsInjective
    <3>3. f \in Surjection(B, A)
      BY <2>2, <3>1 DEF Surjection
    <3> QED
      BY <3>2, <3>3 DEF Bijection
  <2>5. ExistsBijection(B, A)
    BY <2>4, Zenon DEF ExistsBijection
  <2> HIDE DEF A, B
  <2> QED
    BY <1>3, <2>5, FS_Bijection
<1>5. CASE m \in N
  <2>1. {j \in N : j >= i} = B \cup {m}
    <3>1. \A j \in N : j >= i <=> (j >= i /\ j < m) \/ j = m
      BY <1>0, <1>5
    <3> QED
      BY <1>5, <3>1, Zenon
  <2>2. m \notin B
    BY <1>0
  <2>3. Cardinality(B \cup {m}) = Cardinality(B) + 1
    <3> HIDE DEF B
    <3> QED
      BY <1>3, <2>2, FS_AddElement
  <2> QED
    BY <1>1, <1>2, <1>4, <1>5, <2>1, <2>3
<1>6. CASE m \notin N
  <2>1. {j \in N : j >= i} = B
    <3>1. \A j \in N : j >= i <=> (j >= i /\ j < m)
      BY <1>0, <1>6
    <3> QED
      BY <3>1, Zenon
  <2> QED
    BY <1>1, <1>2, <1>4, <1>6, <2>1
<1> QED
  BY <1>5, <1>6

-----------------------------------------------------------------------------
(* The way of the song: what was rendered of it, and what comes next.      *)

\* How many of the quanta from the i-th on were held, and dropped.
HeldFrom(a, i) == After({j \in DOMAIN a : a[j].held}, i)
DropFrom(a, i) == After({j \in DOMAIN a : a[j].dropped}, i)

\* The held and the dropped quanta of the air.
LEMMA CountFacts ==
  ASSUME NEW a \in Seq(Quantum)
  PROVE  /\ \A i \in Int : HeldFrom(a, i) \in Nat /\ DropFrom(a, i) \in Nat
         /\ HeldFrom(a, Len(a) + 1) = 0 /\ DropFrom(a, Len(a) + 1) = 0
<1>1. Len(a) \in Nat /\ {j \in DOMAIN a : a[j].held} \in SUBSET (1..Len(a))
      /\ {j \in DOMAIN a : a[j].dropped} \in SUBSET (1..Len(a))
  OBVIOUS
<1> QED
  BY <1>1, AfterFacts DEF HeldFrom, DropFrom

\* A quantum is pushed to the air.
AirPush(a, item, b) ==
         /\ b \in Seq(Quantum) /\ Len(b) <= RoundTrip /\ Len(b) > 0
         /\ Len(b) = IF Len(a) < RoundTrip THEN Len(a) + 1 ELSE Len(a)
         /\ b[Len(b)] = item
         /\ Gone(a, b) \in {0, 1} /\ Len(b) + Gone(a, b) = Len(a) + 1
         /\ \A i \in 1..(Len(b) - 1) : i + Gone(a, b) \in 1..Len(a) /\ b[i] = a[i + Gone(a, b)]
         /\ \A i \in 1..Len(b) :
              /\ HeldFrom(b, i) = HeldFrom(a, i + Gone(a, b)) + IF item.held THEN 1 ELSE 0
              /\ DropFrom(b, i) = DropFrom(a, i + Gone(a, b)) + IF item.dropped THEN 1 ELSE 0

LEMMA CountPush ==
  ASSUME NEW a \in Seq(Quantum), Len(a) <= RoundTrip, NEW item \in Quantum,
         NEW b, b = Pushed(a, item, RoundTrip)
  PROVE  AirPush(a, item, b)
<1>1. RoundTrip \in Nat /\ RoundTrip > 0
  BY LoopFacts
<1>2. /\ b \in Seq(Quantum) /\ Len(b) <= RoundTrip /\ Len(b) > 0
      /\ Len(b) = IF Len(a) < RoundTrip THEN Len(a) + 1 ELSE Len(a)
      /\ b[Len(b)] = item
      /\ Gone(a, b) \in {0, 1} /\ Len(b) + Gone(a, b) = Len(a) + 1
      /\ \A i \in 1..(Len(b) - 1) : i + Gone(a, b) \in 1..Len(a) /\ b[i] = a[i + Gone(a, b)]
  BY <1>1, PushedFacts
<1> DEFINE n == Len(a)
           m == Len(b)
           o == Gone(a, b)
<1>3. n \in Nat /\ m \in Nat /\ m > 0 /\ o \in {0, 1} /\ m + o = n + 1
  BY <1>1, <1>2
<1>4. DOMAIN a = 1..n /\ DOMAIN b = 1..m
  BY <1>2
<1>5. \A j \in 1..(m - 1) : j + o \in 1..n /\ b[j] = a[j + o]
  BY <1>2
<1> HIDE DEF n, m, o
<1>6. ASSUME NEW i \in 1..m
      PROVE  HeldFrom(b, i) = HeldFrom(a, i + o) + IF item.held THEN 1 ELSE 0
  <2> DEFINE M == {j \in DOMAIN a : a[j].held}
             N == {j \in DOMAIN b : b[j].held}
  <2>1. M \in SUBSET (1..n) /\ N \in SUBSET (1..m)
    BY <1>4
  <2>2. \A j \in 1..(m - 1) : j \in N <=> j + o \in M
    <3>1. \A j \in 1..(m - 1) : j \in 1..m
      BY <1>3
    <3> QED
      BY <1>4, <1>5, <3>1
  <2>3. m \in N <=> item.held
    BY <1>2, <1>3, <1>4 DEF m
  <2> HIDE DEF M, N
  <2>4. After(N, i) = After(M, i + o) + IF m \in N THEN 1 ELSE 0
    <3>1. /\ n \in Nat /\ M \in SUBSET (1..n) /\ m \in Nat /\ N \in SUBSET (1..m)
          /\ o \in {0, 1} /\ m + o = n + 1 /\ m > 0
          /\ \A j \in 1..(m - 1) : j \in N <=> j + o \in M
      BY <1>3, <2>1, <2>2, Zenon
    <3>2. Shifted(M, n, N, m, o)
      BY <3>1, Zenon DEF Shifted
    <3> QED
      BY <3>2, AfterPush
  <2> QED
    BY <2>3, <2>4 DEF HeldFrom, M, N
<1>7. ASSUME NEW i \in 1..m
      PROVE  DropFrom(b, i) = DropFrom(a, i + o) + IF item.dropped THEN 1 ELSE 0
  <2> DEFINE M == {j \in DOMAIN a : a[j].dropped}
             N == {j \in DOMAIN b : b[j].dropped}
  <2>1. M \in SUBSET (1..n) /\ N \in SUBSET (1..m)
    BY <1>4
  <2>2. \A j \in 1..(m - 1) : j \in N <=> j + o \in M
    <3>1. \A j \in 1..(m - 1) : j \in 1..m
      BY <1>3
    <3> QED
      BY <1>4, <1>5, <3>1
  <2>3. m \in N <=> item.dropped
    BY <1>2, <1>3, <1>4 DEF m
  <2> HIDE DEF M, N
  <2>4. After(N, i) = After(M, i + o) + IF m \in N THEN 1 ELSE 0
    <3>1. /\ n \in Nat /\ M \in SUBSET (1..n) /\ m \in Nat /\ N \in SUBSET (1..m)
          /\ o \in {0, 1} /\ m + o = n + 1 /\ m > 0
          /\ \A j \in 1..(m - 1) : j \in N <=> j + o \in M
      BY <1>3, <2>1, <2>2, Zenon
    <3>2. Shifted(M, n, N, m, o)
      BY <3>1, Zenon DEF Shifted
    <3> QED
      BY <3>2, AfterPush
  <2> QED
    BY <2>3, <2>4 DEF DropFrom, M, N
<1> QED
  BY <1>2, <1>6, <1>7 DEF n, m, o, AirPush

\* The way: what was rendered, and what is rendered next.
Way(p) == Append(p.rendered, p.render)

LEMMA WayFacts ==
  ASSUME NEW p \in Players
  PROVE  /\ Way(p) \in Seq(Nat) /\ Len(Way(p)) = Len(p.rendered) + 1
         /\ \A i \in 1..Len(p.rendered) : Way(p)[i] = p.rendered[i]
         /\ Way(p)[Len(Way(p))] = p.render
  BY DEF Way, Players

\* Somewhere between two places of the way the song went back.
Back(h, i, j) == \E k \in i..(j - 1) : h[k + 1] < h[k]

\* From one place of the way to a later one it goes as many frames as were not
\* held, but for the rounds of the loop.
Leads(h, i, j, to) ==
    /\ Same(h[j], to)
    /\ h[j] = to \/ Back(h, i, j)
    /\ to < FromFrame => h[j] = to
    /\ to >= FromFrame => h[j] >= FromFrame

\* The quantum of the air that rendered the i-th place of the way.
Base(h, a) == Len(a) - Len(h) + 1
\* The place that is reached when the quanta that were not held go on one frame.
Reach(h, a, i, j) ==
    h[i] + (j - i) - (HeldFrom(a, Base(h, a) + i) - HeldFrom(a, Base(h, a) + j))

\* The way and the air tell of the same quanta.
Chained(h, a) ==
    /\ Len(h) - 1 <= Len(a)
    /\ \A i, j \in 1..Len(h) : i <= j => Leads(h, i, j, Reach(h, a, i, j))
    /\ \A i \in 1..(Len(h) - 1) :
         LET frame == a[Base(h, a) + i].frame IN
         frame # Silence => Same(frame, h[i]) /\ (frame = h[i] \/ h[i + 1] < h[i])

\* What a quantum makes of the place of the player.
Goes(x, y, item) ==
    \/ item.held /\ y = x /\ item.frame = Silence
    \/ /\ ~item.held /\ Step(x, y)
       /\ item.frame # Silence => Same(item.frame, x) /\ (item.frame = x \/ y < x)

\* A quantum that is rendered, or held, makes the way longer by a link.
LEMMA ChainedPush ==
  ASSUME NEW a \in Seq(Quantum), Len(a) <= RoundTrip, NEW item \in Quantum,
         NEW b, AirPush(a, item, b),
         NEW h \in Seq(Nat), NEW g \in Seq(Nat), Len(h) > 0, Chained(h, a),
         Len(g) \in {Len(h), Len(h) + 1}, Len(g) > 1, Len(g) - 1 <= RoundTrip,
         \A i \in 1..(Len(g) - 1) : g[i] = h[i + Gone(h, g)],
         Goes(h[Len(h)], g[Len(g)], item)
  PROVE  Chained(g, b)
<1> DEFINE n == Len(h)
           m == Len(g)
           o == Gone(h, g)
           p == Gone(a, b)
           x == h[n]
           y == g[m]
<1>1. n \in Nat /\ m \in Nat /\ n >= 1 /\ m >= 2 /\ o \in {0, 1} /\ m + o = n + 1
  BY DEF Gone
<1>2. /\ b \in Seq(Quantum) /\ Len(b) \in Nat /\ Len(a) \in Nat /\ Len(b) > 0
      /\ Len(b) = IF Len(a) < RoundTrip THEN Len(a) + 1 ELSE Len(a)
      /\ b[Len(b)] = item
      /\ p \in {0, 1} /\ Len(b) + p = Len(a) + 1
      /\ \A i \in 1..(Len(b) - 1) : b[i] = a[i + p]
      /\ \A i \in 1..Len(b) : HeldFrom(b, i) = HeldFrom(a, i + p) + IF item.held THEN 1 ELSE 0
  <2>1. Len(a) \in Nat
    OBVIOUS
  <2>2. b \in Seq(Quantum) => Len(b) \in Nat
    OBVIOUS
  <2> QED
    BY <2>1, <2>2 DEF AirPush
<1>3. /\ \A i \in Int : HeldFrom(a, i) \in Nat /\ HeldFrom(b, i) \in Nat
      /\ HeldFrom(a, Len(a) + 1) = 0 /\ HeldFrom(b, Len(b) + 1) = 0
  BY <1>2, CountFacts
<1>4. \A i \in 1..(m - 1) : i + o \in 1..n /\ g[i] = h[i + o]
  <2>1. \A i \in 1..(m - 1) : g[i] = h[i + o]
    OBVIOUS
  <2> HIDE DEF n, m, o
  <2>2. \A i \in 1..(m - 1) : i + o \in 1..n
    BY <1>1
  <2> QED
    BY <2>1, <2>2
<1>5. m - 1 <= Len(b)
  <2>1. n - 1 <= Len(a) /\ m - 1 <= RoundTrip /\ RoundTrip \in Nat
    BY LoopFacts DEF Chained
  <2> HIDE DEF n, m, o
  <2> QED
    BY <1>1, <1>2, <2>1
<1> DEFINE base == Base(h, a)
           later == Base(g, b)
           hold == IF item.held THEN 1 ELSE 0
<1>6. /\ base \in Int /\ later \in Int /\ base + n = Len(a) + 1 /\ later + m = Len(b) + 1
      /\ later >= 0
      /\ \A i \in 1..(m - 1) :
           /\ later + i \in 1..Len(b)
           /\ (later + i) + p = base + (i + o)
  <2>1. base = Len(a) - n + 1 /\ later = Len(b) - m + 1
    BY DEF Base
  <2> HIDE DEF n, m, o, p, base, later
  <2>2. Len(a) \in Nat /\ Len(b) \in Nat /\ p \in Int /\ Len(b) + p = Len(a) + 1
    BY <1>2
  <2>3. base \in Int /\ later \in Int /\ later >= 0 /\ base + n = Len(a) + 1 /\ later + m = Len(b) + 1
    BY <1>1, <1>5, <2>1, <2>2
  <2>4. ASSUME NEW i \in 1..(m - 1)
        PROVE  later + i \in 1..Len(b) /\ (later + i) + p = base + (i + o)
    BY <1>1, <2>2, <2>3
  <2> QED
    BY <2>3, <2>4
<1>7. \A i \in 1..(m - 1) : HeldFrom(b, later + i) = HeldFrom(a, base + (i + o)) + hold
  <2> HIDE DEF n, m, o, p, base, later
  <2> QED
    BY <1>2, <1>6
<1>8. HeldFrom(b, later + m) = 0 /\ HeldFrom(a, base + n) = 0
  BY <1>3, <1>6
<1>9. \A i \in 1..n : h[i] \in Nat
  OBVIOUS
<1>10. y \in Nat /\ x \in Nat
  <2>1. m \in 1..m /\ n \in 1..n
    BY <1>1
  <2> QED
    BY <2>1
<1> HIDE DEF n, m, o, p, x, y, base, later, hold
<1>0. m \in 1..m /\ \A i \in 1..(m - 1) : i \in 1..m
  BY <1>1
<1>11. /\ \A i, j \in 1..n : i <= j => Leads(h, i, j, Reach(h, a, i, j))
       /\ \A i \in 1..(n - 1) : a[base + i].frame # Silence =>
             Same(a[base + i].frame, h[i]) /\ (a[base + i].frame = h[i] \/ h[i + 1] < h[i])
  BY DEF Chained, n, base
<1>12. \A i, j \in 1..n :
         Reach(h, a, i, j) = h[i] + (j - i) - (HeldFrom(a, base + i) - HeldFrom(a, base + j))
  BY DEF Reach, base
<1>13. \A i, j \in 1..m :
         Reach(g, b, i, j) = g[i] + (j - i) - (HeldFrom(b, later + i) - HeldFrom(b, later + j))
  BY DEF Reach, later
<1>14. ASSUME NEW i \in 1..(m - 1), NEW j \in 1..(m - 1), i <= j
       PROVE  Leads(g, i, j, Reach(g, b, i, j))
  <2>1. i + o \in 1..n /\ j + o \in 1..n /\ i + o <= j + o /\ g[i] = h[i + o] /\ g[j] = h[j + o]
    <3>1. i + o \in 1..n /\ g[i] = h[i + o]
      BY <1>4
    <3>2. j + o \in 1..n /\ g[j] = h[j + o]
      BY <1>4
    <3>3. i + o <= j + o
      BY <1>1, <1>14
    <3> QED
      BY <3>1, <3>2, <3>3
  <2>2. Leads(h, i + o, j + o, Reach(h, a, i + o, j + o))
    BY <1>11, <2>1
  <2>3. Reach(g, b, i, j) = Reach(h, a, i + o, j + o)
    <3>1. i \in 1..m /\ j \in 1..m
      BY <1>1
    <3>0. base + (i + o) \in Int /\ base + (j + o) \in Int
      <4>1. base \in Int /\ i + o \in Int /\ j + o \in Int
        BY <1>1, <1>6
      <4> QED
        BY <4>1
    <3>2. HeldFrom(a, base + (i + o)) \in Nat /\ HeldFrom(a, base + (j + o)) \in Nat /\ hold \in {0, 1}
      BY <1>3, <3>0 DEF hold
    <3>3. /\ Reach(g, b, i, j) = g[i] + (j - i) - (HeldFrom(b, later + i) - HeldFrom(b, later + j))
          /\ Reach(h, a, i + o, j + o) = h[i + o] + ((j + o) - (i + o)) - (HeldFrom(a, base + (i + o)) - HeldFrom(a, base + (j + o)))
      BY <1>12, <1>13, <2>1, <3>1
    <3>4. HeldFrom(b, later + i) = HeldFrom(a, base + (i + o)) + hold
          /\ HeldFrom(b, later + j) = HeldFrom(a, base + (j + o)) + hold
      BY <1>7
    <3> QED
      BY <1>1, <1>9, <2>1, <3>2, <3>3, <3>4
  <2>4. Back(h, i + o, j + o) => Back(g, i, j)
    <3>1. SUFFICES ASSUME NEW k \in (i + o)..((j + o) - 1), h[k + 1] < h[k] PROVE Back(g, i, j)
      BY DEF Back
    <3>2. PICK c \in i..(j - 1) : c + 1 \in 1..(m - 1) /\ c \in 1..(m - 1) /\ c + o = k
      <4>1. k - o \in i..(j - 1) /\ (k - o) + 1 \in 1..(m - 1) /\ k - o \in 1..(m - 1) /\ (k - o) + o = k
        BY <1>1
      <4> QED
        BY <4>1
    <3>4. c \in Int /\ o \in Int /\ (c + 1) + o = k + 1
      BY <1>1, <3>2
    <3>3. g[c + 1] = h[k + 1] /\ g[c] = h[k]
      BY <1>4, <3>2, <3>4
    <3> QED
      BY <3>1, <3>2, <3>3 DEF Back
  <2> QED
    BY <2>1, <2>2, <2>3, <2>4 DEF Leads
<1>15. ASSUME NEW i \in 1..(m - 1) PROVE Leads(g, i, m, Reach(g, b, i, m))
  <2> DEFINE to == Reach(h, a, i + o, n)
             next == Reach(g, b, i, m)
  <2>1. i + o \in 1..n /\ n \in 1..n /\ i + o <= n /\ g[i] = h[i + o]
    <3>1. i + o \in 1..n /\ g[i] = h[i + o]
      BY <1>4
    <3> QED
      BY <1>1, <3>1
  <2>2. Leads(h, i + o, n, to)
    BY <1>11, <2>1
  <2>3. to \in Int /\ next = to + 1 - hold /\ hold \in {0, 1}
    <3>1. i \in 1..m /\ m \in 1..m
      BY <1>0, Zenon
    <3>0. base + (i + o) \in Int
      <4>1. base \in Int /\ i + o \in Int
        BY <1>1, <1>6
      <4> QED
        BY <4>1
    <3>2. HeldFrom(a, base + (i + o)) \in Nat /\ hold \in {0, 1}
      BY <1>3, <3>0 DEF hold
    <3>3. /\ next = g[i] + (m - i) - (HeldFrom(b, later + i) - HeldFrom(b, later + m))
          /\ to = h[i + o] + (n - (i + o)) - (HeldFrom(a, base + (i + o)) - HeldFrom(a, base + n))
      BY <1>12, <1>13, <2>1, <3>1
    <3>4. HeldFrom(b, later + i) = HeldFrom(a, base + (i + o)) + hold
      BY <1>7
    <3>5. h[i + o] \in Nat
      BY <1>9, <2>1
    <3>6. next = h[i + o] + (m - i) - ((HeldFrom(a, base + (i + o)) + hold) - 0)
      BY <1>8, <2>1, <3>3, <3>4
    <3>7. to = h[i + o] + (n - (i + o)) - (HeldFrom(a, base + (i + o)) - 0)
      BY <1>8, <3>3
    <3>8. m - i = (n - (i + o)) + 1
      <4>1. m \in Int /\ n \in Int /\ i \in Int /\ o \in Int /\ m = (n + 1) - o
        BY <1>1
      <4> QED
        BY ONLY <4>1
    <3> DEFINE u == HeldFrom(a, base + (i + o))
               v == h[i + o]
               w == n - (i + o)
    <3>9. u \in Nat /\ v \in Nat /\ w \in Int /\ hold \in {0, 1}
      BY <1>1, <2>1, <3>2, <3>5
    <3>10. next = v + (w + 1) - ((u + hold) - 0) /\ to = v + w - (u - 0)
      BY <3>6, <3>7, <3>8
    <3> HIDE DEF to, next, u, v, w
    <3>11. to \in Int /\ next \in Int /\ next = (to + 1) - hold
      <4>1. CASE hold = 0
        BY ONLY <3>9, <3>10, <4>1
      <4>2. CASE hold = 1
        BY ONLY <3>9, <3>10, <4>2
      <4> QED
        BY <3>9, <4>1, <4>2
    <3> QED
      BY <3>9, <3>11
  <2>4. Back(h, i + o, n) => Back(g, i, m)
    <3>1. SUFFICES ASSUME NEW k \in (i + o)..(n - 1), h[k + 1] < h[k] PROVE Back(g, i, m)
      BY DEF Back
    <3>2. PICK c \in i..(m - 1) : c + 1 \in 1..(m - 1) /\ c \in 1..(m - 1) /\ c + o = k
      <4>1. k - o \in i..(m - 1) /\ (k - o) + 1 \in 1..(m - 1) /\ k - o \in 1..(m - 1) /\ (k - o) + o = k
        BY <1>1
      <4> QED
        BY <4>1
    <3>4. c \in Int /\ o \in Int /\ (c + 1) + o = k + 1
      BY <1>1, <3>2
    <3>3. g[c + 1] = h[k + 1] /\ g[c] = h[k]
      BY <1>4, <3>2, <3>4
    <3> QED
      BY <3>1, <3>2, <3>3 DEF Back
  <2>5. y < x => Back(g, i, m)
    <3>1. m - 1 \in 1..(m - 1) /\ (m - 1) + o = n /\ m - 1 \in i..(m - 1) /\ (m - 1) + 1 = m
      BY <1>1
    <3>2. g[m - 1] = x
      BY <1>4, <3>1 DEF x
    <3> QED
      BY <3>1, <3>2 DEF Back, y
  <2>6. /\ Same(x, to) /\ (x = to \/ Back(h, i + o, n))
        /\ to < FromFrame => x = to
        /\ to >= FromFrame => x >= FromFrame
    BY <2>2 DEF Leads, x
  <2>7. Goes(x, y, item)
    BY DEF x, y, n, m
  <2> HIDE DEF to, next
  <2>8. CASE item.held
    <3>1. y = x /\ next = to
      BY <2>3, <2>7, <2>8 DEF Goes, hold
    <3> QED
      BY <2>4, <2>6, <3>1 DEF Leads, y, next
  <2>9. CASE ~item.held
    <3>1. Step(x, y) /\ next = to + 1
      BY <2>3, <2>7, <2>9 DEF Goes, hold
    <3>2. Same(y, next)
      <4>1. Same(x + 1, to + 1)
        BY <1>10, <2>3, <2>6, SameFacts
      <4>2. Same(y, x + 1) /\ y \in Int /\ x + 1 \in Int /\ to + 1 \in Int
        BY <1>10, <2>3, <3>1 DEF Step
      <4> QED
        BY <3>1, <4>1, <4>2, SameFacts
    <3>3. y = next \/ Back(g, i, m)
      BY <2>4, <2>5, <2>6, <3>1 DEF Step
    <3>4. FromFrame \in Nat
      BY LoopFacts
    <3>5. next < FromFrame => y = next
      BY <1>10, <2>3, <2>6, <3>1, <3>4 DEF Step
    <3>6. next >= FromFrame => y >= FromFrame
      BY <1>10, <2>3, <2>6, <3>1, <3>4 DEF Step
    <3> QED
      BY <3>2, <3>3, <3>5, <3>6 DEF Leads, y, next
  <2> QED
    BY <2>8, <2>9
<1>16. Leads(g, m, m, Reach(g, b, m, m))
  <2>1. Reach(g, b, m, m) = y
    <3>1. m \in 1..m
      BY <1>1
    <3>2. Reach(g, b, m, m) = y + (m - m) - (HeldFrom(b, later + m) - HeldFrom(b, later + m))
      BY <1>13, <3>1 DEF y
    <3> QED
      BY <1>1, <1>8, <1>10, <3>2
  <2>2. Same(y, y)
    BY <1>10, SameFacts
  <2> QED
    BY <1>10, <2>1, <2>2 DEF Leads, y
<1>17. ASSUME NEW i \in 1..m, NEW j \in 1..m, i <= j PROVE Leads(g, i, j, Reach(g, b, i, j))
  <2>1. CASE j < m
    <3>1. i \in 1..(m - 1) /\ j \in 1..(m - 1)
      BY <1>1, <1>17, <2>1
    <3> QED
      BY <1>14, <1>17, <3>1
  <2>2. CASE j = m /\ i < m
    <3>1. i \in 1..(m - 1)
      BY <1>1, <2>2
    <3> QED
      BY <1>15, <2>2, <3>1
  <2>3. CASE j = m /\ i = m
    BY <1>16, <2>3
  <2> QED
    BY <1>1, <1>17, <2>1, <2>2, <2>3
<1>18. ASSUME NEW i \in 1..(m - 1), b[later + i].frame # Silence
       PROVE  Same(b[later + i].frame, g[i]) /\ (b[later + i].frame = g[i] \/ g[i + 1] < g[i])
  <2>1. CASE i < m - 1
    <3>1. i + 1 \in 1..(m - 1) /\ i + o \in 1..(n - 1) /\ (i + 1) + o = (i + o) + 1
      BY <1>1, <2>1
    <3>2. g[i] = h[i + o] /\ g[i + 1] = h[(i + o) + 1]
      <4>1. g[i] = h[i + o]
        BY <1>4
      <4>2. g[i + 1] = h[(i + 1) + o]
        BY <1>4, <3>1
      <4> QED
        BY <3>1, <4>1, <4>2
    <3>3. b[later + i] = a[base + (i + o)]
      <4>1. later + i \in 1..(Len(b) - 1)
        BY <1>1, <1>2, <1>6, <2>1
      <4> QED
        BY <1>2, <1>6, <4>1
    <3> QED
      BY <1>11, <1>18, <3>1, <3>2, <3>3
  <2>2. CASE i = m - 1
    <3>1. later + i = Len(b) /\ i + o = n /\ i + 1 = m
      BY <1>1, <1>2, <1>6, <2>2
    <3>2. b[later + i] = item /\ g[i] = x /\ g[i + 1] = y
      BY <1>2, <1>4, <3>1 DEF x, y
    <3>3. Goes(x, y, item)
      BY DEF x, y, n, m
    <3> QED
      BY <1>18, <3>2, <3>3 DEF Goes
  <2> QED
    BY <1>1, <2>1, <2>2
<1>19. m - 1 <= Len(b)
  BY <1>5 DEF m
<1> QED
  BY <1>17, <1>18, <1>19 DEF Chained, m, later

-----------------------------------------------------------------------------
(* What the recording does with a sample.                                  *)

\* The recording: what it has written is posted, or waits in its chunk.
Tallied(r) == r.posted + Len(r.chunk) = r.written
Origin(r) == r.start - r.shift          \* the place of the first sample of the run
Wait(r) == r.skip + r.leadIn            \* the samples that are left out yet
Place(r) == (Origin(r) + r.written) - Wait(r)   \* the place of what comes next
\* What the take has, and what is to be posted to it.
Samples(r, t) == t.stored \cup IF r.active THEN Placed(r) ELSE {}

SameRun(r, s) ==
    /\ s.active = r.active /\ s.start = r.start /\ s.shift = r.shift
    /\ s.end = r.end /\ s.pass = r.pass
SameTake(t, u) ==
    /\ u.due = t.due /\ u.still = t.still /\ u.unheard = t.unheard /\ u.try = t.try
    /\ u.closed = t.closed /\ u.crossed = t.crossed

\* What a sample makes of the recording and of its take: it is left out, the
\* pass is over, the pass ends, or it is written where the recording is.
Took(r, t, item, s, u) ==
    /\ s \in Recorders /\ u \in Takes /\ Tallied(s) /\ SameRun(r, s) /\ s.drain = r.drain
    /\ SameTake(t, u) /\ u.ended = t.ended
    /\ \/ /\ Wait(r) > 0 /\ Wait(s) = Wait(r) - 1 /\ s.skip <= r.skip /\ s.skip >= r.skip - 1
          /\ s.written = r.written /\ s.state = r.state /\ s.chunk = r.chunk
          /\ Samples(s, u) = Samples(r, t) /\ u.complete = t.complete /\ u.stored = t.stored
       \/ Wait(r) = 0 /\ r.state = "ended" /\ s = r /\ u = t
       \/ /\ Wait(r) = 0 /\ r.state # "ended" /\ r.pass /\ r.written >= r.end
          /\ s.state = "ended" /\ s.written = r.written /\ Wait(s) = 0 /\ s.skip = 0 /\ s.chunk = <<>>
          /\ u.complete = TRUE /\ Samples(s, u) = Samples(r, t) /\ u.stored = Samples(r, t)
       \/ /\ Wait(r) = 0 /\ r.state # "ended" /\ ~RunOver(r)
          /\ s.written = r.written + 1 /\ s.state # "ended" /\ Wait(s) = 0 /\ s.skip = 0
          /\ u.complete = t.complete
          /\ Samples(s, u) = Samples(r, t) \cup
               {[at |-> Place(r), sung |-> item.sung, late |-> item.late]}

\* The samples of a chunk, each with its place.
LEMMA PlacedFacts ==
  ASSUME NEW r \in Recorders
  PROVE  /\ Placed(r) \in SUBSET StoredSample
         /\ r.chunk = <<>> => Placed(r) = {}
         /\ \A x : x \in Placed(r) <=> \E i \in 1..Len(r.chunk) :
              x = [at |-> r.start - r.shift + r.posted + i - 1, sung |-> r.chunk[i].sung,
                   late |-> r.chunk[i].late]
<1>1. r.chunk \in Seq(Sample) /\ r.start \in Nat /\ r.shift \in Nat /\ r.posted \in Nat
  BY DEF Recorders
<1>2. DOMAIN r.chunk = 1..Len(r.chunk) /\ Len(r.chunk) \in Nat
      /\ \A i \in 1..Len(r.chunk) : r.chunk[i] \in Sample
  BY <1>1
<1>3. \A x : x \in Placed(r) <=> \E i \in 1..Len(r.chunk) :
         x = [at |-> r.start - r.shift + r.posted + i - 1, sung |-> r.chunk[i].sung,
              late |-> r.chunk[i].late]
  BY <1>2 DEF Placed
<1>4. Placed(r) \in SUBSET StoredSample
  <2>1. SUFFICES ASSUME NEW x \in Placed(r) PROVE x \in StoredSample
    OBVIOUS
  <2>2. PICK i \in 1..Len(r.chunk) :
         x = [at |-> r.start - r.shift + r.posted + i - 1, sung |-> r.chunk[i].sung,
              late |-> r.chunk[i].late]
    BY <1>3
  <2>3. r.start - r.shift + r.posted + i - 1 \in Int
    BY <1>1
  <2>4. r.chunk[i].sung \in Nat /\ r.chunk[i].late \in Int
    <3>1. r.chunk[i] \in Sample
      BY <1>2
    <3> QED
      BY <3>1 DEF Sample
  <2> QED
    BY <2>2, <2>3, <2>4 DEF StoredSample
<1>5. r.chunk = <<>> => Placed(r) = {}
  <2>1. ASSUME r.chunk = <<>> PROVE Placed(r) = {}
    <3>1. Len(r.chunk) = 0
      BY <2>1
    <3>2. \A x : x \notin Placed(r)
      BY <1>3, <3>1
    <3> QED
      BY <3>2
  <2> QED
    BY <2>1
<1> QED
  BY <1>3, <1>4, <1>5

Flushed(r, t, o) ==
    /\ o.recorder \in Recorders /\ o.take \in Takes /\ Tallied(o.recorder)
    /\ o.recorder = [r EXCEPT !.chunk = <<>>, !.posted = r.written]
    /\ o.take = [t EXCEPT !.stored = Samples(r, t)]
    /\ Samples(o.recorder, o.take) = Samples(r, t)
    /\ Samples(r, t) \in SUBSET StoredSample
    /\ o = [recorder |-> o.recorder, take |-> o.take]

\* A flush moves samples and loses none.
LEMMA FlushFacts ==
  ASSUME NEW r \in Recorders, NEW t \in Takes, Tallied(r), r.active
  PROVE  Flushed(r, t, FlushBuffer(r, t))
<1> DEFINE o == FlushBuffer(r, t)
<1>1. /\ o.recorder = [r EXCEPT !.chunk = <<>>, !.posted = IF r.chunk = <<>> THEN @ ELSE r.written]
      /\ o.take = [t EXCEPT !.stored = @ \cup Placed(r)]
      /\ o = [recorder |-> o.recorder, take |-> o.take]
  BY DEF FlushBuffer
<1> HIDE DEF o
<1>2. r.chunk \in Seq(Sample) /\ r.posted \in Nat /\ r.written \in Nat
  BY DEF Recorders
<1>3. r.chunk = <<>> => r.posted = r.written
  BY <1>2 DEF Tallied
<1>4. o.recorder = [r EXCEPT !.chunk = <<>>, !.posted = r.written]
  BY <1>1, <1>3 DEF Recorders
<1>5. <<>> \in Seq(Sample)
  OBVIOUS
<1>6. /\ o.recorder \in Recorders /\ o.recorder.chunk = <<>> /\ o.recorder.posted = r.written
      /\ o.recorder.written = r.written /\ o.recorder.active
  <2>1. /\ o.recorder.chunk = <<>> /\ o.recorder.posted = r.written
        /\ o.recorder.written = r.written /\ o.recorder.active
    BY <1>4 DEF Recorders
  <2>2. o.recorder \in Recorders
    <3>1. \A chunk \in Seq(Sample), posted \in Nat :
            [r EXCEPT !.chunk = chunk, !.posted = posted] \in Recorders
      BY DEF Recorders
    <3> QED
      BY <1>2, <1>4, <1>5, <3>1, Zenon
  <2> QED
    BY <2>1, <2>2
<1>7. Samples(r, t) = t.stored \cup Placed(r)
  BY DEF Samples
<1>8. Samples(r, t) \in SUBSET StoredSample
  BY <1>7, PlacedFacts DEF Takes
<1>9. o.take \in Takes /\ o.take = [t EXCEPT !.stored = Samples(r, t)] /\ o.take.stored = Samples(r, t)
  BY <1>1, <1>7, <1>8 DEF Takes
<1>10. Samples(o.recorder, o.take) = Samples(r, t)
  BY <1>6, <1>9, PlacedFacts DEF Samples
<1>11. Tallied(o.recorder)
  BY <1>2, <1>6 DEF Tallied
<1> QED
  BY <1>1, <1>4, <1>6, <1>8, <1>9, <1>10, <1>11 DEF Flushed, o

\* A sample that comes after the latency of the input.
LEMMA PushFacts ==
  ASSUME NEW r \in Recorders, NEW t \in Takes, Tallied(r), r.active,
         ~r.pass => r.end = Endless, r.skip = 0,
         NEW item \in Sample, NEW o, o = Push(r, t, item)
  PROVE  Took(r, t, item, o.recorder, o.take) /\ o = [recorder |-> o.recorder, take |-> o.take]
<1>0. /\ r.chunk \in Seq(Sample) /\ r.posted \in Nat /\ r.written \in Nat /\ r.leadIn \in Nat
      /\ r.start \in Nat /\ r.shift \in Nat /\ r.pass \in BOOLEAN /\ r.skip = 0 /\ r.end \in Int
      /\ r.state \in {"waiting", "writing", "ended"} /\ r.active = TRUE
  BY DEF Recorders
<1>a. ChunkLength \in Nat /\ ChunkLength > 0
  BY LoopFacts
<1>b. SameRun(r, r) /\ SameTake(t, t)
  BY DEF SameRun, SameTake
<1>1. CASE r.leadIn > 0
  <2> DEFINE s == [r EXCEPT !.leadIn = @ - 1]
  <2>1. o = [recorder |-> s, take |-> t]
    BY <1>1 DEF Push
  <2>2. s \in Recorders /\ SameRun(r, s) /\ s.leadIn = r.leadIn - 1 /\ s.skip = 0
        /\ s.written = r.written /\ s.posted = r.posted /\ s.chunk = r.chunk /\ s.state = r.state
        /\ s.drain = r.drain /\ s.active = r.active /\ s.start = r.start /\ s.shift = r.shift
    <3>1. r.leadIn - 1 \in Nat
      BY <1>0, <1>1
    <3>2. s \in Recorders
      BY <3>1 DEF Recorders
    <3>3. /\ s.leadIn = r.leadIn - 1 /\ s.skip = r.skip
          /\ s.written = r.written /\ s.posted = r.posted /\ s.chunk = r.chunk /\ s.state = r.state
          /\ s.drain = r.drain /\ s.active = r.active /\ s.start = r.start /\ s.shift = r.shift
          /\ s.end = r.end /\ s.pass = r.pass
      BY DEF Recorders
    <3> QED
      BY <1>0, <3>2, <3>3 DEF SameRun
  <2>3. Wait(r) > 0 /\ Wait(s) = Wait(r) - 1 /\ Tallied(s)
    BY <1>0, <1>1, <2>2 DEF Wait, Tallied
  <2>4. Samples(s, t) = Samples(r, t)
    BY <2>2 DEF Samples, Placed
  <2> HIDE DEF s
  <2>5. Took(r, t, item, s, t)
    BY <1>0, <1>b, <2>2, <2>3, <2>4 DEF Took
  <2> QED
    BY <2>1, <2>5
<1>2. CASE r.leadIn = 0 /\ r.state = "ended"
  <2>1. o = [recorder |-> r, take |-> t]
    BY <1>2 DEF Push
  <2>2. Wait(r) = 0
    BY <1>0, <1>2 DEF Wait
  <2>3. Took(r, t, item, r, t)
    BY <1>2, <1>b, <2>2 DEF Took
  <2> QED
    BY <2>1, <2>3
<1>3. CASE r.leadIn = 0 /\ r.state # "ended" /\ RunOver(r)
  <2>1. r.pass = TRUE /\ r.written >= r.end
    BY <1>0, <1>3 DEF RunOver
  <2> DEFINE p == [r EXCEPT !.state = "ended"]
             f == FlushBuffer(p, t)
  <2>2. o = [f EXCEPT !.take.complete = TRUE]
    BY <1>3, <2>1 DEF Push, EndPass
  <2>3. /\ p \in Recorders /\ Tallied(p) /\ p.active /\ p.written = r.written /\ p.state = "ended"
        /\ SameRun(r, p) /\ p.skip = 0 /\ p.leadIn = 0 /\ p.drain = r.drain
    BY <1>0, <1>3 DEF Recorders, Tallied, SameRun
  <2>4. Samples(p, t) = Samples(r, t)
    BY <1>0 DEF Samples, Placed, Recorders
  <2> HIDE DEF p
  <2>5. /\ f.recorder \in Recorders /\ f.take \in Takes /\ Tallied(f.recorder)
        /\ f.recorder = [p EXCEPT !.chunk = <<>>, !.posted = p.written]
        /\ f.take = [t EXCEPT !.stored = Samples(p, t)]
        /\ Samples(f.recorder, f.take) = Samples(p, t)
        /\ f = [recorder |-> f.recorder, take |-> f.take]
    <3>1. Flushed(p, t, f)
      BY <2>3, FlushFacts
    <3> QED
      BY <3>1 DEF Flushed
  <2> HIDE DEF f
  <2> DEFINE s == f.recorder
             u == [f.take EXCEPT !.complete = TRUE]
  <2>6. o = [recorder |-> s, take |-> u]
    BY <2>2, <2>5
  <2>7. /\ SameRun(r, s) /\ s.drain = r.drain /\ s.state = "ended" /\ s.written = r.written
        /\ s.skip = 0 /\ s.leadIn = 0 /\ s.chunk = <<>>
    BY <2>3, <2>5 DEF Recorders, SameRun
  <2>8. /\ u \in Takes /\ SameTake(t, u) /\ u.complete = TRUE /\ u.stored = Samples(r, t)
        /\ u.ended = t.ended /\ u.stored = f.take.stored
    BY <2>4, <2>5 DEF Takes, SameTake
  <2>9. Samples(s, u) = Samples(r, t)
    BY <2>4, <2>5, <2>8 DEF Samples
  <2>10. Wait(r) = 0 /\ Wait(s) = 0
    BY <1>0, <1>3, <2>7 DEF Wait
  <2> HIDE DEF s, u
  <2>11. s \in Recorders /\ Tallied(s)
    BY <2>5 DEF s
  <2>12. Took(r, t, item, s, u)
    BY <1>3, <2>1, <2>7, <2>8, <2>9, <2>10, <2>11 DEF Took
  <2> QED
    BY <2>6, <2>12
<1>4. CASE r.leadIn = 0 /\ r.state # "ended" /\ ~RunOver(r)
  <2> DEFINE p == [r EXCEPT !.chunk = Append(@, item), !.written = @ + 1,
                            !.state = IF r.pass THEN "writing" ELSE @]
             new == [at |-> Place(r), sung |-> item.sung, late |-> item.late]
  <2>1. o = IF Len(p.chunk) = ChunkLength THEN FlushBuffer(p, t) ELSE [recorder |-> p, take |-> t]
    BY <1>4 DEF Push
  <2>2. Append(r.chunk, item) \in Seq(Sample) /\ Len(Append(r.chunk, item)) = Len(r.chunk) + 1
        /\ Len(r.chunk) \in Nat
        /\ Append(r.chunk, item)[Len(r.chunk) + 1] = item
        /\ \A i \in 1..Len(r.chunk) : Append(r.chunk, item)[i] = r.chunk[i]
    BY <1>0
  <2>3. /\ p \in Recorders /\ p.chunk = Append(r.chunk, item) /\ p.written = r.written + 1
        /\ p.posted = r.posted /\ p.state # "ended" /\ p.active /\ p.start = r.start
        /\ p.shift = r.shift /\ SameRun(r, p) /\ p.skip = 0 /\ p.leadIn = 0 /\ p.drain = r.drain
    <3>1. r.written + 1 \in Nat /\ Append(r.chunk, item) \in Seq(Sample)
      BY <1>0, <2>2
    <3>2. p \in Recorders
      BY <3>1 DEF Recorders
    <3>3. /\ p.leadIn = r.leadIn /\ p.skip = r.skip
          /\ p.written = r.written + 1 /\ p.posted = r.posted /\ p.chunk = Append(r.chunk, item)
          /\ p.state = (IF r.pass THEN "writing" ELSE r.state)
          /\ p.drain = r.drain /\ p.active = r.active /\ p.start = r.start /\ p.shift = r.shift
          /\ p.end = r.end /\ p.pass = r.pass
      BY DEF Recorders
    <3>4. p.state # "ended"
      BY <1>4, <3>3
    <3> HIDE DEF p
    <3> QED
      BY <1>0, <1>4, <3>2, <3>3, <3>4 DEF SameRun
  <2>4. Tallied(p)
    BY <1>0, <2>2, <2>3 DEF Tallied
  <2> HIDE DEF p
  <2>5. Samples(p, t) = Samples(r, t) \cup {new}
    <3>1. r.start - r.shift + r.posted + (Len(r.chunk) + 1) - 1 = Place(r)
      BY <1>0, <1>4, <2>2 DEF Place, Origin, Wait, Tallied
    <3>2. \A x : x \in Placed(p) <=> \E i \in 1..Len(p.chunk) :
            x = [at |-> p.start - p.shift + p.posted + i - 1, sung |-> p.chunk[i].sung,
                 late |-> p.chunk[i].late]
      BY <2>3, PlacedFacts
    <3>3. \A x : x \in Placed(r) <=> \E i \in 1..Len(r.chunk) :
            x = [at |-> r.start - r.shift + r.posted + i - 1, sung |-> r.chunk[i].sung,
                 late |-> r.chunk[i].late]
      BY PlacedFacts
    <3> DEFINE n == Len(r.chunk)
    <3>4. Len(p.chunk) = n + 1 /\ n \in Nat
      BY <2>2, <2>3
    <3>5. p.chunk[n + 1] = item /\ \A i \in 1..n : p.chunk[i] = r.chunk[i]
      BY <2>2, <2>3
    <3>6. ASSUME NEW x \in Placed(p) PROVE x \in Placed(r) \cup {new}
      <4>1. PICK i \in 1..(n + 1) :
            x = [at |-> r.start - r.shift + r.posted + i - 1, sung |-> p.chunk[i].sung,
                 late |-> p.chunk[i].late]
        BY <2>3, <3>2, <3>4
      <4>2. CASE i \in 1..n
        BY <3>3, <3>5, <4>1, <4>2
      <4>3. CASE i = n + 1
        BY <3>1, <3>5, <4>1, <4>3
      <4> QED
        BY <3>4, <4>2, <4>3
    <3>7. ASSUME NEW x \in Placed(r) PROVE x \in Placed(p)
      <4>1. PICK i \in 1..n :
            x = [at |-> r.start - r.shift + r.posted + i - 1, sung |-> r.chunk[i].sung,
                 late |-> r.chunk[i].late]
        BY <3>3
      <4>2. i \in 1..(n + 1)
        BY <3>4
      <4> QED
        BY <2>3, <3>2, <3>4, <3>5, <4>1, <4>2
    <3>8. new \in Placed(p)
      <4>1. n + 1 \in 1..(n + 1)
        BY <3>4
      <4>2. new = [at |-> p.start - p.shift + p.posted + (n + 1) - 1, sung |-> p.chunk[n + 1].sung,
                   late |-> p.chunk[n + 1].late]
        BY <2>3, <3>1, <3>5
      <4> QED
        BY <3>2, <3>4, <4>1, <4>2
    <3>9. Placed(p) = Placed(r) \cup {new}
      BY <3>6, <3>7, <3>8
    <3> QED
      BY <1>0, <2>3, <3>9 DEF Samples
  <2>6. Wait(r) = 0 /\ \A s : s.skip = 0 /\ s.leadIn = 0 => Wait(s) = 0
    BY <1>0, <1>4 DEF Wait
  <2>7. CASE Len(p.chunk) = ChunkLength
    <3>1. o = FlushBuffer(p, t)
      BY <2>1, <2>7
    <3> DEFINE f == FlushBuffer(p, t)
    <3>a. /\ f.recorder \in Recorders /\ f.take \in Takes /\ Tallied(f.recorder)
          /\ f.recorder = [p EXCEPT !.chunk = <<>>, !.posted = p.written]
          /\ f.take = [t EXCEPT !.stored = Samples(p, t)]
          /\ Samples(f.recorder, f.take) = Samples(p, t)
          /\ f = [recorder |-> f.recorder, take |-> f.take]
      <4>1. Flushed(p, t, f)
        BY <2>3, <2>4, FlushFacts
      <4> QED
        BY <4>1 DEF Flushed
    <3>b. o = f
      BY <3>1
    <3> HIDE DEF f
    <3>2. /\ o.recorder \in Recorders /\ o.take \in Takes /\ Tallied(o.recorder)
          /\ o.recorder = [p EXCEPT !.chunk = <<>>, !.posted = p.written]
          /\ o.take = [t EXCEPT !.stored = Samples(p, t)]
          /\ Samples(o.recorder, o.take) = Samples(p, t)
          /\ o = [recorder |-> o.recorder, take |-> o.take]
      BY <3>a, <3>b, Zenon
    <3>3. /\ SameRun(r, o.recorder) /\ o.recorder.drain = r.drain /\ o.recorder.state # "ended"
          /\ o.recorder.written = r.written + 1 /\ o.recorder.skip = 0 /\ o.recorder.leadIn = 0
      BY <2>3, <3>2 DEF Recorders, SameRun
    <3>4. SameTake(t, o.take) /\ o.take.complete = t.complete /\ o.take.ended = t.ended
      BY <3>2 DEF Takes, SameTake
    <3>5. Wait(o.recorder) = 0
      BY <2>6, <3>3
    <3> QED
      BY <1>4, <2>5, <2>6, <3>2, <3>3, <3>4, <3>5 DEF Took
  <2>8. CASE Len(p.chunk) # ChunkLength
    <3>1. o = [recorder |-> p, take |-> t]
      BY <2>1, <2>8
    <3>2. Wait(p) = 0
      BY <2>3, <2>6
    <3>3. Took(r, t, item, p, t)
      BY <1>4, <1>b, <2>3, <2>4, <2>5, <2>6, <3>2 DEF Took
    <3> QED
      BY <3>1, <3>3
  <2> QED
    BY <2>7, <2>8
<1> QED
  BY <1>0, <1>1, <1>2, <1>3, <1>4

\* Any sample that comes in.
LEMMA WriteFacts ==
  ASSUME NEW r \in Recorders, NEW t \in Takes, Tallied(r), r.active,
         ~r.pass => r.end = Endless,
         NEW item \in Sample, NEW o, o = WriteInput(r, t, item)
  PROVE  Took(r, t, item, o.recorder, o.take) /\ o = [recorder |-> o.recorder, take |-> o.take]
<1>1. CASE r.skip = 0
  <2>1. o = Push(r, t, item)
    BY <1>1 DEF WriteInput
  <2> QED
    BY <1>1, <2>1, PushFacts
<1>2. CASE r.skip > 0
  <2> DEFINE s == [r EXCEPT !.skip = @ - 1]
  <2>1. o = [recorder |-> s, take |-> t]
    BY <1>2 DEF WriteInput
  <2>0. r.skip \in Nat /\ r.leadIn \in Nat
    BY DEF Recorders
  <2>2. s \in Recorders /\ SameRun(r, s) /\ s.skip = r.skip - 1 /\ s.leadIn = r.leadIn
        /\ s.written = r.written /\ s.posted = r.posted /\ s.chunk = r.chunk /\ s.state = r.state
        /\ s.drain = r.drain /\ s.active = r.active /\ s.start = r.start /\ s.shift = r.shift
    <3>1. r.skip - 1 \in Nat
      BY <1>2, <2>0
    <3>2. s \in Recorders
      BY <3>1 DEF Recorders
    <3>3. /\ s.leadIn = r.leadIn /\ s.skip = r.skip - 1
          /\ s.written = r.written /\ s.posted = r.posted /\ s.chunk = r.chunk /\ s.state = r.state
          /\ s.drain = r.drain /\ s.active = r.active /\ s.start = r.start /\ s.shift = r.shift
          /\ s.end = r.end /\ s.pass = r.pass
      BY DEF Recorders
    <3> QED
      BY <3>2, <3>3 DEF SameRun
  <2>3. Wait(r) > 0 /\ Wait(s) = Wait(r) - 1 /\ Tallied(s)
    BY <1>2, <2>0, <2>2 DEF Wait, Tallied
  <2>4. Samples(s, t) = Samples(r, t)
    BY <2>2 DEF Samples, Placed
  <2>5. s.skip <= r.skip /\ s.skip >= r.skip - 1 /\ SameTake(t, t)
    BY <2>0, <2>2 DEF SameTake
  <2> HIDE DEF s
  <2>6. Took(r, t, item, s, t)
    BY <2>2, <2>3, <2>4, <2>5 DEF Took
  <2> QED
    BY <2>1, <2>6
<1>3. r.skip \in Nat
  BY DEF Recorders
<1> QED
  BY <1>1, <1>2, <1>3

\* The stream of the take is let go.
Ended(r, t, s, u) ==
    /\ s \in Recorders /\ u \in Takes /\ Tallied(s)
    /\ s.active = FALSE /\ s.drain = NoDrain
    /\ SameTake(t, u) /\ u.ended = TRUE /\ u.complete = t.complete
    /\ u.stored = Samples(r, t) /\ Samples(s, u) = Samples(r, t)

\* The end of the stream stores what is left of the chunk.
LEMMA EndFacts ==
  ASSUME NEW r \in Recorders, NEW t \in Takes, Tallied(r), r.active,
         NEW o, o = EndStream([recorder |-> r, take |-> t])
  PROVE  Ended(r, t, o.recorder, o.take)
<1> DEFINE f == FlushBuffer(r, t)
<1>1. o = [f EXCEPT !.recorder.active = FALSE, !.recorder.pass = FALSE, !.recorder.shift = 0,
                    !.recorder.end = Endless, !.recorder.drain = NoDrain, !.take.ended = TRUE]
  BY DEF EndStream
<1>2. Flushed(r, t, f)
  BY FlushFacts
<1> HIDE DEF f
<1> DEFINE s == f.recorder
           u == f.take
<1>3. s \in Recorders /\ u \in Takes /\ Tallied(s) /\ u = [t EXCEPT !.stored = Samples(r, t)]
      /\ f = [recorder |-> s, take |-> u] /\ s = [r EXCEPT !.chunk = <<>>, !.posted = r.written]
  BY <1>2 DEF Flushed
<1> HIDE DEF s, u
<1>4. /\ o.recorder = [s EXCEPT !.active = FALSE, !.pass = FALSE, !.shift = 0,
                                !.end = Endless, !.drain = NoDrain]
      /\ o.take = [u EXCEPT !.ended = TRUE]
  BY <1>1, <1>3
<1>5. NoDrain \in Nat /\ Endless \in Int
  BY LoopFacts DEF Endless
<1>6. o.recorder \in Recorders
  <2> DEFINE s1 == [s EXCEPT !.active = FALSE, !.pass = FALSE, !.shift = 0]
  <2>1. s1 \in Recorders
    BY <1>3 DEF Recorders
  <2>2. o.recorder = [s1 EXCEPT !.end = Endless, !.drain = NoDrain]
    BY <1>3, <1>4 DEF Recorders
  <2> HIDE DEF s1
  <2> QED
    BY <1>5, <2>1, <2>2 DEF Recorders
<1>7. /\ o.recorder.active = FALSE /\ o.recorder.drain = NoDrain /\ o.recorder.chunk = s.chunk
      /\ o.recorder.written = s.written /\ o.recorder.posted = s.posted
  BY <1>3, <1>4 DEF Recorders
<1>8. Tallied(o.recorder)
  BY <1>3, <1>7 DEF Tallied
<1>9. /\ u.stored = Samples(r, t) /\ SameTake(t, u) /\ u.complete = t.complete
  BY <1>3 DEF Takes, SameTake
<1>10. /\ o.take \in Takes /\ o.take.ended = TRUE /\ o.take.complete = u.complete
       /\ o.take.stored = u.stored /\ SameTake(u, o.take)
  BY <1>3, <1>4 DEF Takes, SameTake
<1>11. SameTake(t, o.take)
  BY <1>9, <1>10 DEF SameTake
<1>12. Samples(o.recorder, o.take) = o.take.stored
  BY <1>7 DEF Samples
<1> QED
  BY <1>6, <1>7, <1>8, <1>9, <1>10, <1>11, <1>12 DEF Ended

\* A sample is taken, and the quanta that are awaited are counted.
Drained(r, t, item, s, u) ==
    \E s0, u0 :
        /\ Took(r, t, item, s0, u0)
        /\ IF r.drain = NoDrain THEN s = s0 /\ u = u0
           ELSE IF r.drain <= 1 THEN Ended(s0, u0, s, u)
           ELSE s = [s0 EXCEPT !.drain = r.drain - 1] /\ u = u0

\* A sample that comes in while the take is drained.
LEMMA DrainFacts ==
  ASSUME NEW r \in Recorders, NEW t \in Takes, Tallied(r), r.active,
         ~r.pass => r.end = Endless,
         NEW item \in Sample, NEW o, o = CountDrain(WriteInput(r, t, item))
  PROVE  Drained(r, t, item, o.recorder, o.take)
<1> DEFINE w == WriteInput(r, t, item)
           s0 == w.recorder
           u0 == w.take
<1>1. Took(r, t, item, s0, u0) /\ w = [recorder |-> s0, take |-> u0]
  BY WriteFacts
<1>2. s0 \in Recorders /\ u0 \in Takes /\ Tallied(s0) /\ s0.active /\ s0.drain = r.drain
  BY <1>1 DEF Took, SameRun
<1>3. o = CountDrain(w)
  OBVIOUS
<1> HIDE DEF w
<1>4. r.drain \in Nat
  BY DEF Recorders
<1>5. CASE r.drain = NoDrain
  <2>1. o = w
    BY <1>2, <1>3, <1>5 DEF CountDrain
  <2> QED
    BY <1>1, <1>5, <2>1 DEF Drained
<1>6. CASE r.drain # NoDrain /\ r.drain <= 1
  <2>1. o = EndStream(w)
    BY <1>2, <1>3, <1>4, <1>6 DEF CountDrain
  <2>2. Ended(s0, u0, o.recorder, o.take)
    <3>1. o = EndStream([recorder |-> s0, take |-> u0])
      BY <1>1, <2>1
    <3> HIDE DEF s0, u0
    <3> QED
      BY <1>2, <3>1, EndFacts
  <2> QED
    BY <1>1, <1>6, <2>2 DEF Drained
<1>7. CASE r.drain # NoDrain /\ ~(r.drain <= 1)
  <2>1. o = [w EXCEPT !.recorder.drain = r.drain - 1]
    BY <1>2, <1>3, <1>4, <1>7 DEF CountDrain
  <2>2. o.recorder = [s0 EXCEPT !.drain = r.drain - 1] /\ o.take = u0
    <3> HIDE DEF s0, u0
    <3> QED
      BY <1>1, <2>1
  <2> QED
    BY <1>1, <1>7, <2>2 DEF Drained
<1> QED
  BY <1>5, <1>6, <1>7

\* How much of the output is yet to be heard.
LEMMA PendingFacts ==
  ASSUME NEW p \in Players, p.known, Len(p.rendered) <= OutputLatency
  PROVE  /\ PendingOutput(p) \in Nat
         /\ ~p.playing => PendingOutput(p) = OutputLatency
         /\ p.playing => PendingOutput(p) = OutputLatency - Len(p.rendered)
<1>1. p.rendered \in Seq(Nat) /\ OutputLatency \in Nat /\ p.playing \in BOOLEAN
  BY LoopFacts DEF Players
<1>2. Len(p.rendered) \in Nat
  BY <1>1
<1> QED
  <2>1. PendingOutput(p) = IF ~p.playing THEN OutputLatency
                           ELSE IF OutputLatency > Len(p.rendered)
                                THEN OutputLatency - Len(p.rendered) ELSE 0
    BY DEF PendingOutput, Latency
  <2>2. CASE ~p.playing
    BY <1>1, <2>1, <2>2
  <2>3. CASE p.playing
    <3>1. PendingOutput(p) = OutputLatency - Len(p.rendered)
      <4>1. OutputLatency > Len(p.rendered) \/ OutputLatency = Len(p.rendered)
        BY <1>1, <1>2
      <4>2. OutputLatency = Len(p.rendered) => OutputLatency - Len(p.rendered) = 0
        BY <1>1
      <4> QED
        BY <2>1, <2>3, <4>1, <4>2
    <3>2. OutputLatency - Len(p.rendered) \in Nat
      BY <1>1, <1>2
    <3> QED
      BY <2>3, <3>1, <3>2
  <2> QED
    BY <2>2, <2>3

InPass(p, r) == r.pass /\ p.range = "cycle"

\* A run begins with what is heard, and leaves out what is not heard yet.
Begun(p, r, frame, s) ==
    /\ s \in Recorders
    /\ s.active = r.active /\ s.chunk = r.chunk /\ s.skip = r.skip /\ s.pass = r.pass
    /\ s.state = r.state /\ s.drain = r.drain /\ s.written = 0 /\ s.posted = 0
    /\ s.start - s.leadIn = frame - PendingOutput(p) /\ s.leadIn >= PendingOutput(p)
    /\ InPass(p, r) => /\ s.shift = FindPass(frame) /\ Origin(s) = FromFrame
                       /\ s.end = LoopLength
    /\ ~InPass(p, r) => s.shift = 0 /\ s.start = frame /\ s.end = Endless

\* A run begins in the song, or before the next pass of the loop.
LEMMA RunFacts ==
  ASSUME NEW p \in Players, p.known, Len(p.rendered) <= OutputLatency,
         NEW r \in Recorders, NEW frame \in Nat
  PROVE  Begun(p, r, frame, StartRun(p, r, frame))
<1> DEFINE s == StartRun(p, r, frame)
           pending == PendingOutput(p)
           shift == FindPass(frame)
<1>1. pending \in Nat
  BY PendingFacts
<1>2. shift \in Nat /\ FromFrame + shift >= frame
  BY FindPassFacts
<1>3. FromFrame \in Nat /\ ToFrame = FromFrame + LoopLength /\ LoopLength \in Nat
  BY LoopFacts
<1>4. CASE InPass(p, r)
  <2> DEFINE punchIn == FromFrame + shift - frame
             start == frame + punchIn
  <2>1. s = [r EXCEPT !.leadIn = pending + punchIn, !.start = start, !.written = 0,
                      !.posted = 0, !.shift = shift, !.end = ToFrame + shift - start]
    BY <1>4 DEF StartRun, InPass
  <2>2. punchIn \in Nat /\ start = FromFrame + shift /\ ToFrame + shift - start = LoopLength
    BY <1>2, <1>3
  <2> HIDE DEF shift, pending
  <2>3. pending + punchIn \in Nat /\ start \in Nat /\ start - (pending + punchIn) = frame - pending
    BY <1>1, <1>2, <1>3, <2>2
  <2> HIDE DEF s, punchIn, start
  <2>4. s = [r EXCEPT !.leadIn = pending + punchIn, !.start = start, !.written = 0,
                      !.posted = 0, !.shift = shift, !.end = LoopLength]
    BY <2>1, <2>2
  <2>5. s \in Recorders
    <3> DEFINE s1 == [r EXCEPT !.leadIn = pending + punchIn, !.start = start, !.written = 0]
    <3>1. s1 \in Recorders
      BY <2>3 DEF Recorders
    <3>2. s = [s1 EXCEPT !.posted = 0, !.shift = shift, !.end = LoopLength]
      BY <2>4 DEF Recorders
    <3>3. LoopLength \in Int
      BY <1>3
    <3> HIDE DEF s1
    <3> QED
      BY <1>2, <3>1, <3>2, <3>3 DEF Recorders
  <2>6. /\ s.active = r.active /\ s.chunk = r.chunk /\ s.skip = r.skip /\ s.pass = r.pass
        /\ s.state = r.state /\ s.drain = r.drain /\ s.written = 0 /\ s.posted = 0
        /\ s.start = start /\ s.leadIn = pending + punchIn /\ s.shift = shift /\ s.end = LoopLength
    BY <2>4 DEF Recorders
  <2>7. Origin(s) = FromFrame
    BY <1>2, <1>3, <2>2, <2>6 DEF Origin
  <2>8. s.leadIn >= pending
    BY <1>1, <2>2, <2>6
  <2> QED
    BY <1>4, <2>3, <2>5, <2>6, <2>7, <2>8 DEF Begun, pending, shift, s
<1>5. CASE ~InPass(p, r)
  <2>1. s = [r EXCEPT !.leadIn = pending + 0, !.start = frame + 0, !.written = 0,
                      !.posted = 0, !.shift = 0, !.end = Endless]
    BY <1>5 DEF StartRun, InPass
  <2> HIDE DEF pending
  <2>2. pending + 0 = pending /\ frame + 0 = frame /\ Endless \in Int /\ 0 \in Nat
    BY <1>1 DEF Endless
  <2> HIDE DEF s
  <2>4. s = [r EXCEPT !.leadIn = pending, !.start = frame, !.written = 0,
                      !.posted = 0, !.shift = 0, !.end = Endless]
    BY <2>1, <2>2
  <2>5. s \in Recorders
    BY <1>1, <2>2, <2>4 DEF Recorders
  <2>6. /\ s.active = r.active /\ s.chunk = r.chunk /\ s.skip = r.skip /\ s.pass = r.pass
        /\ s.state = r.state /\ s.drain = r.drain /\ s.written = 0 /\ s.posted = 0
        /\ s.start = frame /\ s.leadIn = pending /\ s.shift = 0 /\ s.end = Endless
    BY <2>4 DEF Recorders
  <2>7. s.start - s.leadIn = frame - pending /\ s.leadIn >= pending
    BY <1>1, <2>6
  <2> QED
    BY <1>5, <2>5, <2>6, <2>7 DEF Begun, pending, s
<1> QED
  BY <1>4, <1>5

-----------------------------------------------------------------------------
(* The invariant. The way of the player and the air tell of the same       *)
(* quanta; what is in the air will be sung where the recording will be     *)
(* then; and what is heard while the take is on is ahead of what is        *)
(* written by the latency of the input.                                    *)

\* A place, or of a try the same place of any round.
At(try, a, b) == IF try THEN Same(a, b) ELSE a = b
Ats(samples) == {sample.at : sample \in samples}

\* The phase of the main thread and what the audio thread does.
Control(p, r, ph, t) ==
    /\ ph = "none" => ~r.active
    /\ ph \in {"armed", "on", "stopping", "ending"} => r.active /\ r.drain = NoDrain
    /\ ph = "flushing" /\ r.active => r.drain \in 1..InputLatency
    /\ ~r.active => r.drain = NoDrain
    /\ ph = "armed" => ~p.playing /\ r.skip = InputLatency /\ r.leadIn >= OutputLatency
    /\ r.active => p.known /\ t.try = r.pass
    /\ r.active /\ ~r.pass => p.range = "none"
    /\ r.active /\ r.pass => p.range # "once"
    /\ ~p.playing => p.rendered = <<>> /\ p.frame = p.render /\ p.began = p.render

\* What is kept of the history of the player.
Course(p, a) ==
    /\ Len(p.rendered) <= OutputLatency
    /\ Len(p.rendered) < OutputLatency => Way(p)[1] = p.began
    /\ Chained(Way(p), a)

\* A run has its places one after the other, and a try those of the loop.
Whole(r, t) == \A w \in 0..(r.written - 1) : \E s \in Samples(r, t) : s.at = Origin(r) + w
Try(r, t) ==
    /\ Origin(r) = FromFrame /\ r.end = LoopLength /\ r.written <= LoopLength
    /\ \A s \in Samples(r, t) : s.at >= FromFrame /\ s.at < FromFrame + r.written
    /\ r.state = "ended" => r.chunk = <<>>
    /\ t.complete => r.state = "ended"
\* The take has every place of its runs, a try none but those of the loop, and a
\* complete try all of them.
Records(r, t) ==
    /\ Tallied(r)
    /\ r.active => Whole(r, t) /\ t.try = r.pass
    /\ r.active /\ r.pass => Try(r, t)
    /\ r.active /\ ~r.pass => r.end = Endless /\ r.shift = 0 /\ r.state # "ended" /\ ~t.complete
    /\ t.complete => Ats(t.stored) = FromFrame..(ToFrame - 1) /\ t.try

\* What is recorded is where it was heard.
Clear(t) == ~t.crossed /\ (t.try => ~t.closed)
Live(r, t) == r.active /\ r.state # "ended" /\ Clear(t)
Stays(r, t) == Clear(t) /\ (t.try => t.complete \/ (r.active /\ r.state # "ended"))
\* What has been written was sung there.
SungRight(r, t) ==
    Stays(r, t) => \A s \in Samples(r, t) : s.sung # Silence => At(t.try, s.at + s.late, s.sung)

\* The song is over, and what comes until the end is left out.
Muted(p, r, ph) ==
    /\ ~p.playing /\ ph \notin {"none", "armed"}
    /\ r.skip >= IF r.drain = NoDrain THEN InputLatency ELSE r.drain

\* What is rendered next is for this run.
Rolling(p, r, ph) == r.drain = NoDrain /\ (p.playing \/ ph = "armed")

\* After how many quanta the i-th of the air is what is sung.
Until(a, i) == (RoundTrip - Len(a)) + (i - 1)
\* What is in the air will be sung where the recording will be then.
AirSung(r, a, t) ==
    \A i \in 1..Len(a) :
      Wait(r) <= Until(a, i) /\ (r.drain # NoDrain => Until(a, i) < r.drain) /\ a[i].frame # Silence
      => At(t.try, ((Place(r) + Until(a, i)) + DropFrom(a, i)) - t.unheard, a[i].frame)
\* And so will what is rendered next.
Aligned(p, r, a, ph, t) ==
    /\ AirSung(r, a, t)
    /\ Rolling(p, r, ph) => At(t.try, (Place(r) + RoundTrip) - t.unheard, p.render)
SungNext(p, r, a, ph, t) == Live(r, t) => Muted(p, r, ph) \/ Aligned(p, r, a, ph, t)

\* What is heard is ahead of what is written by the latency of the input.
Left(r) == IF r.drain = NoDrain THEN InputLatency ELSE r.drain
Heard(p, r, i) == (Place(r) + RoundTrip) - (Len(Way(p)) - i)
\* A place of the way is where the recording will be when it has been heard and
\* sung; of a try it may be some rounds away, but not before the loop begins.
AheadAt(p, r, ph, i) ==
    LET x == Way(p)[i]
        heard == Heard(p, r, i)
    IN
    /\ At(r.pass, x, heard)
    /\ r.pass /\ r.shift = 0 /\ heard < FromFrame => x = heard
    /\ r.pass /\ (r.shift > 0 \/ heard >= FromFrame) => x >= FromFrame
    /\ r.pass /\ (ph = "armed" \/ (ph = "on" /\ p.range = "none")) => x = heard
Ahead(p, r, ph) ==
    /\ ~r.pass => Heard(p, r, 1) >= r.start
    /\ r.pass /\ r.shift > 0 => Heard(p, r, 1) > FromFrame - LoopLength
    /\ \A i \in 1..Len(Way(p)) : AheadAt(p, r, ph, i)
\* What was heard while the take was on is written, or is still to come.
Owed(r, t) == \A d \in t.due : Origin(r) <= d /\ d < Place(r) + Left(r)
\* What keeps the take whole to its end.
KeptNext(p, r, ph, t) ==
    /\ t.ended => ~r.active
    /\ r.active /\ r.state = "ended" /\ ~t.complete => t.due = {}
    /\ r.active /\ ~t.still /\ ~t.crossed /\ r.state # "ended" =>
         Owed(r, t) /\ (Rolling(p, r, ph) => Ahead(p, r, ph))
    /\ t.ended /\ ~t.still /\ ~t.crossed /\ ~t.complete => t.due \subseteq Ats(t.stored)

HeardState(p, r, a, ph, t) ==
    /\ p \in Players /\ r \in Recorders /\ t \in Takes
    /\ a \in Seq(Quantum) /\ Len(a) <= RoundTrip
    /\ Control(p, r, ph, t)
    /\ Course(p, a)
    /\ Records(r, t)
    /\ SungRight(r, t)
    /\ SungNext(p, r, a, ph, t)
    /\ KeptNext(p, r, ph, t)

\* The inductive invariant.
HeardInv == booth \in Booths /\ HeardState(player, recorder, air, booth.phase, take)

\* Places that agree.
LEMMA AtFacts ==
  ASSUME NEW try \in BOOLEAN, NEW a \in Int, NEW b \in Int
  PROVE  /\ a = b => At(try, a, b)
         /\ \A c, d \in Int : At(try, a, b) /\ a - b = c - d => At(try, c, d)
         /\ \A c \in Int : At(try, a, b) /\ At(try, b, c) => At(try, a, c)
         /\ At(try, a, b) => At(try, b, a) /\ Same(a, b)
<1>1. CASE try
  BY <1>1, SameFacts DEF At
<1>2. CASE ~try
  BY <1>2, SameFacts DEF At
<1> QED
  BY <1>1, <1>2

\* A sample keeps the records of the take.
LEMMA RecordsTook ==
  ASSUME NEW r \in Recorders, NEW t \in Takes, Records(r, t), r.active,
         NEW item \in Sample, NEW s, NEW u, Took(r, t, item, s, u)
  PROVE  Records(s, u)
<1>0. /\ s \in Recorders /\ u \in Takes /\ Tallied(s) /\ s.active /\ s.pass = r.pass /\ s.end = r.end
      /\ s.shift = r.shift /\ Origin(s) = Origin(r) /\ u.try = t.try
  BY DEF Took, SameRun, SameTake, Origin
<1>1. /\ r.written \in Nat /\ s.written \in Nat /\ Origin(r) \in Int /\ Wait(r) \in Nat
      /\ r.pass \in BOOLEAN /\ t.complete \in BOOLEAN /\ r.end \in Int
  <2>1. /\ r.written \in Nat /\ r.start \in Nat /\ r.shift \in Nat /\ r.skip \in Nat
        /\ r.leadIn \in Nat /\ r.pass \in BOOLEAN /\ r.end \in Int /\ t.complete \in BOOLEAN
    BY DEF Recorders, Takes
  <2>2. s.written \in Nat
    BY <1>0 DEF Recorders
  <2> QED
    BY <2>1, <2>2 DEF Origin, Wait
<1>2. FromFrame \in Nat /\ ToFrame = FromFrame + LoopLength /\ LoopLength \in Nat
  BY LoopFacts
<1>3. Whole(r, t) /\ t.try = r.pass /\ (r.pass => Try(r, t))
      /\ (~r.pass => r.end = Endless /\ r.shift = 0 /\ r.state # "ended" /\ ~t.complete)
      /\ (t.complete => Ats(t.stored) = FromFrame..(ToFrame - 1) /\ t.try)
  BY DEF Records
<1>4. CASE /\ Wait(r) > 0 /\ Wait(s) = Wait(r) - 1 /\ s.skip <= r.skip /\ s.skip >= r.skip - 1
           /\ s.written = r.written /\ s.state = r.state /\ s.chunk = r.chunk
           /\ Samples(s, u) = Samples(r, t) /\ u.complete = t.complete /\ u.stored = t.stored
  <2>1. Whole(s, u)
    BY <1>0, <1>3, <1>4 DEF Whole
  <2>2. r.pass => Try(s, u)
    BY <1>0, <1>3, <1>4 DEF Try
  <2> QED
    BY <1>0, <1>3, <1>4, <2>1, <2>2 DEF Records
<1>5. CASE Wait(r) = 0 /\ r.state = "ended" /\ s = r /\ u = t
  BY <1>5
<1>6. CASE /\ Wait(r) = 0 /\ r.state # "ended" /\ r.pass /\ r.written >= r.end
           /\ s.state = "ended" /\ s.written = r.written /\ Wait(s) = 0 /\ s.skip = 0 /\ s.chunk = <<>>
           /\ u.complete = TRUE /\ Samples(s, u) = Samples(r, t) /\ u.stored = Samples(r, t)
  <2>1. Whole(s, u)
    BY <1>0, <1>3, <1>6 DEF Whole
  <2>2. Try(s, u)
    BY <1>0, <1>3, <1>6 DEF Try
  <2>3. Ats(u.stored) = FromFrame..(ToFrame - 1)
    <3>1. /\ r.written = LoopLength /\ Origin(r) = FromFrame
          /\ \A x \in Samples(r, t) : x.at >= FromFrame /\ x.at < FromFrame + r.written
      BY <1>1, <1>2, <1>3, <1>6 DEF Try
    <3>2. \A x \in Samples(r, t) : x.at \in Int
      <4>1. Samples(r, t) \in SUBSET StoredSample
        BY PlacedFacts DEF Samples, Takes
      <4> QED
        BY <4>1 DEF StoredSample
    <3>3. \A y \in Ats(u.stored) : y \in FromFrame..(ToFrame - 1)
      BY <1>2, <1>6, <3>1, <3>2 DEF Ats
    <3>4. ASSUME NEW y \in FromFrame..(ToFrame - 1) PROVE y \in Ats(u.stored)
      <4>1. y - FromFrame \in 0..(r.written - 1) /\ FromFrame + (y - FromFrame) = y
        BY <1>1, <1>2, <3>1
      <4>2. PICK x \in Samples(r, t) : x.at = y
        BY <1>3, <3>1, <4>1 DEF Whole
      <4> QED
        BY <1>6, <4>2 DEF Ats
    <3> QED
      BY <3>3, <3>4
  <2> QED
    BY <1>0, <1>3, <1>6, <2>1, <2>2, <2>3 DEF Records
<1>7. CASE /\ Wait(r) = 0 /\ r.state # "ended" /\ ~RunOver(r)
           /\ s.written = r.written + 1 /\ s.state # "ended" /\ Wait(s) = 0 /\ s.skip = 0
           /\ u.complete = t.complete
           /\ Samples(s, u) = Samples(r, t) \cup
                {[at |-> Place(r), sung |-> item.sung, late |-> item.late]}
  <2> DEFINE new == [at |-> Place(r), sung |-> item.sung, late |-> item.late]
  <2>1. Place(r) = Origin(r) + r.written
    BY <1>1, <1>7 DEF Place
  <2>2. ASSUME NEW w \in 0..(s.written - 1) PROVE \E x \in Samples(s, u) : x.at = Origin(s) + w
    <3>1. CASE w \in 0..(r.written - 1)
      BY <1>0, <1>3, <1>7, <3>1 DEF Whole
    <3>2. CASE w = r.written
      <4>1. new \in Samples(s, u) /\ new.at = Origin(s) + w
        BY <1>0, <1>7, <2>1, <3>2
      <4> QED
        BY <4>1
    <3> QED
      BY <1>1, <1>7, <3>1, <3>2
  <2>3. Whole(s, u)
    BY <2>2 DEF Whole
  <2>4. ASSUME r.pass PROVE Try(s, u)
    <3>1. /\ Origin(r) = FromFrame /\ r.end = LoopLength /\ r.written <= LoopLength
          /\ \A x \in Samples(r, t) : x.at >= FromFrame /\ x.at < FromFrame + r.written
          /\ (t.complete => r.state = "ended")
      BY <1>3, <2>4 DEF Try
    <3>2. r.written < LoopLength
      BY <1>1, <1>2, <1>7, <3>1 DEF RunOver, Endless
    <3>3. ASSUME NEW x \in Samples(s, u) PROVE x.at >= FromFrame /\ x.at < FromFrame + s.written
      <4>1. CASE x \in Samples(r, t)
        <5>1. x.at \in Int
          <6>1. Samples(r, t) \in SUBSET StoredSample
            BY PlacedFacts DEF Samples, Takes
          <6> QED
            BY <4>1, <6>1 DEF StoredSample
        <5> QED
          BY <1>1, <1>2, <1>7, <3>1, <4>1, <5>1
      <4>2. CASE x = new
        BY <1>1, <1>2, <1>7, <2>1, <3>1, <4>2
      <4> QED
        BY <1>7, <4>1, <4>2
    <3>4. s.written <= LoopLength
      BY <1>1, <1>2, <1>7, <3>2
    <3> QED
      BY <1>0, <1>7, <3>1, <3>3, <3>4 DEF Try
  <2>5. ~t.complete
    BY <1>1, <1>3, <1>7 DEF Try
  <2> QED
    BY <1>0, <1>3, <1>7, <2>3, <2>4, <2>5 DEF Records
<1> QED
  BY <1>4, <1>5, <1>6, <1>7 DEF Took

\* And so does the end of its stream.
LEMMA RecordsEnded ==
  ASSUME NEW r \in Recorders, NEW t \in Takes, Records(r, t), r.active,
         NEW s, NEW u, Ended(r, t, s, u)
  PROVE  Records(s, u)
<1>1. /\ Tallied(s) /\ s.active = FALSE /\ u.try = t.try /\ u.complete = t.complete
      /\ u.stored = Samples(r, t)
  BY DEF Ended, SameTake
<1>2. ASSUME t.complete PROVE Ats(u.stored) = FromFrame..(ToFrame - 1) /\ u.try
  <2>1. r.pass /\ r.state = "ended" /\ r.chunk = <<>> /\ t.try
        /\ Ats(t.stored) = FromFrame..(ToFrame - 1)
    BY <1>2 DEF Records, Try, Recorders
  <2>2. Samples(r, t) = t.stored
    BY <2>1, PlacedFacts DEF Samples
  <2> QED
    BY <1>1, <2>1, <2>2
<1> QED
  BY <1>1, <1>2 DEF Records

\* What the records of the take are read from.
SameRecord(r, t, s, u) ==
    /\ SameRun(r, s) /\ s.written = r.written /\ s.posted = r.posted /\ s.chunk = r.chunk
    /\ s.state = r.state /\ u.stored = t.stored /\ u.try = t.try /\ u.complete = t.complete

\* They depend on nothing else.
LEMMA SameRecords ==
  ASSUME NEW r, NEW t, Records(r, t), NEW s, NEW u, SameRecord(r, t, s, u)
  PROVE  Records(s, u) /\ Samples(s, u) = Samples(r, t) /\ Origin(s) = Origin(r)
<1>1. /\ s.active = r.active /\ s.start = r.start /\ s.shift = r.shift
      /\ s.end = r.end /\ s.pass = r.pass /\ s.written = r.written /\ s.posted = r.posted
      /\ s.chunk = r.chunk
      /\ s.state = r.state /\ u.stored = t.stored /\ u.try = t.try /\ u.complete = t.complete
  BY DEF SameRecord, SameRun
<1>2. Samples(s, u) = Samples(r, t) /\ Origin(s) = Origin(r)
  BY <1>1 DEF Samples, Placed, Origin
<1>3. Tallied(s) /\ (Whole(r, t) => Whole(s, u)) /\ (Try(r, t) => Try(s, u))
  <2>1. Tallied(s)
    BY <1>1 DEF Records, Tallied
  <2>2. Whole(r, t) => Whole(s, u)
    BY <1>1, <1>2 DEF Whole
  <2>3. Try(r, t) => Try(s, u)
    BY <1>1, <1>2 DEF Try
  <2> QED
    BY <2>1, <2>2, <2>3
<1> QED
  BY <1>1, <1>2, <1>3 DEF Records

-----------------------------------------------------------------------------
(* The steps of the player.                                                *)

\* What the player keeps when its place changes.
SamePlay(p, q) == q.playing = p.playing /\ q.frozen = p.frozen /\ q.range = p.range /\ q.known = p.known

Begins(p, f, q) ==
    /\ q \in Players /\ SamePlay(p, q)
    /\ q.frame = f /\ q.render = f /\ q.began = f /\ q.rendered = <<>>

\* The player begins somewhere.
LEMMA BeginFacts ==
  ASSUME NEW p \in Players, NEW f \in Nat
  PROVE  Begins(p, f, Begin(p, f))
<1> DEFINE q == Begin(p, f)
<1>1. q = [p EXCEPT !.frame = f, !.render = f, !.began = f, !.rendered = <<>>]
  BY DEF Begin
<1>2. <<>> \in Seq(Nat)
  OBVIOUS
<1> HIDE DEF q
<1>3. q \in Players
  BY <1>1, <1>2 DEF Players
<1>4. /\ q.playing = p.playing /\ q.frozen = p.frozen /\ q.range = p.range /\ q.known = p.known
      /\ q.frame = f /\ q.render = f /\ q.began = f /\ q.rendered = <<>>
  BY <1>1 DEF Players
<1> QED
  BY <1>3, <1>4 DEF Begins, SamePlay, q

\* The history of the heard position is read: only the frame changes.
Refreshes(p, q) ==
    /\ q \in Players /\ SamePlay(p, q)
    /\ q.render = p.render /\ q.began = p.began /\ q.rendered = p.rendered
    /\ p.known => q.frame = IF Len(p.rendered) < OutputLatency THEN p.began
                            ELSE SongFrame(p, p.rendered[1])

\* The heard position is that of a latency of the output before.
LEMMA RefreshFacts ==
  ASSUME NEW p \in Players
  PROVE  Refreshes(p, Refreshed(p))
<1> DEFINE f == IF p.rendered = <<>> THEN p.began
                ELSE IF ~p.known THEN SongFrame(p, p.render)
                ELSE IF Len(p.rendered) < OutputLatency THEN p.began
                ELSE SongFrame(p, Head(p.rendered))
           q == Refreshed(p)
<1>1. q = [p EXCEPT !.frame = f]
  BY DEF Refreshed
<1>2. /\ p.began \in Nat /\ p.render \in Nat /\ p.rendered \in Seq(Nat)
  BY DEF Players
<1>3. p.rendered # <<>> => Head(p.rendered) = p.rendered[1] /\ p.rendered[1] \in Nat
                           /\ Len(p.rendered) > 0
  BY <1>2
<1>4. f \in Nat
  BY <1>2, <1>3, SongFrameFacts
<1>5. p.known => f = IF Len(p.rendered) < OutputLatency THEN p.began
                     ELSE SongFrame(p, p.rendered[1])
  <2>1. p.rendered = <<>> => Len(p.rendered) < OutputLatency
    BY LoopFacts
  <2> QED
    BY <1>3, <2>1
<1> HIDE DEF f, q
<1>6. q \in Players
  BY <1>1, <1>4 DEF Players
<1>7. /\ q.playing = p.playing /\ q.frozen = p.frozen /\ q.range = p.range /\ q.known = p.known
      /\ q.frame = f /\ q.render = p.render /\ q.began = p.began /\ q.rendered = p.rendered
  BY <1>1 DEF Players
<1> QED
  BY <1>5, <1>6, <1>7 DEF Refreshes, SamePlay, q

\* A quantum is rendered or held, and comes next what is given.
Renders(p, render, q) ==
    /\ q \in Players /\ SamePlay(p, q)
    /\ q.rendered = Pushed(p.rendered, p.render, OutputLatency)
    /\ q.render = render /\ q.began = p.began

\* A quantum of the player.
LEMMA RenderFacts ==
  ASSUME NEW p \in Players, Len(p.rendered) <= OutputLatency
  PROVE  /\ Renders(p, p.render, Hold(p))
         /\ Renders(p, SongFrame(p, p.render + 1), Advance(p))
<1> DEFINE rendered == Pushed(p.rendered, p.render, OutputLatency)
           next == SongFrame(p, p.render + 1)
<1>1. /\ p.rendered \in Seq(Nat) /\ p.render \in Nat /\ OutputLatency \in Nat /\ OutputLatency > 0
  BY LoopFacts DEF Players
<1>2. rendered \in Seq(Nat)
  BY <1>1, PushedFacts
<1>3. next \in Nat
  BY <1>1, StepFacts
<1>4. Renders(p, p.render, Hold(p))
  <2> DEFINE h == [p EXCEPT !.rendered = rendered]
  <2>1. Hold(p) = Refreshed(h)
    BY DEF Hold
  <2> HIDE DEF rendered
  <2>2. h \in Players
    BY <1>2 DEF Players
  <2>3. /\ h.playing = p.playing /\ h.frozen = p.frozen /\ h.range = p.range /\ h.known = p.known
        /\ h.render = p.render /\ h.began = p.began /\ h.rendered = rendered
    BY DEF Players
  <2> HIDE DEF h
  <2>4. Refreshes(h, Hold(p))
    BY <2>1, <2>2, RefreshFacts
  <2> QED
    BY <2>3, <2>4 DEF Refreshes, Renders, SamePlay, rendered
<1>5. Renders(p, next, Advance(p))
  <2> DEFINE h == [p EXCEPT !.rendered = rendered, !.render = next]
  <2>1. Advance(p) = Refreshed(h)
    BY DEF Advance
  <2> HIDE DEF rendered, next
  <2>2. h \in Players
    BY <1>2, <1>3 DEF Players
  <2>3. /\ h.playing = p.playing /\ h.frozen = p.frozen /\ h.range = p.range /\ h.known = p.known
        /\ h.render = next /\ h.began = p.began /\ h.rendered = rendered
    BY DEF Players
  <2> HIDE DEF h
  <2>4. Refreshes(h, Advance(p))
    BY <2>1, <2>2, RefreshFacts
  <2> QED
    BY <2>3, <2>4 DEF Refreshes, Renders, SamePlay, rendered
<1> QED
  BY <1>4, <1>5

\* The way of a player that has just begun.
LEMMA CourseBegun ==
  ASSUME NEW p \in Players, p.rendered = <<>>, p.began = p.render, NEW a \in Seq(Quantum)
  PROVE  Course(p, a)
<1>1. /\ Way(p) \in Seq(Nat) /\ Len(Way(p)) = 1 /\ Way(p)[1] = p.render
  <2>1. Len(p.rendered) = 0
    OBVIOUS
  <2>2. /\ Way(p) \in Seq(Nat) /\ Len(Way(p)) = Len(p.rendered) + 1
        /\ Way(p)[Len(Way(p))] = p.render
    BY WayFacts
  <2>3. Len(Way(p)) = 1
    BY <2>1, <2>2
  <2> QED
    BY <2>2, <2>3
<1>2. OutputLatency \in Nat /\ FromFrame \in Nat
  BY LoopFacts
<1> DEFINE h == Way(p)
<1>3. h[1] \in Nat
  BY <1>1 DEF Players
<1> HIDE DEF h
<1>4. Chained(h, a)
  <2>1. Len(h) = 1
    BY <1>1 DEF h
  <2>2. ASSUME NEW i \in 1..Len(h), NEW j \in 1..Len(h), i <= j
        PROVE  Leads(h, i, j, Reach(h, a, i, j))
    <3>1. i = 1 /\ j = 1
      BY <2>1
    <3>2. Base(h, a) + 1 \in Int
      BY <2>1 DEF Base
    <3>3. HeldFrom(a, Base(h, a) + 1) \in Nat
      BY <3>2, CountFacts
    <3>4. Reach(h, a, 1, 1) = h[1]
      BY <1>3, <3>3 DEF Reach
    <3>5. Same(h[1], h[1])
      BY <1>3, SameFacts
    <3> QED
      BY <3>1, <3>4, <3>5, <1>2, <1>3 DEF Leads
  <2> QED
    BY <2>1, <2>2 DEF Chained
<1> QED
  BY <1>1, <1>2, <1>4 DEF Course, h

\* What was rendered is pushed to its history.
Recalls(s, x, t) ==
    /\ Len(t) = (IF Len(s) < OutputLatency THEN Len(s) + 1 ELSE Len(s))
    /\ Len(t) <= OutputLatency /\ Len(t) > 0 /\ t[Len(t)] = x
    /\ Gone(s, t) \in {0, 1} /\ Len(t) + Gone(s, t) = Len(s) + 1
    /\ \A i \in 1..(Len(t) - 1) : i + Gone(s, t) \in 1..Len(s) /\ t[i] = s[i + Gone(s, t)]

\* What was rendered is kept.
LEMMA HistoryPush ==
  ASSUME NEW S, NEW s \in Seq(S), NEW x \in S, Len(s) <= OutputLatency,
         NEW t, t = Pushed(s, x, OutputLatency)
  PROVE  t \in Seq(S) /\ Recalls(s, x, t)
<1>1. OutputLatency \in Nat /\ OutputLatency > 0
  BY LoopFacts
<1>2. /\ t \in Seq(S) /\ Len(t) = (IF Len(s) < OutputLatency THEN Len(s) + 1 ELSE Len(s))
      /\ Len(t) <= OutputLatency /\ Len(t) > 0 /\ t[Len(t)] = x
      /\ Gone(s, t) \in {0, 1} /\ Len(t) + Gone(s, t) = Len(s) + 1
      /\ \A i \in 1..(Len(t) - 1) : i + Gone(s, t) \in 1..Len(s) /\ t[i] = s[i + Gone(s, t)]
  BY <1>1, PushedFacts
<1> QED
  BY <1>2 DEF Recalls

\* A quantum that is pushed to the way and to the air.
LEMMA CourseRenders ==
  ASSUME NEW p \in Players, NEW a \in Seq(Quantum), Len(a) <= RoundTrip, Course(p, a),
         NEW item \in Quantum, NEW b, AirPush(a, item, b),
         NEW render, NEW q, Renders(p, render, q), Goes(p.render, render, item)
  PROVE  /\ Course(q, b)
         /\ Len(Way(q)) > 1 /\ Gone(Way(p), Way(q)) \in {0, 1}
         /\ Len(Way(q)) + Gone(Way(p), Way(q)) = Len(Way(p)) + 1
         /\ \A i \in 1..(Len(Way(q)) - 1) : /\ i + Gone(Way(p), Way(q)) \in 1..Len(Way(p))
                                            /\ Way(q)[i] = Way(p)[i + Gone(Way(p), Way(q))]
         /\ Way(q)[Len(Way(q))] = render
<1> DEFINE h == Way(p)
           g == Way(q)
           o == Gone(h, g)
           s == p.rendered
           t == q.rendered
           e == Gone(s, t)
<1>1. /\ q \in Players /\ q.rendered = Pushed(p.rendered, p.render, OutputLatency)
      /\ q.render = render /\ q.began = p.began
  BY DEF Renders
<1>2. /\ s \in Seq(Nat) /\ p.render \in Nat /\ OutputLatency \in Nat /\ OutputLatency > 0
      /\ Len(s) <= OutputLatency /\ OutputLatency <= RoundTrip
  BY LoopFacts DEF Players, Course
<1>3. /\ h \in Seq(Nat) /\ Len(h) = Len(s) + 1 /\ (\A i \in 1..Len(s) : h[i] = s[i])
      /\ h[Len(h)] = p.render
      /\ g \in Seq(Nat) /\ Len(g) = Len(t) + 1 /\ (\A i \in 1..Len(t) : g[i] = t[i])
      /\ g[Len(g)] = render
  BY <1>1, WayFacts
<1>4. /\ Len(t) = (IF Len(s) < OutputLatency THEN Len(s) + 1 ELSE Len(s))
      /\ Len(t) <= OutputLatency /\ Len(t) > 0 /\ t[Len(t)] = p.render
      /\ e \in {0, 1} /\ Len(t) + e = Len(s) + 1
      /\ \A i \in 1..(Len(t) - 1) : i + e \in 1..Len(s) /\ t[i] = s[i + e]
  <2>1. t = Pushed(s, p.render, OutputLatency)
    BY <1>1
  <2> HIDE DEF s, t
  <2> QED
    <3>1. Recalls(s, p.render, t)
      BY <1>2, <2>1, HistoryPush, Zenon
    <3> QED
      BY <3>1 DEF Recalls
<1>5. Len(s) \in Nat /\ Len(t) \in Nat
  BY <1>2, <1>1 DEF Players
<1>6. o = e
  BY <1>3, <1>5 DEF Gone
<1> HIDE DEF h, g, s, t, e, o
<1>7. Len(g) > 1 /\ o \in {0, 1} /\ Len(g) + o = Len(h) + 1 /\ Len(h) > 0
  BY <1>3, <1>4, <1>5, <1>6
<1>8. \A i \in 1..(Len(g) - 1) : i + o \in 1..Len(h) /\ g[i] = h[i + o]
  <2> SUFFICES ASSUME NEW i \in 1..(Len(g) - 1)
               PROVE  i + o \in 1..Len(h) /\ g[i] = h[i + o]
    OBVIOUS
  <2>1. i \in 1..Len(t) /\ i \in Int
    BY <1>3, <1>5
  <2>2. CASE i = Len(t)
    <3>1. i + o = Len(h)
      BY <1>3, <1>4, <1>5, <1>6, <2>2
    <3>2. g[i] = t[Len(t)]
      BY <1>3, <2>1, <2>2
    <3>3. i + o \in 1..Len(h)
      BY <1>3, <1>5, <3>1
    <3> QED
      BY <1>3, <1>4, <3>1, <3>2, <3>3
  <2>3. CASE i < Len(t)
    <3>1. i \in 1..(Len(t) - 1)
      BY <1>5, <2>1, <2>3
    <3>2. i + e \in 1..Len(s) /\ t[i] = s[i + e]
      BY <1>4, <3>1
    <3> QED
      BY <1>3, <1>5, <1>6, <2>1, <3>2
  <2> QED
    BY <1>5, <2>1, <2>2, <2>3
<1>9. Chained(h, a) /\ (Len(s) < OutputLatency => h[1] = p.began)
  BY DEF Course, h, s
<1>10. Chained(g, b)
  <2>1. Len(g) \in {Len(h), Len(h) + 1} /\ Len(g) - 1 <= RoundTrip
    BY <1>2, <1>3, <1>4, <1>5, <1>7, LoopFacts
  <2>2. o = Gone(h, g)
    BY DEF o
  <2>3. Goes(h[Len(h)], g[Len(g)], item)
    BY <1>3
  <2>4. \A i \in 1..(Len(g) - 1) : g[i] = h[i + Gone(h, g)]
    BY <1>8, <2>2
  <2> QED
    BY <1>3, <1>7, <1>9, <2>1, <2>3, <2>4, ChainedPush
<1>11. Len(t) < OutputLatency => g[1] = q.began
  <2> SUFFICES ASSUME Len(t) < OutputLatency PROVE g[1] = q.began
    OBVIOUS
  <2>1. Len(s) < OutputLatency /\ o = 0
    BY <1>2, <1>4, <1>5, <1>6
  <2>2. 1 \in 1..(Len(g) - 1)
    BY <1>3, <1>4, <1>5
  <2>3. g[1] = h[1 + 0]
    BY <1>8, <2>1, <2>2
  <2> QED
    BY <1>1, <1>9, <2>1, <2>3
<1>12. Course(q, b)
  BY <1>4, <1>10, <1>11 DEF Course, g, t
<1> QED
  BY <1>3, <1>7, <1>8, <1>12 DEF g, h, o

\* What the way is read from does not change.
LEMMA CourseSame ==
  ASSUME NEW p, NEW q, NEW a, Course(p, a),
         q.rendered = p.rendered, q.render = p.render, q.began = p.began
  PROVE  Course(q, a) /\ Way(q) = Way(p)
BY DEF Course, Way

\* A drain takes as long as the latency of the input.
LEMMA DrainBounds ==
  ASSUME NEW r \in Recorders, r.drain \in (1..InputLatency) \cup {NoDrain}
  PROVE  /\ r.drain \in Nat /\ r.drain >= 1 /\ NoDrain \in Nat
         /\ r.drain # NoDrain => r.drain <= InputLatency /\ r.drain - 1 # NoDrain
                                 /\ (r.drain > 1 => r.drain - 1 \in 1..InputLatency)
BY LoopFacts

\* The types of the fields of the recording,
LEMMA RecorderTypes ==
  ASSUME NEW r \in Recorders
  PROVE  /\ r.start \in Nat /\ r.shift \in Nat /\ r.written \in Nat /\ r.skip \in Nat
         /\ r.leadIn \in Nat /\ r.drain \in Nat /\ r.end \in Int /\ r.posted \in Nat
         /\ r.pass \in BOOLEAN /\ r.active \in BOOLEAN /\ r.chunk \in Seq(Sample)
         /\ r.state \in {"waiting", "writing", "ended"}
         /\ Origin(r) \in Int /\ Wait(r) \in Nat /\ Place(r) \in Int
         /\ Place(r) = (Origin(r) + r.written) - Wait(r) /\ Wait(r) = r.skip + r.leadIn
<1>1. /\ r.start \in Nat /\ r.shift \in Nat /\ r.written \in Nat /\ r.skip \in Nat
      /\ r.leadIn \in Nat /\ r.drain \in Nat /\ r.end \in Int /\ r.posted \in Nat
      /\ r.pass \in BOOLEAN /\ r.active \in BOOLEAN /\ r.chunk \in Seq(Sample)
      /\ r.state \in {"waiting", "writing", "ended"}
  BY DEF Recorders
<1>2. Origin(r) \in Int /\ Wait(r) \in Nat /\ Wait(r) = r.skip + r.leadIn
  BY <1>1 DEF Origin, Wait
<1>3. Place(r) = (Origin(r) + r.written) - Wait(r)
  BY DEF Place
<1> QED
  BY <1>1, <1>2, <1>3

\* and of those of the take.
LEMMA TakeTypes ==
  ASSUME NEW t \in Takes
  PROVE  /\ t.stored \in SUBSET StoredSample /\ t.due \in SUBSET Nat
         /\ t.complete \in BOOLEAN /\ t.still \in BOOLEAN /\ t.unheard \in Nat
         /\ t.try \in BOOLEAN /\ t.closed \in BOOLEAN /\ t.crossed \in BOOLEAN
         /\ t.ended \in BOOLEAN
BY DEF Takes

-----------------------------------------------------------------------------
(* A quantum that is taken.                                                *)

\* The recording goes one place on.
Moved(r, s) ==
    /\ Place(s) = Place(r) + 1 /\ Wait(r) <= Wait(s) + 1 /\ s.skip >= r.skip - 1
    /\ s.drain = IF r.drain = NoDrain THEN NoDrain ELSE r.drain - 1

\* What becomes of the recording and of its take in a quantum that is taken.
Passed(r, t, s, u) ==
    /\ s \in Recorders /\ u \in Takes /\ SameTake(t, u)
    /\ s.active => SameRun(r, s) /\ u.ended = t.ended
    /\ s.drain \in (1..InputLatency) \cup {NoDrain}
    /\ s.active => s.drain = IF r.drain = NoDrain THEN NoDrain ELSE r.drain - 1
    /\ ~s.active => s.drain = NoDrain /\ r.drain # NoDrain /\ u.ended
    /\ s.active /\ s.state # "ended" => r.state # "ended" /\ Moved(r, s)
    /\ s.active /\ s.state = "ended" /\ ~u.complete => r.state = "ended" /\ ~t.complete

\* A sample moves the recording one place on,
LEMMA TookMoves ==
  ASSUME NEW r \in Recorders, NEW t, NEW item, NEW s, NEW u, Took(r, t, item, s, u),
         s.state # "ended"
  PROVE  /\ r.state # "ended" /\ Place(s) = Place(r) + 1 /\ Wait(r) <= Wait(s) + 1
         /\ s.skip >= r.skip - 1
<1>1. s \in Recorders /\ SameRun(r, s)
  BY DEF Took
<1>2. Origin(s) = Origin(r)
  BY <1>1 DEF SameRun, Origin
<1>3. /\ r.written \in Nat /\ s.written \in Nat /\ r.skip \in Nat /\ s.skip \in Nat
      /\ Origin(r) \in Int /\ Wait(r) \in Nat /\ Wait(s) \in Nat
      /\ Place(r) = (Origin(r) + r.written) - Wait(r)
      /\ Place(s) = (Origin(r) + s.written) - Wait(s)
      /\ Wait(r) = r.skip + r.leadIn /\ r.leadIn \in Nat
  BY <1>1, <1>2, RecorderTypes
<1>4. CASE Wait(r) > 0 /\ Wait(s) = Wait(r) - 1 /\ s.skip >= r.skip - 1
           /\ s.written = r.written /\ s.state = r.state
  BY <1>3, <1>4
<1>5. CASE Wait(r) = 0 /\ r.state = "ended" /\ s = r
  BY <1>5
<1>6. CASE s.state = "ended"
  BY <1>6
<1>7. CASE Wait(r) = 0 /\ r.state # "ended" /\ s.written = r.written + 1 /\ Wait(s) = 0 /\ s.skip = 0
  <2>1. r.skip = 0
    BY <1>3, <1>7
  <2> QED
    BY <1>3, <1>7, <2>1
<1> QED
  BY <1>4, <1>5, <1>6, <1>7 DEF Took

\* unless it ends the pass.
LEMMA TookEnds ==
  ASSUME NEW r \in Recorders, NEW t \in Takes, NEW item, NEW s, NEW u, Took(r, t, item, s, u),
         s.state = "ended", ~u.complete
  PROVE  r.state = "ended" /\ ~t.complete
BY DEF Took

\* A quantum moves the recording, or ends its take.
LEMMA DrainedPasses ==
  ASSUME NEW r \in Recorders, NEW t \in Takes, Records(r, t), r.active,
         r.drain \in (1..InputLatency) \cup {NoDrain},
         NEW item \in Sample, NEW s, NEW u, Drained(r, t, item, s, u)
  PROVE  Passed(r, t, s, u) /\ Records(s, u)
<1>1. PICK s0, u0 :
        /\ Took(r, t, item, s0, u0)
        /\ IF r.drain = NoDrain THEN s = s0 /\ u = u0
           ELSE IF r.drain <= 1 THEN Ended(s0, u0, s, u)
           ELSE s = [s0 EXCEPT !.drain = r.drain - 1] /\ u = u0
  BY DEF Drained
<1>2. /\ s0 \in Recorders /\ u0 \in Takes /\ SameRun(r, s0) /\ s0.drain = r.drain
      /\ SameTake(t, u0) /\ u0.ended = t.ended /\ s0.active
  BY <1>1 DEF Took, SameRun
<1>3. Records(s0, u0)
  BY <1>1, RecordsTook
<1>4. /\ r.drain \in Nat /\ r.drain >= 1 /\ NoDrain \in Nat
      /\ r.drain # NoDrain => r.drain <= InputLatency /\ r.drain - 1 # NoDrain
                              /\ (r.drain > 1 => r.drain - 1 \in 1..InputLatency)
  BY DrainBounds
<1>5. s0.state # "ended" => /\ r.state # "ended" /\ Place(s0) = Place(r) + 1
                            /\ Wait(r) <= Wait(s0) + 1 /\ s0.skip >= r.skip - 1
  BY <1>1, TookMoves
<1>6. s0.state = "ended" /\ ~u0.complete => r.state = "ended" /\ ~t.complete
  BY <1>1, TookEnds
<1>7. CASE r.drain = NoDrain
  <2>1. s = s0 /\ u = u0
    BY <1>1, <1>7
  <2>2. Moved(r, s) \/ s.state = "ended"
    BY <1>2, <1>5, <1>7, <2>1 DEF Moved
  <2> QED
    BY <1>2, <1>3, <1>5, <1>6, <1>7, <2>1, <2>2 DEF Passed
<1>8. CASE r.drain # NoDrain /\ r.drain <= 1
  <2>1. Ended(s0, u0, s, u)
    BY <1>1, <1>8
  <2>2. Records(s, u)
    BY <1>2, <1>3, <2>1, RecordsEnded
  <2>3. /\ s \in Recorders /\ u \in Takes /\ s.active = FALSE /\ s.drain = NoDrain
        /\ u.ended = TRUE /\ SameTake(u0, u)
    BY <2>1 DEF Ended
  <2>4. SameTake(t, u)
    BY <1>2, <2>3 DEF SameTake
  <2> QED
    BY <1>8, <2>2, <2>3, <2>4 DEF Passed
<1>9. CASE r.drain # NoDrain /\ r.drain > 1
  <2>1. s = [s0 EXCEPT !.drain = r.drain - 1] /\ u = u0
    BY <1>1, <1>4, <1>9
  <2>2. r.drain - 1 \in Nat /\ r.drain - 1 \in 1..InputLatency
    BY <1>4, <1>9
  <2>3. s \in Recorders
    BY <1>2, <2>1, <2>2 DEF Recorders
  <2>4. /\ s.active = s0.active /\ s.start = s0.start /\ s.shift = s0.shift /\ s.end = s0.end
        /\ s.pass = s0.pass /\ s.written = s0.written /\ s.posted = s0.posted
        /\ s.chunk = s0.chunk /\ s.state = s0.state
        /\ s.skip = s0.skip /\ s.leadIn = s0.leadIn /\ s.drain = r.drain - 1
    BY <1>2, <2>1 DEF Recorders
  <2>5. SameRecord(s0, u0, s, u)
    BY <2>1, <2>4 DEF SameRecord, SameRun
  <2>6. Records(s, u)
    BY <1>3, <2>5, SameRecords
  <2>7. SameRun(r, s)
    BY <1>2, <2>4 DEF SameRun
  <2>8. Place(s) = Place(s0) /\ Wait(s) = Wait(s0)
    BY <2>4 DEF Place, Origin, Wait
  <2>9. Moved(r, s) \/ s.state = "ended"
    BY <1>5, <1>9, <2>4, <2>8 DEF Moved
  <2> QED
    BY <1>2, <1>4, <1>5, <1>6, <1>9, <2>1, <2>2, <2>3, <2>4, <2>6, <2>7, <2>9 DEF Passed
<1> QED
  BY <1>4, <1>7, <1>8, <1>9

\* What comes in is what was rendered a round trip before.
Hears(a, t, item) ==
    /\ item \in Sample
    /\ item.sung # Silence => Len(a) = RoundTrip /\ item.sung = a[1].frame
    /\ item.late = DropFrom(a, 1) - t.unheard

\* What the microphone brings.
LEMMA InputFacts ==
  ASSUME HeardTypes
  PROVE  Hears(air, take, Input)
<1> DEFINE sung == IF Len(air) = RoundTrip THEN Head(air).frame ELSE Silence
           late == Cardinality({i \in DOMAIN air : air[i].dropped}) - take.unheard
<1>1. Input = [sung |-> sung, late |-> late]
  BY DEF Input
<1>2. air \in Seq(Quantum) /\ take \in Takes
  BY DEF HeardTypes
<1>3. Len(air) = RoundTrip => Head(air) = air[1] /\ air[1] \in Quantum
  BY <1>2, LoopFacts
<1>4. sung \in Nat /\ (sung # Silence => Len(air) = RoundTrip /\ sung = air[1].frame)
  BY <1>3, LoopFacts DEF Quantum
<1>5. Cardinality({i \in DOMAIN air : air[i].dropped}) = DropFrom(air, 1)
  <2> DEFINE M == {i \in DOMAIN air : air[i].dropped}
  <2>1. \A j \in M : j >= 1
    BY <1>2
  <2>2. {j \in M : j >= 1} = M
    BY <2>1
  <2> QED
    BY <2>2 DEF DropFrom, After
<1>6. DropFrom(air, 1) \in Nat /\ take.unheard \in Nat
  BY <1>2, CountFacts, TakeTypes
<1>7. late = DropFrom(air, 1) - take.unheard /\ late \in Int
  BY <1>5, <1>6
<1> HIDE DEF sung, late
<1>8. Input \in Sample /\ Input.sung = sung /\ Input.late = late
  BY <1>1, <1>4, <1>7 DEF Sample
<1> QED
  BY <1>4, <1>7, <1>8 DEF Hears

\* A sample that is taken was sung where it is written.
LEMMA SungRightTook ==
  ASSUME NEW r \in Recorders, NEW t \in Takes, r.active,
         r.drain \in (1..InputLatency) \cup {NoDrain}, SungRight(r, t),
         NEW a \in Seq(Quantum), Len(a) <= RoundTrip,
         NEW item, Hears(a, t, item),
         Live(r, t) /\ Wait(r) = 0 => AirSung(r, a, t),
         NEW s, NEW u, Took(r, t, item, s, u)
  PROVE  SungRight(s, u)
<1> SUFFICES ASSUME Stays(s, u), NEW x \in Samples(s, u), x.sung # Silence
             PROVE  At(u.try, x.at + x.late, x.sung)
  BY DEF SungRight
<1>1. SameTake(t, u) /\ u.try = t.try /\ SameRun(r, s) /\ s.active
  BY DEF Took, SameTake, SameRun
<1>2. Clear(t)
  BY <1>1 DEF Stays, Clear, SameTake
<1>3. CASE Stays(r, t) /\ Samples(s, u) = Samples(r, t)
  BY <1>1, <1>3 DEF SungRight
<1>4. CASE /\ Wait(r) = 0 /\ r.state # "ended"
           /\ Samples(s, u) = Samples(r, t) \cup
                {[at |-> Place(r), sung |-> item.sung, late |-> item.late]}
  <2>1. Stays(r, t) /\ Live(r, t)
    BY <1>2, <1>4 DEF Stays, Live
  <2>2. CASE x \in Samples(r, t)
    BY <1>1, <2>1, <2>2 DEF SungRight
  <2>3. CASE x = [at |-> Place(r), sung |-> item.sung, late |-> item.late]
    <3>1. x.at = Place(r) /\ x.sung = item.sung /\ x.late = item.late
      BY <2>3
    <3>2. Len(a) = RoundTrip /\ item.sung = a[1].frame /\ a[1].frame # Silence
          /\ item.late = DropFrom(a, 1) - t.unheard
      BY <3>1 DEF Hears
    <3>3. RoundTrip \in Nat /\ RoundTrip > 0
      BY LoopFacts
    <3>4. Until(a, 1) = 0
      BY <3>2, <3>3 DEF Until
    <3>5. r.drain \in Nat /\ r.drain >= 1
      BY DrainBounds
    <3>6. At(t.try, ((Place(r) + Until(a, 1)) + DropFrom(a, 1)) - t.unheard, a[1].frame)
      <4>1. 1 \in 1..Len(a)
        BY <3>2, <3>3
      <4>2. Wait(r) <= Until(a, 1) /\ (r.drain # NoDrain => Until(a, 1) < r.drain)
        BY <1>4, <3>4, <3>5
      <4> QED
        BY <1>4, <2>1, <3>2, <4>1, <4>2 DEF AirSung
    <3>7. Place(r) \in Int /\ DropFrom(a, 1) \in Nat /\ t.unheard \in Nat
      BY RecorderTypes, TakeTypes, CountFacts
    <3>8. ((Place(r) + Until(a, 1)) + DropFrom(a, 1)) - t.unheard = x.at + x.late
      BY <3>1, <3>2, <3>4, <3>7
    <3> QED
      BY <1>1, <3>1, <3>2, <3>6, <3>8
  <2> QED
    BY <1>4, <2>2, <2>3
<1>5. ASSUME Samples(s, u) = Samples(r, t), u.complete = t.complete, s.state = r.state
      PROVE  Stays(r, t)
  BY <1>1, <1>2, <1>5 DEF Stays
<1>6. ASSUME r.state # "ended"
      PROVE  Stays(r, t)
  BY <1>2, <1>6 DEF Stays
<1> QED
  BY <1>3, <1>4, <1>5, <1>6 DEF Took

\* Nothing else is sung when the stream is let go.
LEMMA SungRightSame ==
  ASSUME NEW r, NEW t, SungRight(r, t), NEW s, NEW u, SameTake(t, u),
         u.complete = t.complete, s.active => r.active /\ s.state = r.state,
         Samples(s, u) = Samples(r, t)
  PROVE  SungRight(s, u)
<1>1. u.try = t.try /\ u.closed = t.closed /\ u.crossed = t.crossed
  BY DEF SameTake
<1>2. Stays(s, u) => Stays(r, t)
  BY <1>1 DEF Stays, Clear
<1> QED
  BY <1>1, <1>2 DEF SungRight

\* A quantum keeps what was written right.
LEMMA SungRightDrained ==
  ASSUME NEW r \in Recorders, NEW t \in Takes, r.active,
         r.drain \in (1..InputLatency) \cup {NoDrain}, SungRight(r, t),
         NEW a \in Seq(Quantum), Len(a) <= RoundTrip,
         NEW item, Hears(a, t, item),
         Live(r, t) /\ Wait(r) = 0 => AirSung(r, a, t),
         NEW s, NEW u, Drained(r, t, item, s, u)
  PROVE  SungRight(s, u)
<1>1. PICK s0, u0 :
        /\ Took(r, t, item, s0, u0)
        /\ IF r.drain = NoDrain THEN s = s0 /\ u = u0
           ELSE IF r.drain <= 1 THEN Ended(s0, u0, s, u)
           ELSE s = [s0 EXCEPT !.drain = r.drain - 1] /\ u = u0
  BY DEF Drained
<1>2. SungRight(s0, u0)
  BY <1>1, SungRightTook
<1>3. s0 \in Recorders
  BY <1>1 DEF Took
<1>4. CASE s = s0 /\ u = u0
  BY <1>2, <1>4
<1>5. CASE Ended(s0, u0, s, u)
  <2>1. SameTake(u0, u) /\ u.complete = u0.complete /\ ~s.active /\ Samples(s, u) = Samples(s0, u0)
    BY <1>5 DEF Ended
  <2> QED
    BY <1>2, <2>1, SungRightSame
<1>6. CASE s = [s0 EXCEPT !.drain = r.drain - 1] /\ u = u0
  <2>1. /\ s.active = s0.active /\ s.start = s0.start /\ s.shift = s0.shift
        /\ s.posted = s0.posted /\ s.chunk = s0.chunk /\ s.state = s0.state
    BY <1>3, <1>6 DEF Recorders
  <2>2. Samples(s, u) = Samples(s0, u0)
    BY <1>6, <2>1 DEF Samples, Placed
  <2>3. SameTake(u0, u) /\ u.complete = u0.complete
    BY <1>6 DEF SameTake
  <2> QED
    BY <1>2, <2>1, <2>2, <2>3, SungRightSame
<1> QED
  BY <1>1, <1>4, <1>5, <1>6

\* What is in the air comes a quantum nearer.
LEMMA UntilPush ==
  ASSUME NEW a \in Seq(Quantum), Len(a) <= RoundTrip, NEW item \in Quantum,
         NEW b, AirPush(a, item, b), NEW i \in 1..(Len(b) - 1)
  PROVE  /\ i + Gone(a, b) \in 1..Len(a) /\ b[i] = a[i + Gone(a, b)]
         /\ Until(a, i + Gone(a, b)) = Until(b, i) + 1
         /\ Until(b, i) \in Nat
         /\ DropFrom(b, i) = DropFrom(a, i + Gone(a, b)) + IF item.dropped THEN 1 ELSE 0
<1> DEFINE o == Gone(a, b)
<1>1. /\ b \in Seq(Quantum) /\ Len(b) <= RoundTrip /\ o \in {0, 1} /\ Len(b) + o = Len(a) + 1
      /\ i + o \in 1..Len(a) /\ b[i] = a[i + o]
      /\ DropFrom(b, i) = DropFrom(a, i + o) + IF item.dropped THEN 1 ELSE 0
  BY DEF AirPush
<1>2. Len(a) \in Nat /\ Len(b) \in Nat /\ RoundTrip \in Nat /\ i \in Nat /\ i >= 1
  BY <1>1, LoopFacts
<1> HIDE DEF o
<1>3. Until(a, i + o) = Until(b, i) + 1 /\ Until(b, i) \in Nat
  BY <1>1, <1>2 DEF Until
<1> QED
  BY <1>1, <1>3 DEF o

\* The last of the air is sung a round trip later.
LEMMA UntilLast ==
  ASSUME NEW a \in Seq(Quantum), Len(a) <= RoundTrip, NEW item \in Quantum,
         NEW b, AirPush(a, item, b)
  PROVE  /\ Len(b) \in Nat /\ Len(b) > 0 /\ b[Len(b)] = item /\ Until(b, Len(b)) = RoundTrip - 1
         /\ DropFrom(b, Len(b)) = IF item.dropped THEN 1 ELSE 0
<1>1. /\ b \in Seq(Quantum) /\ Len(b) > 0 /\ b[Len(b)] = item
      /\ Len(b) + Gone(a, b) = Len(a) + 1 /\ Gone(a, b) \in {0, 1}
      /\ \A i \in 1..Len(b) :
            DropFrom(b, i) = DropFrom(a, i + Gone(a, b)) + IF item.dropped THEN 1 ELSE 0
  BY DEF AirPush
<1>2. Len(b) \in Nat /\ RoundTrip \in Nat /\ Len(b) \in 1..Len(b)
  BY <1>1, LoopFacts
<1>3. DropFrom(a, Len(a) + 1) = 0
  BY CountFacts
<1>4. DropFrom(b, Len(b)) = DropFrom(a, Len(b) + Gone(a, b)) + IF item.dropped THEN 1 ELSE 0
  BY <1>1, <1>2
<1>5. DropFrom(b, Len(b)) = 0 + IF item.dropped THEN 1 ELSE 0
  BY <1>1, <1>3, <1>4
<1>6. Until(b, Len(b)) = RoundTrip - 1
  BY <1>2 DEF Until
<1> QED
  BY <1>1, <1>2, <1>5, <1>6

\* A quantum that is taken.
LEMMA AirSungMoved ==
  ASSUME NEW r \in Recorders, NEW s \in Recorders, NEW t \in Takes, NEW u, SameTake(t, u),
         r.drain \in (1..InputLatency) \cup {NoDrain},
         s.drain \in (1..InputLatency) \cup {NoDrain}, Moved(r, s),
         NEW a \in Seq(Quantum), Len(a) <= RoundTrip, AirSung(r, a, t),
         NEW item \in Quantum, ~item.dropped, NEW b, AirPush(a, item, b),
         item.frame # Silence /\ s.drain = NoDrain =>
           At(t.try, (Place(r) + RoundTrip) - t.unheard, item.frame)
  PROVE  AirSung(s, b, u)
<1> SUFFICES ASSUME NEW i \in 1..Len(b), Wait(s) <= Until(b, i),
                    s.drain # NoDrain => Until(b, i) < s.drain, b[i].frame # Silence
             PROVE  At(u.try, ((Place(s) + Until(b, i)) + DropFrom(b, i)) - u.unheard, b[i].frame)
  BY DEF AirSung
<1>1. u.try = t.try /\ u.unheard = t.unheard /\ t.unheard \in Nat
  BY TakeTypes DEF SameTake
<1>2. /\ Place(s) = Place(r) + 1 /\ Wait(r) <= Wait(s) + 1
      /\ s.drain = IF r.drain = NoDrain THEN NoDrain ELSE r.drain - 1
  BY DEF Moved
<1>3. /\ Wait(r) \in Nat /\ Wait(s) \in Nat /\ Place(r) \in Int /\ Place(s) \in Int
      /\ r.drain \in Nat /\ s.drain \in Nat /\ r.drain >= 1 /\ RoundTrip \in Nat
      /\ NoDrain \in Nat /\ (r.drain # NoDrain => r.drain - 1 # NoDrain)
      /\ (s.drain # NoDrain => s.drain <= InputLatency) /\ InputLatency \in Nat
      /\ InputLatency < RoundTrip
  BY RecorderTypes, DrainBounds, LoopFacts
<1>4. CASE i = Len(b)
  <2>1. b[i] = item /\ Until(b, i) = RoundTrip - 1 /\ DropFrom(b, i) = 0
    BY <1>4, UntilLast
  <2>2. s.drain = NoDrain
    BY <1>3, <2>1
  <2>3. At(t.try, (Place(r) + RoundTrip) - t.unheard, item.frame)
    BY <2>1, <2>2
  <2>4. ((Place(s) + Until(b, i)) + DropFrom(b, i)) - u.unheard = (Place(r) + RoundTrip) - t.unheard
    BY <1>1, <1>2, <1>3, <2>1
  <2> QED
    BY <1>1, <2>1, <2>3, <2>4
<1>5. CASE i # Len(b)
  <2> DEFINE k == i + Gone(a, b)
  <2>1. i \in 1..(Len(b) - 1)
    <3>1. Len(b) \in Nat
      BY UntilLast
    <3> QED
      BY <1>5, <3>1
  <2>2. /\ k \in 1..Len(a) /\ b[i] = a[k] /\ Until(a, k) = Until(b, i) + 1 /\ Until(b, i) \in Nat
        /\ DropFrom(b, i) = DropFrom(a, k) + 0
    BY <2>1, UntilPush
  <2>3. DropFrom(a, k) \in Nat
    BY <2>2, CountFacts
  <2> HIDE DEF k
  <2>4. Wait(r) <= Until(a, k)
    BY <1>2, <1>3, <2>2
  <2>5. r.drain # NoDrain => Until(a, k) < r.drain
    BY <1>2, <1>3, <2>2
  <2>6. At(t.try, ((Place(r) + Until(a, k)) + DropFrom(a, k)) - t.unheard, a[k].frame)
    BY <2>2, <2>4, <2>5 DEF AirSung
  <2>7. ((Place(s) + Until(b, i)) + DropFrom(b, i)) - u.unheard
          = ((Place(r) + Until(a, k)) + DropFrom(a, k)) - t.unheard
    BY <1>1, <1>2, <1>3, <2>2, <2>3
  <2> QED
    BY <1>1, <2>2, <2>6, <2>7
<1> QED
  BY <1>4, <1>5

\* A quantum that is not: what was to be sung is sung later.
LEMMA AirSungDropped ==
  ASSUME NEW r \in Recorders, NEW t \in Takes, r.drain = NoDrain,
         NEW u, u.try = t.try, u.unheard = t.unheard,
         NEW a \in Seq(Quantum), Len(a) <= RoundTrip, AirSung(r, a, t),
         NEW item \in Quantum, item.dropped, item.frame = Silence, NEW b, AirPush(a, item, b)
  PROVE  AirSung(r, b, u)
<1> SUFFICES ASSUME NEW i \in 1..Len(b), Wait(r) <= Until(b, i), b[i].frame # Silence
             PROVE  At(u.try, ((Place(r) + Until(b, i)) + DropFrom(b, i)) - u.unheard, b[i].frame)
  BY DEF AirSung
<1>1. u.try = t.try /\ u.unheard = t.unheard /\ t.unheard \in Nat
  BY TakeTypes
<1>2. Wait(r) \in Nat /\ Place(r) \in Int
  BY RecorderTypes
<1>3. i # Len(b)
  BY UntilLast
<1>4. i \in 1..(Len(b) - 1)
  <2>1. Len(b) \in Nat
    BY UntilLast
  <2> QED
    BY <1>3, <2>1
<1> DEFINE k == i + Gone(a, b)
<1>5. /\ k \in 1..Len(a) /\ b[i] = a[k] /\ Until(a, k) = Until(b, i) + 1 /\ Until(b, i) \in Nat
      /\ DropFrom(b, i) = DropFrom(a, k) + 1
  BY <1>4, UntilPush
<1>6. DropFrom(a, k) \in Nat
  BY <1>5, CountFacts
<1> HIDE DEF k
<1>7. Wait(r) <= Until(a, k)
  BY <1>2, <1>5
<1>8. At(t.try, ((Place(r) + Until(a, k)) + DropFrom(a, k)) - t.unheard, a[k].frame)
  BY <1>5, <1>7 DEF AirSung
<1>9. ((Place(r) + Until(b, i)) + DropFrom(b, i)) - u.unheard
        = ((Place(r) + Until(a, k)) + DropFrom(a, k)) - t.unheard
  BY <1>1, <1>2, <1>5, <1>6
<1> QED
  BY <1>1, <1>5, <1>8, <1>9

\* All that is in the air is left out.
LEMMA AirSungNone ==
  ASSUME NEW r \in Recorders, Wait(r) >= RoundTrip, NEW a \in Seq(Quantum),
         Len(a) <= RoundTrip, NEW t
  PROVE  AirSung(r, a, t)
<1>1. \A i \in 1..Len(a) : Until(a, i) < RoundTrip
  BY LoopFacts DEF Until
<1>2. \A i \in 1..Len(a) : Until(a, i) \in Int
  BY LoopFacts DEF Until
<1>3. Wait(r) \in Nat /\ RoundTrip \in Nat
  BY RecorderTypes, LoopFacts
<1> QED
  BY <1>1, <1>2, <1>3 DEF AirSung

\* What is owed stays before what is heard.
LEMMA OwedMoved ==
  ASSUME NEW r \in Recorders, NEW s \in Recorders, NEW t, NEW u, u.due = t.due,
         t.due \in SUBSET Nat,
         r.drain \in (1..InputLatency) \cup {NoDrain}, Moved(r, s), SameRun(r, s), Owed(r, t)
  PROVE  Owed(s, u)
<1>1. Origin(s) = Origin(r)
  BY DEF SameRun, Origin
<1>2. /\ Place(s) = Place(r) + 1 /\ Place(r) \in Int /\ Place(s) \in Int /\ InputLatency \in Nat
      /\ r.drain \in Nat /\ s.drain \in Nat /\ r.drain >= 1 /\ NoDrain \in Nat
      /\ (r.drain # NoDrain => r.drain - 1 # NoDrain)
      /\ s.drain = IF r.drain = NoDrain THEN NoDrain ELSE r.drain - 1
  BY RecorderTypes, LoopFacts, DrainBounds DEF Moved
<1>3. CASE r.drain = NoDrain
  <2>1. Left(r) = InputLatency /\ Left(s) = InputLatency
    BY <1>2, <1>3 DEF Left
  <2> QED
    BY <1>1, <1>2, <2>1 DEF Owed
<1>4. CASE r.drain # NoDrain
  <2>1. Left(r) = r.drain /\ Left(s) = r.drain - 1
    BY <1>2, <1>4 DEF Left
  <2> QED
    BY <1>1, <1>2, <2>1 DEF Owed
<1> QED
  BY <1>3, <1>4

\* What was owed is stored when the take ends.
LEMMA OwedEnded ==
  ASSUME NEW r \in Recorders, NEW t \in Takes, r.active, Records(r, t), r.state # "ended",
         \A d \in t.due : Origin(r) <= d /\ d < Place(r),
         NEW s, NEW u, Ended(r, t, s, u)
  PROVE  u.due \subseteq Ats(u.stored)
<1>1. u.due = t.due /\ u.stored = Samples(r, t)
  BY DEF Ended, SameTake
<1>2. Whole(r, t)
  BY DEF Records
<1>3. /\ r.written \in Nat /\ Origin(r) \in Int /\ Wait(r) \in Nat
      /\ Place(r) = (Origin(r) + r.written) - Wait(r)
  BY RecorderTypes
<1>4. ASSUME NEW d \in t.due PROVE d \in Ats(u.stored)
  <2>1. d \in Nat
    BY TakeTypes
  <2>2. Origin(r) <= d /\ d < Place(r)
    OBVIOUS
  <2>3. d - Origin(r) \in 0..(r.written - 1) /\ Origin(r) + (d - Origin(r)) = d
    BY <1>3, <2>1, <2>2
  <2>4. PICK x \in Samples(r, t) : x.at = d
    BY <1>2, <2>3 DEF Whole
  <2> QED
    BY <1>1, <2>4 DEF Ats
<1> QED
  BY <1>1, <1>4

\* The end of the drain keeps what is owed.
LEMMA KeptDrained ==
  ASSUME NEW r \in Recorders, NEW t \in Takes, Records(r, t), r.active,
         r.drain \in (1..InputLatency) \cup {NoDrain},
         r.state = "ended" /\ ~t.complete => t.due = {},
         r.state # "ended" => Owed(r, t),
         NEW item \in Sample, NEW s, NEW u, Drained(r, t, item, s, u), ~s.active, ~u.complete
  PROVE  u.due \subseteq Ats(u.stored)
<1>1. PICK s0, u0 :
        /\ Took(r, t, item, s0, u0)
        /\ IF r.drain = NoDrain THEN s = s0 /\ u = u0
           ELSE IF r.drain <= 1 THEN Ended(s0, u0, s, u)
           ELSE s = [s0 EXCEPT !.drain = r.drain - 1] /\ u = u0
  BY DEF Drained
<1>2. /\ s0 \in Recorders /\ u0 \in Takes /\ SameRun(r, s0) /\ s0.drain = r.drain
      /\ SameTake(t, u0) /\ u0.due = t.due /\ s0.active /\ Origin(s0) = Origin(r)
  BY <1>1 DEF Took, SameRun, SameTake, Origin
<1>3. r.drain # NoDrain /\ r.drain <= 1 /\ Ended(s0, u0, s, u)
  <2>1. CASE s = s0
    BY <1>2, <2>1
  <2>2. CASE s = [s0 EXCEPT !.drain = r.drain - 1]
    <3>1. s.active = s0.active
      BY <1>2, <2>2 DEF Recorders
    <3> QED
      BY <1>2, <3>1
  <2> QED
    BY <1>1, <2>1, <2>2
<1>4. ~u0.complete /\ u.due = u0.due
  BY <1>3 DEF Ended, SameTake
<1>5. CASE s0.state = "ended"
  <2>1. r.state = "ended" /\ ~t.complete
    BY <1>1, <1>4, <1>5, TookEnds
  <2> QED
    BY <1>2, <1>4, <2>1
<1>6. CASE s0.state # "ended"
  <2>1. r.state # "ended" /\ Place(s0) = Place(r) + 1
    BY <1>1, <1>6, TookMoves
  <2>2. r.drain = 1
    BY <1>3, DrainBounds
  <2>3. Left(r) = 1
    BY <1>3, <2>2 DEF Left
  <2>4. Place(r) \in Int
    BY RecorderTypes
  <2>5. \A d \in u0.due : Origin(s0) <= d /\ d < Place(s0)
    BY <1>2, <2>1, <2>3, <2>4 DEF Owed
  <2>6. Records(s0, u0)
    BY <1>1, RecordsTook
  <2> QED
    BY <1>2, <1>3, <1>6, <2>5, <2>6, OwedEnded
<1> QED
  BY <1>5, <1>6

\* What is heard now is to be written when the latency of the input is over.
LEMMA HeardBound ==
  ASSUME NEW p \in Players, NEW r \in Recorders, NEW t \in Takes, NEW ph,
         Len(p.rendered) = OutputLatency, Ahead(p, r, ph), Owed(r, t), r.drain = NoDrain,
         ph = "on", ~r.pass => p.range = "none" /\ r.shift = 0,
         r.pass => Origin(r) = FromFrame /\ p.range # "once",
         NEW d, d = SongFrame(p, p.rendered[1]),
         r.pass => t.due # {} \/ d = FromFrame
  PROVE  d \in Nat /\ Origin(r) <= d /\ d <= Place(r) + InputLatency
<1> DEFINE x == p.rendered[1]
           heard == Heard(p, r, 1)
<1>1. /\ OutputLatency \in Nat /\ OutputLatency > 0 /\ FromFrame \in Nat /\ InputLatency \in Nat
      /\ ToFrame = FromFrame + LoopLength /\ LoopLength \in Nat /\ ToFrame \in Nat
      /\ RoundTrip = OutputLatency + InputLatency
  BY LoopFacts
<1>2. /\ p.rendered \in Seq(Nat) /\ x \in Nat
  BY <1>1 DEF Players
<1>3. Len(Way(p)) = OutputLatency + 1 /\ Way(p)[1] = x
  <2>1. Len(Way(p)) = Len(p.rendered) + 1 /\ (\A i \in 1..Len(p.rendered) : Way(p)[i] = p.rendered[i])
    BY WayFacts
  <2> QED
    BY <1>1, <2>1
<1>4. Place(r) \in Int /\ r.start \in Nat /\ r.shift \in Nat /\ r.pass \in BOOLEAN /\ Origin(r) \in Int
  BY RecorderTypes
<1>5. heard = Place(r) + InputLatency /\ heard \in Int
  BY <1>1, <1>3, <1>4 DEF Heard
<1>6. /\ ~r.pass => heard >= r.start
      /\ r.pass /\ r.shift > 0 => heard > FromFrame - LoopLength
      /\ AheadAt(p, r, ph, 1)
  BY <1>1, <1>3 DEF Ahead
<1> HIDE DEF x, heard
<1>7. /\ At(r.pass, x, heard)
      /\ r.pass /\ r.shift = 0 /\ heard < FromFrame => x = heard
      /\ r.pass /\ (r.shift > 0 \/ heard >= FromFrame) => x >= FromFrame
      /\ r.pass /\ p.range = "none" => x = heard
  BY <1>3, <1>6 DEF AheadAt, heard
<1>8. /\ d \in Nat /\ Same(d, x)
      /\ p.range = "cycle" => d < ToFrame
      /\ x >= FromFrame => d >= FromFrame
      /\ p.range # "cycle" => d = x
      /\ x < ToFrame => d = x
  BY <1>2, SongFrameFacts DEF x
<1>9. CASE ~r.pass
  <2>1. d = heard /\ heard >= r.start
    BY <1>6, <1>7, <1>8, <1>9 DEF At
  <2>2. Origin(r) = r.start
    BY <1>4, <1>9 DEF Origin
  <2> QED
    BY <1>5, <1>8, <2>1, <2>2
<1>10. CASE r.pass
  <2>1. Same(d, heard)
    <3>1. Same(x, heard)
      BY <1>7, <1>10 DEF At
    <3> QED
      BY <1>2, <1>5, <1>8, <3>1, SameFacts
  <2>2. d <= heard \/ d - heard >= LoopLength
    BY <1>5, <1>8, <2>1, SameFacts
  <2>3. CASE d = FromFrame
    <3>1. CASE heard >= FromFrame
      BY <1>5, <1>8, <1>10, <2>3, <3>1
    <3>2. CASE heard < FromFrame /\ r.shift = 0
      <4>1. x = heard
        BY <1>7, <1>10, <3>2
      <4> QED
        BY <1>1, <1>5, <1>8, <2>3, <3>2, <4>1
    <3>3. CASE heard < FromFrame /\ r.shift > 0
      BY <1>1, <1>5, <1>6, <1>10, <2>2, <2>3, <3>3
    <3> QED
      BY <1>1, <1>4, <1>5, <3>1, <3>2, <3>3
  <2>4. CASE t.due # {}
    <3>1. PICK e : e \in t.due
      BY <2>4
    <3>2. e \in Nat
      BY <3>1, TakeTypes
    <3>3. FromFrame <= e /\ e < heard
      BY <1>5, <1>10, <3>1 DEF Owed, Left
    <3>4. x >= FromFrame
      BY <1>1, <1>5, <1>7, <1>10, <3>2, <3>3
    <3>5. d >= FromFrame
      BY <1>8, <3>4
    <3>6. CASE p.range = "cycle"
      <4>1. d <= heard
        BY <1>1, <1>5, <1>8, <2>2, <3>2, <3>3, <3>6
      <4> QED
        BY <1>5, <1>8, <1>10, <3>5, <4>1
    <3>7. CASE p.range = "none"
      <4>1. d = heard
        BY <1>7, <1>8, <1>10, <3>7
      <4> QED
        BY <1>5, <1>8, <1>10, <3>5, <4>1
    <3>8. p.range \in {"none", "once", "cycle"}
      BY DEF Players
    <3> QED
      BY <1>10, <3>6, <3>7, <3>8
  <2> QED
    BY <1>10, <2>3, <2>4
<1> QED
  BY <1>4, <1>9, <1>10

\* What is rendered next is heard next.
LEMMA AheadRenders ==
  ASSUME NEW p \in Players, NEW q \in Players, NEW r \in Recorders, NEW s \in Recorders, NEW ph,
         Ahead(p, r, ph), ph # "armed", q.range = p.range, ~r.pass => p.range = "none",
         Place(s) = Place(r) + 1, SameRun(r, s),
         NEW render, render = SongFrame(p, p.render + 1),
         Len(Way(q)) > 1, Gone(Way(p), Way(q)) \in {0, 1},
         Len(Way(q)) + Gone(Way(p), Way(q)) = Len(Way(p)) + 1,
         \A i \in 1..(Len(Way(q)) - 1) : /\ i + Gone(Way(p), Way(q)) \in 1..Len(Way(p))
                                         /\ Way(q)[i] = Way(p)[i + Gone(Way(p), Way(q))],
         Way(q)[Len(Way(q))] = render
  PROVE  Ahead(q, s, ph)
<1> DEFINE h == Way(p)
           g == Way(q)
           o == Gone(h, g)
           n == Len(h)
           m == Len(g)
<1>1. /\ h \in Seq(Nat) /\ g \in Seq(Nat) /\ h[n] = p.render /\ n >= 1 /\ n \in Nat /\ m \in Nat
  <2>1. /\ h \in Seq(Nat) /\ Len(h) = Len(p.rendered) + 1 /\ h[Len(h)] = p.render /\ g \in Seq(Nat)
    BY WayFacts
  <2>2. Len(p.rendered) \in Nat
    BY DEF Players
  <2> QED
    BY <2>1, <2>2
<1>2. /\ m > 1 /\ o \in {0, 1} /\ m + o = n + 1 /\ g[m] = render
      /\ \A i \in 1..(m - 1) : i + o \in 1..n /\ g[i] = h[i + o]
  OBVIOUS
<1>3. /\ s.pass = r.pass /\ s.shift = r.shift /\ s.start = r.start
      /\ r.pass \in BOOLEAN /\ r.shift \in Nat /\ r.start \in Nat
      /\ Place(r) \in Int /\ Place(s) \in Int /\ RoundTrip \in Nat
      /\ FromFrame \in Nat /\ LoopLength \in Nat
  BY RecorderTypes, LoopFacts DEF SameRun
<1>4. /\ \A i \in 1..n : Heard(p, r, i) = (Place(r) + RoundTrip) - (n - i)
      /\ \A i \in 1..m : Heard(q, s, i) = (Place(s) + RoundTrip) - (m - i)
  BY DEF Heard
<1> HIDE DEF h, g, o, n, m
<1>5. \A i \in 1..(m - 1) : Heard(q, s, i) = Heard(p, r, i + o)
  <2> SUFFICES ASSUME NEW i \in 1..(m - 1) PROVE Heard(q, s, i) = Heard(p, r, i + o)
    OBVIOUS
  <2>1. i + o \in 1..n /\ i \in 1..m /\ i \in Int
    BY <1>1, <1>2
  <2>2. Heard(q, s, i) = (Place(s) + RoundTrip) - (m - i)
    BY <1>4, <2>1
  <2>3. Heard(p, r, i + o) = (Place(r) + RoundTrip) - (n - (i + o))
    BY <1>4, <2>1
  <2>4. /\ m \in Int /\ n \in Int /\ o \in Int /\ m + o = n + 1 /\ i \in Int
        /\ Place(s) = Place(r) + 1 /\ Place(r) \in Int /\ RoundTrip \in Int
    BY <1>1, <1>2, <1>3, <2>1
  <2>5. (Place(s) + RoundTrip) - (m - i) = (Place(r) + RoundTrip) - (n - (i + o))
    BY <2>4
  <2> QED
    BY <2>2, <2>3, <2>5
<1>6. /\ ~r.pass => Heard(p, r, 1) >= r.start
      /\ r.pass /\ r.shift > 0 => Heard(p, r, 1) > FromFrame - LoopLength
      /\ \A i \in 1..n : AheadAt(p, r, ph, i)
  BY DEF Ahead, n, h
<1>7. Heard(q, s, 1) >= Heard(p, r, 1) /\ Heard(q, s, 1) \in Int /\ Heard(p, r, 1) \in Int
  <2>1. 1 \in 1..m /\ 1 \in 1..n
    BY <1>1, <1>2
  <2>2. Heard(q, s, 1) = (Place(s) + RoundTrip) - (m - 1)
    BY <1>4, <2>1
  <2>3. Heard(p, r, 1) = (Place(r) + RoundTrip) - (n - 1)
    BY <1>4, <2>1
  <2>4. /\ m \in Int /\ n \in Int /\ o \in {0, 1} /\ m + o = n + 1
        /\ Place(s) = Place(r) + 1 /\ Place(r) \in Int /\ RoundTrip \in Int
    BY <1>1, <1>2, <1>3
  <2>5. /\ (Place(s) + RoundTrip) - (m - 1) >= (Place(r) + RoundTrip) - (n - 1)
        /\ (Place(s) + RoundTrip) - (m - 1) \in Int /\ (Place(r) + RoundTrip) - (n - 1) \in Int
    BY <2>4
  <2> QED
    BY <2>2, <2>3, <2>5
<1>8. ASSUME NEW i \in 1..(m - 1) PROVE AheadAt(q, s, ph, i)
  <2>1. AheadAt(p, r, ph, i + o)
    BY <1>2, <1>6
  <2>2. Way(q)[i] = Way(p)[i + o]
    BY <1>2 DEF g, h
  <2>3. Heard(q, s, i) = Heard(p, r, i + o)
    BY <1>5
  <2> QED
    BY <1>3, <2>1, <2>2, <2>3 DEF AheadAt
<1>9. AheadAt(q, s, ph, m)
  <2> DEFINE w == Heard(p, r, n)
  <2>1. Heard(q, s, m) = w + 1 /\ w \in Int
    <3>1. m \in 1..m /\ n \in 1..n
      BY <1>1, <1>2
    <3>2. Heard(q, s, m) = (Place(s) + RoundTrip) - (m - m)
      BY <1>4, <3>1
    <3>3. Heard(p, r, n) = (Place(r) + RoundTrip) - (n - n)
      BY <1>4, <3>1
    <3> QED
      BY <1>1, <1>3, <3>2, <3>3
  <2>2. AheadAt(p, r, ph, n)
    BY <1>1, <1>6
  <2> HIDE DEF w
  <2> DEFINE x == p.render
  <2>3. /\ At(r.pass, x, w)
        /\ r.pass /\ r.shift = 0 /\ w < FromFrame => x = w
        /\ r.pass /\ (r.shift > 0 \/ w >= FromFrame) => x >= FromFrame
        /\ r.pass /\ (ph = "armed" \/ (ph = "on" /\ p.range = "none")) => x = w
    BY <1>1, <2>2 DEF AheadAt, w, h
  <2>4. x \in Nat
    BY DEF Players
  <2>5. /\ render \in Nat /\ Step(x, render)
    BY <2>4, StepFacts
  <2>6. p.range # "cycle" => render = x + 1
    <3>1. p.render + 1 \in Nat
      BY <2>4
    <3> QED
      BY <3>1, SongFrameFacts
  <2> HIDE DEF x
  <2>7. /\ Same(render, x + 1)
        /\ x + 1 < FromFrame => render = x + 1
        /\ x + 1 >= FromFrame => render >= FromFrame
    BY <2>5 DEF Step
  <2>8. r.pass => At(r.pass, render, w + 1)
    <3> SUFFICES ASSUME r.pass PROVE Same(render, w + 1)
      BY DEF At
    <3>1. Same(x, w)
      BY <2>3 DEF At
    <3>2. Same(x + 1, w + 1)
      BY <2>1, <2>4, <3>1, SameFacts
    <3> QED
      BY <2>1, <2>4, <2>5, <2>7, <3>2, SameFacts
  <2>9. r.pass /\ r.shift = 0 /\ w + 1 < FromFrame => render = w + 1
    BY <1>3, <2>1, <2>3, <2>4, <2>7
  <2>10. r.pass /\ (r.shift > 0 \/ w + 1 >= FromFrame) => render >= FromFrame
    BY <1>3, <2>1, <2>3, <2>4, <2>5, <2>7
  <2>11. r.pass /\ ph = "on" /\ p.range = "none" => render = w + 1
    BY <2>3, <2>6
  <2>12. Way(q)[m] = render
    BY <1>2 DEF g
  <2>13. ~r.pass => At(r.pass, render, w + 1)
    <3>1. ~r.pass => x = w
      BY <2>3 DEF At
    <3> QED
      BY <3>1, <2>6 DEF At
  <2> QED
    BY <1>3, <2>1, <2>8, <2>9, <2>10, <2>11, <2>12, <2>13 DEF AheadAt
<1>10. \A i \in 1..Len(Way(q)) : AheadAt(q, s, ph, i)
  <2>1. \A i \in 1..m : AheadAt(q, s, ph, i)
    BY <1>1, <1>2, <1>8, <1>9
  <2> QED
    BY <2>1 DEF m, g
<1> QED
  BY <1>3, <1>6, <1>7, <1>10 DEF Ahead

-----------------------------------------------------------------------------
(* The quanta.                                                             *)

Phases == {"none", "armed", "on", "stopping", "ending", "flushing"}

\* What is due is added to.
Dued(p, r, ph, t, u) ==
    /\ u \in Takes /\ u.stored = t.stored /\ u.complete = t.complete /\ u.still = t.still
    /\ u.unheard = t.unheard /\ u.try = t.try /\ u.closed = t.closed /\ u.crossed = t.crossed
    /\ u.ended = t.ended
    /\ \/ u.due = t.due
       \/ /\ ph = "on" /\ r.state # "ended" /\ Len(p.rendered) = OutputLatency
          /\ u.due = t.due \cup {SongFrame(p, p.rendered[1])}
          /\ r.pass => t.due # {} \/ SongFrame(p, p.rendered[1]) = FromFrame

\* What the invariant says while something is recorded.
LEMMA ActiveFacts ==
  ASSUME NEW p, NEW r, NEW a, NEW ph \in Phases, NEW t,
         HeardState(p, r, a, ph, t), r.active
  PROVE  /\ ph # "none" /\ r.drain \in (1..InputLatency) \cup {NoDrain}
         /\ ph # "flushing" => r.drain = NoDrain
         /\ p.known /\ t.try = r.pass /\ ~t.ended
         /\ ~r.pass => p.range = "none" /\ r.shift = 0 /\ r.end = Endless
         /\ r.pass => p.range # "once" /\ Origin(r) = FromFrame
         /\ Tallied(r) /\ (p.playing => ph # "armed")
BY DEF HeardState, Control, Records, KeptNext, Try, Phases

\* The records of a quantum that is taken.
LEMMA TakenRecords ==
  ASSUME NEW p, NEW r, NEW a, NEW ph \in Phases, NEW t0,
         HeardState(p, r, a, ph, t0), r.active, NEW t, Dued(p, r, ph, t0, t),
         NEW item, Hears(a, t0, item), NEW s, NEW u, Drained(r, t, item, s, u)
  PROVE  /\ Records(r, t) /\ Passed(r, t, s, u) /\ Records(s, u) /\ SungRight(s, u)
         /\ t \in Takes /\ r \in Recorders /\ item \in Sample
         /\ Live(r, t) => Live(r, t0)
<1>1. /\ p \in Players /\ r \in Recorders /\ t0 \in Takes /\ a \in Seq(Quantum)
      /\ Len(a) <= RoundTrip /\ Records(r, t0) /\ SungRight(r, t0) /\ SungNext(p, r, a, ph, t0)
      /\ r.drain \in (1..InputLatency) \cup {NoDrain}
  BY ActiveFacts DEF HeardState
<1>2. /\ t \in Takes /\ t.stored = t0.stored /\ t.complete = t0.complete /\ t.unheard = t0.unheard
      /\ t.try = t0.try /\ t.closed = t0.closed /\ t.crossed = t0.crossed
  BY DEF Dued
<1>3. SameRecord(r, t0, r, t)
  BY <1>2 DEF SameRecord, SameRun
<1>4. Records(r, t) /\ Samples(r, t) = Samples(r, t0)
  BY <1>1, <1>3, SameRecords
<1>5. Live(r, t) => Live(r, t0)
  BY <1>2 DEF Live, Clear
<1>6. SungRight(r, t)
  <2>1. Stays(r, t) => Stays(r, t0)
    BY <1>2 DEF Stays, Clear
  <2> QED
    BY <1>1, <1>2, <1>4, <2>1 DEF SungRight
<1>7. Hears(a, t, item) /\ item \in Sample
  BY <1>2 DEF Hears
<1>8. Passed(r, t, s, u) /\ Records(s, u)
  BY <1>1, <1>2, <1>4, <1>7, DrainedPasses
<1>9. Live(r, t) /\ Wait(r) = 0 => AirSung(r, a, t)
  <2> SUFFICES ASSUME Live(r, t), Wait(r) = 0 PROVE AirSung(r, a, t)
    OBVIOUS
  <2>1. Muted(p, r, ph) \/ Aligned(p, r, a, ph, t0)
    BY <1>1, <1>5 DEF SungNext
  <2>2. ~Muted(p, r, ph)
    <3>1. r.skip = 0
      BY <1>1, RecorderTypes
    <3>2. InputLatency > 0 /\ r.drain >= 1
      BY <1>1, LoopFacts, DrainBounds
    <3>3. InputLatency \in Nat /\ r.drain \in Nat
      BY <1>1, LoopFacts, DrainBounds
    <3> QED
      BY <3>1, <3>2, <3>3 DEF Muted
  <2>3. AirSung(r, a, t0)
    BY <2>1, <2>2 DEF Aligned
  <2> QED
    BY <1>2, <2>3 DEF AirSung
<1>10. SungRight(s, u)
  BY <1>1, <1>2, <1>6, <1>7, <1>9, SungRightDrained
<1> QED
  BY <1>1, <1>2, <1>4, <1>5, <1>7, <1>8, <1>10

\* What is owed when the take ends in this quantum is kept.
LEMMA KeptTaken ==
  ASSUME NEW r \in Recorders, NEW t \in Takes, Records(r, t), r.active, ~t.ended,
         r.drain \in (1..InputLatency) \cup {NoDrain},
         r.state = "ended" /\ ~t.complete => t.due = {},
         ~t.still /\ ~t.crossed /\ r.state # "ended" /\ r.drain # NoDrain => Owed(r, t),
         NEW item \in Sample, NEW s, NEW u, Drained(r, t, item, s, u), Passed(r, t, s, u),
         NEW q, NEW ph,
         s.active /\ ~t.still /\ ~t.crossed /\ s.state # "ended" =>
           Owed(s, u) /\ (Rolling(q, s, ph) => Ahead(q, s, ph))
  PROVE  KeptNext(q, s, ph, u)
<1>1. /\ u.still = t.still /\ u.crossed = t.crossed /\ u.due = t.due /\ s \in Recorders /\ u \in Takes
      /\ s.active => u.ended = t.ended
      /\ ~s.active => r.drain # NoDrain
      /\ s.active /\ s.state = "ended" /\ ~u.complete => r.state = "ended" /\ ~t.complete
  BY DEF Passed, SameTake
<1>2. u.ended => ~s.active
  BY <1>1
<1>3. s.active /\ s.state = "ended" /\ ~u.complete => u.due = {}
  BY <1>1
<1>4. ASSUME u.ended, ~u.still, ~u.crossed, ~u.complete PROVE u.due \subseteq Ats(u.stored)
  <2>1. ~s.active
    BY <1>2, <1>4
  <2>2. r.state # "ended" => Owed(r, t)
    BY <1>1, <1>4, <2>1
  <2> QED
    BY <1>4, <2>1, <2>2, KeptDrained
<1> QED
  BY <1>1, <1>2, <1>3, <1>4 DEF KeptNext

\* The song plays on.
LEMMA PlayingQuantum ==
  ASSUME NEW p, NEW r, NEW a, NEW ph \in Phases, NEW t0,
         HeardState(p, r, a, ph, t0), r.active, p.playing,
         NEW t, Dued(p, r, ph, t0, t),
         NEW item, Hears(a, t0, item), NEW s, NEW u, Drained(r, t, item, s, u),
         NEW mixed \in Quantum, ~mixed.dropped,
         mixed.frame # Silence => At(r.pass, p.render, mixed.frame),
         NEW b, AirPush(a, mixed, b), NEW render, render = SongFrame(p, p.render + 1),
         Goes(p.render, render, mixed), NEW q, Renders(p, render, q)
  PROVE  HeardState(q, s, b, ph, u)
<1>1. /\ p \in Players /\ r \in Recorders /\ t0 \in Takes /\ a \in Seq(Quantum)
      /\ Len(a) <= RoundTrip /\ Course(p, a) /\ SungNext(p, r, a, ph, t0) /\ KeptNext(p, r, ph, t0)
  BY DEF HeardState
<1>2. /\ ph # "none" /\ r.drain \in (1..InputLatency) \cup {NoDrain}
      /\ (ph # "flushing" => r.drain = NoDrain)
      /\ p.known /\ t0.try = r.pass /\ ~t0.ended
      /\ (~r.pass => p.range = "none" /\ r.shift = 0 /\ r.end = Endless)
      /\ (r.pass => p.range # "once" /\ Origin(r) = FromFrame)
      /\ ph # "armed"
  BY ActiveFacts
<1>3. /\ Records(r, t) /\ Passed(r, t, s, u) /\ Records(s, u) /\ SungRight(s, u)
      /\ t \in Takes /\ item \in Sample /\ (Live(r, t) => Live(r, t0))
  BY TakenRecords
<1>4. /\ t.still = t0.still /\ t.unheard = t0.unheard /\ t.try = t0.try /\ t.crossed = t0.crossed
      /\ t.closed = t0.closed /\ t.ended = t0.ended /\ t.complete = t0.complete
      /\ u.try = t.try /\ u.still = t.still /\ u.crossed = t.crossed /\ u.due = t.due
      /\ u.unheard = t.unheard /\ u.closed = t.closed
      /\ s \in Recorders /\ u \in Takes /\ SameTake(t, u)
  BY <1>3 DEF Dued, Passed, SameTake
<1>5. /\ s.drain \in (1..InputLatency) \cup {NoDrain}
      /\ s.active => SameRun(r, s) /\ u.ended = t.ended /\ s.pass = r.pass
                     /\ s.drain = IF r.drain = NoDrain THEN NoDrain ELSE r.drain - 1
      /\ ~s.active => s.drain = NoDrain /\ r.drain # NoDrain /\ u.ended
      /\ s.active /\ s.state # "ended" => r.state # "ended" /\ Moved(r, s)
  BY <1>3 DEF Passed, SameRun
<1>6. /\ q \in Players /\ q.playing = p.playing /\ q.range = p.range /\ q.known = p.known
      /\ q.render = render
  BY DEF Renders, SamePlay
<1>7. /\ Course(q, b) /\ Len(Way(q)) > 1 /\ Gone(Way(p), Way(q)) \in {0, 1}
      /\ Len(Way(q)) + Gone(Way(p), Way(q)) = Len(Way(p)) + 1
      /\ \A i \in 1..(Len(Way(q)) - 1) : /\ i + Gone(Way(p), Way(q)) \in 1..Len(Way(p))
                                         /\ Way(q)[i] = Way(p)[i + Gone(Way(p), Way(q))]
      /\ Way(q)[Len(Way(q))] = render
  BY <1>1, CourseRenders
<1>8. b \in Seq(Quantum) /\ Len(b) <= RoundTrip
  BY DEF AirPush
<1>9. Control(q, s, ph, u)
  <2>1. /\ r.drain \in Nat /\ r.drain >= 1 /\ NoDrain \in Nat
        /\ r.drain # NoDrain => r.drain <= InputLatency /\ r.drain - 1 # NoDrain
      /\ s.drain \in Nat
    BY <1>1, <1>2, <1>4, DrainBounds, RecorderTypes
  <2>2. s.active => (ph = "flushing" => s.drain \in 1..InputLatency) /\ (ph # "flushing" => s.drain = NoDrain)
    <3>1. ph = "flushing" => r.drain \in 1..InputLatency
      BY DEF HeardState, Control
    <3> QED
      BY <1>2, <1>5, <2>1, <3>1, LoopFacts
  <2>3. ph \in {"on", "stopping", "ending"} => s.active
    BY <1>2, <1>5
  <2> QED
    BY <1>2, <1>4, <1>5, <1>6, <2>2, <2>3 DEF Control, Phases
<1>10. SungNext(q, s, b, ph, u)
  <2> SUFFICES ASSUME Live(s, u) PROVE Aligned(q, s, b, ph, u)
    BY DEF SungNext
  <2>1. Moved(r, s) /\ Live(r, t)
    BY <1>4, <1>5 DEF Live, Clear
  <2>2. Aligned(p, r, a, ph, t0)
    <3>1. ~Muted(p, r, ph)
      BY DEF Muted
    <3> QED
      BY <1>1, <1>3, <2>1, <3>1 DEF SungNext
  <2>3. AirSung(r, a, t)
    BY <1>4, <2>2 DEF Aligned, AirSung
  <2>4. /\ Place(r) \in Int /\ t.unheard \in Nat /\ t.try \in BOOLEAN /\ RoundTrip \in Nat
        /\ Place(s) = Place(r) + 1 /\ p.render \in Nat /\ mixed.frame \in Nat
        /\ p.render + 1 \in Nat /\ (Place(r) + RoundTrip) - t.unheard \in Int
        /\ (Place(s) + RoundTrip) - t.unheard = ((Place(r) + RoundTrip) - t.unheard) + 1
    <3>1. Place(r) \in Int /\ t.unheard \in Nat /\ t.try \in BOOLEAN /\ RoundTrip \in Nat
      BY <1>1, <1>3, RecorderTypes, TakeTypes, LoopFacts
    <3>2. p.render \in Nat /\ mixed.frame \in Nat
      BY <1>1 DEF Players, Quantum
    <3>3. Place(s) = Place(r) + 1
      BY <2>1 DEF Moved
    <3> QED
      BY <3>1, <3>2, <3>3
  <2>5. s.drain = NoDrain => r.drain = NoDrain
    <3>1. r.drain # NoDrain => r.drain - 1 # NoDrain
      BY <1>1, <1>2, DrainBounds
    <3> QED
      BY <2>1, <3>1 DEF Moved
  <2>6. s.drain = NoDrain => At(t.try, (Place(r) + RoundTrip) - t.unheard, p.render)
    BY <1>4, <2>2, <2>5 DEF Aligned, Rolling
  <2>7. mixed.frame # Silence /\ s.drain = NoDrain =>
          At(t.try, (Place(r) + RoundTrip) - t.unheard, mixed.frame)
    <3> SUFFICES ASSUME mixed.frame # Silence, s.drain = NoDrain
                 PROVE  At(t.try, (Place(r) + RoundTrip) - t.unheard, mixed.frame)
      OBVIOUS
    <3>1. At(t.try, p.render, mixed.frame)
      BY <1>2, <1>4
    <3> DEFINE x == (Place(r) + RoundTrip) - t.unheard
               y == p.render
               z == mixed.frame
    <3>2. x \in Int /\ y \in Int /\ z \in Int /\ At(t.try, x, y) /\ At(t.try, y, z)
      BY <2>4, <2>6, <3>1
    <3>3. At(t.try, x, z)
      <4> HIDE DEF x, y, z
      <4> QED
        BY <2>4, <3>2, AtFacts
    <3> QED
      BY <3>3
  <2>8. AirSung(s, b, u)
    BY <1>1, <1>2, <1>3, <1>4, <1>5, <2>1, <2>3, <2>7, AirSungMoved
  <2>9. Rolling(q, s, ph) => At(u.try, (Place(s) + RoundTrip) - u.unheard, q.render)
    <3> SUFFICES ASSUME s.drain = NoDrain
                 PROVE  At(t.try, (Place(s) + RoundTrip) - t.unheard, render)
      BY <1>4, <1>6 DEF Rolling
    <3> DEFINE x == (Place(r) + RoundTrip) - t.unheard
    <3>1. At(t.try, x, p.render) /\ x \in Int
      BY <2>4, <2>6
    <3>2. (Place(s) + RoundTrip) - t.unheard = x + 1
      BY <2>4
    <3> HIDE DEF x
    <3>3. At(t.try, x + 1, p.render + 1)
      <4>1. x + 1 \in Int /\ p.render + 1 \in Int /\ x - p.render = (x + 1) - (p.render + 1)
        BY <2>4, <3>1
      <4> QED
        BY <2>4, <3>1, <4>1, AtFacts
    <3>4. At(t.try, p.render + 1, render)
      <4>1. render \in Nat /\ Same(render, p.render + 1)
        BY <1>1, <2>4, SongFrameFacts
      <4>2. Same(p.render + 1, render)
        <5> DEFINE y == p.render + 1
        <5>1. render \in Int /\ y \in Int /\ Same(render, y)
          BY <2>4, <4>1
        <5> HIDE DEF y
        <5>2. Same(y, render)
          BY <5>1, SameFacts
        <5> QED
          BY <5>2 DEF y
      <4>3. ~r.pass => render = p.render + 1
        BY <1>1, <1>2, <2>4, SongFrameFacts
      <4> QED
        BY <1>2, <1>4, <4>2, <4>3 DEF At
    <3>5. render \in Nat
      BY <1>1, <2>4, SongFrameFacts
    <3>6. x + 1 \in Int /\ p.render + 1 \in Int /\ render \in Int
      BY <2>4, <3>1, <3>5
    <3>7. At(t.try, x + 1, render)
      <4> DEFINE v == x + 1
                 y == p.render + 1
      <4>1. v \in Int /\ y \in Int /\ render \in Int /\ At(t.try, v, y) /\ At(t.try, y, render)
        BY <3>3, <3>4, <3>6
      <4> HIDE DEF v, y
      <4>2. At(t.try, v, render)
        BY <2>4, <4>1, AtFacts
      <4> QED
        BY <4>2 DEF v
    <3> QED
      BY <3>2, <3>7
  <2> QED
    BY <2>8, <2>9 DEF Aligned
<1>11. KeptNext(q, s, ph, u)
  <2>1. /\ r.state = "ended" /\ ~t0.complete => t0.due = {}
        /\ ~t0.still /\ ~t0.crossed /\ r.state # "ended" =>
             Owed(r, t0) /\ (Rolling(p, r, ph) => Ahead(p, r, ph))
    BY <1>1 DEF KeptNext
  <2>2. \/ t.due = t0.due
        \/ /\ ph = "on" /\ r.state # "ended" /\ Len(p.rendered) = OutputLatency
           /\ t.due = t0.due \cup {SongFrame(p, p.rendered[1])}
           /\ r.pass => t0.due # {} \/ SongFrame(p, p.rendered[1]) = FromFrame
    BY DEF Dued
  <2>3. r.state = "ended" /\ ~t.complete => t.due = {}
    BY <1>4, <2>1, <2>2
  <2>4. ~t.still /\ ~t.crossed /\ r.state # "ended" /\ r.drain # NoDrain => Owed(r, t)
    <3> SUFFICES ASSUME ~t.still, ~t.crossed, r.state # "ended", r.drain # NoDrain PROVE Owed(r, t)
      OBVIOUS
    <3>1. t.due = t0.due /\ Owed(r, t0)
      BY <1>2, <1>4, <2>1, <2>2
    <3> QED
      BY <3>1 DEF Owed
  <2>5. ASSUME s.active, ~t.still, ~t.crossed, s.state # "ended"
        PROVE  Owed(s, u) /\ (Rolling(q, s, ph) => Ahead(q, s, ph))
    <3>1. /\ Owed(r, t0) /\ (Rolling(p, r, ph) => Ahead(p, r, ph)) /\ r.state # "ended"
          /\ Moved(r, s) /\ SameRun(r, s)
      BY <1>4, <1>5, <2>1, <2>5
    <3>2. /\ Place(s) = Place(r) + 1 /\ Place(r) \in Int /\ Origin(s) = Origin(r)
          /\ s.drain = IF r.drain = NoDrain THEN NoDrain ELSE r.drain - 1
      BY <1>1, <3>1, RecorderTypes DEF Moved, SameRun, Origin
    <3>3. \A d \in t0.due : Origin(s) <= d /\ d < Place(s) + Left(s)
      <4> DEFINE v == [t0 EXCEPT !.due = t0.due]
      <4>1. t0.due \in SUBSET Nat /\ t0.due = t0.due
        BY <1>1, TakeTypes
      <4>2. Owed(s, t0)
        BY <1>1, <1>2, <1>4, <3>1, <4>1, OwedMoved
      <4> QED
        BY <4>2 DEF Owed
    <3>4. ASSUME ph = "on", Len(p.rendered) = OutputLatency,
                 r.pass => t0.due # {} \/ SongFrame(p, p.rendered[1]) = FromFrame
          PROVE  /\ Origin(s) <= SongFrame(p, p.rendered[1])
                 /\ SongFrame(p, p.rendered[1]) < Place(s) + Left(s)
      <4> DEFINE d == SongFrame(p, p.rendered[1])
      <4>1. r.drain = NoDrain /\ Rolling(p, r, ph)
        BY <1>2, <3>4 DEF Rolling
      <4>2. d \in Nat /\ Origin(r) <= d /\ d <= Place(r) + InputLatency
        BY <1>1, <1>2, <3>1, <3>4, <4>1, HeardBound
      <4> HIDE DEF d
      <4>3. Left(s) = InputLatency
        BY <3>2, <4>1 DEF Left
      <4>4. d < Place(s) + Left(s)
        BY <3>2, <4>2, <4>3, LoopFacts
      <4> QED
        BY <3>2, <4>2, <4>4 DEF d
    <3>5. Owed(s, u)
      BY <1>4, <2>2, <3>3, <3>4 DEF Owed
    <3>6. Rolling(q, s, ph) => Ahead(q, s, ph)
      <4> SUFFICES ASSUME Rolling(q, s, ph) PROVE Ahead(q, s, ph)
        OBVIOUS
      <4>1. r.drain = NoDrain
        <5>1. r.drain # NoDrain => r.drain - 1 # NoDrain
          BY <1>1, <1>2, DrainBounds
        <5> QED
          BY <3>2, <5>1 DEF Rolling
      <4>2. Ahead(p, r, ph)
        BY <3>1, <4>1 DEF Rolling
      <4> QED
        BY <1>1, <1>2, <1>4, <1>6, <1>7, <3>1, <3>2, <4>2, AheadRenders
    <3> QED
      BY <3>5, <3>6
  <2> QED
    BY <1>1, <1>2, <1>3, <1>4, <2>3, <2>4, <2>5, KeptTaken
<1> QED
  BY <1>3, <1>4, <1>6, <1>7, <1>8, <1>9, <1>10, <1>11 DEF HeardState

Resting(q) == ~q.playing => q.rendered = <<>> /\ q.frame = q.render /\ q.began = q.render

\* While nothing is recorded, the rest may change as it will.
Rested(r, t, s, u) ==
    /\ s \in Recorders /\ u \in Takes /\ SameRecord(r, t, s, u) /\ s.drain = r.drain
    /\ u.due = t.due /\ u.still = t.still /\ u.crossed = t.crossed /\ u.ended = t.ended
    /\ t.closed => u.closed

\* Nothing is recorded, before and after.
LEMMA Idle ==
  ASSUME NEW p, NEW r, NEW a, NEW ph \in Phases, NEW t, HeardState(p, r, a, ph, t), ~r.active,
         NEW q \in Players, NEW s, NEW b \in Seq(Quantum), Len(b) <= RoundTrip,
         NEW u, Rested(r, t, s, u), NEW pi, pi = ph \/ pi = "none",
         Course(q, b), Resting(q)
  PROVE  HeardState(q, s, b, pi, u)
<1>1. /\ s \in Recorders /\ u \in Takes /\ SameRecord(r, t, s, u) /\ s.drain = r.drain
      /\ u.due = t.due /\ u.still = t.still /\ u.crossed = t.crossed /\ u.ended = t.ended
      /\ t.closed => u.closed
  BY DEF Rested
<1>2. /\ s.active = r.active /\ s.state = r.state /\ u.stored = t.stored /\ u.try = t.try
      /\ u.complete = t.complete
  BY <1>1 DEF SameRecord, SameRun
<1>3. Records(s, u) /\ Samples(s, u) = Samples(r, t)
  BY <1>1, SameRecords DEF HeardState
<1>4. ph \in {"none", "flushing"} /\ r.drain = NoDrain
  BY DEF HeardState, Control, Phases
<1>5. Control(q, s, pi, u)
  BY <1>1, <1>2, <1>4 DEF Control, Resting
<1>6. SungRight(s, u)
  <2>1. Stays(s, u) => Stays(r, t)
    BY <1>1, <1>2 DEF Stays, Clear
  <2> QED
    BY <1>2, <1>3, <2>1 DEF SungRight, HeardState
<1>7. SungNext(q, s, b, pi, u)
  BY <1>2 DEF SungNext, Live
<1>8. KeptNext(q, s, pi, u)
  BY <1>1, <1>2 DEF KeptNext, HeardState
<1> QED
  BY <1>1, <1>3, <1>5, <1>6, <1>7, <1>8 DEF HeardState

\* A quantum whose input is dropped.
LEMMA DroppedQuantum ==
  ASSUME NEW p, NEW r, NEW a, NEW ph \in Phases, NEW t, HeardState(p, r, a, ph, t),
         r.active, r.drain = NoDrain, ph # "armed",
         NEW item \in Quantum, item.dropped, item.frame = Silence, NEW b, AirPush(a, item, b),
         NEW u, u = [t EXCEPT !.still = TRUE],
         NEW q \in Players, SamePlay(p, q), q.render = p.render, Course(q, b), Resting(q)
  PROVE  HeardState(q, r, b, ph, u)
<1>1. /\ p \in Players /\ r \in Recorders /\ t \in Takes /\ a \in Seq(Quantum)
      /\ Len(a) <= RoundTrip /\ Records(r, t) /\ SungRight(r, t) /\ SungNext(p, r, a, ph, t)
      /\ KeptNext(p, r, ph, t) /\ Control(p, r, ph, t)
  BY DEF HeardState
<1>2. /\ u \in Takes
  BY <1>1 DEF Takes
<1>3. /\ u.stored = t.stored /\ u.complete = t.complete /\ u.unheard = t.unheard
      /\ u.try = t.try /\ u.closed = t.closed /\ u.crossed = t.crossed /\ u.due = t.due
      /\ u.ended = t.ended /\ u.still = TRUE
  BY <1>1 DEF Takes
<1>4. q.playing = p.playing /\ q.range = p.range /\ q.known = p.known
  BY DEF SamePlay
<1>5. Records(r, u) /\ Samples(r, u) = Samples(r, t)
  <2>1. SameRecord(r, t, r, u)
    BY <1>3 DEF SameRecord, SameRun
  <2> QED
    BY <1>1, <2>1, SameRecords
<1>6. Control(q, r, ph, u)
  BY <1>1, <1>3, <1>4 DEF Control, Resting
<1>7. SungRight(r, u)
  <2>1. Stays(r, u) => Stays(r, t)
    BY <1>3 DEF Stays, Clear
  <2> QED
    BY <1>1, <1>3, <1>5, <2>1 DEF SungRight
<1>8. SungNext(q, r, b, ph, u)
  <2> SUFFICES ASSUME Live(r, u), ~Muted(q, r, ph) PROVE Aligned(q, r, b, ph, u)
    BY DEF SungNext
  <2>1. Live(r, t) /\ ~Muted(p, r, ph)
    BY <1>3, <1>4 DEF Live, Clear, Muted
  <2>2. Aligned(p, r, a, ph, t)
    BY <1>1, <2>1 DEF SungNext
  <2>3. AirSung(r, b, u)
    <3>1. AirSung(r, a, t)
      BY <2>2 DEF Aligned
    <3> QED
      BY <1>1, <1>3, <3>1, AirSungDropped
  <2>4. Rolling(q, r, ph) => At(u.try, (Place(r) + RoundTrip) - u.unheard, q.render)
    BY <1>3, <1>4, <2>2 DEF Aligned, Rolling
  <2> QED
    BY <2>3, <2>4 DEF Aligned
<1>9. KeptNext(q, r, ph, u)
  BY <1>1, <1>3 DEF KeptNext
<1>10. b \in Seq(Quantum) /\ Len(b) <= RoundTrip
  BY DEF AirPush
<1> QED
  BY <1>1, <1>2, <1>5, <1>6, <1>7, <1>8, <1>9, <1>10 DEF HeardState

\* A quantum while the output is woken.
LEMMA ArmedQuantum ==
  ASSUME NEW p, NEW r, NEW a, NEW ph \in Phases, NEW t, HeardState(p, r, a, ph, t),
         r.active, ph = "armed", NEW b \in Seq(Quantum), Len(b) <= RoundTrip, Course(p, b)
  PROVE  HeardState(p, r, b, ph, t)
<1>1. /\ p \in Players /\ r \in Recorders /\ t \in Takes /\ Records(r, t) /\ SungRight(r, t)
      /\ SungNext(p, r, a, ph, t) /\ KeptNext(p, r, ph, t) /\ Control(p, r, ph, t)
  BY DEF HeardState
<1>2. Wait(r) >= RoundTrip
  <2>1. r.skip = InputLatency /\ r.leadIn >= OutputLatency
    BY <1>1 DEF Control
  <2> QED
    BY <1>1, <2>1, RecorderTypes, LoopFacts
<1>3. AirSung(r, b, t)
  BY <1>1, <1>2, AirSungNone
<1>4. SungNext(p, r, b, ph, t)
  BY <1>1, <1>3 DEF SungNext, Aligned
<1> QED
  BY <1>1, <1>4 DEF HeardState

\* A quantum that is awaited while the song does not play, or is held.
LEMMA DrainQuantum ==
  ASSUME NEW p, NEW r, NEW a, NEW ph \in Phases, NEW t, HeardState(p, r, a, ph, t),
         r.active, r.drain # NoDrain,
         NEW item, Hears(a, t, item), NEW s, NEW u, Drained(r, t, item, s, u),
         NEW quantum \in Quantum, ~quantum.dropped, quantum.frame = Silence,
         NEW b, AirPush(a, quantum, b),
         NEW q \in Players, SamePlay(p, q), Course(q, b), Resting(q)
  PROVE  HeardState(q, s, b, ph, u)
<1>1. /\ p \in Players /\ r \in Recorders /\ t \in Takes /\ a \in Seq(Quantum)
      /\ Len(a) <= RoundTrip /\ SungNext(p, r, a, ph, t) /\ KeptNext(p, r, ph, t)
      /\ Control(p, r, ph, t)
  BY DEF HeardState
<1>2. /\ ph = "flushing" /\ r.drain \in (1..InputLatency) \cup {NoDrain} /\ ~t.ended
      /\ t.try = r.pass
  BY ActiveFacts
<1>3. Dued(p, r, ph, t, t)
  BY <1>1 DEF Dued
<1>4. /\ Records(r, t) /\ Passed(r, t, s, u) /\ Records(s, u) /\ SungRight(s, u) /\ item \in Sample
  BY <1>3, TakenRecords
<1>5. /\ u.try = t.try /\ u.still = t.still /\ u.crossed = t.crossed /\ u.due = t.due
      /\ u.unheard = t.unheard /\ u.closed = t.closed
      /\ s \in Recorders /\ u \in Takes /\ SameTake(t, u)
      /\ s.drain \in (1..InputLatency) \cup {NoDrain}
      /\ s.active => SameRun(r, s) /\ s.pass = r.pass /\ s.drain = r.drain - 1
      /\ ~s.active => s.drain = NoDrain
      /\ s.active /\ s.state # "ended" => r.state # "ended" /\ Moved(r, s)
  BY <1>4 DEF Passed, SameTake, SameRun
<1>6. q.playing = p.playing /\ q.range = p.range /\ q.known = p.known
  BY DEF SamePlay
<1>7. /\ r.drain \in Nat /\ r.drain >= 1 /\ r.drain - 1 # NoDrain /\ InputLatency \in Nat
      /\ NoDrain \in Nat /\ r.drain <= InputLatency
      /\ (s.active => s.drain \in 1..InputLatency /\ s.drain # NoDrain)
  BY <1>1, <1>2, <1>5, DrainBounds, LoopFacts
<1>8. Control(q, s, ph, u)
  BY <1>1, <1>2, <1>5, <1>6, <1>7 DEF Control, Resting
<1>9. SungNext(q, s, b, ph, u)
  <2> SUFFICES ASSUME Live(s, u), ~Muted(q, s, ph) PROVE Aligned(q, s, b, ph, u)
    BY DEF SungNext
  <2>1. Live(r, t) /\ Moved(r, s) /\ s.active
    BY <1>5, ActiveFacts DEF Live, Clear
  <2>2. ~Muted(p, r, ph)
    <3>1. s.skip >= r.skip - 1 /\ s.skip \in Nat /\ r.skip \in Nat /\ s.drain = r.drain - 1
      BY <1>1, <1>5, <2>1, RecorderTypes DEF Moved
    <3>2. ASSUME r.skip >= r.drain PROVE s.skip >= s.drain
      BY <1>7, <3>1, <3>2
    <3> QED
      BY <1>6, <1>7, <2>1, <3>2 DEF Muted
  <2>3. AirSung(r, a, t)
    BY <1>1, <2>1, <2>2 DEF SungNext, Aligned
  <2>4. s.drain # NoDrain
    BY <1>7, <2>1
  <2>5. AirSung(s, b, u)
    BY <1>1, <1>2, <1>5, <2>1, <2>3, <2>4, AirSungMoved
  <2> QED
    BY <2>4, <2>5 DEF Aligned, Rolling
<1>10. KeptNext(q, s, ph, u)
  <2>1. /\ r.state = "ended" /\ ~t.complete => t.due = {}
        /\ ~t.still /\ ~t.crossed /\ r.state # "ended" => Owed(r, t)
    BY <1>1 DEF KeptNext
  <2>2. ASSUME s.active, ~t.still, ~t.crossed, s.state # "ended"
        PROVE  Owed(s, u) /\ (Rolling(q, s, ph) => Ahead(q, s, ph))
    <3>1. Owed(r, t) /\ Moved(r, s) /\ SameRun(r, s)
      BY <1>5, <2>1, <2>2
    <3>2. Owed(s, u)
      BY <1>1, <1>2, <1>5, <3>1, TakeTypes, OwedMoved
    <3> QED
      BY <1>7, <2>2, <3>2 DEF Rolling
  <2> QED
    BY <1>1, <1>2, <1>4, <1>5, <2>1, <2>2, KeptTaken
<1>11. b \in Seq(Quantum) /\ Len(b) <= RoundTrip
  BY DEF AirPush
<1> QED
  BY <1>4, <1>5, <1>8, <1>9, <1>10, <1>11 DEF HeardState

\* The song, or the range, is over.
LEMMA OverQuantum ==
  ASSUME NEW p, NEW r, NEW a, NEW ph \in Phases, NEW t0,
         HeardState(p, r, a, ph, t0), r.active, p.playing,
         NEW t, Dued(p, r, ph, t0, t),
         NEW item, Hears(a, t0, item), NEW s, NEW u, Drained(r, t, item, s, u),
         NEW b \in Seq(Quantum), Len(b) <= RoundTrip,
         NEW q \in Players, ~q.playing, q.range = p.range, q.known = p.known, Resting(q),
         Course(q, b), NEW v, v = [s EXCEPT !.skip = InputLatency],
         NEW w, w = [u EXCEPT !.still = TRUE]
  PROVE  HeardState(q, v, b, ph, w)
<1>1. /\ p \in Players /\ r \in Recorders /\ t0 \in Takes /\ KeptNext(p, r, ph, t0)
      /\ Control(p, r, ph, t0)
  BY DEF HeardState
<1>2. /\ ph # "none" /\ ph # "armed" /\ r.drain \in (1..InputLatency) \cup {NoDrain} /\ ~t0.ended
      /\ t0.try = r.pass /\ (ph # "flushing" => r.drain = NoDrain)
  BY ActiveFacts
<1>3. /\ Records(r, t) /\ Passed(r, t, s, u) /\ Records(s, u) /\ SungRight(s, u)
  BY TakenRecords
<1>4. /\ t.ended = t0.ended /\ t.try = t0.try /\ t.complete = t0.complete
      /\ (t.due = t0.due \/ r.state # "ended")
  BY DEF Dued
<1>5. /\ u.try = t.try /\ u.due = t.due /\ s \in Recorders /\ u \in Takes
      /\ s.drain \in (1..InputLatency) \cup {NoDrain}
      /\ s.active => SameRun(r, s) /\ s.pass = r.pass /\ u.ended = t.ended
                     /\ s.drain = IF r.drain = NoDrain THEN NoDrain ELSE r.drain - 1
      /\ ~s.active => s.drain = NoDrain /\ r.drain # NoDrain
      /\ s.active /\ s.state = "ended" /\ ~u.complete => r.state = "ended" /\ ~t.complete
  BY <1>3 DEF Passed, SameTake, SameRun
<1>6. InputLatency \in Nat
  BY LoopFacts
<1>7. v \in Recorders
  BY <1>5, <1>6 DEF Recorders
<1>8. /\ v.active = s.active /\ v.start = s.start /\ v.shift = s.shift /\ v.end = s.end
      /\ v.pass = s.pass /\ v.written = s.written /\ v.posted = s.posted /\ v.chunk = s.chunk
      /\ v.state = s.state /\ v.drain = s.drain /\ v.skip = InputLatency
  BY <1>5 DEF Recorders
<1>9. w \in Takes
  BY <1>5 DEF Takes
<1>10. /\ w.stored = u.stored /\ w.complete = u.complete /\ w.try = u.try /\ w.closed = u.closed
       /\ w.crossed = u.crossed /\ w.due = u.due /\ w.ended = u.ended /\ w.still = TRUE
  BY <1>5 DEF Takes
<1>11. Records(v, w) /\ Samples(v, w) = Samples(s, u)
  <2>1. SameRecord(s, u, v, w)
    BY <1>8, <1>10 DEF SameRecord, SameRun
  <2> QED
    BY <1>3, <2>1, SameRecords
<1>12. SungRight(v, w)
  <2>1. Stays(v, w) => Stays(s, u)
    BY <1>8, <1>10 DEF Stays, Clear
  <2> QED
    BY <1>3, <1>10, <1>11, <2>1 DEF SungRight
<1>13. /\ r.drain \in Nat /\ r.drain >= 1 /\ NoDrain \in Nat /\ s.drain \in Nat
       /\ r.drain # NoDrain => r.drain <= InputLatency /\ r.drain - 1 # NoDrain
       /\ s.drain # NoDrain => s.drain <= InputLatency
  BY <1>1, <1>2, <1>5, DrainBounds
<1>14. s.active => (ph = "flushing" => s.drain \in 1..InputLatency)
                   /\ (ph # "flushing" => s.drain = NoDrain)
  <2>1. ph = "flushing" => r.drain \in 1..InputLatency
    BY <1>1 DEF Control
  <2> QED
    BY <1>2, <1>5, <1>13, <2>1, LoopFacts
<1>15. Control(q, v, ph, w)
  <2>1. ph \in {"on", "stopping", "ending"} => s.active
    BY <1>2, <1>5
  <2> QED
    BY <1>1, <1>2, <1>4, <1>5, <1>8, <1>10, <1>14, <2>1 DEF Control, Resting, Phases
<1>16. SungNext(q, v, b, ph, w)
  <2>1. Muted(q, v, ph)
    BY <1>2, <1>6, <1>8, <1>13 DEF Muted
  <2> QED
    BY <2>1 DEF SungNext
<1>17. KeptNext(q, v, ph, w)
  <2>1. r.state = "ended" /\ ~t0.complete => t0.due = {}
    BY <1>1 DEF KeptNext
  <2> QED
    BY <1>2, <1>4, <1>5, <1>8, <1>10, <2>1 DEF KeptNext
<1> QED
  BY <1>7, <1>9, <1>11, <1>12, <1>15, <1>16, <1>17 DEF HeardState

\* The flag of a song that stood still.
LEMMA StillFacts ==
  ASSUME NEW u \in Takes, NEW d \in BOOLEAN
  PROVE  /\ ~d => [u EXCEPT !.still = @ \/ d] = u
         /\ d => [u EXCEPT !.still = @ \/ d] = [u EXCEPT !.still = TRUE]
<1>1. u.still \in BOOLEAN /\ u = [u EXCEPT !.still = u.still]
  BY DEF Takes
<1>2. CASE ~d
  <2>1. (u.still \/ d) = u.still
    BY <1>1, <1>2
  <2>2. [u EXCEPT !.still = @ \/ d] = [u EXCEPT !.still = u.still]
    BY <2>1
  <2> QED
    BY <1>1, <1>2, <2>2
<1>3. CASE d
  <2>1. (u.still \/ d) = TRUE
    BY <1>1, <1>3
  <2> QED
    BY <1>3, <2>1
<1> QED
  BY <1>2, <1>3

\* The latency of the input is awaited anew.
LEMMA ResetFacts ==
  ASSUME NEW p, NEW r \in Recorders, NEW s, s = ResetInput(p, r)
  PROVE  /\ s \in Recorders
         /\ p.known => s = [r EXCEPT !.skip = InputLatency] /\ s.skip = InputLatency
         /\ s.active = r.active /\ s.start = r.start /\ s.shift = r.shift /\ s.end = r.end
         /\ s.pass = r.pass /\ s.written = r.written /\ s.posted = r.posted /\ s.chunk = r.chunk
         /\ s.state = r.state /\ s.drain = r.drain /\ s.leadIn = r.leadIn
<1>1. s = [r EXCEPT !.skip = Latency(p, InputLatency)]
  BY DEF ResetInput
<1>2. Latency(p, InputLatency) \in Nat /\ (p.known => Latency(p, InputLatency) = InputLatency)
  BY LoopFacts DEF Latency
<1>3. s \in Recorders
  BY <1>1, <1>2 DEF Recorders
<1>4. p.known => s = [r EXCEPT !.skip = InputLatency] /\ s.skip = InputLatency
  BY <1>1, <1>2 DEF Recorders
<1>5. /\ s.active = r.active /\ s.start = r.start /\ s.shift = r.shift /\ s.end = r.end
      /\ s.pass = r.pass /\ s.written = r.written /\ s.posted = r.posted /\ s.chunk = r.chunk
  BY <1>1 DEF Recorders
<1>6. s.state = r.state /\ s.drain = r.drain /\ s.leadIn = r.leadIn
  BY <1>1 DEF Recorders
<1> QED
  BY <1>3, <1>4, <1>5, <1>6

\* What the invariant says of the variables.
LEMMA InvFacts ==
  ASSUME HeardInv
  PROVE  /\ HeardState(player, recorder, air, booth.phase, take)
         /\ player \in Players /\ recorder \in Recorders /\ take \in Takes /\ booth \in Booths
         /\ booth.phase \in Phases /\ air \in Seq(Quantum) /\ Len(air) <= RoundTrip
         /\ Len(player.rendered) <= OutputLatency /\ Hears(air, take, Input)
         /\ Course(player, air) /\ Resting(player)
<1>1. /\ booth \in Booths /\ HeardState(player, recorder, air, booth.phase, take)
  BY DEF HeardInv
<1>2. /\ player \in Players /\ recorder \in Recorders /\ take \in Takes
      /\ air \in Seq(Quantum) /\ Len(air) <= RoundTrip /\ Course(player, air)
      /\ Control(player, recorder, booth.phase, take)
  BY <1>1 DEF HeardState
<1>3. HeardTypes
  BY <1>1, <1>2 DEF HeardTypes
<1>4. booth.phase \in Phases
  BY <1>1 DEF Booths, Phases
<1> QED
  BY <1>1, <1>2, <1>3, <1>4, InputFacts DEF Course, Control, Resting

\* What a quantum that is not rendered puts into the air.
Quiet(held, dropped) == [frame |-> Silence, held |-> held, dropped |-> dropped]

\* Its fields.
LEMMA QuietFacts ==
  ASSUME NEW held \in BOOLEAN, NEW dropped \in BOOLEAN
  PROVE  /\ Quiet(held, dropped) \in Quantum /\ Quiet(held, dropped).frame = Silence
         /\ Quiet(held, dropped).held = held /\ Quiet(held, dropped).dropped = dropped
<1>1. Silence \in Nat
  BY LoopFacts
<1> QED
  BY <1>1 DEF Quiet, Quantum

\* A quantum in which the song stands still.
LEMMA StillStep ==
  ASSUME HeardInv, NEW held \in BOOLEAN, NEW dropped \in BOOLEAN,
         Still(Drains, held, dropped), booth' = booth,
         recorder.drain # NoDrain => ~dropped,
         recorder.active /\ recorder.drain = NoDrain /\ booth.phase # "armed" => dropped,
         booth.phase = "armed" => ~dropped /\ player' = player,
         player' \in Players, SamePlay(player, player'), player'.render = player.render,
         Course(player', air'), Resting(player')
  PROVE  HeardInv'
<1> DEFINE item == Quiet(held, dropped)
<1>1. /\ HeardState(player, recorder, air, booth.phase, take)
      /\ player \in Players /\ recorder \in Recorders /\ take \in Takes /\ booth \in Booths
      /\ booth.phase \in Phases /\ air \in Seq(Quantum) /\ Len(air) <= RoundTrip
      /\ Hears(air, take, Input)
  BY InvFacts
<1>2. /\ recorder' = Drains.recorder
      /\ take' = [Drains.take EXCEPT !.still = @ \/ (dropped /\ recorder.active)]
      /\ air' = Pushed(air, item, RoundTrip)
  BY DEF Still, Quiet
<1>3. /\ item \in Quantum /\ item.frame = Silence /\ item.dropped = dropped
  BY QuietFacts
<1> HIDE DEF item
<1>4. AirPush(air, item, air')
  BY <1>1, <1>2, <1>3, CountPush
<1>5. air' \in Seq(Quantum) /\ Len(air') <= RoundTrip
  BY <1>4 DEF AirPush
<1>6. recorder.active \in BOOLEAN
  BY <1>1, RecorderTypes
<1>7. recorder.drain = NoDrain => Drains.recorder = recorder /\ Drains.take = take
  BY DEF Drains, Unchanged
<1>8. CASE ~recorder.active
  <2>1. recorder.drain = NoDrain
    BY <1>1, <1>8 DEF HeardState, Control
  <2>2. take' = take /\ recorder' = recorder
    BY <1>1, <1>2, <1>6, <1>7, <1>8, <2>1, StillFacts
  <2>3. Rested(recorder, take, recorder', take')
    BY <1>1, <2>2 DEF Rested, SameRecord, SameRun
  <2>4. HeardState(player', recorder', air', booth.phase, take')
    BY <1>1, <1>5, <1>8, <2>3, Idle
  <2> QED
    BY <1>1, <2>4 DEF HeardInv
<1>9. CASE recorder.active /\ recorder.drain # NoDrain
  <2> DEFINE o == CountDrain(WriteInput(recorder, take, Input))
  <2>1. Tallied(recorder) /\ (~recorder.pass => recorder.end = Endless)
    BY <1>1, <1>9, ActiveFacts
  <2>2. Input \in Sample
    BY <1>1 DEF Hears
  <2>3. Drains = o
    BY <1>9 DEF Drains
  <2> HIDE DEF o
  <2>4. Drained(recorder, take, Input, o.recorder, o.take)
    BY <1>1, <1>9, <2>1, <2>2, DrainFacts DEF o
  <2>5. recorder.drain \in (1..InputLatency) \cup {NoDrain}
    BY <1>1, <1>9, ActiveFacts
  <2>6. o.take \in Takes
    <3>1. Passed(recorder, take, o.recorder, o.take)
      BY <1>1, <1>9, <2>2, <2>4, <2>5, DrainedPasses DEF HeardState
    <3> QED
      BY <3>1 DEF Passed
  <2>7. take' = o.take /\ recorder' = o.recorder
    BY <1>2, <1>9, <2>3, <2>6, StillFacts
  <2>8. HeardState(player', recorder', air', booth.phase, take')
    BY <1>1, <1>3, <1>4, <1>9, <2>4, <2>7, DrainQuantum
  <2> QED
    BY <1>1, <2>8 DEF HeardInv
<1>10. CASE recorder.active /\ recorder.drain = NoDrain /\ booth.phase # "armed"
  <2>1. recorder' = recorder /\ take' = [take EXCEPT !.still = TRUE]
    BY <1>1, <1>2, <1>7, <1>10, StillFacts
  <2>2. HeardState(player', recorder, air', booth.phase, take')
    BY <1>1, <1>3, <1>4, <1>10, <2>1, DroppedQuantum
  <2> QED
    BY <1>1, <2>1, <2>2 DEF HeardInv
<1>11. CASE recorder.active /\ recorder.drain = NoDrain /\ booth.phase = "armed"
  <2>0. ~(dropped /\ recorder.active) /\ (dropped /\ recorder.active) \in BOOLEAN
    BY <1>11
  <2>1. recorder' = recorder /\ take' = take /\ player' = player
    <3>1. recorder' = recorder /\ player' = player
      BY <1>2, <1>7, <1>11
    <3>2. take' = [take EXCEPT !.still = @ \/ (dropped /\ recorder.active)]
      BY <1>2, <1>7, <1>11
    <3> QED
      BY <1>1, <2>0, <3>1, <3>2, StillFacts
  <2>2. HeardState(player, recorder, air', booth.phase, take)
    BY <1>1, <1>5, <1>11, <2>1, ArmedQuantum
  <2> QED
    BY <1>1, <2>1, <2>2 DEF HeardInv
<1> QED
  BY <1>8, <1>9, <1>10, <1>11

\* The player is stopped.
LEMMA StoppedStep ==
  ASSUME HeardInv, ProcessStopped
  PROVE  HeardInv'
<1>1. /\ ~player.playing /\ Still(Drains, FALSE, Drops) /\ player' = player /\ booth' = booth
  BY DEF ProcessStopped
<1>2. /\ player \in Players /\ recorder \in Recorders /\ air \in Seq(Quantum)
      /\ Len(air) <= RoundTrip /\ Resting(player)
  BY InvFacts
<1>3. Drops \in BOOLEAN
  BY DEF Drops
<1>4. air' \in Seq(Quantum)
  <2>1. Quiet(FALSE, Drops) \in Quantum /\ air' = Pushed(air, Quiet(FALSE, Drops), RoundTrip)
    BY <1>1, <1>3, QuietFacts DEF Still, Quiet
  <2>2. AirPush(air, Quiet(FALSE, Drops), air')
    BY <1>2, <2>1, CountPush
  <2> QED
    BY <2>2 DEF AirPush
<1>5. Course(player', air')
  BY <1>1, <1>2, <1>4, CourseBegun DEF Resting
<1>6. SamePlay(player, player')
  BY <1>1 DEF SamePlay
<1>7. /\ recorder.drain # NoDrain => ~Drops
      /\ recorder.active /\ recorder.drain = NoDrain /\ booth.phase # "armed" => Drops
      /\ booth.phase = "armed" => ~Drops
  BY DEF Drops
<1> QED
  BY <1>1, <1>2, <1>3, <1>5, <1>6, <1>7, StillStep

\* The player is held.
LEMMA FrozenStep ==
  ASSUME HeardInv, ProcessFrozen
  PROVE  HeardInv'
<1> DEFINE dropped == recorder.drain = NoDrain
           item == Quiet(TRUE, dropped)
<1>1. /\ player.playing /\ Still(Drains, TRUE, dropped) /\ player' = Hold(player) /\ booth' = booth
  BY DEF ProcessFrozen
<1>2. /\ player \in Players /\ recorder \in Recorders /\ air \in Seq(Quantum)
      /\ Len(air) <= RoundTrip /\ Len(player.rendered) <= OutputLatency /\ Course(player, air)
      /\ HeardState(player, recorder, air, booth.phase, take)
  BY InvFacts
<1>3. dropped \in BOOLEAN
  OBVIOUS
<1>4. /\ item \in Quantum /\ item.frame = Silence /\ item.held = TRUE
      /\ air' = Pushed(air, item, RoundTrip)
  BY <1>1, <1>3, QuietFacts DEF Still, Quiet
<1> HIDE DEF item
<1>5. AirPush(air, item, air')
  BY <1>2, <1>4, CountPush
<1>6. Renders(player, player.render, player')
  BY <1>1, <1>2, RenderFacts
<1>7. Goes(player.render, player.render, item)
  BY <1>4 DEF Goes
<1>8. Course(player', air')
  BY <1>2, <1>4, <1>5, <1>6, <1>7, CourseRenders
<1>9. /\ player' \in Players /\ SamePlay(player, player') /\ player'.render = player.render
  BY <1>6 DEF Renders
<1>10. Resting(player')
  BY <1>1, <1>9 DEF Resting, SamePlay
<1>11. booth.phase # "armed"
  BY <1>1, <1>2 DEF HeardState, Control
<1> QED
  BY <1>1, <1>3, <1>8, <1>9, <1>10, <1>11, StillStep

\* What the tracks give is the frame that is rendered, or silence.
LEMMA MixedFacts ==
  ASSUME NEW p \in Players, NEW frame, frame = SongFrame(p, p.render),
         NEW mixed, mixed = Silence \/ mixed = frame,
         NEW item, item = [frame |-> mixed, held |-> FALSE, dropped |-> FALSE]
  PROVE  /\ item \in Quantum /\ ~item.dropped
         /\ Goes(p.render, SongFrame(p, p.render + 1), item)
         /\ item.frame # Silence => /\ Same(p.render, item.frame)
                                    /\ p.range # "cycle" => p.render = item.frame
<1>1. p.render \in Nat /\ Silence \in Nat /\ ToFrame \in Nat
  BY LoopFacts DEF Players
<1>2. /\ frame \in Nat /\ Same(frame, p.render)
      /\ frame = p.render \/ (p.range = "cycle" /\ p.render >= ToFrame)
  BY <1>1, SongFrameFacts
<1>3. item \in Quantum /\ item.frame = mixed /\ ~item.held /\ ~item.dropped
  BY <1>1, <1>2 DEF Quantum
<1>4. /\ Step(p.render, SongFrame(p, p.render + 1))
      /\ p.render >= ToFrame /\ frame # p.render => SongFrame(p, p.render + 1) < p.render
  BY <1>1, StepFacts
<1>5. Goes(p.render, SongFrame(p, p.render + 1), item)
  BY <1>2, <1>3, <1>4 DEF Goes
<1>6. Same(p.render, frame)
  <2>1. p.render \in Int /\ frame \in Int
    BY <1>1, <1>2
  <2> QED
    BY <1>2, <2>1, SameFacts
<1> QED
  BY <1>2, <1>3, <1>5, <1>6

\* What is heard while the take is on is due.
LEMMA DueFacts ==
  ASSUME HeardInv
  PROVE  Dued(player, recorder, booth.phase, take, Due(take))
<1>1. player \in Players /\ take \in Takes
  BY InvFacts
<1>2. CASE Due(take) = take
  BY <1>1, <1>2 DEF Dued
<1>3. CASE Due(take) # take
  <2> DEFINE heard == SongFrame(player, Head(player.rendered))
  <2>1. /\ booth.phase = "on" /\ recorder.state # "ended" /\ Len(player.rendered) = OutputLatency
        /\ (recorder.pass => take.due # {} \/ heard = FromFrame)
        /\ Due(take) = [take EXCEPT !.due = @ \cup {heard}]
    BY <1>3 DEF Due
  <2>2. /\ player.rendered \in Seq(Nat) /\ Len(player.rendered) > 0
    BY <1>1, <2>1, LoopFacts DEF Players
  <2>3. Head(player.rendered) = player.rendered[1] /\ player.rendered[1] \in Nat
    BY <2>2
  <2>4. heard = SongFrame(player, player.rendered[1]) /\ heard \in Nat
    BY <1>1, <2>3, SongFrameFacts
  <2> HIDE DEF heard
  <2>5. Due(take) \in Takes
    BY <1>1, <2>1, <2>4 DEF Takes
  <2> DEFINE u == Due(take)
  <2>6. u = [take EXCEPT !.due = take.due \cup {heard}]
    BY <2>1
  <2> HIDE DEF u
  <2>7. /\ u.stored = take.stored /\ u.complete = take.complete /\ u.still = take.still
        /\ u.unheard = take.unheard /\ u.try = take.try /\ u.closed = take.closed
        /\ u.crossed = take.crossed /\ u.ended = take.ended
        /\ u.due = take.due \cup {heard}
    BY <1>1, <2>6 DEF Takes
  <2>8. u \in Takes
    BY <2>5 DEF u
  <2>9. Dued(player, recorder, booth.phase, take, u)
    BY <2>1, <2>4, <2>7, <2>8 DEF Dued
  <2> QED
    BY <2>9 DEF u
<1> QED
  BY <1>2, <1>3

\* The song plays, or ends.
LEMMA PlayingStep ==
  ASSUME HeardInv, ProcessPlaying
  PROVE  HeardInv'
<1> DEFINE item == [frame |-> Mixed, held |-> FALSE, dropped |-> FALSE]
           frame == SongFrame(player, player.render)
           render == SongFrame(player, player.render + 1)
           next == Advance(player)
           o == CountDrain(WriteInput(recorder, Due(take), Input))
           outcome == IF recorder.active THEN o ELSE Unchanged
           place == IF next.range = "once" THEN FromFrame ELSE 0
           fresh == Begin(next, place)
<1>1. /\ HeardState(player, recorder, air, booth.phase, take)
      /\ player \in Players /\ recorder \in Recorders /\ take \in Takes /\ booth \in Booths
      /\ booth.phase \in Phases /\ air \in Seq(Quantum) /\ Len(air) <= RoundTrip
      /\ Len(player.rendered) <= OutputLatency /\ Hears(air, take, Input) /\ Course(player, air)
  BY InvFacts
<1>2. /\ player.playing /\ booth' = booth /\ air' = Pushed(air, item, RoundTrip)
      /\ \/ /\ player' = next /\ recorder' = outcome.recorder /\ take' = outcome.take
         \/ /\ player' = [fresh EXCEPT !.playing = FALSE]
            /\ recorder' = ResetInput(player, outcome.recorder)
            /\ take' = [outcome.take EXCEPT !.still = @ \/ recorder.active]
  BY DEF ProcessPlaying, Both
<1>3. Mixed = Silence \/ Mixed = frame
  BY DEF Mixed
<1>4. /\ item \in Quantum /\ ~item.dropped /\ Goes(player.render, render, item)
      /\ item.frame # Silence => /\ Same(player.render, item.frame)
                                 /\ player.range # "cycle" => player.render = item.frame
  BY <1>1, <1>3, MixedFacts
<1>5. Renders(player, render, next)
  BY <1>1, RenderFacts
<1>6. /\ next \in Players /\ SamePlay(player, next)
  BY <1>5 DEF Renders
<1>7. place \in Nat
  BY LoopFacts
<1>8. Begins(next, place, fresh)
  <2> HIDE DEF next, place
  <2> QED
    BY <1>6, <1>7, BeginFacts
<1> HIDE DEF item, frame, render, next, place, fresh, o, outcome
<1>9. AirPush(air, item, air')
  BY <1>1, <1>2, <1>4, CountPush
<1>10. air' \in Seq(Quantum) /\ Len(air') <= RoundTrip
  BY <1>9 DEF AirPush
<1>11. Course(next, air')
  BY <1>1, <1>4, <1>5, <1>9, CourseRenders
<1>12. next.playing
  BY <1>2, <1>6 DEF SamePlay
<1>13. ASSUME player' = [fresh EXCEPT !.playing = FALSE]
       PROVE  /\ player' \in Players /\ ~player'.playing /\ player'.range = player.range
              /\ player'.known = player.known /\ Resting(player') /\ Course(player', air')
  <2>1. /\ fresh \in Players /\ SamePlay(next, fresh) /\ fresh.frame = place
        /\ fresh.render = place /\ fresh.began = place /\ fresh.rendered = <<>>
    BY <1>8 DEF Begins
  <2> DEFINE q == [fresh EXCEPT !.playing = FALSE]
  <2>2. q \in Players
    BY <2>1 DEF Players
  <2>3. /\ q.playing = FALSE /\ q.range = fresh.range /\ q.known = fresh.known
        /\ q.frame = fresh.frame /\ q.render = fresh.render /\ q.began = fresh.began
        /\ q.rendered = fresh.rendered
    BY <2>1 DEF Players
  <2> HIDE DEF q
  <2>4. Course(q, air')
    BY <1>10, <2>1, <2>2, <2>3, CourseBegun
  <2>5. player' = q
    BY <1>13 DEF q
  <2> QED
    BY <1>6, <2>1, <2>2, <2>3, <2>4, <2>5 DEF SamePlay, Resting
<1>14. CASE ~recorder.active
  <2>1. outcome.recorder = recorder /\ outcome.take = take
    BY <1>14 DEF outcome, Unchanged
  <2>2. recorder.active \in BOOLEAN
    BY <1>1, RecorderTypes
  <2>3. [take EXCEPT !.still = @ \/ recorder.active] = take
    BY <1>1, <1>14, <2>2, StillFacts
  <2>4. take' = take /\ (recorder' = recorder \/ recorder' = ResetInput(player, recorder))
    BY <1>2, <2>1, <2>3
  <2>5. Rested(recorder, take, recorder', take')
    <3>1. CASE recorder' = recorder
      BY <1>1, <2>4, <3>1 DEF Rested, SameRecord, SameRun
    <3>2. CASE recorder' = ResetInput(player, recorder)
      BY <1>1, <2>4, <3>2, ResetFacts DEF Rested, SameRecord, SameRun
    <3> QED
      BY <2>4, <3>1, <3>2
  <2>6. player' \in Players /\ Course(player', air') /\ Resting(player')
    <3>1. CASE player' = next
      BY <1>6, <1>11, <1>12, <3>1 DEF Resting
    <3>2. CASE player' = [fresh EXCEPT !.playing = FALSE]
      BY <1>13, <3>2
    <3> QED
      BY <1>2, <3>1, <3>2
  <2>7. HeardState(player', recorder', air', booth.phase, take')
    BY <1>1, <1>10, <1>14, <2>5, <2>6, Idle
  <2> QED
    BY <1>1, <1>2, <2>7 DEF HeardInv
<1>15. CASE recorder.active
  <2>1. /\ recorder.drain \in (1..InputLatency) \cup {NoDrain}
        /\ ~recorder.pass => player.range = "none" /\ recorder.end = Endless
        /\ Tallied(recorder) /\ player.known
    BY <1>1, <1>15, ActiveFacts
  <2>2. Dued(player, recorder, booth.phase, take, Due(take))
    BY DueFacts
  <2>3. Due(take) \in Takes /\ Input \in Sample
    BY <1>1, <2>2 DEF Dued, Hears
  <2>4. Drained(recorder, Due(take), Input, o.recorder, o.take)
    BY <1>1, <1>15, <2>1, <2>3, DrainFacts DEF o
  <2>5. outcome = o
    BY <1>15 DEF outcome
  <2>6. item.frame # Silence => At(recorder.pass, player.render, item.frame)
    BY <1>4, <2>1 DEF At
  <2>7. CASE player' = next /\ recorder' = outcome.recorder /\ take' = outcome.take
    <3>1. HeardState(player', recorder', air', booth.phase, take')
      BY <1>1, <1>2, <1>4, <1>5, <1>9, <1>15, <2>2, <2>4, <2>5, <2>6, <2>7, PlayingQuantum
         DEF render
    <3> QED
      BY <1>1, <1>2, <3>1 DEF HeardInv
  <2>8. CASE /\ player' = [fresh EXCEPT !.playing = FALSE]
             /\ recorder' = ResetInput(player, outcome.recorder)
             /\ take' = [outcome.take EXCEPT !.still = @ \/ recorder.active]
    <3>1. o.recorder \in Recorders /\ o.take \in Takes
      <4>1. Passed(recorder, Due(take), o.recorder, o.take)
        BY <1>1, <1>15, <2>2, <2>4, TakenRecords
      <4> QED
        BY <4>1 DEF Passed
    <3>2. recorder' = [o.recorder EXCEPT !.skip = InputLatency]
      BY <2>1, <2>5, <2>8, <3>1, ResetFacts
    <3>3. take' = [o.take EXCEPT !.still = TRUE]
      BY <1>15, <2>5, <2>8, <3>1, StillFacts
    <3>4. /\ player' \in Players /\ ~player'.playing /\ player'.range = player.range
          /\ player'.known = player.known /\ Resting(player') /\ Course(player', air')
      BY <1>13, <2>8
    <3>5. HeardState(player', recorder', air', booth.phase, take')
      BY <1>1, <1>2, <1>10, <1>15, <2>2, <2>4, <3>2, <3>3, <3>4, OverQuantum
    <3> QED
      BY <1>1, <1>2, <3>5 DEF HeardInv
  <2> QED
    BY <1>2, <2>7, <2>8
<1> QED
  BY <1>1, <1>14, <1>15, RecorderTypes

-----------------------------------------------------------------------------
(* The messages of the main thread.                                        *)

\* The phases of the main thread.
LEMMA PhaseFacts ==
  ASSUME booth \in Booths
  PROVE  /\ \A ph \in Phases : Counted(ph) => booth' \in Booths /\ booth'.phase = ph
         /\ \A ph \in Phases : booth' = [booth EXCEPT !.phase = ph] =>
                                 booth' \in Booths /\ booth'.phase = ph
<1>1. booth.commands + 1 \in Nat
  BY DEF Booths
<1> QED
  BY <1>1 DEF Booths, Counted, Phases

\* A state in which nothing is recorded.
LEMMA IdleStep ==
  ASSUME HeardInv, ~recorder.active, booth' \in Booths,
         booth'.phase = booth.phase \/ booth'.phase = "none", air' = air,
         player' \in Players, Course(player', air), Resting(player'),
         Rested(recorder, take, recorder', take')
  PROVE  HeardInv'
<1>1. /\ HeardState(player, recorder, air, booth.phase, take)
      /\ booth.phase \in Phases /\ air \in Seq(Quantum) /\ Len(air) <= RoundTrip
  BY InvFacts
<1>2. HeardState(player', recorder', air', booth'.phase, take')
  BY <1>1, Idle
<1> QED
  BY <1>2 DEF HeardInv

\* Without a take nothing is recorded.
LEMMA NoneFacts ==
  ASSUME HeardInv, booth.phase = "none"
  PROVE  ~recorder.active
BY DEF HeardInv, HeardState, Control

\* The player is told to play, or not to.
LEMMA StartedFacts ==
  ASSUME NEW p \in Players, NEW x \in BOOLEAN, NEW q, q = [p EXCEPT !.playing = x]
  PROVE  /\ q \in Players /\ q.playing = x /\ q.frozen = p.frozen /\ q.range = p.range
         /\ q.known = p.known /\ q.frame = p.frame /\ q.render = p.render /\ q.began = p.began
         /\ q.rendered = p.rendered
<1>1. q \in Players
  BY DEF Players
<1>2. /\ q.playing = x /\ q.frozen = p.frozen /\ q.range = p.range
      /\ q.known = p.known /\ q.frame = p.frame
  BY DEF Players
<1>3. q.render = p.render /\ q.began = p.began /\ q.rendered = p.rendered
  BY DEF Players
<1> QED
  BY <1>1, <1>2, <1>3

\* The player is stopped where it is heard.
LEMMA StopFacts ==
  ASSUME HeardInv, StopMessage
  PROVE  /\ player' \in Players /\ ~player'.playing /\ Resting(player') /\ Course(player', air)
         /\ player'.range = player.range /\ player'.known = player.known
<1> DEFINE b == Begin(player, player.frame)
<1>1. player \in Players /\ air \in Seq(Quantum)
  BY InvFacts
<1>2. player.frame \in Nat
  BY <1>1 DEF Players
<1>3. Begins(player, player.frame, b)
  BY <1>1, <1>2, BeginFacts
<1>4. player' = [b EXCEPT !.playing = FALSE]
  BY DEF StopMessage
<1> HIDE DEF b
<1>5. /\ b \in Players /\ SamePlay(player, b) /\ b.rendered = <<>> /\ b.frame = player.frame
      /\ b.render = player.frame /\ b.began = player.frame
  BY <1>3 DEF Begins
<1>6. /\ player' \in Players /\ player'.playing = FALSE /\ player'.range = b.range
      /\ player'.known = b.known /\ player'.frame = b.frame /\ player'.render = b.render
      /\ player'.began = b.began /\ player'.rendered = b.rendered
  BY <1>4, <1>5, StartedFacts
<1>7. Course(player', air)
  BY <1>1, <1>5, <1>6, CourseBegun
<1> QED
  BY <1>5, <1>6, <1>7 DEF SamePlay, Resting

\* The messages: the song is played without a take,
LEMMA PlaySongStep ==
  ASSUME HeardInv, PlaySong
  PROVE  HeardInv'
<1>1. /\ booth.phase = "none" /\ player' = [player EXCEPT !.playing = TRUE]
      /\ recorder' = ResetInput(player, recorder) /\ Counted("none") /\ air' = air /\ take' = take
  BY DEF PlaySong, PlayMessage
<1>2. /\ player \in Players /\ recorder \in Recorders /\ take \in Takes /\ booth \in Booths
      /\ Course(player, air)
  BY InvFacts
<1>3. /\ player' \in Players /\ player'.playing = TRUE /\ player'.render = player.render
      /\ player'.began = player.began /\ player'.rendered = player.rendered
  BY <1>1, <1>2, StartedFacts
<1>4. Course(player', air) /\ Resting(player')
  BY <1>2, <1>3, CourseSame DEF Resting
<1>5. Rested(recorder, take, recorder', take')
  BY <1>1, <1>2, ResetFacts DEF Rested, SameRecord, SameRun
<1>6. booth' \in Booths /\ booth'.phase = "none"
  BY <1>1, <1>2, PhaseFacts DEF Phases
<1> QED
  BY <1>1, <1>3, <1>4, <1>5, <1>6, NoneFacts, IdleStep

\* it is stopped,
LEMMA StopSongStep ==
  ASSUME HeardInv, StopSong
  PROVE  HeardInv'
<1>1. /\ booth.phase = "none" /\ StopMessage /\ Counted("none")
      /\ air' = air /\ take' = take /\ recorder' = recorder
  BY DEF StopSong
<1>2. /\ recorder \in Recorders /\ take \in Takes /\ booth \in Booths
  BY InvFacts
<1>3. player' \in Players /\ Resting(player') /\ Course(player', air)
  BY <1>1, StopFacts
<1>4. Rested(recorder, take, recorder', take')
  BY <1>1, <1>2 DEF Rested, SameRecord, SameRun
<1>5. booth' \in Booths /\ booth'.phase = "none"
  BY <1>1, <1>2, PhaseFacts DEF Phases
<1> QED
  BY <1>1, <1>3, <1>4, <1>5, NoneFacts, IdleStep

\* a loop is opened,
LEMMA OpenRangeStep ==
  ASSUME HeardInv, OpenRange
  PROVE  HeardInv'
<1> DEFINE b == Begin(player, FromFrame)
           range == IF player.playing THEN "cycle" ELSE "once"
<1>1. /\ booth.phase = "none" /\ Counted("none") /\ air' = air /\ take' = take
      /\ player' = [b EXCEPT !.playing = TRUE, !.range = range]
      /\ (recorder' = recorder \/ recorder' = ResetInput(player, recorder))
  BY DEF OpenRange
<1>2. /\ player \in Players /\ recorder \in Recorders /\ take \in Takes /\ booth \in Booths
      /\ air \in Seq(Quantum)
  BY InvFacts
<1>3. Begins(player, FromFrame, b)
  BY <1>2, LoopFacts, BeginFacts
<1>4. range \in {"none", "once", "cycle"}
  OBVIOUS
<1> HIDE DEF b, range
<1>5. /\ b \in Players /\ b.rendered = <<>> /\ b.render = FromFrame /\ b.began = FromFrame
  BY <1>3 DEF Begins
<1>6. player' \in Players
  BY <1>1, <1>4, <1>5 DEF Players
<1>7. /\ player'.playing = TRUE /\ player'.render = b.render /\ player'.began = b.began
      /\ player'.rendered = b.rendered
  BY <1>1, <1>5 DEF Players
<1>8. Course(player', air) /\ Resting(player')
  BY <1>2, <1>5, <1>6, <1>7, CourseBegun DEF Resting
<1>9. Rested(recorder, take, recorder', take')
  <2>1. CASE recorder' = recorder
    BY <1>1, <1>2, <2>1 DEF Rested, SameRecord, SameRun
  <2>2. CASE recorder' = ResetInput(player, recorder)
    BY <1>1, <1>2, <2>2, ResetFacts DEF Rested, SameRecord, SameRun
  <2> QED
    BY <1>1, <2>1, <2>2
<1>10. booth' \in Booths /\ booth'.phase = "none"
  BY <1>1, <1>2, PhaseFacts DEF Phases
<1> QED
  BY <1>1, <1>6, <1>8, <1>9, <1>10, NoneFacts, IdleStep

\* the take is over,
LEMMA RecordingFlushedStep ==
  ASSUME HeardInv, RecordingFlushed
  PROVE  HeardInv'
<1>1. /\ ~recorder.active /\ booth' = [booth EXCEPT !.phase = "none"]
      /\ player' = player /\ recorder' = recorder /\ air' = air /\ take' = take
  BY DEF RecordingFlushed
<1>2. /\ player \in Players /\ recorder \in Recorders /\ take \in Takes /\ booth \in Booths
      /\ Course(player, air) /\ Resting(player)
  BY InvFacts
<1>3. Rested(recorder, take, recorder', take')
  BY <1>1, <1>2 DEF Rested, SameRecord, SameRun
<1>4. booth' \in Booths /\ booth'.phase = "none"
  BY <1>1, <1>2, PhaseFacts DEF Phases
<1> QED
  BY <1>1, <1>2, <1>3, <1>4, IdleStep

\* What the invariant says of a player depends on the rest of it.
LEMMA SamePlayer ==
  ASSUME NEW p, NEW r, NEW a, NEW ph, NEW t, HeardState(p, r, a, ph, t),
         NEW q \in Players, q.playing = p.playing, q.range = p.range, q.known = p.known,
         q.frame = p.frame, q.render = p.render, q.began = p.began, q.rendered = p.rendered
  PROVE  HeardState(q, r, a, ph, t)
<1>1. Course(q, a) /\ Way(q) = Way(p)
  BY CourseSame DEF HeardState
<1>2. Control(q, r, ph, t)
  BY DEF HeardState, Control
<1>3. SungNext(q, r, a, ph, t)
  BY DEF HeardState, SungNext, Muted, Aligned, Rolling
<1>4. KeptNext(q, r, ph, t)
  <2>1. Ahead(p, r, ph) => Ahead(q, r, ph)
    <3>1. \A i : Heard(q, r, i) = Heard(p, r, i)
      BY <1>1 DEF Heard
    <3>2. \A i : AheadAt(p, r, ph, i) => AheadAt(q, r, ph, i)
      BY <1>1, <3>1 DEF AheadAt
    <3> QED
      BY <1>1, <3>1, <3>2 DEF Ahead
  <2> QED
    BY <2>1 DEF HeardState, KeptNext, Rolling
<1> QED
  BY <1>1, <1>2, <1>3, <1>4 DEF HeardState

\* the song is held or goes on,
LEMMA SetFrozenStep ==
  ASSUME HeardInv, SetFrozen
  PROVE  HeardInv'
<1>1. /\ player' = [player EXCEPT !.frozen = ~@] /\ Counted(booth.phase)
      /\ recorder' = recorder /\ air' = air /\ take' = take
  BY DEF SetFrozen
<1>2. /\ player \in Players /\ booth \in Booths /\ booth.phase \in Phases
      /\ HeardState(player, recorder, air, booth.phase, take)
  BY InvFacts
<1>3. (~player.frozen) \in BOOLEAN
  OBVIOUS
<1>4. player' \in Players
  BY <1>1, <1>2, <1>3 DEF Players
<1>5. /\ player'.playing = player.playing /\ player'.range = player.range
      /\ player'.known = player.known /\ player'.frame = player.frame
  BY <1>1, <1>2 DEF Players
<1>6. /\ player'.render = player.render
      /\ player'.began = player.began /\ player'.rendered = player.rendered
  BY <1>1, <1>2 DEF Players
<1>7. booth' \in Booths /\ booth'.phase = booth.phase
  BY <1>1, <1>2, PhaseFacts
<1>8. HeardState(player', recorder, air, booth.phase, take)
  BY <1>2, <1>4, <1>5, <1>6, SamePlayer
<1> QED
  BY <1>1, <1>7, <1>8 DEF HeardInv

\* the take begins to play,
LEMMA PlayTakeStep ==
  ASSUME HeardInv, PlayTake
  PROVE  HeardInv'
<1>1. /\ booth.phase = "armed" /\ player' = [player EXCEPT !.playing = TRUE]
      /\ recorder' = ResetInput(player, recorder) /\ booth' = [booth EXCEPT !.phase = "on"]
      /\ air' = air /\ take' = take
  BY DEF PlayTake, PlayMessage
<1>2. /\ player \in Players /\ recorder \in Recorders /\ take \in Takes /\ booth \in Booths
      /\ booth.phase \in Phases /\ HeardState(player, recorder, air, booth.phase, take)
  BY InvFacts
<1>3. /\ recorder.active /\ recorder.drain = NoDrain /\ ~player.playing
      /\ recorder.skip = InputLatency /\ player.known
  BY <1>1, <1>2 DEF HeardState, Control
<1>4. recorder' = recorder
  <2>1. recorder' = [recorder EXCEPT !.skip = InputLatency]
    BY <1>1, <1>2, <1>3, ResetFacts
  <2>2. recorder = [recorder EXCEPT !.skip = recorder.skip]
    BY <1>2 DEF Recorders
  <2> QED
    BY <1>3, <2>1, <2>2
<1>5. /\ player' \in Players /\ player'.playing = TRUE /\ player'.range = player.range
      /\ player'.known = player.known /\ player'.render = player.render
      /\ player'.began = player.began /\ player'.rendered = player.rendered
  BY <1>1, <1>2, StartedFacts
<1>6. booth' \in Booths /\ booth'.phase = "on"
  BY <1>1, <1>2, PhaseFacts DEF Phases
<1>7. Course(player', air) /\ Way(player') = Way(player)
  BY <1>2, <1>5, CourseSame DEF HeardState
<1>8. Control(player', recorder, "on", take)
  BY <1>1, <1>2, <1>3, <1>5 DEF HeardState, Control
<1>9. SungNext(player', recorder, air, "on", take)
  <2>1. ~Muted(player, recorder, "armed")
    BY DEF Muted
  <2> QED
    BY <1>1, <1>2, <1>3, <1>5, <2>1 DEF HeardState, SungNext, Aligned, Rolling
<1>10. KeptNext(player', recorder, "on", take)
  <2>1. Ahead(player, recorder, "armed") => Ahead(player', recorder, "on")
    <3>1. \A i : Heard(player', recorder, i) = Heard(player, recorder, i)
      BY <1>7 DEF Heard
    <3>2. \A i : AheadAt(player, recorder, "armed", i) => AheadAt(player', recorder, "on", i)
      BY <1>7, <3>1 DEF AheadAt
    <3> QED
      BY <1>7, <3>1, <3>2 DEF Ahead
  <2> QED
    BY <1>1, <1>2, <1>3, <2>1 DEF HeardState, KeptNext, Rolling
<1> QED
  BY <1>1, <1>2, <1>4, <1>5, <1>6, <1>7, <1>8, <1>9, <1>10 DEF HeardInv, HeardState

\* the player is stopped before the take,
LEMMA StopAndFinishStep ==
  ASSUME HeardInv, StopAndFinish
  PROVE  HeardInv'
<1>1. /\ booth.phase = "on" /\ StopMessage /\ air' = air /\ recorder' = recorder /\ take' = take
      /\ booth' = [booth EXCEPT !.phase = "stopping",
                                !.commands = IF player.playing THEN @ + 1 ELSE @]
  BY DEF StopAndFinish
<1>2. /\ player \in Players /\ recorder \in Recorders /\ take \in Takes /\ booth \in Booths
      /\ HeardState(player, recorder, air, booth.phase, take)
  BY InvFacts
<1>3. /\ player' \in Players /\ ~player'.playing /\ Resting(player') /\ Course(player', air)
      /\ player'.range = player.range /\ player'.known = player.known
  BY <1>1, StopFacts
<1>4. booth' \in Booths /\ booth'.phase = "stopping"
  <2>1. (IF player.playing THEN booth.commands + 1 ELSE booth.commands) \in Nat
    BY <1>2 DEF Booths
  <2> QED
    BY <1>1, <1>2, <2>1 DEF Booths
<1>5. recorder.active /\ recorder.drain = NoDrain
  BY <1>1, <1>2 DEF HeardState, Control
<1>6. Control(player', recorder, "stopping", take)
  BY <1>2, <1>3, <1>5 DEF HeardState, Control, Resting
<1>7. SungNext(player', recorder, air, "stopping", take)
  <2>1. Muted(player, recorder, "on") => Muted(player', recorder, "stopping")
    BY <1>3 DEF Muted
  <2>2. Aligned(player, recorder, air, "on", take) => Aligned(player', recorder, air, "stopping", take)
    BY <1>3 DEF Aligned, Rolling
  <2> QED
    BY <1>1, <1>2, <2>1, <2>2 DEF HeardState, SungNext
<1>8. KeptNext(player', recorder, "stopping", take)
  BY <1>1, <1>2, <1>3 DEF HeardState, KeptNext, Rolling
<1> QED
  BY <1>1, <1>2, <1>3, <1>4, <1>6, <1>7, <1>8 DEF HeardInv, HeardState

\* the take is to end,
LEMMA FinishRecordingStep ==
  ASSUME HeardInv, FinishRecording
  PROVE  HeardInv'
<1>1. /\ booth.phase = "on" /\ player' = player /\ air' = air /\ recorder' = recorder /\ take' = take
      /\ (Counted("ending") \/ booth' = [booth EXCEPT !.phase = "ending"])
  BY DEF FinishRecording
<1>2. booth \in Booths /\ HeardState(player, recorder, air, booth.phase, take)
  BY InvFacts
<1>3. booth' \in Booths /\ booth'.phase = "ending"
  BY <1>1, <1>2, PhaseFacts DEF Phases
<1>4. Control(player, recorder, "ending", take)
  BY <1>1, <1>2 DEF HeardState, Control
<1>5. SungNext(player, recorder, air, "ending", take)
  BY <1>1, <1>2 DEF HeardState, SungNext, Muted, Aligned, Rolling
<1>6. KeptNext(player, recorder, "ending", take)
  <2>1. Ahead(player, recorder, "on") => Ahead(player, recorder, "ending")
    <3>1. \A i : AheadAt(player, recorder, "on", i) => AheadAt(player, recorder, "ending", i)
      BY DEF AheadAt
    <3> QED
      BY <3>1 DEF Ahead
  <2> QED
    BY <1>1, <1>2, <2>1 DEF HeardState, KeptNext, Rolling
<1> QED
  BY <1>1, <1>2, <1>3, <1>4, <1>5, <1>6 DEF HeardInv, HeardState

\* what was sung is awaited,
LEMMA FlushRecordingStep ==
  ASSUME HeardInv, FlushRecording
  PROVE  HeardInv'
<1> DEFINE o == StartDrain(player, recorder, take)
           s == [recorder EXCEPT !.drain = InputLatency]
<1>1. /\ booth.phase \in {"stopping", "ending"} /\ player' = player /\ air' = air
      /\ booth' = [booth EXCEPT !.phase = "flushing"]
      /\ recorder' = o.recorder /\ take' = o.take
  BY DEF FlushRecording, Both
<1>2. /\ player \in Players /\ recorder \in Recorders /\ take \in Takes /\ booth \in Booths
      /\ HeardState(player, recorder, air, booth.phase, take)
  BY InvFacts
<1>3. recorder.active /\ recorder.drain = NoDrain /\ player.known
  BY <1>1, <1>2 DEF HeardState, Control
<1>4. InputLatency \in Nat /\ InputLatency > 0 /\ NoDrain # InputLatency /\ RoundTrip \in Nat
  BY LoopFacts
<1>5. o = [recorder |-> s, take |-> take]
  BY <1>3, <1>4 DEF StartDrain, Latency
<1>6. recorder' = s /\ take' = take
  BY <1>1, <1>5
<1>7. s \in Recorders
  BY <1>2, <1>4 DEF Recorders
<1>8. /\ s.active = recorder.active /\ s.start = recorder.start /\ s.shift = recorder.shift
      /\ s.end = recorder.end /\ s.pass = recorder.pass /\ s.written = recorder.written
      /\ s.posted = recorder.posted /\ s.chunk = recorder.chunk /\ s.state = recorder.state
      /\ s.skip = recorder.skip /\ s.leadIn = recorder.leadIn /\ s.drain = InputLatency
  BY <1>2 DEF Recorders
<1> HIDE DEF o, s
<1>9. booth' \in Booths /\ booth'.phase = "flushing"
  BY <1>1, <1>2, PhaseFacts DEF Phases
<1>10. SameRecord(recorder, take, s, take)
  BY <1>8 DEF SameRecord, SameRun
<1>11. Records(s, take) /\ Samples(s, take) = Samples(recorder, take) /\ Origin(s) = Origin(recorder)
  BY <1>2, <1>10, SameRecords DEF HeardState
<1>12. Place(s) = Place(recorder) /\ Wait(s) = Wait(recorder)
  BY <1>8, <1>11 DEF Place, Wait
<1>13. Control(player, s, "flushing", take)
  BY <1>2, <1>3, <1>4, <1>8 DEF HeardState, Control
<1>14. SungRight(s, take)
  <2>1. Stays(s, take) => Stays(recorder, take)
    BY <1>8 DEF Stays
  <2> QED
    BY <1>2, <1>11, <2>1 DEF HeardState, SungRight
<1>15. SungNext(player, s, air, "flushing", take)
  <2> SUFFICES ASSUME Live(s, take), ~Muted(player, s, "flushing")
               PROVE  Aligned(player, s, air, "flushing", take)
    BY DEF SungNext
  <2>1. Live(recorder, take)
    BY <1>8 DEF Live
  <2>2. ~Muted(player, recorder, booth.phase)
    BY <1>1, <1>3, <1>4, <1>8 DEF Muted
  <2>3. AirSung(recorder, air, take)
    BY <1>2, <2>1, <2>2 DEF HeardState, SungNext, Aligned
  <2>4. AirSung(s, air, take)
    BY <1>3, <1>12, <2>3 DEF AirSung
  <2> QED
    BY <1>4, <1>8, <2>4 DEF Aligned, Rolling
<1>16. KeptNext(player, s, "flushing", take)
  <2>1. Left(s) = InputLatency /\ Left(recorder) = InputLatency
    BY <1>3, <1>4, <1>8 DEF Left
  <2>2. Owed(recorder, take) => Owed(s, take)
    BY <1>11, <1>12, <2>1 DEF Owed
  <2> QED
    BY <1>2, <1>3, <1>4, <1>8, <2>2 DEF HeardState, KeptNext, Rolling
<1> QED
  BY <1>1, <1>2, <1>6, <1>7, <1>9, <1>11, <1>13, <1>14, <1>15, <1>16 DEF HeardInv, HeardState

\* the loop is closed,
LEMMA CloseRangeStep ==
  ASSUME HeardInv, CloseRange
  PROVE  HeardInv'
<1> DEFINE ph == IF booth.phase = "on" THEN "ending" ELSE booth.phase
<1>1. /\ player.range # "none" /\ player' = [player EXCEPT !.range = "none"] /\ Counted(ph)
      /\ take' = [take EXCEPT !.closed = TRUE] /\ recorder' = recorder /\ air' = air
  BY DEF CloseRange
<1>2. /\ player \in Players /\ recorder \in Recorders /\ take \in Takes /\ booth \in Booths
      /\ booth.phase \in Phases /\ air \in Seq(Quantum) /\ Resting(player) /\ Course(player, air)
      /\ HeardState(player, recorder, air, booth.phase, take)
  BY InvFacts
<1>3. player' \in Players
  BY <1>1, <1>2 DEF Players
<1>4. /\ player'.playing = player.playing /\ player'.range = "none"
      /\ player'.known = player.known /\ player'.frame = player.frame
  BY <1>1, <1>2 DEF Players
<1>5. /\ player'.render = player.render
      /\ player'.began = player.began /\ player'.rendered = player.rendered
  BY <1>1, <1>2 DEF Players
<1>6. take' \in Takes
  BY <1>1, <1>2 DEF Takes
<1>7. /\ take'.stored = take.stored /\ take'.complete = take.complete /\ take'.still = take.still
      /\ take'.unheard = take.unheard /\ take'.try = take.try /\ take'.closed = TRUE
      /\ take'.crossed = take.crossed /\ take'.due = take.due /\ take'.ended = take.ended
  BY <1>1, <1>2 DEF Takes
<1>8. ph \in Phases
  BY <1>2 DEF Phases
<1>9. booth' \in Booths /\ booth'.phase = ph
  BY <1>1, <1>2, <1>8, PhaseFacts
<1>10. Course(player', air) /\ Way(player') = Way(player)
  BY <1>2, <1>5, CourseSame
<1>11. CASE ~recorder.active
  <2>1. booth.phase # "on"
    BY <1>2, <1>11 DEF HeardState, Control
  <2>2. Rested(recorder, take, recorder', take')
    BY <1>1, <1>2, <1>6, <1>7 DEF Rested, SameRecord, SameRun
  <2>3. Resting(player')
    BY <1>2, <1>4, <1>5 DEF Resting
  <2> QED
    BY <1>1, <1>3, <1>9, <1>10, <1>11, <2>1, <2>2, <2>3, IdleStep
<1>12. CASE recorder.active
  <2>1. take.try = recorder.pass /\ recorder.pass
    BY <1>1, <1>2, <1>12, ActiveFacts
  <2>2. Records(recorder, take') /\ Samples(recorder, take') = Samples(recorder, take)
    <3>1. SameRecord(recorder, take, recorder, take')
      BY <1>7 DEF SameRecord, SameRun
    <3> QED
      BY <1>2, <3>1, SameRecords DEF HeardState
  <2>3. Control(player', recorder, ph, take')
    BY <1>2, <1>4, <1>5, <1>7, <1>12, <2>1 DEF HeardState, Control
  <2>4. ~Clear(take')
    BY <1>7, <2>1 DEF Clear
  <2>5. SungRight(recorder, take') /\ SungNext(player', recorder, air, ph, take')
    BY <2>4 DEF SungRight, Stays, SungNext, Live
  <2>6. KeptNext(player', recorder, ph, take')
    <3>1. Ahead(player, recorder, booth.phase) => Ahead(player', recorder, ph)
      <4>1. \A i : Heard(player', recorder, i) = Heard(player, recorder, i)
        BY <1>10 DEF Heard
      <4>2. \A i : AheadAt(player, recorder, booth.phase, i) => AheadAt(player', recorder, ph, i)
        BY <1>10, <4>1 DEF AheadAt
      <4> QED
        BY <1>10, <4>1, <4>2 DEF Ahead
    <3>2. Owed(recorder, take) => Owed(recorder, take')
      BY <1>7 DEF Owed
    <3>3. Rolling(player', recorder, ph) => Rolling(player, recorder, booth.phase)
      BY <1>4 DEF Rolling
    <3>4. KeptNext(player, recorder, booth.phase, take)
      BY <1>2 DEF HeardState
    <3> QED
      BY <1>7, <3>1, <3>2, <3>3, <3>4 DEF KeptNext
  <2> HIDE DEF ph
  <2>7. HeardState(player', recorder', air', ph, take')
    BY <1>1, <1>2, <1>3, <1>6, <1>10, <2>2, <2>3, <2>5, <2>6 DEF HeardState
  <2> QED
    BY <1>9, <2>7 DEF HeardInv
<1> QED
  BY <1>11, <1>12

\* What a seek leaves of the history of the take.
Sought(t, u) ==
    /\ u \in Takes /\ u.stored = t.stored /\ u.complete = t.complete /\ u.try = t.try
    /\ u.closed = t.closed /\ u.crossed = t.crossed /\ u.ended = t.ended
    /\ u.due = {} /\ u.still = FALSE /\ u.unheard = 0

\* A seek forgets what was due.
LEMMA SoughtFacts ==
  ASSUME NEW t \in Takes
  PROVE  Sought(t, [t EXCEPT !.due = {}, !.still = FALSE, !.unheard = 0])
<1> DEFINE u == [t EXCEPT !.due = {}, !.still = FALSE, !.unheard = 0]
<1>1. u \in Takes
  BY DEF Takes
<1>2. /\ u.stored = t.stored /\ u.complete = t.complete /\ u.try = t.try
      /\ u.closed = t.closed /\ u.crossed = t.crossed
  BY DEF Takes
<1>3. u.ended = t.ended /\ u.due = {} /\ u.still = FALSE /\ u.unheard = 0
  BY DEF Takes
<1> QED
  BY <1>1, <1>2, <1>3 DEF Sought

\* A seek while the take is drained: the take ends.
LEMMA SeekDrained ==
  ASSUME NEW p, NEW r, NEW a, NEW ph \in Phases, NEW t, HeardState(p, r, a, ph, t),
         r.active, r.drain # NoDrain, NEW s, NEW w, Ended(r, t, s, w), NEW u, Sought(w, u),
         NEW q \in Players, SamePlay(p, q), Course(q, a), Resting(q)
  PROVE  HeardState(q, s, a, ph, u)
<1>1. /\ r \in Recorders /\ t \in Takes /\ Records(r, t) /\ SungRight(r, t)
      /\ a \in Seq(Quantum) /\ Len(a) <= RoundTrip
  BY DEF HeardState
<1>2. ph = "flushing"
  BY ActiveFacts
<1>3. /\ s \in Recorders /\ s.active = FALSE /\ s.drain = NoDrain /\ SameTake(t, w)
      /\ w.complete = t.complete /\ Samples(s, w) = Samples(r, t)
  BY DEF Ended
<1>4. /\ u \in Takes /\ u.stored = w.stored /\ u.complete = w.complete /\ u.try = w.try
      /\ u.closed = w.closed /\ u.crossed = w.crossed /\ u.due = {}
  BY DEF Sought
<1>5. Records(s, w)
  BY <1>1, RecordsEnded
<1>6. Records(s, u) /\ Samples(s, u) = Samples(s, w)
  <2>1. SameRecord(s, w, s, u)
    BY <1>4 DEF SameRecord, SameRun
  <2> QED
    BY <1>5, <2>1, SameRecords
<1>7. SungRight(s, w)
  BY <1>1, <1>3, SungRightSame
<1>8. SungRight(s, u)
  <2>1. Stays(s, u) => Stays(s, w)
    BY <1>4 DEF Stays, Clear
  <2> QED
    BY <1>4, <1>6, <1>7, <2>1 DEF SungRight
<1>9. Control(q, s, ph, u)
  BY <1>2, <1>3 DEF Control, Resting
<1>10. SungNext(q, s, a, ph, u) /\ KeptNext(q, s, ph, u)
  BY <1>3, <1>4 DEF SungNext, Live, KeptNext
<1> QED
  BY <1>1, <1>3, <1>4, <1>6, <1>8, <1>9, <1>10 DEF HeardState

\* A seek ends a try.
LEMMA SeekTry ==
  ASSUME NEW p, NEW r, NEW a, NEW ph \in Phases, NEW t, HeardState(p, r, a, ph, t),
         r.active, r.drain = NoDrain, r.pass,
         NEW o, o = EndPass(r, t, FALSE), NEW u, Sought(o.take, u),
         NEW q \in Players, SamePlay(p, q), Course(q, a), Resting(q)
  PROVE  HeardState(q, o.recorder, a, ph, u)
<1> DEFINE s == o.recorder
           w == o.take
<1>1. /\ r \in Recorders /\ t \in Takes /\ Records(r, t) /\ SungRight(r, t) /\ Control(p, r, ph, t)
      /\ a \in Seq(Quantum) /\ Len(a) <= RoundTrip /\ KeptNext(p, r, ph, t)
  BY DEF HeardState
<1>2. t.try /\ Try(r, t) /\ ~t.ended /\ Tallied(r)
  BY <1>1, ActiveFacts DEF Records
<1>3. /\ s \in Recorders /\ w \in Takes /\ s.state = "ended" /\ s.drain = NoDrain /\ s.active
      /\ SameRun(r, s) /\ s.skip = r.skip /\ s.leadIn = r.leadIn
      /\ w.try = t.try /\ w.closed = t.closed /\ w.crossed = t.crossed /\ w.ended = t.ended
      /\ Records(s, w) /\ Samples(s, w) = Samples(r, t)
      /\ w.complete = t.complete /\ (w.complete => s.state = r.state)
  <2>1. CASE r.state = "ended"
    <3>1. s = r /\ w = t
      BY <2>1 DEF EndPass
    <3> QED
      BY <1>1, <2>1, <3>1 DEF SameRun
  <2>2. CASE r.state # "ended"
    <3> DEFINE e == [r EXCEPT !.state = "ended"]
               f == FlushBuffer(e, t)
               z == f.take
    <3>1. e \in Recorders
      BY <1>1 DEF Recorders
    <3>2. /\ e.active = r.active /\ e.start = r.start /\ e.shift = r.shift /\ e.end = r.end
          /\ e.pass = r.pass /\ e.written = r.written /\ e.posted = r.posted /\ e.chunk = r.chunk
      BY <1>1 DEF Recorders
    <3>3. e.state = "ended" /\ e.drain = r.drain /\ e.skip = r.skip /\ e.leadIn = r.leadIn
      BY <1>1 DEF Recorders
    <3>4. o = [f EXCEPT !.take.complete = FALSE]
      BY <2>2 DEF EndPass
    <3> HIDE DEF e
    <3>5. Tallied(e) /\ Samples(e, t) = Samples(r, t)
      BY <1>2, <3>2 DEF Tallied, Samples, Placed
    <3>6. Flushed(e, t, f)
      BY <1>1, <3>1, <3>2, <3>5, FlushFacts
    <3> HIDE DEF f
    <3>7. /\ f.recorder \in Recorders /\ f.take \in Takes /\ Tallied(f.recorder)
          /\ f.recorder = [e EXCEPT !.chunk = <<>>, !.posted = e.written]
          /\ f.take = [t EXCEPT !.stored = Samples(e, t)]
          /\ Samples(f.recorder, f.take) = Samples(e, t)
          /\ f = [recorder |-> f.recorder, take |-> f.take]
      BY <3>6 DEF Flushed
    <3>8. s = f.recorder /\ w = [z EXCEPT !.complete = FALSE]
      BY <3>4, <3>7
    <3> DEFINE y == [e EXCEPT !.chunk = <<>>, !.posted = e.written]
    <3>20. s = y
      BY <3>7, <3>8
    <3>9. /\ s.active = e.active /\ s.start = e.start /\ s.shift = e.shift /\ s.end = e.end
          /\ s.pass = e.pass /\ s.written = e.written /\ s.state = e.state
      <4>1. /\ y.active = e.active /\ y.start = e.start /\ y.shift = e.shift /\ y.end = e.end
            /\ y.pass = e.pass /\ y.written = e.written /\ y.state = e.state
        BY <3>1 DEF Recorders
      <4> QED
        BY <3>20, <4>1
    <3>10. s.drain = e.drain /\ s.skip = e.skip /\ s.leadIn = e.leadIn /\ s.chunk = <<>>
      <4>1. y.drain = e.drain /\ y.skip = e.skip /\ y.leadIn = e.leadIn /\ y.chunk = <<>>
        BY <3>1 DEF Recorders
      <4> QED
        BY <3>20, <4>1
    <3> HIDE DEF y
    <3>11. /\ z.try = t.try /\ z.closed = t.closed /\ z.crossed = t.crossed
           /\ z.ended = t.ended /\ z.complete = t.complete
      BY <1>1, <3>7 DEF Takes
    <3>12. ~t.complete
      BY <1>2, <2>2 DEF Try
    <3>13. z \in Takes /\ t.complete = FALSE
      BY <1>1, <3>7, <3>12, TakeTypes
    <3> HIDE DEF z
    <3>14. w = z
      <4>1. z = [z EXCEPT !.complete = z.complete]
        BY <3>13 DEF Takes
      <4> QED
        BY <3>8, <3>11, <3>13, <4>1
    <3>15. SameRun(r, s) /\ Origin(s) = Origin(r) /\ Tallied(s) /\ Samples(s, w) = Samples(r, t)
      BY <3>2, <3>5, <3>7, <3>8, <3>9, <3>14 DEF SameRun, Origin, z
    <3>16. Whole(s, w) /\ Try(s, w)
      <4>1. Whole(r, t)
        BY <1>1 DEF Records
      <4>2. Whole(s, w)
        BY <3>2, <3>9, <3>15, <4>1 DEF Whole
      <4>3. Try(s, w)
        BY <1>2, <3>2, <3>3, <3>9, <3>10, <3>15 DEF Try
      <4> QED
        BY <4>2, <4>3
    <3>17. Records(s, w)
      BY <1>2, <3>2, <3>9, <3>11, <3>12, <3>14, <3>15, <3>16 DEF Records
    <3> QED
      BY <3>2, <3>3, <3>7, <3>8, <3>9, <3>10, <3>11, <3>12, <3>13, <3>14, <3>15, <3>17
  <2> QED
    BY <2>1, <2>2
<1> HIDE DEF s, w
<1>4. /\ u \in Takes /\ u.stored = w.stored /\ u.complete = w.complete /\ u.try = w.try
      /\ u.closed = w.closed /\ u.crossed = w.crossed /\ u.due = {} /\ u.ended = w.ended
  BY DEF Sought, w
<1>5. Records(s, u) /\ Samples(s, u) = Samples(s, w)
  <2>1. SameRecord(s, w, s, u)
    BY <1>4 DEF SameRecord, SameRun
  <2> QED
    BY <1>3, <2>1, SameRecords
<1>6. SungRight(s, u)
  <2>1. Stays(s, u) => Stays(r, t)
    BY <1>2, <1>3, <1>4 DEF Stays, Clear
  <2> QED
    BY <1>1, <1>3, <1>4, <1>5, <2>1 DEF SungRight
<1>7. SamePlay(p, q) /\ q.playing = p.playing /\ q.range = p.range /\ q.known = p.known
  BY DEF SamePlay
<1>8. Control(q, s, ph, u)
  BY <1>1, <1>3, <1>4, <1>7 DEF Control, Resting, SameRun
<1>9. SungNext(q, s, a, ph, u)
  BY <1>3 DEF SungNext, Live
<1>10. KeptNext(q, s, ph, u)
  BY <1>2, <1>3, <1>4 DEF KeptNext
<1>11. HeardState(q, s, a, ph, u)
  BY <1>1, <1>3, <1>4, <1>5, <1>6, <1>8, <1>9, <1>10 DEF HeardState
<1> QED
  BY <1>11 DEF s

\* A run that begins where the player does.
LEMMA FreshRun ==
  ASSUME NEW q \in Players, q.known, q.rendered = <<>>,
         NEW frame \in Nat, q.render = frame,
         NEW e \in Recorders, e.skip = InputLatency,
         e.pass => frame = FromFrame /\ q.range = "cycle",
         NEW s, Begun(q, e, frame, s),
         NEW u, u.unheard = 0, u.due = {}, u.try \in BOOLEAN,
         NEW a \in Seq(Quantum), Len(a) <= RoundTrip, NEW ph
  PROVE  /\ s.skip = InputLatency /\ s.leadIn >= OutputLatency
         /\ Aligned(q, s, a, ph, u) /\ Owed(s, u) /\ Ahead(q, s, ph)
<1>1. /\ OutputLatency \in Nat /\ InputLatency \in Nat /\ RoundTrip = OutputLatency + InputLatency
      /\ RoundTrip \in Nat /\ FromFrame \in Nat
  BY LoopFacts
<1>2. PendingOutput(q) = OutputLatency
  <2>1. Len(q.rendered) = 0
    OBVIOUS
  <2>2. Len(q.rendered) <= OutputLatency
    BY <1>1, <2>1
  <2>3. /\ ~q.playing => PendingOutput(q) = OutputLatency
        /\ q.playing => PendingOutput(q) = OutputLatency - Len(q.rendered)
    BY <2>2, PendingFacts
  <2> QED
    BY <1>1, <2>1, <2>3
<1>3. /\ s \in Recorders /\ s.skip = InputLatency /\ s.pass = e.pass /\ s.written = 0
      /\ s.start - s.leadIn = frame - OutputLatency /\ s.leadIn >= OutputLatency
      /\ InPass(q, e) => s.shift = FindPass(frame) /\ Origin(s) = FromFrame
      /\ ~InPass(q, e) => s.shift = 0 /\ s.start = frame
  BY <1>2 DEF Begun
<1>4. /\ s.start \in Nat /\ s.shift \in Nat /\ s.leadIn \in Nat /\ e.pass \in BOOLEAN
      /\ Origin(s) = s.start - s.shift /\ Wait(s) = InputLatency + s.leadIn
      /\ Place(s) = (Origin(s) + 0) - Wait(s) /\ Wait(s) \in Nat /\ Place(s) \in Int
  BY <1>3, RecorderTypes DEF Origin
<1>5. s.shift = 0 /\ s.start = frame
  <2>1. CASE e.pass
    <3>1. InPass(q, e) /\ frame = FromFrame
      BY <2>1 DEF InPass
    <3>2. FindPass(frame) \in Nat /\ (FindPass(frame) > 0 => frame > FromFrame)
      BY FindPassFacts
    <3> QED
      BY <1>1, <1>3, <1>4, <3>1, <3>2
  <2>2. CASE ~e.pass
    BY <1>3, <2>2 DEF InPass
  <2> QED
    BY <2>1, <2>2
<1>6. Place(s) + RoundTrip = frame
  BY <1>1, <1>3, <1>4, <1>5
<1>7. Wait(s) >= RoundTrip
  BY <1>1, <1>3, <1>4
<1>8. AirSung(s, a, u)
  BY <1>3, <1>7, AirSungNone
<1>9. Aligned(q, s, a, ph, u)
  <2>1. (Place(s) + RoundTrip) - u.unheard = q.render
    BY <1>6
  <2>2. q.render \in Int
    OBVIOUS
  <2>3. At(u.try, q.render, q.render)
    BY <2>2, AtFacts
  <2> QED
    BY <1>8, <2>1, <2>3 DEF Aligned
<1>10. Owed(s, u)
  BY DEF Owed
<1>11. /\ Len(Way(q)) = 1 /\ Way(q)[1] = frame
  <2>1. /\ Len(q.rendered) = 0
    OBVIOUS
  <2>2. Len(Way(q)) = Len(q.rendered) + 1 /\ Way(q)[Len(Way(q))] = q.render
    BY WayFacts
  <2>3. Len(Way(q)) = 1
    BY <2>1, <2>2
  <2> QED
    BY <2>2, <2>3
<1>12. Heard(q, s, 1) = frame
  BY <1>4, <1>6, <1>11, <1>1 DEF Heard
<1>13. Ahead(q, s, ph)
  <2>1. AheadAt(q, s, ph, 1)
    <3>1. At(s.pass, frame, frame)
      BY <1>3, <1>4, AtFacts
    <3>2. s.pass => frame >= FromFrame
      BY <1>1, <1>3
    <3> QED
      BY <1>11, <1>12, <3>1, <3>2 DEF AheadAt
  <2>2. \A i \in 1..Len(Way(q)) : i = 1
    BY <1>11
  <2> QED
    BY <1>5, <1>12, <2>1, <2>2 DEF Ahead
<1> QED
  BY <1>3, <1>9, <1>10, <1>13

\* A seek begins a new run of the take.
LEMMA SeekRun ==
  ASSUME NEW p, NEW r, NEW a, NEW ph \in Phases, NEW t, HeardState(p, r, a, ph, t),
         r.active, r.drain = NoDrain, ~r.pass,
         NEW frame \in Nat, NEW q, Begins(p, frame, q), Course(q, a), Resting(q),
         NEW f, Flushed(r, t, f), NEW e, e = ResetInput(q, f.recorder),
         NEW s, s = StartRun(q, e, frame), NEW u, Sought(f.take, u)
  PROVE  HeardState(q, s, a, ph, u)
<1> DEFINE w == f.take
           z == f.recorder
<1>1. /\ p \in Players /\ r \in Recorders /\ t \in Takes /\ Records(r, t) /\ SungRight(r, t)
      /\ Control(p, r, ph, t) /\ a \in Seq(Quantum) /\ Len(a) <= RoundTrip
  BY DEF HeardState
<1>2. /\ ~t.ended /\ p.known /\ t.try = r.pass /\ p.range = "none" /\ Tallied(r)
  BY ActiveFacts
<1>3. /\ q \in Players /\ SamePlay(p, q) /\ q.render = frame /\ q.rendered = <<>>
      /\ q.known /\ q.range = "none" /\ q.playing = p.playing
  BY <1>2 DEF Begins, SamePlay
<1>4. /\ z \in Recorders /\ w \in Takes
      /\ z = [r EXCEPT !.chunk = <<>>, !.posted = r.written]
      /\ w = [t EXCEPT !.stored = Samples(r, t)]
      /\ Samples(z, w) = Samples(r, t)
  BY DEF Flushed
<1>5. /\ w.try = t.try /\ w.closed = t.closed /\ w.crossed = t.crossed /\ w.ended = t.ended
      /\ w.complete = t.complete /\ w.stored = Samples(r, t)
  <2> DEFINE y == [t EXCEPT !.stored = Samples(r, t)]
  <2>1. /\ y.try = t.try /\ y.closed = t.closed /\ y.crossed = t.crossed /\ y.ended = t.ended
        /\ y.complete = t.complete /\ y.stored = Samples(r, t)
    BY <1>1 DEF Takes
  <2> QED
    BY <1>4, <2>1
<1>6. /\ z.active = r.active /\ z.pass = r.pass /\ z.state = r.state /\ z.drain = r.drain
      /\ z.chunk = <<>>
  <2> DEFINE y == [r EXCEPT !.chunk = <<>>, !.posted = r.written]
  <2>1. /\ y.active = r.active /\ y.pass = r.pass /\ y.state = r.state /\ y.drain = r.drain
        /\ y.chunk = <<>>
    BY <1>1 DEF Recorders
  <2> QED
    BY <1>4, <2>1
<1> HIDE DEF w, z
<1>7. /\ e \in Recorders /\ e.skip = InputLatency /\ e.active = r.active /\ e.pass = r.pass
      /\ e.state = r.state /\ e.drain = r.drain /\ e.chunk = <<>>
  <2>1. e = ResetInput(q, z)
    BY DEF z
  <2> QED
    <3>1. /\ e \in Recorders /\ e.active = z.active /\ e.pass = z.pass /\ e.state = z.state
          /\ e.drain = z.drain /\ e.chunk = z.chunk
      <4>1. z \in Recorders
        BY <1>4
      <4> QED
        BY <2>1, <4>1, ResetFacts
    <3>2. e.skip = InputLatency
      <4>1. z \in Recorders
        BY <1>4
      <4> QED
        BY <1>3, <2>1, <4>1, ResetFacts
    <3> QED
      BY <1>6, <3>1, <3>2
<1>8. Len(q.rendered) <= OutputLatency
  <2>1. Len(q.rendered) = 0
    BY <1>3
  <2> QED
    BY <2>1, LoopFacts
<1>9. Begun(q, e, frame, s)
  BY <1>3, <1>7, <1>8, RunFacts
<1>10. /\ u \in Takes /\ u.stored = w.stored /\ u.complete = w.complete /\ u.try = w.try
       /\ u.closed = w.closed /\ u.crossed = w.crossed /\ u.due = {} /\ u.ended = w.ended
       /\ u.unheard = 0
  BY DEF Sought, w
<1>11. /\ s \in Recorders /\ s.active = r.active /\ s.chunk = <<>> /\ s.pass = r.pass
       /\ s.state = r.state /\ s.drain = NoDrain /\ s.written = 0 /\ s.posted = 0
       /\ s.shift = 0 /\ s.end = Endless
  BY <1>7, <1>9 DEF Begun, InPass
<1>12. /\ s.skip = InputLatency /\ s.leadIn >= OutputLatency
       /\ Aligned(q, s, a, ph, u) /\ Owed(s, u) /\ Ahead(q, s, ph)
  <2>1. u.try \in BOOLEAN
    BY <1>10, TakeTypes
  <2> QED
    BY <1>1, <1>3, <1>7, <1>9, <1>10, <2>1, FreshRun
<1>13. Samples(s, u) = Samples(r, t)
  <2>1. Placed(s) = {}
    BY <1>11, PlacedFacts
  <2> QED
    BY <1>5, <1>10, <2>1 DEF Samples
<1>14. Records(s, u)
  <2>1. Tallied(s)
    BY <1>11 DEF Tallied
  <2>2. Whole(s, u)
    BY <1>11 DEF Whole
  <2>3. r.state # "ended" /\ ~t.complete
    BY <1>1 DEF Records
  <2> QED
    BY <1>2, <1>5, <1>10, <1>11, <2>1, <2>2, <2>3 DEF Records
<1>15. SungRight(s, u)
  <2>1. Stays(s, u) => Stays(r, t)
    BY <1>5, <1>10, <1>11 DEF Stays, Clear
  <2> QED
    BY <1>1, <1>5, <1>10, <1>13, <2>1 DEF SungRight
<1>16. Control(q, s, ph, u)
  BY <1>1, <1>2, <1>3, <1>5, <1>10, <1>11, <1>12 DEF Control, Resting
<1>17. SungNext(q, s, a, ph, u)
  BY <1>12 DEF SungNext
<1>18. KeptNext(q, s, ph, u)
  BY <1>2, <1>5, <1>10, <1>12 DEF KeptNext
<1> QED
  BY <1>1, <1>3, <1>10, <1>11, <1>14, <1>15, <1>16, <1>17, <1>18 DEF HeardState

\* What a message gives for the recording and for the take.
Pair(o) == DOMAIN o = {"recorder", "take"}

\* The ends of a stream and of a pass are such.
LEMMA PairFacts ==
  ASSUME NEW r, NEW t
  PROVE  Pair(EndStream([recorder |-> r, take |-> t])) /\ Pair(EndPass(r, t, FALSE))
<1>1. ASSUME NEW x, NEW y PROVE Pair([recorder |-> x, take |-> y])
  BY DEF Pair
<1>3. ASSUME NEW f, Pair(f)
      PROVE  Pair([f EXCEPT !.recorder.active = FALSE, !.recorder.pass = FALSE,
                            !.recorder.shift = 0, !.recorder.end = Endless,
                            !.recorder.drain = NoDrain, !.take.ended = TRUE])
  BY <1>3 DEF Pair
<1>4. ASSUME NEW x, NEW y PROVE Pair(FlushBuffer(x, y))
  <2> DEFINE c == [x EXCEPT !.chunk = <<>>, !.posted = IF x.chunk = <<>> THEN @ ELSE x.written]
             d == IF x.active THEN [y EXCEPT !.stored = @ \cup Placed(x)] ELSE y
  <2>1. FlushBuffer(x, y) = [recorder |-> c, take |-> d]
    BY DEF FlushBuffer
  <2> HIDE DEF c, d
  <2> QED
    BY <1>1, <2>1
<1>5. Pair(EndStream([recorder |-> r, take |-> t]))
  <2> DEFINE f == FlushBuffer(r, t)
  <2>1. Pair(f)
    BY <1>4
  <2>2. EndStream([recorder |-> r, take |-> t]) =
          [f EXCEPT !.recorder.active = FALSE, !.recorder.pass = FALSE,
                    !.recorder.shift = 0, !.recorder.end = Endless,
                    !.recorder.drain = NoDrain, !.take.ended = TRUE]
    BY DEF EndStream
  <2> HIDE DEF f
  <2> QED
    BY <1>3, <2>1, <2>2
<1>6. Pair(EndPass(r, t, FALSE))
  <2> DEFINE f == FlushBuffer([r EXCEPT !.state = "ended"], t)
  <2>1. Pair(f)
    BY <1>4
  <2>2. EndPass(r, t, FALSE) = [recorder |-> r, take |-> t]
          \/ EndPass(r, t, FALSE) = [f EXCEPT !.take.complete = FALSE]
    BY DEF EndPass
  <2> HIDE DEF f
  <2>3. Pair([f EXCEPT !.take.complete = FALSE])
    BY <2>1 DEF Pair
  <2> QED
    BY <1>1, <2>2, <2>3
<1> QED
  BY <1>5, <1>6

\* and the song is sought.
LEMMA SeekSongStep ==
  ASSUME HeardInv, SeekSong
  PROVE  HeardInv'
<1>1. PICK frame \in {0, ToFrame, FromFrame, ToFrame - 1} : SeekTo(player, frame)
  BY DEF SeekSong
<1>2. frame \in Nat
  BY LoopFacts
<1> DEFINE q == Begin(player, frame)
           h == HandleSeek(q, recorder, take, frame)
           f == FlushBuffer(recorder, take)
<1>3. /\ HeardState(player, recorder, air, booth.phase, take)
      /\ player \in Players /\ recorder \in Recorders /\ take \in Takes /\ booth \in Booths
      /\ booth.phase \in Phases /\ air \in Seq(Quantum) /\ Len(air) <= RoundTrip
  BY InvFacts
<1>4. air' = air /\ Counted(booth.phase)
  BY DEF SeekSong
<1>5. booth' \in Booths /\ booth'.phase = booth.phase
  BY <1>3, <1>4, PhaseFacts
<1>6. Begins(player, frame, q)
  BY <1>2, <1>3, BeginFacts
<1>7. /\ player' = q
      /\ recorder.active => Both([h EXCEPT !.take.due = {}, !.take.still = FALSE, !.take.unheard = 0])
      /\ ~recorder.active => recorder' = recorder /\ take' = take
  BY <1>1 DEF SeekTo, Both, Unchanged
<1>8. /\ recorder.drain # NoDrain => h = EndStream([recorder |-> recorder, take |-> take])
      /\ recorder.drain = NoDrain /\ recorder.pass => h = EndPass(recorder, take, FALSE)
      /\ recorder.drain = NoDrain /\ ~recorder.pass =>
           h = [f EXCEPT !.recorder = StartRun(q, ResetInput(q, @), frame)]
  BY DEF HandleSeek
<1> HIDE DEF q, h, f
<1>9. /\ q \in Players /\ SamePlay(player, q) /\ Resting(q) /\ Course(q, air)
  <2>1. /\ q \in Players /\ SamePlay(player, q) /\ q.frame = frame /\ q.render = frame
        /\ q.began = frame /\ q.rendered = <<>>
    BY <1>6 DEF Begins
  <2> QED
    BY <1>3, <2>1, CourseBegun DEF Resting
<1>10. CASE ~recorder.active
  <2>1. Rested(recorder, take, recorder', take')
    BY <1>3, <1>7, <1>10 DEF Rested, SameRecord, SameRun
  <2> QED
    BY <1>4, <1>5, <1>7, <1>9, <1>10, <2>1, IdleStep
<1>11. ASSUME recorder.active, Pair(h)
       PROVE  /\ recorder' = h.recorder
              /\ take' = [h.take EXCEPT !.due = {}, !.still = FALSE, !.unheard = 0]
  <2> DEFINE g == [h EXCEPT !.take.due = {}, !.take.still = FALSE, !.take.unheard = 0]
  <2>1. DOMAIN h = {"recorder", "take"}
    BY <1>11 DEF Pair
  <2>2. Both([h EXCEPT !.take.due = {}, !.take.still = FALSE, !.take.unheard = 0])
    BY <1>7, <1>11
  <2>3. /\ g.recorder = h.recorder
        /\ g.take = [h.take EXCEPT !.due = {}, !.still = FALSE, !.unheard = 0]
    BY <2>1
  <2> HIDE DEF g
  <2> QED
    BY <2>2, <2>3 DEF Both, g
<1>12. recorder.active => Tallied(recorder)
  BY <1>3, ActiveFacts
<1>13. CASE recorder.active /\ recorder.drain # NoDrain
  <2>1. h = EndStream([recorder |-> recorder, take |-> take])
    BY <1>8, <1>13
  <2>2. Pair(h)
    BY <2>1, PairFacts
  <2>3. Ended(recorder, take, h.recorder, h.take)
    BY <1>3, <1>12, <1>13, <2>1, EndFacts
  <2>4. h.take \in Takes
    BY <2>3 DEF Ended
  <2>5. Sought(h.take, take') /\ recorder' = h.recorder
    BY <1>11, <1>13, <2>2, <2>4, SoughtFacts
  <2>6. HeardState(q, recorder', air, booth.phase, take')
    BY <1>3, <1>9, <1>13, <2>3, <2>5, SeekDrained
  <2> QED
    BY <1>4, <1>5, <1>7, <2>6 DEF HeardInv
<1>14. CASE recorder.active /\ recorder.drain = NoDrain /\ recorder.pass
  <2>1. h = EndPass(recorder, take, FALSE)
    BY <1>8, <1>14
  <2>2. Pair(h)
    BY <2>1, PairFacts
  <2>3. h.take \in Takes
    <3>1. CASE recorder.state = "ended"
      <4>1. h = [recorder |-> recorder, take |-> take]
        BY <2>1, <3>1 DEF EndPass
      <4> QED
        BY <1>3, <4>1
    <3>2. CASE recorder.state # "ended"
      <4> DEFINE e == [recorder EXCEPT !.state = "ended"]
                 g == FlushBuffer(e, take)
                 z == g.take
      <4>1. e \in Recorders /\ e.active /\ Tallied(e)
        <5>1. e \in Recorders
          BY <1>3 DEF Recorders
        <5>2. /\ e.active = recorder.active /\ e.posted = recorder.posted
              /\ e.chunk = recorder.chunk /\ e.written = recorder.written
          BY <1>3 DEF Recorders
        <5> QED
          BY <1>12, <1>14, <5>1, <5>2 DEF Tallied
      <4>2. h = [g EXCEPT !.take.complete = FALSE]
        BY <1>14, <2>1, <3>2 DEF EndPass
      <4> HIDE DEF e
      <4>3. Flushed(e, take, g)
        BY <1>3, <4>1, FlushFacts
      <4> HIDE DEF g
      <4>4. g.take \in Takes /\ g = [recorder |-> g.recorder, take |-> g.take]
        BY <4>3 DEF Flushed
      <4>5. h.take = [z EXCEPT !.complete = FALSE]
        BY <4>2, <4>4
      <4>6. z \in Takes
        BY <4>4
      <4> HIDE DEF z
      <4>7. [z EXCEPT !.complete = FALSE] \in Takes
        BY <4>6 DEF Takes
      <4> QED
        BY <4>5, <4>7
    <3> QED
      BY <3>1, <3>2
  <2>4. Sought(h.take, take') /\ recorder' = h.recorder
    BY <1>11, <1>14, <2>2, <2>3, SoughtFacts
  <2>5. HeardState(q, recorder', air, booth.phase, take')
    BY <1>3, <1>9, <1>14, <2>1, <2>4, SeekTry
  <2> QED
    BY <1>4, <1>5, <1>7, <2>5 DEF HeardInv
<1>15. CASE recorder.active /\ recorder.drain = NoDrain /\ ~recorder.pass
  <2>1. Flushed(recorder, take, f)
    BY <1>3, <1>12, <1>15, FlushFacts DEF f
  <2> DEFINE x == f.recorder
             y == f.take
             e == ResetInput(q, x)
             s == StartRun(q, e, frame)
  <2>2. f = [recorder |-> x, take |-> y] /\ y \in Takes
    BY <2>1 DEF Flushed
  <2>3. h = [f EXCEPT !.recorder = s]
    BY <1>8, <1>15
  <2> HIDE DEF s
  <2>4. h = [recorder |-> s, take |-> y]
    BY <2>2, <2>3
  <2>5. h.recorder = s /\ h.take = y /\ Pair(h)
    BY <2>4 DEF Pair
  <2>6. Sought(f.take, take') /\ recorder' = s
    BY <1>11, <1>15, <2>2, <2>5, SoughtFacts
  <2>7. HeardState(q, recorder', air, booth.phase, take')
    BY <1>2, <1>3, <1>6, <1>9, <1>15, <2>1, <2>6, SeekRun DEF s
  <2> QED
    BY <1>4, <1>5, <1>7, <2>7 DEF HeardInv
<1> QED
  BY <1>10, <1>13, <1>14, <1>15

-----------------------------------------------------------------------------
(* The take begins.                                                        *)

\* The air when a take begins: what was held is heard late.
Marked(a, b) ==
    /\ a \in Seq(Quantum) /\ b \in Seq(Quantum) /\ Len(b) = Len(a)
    /\ \A i \in 1..Len(a) : b[i].frame = a[i].frame /\ b[i].held = a[i].held
    /\ \A i \in Int : HeldFrom(b, i) = HeldFrom(a, i) /\ DropFrom(b, i) = HeldFrom(a, i)

\* The quanta of the air are marked.
LEMMA MarkFacts ==
  ASSUME NEW a \in Seq(Quantum),
         NEW b, b = [i \in DOMAIN a |-> [a[i] EXCEPT !.dropped = a[i].held]]
  PROVE  Marked(a, b)
<1>1. DOMAIN a = 1..Len(a) /\ Len(a) \in Nat /\ \A i \in 1..Len(a) : a[i] \in Quantum
  OBVIOUS
<1>2. \A i \in 1..Len(a) : b[i] = [a[i] EXCEPT !.dropped = a[i].held]
  BY <1>1
<1>3. ASSUME NEW i \in 1..Len(a)
      PROVE  /\ b[i] \in Quantum /\ b[i].frame = a[i].frame /\ b[i].held = a[i].held
             /\ b[i].dropped = a[i].held
  <2> DEFINE x == a[i]
             y == [x EXCEPT !.dropped = x.held]
  <2>1. x \in Quantum /\ b[i] = y
    BY <1>1, <1>2
  <2> HIDE DEF x
  <2>2. y \in Quantum /\ y.frame = x.frame /\ y.held = x.held /\ y.dropped = x.held
    BY <2>1 DEF Quantum
  <2> QED
    BY <2>1, <2>2 DEF x
<1>4. b \in [1..Len(a) -> Quantum]
  BY <1>1, <1>3
<1>5. b \in Seq(Quantum) /\ Len(b) = Len(a) /\ DOMAIN b = 1..Len(a)
  BY <1>1, <1>4
<1>6. {j \in DOMAIN b : b[j].held} = {j \in DOMAIN a : a[j].held}
      /\ {j \in DOMAIN b : b[j].dropped} = {j \in DOMAIN a : a[j].held}
  BY <1>1, <1>3, <1>5
<1> QED
  BY <1>3, <1>5, <1>6 DEF Marked, HeldFrom, DropFrom

\* The way is read from them as before.
LEMMA MarkedCourse ==
  ASSUME NEW p \in Players, NEW a, NEW b, Marked(a, b), Course(p, a)
  PROVE  Course(p, b)
<1> DEFINE h == Way(p)
<1>1. Len(b) = Len(a) /\ Base(h, b) = Base(h, a)
  BY DEF Marked, Base
<1>2. Chained(h, a) /\ Len(h) \in Nat /\ Len(a) \in Nat
  BY WayFacts DEF Course, Marked
<1> HIDE DEF h
<1>3. Base(h, a) \in Int
  BY <1>2 DEF Base
<1>4. \A i, j \in 1..Len(h) : Reach(h, b, i, j) = Reach(h, a, i, j)
  BY <1>1, <1>2, <1>3 DEF Reach, Marked
<1>5. \A i \in 1..(Len(h) - 1) : b[Base(h, b) + i].frame = a[Base(h, a) + i].frame
  <2> SUFFICES ASSUME NEW i \in 1..(Len(h) - 1)
               PROVE  b[Base(h, b) + i].frame = a[Base(h, a) + i].frame
    OBVIOUS
  <2>1. Base(h, a) + i \in 1..Len(a)
    BY <1>2 DEF Base, Chained
  <2> QED
    BY <1>1, <2>1 DEF Marked
<1>6. Chained(h, b)
  BY <1>1, <1>2, <1>4, <1>5 DEF Chained
<1> QED
  BY <1>6 DEF Course, h

\* How much of the song is held in the air.
LEMMA HeldFacts ==
  ASSUME air \in Seq(Quantum), Len(air) <= RoundTrip
  PROVE  /\ \A n \in Nat : Held(n) = HeldFrom(air, (Len(air) - n) + 1)
         /\ ~(Held(RoundTrip) > 0) => \A i \in Int : HeldFrom(air, i) = 0
<1> DEFINE M == {i \in DOMAIN air : air[i].held}
<1>1. /\ Len(air) \in Nat /\ DOMAIN air = 1..Len(air) /\ RoundTrip \in Nat /\ M \in SUBSET (1..Len(air))
  BY LoopFacts
<1>2. ASSUME NEW n \in Nat PROVE Held(n) = HeldFrom(air, (Len(air) - n) + 1)
  <2>1. {i \in DOMAIN air : i > Len(air) - n /\ air[i].held}
          = {j \in M : j >= (Len(air) - n) + 1}
    BY <1>1
  <2> QED
    BY <2>1 DEF Held, HeldFrom, After
<1>3. ASSUME ~(Held(RoundTrip) > 0), NEW i \in Int PROVE HeldFrom(air, i) = 0
  <2> DEFINE k == (Len(air) - RoundTrip) + 1
  <2>1. k \in Int /\ k <= 1
    BY <1>1
  <2>2. HeldFrom(air, k) = Held(RoundTrip) /\ HeldFrom(air, k) \in Nat
    BY <1>1, <1>2, <2>1, CountFacts
  <2>3. After(M, k) = 0
    BY <1>3, <2>2 DEF HeldFrom
  <2>4. {j \in M : j >= k} = M
    BY <1>1, <2>1
  <2> HIDE DEF M
  <2>5. IsFiniteSet(M) /\ Cardinality(M) = 0
    <3>1. IsFiniteSet({j \in M : j >= k})
      BY <1>1, <2>1, AfterFacts
    <3> QED
      BY <2>3, <2>4, <3>1 DEF After
  <2>6. M = {}
    BY <2>5, FS_EmptySet
  <2>7. After(M, i) = 0
    BY <1>1, <2>6, AfterFacts
  <2> QED
    BY <2>7 DEF HeldFrom, M
<1> QED
  BY <1>2, <1>3

\* A take that has just begun.
Blank(u, pass) ==
    /\ u \in Takes /\ u.stored = {} /\ u.due = {} /\ ~u.complete /\ u.try = pass /\ ~u.closed
    /\ ~u.ended

\* And a recording that is to run.
Ready(e, pass) ==
    /\ e \in Recorders /\ e.active /\ e.chunk = <<>> /\ e.pass = pass /\ e.state = "waiting"
    /\ e.drain = NoDrain /\ e.skip = InputLatency

\* A take begins as the invariant wants it, if its run stands where it should.
LEMMA RunStarts ==
  ASSUME NEW q \in Players, q.known, NEW pass \in BOOLEAN,
         q.range = IF pass THEN "cycle" ELSE "none", Resting(q),
         NEW b \in Seq(Quantum), Len(b) <= RoundTrip, Course(q, b),
         NEW e, Ready(e, pass), NEW frame, NEW s, Begun(q, e, frame, s),
         NEW u, Blank(u, pass), NEW ph,
         ph = IF q.playing THEN "on" ELSE "armed",
         ~q.playing => s.leadIn >= OutputLatency,
         ~u.crossed => Aligned(q, s, b, ph, u),
         ~u.crossed /\ ~u.still => Ahead(q, s, ph)
  PROVE  HeardState(q, s, b, ph, u)
<1>1. /\ e \in Recorders /\ e.active /\ e.chunk = <<>> /\ e.pass = pass /\ e.state = "waiting"
      /\ e.drain = NoDrain /\ e.skip = InputLatency
  BY DEF Ready
<1>2. /\ s \in Recorders /\ s.active /\ s.chunk = <<>> /\ s.skip = InputLatency /\ s.pass = pass
      /\ s.state = "waiting" /\ s.drain = NoDrain /\ s.written = 0 /\ s.posted = 0
      /\ pass => Origin(s) = FromFrame /\ s.end = LoopLength
      /\ ~pass => s.shift = 0 /\ s.end = Endless
  BY <1>1 DEF Begun, InPass
<1>3. /\ u \in Takes /\ u.stored = {} /\ u.due = {} /\ ~u.complete /\ u.try = pass /\ ~u.closed
      /\ ~u.ended
  BY DEF Blank
<1>4. Samples(s, u) = {}
  BY <1>2, <1>3, PlacedFacts DEF Samples
<1>5. Records(s, u)
  <2>1. Tallied(s)
    BY <1>2 DEF Tallied
  <2>2. Whole(s, u)
    BY <1>2 DEF Whole
  <2>3. pass => Try(s, u)
    BY <1>2, <1>3, <1>4, LoopFacts DEF Try
  <2> QED
    BY <1>2, <1>3, <2>1, <2>2, <2>3 DEF Records
<1>6. SungRight(s, u)
  BY <1>4 DEF SungRight
<1>7. Control(q, s, ph, u)
  BY <1>2, <1>3 DEF Control, Resting
<1>8. SungNext(q, s, b, ph, u)
  BY DEF SungNext, Live, Clear
<1>9. KeptNext(q, s, ph, u)
  BY <1>2, <1>3 DEF KeptNext, Owed
<1> QED
  BY <1>2, <1>3, <1>5, <1>6, <1>7, <1>8, <1>9 DEF HeardState

\* The frame that is heard, and the way from it.
Hearing(q, pass) ==
    /\ q \in Players /\ q.playing /\ q.known /\ q.range = IF pass THEN "cycle" ELSE "none"
    /\ q.frame = IF Len(q.rendered) < OutputLatency THEN q.began ELSE SongFrame(q, q.rendered[1])

\* What is heard is the first place of the way, but for rounds of the loop.
LEMMA HearingFacts ==
  ASSUME NEW pass \in BOOLEAN, NEW q, Hearing(q, pass), NEW a \in Seq(Quantum), Course(q, a)
  PROVE  /\ Len(q.rendered) \in Nat /\ Len(q.rendered) <= OutputLatency
         /\ Len(Way(q)) = Len(q.rendered) + 1
         /\ \A i \in 1..(Len(q.rendered) + 1) : Way(q)[i] \in Nat
         /\ q.frame \in Nat /\ Same(q.frame, Way(q)[1])
         /\ ~pass => q.frame = Way(q)[1]
         /\ q.frame = Way(q)[1] \/ (Way(q)[1] >= ToFrame /\ q.frame >= FromFrame)
<1>1. q \in Players /\ (~pass => q.range = "none")
  BY DEF Hearing
<1>2. /\ Len(q.rendered) \in Nat /\ q.frame \in Nat /\ q.began \in Nat /\ q.rendered \in Seq(Nat)
  BY <1>1 DEF Players
<1>3. /\ Way(q) \in Seq(Nat) /\ Len(Way(q)) = Len(q.rendered) + 1
      /\ \A i \in 1..Len(q.rendered) : Way(q)[i] = q.rendered[i]
  BY <1>1, WayFacts
<1>4. /\ Len(q.rendered) <= OutputLatency
      /\ Len(q.rendered) < OutputLatency => Way(q)[1] = q.began
  BY DEF Course
<1>5. \A i \in 1..(Len(q.rendered) + 1) : Way(q)[i] \in Nat
  BY <1>2, <1>3
<1> DEFINE x == Way(q)[1]
<1>6. x \in Nat /\ OutputLatency \in Nat /\ OutputLatency > 0 /\ FromFrame \in Nat /\ ToFrame \in Nat
  BY <1>2, <1>5, LoopFacts
<1>7. q.frame = x \/ q.frame = SongFrame(q, x)
  <2>1. CASE Len(q.rendered) < OutputLatency
    BY <1>4, <2>1 DEF Hearing
  <2>2. CASE ~(Len(q.rendered) < OutputLatency)
    <3>1. 1 \in 1..Len(q.rendered)
      BY <1>2, <1>4, <1>6, <2>2
    <3>2. x = q.rendered[1]
      BY <1>3, <3>1
    <3> QED
      BY <2>2, <3>2 DEF Hearing
  <2> QED
    BY <2>1, <2>2
<1> HIDE DEF x
<1>8. Same(x, x)
  BY <1>6, SameFacts
<1>9. /\ Same(SongFrame(q, x), x)
      /\ SongFrame(q, x) = x \/ (q.range = "cycle" /\ x >= ToFrame /\ FromFrame <= SongFrame(q, x))
  BY <1>1, <1>6, SongFrameFacts
<1>10. /\ Same(q.frame, x) /\ (~pass => q.frame = x)
       /\ q.frame = x \/ (x >= ToFrame /\ q.frame >= FromFrame)
  BY <1>1, <1>2, <1>6, <1>7, <1>8, <1>9
<1> QED
  BY <1>2, <1>3, <1>4, <1>5, <1>10 DEF x

\* Where the run that begins now stands: what is written is behind what is heard
\* by a round trip.
LEMMA RunPlace ==
  ASSUME NEW pass \in BOOLEAN, NEW q, Hearing(q, pass), Len(q.rendered) <= OutputLatency,
         NEW e, Ready(e, pass), NEW s, Begun(q, e, q.frame, s)
  PROVE  /\ s \in Recorders /\ s.drain = NoDrain /\ s.pass = pass
         /\ Place(s) + RoundTrip = (q.frame - s.shift) + Len(q.rendered)
         /\ Wait(s) >= RoundTrip - Len(q.rendered)
         /\ Same(q.frame - s.shift, q.frame)
         /\ ~pass => s.shift = 0 /\ s.start = q.frame
         /\ s.shift > 0 => /\ q.frame > FromFrame
                           /\ q.frame - s.shift > FromFrame - LoopLength
<1>1. /\ e.skip = InputLatency /\ e.pass = pass /\ e.drain = NoDrain
  BY DEF Ready
<1>2. q \in Players /\ q.known /\ q.playing /\ q.range = IF pass THEN "cycle" ELSE "none"
  BY DEF Hearing
<1>3. PendingOutput(q) = OutputLatency - Len(q.rendered)
  BY <1>2, PendingFacts
<1>4. InPass(q, e) <=> pass
  BY <1>1, <1>2 DEF InPass
<1>5. /\ s \in Recorders /\ s.skip = InputLatency /\ s.pass = pass /\ s.written = 0
      /\ s.drain = NoDrain
      /\ s.start - s.leadIn = q.frame - (OutputLatency - Len(q.rendered))
      /\ s.leadIn >= OutputLatency - Len(q.rendered)
      /\ pass => s.shift = FindPass(q.frame)
      /\ ~pass => s.shift = 0 /\ s.start = q.frame
  BY <1>1, <1>3, <1>4 DEF Begun
<1>6. /\ s.start \in Nat /\ s.shift \in Nat /\ s.leadIn \in Nat
      /\ Origin(s) = s.start - s.shift /\ Wait(s) = InputLatency + s.leadIn
      /\ Place(s) = (Origin(s) + 0) - Wait(s)
  BY <1>5, RecorderTypes DEF Origin
<1>7. /\ q.frame \in Nat /\ Len(q.rendered) \in Nat
  BY <1>2 DEF Players
<1>8. /\ OutputLatency \in Nat /\ InputLatency \in Nat /\ RoundTrip = OutputLatency + InputLatency
      /\ FromFrame \in Nat /\ LoopLength \in Nat
  BY LoopFacts
<1> DEFINE f == q.frame
           n == Len(q.rendered)
           z == s.shift
<1>9. f \in Nat /\ n \in Nat /\ z \in Nat /\ z \in Int
  BY <1>6, <1>7
<1>10. Place(s) + RoundTrip = (f - z) + n
  <2>1. s.start - s.leadIn = f - (OutputLatency - n)
    BY <1>5
  <2>2. Place(s) = (s.start - z) - (InputLatency + s.leadIn)
    BY <1>6, <1>9
  <2> DEFINE x == s.start
             l == s.leadIn
  <2>3. x \in Int /\ l \in Int /\ f \in Int /\ n \in Int /\ z \in Int
    BY <1>6, <1>9
  <2>4. x - l = f - (OutputLatency - n) /\ Place(s) = (x - z) - (InputLatency + l)
    BY <2>1, <2>2
  <2> HIDE DEF f, n, z, x, l
  <2>5. ((x - z) - (InputLatency + l)) + RoundTrip = (f - z) + n
    BY <1>8, <2>3, <2>4
  <2> QED
    BY <2>4, <2>5
<1>11. Wait(s) >= RoundTrip - n
  <2>1. s.leadIn >= OutputLatency - n
    BY <1>5
  <2> HIDE DEF f, n, z
  <2> QED
    BY <1>6, <1>8, <1>9, <2>1
<1>12. /\ Same(z, 0) /\ (z > 0 => f > FromFrame /\ f > FromFrame + z - LoopLength)
  <2>1. CASE pass
    <3>1. z = FindPass(f)
      BY <1>5, <2>1
    <3> HIDE DEF f, z
    <3> QED
      BY <1>9, <3>1, FindPassFacts
  <2>2. CASE ~pass
    <3>1. z = 0
      BY <1>5, <2>2
    <3>2. Same(0, 0)
      BY SameFacts
    <3> QED
      BY <3>1, <3>2
  <2> QED
    BY <2>1, <2>2
<1> HIDE DEF f, n, z
<1>13. Same(f - z, f)
  <2>1. Same(0, z)
    BY <1>9, <1>12, SameFacts
  <2>2. 0 - z = (f - z) - f /\ f - z \in Int
    BY <1>9
  <2> QED
    BY <1>9, <2>1, <2>2, SameFacts
<1>14. z > 0 => f > FromFrame /\ f - z > FromFrame - LoopLength
  BY <1>8, <1>9, <1>12
<1> QED
  BY <1>5, <1>10, <1>11, <1>13, <1>14 DEF f, n, z

\* From the first place of the way to the k-th, of what is heard as of what is sung.
Played(h, a, c, k) == (c + (k - 1)) - (HeldFrom(a, Base(h, a) + 1) - HeldFrom(a, Base(h, a) + k))

\* The way agrees with the frames that were not held.
LEMMA PlayedFacts ==
  ASSUME NEW h \in Seq(Nat), NEW a \in Seq(Quantum), Chained(h, a), Len(h) > 0,
         NEW c \in Int, Same(c, h[1]), NEW pass \in BOOLEAN,
         ~pass => c = h[1] /\ ~Back(h, 1, Len(h))
  PROVE  \A k \in 1..Len(h) : Played(h, a, c, k) \in Int /\ At(pass, Played(h, a, c, k), h[k])
<1> DEFINE n == Len(h)
<1>1. /\ n \in Nat /\ n >= 1 /\ Len(a) \in Nat /\ \A k \in 1..n : h[k] \in Nat
  OBVIOUS
<1>2. Base(h, a) \in Int
  BY <1>1 DEF Base
<1> SUFFICES ASSUME NEW k \in 1..n
             PROVE  Played(h, a, c, k) \in Int /\ At(pass, Played(h, a, c, k), h[k])
  OBVIOUS
<1> DEFINE x == HeldFrom(a, Base(h, a) + 1)
           y == HeldFrom(a, Base(h, a) + k)
           first == h[1]
           to == h[1] + (k - 1) - (x - y)
           played == (c + (k - 1)) - (x - y)
           here == h[k]
<1>3. x \in Nat /\ y \in Nat
  <2>1. Base(h, a) + 1 \in Int /\ Base(h, a) + k \in Int
    BY <1>2
  <2> QED
    BY <2>1, CountFacts
<1>4. first \in Nat /\ here \in Nat /\ k \in Int
  BY <1>1
<1>5. Leads(h, 1, k, to)
  <2>1. 1 \in 1..n /\ 1 <= k
    BY <1>1
  <2>2. Leads(h, 1, k, Reach(h, a, 1, k))
    BY <2>1 DEF Chained
  <2> QED
    BY <2>2 DEF Reach
<1>6. played = Played(h, a, c, k)
  BY DEF Played
<1>7. Same(c, first) /\ (~pass => c = first)
  OBVIOUS
<1>8. Same(here, to) /\ (here = to \/ Back(h, 1, k))
  BY <1>5 DEF Leads
<1>9. Back(h, 1, k) => Back(h, 1, n)
  BY <1>1 DEF Back
<1>10. to \in Int /\ played \in Int /\ played - to = c - first
  <2> HIDE DEF x, y
  <2>1. to = first + (k - 1) - (x - y)
    OBVIOUS
  <2> HIDE DEF first
  <2> QED
    BY <1>3, <1>4, <2>1
<1> HIDE DEF x, y, first, to, played, here
<1>11. CASE pass
  <2>1. c - first = played - to /\ first \in Int
    BY <1>4, <1>10
  <2>2. Same(played, to)
    <3>1. \A d, f \in Int : Same(c, first) /\ c - first = d - f => Same(d, f)
      BY <2>1, SameFacts
    <3> QED
      BY <1>7, <1>10, <2>1, <3>1
  <2>3. Same(to, here)
    BY <1>4, <1>8, <1>10, SameFacts
  <2>4. Same(played, here)
    BY <1>4, <1>10, <2>2, <2>3, SameFacts
  <2> QED
    BY <1>6, <1>10, <1>11, <2>4 DEF At, here
<1>12. CASE ~pass
  <2>1. here = to /\ c = first
    BY <1>7, <1>8, <1>9, <1>12 DEF n
  <2>2. played = here
    BY <1>4, <1>10, <2>1
  <2> QED
    BY <1>6, <1>10, <1>12, <2>2 DEF At, here
<1> QED
  BY <1>11, <1>12

\* A take that begins while the song plays.
LEMMA StartAligned ==
  ASSUME NEW pass \in BOOLEAN, NEW q, Hearing(q, pass),
         NEW a \in Seq(Quantum), Len(a) <= RoundTrip, Course(q, a), NEW b, Marked(a, b),
         NEW e, Ready(e, pass), NEW s, Begun(q, e, q.frame, s),
         NEW u \in Takes, u.try = pass,
         u.unheard = HeldFrom(a, (Len(a) - Len(q.rendered)) + 1),
         ~pass => ~GoesBack(q), NEW ph
  PROVE  Aligned(q, s, b, ph, u)
<1> DEFINE h == Way(q)
           n == Len(q.rendered)
           c == q.frame - s.shift
           base == Len(a) - n
<1>1. /\ n \in Nat /\ n <= OutputLatency /\ Len(h) = n + 1 /\ \A i \in 1..(n + 1) : h[i] \in Nat
      /\ q.frame \in Nat /\ Same(q.frame, h[1]) /\ (~pass => q.frame = h[1])
  BY HearingFacts
<1>2. /\ s \in Recorders /\ s.drain = NoDrain
      /\ Place(s) + RoundTrip = c + n /\ Wait(s) >= RoundTrip - n
      /\ Same(c, q.frame) /\ (~pass => s.shift = 0)
  BY <1>1, RunPlace
<1>3. /\ Place(s) \in Int /\ Wait(s) \in Nat /\ s.shift \in Nat
  BY <1>2, RecorderTypes
<1>4. q \in Players /\ Chained(h, a) /\ h \in Seq(Nat) /\ h[n + 1] = q.render
      /\ Len(a) \in Nat /\ RoundTrip \in Nat /\ b \in Seq(Quantum) /\ Len(b) = Len(a)
  BY <1>1, WayFacts, LoopFacts DEF Course, Hearing, Marked
<1>5. c \in Int
  BY <1>1, <1>3
<1>6. Base(h, a) = base /\ base \in Nat
  BY <1>1, <1>4 DEF Base, Chained
<1>7. Same(c, h[1]) /\ (~pass => c = h[1])
  <2>1. h[1] \in Int /\ q.frame \in Int
    BY <1>1
  <2> DEFINE first == h[1]
             frame == q.frame
  <2>2. /\ first \in Int /\ frame \in Int /\ Same(frame, first) /\ Same(c, frame)
        /\ c = frame - s.shift /\ (~pass => frame = first /\ s.shift = 0)
    BY <1>1, <1>2, <2>1
  <2> HIDE DEF c, h, first, frame
  <2>3. Same(c, first)
    BY <1>5, <2>2, SameFacts
  <2>4. ~pass => c = first
    BY <2>2
  <2> QED
    BY <2>3, <2>4 DEF first
<1>8. ~pass => ~Back(h, 1, Len(h))
  <2> SUFFICES ASSUME ~pass, NEW k \in 1..(Len(h) - 1), h[k + 1] < h[k] PROVE FALSE
    BY DEF Back
  <2>1. k \in DOMAIN q.rendered /\ h[k] = q.rendered[k]
    <3>1. k \in 1..n
      BY <1>1
    <3>2. q.rendered \in Seq(Nat)
      BY <1>4 DEF Players
    <3> QED
      BY <1>4, <3>1, <3>2, WayFacts
  <2> QED
    BY <2>1 DEF GoesBack, Way
<1> HIDE DEF c, h, n
<1>9. \A k \in 1..Len(h) : Played(h, a, c, k) \in Int /\ At(pass, Played(h, a, c, k), h[k])
  <2>1. Len(h) > 0
    BY <1>1
  <2> QED
    BY <1>4, <1>5, <1>7, <1>8, <2>1, PlayedFacts
<1> DEFINE x == HeldFrom(a, base + 1)
<1>10. x \in Nat /\ u.unheard = x
  <2>1. base + 1 \in Int /\ base + 1 = (Len(a) - Len(q.rendered)) + 1
    BY <1>6 DEF n
  <2> HIDE DEF base
  <2> QED
    BY <2>1, CountFacts
<1>11. \A k \in 1..(n + 1) :
         Played(h, a, c, k) = (c + (k - 1)) - (x - HeldFrom(a, base + k))
  BY <1>6 DEF Played
<1> HIDE DEF base, x
<1>12. AirSung(s, b, u)
  <2> SUFFICES ASSUME NEW i \in 1..Len(b), Wait(s) <= Until(b, i), b[i].frame # Silence
               PROVE  At(u.try, ((Place(s) + Until(b, i)) + DropFrom(b, i)) - u.unheard, b[i].frame)
    BY DEF AirSung
  <2>1. i \in 1..Len(a) /\ b[i].frame = a[i].frame /\ DropFrom(b, i) = HeldFrom(a, i) /\ i \in Int
    BY <1>4 DEF Marked
  <2>2. Until(b, i) = (RoundTrip - Len(a)) + (i - 1)
    BY <1>4 DEF Until
  <2> DEFINE k == i - base
  <2>3. k \in 1..n /\ i = base + k /\ k \in 1..(n + 1) /\ k \in 1..Len(h)
    <3>1. base = Len(a) - n
      BY DEF base
    <3> HIDE DEF base
    <3> QED
      BY <1>1, <1>2, <1>3, <1>4, <1>6, <2>1, <2>2, <3>1
  <2> DEFINE y == HeldFrom(a, base + k)
             frame == a[i].frame
             here == h[k]
             next == h[k + 1]
             played == Played(h, a, c, k)
  <2>4. y = DropFrom(b, i) /\ y \in Nat
    <3>1. base + k \in Int /\ base + k = i
      BY <1>6, <2>1, <2>3
    <3> QED
      BY <2>1, <3>1, CountFacts
  <2>5. frame \in Nat /\ here \in Nat /\ next \in Nat
    <3>1. k + 1 \in 1..(n + 1)
      BY <1>1, <2>3
    <3>2. a[i] \in Quantum
      BY <2>1
    <3> QED
      BY <1>1, <2>3, <3>1, <3>2 DEF Quantum
  <2>6. Same(frame, here) /\ (frame = here \/ next < here)
    <3>1. k \in 1..(Len(h) - 1) /\ a[Base(h, a) + k].frame # Silence
      BY <1>1, <1>6, <2>1, <2>3
    <3> QED
      BY <1>4, <1>6, <2>3, <3>1 DEF Chained
  <2>7. next < here => Back(h, 1, Len(h))
    <3>1. k \in 1..(Len(h) - 1)
      BY <1>1, <2>3
    <3> QED
      BY <3>1 DEF Back
  <2>8. played = (c + (k - 1)) - (x - y) /\ played \in Int /\ At(pass, played, here)
    BY <1>9, <1>11, <2>3
  <2>9. ((Place(s) + Until(b, i)) + DropFrom(b, i)) - u.unheard = played
    <3>1. base = Len(a) - n
      BY DEF base
    <3>2. k = i - base
      OBVIOUS
    <3> DEFINE w == Until(b, i)
               o == DropFrom(b, i)
               v == u.unheard
               place == Place(s)
               m == Len(a)
    <3>3. /\ w = (RoundTrip - m) + (i - 1) /\ o = y /\ v = x /\ place + RoundTrip = c + n
          /\ played = (c + (k - 1)) - (x - y) /\ base = m - n
      BY <1>2, <1>10, <2>2, <2>4, <2>8, <3>1
    <3>4. /\ place \in Int /\ m \in Int /\ i \in Int /\ n \in Int /\ x \in Int /\ y \in Int
          /\ c \in Int /\ RoundTrip \in Int
      BY <1>1, <1>3, <1>4, <1>5, <1>10, <2>1, <2>4
    <3> HIDE DEF w, o, v, place, m, played, y, frame, here, next
    <3>5. ((place + w) + o) - v = played
      BY <3>2, <3>3, <3>4
    <3> QED
      BY <3>5 DEF w, o, v, place, played
  <2> HIDE DEF frame, here, next, played
  <2>10. At(pass, played, frame)
    <3>1. CASE pass
      <4>1. Same(played, here)
        BY <2>8, <3>1 DEF At
      <4>2. Same(here, frame)
        BY <2>5, <2>6, SameFacts
      <4>3. Same(played, frame)
        BY <2>5, <2>8, <4>1, <4>2, SameFacts
      <4> QED
        BY <3>1, <4>3 DEF At
    <3>2. CASE ~pass
      <4>1. frame = here
        BY <1>8, <2>6, <2>7, <3>2
      <4> QED
        BY <2>8, <4>1
    <3> QED
      BY <3>1, <3>2
  <2> QED
    BY <2>1, <2>9, <2>10 DEF frame
<1>13. At(u.try, (Place(s) + RoundTrip) - u.unheard, q.render)
  <2>1. n + 1 \in 1..(n + 1) /\ n + 1 \in 1..Len(h)
    BY <1>1
  <2>2. HeldFrom(a, base + (n + 1)) = 0
    <3>1. base + (n + 1) = Len(a) + 1
      BY <1>1, <1>4 DEF base
    <3> QED
      BY <3>1, CountFacts
  <2> DEFINE played == Played(h, a, c, n + 1)
             y == HeldFrom(a, base + (n + 1))
  <2>3. played = (c + ((n + 1) - 1)) - (x - y) /\ At(pass, played, h[n + 1])
    BY <1>9, <1>11, <2>1
  <2>4. y = 0
    BY <2>2
  <2> HIDE DEF played, y
  <2> DEFINE place == Place(s)
  <2>5. place + RoundTrip = c + n
    BY <1>2
  <2> HIDE DEF place
  <2>6. (place + RoundTrip) - x = played
    BY <1>1, <1>5, <1>10, <2>3, <2>4, <2>5
  <2> QED
    BY <1>4, <1>10, <2>3, <2>6 DEF place
<1> QED
  BY <1>12, <1>13 DEF Aligned

\* And what is heard of it is ahead of what is written.
LEMMA StartAhead ==
  ASSUME NEW pass \in BOOLEAN, NEW q, Hearing(q, pass),
         NEW a \in Seq(Quantum), Course(q, a), \A i \in Int : HeldFrom(a, i) = 0,
         NEW e, Ready(e, pass), NEW s, Begun(q, e, q.frame, s), ~pass => ~GoesBack(q)
  PROVE  Ahead(q, s, "on")
<1> DEFINE h == Way(q)
           n == Len(q.rendered)
           first == h[1]
           frame == q.frame
           shift == s.shift
           c == frame - shift
<1>1. /\ n \in Nat /\ n <= OutputLatency /\ Len(h) = n + 1 /\ \A i \in 1..(n + 1) : h[i] \in Nat
      /\ frame \in Nat /\ Same(frame, first) /\ (~pass => frame = first)
      /\ frame = first \/ (first >= ToFrame /\ frame >= FromFrame)
  BY HearingFacts
<1>2. /\ s \in Recorders /\ s.pass = pass /\ Place(s) + RoundTrip = c + n
      /\ Same(c, frame) /\ (~pass => shift = 0 /\ s.start = frame)
      /\ shift > 0 => frame > FromFrame /\ c > FromFrame - LoopLength
  BY <1>1, RunPlace
<1>3. Place(s) \in Int /\ shift \in Nat
  BY <1>2, RecorderTypes
<1>4. q \in Players /\ Chained(h, a) /\ h \in Seq(Nat) /\ (pass => q.range = "cycle")
      /\ Len(a) \in Nat
  BY <1>1, WayFacts DEF Course, Hearing
<1>5. /\ FromFrame \in Nat /\ ToFrame \in Nat /\ FromFrame < ToFrame /\ LoopLength \in Nat
      /\ RoundTrip \in Nat
  BY LoopFacts
<1>6. first \in Nat
  <2>1. 1 \in 1..(n + 1)
    BY <1>1
  <2> QED
    BY <1>1, <2>1
<1>7. c \in Int
  BY <1>1, <1>3
<1>8. ASSUME NEW i \in 1..(n + 1) PROVE Heard(q, s, i) = c + (i - 1)
  <2> DEFINE place == Place(s)
  <2>1. Heard(q, s, i) = (place + RoundTrip) - ((n + 1) - i)
    BY <1>1 DEF Heard
  <2>2. place + RoundTrip = c + n /\ place \in Int
    BY <1>2, <1>3
  <2> HIDE DEF place, c, n
  <2> QED
    BY <1>1, <1>5, <1>7, <2>1, <2>2
<1>9. ASSUME NEW i \in 1..(n + 1)
      PROVE  /\ Same(h[i], first + (i - 1))
             /\ h[i] = first + (i - 1) \/ Back(h, 1, i)
             /\ first + (i - 1) < FromFrame => h[i] = first + (i - 1)
             /\ first + (i - 1) >= FromFrame => h[i] >= FromFrame
  <2>1. 1 \in 1..Len(h) /\ i \in 1..Len(h) /\ 1 <= i
    BY <1>1
  <2>2. Leads(h, 1, i, Reach(h, a, 1, i))
    BY <1>4, <2>1 DEF Chained
  <2>3. Reach(h, a, 1, i) = first + (i - 1)
    <3> DEFINE base == Base(h, a)
    <3>1. base \in Int
      BY <1>1, <1>4 DEF Base
    <3> HIDE DEF base
    <3>2. HeldFrom(a, base + 1) = 0 /\ HeldFrom(a, base + i) = 0
      BY <3>1
    <3>3. Reach(h, a, 1, i) = first + (i - 1) - (HeldFrom(a, base + 1) - HeldFrom(a, base + i))
      BY DEF Reach, base
    <3> HIDE DEF first
    <3> QED
      BY <1>6, <3>2, <3>3
  <2> QED
    BY <2>2, <2>3 DEF Leads
<1>10. ~pass => ~Back(h, 1, Len(h))
  <2> SUFFICES ASSUME ~pass, NEW k \in 1..(Len(h) - 1), h[k + 1] < h[k] PROVE FALSE
    BY DEF Back
  <2>1. k \in DOMAIN q.rendered /\ h[k] = q.rendered[k]
    <3>1. k \in 1..n
      BY <1>1
    <3>2. q.rendered \in Seq(Nat)
      BY <1>4 DEF Players
    <3> QED
      BY <1>4, <3>1, <3>2, WayFacts
  <2> QED
    BY <2>1 DEF GoesBack, Way
<1> HIDE DEF h, n, first, frame, shift
<1>11. ASSUME NEW i \in 1..(n + 1) PROVE AheadAt(q, s, "on", i)
  <2> DEFINE x == h[i]
             to == first + (i - 1)
             heard == c + (i - 1)
  <2>1. /\ x \in Nat /\ to \in Int /\ heard \in Int /\ i \in Int /\ i >= 1
    BY <1>1, <1>6, <1>7
  <2>2. /\ Same(x, to) /\ (x = to \/ Back(h, 1, i))
        /\ to < FromFrame => x = to
        /\ to >= FromFrame => x >= FromFrame
    BY <1>9
  <2>3. to - heard = first - c /\ (frame - shift = c)
    BY <1>1, <1>3, <1>6, <1>7, <2>1
  <2> HIDE DEF c
  <2>4. At(pass, x, heard)
    <3>1. CASE pass
      <4>1. Same(first, c)
        <5>1. Same(frame, c)
          BY <1>1, <1>2, <1>7, SameFacts
        <5>2. Same(first, frame)
          BY <1>1, <1>6, SameFacts
        <5> QED
          BY <1>1, <1>6, <1>7, <5>1, <5>2, SameFacts
      <4> HIDE DEF x, to, heard
      <4>2. Same(to, heard)
        <5>1. first \in Int /\ c \in Int /\ first - c = to - heard
          BY <1>6, <1>7, <2>3
        <5>2. \A d, f \in Int : Same(first, c) /\ first - c = d - f => Same(d, f)
          BY <5>1, SameFacts
        <5> QED
          BY <2>1, <4>1, <5>1, <5>2
      <4>3. Same(x, heard)
        BY <2>1, <2>2, <4>2, SameFacts
      <4> QED
        BY <3>1, <4>3 DEF At
    <3>2. CASE ~pass
      <4>1. Back(h, 1, i) => Back(h, 1, Len(h))
        BY <1>1, <2>1 DEF Back
      <4>2. x = to
        BY <1>10, <2>2, <3>2, <4>1
      <4>3. first = c
        BY <1>1, <1>2, <1>3, <1>6, <1>7, <2>3, <3>2
      <4> QED
        BY <3>2, <4>2, <4>3 DEF At
    <3> QED
      BY <3>1, <3>2
  <2>5. shift = 0 /\ heard < FromFrame => x = heard
    <3> SUFFICES ASSUME shift = 0, heard < FromFrame PROVE x = heard
      OBVIOUS
    <3>1. c = frame
      BY <1>1, <2>3
    <3>2. frame < FromFrame
      BY <1>1, <1>5, <2>1, <3>1
    <3>3. frame = first
      BY <1>1, <1>5, <1>6, <3>2
    <3>4. to = heard
      BY <3>1, <3>3
    <3> QED
      BY <2>2, <3>4
  <2>6. shift > 0 \/ heard >= FromFrame => x >= FromFrame
    <3> SUFFICES ASSUME shift > 0 \/ heard >= FromFrame PROVE to >= FromFrame
      BY <2>2
    <3>1. CASE first >= FromFrame
      BY <1>5, <1>6, <2>1, <3>1
    <3>2. CASE ~(first >= FromFrame)
      <4>1. frame = first
        BY <1>1, <1>5, <1>6, <3>2
      <4>2. shift = 0
        BY <1>1, <1>2, <1>3, <1>5, <1>6, <3>2, <4>1
      <4>3. c = first
        BY <1>1, <2>3, <4>1, <4>2
      <4> QED
        BY <4>2, <4>3
    <3> QED
      BY <3>1, <3>2
  <2>7. Way(q)[i] = x /\ Heard(q, s, i) = heard
    BY <1>8 DEF h, c
  <2> HIDE DEF x, heard, to
  <2>8. pass => q.range # "none"
    BY <1>4
  <2> QED
    BY <1>2, <2>4, <2>5, <2>6, <2>7, <2>8 DEF AheadAt, shift
<1>12. Heard(q, s, 1) = c
  <2>1. 1 \in 1..(n + 1)
    BY <1>1
  <2>2. Heard(q, s, 1) = c + (1 - 1)
    BY <1>8, <2>1
  <2> HIDE DEF c
  <2> QED
    BY <1>7, <2>2
<1>13. ~pass => Heard(q, s, 1) >= s.start
  BY <1>1, <1>2, <1>3, <1>12
<1>14. \A i \in 1..Len(Way(q)) : AheadAt(q, s, "on", i)
  BY <1>1, <1>11 DEF h
<1> QED
  BY <1>2, <1>12, <1>13, <1>14 DEF Ahead, shift

\* The player a take begins with.
Readied(p, pass, q) ==
    /\ q \in Players /\ q.known /\ q.playing = p.playing
    /\ q.range = IF pass THEN "cycle" ELSE "none"
    /\ p.playing => /\ q.rendered = p.rendered /\ q.render = p.render /\ q.began = p.began
                    /\ Hearing(q, pass)
    /\ ~p.playing => /\ q.rendered = <<>> /\ q.frame = q.render /\ q.began = q.render
                     /\ pass => q.render = FromFrame

\* The message that makes it ready.
LEMMA ReadiedFacts ==
  ASSUME NEW p \in Players, Resting(p), NEW pass \in BOOLEAN,
         NEW c, c = [p EXCEPT !.range = IF pass THEN "cycle" ELSE "none"],
         NEW z, z = IF pass /\ ~p.playing THEN Begin(c, FromFrame) ELSE c,
         NEW i, i = [z EXCEPT !.known = TRUE],
         NEW q, q = IF p.playing THEN Refreshed(i) ELSE i
  PROVE  Readied(p, pass, q)
<1> DEFINE range == IF pass THEN "cycle" ELSE "none"
<1>1. range \in {"none", "once", "cycle"}
  OBVIOUS
<1>2. c = [p EXCEPT !.range = range]
  OBVIOUS
<1> HIDE DEF range
<1>3. /\ c \in Players
      /\ c.playing = p.playing /\ c.range = range /\ c.frame = p.frame /\ c.render = p.render
      /\ c.began = p.began /\ c.rendered = p.rendered
  <2>1. c \in Players
    BY <1>1, <1>2 DEF Players
  <2> QED
    BY <1>2, <2>1 DEF Players
<1>4. /\ z \in Players /\ z.playing = p.playing /\ z.range = range
      /\ p.playing => /\ z.frame = p.frame /\ z.render = p.render
                      /\ z.began = p.began /\ z.rendered = p.rendered
      /\ ~p.playing => /\ z.rendered = <<>> /\ z.frame = z.render /\ z.began = z.render
                       /\ pass => z.render = FromFrame
  <2>1. CASE pass /\ ~p.playing
    <3>1. Begins(c, FromFrame, z)
      BY <1>3, <2>1, LoopFacts, BeginFacts
    <3> QED
      BY <1>3, <2>1, <3>1 DEF Begins, SamePlay
  <2>2. CASE ~(pass /\ ~p.playing)
    <3>1. z = c
      BY <2>2
    <3> QED
      BY <1>3, <2>2, <3>1 DEF Resting
  <2> QED
    BY <2>1, <2>2
<1>5. /\ i \in Players /\ i.known = TRUE /\ i.playing = z.playing /\ i.range = z.range
      /\ i.frame = z.frame /\ i.render = z.render /\ i.began = z.began /\ i.rendered = z.rendered
  <2>1. i \in Players
    BY <1>4 DEF Players
  <2> QED
    BY <1>4, <2>1 DEF Players
<1>6. CASE p.playing
  <2>1. Refreshes(i, q)
    BY <1>5, <1>6, RefreshFacts
  <2>2. /\ q \in Players /\ q.playing /\ q.known /\ q.range = range
        /\ q.render = p.render /\ q.began = p.began /\ q.rendered = p.rendered
    BY <1>4, <1>5, <1>6, <2>1 DEF Refreshes, SamePlay
  <2>3. i.range = q.range /\ i.rendered = q.rendered /\ i.began = q.began
    BY <1>4, <1>5, <1>6, <2>2
  <2>4. \A f : SongFrame(i, f) = SongFrame(q, f)
    BY <2>3 DEF SongFrame
  <2>5. q.frame = IF Len(q.rendered) < OutputLatency THEN q.began ELSE SongFrame(q, q.rendered[1])
    <3>1. q.frame = IF Len(i.rendered) < OutputLatency THEN i.began ELSE SongFrame(i, i.rendered[1])
      BY <1>5, <2>1 DEF Refreshes
    <3>2. SongFrame(i, i.rendered[1]) = SongFrame(q, q.rendered[1])
      <4>1. SongFrame(i, i.rendered[1]) = SongFrame(q, i.rendered[1])
        BY <2>4
      <4> QED
        BY <2>3, <4>1
    <3> QED
      BY <2>3, <3>1, <3>2
  <2>6. Hearing(q, pass)
    BY <2>2, <2>5 DEF Hearing, range
  <2> QED
    BY <1>6, <2>2, <2>6 DEF Readied, range
<1>7. CASE ~p.playing
  <2>1. q = i
    BY <1>7
  <2> QED
    BY <1>4, <1>5, <1>7, <2>1 DEF Readied, range
<1> QED
  BY <1>6, <1>7

\* What a take begins with.
LEMMA StartedTake ==
  ASSUME NEW p \in Players, NEW a \in Seq(Quantum), Len(a) <= RoundTrip, Course(p, a), Resting(p),
         NEW pass \in BOOLEAN, NEW q, Readied(p, pass, q),
         NEW b, Marked(a, b), NEW e, Ready(e, pass), NEW s, Begun(q, e, q.frame, s),
         NEW u, Blank(u, pass),
         u.unheard = IF p.playing THEN HeldFrom(a, (Len(a) - Len(p.rendered)) + 1) ELSE 0,
         u.crossed = (~pass /\ p.playing /\ GoesBack(q)),
         ~u.still => \A i \in Int : HeldFrom(a, i) = 0,
         NEW ph, ph = IF p.playing THEN "on" ELSE "armed"
  PROVE  HeardState(q, s, b, ph, u)
<1>1. /\ q \in Players /\ q.known /\ q.playing = p.playing
      /\ q.range = IF pass THEN "cycle" ELSE "none"
  BY DEF Readied
<1>2. /\ b \in Seq(Quantum) /\ Len(b) = Len(a) /\ Len(b) <= RoundTrip
  BY DEF Marked
<1>3. Course(q, a) /\ Resting(q)
  <2>1. CASE p.playing
    BY <1>1, <2>1, CourseSame DEF Readied, Resting
  <2>2. CASE ~p.playing
    BY <1>1, <2>2, CourseBegun DEF Readied, Resting
  <2> QED
    BY <2>1, <2>2
<1>4. Course(q, b)
  BY <1>1, <1>3, MarkedCourse
<1>5. u \in Takes /\ u.try = pass /\ u.due = {}
  BY DEF Blank
<1>6. CASE p.playing
  <2>1. Hearing(q, pass) /\ q.rendered = p.rendered
    BY <1>6 DEF Readied
  <2>2. u.unheard = HeldFrom(a, (Len(a) - Len(q.rendered)) + 1)
    BY <1>6, <2>1
  <2>3. ASSUME ~u.crossed PROVE Aligned(q, s, b, ph, u)
    <3>1. ~pass => ~GoesBack(q)
      BY <1>6, <2>3
    <3> QED
      BY <1>3, <1>5, <2>1, <2>2, <3>1, StartAligned
  <2>4. ASSUME ~u.crossed, ~u.still PROVE Ahead(q, s, ph)
    <3>1. ~pass => ~GoesBack(q)
      BY <1>6, <2>4
    <3>2. ph = "on"
      BY <1>6
    <3> QED
      BY <1>3, <2>1, <2>4, <3>1, <3>2, StartAhead
  <2> QED
    BY <1>1, <1>2, <1>3, <1>4, <1>6, <2>3, <2>4, RunStarts
<1>7. CASE ~p.playing
  <2>1. /\ q.rendered = <<>> /\ q.frame = q.render /\ (pass => q.render = FromFrame)
        /\ q.render \in Nat
    BY <1>1, <1>7 DEF Readied, Players
  <2>2. /\ e \in Recorders /\ e.skip = InputLatency
        /\ e.pass => q.frame = FromFrame /\ q.range = "cycle"
    BY <1>1, <2>1 DEF Ready
  <2>3. u.unheard = 0 /\ u.try \in BOOLEAN
    BY <1>5, <1>7
  <2>4. s.leadIn >= OutputLatency /\ Aligned(q, s, b, ph, u) /\ Ahead(q, s, ph)
    BY <1>1, <1>2, <1>5, <2>1, <2>2, <2>3, FreshRun
  <2> QED
    BY <1>1, <1>2, <1>3, <1>4, <1>7, <2>4, RunStarts
<1> QED
  BY <1>6, <1>7

\* A take begins.
LEMMA StartRecordingStep ==
  ASSUME HeardInv, StartRecording
  PROVE  HeardInv'
<1> DEFINE pass == player.range # "none"
           c == [player EXCEPT !.range = IF pass THEN "cycle" ELSE "none"]
           z == IF pass /\ ~player.playing THEN Begin(c, FromFrame) ELSE c
           i == [z EXCEPT !.known = TRUE]
           q == IF player.playing THEN Refreshed(i) ELSE i
           x == ResetInput(q, recorder)
           e == [x EXCEPT !.active = TRUE, !.chunk = <<>>, !.pass = pass, !.state = "waiting"]
           s == StartRun(q, e, q.frame)
           still == Held(RoundTrip) > 0
           unheard == IF player.playing THEN Held(Len(player.rendered)) ELSE 0
           crossed == ~pass /\ player.playing /\ GoesBack(q)
           u == [stored |-> {}, due |-> {}, complete |-> FALSE, still |-> still,
                 unheard |-> unheard, try |-> pass, closed |-> FALSE, crossed |-> crossed,
                 ended |-> FALSE]
           b == [j \in DOMAIN air |-> [air[j] EXCEPT !.dropped = air[j].held]]
           ph == IF player.playing THEN "on" ELSE "armed"
<1>1. /\ booth.phase = "none" /\ player' = q /\ recorder' = s /\ take' = u /\ air' = b /\ Counted(ph)
  BY DEF StartRecording
<1>2. /\ HeardState(player, recorder, air, booth.phase, take)
      /\ player \in Players /\ recorder \in Recorders /\ booth \in Booths
      /\ air \in Seq(Quantum) /\ Len(air) <= RoundTrip
      /\ Len(player.rendered) <= OutputLatency /\ Course(player, air) /\ Resting(player)
  BY InvFacts
<1>3. ~recorder.active /\ recorder.drain = NoDrain
  <2>1. ~recorder.active
    BY <1>1, NoneFacts
  <2> QED
    BY <1>2, <2>1 DEF HeardState, Control
<1>4. pass \in BOOLEAN /\ crossed \in BOOLEAN /\ still \in BOOLEAN /\ ph \in Phases
      /\ ph = IF player.playing THEN "on" ELSE "armed"
  <2>1. GoesBack(q) \in BOOLEAN
    BY DEF GoesBack
  <2> QED
    BY <2>1 DEF Phases
<1>5. Readied(player, pass, q)
  <2> HIDE DEF pass
  <2>1. c = [player EXCEPT !.range = IF pass THEN "cycle" ELSE "none"]
    OBVIOUS
  <2>2. z = IF pass /\ ~player.playing THEN Begin(c, FromFrame) ELSE c
    OBVIOUS
  <2>3. i = [z EXCEPT !.known = TRUE]
    OBVIOUS
  <2>4. q = IF player.playing THEN Refreshed(i) ELSE i
    OBVIOUS
  <2> HIDE DEF c, z, i, q
  <2> QED
    BY <1>2, <1>4, <2>1, <2>2, <2>3, <2>4, ReadiedFacts
<1> HIDE DEF pass, c, z, i, q
<1>6. q \in Players /\ q.known /\ q.frame \in Nat
  BY <1>5 DEF Readied, Players
<1>7. Ready(e, pass)
  <2>1. /\ x \in Recorders /\ x.skip = InputLatency /\ x.drain = recorder.drain
    BY <1>2, <1>6, ResetFacts
  <2> HIDE DEF x
  <2>2. e \in Recorders
    <3>1. <<>> \in Seq(Sample)
      OBVIOUS
    <3>2. [x EXCEPT !.active = TRUE, !.chunk = <<>>] \in Recorders
      BY <2>1, <3>1 DEF Recorders
    <3> DEFINE y == [x EXCEPT !.active = TRUE, !.chunk = <<>>]
    <3>3. e = [y EXCEPT !.pass = pass, !.state = "waiting"]
      BY <2>1 DEF Recorders
    <3> HIDE DEF y, e
    <3>4. [y EXCEPT !.pass = pass, !.state = "waiting"] \in Recorders
      BY <1>4, <3>2 DEF Recorders, y
    <3> QED
      BY <3>3, <3>4
  <2>3. /\ e.active /\ e.chunk = <<>> /\ e.pass = pass /\ e.state = "waiting"
        /\ e.drain = x.drain /\ e.skip = x.skip
    BY <2>1 DEF Recorders
  <2> QED
    BY <1>3, <2>1, <2>2, <2>3 DEF Ready
<1> HIDE DEF x, e
<1>8. Begun(q, e, q.frame, s)
  <2>1. Len(q.rendered) <= OutputLatency
    <3>1. CASE player.playing
      BY <1>2, <1>5, <3>1 DEF Readied
    <3>2. CASE ~player.playing
      <4>1. Len(q.rendered) = 0
        BY <1>5, <3>2 DEF Readied
      <4> QED
        BY <4>1, LoopFacts
    <3> QED
      BY <3>1, <3>2
  <2> QED
    BY <1>6, <1>7, <2>1, RunFacts DEF Ready
<1> HIDE DEF s
<1>9. Marked(air, b)
  BY <1>2, MarkFacts
<1> HIDE DEF b
<1>10. /\ \A n \in Nat : Held(n) = HeldFrom(air, (Len(air) - n) + 1)
       /\ ~still => \A j \in Int : HeldFrom(air, j) = 0
  BY <1>2, HeldFacts
<1>11. /\ unheard = IF player.playing THEN HeldFrom(air, (Len(air) - Len(player.rendered)) + 1) ELSE 0
       /\ unheard \in Nat
  <2>1. Len(player.rendered) \in Nat /\ Len(air) \in Nat
    BY <1>2 DEF Players
  <2>2. (Len(air) - Len(player.rendered)) + 1 \in Int
    BY <2>1
  <2>3. Held(Len(player.rendered)) = HeldFrom(air, (Len(air) - Len(player.rendered)) + 1)
    BY <1>10, <2>1
  <2>4. HeldFrom(air, (Len(air) - Len(player.rendered)) + 1) \in Nat
    BY <1>2, <2>2, CountFacts
  <2> QED
    BY <2>3, <2>4
<1>12. crossed = (~pass /\ player.playing /\ GoesBack(q))
  OBVIOUS
<1> HIDE DEF still, unheard, crossed, ph
<1>13. /\ Blank(u, pass) /\ u.unheard = unheard /\ u.crossed = crossed /\ u.still = still
  BY <1>4, <1>11 DEF Blank, Takes
<1> HIDE DEF u
<1>14. HeardState(q, s, b, ph, u)
  BY <1>2, <1>4, <1>5, <1>7, <1>8, <1>9, <1>10, <1>11, <1>12, <1>13, StartedTake
<1>15. booth' \in Booths /\ booth'.phase = ph
  BY <1>1, <1>2, <1>4, PhaseFacts
<1> QED
  BY <1>1, <1>14, <1>15 DEF HeardInv

-----------------------------------------------------------------------------
(* The theorems.                                                           *)

\* The invariant holds at first,
LEMMA HeardInitial == HeardInit => HeardInv
<1> SUFFICES ASSUME HeardInit PROVE HeardInv
  OBVIOUS
<1>1. /\ player \in Players /\ player.playing = FALSE /\ player.frame = 0 /\ player.render = 0
      /\ player.began = 0 /\ player.rendered = <<>>
  <2>1. /\ player \in [playing : {FALSE}, frozen : {FALSE}, range : {"none"}, known : BOOLEAN,
                       frame : {0}, render : {0}, began : {0}, rendered : {<<>>}]
    BY DEF HeardInit
  <2>2. player \in Players
    <3>1. {<<>>} \subseteq Seq(Nat) /\ {0} \subseteq Nat
      OBVIOUS
    <3> QED
      BY <2>1, <3>1 DEF Players
  <2> QED
    BY <2>1, <2>2
<1>2. /\ recorder \in Recorders /\ recorder.active = FALSE /\ recorder.drain = NoDrain
      /\ recorder.posted = 0 /\ recorder.written = 0 /\ recorder.chunk = <<>>
  <2>1. NoDrain \in Nat /\ Endless \in Int /\ <<>> \in Seq(Sample)
    BY LoopFacts DEF Endless
  <2> QED
    BY <2>1 DEF HeardInit, Recorders
<1>3. /\ take \in Takes /\ take.stored = {} /\ take.due = {} /\ take.complete = FALSE
      /\ take.ended = FALSE
  BY DEF HeardInit, Takes
<1>4. booth \in Booths /\ booth.phase = "none"
  BY DEF HeardInit, Booths
<1>5. air \in Seq(Quantum) /\ Len(air) = 0 /\ Len(air) <= RoundTrip
  BY LoopFacts DEF HeardInit
<1>6. Control(player, recorder, booth.phase, take)
  BY <1>1, <1>2, <1>4 DEF Control
<1>7. Course(player, air)
  BY <1>1, <1>5, CourseBegun
<1>8. Records(recorder, take)
  BY <1>2, <1>3 DEF Records, Tallied
<1>9. SungRight(recorder, take)
  <2>1. Samples(recorder, take) = {}
    BY <1>2, <1>3 DEF Samples
  <2> QED
    BY <2>1 DEF SungRight
<1>10. SungNext(player, recorder, air, booth.phase, take)
  BY <1>2 DEF SungNext, Live
<1>11. KeptNext(player, recorder, booth.phase, take)
  BY <1>2, <1>3 DEF KeptNext
<1> QED
  BY <1>1, <1>2, <1>3, <1>4, <1>5, <1>6, <1>7, <1>8, <1>9, <1>10, <1>11 DEF HeardInv, HeardState

\* every step keeps it,
LEMMA HeardSteps == HeardInv /\ [HeardNext]_heardVars => HeardInv'
<1> SUFFICES ASSUME HeardInv, [HeardNext]_heardVars PROVE HeardInv'
  OBVIOUS
<1>1. CASE HeardNext
  BY <1>1, StoppedStep, FrozenStep, PlayingStep, PlaySongStep, StopSongStep, SeekSongStep,
     SetFrozenStep, OpenRangeStep, CloseRangeStep, StartRecordingStep, PlayTakeStep,
     StopAndFinishStep, FinishRecordingStep, FlushRecordingStep, RecordingFlushedStep
  DEF HeardNext
<1>2. CASE UNCHANGED heardVars
  <2>1. player' = player /\ recorder' = recorder /\ air' = air /\ booth' = booth /\ take' = take
    BY <1>2 DEF heardVars
  <2> QED
    BY <2>1 DEF HeardInv
<1> QED
  BY <1>1, <1>2

\* it always holds,
LEMMA HeardAlways == HeardSpec => []HeardInv
BY HeardInitial, HeardSteps, PTL DEF HeardSpec

\* and it says where what is stored was sung,
LEMMA HeardImpliesSung == HeardInv => SungWhereHeard
<1> SUFFICES ASSUME HeardInv PROVE SungWhereHeard
  OBVIOUS
<1> DEFINE Away(sample) == sample.at + (sample.late - sample.sung)
<1>1. take \in Takes /\ SungRight(recorder, take)
  BY InvFacts DEF HeardState
<1>2. ASSUME take.try => take.complete /\ ~take.closed, ~take.crossed,
             NEW sample \in take.stored, sample.sung # Silence
      PROVE  IF take.try THEN Away(sample) % LoopLength = 0 ELSE Away(sample) = 0
  <2>1. Stays(recorder, take)
    BY <1>2 DEF Stays, Clear
  <2>2. At(take.try, sample.at + sample.late, sample.sung)
    <3>1. sample \in Samples(recorder, take)
      BY <1>2 DEF Samples
    <3> QED
      BY <1>1, <1>2, <2>1, <3>1 DEF SungRight
  <2>3. sample.at \in Int /\ sample.late \in Int /\ sample.sung \in Int
    <3>1. sample \in StoredSample
      BY <1>1, <1>2 DEF Takes
    <3> QED
      BY <3>1 DEF StoredSample
  <2> DEFINE to == sample.at + sample.late
             from == sample.sung
  <2>4. to \in Int /\ from \in Int
    BY <2>3
  <2> HIDE DEF to, from
  <2>5. IF take.try THEN (to - from) % LoopLength = 0 ELSE to - from = 0
    <3>1. CASE take.try
      BY <2>2, <3>1 DEF At, Same, to, from
    <3>2. CASE ~take.try
      <4>1. to = from
        BY <2>2, <3>2 DEF At, to, from
      <4> QED
        BY <2>4, <3>2, <4>1
    <3> QED
      BY <3>1, <3>2
  <2>6. to - from = Away(sample)
    BY <2>3 DEF to, from
  <2> QED
    BY <2>5, <2>6
<1>3. SungWhereHeard <=>
        ((take.try => take.complete /\ ~take.closed) /\ ~take.crossed =>
           \A sample \in take.stored :
             sample.sung # Silence =>
               IF take.try THEN Away(sample) % LoopLength = 0 ELSE Away(sample) = 0)
  BY DEF SungWhereHeard
<1> HIDE DEF Away
<1> QED
  BY <1>2, <1>3

\* and that nothing due is lost.
LEMMA HeardImpliesKept == HeardInv => TakeKept
<1> SUFFICES ASSUME HeardInv PROVE TakeKept
  OBVIOUS
<1>1. Records(recorder, take) /\ KeptNext(player, recorder, booth.phase, take)
  BY InvFacts DEF HeardState
<1>2. Places = Ats(take.stored)
  BY DEF Places, Ats
<1>3. take.complete => Places = FromFrame..(ToFrame - 1)
  BY <1>1, <1>2 DEF Records
<1>4. take.ended /\ ~take.still /\ ~take.crossed /\ ~take.complete => take.due \subseteq Places
  BY <1>1, <1>2 DEF KeptNext
<1> QED
  BY <1>3, <1>4 DEF TakeKept

\* What a take stores was sung at the place it is stored at (SungWhereHeard), for
\* any song, loop, latencies, length of the chunks and number of commands:
\* recording.worklet.ts startRun and writeInput, heardPosition.worklet.ts refresh.
THEOREM SungCorrect == HeardSpec => []SungWhereHeard
BY HeardAlways, HeardImpliesSung, PTL

\* A complete try has the loop and nothing else, and a take that ends has every
\* place that was heard while it was on (TakeKept): recording.worklet.ts drain,
\* countDrain, findPass and endPass.
THEOREM KeptCorrect == HeardSpec => []TakeKept
BY HeardAlways, HeardImpliesKept, PTL
=============================================================================
