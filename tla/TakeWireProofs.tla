---------------------------- MODULE TakeWireProofs ----------------------------
(***************************************************************************)
(* For any number of takes, of chunks and of faults: what is sung in one   *)
(* take is stored whole, in its order and apart from the others, and no    *)
(* take is begun under the refusal of an earlier one.                      *)
(***************************************************************************)
EXTENDS TakeWire, FiniteSetTheorems, SequenceTheorems, WellFoundedInduction, TLAPS

Below == {pair \in Nat \X Nat : pair[1] < pair[2]}

LEMMA LeastOf ==
  ASSUME NEW S \in SUBSET Nat, S # {}
  PROVE  \E least \in S : \A n \in S : least <= n
<1>1. IsWellFoundedOn(Below, Nat)
  BY NatLessThanWellFounded, Zenon DEF OpToRel, Below
<1>2. PICK least \in S : \A n \in S : <<n, least>> \notin Below
  BY <1>1, WFMin, Zenon
<1>3. ASSUME NEW n \in S PROVE least <= n
  <2>1. <<n, least>> \in Below <=> n < least
    BY DEF Below
  <2> QED
    BY <1>2, <2>1
<1> QED
  BY <1>3

\* How many places of a set are up to a place.
Rank(places, i) == Cardinality({j \in places : j <= i})

LEMMA RankFacts ==
  ASSUME NEW L \in Nat, NEW I \in SUBSET (1..L)
  PROVE  /\ Cardinality(I) \in Nat /\ IsFiniteSet(I)
         /\ \A i \in 0..L : Rank(I, i) \in 0..Cardinality(I)
         /\ Rank(I, 0) = 0 /\ Rank(I, L) = Cardinality(I)
         /\ \A i \in 1..L : Rank(I, i) = IF i \in I THEN Rank(I, i - 1) + 1 ELSE Rank(I, i - 1)
         /\ \A i, j \in 0..L : i <= j => Rank(I, i) <= Rank(I, j)
<1>0. \A j \in I : j \in Nat /\ j >= 1 /\ j <= L
  OBVIOUS
<1>1. IsFiniteSet(1..L) /\ IsFiniteSet(I)
  <2>1. 1 \in Int /\ L \in Int
    OBVIOUS
  <2>2. IsFiniteSet(1..L)
    BY <2>1, FS_Interval
  <2> QED
    BY <2>2, FS_Subset
<1>2. \A i : {j \in I : j <= i} \in SUBSET I
  OBVIOUS
<1>3. \A i : IsFiniteSet({j \in I : j <= i})
  BY <1>1, <1>2, FS_Subset
<1>4. Cardinality(I) \in Nat /\ \A i : Rank(I, i) \in Nat
  BY <1>1, <1>3, FS_CardinalityType DEF Rank
<1>5. \A i : Rank(I, i) <= Cardinality(I)
  BY <1>1, <1>2, FS_Subset DEF Rank
<1>6. Rank(I, 0) = 0
  <2>1. \A j \in I : ~(j <= 0)
    BY <1>0
  <2>2. {j \in I : j <= 0} = {}
    BY <2>1, Zenon
  <2> QED
    BY <2>2, FS_EmptySet DEF Rank
<1>7. Rank(I, L) = Cardinality(I)
  <2>1. {j \in I : j <= L} = I
    BY <1>0, Zenon
  <2> QED
    BY <2>1 DEF Rank
<1>8. ASSUME NEW i \in 1..L
      PROVE  Rank(I, i) = IF i \in I THEN Rank(I, i - 1) + 1 ELSE Rank(I, i - 1)
  <2>1. CASE i \in I
    <3> DEFINE low == {j \in I : j <= i - 1}
    <3>1. \A j \in I : j <= i <=> j <= i - 1 \/ j = i
      BY <1>0
    <3>2. ~(i <= i - 1)
      OBVIOUS
    <3>3. {j \in I : j <= i} = low \cup {i}
      BY <2>1, <3>1, Zenon
    <3>4. i \notin low
      BY <3>2, Zenon
    <3>5. IsFiniteSet(low)
      BY <1>3
    <3>6. Cardinality(low \cup {i}) = Cardinality(low) + 1
      <4> HIDE DEF low
      <4> QED BY <3>4, <3>5, FS_AddElement
    <3> QED
      BY <2>1, <3>3, <3>6 DEF Rank
  <2>2. CASE i \notin I
    <3>0. \A j \in I : j <= i <=> j <= i - 1
      BY <1>0, <2>2
    <3>1. {j \in I : j <= i} = {j \in I : j <= i - 1}
      BY <3>0, Zenon
    <3> QED
      BY <2>2, <3>1 DEF Rank
  <2> QED
    BY <2>1, <2>2
<1>9. ASSUME NEW i \in 0..L, NEW j \in 0..L, i <= j
      PROVE  Rank(I, i) <= Rank(I, j)
  <2>0. \A k \in I : k <= i => k <= j
    BY <1>0, <1>9
  <2>1. {k \in I : k <= i} \in SUBSET {k \in I : k <= j}
    BY <2>0, Zenon
  <2> QED
    BY <1>3, <2>1, FS_Subset DEF Rank
<1> QED
  BY <1>1, <1>4, <1>5, <1>6, <1>7, <1>8, <1>9

\* What is picked keeps its order, and nothing else is there.
InOrderOf(q, I, r) ==
    \E from, to :
        /\ \A k \in DOMAIN r : from[k] \in I /\ r[k] = q[from[k]]
        /\ \A i \in I : to[i] \in DOMAIN r /\ r[to[i]] = q[i]
        /\ \A i \in I : from[to[i]] = i
        /\ \A k, m \in DOMAIN r : k < m <=> from[k] < from[m]
        /\ \A i, j \in I : i < j <=> to[i] < to[j]

LEMMA PickedFacts ==
  ASSUME NEW S, NEW q \in Seq(S), NEW I \in SUBSET (DOMAIN q), NEW r, r = Picked(q, I)
  PROVE  /\ r \in Seq(S)
         /\ InOrderOf(q, I, r)
<1> DEFINE n == Cardinality(I)
           from == [k \in 1..n |-> CHOOSE i \in I : Rank(I, i) = k]
           to == [i \in I |-> Rank(I, i)]
<1>0. Len(q) \in Nat /\ DOMAIN q = 1..Len(q)
  OBVIOUS
<1>1. /\ n \in Nat
      /\ \A i \in 0..Len(q) : Rank(I, i) \in 0..n
      /\ Rank(I, 0) = 0 /\ Rank(I, Len(q)) = n
      /\ \A i \in 1..Len(q) : Rank(I, i) = IF i \in I THEN Rank(I, i - 1) + 1 ELSE Rank(I, i - 1)
      /\ \A i, j \in 0..Len(q) : i <= j => Rank(I, i) <= Rank(I, j)
  BY <1>0, RankFacts
<1>2. r = [k \in 1..n |-> q[from[k]]]
  BY DEF Picked, Rank
<1> HIDE DEF n
<1>3. ASSUME NEW k \in 1..n PROVE \E i \in I : Rank(I, i) = k
  <2> DEFINE reach == {i \in 0..Len(q) : Rank(I, i) >= k}
  <2>1. reach \in SUBSET Nat /\ Len(q) \in reach
    BY <1>0, <1>1
  <2>2. PICK i \in reach : \A j \in reach : i <= j
    BY <2>1, LeastOf
  <2>3. i \in 1..Len(q) /\ Rank(I, i) >= k
    BY <1>1, <2>2
  <2>4. Rank(I, i - 1) < k
    BY <1>1, <2>2, <2>3
  <2> QED
    BY <1>1, <2>3, <2>4
<1>4. \A k \in 1..n : from[k] \in I /\ Rank(I, from[k]) = k
  BY <1>3
<1>5. ASSUME NEW i \in I, NEW j \in I, i < j PROVE Rank(I, i) < Rank(I, j)
  <2>1. i \in 1..Len(q) /\ j \in 1..Len(q) /\ i <= j - 1 /\ j - 1 \in 0..Len(q) /\ i \in 0..Len(q)
    BY <1>0, <1>5
  <2> QED
    BY <1>1, <2>1
<1>6. \A i \in I : to[i] \in 1..n
  <2> SUFFICES ASSUME NEW i \in I PROVE Rank(I, i) \in 1..n
    OBVIOUS
  <2>1. i \in 1..Len(q) /\ i - 1 \in 0..Len(q)
    BY <1>0
  <2> QED
    BY <1>1, <2>1
<1>7. \A i \in I : i \in Nat
  BY <1>0
<1>8. \A i, j \in I : i < j <=> Rank(I, i) < Rank(I, j)
  <2> SUFFICES ASSUME NEW i \in I, NEW j \in I PROVE i < j <=> Rank(I, i) < Rank(I, j)
    OBVIOUS
  <2>1. Rank(I, i) \in Nat /\ Rank(I, j) \in Nat
    BY <1>6
  <2>2. CASE i < j
    BY <1>5, <2>1, <2>2
  <2>3. CASE i = j
    BY <1>7, <2>1, <2>3
  <2>4. CASE j < i
    BY <1>5, <1>7, <2>1, <2>4
  <2> QED
    BY <1>7, <2>2, <2>3, <2>4
<1>9. \A i \in I : from[Rank(I, i)] = i
  <2> SUFFICES ASSUME NEW i \in I PROVE from[Rank(I, i)] = i
    OBVIOUS
  <2>1. Rank(I, i) \in 1..n
    BY <1>6
  <2>2. from[Rank(I, i)] \in I /\ Rank(I, from[Rank(I, i)]) = Rank(I, i)
    BY <1>4, <2>1
  <2> QED
    BY <1>7, <1>8, <2>1, <2>2
<1>10. \A k, m \in 1..n : k < m <=> from[k] < from[m]
  BY <1>4, <1>8
<1>11. \A i, j \in I : i < j <=> to[i] < to[j]
  BY <1>8
<1>12. \A k \in 1..n : q[from[k]] \in S
  BY <1>0, <1>4
<1>13. \A i \in I : from[to[i]] = i
  BY <1>9
<1> HIDE DEF from, to
<1>14. r \in Seq(S) /\ DOMAIN r = 1..n
  BY <1>1, <1>2, <1>12
<1>15. \A k \in DOMAIN r : from[k] \in I /\ r[k] = q[from[k]]
  BY <1>2, <1>4, <1>14
<1>16. \A i \in I : to[i] \in DOMAIN r /\ r[to[i]] = q[i]
  BY <1>2, <1>6, <1>13, <1>14
<1>17. InOrderOf(q, I, r)
  BY <1>10, <1>11, <1>13, <1>14, <1>15, <1>16, SMTT(60) DEF InOrderOf
<1> QED
  BY <1>14, <1>17

LEMMA Appended ==
  ASSUME NEW S, NEW q \in Seq(S), NEW e \in S, NEW r, r = Append(q, e)
  PROVE  /\ r \in Seq(S) /\ Len(q) \in Nat
         /\ DOMAIN q = 1..Len(q) /\ DOMAIN r = 1..(Len(q) + 1)
         /\ \A i \in DOMAIN q : i \in DOMAIN r /\ r[i] = q[i]
         /\ r[Len(q) + 1] = e /\ Len(q) + 1 \in DOMAIN r
         /\ \A i \in DOMAIN r : i \in DOMAIN q \/ i = Len(q) + 1
OBVIOUS

LEMMA Tailed ==
  ASSUME NEW S, NEW q \in Seq(S), q # <<>>, NEW r, r = Tail(q)
  PROVE  /\ r \in Seq(S) /\ Head(q) \in S /\ Len(q) \in Nat /\ Len(q) >= 1
         /\ DOMAIN q = 1..Len(q) /\ DOMAIN r = 1..(Len(q) - 1)
         /\ Head(q) = q[1] /\ 1 \in DOMAIN q
         /\ \A i \in DOMAIN r : i \in Nat /\ i >= 1 /\ i + 1 \in DOMAIN q /\ r[i] = q[i + 1]
         /\ \A i \in DOMAIN q : i = 1 \/ (i \in Nat /\ i > 1 /\ i - 1 \in DOMAIN r /\ q[i] = r[i - 1])
<1>1. Len(q) >= 1 /\ Len(q) \in Nat
  BY EmptySeq
<1>2. r \in Seq(S) /\ Len(r) = Len(q) - 1 /\ \A i \in 1..Len(r) : r[i] = q[i + 1]
  BY <1>1
<1> QED
  BY <1>1, <1>2

\* Two queues one behind the other.
LEMMA Joined ==
  ASSUME NEW S, NEW a \in Seq(S), NEW b \in Seq(S), NEW r, r = a \o b
  PROVE  /\ r \in Seq(S) /\ Len(a) \in Nat
         /\ \A i \in DOMAIN a : i \in DOMAIN r /\ r[i] = a[i] /\ i \in Nat /\ i <= Len(a)
         /\ \A i \in DOMAIN b : i \in Nat /\ i >= 1 /\ Len(a) + i \in DOMAIN r /\ r[Len(a) + i] = b[i]
         /\ \A i \in DOMAIN r : i \in Nat /\ (i \in DOMAIN a \/ (i > Len(a) /\ i - Len(a) \in DOMAIN b /\ r[i] = b[i - Len(a)]))
<1>1. /\ r \in Seq(S) /\ Len(r) = Len(a) + Len(b) /\ Len(a) \in Nat /\ Len(b) \in Nat
      /\ \A i \in 1..(Len(a) + Len(b)) : r[i] = IF i <= Len(a) THEN a[i] ELSE b[i - Len(a)]
  OBVIOUS
<1>2. DOMAIN r = 1..(Len(a) + Len(b)) /\ DOMAIN a = 1..Len(a) /\ DOMAIN b = 1..Len(b)
  BY <1>1
<1>3. ASSUME NEW i \in DOMAIN a PROVE i \in DOMAIN r /\ r[i] = a[i] /\ i \in Nat /\ i <= Len(a)
  BY <1>1, <1>2
<1>4. ASSUME NEW i \in DOMAIN b
      PROVE  i \in Nat /\ i >= 1 /\ Len(a) + i \in DOMAIN r /\ r[Len(a) + i] = b[i]
  BY <1>1, <1>2
<1>5. ASSUME NEW i \in DOMAIN r
      PROVE  i \in Nat /\ (i \in DOMAIN a \/ (i > Len(a) /\ i - Len(a) \in DOMAIN b /\ r[i] = b[i - Len(a)]))
  BY <1>1, <1>2
<1> QED
  BY <1>1, <1>3, <1>4, <1>5

-----------------------------------------------------------------------------

Packet == [kind : {"packet"}, take : Takes, number : Nat]

Sends ==
    [kind : {"recording.start"}, take : Takes] \cup [kind : {"recording.finish"}] \cup Packet

Starts(m) == m.kind = "recording.start"

Finishes(m) == m.kind = "recording.finish"

Of(m, s) == IsPacket(m) /\ m.take = s

Plain(q) == \A i \in DOMAIN q : IsPacket(q[i])

NoneOf(q, s) == \A i \in DOMAIN q : ~Of(q[i], s)

HasStart(q, s) == \E i \in DOMAIN q : Starts(q[i]) /\ q[i].take = s

\* Behind the start of a take are packets only.
StartsLast(q, s) ==
    \A i, j \in DOMAIN q : i < j /\ Starts(q[i]) /\ q[i].take = s => IsPacket(q[j])

\* A start follows a finish, and so does the first one if a take is held.
Alternating(q, held) ==
    /\ \A i, k \in DOMAIN q : i < k /\ Starts(q[i]) /\ Starts(q[k]) =>
         \E j \in DOMAIN q : i < j /\ j < k /\ Finishes(q[j])
    /\ \A k \in DOMAIN q : held /\ Starts(q[k]) => \E j \in DOMAIN q : j < k /\ Finishes(q[j])

\* Nothing finishes the last take that is started or held.
OpenEnd(q, held) ==
    \/ \E i \in DOMAIN q : Starts(q[i]) /\ \A j \in DOMAIN q : j > i => ~Finishes(q[j])
    \/ held /\ \A j \in DOMAIN q : ~Finishes(q[j])

LEMMA SendFacts ==
  ASSUME NEW m \in Sends
  PROVE  /\ IsPacket(m) \/ Starts(m) \/ Finishes(m)
         /\ ~(IsPacket(m) /\ Starts(m)) /\ ~(IsPacket(m) /\ Finishes(m)) /\ ~(Starts(m) /\ Finishes(m))
         /\ IsPacket(m) => m \in Packet /\ m.take \in Takes /\ m.number \in Nat
         /\ Starts(m) => m.take \in Takes
BY DEF Sends, Packet, IsPacket, Starts, Finishes

\* What a message at its end means for a queue.
Lengthened(q, e, r, held) ==
    /\ r \in Seq(Sends)
    /\ IsPacket(e) =>
         /\ Alternating(q, held) => Alternating(r, held)
         /\ OpenEnd(r, held) => OpenEnd(q, held)
         /\ Plain(q) => Plain(r)
    /\ Finishes(e) => (Alternating(q, held) => Alternating(r, held)) /\ ~OpenEnd(r, held)
    /\ Starts(e) => (Alternating(q, held) /\ ~OpenEnd(q, held) => Alternating(r, held))
    /\ \A s : HasStart(r, s) <=> HasStart(q, s) \/ (Starts(e) /\ e.take = s)
    /\ \A s : StartsLast(q, s) /\ (IsPacket(e) \/ ~HasStart(q, s)) => StartsLast(r, s)
    /\ \A s : NoneOf(q, s) /\ ~Of(e, s) => NoneOf(r, s)

LEMMA TextSent ==
  ASSUME NEW q \in Seq(Sends), NEW e \in Sends, NEW held \in BOOLEAN
  PROVE  Lengthened(q, e, Append(q, e), held)
<1> DEFINE r == Append(q, e)
           n == Len(q) + 1
<1>1. /\ r \in Seq(Sends) /\ n \in DOMAIN r /\ r[n] = e /\ n \in Nat
      /\ \A i \in DOMAIN q : i \in DOMAIN r /\ r[i] = q[i] /\ i \in Nat /\ i < n
      /\ \A i \in DOMAIN r : i \in DOMAIN q \/ i = n
  BY Appended
<1> HIDE DEF n, r
<1>2. /\ IsPacket(e) \/ Starts(e) \/ Finishes(e)
      /\ IsPacket(e) => ~Starts(e) /\ ~Finishes(e)
      /\ Finishes(e) => ~Starts(e)
      /\ \A i \in DOMAIN q : ~(Starts(q[i]) /\ Finishes(q[i]))
  BY SendFacts
<1>3. ASSUME Alternating(q, held), Starts(e) => ~OpenEnd(q, held) PROVE Alternating(r, held)
  <2>1. ASSUME NEW i \in DOMAIN r, NEW k \in DOMAIN r, i < k, Starts(r[i]), Starts(r[k])
        PROVE  \E j \in DOMAIN r : i < j /\ j < k /\ Finishes(r[j])
    <3>1. i \in DOMAIN q
      BY <1>1, <2>1
    <3>2. CASE k \in DOMAIN q
      BY <1>1, <1>3, <2>1, <3>1, <3>2 DEF Alternating
    <3>3. CASE k = n
      <4>1. \E j \in DOMAIN q : j > i /\ Finishes(q[j])
        BY <1>1, <1>3, <2>1, <3>1, <3>3 DEF OpenEnd
      <4> QED
        BY <1>1, <3>1, <3>3, <4>1
    <3> QED
      BY <1>1, <3>2, <3>3
  <2>2. ASSUME NEW k \in DOMAIN r, held, Starts(r[k])
        PROVE  \E j \in DOMAIN r : j < k /\ Finishes(r[j])
    <3>1. CASE k \in DOMAIN q
      BY <1>1, <1>3, <2>2, <3>1 DEF Alternating
    <3>2. CASE k = n
      BY <1>1, <1>3, <2>2, <3>2 DEF OpenEnd
    <3> QED
      BY <1>1, <3>1, <3>2
  <2> QED
    BY <2>1, <2>2 DEF Alternating
<1>4. IsPacket(e) /\ OpenEnd(r, held) => OpenEnd(q, held)
  BY <1>1, <1>2 DEF OpenEnd
<1>5. Finishes(e) => ~OpenEnd(r, held)
  BY <1>1, <1>2 DEF OpenEnd
<1>6. IsPacket(e) /\ Plain(q) => Plain(r)
  BY <1>1 DEF Plain
<1>7. \A s : HasStart(r, s) <=> HasStart(q, s) \/ (Starts(e) /\ e.take = s)
  BY <1>1 DEF HasStart
<1>8. ASSUME NEW s, StartsLast(q, s), IsPacket(e) \/ ~HasStart(q, s) PROVE StartsLast(r, s)
  <2> SUFFICES ASSUME NEW i \in DOMAIN r, NEW j \in DOMAIN r, i < j, Starts(r[i]), r[i].take = s
               PROVE  IsPacket(r[j])
    BY DEF StartsLast
  <2>1. i \in DOMAIN q
    BY <1>1
  <2> QED
    BY <1>1, <1>8, <2>1 DEF StartsLast, HasStart
<1>9. \A s : NoneOf(q, s) /\ ~Of(e, s) => NoneOf(r, s)
  BY <1>1 DEF NoneOf
<1> QED
  BY <1>1, <1>2, <1>3, <1>4, <1>5, <1>6, <1>7, <1>8, <1>9 DEF Lengthened, r

\* What it means for a queue that its first message is served.
Shortened(q, h, r, held) ==
    /\ r \in Seq(Sends) /\ h \in Sends
    /\ IsPacket(h) =>
         /\ Alternating(q, held) => Alternating(r, held)
         /\ OpenEnd(r, held) => OpenEnd(q, held)
    /\ Finishes(h) =>
         /\ Alternating(q, held) => Alternating(r, FALSE)
         /\ OpenEnd(r, FALSE) => OpenEnd(q, held)
    /\ Starts(h) =>
         /\ Alternating(q, held) => ~held /\ Alternating(r, TRUE)
         /\ OpenEnd(r, TRUE) => OpenEnd(q, held)
    /\ Plain(q) => Plain(r) /\ IsPacket(h)
    /\ \A s : HasStart(q, s) <=> HasStart(r, s) \/ (Starts(h) /\ h.take = s)
    /\ \A s : StartsLast(q, s) => StartsLast(r, s) /\ (Starts(h) /\ h.take = s => Plain(r))
    /\ \A s : NoneOf(q, s) => NoneOf(r, s)

LEMMA TextServed ==
  ASSUME NEW q \in Seq(Sends), q # <<>>, NEW held \in BOOLEAN
  PROVE  Shortened(q, Head(q), Tail(q), held)
<1> DEFINE r == Tail(q)
           h == Head(q)
           low(i) == i - 1
           up(i) == i + 1
<1>1. /\ r \in Seq(Sends) /\ h \in Sends /\ h = q[1] /\ 1 \in DOMAIN q
      /\ \A i \in DOMAIN r : i \in Nat /\ i >= 1 /\ up(i) \in DOMAIN q /\ r[i] = q[up(i)]
      /\ \A i \in DOMAIN q : i = 1 \/ (i \in Nat /\ i > 1 /\ low(i) \in DOMAIN r /\ q[i] = r[low(i)])
  BY Tailed
<1>2. /\ \A i, j \in Nat : (i < j <=> up(i) < up(j)) /\ up(i) \in Nat
      /\ \A i, j \in Nat : i > 1 /\ j > 1 => (i < j <=> low(i) < low(j)) /\ low(i) \in Nat
      /\ \A i \in Nat : i >= 1 => up(i) > 1
      /\ \A i \in Nat : low(up(i)) = i /\ up(low(i)) = i
      /\ \A i \in Nat : ~(1 < i /\ i < 1) /\ ~(i < 1 /\ i >= 1)
  OBVIOUS
<1>3. /\ IsPacket(h) => ~Starts(h) /\ ~Finishes(h)
      /\ Finishes(h) => ~Starts(h)
      /\ Starts(h) => ~Finishes(h)
  BY <1>1, SendFacts
<1>0. \A i \in DOMAIN q : i \in Nat /\ i >= 1
  BY <1>1
<1> HIDE DEF low, up, h, r
<1>4. ASSUME Alternating(q, held)
      PROVE  \A i, k \in DOMAIN r : i < k /\ Starts(r[i]) /\ Starts(r[k]) =>
               \E j \in DOMAIN r : i < j /\ j < k /\ Finishes(r[j])
  <2> SUFFICES ASSUME NEW i \in DOMAIN r, NEW k \in DOMAIN r, i < k, Starts(r[i]), Starts(r[k])
               PROVE  \E j \in DOMAIN r : i < j /\ j < k /\ Finishes(r[j])
    OBVIOUS
  <2>1. PICK j \in DOMAIN q : up(i) < j /\ j < up(k) /\ Finishes(q[j])
    BY <1>1, <1>2, <1>4 DEF Alternating
  <2>2. i \in Nat /\ k \in Nat /\ up(i) > 1 /\ up(k) > 1 /\ up(i) \in Nat /\ up(k) \in Nat
        /\ low(up(i)) = i /\ low(up(k)) = k
    BY <1>1, <1>2
  <2>3. j # 1 /\ j \in Nat /\ j > 1 /\ low(j) \in DOMAIN r /\ q[j] = r[low(j)]
    BY <1>0, <1>1, <2>1, <2>2
  <2>4. i < low(j) /\ low(j) < k
    BY <1>2, <2>1, <2>2, <2>3
  <2> QED
    BY <2>1, <2>3, <2>4
<1>5. ASSUME Alternating(q, held), NEW k \in DOMAIN r, Starts(r[k]), held \/ Starts(h), ~Finishes(h)
      PROVE  \E j \in DOMAIN r : j < k /\ Finishes(r[j])
  <2>1. up(k) \in DOMAIN q /\ Starts(q[up(k)]) /\ 1 < up(k) /\ k \in Nat /\ low(up(k)) = k
        /\ up(k) \in Nat
    BY <1>1, <1>2, <1>5
  <2>2. PICK j \in DOMAIN q : j < up(k) /\ Finishes(q[j])
    BY <1>1, <1>5, <2>1 DEF Alternating
  <2>3. j # 1 /\ j \in Nat /\ j > 1 /\ low(j) \in DOMAIN r /\ q[j] = r[low(j)]
    BY <1>1, <1>5, <2>2
  <2>4. low(j) < k
    BY <1>2, <2>1, <2>2, <2>3
  <2> QED
    BY <2>2, <2>3, <2>4
<1>6. ASSUME Alternating(q, held) PROVE ~(Starts(h) /\ held)
  <2> SUFFICES ASSUME Starts(h), held PROVE FALSE
    OBVIOUS
  <2>1. \E j \in DOMAIN q : j < 1 /\ Finishes(q[j])
    BY <1>1, <1>6 DEF Alternating
  <2> QED
    BY <1>0, <1>2, <2>1
<1>7. ASSUME NEW last \in BOOLEAN, OpenEnd(r, last),
             last => (Starts(h) \/ (held /\ ~Finishes(h)))
      PROVE  OpenEnd(q, held)
  <2>1. CASE \E i \in DOMAIN r : Starts(r[i]) /\ \A j \in DOMAIN r : j > i => ~Finishes(r[j])
    <3>1. PICK i \in DOMAIN r : Starts(r[i]) /\ \A j \in DOMAIN r : j > i => ~Finishes(r[j])
      BY <2>1
    <3>2. \A j \in DOMAIN q : j > up(i) => j # 1 /\ low(j) > i
      BY <1>1, <1>2
    <3> QED
      BY <1>1, <3>1, <3>2 DEF OpenEnd
  <2>2. CASE last /\ \A j \in DOMAIN r : ~Finishes(r[j])
    <3>1. \A j \in DOMAIN q : j > 1 => ~Finishes(q[j])
      BY <1>1, <2>2
    <3> QED
      BY <1>0, <1>1, <1>7, <2>2, <3>1 DEF OpenEnd
  <2> QED
    BY <1>7, <2>1, <2>2 DEF OpenEnd
<1>8. Plain(q) => Plain(r) /\ IsPacket(h)
  BY <1>1 DEF Plain
<1>9. \A s : HasStart(q, s) <=> HasStart(r, s) \/ (Starts(h) /\ h.take = s)
  BY <1>1 DEF HasStart
<1>10. ASSUME NEW s, StartsLast(q, s)
       PROVE  StartsLast(r, s) /\ (Starts(h) /\ h.take = s => Plain(r))
  <2>1. ASSUME NEW i \in DOMAIN r, NEW j \in DOMAIN r, i < j, Starts(r[i]), r[i].take = s
        PROVE  IsPacket(r[j])
    <3>1. up(i) < up(j)
      BY <1>1, <1>2, <2>1
    <3> QED
      BY <1>1, <1>10, <2>1, <3>1 DEF StartsLast
  <2>2. Starts(h) /\ h.take = s => Plain(r)
    BY <1>1, <1>2, <1>10 DEF StartsLast, Plain
  <2> QED
    BY <2>1, <2>2 DEF StartsLast
<1>11. \A s : NoneOf(q, s) => NoneOf(r, s)
  BY <1>1 DEF NoneOf
<1>12. IsPacket(h) =>
         /\ Alternating(q, held) => Alternating(r, held)
         /\ OpenEnd(r, held) => OpenEnd(q, held)
  BY <1>3, <1>4, <1>5, <1>7 DEF Alternating
<1>13. Finishes(h) =>
         /\ Alternating(q, held) => Alternating(r, FALSE)
         /\ OpenEnd(r, FALSE) => OpenEnd(q, held)
  BY <1>3, <1>4, <1>7 DEF Alternating
<1>14. Starts(h) =>
         /\ Alternating(q, held) => ~held /\ Alternating(r, TRUE)
         /\ OpenEnd(r, TRUE) => OpenEnd(q, held)
  BY <1>3, <1>4, <1>5, <1>6, <1>7 DEF Alternating
<1> QED
  BY <1>1, <1>8, <1>9, <1>10, <1>11, <1>12, <1>13, <1>14 DEF Shortened, h, r

\* Texts go before the packets that wait: what they say stays the same.
SameTexts(q, r) ==
    /\ r \in Seq(Sends)
    /\ Alternating(q, FALSE) => Alternating(r, FALSE)
    /\ OpenEnd(r, FALSE) => OpenEnd(q, FALSE)
    /\ \A s : HasStart(r, s) => HasStart(q, s)
    /\ \A s : StartsLast(q, s) => StartsLast(r, s)

LEMMA TextPicked ==
  ASSUME NEW q \in Seq(Sends), NEW I \in SUBSET (DOMAIN q),
         \A i \in DOMAIN q : i \in I \/ IsPacket(q[i])
  PROVE  SameTexts(q, Picked(q, I))
<1> DEFINE r == Picked(q, I)
<1>1. r \in Seq(Sends) /\ InOrderOf(q, I, r)
  BY PickedFacts
<1> HIDE DEF r
<1>2. PICK from, to :
        /\ \A k \in DOMAIN r : from[k] \in I /\ r[k] = q[from[k]]
        /\ \A i \in I : to[i] \in DOMAIN r /\ r[to[i]] = q[i]
        /\ \A i \in I : from[to[i]] = i
        /\ \A k, m \in DOMAIN r : k < m <=> from[k] < from[m]
        /\ \A i, j \in I : i < j <=> to[i] < to[j]
  BY <1>1 DEF InOrderOf
<1>3. /\ \A i \in I : i \in DOMAIN q
      /\ \A i \in DOMAIN q : Finishes(q[i]) => i \in I
  BY SendFacts
<1>4. ASSUME Alternating(q, FALSE), NEW i \in DOMAIN r, NEW k \in DOMAIN r, i < k,
             Starts(r[i]), Starts(r[k])
      PROVE  \E j \in DOMAIN r : i < j /\ j < k /\ Finishes(r[j])
  <2>1. PICK j \in DOMAIN q : from[i] < j /\ j < from[k] /\ Finishes(q[j])
    BY <1>2, <1>3, <1>4 DEF Alternating
  <2>2. j \in I /\ from[to[j]] = j /\ to[j] \in DOMAIN r /\ Finishes(r[to[j]])
    BY <1>2, <1>3, <2>1
  <2>3. i < to[j] /\ to[j] < k
    BY <1>2, <2>1, <2>2
  <2> QED
    BY <2>2, <2>3
<1>5. ASSUME OpenEnd(r, FALSE) PROVE OpenEnd(q, FALSE)
  <2>1. PICK i \in DOMAIN r : Starts(r[i]) /\ \A j \in DOMAIN r : j > i => ~Finishes(r[j])
    BY <1>5 DEF OpenEnd
  <2>2. ASSUME NEW j \in DOMAIN q, j > from[i], Finishes(q[j]) PROVE FALSE
    <3>1. j \in I /\ from[to[j]] = j /\ to[j] \in DOMAIN r /\ Finishes(r[to[j]])
      BY <1>2, <1>3, <2>2
    <3>2. from[i] < from[to[j]] => i < to[j]
      BY <1>2, <2>1, <3>1
    <3> QED
      BY <2>1, <2>2, <3>1, <3>2
  <2> QED
    BY <1>2, <1>3, <2>1, <2>2 DEF OpenEnd
<1>6. \A s : HasStart(r, s) => HasStart(q, s)
  BY <1>2, <1>3 DEF HasStart
<1>7. \A s : StartsLast(q, s) => StartsLast(r, s)
  BY <1>2, <1>3 DEF StartsLast
<1> QED
  BY <1>1, <1>4, <1>5, <1>6, <1>7 DEF Alternating, SameTexts, r

\* Packets that go behind change nothing of what the texts say.
Extended(a, b, r, held) ==
    /\ r \in Seq(Sends)
    /\ Alternating(a, held) => Alternating(r, held)
    /\ OpenEnd(r, held) => OpenEnd(a, held)
    /\ \A s : HasStart(r, s) <=> HasStart(a, s)
    /\ \A s : StartsLast(a, s) => StartsLast(r, s)
    /\ Plain(a) => Plain(r)
    /\ \A s : NoneOf(a, s) /\ NoneOf(b, s) => NoneOf(r, s)

LEMMA TextJoined ==
  ASSUME NEW a \in Seq(Sends), NEW b \in Seq(Sends), Plain(b), NEW held \in BOOLEAN
  PROVE  Extended(a, b, a \o b, held)
<1> DEFINE r == a \o b
           n == Len(a)
<1>1. /\ r \in Seq(Sends)
      /\ \A i \in DOMAIN a : i \in DOMAIN r /\ r[i] = a[i] /\ i \in Nat /\ i <= n
      /\ \A i \in DOMAIN r : i \in Nat /\ (i \in DOMAIN a \/ (i > n /\ i - n \in DOMAIN b /\ r[i] = b[i - n]))
      /\ n \in Nat
  BY Joined
<1> HIDE DEF n, r
<1>2. /\ \A i \in DOMAIN b : IsPacket(b[i]) /\ ~Starts(b[i]) /\ ~Finishes(b[i])
  BY SendFacts DEF Plain
<1>3. \A i \in DOMAIN r : i \in DOMAIN a \/ (i > n /\ IsPacket(r[i]) /\ ~Starts(r[i]) /\ ~Finishes(r[i]))
  BY <1>1, <1>2
<1>4. Alternating(a, held) => Alternating(r, held)
  <2> SUFFICES ASSUME Alternating(a, held) PROVE Alternating(r, held)
    OBVIOUS
  <2>1. ASSUME NEW i \in DOMAIN r, NEW k \in DOMAIN r, i < k, Starts(r[i]), Starts(r[k])
        PROVE  \E j \in DOMAIN r : i < j /\ j < k /\ Finishes(r[j])
    <3>1. i \in DOMAIN a /\ k \in DOMAIN a
      BY <1>3, <2>1
    <3>2. PICK j \in DOMAIN a : i < j /\ j < k /\ Finishes(a[j])
      BY <1>1, <2>1, <3>1 DEF Alternating
    <3> QED
      BY <1>1, <3>2
  <2>2. ASSUME NEW k \in DOMAIN r, held, Starts(r[k])
        PROVE  \E j \in DOMAIN r : j < k /\ Finishes(r[j])
    BY <1>1, <1>3, <2>2 DEF Alternating
  <2> QED
    BY <2>1, <2>2 DEF Alternating
<1>5. OpenEnd(r, held) => OpenEnd(a, held)
  BY <1>1, <1>3 DEF OpenEnd
<1>6. \A s : HasStart(r, s) <=> HasStart(a, s)
  BY <1>1, <1>3 DEF HasStart
<1>7. \A s : StartsLast(a, s) => StartsLast(r, s)
  BY <1>1, <1>3 DEF StartsLast
<1>8. Plain(a) => Plain(r)
  BY <1>1, <1>3 DEF Plain
<1>9. \A s : NoneOf(a, s) /\ NoneOf(b, s) => NoneOf(r, s)
  BY <1>1 DEF NoneOf
<1> QED
  BY <1>1, <1>4, <1>5, <1>6, <1>7, <1>8, <1>9 DEF Extended, r

\* The packets of a take are numbered from one to n, in this order.
Counts(q, s, n) ==
    /\ \A i \in DOMAIN q : Of(q[i], s) => q[i].number \in 1..n
    /\ \A k \in 1..n : \E i \in DOMAIN q : Of(q[i], s) /\ q[i].number = k
    /\ \A i, j \in DOMAIN q : i < j /\ Of(q[i], s) /\ Of(q[j], s) => q[i].number < q[j].number

\* The packets of a take are the same, and in the same order.
LEMMA CountMoved ==
  ASSUME NEW q, NEW r, NEW s, NEW n, NEW from, NEW to, Counts(q, s, n),
         \A k \in DOMAIN r : Of(r[k], s) => from[k] \in DOMAIN q /\ q[from[k]] = r[k],
         \A i \in DOMAIN q : Of(q[i], s) => to[i] \in DOMAIN r /\ r[to[i]] = q[i],
         \A k, m \in DOMAIN r : k < m /\ Of(r[k], s) /\ Of(r[m], s) => from[k] < from[m]
  PROVE  Counts(r, s, n)
<1>1. \A i \in DOMAIN r : Of(r[i], s) => r[i].number \in 1..n
  BY DEF Counts
<1>2. \A k \in 1..n : \E i \in DOMAIN r : Of(r[i], s) /\ r[i].number = k
  BY DEF Counts
<1>3. \A i, j \in DOMAIN r : i < j /\ Of(r[i], s) /\ Of(r[j], s) => r[i].number < r[j].number
  BY DEF Counts
<1> QED
  BY <1>1, <1>2, <1>3 DEF Counts

LEMMA CountOther ==
  ASSUME NEW q \in Seq(Sends), NEW e \in Sends, NEW s, NEW n, Counts(q, s, n), ~Of(e, s)
  PROVE  Counts(Append(q, e), s, n)
<1> DEFINE r == Append(q, e)
           last == Len(q) + 1
<1>1. /\ last \in DOMAIN r /\ r[last] = e /\ last \in Nat
      /\ \A i \in DOMAIN q : i \in DOMAIN r /\ r[i] = q[i] /\ i \in Nat /\ i < last
      /\ \A i \in DOMAIN r : i \in DOMAIN q \/ i = last
  BY Appended
<1> HIDE DEF last, r
<1> QED
  BY <1>1 DEF Counts, r

LEMMA CountNext ==
  ASSUME NEW q \in Seq(Sends), NEW e \in Sends, NEW s, NEW n \in Nat, Counts(q, s, n),
         Of(e, s), e.number = n + 1
  PROVE  Counts(Append(q, e), s, n + 1)
<1> DEFINE r == Append(q, e)
           last == Len(q) + 1
<1>1. /\ last \in DOMAIN r /\ r[last] = e /\ last \in Nat
      /\ \A i \in DOMAIN q : i \in DOMAIN r /\ r[i] = q[i] /\ i \in Nat /\ i < last
      /\ \A i \in DOMAIN r : i \in DOMAIN q \/ i = last
  BY Appended
<1> HIDE DEF last, r
<1>2. \A i \in DOMAIN r : Of(r[i], s) => r[i].number \in 1..(n + 1)
  BY <1>1 DEF Counts
<1>3. ASSUME NEW k \in 1..(n + 1)
      PROVE  \E i \in DOMAIN r : Of(r[i], s) /\ r[i].number = k
  <2>1. CASE k = n + 1
    BY <1>1, <2>1
  <2>2. CASE k \in 1..n
    BY <1>1, <2>2 DEF Counts
  <2> QED
    BY <2>1, <2>2
<1>4. ASSUME NEW i \in DOMAIN r, NEW j \in DOMAIN r, i < j, Of(r[i], s), Of(r[j], s)
      PROVE  r[i].number < r[j].number
  <2>1. i \in DOMAIN q
    BY <1>1, <1>4
  <2>2. CASE j \in DOMAIN q
    BY <1>1, <1>4, <2>1, <2>2 DEF Counts
  <2>3. CASE j = last
    <3>1. r[i].number \in 1..n
      BY <1>1, <1>4, <2>1 DEF Counts
    <3> QED
      BY <1>1, <2>3, <3>1
  <2> QED
    BY <1>1, <2>2, <2>3
<1> QED
  BY <1>2, <1>3, <1>4 DEF Counts, r

\* What leaves the front of the second queue comes to the end of the first.
LEMMA JoinedServed ==
  ASSUME NEW a \in Seq(Sends), NEW b \in Seq(Sends), b # <<>>
  PROVE  Append(a, Head(b)) \o Tail(b) = a \o b
<1> DEFINE c == Tail(b)
           d == Append(a, Head(b))
<1>1. /\ c \in Seq(Sends) /\ Head(b) \in Sends /\ d \in Seq(Sends)
  BY EmptySeq
<1>2. d \o c = a \o b
  <2>1. Len(d \o c) = Len(a \o b) /\ d \o c \in Seq(Sends) /\ a \o b \in Seq(Sends)
    BY <1>1, EmptySeq
  <2>2. Len(b) >= 1 /\ Len(b) \in Nat /\ Len(a) \in Nat
    BY EmptySeq
  <2>3. \A i \in 1..Len(a \o b) : (d \o c)[i] = (a \o b)[i]
    BY <1>1, <2>2, EmptySeq
  <2> DEFINE x == d \o c
             y == a \o b
  <2>4. x \in Seq(Sends) /\ y \in Seq(Sends) /\ Len(x) = Len(y) /\ \A i \in 1..Len(y) : x[i] = y[i]
    BY <2>1, <2>3
  <2>5. x = y
    <3> HIDE DEF x, y
    <3> QED
      BY <2>4, SeqEqual
  <2> QED
    BY <2>5
<1> QED
  BY <1>2

LEMMA CountAlone ==
  ASSUME NEW a \in Seq(Sends), NEW b \in Seq(Sends), NEW s, NEW n
  PROVE  /\ Counts(a \o b, s, n) /\ NoneOf(b, s) => Counts(a, s, n)
         /\ NoneOf(a, s) /\ Counts(b, s, n) => Counts(a \o b, s, n)
<1> DEFINE r == a \o b
           la == Len(a)
<1>1. /\ \A i \in DOMAIN a : i \in DOMAIN r /\ r[i] = a[i] /\ i \in Nat /\ i <= la
      /\ \A i \in DOMAIN b : i \in Nat /\ i >= 1 /\ la + i \in DOMAIN r /\ r[la + i] = b[i]
      /\ \A i \in DOMAIN r : i \in Nat /\ (i \in DOMAIN a \/ (i > la /\ i - la \in DOMAIN b /\ r[i] = b[i - la]))
      /\ la \in Nat
  BY Joined
<1> HIDE DEF r, la
<1>2. ASSUME Counts(r, s, n), NoneOf(b, s) PROVE Counts(a, s, n)
  BY <1>1, <1>2 DEF Counts, NoneOf
<1>3. ASSUME NoneOf(a, s), Counts(b, s, n) PROVE Counts(r, s, n)
  <2> DEFINE from == [k \in DOMAIN r |-> k - la]
             to == [i \in DOMAIN b |-> la + i]
  <2>1. \A k \in DOMAIN r : Of(r[k], s) => from[k] \in DOMAIN b /\ b[from[k]] = r[k]
    BY <1>1, <1>3 DEF NoneOf
  <2>2. \A i \in DOMAIN b : to[i] \in DOMAIN r /\ r[to[i]] = b[i]
    BY <1>1
  <2>3. \A k, m \in DOMAIN r : k < m => from[k] < from[m]
    BY <1>1
  <2> HIDE DEF from, to
  <2> QED
    BY <1>3, <2>1, <2>2, <2>3, CountMoved
<1> QED
  BY <1>2, <1>3 DEF r

LEMMA CountPicked ==
  ASSUME NEW q \in Seq(Sends), NEW I \in SUBSET (DOMAIN q), NEW r, r = Picked(q, I),
         NEW s, NEW n, Counts(q, s, n), \A i \in DOMAIN q : IsPacket(q[i]) => i \in I
  PROVE  Counts(r, s, n)
<1>1. r \in Seq(Sends) /\ InOrderOf(q, I, r)
  BY PickedFacts
<1>2. PICK from, to :
        /\ \A k \in DOMAIN r : from[k] \in I /\ r[k] = q[from[k]]
        /\ \A i \in I : to[i] \in DOMAIN r /\ r[to[i]] = q[i]
        /\ \A i \in I : from[to[i]] = i
        /\ \A k, m \in DOMAIN r : k < m <=> from[k] < from[m]
        /\ \A i, j \in I : i < j <=> to[i] < to[j]
  BY <1>1 DEF InOrderOf
<1>3. \A k \in DOMAIN r : from[k] \in DOMAIN q /\ q[from[k]] = r[k]
  BY <1>2
<1>4. \A i \in DOMAIN q : Of(q[i], s) => to[i] \in DOMAIN r /\ r[to[i]] = q[i]
  BY <1>2 DEF Of
<1> QED
  BY <1>2, <1>3, <1>4, CountMoved

\* To pick all is to leave a queue as it is, and to pick nothing leaves nothing.
LEMMA PickedEnds ==
  ASSUME NEW S, NEW q \in Seq(S)
  PROVE  Picked(q, DOMAIN q) = q /\ Picked(q, {}) = <<>>
<1>0. Len(q) \in Nat /\ DOMAIN q = 1..Len(q)
  OBVIOUS
<1>1. Picked(q, {}) = <<>>
  <2>1. Cardinality({}) = 0
    BY FS_EmptySet
  <2>2. 1..0 = {}
    OBVIOUS
  <2> QED
    BY <2>1, <2>2 DEF Picked
<1>2. Picked(q, DOMAIN q) = q
  <2>1. Cardinality(1..Len(q)) = Len(q)
    BY <1>0, FS_Interval
  <2>2. ASSUME NEW i \in 1..Len(q) PROVE Cardinality({j \in 1..Len(q) : j <= i}) = i
    <3>1. {j \in 1..Len(q) : j <= i} = 1..i
      BY <1>0
    <3>2. i \in Int /\ 1 \in Int /\ ~(1 > i) /\ i - 1 + 1 = i
      BY <1>0
    <3> QED
      BY <3>1, <3>2, FS_Interval
  <2> DEFINE I == DOMAIN q
             from == [k \in 1..Cardinality(I) |-> CHOOSE i \in I : Rank(I, i) = k]
  <2>3. Picked(q, I) = [k \in 1..Cardinality(I) |-> q[from[k]]]
    BY DEF Picked, Rank
  <2>4. \A k \in 1..Cardinality(I) : from[k] = k
    <3>1. \A i \in I : Rank(I, i) = i
      BY <1>0, <2>2 DEF Rank
    <3> QED
      BY <1>0, <2>1, <3>1
  <2>5. Cardinality(I) = Len(q)
    BY <1>0, <2>1
  <2> HIDE DEF from
  <2>6. Picked(q, I) = [k \in 1..Len(q) |-> q[k]]
    BY <2>3, <2>4, <2>5
  <2> QED
    BY <1>0, <2>6
<1> QED
  BY <1>1, <1>2

\* What is picked of a counted queue is the numbers from one to n.
LEMMA CountWhole ==
  ASSUME NEW q \in Seq(Packet), NEW s \in Takes, NEW n \in Nat, Counts(q, s, n)
  PROVE  Picked(q, {i \in DOMAIN q : q[i].take = s})
           = [k \in 1..n |-> [kind |-> "packet", take |-> s, number |-> k]]
<1> DEFINE I == {i \in DOMAIN q : q[i].take = s}
           r == Picked(q, I)
           w == [k \in 1..n |-> [kind |-> "packet", take |-> s, number |-> k]]
<1>0. I \in SUBSET (DOMAIN q) /\ \A i \in DOMAIN q : i \in I <=> Of(q[i], s)
  <2>1. \A i \in DOMAIN q : q[i] \in Packet
    OBVIOUS
  <2> QED
    BY <2>1 DEF Packet, Of, IsPacket
<1>1. r \in Seq(Packet) /\ InOrderOf(q, I, r)
  BY <1>0, PickedFacts
<1> HIDE DEF I, r
<1>2. PICK from, to :
        /\ \A k \in DOMAIN r : from[k] \in I /\ r[k] = q[from[k]]
        /\ \A i \in I : to[i] \in DOMAIN r /\ r[to[i]] = q[i]
        /\ \A i \in I : from[to[i]] = i
        /\ \A k, m \in DOMAIN r : k < m <=> from[k] < from[m]
        /\ \A i, j \in I : i < j <=> to[i] < to[j]
  BY <1>1 DEF InOrderOf
<1>3. \A k \in DOMAIN r : from[k] \in DOMAIN q /\ Of(r[k], s) /\ q[from[k]] = r[k]
  BY <1>0, <1>2
<1>4. \A i \in DOMAIN q : Of(q[i], s) => to[i] \in DOMAIN r /\ r[to[i]] = q[i]
  BY <1>0, <1>2
<1>5. Counts(r, s, n)
  BY <1>2, <1>3, <1>4, CountMoved
<1> DEFINE len == Len(r)
<1>6. len \in Nat /\ DOMAIN r = 1..len
  BY <1>1
<1> HIDE DEF len
<1>7. /\ \A i \in 1..len : r[i].number \in 1..n
      /\ \A k \in 1..n : \E i \in 1..len : r[i].number = k
      /\ \A i, j \in 1..len : i < j => r[i].number < r[j].number
  BY <1>3, <1>5, <1>6 DEF Counts
<1>8. \A k \in 1..len : r[k].number = k
  <2> DEFINE odd == {k \in 1..len : r[k].number # k}
  <2> SUFFICES ASSUME odd # {} PROVE FALSE
    OBVIOUS
  <2>1. odd \in SUBSET Nat
    BY <1>6
  <2>2. PICK k \in odd : \A m \in odd : k <= m
    BY <2>1, LeastOf
  <2>3. k \in 1..len /\ r[k].number # k /\ k \in Nat /\ r[k].number \in 1..n
    BY <1>6, <1>7, <2>2
  <2>4. \A m \in 1..len : m < k => r[m].number = m
    BY <1>6, <2>2, <2>3
  <2>5. r[k].number > k
    <3>1. CASE k = 1
      BY <2>3, <3>1
    <3>2. CASE k > 1
      <4>1. k - 1 \in 1..len /\ k - 1 < k
        BY <1>6, <2>3, <3>2
      <4>2. r[k - 1].number = k - 1 /\ r[k - 1].number < r[k].number
        BY <1>7, <2>3, <2>4, <4>1
      <4> QED
        BY <2>3, <4>2
    <3> QED
      BY <1>6, <2>3, <3>1, <3>2
  <2>6. k \in 1..n
    BY <2>3, <2>5
  <2>7. PICK m \in 1..len : r[m].number = k
    BY <1>7, <2>6
  <2>8. CASE m < k
    BY <1>6, <2>3, <2>4, <2>7, <2>8
  <2>9. CASE m = k
    BY <2>3, <2>7, <2>9
  <2>10. CASE m > k
    <3>1. r[k].number < r[m].number
      BY <1>6, <1>7, <2>3, <2>10
    <3> QED
      BY <2>3, <2>5, <2>7, <3>1
  <2> QED
    BY <1>6, <2>3, <2>8, <2>9, <2>10
<1>9. len = n
  <2>1. n > 0 => \E i \in 1..len : i = n
    BY <1>7, <1>8
  <2>2. len > 0 => len \in 1..n
    BY <1>6, <1>7, <1>8
  <2> QED
    BY <1>6, <2>1, <2>2
<1>10. \A k \in 1..n : r[k] = w[k]
  <2> SUFFICES ASSUME NEW k \in 1..n PROVE r[k] = [kind |-> "packet", take |-> s, number |-> k]
    OBVIOUS
  <2>1. r[k] \in Packet /\ r[k].take = s /\ r[k].number = k
    BY <1>1, <1>3, <1>6, <1>8, <1>9 DEF Of
  <2> QED
    BY <2>1 DEF Packet
<1>11. r = w
  BY <1>1, <1>6, <1>9, <1>10
<1> QED
  BY <1>11 DEF r, I

\* The values of the variables.
Maybe == {NoTake} \cup Takes

News == [kind : {"started", "finished"}, take : Takes] \cup [kind : {"close"}]

Orders ==
    [kind : {"start"}, take : Takes, draft : BOOLEAN] \cup [kind : {"finish"}, take : Takes]

Nets ==
    [socket : {"connecting", "open", "gone"}, pending : Seq(Sends), up : Seq(Sends),
     down : Seq(News)]

Stages ==
    [stream : Maybe, draft : BOOLEAN, session : Maybe, ready : BOOLEAN,
     started : SUBSET Takes, over : SUBSET Takes, closed : SUBSET Takes,
     gaveUp : SUBSET Takes, failed : SUBSET Takes, rushed : BOOLEAN,
     chain : [Takes -> Waits \cup {"none", "done"}],
     cleanup : [Takes -> Waits \cup {"none", "done"}]]

Rooms ==
    [take : Maybe, refused : Maybe, waiting : Maybe, other : {"none", "edit", "take"},
     ended : SUBSET Takes, stored : [Takes -> Seq(Packet)]]

Singers ==
    [at : {"idle", "recording", "flushing", "finishing"}, take : Maybe, promise : Maybe,
     misled : BOOLEAN]

Pipes == [Takes -> [posted : Nat, flushed : BOOLEAN, read : Nat, flushRead : BOOLEAN]]

WireType ==
    /\ singer \in Singers /\ toDecoder \in Seq(Orders) /\ toSinger \in Seq(Takes)
    /\ pipe \in Pipes /\ stage \in Stages /\ wire \in Nets /\ room \in Rooms

-----------------------------------------------------------------------------

(* The main thread and the stage.                                          *)

Ordered(orders, s) == \E i \in DOMAIN orders : orders[i].kind = "start" /\ orders[i].take = s

AnyStart(orders) == \E i \in DOMAIN orders : orders[i].kind = "start"

Finishing == {"finish", "done"}

\* Orders are about takes that were begun.  A start that the decoder has not met
\* is that of the last take, at most its finish is behind it, and no stream is
\* open; the take of a stream that is open is the last one, at most its finish is
\* ordered.  The promise of either is held and nobody has said that it is over.
Led(orders, heard, sg, st, pp) ==
    /\ \A i \in DOMAIN heard : heard[i] <= sg.take
    /\ \A i \in DOMAIN orders : orders[i].take <= sg.take
    /\ \A i \in DOMAIN orders : orders[i].kind = "start" =>
         /\ orders[i].take = sg.take /\ st.stream = NoTake
         /\ \A j \in DOMAIN orders : j > i =>
              j = i + 1 /\ orders[j].kind = "finish" /\ sg.at = "finishing"
         /\ \A j \in DOMAIN orders : j < i => orders[j].take < sg.take
    /\ st.stream # NoTake =>
         /\ st.stream = sg.take
         /\ \A i \in DOMAIN orders :
              i = 1 /\ orders[i].kind = "finish" /\ st.chain[st.stream] = "none"
         /\ orders # <<>> \/ st.chain[st.stream] # "none" => sg.at = "finishing"
    /\ AnyStart(orders) \/ st.stream # NoTake =>
         /\ sg.promise = sg.take /\ sg.at # "idle"
         /\ \A i \in DOMAIN heard : heard[i] # sg.take
    /\ sg.at # "idle" => sg.take # NoTake
    /\ sg.at = "finishing" => pp[sg.take].flushed

\* Nothing has become of a take that the decoder has not met.
Unheard(orders, sg, s) == s > sg.take \/ Ordered(orders, s)

Fresh(st, pp, s) ==
    /\ st.chain[s] = "none" /\ st.cleanup[s] = "none" /\ s \notin st.closed
    /\ s > st.session /\ pp[s].read = 0 /\ ~pp[s].flushRead

Piped(sg, pp, s) ==
    /\ pp[s].read <= pp[s].posted
    /\ pp[s].flushRead => pp[s].flushed /\ pp[s].read = pp[s].posted
    /\ s > sg.take => pp[s].posted = 0 /\ ~pp[s].flushed

\* What is still to be done for a stream that is closed goes on at once.
Staged(w, st, pp, s) ==
    /\ s \in st.closed => s # st.stream
    /\ st.chain[s] \in Waits => s = st.stream \/ s \in st.failed
    /\ s = st.stream => st.chain[s] # "done" /\ st.cleanup[s] = "none"
    /\ s = st.stream /\ st.chain[s] \in {"start", "finish"} => w.socket # "connecting"
    /\ s # st.stream /\ (\/ st.chain[s] \in {"flush", "ready", "start"}
                         \/ st.cleanup[s] \in {"ready", "start"}) =>
         w.socket # "connecting" /\ st.stream = NoTake
    /\ st.cleanup[s] # "none" <=> s \in st.failed
    /\ st.cleanup[s] # "flush"
    /\ s \in st.failed => s \in st.closed
    /\ s \in st.gaveUp => s \in st.failed
    /\ s \in st.started \cup st.over => s = st.stream
    /\ s = st.stream /\ ~st.draft => s = st.session /\ w.socket # "gone"
    /\ st.chain[s] # "none" => pp[s].flushed
    /\ s \notin st.failed /\ st.chain[s] \in {"ready", "start", "finish", "done"} =>
         pp[s].flushRead

-----------------------------------------------------------------------------

(* The socket and the server.                                              *)

Line(w) == IF w.socket = "open" THEN w.up ELSE w.pending

Held(r) == r.take # NoTake \/ r.refused # NoTake \/ r.waiting # NoTake

Holds(r, s) == r.take = s \/ r.refused = s \/ r.waiting = s

Told(news, kind, s) == \E i \in DOMAIN news : news[i] = [kind |-> kind, take |-> s]

Silent(w, st, s) ==
    /\ s \notin st.started /\ s \notin st.over
    /\ ~Told(w.down, "started", s) /\ ~Told(w.down, "finished", s)

\* A take whose finish is not sent yet, and what else owes a finish.
Sung(st, s) == s = st.stream /\ ~st.draft /\ st.chain[s] \notin Finishing

Owes(st) ==
    \/ \E s \in Takes : Sung(st, s)
    \/ \E s \in Takes : st.cleanup[s] \in {"ready", "start"}

Plugged(w, r, st) ==
    /\ w.socket = "gone" => w.up = <<>> /\ w.pending = <<>> /\ w.down = <<>>
    /\ w.socket = "connecting" => w.up = <<>> /\ w.down = <<>> /\ ~st.ready
    /\ w.socket # "open" => ~Held(r)
    /\ w.socket = "open" => Plain(w.pending)
    /\ r.take = NoTake \/ r.refused = NoTake
    /\ r.waiting = NoTake \/ (r.take = NoTake /\ r.refused = NoTake)

Traceless(w, r, t) ==
    /\ NoneOf(w.up, t) /\ NoneOf(w.pending, t) /\ ~HasStart(Line(w), t)
    /\ ~Told(w.down, "started", t) /\ ~Told(w.down, "finished", t)
    /\ ~Holds(r, t) /\ t \notin r.ended
    /\ \A s \in Takes : NoneOf(r.stored[s], t)

Paired(w, r, st) ==
    /\ Alternating(Line(w), Held(r))
    /\ OpenEnd(Line(w), Held(r)) => Owes(st)

\* How far the server is with a take that is sung.
Phase(w, r, st, s) ==
    /\ Holds(r, s) => Plain(Line(w))
    /\ StartsLast(Line(w), s)
    /\ HasStart(Line(w), s) => ~Holds(r, s) /\ Silent(w, st, s)
    /\ r.waiting = s => Silent(w, st, s)
    /\ s \in st.started \/ Told(w.down, "started", s) => r.take = s
    /\ r.take = s => ~Told(w.down, "finished", s) /\ s \notin st.over
    /\ st.ready <=> s \in st.started
    /\ st.ready => w.pending = <<>>

\* Whose packets are where.
Leads(q, take, gave) ==
    \A i \in DOMAIN q : IsPacket(q[i]) =>
        \/ q[i].take \in gave
        \/ q[i].take = take /\ \A j \in DOMAIN q : j < i => IsPacket(q[j])

Sorted(w, r, st) ==
    /\ \A t \in Takes : NoneOf(w.pending, t) \/ t \in st.gaveUp \/ Sung(st, t)
    /\ Leads(w.up, r.take, st.gaveUp)
    /\ \A s, t \in Takes : NoneOf(r.stored[s], t) \/ t = s \/ t \in st.gaveUp

\* Every packet of a take is somewhere, in its order.
Complete(w, r, st, pp, s) ==
    /\ Sung(st, s) /\ ~st.ready =>
         Counts(w.pending, s, pp[s].read) /\ NoneOf(w.up, s) /\ NoneOf(r.stored[s], s)
    /\ Sung(st, s) /\ st.ready => Counts(r.stored[s] \o w.up, s, pp[s].read)
    /\ r.take = s /\ s \notin st.failed /\ ~Sung(st, s) =>
         st.chain[s] \in Finishing /\ Counts(r.stored[s] \o w.up, s, pp[s].posted)
    /\ HasStart(Line(w), s) \/ r.waiting = s => Sung(st, s) \/ s \in st.failed
    /\ s \in r.ended /\ s \notin st.failed =>
         /\ ~Sung(st, s) /\ st.chain[s] \in Finishing /\ r.take # s
         /\ Counts(r.stored[s], s, pp[s].posted)

Stands(w, st, pp, orders, sg) ==
    \A s \in Takes :
        (Unheard(orders, sg, s) => Fresh(st, pp, s)) /\ Piped(sg, pp, s) /\ Staged(w, st, pp, s)

Wired(w, r, st, pp) ==
    /\ Plugged(w, r, st) /\ Paired(w, r, st) /\ Sorted(w, r, st)
    /\ \A s \in Takes :
         /\ s > st.session => Traceless(w, r, s)
         /\ Sung(st, s) => Phase(w, r, st, s)
         /\ Complete(w, r, st, pp, s)

WireGood ==
    /\ WireType /\ Led(toDecoder, toSinger, singer, stage, pipe)
    /\ Stands(wire, stage, pipe, toDecoder, singer) /\ Wired(wire, room, stage, pipe)

WireInv == InStep => WireGood

-----------------------------------------------------------------------------

(* The queues.                                                             *)

LEMMA NoneCounts ==
  ASSUME NEW q, NEW s, NoneOf(q, s)
  PROVE  Counts(q, s, 0)
BY DEF NoneOf, Counts

LEMMA CountMore ==
  ASSUME NEW a \in Seq(Sends), NEW b \in Seq(Sends), NEW s, NEW n, Counts(a, s, n), NoneOf(b, s)
  PROVE  Counts(a \o b, s, n)
<1> DEFINE r == a \o b
           la == Len(a)
<1>1. /\ \A i \in DOMAIN a : i \in DOMAIN r /\ r[i] = a[i] /\ i \in Nat /\ i <= la
      /\ \A i \in DOMAIN r : i \in Nat /\ (i \in DOMAIN a \/ (i > la /\ i - la \in DOMAIN b /\ r[i] = b[i - la]))
  BY Joined
<1> HIDE DEF r, la
<1>2. \A i \in DOMAIN r : Of(r[i], s) => i \in DOMAIN a /\ r[i] = a[i]
  BY <1>1 DEF NoneOf
<1>3. Counts(r, s, n)
  BY <1>1, <1>2 DEF Counts
<1> QED
  BY <1>3 DEF r

LEMMA JoinedSent ==
  ASSUME NEW a \in Seq(Sends), NEW b \in Seq(Sends), NEW e \in Sends
  PROVE  a \o Append(b, e) = Append(a \o b, e)
<1> DEFINE x == a \o Append(b, e)
           y == Append(a \o b, e)
<1>1. x \in Seq(Sends) /\ y \in Seq(Sends) /\ Len(x) = Len(a) + Len(b) + 1 /\ Len(y) = Len(x)
  OBVIOUS
<1>2. \A i \in 1..Len(y) : x[i] = y[i]
  OBVIOUS
<1> HIDE DEF x, y
<1>3. x = y
  BY <1>1, <1>2, SeqEqual
<1> QED
  BY <1>3 DEF x, y

LEMMA JoinedLater ==
  ASSUME NEW a \in Seq(Sends), NEW b \in Seq(Sends), NEW c \in Seq(Sends)
  PROVE  (a \o b) \o c = a \o (b \o c)
<1> DEFINE x == (a \o b) \o c
           y == a \o (b \o c)
<1>1. x \in Seq(Sends) /\ y \in Seq(Sends) /\ Len(x) = Len(a) + Len(b) + Len(c) /\ Len(y) = Len(x)
  OBVIOUS
<1>2. \A i \in 1..Len(y) : x[i] = y[i]
  OBVIOUS
<1> HIDE DEF x, y
<1>3. x = y
  BY <1>1, <1>2, SeqEqual
<1> QED
  BY <1>3 DEF x, y

LEMMA JoinedNothing ==
  ASSUME NEW S, NEW a \in Seq(S)
  PROVE  a \o <<>> = a /\ <<>> \o a = a
OBVIOUS

\* What is said to come first in a queue, and what comes behind it.
LEMMA LeadsSent ==
  ASSUME NEW q \in Seq(Sends), NEW e \in Sends, NEW take, NEW gave, Leads(q, take, gave),
         IsPacket(e) => e.take \in gave \/ (e.take = take /\ Plain(q))
  PROVE  Leads(Append(q, e), take, gave)
<1> DEFINE r == Append(q, e)
           n == Len(q) + 1
<1>1. /\ n \in DOMAIN r /\ r[n] = e /\ n \in Nat
      /\ \A i \in DOMAIN q : i \in DOMAIN r /\ r[i] = q[i] /\ i \in Nat /\ i < n
      /\ \A i \in DOMAIN r : i \in DOMAIN q \/ i = n
  BY Appended
<1> HIDE DEF n, r
<1> QED
  BY <1>1 DEF Leads, Plain, r

LEMMA LeadsServed ==
  ASSUME NEW q \in Seq(Sends), q # <<>>, NEW r, r = Tail(q), NEW take, NEW gave, Leads(q, take, gave)
  PROVE  /\ Leads(r, take, gave)
         /\ IsPacket(Head(q)) => Head(q).take \in gave \/ Head(q).take = take
         /\ ~IsPacket(Head(q)) =>
              /\ \A other : Leads(r, other, gave)
              /\ \A s : s \notin gave => NoneOf(q, s)
<1>1. /\ Head(q) = q[1] /\ 1 \in DOMAIN q
      /\ \A i \in DOMAIN r : i \in Nat /\ i >= 1 /\ i + 1 \in DOMAIN q /\ r[i] = q[i + 1]
      /\ \A i \in DOMAIN q : i = 1 \/ (i \in Nat /\ i > 1 /\ i - 1 \in DOMAIN r /\ q[i] = r[i - 1])
  BY Tailed
<1>2. Leads(r, take, gave)
  <2> SUFFICES ASSUME NEW i \in DOMAIN r, IsPacket(r[i]), r[i].take \notin gave
               PROVE  r[i].take = take /\ \A j \in DOMAIN r : j < i => IsPacket(r[j])
    BY DEF Leads
  <2>1. i + 1 \in DOMAIN q /\ r[i] = q[i + 1]
    BY <1>1
  <2>2. q[i + 1].take = take /\ \A j \in DOMAIN q : j < i + 1 => IsPacket(q[j])
    BY <2>1 DEF Leads
  <2>3. ASSUME NEW j \in DOMAIN r, j < i PROVE IsPacket(r[j])
    <3>1. j + 1 \in DOMAIN q /\ r[j] = q[j + 1] /\ j + 1 < i + 1
      BY <1>1, <2>3
    <3> QED
      BY <2>2, <3>1
  <2> QED
    BY <2>1, <2>2, <2>3
<1>3. IsPacket(Head(q)) => Head(q).take \in gave \/ Head(q).take = take
  BY <1>1 DEF Leads
<1>4. ASSUME ~IsPacket(Head(q))
      PROVE  /\ \A other : Leads(r, other, gave)
             /\ \A s : s \notin gave => NoneOf(q, s)
  <2>1. \A i \in DOMAIN q : IsPacket(q[i]) => q[i].take \in gave
    <3> SUFFICES ASSUME NEW i \in DOMAIN q, IsPacket(q[i]), q[i].take \notin gave PROVE FALSE
      OBVIOUS
    <3>1. \A j \in DOMAIN q : j < i => IsPacket(q[j])
      BY DEF Leads
    <3>2. i = 1 \/ 1 < i
      BY <1>1
    <3> QED
      BY <1>1, <1>4, <3>1, <3>2
  <2>2. \A i \in DOMAIN r : IsPacket(r[i]) => r[i].take \in gave
    BY <1>1, <2>1
  <2> QED
    BY <2>1, <2>2 DEF Leads, NoneOf, Of
<1> QED
  BY <1>2, <1>3, <1>4

LEMMA LeadsAny ==
  ASSUME NEW q \in Seq(Sends), NEW gave, Leads(q, NoTake, gave)
  PROVE  \A take : Leads(q, take, gave)
<1>1. \A i \in DOMAIN q : IsPacket(q[i]) => q[i].take \in Takes
  BY SendFacts
<1>2. NoTake \notin Takes
  BY DEF NoTake, Takes
<1> QED
  BY <1>1, <1>2 DEF Leads

LEMMA LeadsJoined ==
  ASSUME NEW a \in Seq(Sends), NEW b \in Seq(Sends), NEW take, NEW gave,
         Leads(a, take, gave), Plain(b),
         \A i \in DOMAIN b : b[i].take \in gave \/ (b[i].take = take /\ Plain(a))
  PROVE  Leads(a \o b, take, gave)
<1> DEFINE r == a \o b
           n == Len(a)
<1>1. /\ n \in Nat
      /\ \A i \in DOMAIN a : i \in DOMAIN r /\ r[i] = a[i] /\ i \in Nat /\ i <= n
      /\ \A i \in DOMAIN r : i \in Nat /\ (i \in DOMAIN a \/ (i > n /\ i - n \in DOMAIN b /\ r[i] = b[i - n]))
  BY Joined
<1> HIDE DEF n, r
<1> SUFFICES ASSUME NEW i \in DOMAIN r, IsPacket(r[i]), r[i].take \notin gave
             PROVE  r[i].take = take /\ \A j \in DOMAIN r : j < i => IsPacket(r[j])
  BY DEF Leads, r
<1>2. CASE i \in DOMAIN a
  <2>1. a[i].take = take /\ \A j \in DOMAIN a : j < i => IsPacket(a[j])
    BY <1>1, <1>2 DEF Leads
  <2>2. \A j \in DOMAIN r : j < i => j \in DOMAIN a
    BY <1>1, <1>2
  <2> QED
    BY <1>1, <1>2, <2>1, <2>2
<1>3. CASE i \notin DOMAIN a
  <2>1. r[i].take = take /\ Plain(a)
    BY <1>1, <1>3
  <2>2. \A j \in DOMAIN r : IsPacket(r[j])
    BY <1>1, <2>1 DEF Plain
  <2> QED
    BY <2>1, <2>2
<1> QED
  BY <1>2, <1>3

\* What is told in the news of the server.
LEMMA ToldSent ==
  ASSUME NEW news \in Seq(News), NEW e \in News, NEW kind, NEW s
  PROVE  Told(Append(news, e), kind, s) <=> Told(news, kind, s) \/ e = [kind |-> kind, take |-> s]
<1> DEFINE r == Append(news, e)
           n == Len(news) + 1
<1>1. /\ r \in Seq(News) /\ n \in DOMAIN r /\ r[n] = e
      /\ \A i \in DOMAIN news : i \in DOMAIN r /\ r[i] = news[i]
      /\ \A i \in DOMAIN r : i \in DOMAIN news \/ i = n
  BY Appended
<1> HIDE DEF n, r
<1> QED
  BY <1>1 DEF Told, r

LEMMA ToldServed ==
  ASSUME NEW news \in Seq(News), news # <<>>, NEW r, r = Tail(news)
  PROVE  /\ r \in Seq(News) /\ Head(news) \in News
         /\ \A kind, s : Told(r, kind, s) => Told(news, kind, s)
         /\ \A kind, s : Head(news) = [kind |-> kind, take |-> s] => Told(news, kind, s)
<1>1. /\ r \in Seq(News) /\ Head(news) \in News /\ Head(news) = news[1] /\ 1 \in DOMAIN news
      /\ \A i \in DOMAIN r : i + 1 \in DOMAIN news /\ r[i] = news[i + 1]
  BY Tailed
<1> QED
  BY <1>1 DEF Told

LEMMA NothingTold ==
  /\ <<>> \in Seq(News) /\ <<>> \in Seq(Sends)
  /\ \A kind, s : ~Told(<<>>, kind, s)
  /\ \A s : NoneOf(<<>>, s) /\ ~HasStart(<<>>, s) /\ StartsLast(<<>>, s)
  /\ Plain(<<>>) /\ \A held : Alternating(<<>>, held)
  /\ ~OpenEnd(<<>>, FALSE)
  /\ \A take, gave : Leads(<<>>, take, gave)
BY DEF Told, NoneOf, HasStart, StartsLast, Plain, Alternating, OpenEnd, Leads

LEMMA NoneSent ==
  ASSUME NEW q \in Seq(Sends), NEW e \in Sends, NEW s
  PROVE  /\ NoneOf(Append(q, e), s) <=> NoneOf(q, s) /\ ~Of(e, s)
         /\ Plain(Append(q, e)) <=> Plain(q) /\ IsPacket(e)
<1> DEFINE n == Len(q) + 1
           r == Append(q, e)
<1>1. /\ n \in DOMAIN r /\ r[n] = e
      /\ \A i \in DOMAIN q : i \in DOMAIN r /\ r[i] = q[i]
      /\ \A i \in DOMAIN r : i \in DOMAIN q \/ i = n
  BY Appended
<1> HIDE DEF n, r
<1>2. NoneOf(r, s) <=> NoneOf(q, s) /\ ~Of(e, s)
  BY <1>1 DEF NoneOf
<1>3. Plain(r) <=> Plain(q) /\ IsPacket(e)
  BY <1>1 DEF Plain
<1> QED
  BY <1>2, <1>3 DEF r

LEMMA NoneServed ==
  ASSUME NEW q \in Seq(Sends), q # <<>>, NEW s, NoneOf(q, s)
  PROVE  ~Of(Head(q), s) /\ NoneOf(Tail(q), s)
<1>1. /\ Head(q) = q[1] /\ 1 \in DOMAIN q
      /\ \A i \in DOMAIN Tail(q) : i + 1 \in DOMAIN q /\ Tail(q)[i] = q[i + 1]
  BY Tailed
<1> QED
  BY <1>1 DEF NoneOf

LEMMA NoneJoined ==
  ASSUME NEW a \in Seq(Sends), NEW b \in Seq(Sends), NEW s
  PROVE  NoneOf(a \o b, s) <=> NoneOf(a, s) /\ NoneOf(b, s)
<1> DEFINE r == a \o b
<1>1. /\ \A i \in DOMAIN a : i \in DOMAIN r /\ r[i] = a[i]
      /\ \A i \in DOMAIN b : Len(a) + i \in DOMAIN r /\ r[Len(a) + i] = b[i]
      /\ \A i \in DOMAIN r : i \in DOMAIN a \/ (i - Len(a) \in DOMAIN b /\ r[i] = b[i - Len(a)])
  BY Joined
<1> HIDE DEF r
<1>2. NoneOf(r, s) <=> NoneOf(a, s) /\ NoneOf(b, s)
  BY <1>1 DEF NoneOf
<1> QED
  BY <1>2 DEF r

(* What the socket does with what is sent.                                 *)

LEMMA FlushFacts ==
  ASSUME NEW net \in Nets, NEW ready \in BOOLEAN, NEW f, f = Flushed(net, ready)
  PROVE  /\ f \in Nets /\ f.socket = net.socket /\ f.down = net.down
         /\ net.socket # "open" => f = net
         /\ net.socket = "open" /\ ready => f.up = net.up \o net.pending /\ f.pending = <<>>
         /\ net.socket = "open" /\ ~ready =>
              /\ f.up = net.up \o Picked(net.pending, Sendable(net.pending, FALSE))
              /\ f.pending = Picked(net.pending, DOMAIN net.pending \ Sendable(net.pending, FALSE))
         /\ net.socket = "open" /\ ~ready /\ Plain(net.pending) =>
              f.up = net.up /\ f.pending = net.pending
<1> DEFINE q == net.pending
           all == Sendable(q, ready)
           others == DOMAIN q \ all
           sent == Picked(q, all)
           rest == Picked(q, others)
<1>1. q \in Seq(Sends) /\ net.up \in Seq(Sends) /\ net.down \in Seq(News)
  BY DEF Nets
<1>2. all \in SUBSET (DOMAIN q) /\ others \in SUBSET (DOMAIN q)
  BY DEF Sendable
<1>3. sent \in Seq(Sends) /\ rest \in Seq(Sends)
  BY <1>1, <1>2, PickedFacts
<1>4. ready => sent = q /\ rest = <<>>
  <2> SUFFICES ASSUME ready PROVE sent = q /\ rest = <<>>
    OBVIOUS
  <2>1. all = DOMAIN q
    BY DEF Sendable
  <2>2. others = {}
    BY <2>1
  <2> QED
    BY <1>1, <2>1, <2>2, PickedEnds
<1>5. ~ready /\ Plain(q) => sent = <<>> /\ rest = q
  <2> SUFFICES ASSUME ~ready, Plain(q) PROVE sent = <<>> /\ rest = q
    OBVIOUS
  <2>1. all = {}
    BY DEF Sendable, Plain
  <2>2. others = DOMAIN q
    BY <2>1
  <2> QED
    BY <1>1, <2>1, <2>2, PickedEnds
<1>6. net.socket = "open" => f = [net EXCEPT !.up = net.up \o sent, !.pending = rest]
  BY DEF Flushed
<1>7. net.socket # "open" => f = net
  BY DEF Flushed
<1>8. ~ready => all = Sendable(q, FALSE)
  BY DEF Sendable
<1>9. net.up \o sent \in Seq(Sends)
  BY <1>1, <1>3
<1> DEFINE joined == net.up \o sent
<1>10. /\ joined \in Seq(Sends) /\ (sent = <<>> => joined = net.up)
       /\ net.socket = "open" => f = [net EXCEPT !.up = joined, !.pending = rest]
  BY <1>1, <1>6, <1>9, JoinedNothing
<1>11. /\ ready => joined = net.up \o q
       /\ ~ready => joined = net.up \o Picked(q, Sendable(q, FALSE))
       /\ ~ready => rest = Picked(q, DOMAIN q \ Sendable(q, FALSE))
  BY <1>4, <1>8
<1> HIDE DEF joined, all, others, sent, rest
<1>12. CASE net.socket = "open"
  <2>1. f.up = joined /\ f.pending = rest /\ f.socket = net.socket /\ f.down = net.down /\ f \in Nets
    BY <1>1, <1>3, <1>10, <1>12 DEF Nets
  <2> QED
    BY <1>4, <1>5, <1>10, <1>11, <1>12, <2>1
<1>13. CASE net.socket # "open"
  BY <1>7, <1>13
<1> QED
  BY <1>12, <1>13

TheFinish == [kind |-> "recording.finish"]

LEMMA FinishSentFacts ==
  ASSUME NEW net \in Nets, NEW ready \in BOOLEAN, NEW f,
         f = SendJson(Flushed(net, ready), ready, TheFinish),
         net.socket # "connecting", net.socket = "open" => Plain(net.pending)
  PROVE  /\ f \in Nets /\ f.socket = net.socket /\ f.down = net.down
         /\ net.socket = "gone" => f = net
         /\ net.socket = "open" /\ ready =>
              f.up = Append(net.up \o net.pending, TheFinish) /\ f.pending = <<>>
         /\ net.socket = "open" /\ ~ready =>
              f.up = Append(net.up, TheFinish) /\ f.pending = net.pending
<1> DEFINE g == Flushed(net, ready)
           h == Flushed(g, ready)
<1>0. TheFinish \in Sends
  BY DEF Sends, TheFinish
<1>1. g \in Nets /\ g.socket = net.socket /\ g.down = net.down
      /\ (net.socket # "open" => g = net)
      /\ (net.socket = "open" /\ ready => g.up = net.up \o net.pending /\ g.pending = <<>>)
      /\ (net.socket = "open" /\ ~ready => g.up = net.up /\ g.pending = net.pending)
  BY FlushFacts
<1>2. Plain(<<>>)
  BY NothingTold
<1> HIDE DEF g
<1>3. h \in Nets /\ h.socket = g.socket /\ h.down = g.down
      /\ (g.socket = "open" /\ ready => h.up = g.up \o g.pending /\ h.pending = <<>>)
      /\ (g.socket = "open" /\ ~ready => h.up = g.up /\ h.pending = g.pending)
  BY <1>1, FlushFacts
<1>4. g.up \in Seq(Sends) /\ g.up \o <<>> = g.up
  BY <1>0, <1>1, JoinedNothing DEF Nets
<1>5. net.socket = "open" /\ ready => h.up = net.up \o net.pending /\ h.pending = <<>>
  BY <1>1, <1>3, <1>4
<1>6. net.socket = "open" => f = [h EXCEPT !.up = Append(h.up, TheFinish)]
  BY <1>1, <1>3 DEF SendJson, g
<1>7. net.socket = "gone" => f = net
  BY <1>1 DEF SendJson, g
<1> HIDE DEF h
<1>8. CASE net.socket = "open"
  <2>1. Append(h.up, TheFinish) \in Seq(Sends)
    BY <1>0, <1>3 DEF Nets
  <2>2. /\ f.up = Append(h.up, TheFinish) /\ f.pending = h.pending /\ f.socket = h.socket
        /\ f.down = h.down /\ f \in Nets
    BY <1>3, <1>6, <1>8, <2>1 DEF Nets
  <2> QED
    BY <1>1, <1>3, <1>5, <1>8, <2>2
<1>9. CASE net.socket = "gone"
  BY <1>7, <1>9
<1>10. net.socket \in {"connecting", "open", "gone"}
  BY DEF Nets
<1> QED
  BY <1>8, <1>9, <1>10

LEMMA OpenedFacts ==
  ASSUME NEW net \in Nets, NEW g, g = OpenSocket(net)
  PROVE  /\ g \in Nets /\ g.socket # "gone"
         /\ net.socket # "gone" => g = net
         /\ net.socket = "gone" =>
              g.socket = "connecting" /\ g.up = <<>> /\ g.pending = <<>> /\ g.down = <<>>
BY DEF OpenSocket, Nets

LEMMA StartSentFacts ==
  ASSUME NEW net \in Nets, NEW e \in Sends, NEW f, f = SendJson(OpenSocket(net), FALSE, e),
         net.socket = "open" => Plain(net.pending),
         net.socket = "gone" => net.up = <<>> /\ net.pending = <<>> /\ net.down = <<>>
  PROVE  /\ f \in Nets /\ f.down = net.down
         /\ net.socket = "open" =>
              f.socket = "open" /\ f.up = Append(net.up, e) /\ f.pending = net.pending
         /\ net.socket # "open" =>
              f.socket = "connecting" /\ f.up = net.up /\ f.pending = Append(net.pending, e)
<1> DEFINE g == OpenSocket(net)
           h == Flushed(g, FALSE)
<1>1. g \in Nets /\ g.up = net.up /\ g.pending = net.pending /\ g.down = net.down
      /\ g.socket = (IF net.socket = "gone" THEN "connecting" ELSE net.socket)
  BY OpenedFacts
<1>2. net.socket \in {"connecting", "open", "gone"}
  BY DEF Nets
<1> HIDE DEF g
<1>3. CASE net.socket = "open"
  <2>1. h \in Nets /\ h.socket = "open" /\ h.down = g.down /\ h.up = g.up /\ h.pending = g.pending
    BY <1>1, <1>3, FlushFacts
  <2>2. f = [h EXCEPT !.up = Append(h.up, e)]
    BY <1>1, <1>3 DEF SendJson, g
  <2> DEFINE x == Append(h.up, e)
  <2>3. x \in Seq(Sends) /\ x = Append(net.up, e)
    <3> DEFINE q == h.up
    <3>1. q = net.up /\ q \in Seq(Sends)
      BY <1>1, <2>1 DEF Nets
    <3> HIDE DEF q
    <3>2. Append(q, e) \in Seq(Sends) /\ Append(q, e) = Append(net.up, e)
      BY <3>1
    <3> QED
      BY <3>2 DEF q
  <2>5. f = [h EXCEPT !.up = x]
    BY <2>2
  <2> HIDE DEF h, x
  <2>4. f.up = x /\ f.pending = h.pending /\ f.socket = h.socket /\ f.down = h.down /\ f \in Nets
    BY <2>1, <2>3, <2>5 DEF Nets
  <2> QED
    BY <1>1, <1>3, <2>1, <2>3, <2>4
<1>4. CASE net.socket # "open"
  <2>1. f = [g EXCEPT !.pending = Append(g.pending, e)]
    BY <1>1, <1>2, <1>4 DEF SendJson, g
  <2> DEFINE x == Append(g.pending, e)
  <2>2. x \in Seq(Sends) /\ x = Append(net.pending, e)
    BY <1>1 DEF Nets
  <2>3. f = [g EXCEPT !.pending = x]
    BY <2>1
  <2> HIDE DEF x
  <2>4. f.up = g.up /\ f.pending = x /\ f.socket = g.socket /\ f.down = g.down /\ f \in Nets
    BY <1>1, <2>2, <2>3 DEF Nets
  <2> QED
    BY <1>1, <1>2, <1>4, <2>2, <2>4
<1> QED
  BY <1>3, <1>4

LEMMA PacketSentFacts ==
  ASSUME NEW net \in Nets, NEW ready \in BOOLEAN, NEW e \in Sends, NEW f,
         f = SendBinary(net, ready, e), net.socket # "gone", ready => net.pending = <<>>
  PROVE  /\ f \in Nets /\ f.down = net.down /\ f.socket = net.socket
         /\ net.socket = "open" /\ ready => f.up = Append(net.up, e) /\ f.pending = net.pending
         /\ ~(net.socket = "open" /\ ready) =>
              f.up = net.up /\ f.pending = Append(net.pending, e)
<1> DEFINE h == Flushed(net, ready)
<1>1. CASE net.socket = "open" /\ ready
  <2>1. h \in Nets /\ h.socket = "open" /\ h.down = net.down /\ h.up = net.up \o net.pending /\ h.pending = <<>>
    BY <1>1, FlushFacts
  <2>2. net.up \o <<>> = net.up
    BY JoinedNothing DEF Nets
  <2>3. f = [h EXCEPT !.up = Append(h.up, e)]
    BY <1>1 DEF SendBinary
  <2> DEFINE x == Append(h.up, e)
  <2>4. x \in Seq(Sends) /\ x = Append(net.up, e)
    <3>1. h.up = net.up /\ h.up \in Seq(Sends)
      BY <1>1, <2>1, <2>2 DEF Nets
    <3> QED
      BY <3>1
  <2>5. f = [h EXCEPT !.up = x]
    BY <2>3
  <2> HIDE DEF h, x
  <2>6. f.up = x /\ f.pending = h.pending /\ f.socket = h.socket /\ f.down = h.down /\ f \in Nets
    BY <2>1, <2>4, <2>5 DEF Nets
  <2> QED
    BY <1>1, <2>1, <2>4, <2>6
<1>2. CASE ~(net.socket = "open" /\ ready)
  <2>1. f = [net EXCEPT !.pending = Append(net.pending, e)]
    BY <1>2 DEF SendBinary
  <2>2. Append(net.pending, e) \in Seq(Sends)
    BY DEF Nets
  <2> QED
    BY <1>2, <2>1, <2>2 DEF Nets
<1> QED
  BY <1>1, <1>2

(* What a step means for the socket and the server.                        *)

NoSong(st) == \A s \in Takes : ~Sung(st, s)

LEMMA StoredSends ==
  ASSUME NEW r \in Rooms
  PROVE  \A s \in Takes : r.stored[s] \in Seq(Sends) /\ r.stored[s] \in Seq(Packet)
<1>1. \A q : q \in Seq(Packet) => q \in Seq(Sends)
  BY DEF Sends
<1> QED
  BY <1>1 DEF Rooms

\* Nothing moves that the socket and the server are bound to.
LEMMA SameSight ==
  ASSUME NEW w \in Nets, NEW r \in Rooms, NEW st \in Stages, NEW pp \in Pipes,
         NEW w2 \in Nets, NEW r2 \in Rooms, NEW st2 \in Stages, NEW pp2 \in Pipes,
         Wired(w, r, st, pp),
         w2.socket = w.socket, w2.up = w.up, w2.pending = w.pending,
         w2.down = w.down \/ (w.socket = "open" /\ w.down # <<>> /\ w2.down = Tail(w.down)),
         r2.take = r.take, r2.refused = r.refused, r2.waiting = r.waiting,
         r2.ended = r.ended, r2.stored = r.stored,
         st2.stream = st.stream, st2.draft = st.draft, st2.session = st.session,
         st2.ready = st.ready, st2.started = st.started, st2.over = st.over,
         st2.gaveUp = st.gaveUp, st2.failed = st.failed,
         \A s \in Takes : st2.chain[s] \in Finishing <=> st.chain[s] \in Finishing,
         \A s \in Takes : st2.cleanup[s] \in {"ready", "start"} <=> st.cleanup[s] \in {"ready", "start"},
         \A s \in Takes : Sung(st, s) => pp2[s].read = pp[s].read,
         \A s \in Takes : st.chain[s] \in Finishing => pp2[s].posted = pp[s].posted
  PROVE  Wired(w2, r2, st2, pp2)
<1>1. \A kind, s : Told(w2.down, kind, s) => Told(w.down, kind, s)
  BY ToldServed DEF Nets
<1>2. w2.down = <<>> \/ w.down # <<>>
  OBVIOUS
<1>3. (\A s \in Takes : Sung(st2, s) <=> Sung(st, s)) /\ (Owes(st2) <=> Owes(st))
  BY DEF Sung, Owes
<1>4. Held(r2) = Held(r) /\ (\A s : Holds(r2, s) <=> Holds(r, s)) /\ Line(w2) = Line(w)
  BY DEF Held, Holds, Line
<1>5. Plugged(w2, r2, st2)
  BY <1>2, <1>4 DEF Wired, Plugged
<1>6. Paired(w2, r2, st2) /\ Sorted(w2, r2, st2)
  BY <1>3, <1>4 DEF Wired, Paired, Sorted
<1>7. ASSUME NEW s \in Takes
      PROVE  /\ s > st2.session => Traceless(w2, r2, s)
             /\ Sung(st2, s) => Phase(w2, r2, st2, s)
             /\ Complete(w2, r2, st2, pp2, s)
  <2>1. s > st2.session => Traceless(w2, r2, s)
    BY <1>1, <1>4 DEF Wired, Traceless
  <2>2. Sung(st2, s) => Phase(w2, r2, st2, s)
    BY <1>1, <1>3, <1>4 DEF Wired, Phase, Silent
  <2>3. Complete(w2, r2, st2, pp2, s)
    BY <1>3, <1>4 DEF Wired, Complete
  <2> QED
    BY <2>1, <2>2, <2>3
<1> QED
  BY <1>5, <1>6, <1>7 DEF Wired

\* A stream that is sung is let go, or none was.
LEMMA Settled ==
  ASSUME NEW w \in Nets, NEW r \in Rooms, NEW st \in Stages, NEW pp \in Pipes,
         NEW w2 \in Nets, NEW st2 \in Stages,
         Wired(w, r, st, pp),
         w2.socket = w.socket \/ (w.socket = "gone" /\ w2.socket = "connecting"),
         w2.up = w.up, w2.pending = w.pending, w2.down = w.down,
         w2.socket = "connecting" => ~st2.ready, st2.session = st.session,
         st.failed \subseteq st2.failed, st.gaveUp \subseteq st2.gaveUp,
         NoSong(st2), Owes(st) /\ w.socket # "gone" => Owes(st2),
         \A s \in Takes : st.chain[s] \in Finishing => st2.chain[s] \in Finishing,
         \A s \in Takes : Sung(st, s) =>
             s \in st2.failed /\ (s \in st2.gaveUp \/ NoneOf(w.pending, s))
  PROVE  Wired(w2, r, st2, pp)
<1>1. Line(w2) = Line(w)
  BY DEF Wired, Plugged, Line
<1>2. Plugged(w2, r, st2)
  BY DEF Wired, Plugged
<1>3. Paired(w2, r, st2)
  <2>1. CASE w.socket = "gone"
    <3>1. Line(w2) = <<>> /\ ~Held(r)
      BY <1>1, <2>1 DEF Wired, Plugged, Line
    <3> QED
      BY <3>1, NothingTold DEF Paired, OpenEnd
  <2>2. CASE w.socket # "gone"
    BY <1>1, <2>2 DEF Wired, Paired
  <2> QED
    BY <2>1, <2>2
<1>4. Sorted(w2, r, st2)
  <2>1. \A t \in Takes : NoneOf(w2.pending, t) \/ t \in st2.gaveUp
    BY DEF Wired, Sorted
  <2>2. Leads(w2.up, r.take, st2.gaveUp)
    BY DEF Wired, Sorted, Leads
  <2> QED
    BY <2>1, <2>2 DEF Wired, Sorted
<1>5. ASSUME NEW s \in Takes
      PROVE  /\ s > st2.session => Traceless(w2, r, s)
             /\ Complete(w2, r, st2, pp, s)
  <2>1. s > st2.session => Traceless(w2, r, s)
    BY <1>1 DEF Wired, Traceless
  <2>2. ~Sung(st2, s)
    BY DEF NoSong
  <2>3. Complete(w, r, st, pp, s)
    BY DEF Wired
  <2>4. Complete(w2, r, st2, pp, s)
    BY <1>1, <2>2, <2>3 DEF Complete
  <2> QED
    BY <2>1, <2>4
<1> QED
  BY <1>2, <1>3, <1>4, <1>5 DEF Wired, NoSong

\* A stream is announced to the server.
LEMMA Announced ==
  ASSUME NEW w \in Nets, NEW r \in Rooms, NEW st \in Stages, NEW pp \in Pipes,
         NEW w2 \in Nets, NEW st2 \in Stages, NEW s \in Takes, NEW e \in Sends,
         Wired(w, r, st, pp), Starts(e), e.take = s,
         w2.down = w.down,
         w.socket = "open" =>
             w2.socket = "open" /\ w2.up = Append(w.up, e) /\ w2.pending = w.pending,
         w.socket # "open" =>
             w2.socket = "connecting" /\ w2.up = w.up /\ w2.pending = Append(w.pending, e),
         s > st.session, NoSong(st), ~Owes(st), pp[s].read = 0, s \notin st.failed,
         ~st2.ready, st2.session = s, st2.stream = s, ~st2.draft,
         st2.started = {}, st2.over = {},
         st2.failed = st.failed, st2.gaveUp = st.gaveUp, st2.chain = st.chain,
         st.chain[s] = "none"
  PROVE  Wired(w2, r, st2, pp)
<1>0. w.up \in Seq(Sends) /\ w.pending \in Seq(Sends) /\ w.socket \in {"connecting", "open", "gone"}
  BY DEF Nets
<1>1. Traceless(w, r, s)
  BY DEF Wired
<1>2. Line(w2) = Append(Line(w), e) /\ Line(w) \in Seq(Sends)
  BY <1>0 DEF Line
<1>3. ~IsPacket(e) /\ \A t : ~Of(e, t)
  BY SendFacts DEF Of
<1>4. Held(r) \in BOOLEAN
  BY DEF Held
<1> DEFINE a == Line(w)
           b == Line(w2)
<1>5. /\ Alternating(a, Held(r)) /\ ~OpenEnd(a, Held(r)) => Alternating(b, Held(r))
      /\ \A t : HasStart(b, t) <=> HasStart(a, t) \/ t = s
      /\ \A t : StartsLast(a, t) /\ ~HasStart(a, t) => StartsLast(b, t)
  <2>1. Lengthened(a, e, b, Held(r))
    BY <1>2, <1>4, TextSent
  <2> QED
    BY <2>1 DEF Lengthened
<1>6. \A t : /\ NoneOf(w2.up, t) <=> NoneOf(w.up, t)
             /\ NoneOf(w2.pending, t) <=> NoneOf(w.pending, t)
  <2>1. /\ \A t : NoneOf(Append(w.up, e), t) <=> NoneOf(w.up, t)
        /\ \A t : NoneOf(Append(w.pending, e), t) <=> NoneOf(w.pending, t)
    BY <1>0, <1>3, NoneSent, Zenon
  <2>2. CASE w.socket = "open"
    BY <2>1, <2>2
  <2>3. CASE w.socket # "open"
    BY <2>1, <2>3
  <2> QED
    BY <2>2, <2>3
<1>7. (\A t \in Takes : Sung(st2, t) <=> t = s) /\ Owes(st2)
  BY DEF Sung, Owes, Finishing
<1>8. Plugged(w2, r, st2)
  BY <1>0 DEF Wired, Plugged
<1>9. Paired(w2, r, st2)
  BY <1>5, <1>7 DEF Wired, Paired
<1>10. Leads(w2.up, r.take, st.gaveUp)
  <2>1. Leads(w.up, r.take, st.gaveUp)
    BY DEF Wired, Sorted
  <2> QED
    BY <1>0, <1>3, <2>1, LeadsSent, ZenonT(60)
<1>11. Sorted(w2, r, st2)
  BY <1>6, <1>10 DEF Wired, Sorted, NoSong
<1>12. ASSUME NEW t \in Takes, t > s PROVE Traceless(w2, r, t)
  <2>1. t > st.session
    BY <1>12 DEF Takes, Stages, Maybe, NoTake
  <2>2. Traceless(w, r, t) /\ t # s
    BY <1>12, <2>1 DEF Wired, Takes
  <2> QED
    BY <1>5, <1>6, <2>2 DEF Traceless
<1>13. StartsLast(a, s)
  BY <1>1 DEF Traceless, HasStart, StartsLast
<1>14. Phase(w2, r, st2, s)
  BY <1>1, <1>5, <1>13 DEF Traceless, Phase, Silent, Holds
<1>15. Counts(w2.pending, s, 0)
  BY <1>1, <1>6, NoneCounts DEF Traceless
<1>16. ASSUME NEW t \in Takes PROVE Complete(w2, r, st2, pp, t)
  <2>1. Complete(w, r, st, pp, t) /\ ~Sung(st, t)
    BY DEF Wired, NoSong
  <2>2. CASE t = s
    BY <1>1, <1>6, <1>7, <1>15, <2>2 DEF Traceless, Complete, Holds
  <2>3. CASE t # s
    <3>1. Counts(r.stored[t] \o w.up, t, pp[t].posted) => Counts(r.stored[t] \o w2.up, t, pp[t].posted)
      <4>1. r.stored[t] \in Seq(Sends)
        BY StoredSends
      <4>2. r.stored[t] \o Append(w.up, e) = Append(r.stored[t] \o w.up, e)
        BY <1>0, <4>1, JoinedSent, ZenonT(60)
      <4>3. r.stored[t] \o w.up \in Seq(Sends) /\ pp[t].posted \in Nat
        BY <1>0, <4>1 DEF Pipes
      <4>4. Counts(r.stored[t] \o w.up, t, pp[t].posted) =>
              Counts(Append(r.stored[t] \o w.up, e), t, pp[t].posted)
        BY <1>3, <4>3, CountOther, ZenonT(60)
      <4> QED
        BY <4>2, <4>4
    <3> QED
      BY <1>5, <1>7, <2>1, <2>3, <3>1 DEF Complete
  <2> QED
    BY <2>2, <2>3
<1> QED
  BY <1>7, <1>8, <1>9, <1>11, <1>12, <1>14, <1>16 DEF Wired

\* The finish of a stream goes to the server.
LEMMA FinishGoes ==
  ASSUME NEW w \in Nets, NEW r \in Rooms, NEW st \in Stages, NEW pp \in Pipes,
         NEW w2 \in Nets, NEW st2 \in Stages,
         Wired(w, r, st, pp), w.socket = "open",
         w2.socket = "open", w2.down = w.down,
         st.ready => w2.up = Append(w.up \o w.pending, TheFinish) /\ w2.pending = <<>>,
         ~st.ready => w2.up = Append(w.up, TheFinish) /\ w2.pending = w.pending,
         st2.session = st.session, st2.gaveUp = st.gaveUp, st2.failed = st.failed,
         st.gaveUp \subseteq st.failed, NoSong(st2),
         \A s \in Takes : st.chain[s] \in Finishing => st2.chain[s] \in Finishing,
         \A s \in Takes : Sung(st, s) =>
             /\ st.ready /\ s \in st.started /\ st2.chain[s] \in Finishing
             /\ pp[s].read = pp[s].posted
  PROVE  Wired(w2, r, st2, pp)
<1> DEFINE q == w.pending
           u == IF st.ready THEN w.up \o q ELSE w.up
           held == Held(r)
<1>0. w.up \in Seq(Sends) /\ q \in Seq(Sends) /\ TheFinish \in Sends /\ held \in BOOLEAN
  BY DEF Nets, Sends, TheFinish, Held
<1>1. Plain(q) /\ Line(w) = w.up /\ Line(w2) = w2.up /\ w2.up = Append(u, TheFinish)
  BY DEF Wired, Plugged, Line
<1>2. Finishes(TheFinish) /\ ~IsPacket(TheFinish) /\ ~Starts(TheFinish) /\ \A t : ~Of(TheFinish, t)
  BY DEF TheFinish, Finishes, IsPacket, Starts, Of
<1>3. ASSUME NEW t \in Takes PROVE NoneOf(q, t) \/ t \in st.gaveUp
  <2>1. CASE Sung(st, t)
    <3>1. q = <<>>
      BY <2>1 DEF Wired, Phase
    <3> QED
      BY <3>1, NothingTold
  <2>2. CASE ~Sung(st, t)
    BY <2>2 DEF Wired, Sorted
  <2> QED
    BY <2>1, <2>2
<1>4. \A i \in DOMAIN q : q[i].take \in st.gaveUp
  <2> SUFFICES ASSUME NEW i \in DOMAIN q PROVE q[i].take \in st.gaveUp
    OBVIOUS
  <2>1. IsPacket(q[i]) /\ q[i] \in Sends
    BY <1>0, <1>1 DEF Plain
  <2>2. q[i].take \in Takes
    BY <2>1, SendFacts
  <2> QED
    BY <1>3, <2>1, <2>2 DEF NoneOf, Of
<1>5. /\ u \in Seq(Sends) /\ Alternating(u, held)
      /\ \A t : HasStart(u, t) <=> HasStart(w.up, t)
      /\ \A t : NoneOf(w.up, t) /\ NoneOf(q, t) => NoneOf(u, t)
  <2>1. Alternating(w.up, held)
    BY <1>1 DEF Wired, Paired
  <2> QED
    <3>1. Extended(w.up, q, w.up \o q, held)
      BY <1>0, <1>1, TextJoined
    <3> QED
      BY <1>0, <2>1, <3>1 DEF Extended
<1>6. Leads(u, r.take, st.gaveUp)
  <2>1. Leads(w.up, r.take, st.gaveUp)
    BY DEF Wired, Sorted
  <2>2. Leads(w.up \o q, r.take, st.gaveUp)
    BY <1>0, <1>1, <1>4, <2>1, LeadsJoined
  <2> QED
    BY <2>1, <2>2
<1> HIDE DEF u
<1>7. Plugged(w2, r, st2)
  BY <1>1, NothingTold DEF Wired, Plugged
<1>8. /\ Alternating(w2.up, held) /\ ~OpenEnd(w2.up, held)
      /\ \A t : HasStart(w2.up, t) <=> HasStart(w.up, t)
      /\ \A t : NoneOf(w.up, t) /\ NoneOf(q, t) => NoneOf(w2.up, t)
  <2>1. Lengthened(u, TheFinish, w2.up, held)
    BY <1>0, <1>1, <1>5, TextSent
  <2> QED
    BY <1>2, <1>5, <2>1 DEF Lengthened
<1>9. Paired(w2, r, st2)
  BY <1>1, <1>8 DEF Paired
<1>10. \A t : NoneOf(q, t) => NoneOf(w2.pending, t)
  BY NothingTold
<1>11. Sorted(w2, r, st2)
  <2>1. Leads(Append(u, TheFinish), r.take, st.gaveUp)
    BY <1>0, <1>2, <1>5, <1>6, LeadsSent
  <2> QED
    BY <1>1, <1>3, <1>10, <2>1 DEF Wired, Sorted
<1>12. ASSUME NEW t \in Takes, t > st2.session PROVE Traceless(w2, r, t)
  <2>1. Traceless(w, r, t)
    BY <1>12 DEF Wired
  <2> QED
    BY <1>1, <1>8, <1>10, <2>1 DEF Traceless
<1>13. ASSUME NEW t \in Takes, Sung(st, t) PROVE r.take = t /\ ~HasStart(w.up, t) /\ r.waiting # t
  <2>1. r.take = t /\ Plain(w.up)
    BY <1>1, <1>13 DEF Wired, Phase, Holds
  <2>2. ~HasStart(w.up, t)
    BY <1>0, <2>1, SendFacts DEF HasStart, Plain
  <2>3. r.waiting # t
    BY <2>1 DEF Wired, Plugged, Takes, NoTake
  <2> QED
    BY <2>1, <2>2, <2>3
<1>14. ASSUME NEW t \in Takes PROVE Complete(w2, r, st2, pp, t)
  <2> DEFINE d == r.stored[t]
             n == pp[t].posted
  <2>0. d \in Seq(Sends) /\ n \in Nat
    BY StoredSends DEF Pipes
  <2>1. Complete(w, r, st, pp, t) /\ ~Sung(st2, t)
    BY DEF Wired, NoSong
  <2>2. ASSUME r.take = t, t \notin st.failed
        PROVE  st2.chain[t] \in Finishing /\ Counts(d \o w2.up, t, n)
    <3>1. st2.chain[t] \in Finishing /\ Counts(d \o w.up, t, n)
      BY <2>1, <2>2 DEF Complete
    <3>2. NoneOf(q, t)
      BY <1>3, <2>2
    <3>0. d \o w.up \in Seq(Sends)
      BY <1>0, <2>0
    <3> HIDE DEF d, n, q
    <3>3. Counts((d \o w.up) \o q, t, n)
      BY <1>0, <2>0, <3>1, <3>2, <3>0, CountMore
    <3>4. (d \o w.up) \o q = d \o (w.up \o q)
      BY <1>0, <2>0, JoinedLater, ZenonT(60)
    <3>5. Counts(d \o u, t, n)
      BY <3>1, <3>3, <3>4 DEF u
    <3>6. d \o Append(u, TheFinish) = Append(d \o u, TheFinish) /\ d \o u \in Seq(Sends)
      <4>1. d \o Append(u, TheFinish) = Append(d \o u, TheFinish)
        BY <1>0, <1>5, <2>0, JoinedSent
      <4> QED
        BY <1>5, <2>0, <4>1
    <3>7. Counts(Append(d \o u, TheFinish), t, n)
      BY <1>0, <1>2, <2>0, <3>5, <3>6, CountOther
    <3> QED
      BY <1>1, <3>1, <3>6, <3>7
  <2> QED
    BY <1>1, <1>8, <1>13, <2>1, <2>2 DEF Complete
<1> QED
  BY <1>7, <1>9, <1>11, <1>12, <1>14 DEF Wired, NoSong

\* The server has begun the take of the session.
LEMMA StartHeard ==
  ASSUME NEW w \in Nets, NEW r \in Rooms, NEW st \in Stages, NEW pp \in Pipes,
         NEW w2 \in Nets, NEW st2 \in Stages,
         Wired(w, r, st, pp), w.socket = "open", w.down # <<>>,
         Head(w.down) = [kind |-> "started", take |-> st.session],
         w2.socket = "open", w2.down = Tail(w.down), w2.up = w.up \o w.pending, w2.pending = <<>>,
         st2.ready, \A s \in Takes : s \in st2.started <=> s \in st.started \/ s = st.stream,
         st2.stream = st.stream, st2.draft = st.draft, st2.session = st.session,
         st2.over = st.over, st2.gaveUp = st.gaveUp, st2.failed = st.failed,
         st2.chain = st.chain, st2.cleanup = st.cleanup,
         st.gaveUp \subseteq st.failed,
         ~st.draft /\ st.stream # NoTake => st.stream = st.session
  PROVE  Wired(w2, r, st2, pp)
<1> DEFINE q == w.pending
           held == Held(r)
<1>0. w.up \in Seq(Sends) /\ q \in Seq(Sends) /\ held \in BOOLEAN /\ NoTake \notin Takes
  BY DEF Nets, Held, NoTake, Takes
<1>1. Plain(q) /\ Line(w) = w.up /\ Line(w2) = w2.up
  BY DEF Wired, Plugged, Line
<1>2. /\ \A kind, s : Told(w2.down, kind, s) => Told(w.down, kind, s)
      /\ Told(w.down, "started", st.session)
  BY ToldServed DEF Nets
<1>3. (\A s \in Takes : Sung(st2, s) <=> Sung(st, s)) /\ (Owes(st2) <=> Owes(st))
  BY DEF Sung, Owes
<1>4. ASSUME NEW s \in Takes, Sung(st, s)
      PROVE  /\ s = st.session /\ s = st.stream /\ r.take = s /\ Plain(w.up) /\ ~HasStart(w.up, s)
             /\ r.waiting # s /\ (st.ready => q = <<>>)
  <2>1. s = st.session /\ s = st.stream
    BY <1>0, <1>4 DEF Sung
  <2>2. r.take = s /\ Plain(w.up) /\ (st.ready => q = <<>>)
    BY <1>1, <1>2, <1>4, <2>1 DEF Wired, Phase, Holds
  <2>3. ~HasStart(w.up, s)
    BY <1>0, <2>2, SendFacts DEF HasStart, Plain
  <2>4. r.waiting # s
    BY <1>0, <2>2 DEF Wired, Plugged
  <2> QED
    BY <2>1, <2>2, <2>3, <2>4
<1>5. \A i \in DOMAIN q : q[i].take \in st.gaveUp \/ (q[i].take = r.take /\ Plain(w.up))
  <2> SUFFICES ASSUME NEW i \in DOMAIN q
               PROVE  q[i].take \in st.gaveUp \/ (q[i].take = r.take /\ Plain(w.up))
    OBVIOUS
  <2>1. IsPacket(q[i]) /\ q[i] \in Sends
    BY <1>0, <1>1 DEF Plain
  <2>2. q[i].take \in Takes
    BY <2>1, SendFacts
  <2>3. q[i].take \in st.gaveUp \/ Sung(st, q[i].take)
    BY <2>1, <2>2 DEF Wired, Sorted, NoneOf, Of
  <2> QED
    BY <1>4, <2>2, <2>3
<1>6. /\ Alternating(w2.up, held)
      /\ OpenEnd(w2.up, held) => OpenEnd(w.up, held)
      /\ \A t : HasStart(w2.up, t) <=> HasStart(w.up, t)
      /\ \A t : StartsLast(w.up, t) => StartsLast(w2.up, t)
      /\ Plain(w.up) => Plain(w2.up)
      /\ \A t : NoneOf(w.up, t) /\ NoneOf(q, t) => NoneOf(w2.up, t)
  <2>1. Alternating(w.up, held)
    BY <1>1 DEF Wired, Paired
  <2> QED
    <3>1. Extended(w.up, q, w2.up, held)
      BY <1>0, <1>1, TextJoined
    <3> QED
      BY <2>1, <3>1 DEF Extended
<1>7. Plugged(w2, r, st2)
  BY <1>1, NothingTold DEF Wired, Plugged
<1>8. Paired(w2, r, st2)
  BY <1>1, <1>3, <1>6 DEF Wired, Paired
<1>9. Sorted(w2, r, st2)
  <2>1. Leads(w.up, r.take, st.gaveUp)
    BY DEF Wired, Sorted
  <2>2. Leads(w2.up, r.take, st.gaveUp)
    BY <1>0, <1>1, <1>5, <2>1, LeadsJoined
  <2> QED
    BY <2>2, NothingTold DEF Wired, Sorted
<1>10. ASSUME NEW t \in Takes, t > st2.session PROVE Traceless(w2, r, t)
  <2>1. Traceless(w, r, t)
    BY <1>10 DEF Wired
  <2> QED
    BY <1>1, <1>2, <1>6, <2>1, NothingTold DEF Traceless
<1>11. ASSUME NEW t \in Takes, Sung(st, t) PROVE Phase(w2, r, st2, t)
  <2>1. Phase(w, r, st, t)
    BY <1>11 DEF Wired
  <2> QED
    BY <1>1, <1>2, <1>4, <1>6, <1>11, <2>1 DEF Phase
<1>12. ASSUME NEW t \in Takes PROVE Complete(w2, r, st2, pp, t)
  <2> DEFINE d == r.stored[t]
  <2>0. d \in Seq(Sends) /\ Complete(w, r, st, pp, t)
    BY StoredSends DEF Wired
  <2>1. d \o w.up \in Seq(Sends) /\ (d \o w.up) \o q = d \o (w.up \o q) /\ w.up \o <<>> = w.up
    <3>1. d \o w.up \in Seq(Sends)
      BY <1>0, <2>0
    <3> HIDE DEF d, q
    <3>2. (d \o w.up) \o q = d \o (w.up \o q)
      BY <1>0, <2>0, JoinedLater
    <3>3. w.up \o <<>> = w.up
      BY <1>0, JoinedNothing
    <3> QED
      BY <3>1, <3>2, <3>3
  <2>2. ASSUME Sung(st, t) PROVE Counts(d \o w2.up, t, pp[t].read)
    <3>1. CASE st.ready
      BY <1>4, <2>0, <2>1, <2>2, <3>1 DEF Complete
    <3>2. CASE ~st.ready
      <4>1. Counts(q, t, pp[t].read) /\ NoneOf(w.up, t) /\ NoneOf(d, t)
        BY <2>0, <2>2, <3>2 DEF Complete
      <4>2. NoneOf(d \o w.up, t)
        BY <1>0, <2>0, <4>1, NoneJoined
      <4> HIDE DEF d, q
      <4>3. Counts((d \o w.up) \o q, t, pp[t].read)
        BY <1>0, <2>1, <4>1, <4>2, CountAlone
      <4> QED
        BY <2>1, <4>3 DEF q
    <3> QED
      BY <3>1, <3>2
  <2>3. ASSUME NEW n, Counts(d \o w.up, t, n), t \notin st.failed, ~Sung(st, t)
        PROVE  Counts(d \o w2.up, t, n)
    <3>1. NoneOf(q, t)
      BY <2>3 DEF Wired, Sorted
    <3> HIDE DEF d, q
    <3>2. Counts((d \o w.up) \o q, t, n)
      BY <1>0, <2>1, <2>3, <3>1, CountMore
    <3> QED
      BY <2>1, <3>2 DEF q
  <2> QED
    BY <1>1, <1>3, <1>6, <2>0, <2>2, <2>3 DEF Complete
<1> QED
  BY <1>3, <1>7, <1>8, <1>9, <1>10, <1>11, <1>12 DEF Wired

\* The server has ended, or refused, the take of the session.
LEMMA EndHeard ==
  ASSUME NEW w \in Nets, NEW r \in Rooms, NEW st \in Stages, NEW pp \in Pipes,
         NEW w2 \in Nets, NEW st2 \in Stages,
         Wired(w, r, st, pp), w.socket = "open", w.down # <<>>,
         Head(w.down) = [kind |-> "finished", take |-> st.session],
         w2.socket = "open", w2.down = Tail(w.down), w2.up = w.up, w2.pending = w.pending,
         ~st2.ready, \A s \in Takes : s \in st2.over <=> s \in st.over \/ s = st.stream,
         st2.stream = st.stream, st2.draft = st.draft, st2.session = st.session,
         st2.started = st.started, st2.gaveUp = st.gaveUp, st2.failed = st.failed,
         st2.chain = st.chain, st2.cleanup = st.cleanup,
         ~st.draft /\ st.stream # NoTake => st.stream = st.session
  PROVE  Wired(w2, r, st2, pp)
<1>1. Line(w) = w.up /\ Line(w2) = w2.up
  BY DEF Line
<1>2. /\ \A kind, s : Told(w2.down, kind, s) => Told(w.down, kind, s)
      /\ Told(w.down, "finished", st.session)
  BY ToldServed DEF Nets
<1>3. (\A s \in Takes : Sung(st2, s) <=> Sung(st, s)) /\ (Owes(st2) <=> Owes(st))
  BY DEF Sung, Owes
<1>4. ASSUME NEW s \in Takes, Sung(st, s)
      PROVE  /\ s = st.session /\ Phase(w, r, st, s) /\ r.take # s /\ ~HasStart(w.up, s)
             /\ r.waiting # s /\ ~st.ready /\ s \notin st.started
  <2>1. s = st.session /\ Told(w.down, "finished", s)
    BY <1>2, <1>4 DEF Sung, NoTake, Takes
  <2>2. Phase(w, r, st, s)
    BY <1>4 DEF Wired
  <2>3. r.take # s /\ ~HasStart(w.up, s) /\ r.waiting # s
    BY <1>1, <2>1, <2>2 DEF Phase, Silent
  <2>4. s \notin st.started /\ ~st.ready
    BY <2>2, <2>3 DEF Phase
  <2> QED
    BY <2>1, <2>2, <2>3, <2>4
<1>5. Plugged(w2, r, st2)
  BY <1>2 DEF Wired, Plugged
<1>6. Paired(w2, r, st2) /\ Sorted(w2, r, st2)
  BY <1>1, <1>3 DEF Wired, Paired, Sorted
<1>7. ASSUME NEW t \in Takes, t > st2.session PROVE Traceless(w2, r, t)
  BY <1>1, <1>2, <1>7 DEF Wired, Traceless
<1>8. ASSUME NEW t \in Takes, Sung(st, t) PROVE Phase(w2, r, st2, t)
  BY <1>1, <1>2, <1>4, <1>8 DEF Phase
<1>9. ASSUME NEW t \in Takes PROVE Complete(w2, r, st2, pp, t)
  <2>1. Complete(w, r, st, pp, t)
    BY DEF Wired
  <2> QED
    BY <1>1, <1>3, <1>4, <2>1 DEF Complete
<1> QED
  BY <1>3, <1>5, <1>6, <1>7, <1>8, <1>9 DEF Wired

\* The socket opens: texts that waited for it go, packets wait for the start.
LEMMA Opened ==
  ASSUME NEW w \in Nets, NEW r \in Rooms, NEW st \in Stages, NEW pp \in Pipes, NEW w2 \in Nets,
         Wired(w, r, st, pp), w.socket = "connecting",
         w2.socket = "open", w2.down = w.down,
         w2.up = w.up \o Picked(w.pending, Sendable(w.pending, FALSE)),
         w2.pending = Picked(w.pending, DOMAIN w.pending \ Sendable(w.pending, FALSE))
  PROVE  Wired(w2, r, st, pp)
<1> DEFINE q == w.pending
           I == Sendable(q, FALSE)
           J == DOMAIN q \ I
           x == Picked(q, I)
           y == Picked(q, J)
<1>0. q \in Seq(Sends) /\ I \in SUBSET (DOMAIN q) /\ J \in SUBSET (DOMAIN q)
  BY DEF Nets, Sendable
<1>1. /\ \A i \in DOMAIN q : i \in I <=> ~IsPacket(q[i])
      /\ \A i \in DOMAIN q : i \in J <=> IsPacket(q[i])
  BY DEF Sendable
<1>2. w.up = <<>> /\ w.down = <<>> /\ ~st.ready /\ ~Held(r) /\ Line(w) = q
  BY DEF Wired, Plugged, Line
<1> HIDE DEF I, J
<1>3. x \in Seq(Sends) /\ InOrderOf(q, I, x) /\ y \in Seq(Sends) /\ InOrderOf(q, J, y)
  BY <1>0, PickedFacts
<1>4. /\ Alternating(q, FALSE) => Alternating(x, FALSE)
      /\ OpenEnd(x, FALSE) => OpenEnd(q, FALSE)
      /\ \A s : HasStart(x, s) => HasStart(q, s)
      /\ \A s : StartsLast(q, s) => StartsLast(x, s)
  <2>1. \A i \in DOMAIN q : i \in I \/ IsPacket(q[i])
    BY <1>1
  <2> QED
    <3>1. SameTexts(q, x)
      BY <1>0, <2>1, TextPicked
    <3> QED
      BY <3>1 DEF SameTexts
<1>5. \A s, n : Counts(q, s, n) => Counts(y, s, n)
  <2>1. \A i \in DOMAIN q : IsPacket(q[i]) => i \in J
    BY <1>1
  <2> QED
    BY <1>0, <2>1, CountPicked
<1>6. \A i \in DOMAIN x : ~IsPacket(x[i])
  <2>1. \A i \in DOMAIN x : \E k \in I : x[i] = q[k]
    BY <1>3 DEF InOrderOf
  <2> QED
    BY <1>0, <1>1, <2>1
<1>7. \A i \in DOMAIN y : IsPacket(y[i]) /\ \E k \in DOMAIN q : y[i] = q[k]
  <2>1. \A i \in DOMAIN y : \E k \in J : y[i] = q[k]
    BY <1>3 DEF InOrderOf
  <2> QED
    BY <1>0, <1>1, <2>1
<1> HIDE DEF x, y
<1>8. w2.up = x /\ w2.pending = y /\ Line(w2) = x
  <2>1. <<>> \o x = x
    BY <1>3, JoinedNothing
  <2>2. w2.up = <<>> \o x
    BY <1>2 DEF x, I
  <2> QED
    BY <2>1, <2>2 DEF Line, y, J, I
<1>9. Plain(y) /\ (\A s : NoneOf(x, s)) /\ \A s : NoneOf(q, s) => NoneOf(y, s)
  BY <1>6, <1>7 DEF Plain, NoneOf, Of
<1>10. Plugged(w2, r, st)
  BY <1>2, <1>8, <1>9 DEF Wired, Plugged
<1>11. Paired(w2, r, st)
  <2>1. Held(r) = FALSE
    BY <1>2 DEF Held
  <2> QED
    BY <1>2, <1>4, <1>8, <2>1 DEF Wired, Paired
<1>12. Sorted(w2, r, st)
  <2>1. Leads(x, r.take, st.gaveUp)
    BY <1>6 DEF Leads
  <2> QED
    BY <1>8, <1>9, <2>1 DEF Wired, Sorted
<1>13. \A s : ~Holds(r, s) \/ s = NoTake
  BY <1>2 DEF Held, Holds
<1>14. ASSUME NEW t \in Takes, t > st.session PROVE Traceless(w2, r, t)
  <2>1. Traceless(w, r, t)
    BY <1>14 DEF Wired
  <2> QED
    BY <1>2, <1>4, <1>8, <1>9, <2>1 DEF Traceless
<1>15. ASSUME NEW t \in Takes, Sung(st, t) PROVE Phase(w2, r, st, t)
  <2>1. Phase(w, r, st, t) /\ ~Holds(r, t)
    BY <1>13, <1>15 DEF Wired, Takes, NoTake
  <2> QED
    BY <1>2, <1>4, <1>8, <2>1 DEF Phase, Silent
<1>16. ASSUME NEW t \in Takes PROVE Complete(w2, r, st, pp, t)
  <2>1. Complete(w, r, st, pp, t) /\ ~Holds(r, t)
    BY <1>13 DEF Wired, Takes, NoTake
  <2> QED
    BY <1>2, <1>4, <1>5, <1>8, <1>9, <2>1 DEF Complete, Holds
<1> QED
  BY <1>10, <1>11, <1>12, <1>14, <1>15, <1>16 DEF Wired

\* The socket is gone, and with it what waited and what was on it.
LEMMA Lost ==
  ASSUME NEW w \in Nets, NEW r \in Rooms, NEW st \in Stages, NEW pp \in Pipes,
         NEW w2 \in Nets, NEW r2 \in Rooms, NEW st2 \in Stages,
         Wired(w, r, st, pp),
         w2.socket = "gone", w2.up = <<>>, w2.pending = <<>>, w2.down = <<>>,
         r2.take = NoTake, r2.refused = NoTake, r2.waiting = NoTake,
         r2.ended = r.ended, r2.stored = r.stored,
         st2.session = st.session, st2.gaveUp = st.gaveUp, st.failed \subseteq st2.failed,
         NoSong(st2),
         \A s \in Takes : st.chain[s] \in Finishing => st2.chain[s] \in Finishing
  PROVE  Wired(w2, r2, st2, pp)
<1>1. Line(w2) = <<>> /\ ~Held(r2) /\ \A s \in Takes : ~Holds(r2, s)
  BY DEF Line, Held, Holds, NoTake, Takes
<1>2. Plugged(w2, r2, st2)
  BY <1>1 DEF Plugged
<1>3. Paired(w2, r2, st2)
  BY <1>1, NothingTold DEF Paired, OpenEnd
<1>4. Sorted(w2, r2, st2)
  BY NothingTold DEF Wired, Sorted
<1>5. ASSUME NEW t \in Takes, t > st2.session PROVE Traceless(w2, r2, t)
  BY <1>1, <1>5, NothingTold DEF Wired, Traceless
<1>6. ASSUME NEW t \in Takes PROVE Complete(w2, r2, st2, pp, t)
  <2>1. Complete(w, r, st, pp, t) /\ ~Sung(st2, t)
    BY DEF Wired, NoSong
  <2> QED
    BY <1>1, <2>1, NothingTold DEF Complete, Holds
<1> QED
  BY <1>2, <1>3, <1>4, <1>5, <1>6 DEF Wired, NoSong

\* The next chunk of the stream goes, or waits for the start of the take.
LEMMA ChunkSent ==
  ASSUME NEW w \in Nets, NEW r \in Rooms, NEW st \in Stages, NEW pp \in Pipes,
         NEW w2 \in Nets, NEW pp2 \in Pipes, NEW s \in Takes, NEW e \in Sends,
         Wired(w, r, st, pp), Sung(st, s), s = st.session, w.socket # "gone",
         Of(e, s), e.number = pp[s].read + 1,
         w2.socket = w.socket, w2.down = w.down,
         w.socket = "open" /\ st.ready => w2.up = Append(w.up, e) /\ w2.pending = w.pending,
         ~(w.socket = "open" /\ st.ready) => w2.up = w.up /\ w2.pending = Append(w.pending, e),
         pp2[s].read = pp[s].read + 1,
         \A t \in Takes : t # s => pp2[t].read = pp[t].read,
         \A t \in Takes : pp2[t].posted = pp[t].posted
  PROVE  Wired(w2, r, st, pp2)
<1>0. /\ w.up \in Seq(Sends) /\ w.pending \in Seq(Sends) /\ w.socket \in {"connecting", "open", "gone"}
      /\ NoTake \notin Takes /\ Held(r) \in BOOLEAN
  BY DEF Nets, NoTake, Takes, Held
<1>1. /\ IsPacket(e) /\ ~Starts(e) /\ ~Finishes(e)
      /\ \A t : Of(e, t) <=> t = s
      /\ e.take = s
  BY SendFacts DEF Of
<1>2. Phase(w, r, st, s) /\ Complete(w, r, st, pp, s) /\ pp[s].read \in Nat
  BY DEF Wired, Pipes
<1>3. \A t \in Takes : Sung(st, t) => t = s
  BY DEF Sung
<1>4. ~st.ready \/ (w.socket = "open" /\ s \in st.started /\ r.take = s /\ Plain(w.up))
  <2>1. w.socket = "connecting" => ~st.ready
    BY DEF Wired, Plugged
  <2> QED
    BY <1>0, <1>2, <2>1 DEF Phase, Holds, Line
<1>5. /\ \A t : NoneOf(w2.up, t) => NoneOf(w.up, t)
      /\ \A t : t # s => (NoneOf(w2.up, t) <=> NoneOf(w.up, t))
      /\ \A t : t # s => (NoneOf(w2.pending, t) <=> NoneOf(w.pending, t))
      /\ ~st.ready => w2.up = w.up
      /\ Plain(w.pending) => Plain(w2.pending)
  <2>1. \A t : NoneOf(Append(w.up, e), t) <=> NoneOf(w.up, t) /\ ~Of(e, t)
    BY <1>0, NoneSent, Zenon
  <2>5. \A t : NoneOf(Append(w.pending, e), t) <=> NoneOf(w.pending, t) /\ ~Of(e, t)
    BY <1>0, NoneSent, Zenon
  <2>2. Plain(Append(w.pending, e)) <=> Plain(w.pending)
    BY <1>0, <1>1, NoneSent, Zenon
  <2>3. CASE w.socket = "open" /\ st.ready
    <3>1. \A t : NoneOf(w2.up, t) <=> NoneOf(w.up, t) /\ ~Of(e, t)
      <4>1. w2.up = Append(w.up, e)
        BY <2>3
      <4> QED
        BY <4>1, <2>1, Zenon
    <3>2. w2.pending = w.pending
      BY <2>3
    <3> QED
      BY <1>1, <2>3, <3>1, <3>2
  <2>4. CASE ~(w.socket = "open" /\ st.ready)
    <3>1. \A t : NoneOf(w2.pending, t) <=> NoneOf(w.pending, t) /\ ~Of(e, t)
      <4>1. w2.pending = Append(w.pending, e)
        BY <2>4
      <4> QED
        BY <4>1, <2>5, Zenon
    <3>2. w2.up = w.up /\ (Plain(w.pending) => Plain(w2.pending))
      BY <2>2, <2>4
    <3> QED
      BY <1>1, <2>4, <3>1, <3>2
  <2> QED
    BY <2>3, <2>4
<1>6. /\ Alternating(Line(w), Held(r)) => Alternating(Line(w2), Held(r))
      /\ OpenEnd(Line(w2), Held(r)) => OpenEnd(Line(w), Held(r))
      /\ Plain(Line(w)) => Plain(Line(w2))
      /\ \A t : HasStart(Line(w2), t) <=> HasStart(Line(w), t)
      /\ \A t : StartsLast(Line(w), t) => StartsLast(Line(w2), t)
  <2>1. Line(w) \in Seq(Sends)
    BY <1>0 DEF Line
  <2>2. Line(w2) = Line(w) \/ Line(w2) = Append(Line(w), e)
    BY <1>0 DEF Line
  <2> QED
    <3>1. Lengthened(Line(w), e, Append(Line(w), e), Held(r))
      BY <1>0, <2>1, TextSent
    <3> QED
      BY <1>1, <2>2, <3>1 DEF Lengthened
<1>7. Plugged(w2, r, st)
  BY <1>4, <1>5 DEF Wired, Plugged
<1>8. Paired(w2, r, st)
  BY <1>6 DEF Wired, Paired
<1>9. Sorted(w2, r, st)
  <2>1. Leads(w.up, r.take, st.gaveUp)
    BY DEF Wired, Sorted
  <2>2. Leads(w2.up, r.take, st.gaveUp)
    <3>1. CASE st.ready
      <4>1. Leads(Append(w.up, e), r.take, st.gaveUp)
        BY <1>0, <1>1, <1>4, <2>1, <3>1, LeadsSent
      <4> QED
        BY <1>4, <3>1, <4>1
    <3>2. CASE ~st.ready
      BY <1>5, <2>1, <3>2
    <3> QED
      BY <3>1, <3>2
  <2> QED
    BY <1>5, <2>2 DEF Wired, Sorted
<1>10. ASSUME NEW t \in Takes, t > st.session PROVE Traceless(w2, r, t)
  <2>1. Traceless(w, r, t) /\ t # s
    BY <1>10 DEF Wired, Takes
  <2> QED
    BY <1>5, <1>6, <2>1 DEF Traceless
<1>11. Phase(w2, r, st, s)
  BY <1>2, <1>4, <1>6 DEF Phase, Silent
<1>12. Complete(w2, r, st, pp2, s)
  <2> DEFINE d == r.stored[s]
             n == pp[s].read
  <2>0. d \in Seq(Sends) /\ n \in Nat
    BY <1>2, StoredSends
  <2>1. CASE ~st.ready
    <3>1. Counts(w.pending, s, n) /\ NoneOf(w.up, s) /\ NoneOf(d, s)
      BY <1>2, <2>1 DEF Complete
    <3>2. w2.pending = Append(w.pending, e)
      BY <2>1
    <3> HIDE DEF d
    <3>3. Counts(w2.pending, s, n + 1)
      BY <1>0, <1>1, <2>0, <3>1, <3>2, CountNext
    <3> QED
      BY <1>2, <1>5, <1>6, <2>1, <3>1, <3>3 DEF Complete, d
  <2>2. CASE st.ready
    <3>1. Counts(d \o w.up, s, n) /\ w2.up = Append(w.up, e)
      BY <1>2, <1>4, <2>2 DEF Complete
    <3> HIDE DEF d
    <3>2. d \o Append(w.up, e) = Append(d \o w.up, e) /\ d \o w.up \in Seq(Sends)
      <4>1. d \o Append(w.up, e) = Append(d \o w.up, e)
        BY <1>0, <2>0, JoinedSent
      <4> QED
        BY <1>0, <2>0, <4>1
    <3>3. Counts(Append(d \o w.up, e), s, n + 1)
      BY <1>0, <1>1, <2>0, <3>1, <3>2, CountNext
    <3>4. Counts(d \o w2.up, s, n + 1)
      BY <3>1, <3>2, <3>3
    <3> QED
      BY <1>2, <1>6, <2>2, <3>4 DEF Complete, d
  <2> QED
    BY <2>1, <2>2
<1>13. ASSUME NEW t \in Takes, t # s PROVE Complete(w2, r, st, pp2, t)
  <2>1. Complete(w, r, st, pp, t) /\ ~Sung(st, t)
    BY <1>3, <1>13 DEF Wired
  <2>2. r.take = t => w2.up = w.up
    BY <1>4, <1>5, <1>13
  <2> QED
    BY <1>6, <2>1, <2>2 DEF Complete
<1> QED
  BY <1>3, <1>7, <1>8, <1>9, <1>10, <1>11, <1>12, <1>13 DEF Wired

(* What the server does with the messages that reach it.                   *)

\* The socket is open for the server, and a take that is sung is ready only when
\* it is the one that the server holds.
LEMMA ServerFacts ==
  ASSUME NEW w \in Nets, NEW r \in Rooms, NEW st \in Stages, NEW pp \in Pipes,
         Wired(w, r, st, pp), w.up # <<>> \/ Held(r)
  PROVE  /\ w.socket = "open" /\ Line(w) = w.up /\ w.up \in Seq(Sends) /\ w.down \in Seq(News)
         /\ Held(r) \in BOOLEAN /\ NoTake \notin Takes
         /\ \A s \in Takes : Sung(st, s) /\ st.ready => r.take = s
<1>1. w.socket = "open"
  BY DEF Wired, Plugged, Nets
<1>2. Line(w) = w.up /\ w.up \in Seq(Sends) /\ w.down \in Seq(News)
  BY <1>1 DEF Line, Nets
<1>3. Held(r) \in BOOLEAN /\ NoTake \notin Takes
  BY DEF Held, NoTake, Takes
<1>4. \A s \in Takes : Sung(st, s) /\ st.ready => r.take = s
  BY DEF Wired, Phase
<1> QED
  BY <1>1, <1>2, <1>3, <1>4

\* A packet of a refused take is passed over.
LEMMA PacketPassed ==
  ASSUME NEW w \in Nets, NEW r \in Rooms, NEW st \in Stages, NEW pp \in Pipes, NEW w2 \in Nets,
         Wired(w, r, st, pp), w.up # <<>>, IsPacket(Head(w.up)), r.refused # NoTake,
         w2.socket = w.socket, w2.down = w.down, w2.pending = w.pending, w2.up = Tail(w.up)
  PROVE  Wired(w2, r, st, pp)
<1>1. /\ w.socket = "open" /\ Line(w) = w.up /\ w.up \in Seq(Sends) /\ Held(r) \in BOOLEAN
      /\ NoTake \notin Takes /\ \A s \in Takes : Sung(st, s) /\ st.ready => r.take = s
  BY ServerFacts
<1>2. Line(w2) = w2.up /\ r.take = NoTake
  BY <1>1 DEF Line, Wired, Plugged
<1>3. /\ Alternating(w.up, Held(r)) => Alternating(w2.up, Held(r))
      /\ OpenEnd(w2.up, Held(r)) => OpenEnd(w.up, Held(r))
      /\ Plain(w.up) => Plain(w2.up)
      /\ \A t : HasStart(w2.up, t) => HasStart(w.up, t)
      /\ \A t : StartsLast(w.up, t) => StartsLast(w2.up, t)
      /\ \A t : NoneOf(w.up, t) => NoneOf(w2.up, t)
  <2>1. Shortened(w.up, Head(w.up), w2.up, Held(r))
    BY <1>1, TextServed
  <2> QED
    BY <2>1 DEF Shortened
<1>4. Plugged(w2, r, st)
  BY <1>1 DEF Wired, Plugged
<1>5. Paired(w2, r, st)
  BY <1>1, <1>2, <1>3 DEF Wired, Paired
<1>6. Sorted(w2, r, st)
  BY <1>1, LeadsServed DEF Wired, Sorted
<1>7. ASSUME NEW t \in Takes, t > st.session PROVE Traceless(w2, r, t)
  BY <1>1, <1>2, <1>3, <1>7 DEF Wired, Traceless
<1>8. ASSUME NEW t \in Takes, Sung(st, t) PROVE Phase(w2, r, st, t)
  <2>1. Phase(w, r, st, t)
    BY <1>8 DEF Wired
  <2> QED
    BY <1>1, <1>2, <1>3, <2>1 DEF Phase, Silent
<1>9. ASSUME NEW t \in Takes PROVE Complete(w2, r, st, pp, t)
  <2>1. Complete(w, r, st, pp, t)
    BY DEF Wired
  <2> QED
    BY <1>1, <1>2, <1>3, <2>1 DEF Complete
<1> QED
  BY <1>4, <1>5, <1>6, <1>7, <1>8, <1>9 DEF Wired

\* A packet is stored in the take that is held.
LEMMA PacketStored ==
  ASSUME NEW w \in Nets, NEW r \in Rooms, NEW st \in Stages, NEW pp \in Pipes,
         NEW w2 \in Nets, NEW r2 \in Rooms, NEW k \in Takes,
         Wired(w, r, st, pp), w.up # <<>>, IsPacket(Head(w.up)), r.take = k,
         w2.socket = w.socket, w2.down = w.down, w2.pending = w.pending, w2.up = Tail(w.up),
         r2.take = r.take, r2.refused = r.refused, r2.waiting = r.waiting, r2.ended = r.ended,
         r2.stored[k] = Append(r.stored[k], Head(w.up)),
         \A s \in Takes : s # k => r2.stored[s] = r.stored[s],
         st.gaveUp \subseteq st.failed
  PROVE  Wired(w2, r2, st, pp)
<1> DEFINE e == Head(w.up)
<1>1. /\ w.socket = "open" /\ Line(w) = w.up /\ w.up \in Seq(Sends) /\ Held(r) \in BOOLEAN
      /\ NoTake \notin Takes /\ \A s \in Takes : Sung(st, s) /\ st.ready => r.take = s
  BY ServerFacts
<1>2. Line(w2) = w2.up /\ Held(r2) = Held(r) /\ \A s : Holds(r2, s) <=> Holds(r, s)
  BY <1>1 DEF Line, Held, Holds
<1>3. /\ e \in Sends
      /\ Alternating(w.up, Held(r)) => Alternating(w2.up, Held(r))
      /\ OpenEnd(w2.up, Held(r)) => OpenEnd(w.up, Held(r))
      /\ Plain(w.up) => Plain(w2.up)
      /\ \A t : HasStart(w2.up, t) => HasStart(w.up, t)
      /\ \A t : StartsLast(w.up, t) => StartsLast(w2.up, t)
      /\ \A t : NoneOf(w.up, t) => NoneOf(w2.up, t)
  <2>1. Shortened(w.up, Head(w.up), w2.up, Held(r))
    BY <1>1, TextServed
  <2> QED
    BY <2>1 DEF Shortened
<1>4. e.take \in st.gaveUp \/ e.take = k
  BY <1>1, LeadsServed DEF Wired, Sorted
<1>5. \A s \in Takes : r.stored[s] \in Seq(Sends)
  BY StoredSends
<1>6. \A t : NoneOf(w.up, t) => ~Of(e, t)
  BY <1>1, NoneServed
<1> HIDE DEF e
<1>7. \A s, t \in Takes : NoneOf(r.stored[s], t) /\ (s = k => ~Of(e, t)) => NoneOf(r2.stored[s], t)
  <2>1. \A t : NoneOf(r.stored[k], t) /\ ~Of(e, t) => NoneOf(Append(r.stored[k], e), t)
    BY <1>3, <1>5, NoneSent
  <2> QED
    BY <2>1 DEF e
<1>8. Plugged(w2, r2, st)
  BY <1>1, <1>2 DEF Wired, Plugged
<1>9. Paired(w2, r2, st)
  BY <1>1, <1>2, <1>3 DEF Wired, Paired
<1>10. Sorted(w2, r2, st)
  <2>1. Leads(w2.up, r2.take, st.gaveUp)
    BY <1>1, LeadsServed DEF Wired, Sorted
  <2>2. \A s, t \in Takes : NoneOf(r2.stored[s], t) \/ t = s \/ t \in st.gaveUp
    BY <1>4, <1>7 DEF Wired, Sorted, Of
  <2> QED
    BY <2>1, <2>2 DEF Wired, Sorted
<1>11. ASSUME NEW t \in Takes, t > st.session PROVE Traceless(w2, r2, t)
  BY <1>1, <1>2, <1>3, <1>6, <1>7, <1>11 DEF Wired, Traceless
<1>12. ASSUME NEW t \in Takes, Sung(st, t) PROVE Phase(w2, r2, st, t)
  <2>1. Phase(w, r, st, t)
    BY <1>12 DEF Wired
  <2> QED
    BY <1>1, <1>2, <1>3, <2>1 DEF Phase, Silent
<1>13. r2.stored[k] \o w2.up = r.stored[k] \o w.up
  <2>1. Append(r.stored[k], Head(w.up)) \o Tail(w.up) = r.stored[k] \o w.up
    BY <1>1, <1>5, JoinedServed
  <2> QED
    BY <2>1
<1>15. ASSUME NEW t \in Takes PROVE Complete(w2, r2, st, pp, t)
  <2>1. Complete(w, r, st, pp, t)
    BY DEF Wired
  <2>2. Sung(st, t) /\ ~st.ready =>
          Counts(w2.pending, t, pp[t].read) /\ NoneOf(w2.up, t) /\ NoneOf(r2.stored[t], t)
    BY <1>3, <1>6, <1>7, <2>1 DEF Complete
  <2>3. CASE t = k
    BY <1>1, <1>2, <1>3, <1>13, <2>1, <2>2, <2>3 DEF Complete
  <2>4. CASE t # k
    BY <1>1, <1>2, <1>3, <2>1, <2>2, <2>4 DEF Complete
  <2> QED
    BY <2>3, <2>4
<1> QED
  BY <1>8, <1>9, <1>10, <1>11, <1>12, <1>15 DEF Wired

\* A packet that follows no start closes the connection.
LEMMA PacketCloses ==
  ASSUME NEW w \in Nets, NEW r \in Rooms, NEW st \in Stages, NEW pp \in Pipes, NEW w2 \in Nets,
         Wired(w, r, st, pp), w.up # <<>>, ~Held(r),
         w2.socket = w.socket, w2.pending = w.pending, w2.up = <<>>,
         w2.down = Append(w.down, [kind |-> "close"])
  PROVE  Wired(w2, r, st, pp)
<1>1. /\ w.socket = "open" /\ Line(w) = w.up /\ w.down \in Seq(News)
      /\ NoTake \notin Takes /\ \A s \in Takes : Sung(st, s) /\ st.ready => r.take = s
  BY ServerFacts
<1>2. Line(w2) = <<>> /\ \A s \in Takes : ~Holds(r, s)
  BY <1>1 DEF Line, Held, Holds
<1>3. \A kind, s : Told(w2.down, kind, s) => Told(w.down, kind, s)
  <2> DEFINE e == [kind |-> "close"]
  <2>1. e \in News
    BY DEF News
  <2>2. \A kind, s : e # [kind |-> kind, take |-> s]
    OBVIOUS
  <2> HIDE DEF e
  <2>3. w2.down = Append(w.down, e)
    BY DEF e
  <2> QED
    <3>1. \A kind, s : Told(Append(w.down, e), kind, s) <=>
            Told(w.down, kind, s) \/ e = [kind |-> kind, take |-> s]
      BY <1>1, <2>1, ToldSent, Zenon
    <3> QED
      BY <2>2, <2>3, <3>1
<1>4. Plugged(w2, r, st)
  BY <1>1 DEF Wired, Plugged
<1>5. Paired(w2, r, st) /\ Sorted(w2, r, st)
  BY <1>2, NothingTold DEF Wired, Paired, Sorted, OpenEnd
<1>6. ASSUME NEW t \in Takes, t > st.session PROVE Traceless(w2, r, t)
  BY <1>2, <1>3, <1>6, NothingTold DEF Wired, Traceless
<1>7. ASSUME NEW t \in Takes, Sung(st, t) PROVE Phase(w2, r, st, t)
  <2>1. Phase(w, r, st, t)
    BY <1>7 DEF Wired
  <2> QED
    BY <1>2, <1>3, <2>1, NothingTold DEF Phase, Silent
<1>8. ASSUME NEW t \in Takes PROVE Complete(w2, r, st, pp, t)
  <2>1. Complete(w, r, st, pp, t)
    BY DEF Wired
  <2> QED
    BY <1>1, <1>2, <2>1, NothingTold DEF Complete, Holds
<1> QED
  BY <1>4, <1>5, <1>6, <1>7, <1>8 DEF Wired

\* A finish reaches a server that holds no take: it says nothing.
LEMMA FinishIdle ==
  ASSUME NEW w \in Nets, NEW r \in Rooms, NEW st \in Stages, NEW pp \in Pipes, NEW w2 \in Nets,
         Wired(w, r, st, pp), w.up # <<>>, Finishes(Head(w.up)), ~Held(r),
         w2.socket = w.socket, w2.pending = w.pending, w2.up = Tail(w.up), w2.down = w.down
  PROVE  Wired(w2, r, st, pp)
<1>1. /\ w.socket = "open" /\ Line(w) = w.up /\ w.up \in Seq(Sends)
      /\ NoTake \notin Takes /\ \A s \in Takes : Sung(st, s) /\ st.ready => r.take = s
  BY ServerFacts
<1>2. Line(w2) = w2.up /\ Held(r) = FALSE /\ \A s \in Takes : ~Holds(r, s)
  BY <1>1 DEF Line, Held, Holds
<1>3. /\ ~IsPacket(Head(w.up))
      /\ Alternating(w.up, FALSE) => Alternating(w2.up, FALSE)
      /\ OpenEnd(w2.up, FALSE) => OpenEnd(w.up, FALSE)
      /\ Plain(w.up) => Plain(w2.up)
      /\ \A t : HasStart(w2.up, t) => HasStart(w.up, t)
      /\ \A t : StartsLast(w.up, t) => StartsLast(w2.up, t)
      /\ \A t : NoneOf(w.up, t) => NoneOf(w2.up, t)
  <2>1. Shortened(w.up, Head(w.up), w2.up, FALSE)
    BY <1>1, TextServed
  <2>2. Head(w.up) \in Sends
    BY <2>1 DEF Shortened
  <2>3. ~IsPacket(Head(w.up))
    BY <2>2, SendFacts
  <2> QED
    BY <2>1, <2>3 DEF Shortened
<1>4. Plugged(w2, r, st)
  BY <1>1 DEF Wired, Plugged
<1>5. Paired(w2, r, st)
  BY <1>1, <1>2, <1>3 DEF Wired, Paired
<1>6. Sorted(w2, r, st)
  BY <1>1, LeadsServed DEF Wired, Sorted
<1>7. ASSUME NEW t \in Takes, t > st.session PROVE Traceless(w2, r, t)
  BY <1>1, <1>2, <1>3, <1>7 DEF Wired, Traceless
<1>8. ASSUME NEW t \in Takes, Sung(st, t) PROVE Phase(w2, r, st, t)
  <2>1. Phase(w, r, st, t)
    BY <1>8 DEF Wired
  <2> QED
    BY <1>1, <1>2, <1>3, <2>1 DEF Phase, Silent
<1>9. ASSUME NEW t \in Takes PROVE Complete(w2, r, st, pp, t)
  <2>1. Complete(w, r, st, pp, t)
    BY DEF Wired
  <2> QED
    BY <1>1, <1>2, <1>3, <2>1 DEF Complete, Holds
<1> QED
  BY <1>4, <1>5, <1>6, <1>7, <1>8, <1>9 DEF Wired

\* A finish ends the take that the server holds, or answers for the one it refused.
LEMMA FinishServed ==
  ASSUME NEW w \in Nets, NEW r \in Rooms, NEW st \in Stages, NEW pp \in Pipes,
         NEW w2 \in Nets, NEW r2 \in Rooms, NEW k \in Takes,
         Wired(w, r, st, pp), w.up # <<>>, Finishes(Head(w.up)), r.waiting = NoTake,
         w2.socket = w.socket, w2.pending = w.pending, w2.up = Tail(w.up),
         w2.down = Append(w.down, [kind |-> "finished", take |-> k]),
         r2.take = NoTake, r2.refused = NoTake, r2.waiting = NoTake, r2.stored = r.stored,
         \/ r.refused = k /\ r2.ended = r.ended
         \/ r.refused = NoTake /\ r.take = k /\ r2.ended = r.ended \cup {k},
         st.gaveUp \subseteq st.failed
  PROVE  Wired(w2, r2, st, pp)
<1>0. Held(r) = TRUE /\ Held(r2) = FALSE /\ Holds(r, k) /\ \A s \in Takes : ~Holds(r2, s)
  BY DEF Held, Holds, NoTake, Takes
<1>1. /\ w.socket = "open" /\ Line(w) = w.up /\ w.up \in Seq(Sends) /\ w.down \in Seq(News)
      /\ NoTake \notin Takes /\ \A s \in Takes : Sung(st, s) /\ st.ready => r.take = s
  BY ServerFacts
<1>2. Line(w2) = w2.up
  BY <1>1 DEF Line
<1>3. /\ ~IsPacket(Head(w.up)) /\ ~Plain(w.up)
      /\ Alternating(w.up, TRUE) => Alternating(w2.up, FALSE)
      /\ OpenEnd(w2.up, FALSE) => OpenEnd(w.up, TRUE)
      /\ \A t : HasStart(w2.up, t) => HasStart(w.up, t)
      /\ \A t : StartsLast(w.up, t) => StartsLast(w2.up, t)
      /\ \A t : NoneOf(w.up, t) => NoneOf(w2.up, t)
  <2>1. Shortened(w.up, Head(w.up), w2.up, TRUE)
    BY <1>1, TextServed
  <2>2. Head(w.up) \in Sends
    BY <2>1 DEF Shortened
  <2>3. ~IsPacket(Head(w.up))
    BY <2>2, SendFacts
  <2> QED
    BY <2>1, <2>3 DEF Shortened
<1>4. /\ \A kind, s : Told(w2.down, kind, s) => Told(w.down, kind, s) \/ (kind = "finished" /\ s = k)
  <2> DEFINE e == [kind |-> "finished", take |-> k]
  <2>1. e \in News
    BY DEF News
  <2>2. \A kind, s : e = [kind |-> kind, take |-> s] => kind = "finished" /\ s = k
    <3> SUFFICES ASSUME NEW kind, NEW s, e = [kind |-> kind, take |-> s]
                 PROVE  kind = "finished" /\ s = k
      OBVIOUS
    <3>1. e.kind = kind /\ e.take = s
      OBVIOUS
    <3> QED
      BY <3>1
  <2> HIDE DEF e
  <2>3. w2.down = Append(w.down, e)
    BY DEF e
  <2> QED
    <3>1. \A kind, s : Told(Append(w.down, e), kind, s) <=>
            Told(w.down, kind, s) \/ e = [kind |-> kind, take |-> s]
      BY <1>1, <2>1, ToldSent, Zenon
    <3> QED
      BY <2>2, <2>3, <3>1
<1>5. ~Sung(st, k)
  BY <1>0, <1>1, <1>3 DEF Wired, Phase
<1>6. /\ \A other : Leads(w2.up, other, st.gaveUp)
      /\ \A s : s \notin st.gaveUp => NoneOf(w.up, s)
  BY <1>1, <1>3, LeadsServed DEF Wired, Sorted
<1>7. Plugged(w2, r2, st)
  BY <1>0, <1>1 DEF Wired, Plugged
<1>8. Paired(w2, r2, st)
  BY <1>0, <1>1, <1>2, <1>3 DEF Wired, Paired
<1>9. Sorted(w2, r2, st)
  BY <1>6 DEF Wired, Sorted
<1>10. ASSUME NEW t \in Takes, t > st.session PROVE Traceless(w2, r2, t)
  <2>1. Traceless(w, r, t)
    BY <1>10 DEF Wired
  <2>2. t # k
    BY <1>0, <2>1 DEF Traceless
  <2> QED
    BY <1>0, <1>1, <1>2, <1>3, <1>4, <2>1, <2>2 DEF Traceless
<1>11. ASSUME NEW t \in Takes, Sung(st, t) PROVE Phase(w2, r2, st, t)
  <2>1. Phase(w, r, st, t) /\ t # k
    BY <1>5, <1>11 DEF Wired
  <2>2. r.take # t
    BY <1>0, <1>1, <1>3, <2>1 DEF Phase, Holds
  <2> QED
    BY <1>0, <1>1, <1>2, <1>3, <1>4, <2>1, <2>2 DEF Phase, Silent, Holds
<1>12. ASSUME NEW t \in Takes PROVE Complete(w2, r2, st, pp, t)
  <2>1. Complete(w, r, st, pp, t) /\ (Sung(st, t) => ~st.ready)
    <3>1. Sung(st, t) => r.take # t
      BY <1>0, <1>1, <1>3 DEF Wired, Phase, Holds
    <3> QED
      BY <1>1, <3>1 DEF Wired
  <2>2. ASSUME r.refused = NoTake, r.take = k, t = k, t \notin st.failed
        PROVE  st.chain[t] \in Finishing /\ Counts(r.stored[t], t, pp[t].posted)
    <3>1. st.chain[t] \in Finishing /\ Counts(r.stored[t] \o w.up, t, pp[t].posted)
      BY <1>5, <2>1, <2>2 DEF Complete
    <3>2. NoneOf(w.up, t)
      BY <1>6, <2>2
    <3>3. r.stored[t] \in Seq(Sends)
      BY StoredSends
    <3> QED
      BY <1>1, <3>1, <3>2, <3>3, CountAlone
  <2>3. t \in r2.ended /\ t \notin st.failed =>
          /\ ~Sung(st, t) /\ st.chain[t] \in Finishing
          /\ Counts(r.stored[t], t, pp[t].posted)
    BY <1>5, <2>1, <2>2 DEF Complete
  <2> QED
    BY <1>0, <1>1, <1>2, <1>3, <2>1, <2>3 DEF Complete, Holds
<1> QED
  BY <1>7, <1>8, <1>9, <1>10, <1>11, <1>12 DEF Wired

\* What is told after an answer to a take.
Answered(news, r, word, k) ==
    \A kind, s : Told(r, kind, s) <=> Told(news, kind, s) \/ (kind = word /\ s = k)

LEMMA AnswerTold ==
  ASSUME NEW news \in Seq(News), NEW k \in Takes, NEW word \in {"started", "finished"}
  PROVE  Answered(news, Append(news, [kind |-> word, take |-> k]), word, k)
<1> DEFINE e == [kind |-> word, take |-> k]
           r == Append(news, e)
<1>1. e \in News
  BY DEF News
<1>2. \A kind, s : e = [kind |-> kind, take |-> s] <=> kind = word /\ s = k
  <2> SUFFICES ASSUME NEW kind, NEW s, e = [kind |-> kind, take |-> s]
               PROVE  kind = word /\ s = k
    OBVIOUS
  <2>1. e.kind = kind /\ e.take = s
    OBVIOUS
  <2> QED
    BY <2>1
<1> HIDE DEF e
<1>3. \A kind, s : Told(r, kind, s) <=> Told(news, kind, s) \/ e = [kind |-> kind, take |-> s]
  BY <1>1, ToldSent, Zenon
<1>4. \A kind, s : Told(r, kind, s) <=> Told(news, kind, s) \/ (kind = word /\ s = k)
  BY <1>2, <1>3
<1> QED
  BY <1>4 DEF e, Answered

\* The server holds no take when it meets a start.
LEMMA StartUnheld ==
  ASSUME NEW w \in Nets, NEW r \in Rooms, NEW st \in Stages, NEW pp \in Pipes,
         Wired(w, r, st, pp), w.up # <<>>, Starts(Head(w.up))
  PROVE  ~Held(r)
<1>1. Line(w) = w.up /\ w.up \in Seq(Sends) /\ Held(r) \in BOOLEAN
  BY ServerFacts
<1>2. Alternating(w.up, Held(r)) => ~Held(r)
  <2>1. Shortened(w.up, Head(w.up), Tail(w.up), Held(r))
    BY <1>1, TextServed
  <2> QED
    BY <2>1 DEF Shortened
<1> QED
  BY <1>1, <1>2 DEF Wired, Paired

\* A start is refused, waits or begins the take.
LEMMA StartServed ==
  ASSUME NEW w \in Nets, NEW r \in Rooms, NEW st \in Stages, NEW pp \in Pipes,
         NEW w2 \in Nets, NEW r2 \in Rooms, NEW k \in Takes,
         Wired(w, r, st, pp), w.up # <<>>, Starts(Head(w.up)), Head(w.up).take = k,
         w2.socket = w.socket, w2.pending = w.pending, w2.up = Tail(w.up),
         r2.ended = r.ended, r2.stored = r.stored,
         \/ /\ w2.down = Append(w.down, [kind |-> "finished", take |-> k])
            /\ r2.take = NoTake /\ r2.refused = k /\ r2.waiting = NoTake
         \/ /\ w2.down = w.down
            /\ r2.take = NoTake /\ r2.refused = NoTake /\ r2.waiting = k
         \/ /\ w2.down = Append(w.down, [kind |-> "started", take |-> k])
            /\ r2.take = k /\ r2.refused = NoTake /\ r2.waiting = NoTake
  PROVE  Wired(w2, r2, st, pp)
<1>0. /\ w.socket = "open" /\ Line(w) = w.up /\ w.up \in Seq(Sends) /\ w.down \in Seq(News)
      /\ NoTake \notin Takes /\ \A s \in Takes : Sung(st, s) /\ st.ready => r.take = s
      /\ Held(r) \in BOOLEAN
  BY ServerFacts
<1>1. ~Held(r) /\ Held(r) = FALSE /\ Held(r2) = TRUE /\ r.take = NoTake
  BY <1>0, StartUnheld DEF Held
<1>2. Line(w2) = w2.up /\ (\A s \in Takes : ~Holds(r, s)) /\ \A s \in Takes : Holds(r2, s) <=> s = k
  BY <1>0, <1>1 DEF Line, Held, Holds
<1>3. /\ ~IsPacket(Head(w.up))
      /\ Alternating(w.up, FALSE) => Alternating(w2.up, TRUE)
      /\ OpenEnd(w2.up, TRUE) => OpenEnd(w.up, FALSE)
      /\ \A t : HasStart(w2.up, t) => HasStart(w.up, t)
      /\ HasStart(w.up, k)
      /\ \A t : StartsLast(w.up, t) => StartsLast(w2.up, t)
      /\ StartsLast(w.up, k) => Plain(w2.up)
      /\ \A t : NoneOf(w.up, t) => NoneOf(w2.up, t)
      /\ w2.up \in Seq(Sends)
  <2>1. Shortened(w.up, Head(w.up), w2.up, FALSE)
    BY <1>0, TextServed
  <2>2. Head(w.up) \in Sends
    BY <2>1 DEF Shortened
  <2>3. ~IsPacket(Head(w.up))
    BY <2>2, SendFacts
  <2> QED
    BY <2>1, <2>3 DEF Shortened
<1>4. /\ \A s : Told(w2.down, "started", s) =>
           Told(w.down, "started", s) \/ (s = k /\ r2.take = k)
      /\ \A s : Told(w2.down, "finished", s) =>
           Told(w.down, "finished", s) \/ (s = k /\ r2.refused = k)
  <2>1. /\ Answered(w.down, Append(w.down, [kind |-> "started", take |-> k]), "started", k)
        /\ Answered(w.down, Append(w.down, [kind |-> "finished", take |-> k]), "finished", k)
    BY <1>0, AnswerTold
  <2>2. \/ w2.down = w.down
        \/ Answered(w.down, w2.down, "started", k) /\ r2.take = k
        \/ Answered(w.down, w2.down, "finished", k) /\ r2.refused = k
    BY <2>1
  <2> QED
    BY <2>2 DEF Answered
<1>5. Sung(st, k) \/ k \in st.failed
  BY <1>0, <1>3 DEF Wired, Complete
<1>6. Plugged(w2, r2, st)
  BY <1>0 DEF Wired, Plugged
<1>7. Paired(w2, r2, st)
  BY <1>0, <1>1, <1>2, <1>3 DEF Wired, Paired
<1>8. Sorted(w2, r2, st)
  BY <1>0, <1>3, LeadsServed DEF Wired, Sorted
<1>9. ASSUME NEW t \in Takes, t > st.session PROVE Traceless(w2, r2, t)
  <2>1. Traceless(w, r, t)
    BY <1>9 DEF Wired
  <2>2. t # k
    BY <1>0, <1>3, <2>1 DEF Traceless
  <2> QED
    BY <1>0, <1>2, <1>3, <1>4, <2>1, <2>2 DEF Traceless
<1>10. ASSUME NEW t \in Takes, Sung(st, t) PROVE Phase(w2, r2, st, t)
  <2>1. Phase(w, r, st, t)
    BY <1>10 DEF Wired
  <2>2. t \notin st.started /\ ~Told(w.down, "started", t) /\ ~st.ready
    BY <1>0, <1>1, <2>1 DEF Phase
  <2>3. CASE t = k
    <3>1. Silent(w, st, k) /\ Plain(w2.up)
      BY <1>0, <1>3, <2>1, <2>3 DEF Phase
    <3>2. ~HasStart(w2.up, k)
      BY <1>3, <3>1, SendFacts DEF HasStart, Plain
    <3>3. r2.waiting = k => w2.down = w.down
      BY <1>0
    <3> QED
      BY <1>0, <1>2, <1>3, <1>4, <2>1, <2>2, <2>3, <3>1, <3>2, <3>3 DEF Phase, Silent
  <2>4. CASE t # k
    <3>1. r2.take # t /\ r2.waiting # t
      BY <1>0, <2>4
    <3> QED
      BY <1>0, <1>2, <1>3, <1>4, <2>1, <2>2, <2>4, <3>1 DEF Phase, Silent
  <2> QED
    BY <2>3, <2>4
<1>11. ASSUME NEW t \in Takes PROVE Complete(w2, r2, st, pp, t)
  <2>1. Complete(w, r, st, pp, t) /\ (Sung(st, t) => ~st.ready)
    BY <1>0, <1>1 DEF Wired
  <2>2. CASE t = k
    BY <1>0, <1>2, <1>3, <1>5, <2>1, <2>2 DEF Complete
  <2>3. CASE t # k
    <3>1. r2.take # t /\ r2.waiting # t
      BY <1>0, <2>3
    <3> QED
      BY <1>0, <1>2, <1>3, <2>1, <2>3, <3>1 DEF Complete
  <2> QED
    BY <2>2, <2>3
<1> QED
  BY <1>6, <1>7, <1>8, <1>9, <1>10, <1>11 DEF Wired

\* The take that waits begins, or is refused.
LEMMA WaitServed ==
  ASSUME NEW w \in Nets, NEW r \in Rooms, NEW st \in Stages, NEW pp \in Pipes,
         NEW w2 \in Nets, NEW r2 \in Rooms, NEW k \in Takes,
         Wired(w, r, st, pp), r.waiting = k,
         w2.socket = w.socket, w2.pending = w.pending, w2.up = w.up,
         r2.ended = r.ended, r2.stored = r.stored,
         \/ /\ w2.down = Append(w.down, [kind |-> "finished", take |-> k])
            /\ r2.take = NoTake /\ r2.refused = k /\ r2.waiting = NoTake
         \/ /\ w2.down = Append(w.down, [kind |-> "started", take |-> k])
            /\ r2.take = k /\ r2.refused = NoTake /\ r2.waiting = NoTake
  PROVE  Wired(w2, r2, st, pp)
<1>1. Held(r) = TRUE /\ Held(r2) = TRUE
  BY DEF Held, NoTake, Takes
<1>0. /\ w.socket = "open" /\ Line(w) = w.up /\ w.up \in Seq(Sends) /\ w.down \in Seq(News)
      /\ NoTake \notin Takes /\ \A s \in Takes : Sung(st, s) /\ st.ready => r.take = s
  BY <1>1, ServerFacts
<1>2. Line(w2) = w2.up /\ r.take = NoTake /\ r.refused = NoTake
  BY <1>0 DEF Line, Wired, Plugged
<1>3. \A s \in Takes : (Holds(r2, s) <=> s = k) /\ (Holds(r, s) <=> s = k)
  BY <1>0, <1>2 DEF Holds
<1>4. /\ \A s : Told(w2.down, "started", s) =>
           Told(w.down, "started", s) \/ (s = k /\ r2.take = k)
      /\ \A s : Told(w2.down, "finished", s) =>
           Told(w.down, "finished", s) \/ (s = k /\ r2.refused = k)
  <2>1. /\ Answered(w.down, Append(w.down, [kind |-> "started", take |-> k]), "started", k)
        /\ Answered(w.down, Append(w.down, [kind |-> "finished", take |-> k]), "finished", k)
    BY <1>0, AnswerTold
  <2>2. \/ w2.down = w.down
        \/ Answered(w.down, w2.down, "started", k) /\ r2.take = k
        \/ Answered(w.down, w2.down, "finished", k) /\ r2.refused = k
    BY <2>1
  <2> QED
    BY <2>2 DEF Answered
<1>5. Sung(st, k) \/ k \in st.failed
  BY DEF Wired, Complete
<1>6. Plugged(w2, r2, st)
  BY <1>0 DEF Wired, Plugged
<1>7. Paired(w2, r2, st)
  BY <1>0, <1>1, <1>2 DEF Wired, Paired
<1>8. Sorted(w2, r2, st)
  <2>1. Leads(w2.up, r2.take, st.gaveUp)
    BY <1>0, <1>2, LeadsAny DEF Wired, Sorted
  <2> QED
    BY <2>1 DEF Wired, Sorted
<1>9. ASSUME NEW t \in Takes, t > st.session PROVE Traceless(w2, r2, t)
  <2>1. Traceless(w, r, t)
    BY <1>9 DEF Wired
  <2>2. t # k
    BY <1>3, <2>1 DEF Traceless
  <2> QED
    BY <1>0, <1>2, <1>3, <1>4, <2>1, <2>2 DEF Traceless
<1>10. ASSUME NEW t \in Takes, Sung(st, t) PROVE Phase(w2, r2, st, t)
  <2>1. Phase(w, r, st, t)
    BY <1>10 DEF Wired
  <2>2. t \notin st.started /\ ~Told(w.down, "started", t) /\ ~st.ready
    BY <1>0, <1>2, <2>1 DEF Phase
  <2>3. CASE t = k
    <3>1. Silent(w, st, k) /\ Plain(w.up)
      BY <1>0, <1>3, <2>1, <2>3 DEF Phase
    <3>2. ~HasStart(w.up, k)
      BY <1>0, <3>1, SendFacts DEF HasStart, Plain
    <3> QED
      BY <1>0, <1>2, <1>3, <1>4, <2>1, <2>2, <2>3, <3>1, <3>2 DEF Phase, Silent
  <2>4. CASE t # k
    <3>1. r2.take # t /\ r2.waiting # t
      BY <1>0, <2>4
    <3> QED
      BY <1>0, <1>2, <1>3, <1>4, <2>1, <2>2, <2>4, <3>1 DEF Phase, Silent
  <2> QED
    BY <2>3, <2>4
<1>11. ASSUME NEW t \in Takes PROVE Complete(w2, r2, st, pp, t)
  <2>1. Complete(w, r, st, pp, t) /\ (Sung(st, t) => ~st.ready)
    BY <1>0, <1>2 DEF Wired
  <2>2. CASE t = k
    BY <1>0, <1>2, <1>5, <2>1, <2>2 DEF Complete
  <2>3. CASE t # k
    <3>1. r2.take # t /\ r2.waiting # t
      BY <1>0, <2>3
    <3> QED
      BY <1>0, <1>2, <2>1, <2>3, <3>1 DEF Complete
  <2> QED
    BY <2>2, <2>3
<1> QED
  BY <1>6, <1>7, <1>8, <1>9, <1>10, <1>11 DEF Wired

(* What the operations of the decoder do to its state.                     *)

Steps == Waits \cup {"none", "done"}

LEMMA ClearedFacts ==
  ASSUME NEW st \in Stages, NEW c, c = Cleared(st)
  PROVE  /\ c \in Stages /\ c.stream = NoTake /\ ~c.ready
         /\ c.closed = st.closed \cup ({st.stream} \ {NoTake})
         /\ c.started = st.started \ {st.stream} /\ c.over = st.over \ {st.stream}
         /\ c.draft = st.draft /\ c.session = st.session /\ c.gaveUp = st.gaveUp
         /\ c.failed = st.failed /\ c.rushed = st.rushed /\ c.chain = st.chain
         /\ c.cleanup = st.cleanup
<1> DEFINE closed == st.closed \cup ({st.stream} \ {NoTake})
           started == st.started \ {st.stream}
           over == st.over \ {st.stream}
<1>1. closed \in SUBSET Takes /\ started \in SUBSET Takes /\ over \in SUBSET Takes
  BY DEF Stages, Maybe
<1>2. c = [st EXCEPT !.closed = closed, !.started = started, !.over = over,
                     !.stream = NoTake, !.ready = FALSE]
  BY DEF Cleared
<1>3. NoTake \in Maybe
  BY DEF Maybe
<1> HIDE DEF closed, started, over
<1>4. /\ c \in Stages /\ c.stream = NoTake /\ ~c.ready
      /\ c.closed = closed /\ c.started = started /\ c.over = over
      /\ c.draft = st.draft /\ c.session = st.session /\ c.gaveUp = st.gaveUp
      /\ c.failed = st.failed /\ c.rushed = st.rushed /\ c.chain = st.chain
      /\ c.cleanup = st.cleanup
  BY <1>1, <1>2, <1>3, ZenonT(60) DEF Stages
<1> QED
  BY <1>4 DEF closed, started, over

\* One wait of the finishing of a stream, or of what is done behind the scenes,
\* gives place to the next.
SameStream(st, c) ==
    /\ c \in Stages
    /\ c.stream = st.stream /\ c.draft = st.draft /\ c.session = st.session
    /\ c.ready = st.ready /\ c.started = st.started /\ c.over = st.over
    /\ c.closed = st.closed /\ c.gaveUp = st.gaveUp /\ c.failed = st.failed
    /\ c.rushed = st.rushed

ChainStepped(st, c, s, v) ==
    SameStream(st, c) /\ c.chain = [st.chain EXCEPT ![s] = v] /\ c.cleanup = st.cleanup

CleanupStepped(st, c, s, v) ==
    SameStream(st, c) /\ c.cleanup = [st.cleanup EXCEPT ![s] = v] /\ c.chain = st.chain

LEMMA SteppedFacts ==
  ASSUME NEW st \in Stages, NEW s \in Takes, NEW v \in Steps, NEW kind \in {"chain", "cleanup"},
         NEW c, c = [st EXCEPT ![kind][s] = v]
  PROVE  /\ kind = "chain" => ChainStepped(st, c, s, v)
         /\ kind = "cleanup" => CleanupStepped(st, c, s, v)
<1> DEFINE chain == [st.chain EXCEPT ![s] = v]
           cleanup == [st.cleanup EXCEPT ![s] = v]
<1>1. chain \in [Takes -> Steps] /\ cleanup \in [Takes -> Steps]
  BY DEF Stages, Steps
<1>2. kind = "chain" => c = [st EXCEPT !.chain = chain]
  OBVIOUS
<1>3. kind = "cleanup" => c = [st EXCEPT !.cleanup = cleanup]
  OBVIOUS
<1> HIDE DEF chain, cleanup
<1>4. CASE kind = "chain"
  <2>1. /\ c \in Stages /\ c.chain = chain /\ c.cleanup = st.cleanup
        /\ c.stream = st.stream /\ c.draft = st.draft /\ c.session = st.session
        /\ c.ready = st.ready /\ c.started = st.started /\ c.over = st.over
        /\ c.closed = st.closed /\ c.gaveUp = st.gaveUp /\ c.failed = st.failed
        /\ c.rushed = st.rushed
    BY <1>1, <1>2, <1>4 DEF Stages, Steps
  <2> QED
    BY <1>4, <2>1 DEF chain, ChainStepped, SameStream
<1>5. CASE kind = "cleanup"
  <2>1. /\ c \in Stages /\ c.cleanup = cleanup /\ c.chain = st.chain
        /\ c.stream = st.stream /\ c.draft = st.draft /\ c.session = st.session
        /\ c.ready = st.ready /\ c.started = st.started /\ c.over = st.over
        /\ c.closed = st.closed /\ c.gaveUp = st.gaveUp /\ c.failed = st.failed
        /\ c.rushed = st.rushed
    BY <1>1, <1>3, <1>5 DEF Stages, Steps
  <2> QED
    BY <1>5, <2>1 DEF cleanup, CleanupStepped, SameStream
<1> QED
  BY <1>4, <1>5

LEMMA InterruptedFacts ==
  ASSUME NEW st \in Stages, st.stream # NoTake, NEW c, c = Interrupted(st)
  PROVE  /\ c \in Stages /\ c.stream = NoTake /\ ~c.ready
         /\ c.closed = st.closed \cup {st.stream}
         /\ c.started = st.started \ {st.stream} /\ c.over = st.over \ {st.stream}
         /\ c.draft = st.draft /\ c.session = st.session /\ c.gaveUp = st.gaveUp
         /\ c.failed = st.failed \cup {st.stream} /\ c.rushed = st.rushed /\ c.chain = st.chain
         /\ c.cleanup = [st.cleanup EXCEPT ![st.stream] = "ready"]
<1> DEFINE d == Cleared(st)
           s == st.stream
           failed == st.failed \cup {s}
           cleanup == [d.cleanup EXCEPT ![s] = "ready"]
<1>1. s \in Takes
  BY DEF Stages, Maybe
<1>2. /\ d \in Stages /\ d.stream = NoTake /\ ~d.ready
      /\ d.closed = st.closed \cup ({st.stream} \ {NoTake})
      /\ d.started = st.started \ {st.stream} /\ d.over = st.over \ {st.stream}
      /\ d.draft = st.draft /\ d.session = st.session /\ d.gaveUp = st.gaveUp
      /\ d.failed = st.failed /\ d.rushed = st.rushed /\ d.chain = st.chain
      /\ d.cleanup = st.cleanup
  BY ClearedFacts
<1>3. failed \in SUBSET Takes /\ cleanup \in [Takes -> Steps]
  <2>1. d.cleanup \in [Takes -> Steps]
    BY <1>2 DEF Stages, Steps
  <2>2. "ready" \in Steps
    BY DEF Steps, Waits
  <2>3. cleanup \in [Takes -> Steps]
    BY <2>1, <2>2
  <2>4. failed \in SUBSET Takes
    BY <1>1 DEF Stages
  <2> QED
    BY <2>3, <2>4
<1>4. c = [d EXCEPT !.cleanup = cleanup, !.failed = failed]
  BY <1>2 DEF Interrupted
<1>5. cleanup = [st.cleanup EXCEPT ![s] = "ready"] /\ {s} \ {NoTake} = {s}
  BY <1>2
<1> HIDE DEF cleanup, failed, d
<1>6. /\ c \in Stages /\ c.stream = d.stream /\ c.ready = d.ready
      /\ c.closed = d.closed /\ c.started = d.started /\ c.over = d.over
      /\ c.draft = d.draft /\ c.session = d.session /\ c.gaveUp = d.gaveUp
      /\ c.failed = failed /\ c.rushed = d.rushed /\ c.chain = d.chain
      /\ c.cleanup = cleanup
  BY <1>2, <1>3, <1>4 DEF Stages, Steps
<1> QED
  BY <1>2, <1>5, <1>6 DEF failed

(* The orders of the main thread and what the decoder says to it.          *)

\* The stream that is open, or a start that is on its way, is of the last take.
LEMMA LastTake ==
  ASSUME NEW orders, NEW heard, NEW sg \in Singers, NEW st, NEW pp, Led(orders, heard, sg, st, pp)
  PROVE  /\ st.stream # NoTake => st.stream = sg.take /\ ~Unheard(orders, sg, st.stream)
         /\ st.stream # NoTake => ~AnyStart(orders)
         /\ \A s : Ordered(orders, s) => s = sg.take /\ st.stream = NoTake
<1>1. \A s : Ordered(orders, s) => s = sg.take /\ st.stream = NoTake
  BY DEF Led, Ordered
<1>2. ~(sg.take > sg.take)
  BY DEF Singers, Maybe, NoTake, Takes
<1> QED
  BY <1>1, <1>2 DEF Led, Unheard, AnyStart, Ordered

\* A step of the stage, of the ports or of what the decoder says.
LEMMA LedStage ==
  ASSUME NEW orders, NEW heard, NEW sg, NEW st, NEW pp, NEW heard2, NEW st2, NEW pp2,
         Led(orders, heard, sg, st, pp),
         st2.stream = st.stream \/ st2.stream = NoTake,
         st2.stream # NoTake => (st2.chain[st2.stream] = "none" <=> st.chain[st.stream] = "none"),
         pp[sg.take].flushed => pp2[sg.take].flushed,
         \A i \in DOMAIN heard2 :
            \/ \E j \in DOMAIN heard : heard2[i] = heard[j]
            \/ heard2[i] <= sg.take /\ (AnyStart(orders) \/ st2.stream # NoTake => heard2[i] # sg.take)
  PROVE  Led(orders, heard2, sg, st2, pp2)
<1>1. \A i \in DOMAIN heard2 : heard2[i] <= sg.take
  BY DEF Led
<1>2. AnyStart(orders) \/ st2.stream # NoTake =>
         /\ sg.promise = sg.take /\ sg.at # "idle"
         /\ \A i \in DOMAIN heard2 : heard2[i] # sg.take
  BY DEF Led
<1>3. st2.stream # NoTake =>
         /\ st2.stream = sg.take
         /\ \A i \in DOMAIN orders :
              i = 1 /\ orders[i].kind = "finish" /\ st2.chain[st2.stream] = "none"
         /\ orders # <<>> \/ st2.chain[st2.stream] # "none" => sg.at = "finishing"
  BY DEF Led
<1> QED
  BY <1>1, <1>2, <1>3 DEF Led

LEMMA LedStart ==
  ASSUME NEW orders \in Seq(Orders), NEW heard, NEW sg \in Singers, NEW st, NEW pp,
         NEW e \in Orders, NEW sg2, NEW orders2, orders2 = Append(orders, e),
         Led(orders, heard, sg, st, pp), sg.at = "idle",
         sg2.at = "recording", sg2.take = sg.take + 1, sg2.promise = sg2.take,
         e.kind = "start", e.take = sg2.take,
         \A i \in DOMAIN heard : heard[i] \in Takes
  PROVE  Led(orders2, heard, sg2, st, pp)
<1> DEFINE n == Len(orders) + 1
<1>1. /\ n \in DOMAIN orders2 /\ orders2[n] = e /\ n \in Nat
      /\ \A i \in DOMAIN orders : i \in DOMAIN orders2 /\ orders2[i] = orders[i] /\ i \in Nat /\ i < n
      /\ \A i \in DOMAIN orders2 : i \in DOMAIN orders \/ i = n
  BY Appended
<1> HIDE DEF n
<1>2. /\ sg.take \in Nat /\ sg2.take \in Nat /\ sg2.take # NoTake
      /\ \A t \in Nat : t <= sg.take => t < sg2.take /\ t <= sg2.take /\ t # sg2.take
      /\ sg2.take <= sg2.take
  <2>1. sg.take \in Nat
    BY DEF Singers, Maybe, NoTake, Takes
  <2> QED
    BY <2>1 DEF NoTake
<1>3. ~AnyStart(orders) /\ st.stream = NoTake
  BY DEF Led
<1>4. ASSUME NEW i \in DOMAIN orders
      PROVE  orders[i].take < sg2.take /\ orders[i].take <= sg2.take /\ orders[i].kind # "start"
  <2>1. orders[i] \in Orders
    OBVIOUS
  <2>2. orders[i].take \in Nat
    BY <2>1 DEF Orders, Takes
  <2>3. orders[i].take <= sg.take
    BY DEF Led
  <2> QED
    BY <1>2, <1>3, <2>2, <2>3 DEF AnyStart
<1>5. ASSUME NEW i \in DOMAIN heard PROVE heard[i] <= sg2.take /\ heard[i] # sg2.take
  <2>1. heard[i] \in Nat
    BY DEF Takes
  <2>2. heard[i] <= sg.take
    BY DEF Led
  <2> QED
    BY <1>2, <2>1, <2>2
<1>6. \A i \in DOMAIN orders2 : orders2[i].take <= sg2.take
  BY <1>1, <1>2, <1>4
<1>7. ASSUME NEW i \in DOMAIN orders2, orders2[i].kind = "start"
      PROVE  /\ orders2[i].take = sg2.take
             /\ \A j \in DOMAIN orders2 : ~(j > i)
             /\ \A j \in DOMAIN orders2 : j < i => orders2[j].take < sg2.take
  <2>1. i = n
    BY <1>1, <1>4, <1>7
  <2>2. ASSUME NEW j \in DOMAIN orders2 PROVE ~(j > i) /\ (j < i => orders2[j].take < sg2.take)
    BY <1>1, <1>4, <2>1
  <2> QED
    BY <1>1, <2>1, <2>2
<1>8. ~(st.stream # NoTake) /\ sg2.at # "idle" /\ sg2.at # "finishing"
  BY <1>3
<1> QED
  BY <1>2, <1>5, <1>6, <1>7, <1>8 DEF Led

LEMMA LedStop ==
  ASSUME NEW orders, NEW heard, NEW sg, NEW st, NEW pp, NEW sg2,
         Led(orders, heard, sg, st, pp), sg.at = "recording",
         sg2.at = "flushing", sg2.take = sg.take, sg2.promise = sg.promise
  PROVE  Led(orders, heard, sg2, st, pp)
BY DEF Led

LEMMA LedFinish ==
  ASSUME NEW orders \in Seq(Orders), NEW heard, NEW sg \in Singers, NEW st, NEW pp,
         NEW e \in Orders, NEW sg2, NEW orders2, orders2 = Append(orders, e),
         Led(orders, heard, sg, st, pp), sg.at = "flushing", pp[sg.take].flushed,
         sg2.at = "finishing", sg2.take = sg.take, sg2.promise = sg.promise,
         e.kind = "finish", e.take = sg.take
  PROVE  Led(orders2, heard, sg2, st, pp)
<1> DEFINE n == Len(orders) + 1
<1>1. /\ n \in DOMAIN orders2 /\ orders2[n] = e /\ n \in Nat /\ Len(orders) \in Nat
      /\ DOMAIN orders = 1..Len(orders) /\ n = Len(orders) + 1
      /\ \A i \in DOMAIN orders : i \in DOMAIN orders2 /\ orders2[i] = orders[i] /\ i \in Nat /\ i < n
      /\ \A i \in DOMAIN orders2 : i \in DOMAIN orders \/ i = n
  BY Appended
<1> HIDE DEF n
<1>2. sg.take \in Nat
  BY DEF Singers, Maybe, NoTake, Takes
<1>3. \A i \in DOMAIN orders : orders[i].kind = "start" => i + 1 = n
  <2> SUFFICES ASSUME NEW i \in DOMAIN orders, orders[i].kind = "start" PROVE i + 1 = n
    OBVIOUS
  <2>1. \A j \in DOMAIN orders : ~(j > i)
    BY DEF Led
  <2>2. Len(orders) \in DOMAIN orders
    BY <1>1
  <2> QED
    BY <1>1, <2>1, <2>2
<1>4. st.stream # NoTake => orders = <<>> /\ st.chain[st.stream] = "none"
  BY DEF Led
<1>5. \A i \in DOMAIN orders2 : orders2[i].take <= sg2.take
  BY <1>1, <1>2 DEF Led
<1>6. ASSUME NEW i \in DOMAIN orders2, orders2[i].kind = "start"
      PROVE  /\ orders2[i].take = sg2.take /\ st.stream = NoTake
             /\ \A j \in DOMAIN orders2 : j > i => j = i + 1 /\ orders2[j].kind = "finish"
             /\ \A j \in DOMAIN orders2 : j < i => orders2[j].take < sg2.take
  <2>1. i \in DOMAIN orders /\ orders[i].kind = "start" /\ i + 1 = n
    BY <1>1, <1>3, <1>6
  <2>2. \A j \in DOMAIN orders2 : j > i => j = n
    BY <1>1, <2>1
  <2>3. \A j \in DOMAIN orders2 : j < i => j \in DOMAIN orders /\ orders2[j] = orders[j]
    BY <1>1, <2>1
  <2> QED
    BY <1>1, <2>1, <2>2, <2>3 DEF Led
<1>7. st.stream # NoTake => \A i \in DOMAIN orders2 : i = 1 /\ orders2[i].kind = "finish"
  <2> SUFFICES ASSUME st.stream # NoTake, NEW i \in DOMAIN orders2 PROVE i = 1 /\ orders2[i].kind = "finish"
    OBVIOUS
  <2>1. Len(orders) = 0
    BY <1>4
  <2> QED
    BY <1>1, <2>1
<1>8. AnyStart(orders2) => AnyStart(orders)
  BY <1>1 DEF AnyStart
<1> QED
  BY <1>4, <1>5, <1>6, <1>7, <1>8 DEF Led

\* What the main thread hears about a take frees it of the promise it holds: no
\* other take has begun.
LEMMA LedLetGo ==
  ASSUME NEW orders, NEW heard, NEW sg, NEW st, NEW pp, NEW sg2, NEW heard2,
         Led(orders, heard, sg, st, pp), ~AnyStart(orders), st.stream = NoTake,
         sg2.take = sg.take, sg2.at # "finishing", sg2.at # "idle" => sg.at # "idle",
         \A i \in DOMAIN heard2 : \E j \in DOMAIN heard : heard2[i] = heard[j]
  PROVE  Led(orders, heard2, sg2, st, pp)
BY DEF Led, AnyStart

LEMMA LedHear ==
  ASSUME NEW orders, NEW heard \in Seq(Takes), NEW sg \in Singers, NEW st, NEW pp, NEW sg2,
         Led(orders, heard, sg, st, pp), heard # <<>>,
         sg.promise \in {NoTake, Head(heard)},
         sg2.take = sg.take, sg2.at = (IF sg.at = "finishing" THEN "idle" ELSE sg.at)
  PROVE  Led(orders, Tail(heard), sg2, st, pp)
<1> DEFINE heard2 == Tail(heard)
<1>1. /\ Head(heard) = heard[1] /\ 1 \in DOMAIN heard
      /\ \A i \in DOMAIN heard2 : i + 1 \in DOMAIN heard /\ heard2[i] = heard[i + 1]
  BY Tailed
<1> HIDE DEF heard2
<1>2. ~AnyStart(orders) /\ st.stream = NoTake
  <2> SUFFICES ASSUME AnyStart(orders) \/ st.stream # NoTake PROVE FALSE
    OBVIOUS
  <2>1. sg.promise = sg.take /\ heard[1] # sg.take /\ sg.take # NoTake
    BY <1>1 DEF Led
  <2> QED
    BY <1>1, <2>1
<1>3. \A i \in DOMAIN heard2 : \E j \in DOMAIN heard : heard2[i] = heard[j]
  BY <1>1
<1>4. Led(orders, heard2, sg2, st, pp)
  BY <1>2, <1>3, LedLetGo
<1> QED
  BY <1>4 DEF heard2

\* The decoder meets a start: the stream is opened or nobody records.
LEMMA LedMet ==
  ASSUME NEW orders \in Seq(Orders), NEW heard, NEW sg \in Singers, NEW st, NEW pp, NEW st2, NEW heard2,
         Led(orders, heard, sg, st, pp), orders # <<>>, Head(orders).kind = "start",
         st2.chain = st.chain,
         \/ st2.stream = Head(orders).take /\ st.chain[st2.stream] = "none" /\ heard2 = heard
         \/ /\ st2.stream = NoTake
            /\ \A i \in DOMAIN heard2 :
                 heard2[i] = sg.take \/ \E j \in DOMAIN heard : heard2[i] = heard[j]
  PROVE  Led(Tail(orders), heard2, sg, st2, pp)
<1> DEFINE orders2 == Tail(orders)
<1>1. /\ Head(orders) = orders[1] /\ 1 \in DOMAIN orders
      /\ \A i \in DOMAIN orders2 : i \in Nat /\ i >= 1 /\ i + 1 \in DOMAIN orders /\ orders2[i] = orders[i + 1]
      /\ orders2 # <<>> => 1 \in DOMAIN orders2
  <2>1. orders2 \in Seq(Orders)
    BY Tailed
  <2>2. orders2 # <<>> => 1 \in DOMAIN orders2
    <3> HIDE DEF orders2
    <3> QED
      BY <2>1, EmptySeq
  <2> QED
    BY <2>2, Tailed
<1> HIDE DEF orders2
<1>2. orders[1].take = sg.take /\ st.stream = NoTake /\ AnyStart(orders)
  BY <1>1 DEF Led, AnyStart
<1>3. ASSUME NEW i \in DOMAIN orders2
      PROVE  i = 1 /\ orders2[i].kind = "finish" /\ sg.at = "finishing" /\ orders2[i].take <= sg.take
  <2>1. i + 1 \in DOMAIN orders /\ i + 1 > 1 /\ orders2[i] = orders[i + 1]
    BY <1>1, <1>3
  <2>2. i + 1 = 1 + 1 /\ orders[i + 1].kind = "finish" /\ sg.at = "finishing"
    BY <1>1, <2>1 DEF Led
  <2>3. orders[i + 1].take <= sg.take
    BY <2>1 DEF Led
  <2> QED
    BY <1>1, <1>3, <2>1, <2>2, <2>3
<1>4. ~AnyStart(orders2)
  BY <1>3 DEF AnyStart
<1>5. /\ sg.promise = sg.take /\ sg.at # "idle" /\ sg.take # NoTake
      /\ \A i \in DOMAIN heard : heard[i] # sg.take
  BY <1>2 DEF Led
<1>6. sg.take <= sg.take
  BY DEF Singers, Maybe, NoTake, Takes
<1>7. \A i \in DOMAIN heard2 : heard2[i] <= sg.take
  BY <1>6 DEF Led
<1>8. st2.stream # NoTake =>
        /\ st2.stream = sg.take /\ heard2 = heard /\ st2.chain[st2.stream] = "none"
        /\ orders2 # <<>> => sg.at = "finishing"
  BY <1>1, <1>2, <1>3
<1>9. sg.at = "finishing" => pp[sg.take].flushed
  BY DEF Led
<1>10. Led(orders2, heard2, sg, st2, pp)
  BY <1>3, <1>4, <1>5, <1>7, <1>8, <1>9 DEF Led, AnyStart
<1> QED
  BY <1>10 DEF orders2

\* The decoder meets a finish: it begins the end of the stream that is open or
\* answers for the take.
LEMMA LedAsked ==
  ASSUME NEW orders \in Seq(Orders), NEW heard, NEW sg \in Singers, NEW st, NEW pp, NEW st2, NEW heard2,
         Led(orders, heard, sg, st, pp), orders # <<>>, Head(orders).kind = "finish",
         st2.stream = st.stream,
         st.stream # NoTake => heard2 = heard,
         st.stream = NoTake =>
            \A i \in DOMAIN heard2 :
              heard2[i] = Head(orders).take \/ \E j \in DOMAIN heard : heard2[i] = heard[j]
  PROVE  Led(Tail(orders), heard2, sg, st2, pp)
<1> DEFINE orders2 == Tail(orders)
<1>1. /\ Head(orders) = orders[1] /\ 1 \in DOMAIN orders
      /\ \A i \in DOMAIN orders2 : i \in Nat /\ i >= 1 /\ i + 1 \in DOMAIN orders /\ orders2[i] = orders[i + 1]
  BY Tailed
<1> HIDE DEF orders2
<1>2. \A i \in DOMAIN orders2 : orders2[i].take <= sg.take
  BY <1>1 DEF Led
<1>3. ASSUME NEW i \in DOMAIN orders2, orders2[i].kind = "start"
      PROVE  /\ orders2[i].take = sg.take /\ st2.stream = NoTake /\ AnyStart(orders)
             /\ \A j \in DOMAIN orders2 : j > i =>
                  j = i + 1 /\ orders2[j].kind = "finish" /\ sg.at = "finishing"
             /\ \A j \in DOMAIN orders2 : j < i => orders2[j].take < sg.take
             /\ orders[1].take < sg.take
  <2> DEFINE m == i + 1
  <2>1. m \in DOMAIN orders /\ orders[m].kind = "start" /\ orders2[i] = orders[m] /\ 1 < m
    BY <1>1, <1>3
  <2>2. /\ orders[m].take = sg.take /\ st.stream = NoTake
        /\ \A j \in DOMAIN orders : j > m => j = m + 1 /\ orders[j].kind = "finish" /\ sg.at = "finishing"
        /\ \A j \in DOMAIN orders : j < m => orders[j].take < sg.take
    BY <2>1 DEF Led
  <2>3. ASSUME NEW j \in DOMAIN orders2
        PROVE  /\ j > i => j = i + 1 /\ orders2[j].kind = "finish" /\ sg.at = "finishing"
               /\ j < i => orders2[j].take < sg.take
    <3>1. j + 1 \in DOMAIN orders /\ orders2[j] = orders[j + 1] /\ j \in Nat /\ i \in Nat
      BY <1>1
    <3> QED
      BY <2>2, <3>1
  <2> QED
    BY <1>1, <2>1, <2>2, <2>3 DEF AnyStart
<1>4. AnyStart(orders2) => st.stream = NoTake /\ AnyStart(orders) /\ orders[1].take < sg.take
  BY <1>3 DEF AnyStart
<1>5. sg.take \in Nat /\ orders[1].take \in Nat
  <2>1. orders[1] \in Orders
    BY <1>1
  <2> QED
    BY <2>1 DEF Singers, Maybe, NoTake, Takes, Orders
<1>6. \A i \in DOMAIN heard2 : heard2[i] <= sg.take
  <2>1. orders[1].take <= sg.take /\ \A j \in DOMAIN heard : heard[j] <= sg.take
    BY <1>1 DEF Led
  <2> QED
    BY <1>1, <2>1
<1>7. AnyStart(orders2) \/ st2.stream # NoTake =>
         /\ sg.promise = sg.take /\ sg.at # "idle"
         /\ \A i \in DOMAIN heard2 : heard2[i] # sg.take
  BY <1>1, <1>4, <1>5 DEF Led
<1>8. st2.stream # NoTake => orders2 = <<>> /\ sg.at = "finishing" /\ st2.stream = sg.take
  <2> SUFFICES ASSUME st.stream # NoTake PROVE orders2 = <<>> /\ sg.at = "finishing" /\ st.stream = sg.take
    OBVIOUS
  <2>1. \A i \in DOMAIN orders2 : FALSE
    BY <1>1 DEF Led
  <2>2. orders2 \in Seq(Orders)
    BY Tailed DEF orders2
  <2>3. orders2 = <<>>
    BY <2>1, <2>2, EmptySeq
  <2> QED
    BY <2>3 DEF Led
<1>9. Led(orders2, heard2, sg, st2, pp)
  <2>1. st2.stream # NoTake =>
         /\ st2.stream = sg.take
         /\ \A i \in DOMAIN orders2 :
              i = 1 /\ orders2[i].kind = "finish" /\ st2.chain[st2.stream] = "none"
         /\ orders2 # <<>> \/ st2.chain[st2.stream] # "none" => sg.at = "finishing"
    BY <1>8
  <2> QED
    BY <1>2, <1>3, <1>6, <1>7, <2>1 DEF Led
<1> QED
  BY <1>9 DEF orders2

(* What becomes of the streams.                                            *)

\* The decoder has nothing to go on with.
Idle(st) ==
    \A s \in Takes : s # st.stream => st.chain[s] \notin Waits /\ st.cleanup[s] \notin Waits

LEMMA UnheardTail ==
  ASSUME NEW orders \in Seq(Orders), orders # <<>>, NEW sg
  PROVE  \A s : Unheard(Tail(orders), sg, s) => Unheard(orders, sg, s)
<1> DEFINE r == Tail(orders)
<1>1. \A i \in DOMAIN r : i + 1 \in DOMAIN orders /\ r[i] = orders[i + 1]
  BY Tailed
<1> HIDE DEF r
<1>2. \A s : Ordered(r, s) => Ordered(orders, s)
  BY <1>1 DEF Ordered
<1> QED
  BY <1>2 DEF Unheard, r

LEMMA UnheardStart ==
  ASSUME NEW orders \in Seq(Orders), orders # <<>>, NEW heard, NEW sg \in Singers, NEW st, NEW pp,
         Led(orders, heard, sg, st, pp), Head(orders).kind = "start"
  PROVE  \A s : Unheard(Tail(orders), sg, s) => s > sg.take
<1> DEFINE r == Tail(orders)
<1>1. /\ Head(orders) = orders[1] /\ 1 \in DOMAIN orders
      /\ \A i \in DOMAIN r : i \in Nat /\ i >= 1 /\ i + 1 \in DOMAIN orders /\ r[i] = orders[i + 1]
  BY Tailed
<1> HIDE DEF r
<1>2. \A i \in DOMAIN r : r[i].kind = "finish"
  <2> SUFFICES ASSUME NEW i \in DOMAIN r PROVE r[i].kind = "finish"
    OBVIOUS
  <2>1. i + 1 \in DOMAIN orders /\ i + 1 > 1 /\ r[i] = orders[i + 1]
    BY <1>1
  <2> QED
    BY <1>1, <2>1 DEF Led
<1>3. \A s : ~Ordered(r, s)
  BY <1>2 DEF Ordered
<1> QED
  BY <1>3 DEF Unheard, r

\* The ports of the takes that were begun move on, and so does the count of them.
LEMMA StandsSame ==
  ASSUME NEW w, NEW st, NEW pp, NEW orders, NEW sg, NEW w2, NEW pp2, NEW orders2, NEW sg2,
         Stands(w, st, pp, orders, sg), w2.socket = w.socket,
         \A s \in Takes : Unheard(orders2, sg2, s) => Unheard(orders, sg, s),
         \A s \in Takes : s > sg2.take => s > sg.take,
         \A s \in Takes : pp2[s].read = pp[s].read /\ pp2[s].flushRead = pp[s].flushRead,
         \A s \in Takes : pp2[s] = pp[s] \/
            /\ ~(s > sg2.take) /\ pp2[s].read <= pp2[s].posted
            /\ pp2[s].flushRead => pp2[s].flushed /\ pp2[s].read = pp2[s].posted
            /\ pp[s].flushed => pp2[s].flushed
  PROVE  Stands(w2, st, pp2, orders2, sg2)
<1> SUFFICES ASSUME NEW s \in Takes
             PROVE  /\ Unheard(orders2, sg2, s) => Fresh(st, pp2, s)
                    /\ Piped(sg2, pp2, s) /\ Staged(w2, st, pp2, s)
  BY DEF Stands
<1>1. /\ Unheard(orders, sg, s) => Fresh(st, pp, s)
      /\ Piped(sg, pp, s) /\ Staged(w, st, pp, s)
  BY DEF Stands
<1>2. Unheard(orders2, sg2, s) => Fresh(st, pp2, s)
  BY <1>1 DEF Fresh
<1>3. Piped(sg2, pp2, s)
  BY <1>1 DEF Piped
<1>4. Staged(w2, st, pp2, s)
  BY <1>1 DEF Staged
<1> QED
  BY <1>2, <1>3, <1>4

\* A start is met: the stream is open, or none is.
LEMMA StandsMet ==
  ASSUME NEW w, NEW st, NEW pp, NEW orders, NEW sg, NEW w2, NEW st2, NEW orders2, NEW k \in Takes,
         Stands(w, st, pp, orders, sg), Idle(st), st.stream = NoTake, Unheard(orders, sg, k),
         \A s \in Takes : Unheard(orders2, sg, s) => Unheard(orders, sg, s) /\ s > k,
         st2.closed = st.closed, st2.failed = st.failed, st2.gaveUp = st.gaveUp,
         st2.chain = st.chain, st2.cleanup = st.cleanup,
         \A s \in Takes : s \in st2.started \cup st2.over => s \in st.started \cup st.over,
         st2.session = st.session \/ st2.session = k,
         \/ st2.stream = NoTake
         \/ st2.stream = k /\ (st2.draft \/ (st2.session = k /\ w2.socket # "gone"))
  PROVE  Stands(w2, st2, pp, orders2, sg)
<1>0. NoTake \notin Takes
  BY DEF NoTake, Takes
<1> SUFFICES ASSUME NEW s \in Takes
             PROVE  /\ Unheard(orders2, sg, s) => Fresh(st2, pp, s)
                    /\ Piped(sg, pp, s) /\ Staged(w2, st2, pp, s)
  BY DEF Stands
<1>1. /\ Unheard(orders, sg, s) => Fresh(st, pp, s)
      /\ Piped(sg, pp, s) /\ Staged(w, st, pp, s)
  BY DEF Stands
<1>2. st.chain[s] \notin Waits /\ st.cleanup[s] \notin Waits /\ s # st.stream
  BY <1>0 DEF Idle
<1>3. s = k => Fresh(st, pp, s)
  BY <1>1
<1>4. Unheard(orders2, sg, s) => Fresh(st2, pp, s)
  BY <1>1 DEF Fresh
<1>5. Staged(w2, st2, pp, s)
  BY <1>0, <1>1, <1>2, <1>3 DEF Staged, Fresh, Waits
<1> QED
  BY <1>1, <1>4, <1>5

\* The main thread asks for the end of the stream that is open.
LEMMA StandsAsked ==
  ASSUME NEW w, NEW st \in Stages, NEW pp, NEW orders, NEW sg, NEW st2, NEW orders2,
         Stands(w, st, pp, orders, sg), st.stream \in Takes, pp[st.stream].flushed,
         ~Unheard(orders, sg, st.stream), st.chain[st.stream] = "none",
         \A s \in Takes : Unheard(orders2, sg, s) => Unheard(orders, sg, s),
         st2.stream = st.stream, st2.draft = st.draft, st2.session = st.session,
         st2.closed = st.closed, st2.failed = st.failed, st2.gaveUp = st.gaveUp,
         st2.started = st.started, st2.over = st.over, st2.cleanup = st.cleanup,
         st2.chain = [st.chain EXCEPT ![st.stream] = "flush"]
  PROVE  Stands(w, st2, pp, orders2, sg)
<1> SUFFICES ASSUME NEW s \in Takes
             PROVE  /\ Unheard(orders2, sg, s) => Fresh(st2, pp, s)
                    /\ Piped(sg, pp, s) /\ Staged(w, st2, pp, s)
  BY DEF Stands
<1>1. /\ Unheard(orders, sg, s) => Fresh(st, pp, s)
      /\ Piped(sg, pp, s) /\ Staged(w, st, pp, s)
  BY DEF Stands
<1>2. st2.chain[s] = IF s = st.stream THEN "flush" ELSE st.chain[s]
  BY DEF Stages
<1>3. Unheard(orders2, sg, s) => Fresh(st2, pp, s)
  BY <1>1, <1>2 DEF Fresh
<1>4. Staged(w, st2, pp, s)
  BY <1>1, <1>2 DEF Staged, Waits
<1> QED
  BY <1>1, <1>3, <1>4

\* The port of the stream that is open is read.
LEMMA StandsRead ==
  ASSUME NEW w, NEW st, NEW pp, NEW orders, NEW sg, NEW w2, NEW pp2,
         Stands(w, st, pp, orders, sg), w2.socket = w.socket, ~Unheard(orders, sg, st.stream),
         \A s \in Takes : s # st.stream => pp2[s] = pp[s],
         \A s \in Takes : pp2[s].flushed = pp[s].flushed /\ (pp[s].flushRead => pp2[s].flushRead),
         \A s \in Takes : Piped(sg, pp2, s)
  PROVE  Stands(w2, st, pp2, orders, sg)
<1> SUFFICES ASSUME NEW s \in Takes
             PROVE  /\ Unheard(orders, sg, s) => Fresh(st, pp2, s)
                    /\ Staged(w2, st, pp2, s)
  BY DEF Stands
<1>1. /\ Unheard(orders, sg, s) => Fresh(st, pp, s)
      /\ Staged(w, st, pp, s)
  BY DEF Stands
<1>2. Unheard(orders, sg, s) => Fresh(st, pp2, s)
  BY <1>1 DEF Fresh
<1>3. Staged(w2, st, pp2, s)
  BY <1>1 DEF Staged
<1> QED
  BY <1>2, <1>3

\* One wait of the finishing of a stream is over.
LEMMA StandsStep ==
  ASSUME NEW w, NEW st \in Stages, NEW pp, NEW orders, NEW sg, NEW w2, NEW st2,
         NEW k \in Takes, NEW v \in {"ready", "start", "finish", "done"},
         Stands(w, st, pp, orders, sg), w2.socket = w.socket, st.chain[k] \in Waits,
         v \in {"start", "finish"} /\ k = st.stream => w.socket # "connecting",
         k = st.stream => v # "done" /\ pp[k].flushRead,
         v \in {"ready", "start"} => st.chain[k] \in {"flush", "ready", "start"},
         st2.stream = st.stream, st2.draft = st.draft, st2.session = st.session,
         st2.closed = st.closed, st2.failed = st.failed, st2.gaveUp = st.gaveUp,
         st2.started = st.started, st2.over = st.over, st2.cleanup = st.cleanup,
         st2.chain = [st.chain EXCEPT ![k] = v]
  PROVE  Stands(w2, st2, pp, orders, sg)
<1> SUFFICES ASSUME NEW s \in Takes
             PROVE  /\ Unheard(orders, sg, s) => Fresh(st2, pp, s)
                    /\ Piped(sg, pp, s) /\ Staged(w2, st2, pp, s)
  BY DEF Stands
<1>1. /\ Unheard(orders, sg, s) => Fresh(st, pp, s)
      /\ Piped(sg, pp, s) /\ Staged(w, st, pp, s)
  BY DEF Stands
<1>2. st2.chain[s] = IF s = k THEN v ELSE st.chain[s]
  BY DEF Stages
<1>3. Unheard(orders, sg, s) => Fresh(st2, pp, s)
  BY <1>1, <1>2 DEF Fresh, Waits
<1>4. Staged(w2, st2, pp, s)
  <2>1. CASE s = k
    BY <1>1, <1>2, <2>1 DEF Staged, Waits
  <2>2. CASE s # k
    BY <1>1, <1>2, <2>2 DEF Staged, Waits
  <2> QED
    BY <2>1, <2>2
<1> QED
  BY <1>1, <1>3, <1>4

LEMMA StandsCleanup ==
  ASSUME NEW w, NEW st \in Stages, NEW pp, NEW orders, NEW sg, NEW w2, NEW st2,
         NEW k \in Takes, NEW v \in {"start", "finish", "done"},
         Stands(w, st, pp, orders, sg), w2.socket = w.socket, st.cleanup[k] \in Waits,
         v = "start" => st.cleanup[k] = "ready",
         st2.stream = st.stream, st2.draft = st.draft, st2.session = st.session,
         st2.closed = st.closed, st2.failed = st.failed, st2.gaveUp = st.gaveUp,
         st2.started = st.started, st2.over = st.over, st2.chain = st.chain,
         st2.cleanup = [st.cleanup EXCEPT ![k] = v]
  PROVE  Stands(w2, st2, pp, orders, sg)
<1> SUFFICES ASSUME NEW s \in Takes
             PROVE  /\ Unheard(orders, sg, s) => Fresh(st2, pp, s)
                    /\ Piped(sg, pp, s) /\ Staged(w2, st2, pp, s)
  BY DEF Stands
<1>1. /\ Unheard(orders, sg, s) => Fresh(st, pp, s)
      /\ Piped(sg, pp, s) /\ Staged(w, st, pp, s)
  BY DEF Stands
<1>2. st2.cleanup[s] = IF s = k THEN v ELSE st.cleanup[s]
  BY DEF Stages
<1>3. Unheard(orders, sg, s) => Fresh(st2, pp, s)
  BY <1>1, <1>2 DEF Fresh, Waits
<1>4. Staged(w2, st2, pp, s)
  BY <1>1, <1>2 DEF Staged, Waits
<1> QED
  BY <1>1, <1>3, <1>4

\* The stream that is open has come to its end.
LEMMA StandsClosed ==
  ASSUME NEW w, NEW st \in Stages, NEW pp, NEW orders, NEW sg, NEW st2, NEW k \in Takes,
         Stands(w, st, pp, orders, sg), st.stream = k, ~Unheard(orders, sg, k),
         st.chain[k] # "none", pp[k].flushRead,
         st2.stream = NoTake, st2.session = st.session,
         st2.closed = st.closed \cup {k}, st2.failed = st.failed, st2.gaveUp = st.gaveUp,
         st2.started = st.started \ {k}, st2.over = st.over \ {k}, st2.cleanup = st.cleanup,
         st2.chain = [st.chain EXCEPT ![k] = "done"]
  PROVE  Stands(w, st2, pp, orders, sg)
<1>0. NoTake \notin Takes
  BY DEF NoTake, Takes
<1> SUFFICES ASSUME NEW s \in Takes
             PROVE  /\ Unheard(orders, sg, s) => Fresh(st2, pp, s)
                    /\ Piped(sg, pp, s) /\ Staged(w, st2, pp, s)
  BY DEF Stands
<1>1. /\ Unheard(orders, sg, s) => Fresh(st, pp, s)
      /\ Piped(sg, pp, s) /\ Staged(w, st, pp, s)
  BY DEF Stands
<1>2. st2.chain[s] = IF s = k THEN "done" ELSE st.chain[s]
  BY DEF Stages
<1>3. Unheard(orders, sg, s) => Fresh(st2, pp, s)
  BY <1>1, <1>2 DEF Fresh
<1>4. Staged(w, st2, pp, s)
  <2>1. CASE s = k
    BY <1>0, <1>1, <1>2, <2>1 DEF Staged, Waits
  <2>2. CASE s # k
    BY <1>0, <1>1, <1>2, <2>2 DEF Staged, Waits
  <2> QED
    BY <2>1, <2>2
<1> QED
  BY <1>1, <1>3, <1>4

\* The stream that is open is interrupted.
LEMMA StandsBroken ==
  ASSUME NEW w, NEW st \in Stages, NEW pp, NEW orders, NEW sg, NEW w2, NEW st2, NEW k \in Takes,
         Stands(w, st, pp, orders, sg), st.stream = k, ~Unheard(orders, sg, k),
         w2.socket # "connecting", st2.stream = NoTake, st2.session = st.session,
         st2.closed = st.closed \cup {k}, st2.failed = st.failed \cup {k},
         \A s \in Takes : s \in st2.gaveUp => s \in st.gaveUp \/ s = k,
         st2.started = st.started \ {k}, st2.over = st.over \ {k},
         \A s \in Takes : st2.cleanup[s] = IF s = k THEN "ready" ELSE st.cleanup[s],
         \A s \in Takes : s # k => st2.chain[s] = st.chain[s],
         st2.chain[k] = st.chain[k] \/ (st2.chain[k] = "done" /\ st.chain[k] # "none")
  PROVE  Stands(w2, st2, pp, orders, sg)
<1>0. NoTake \notin Takes
  BY DEF NoTake, Takes
<1> SUFFICES ASSUME NEW s \in Takes
             PROVE  /\ Unheard(orders, sg, s) => Fresh(st2, pp, s)
                    /\ Piped(sg, pp, s) /\ Staged(w2, st2, pp, s)
  BY DEF Stands
<1>1. /\ Unheard(orders, sg, s) => Fresh(st, pp, s)
      /\ Piped(sg, pp, s) /\ Staged(w, st, pp, s)
  BY DEF Stands
<1>3. Unheard(orders, sg, s) => Fresh(st2, pp, s)
  BY <1>1 DEF Fresh
<1>4. Staged(w2, st2, pp, s)
  <2>1. CASE s = k
    BY <1>0, <1>1, <2>1 DEF Staged, Waits
  <2>2. CASE s # k
    BY <1>0, <1>1, <2>2 DEF Staged, Waits
  <2> QED
    BY <2>1, <2>2
<1> QED
  BY <1>1, <1>3, <1>4

\* The stream that is open hears of its start or of its end.
LEMMA StandsHeard ==
  ASSUME NEW w, NEW st, NEW pp, NEW orders, NEW sg, NEW w2, NEW st2,
         Stands(w, st, pp, orders, sg), w2.socket = w.socket,
         \A s \in Takes : s \in st2.started \cup st2.over => s \in st.started \cup st.over \/ s = st.stream,
         st2.stream = st.stream, st2.draft = st.draft, st2.session = st.session,
         st2.closed = st.closed, st2.failed = st.failed, st2.gaveUp = st.gaveUp,
         st2.chain = st.chain, st2.cleanup = st.cleanup
  PROVE  Stands(w2, st2, pp, orders, sg)
<1> SUFFICES ASSUME NEW s \in Takes
             PROVE  /\ Unheard(orders, sg, s) => Fresh(st2, pp, s)
                    /\ Piped(sg, pp, s) /\ Staged(w2, st2, pp, s)
  BY DEF Stands
<1>1. /\ Unheard(orders, sg, s) => Fresh(st, pp, s)
      /\ Piped(sg, pp, s) /\ Staged(w, st, pp, s)
  BY DEF Stands
<1>2. Unheard(orders, sg, s) => Fresh(st2, pp, s)
  BY <1>1 DEF Fresh
<1>3. Staged(w2, st2, pp, s)
  BY <1>1 DEF Staged
<1> QED
  BY <1>1, <1>2, <1>3

\* The socket opens, or it is gone while no stream is open.
LEMMA StandsSocket ==
  ASSUME NEW w, NEW st, NEW pp, NEW orders, NEW sg, NEW w2, NEW st2,
         Stands(w, st, pp, orders, sg), w2.socket # "connecting",
         st.stream = NoTake \/ w2.socket # "gone",
         st2.stream = st.stream, st2.draft = st.draft, st2.session = st.session,
         st2.closed = st.closed, st2.failed = st.failed, st2.gaveUp = st.gaveUp,
         \A s \in Takes : s \in st2.started \cup st2.over => s \in st.started \cup st.over,
         \A s \in Takes : st2.chain[s] = st.chain[s] /\ st2.cleanup[s] = st.cleanup[s]
  PROVE  Stands(w2, st2, pp, orders, sg)
<1>0. NoTake \notin Takes
  BY DEF NoTake, Takes
<1> SUFFICES ASSUME NEW s \in Takes
             PROVE  /\ Unheard(orders, sg, s) => Fresh(st2, pp, s)
                    /\ Piped(sg, pp, s) /\ Staged(w2, st2, pp, s)
  BY DEF Stands
<1>1. /\ Unheard(orders, sg, s) => Fresh(st, pp, s)
      /\ Piped(sg, pp, s) /\ Staged(w, st, pp, s)
  BY DEF Stands
<1>2. Unheard(orders, sg, s) => Fresh(st2, pp, s)
  BY <1>1 DEF Fresh
<1>3. Staged(w2, st2, pp, s)
  BY <1>0, <1>1 DEF Staged
<1> QED
  BY <1>1, <1>2, <1>3

(* The steps of the main thread and of the audio thread.                   *)

LEMMA GoodTypes ==
  ASSUME WireGood
  PROVE  /\ singer \in Singers /\ toDecoder \in Seq(Orders) /\ toSinger \in Seq(Takes)
         /\ pipe \in Pipes /\ stage \in Stages /\ wire \in Nets /\ room \in Rooms
         /\ Led(toDecoder, toSinger, singer, stage, pipe)
         /\ Stands(wire, stage, pipe, toDecoder, singer)
         /\ Wired(wire, room, stage, pipe)
BY DEF WireGood, WireType

LEMMA NextGood ==
  ASSUME singer' \in Singers, toDecoder' \in Seq(Orders), toSinger' \in Seq(Takes),
         pipe' \in Pipes, stage' \in Stages, wire' \in Nets, room' \in Rooms,
         Led(toDecoder', toSinger', singer', stage', pipe'),
         Stands(wire', stage', pipe', toDecoder', singer'),
         Wired(wire', room', stage', pipe')
  PROVE  WireGood'
BY DEF WireGood, WireType

\* Nothing that concerns the socket has changed.
LEMMA UnwiredSame ==
  ASSUME NEW w \in Nets, NEW r \in Rooms, NEW st \in Stages, NEW pp \in Pipes, NEW pp2 \in Pipes,
         Wired(w, r, st, pp), \A s \in Takes : pp2[s].read = pp[s].read,
         \A s \in Takes : st.chain[s] \in Finishing => pp2[s].posted = pp[s].posted
  PROVE  Wired(w, r, st, pp2)
BY SameSight

LEMMA StartTakeKeeps ==
  ASSUME WireGood, NEW draft \in BOOLEAN, StartTake(draft)
  PROVE  WireGood'
<1> DEFINE s == singer.take + 1
           e == [kind |-> "start", take |-> s, draft |-> draft]
<1>1. /\ singer \in Singers /\ toDecoder \in Seq(Orders) /\ toSinger \in Seq(Takes)
      /\ pipe \in Pipes /\ stage \in Stages /\ wire \in Nets /\ room \in Rooms
      /\ Led(toDecoder, toSinger, singer, stage, pipe)
      /\ Stands(wire, stage, pipe, toDecoder, singer)
      /\ Wired(wire, room, stage, pipe)
  BY GoodTypes
<1>2. /\ singer.at = "idle" /\ singer.take < TakeCount
      /\ singer' = [singer EXCEPT !.at = "recording", !.take = s, !.promise = s]
      /\ toDecoder' = Append(toDecoder, e)
      /\ UNCHANGED <<toSinger, pipe, stage, wire, room>>
  BY DEF StartTake
<1>3. s \in Takes /\ singer.take \in Nat
  BY <1>1, <1>2, TakeWireAssumption DEF Singers, Maybe, Takes, NoTake
<1>4. e \in Orders /\ e.kind = "start" /\ e.take = s
  BY <1>3 DEF Orders
<1>5. s = singer.take + 1 /\ s > singer.take
  BY <1>3
<1> HIDE DEF s
<1>6. /\ singer' \in Singers /\ singer'.at = "recording" /\ singer'.take = s /\ singer'.promise = s
  BY <1>1, <1>2, <1>3 DEF Singers, Maybe
<1> HIDE DEF e
<1>7. toDecoder' \in Seq(Orders)
  BY <1>1, <1>2, <1>4
<1>8. Led(toDecoder', toSinger, singer', stage, pipe)
  <2>1. \A i \in DOMAIN toSinger : toSinger[i] \in Takes
    BY <1>1
  <2>2. /\ singer.at = "idle" /\ singer'.at = "recording" /\ singer'.take = singer.take + 1
        /\ singer'.promise = singer'.take /\ e.kind = "start" /\ e.take = singer'.take
    BY <1>2, <1>4, <1>5, <1>6
  <2>3. /\ toDecoder \in Seq(Orders) /\ singer \in Singers /\ e \in Orders
        /\ toDecoder' = Append(toDecoder, e) /\ Led(toDecoder, toSinger, singer, stage, pipe)
    BY <1>1, <1>2, <1>4
  <2> QED
    BY <2>1, <2>2, <2>3, LedStart
<1>9. \A t \in Takes : Ordered(toDecoder', t) => Ordered(toDecoder, t) \/ t = s
  <2>1. \A i \in DOMAIN toDecoder' : (i \in DOMAIN toDecoder /\ toDecoder'[i] = toDecoder[i]) \/ toDecoder'[i] = e
    BY <1>1, <1>2, <1>4, Appended
  <2> QED
    BY <1>4, <2>1 DEF Ordered
<1>10. \A t \in Takes : t > s => t > singer.take
  BY <1>3, <1>5 DEF Takes
<1>11. \A t \in Takes : Unheard(toDecoder', singer', t) => Unheard(toDecoder, singer, t)
  BY <1>5, <1>6, <1>9, <1>10 DEF Unheard
<1>12. Stands(wire, stage, pipe, toDecoder', singer')
  BY <1>1, <1>6, <1>10, <1>11, StandsSame
<1> QED
  BY <1>1, <1>2, <1>6, <1>7, <1>8, <1>12, NextGood

LEMMA StopTakeKeeps ==
  ASSUME WireGood, StopTake
  PROVE  WireGood'
<1>1. /\ singer \in Singers /\ toDecoder \in Seq(Orders) /\ toSinger \in Seq(Takes)
      /\ pipe \in Pipes /\ stage \in Stages /\ wire \in Nets /\ room \in Rooms
      /\ Led(toDecoder, toSinger, singer, stage, pipe)
      /\ Stands(wire, stage, pipe, toDecoder, singer)
      /\ Wired(wire, room, stage, pipe)
  BY GoodTypes
<1>2. /\ singer.at = "recording" /\ singer' = [singer EXCEPT !.at = "flushing"]
      /\ UNCHANGED <<toDecoder, toSinger, pipe, stage, wire, room>>
  BY DEF StopTake
<1>3. /\ singer' \in Singers /\ singer'.at = "flushing" /\ singer'.take = singer.take
      /\ singer'.promise = singer.promise
  BY <1>1, <1>2 DEF Singers
<1>4. Led(toDecoder, toSinger, singer', stage, pipe)
  BY <1>1, <1>2, <1>3, LedStop
<1>5. \A t \in Takes : Unheard(toDecoder, singer', t) => Unheard(toDecoder, singer, t)
  BY <1>3 DEF Unheard
<1>6. Stands(wire, stage, pipe, toDecoder, singer')
  BY <1>1, <1>3, <1>5, StandsSame
<1> QED
  BY <1>1, <1>2, <1>3, <1>4, <1>6, NextGood

LEMMA PostChunkKeeps ==
  ASSUME WireGood, PostChunk
  PROVE  WireGood'
<1> DEFINE s == singer.take
           n == pipe[s].posted + 1
<1>1. /\ singer \in Singers /\ toDecoder \in Seq(Orders) /\ toSinger \in Seq(Takes)
      /\ pipe \in Pipes /\ stage \in Stages /\ wire \in Nets /\ room \in Rooms
      /\ Led(toDecoder, toSinger, singer, stage, pipe)
      /\ Stands(wire, stage, pipe, toDecoder, singer)
      /\ Wired(wire, room, stage, pipe)
  BY GoodTypes
<1>2. /\ singer.at \in {"recording", "flushing"} /\ ~pipe[s].flushed
      /\ pipe' = [pipe EXCEPT ![s].posted = n]
      /\ UNCHANGED <<singer, toDecoder, toSinger, stage, wire, room>>
  BY DEF PostChunk
<1>3. s \in Takes /\ ~(s > s)
  BY <1>1, <1>2 DEF Led, Singers, Maybe, Takes, NoTake
<1>4. n \in Nat /\ n = pipe[s].posted + 1 /\ pipe[s].posted \in Nat /\ pipe[s].read \in Nat
  BY <1>1, <1>3 DEF Pipes
<1> HIDE DEF n
<1>5. /\ pipe' \in Pipes /\ pipe'[s].posted = n
      /\ \A t \in Takes : t # s => pipe'[t] = pipe[t]
      /\ \A t \in Takes : pipe'[t].read = pipe[t].read /\ pipe'[t].flushRead = pipe[t].flushRead
                       /\ pipe'[t].flushed = pipe[t].flushed
  BY <1>1, <1>2, <1>3, <1>4 DEF Pipes
<1>6. Piped(singer, pipe, s) /\ Staged(wire, stage, pipe, s)
  BY <1>1, <1>3 DEF Stands
<1>7. Led(toDecoder, toSinger, singer, stage, pipe')
  BY <1>1, <1>3, <1>5, LedStage
<1>8. pipe'[s].read <= pipe'[s].posted /\ ~pipe'[s].flushRead
  BY <1>2, <1>3, <1>4, <1>5, <1>6 DEF Piped
<1>9. Stands(wire, stage, pipe', toDecoder, singer)
  <2>1. \A t \in Takes : pipe'[t] = pipe[t] \/
           /\ ~(t > singer.take) /\ pipe'[t].read <= pipe'[t].posted
           /\ pipe'[t].flushRead => pipe'[t].flushed /\ pipe'[t].read = pipe'[t].posted
           /\ pipe[t].flushed => pipe'[t].flushed
    BY <1>3, <1>5, <1>8
  <2> QED
    BY <1>1, <1>5, <2>1, StandsSame
<1>10. \A t \in Takes : stage.chain[t] \in Finishing => pipe'[t].posted = pipe[t].posted
  <2>1. stage.chain[s] = "none"
    BY <1>2, <1>6 DEF Staged
  <2> QED
    BY <1>5, <2>1 DEF Finishing
<1>11. Wired(wire, room, stage, pipe')
  BY <1>1, <1>5, <1>10, UnwiredSame
<1> QED
  BY <1>1, <1>2, <1>5, <1>7, <1>9, <1>11, NextGood

LEMMA PostFlushKeeps ==
  ASSUME WireGood, PostFlush
  PROVE  WireGood'
<1> DEFINE s == singer.take
<1>1. /\ singer \in Singers /\ toDecoder \in Seq(Orders) /\ toSinger \in Seq(Takes)
      /\ pipe \in Pipes /\ stage \in Stages /\ wire \in Nets /\ room \in Rooms
      /\ Led(toDecoder, toSinger, singer, stage, pipe)
      /\ Stands(wire, stage, pipe, toDecoder, singer)
      /\ Wired(wire, room, stage, pipe)
  BY GoodTypes
<1>2. /\ singer.at = "flushing" /\ ~pipe[s].flushed
      /\ pipe' = [pipe EXCEPT ![s].flushed = TRUE]
      /\ UNCHANGED <<singer, toDecoder, toSinger, stage, wire, room>>
  BY DEF PostFlush
<1>3. s \in Takes /\ ~(s > s)
  BY <1>1, <1>2 DEF Led, Singers, Maybe, Takes, NoTake
<1>5. /\ pipe' \in Pipes
      /\ \A t \in Takes : t # s => pipe'[t] = pipe[t]
      /\ \A t \in Takes : pipe'[t].read = pipe[t].read /\ pipe'[t].flushRead = pipe[t].flushRead
                       /\ pipe'[t].posted = pipe[t].posted
      /\ pipe'[s].flushed
  BY <1>1, <1>2, <1>3 DEF Pipes
<1>6. Piped(singer, pipe, s)
  BY <1>1, <1>3 DEF Stands
<1>7. Led(toDecoder, toSinger, singer, stage, pipe')
  BY <1>1, <1>3, <1>5, LedStage
<1>9. Stands(wire, stage, pipe', toDecoder, singer)
  <2>1. pipe'[s].read <= pipe'[s].posted /\ ~pipe'[s].flushRead
    BY <1>2, <1>3, <1>5, <1>6 DEF Piped
  <2>2. \A t \in Takes : pipe'[t] = pipe[t] \/
           /\ ~(t > singer.take) /\ pipe'[t].read <= pipe'[t].posted
           /\ pipe'[t].flushRead => pipe'[t].flushed /\ pipe'[t].read = pipe'[t].posted
           /\ pipe[t].flushed => pipe'[t].flushed
    BY <1>3, <1>5, <2>1
  <2> QED
    BY <1>1, <1>5, <2>2, StandsSame
<1>11. Wired(wire, room, stage, pipe')
  BY <1>1, <1>5, UnwiredSame
<1> QED
  BY <1>1, <1>2, <1>5, <1>7, <1>9, <1>11, NextGood

LEMMA FinishTakeKeeps ==
  ASSUME WireGood, FinishTake
  PROVE  WireGood'
<1> DEFINE e == [kind |-> "finish", take |-> singer.take]
<1>1. /\ singer \in Singers /\ toDecoder \in Seq(Orders) /\ toSinger \in Seq(Takes)
      /\ pipe \in Pipes /\ stage \in Stages /\ wire \in Nets /\ room \in Rooms
      /\ Led(toDecoder, toSinger, singer, stage, pipe)
      /\ Stands(wire, stage, pipe, toDecoder, singer)
      /\ Wired(wire, room, stage, pipe)
  BY GoodTypes
<1>2. /\ singer.at = "flushing" /\ pipe[singer.take].flushed
      /\ UNCHANGED <<toSinger, pipe, stage, wire, room>>
  BY DEF FinishTake
<1>3. singer.take \in Takes
  BY <1>1, <1>2 DEF Led, Singers, Maybe
<1>4. CASE singer.promise = NoTake
  <2>1. singer' = [singer EXCEPT !.at = "idle"] /\ toDecoder' = toDecoder
    BY <1>4 DEF FinishTake
  <2>2. singer' \in Singers /\ singer'.at = "idle" /\ singer'.take = singer.take
    BY <1>1, <2>1 DEF Singers
  <2>3. ~AnyStart(toDecoder) /\ stage.stream = NoTake
    BY <1>1, <1>2, <1>4 DEF Led
  <2>4. Led(toDecoder, toSinger, singer', stage, pipe)
    BY <1>1, <1>2, <2>2, <2>3, LedLetGo
  <2>5. \A t \in Takes : Unheard(toDecoder, singer', t) => Unheard(toDecoder, singer, t)
    BY <2>2 DEF Unheard
  <2>6. Stands(wire, stage, pipe, toDecoder, singer')
    BY <1>1, <2>2, <2>5, StandsSame
  <2> QED
    BY <1>1, <1>2, <2>1, <2>2, <2>4, <2>6, NextGood
<1>5. CASE singer.promise # NoTake
  <2>1. singer' = [singer EXCEPT !.at = "finishing"] /\ toDecoder' = Append(toDecoder, e)
    BY <1>5 DEF FinishTake
  <2>2. /\ singer' \in Singers /\ singer'.at = "finishing" /\ singer'.take = singer.take
        /\ singer'.promise = singer.promise
    BY <1>1, <2>1 DEF Singers
  <2>3. e \in Orders /\ e.kind = "finish" /\ e.take = singer.take
    BY <1>3 DEF Orders
  <2> HIDE DEF e
  <2>4. toDecoder' \in Seq(Orders)
    BY <1>1, <2>1, <2>3
  <2>5. Led(toDecoder', toSinger, singer', stage, pipe)
    <3>1. /\ toDecoder \in Seq(Orders) /\ singer \in Singers /\ e \in Orders
          /\ toDecoder' = Append(toDecoder, e) /\ Led(toDecoder, toSinger, singer, stage, pipe)
      BY <1>1, <2>1, <2>3
    <3>2. /\ singer.at = "flushing" /\ pipe[singer.take].flushed /\ singer'.at = "finishing"
          /\ singer'.take = singer.take /\ singer'.promise = singer.promise
          /\ e.kind = "finish" /\ e.take = singer.take
      BY <1>2, <2>2, <2>3
    <3> QED
      BY <3>1, <3>2, LedFinish
  <2>6. \A t \in Takes : Unheard(toDecoder', singer', t) => Unheard(toDecoder, singer, t)
    <3>1. \A i \in DOMAIN toDecoder' : (i \in DOMAIN toDecoder /\ toDecoder'[i] = toDecoder[i]) \/ toDecoder'[i] = e
      BY <1>1, <2>1, <2>3, Appended
    <3> QED
      BY <2>2, <2>3, <3>1 DEF Unheard, Ordered
  <2>7. Stands(wire, stage, pipe, toDecoder', singer')
    BY <1>1, <2>2, <2>6, StandsSame
  <2> QED
    BY <1>1, <1>2, <2>2, <2>4, <2>5, <2>7, NextGood
<1> QED
  BY <1>4, <1>5

LEMMA HearDecoderKeeps ==
  ASSUME WireGood, HearDecoder, ~singer'.misled
  PROVE  WireGood'
<1> DEFINE at == IF singer.at = "finishing" THEN "idle" ELSE singer.at
           misled == singer.misled \/ singer.promise \notin {NoTake, Head(toSinger)}
<1>1. /\ singer \in Singers /\ toDecoder \in Seq(Orders) /\ toSinger \in Seq(Takes)
      /\ pipe \in Pipes /\ stage \in Stages /\ wire \in Nets /\ room \in Rooms
      /\ Led(toDecoder, toSinger, singer, stage, pipe)
      /\ Stands(wire, stage, pipe, toDecoder, singer)
      /\ Wired(wire, room, stage, pipe)
  BY GoodTypes
<1>2. /\ toSinger # <<>> /\ toSinger' = Tail(toSinger)
      /\ singer' = [singer EXCEPT !.promise = NoTake, !.at = at, !.misled = misled]
      /\ UNCHANGED <<toDecoder, pipe, stage, wire, room>>
  BY DEF HearDecoder
<1>3. /\ at \in {"idle", "recording", "flushing", "finishing"} /\ misled \in BOOLEAN
      /\ NoTake \in Maybe
  BY <1>1 DEF Singers, Maybe
<1>4. misled = (singer.misled \/ singer.promise \notin {NoTake, Head(toSinger)})
  OBVIOUS
<1>5. at = IF singer.at = "finishing" THEN "idle" ELSE singer.at
  OBVIOUS
<1> HIDE DEF at, misled
<1>6. singer' \in Singers /\ singer'.at = at /\ singer'.take = singer.take /\ singer'.misled = misled
  BY <1>1, <1>2, <1>3 DEF Singers
<1>7. singer.promise \in {NoTake, Head(toSinger)}
  BY <1>4, <1>6
<1>8. toSinger' \in Seq(Takes)
  BY <1>1, <1>2
<1>9. Led(toDecoder, toSinger', singer', stage, pipe)
  <2>1. Led(toDecoder, Tail(toSinger), singer', stage, pipe)
    BY <1>1, <1>2, <1>5, <1>6, <1>7, LedHear
  <2> QED
    BY <1>2, <2>1
<1>10. \A t \in Takes : Unheard(toDecoder, singer', t) => Unheard(toDecoder, singer, t)
  BY <1>6 DEF Unheard
<1>11. Stands(wire, stage, pipe, toDecoder, singer')
  BY <1>1, <1>6, <1>10, StandsSame
<1> QED
  BY <1>1, <1>2, <1>6, <1>8, <1>9, <1>11, NextGood

(* The messages of the main thread and of the audio thread at the decoder. *)

LEMMA QuietDecoder ==
  ASSUME WireGood, ~DecoderBusy
  PROVE  Idle(stage)
<1> SUFFICES ASSUME NEW s \in Takes, s # stage.stream
             PROVE  stage.chain[s] \notin Waits /\ stage.cleanup[s] \notin Waits
  BY DEF Idle
<1>1. Staged(wire, stage, pipe, s)
  BY GoodTypes DEF Stands
<1>2. ~Resolved(s, stage.chain[s]) /\ ~Resolved(s, stage.cleanup[s])
  BY DEF DecoderBusy
<1>3. \A v \in Waits : s \in stage.closed /\ (v = "ready" => wire.socket # "connecting") => Resolved(s, v)
  BY DEF Resolved, Waits
<1>4. stage.chain[s] \notin Waits
  BY <1>1, <1>2, <1>3 DEF Staged, Waits
<1>5. stage.cleanup[s] \notin Waits
  BY <1>1, <1>2, <1>3 DEF Staged, Waits
<1> QED
  BY <1>4, <1>5

LEMMA StartMet ==
  ASSUME WireGood, ~DecoderBusy, toDecoder # <<>>, Head(toDecoder).kind = "start",
         NEW k, k = Head(toDecoder).take
  PROVE  /\ k \in Takes /\ k = singer.take /\ stage.stream = NoTake /\ Fresh(stage, pipe, k)
         /\ k \notin stage.failed
         /\ Unheard(toDecoder, singer, k) /\ Head(toDecoder).draft \in BOOLEAN
         /\ \A s \in Takes : Unheard(Tail(toDecoder), singer, s) =>
              Unheard(toDecoder, singer, s) /\ s > k
         /\ NoSong(stage) /\ ~Owes(stage) /\ stage.started = {} /\ stage.over = {}
         /\ Tail(toDecoder) \in Seq(Orders)
<1>1. /\ singer \in Singers /\ toDecoder \in Seq(Orders) /\ stage \in Stages
      /\ Led(toDecoder, toSinger, singer, stage, pipe)
      /\ Stands(wire, stage, pipe, toDecoder, singer)
  BY GoodTypes
<1>2. /\ Head(toDecoder) \in Orders /\ Head(toDecoder) = toDecoder[1] /\ 1 \in DOMAIN toDecoder
      /\ Tail(toDecoder) \in Seq(Orders)
  BY <1>1, Tailed
<1>3. k \in Takes /\ Head(toDecoder).draft \in BOOLEAN
  BY <1>2 DEF Orders
<1>4. k = singer.take /\ stage.stream = NoTake /\ Ordered(toDecoder, k)
  BY <1>1, <1>2 DEF Led, Ordered
<1>5. Unheard(toDecoder, singer, k)
  BY <1>4 DEF Unheard
<1>6. Fresh(stage, pipe, k) /\ Staged(wire, stage, pipe, k)
  BY <1>1, <1>3, <1>5 DEF Stands
<1>7. k \notin stage.failed
  BY <1>6 DEF Fresh, Staged
<1>8. \A s \in Takes : Unheard(Tail(toDecoder), singer, s) => Unheard(toDecoder, singer, s)
  BY <1>1, UnheardTail
<1>9. \A s \in Takes : Unheard(Tail(toDecoder), singer, s) => s > k
  BY <1>1, <1>4, UnheardStart
<1>10. NoTake \notin Takes
  BY DEF NoTake, Takes
<1>11. NoSong(stage)
  BY <1>4, <1>10 DEF NoSong, Sung
<1>12. ~Owes(stage)
  BY <1>4, <1>10, <1>11, QuietDecoder DEF Owes, NoSong, Idle, Waits
<1>13. stage.started = {} /\ stage.over = {}
  <2>1. \A s \in Takes : s \notin stage.started /\ s \notin stage.over
    BY <1>1, <1>4, <1>10 DEF Stands, Staged
  <2>2. stage.started \subseteq Takes /\ stage.over \subseteq Takes
    BY <1>1 DEF Stages
  <2> QED
    BY <2>1, <2>2
<1> QED
  BY <1>2, <1>3, <1>4, <1>5, <1>6, <1>7, <1>8, <1>9, <1>11, <1>12, <1>13

\* The stream that a start opens, or the one that it finds closed.
OpenedAs(st, st2, d, s, k) ==
    /\ st2 \in Stages /\ st2.draft = d /\ st2.stream = s /\ st2.session = k /\ ~st2.ready
    /\ st2.started = {} /\ st2.over = {} /\ st2.closed = st.closed
    /\ st2.failed = st.failed /\ st2.gaveUp = st.gaveUp /\ st2.rushed = st.rushed
    /\ st2.chain = st.chain /\ st2.cleanup = st.cleanup

LEMMA OpenedStage ==
  ASSUME NEW st \in Stages, st.stream = NoTake, st.started = {}, st.over = {},
         NEW d \in BOOLEAN, NEW s \in Maybe, NEW k \in Maybe,
         NEW st2, st2 = [Cleared(st) EXCEPT !.draft = d, !.stream = s, !.session = k]
  PROVE  OpenedAs(st, st2, d, s, k)
<1> DEFINE c == Cleared(st)
<1>1. /\ c \in Stages /\ ~c.ready
      /\ c.closed = st.closed \cup ({st.stream} \ {NoTake})
      /\ c.started = st.started \ {st.stream} /\ c.over = st.over \ {st.stream}
      /\ c.gaveUp = st.gaveUp
      /\ c.failed = st.failed /\ c.rushed = st.rushed /\ c.chain = st.chain
      /\ c.cleanup = st.cleanup
  BY ClearedFacts
<1>2. c.closed = st.closed /\ c.started = {} /\ c.over = {}
  BY <1>1
<1>3. st2 = [c EXCEPT !.draft = d, !.stream = s, !.session = k]
  OBVIOUS
<1> HIDE DEF c
<1>4. /\ st2 \in Stages /\ st2.draft = d /\ st2.stream = s /\ st2.session = k /\ st2.ready = c.ready
      /\ st2.started = c.started /\ st2.over = c.over /\ st2.closed = c.closed
      /\ st2.failed = c.failed /\ st2.gaveUp = c.gaveUp /\ st2.rushed = c.rushed
      /\ st2.chain = c.chain /\ st2.cleanup = c.cleanup
  BY <1>1, <1>3 DEF Stages
<1> QED
  BY <1>1, <1>2, <1>4 DEF OpenedAs

LEMMA HandleStartKeeps ==
  ASSUME WireGood, HandleStart
  PROVE  WireGood'
<1> DEFINE k == Head(toDecoder).take
           c == Cleared(stage)
           e == [kind |-> "recording.start", take |-> k]
<1>1. /\ singer \in Singers /\ toDecoder \in Seq(Orders) /\ toSinger \in Seq(Takes)
      /\ pipe \in Pipes /\ stage \in Stages /\ wire \in Nets /\ room \in Rooms
      /\ Led(toDecoder, toSinger, singer, stage, pipe)
      /\ Stands(wire, stage, pipe, toDecoder, singer)
      /\ Wired(wire, room, stage, pipe)
  BY GoodTypes
<1>2. /\ ~DecoderBusy /\ toDecoder # <<>> /\ Head(toDecoder).kind = "start"
      /\ toDecoder' = Tail(toDecoder) /\ UNCHANGED <<singer, pipe, room>>
  BY DEF HandleStart
<1>3. \/ /\ stage' = [c EXCEPT !.draft = TRUE, !.stream = k]
         /\ UNCHANGED <<wire, toSinger>>
      \/ /\ stage' = [c EXCEPT !.draft = FALSE, !.stream = k, !.session = k]
         /\ wire' = SendJson(OpenSocket(wire), FALSE, e)
         /\ UNCHANGED toSinger
      \/ /\ stage' = [c EXCEPT !.draft = FALSE]
         /\ wire' = OpenSocket(wire)
         /\ toSinger' = Append(toSinger, k)
  BY DEF HandleStart
<1>4. /\ k \in Takes /\ k = singer.take /\ stage.stream = NoTake /\ Fresh(stage, pipe, k)
      /\ k \notin stage.failed
      /\ Unheard(toDecoder, singer, k)
      /\ \A s \in Takes : Unheard(Tail(toDecoder), singer, s) =>
           Unheard(toDecoder, singer, s) /\ s > k
      /\ NoSong(stage) /\ ~Owes(stage) /\ stage.started = {} /\ stage.over = {}
      /\ Tail(toDecoder) \in Seq(Orders)
  BY <1>2, StartMet
<1>5. Idle(stage)
  BY <1>2, QuietDecoder
<1>6. k \in Maybe /\ NoTake \in Maybe /\ stage.session \in Maybe /\ NoTake \notin Takes /\ k # NoTake
  BY <1>1, <1>4 DEF Maybe, Stages, NoTake, Takes
<1>7. c \in Stages /\ c.session = stage.session /\ c.stream = NoTake
  BY <1>1, ClearedFacts
<1>8. k > stage.session /\ pipe[k].read = 0 /\ stage.chain[k] = "none"
  BY <1>4 DEF Fresh
<1>9. k = Head(toDecoder).take
  OBVIOUS
<1>10. e \in Sends /\ Starts(e) /\ e.take = k
  BY <1>4 DEF Sends, Starts
<1>12. /\ [c EXCEPT !.draft = TRUE, !.stream = k]
            = [c EXCEPT !.draft = TRUE, !.stream = k, !.session = stage.session]
       /\ [c EXCEPT !.draft = FALSE]
            = [c EXCEPT !.draft = FALSE, !.stream = NoTake, !.session = stage.session]
  <2> HIDE DEF c, k
  <2> QED
    BY <1>7 DEF Stages
<1>17. c = Cleared(stage)
  OBVIOUS
<1> HIDE DEF k, c, e
<1>13. CASE stage' = [c EXCEPT !.draft = TRUE, !.stream = k, !.session = stage.session] /\ UNCHANGED <<wire, toSinger>>
  <2>1. /\ stage' \in Stages /\ stage'.draft /\ stage'.stream = k /\ stage'.session = stage.session
        /\ ~stage'.ready /\ stage'.started = {} /\ stage'.over = {} /\ stage'.closed = stage.closed
        /\ stage'.failed = stage.failed /\ stage'.gaveUp = stage.gaveUp
        /\ stage'.chain = stage.chain /\ stage'.cleanup = stage.cleanup
    <3>1. stage' = [Cleared(stage) EXCEPT !.draft = TRUE, !.stream = k, !.session = stage.session]
      BY <1>13, <1>17
    <3>2. OpenedAs(stage, stage', TRUE, k, stage.session)
      BY <1>1, <1>4, <1>6, <3>1, OpenedStage
    <3> QED
      BY <3>2 DEF OpenedAs
  <2>2. Led(toDecoder', toSinger, singer, stage', pipe)
    BY <1>1, <1>2, <1>8, <1>9, <2>1, LedMet
  <2>3. Stands(wire, stage', pipe, toDecoder', singer)
    BY <1>1, <1>2, <1>4, <1>5, <2>1, StandsMet
  <2>4. NoSong(stage')
    BY <2>1 DEF NoSong, Sung
  <2>5. Wired(wire, room, stage', pipe)
    <3>1. \A s \in Takes : ~Sung(stage, s)
      BY <1>4 DEF NoSong
    <3> QED
      BY <1>1, <1>4, <2>1, <2>4, <3>1, Settled
  <2> QED
    BY <1>1, <1>2, <1>4, <1>13, <2>1, <2>2, <2>3, <2>5, NextGood
<1>14. CASE /\ stage' = [c EXCEPT !.draft = FALSE, !.stream = k, !.session = k]
            /\ wire' = SendJson(OpenSocket(wire), FALSE, e)
            /\ UNCHANGED toSinger
  <2>1. /\ stage' \in Stages /\ ~stage'.draft /\ stage'.stream = k /\ stage'.session = k
        /\ ~stage'.ready /\ stage'.started = {} /\ stage'.over = {} /\ stage'.closed = stage.closed
        /\ stage'.failed = stage.failed /\ stage'.gaveUp = stage.gaveUp
        /\ stage'.chain = stage.chain /\ stage'.cleanup = stage.cleanup
    <3>1. stage' = [Cleared(stage) EXCEPT !.draft = FALSE, !.stream = k, !.session = k]
      BY <1>14, <1>17
    <3>2. OpenedAs(stage, stage', FALSE, k, k)
      BY <1>1, <1>4, <1>6, <3>1, OpenedStage
    <3> QED
      BY <3>2 DEF OpenedAs
  <2>2. Led(toDecoder', toSinger, singer, stage', pipe)
    BY <1>1, <1>2, <1>8, <1>9, <2>1, LedMet
  <2>3. /\ wire' \in Nets /\ wire'.down = wire.down
        /\ wire.socket = "open" =>
             wire'.socket = "open" /\ wire'.up = Append(wire.up, e) /\ wire'.pending = wire.pending
        /\ wire.socket # "open" =>
             wire'.socket = "connecting" /\ wire'.up = wire.up /\ wire'.pending = Append(wire.pending, e)
    <3>1. /\ wire.socket = "open" => Plain(wire.pending)
          /\ wire.socket = "gone" => wire.up = <<>> /\ wire.pending = <<>> /\ wire.down = <<>>
      BY <1>1 DEF Wired, Plugged
    <3> QED
      BY <1>1, <1>10, <1>14, <3>1, StartSentFacts, ZenonT(60)
  <2>4. Stands(wire', stage', pipe, toDecoder', singer)
    <3>1. wire'.socket # "gone"
      BY <2>3
    <3> QED
      BY <1>1, <1>2, <1>4, <1>5, <2>1, <3>1, StandsMet
  <2>5. Wired(wire', room, stage', pipe)
    BY <1>1, <1>4, <1>8, <1>10, <2>1, <2>3, Announced
  <2> QED
    BY <1>1, <1>2, <1>4, <1>14, <2>1, <2>2, <2>3, <2>4, <2>5, NextGood
<1>15. CASE /\ stage' = [c EXCEPT !.draft = FALSE, !.stream = NoTake, !.session = stage.session]
            /\ wire' = OpenSocket(wire)
            /\ toSinger' = Append(toSinger, k)
  <2>1. /\ stage' \in Stages /\ ~stage'.draft /\ stage'.stream = NoTake /\ stage'.session = stage.session
        /\ ~stage'.ready /\ stage'.started = {} /\ stage'.over = {} /\ stage'.closed = stage.closed
        /\ stage'.failed = stage.failed /\ stage'.gaveUp = stage.gaveUp
        /\ stage'.chain = stage.chain /\ stage'.cleanup = stage.cleanup
    <3>1. stage' = [Cleared(stage) EXCEPT !.draft = FALSE, !.stream = NoTake, !.session = stage.session]
      BY <1>15, <1>17
    <3>2. OpenedAs(stage, stage', FALSE, NoTake, stage.session)
      BY <1>1, <1>4, <1>6, <3>1, OpenedStage
    <3> QED
      BY <3>2 DEF OpenedAs
  <2>2. /\ toSinger' \in Seq(Takes)
        /\ \A i \in DOMAIN toSinger' :
             toSinger'[i] = singer.take \/ \E j \in DOMAIN toSinger : toSinger'[i] = toSinger[j]
    BY <1>1, <1>4, <1>15, Appended
  <2>3. Led(toDecoder', toSinger', singer, stage', pipe)
    BY <1>1, <1>2, <2>1, <2>2, LedMet
  <2>4. /\ wire' \in Nets /\ wire'.socket # "gone"
        /\ wire.socket # "gone" => wire' = wire
        /\ wire.socket = "gone" =>
              wire'.socket = "connecting" /\ wire'.up = <<>> /\ wire'.pending = <<>> /\ wire'.down = <<>>
    BY <1>1, <1>15, OpenedFacts
  <2>5. Stands(wire', stage', pipe, toDecoder', singer)
    BY <1>1, <1>2, <1>4, <1>5, <2>1, StandsMet
  <2>6. NoSong(stage')
    BY <1>6, <2>1 DEF NoSong, Sung
  <2>7. Wired(wire', room, stage', pipe)
    <3>1. \A s \in Takes : ~Sung(stage, s)
      BY <1>4 DEF NoSong
    <3>2. wire.socket = "gone" => wire.up = <<>> /\ wire.pending = <<>> /\ wire.down = <<>>
      BY <1>1 DEF Wired, Plugged
    <3>3. /\ wire'.socket = wire.socket \/ (wire.socket = "gone" /\ wire'.socket = "connecting")
          /\ wire'.up = wire.up /\ wire'.pending = wire.pending /\ wire'.down = wire.down
      BY <2>4, <3>2
    <3> QED
      BY <1>1, <1>4, <2>1, <2>4, <2>6, <3>1, <3>3, Settled
  <2> QED
    BY <1>1, <1>2, <1>4, <2>1, <2>2, <2>3, <2>4, <2>5, <2>7, NextGood
<1> QED
  BY <1>3, <1>12, <1>13, <1>14, <1>15

(* A finish at the decoder, and the port of a stream.                      *)

\* A stream that is open is that of the last take.
LEMMA OpenStream ==
  ASSUME WireGood, stage.stream # NoTake
  PROVE  /\ stage.stream \in Takes /\ stage.stream = singer.take
         /\ ~Unheard(toDecoder, singer, stage.stream) /\ ~AnyStart(toDecoder)
         /\ Staged(wire, stage, pipe, stage.stream) /\ Piped(singer, pipe, stage.stream)
         /\ stage.stream \notin stage.failed /\ stage.stream \notin stage.closed
         /\ \A s \in Takes : s # stage.stream =>
              /\ stage.chain[s] \notin {"flush", "ready", "start"}
              /\ stage.cleanup[s] \notin {"ready", "start"}
<1>1. /\ singer \in Singers /\ stage \in Stages
      /\ Led(toDecoder, toSinger, singer, stage, pipe)
      /\ Stands(wire, stage, pipe, toDecoder, singer)
  BY GoodTypes
<1>2. stage.stream \in Takes
  BY <1>1 DEF Stages, Maybe
<1>3. /\ stage.stream = singer.take /\ ~Unheard(toDecoder, singer, stage.stream)
      /\ ~AnyStart(toDecoder)
  BY <1>1, LastTake
<1>4. Staged(wire, stage, pipe, stage.stream) /\ Piped(singer, pipe, stage.stream)
  BY <1>1, <1>2 DEF Stands
<1>5. stage.stream \notin stage.failed /\ stage.stream \notin stage.closed
  BY <1>4 DEF Staged
<1>6. \A s \in Takes : s # stage.stream =>
        /\ stage.chain[s] \notin {"flush", "ready", "start"}
        /\ stage.cleanup[s] \notin {"ready", "start"}
  BY <1>1 DEF Stands, Staged
<1> QED
  BY <1>2, <1>3, <1>4, <1>5, <1>6

LEMMA HandleFinishKeeps ==
  ASSUME WireGood, HandleFinish
  PROVE  WireGood'
<1> DEFINE k == Head(toDecoder).take
           s == stage.stream
           chain == [stage.chain EXCEPT ![s] = "flush"]
<1>1. /\ singer \in Singers /\ toDecoder \in Seq(Orders) /\ toSinger \in Seq(Takes)
      /\ pipe \in Pipes /\ stage \in Stages /\ wire \in Nets /\ room \in Rooms
      /\ Led(toDecoder, toSinger, singer, stage, pipe)
      /\ Stands(wire, stage, pipe, toDecoder, singer)
      /\ Wired(wire, room, stage, pipe)
  BY GoodTypes
<1>2. /\ toDecoder # <<>> /\ Head(toDecoder).kind = "finish"
      /\ toDecoder' = Tail(toDecoder) /\ UNCHANGED <<singer, pipe, wire, room>>
  BY DEF HandleFinish
<1>3. /\ Head(toDecoder) \in Orders /\ Head(toDecoder) = toDecoder[1] /\ 1 \in DOMAIN toDecoder
      /\ toDecoder' \in Seq(Orders)
  BY <1>1, <1>2, Tailed
<1>4. k \in Takes /\ k = Head(toDecoder).take
  BY <1>3 DEF Orders
<1>5. \A t \in Takes : Unheard(toDecoder', singer, t) => Unheard(toDecoder, singer, t)
  BY <1>1, <1>2, UnheardTail
<1> HIDE DEF k
<1>6. CASE s = NoTake
  <2>1. toSinger' = Append(toSinger, k) /\ stage' = stage
    BY <1>4, <1>6 DEF HandleFinish
  <2>2. /\ toSinger' \in Seq(Takes)
        /\ \A i \in DOMAIN toSinger' :
             toSinger'[i] = Head(toDecoder).take \/ \E j \in DOMAIN toSinger : toSinger'[i] = toSinger[j]
    BY <1>1, <1>4, <2>1, Appended
  <2>3. Led(toDecoder', toSinger', singer, stage, pipe)
    BY <1>1, <1>2, <1>6, <2>2, LedAsked
  <2>4. Stands(wire, stage, pipe, toDecoder', singer)
    BY <1>1, <1>5, StandsSame
  <2> QED
    BY <1>1, <1>2, <1>3, <2>1, <2>2, <2>3, <2>4, NextGood
<1>7. CASE s # NoTake
  <2>1. stage' = [stage EXCEPT !.chain = chain] /\ toSinger' = toSinger
    BY <1>7 DEF HandleFinish
  <2>2. s \in Takes /\ ~Unheard(toDecoder, singer, s)
    BY <1>7, OpenStream
  <2>3. chain \in [Takes -> Steps] /\ chain[s] = "flush" /\ \A t \in Takes : t # s => chain[t] = stage.chain[t]
    BY <1>1, <2>2 DEF Stages, Steps, Waits
  <2>4. chain = [stage.chain EXCEPT ![s] = "flush"]
    OBVIOUS
  <2> HIDE DEF chain
  <2>5. /\ stage' \in Stages /\ stage'.chain = chain /\ stage'.cleanup = stage.cleanup
        /\ stage'.stream = stage.stream /\ stage'.draft = stage.draft
        /\ stage'.session = stage.session /\ stage'.ready = stage.ready
        /\ stage'.started = stage.started /\ stage'.over = stage.over
        /\ stage'.closed = stage.closed /\ stage'.gaveUp = stage.gaveUp
        /\ stage'.failed = stage.failed
    BY <1>1, <2>1, <2>3 DEF Stages, Steps
  <2>6. stage.chain[s] = "none" /\ pipe[s].flushed
    BY <1>1, <1>3, <1>7 DEF Led
  <2>7. Led(toDecoder', toSinger, singer, stage', pipe)
    BY <1>1, <1>2, <1>7, <2>5, LedAsked
  <2>8. Stands(wire, stage', pipe, toDecoder', singer)
    BY <1>1, <1>5, <2>2, <2>4, <2>5, <2>6, StandsAsked
  <2>9. \A t \in Takes : stage'.chain[t] \in Finishing <=> stage.chain[t] \in Finishing
    BY <2>3, <2>5, <2>6 DEF Finishing
  <2>10. Wired(wire, room, stage', pipe)
    BY <1>1, <2>5, <2>9, SameSight
  <2> QED
    BY <1>1, <1>2, <1>3, <2>1, <2>5, <2>7, <2>8, <2>10, NextGood
<1> QED
  BY <1>6, <1>7

LEMMA HandleFlushKeeps ==
  ASSUME WireGood, NEW s \in Takes, HandleFlush(s)
  PROVE  WireGood'
<1>1. /\ singer \in Singers /\ toDecoder \in Seq(Orders) /\ toSinger \in Seq(Takes)
      /\ pipe \in Pipes /\ stage \in Stages /\ wire \in Nets /\ room \in Rooms
      /\ Led(toDecoder, toSinger, singer, stage, pipe)
      /\ Stands(wire, stage, pipe, toDecoder, singer)
      /\ Wired(wire, room, stage, pipe)
  BY GoodTypes
<1>2. /\ s = stage.stream /\ pipe[s].flushed /\ pipe[s].read = pipe[s].posted
      /\ pipe' = [pipe EXCEPT ![s].flushRead = TRUE]
      /\ UNCHANGED <<singer, toDecoder, toSinger, stage, wire, room>>
  BY DEF HandleFlush
<1>3. ~Unheard(toDecoder, singer, s) /\ s = singer.take
  <2>1. s # NoTake
    BY DEF Takes, NoTake
  <2> QED
    BY <1>2, <2>1, OpenStream
<1>4. /\ pipe' \in Pipes
      /\ \A t \in Takes : t # s => pipe'[t] = pipe[t]
      /\ \A t \in Takes : pipe'[t].read = pipe[t].read /\ pipe'[t].flushed = pipe[t].flushed
                       /\ pipe'[t].posted = pipe[t].posted
      /\ pipe'[s].flushRead
  BY <1>1, <1>2 DEF Pipes
<1>5. Led(toDecoder, toSinger, singer, stage, pipe')
  BY <1>1, <1>3, <1>4, LedStage
<1>6. \A t \in Takes : Piped(singer, pipe', t)
  <2> SUFFICES ASSUME NEW t \in Takes PROVE Piped(singer, pipe', t)
    OBVIOUS
  <2>1. Piped(singer, pipe, t)
    BY <1>1 DEF Stands
  <2> QED
    BY <1>2, <1>4, <2>1 DEF Piped
<1>7. \A t \in Takes : pipe'[t].flushed = pipe[t].flushed /\ (pipe[t].flushRead => pipe'[t].flushRead)
  BY <1>4
<1>8. Stands(wire, stage, pipe', toDecoder, singer)
  <2>1. /\ ~Unheard(toDecoder, singer, stage.stream) /\ wire.socket = wire.socket
        /\ \A t \in Takes : t # stage.stream => pipe'[t] = pipe[t]
    BY <1>2, <1>3, <1>4
  <2>2. Stands(wire, stage, pipe, toDecoder, singer)
    BY <1>1
  <2> QED
    BY <1>6, <1>7, <2>1, <2>2, StandsRead
<1>9. Wired(wire, room, stage, pipe')
  BY <1>1, <1>4, UnwiredSame
<1> QED
  BY <1>1, <1>2, <1>4, <1>5, <1>8, <1>9, NextGood

LEMMA HandleChunkKeeps ==
  ASSUME WireGood, NEW s \in Takes, HandleChunk(s)
  PROVE  WireGood'
<1> DEFINE n == pipe[s].read + 1
           e == [kind |-> "packet", take |-> s, number |-> n]
<1>1. /\ singer \in Singers /\ toDecoder \in Seq(Orders) /\ toSinger \in Seq(Takes)
      /\ pipe \in Pipes /\ stage \in Stages /\ wire \in Nets /\ room \in Rooms
      /\ Led(toDecoder, toSinger, singer, stage, pipe)
      /\ Stands(wire, stage, pipe, toDecoder, singer)
      /\ Wired(wire, room, stage, pipe)
  BY GoodTypes
<1>2. /\ s = stage.stream /\ pipe[s].read < pipe[s].posted
      /\ pipe' = [pipe EXCEPT ![s].read = n]
      /\ wire' = IF stage.draft THEN wire ELSE SendBinary(wire, stage.ready, e)
      /\ UNCHANGED <<singer, toDecoder, toSinger, stage, room>>
  BY DEF HandleChunk
<1>3. s # NoTake
  BY DEF Takes, NoTake
<1>4. /\ ~Unheard(toDecoder, singer, s) /\ s = singer.take
      /\ Staged(wire, stage, pipe, s) /\ Piped(singer, pipe, s) /\ s \notin stage.failed
  BY <1>2, <1>3, OpenStream
<1>5. n \in Nat /\ n = pipe[s].read + 1 /\ pipe[s].read \in Nat /\ pipe[s].posted \in Nat
  BY <1>1 DEF Pipes
<1>6. e \in Sends /\ Of(e, s) /\ e.number = n
  BY <1>5 DEF Sends, Packet, Of, IsPacket
<1> HIDE DEF n, e
<1>7. /\ pipe' \in Pipes /\ pipe'[s].read = n
      /\ \A t \in Takes : t # s => pipe'[t] = pipe[t]
      /\ \A t \in Takes : pipe'[t].flushRead = pipe[t].flushRead /\ pipe'[t].flushed = pipe[t].flushed
                       /\ pipe'[t].posted = pipe[t].posted
  BY <1>1, <1>2, <1>5, ZenonT(60) DEF Pipes
<1>8. ~pipe[s].flushRead
  BY <1>2, <1>4, <1>5 DEF Piped
<1>9. stage.chain[s] \notin Finishing
  BY <1>2, <1>4, <1>8 DEF Staged, Finishing
<1>10. Led(toDecoder, toSinger, singer, stage, pipe')
  BY <1>1, <1>4, <1>7, LedStage
<1>11. \A t \in Takes : Piped(singer, pipe', t)
  <2> SUFFICES ASSUME NEW t \in Takes PROVE Piped(singer, pipe', t)
    OBVIOUS
  <2>1. Piped(singer, pipe, t)
    BY <1>1 DEF Stands
  <2>2. n <= pipe[s].posted
    BY <1>2, <1>5
  <2>3. ~(s > singer.take)
    BY <1>4 DEF Takes
  <2> QED
    BY <1>7, <1>8, <2>1, <2>2, <2>3 DEF Piped
<1>12. ASSUME wire'.socket = wire.socket PROVE Stands(wire', stage, pipe', toDecoder, singer)
  <2>1. \A t \in Takes : pipe'[t].flushed = pipe[t].flushed /\ (pipe[t].flushRead => pipe'[t].flushRead)
    BY <1>7
  <2> QED
    <3>1. /\ ~Unheard(toDecoder, singer, stage.stream) /\ wire'.socket = wire.socket
          /\ \A t \in Takes : t # stage.stream => pipe'[t] = pipe[t]
      BY <1>2, <1>4, <1>7, <1>12
    <3>2. Stands(wire, stage, pipe, toDecoder, singer)
      BY <1>1
    <3> QED
      BY <1>11, <2>1, <3>1, <3>2, StandsRead
<1>13. CASE stage.draft
  <2>1. wire' = wire
    BY <1>2, <1>13
  <2>2. \A t \in Takes : ~Sung(stage, t)
    BY <1>13 DEF Sung
  <2>3. Wired(wire, room, stage, pipe')
    BY <1>1, <1>7, <2>2, SameSight
  <2> QED
    BY <1>1, <1>2, <1>7, <1>10, <1>12, <2>1, <2>3, NextGood
<1>14. CASE ~stage.draft
  <2>1. Sung(stage, s) /\ s = stage.session /\ wire.socket # "gone"
    BY <1>2, <1>4, <1>9, <1>14 DEF Sung, Staged
  <2>2. stage.ready => wire.pending = <<>>
    BY <1>1, <2>1 DEF Wired, Phase
  <2>3. wire' = SendBinary(wire, stage.ready, e) /\ stage.ready \in BOOLEAN
    BY <1>1, <1>2, <1>14 DEF Stages
  <2>4. /\ wire' \in Nets /\ wire'.down = wire.down /\ wire'.socket = wire.socket
        /\ wire.socket = "open" /\ stage.ready =>
             wire'.up = Append(wire.up, e) /\ wire'.pending = wire.pending
        /\ ~(wire.socket = "open" /\ stage.ready) =>
             wire'.up = wire.up /\ wire'.pending = Append(wire.pending, e)
    BY <1>1, <1>6, <2>1, <2>2, <2>3, PacketSentFacts
  <2>5. Wired(wire', room, stage, pipe')
    BY <1>1, <1>5, <1>6, <1>7, <2>1, <2>4, ChunkSent
  <2> QED
    BY <1>1, <1>2, <1>7, <1>10, <1>12, <2>4, <2>5, NextGood
<1> QED
  BY <1>13, <1>14

(* The steps of the server.                                                *)

LEMMA GaveUpFailed ==
  ASSUME WireGood
  PROVE  stage.gaveUp \subseteq stage.failed
<1>1. stage.gaveUp \subseteq Takes
  BY GoodTypes DEF Stages
<1>2. \A s \in Takes : s \in stage.gaveUp => s \in stage.failed
  BY GoodTypes DEF Stands, Staged
<1> QED
  BY <1>1, <1>2

LEMMA ServerKeeps ==
  ASSUME WireGood, UNCHANGED <<singer, toDecoder, toSinger, pipe, stage>>,
         wire' \in Nets, room' \in Rooms, wire'.socket = wire.socket,
         Wired(wire', room', stage, pipe)
  PROVE  WireGood'
<1>1. /\ singer \in Singers /\ toDecoder \in Seq(Orders) /\ toSinger \in Seq(Takes)
      /\ pipe \in Pipes /\ stage \in Stages
      /\ Led(toDecoder, toSinger, singer, stage, pipe)
      /\ Stands(wire, stage, pipe, toDecoder, singer)
  BY GoodTypes
<1>2. Stands(wire', stage, pipe, toDecoder, singer)
  BY <1>1, StandsSame
<1> QED
  BY <1>1, <1>2, NextGood

LEMMA OneMore ==
  ASSUME NEW S, NEW q \in Seq(S), NEW e \in S
  PROVE  q \o <<e>> = Append(q, e) /\ <<>> \o <<e>> = <<e>> /\ q \o <<>> = q
<1> DEFINE x == q \o <<e>>
           y == Append(q, e)
<1>1. x \in Seq(S) /\ y \in Seq(S) /\ Len(x) = Len(q) + 1 /\ Len(y) = Len(x)
  OBVIOUS
<1>2. \A i \in 1..Len(y) : x[i] = y[i]
  OBVIOUS
<1>3. x = y
  <2> HIDE DEF x, y
  <2> QED
    BY <1>1, <1>2, SeqEqual
<1>4. <<>> \o <<e>> = <<e>> /\ q \o <<>> = q
  OBVIOUS
<1> QED
  BY <1>3, <1>4

LEMMA ServeStartKeeps ==
  ASSUME WireGood, ServeStart
  PROVE  WireGood'
<1> DEFINE k == Head(wire.up).take
           up == Tail(wire.up)
           refused == [kind |-> "finished", take |-> k]
           begun == [kind |-> "started", take |-> k]
           ended == room.ended \cup ({room.take} \ {NoTake})
           events == IF room.take = NoTake THEN <<>> ELSE <<[kind |-> "finished", take |-> room.take]>>
           settled == [room EXCEPT !.take = NoTake, !.ended = ended]
           answered(news) == [wire EXCEPT !.up = up, !.down = wire.down \o news]
<1>1. /\ pipe \in Pipes /\ stage \in Stages /\ wire \in Nets /\ room \in Rooms
      /\ Wired(wire, room, stage, pipe)
  BY GoodTypes
<1>2. /\ wire.up # <<>> /\ Starts(Head(wire.up))
      /\ UNCHANGED <<singer, toDecoder, toSinger, pipe, stage>>
  BY DEF ServeStart, Starts
<1>3. /\ wire.up \in Seq(Sends) /\ wire.down \in Seq(News)
  BY <1>1 DEF Nets
<1>4. Head(wire.up) \in Sends /\ up \in Seq(Sends)
  BY <1>2, <1>3, Tailed
<1>5. k \in Takes
  BY <1>2, <1>4, SendFacts
<1>6. room.take = NoTake /\ room.refused = NoTake /\ room.waiting = NoTake
  BY <1>1, <1>2, StartUnheld DEF Held
<1>7. refused \in News /\ begun \in News
  BY <1>5 DEF News
<1>8. events = <<>> /\ ended = room.ended
  BY <1>6
<1>9. \/ /\ room' = [room EXCEPT !.refused = k] /\ wire' = answered(<<refused>>)
      \/ /\ room' = [settled EXCEPT !.waiting = k] /\ wire' = answered(events)
      \/ /\ room' = [settled EXCEPT !.take = k] /\ wire' = answered(events \o <<begun>>)
  BY DEF ServeStart
<1>10. /\ wire.down \o <<refused>> = Append(wire.down, refused)
       /\ wire.down \o (<<>> \o <<begun>>) = Append(wire.down, begun)
       /\ wire.down \o <<>> = wire.down
       /\ Append(wire.down, refused) \in Seq(News) /\ Append(wire.down, begun) \in Seq(News)
  <2> HIDE DEF refused, begun
  <2>1. /\ wire.down \o <<refused>> = Append(wire.down, refused)
        /\ wire.down \o <<begun>> = Append(wire.down, begun)
        /\ <<>> \o <<begun>> = <<begun>> /\ wire.down \o <<>> = wire.down
    BY <1>3, <1>7, OneMore
  <2>2. Append(wire.down, refused) \in Seq(News) /\ Append(wire.down, begun) \in Seq(News)
    BY <1>3, <1>7
  <2> QED
    BY <2>1, <2>2
<1>11. k \in Maybe /\ NoTake \in Maybe /\ k = Head(wire.up).take
  BY <1>5 DEF Maybe
<1> HIDE DEF up, k, ended, events
<1>12. settled = room
  <2>1. settled = [room EXCEPT !.take = room.take, !.ended = room.ended]
    BY <1>6, <1>8
  <2> QED
    BY <1>1, <2>1 DEF Rooms
<1> HIDE DEF settled, refused, begun
<1>13. up = Tail(wire.up)
  BY DEF up
<1>14. CASE room' = [room EXCEPT !.refused = k] /\ wire' = answered(<<refused>>)
  <2>1. wire' = [wire EXCEPT !.up = up, !.down = Append(wire.down, refused)]
    BY <1>10, <1>14
  <2>2. /\ wire' \in Nets /\ wire'.socket = wire.socket /\ wire'.pending = wire.pending
        /\ wire'.up = up /\ wire'.down = Append(wire.down, refused)
    BY <1>1, <1>4, <1>10, <2>1 DEF Nets
  <2>3. /\ room' \in Rooms /\ room'.take = NoTake /\ room'.refused = k /\ room'.waiting = NoTake
        /\ room'.ended = room.ended /\ room'.stored = room.stored
    BY <1>1, <1>6, <1>11, <1>14 DEF Rooms
  <2>4. wire'.down = Append(wire.down, [kind |-> "finished", take |-> k])
    BY <2>2 DEF refused
  <2>5. Wired(wire', room', stage, pipe)
    BY <1>1, <1>2, <1>5, <1>11, <1>13, <2>2, <2>3, <2>4, StartServed
  <2> QED
    BY <1>2, <2>2, <2>3, <2>5, ServerKeeps
<1>15. CASE room' = [settled EXCEPT !.waiting = k] /\ wire' = answered(events)
  <2>1. wire' = [wire EXCEPT !.up = up, !.down = wire.down]
    BY <1>8, <1>10, <1>15
  <2>2. /\ wire' \in Nets /\ wire'.socket = wire.socket /\ wire'.pending = wire.pending
        /\ wire'.up = up /\ wire'.down = wire.down
    BY <1>1, <1>3, <1>4, <2>1 DEF Nets
  <2>3. /\ room' \in Rooms /\ room'.take = NoTake /\ room'.refused = NoTake /\ room'.waiting = k
        /\ room'.ended = room.ended /\ room'.stored = room.stored
    BY <1>1, <1>6, <1>11, <1>12, <1>15 DEF Rooms
  <2>5. Wired(wire', room', stage, pipe)
    BY <1>1, <1>2, <1>5, <1>11, <1>13, <2>2, <2>3, StartServed
  <2> QED
    BY <1>2, <2>2, <2>3, <2>5, ServerKeeps
<1>16. CASE room' = [settled EXCEPT !.take = k] /\ wire' = answered(events \o <<begun>>)
  <2>1. wire' = [wire EXCEPT !.up = up, !.down = Append(wire.down, begun)]
    BY <1>8, <1>10, <1>16
  <2>2. /\ wire' \in Nets /\ wire'.socket = wire.socket /\ wire'.pending = wire.pending
        /\ wire'.up = up /\ wire'.down = Append(wire.down, begun)
    BY <1>1, <1>4, <1>10, <2>1 DEF Nets
  <2>3. /\ room' \in Rooms /\ room'.take = k /\ room'.refused = NoTake /\ room'.waiting = NoTake
        /\ room'.ended = room.ended /\ room'.stored = room.stored
    BY <1>1, <1>6, <1>11, <1>12, <1>16 DEF Rooms
  <2>4. wire'.down = Append(wire.down, [kind |-> "started", take |-> k])
    BY <2>2 DEF begun
  <2>5. Wired(wire', room', stage, pipe)
    BY <1>1, <1>2, <1>5, <1>11, <1>13, <2>2, <2>3, <2>4, StartServed
  <2> QED
    BY <1>2, <2>2, <2>3, <2>5, ServerKeeps
<1> QED
  BY <1>9, <1>14, <1>15, <1>16

LEMMA ServeWaitingKeeps ==
  ASSUME WireGood, ServeWaiting
  PROVE  WireGood'
<1> DEFINE k == room.waiting
           refused == [kind |-> "finished", take |-> k]
           begun == [kind |-> "started", take |-> k]
<1>1. /\ pipe \in Pipes /\ stage \in Stages /\ wire \in Nets /\ room \in Rooms
      /\ Wired(wire, room, stage, pipe)
  BY GoodTypes
<1>2. /\ k # NoTake /\ UNCHANGED <<singer, toDecoder, toSinger, pipe, stage>>
  BY DEF ServeWaiting
<1>3. \/ /\ room' = [room EXCEPT !.waiting = NoTake, !.take = k]
         /\ wire' = [wire EXCEPT !.down = Append(wire.down, begun)]
      \/ /\ room' = [room EXCEPT !.waiting = NoTake, !.refused = k]
         /\ wire' = [wire EXCEPT !.down = Append(wire.down, refused)]
  BY DEF ServeWaiting
<1>4. k \in Takes /\ k \in Maybe /\ NoTake \in Maybe
  BY <1>1, <1>2 DEF Rooms, Maybe
<1>5. room.take = NoTake /\ room.refused = NoTake
  BY <1>1, <1>2 DEF Wired, Plugged
<1>6. refused \in News /\ begun \in News
  BY <1>4 DEF News
<1>7. k = room.waiting
  OBVIOUS
<1> HIDE DEF k, refused, begun
<1>8. Append(wire.down, refused) \in Seq(News) /\ Append(wire.down, begun) \in Seq(News)
  BY <1>1, <1>6 DEF Nets
<1>9. CASE /\ room' = [room EXCEPT !.waiting = NoTake, !.take = k]
           /\ wire' = [wire EXCEPT !.down = Append(wire.down, begun)]
  <2>1. /\ wire' \in Nets /\ wire'.socket = wire.socket /\ wire'.pending = wire.pending
        /\ wire'.up = wire.up /\ wire'.down = Append(wire.down, begun)
    BY <1>1, <1>8, <1>9 DEF Nets
  <2>2. /\ room' \in Rooms /\ room'.take = k /\ room'.refused = NoTake /\ room'.waiting = NoTake
        /\ room'.ended = room.ended /\ room'.stored = room.stored
    BY <1>1, <1>4, <1>5, <1>9 DEF Rooms
  <2>3. wire'.down = Append(wire.down, [kind |-> "started", take |-> k])
    BY <2>1 DEF begun
  <2>4. Wired(wire', room', stage, pipe)
    BY <1>1, <1>4, <1>7, <2>1, <2>2, <2>3, WaitServed
  <2> QED
    BY <1>2, <2>1, <2>2, <2>4, ServerKeeps
<1>10. CASE /\ room' = [room EXCEPT !.waiting = NoTake, !.refused = k]
            /\ wire' = [wire EXCEPT !.down = Append(wire.down, refused)]
  <2>1. /\ wire' \in Nets /\ wire'.socket = wire.socket /\ wire'.pending = wire.pending
        /\ wire'.up = wire.up /\ wire'.down = Append(wire.down, refused)
    BY <1>1, <1>8, <1>10 DEF Nets
  <2>2. /\ room' \in Rooms /\ room'.take = NoTake /\ room'.refused = k /\ room'.waiting = NoTake
        /\ room'.ended = room.ended /\ room'.stored = room.stored
    BY <1>1, <1>4, <1>5, <1>10 DEF Rooms
  <2>3. wire'.down = Append(wire.down, [kind |-> "finished", take |-> k])
    BY <2>1 DEF refused
  <2>4. Wired(wire', room', stage, pipe)
    BY <1>1, <1>4, <1>7, <2>1, <2>2, <2>3, WaitServed
  <2> QED
    BY <1>2, <2>1, <2>2, <2>4, ServerKeeps
<1> QED
  BY <1>3, <1>9, <1>10

(* A finish and a packet at the server, and the other members of the room. *)

LEMMA ServeFinishKeeps ==
  ASSUME WireGood, ServeFinish
  PROVE  WireGood'
<1> DEFINE up == Tail(wire.up)
           answer(k) == [kind |-> "finished", take |-> k]
           down(k) == Append(wire.down, answer(k))
<1>1. /\ pipe \in Pipes /\ stage \in Stages /\ wire \in Nets /\ room \in Rooms
      /\ Wired(wire, room, stage, pipe)
  BY GoodTypes
<1>2. /\ room.waiting = NoTake /\ wire.up # <<>> /\ Finishes(Head(wire.up))
      /\ UNCHANGED <<singer, toDecoder, toSinger, pipe, stage>>
  BY DEF ServeFinish, Finishes
<1>3. /\ wire.up \in Seq(Sends) /\ wire.down \in Seq(News)
  BY <1>1 DEF Nets
<1>4. up \in Seq(Sends) /\ up = Tail(wire.up)
  BY <1>2, <1>3, Tailed
<1>5. NoTake \in Maybe /\ stage.gaveUp \subseteq stage.failed
  BY GaveUpFailed DEF Maybe
<1>6. ASSUME NEW k \in Takes PROVE answer(k) \in News /\ down(k) \in Seq(News)
  <2>1. answer(k) \in News
    BY DEF News
  <2> HIDE DEF answer
  <2>2. down(k) \in Seq(News)
    BY <1>3, <2>1
  <2> QED
    BY <2>1, <2>2
<1> HIDE DEF up
<1>7. CASE room.refused # NoTake
  <2> DEFINE k == room.refused
             d == down(k)
  <2>1. k \in Takes
    BY <1>1, <1>7 DEF Rooms, Maybe
  <2>2. room' = [room EXCEPT !.refused = NoTake] /\ wire' = [wire EXCEPT !.up = up, !.down = d]
    BY <1>7 DEF ServeFinish, Answer, up
  <2>3. d \in Seq(News)
    BY <1>6, <2>1
  <2>4. room.take = NoTake
    BY <1>1, <1>7 DEF Wired, Plugged
  <2>5. d = Append(wire.down, [kind |-> "finished", take |-> k])
    OBVIOUS
  <2> HIDE DEF d
  <2>6. /\ wire' \in Nets /\ wire'.socket = wire.socket /\ wire'.pending = wire.pending
        /\ wire'.up = up /\ wire'.down = d
    BY <1>1, <1>4, <2>2, <2>3 DEF Nets
  <2>7. /\ room' \in Rooms /\ room'.take = NoTake /\ room'.refused = NoTake /\ room'.waiting = NoTake
        /\ room'.ended = room.ended /\ room'.stored = room.stored
    BY <1>1, <1>2, <1>5, <2>2, <2>4 DEF Rooms
  <2>8. room.refused = k
    OBVIOUS
  <2> HIDE DEF k
  <2>9. Wired(wire', room', stage, pipe)
    BY <1>1, <1>2, <1>4, <1>5, <2>1, <2>5, <2>6, <2>7, <2>8, FinishServed
  <2> QED
    BY <1>2, <2>6, <2>7, <2>9, ServerKeeps
<1>8. CASE room.refused = NoTake /\ room.take # NoTake
  <2> DEFINE k == room.take
             d == down(k)
             ended == room.ended \cup {k}
  <2>1. k \in Takes /\ ended \in SUBSET Takes
    BY <1>1, <1>8 DEF Rooms, Maybe
  <2>2. /\ room' = [room EXCEPT !.take = NoTake, !.ended = ended]
        /\ wire' = [wire EXCEPT !.up = up, !.down = d]
    BY <1>8 DEF ServeFinish, Answer, up
  <2>3. d \in Seq(News)
    BY <1>6, <2>1
  <2>5. d = Append(wire.down, [kind |-> "finished", take |-> k])
    OBVIOUS
  <2> HIDE DEF d
  <2>6. /\ wire' \in Nets /\ wire'.socket = wire.socket /\ wire'.pending = wire.pending
        /\ wire'.up = up /\ wire'.down = d
    BY <1>1, <1>4, <2>2, <2>3 DEF Nets
  <2>8. room.take = k /\ ended = room.ended \cup {k}
    OBVIOUS
  <2> HIDE DEF k, ended
  <2>7. /\ room' \in Rooms /\ room'.take = NoTake /\ room'.refused = NoTake /\ room'.waiting = NoTake
        /\ room'.ended = ended /\ room'.stored = room.stored
    BY <1>1, <1>2, <1>5, <1>8, <2>1, <2>2 DEF Rooms
  <2>9. Wired(wire', room', stage, pipe)
    BY <1>1, <1>2, <1>4, <1>5, <1>8, <2>1, <2>5, <2>6, <2>7, <2>8, FinishServed
  <2> QED
    BY <1>2, <2>6, <2>7, <2>9, ServerKeeps
<1>9. CASE room.refused = NoTake /\ room.take = NoTake
  <2>1. room' = room /\ wire' = [wire EXCEPT !.up = up]
    BY <1>9 DEF ServeFinish, up
  <2>2. /\ wire' \in Nets /\ wire'.socket = wire.socket /\ wire'.pending = wire.pending
        /\ wire'.up = up /\ wire'.down = wire.down
    BY <1>1, <1>4, <2>1 DEF Nets
  <2>3. ~Held(room)
    BY <1>2, <1>9 DEF Held
  <2>4. Wired(wire', room, stage, pipe)
    BY <1>1, <1>2, <1>4, <2>2, <2>3, FinishIdle
  <2> QED
    BY <1>1, <1>2, <2>1, <2>2, <2>4, ServerKeeps
<1> QED
  BY <1>7, <1>8, <1>9

LEMMA ServePacketKeeps ==
  ASSUME WireGood, ServePacket
  PROVE  WireGood'
<1> DEFINE up == Tail(wire.up)
           packet == Head(wire.up)
           close == [kind |-> "close"]
           none == <<>>
<1>1. /\ pipe \in Pipes /\ stage \in Stages /\ wire \in Nets /\ room \in Rooms
      /\ Wired(wire, room, stage, pipe)
  BY GoodTypes
<1>2. /\ room.waiting = NoTake /\ wire.up # <<>> /\ IsPacket(packet)
      /\ UNCHANGED <<singer, toDecoder, toSinger, pipe, stage>>
  BY DEF ServePacket
<1>3. /\ wire.up \in Seq(Sends) /\ wire.down \in Seq(News)
  BY <1>1 DEF Nets
<1>4. up \in Seq(Sends) /\ up = Tail(wire.up) /\ packet \in Sends /\ packet = Head(wire.up)
  BY <1>2, <1>3, Tailed
<1>5. packet \in Packet
  BY <1>2, <1>4, SendFacts
<1>6. stage.gaveUp \subseteq stage.failed
  BY GaveUpFailed
<1>7. CASE room.refused # NoTake
  <2>1. room' = room /\ wire' = [wire EXCEPT !.up = up]
    BY <1>7 DEF ServePacket
  <2> HIDE DEF up, packet
  <2>2. /\ wire' \in Nets /\ wire'.socket = wire.socket /\ wire'.pending = wire.pending
        /\ wire'.up = up /\ wire'.down = wire.down
    BY <1>1, <1>4, <2>1 DEF Nets
  <2>3. Wired(wire', room, stage, pipe)
    BY <1>1, <1>2, <1>4, <1>7, <2>2, PacketPassed
  <2> QED
    BY <1>1, <1>2, <2>1, <2>2, <2>3, ServerKeeps
<1>8. CASE room.refused = NoTake /\ room.take # NoTake
  <2> DEFINE k == room.take
             more == Append(room.stored[k], packet)
             stored == [room.stored EXCEPT ![k] = more]
  <2>1. k \in Takes /\ room.stored[k] \in Seq(Packet)
    BY <1>1, <1>8 DEF Rooms, Maybe
  <2>2. room' = [room EXCEPT !.stored = stored] /\ wire' = [wire EXCEPT !.up = up]
    BY <1>8 DEF ServePacket
  <2>3. more \in Seq(Packet) /\ more = Append(room.stored[k], packet)
    <3> HIDE DEF packet, k
    <3> QED
      BY <1>5, <2>1
  <2> HIDE DEF up, packet, more
  <2>4. stored \in [Takes -> Seq(Packet)] /\ stored[k] = more /\ \A s \in Takes : s # k => stored[s] = room.stored[s]
    BY <1>1, <2>1, <2>3 DEF Rooms
  <2> HIDE DEF stored
  <2>5. /\ wire' \in Nets /\ wire'.socket = wire.socket /\ wire'.pending = wire.pending
        /\ wire'.up = up /\ wire'.down = wire.down
    BY <1>1, <1>4, <2>2 DEF Nets
  <2>6. /\ room' \in Rooms /\ room'.take = room.take /\ room'.refused = room.refused
        /\ room'.waiting = room.waiting /\ room'.ended = room.ended /\ room'.stored = stored
    BY <1>1, <2>2, <2>4 DEF Rooms
  <2>7. room.take = k
    OBVIOUS
  <2> HIDE DEF k
  <2>8. Wired(wire', room', stage, pipe)
    <3>1. /\ room'.stored[k] = Append(room.stored[k], Head(wire.up))
          /\ \A s \in Takes : s # k => room'.stored[s] = room.stored[s]
      BY <1>4, <2>3, <2>4, <2>6
    <3>2. /\ IsPacket(Head(wire.up)) /\ wire'.up = Tail(wire.up) /\ wire'.socket = wire.socket
          /\ wire'.pending = wire.pending /\ wire'.down = wire.down
      BY <1>2, <1>4, <2>5
    <3> QED
      BY <1>1, <1>2, <1>6, <2>1, <2>5, <2>6, <2>7, <3>1, <3>2, PacketStored
  <2> QED
    BY <1>2, <2>5, <2>6, <2>8, ServerKeeps
<1>9. CASE room.refused = NoTake /\ room.take = NoTake
  <2> DEFINE d == Append(wire.down, close)
  <2>1. room' = room /\ wire' = [wire EXCEPT !.up = none, !.down = d]
    BY <1>9 DEF ServePacket
  <2>2. d \in Seq(News) /\ none \in Seq(Sends) /\ none = <<>>
    <3>1. close \in News
      BY DEF News
    <3> HIDE DEF close
    <3> QED
      BY <1>3, <3>1
  <2>3. d = Append(wire.down, [kind |-> "close"])
    OBVIOUS
  <2> HIDE DEF d, none
  <2>4. /\ wire' \in Nets /\ wire'.socket = wire.socket /\ wire'.pending = wire.pending
        /\ wire'.up = none /\ wire'.down = d
    BY <1>1, <2>1, <2>2 DEF Nets
  <2>5. ~Held(room)
    BY <1>2, <1>9 DEF Held
  <2>6. Wired(wire', room, stage, pipe)
    BY <1>1, <1>2, <2>2, <2>3, <2>4, <2>5, PacketCloses
  <2> QED
    BY <1>1, <1>2, <2>1, <2>4, <2>6, ServerKeeps
<1> QED
  BY <1>7, <1>8, <1>9

\* What the other members of the room do is outside of the connection.
LEMMA OtherKeeps ==
  ASSUME WireGood, NEW other \in {"none", "edit", "take"}, room' = [room EXCEPT !.other = other],
         UNCHANGED <<singer, toDecoder, toSinger, pipe, stage, wire>>
  PROVE  WireGood'
<1>1. /\ pipe \in Pipes /\ stage \in Stages /\ wire \in Nets /\ room \in Rooms
      /\ Wired(wire, room, stage, pipe)
  BY GoodTypes
<1>2. /\ room' \in Rooms /\ room'.take = room.take /\ room'.refused = room.refused
      /\ room'.waiting = room.waiting /\ room'.ended = room.ended /\ room'.stored = room.stored
  BY <1>1 DEF Rooms
<1>3. Wired(wire, room', stage, pipe)
  BY <1>1, <1>2, SameSight
<1> QED
  BY <1>1, <1>2, <1>3, ServerKeeps

(* The finishing of a stream.                                              *)

\* A stream that waits was met, and what the main thread hears of it is not about
\* a take that it has begun since.
LEMMA WaitsMet ==
  ASSUME WireGood, NEW s \in Takes, stage.chain[s] \in Waits
  PROVE  s <= singer.take /\ (AnyStart(toDecoder) \/ (stage.stream # NoTake /\ stage.stream # s) => s # singer.take)
<1>1. /\ singer \in Singers /\ Led(toDecoder, toSinger, singer, stage, pipe)
      /\ Stands(wire, stage, pipe, toDecoder, singer)
  BY GoodTypes
<1>2. ~Unheard(toDecoder, singer, s)
  BY <1>1 DEF Stands, Fresh, Waits
<1>3. s <= singer.take
  BY <1>1, <1>2 DEF Unheard, Singers, Maybe, Takes, NoTake
<1>4. AnyStart(toDecoder) => s # singer.take
  BY <1>1, <1>2 DEF AnyStart, Unheard, Ordered, Led
<1>5. stage.stream # NoTake => stage.stream = singer.take
  BY <1>1 DEF Led
<1> QED
  BY <1>3, <1>4, <1>5

LEMMA SteppedOn ==
  ASSUME NEW st \in Stages, NEW s \in Takes, NEW v \in Steps
  PROVE  /\ ChainStepped(st, [st EXCEPT !["chain"][s] = v], s, v)
         /\ CleanupStepped(st, [st EXCEPT !["cleanup"][s] = v], s, v)
BY SteppedFacts

\* The main thread is told of a take that has not begun since.
NewsFit(orders, heard, sg, st2, heard2) ==
    \A i \in DOMAIN heard2 :
        \/ \E j \in DOMAIN heard : heard2[i] = heard[j]
        \/ heard2[i] <= sg.take /\ (AnyStart(orders) \/ st2.stream # NoTake => heard2[i] # sg.take)

SameOpen(st, st2) ==
    /\ st2.stream = st.stream \/ st2.stream = NoTake
    /\ st2.stream # NoTake => (st2.chain[st2.stream] = "none" <=> st.chain[st.stream] = "none")

LEMMA LedFits ==
  ASSUME NEW orders, NEW heard, NEW sg, NEW st, NEW pp, NEW heard2, NEW st2,
         Led(orders, heard, sg, st, pp), SameOpen(st, st2), NewsFit(orders, heard, sg, st2, heard2)
  PROVE  Led(orders, heard2, sg, st2, pp)
BY LedStage DEF SameOpen, NewsFit

LEMMA LedTold ==
  ASSUME NEW orders, NEW heard \in Seq(Takes), NEW sg, NEW st, NEW pp, NEW st2, NEW s \in Takes,
         NEW heard2, heard2 = Append(heard, s), Led(orders, heard, sg, st, pp),
         s <= sg.take, AnyStart(orders) \/ st2.stream # NoTake => s # sg.take,
         SameOpen(st, st2)
  PROVE  heard2 \in Seq(Takes) /\ Led(orders, heard2, sg, st2, pp)
<1>1. /\ heard2 \in Seq(Takes)
      /\ \A i \in DOMAIN heard2 : heard2[i] = s \/ \E j \in DOMAIN heard : heard2[i] = heard[j]
  BY Appended
<1>2. NewsFit(orders, heard, sg, st2, heard2)
  BY <1>1 DEF NewsFit
<1>3. Led(orders, heard2, sg, st2, pp)
  BY <1>2, LedFits
<1> QED
  BY <1>1, <1>3

\* The stream that is open ends: its finish is settled, or it was a draft.
Ending(s) ==
    /\ s = stage.stream /\ pipe[s].flushRead
    /\ stage.chain[s] = "finish" \/ (stage.chain[s] # "none" /\ stage.draft)
    /\ stage' = Cleared([stage EXCEPT !["chain"][s] = "done"])
    /\ toSinger' = Append(toSinger, s)
    /\ UNCHANGED <<singer, toDecoder, pipe, wire, room>>

LEMMA StreamEnds ==
  ASSUME WireGood, NEW s \in Takes, Ending(s)
  PROVE  WireGood'
<1> DEFINE d == [stage EXCEPT !["chain"][s] = "done"]
<1>1. /\ singer \in Singers /\ toDecoder \in Seq(Orders) /\ toSinger \in Seq(Takes)
      /\ pipe \in Pipes /\ stage \in Stages /\ wire \in Nets /\ room \in Rooms
      /\ Led(toDecoder, toSinger, singer, stage, pipe)
      /\ Stands(wire, stage, pipe, toDecoder, singer)
      /\ Wired(wire, room, stage, pipe)
  BY GoodTypes
<1>2. s # NoTake
  BY DEF Takes, NoTake
<1>3. /\ s = singer.take /\ ~Unheard(toDecoder, singer, s) /\ ~AnyStart(toDecoder)
      /\ \A t \in Takes : t # s => stage.cleanup[t] \notin {"ready", "start"}
      /\ stage.cleanup[s] = "none"
  BY <1>2, OpenStream DEF Staged, Ending
<1>4. /\ d \in Stages
      /\ d.stream = stage.stream /\ d.draft = stage.draft /\ d.session = stage.session
      /\ d.ready = stage.ready /\ d.started = stage.started /\ d.over = stage.over
      /\ d.closed = stage.closed /\ d.gaveUp = stage.gaveUp /\ d.failed = stage.failed
      /\ d.chain = [stage.chain EXCEPT ![s] = "done"] /\ d.cleanup = stage.cleanup
  <2>1. "done" \in Steps
    BY DEF Steps
  <2>2. ChainStepped(stage, d, s, "done")
    BY <1>1, <2>1, SteppedOn
  <2> HIDE DEF d
  <2> QED
    BY <2>2 DEF ChainStepped, SameStream
<1>5. stage' = Cleared(d) /\ stage.stream = s
  BY DEF Ending
<1> HIDE DEF d
<1>6. /\ stage' \in Stages /\ stage'.stream = NoTake /\ ~stage'.ready
      /\ stage'.closed = d.closed \cup ({d.stream} \ {NoTake})
      /\ stage'.started = d.started \ {d.stream} /\ stage'.over = d.over \ {d.stream}
      /\ stage'.draft = d.draft /\ stage'.session = d.session /\ stage'.gaveUp = d.gaveUp
      /\ stage'.failed = d.failed /\ stage'.chain = d.chain /\ stage'.cleanup = d.cleanup
  BY <1>4, <1>5, ClearedFacts
<1>7. /\ stage'.closed = stage.closed \cup {s} /\ stage'.started = stage.started \ {s}
      /\ stage'.over = stage.over \ {s} /\ stage'.session = stage.session
      /\ stage'.gaveUp = stage.gaveUp /\ stage'.failed = stage.failed
      /\ stage'.chain = [stage.chain EXCEPT ![s] = "done"] /\ stage'.cleanup = stage.cleanup
  <2>1. {s} \ {NoTake} = {s}
    BY <1>2
  <2>2. d.stream = s
    BY <1>4, <1>5
  <2> QED
    BY <1>4, <1>6, <2>1, <2>2
<1>9. toSinger' \in Seq(Takes) /\ Led(toDecoder, toSinger', singer, stage', pipe)
  <2>1. s <= singer.take
    BY <1>3 DEF Takes
  <2>2. SameOpen(stage, stage')
    BY <1>6 DEF SameOpen
  <2>3. AnyStart(toDecoder) \/ stage'.stream # NoTake => s # singer.take
    BY <1>3, <1>6
  <2>4. toSinger' = Append(toSinger, s)
    BY DEF Ending
  <2>5. toSinger \in Seq(Takes) /\ Led(toDecoder, toSinger, singer, stage, pipe)
    BY <1>1
  <2> QED
    BY <2>1, <2>2, <2>3, <2>4, <2>5, LedTold
<1>10. Stands(wire, stage', pipe, toDecoder, singer)
  <2>1. stage.chain[s] # "none" /\ pipe[s].flushRead
    BY DEF Ending
  <2> QED
    <3>1. /\ stage \in Stages /\ Stands(wire, stage, pipe, toDecoder, singer) /\ stage.stream = s
          /\ ~Unheard(toDecoder, singer, s) /\ stage'.stream = NoTake
      BY <1>1, <1>3, <1>5, <1>6
    <3> QED
      BY <1>7, <2>1, <3>1, StandsClosed
<1>11. \A t \in Takes : ~Sung(stage, t)
  BY DEF Sung, Finishing, Ending
<1>12. NoSong(stage') /\ ~Owes(stage)
  <2>1. NoTake \notin Takes
    BY DEF NoTake, Takes
  <2>2. \A t \in Takes : stage.cleanup[t] \notin {"ready", "start"}
    BY <1>3
  <2> QED
    BY <1>6, <1>11, <2>1, <2>2 DEF NoSong, Sung, Owes
<1>13. \A t \in Takes : stage.chain[t] \in Finishing => stage'.chain[t] \in Finishing
  BY <1>1, <1>7 DEF Finishing, Stages
<1>14. Wired(wire, room, stage', pipe)
  <2>1. /\ wire \in Nets /\ room \in Rooms /\ stage \in Stages /\ pipe \in Pipes
        /\ Wired(wire, room, stage, pipe) /\ stage' \in Stages /\ ~stage'.ready
        /\ stage.failed \subseteq stage'.failed /\ stage.gaveUp \subseteq stage'.gaveUp
        /\ stage'.session = stage.session
    BY <1>1, <1>6, <1>7
  <2> QED
    BY <1>11, <1>12, <1>13, <2>1, Settled
<1> QED
  BY <1>1, <1>6, <1>9, <1>10, <1>14, NextGood DEF Ending

\* The wait for the start is over: the finish is sent, unless the socket is gone.
StillFinishing(st, st2) ==
    \A t \in Takes : st.chain[t] \in Finishing => st2.chain[t] \in Finishing

AllRead(st, st2, pp) ==
    \A t \in Takes : Sung(st, t) =>
        st.ready /\ t \in st.started /\ st2.chain[t] \in Finishing /\ pp[t].read = pp[t].posted

FinishUp(w, ready, w2) ==
    /\ w2.socket = "open" /\ w2.down = w.down
    /\ ready => w2.up = Append(w.up \o w.pending, TheFinish) /\ w2.pending = <<>>
    /\ ~ready => w2.up = Append(w.up, TheFinish) /\ w2.pending = w.pending

LEMMA FinishOver ==
  ASSUME NEW w \in Nets, NEW r \in Rooms, NEW st \in Stages, NEW pp \in Pipes,
         NEW w2 \in Nets, NEW st2 \in Stages,
         Wired(w, r, st, pp), w.socket = "open", FinishUp(w, st.ready, w2),
         st2.session = st.session, st2.gaveUp = st.gaveUp, st2.failed = st.failed,
         st.gaveUp \subseteq st.failed, NoSong(st2), StillFinishing(st, st2), AllRead(st, st2, pp)
  PROVE  Wired(w2, r, st2, pp)
BY FinishGoes DEF StillFinishing, AllRead, FinishUp

LEMMA FinishSent ==
  ASSUME WireGood, NEW st2 \in Stages, NEW w2, wire.socket # "connecting",
         w2 = SendJson(Flushed(wire, stage.ready), stage.ready, TheFinish),
         st2.session = stage.session, st2.gaveUp = stage.gaveUp, st2.failed = stage.failed,
         NoSong(st2),
         StillFinishing(stage, st2),
         \A t \in Takes : Sung(stage, t) =>
            t \in stage.started /\ st2.chain[t] \in Finishing /\ pipe[t].flushRead
  PROVE  w2 \in Nets /\ w2.socket = wire.socket /\ Wired(w2, room, st2, pipe)
<1>1. /\ pipe \in Pipes /\ stage \in Stages /\ wire \in Nets /\ room \in Rooms
      /\ Stands(wire, stage, pipe, toDecoder, singer)
      /\ Wired(wire, room, stage, pipe)
  BY GoodTypes
<1>2. /\ stage.ready \in BOOLEAN /\ wire.socket = "open" => Plain(wire.pending)
      /\ wire.socket \in {"open", "gone"}
  BY <1>1 DEF Stages, Wired, Plugged, Nets
<1>3. /\ w2 \in Nets /\ w2.socket = wire.socket /\ w2.down = wire.down
      /\ wire.socket = "gone" => w2 = wire
      /\ wire.socket = "open" /\ stage.ready =>
           w2.up = Append(wire.up \o wire.pending, TheFinish) /\ w2.pending = <<>>
      /\ wire.socket = "open" /\ ~stage.ready =>
           w2.up = Append(wire.up, TheFinish) /\ w2.pending = wire.pending
  <2>1. stage.ready \in BOOLEAN
    BY <1>1 DEF Stages
  <2>2. wire.socket = "open" => Plain(wire.pending)
    BY <1>1 DEF Wired, Plugged
  <2> QED
    BY <1>1, <2>1, <2>2, FinishSentFacts, ZenonT(60)
<1>4. \A t \in Takes : Sung(stage, t) =>
        /\ stage.ready /\ t \in stage.started /\ st2.chain[t] \in Finishing
        /\ pipe[t].read = pipe[t].posted /\ wire.socket # "gone"
  <2> SUFFICES ASSUME NEW t \in Takes, Sung(stage, t)
               PROVE  stage.ready /\ pipe[t].read = pipe[t].posted /\ wire.socket # "gone"
    OBVIOUS
  <2>1. Phase(wire, room, stage, t)
    BY <1>1 DEF Wired
  <2>2. Piped(singer, pipe, t) /\ Staged(wire, stage, pipe, t)
    BY <1>1 DEF Stands
  <2>3. stage.ready
    BY <2>1 DEF Phase
  <2>4. pipe[t].read = pipe[t].posted
    BY <2>2 DEF Piped
  <2>5. wire.socket # "gone"
    BY <2>2 DEF Staged, Sung
  <2> QED
    BY <2>3, <2>4, <2>5
<1>7. AllRead(stage, st2, pipe)
  BY <1>4 DEF AllRead
<1>5. CASE wire.socket = "open"
  <2>1. stage.gaveUp \subseteq stage.failed
    BY GaveUpFailed
  <2> QED
    <3>1. /\ wire \in Nets /\ room \in Rooms /\ stage \in Stages /\ pipe \in Pipes
          /\ Wired(wire, room, stage, pipe) /\ w2 \in Nets
      BY <1>1, <1>3
    <3>2. FinishUp(wire, stage.ready, w2)
      BY <1>3, <1>5 DEF FinishUp
    <3>3. Wired(w2, room, st2, pipe)
      BY <1>5, <1>7, <2>1, <3>1, <3>2, FinishOver
    <3> QED
      BY <1>3, <3>3
<1>6. CASE wire.socket = "gone"
  <2>1. w2 = wire /\ \A t \in Takes : ~Sung(stage, t)
    BY <1>3, <1>4, <1>6
  <2>2. Wired(wire, room, st2, pipe)
    BY <1>1, <1>6, <2>1, Settled DEF StillFinishing
  <2> QED
    BY <1>3, <2>1, <2>2
<1> QED
  BY <1>2, <1>5, <1>6

(* The continuations of the decoder.                                       *)

\* A stream whose wait is over goes on to the next one.
GoesOn(s, v) ==
    /\ ChainStepped(stage, stage', s, v) /\ wire' \in Nets /\ wire'.socket = wire.socket
    /\ Wired(wire', room, stage', pipe)
    /\ UNCHANGED <<singer, toDecoder, pipe, room>>

LEMMA ChainGoesOn ==
  ASSUME WireGood, NEW s \in Takes, stage.chain[s] \in Waits,
         NEW v \in {"ready", "start", "finish"}, GoesOn(s, v), UNCHANGED toSinger,
         v \in {"start", "finish"} /\ s = stage.stream => wire.socket # "connecting",
         s = stage.stream => pipe[s].flushRead,
         v \in {"ready", "start"} => stage.chain[s] \in {"flush", "ready", "start"}
  PROVE  WireGood'
<1>1. /\ singer \in Singers /\ toDecoder \in Seq(Orders) /\ toSinger \in Seq(Takes)
      /\ pipe \in Pipes /\ stage \in Stages /\ wire \in Nets /\ room \in Rooms
      /\ Led(toDecoder, toSinger, singer, stage, pipe)
      /\ Stands(wire, stage, pipe, toDecoder, singer)
  BY GoodTypes
<1>2. /\ stage' \in Stages /\ wire' \in Nets /\ wire'.socket = wire.socket
      /\ Wired(wire', room, stage', pipe)
      /\ stage'.stream = stage.stream /\ stage'.draft = stage.draft
      /\ stage'.session = stage.session /\ stage'.closed = stage.closed
      /\ stage'.failed = stage.failed /\ stage'.gaveUp = stage.gaveUp
      /\ stage'.started = stage.started /\ stage'.over = stage.over
      /\ stage'.cleanup = stage.cleanup /\ stage'.chain = [stage.chain EXCEPT ![s] = v]
      /\ UNCHANGED <<singer, toDecoder, pipe, room>>
  BY DEF GoesOn, ChainStepped, SameStream
<1>3. \A t \in Takes : stage'.chain[t] = IF t = s THEN v ELSE stage.chain[t]
  BY <1>1, <1>2 DEF Stages
<1>4. SameOpen(stage, stage')
  <2>1. stage.stream # NoTake => stage.stream \in Takes
    BY <1>1 DEF Stages, Maybe
  <2> QED
    BY <1>2, <1>3, <2>1 DEF SameOpen, Waits
<1>5. Led(toDecoder, toSinger, singer, stage', pipe)
  <2>1. NewsFit(toDecoder, toSinger, singer, stage', toSinger)
    BY DEF NewsFit
  <2> QED
    BY <1>1, <1>4, <2>1, LedFits
<1>6. Stands(wire', stage', pipe, toDecoder, singer)
  <2>1. s = stage.stream => v # "done" /\ pipe[s].flushRead
    OBVIOUS
  <2> QED
    BY <1>1, <1>2, <2>1, StandsStep, ZenonT(60)
<1> QED
  BY <1>1, <1>2, <1>5, <1>6, NextGood

\* The finish of a stream that is closed is settled, or it was a draft.
LEMMA ChainDone ==
  ASSUME WireGood, NEW s \in Takes, s # stage.stream,
         stage.chain[s] = "finish" \/ stage.chain[s] = "flush",
         ChainStepped(stage, stage', s, "done"), toSinger' = Append(toSinger, s),
         UNCHANGED <<singer, toDecoder, pipe, wire, room>>
  PROVE  WireGood'
<1>1. /\ singer \in Singers /\ toDecoder \in Seq(Orders) /\ toSinger \in Seq(Takes)
      /\ pipe \in Pipes /\ stage \in Stages /\ wire \in Nets /\ room \in Rooms
      /\ Led(toDecoder, toSinger, singer, stage, pipe)
      /\ Stands(wire, stage, pipe, toDecoder, singer)
      /\ Wired(wire, room, stage, pipe)
  BY GoodTypes
<1>2. /\ stage' \in Stages
      /\ stage'.stream = stage.stream /\ stage'.draft = stage.draft
      /\ stage'.session = stage.session /\ stage'.closed = stage.closed
      /\ stage'.failed = stage.failed /\ stage'.gaveUp = stage.gaveUp
      /\ stage'.started = stage.started /\ stage'.over = stage.over
      /\ stage'.ready = stage.ready
      /\ stage'.cleanup = stage.cleanup /\ stage'.chain = [stage.chain EXCEPT ![s] = "done"]
  BY DEF ChainStepped, SameStream
<1>3. \A t \in Takes : stage'.chain[t] = IF t = s THEN "done" ELSE stage.chain[t]
  BY <1>1, <1>2 DEF Stages
<1>4. SameOpen(stage, stage')
  <2>1. stage.stream # NoTake => stage.stream \in Takes
    BY <1>1 DEF Stages, Maybe
  <2> QED
    BY <1>2, <1>3, <2>1 DEF SameOpen
<1>5. stage.chain[s] \in Waits
  BY DEF Waits
<1>6. s <= singer.take /\ (AnyStart(toDecoder) \/ stage'.stream # NoTake => s # singer.take)
  BY <1>2, <1>5, WaitsMet
<1>7. toSinger' \in Seq(Takes) /\ Led(toDecoder, toSinger', singer, stage', pipe)
  BY <1>1, <1>4, <1>6, LedTold
<1>8. Stands(wire, stage', pipe, toDecoder, singer)
  BY <1>1, <1>2, <1>5, StandsStep
<1>9. Wired(wire, room, stage', pipe)
  <2>1. CASE stage.chain[s] = "finish"
    <3>1. \A t \in Takes : stage'.chain[t] \in Finishing <=> stage.chain[t] \in Finishing
      BY <1>3, <2>1 DEF Finishing
    <3> QED
      BY <1>1, <1>2, <3>1, SameSight
  <2>2. CASE stage.chain[s] = "flush"
    <3>1. stage.stream = NoTake
      BY <1>1, <2>2 DEF Stands, Staged
    <3>2. NoTake \notin Takes
      BY DEF NoTake, Takes
    <3>3. /\ \A t \in Takes : ~Sung(stage, t)
          /\ NoSong(stage')
      BY <1>2, <3>1, <3>2 DEF Sung, NoSong
    <3>4. Owes(stage) => Owes(stage')
      BY <1>2, <3>3 DEF Owes
    <3>5. wire.socket = "connecting" => ~stage'.ready
      BY <1>1, <1>2 DEF Wired, Plugged
    <3>6. \A t \in Takes : stage.chain[t] \in Finishing => stage'.chain[t] \in Finishing
      BY <1>3 DEF Finishing
    <3> QED
      BY <1>1, <1>2, <3>3, <3>4, <3>5, <3>6, Settled
  <2> QED
    BY <2>1, <2>2
<1> QED
  BY <1>1, <1>2, <1>7, <1>8, <1>9, NextGood

LEMMA ContinueChainKeeps ==
  ASSUME WireGood, NEW s \in Takes, Continue(s, "chain")
  PROVE  WireGood'
<1> DEFINE step(next) == [stage EXCEPT !["chain"][s] = next]
<1>1. /\ singer \in Singers /\ stage \in Stages /\ wire \in Nets /\ room \in Rooms /\ pipe \in Pipes
      /\ Stands(wire, stage, pipe, toDecoder, singer)
      /\ Wired(wire, room, stage, pipe)
  BY GoodTypes
<1>2. /\ Resolved(s, stage.chain[s])
      /\ \/ /\ stage.chain[s] = "flush" /\ ~stage.draft
            /\ stage' = step("ready") /\ UNCHANGED <<wire, toSinger>>
         \/ /\ stage.chain[s] = "ready"
            /\ stage' = step("start") /\ UNCHANGED <<wire, toSinger>>
         \/ /\ stage.chain[s] = "start"
            /\ stage' = step("finish")
            /\ wire' = SendJson(Flushed(wire, stage.ready), stage.ready, TheFinish)
            /\ UNCHANGED toSinger
         \/ /\ stage.chain[s] = "finish" \/ (stage.chain[s] = "flush" /\ stage.draft)
            /\ stage' = IF stage.stream = s THEN Cleared(step("done")) ELSE step("done")
            /\ toSinger' = Append(toSinger, s) /\ UNCHANGED wire
      /\ UNCHANGED <<singer, toDecoder, pipe, room>>
  BY DEF Continue, TheFinish
<1>3. Staged(wire, stage, pipe, s)
  BY <1>1 DEF Stands
<1>4. \A v \in Steps : stage' = step(v) => ChainStepped(stage, stage', s, v)
  BY <1>1, SteppedOn
<1> HIDE DEF step
<1>5. /\ stage.chain[s] = "flush" => pipe[s].flushRead \/ s \in stage.closed
      /\ stage.chain[s] = "ready" => wire.socket # "connecting"
      /\ stage.chain[s] = "start" => s \in stage.started \/ s \in stage.closed
  BY <1>2 DEF Resolved
<1>6. s = stage.stream => s \notin stage.closed /\ s \notin stage.failed
  BY <1>3 DEF Staged
<1>7. s = stage.stream /\ stage.chain[s] \in Waits => pipe[s].flushRead
  BY <1>3, <1>5, <1>6 DEF Staged, Waits
<1>8. \A v \in {"ready", "start", "finish", "done"} : v \in Steps
  BY DEF Steps, Waits
<1>9. CASE \/ stage.chain[s] = "flush" /\ stage' = step("ready") /\ UNCHANGED <<wire, toSinger>>
           \/ stage.chain[s] = "ready" /\ stage' = step("start") /\ UNCHANGED <<wire, toSinger>>
  <2>1. PICK v \in {"ready", "start"} : ChainStepped(stage, stage', s, v) /\ (v = "start" => stage.chain[s] = "ready")
    BY <1>4, <1>8, <1>9
  <2>2. stage.chain[s] \in {"flush", "ready"} /\ stage.chain[s] \in Waits /\ wire' = wire /\ toSinger' = toSinger
    BY <1>9 DEF Waits
  <2>3. /\ stage' \in Stages
        /\ stage'.stream = stage.stream /\ stage'.draft = stage.draft
        /\ stage'.session = stage.session /\ stage'.ready = stage.ready
        /\ stage'.failed = stage.failed /\ stage'.gaveUp = stage.gaveUp
        /\ stage'.started = stage.started /\ stage'.over = stage.over
        /\ stage'.cleanup = stage.cleanup /\ stage'.chain = [stage.chain EXCEPT ![s] = v]
    BY <2>1 DEF ChainStepped, SameStream
  <2>4. \A t \in Takes : stage'.chain[t] \in Finishing <=> stage.chain[t] \in Finishing
    BY <1>1, <2>2, <2>3 DEF Finishing, Stages
  <2>5. Wired(wire, room, stage', pipe)
    BY <1>1, <2>3, <2>4, SameSight
  <2>6. GoesOn(s, v)
    BY <1>1, <1>2, <2>1, <2>2, <2>5 DEF GoesOn
  <2>7. v \in {"start", "finish"} /\ s = stage.stream => wire.socket # "connecting"
    BY <1>5, <2>1
  <2> QED
    BY <1>7, <2>1, <2>2, <2>6, <2>7, ChainGoesOn
<1>10. CASE /\ stage.chain[s] = "start" /\ stage' = step("finish")
            /\ wire' = SendJson(Flushed(wire, stage.ready), stage.ready, TheFinish)
            /\ UNCHANGED toSinger
  <2>1. ChainStepped(stage, stage', s, "finish") /\ stage.chain[s] \in Waits
    BY <1>4, <1>8, <1>10 DEF Waits
  <2>2. /\ stage' \in Stages
        /\ stage'.stream = stage.stream /\ stage'.draft = stage.draft
        /\ stage'.session = stage.session
        /\ stage'.failed = stage.failed /\ stage'.gaveUp = stage.gaveUp
        /\ stage'.chain = [stage.chain EXCEPT ![s] = "finish"]
    BY <2>1 DEF ChainStepped, SameStream
  <2>3. \A t \in Takes : stage'.chain[t] = IF t = s THEN "finish" ELSE stage.chain[t]
    BY <1>1, <2>2 DEF Stages
  <2>4. wire.socket # "connecting" /\ (s # stage.stream => stage.stream = NoTake)
    BY <1>3, <1>10 DEF Staged
  <2>5. StillFinishing(stage, stage')
    BY <2>3 DEF StillFinishing, Finishing
  <2>6. \A t \in Takes : Sung(stage, t) => t = s
    <3>1. NoTake \notin Takes
      BY DEF NoTake, Takes
    <3> QED
      BY <2>4, <3>1 DEF Sung
  <2>7. NoSong(stage')
    <3>1. \A t \in Takes : Sung(stage', t) => Sung(stage, t)
      BY <2>2, <2>3 DEF Sung, Finishing
    <3> QED
      BY <2>3, <2>6, <3>1 DEF NoSong, Sung, Finishing
  <2>8. \A t \in Takes : Sung(stage, t) =>
            t \in stage.started /\ stage'.chain[t] \in Finishing /\ pipe[t].flushRead
    <3>1. Sung(stage, s) => s = stage.stream
      BY DEF Sung
    <3> QED
      BY <1>5, <1>6, <1>7, <1>10, <2>1, <2>3, <2>6, <3>1 DEF Finishing
  <2>9. wire' \in Nets /\ wire'.socket = wire.socket /\ Wired(wire', room, stage', pipe)
    BY <1>10, <2>2, <2>4, <2>5, <2>7, <2>8, FinishSent
  <2>10. GoesOn(s, "finish")
    BY <1>2, <2>1, <2>9 DEF GoesOn
  <2> QED
    BY <1>7, <1>10, <2>1, <2>4, <2>10, ChainGoesOn
<1>11. CASE /\ stage.chain[s] = "finish" \/ (stage.chain[s] = "flush" /\ stage.draft)
            /\ stage' = (IF stage.stream = s THEN Cleared(step("done")) ELSE step("done"))
            /\ toSinger' = Append(toSinger, s) /\ UNCHANGED wire
  <2>1. CASE s = stage.stream
    <3>1. pipe[s].flushRead
      BY <1>7, <1>11, <2>1 DEF Waits
    <3>2. stage' = Cleared([stage EXCEPT !["chain"][s] = "done"])
      BY <1>11, <2>1 DEF step
    <3>3. Ending(s)
      BY <1>2, <1>11, <2>1, <3>1, <3>2 DEF Ending
    <3> QED
      BY <3>3, StreamEnds
  <2>2. CASE s # stage.stream
    <3>1. ChainStepped(stage, stage', s, "done")
      BY <1>4, <1>8, <1>11, <2>2
    <3> QED
      BY <1>2, <1>11, <2>2, <3>1, ChainDone
  <2> QED
    BY <2>1, <2>2
<1> QED
  BY <1>2, <1>9, <1>10, <1>11

(* What is done behind the scenes, and the time limits.                    *)

\* The cleaning up of a stream goes on to the next wait.
LEMMA CleanupGoesOn ==
  ASSUME WireGood, NEW s \in Takes, stage.cleanup[s] \in Waits,
         NEW v \in {"start", "finish", "done"}, v = "start" => stage.cleanup[s] = "ready",
         CleanupStepped(stage, stage', s, v), wire' \in Nets, wire'.socket = wire.socket,
         Wired(wire', room, stage', pipe),
         UNCHANGED <<singer, toDecoder, toSinger, pipe, room>>
  PROVE  WireGood'
<1>1. /\ singer \in Singers /\ toDecoder \in Seq(Orders) /\ toSinger \in Seq(Takes)
      /\ pipe \in Pipes /\ stage \in Stages /\ wire \in Nets /\ room \in Rooms
      /\ Led(toDecoder, toSinger, singer, stage, pipe)
      /\ Stands(wire, stage, pipe, toDecoder, singer)
  BY GoodTypes
<1>2. /\ stage' \in Stages
      /\ stage'.stream = stage.stream /\ stage'.draft = stage.draft
      /\ stage'.session = stage.session /\ stage'.closed = stage.closed
      /\ stage'.failed = stage.failed /\ stage'.gaveUp = stage.gaveUp
      /\ stage'.started = stage.started /\ stage'.over = stage.over
      /\ stage'.chain = stage.chain /\ stage'.cleanup = [stage.cleanup EXCEPT ![s] = v]
  BY DEF CleanupStepped, SameStream
<1>3. Led(toDecoder, toSinger, singer, stage', pipe)
  <2>1. NewsFit(toDecoder, toSinger, singer, stage', toSinger)
    BY DEF NewsFit
  <2>2. SameOpen(stage, stage')
    BY <1>2 DEF SameOpen
  <2> QED
    BY <1>1, <2>1, <2>2, LedFits
<1>4. Stands(wire', stage', pipe, toDecoder, singer)
  BY <1>1, <1>2, StandsCleanup
<1> QED
  BY <1>1, <1>2, <1>3, <1>4, NextGood

LEMMA ContinueCleanupKeeps ==
  ASSUME WireGood, NEW s \in Takes, Continue(s, "cleanup")
  PROVE  WireGood'
<1> DEFINE step(next) == [stage EXCEPT !["cleanup"][s] = next]
<1>1. /\ singer \in Singers /\ stage \in Stages /\ wire \in Nets /\ room \in Rooms /\ pipe \in Pipes
      /\ Stands(wire, stage, pipe, toDecoder, singer)
      /\ Wired(wire, room, stage, pipe)
  BY GoodTypes
<1>2. /\ \/ /\ stage.cleanup[s] = "flush" /\ ~stage.draft
            /\ stage' = step("ready") /\ UNCHANGED <<wire, toSinger>>
         \/ /\ stage.cleanup[s] = "ready"
            /\ stage' = step("start") /\ UNCHANGED <<wire, toSinger>>
         \/ /\ stage.cleanup[s] = "start"
            /\ stage' = step("finish")
            /\ wire' = SendJson(Flushed(wire, stage.ready), stage.ready, TheFinish)
            /\ UNCHANGED toSinger
         \/ /\ stage.cleanup[s] = "finish" \/ (stage.cleanup[s] = "flush" /\ stage.draft)
            /\ stage' = step("done") /\ UNCHANGED <<wire, toSinger>>
      /\ UNCHANGED <<singer, toDecoder, pipe, room>>
  BY DEF Continue, TheFinish
<1>3. Staged(wire, stage, pipe, s)
  BY <1>1 DEF Stands
<1>4. \A v \in Steps : stage' = step(v) => CleanupStepped(stage, stage', s, v)
  BY <1>1, SteppedOn
<1> HIDE DEF step
<1>5. stage.cleanup[s] # "flush"
  BY <1>3 DEF Staged
<1>6. \A v \in {"start", "finish", "done"} : v \in Steps
  BY DEF Steps, Waits
<1>7. CASE \/ stage.cleanup[s] = "ready" /\ stage' = step("start") /\ UNCHANGED <<wire, toSinger>>
           \/ stage.cleanup[s] = "finish" /\ stage' = step("done") /\ UNCHANGED <<wire, toSinger>>
  <2>1. PICK v \in {"start", "done"} :
          /\ CleanupStepped(stage, stage', s, v)
          /\ stage.cleanup[s] = (IF v = "start" THEN "ready" ELSE "finish")
    BY <1>4, <1>6, <1>7
  <2>2. stage.cleanup[s] \in Waits /\ wire' = wire /\ toSinger' = toSinger
    BY <1>7 DEF Waits
  <2>3. /\ stage' \in Stages
        /\ stage'.stream = stage.stream /\ stage'.draft = stage.draft
        /\ stage'.session = stage.session /\ stage'.ready = stage.ready
        /\ stage'.failed = stage.failed /\ stage'.gaveUp = stage.gaveUp
        /\ stage'.started = stage.started /\ stage'.over = stage.over
        /\ stage'.chain = stage.chain /\ stage'.cleanup = [stage.cleanup EXCEPT ![s] = v]
    BY <2>1 DEF CleanupStepped, SameStream
  <2>4. \A t \in Takes : stage'.cleanup[t] \in {"ready", "start"} <=> stage.cleanup[t] \in {"ready", "start"}
    BY <1>1, <2>1, <2>3 DEF Stages
  <2>5. Wired(wire, room, stage', pipe)
    BY <1>1, <2>3, <2>4, SameSight, ZenonT(60)
  <2> QED
    BY <1>1, <1>2, <2>1, <2>2, <2>5, CleanupGoesOn
<1>8. CASE /\ stage.cleanup[s] = "start" /\ stage' = step("finish")
           /\ wire' = SendJson(Flushed(wire, stage.ready), stage.ready, TheFinish)
           /\ UNCHANGED toSinger
  <2>1. CleanupStepped(stage, stage', s, "finish") /\ stage.cleanup[s] \in Waits
    BY <1>4, <1>6, <1>8 DEF Waits
  <2>2. /\ stage' \in Stages
        /\ stage'.stream = stage.stream /\ stage'.draft = stage.draft
        /\ stage'.session = stage.session
        /\ stage'.failed = stage.failed /\ stage'.gaveUp = stage.gaveUp
        /\ stage'.chain = stage.chain
    BY <2>1 DEF CleanupStepped, SameStream
  <2>3. s # stage.stream /\ wire.socket # "connecting" /\ stage.stream = NoTake
    BY <1>3, <1>8 DEF Staged
  <2>4. StillFinishing(stage, stage')
    BY <2>2 DEF StillFinishing
  <2>5. \A t \in Takes : ~Sung(stage, t) /\ ~Sung(stage', t)
    <3>1. NoTake \notin Takes
      BY DEF NoTake, Takes
    <3> QED
      BY <2>2, <2>3, <3>1 DEF Sung
  <2>6. NoSong(stage')
    BY <2>5 DEF NoSong
  <2>7. \A t \in Takes : Sung(stage, t) =>
            t \in stage.started /\ stage'.chain[t] \in Finishing /\ pipe[t].flushRead
    BY <2>5
  <2>8. wire' \in Nets /\ wire'.socket = wire.socket /\ Wired(wire', room, stage', pipe)
    BY <1>8, <2>2, <2>3, <2>4, <2>6, <2>7, FinishSent
  <2> QED
    BY <1>2, <1>8, <2>1, <2>8, CleanupGoesOn
<1> QED
  BY <1>2, <1>5, <1>7, <1>8

\* The opening of the stream or its start is not confirmed in time, or the socket
\* is lost: the stream is interrupted.
Breaking(k) ==
    /\ stage.stream = k
    /\ stage' \in Stages /\ stage'.stream = NoTake /\ ~stage'.ready
    /\ stage'.session = stage.session
    /\ stage'.closed = stage.closed \cup {k} /\ stage'.failed = stage.failed \cup {k}
    /\ stage'.started = stage.started \ {k} /\ stage'.over = stage.over \ {k}
    /\ \A s \in Takes : stage'.cleanup[s] = IF s = k THEN "ready" ELSE stage.cleanup[s]
    /\ \A s \in Takes : s # k => stage'.chain[s] = stage.chain[s]
    /\ stage'.chain[k] = stage.chain[k] \/ (stage'.chain[k] = "done" /\ stage.chain[k] # "none")
    /\ stage.gaveUp \subseteq stage'.gaveUp
    /\ \A s \in Takes : s \in stage'.gaveUp => s \in stage.gaveUp \/ s = k
    /\ UNCHANGED <<singer, toDecoder, pipe>>

LEMMA BrokenStands ==
  ASSUME WireGood, NEW k \in Takes, Breaking(k), wire'.socket # "connecting"
  PROVE  Stands(wire', stage', pipe, toDecoder, singer)
<1>1. stage \in Stages /\ Stands(wire, stage, pipe, toDecoder, singer)
  BY GoodTypes
<1>2. ~Unheard(toDecoder, singer, k) /\ stage.stream = k
  <2>1. k # NoTake
    BY DEF Takes, NoTake
  <2> QED
    BY <2>1, OpenStream DEF Breaking
<1>3. /\ stage'.stream = NoTake /\ stage'.session = stage.session
      /\ stage'.closed = stage.closed \cup {k} /\ stage'.failed = stage.failed \cup {k}
      /\ stage'.started = stage.started \ {k} /\ stage'.over = stage.over \ {k}
      /\ \A s \in Takes : stage'.cleanup[s] = IF s = k THEN "ready" ELSE stage.cleanup[s]
      /\ \A s \in Takes : s # k => stage'.chain[s] = stage.chain[s]
      /\ stage'.chain[k] = stage.chain[k] \/ (stage'.chain[k] = "done" /\ stage.chain[k] # "none")
      /\ \A s \in Takes : s \in stage'.gaveUp => s \in stage.gaveUp \/ s = k
  BY DEF Breaking
<1> QED
  BY <1>1, <1>2, <1>3, StandsBroken

LEMMA TimeOutKeeps ==
  ASSUME WireGood, NEW s \in Takes, NEW kind \in {"chain", "cleanup"}, TimeOut(s, kind), ~stage'.rushed
  PROVE  WireGood'
<1> DEFINE w == stage[kind][s]
<1>1. /\ singer \in Singers /\ toDecoder \in Seq(Orders) /\ toSinger \in Seq(Takes)
      /\ pipe \in Pipes /\ stage \in Stages /\ wire \in Nets /\ room \in Rooms
      /\ Led(toDecoder, toSinger, singer, stage, pipe)
      /\ Stands(wire, stage, pipe, toDecoder, singer)
      /\ Wired(wire, room, stage, pipe)
  BY GoodTypes
<1>2. Staged(wire, stage, pipe, s)
  BY <1>1 DEF Stands
<1>3. ~DecoderBusy /\ UNCHANGED <<singer, toDecoder, pipe, wire, room>>
  BY DEF TimeOut
<1>4. Idle(stage)
  BY <1>3, QuietDecoder
<1>5. CASE w = "ready"
  <2>1. stage' = [stage EXCEPT ![kind][s] = "start", !.rushed = TRUE]
    BY <1>5 DEF TimeOut
  <2>2. stage'.rushed
    BY <1>1, <2>1 DEF Stages
  <2> QED
    BY <2>2
<1>6. CASE w \in {"start", "finish"} /\ kind = "cleanup"
  <2>1. stage.cleanup[s] = "finish"
    BY <1>6 DEF TimeOut
  <2> QED
    BY <1>2, <1>4, <2>1 DEF Idle, Waits, Staged
<1>7. CASE w = "finish" /\ kind = "chain"
  <2>1. /\ stage.chain[s] = "finish" /\ toSinger' = Append(toSinger, s)
        /\ stage' = IF stage.stream = s THEN Cleared([stage EXCEPT !["chain"][s] = "done"])
                                        ELSE [stage EXCEPT !["chain"][s] = "done"]
    BY <1>7 DEF TimeOut
  <2>2. s = stage.stream
    BY <1>4, <2>1 DEF Idle, Waits
  <2>3. pipe[s].flushRead
    BY <1>2, <2>1, <2>2 DEF Staged
  <2>4. Ending(s)
    BY <1>3, <2>1, <2>2, <2>3 DEF Ending
  <2> QED
    BY <2>4, StreamEnds
<1>8. CASE w = "start" /\ kind = "chain"
  <2> DEFINE d == [stage EXCEPT !["chain"][s] = "done"]
             c == Interrupted(d)
             gaveUp == stage.gaveUp \cup {s}
  <2>1. /\ stage.chain[s] = "start" /\ toSinger' = Append(toSinger, s)
        /\ stage' = [c EXCEPT !.gaveUp = @ \cup {s}]
    BY <1>8 DEF TimeOut
  <2>2. s = stage.stream /\ s # NoTake
    BY <1>4, <2>1 DEF Idle, Waits, Takes, NoTake
  <2>3. ChainStepped(stage, d, s, "done")
    <3>1. "done" \in Steps
      BY DEF Steps
    <3> QED
      BY <1>1, <3>1, SteppedOn
  <2> HIDE DEF d
  <2>4. /\ d \in Stages /\ d.stream = s /\ d.session = stage.session /\ d.closed = stage.closed
        /\ d.started = stage.started /\ d.over = stage.over /\ d.failed = stage.failed
        /\ d.gaveUp = stage.gaveUp /\ d.cleanup = stage.cleanup
        /\ d.chain = [stage.chain EXCEPT ![s] = "done"]
    BY <2>2, <2>3 DEF ChainStepped, SameStream
  <2>5. /\ c \in Stages /\ c.stream = NoTake /\ ~c.ready /\ c.closed = d.closed \cup {s}
        /\ c.started = d.started \ {s} /\ c.over = d.over \ {s} /\ c.session = d.session
        /\ c.gaveUp = d.gaveUp /\ c.failed = d.failed \cup {s} /\ c.chain = d.chain
        /\ c.cleanup = [d.cleanup EXCEPT ![s] = "ready"]
    <3> DEFINE e == c
    <3>1. e = Interrupted(d) /\ d.stream # NoTake
      BY <2>2, <2>4
    <3> HIDE DEF e
    <3>2. /\ e \in Stages /\ e.stream = NoTake /\ ~e.ready /\ e.closed = d.closed \cup {d.stream}
          /\ e.started = d.started \ {d.stream} /\ e.over = d.over \ {d.stream} /\ e.session = d.session
          /\ e.gaveUp = d.gaveUp /\ e.failed = d.failed \cup {d.stream} /\ e.chain = d.chain
          /\ e.cleanup = [d.cleanup EXCEPT ![d.stream] = "ready"]
      BY <2>4, <3>1, InterruptedFacts
    <3>3. /\ e \in Stages /\ e.stream = NoTake /\ ~e.ready /\ e.closed = d.closed \cup {s}
          /\ e.started = d.started \ {s} /\ e.over = d.over \ {s} /\ e.session = d.session
          /\ e.gaveUp = d.gaveUp /\ e.failed = d.failed \cup {s} /\ e.chain = d.chain
          /\ e.cleanup = [d.cleanup EXCEPT ![s] = "ready"]
      BY <2>4, <3>2
    <3> QED
      BY <3>3 DEF e
  <2>6. stage' = [c EXCEPT !.gaveUp = gaveUp] /\ gaveUp \in SUBSET Takes
    <3>1. c.gaveUp = stage.gaveUp
      BY <2>4, <2>5
    <3> HIDE DEF c
    <3> QED
      BY <1>1, <2>1, <3>1 DEF Stages
  <2> HIDE DEF c, gaveUp
  <2>7. /\ stage' \in Stages /\ stage'.stream = c.stream /\ stage'.ready = c.ready
        /\ stage'.closed = c.closed /\ stage'.started = c.started /\ stage'.over = c.over
        /\ stage'.session = c.session /\ stage'.gaveUp = gaveUp /\ stage'.failed = c.failed
        /\ stage'.chain = c.chain /\ stage'.cleanup = c.cleanup
    BY <2>5, <2>6 DEF Stages
  <2>8. /\ stage'.chain[s] = "done" /\ \A t \in Takes : t # s => stage'.chain[t] = stage.chain[t]
        /\ \A t \in Takes : stage'.cleanup[t] = IF t = s THEN "ready" ELSE stage.cleanup[t]
    BY <1>1, <2>4, <2>5, <2>7 DEF Stages
  <2>9. Breaking(s)
    <3>1. /\ stage'.closed = stage.closed \cup {s} /\ stage'.failed = stage.failed \cup {s}
          /\ stage'.started = stage.started \ {s} /\ stage'.over = stage.over \ {s}
          /\ stage'.stream = NoTake /\ ~stage'.ready /\ stage'.session = stage.session
      BY <2>4, <2>5, <2>7
    <3>2. stage.gaveUp \subseteq stage'.gaveUp /\ \A t \in Takes : t \in stage'.gaveUp => t \in stage.gaveUp \/ t = s
      BY <2>7 DEF gaveUp
    <3> QED
      BY <1>3, <2>1, <2>2, <2>7, <2>8, <3>1, <3>2 DEF Breaking
  <2>10. wire.socket # "connecting"
    BY <1>2, <2>1, <2>2 DEF Staged
  <2>11. Stands(wire', stage', pipe, toDecoder, singer)
    BY <1>3, <2>9, <2>10, BrokenStands
  <2>12. s = singer.take /\ ~AnyStart(toDecoder) /\ s <= singer.take
    BY <2>2, OpenStream DEF Takes
  <2>13. toSinger' \in Seq(Takes) /\ Led(toDecoder, toSinger', singer, stage', pipe)
    <3>1. SameOpen(stage, stage') /\ ~(AnyStart(toDecoder) \/ stage'.stream # NoTake)
      BY <2>5, <2>7, <2>12 DEF SameOpen
    <3>2. AnyStart(toDecoder) \/ stage'.stream # NoTake => s # singer.take
      BY <3>1
    <3>3. toSinger \in Seq(Takes) /\ Led(toDecoder, toSinger, singer, stage, pipe)
      BY <1>1
    <3>4. toSinger' = Append(toSinger, s)
      BY <2>1
    <3>5. s <= singer.take /\ SameOpen(stage, stage')
      BY <2>12, <3>1
    <3> QED
      <4> DEFINE here == toSinger'
                 after == stage'
                 was == stage
      <4>1. here = Append(toSinger, s) /\ SameOpen(was, after) /\ Led(toDecoder, toSinger, singer, was, pipe)
            /\ (AnyStart(toDecoder) \/ after.stream # NoTake => s # singer.take)
        BY <3>2, <3>3, <3>4, <3>5
      <4> HIDE DEF here, after, was
      <4>2. here \in Seq(Takes) /\ Led(toDecoder, here, singer, after, pipe)
        BY <3>3, <3>5, <4>1, LedTold
      <4> QED
        BY <4>2 DEF here, after
  <2>14. NoSong(stage') /\ Owes(stage')
    <3>1. NoTake \notin Takes
      BY DEF NoTake, Takes
    <3>2. stage'.cleanup[s] \in {"ready", "start"}
      BY <2>8
    <3> QED
      BY <2>5, <2>7, <3>1, <3>2 DEF NoSong, Sung, Owes
  <2>15. Wired(wire, room, stage', pipe)
    <3>1. \A t \in Takes : Sung(stage, t) =>
             t \in stage'.failed /\ (t \in stage'.gaveUp \/ NoneOf(wire.pending, t))
      BY <2>2, <2>5, <2>7 DEF Sung, gaveUp
    <3>2. \A t \in Takes : stage.chain[t] \in Finishing => stage'.chain[t] \in Finishing
      BY <2>8 DEF Finishing
    <3>3. stage.failed \subseteq stage'.failed /\ stage.gaveUp \subseteq stage'.gaveUp
      BY <2>4, <2>5, <2>7 DEF gaveUp
    <3>4. stage'.session = stage.session /\ ~stage'.ready
      BY <2>4, <2>5, <2>7
    <3> QED
      BY <1>1, <2>7, <2>14, <3>1, <3>2, <3>3, <3>4, Settled
  <2> QED
    BY <1>1, <1>3, <2>7, <2>11, <2>13, <2>15, NextGood
<1> QED
  BY <1>5, <1>6, <1>7, <1>8 DEF TimeOut

(* The events of the server and of the socket.                             *)

LEMMA HandleEventKeeps ==
  ASSUME WireGood, HandleEvent
  PROVE  WireGood'
<1> DEFINE event == Head(wire.down)
           down == Tail(wire.down)
           rest == [wire EXCEPT !.down = down]
           current == {stage.stream} \ {NoTake}
           started == stage.started \cup current
           over == stage.over \cup current
<1>1. /\ singer \in Singers /\ toDecoder \in Seq(Orders) /\ toSinger \in Seq(Takes)
      /\ pipe \in Pipes /\ stage \in Stages /\ wire \in Nets /\ room \in Rooms
      /\ Led(toDecoder, toSinger, singer, stage, pipe)
      /\ Stands(wire, stage, pipe, toDecoder, singer)
      /\ Wired(wire, room, stage, pipe)
  BY GoodTypes
<1>2. /\ wire.socket = "open" /\ wire.down # <<>> /\ event.kind # "close"
      /\ \/ event.take # stage.session /\ wire' = rest /\ UNCHANGED stage
         \/ /\ event.take = stage.session /\ event.kind = "started"
            /\ stage' = [stage EXCEPT !.ready = TRUE, !.started = started]
            /\ wire' = Flushed(rest, TRUE)
         \/ /\ event.take = stage.session /\ event.kind # "started"
            /\ stage' = [stage EXCEPT !.ready = FALSE, !.over = over]
            /\ wire' = rest
      /\ UNCHANGED <<singer, toDecoder, toSinger, pipe, room>>
  BY DEF HandleEvent
<1>3. wire.down \in Seq(News)
  BY <1>1 DEF Nets
<1>4. event \in News /\ down \in Seq(News) /\ down = Tail(wire.down)
  BY <1>2, <1>3, Tailed
<1>5. event = [kind |-> event.kind, take |-> event.take] /\ event.kind \in {"started", "finished"}
  <2> HIDE DEF event
  <2> QED
    BY <1>2, <1>4 DEF News
<1>6. started \in SUBSET Takes /\ over \in SUBSET Takes
  BY <1>1 DEF Stages, Maybe
<1>7. \A s \in Takes :
        /\ s \in started <=> s \in stage.started \/ s = stage.stream
        /\ s \in over <=> s \in stage.over \/ s = stage.stream
  BY DEF NoTake, Takes
<1>8. ~stage.draft /\ stage.stream # NoTake => stage.stream = stage.session
  BY OpenStream DEF Staged
<1>9. stage.gaveUp \subseteq stage.failed
  BY GaveUpFailed
<1>10. event = Head(wire.down) /\ rest = [wire EXCEPT !.down = down]
  OBVIOUS
<1> HIDE DEF event, down, started, over
<1>11. /\ rest \in Nets /\ rest.socket = "open" /\ rest.down = down /\ rest.up = wire.up
       /\ rest.pending = wire.pending
  BY <1>1, <1>2, <1>4 DEF Nets
<1> HIDE DEF rest
<1>12. CASE event.take # stage.session /\ wire' = rest /\ UNCHANGED stage
  <2>1. Stands(wire', stage, pipe, toDecoder, singer)
    BY <1>1, <1>2, <1>11, <1>12, StandsSame
  <2>2. Wired(wire', room, stage, pipe)
    BY <1>1, <1>2, <1>4, <1>11, <1>12, SameSight
  <2> QED
    BY <1>1, <1>2, <1>11, <1>12, <2>1, <2>2, NextGood
<1>13. CASE /\ event.take = stage.session /\ event.kind = "started"
            /\ stage' = [stage EXCEPT !.ready = TRUE, !.started = started]
            /\ wire' = Flushed(rest, TRUE)
  <2>1. /\ stage' \in Stages /\ stage'.ready /\ stage'.started = started
        /\ stage'.stream = stage.stream /\ stage'.draft = stage.draft
        /\ stage'.session = stage.session /\ stage'.closed = stage.closed
        /\ stage'.failed = stage.failed /\ stage'.gaveUp = stage.gaveUp
        /\ stage'.over = stage.over /\ stage'.chain = stage.chain /\ stage'.cleanup = stage.cleanup
    BY <1>1, <1>6, <1>13 DEF Stages
  <2>2. /\ wire' \in Nets /\ wire'.socket = "open" /\ wire'.down = down
        /\ wire'.up = wire.up \o wire.pending /\ wire'.pending = <<>>
    <3> DEFINE ready == TRUE
    <3>1. ready \in BOOLEAN /\ ready /\ wire' = Flushed(rest, ready)
      BY <1>13
    <3> HIDE DEF ready
    <3>2. /\ wire' \in Nets /\ wire'.socket = rest.socket /\ wire'.down = rest.down
          /\ wire'.up = rest.up \o rest.pending /\ wire'.pending = <<>>
      BY <1>11, <3>1, FlushFacts
    <3> QED
      BY <1>11, <3>2
  <2>3. \A s \in Takes : s \in stage'.started <=> s \in stage.started \/ s = stage.stream
    BY <1>7, <2>1
  <2>4. Stands(wire', stage', pipe, toDecoder, singer)
    <3>1. \A s \in Takes : s \in stage'.started \cup stage'.over => s \in stage.started \cup stage.over \/ s = stage.stream
      BY <2>1, <2>3
    <3> QED
      BY <1>1, <1>2, <2>1, <2>2, <3>1, StandsHeard
  <2>5. Head(wire.down) = [kind |-> "started", take |-> stage.session]
    BY <1>5, <1>10, <1>13
  <2>6. Wired(wire', room, stage', pipe)
    <3>1. wire'.down = Tail(wire.down)
      BY <1>4, <2>2
    <3> QED
      BY <1>1, <1>2, <1>8, <1>9, <2>1, <2>2, <2>3, <2>5, <3>1, StartHeard
  <2>7. Led(toDecoder, toSinger, singer, stage', pipe)
    <3>1. SameOpen(stage, stage') /\ NewsFit(toDecoder, toSinger, singer, stage', toSinger)
      BY <2>1 DEF SameOpen, NewsFit
    <3> QED
      BY <1>1, <3>1, LedFits
  <2> QED
    BY <1>1, <1>2, <2>1, <2>2, <2>4, <2>6, <2>7, NextGood
<1>14. CASE /\ event.take = stage.session /\ event.kind # "started"
            /\ stage' = [stage EXCEPT !.ready = FALSE, !.over = over]
            /\ wire' = rest
  <2>1. /\ stage' \in Stages /\ ~stage'.ready /\ stage'.over = over
        /\ stage'.stream = stage.stream /\ stage'.draft = stage.draft
        /\ stage'.session = stage.session /\ stage'.closed = stage.closed
        /\ stage'.failed = stage.failed /\ stage'.gaveUp = stage.gaveUp
        /\ stage'.started = stage.started /\ stage'.chain = stage.chain /\ stage'.cleanup = stage.cleanup
    BY <1>1, <1>6, <1>14 DEF Stages
  <2>2. /\ wire' \in Nets /\ wire'.socket = "open" /\ wire'.down = down
        /\ wire'.up = wire.up /\ wire'.pending = wire.pending
    BY <1>11, <1>14
  <2>3. \A s \in Takes : s \in stage'.over <=> s \in stage.over \/ s = stage.stream
    BY <1>7, <2>1
  <2>4. Stands(wire', stage', pipe, toDecoder, singer)
    <3>1. \A s \in Takes : s \in stage'.started \cup stage'.over => s \in stage.started \cup stage.over \/ s = stage.stream
      BY <2>1, <2>3
    <3> QED
      BY <1>1, <1>2, <2>1, <2>2, <3>1, StandsHeard
  <2>5. Head(wire.down) = [kind |-> "finished", take |-> stage.session]
    BY <1>5, <1>10, <1>14
  <2>6. Wired(wire', room, stage', pipe)
    <3>1. wire'.down = Tail(wire.down)
      BY <1>4, <2>2
    <3> QED
      BY <1>1, <1>2, <1>8, <2>1, <2>2, <2>3, <2>5, <3>1, EndHeard
  <2>7. Led(toDecoder, toSinger, singer, stage', pipe)
    <3>1. SameOpen(stage, stage') /\ NewsFit(toDecoder, toSinger, singer, stage', toSinger)
      BY <2>1 DEF SameOpen, NewsFit
    <3> QED
      BY <1>1, <3>1, LedFits
  <2> QED
    BY <1>1, <1>2, <2>1, <2>2, <2>4, <2>6, <2>7, NextGood
<1> QED
  BY <1>2, <1>12, <1>13, <1>14

LEMMA SocketOpensKeeps ==
  ASSUME WireGood, SocketOpens
  PROVE  WireGood'
<1> DEFINE n == [wire EXCEPT !.socket = "open"]
<1>1. /\ singer \in Singers /\ toDecoder \in Seq(Orders) /\ toSinger \in Seq(Takes)
      /\ pipe \in Pipes /\ stage \in Stages /\ wire \in Nets /\ room \in Rooms
      /\ Led(toDecoder, toSinger, singer, stage, pipe)
      /\ Stands(wire, stage, pipe, toDecoder, singer)
      /\ Wired(wire, room, stage, pipe)
  BY GoodTypes
<1>2. /\ wire.socket = "connecting" /\ wire' = Flushed(n, stage.ready)
      /\ UNCHANGED <<singer, toDecoder, toSinger, pipe, stage, room>>
  BY DEF SocketOpens
<1>3. stage.ready \in BOOLEAN /\ ~stage.ready
  BY <1>1, <1>2 DEF Wired, Plugged, Stages
<1>4. /\ n \in Nets /\ n.socket = "open" /\ n.up = wire.up /\ n.down = wire.down
      /\ n.pending = wire.pending
  BY <1>1 DEF Nets
<1> HIDE DEF n
<1>5. /\ wire' \in Nets /\ wire'.socket = n.socket /\ wire'.down = n.down
      /\ wire'.up = n.up \o Picked(n.pending, Sendable(n.pending, FALSE))
      /\ wire'.pending = Picked(n.pending, DOMAIN n.pending \ Sendable(n.pending, FALSE))
  BY <1>2, <1>3, <1>4, FlushFacts
<1>6. /\ wire'.socket = "open" /\ wire'.down = wire.down
      /\ wire'.up = wire.up \o Picked(wire.pending, Sendable(wire.pending, FALSE))
      /\ wire'.pending = Picked(wire.pending, DOMAIN wire.pending \ Sendable(wire.pending, FALSE))
  BY <1>4, <1>5
<1>7. Wired(wire', room, stage, pipe)
  BY <1>1, <1>2, <1>5, <1>6, Opened
<1>8. Stands(wire', stage, pipe, toDecoder, singer)
  <2>1. wire'.socket # "connecting" /\ wire'.socket # "gone"
    BY <1>6
  <2> QED
    BY <1>1, <2>1, StandsSocket
<1> QED
  BY <1>1, <1>2, <1>5, <1>7, <1>8, NextGood

(* The loss of the socket.                                                 *)

\* The sequence of a set of at most one take.
LEMMA SequenceOfOne ==
  ASSUME NEW k, NEW S, S \subseteq {k}
  PROVE  /\ SetToSeq(S) \in Seq(S)
         /\ S = {} => SetToSeq(S) = <<>>
<1>1. CASE S = {}
  <2>1. Cardinality(S) = 0
    BY <1>1, FS_EmptySet
  <2>2. [i \in {} |-> k] \in [1..Cardinality(S) -> S] /\ IsInjective([i \in {} |-> k])
    BY <2>1 DEF IsInjective
  <2>3. SetToSeq(S) \in [1..0 -> S]
    BY <2>1, <2>2, Zenon DEF SetToSeq
  <2>4. SetToSeq(S) \in Seq(S)
    BY <2>3
  <2>5. Len(SetToSeq(S)) = 0
    BY <2>3, <2>4
  <2> QED
    BY <2>4, <2>5
<1>2. CASE S = {k}
  <2>1. Cardinality(S) = 1
    BY <1>2, FS_Singleton
  <2>2. [i \in 1..1 |-> k] \in [1..1 -> S] /\ IsInjective([i \in 1..1 |-> k])
    BY <1>2 DEF IsInjective
  <2>3. SetToSeq(S) \in [1..1 -> S]
    BY <2>1, <2>2, Zenon DEF SetToSeq
  <2>4. S # {}
    BY <1>2
  <2>5. SetToSeq(S) \in Seq(S)
    <3> DEFINE f == SetToSeq(S)
    <3>1. f \in [1..1 -> S]
      BY <2>3
    <3> HIDE DEF f
    <3>2. 1 \in Nat /\ [1..1 -> S] \in {[1..n -> S] : n \in Nat}
      OBVIOUS
    <3>3. f \in UNION {[1..n -> S] : n \in Nat}
      BY <3>1, <3>2, Zenon
    <3>4. f \in Seq(S)
      BY <3>3, SeqDef, Zenon
    <3> QED
      BY <3>4 DEF f
  <2> QED
    BY <2>4, <2>5
<1> QED
  BY <1>1, <1>2

\* What is told when the socket is lost: the stream that is open, and no other take.
LEMMA ToldOf ==
  ASSUME NEW k \in Maybe, NEW S \in SUBSET Takes, S \subseteq {k}, NEW told,
         told = (IF k # NoTake THEN <<k>> ELSE <<>>) \o SetToSeq(S)
  PROVE  /\ told \in Seq(Takes) /\ (told = <<>> <=> k = NoTake)
         /\ \A i \in DOMAIN told : told[i] = k
<1>1. SetToSeq(S) \in Seq(S) /\ (S = {} => SetToSeq(S) = <<>>)
  BY SequenceOfOne
<1> DEFINE after == SetToSeq(S)
<1>2. after \in Seq(S) /\ (S = {} => after = <<>>)
  BY <1>1
<1> HIDE DEF after
<1>3. after \in Seq(Takes) /\ \A i \in DOMAIN after : after[i] = k
  BY <1>2
<1>4. CASE k # NoTake
  <2>1. k \in Takes /\ <<k>> \in Seq(Takes) /\ told = <<k>> \o after
    BY <1>4 DEF Maybe, after
  <2> DEFINE one == <<k>>
  <2>2. one \in Seq(Takes) /\ Len(one) = 1 /\ told = one \o after /\ DOMAIN one = {1} /\ one[1] = k
    BY <2>1
  <2> HIDE DEF one
  <2>3. /\ told \in Seq(Takes)
        /\ \A i \in DOMAIN one : i \in DOMAIN told /\ told[i] = one[i]
        /\ \A i \in DOMAIN told : i \in Nat /\ (i \in DOMAIN one \/
             (i > Len(one) /\ i - Len(one) \in DOMAIN after /\ told[i] = after[i - Len(one)]))
    <3>1. one \in Seq(Takes) /\ after \in Seq(Takes) /\ told = one \o after
      BY <1>3, <2>2
    <3> DEFINE all == one \o after
    <3>2. all = one \o after
      OBVIOUS
    <3> HIDE DEF all
    <3>3. /\ all \in Seq(Takes)
          /\ \A i \in DOMAIN one : i \in DOMAIN all /\ all[i] = one[i] /\ i \in Nat /\ i <= Len(one)
          /\ \A i \in DOMAIN all : i \in Nat /\ (i \in DOMAIN one \/
               (i > Len(one) /\ i - Len(one) \in DOMAIN after /\ all[i] = after[i - Len(one)]))
      BY <3>1, <3>2, Joined
    <3>4. told = all
      BY <3>1, <3>2
    <3> QED
      BY <3>3, <3>4
  <2>4. 1 \in DOMAIN told
    BY <2>2, <2>3
  <2>5. told # <<>>
    BY <2>4
  <2>6. \A i \in DOMAIN told : told[i] = k
    BY <1>3, <2>2, <2>3
  <2> QED
    BY <1>4, <2>3, <2>5, <2>6
<1>5. CASE k = NoTake
  <2>1. S = {}
    BY <1>5 DEF NoTake, Takes
  <2>2. told = <<>> \o after /\ after = <<>>
    BY <1>2, <1>5, <2>1 DEF after
  <2> QED
    BY <1>5, <2>2
<1> QED
  BY <1>4, <1>5

\* No finishing waits for the opening of the socket but that of the open stream.
Failing == {s \in Takes : wire.socket = "connecting" /\ stage.chain[s] = "ready"}

LEMMA FailingStream ==
  ASSUME WireGood
  PROVE  /\ Failing \subseteq {stage.stream}
         /\ \A s \in Takes : ~(wire.socket = "connecting" /\ stage.cleanup[s] = "ready")
<1>1. \A s \in Takes : Staged(wire, stage, pipe, s)
  BY GoodTypes DEF Stands
<1>2. \A s \in Takes : s # stage.stream /\ stage.chain[s] = "ready" => wire.socket # "connecting"
  BY <1>1 DEF Staged
<1>3. \A s \in Takes : stage.cleanup[s] = "ready" => wire.socket # "connecting"
  BY <1>1 DEF Staged
<1> QED
  BY <1>2, <1>3 DEF Failing

\* What the loss of the socket does to the stage, and what is told.
Losing(st, told) ==
    /\ st \in Stages
    /\ st.stream = stage.stream /\ st.session = stage.session /\ st.draft = stage.draft
    /\ st.closed = stage.closed /\ st.failed = stage.failed /\ st.gaveUp = stage.gaveUp
    /\ st.started = stage.started /\ st.over = stage.over
    /\ \A s \in Takes : st.cleanup[s] = stage.cleanup[s]
    /\ \A s \in Takes : st.chain[s] = stage.chain[s] \/
          (s = stage.stream /\ st.chain[s] = "done" /\ stage.chain[s] = "ready")
    /\ stage' = IF told # <<>> THEN Interrupted(st) ELSE st
    /\ told \in Seq(Takes) /\ (told = <<>> <=> stage.stream = NoTake)
    /\ \A i \in DOMAIN told : told[i] = stage.stream
    /\ toSinger' = toSinger \o told

LEMMA LosingFacts ==
  ASSUME WireGood, LoseSocket
  PROVE  \E st, told : Losing(st, told)
<1> DEFINE chain == [s \in Takes |-> IF s \in Failing THEN "done" ELSE stage.chain[s]]
           cleanup == [s \in Takes |->
              IF wire.socket = "connecting" /\ stage.cleanup[s] = "ready" THEN "done" ELSE stage.cleanup[s]]
           broken == [stage EXCEPT !.chain = chain, !.cleanup = cleanup]
           told == (IF stage.stream # NoTake THEN <<stage.stream>> ELSE <<>>) \o SetToSeq(Failing)
<1>1. stage \in Stages
  BY GoodTypes
<1>2. /\ stage' = IF told # <<>> THEN Interrupted(broken) ELSE broken
      /\ toSinger' = toSinger \o told
  BY Zenon DEF LoseSocket, Failing
<1>3. /\ chain \in [Takes -> Waits \cup {"none", "done"}]
      /\ cleanup \in [Takes -> Waits \cup {"none", "done"}]
  BY <1>1 DEF Stages
<1>4. /\ \A s \in Takes : cleanup[s] = stage.cleanup[s]
      /\ \A s \in Takes : chain[s] = stage.chain[s] \/
          (s = stage.stream /\ chain[s] = "done" /\ stage.chain[s] = "ready")
  <2>1. \A s \in Takes : s \in Failing => s = stage.stream /\ stage.chain[s] = "ready"
    BY FailingStream DEF Failing
  <2> QED
    BY <2>1, FailingStream
<1>5. told \in Seq(Takes) /\ (told = <<>> <=> stage.stream = NoTake)
      /\ \A i \in DOMAIN told : told[i] = stage.stream
  <2>1. Failing \in SUBSET Takes /\ Failing \subseteq {stage.stream} /\ stage.stream \in Maybe
    BY <1>1, FailingStream DEF Failing, Stages
  <2> DEFINE k == stage.stream
             S == Failing
             t == (IF k # NoTake THEN <<k>> ELSE <<>>) \o SetToSeq(S)
  <2>2. k \in Maybe /\ S \in SUBSET Takes /\ S \subseteq {k}
    BY <2>1
  <2> HIDE DEF k, S
  <2>3. t = (IF k # NoTake THEN <<k>> ELSE <<>>) \o SetToSeq(S)
    OBVIOUS
  <2> HIDE DEF t
  <2>4. /\ t \in Seq(Takes) /\ (t = <<>> <=> k = NoTake)
        /\ \A i \in DOMAIN t : t[i] = k
    BY <2>2, <2>3, ToldOf
  <2> QED
    BY <2>4, Zenon DEF t, k, S
<1> HIDE DEF told, chain, cleanup
<1>6. /\ broken \in Stages
      /\ broken.stream = stage.stream /\ broken.session = stage.session /\ broken.draft = stage.draft
      /\ broken.closed = stage.closed /\ broken.failed = stage.failed /\ broken.gaveUp = stage.gaveUp
      /\ broken.started = stage.started /\ broken.over = stage.over
      /\ broken.chain = chain /\ broken.cleanup = cleanup
  BY <1>1, <1>3 DEF Stages
<1> HIDE DEF broken
<1>7. Losing(broken, told)
  BY <1>2, <1>4, <1>5, <1>6 DEF Losing
<1> QED
  BY <1>7

LEMMA LoseSocketKeeps ==
  ASSUME WireGood, LoseSocket, UNCHANGED <<singer, toDecoder, pipe>>
  PROVE  WireGood'
<1>1. /\ singer \in Singers /\ toDecoder \in Seq(Orders) /\ toSinger \in Seq(Takes)
      /\ pipe \in Pipes /\ stage \in Stages /\ wire \in Nets /\ room \in Rooms
      /\ Led(toDecoder, toSinger, singer, stage, pipe)
      /\ Stands(wire, stage, pipe, toDecoder, singer)
      /\ Wired(wire, room, stage, pipe)
  BY GoodTypes
<1>2. PICK st, told : Losing(st, told)
  BY LosingFacts
<1>3. /\ wire' \in Nets /\ wire'.socket = "gone" /\ wire'.up = <<>> /\ wire'.pending = <<>>
      /\ wire'.down = <<>>
  BY DEF LoseSocket, Nets
<1>4. /\ room' \in Rooms /\ room'.take = NoTake /\ room'.refused = NoTake /\ room'.waiting = NoTake
      /\ room'.ended = room.ended /\ room'.stored = room.stored
  <2>1. room' = [room EXCEPT !.take = NoTake, !.refused = NoTake, !.waiting = NoTake]
    BY DEF LoseSocket
  <2> QED
    BY <1>1, <2>1 DEF Rooms, Maybe
<1>5. /\ st \in Stages
      /\ st.stream = stage.stream /\ st.session = stage.session /\ st.draft = stage.draft
      /\ st.closed = stage.closed /\ st.failed = stage.failed /\ st.gaveUp = stage.gaveUp
      /\ st.started = stage.started /\ st.over = stage.over
  BY <1>2 DEF Losing
<1>6. \A s \in Takes : st.cleanup[s] = stage.cleanup[s]
  BY <1>2 DEF Losing
<1>7. \A s \in Takes : st.chain[s] = stage.chain[s] \/
          (s = stage.stream /\ st.chain[s] = "done" /\ stage.chain[s] = "ready")
  BY <1>2 DEF Losing
<1>8. stage' = (IF told # <<>> THEN Interrupted(st) ELSE st) /\ (told = <<>> <=> stage.stream = NoTake)
  BY <1>2 DEF Losing
<1>9. /\ told \in Seq(Takes) /\ toSinger' = toSinger \o told
      /\ \A i \in DOMAIN told : told[i] = stage.stream
  BY <1>2 DEF Losing
<1>10. NoTake \notin Takes
  BY DEF NoTake, Takes
<1>11. /\ stage' \in Stages /\ stage'.stream = NoTake /\ stage'.session = stage.session
       /\ stage'.gaveUp = stage.gaveUp /\ stage.failed \subseteq stage'.failed
       /\ \A s \in Takes : stage'.chain[s] = st.chain[s]
       /\ Stands(wire', stage', pipe, toDecoder, singer)
  <2>1. CASE stage.stream = NoTake
    <3>1. stage' = st
      BY <1>8, <2>1
    <3>2. \A s \in Takes : stage'.chain[s] = stage.chain[s] /\ stage'.cleanup[s] = stage.cleanup[s]
      BY <1>6, <1>7, <1>10, <2>1, <3>1
    <3>3. Stands(wire', stage', pipe, toDecoder, singer)
      <4>1. wire'.socket # "connecting"
        BY <1>3
      <4>2. /\ stage'.stream = stage.stream /\ stage'.draft = stage.draft
            /\ stage'.session = stage.session /\ stage'.closed = stage.closed
            /\ stage'.failed = stage.failed /\ stage'.gaveUp = stage.gaveUp
            /\ \A s \in Takes : s \in stage'.started \cup stage'.over => s \in stage.started \cup stage.over
        BY <1>5, <3>1
      <4> QED
        BY <1>1, <2>1, <3>2, <4>1, <4>2, StandsSocket
    <3> QED
      BY <1>5, <2>1, <3>1, <3>3
  <2>2. CASE stage.stream # NoTake
    <3> DEFINE k == stage.stream
    <3>1. k \in Takes
      BY <2>2, OpenStream
    <3>2. stage' = Interrupted(st)
      BY <1>8, <2>2
    <3>3. /\ stage' \in Stages /\ stage'.stream = NoTake /\ ~stage'.ready
          /\ stage'.closed = st.closed \cup {st.stream}
          /\ stage'.started = st.started \ {st.stream} /\ stage'.over = st.over \ {st.stream}
          /\ stage'.session = st.session /\ stage'.gaveUp = st.gaveUp
          /\ stage'.failed = st.failed \cup {st.stream} /\ stage'.chain = st.chain
          /\ stage'.cleanup = [st.cleanup EXCEPT ![st.stream] = "ready"]
      <4> DEFINE after == stage'
      <4>1. after = Interrupted(st) /\ st.stream # NoTake
        BY <1>5, <2>2, <3>2
      <4> HIDE DEF after
      <4>2. /\ after \in Stages /\ after.stream = NoTake /\ ~after.ready
            /\ after.closed = st.closed \cup {st.stream}
            /\ after.started = st.started \ {st.stream} /\ after.over = st.over \ {st.stream}
            /\ after.session = st.session /\ after.gaveUp = st.gaveUp
            /\ after.failed = st.failed \cup {st.stream} /\ after.chain = st.chain
            /\ after.cleanup = [st.cleanup EXCEPT ![st.stream] = "ready"]
        BY <1>5, <4>1, InterruptedFacts
      <4> QED
        BY <4>2 DEF after
    <3>4. \A s \in Takes : stage'.cleanup[s] = IF s = k THEN "ready" ELSE stage.cleanup[s]
      BY <1>5, <1>6, <3>3 DEF Stages
    <3>5. /\ \A s \in Takes : s # k => stage'.chain[s] = stage.chain[s]
          /\ stage'.chain[k] = stage.chain[k] \/ (stage'.chain[k] = "done" /\ stage.chain[k] # "none")
      BY <1>7, <3>1, <3>3
    <3>6. /\ stage'.closed = stage.closed \cup {k} /\ stage'.failed = stage.failed \cup {k}
          /\ stage'.started = stage.started \ {k} /\ stage'.over = stage.over \ {k}
          /\ stage'.session = stage.session /\ stage'.gaveUp = stage.gaveUp
      BY <1>5, <3>3
    <3>7. Breaking(k)
      BY <3>3, <3>4, <3>5, <3>6 DEF Breaking
    <3>8. Stands(wire', stage', pipe, toDecoder, singer)
      <4>1. wire'.socket # "connecting"
        BY <1>3
      <4> HIDE DEF k
      <4> QED
        BY <3>1, <3>7, <4>1, BrokenStands
    <3> QED
      BY <3>3, <3>6, <3>8
  <2> QED
    BY <2>1, <2>2
<1>12. toSinger' \in Seq(Takes) /\ Led(toDecoder, toSinger', singer, stage', pipe)
  <2> DEFINE heard == toSinger'
  <2>1. heard = toSinger \o told
    BY <1>9
  <2> HIDE DEF heard
  <2>2. /\ heard \in Seq(Takes)
        /\ \A i \in DOMAIN heard : i \in Nat /\ (\/ i \in DOMAIN toSinger /\ heard[i] = toSinger[i]
                                                 \/ i - Len(toSinger) \in DOMAIN told /\ heard[i] = told[i - Len(toSinger)])
    <3>1. /\ heard \in Seq(Takes)
          /\ \A i \in DOMAIN toSinger : i \in DOMAIN heard /\ heard[i] = toSinger[i] /\ i \in Nat /\ i <= Len(toSinger)
          /\ \A i \in DOMAIN heard : i \in Nat /\ (i \in DOMAIN toSinger \/
               (i > Len(toSinger) /\ i - Len(toSinger) \in DOMAIN told /\ heard[i] = told[i - Len(toSinger)]))
      BY <1>1, <1>9, <2>1, Joined
    <3> QED
      BY <3>1
  <2>3. stage.stream # NoTake => stage.stream = singer.take /\ ~AnyStart(toDecoder)
    BY OpenStream
  <2>4. told # <<>> => stage.stream # NoTake
    BY <1>8
  <2>5. \A i \in DOMAIN told : told[i] = singer.take /\ ~AnyStart(toDecoder)
    <3>1. \A i \in DOMAIN told : told # <<>>
      BY <1>9
    <3> QED
      BY <1>9, <2>3, <2>4, <3>1
  <2>6. NewsFit(toDecoder, toSinger, singer, stage', heard)
    <3>1. \A i \in DOMAIN heard : i - Len(toSinger) \in DOMAIN told /\ heard[i] = told[i - Len(toSinger)] =>
            heard[i] <= singer.take /\ ~AnyStart(toDecoder)
      BY <1>1, <2>5 DEF Singers, Maybe, Takes, NoTake
    <3> QED
      BY <1>11, <2>2, <3>1 DEF NewsFit
  <2>7. SameOpen(stage, stage')
    BY <1>11 DEF SameOpen
  <2>8. Led(toDecoder, heard, singer, stage', pipe)
    BY <1>1, <2>6, <2>7, LedFits
  <2> QED
    BY <2>2, <2>8 DEF heard
<1>13. NoSong(stage')
  BY <1>10, <1>11 DEF NoSong, Sung
<1>14. \A s \in Takes : stage.chain[s] \in Finishing => stage'.chain[s] \in Finishing
  BY <1>7, <1>11 DEF Finishing
<1>15. Wired(wire', room', stage', pipe)
  BY <1>1, <1>3, <1>4, <1>11, <1>13, <1>14, Lost
<1> QED
  BY <1>1, <1>3, <1>4, <1>11, <1>12, <1>15, NextGood

(* The first state, and the steps together.                                *)

LEMMA WireStarts ==
  ASSUME WireInit
  PROVE  WireGood
<1> DEFINE none == <<>>
<1>1. /\ none \in Seq(Sends) /\ none \in Seq(News) /\ none \in Seq(Packet)
      /\ none \in Seq(Orders) /\ none \in Seq(Takes) /\ none = <<>>
  OBVIOUS
<1>2. \A i \in DOMAIN none : FALSE
  OBVIOUS
<1>3. NoTake = 0 /\ NoTake \in Maybe /\ Takes \subseteq Nat /\ \A s \in Takes : s > NoTake
  BY DEF NoTake, Takes, Maybe
<1>4. singer \in Singers /\ singer.at = "idle" /\ singer.take = NoTake
  BY <1>3 DEF WireInit, Singers
<1>5. /\ pipe \in Pipes
      /\ \A s \in Takes : pipe[s].posted = 0 /\ ~pipe[s].flushed /\ pipe[s].read = 0 /\ ~pipe[s].flushRead
  BY DEF WireInit, Pipes
<1>6. /\ stage \in Stages /\ stage.stream = NoTake /\ ~stage.draft /\ stage.session = NoTake
      /\ ~stage.ready /\ stage.started = {} /\ stage.over = {} /\ stage.closed = {}
      /\ stage.gaveUp = {} /\ stage.failed = {}
      /\ \A s \in Takes : stage.chain[s] = "none" /\ stage.cleanup[s] = "none"
  BY <1>3 DEF WireInit, Stages, Waits
<1>7. /\ wire \in Nets /\ wire.socket \in {"connecting", "open"}
      /\ wire.pending = none /\ wire.up = none /\ wire.down = none
  BY <1>1 DEF WireInit, Nets
<1>8. /\ room \in Rooms /\ room.take = NoTake /\ room.refused = NoTake /\ room.waiting = NoTake
      /\ room.ended = {} /\ \A s \in Takes : room.stored[s] = none
  BY <1>1, <1>3 DEF WireInit, Rooms
<1>9. toDecoder = none /\ toSinger = none
  BY DEF WireInit
<1> HIDE DEF none
<1>10. Led(toDecoder, toSinger, singer, stage, pipe)
  BY <1>2, <1>4, <1>6, <1>9 DEF Led, AnyStart
<1>11. Stands(wire, stage, pipe, toDecoder, singer)
  <2>1. ASSUME NEW s \in Takes PROVE Fresh(stage, pipe, s)
    BY <1>3, <1>5, <1>6 DEF Fresh
  <2>2. ASSUME NEW s \in Takes PROVE Piped(singer, pipe, s)
    BY <1>5 DEF Piped
  <2>3. ASSUME NEW s \in Takes PROVE Staged(wire, stage, pipe, s)
    <3>1. s # stage.stream
      BY <1>3, <1>6
    <3> QED
      BY <1>6, <3>1 DEF Staged, Waits
  <2> QED
    BY <2>1, <2>2, <2>3 DEF Stands
<1>12. Wired(wire, room, stage, pipe)
  <2>1. Line(wire) = none /\ ~Held(room) /\ \A s \in Takes : ~Holds(room, s)
    BY <1>3, <1>7, <1>8 DEF Line, Held, Holds
  <2>2. /\ \A s \in Takes : NoneOf(none, s) /\ ~HasStart(none, s)
        /\ \A s \in Takes : ~Told(none, "started", s) /\ ~Told(none, "finished", s)
        /\ Plain(none) /\ \A take : \A gave : Leads(none, take, gave)
    BY <1>2 DEF NoneOf, HasStart, Told, Plain, Leads
  <2>3. Alternating(none, FALSE) /\ ~OpenEnd(none, FALSE)
    BY <1>2 DEF Alternating, OpenEnd
  <2>4. Plugged(wire, room, stage)
    BY <1>1, <1>6, <1>7, <1>8, <2>1, <2>2 DEF Plugged
  <2>5. Paired(wire, room, stage)
    <3>1. Held(room) = FALSE
      BY <2>1 DEF Held
    <3> QED
      BY <2>1, <2>3, <3>1 DEF Paired
  <2>6. Sorted(wire, room, stage)
    BY <1>7, <1>8, <2>2 DEF Sorted
  <2>7. ASSUME NEW s \in Takes PROVE Traceless(wire, room, s)
    BY <1>7, <1>8, <2>1, <2>2 DEF Traceless
  <2>8. ASSUME NEW s \in Takes PROVE ~Sung(stage, s)
    BY <1>3, <1>6 DEF Sung
  <2>9. ASSUME NEW s \in Takes PROVE Complete(wire, room, stage, pipe, s)
    <3>1. room.take # s /\ room.waiting # s /\ s \notin room.ended /\ ~HasStart(Line(wire), s)
      BY <1>3, <1>8, <2>1, <2>2
    <3> QED
      BY <2>8, <3>1 DEF Complete
  <2> QED
    BY <2>4, <2>5, <2>6, <2>7, <2>8, <2>9 DEF Wired
<1> QED
  BY <1>1, <1>4, <1>5, <1>6, <1>7, <1>8, <1>9, <1>10, <1>11, <1>12 DEF WireGood, WireType

LEMMA WireKeeps ==
  ASSUME WireGood, [WireNext]_wireVars, InStep'
  PROVE  WireGood'
<1>1. ~stage'.rushed /\ ~singer'.misled
  BY DEF InStep
<1>2. ASSUME UNCHANGED wireVars PROVE WireGood'
  <2>1. UNCHANGED <<singer, toDecoder, toSinger, pipe, stage, wire, room>>
    BY <1>2 DEF wireVars
  <2> QED
    BY <2>1, GoodTypes, NextGood
<1>3. ASSUME NEW draft \in BOOLEAN, StartTake(draft) PROVE WireGood'
  BY <1>3, StartTakeKeeps
<1>4. ASSUME StopTake PROVE WireGood'
  BY <1>4, StopTakeKeeps
<1>5. ASSUME PostChunk PROVE WireGood'
  BY <1>5, PostChunkKeeps
<1>6. ASSUME PostFlush PROVE WireGood'
  BY <1>6, PostFlushKeeps
<1>7. ASSUME FinishTake PROVE WireGood'
  BY <1>7, FinishTakeKeeps
<1>8. ASSUME HearDecoder PROVE WireGood'
  BY <1>1, <1>8, HearDecoderKeeps
<1>9. ASSUME HandleStart PROVE WireGood'
  BY <1>9, HandleStartKeeps
<1>10. ASSUME HandleFinish PROVE WireGood'
  BY <1>10, HandleFinishKeeps
<1>11. ASSUME HandleEvent PROVE WireGood'
  BY <1>11, HandleEventKeeps
<1>12. ASSUME SocketOpens PROVE WireGood'
  BY <1>12, SocketOpensKeeps
<1>13. ASSUME ServerCloses PROVE WireGood'
  BY <1>13, LoseSocketKeeps DEF ServerCloses
<1>14. ASSUME SocketBreaks PROVE WireGood'
  BY <1>14, LoseSocketKeeps DEF SocketBreaks
<1>15. ASSUME NEW s \in Takes, HandleChunk(s) PROVE WireGood'
  BY <1>15, HandleChunkKeeps
<1>16. ASSUME NEW s \in Takes, HandleFlush(s) PROVE WireGood'
  BY <1>16, HandleFlushKeeps
<1>17. ASSUME NEW s \in Takes, NEW kind \in {"chain", "cleanup"}, Continue(s, kind) PROVE WireGood'
  BY <1>17, ContinueChainKeeps, ContinueCleanupKeeps
<1>18. ASSUME NEW s \in Takes, NEW kind \in {"chain", "cleanup"}, TimeOut(s, kind) PROVE WireGood'
  BY <1>1, <1>18, TimeOutKeeps
<1>19. ASSUME ServeStart PROVE WireGood'
  BY <1>19, ServeStartKeeps
<1>20. ASSUME ServeWaiting PROVE WireGood'
  BY <1>20, ServeWaitingKeeps
<1>21. ASSUME ServeFinish PROVE WireGood'
  BY <1>21, ServeFinishKeeps
<1>22. ASSUME ServePacket PROVE WireGood'
  BY <1>22, ServePacketKeeps
<1>23. ASSUME NEW kind \in {"edit", "take"}, OtherSession(kind) PROVE WireGood'
  BY <1>23, OtherKeeps DEF OtherSession
<1>24. ASSUME OtherEnds PROVE WireGood'
  BY <1>24, OtherKeeps DEF OtherEnds
<1> QED
  BY <1>2, <1>3, <1>4, <1>5, <1>6, <1>7, <1>8, <1>9, <1>10, <1>11, <1>12, <1>13, <1>14, <1>15,
     <1>16, <1>17, <1>18, <1>19, <1>20, <1>21, <1>22, <1>23, <1>24 DEF WireNext, WireSystem

(* What is out of step stays so.                                           *)

Flagged(st) == "rushed" \in DOMAIN st

Carries(st, c) == Flagged(c) /\ (st.rushed => c.rushed)

Flags == Flagged(stage) /\ "misled" \in DOMAIN singer

KeptOutOfStep == Carries(stage, stage') /\ "misled" \in DOMAIN singer' /\ (singer.misled => singer'.misled)

LEMMA CarriedOn ==
  ASSUME NEW a, NEW b, NEW c, Carries(a, b), Carries(b, c)
  PROVE  Carries(a, c)
BY DEF Carries

LEMMA ClearedCarries ==
  ASSUME NEW st, Flagged(st)
  PROVE  Carries(st, Cleared(st))
BY DEF Carries, Flagged, Cleared

LEMMA SteppedCarries ==
  ASSUME NEW st, Flagged(st), NEW kind \in {"chain", "cleanup"}, NEW s, NEW v
  PROVE  Carries(st, [st EXCEPT ![kind][s] = v])
BY DEF Carries, Flagged

LEMMA InterruptedCarries ==
  ASSUME NEW st, Flagged(st)
  PROVE  Carries(st, Interrupted(st))
<1> DEFINE c == Cleared(st)
<1>1. Carries(st, c)
  BY ClearedCarries
<1>2. Flagged(c)
  BY <1>1 DEF Carries
<1> HIDE DEF c
<1>3. Interrupted(st) = IF st.stream = NoTake THEN c
        ELSE [c EXCEPT !.cleanup[st.stream] = "ready", !.failed = @ \cup {st.stream}]
  BY DEF Interrupted, c
<1>4. Carries(c, [c EXCEPT !.cleanup[st.stream] = "ready", !.failed = @ \cup {st.stream}])
  BY <1>2 DEF Carries, Flagged
<1> DEFINE d == [c EXCEPT !.cleanup[st.stream] = "ready", !.failed = @ \cup {st.stream}]
<1> HIDE DEF d
<1>5. Carries(st, d)
  BY <1>1, <1>4, CarriedOn DEF d
<1> QED
  BY <1>1, <1>3, <1>5 DEF d

LEMMA FlagsKeep ==
  ASSUME Flags, [WireNext]_wireVars
  PROVE  KeptOutOfStep
<1>1. Flagged(stage) /\ "misled" \in DOMAIN singer
  BY DEF Flags
<1>2. ASSUME UNCHANGED <<stage, singer>> PROVE KeptOutOfStep
  BY <1>1, <1>2 DEF KeptOutOfStep, Carries
<1>3. ASSUME Carries(stage, stage'), UNCHANGED singer PROVE KeptOutOfStep
  BY <1>1, <1>3 DEF KeptOutOfStep
<1>4. ASSUME UNCHANGED stage, "misled" \in DOMAIN singer', singer.misled => singer'.misled PROVE KeptOutOfStep
  BY <1>1, <1>4 DEF KeptOutOfStep, Carries
<1>5. ASSUME NEW draft \in BOOLEAN, StartTake(draft) PROVE KeptOutOfStep
  BY <1>1, <1>4, <1>5 DEF StartTake
<1>6. ASSUME StopTake PROVE KeptOutOfStep
  BY <1>1, <1>4, <1>6 DEF StopTake
<1>7. ASSUME FinishTake PROVE KeptOutOfStep
  BY <1>1, <1>2, <1>4, <1>7 DEF FinishTake
<1>8. ASSUME HearDecoder PROVE KeptOutOfStep
  BY <1>1, <1>4, <1>8 DEF HearDecoder
<1> DEFINE cleared == Cleared(stage)
<1>9. Carries(stage, cleared) /\ Flagged(cleared)
  BY <1>1, ClearedCarries DEF Carries
<1>10. ASSUME HandleStart PROVE KeptOutOfStep
  <2>1. UNCHANGED singer
    BY <1>10 DEF HandleStart
  <2>2. \/ \E s : stage' = [cleared EXCEPT !.draft = TRUE, !.stream = s]
        \/ \E s : stage' = [cleared EXCEPT !.draft = FALSE, !.stream = s, !.session = s]
        \/ stage' = [cleared EXCEPT !.draft = FALSE]
    BY <1>10, Zenon DEF HandleStart
  <2> HIDE DEF cleared
  <2>3. Carries(cleared, stage')
    BY <1>9, <2>2 DEF Carries, Flagged
  <2>4. Carries(stage, stage')
    BY <1>9, <2>3, CarriedOn
  <2> QED
    BY <1>3, <2>1, <2>4
<1> HIDE DEF cleared
<1>11. ASSUME HandleFinish PROVE KeptOutOfStep
  <2>1. UNCHANGED singer /\ (UNCHANGED stage \/ stage' = [stage EXCEPT !.chain[stage.stream] = "flush"])
    BY <1>11 DEF HandleFinish
  <2>2. Carries(stage, stage')
    BY <1>1, <2>1 DEF Carries, Flagged
  <2> QED
    BY <1>3, <2>1, <2>2
<1>12. ASSUME HandleEvent PROVE KeptOutOfStep
  <2>1. /\ UNCHANGED singer
        /\ \/ UNCHANGED stage
           \/ \E n : stage' = [stage EXCEPT !.ready = TRUE, !.started = n]
           \/ \E n : stage' = [stage EXCEPT !.ready = FALSE, !.over = n]
    BY <1>12 DEF HandleEvent
  <2>2. Carries(stage, stage')
    BY <1>1, <2>1 DEF Carries, Flagged
  <2> QED
    BY <1>3, <2>1, <2>2
<1>13. ASSUME LoseSocket, UNCHANGED singer PROVE KeptOutOfStep
  <2>1. \E chain, cleanup :
          LET broken == [stage EXCEPT !.chain = chain, !.cleanup = cleanup]
          IN stage' = Interrupted(broken) \/ stage' = broken
    BY <1>13 DEF LoseSocket
  <2>2. PICK chain, cleanup :
          \/ stage' = Interrupted([stage EXCEPT !.chain = chain, !.cleanup = cleanup])
          \/ stage' = [stage EXCEPT !.chain = chain, !.cleanup = cleanup]
    BY <2>1
  <2> DEFINE broken == [stage EXCEPT !.chain = chain, !.cleanup = cleanup]
  <2>3. Carries(stage, broken) /\ Flagged(broken)
    BY <1>1 DEF Carries, Flagged
  <2>4. stage' = Interrupted(broken) \/ stage' = broken
    BY <2>2
  <2> HIDE DEF broken
  <2>5. Carries(stage, Interrupted(broken))
    BY <2>3, InterruptedCarries, CarriedOn
  <2> QED
    BY <1>3, <1>13, <2>3, <2>4, <2>5
<1> DEFINE stepped(kind, s, v) == [stage EXCEPT ![kind][s] = v]
<1>14. ASSUME NEW kind \in {"chain", "cleanup"}, NEW s \in Takes, NEW v
       PROVE  /\ Carries(stage, stepped(kind, s, v)) /\ Flagged(stepped(kind, s, v))
              /\ Carries(stage, Cleared(stepped(kind, s, v)))
              /\ Carries(stage, Interrupted(stepped(kind, s, v)))
  <2> DEFINE c == stepped(kind, s, v)
  <2>1. Carries(stage, c) /\ Flagged(c)
    BY <1>1, SteppedCarries DEF Carries
  <2> HIDE DEF stepped
  <2>2. Carries(c, Cleared(c)) /\ Carries(c, Interrupted(c))
    BY <2>1, ClearedCarries, InterruptedCarries
  <2> QED
    BY <2>1, <2>2, CarriedOn
<1>15. ASSUME NEW s \in Takes, NEW kind \in {"chain", "cleanup"}, Continue(s, kind) PROVE KeptOutOfStep
  <2>1. UNCHANGED singer /\ \E v : stage' = stepped(kind, s, v) \/ stage' = Cleared(stepped(kind, s, v))
    BY <1>15 DEF Continue
  <2> HIDE DEF stepped
  <2>2. Carries(stage, stage')
    BY <1>14, <2>1
  <2> QED
    BY <1>3, <2>1, <2>2
<1>16. ASSUME NEW s \in Takes, NEW kind \in {"chain", "cleanup"}, TimeOut(s, kind) PROVE KeptOutOfStep
  <2>1. /\ UNCHANGED singer
        /\ \/ stage' = [stage EXCEPT ![kind][s] = "start", !.rushed = TRUE]
           \/ \E v : stage' = stepped(kind, s, v) \/ stage' = Cleared(stepped(kind, s, v))
           \/ stage' = [Interrupted(stepped(kind, s, "done")) EXCEPT !.gaveUp = @ \cup {s}]
    BY <1>16 DEF TimeOut
  <2>2. CASE stage' = [stage EXCEPT ![kind][s] = "start", !.rushed = TRUE]
    <3>1. Carries(stage, stage')
      BY <1>1, <2>2 DEF Carries, Flagged
    <3> QED
      BY <1>3, <2>1, <3>1
  <2> HIDE DEF stepped
  <2>3. CASE \E v : stage' = stepped(kind, s, v) \/ stage' = Cleared(stepped(kind, s, v))
    <3>1. Carries(stage, stage')
      BY <1>14, <2>3
    <3> QED
      BY <1>3, <2>1, <3>1
  <2>4. CASE stage' = [Interrupted(stepped(kind, s, "done")) EXCEPT !.gaveUp = @ \cup {s}]
    <3> DEFINE c == Interrupted(stepped(kind, s, "done"))
    <3>1. Carries(stage, c)
      BY <1>14
    <3>2. stage' = [c EXCEPT !.gaveUp = @ \cup {s}]
      BY <2>4
    <3> HIDE DEF c
    <3>3. Carries(c, stage')
      BY <3>1, <3>2 DEF Carries, Flagged
    <3>4. Carries(stage, stage')
      BY <3>1, <3>3, CarriedOn
    <3> QED
      BY <1>3, <2>1, <3>4
  <2> QED
    BY <2>1, <2>2, <2>3, <2>4
<1>17. ASSUME \/ PostChunk \/ PostFlush \/ SocketOpens \/ UNCHANGED wireVars
              \/ ServeStart \/ ServeWaiting \/ ServeFinish \/ ServePacket \/ OtherEnds
              \/ \E s \in Takes : HandleChunk(s) \/ HandleFlush(s)
              \/ \E kind \in {"edit", "take"} : OtherSession(kind)
       PROVE  KeptOutOfStep
  <2>1. UNCHANGED <<stage, singer>>
    BY <1>17 DEF PostChunk, PostFlush, SocketOpens, wireVars, ServeStart, ServeWaiting,
       ServeFinish, ServePacket, OtherEnds, HandleChunk, HandleFlush, OtherSession
  <2> QED
    BY <1>2, <2>1
<1>18. ASSUME SocketBreaks \/ ServerCloses PROVE KeptOutOfStep
  BY <1>13, <1>18 DEF SocketBreaks, ServerCloses
<1> QED
  BY <1>5, <1>6, <1>7, <1>8, <1>10, <1>11, <1>12, <1>15, <1>16, <1>17, <1>18 DEF WireNext, WireSystem

\* As long as the page and the worker are in step the wire is good; once they are
\* not, they stay out of step.
WireSafe == Flags /\ WireInv

LEMMA WireInvariant == WireSpec => []WireSafe
<1>1. WireInit => WireSafe
  <2> SUFFICES ASSUME WireInit PROVE WireSafe
    OBVIOUS
  <2>1. WireGood
    BY WireStarts
  <2>2. Flags
    BY GoodTypes, <2>1 DEF Flags, Flagged, Stages, Singers
  <2> QED
    BY <2>1, <2>2 DEF WireSafe, WireInv
<1>2. WireSafe /\ [WireNext]_wireVars => WireSafe'
  <2> SUFFICES ASSUME WireSafe, [WireNext]_wireVars PROVE WireSafe'
    OBVIOUS
  <2>1. Flags /\ (InStep => WireGood)
    BY DEF WireSafe, WireInv
  <2>2. KeptOutOfStep
    BY <2>1, FlagsKeep
  <2>3. Flags' /\ (InStep' => InStep)
    BY <2>2 DEF KeptOutOfStep, Carries, Flags, Flagged, InStep
  <2>4. InStep' => WireGood'
    BY <2>1, <2>3, WireKeeps
  <2> QED
    BY <2>3, <2>4 DEF WireSafe, WireInv
<1> QED
  BY <1>1, <1>2, PTL DEF WireSpec

\* A take is not begun under the refusal of an earlier one: the finish that owes
\* its answer is on its way (realtime.rs start_recording and finish_recording,
\* recordingController.worker.ts clearRecordingStream).
THEOREM RefusalsCorrect == WireSpec => []RefusalsAnswered
<1>1. WireSafe => RefusalsAnswered
  BY DEF WireSafe, WireInv, WireGood, Wired, Plugged, RefusalsAnswered
<1> QED
  BY <1>1, WireInvariant, PTL

\* A chunk is stored in its own take, unless the client gave up waiting for the
\* start of the take it belongs to (realtime.worker.ts flush and sendBinary).
THEOREM ApartCorrect == WireSpec => []TakesApart
<1>1. WireSafe => TakesApart
  <2> SUFFICES ASSUME WireSafe, InStep, NEW s \in Takes, NEW i \in DOMAIN room.stored[s]
               PROVE  room.stored[s][i].take \in {s} \cup stage.gaveUp
    BY DEF TakesApart
  <2>1. WireGood
    BY DEF WireSafe, WireInv
  <2>2. room \in Rooms /\ Sorted(wire, room, stage)
    BY <2>1, GoodTypes DEF Wired
  <2> DEFINE t == room.stored[s][i].take
  <2>3. t \in Takes /\ IsPacket(room.stored[s][i])
    <3>1. room.stored[s] \in Seq(Packet)
      BY <2>2 DEF Rooms
    <3>2. room.stored[s][i] \in Packet
      BY <3>1
    <3> QED
      BY <3>2 DEF Packet, IsPacket
  <2>4. ~NoneOf(room.stored[s], t)
    BY <2>3 DEF NoneOf, Of
  <2>5. t = s \/ t \in stage.gaveUp
    BY <2>2, <2>3, <2>4 DEF Sorted
  <2> QED
    BY <2>5
<1> QED
  BY <1>1, WireInvariant, PTL

\* A take that the server ended and no failure interrupted holds every chunk that
\* was sung, in its order (runtime.worker.ts finishRecordingStream).
THEOREM WholeCorrect == WireSpec => []TakesWhole
<1>1. WireSafe => TakesWhole
  <2> SUFFICES ASSUME WireSafe, InStep, NEW s \in room.ended \ stage.failed
               PROVE  StoredOf(s) = [n \in 1..pipe[s].posted |->
                          [kind |-> "packet", take |-> s, number |-> n]]
    BY DEF TakesWhole
  <2>1. WireGood
    BY DEF WireSafe, WireInv
  <2>2. room \in Rooms /\ pipe \in Pipes /\ \A t \in Takes : Complete(wire, room, stage, pipe, t)
    BY <2>1, GoodTypes DEF Wired
  <2>3. s \in Takes
    BY <2>2 DEF Rooms
  <2>4. Counts(room.stored[s], s, pipe[s].posted)
    BY <2>2, <2>3 DEF Complete
  <2>5. room.stored[s] \in Seq(Packet) /\ pipe[s].posted \in Nat
    BY <2>2, <2>3 DEF Rooms, Pipes
  <2> QED
    BY <2>3, <2>4, <2>5, CountWhole DEF StoredOf
<1> QED
  BY <1>1, WireInvariant, PTL
=============================================================================
