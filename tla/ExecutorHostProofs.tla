-------------------------- MODULE ExecutorHostProofs --------------------------
(***************************************************************************)
(* For any number of connections, sessions and faults: one job runs at a   *)
(* time, that of a session that is gone is being stopped, and the lead is  *)
(* with the first capable connection.                                      *)
(***************************************************************************)
EXTENDS ExecutorHost, SequenceTheorems, WellFoundedInduction, TLAPS

Tasks == {"away", "open", "retire", "find", "publish", "reload", "detach", "leftFind",
          "leftPublish", "serves", "gone"}
RunnerPlaces == {"idle", "await", "seen", "bound", "inserted", "armed", "opening",
                 "running", "drop", "dropping"}
Messages == [type : {"ready", "opened", "result", "failed", "job", "units", "close", "reload"},
             of : 0..MaxSessions]
Jobs == [of : 0..MaxSessions, at : {"none", "loading", "serving", "served"}]
Abandonings ==
    [at : {"none", "drain", "take", "clear"}, of : 0..MaxSessions, running : BOOLEAN]
Abandoners == Connections \union {Runner}

HostType ==
    /\ connections \subseteq Connections
    /\ capable \subseteq Connections
    /\ leader \in 0..MaxConnections
    /\ session \in 0..MaxSessions
    /\ task \in [Connections -> Tasks]
    /\ found \in [Connections -> 0..MaxConnections]
    /\ active \subseteq Sessions
    /\ executor \in [Sessions -> 0..MaxConnections]
    /\ abandoning \in [Abandoners -> Abandonings]
    /\ runner \in RunnerPlaces
    /\ current \in 0..MaxSessions
    /\ seen \in 0..MaxConnections
    /\ page \in [Connections -> {"none", "up", "ready", "closed", "over"}]
    /\ job \in [Connections -> Jobs]
    /\ commands \in [Connections -> Seq(Messages)]
    /\ messages \in [Connections -> Seq(Messages)]

-----------------------------------------------------------------------------
\* What a page has to run: the job n it runs, at place 0, and those in its
\* channel q.
Stopping == {"close", "reload"}
At(n, q, i) ==
    IF i = 0 THEN n ELSE IF q[i].type = "job" THEN q[i].of ELSE None
Loads(n, q) == {At(n, q, i) : i \in 0..Len(q)} \ {None}
Unstopped(q) == \A i \in 1..Len(q) : q[i].type \notin Stopping

\* No job is there twice, and none follows another without a stop before it.
Apart(n, q) ==
    /\ \A i \in 1..Len(q) : q[i].type = "job" => q[i].of # None
    /\ \A i, j \in 0..Len(q) :
         At(n, q, i) # None /\ At(n, q, j) # None /\ i < j
         => /\ At(n, q, i) # At(n, q, j)
            /\ \E k \in 1..j : q[k].type \in Stopping

LoadsOf(c) == Loads(job[c].of, commands[c])

\* One page after another.
Standing ==
    \A c \in Connections :
        /\ page[c] = "none" <=> task[c] = "away"
        /\ page[c] = "none" => commands[c] = <<>> /\ c \notin capable
        /\ Gone(c) => commands[c] = <<>>
        /\ page[c] \in {"none", "over"} => job[c] = NoJob
        /\ job[c].of = None => job[c] = NoJob
        /\ page[c] # "none" => \A d \in 1..(c - 1) : page[d] = "over"

\* How far a session is.
Begun(s) == s < current \/ (s = current /\ runner \notin {"await", "seen"})
Sent(s) ==
    s < current \/ (s = current /\ runner \in {"idle", "opening", "running", "drop", "dropping"})
Ended(s) ==
    \/ s < current
    \/ /\ s = current
       /\ \/ runner = "idle"
          \/ runner = "dropping" /\ abandoning[Runner].at = "none"

\* Who abandons which session, and what it then still has.
OpenSession ==
    /\ session # None => session = current /\ runner # "idle"
    /\ runner # "idle" => current \in Sessions

RunnerLeaves ==
    /\ runner # "dropping" => abandoning[Runner].at = "none"
    /\ abandoning[Runner].at # "none" => abandoning[Runner].of = current
    /\ abandoning[Runner].at = "clear" => current \notin active

TaskLeaves(x, s) ==
    s \in Sessions /\ Begun(s) /\ executor[s] \in {x, Nobody} /\ task[x] = "gone"

TasksLeave ==
    \A x \in Connections : abandoning[x].at # "none" => TaskLeaves(x, abandoning[x].of)

LetGo ==
    \A s \in Sessions :
        /\ ~Begun(s) => executor[s] = Nobody
        /\ Ended(s) => executor[s] = Nobody /\ s \notin active

Armed ==
    runner = "armed" =>
        \/ current \in active
        \/ executor[current] = Nobody
        \/ task[executor[current]] = "gone"

Leaving == OpenSession /\ RunnerLeaves /\ TasksLeave /\ LetGo /\ Armed

\* A job is where it was sent once; nothing was said of it before it has ended.
AllApart == \A c \in Connections : Apart(job[c].of, commands[c])

OnePage == \A c, d \in Connections : c # d => LoadsOf(c) \intersect LoadsOf(d) = {}

AllSent == \A c \in Connections : \A s \in LoadsOf(c) : Sent(s)

Over(s) == s \in Sessions /\ Sent(s) /\ \A c \in Connections : s \notin LoadsOf(c)

Told ==
    \A d \in Connections : \A i \in 1..Len(messages[d]) :
        messages[d][i].type \in {"result", "failed"} => Over(messages[d][i].of)

Delivered == AllApart /\ OnePage /\ AllSent /\ Told

\* A job that nothing stops is one whose session can stop it.
Served ==
    \A c \in Connections :
        Serves(c) /\ PageThere(c) /\ Unstopped(commands[c]) =>
          \A s \in LoadsOf(c) :
            /\ executor[s] = c
            /\ \/ s \in active
               \/ /\ abandoning[Runner].at = "clear" /\ abandoning[Runner].running
                  /\ abandoning[Runner].of = s

HostInv == HostType /\ Standing /\ Leaving /\ Delivered /\ Served /\ ~busy

-----------------------------------------------------------------------------
(* Channels.                                                                *)

LEMMA MessageType ==
  ASSUME NEW m \in Messages
  PROVE  m.of \in 0..MaxSessions /\ m = Message(m.type, m.of)
BY DEF Messages, Message

LEMMA ItemType ==
  ASSUME NEW q \in Seq(Messages)
  PROVE  Len(q) \in Nat /\ \A i \in 1..Len(q) : q[i] \in Messages
BY ElementOfSeq, LenProperties

LEMMA LoadsType ==
  ASSUME NEW n \in 0..MaxSessions, NEW q \in Seq(Messages)
  PROVE  Loads(n, q) \subseteq Sessions
<1>1. MaxSessions \in Nat
  BY HostAssumption
<1>2. ASSUME NEW i \in 0..Len(q) PROVE At(n, q, i) \in 0..MaxSessions
  <2>1. CASE i = 0
    BY <2>1 DEF At
  <2>2. CASE i # 0
    <3>1. q[i] \in Messages
      BY <1>2, <2>2, ItemType
    <3> QED
      BY <1>1, <2>2, <3>1 DEF At, Messages, None
  <2> QED
    BY <2>1, <2>2
<1> QED
  BY <1>1, <1>2 DEF Loads, Sessions, None

\* The foremost message leaves the channel: a job begins to run, anything else
\* that stops nothing is done.
LEMMA LoadTaken ==
  ASSUME NEW n \in 0..MaxSessions, NEW q \in Seq(Messages), q # <<>>, Apart(n, q),
         Head(q).type \notin Stopping,
         NEW m, m = IF Head(q).type = "job" THEN Head(q).of ELSE n,
         Head(q).type = "job" => n = None
  PROVE  /\ Apart(m, Tail(q)) /\ Loads(m, Tail(q)) \subseteq Loads(n, q)
         /\ Unstopped(Tail(q)) => Unstopped(q)
<1> DEFINE r == Tail(q)
<1>1. /\ r \in Seq(Messages) /\ Len(r) = Len(q) - 1 /\ Len(q) \in Nat /\ Len(q) > 0
      /\ \A i \in 1..Len(r) : r[i] = q[i + 1]
      /\ Head(q) = q[1]
  BY HeadTailProperties, EmptySeq, LenProperties
<1> HIDE DEF r
<1> DEFINE e(i) == IF i = 0 /\ Head(q).type # "job" THEN 0 ELSE i + 1
<1>2. ASSUME NEW i \in 0..Len(r)
      PROVE  e(i) \in 0..Len(q) /\ At(m, r, i) = At(n, q, e(i))
  <2>1. CASE i = 0
    BY <1>1, <2>1 DEF At
  <2>2. CASE i # 0
    BY <1>1, <1>2, <2>2 DEF At
  <2> QED
    BY <2>1, <2>2
<1>3. ASSUME NEW i \in 0..Len(r), NEW j \in 0..Len(r), i < j PROVE e(i) < e(j)
  BY <1>1, <1>3
<1>4. ASSUME NEW k \in 1..Len(q), q[k].type \in Stopping
      PROVE  k - 1 \in 1..Len(r) /\ r[k - 1] = q[k]
  BY <1>1, <1>4
<1>5. Unstopped(r) => Unstopped(q)
  BY <1>4 DEF Unstopped
<1>6. Loads(m, r) \subseteq Loads(n, q)
  <2> HIDE DEF e
  <2> QED
    BY <1>2 DEF Loads
<1>7. ASSUME NEW i \in 0..Len(r), NEW j \in 0..Len(r),
             At(m, r, i) # None, At(m, r, j) # None, i < j
      PROVE  /\ At(m, r, i) # At(m, r, j)
             /\ \E k \in 1..j : r[k].type \in Stopping
  <2>1. /\ e(i) \in 0..Len(q) /\ e(j) \in 0..Len(q) /\ e(i) < e(j)
        /\ At(m, r, i) = At(n, q, e(i)) /\ At(m, r, j) = At(n, q, e(j))
    BY <1>2, <1>3, <1>7
  <2>2. e(j) = j + 1
    BY <1>1, <1>7
  <2> HIDE DEF e
  <2>3. /\ At(n, q, e(i)) # At(n, q, e(j))
        /\ \E k \in 1..e(j) : q[k].type \in Stopping
    BY <1>7, <2>1 DEF Apart
  <2>4. PICK k \in 1..e(j) : q[k].type \in Stopping
    BY <2>3
  <2>5. k - 1 \in 1..j /\ r[k - 1] = q[k]
    <3>1. k \in 1..Len(q)
      BY <2>1, <2>4, <1>1
    <3>2. k - 1 \in 1..Len(r) /\ r[k - 1] = q[k]
      BY <1>4, <2>4, <3>1
    <3> QED
      BY <1>1, <2>2, <3>1, <3>2
  <2> QED
    BY <2>1, <2>3, <2>4, <2>5
<1>8. \A i \in 1..Len(r) : r[i].type = "job" => r[i].of # None
  BY <1>1 DEF Apart
<1>9. Apart(m, r)
  BY <1>7, <1>8 DEF Apart
<1> QED
  BY <1>5, <1>6, <1>9 DEF r

\* What is sent after the others.  A job is sent where nothing is left to run, or
\* behind a stop.
LEMMA LoadSent ==
  ASSUME NEW n \in 0..MaxSessions, NEW q \in Seq(Messages), NEW m \in Messages, Apart(n, q),
         m.type = "job" => /\ m.of # None /\ m.of \notin Loads(n, q)
                           /\ Unstopped(q) => Loads(n, q) = {}
  PROVE  LET r == Append(q, m) IN
         /\ r \in Seq(Messages) /\ Apart(n, r)
         /\ Loads(n, r) = Loads(n, q) \union IF m.type = "job" THEN {m.of} ELSE {}
         /\ Unstopped(r) <=> Unstopped(q) /\ m.type \notin Stopping
<1> DEFINE r == Append(q, m)
<1>1. /\ r \in Seq(Messages) /\ Len(r) = Len(q) + 1 /\ Len(q) \in Nat
      /\ \A i \in 1..Len(q) : r[i] = q[i]
      /\ r[Len(r)] = m
  BY AppendProperties, LenProperties
<1> HIDE DEF r
<1>2. ASSUME NEW i \in 0..Len(q) PROVE At(n, r, i) = At(n, q, i)
  BY <1>1, <1>2 DEF At
<1>3. At(n, r, Len(r)) = IF m.type = "job" THEN m.of ELSE None
  BY <1>1 DEF At
<1>4. 0..Len(r) = (0..Len(q)) \union {Len(r)}
  BY <1>1
<1>5. Loads(n, r) = Loads(n, q) \union IF m.type = "job" THEN {m.of} ELSE {}
  BY <1>2, <1>3, <1>4 DEF Loads
<1>6. Unstopped(r) <=> Unstopped(q) /\ m.type \notin Stopping
  <2>1. 1..Len(r) = (1..Len(q)) \union {Len(r)}
    BY <1>1
  <2> QED
    BY <1>1, <2>1 DEF Unstopped
<1>7. ASSUME NEW i \in 0..Len(r), NEW j \in 0..Len(r),
             At(n, r, i) # None, At(n, r, j) # None, i < j
      PROVE  /\ At(n, r, i) # At(n, r, j)
             /\ \E k \in 1..j : r[k].type \in Stopping
  <2>1. i \in 0..Len(q) /\ At(n, r, i) = At(n, q, i)
    BY <1>1, <1>2, <1>7
  <2>2. CASE j \in 0..Len(q)
    <3>1. At(n, r, j) = At(n, q, j)
      BY <1>2, <2>2
    <3>2. At(n, q, i) # At(n, q, j) /\ \E k \in 1..j : q[k].type \in Stopping
      BY <1>7, <2>1, <2>2, <3>1 DEF Apart
    <3>3. PICK k \in 1..j : q[k].type \in Stopping
      BY <3>2
    <3>4. k \in 1..Len(q)
      BY <1>1, <2>2, <3>3
    <3> QED
      BY <1>1, <2>1, <3>1, <3>2, <3>3, <3>4
  <2>3. CASE j = Len(r)
    <3>1. m.type = "job" /\ At(n, r, j) = m.of
      BY <1>3, <1>7, <2>3
    <3>2. At(n, q, i) \in Loads(n, q)
      BY <1>7, <2>1 DEF Loads
    <3>3. PICK k \in 1..Len(q) : q[k].type \in Stopping
      BY <3>1, <3>2 DEF Unstopped
    <3>4. k \in 1..j /\ r[k] = q[k]
      BY <1>1, <2>3, <3>3
    <3> QED
      BY <2>1, <3>1, <3>2, <3>3, <3>4
  <2> QED
    BY <1>4, <1>7, <2>2, <2>3
<1>8. \A i \in 1..Len(r) : r[i].type = "job" => r[i].of # None
  <2>1. 1..Len(r) = (1..Len(q)) \union {Len(r)}
    BY <1>1
  <2> QED
    BY <1>1, <2>1 DEF Apart
<1>9. Apart(n, r)
  BY <1>7, <1>8 DEF Apart
<1> QED
  BY <1>1, <1>5, <1>6, <1>9 DEF r

\* The job that runs ends.
LEMMA LoadEnded ==
  ASSUME NEW n \in 0..MaxSessions, NEW q \in Seq(Messages), Apart(n, q)
  PROVE  /\ Apart(None, q) /\ Loads(None, q) \subseteq Loads(n, q)
         /\ n # None => n \notin Loads(None, q) /\ n \in Loads(n, q)
<1>1. Len(q) \in Nat
  BY ItemType
<1>2. ASSUME NEW i \in 0..Len(q), At(None, q, i) # None
      PROVE  i # 0 /\ At(None, q, i) = At(n, q, i)
  BY <1>2 DEF At
<1>3. Apart(None, q)
  BY <1>2 DEF Apart
<1>4. Loads(None, q) \subseteq Loads(n, q)
  BY <1>2 DEF Loads
<1>5. ASSUME n # None PROVE n \notin Loads(None, q) /\ n \in Loads(n, q)
  <2>1. 0 \in 0..Len(q) /\ At(n, q, 0) = n
    BY <1>1 DEF At
  <2>2. ASSUME NEW i \in 0..Len(q), At(None, q, i) = n PROVE FALSE
    <3>1. i # 0 /\ At(n, q, i) = n
      BY <1>2, <1>5, <2>2
    <3>2. 0 < i
      BY <1>1, <3>1
    <3> QED
      BY <1>5, <2>1, <3>1, <3>2 DEF Apart
  <2> QED
    BY <1>5, <2>1, <2>2 DEF Loads
<1> QED
  BY <1>3, <1>4, <1>5

\* The channel is gone.
LEMMA LoadUnread ==
  ASSUME NEW n \in 0..MaxSessions, NEW q \in Seq(Messages)
  PROVE  /\ <<>> \in Seq(Messages) /\ Apart(n, <<>>)
         /\ Loads(n, <<>>) = {n} \ {None} /\ Loads(n, <<>>) \subseteq Loads(n, q)
<1>1. Len(q) \in Nat /\ Len(<<>>) = 0 /\ <<>> \in Seq(Messages)
  BY ItemType, EmptySeq
<1>2. Apart(n, <<>>)
  BY <1>1 DEF Apart
<1>3. 0 \in 0..Len(q) /\ At(n, q, 0) = n /\ At(n, <<>>, 0) = n /\ 0..0 = {0}
  BY <1>1 DEF At
<1> QED
  BY <1>1, <1>2, <1>3 DEF Loads

\* A job that is heard finds none that runs.
LEMMA LoadForemost ==
  ASSUME NEW n \in 0..MaxSessions, NEW q \in Seq(Messages), q # <<>>, Apart(n, q),
         Head(q).type = "job"
  PROVE  n = None /\ Head(q).of # None /\ Head(q).of \in Loads(n, q)
<1>1. Len(q) \in Nat /\ Len(q) > 0 /\ Head(q) = q[1]
  BY HeadTailProperties, EmptySeq, LenProperties
<1>2. /\ 0 \in 0..Len(q) /\ 1 \in 0..Len(q) /\ Head(q).of # None
      /\ At(n, q, 0) = n /\ At(n, q, 1) = Head(q).of
  BY <1>1 DEF At, Apart
<1>3. ASSUME n # None PROVE FALSE
  <2>1. PICK k \in 1..1 : q[k].type \in Stopping
    BY <1>2, <1>3 DEF Apart
  <2> QED
    BY <1>1, <2>1 DEF Stopping
<1> QED
  BY <1>2, <1>3 DEF Loads

-----------------------------------------------------------------------------
(* Types.                                                                   *)

LEMMA MessageIsOne ==
  ASSUME NEW s \in 0..MaxSessions
  PROVE  \A type \in {"ready", "opened", "result", "failed", "job", "units", "close", "reload"} :
           Message(type, s) \in Messages
BY DEF Message, Messages

LEMMA QueuedType ==
  ASSUME HostType, NEW c \in Connections, NEW m \in Messages
  PROVE  /\ Queued(c, m) \in [Connections -> Seq(Messages)]
         /\ \A d \in Connections : Gone(d) \/ d # c => Queued(c, m)[d] = commands[d]
         /\ ~Gone(c) => Queued(c, m)[c] = Append(commands[c], m)
BY DEF Queued, HostType

Below == {pair \in Nat \X Nat : pair[1] < pair[2]}

LEMMA LeastOf ==
  ASSUME NEW S \in SUBSET Nat, S # {}
  PROVE  \E least \in S : \A n \in S : least <= n
<1>1. IsWellFoundedOn(Below, Nat)
  BY NatLessThanWellFounded, Zenon DEF OpToRel, Below
<1>2. PICK least \in S : \A n \in S : <<n, least>> \notin Below
  BY <1>1, WFMin, Zenon
<1>3. ASSUME NEW n \in S PROVE least <= n
  <2>1. <<n, least>> \in Below <=> n < least
    BY DEF Below
  <2> QED
    BY <1>2, <2>1
<1> QED
  BY <1>3

LEMMA FirstType ==
  ASSUME HostType
  PROVE  FirstCapable \in 0..MaxConnections
<1> DEFINE able == connections \intersect capable
<1>1. able \subseteq Connections /\ Connections \subseteq Nat
  BY DEF HostType, Connections
<1>2. CASE able = {}
  BY <1>2, HostAssumption DEF FirstCapable, Nobody
<1>3. CASE able # {}
  <2>1. able \in SUBSET Nat
    BY <1>1
  <2>2. PICK n \in able : \A d \in able : n <= d
    BY <1>3, <2>1, LeastOf
  <2> QED
    BY <1>1, <1>3, <2>2 DEF FirstCapable, Connections
<1> QED
  BY <1>2, <1>3

LEMMA HeardType ==
  ASSUME HostType, NEW c \in Connections, messages[c] # <<>>
  PROVE  /\ Head(messages[c]) \in Messages /\ Tail(messages[c]) \in Seq(Messages)
         /\ Len(messages[c]) \in Nat /\ Len(messages[c]) > 0
         /\ Head(messages[c]) = messages[c][1]
         /\ Len(Tail(messages[c])) = Len(messages[c]) - 1
         /\ \A i \in 1..Len(Tail(messages[c])) : Tail(messages[c])[i] = messages[c][i + 1]
BY HeadTailProperties, EmptySeq, LenProperties DEF HostType

LEMMA ObeyedType ==
  ASSUME HostType, NEW c \in Connections, commands[c] # <<>>
  PROVE  /\ Head(commands[c]) \in Messages /\ Tail(commands[c]) \in Seq(Messages)
         /\ Head(commands[c]).of \in 0..MaxSessions
<1>1. Head(commands[c]) \in Messages /\ Tail(commands[c]) \in Seq(Messages)
  BY HeadTailProperties, EmptySeq DEF HostType
<1> QED
  BY <1>1, MessageType

LEMMA SaidType ==
  ASSUME HostType, NEW c \in Connections, NEW s \in 0..MaxSessions,
         NEW type \in {"ready", "opened", "result", "failed"}, Say(c, type, s)
  PROVE  /\ messages' \in [Connections -> Seq(Messages)]
         /\ \A d \in Connections : d # c => messages'[d] = messages[d]
         /\ messages'[c] = Append(messages[c], Message(type, s))
BY MessageIsOne DEF HostType, Say

\* Where the channels go, the rest of the type is kept.
LEMMA TakenType ==
  ASSUME HostType, NEW c \in Connections, NEW type, Take(c, type)
  PROVE  messages' \in [Connections -> Seq(Messages)]
BY HeardType DEF HostType, Take

LEMMA QueuedTypes ==
  ASSUME HostType, NEW c \in 0..MaxConnections, NEW s \in 0..MaxSessions, c # Nobody,
         NEW type \in {"job", "units", "close", "reload"},
         commands' = Queued(c, Message(type, s))
  PROVE  c \in Connections /\ commands' \in [Connections -> Seq(Messages)]
<1>1. c \in Connections
  BY HostAssumption DEF Connections, Nobody
<1>2. Message(type, s) \in Messages
  BY MessageIsOne
<1> QED
  BY <1>1, <1>2, QueuedType

LEMMA ConstantsType ==
  /\ MaxConnections \in Nat /\ MaxSessions \in Nat
  /\ Connections \subseteq 0..MaxConnections /\ Sessions \subseteq 0..MaxSessions
  /\ None \in 0..MaxSessions /\ Nobody \in 0..MaxConnections
  /\ Connections \subseteq Abandoners /\ Runner \in Abandoners
  /\ NotAbandoning \in Abandonings /\ NoJob \in Jobs /\ <<>> \in Seq(Messages)
BY HostAssumption, EmptySeq
   DEF Connections, Sessions, None, Nobody, NotAbandoning, Abandonings, NoJob, Jobs,
       Abandoners, Runner

LEMMA TaskTypes ==
  ASSUME HostType, NEW c \in Connections, TaskStep(c) \/ Silence(c)
  PROVE  HostType'
<1> USE ConstantsType DEF HostType, Tasks, hostVars, taskVars, sessionVars, runnerVars, pageVars
<1>1. CASE ReportReady(c)
  BY <1>1, TakenType DEF ReportReady, Step
<1>2. CASE FindLeader(c)
  BY <1>2, FirstType DEF FindLeader, Step
<1>3. CASE PublishLeader(c)
  BY <1>3 DEF PublishLeader, Step
<1>4. CASE ReloadNow(c)
  <2>1. commands' \in [Connections -> Seq(Messages)]
    BY <1>4, QueuedTypes DEF ReloadNow
  <2> QED
    BY <1>4, <2>1 DEF ReloadNow, Step
<1>5. CASE UnitOpened(c)
  BY <1>5, TakenType DEF UnitOpened
<1>6. CASE Answer(c)
  <2>1. messages' \in [Connections -> Seq(Messages)] /\ task' \in [Connections -> Tasks]
    BY <1>6, TakenType DEF Answer, Step
  <2> QED
    BY <1>6, <2>1 DEF Answer
<1>7. CASE Retire(c)
  <2>1. messages' \in [Connections -> Seq(Messages)]
    BY <1>7, TakenType DEF Retire
  <2> QED
    BY <1>7, <2>1 DEF Retire, Step
<1>8. CASE LosePage(c) \/ Silence(c)
  <2>1. EndLoop(c)
    BY <1>8 DEF LosePage, Silence
  <2>2. messages' \in [Connections -> Seq(Messages)]
    BY <2>1 DEF EndLoop
  <2>3. task' \in [Connections -> Tasks]
    BY <2>1 DEF EndLoop, Step
  <2> QED
    BY <2>1, <2>2, <2>3 DEF EndLoop
<1>9. CASE Detach(c)
  BY <1>9 DEF Detach, Step
<1>10. CASE LeaveSession(c)
  <2>1. [at |-> "drain", of |-> session, running |-> FALSE] \in Abandonings
    BY DEF Abandonings
  <2>2. abandoning' \in [Abandoners -> Abandonings]
    BY <1>10, <2>1 DEF LeaveSession, StartAbandon
  <2> QED
    BY <1>10, <2>2 DEF LeaveSession, Step
<1> QED
  BY <1>1, <1>2, <1>3, <1>4, <1>5, <1>6, <1>7, <1>8, <1>9, <1>10 DEF TaskStep

LEMMA PageTypes ==
  ASSUME HostType, NEW c \in Connections,
         PageStep(c) \/ FailJob(c) \/ Die(c) \/ Connect(c)
  PROVE  HostType'
<1> USE ConstantsType
    DEF HostType, hostSide, hostVars, taskVars, sessionVars, runnerVars, pageVars
<1>1. CASE Connect(c)
  BY <1>1 DEF Connect, Step, Tasks
<1>2. CASE Ready(c)
  BY <1>2, SaidType DEF Ready
<1>3. CASE AcceptJob(c)
  <2>1. Head(commands[c]).of \in 0..MaxSessions /\ Tail(commands[c]) \in Seq(Messages)
    BY <1>3, ObeyedType DEF AcceptJob, Obey, Hears
  <2>2. messages' \in [Connections -> Seq(Messages)]
    BY <1>3, <2>1, SaidType DEF AcceptJob
  <2>3. [of |-> Head(commands[c]).of, at |-> "loading"] \in Jobs
    BY <2>1 DEF Jobs
  <2>4. job' \in [Connections -> Jobs]
    BY <1>3, <2>3 DEF AcceptJob
  <2> QED
    BY <1>3, <2>1, <2>2, <2>4 DEF AcceptJob, Obey
<1>4. CASE ServeUnits(c)
  <2>1. Tail(commands[c]) \in Seq(Messages)
    BY <1>4, ObeyedType DEF ServeUnits, Obey, Hears
  <2> QED
    BY <1>4, <2>1 DEF ServeUnits, Obey, Jobs
<1>5. CASE ObeyClose(c) \/ ObeyReload(c) \/ SeeEnd(c) \/ EndJob(c) \/ Die(c)
  BY <1>5 DEF ObeyClose, ObeyReload, SeeEnd, EndJob, Die, Unread
<1>6. CASE OpenUnits(c)
  BY <1>6, SaidType DEF OpenUnits, Jobs
<1>7. CASE FinishJob(c)
  BY <1>7, SaidType DEF FinishJob, Jobs
<1>8. CASE FailJob(c)
  BY <1>8, SaidType DEF FailJob, Jobs, Unread
<1> QED
  BY <1>1, <1>2, <1>3, <1>4, <1>5, <1>6, <1>7, <1>8 DEF PageStep

LEMMA RunnerTypes ==
  ASSUME HostType, runner # "idle" => current \in Sessions,
         RunnerStep \/ Stop \/ ReloadExecutor
  PROVE  HostType'
<1> USE ConstantsType
    DEF HostType, hostVars, taskVars, sessionVars, runnerVars, pageVars, Goes, RunnerPlaces
<1>1. CASE Open
  BY <1>1 DEF Open, Sessions
<1>2. CASE SeeLeader
  BY <1>2 DEF SeeLeader
<1>3. CASE Capture
  BY <1>3 DEF Capture
<1>4. CASE InsertAnswer
  BY <1>4 DEF InsertAnswer
<1>5. CASE SetActive
  BY <1>5 DEF SetActive
<1>6. ASSUME NEW from, NEW to \in RunnerPlaces, NEW type \in {"job", "units"},
             SendText(from, to, Message(type, current)), from # "idle"
      PROVE  HostType'
  <2>1. executor[current] \in 0..MaxConnections
    BY <1>6 DEF SendText
  <2>2. commands' \in [Connections -> Seq(Messages)]
    BY <1>6, <2>1, QueuedTypes DEF SendText
  <2> QED
    BY <1>6, <2>2 DEF SendText
<1>7. CASE SendJob
  BY <1>6, <1>7 DEF SendJob
<1>8. CASE SendUnits
  BY <1>6, <1>8 DEF SendUnits
<1>9. CASE Answered \/ Stop
  BY <1>9 DEF Answered, Stop, Waits
<1>10. CASE DropSession
  BY <1>10 DEF DropSession, StartAbandon, Abandonings
<1>11. CASE CloseSession
  BY <1>11 DEF CloseSession
<1>12. CASE ReloadExecutor
  <2>1. commands' \in [Connections -> Seq(Messages)]
    BY <1>12, QueuedTypes DEF ReloadExecutor
  <2> QED
    BY <1>12, <2>1 DEF ReloadExecutor
<1> QED
  BY <1>1, <1>2, <1>3, <1>4, <1>5, <1>7, <1>8, <1>9, <1>10, <1>11, <1>12 DEF RunnerStep

LEMMA AbandonTypes ==
  ASSUME HostType, NEW x \in Abandoners, Abandon(x),
         abandoning[x].at # "none" => abandoning[x].of \in Sessions
  PROVE  HostType'
<1> USE ConstantsType DEF HostType, hostVars, taskVars, runnerVars, pageVars
<1>1. CASE DrainAnswers(x)
  BY <1>1 DEF DrainAnswers, AbandonStep, Abandonings
<1>2. CASE TakeActive(x)
  <2> DEFINE s == abandoning[x].of
             to == [at |-> "clear", of |-> s, running |-> s \in active]
  <2>1. s \in 0..MaxSessions /\ (s \in active) \in BOOLEAN
    BY DEF Abandonings
  <2>2. to \in Abandonings
    BY <2>1 DEF Abandonings
  <2>3. abandoning' = [abandoning EXCEPT ![x] = to]
    BY <1>2 DEF TakeActive, AbandonStep
  <2> HIDE DEF to
  <2>4. abandoning' \in [Abandoners -> Abandonings]
    BY <2>2, <2>3
  <2> QED
    BY <1>2, <2>4 DEF TakeActive
<1>3. CASE ClearExecutor(x)
  <2>1. executor[abandoning[x].of] \in 0..MaxConnections
    BY <1>3 DEF ClearExecutor, AbandonStep
  <2>2. commands' \in [Connections -> Seq(Messages)]
    BY <1>3, <2>1, QueuedTypes DEF ClearExecutor
  <2> QED
    BY <1>3, <2>2 DEF ClearExecutor, AbandonStep
<1> QED
  BY <1>1, <1>2, <1>3 DEF Abandon

-----------------------------------------------------------------------------
(* The lead.                                                                *)

\* A step that is neither a report nor a departure nor a publication changes
\* neither who is capable nor who publishes.
LEMMA LeadKept ==
  ASSUME LeaderFirst, UNCHANGED <<leader, outdated>>,
         connections' \intersect capable' = connections \intersect capable,
         Publishing => Publishing'
  PROVE  LeaderFirst'
BY DEF LeaderFirst, FirstCapable

LEMMA LeadTasks ==
  ASSUME HostType, LeaderFirst, NEW c \in Connections, TaskStep(c) \/ Silence(c)
  PROVE  LeaderFirst'
<1> USE DEF HostType, hostVars
<1>1. CASE ReportReady(c) \/ FindLeader(c) \/ Detach(c)
  <2>1. task'[c] \in {"find", "publish", "leftFind", "leftPublish"}
    BY <1>1 DEF ReportReady, FindLeader, Detach, Step
  <2> QED
    BY <2>1 DEF LeaderFirst, Publishing
<1>2. CASE PublishLeader(c)
  <2>1. FirstCapable' = FirstCapable
    BY <1>2 DEF PublishLeader, FirstCapable
  <2> QED
    BY <1>2, <2>1 DEF PublishLeader, LeaderFirst
<1>3. CASE UnitOpened(c)
  BY <1>3, LeadKept DEF UnitOpened, taskVars, Publishing
<1>4. CASE \/ ReloadNow(c) \/ Answer(c) \/ Retire(c) \/ LosePage(c) \/ Silence(c)
           \/ LeaveSession(c)
  <2>1. /\ UNCHANGED <<leader, outdated, connections, capable>>
        /\ \/ UNCHANGED task
           \/ /\ task[c] \in {"reload", "open", "retire", "serves"}
              /\ \A d \in Connections : d # c => task'[d] = task[d]
    BY <1>4 DEF ReloadNow, Answer, Retire, LosePage, Silence, EndLoop, LeaveSession, Step
  <2>2. Publishing => Publishing'
    BY <2>1 DEF Publishing
  <2> QED
    BY <2>1, <2>2, LeadKept
<1> QED
  BY <1>1, <1>2, <1>3, <1>4 DEF TaskStep

LEMMA LeadOthers ==
  ASSUME HostType, Standing, LeaderFirst,
         \/ \E c \in Connections : Connect(c) \/ PageStep(c) \/ FailJob(c) \/ Die(c)
         \/ RunnerStep \/ Stop \/ ReloadExecutor
         \/ \E x \in Abandoners : Abandon(x)
  PROVE  LeaderFirst'
<1>1. ASSUME UNCHANGED <<connections, capable, leader, outdated, task>>
      PROVE  LeaderFirst'
  BY <1>1, LeadKept DEF Publishing
<1> USE DEF hostSide, hostVars, taskVars
<1>2. ASSUME NEW c \in Connections, Connect(c) PROVE LeaderFirst'
  <2>1. c \notin capable /\ task[c] = "away"
    BY <1>2 DEF Connect, Standing
  <2>2. /\ UNCHANGED <<leader, outdated>>
        /\ connections' \intersect capable' = connections \intersect capable
    BY <1>2, <2>1 DEF Connect
  <2>3. Publishing => Publishing'
    BY <1>2, <2>1 DEF Connect, Step, Publishing, HostType
  <2> QED
    BY <2>2, <2>3, LeadKept
<1>3. ASSUME NEW c \in Connections, PageStep(c) \/ FailJob(c) \/ Die(c) PROVE LeaderFirst'
  <2>1. UNCHANGED <<connections, capable, leader, outdated, task>>
    BY <1>3 DEF PageStep, FailJob, Die, Ready, AcceptJob, ServeUnits, ObeyClose, ObeyReload,
                OpenUnits, FinishJob, SeeEnd, EndJob
  <2> QED
    BY <1>1, <2>1
<1>4. CASE RunnerStep \/ Stop \/ ReloadExecutor
  <2>1. UNCHANGED <<connections, capable, leader, outdated, task>>
    BY <1>4 DEF RunnerStep, Stop, ReloadExecutor, Open, SeeLeader, Capture, InsertAnswer,
                SetActive, SendJob, SendUnits, SendText, Answered, DropSession, CloseSession
  <2> QED
    BY <1>1, <2>1
<1>5. ASSUME NEW x \in Abandoners, Abandon(x) PROVE LeaderFirst'
  <2>1. UNCHANGED <<connections, capable, leader, outdated, task>>
    BY <1>5 DEF Abandon, DrainAnswers, TakeActive, ClearExecutor
  <2> QED
    BY <1>1, <2>1
<1> QED
  BY <1>2, <1>3, <1>4, <1>5

-----------------------------------------------------------------------------
(* Pages, one after another.                                                *)

\* A step that leaves the pages and their jobs, and adds nothing for a page
\* that reads nothing.
LEMMA StandingKept ==
  ASSUME HostType, Standing, UNCHANGED <<page, job>>,
         \A c \in Connections :
            /\ task'[c] = "away" <=> task[c] = "away"
            /\ task[c] = "away" => (c \in capable' => c \in capable)
            /\ task[c] = "away" \/ Gone(c) => commands'[c] = commands[c]
  PROVE  Standing'
BY DEF Standing, Gone

LEMMA QueuedServing ==
  ASSUME HostType, Standing, NEW c \in 0..MaxConnections, NEW s \in 0..MaxSessions,
         c # Nobody, Serves(c), NEW type \in {"job", "units", "close", "reload"},
         commands' = Queued(c, Message(type, s))
  PROVE  \A d \in Connections :
            task[d] = "away" \/ Gone(d) => commands'[d] = commands[d]
<1>1. c \in Connections /\ Message(type, s) \in Messages /\ task[c] # "away"
  BY HostAssumption, MessageIsOne DEF Connections, Nobody, Serves, Serving
<1> QED
  BY <1>1, QueuedType

LEMMA StandingTasks ==
  ASSUME HostType, Standing, NEW c \in Connections, TaskStep(c) \/ Silence(c)
  PROVE  Standing'
<1> USE DEF HostType, hostVars, taskVars, pageVars
<1>1. CASE ReloadNow(c)
  <2>1. /\ UNCHANGED <<page, job, capable>> /\ task[c] # "away"
        /\ task' = [task EXCEPT ![c] = "open"]
    BY <1>1 DEF ReloadNow, Step
  <2>2. \A d \in Connections : task[d] = "away" \/ Gone(d) => commands'[d] = commands[d]
    BY <1>1, QueuedServing, ConstantsType DEF ReloadNow
  <2> QED
    BY <2>1, <2>2, StandingKept
<1>2. CASE ~ReloadNow(c)
  <2>1. UNCHANGED <<page, job, commands>> /\ capable' \subseteq capable \union {c}
    BY <1>2 DEF TaskStep, Silence, ReportReady, FindLeader, PublishLeader, UnitOpened, Answer,
                Retire, LosePage, EndLoop, Detach, LeaveSession
  <2>2. \/ UNCHANGED <<task, capable>>
        \/ /\ task[c] # "away" /\ \A d \in Connections : d # c => task'[d] = task[d]
           /\ task'[c] # "away"
    BY <1>2 DEF TaskStep, Silence, ReportReady, FindLeader, PublishLeader, UnitOpened, Answer,
                Retire, LosePage, EndLoop, Detach, LeaveSession, Step
  <2> QED
    BY <2>1, <2>2, StandingKept
<1> QED
  BY <1>1, <1>2

\* A page comes only when all before it are over.
LEMMA StandingConnect ==
  ASSUME HostType, Standing, NEW c \in Connections, Connect(c)
  PROVE  Standing'
<1>1. /\ page[c] = "none" /\ page' = [page EXCEPT ![c] = "up"]
      /\ task' = [task EXCEPT ![c] = "open"]
      /\ \A d \in 1..(c - 1) : page[d] = "over"
      /\ UNCHANGED <<job, commands, capable>>
  BY DEF Connect, Step, pageVars
<1>2. ASSUME NEW d \in Connections, page'[d] # "none", NEW e \in 1..(d - 1)
      PROVE  page'[e] = "over"
  <2>1. e \in Connections /\ d > e
    BY <1>2, HostAssumption DEF Connections
  <2>2. CASE d = c
    BY <1>1, <2>1, <2>2 DEF HostType
  <2>3. CASE d # c
    <3>1. page[d] # "none" /\ page[e] = "over"
      BY <1>1, <1>2, <2>3 DEF HostType, Standing
    <3> QED
      BY <1>1, <2>1, <3>1 DEF HostType
  <2> QED
    BY <2>2, <2>3
<1> QED
  BY <1>1, <1>2 DEF Standing, HostType, Gone

\* A page that is there, or closed, goes on or is over.
LEMMA StandingPage ==
  ASSUME HostType, Standing, NEW c \in Connections, UNCHANGED <<capable, task>>,
         page[c] \in {"up", "ready", "closed"},
         \A d \in Connections :
            d # c => page'[d] = page[d] /\ job'[d] = job[d] /\ commands'[d] = commands[d],
         page'[c] \in {"up", "ready", "closed", "over"},
         page'[c] \in {"closed", "over"} => commands'[c] = <<>>,
         page'[c] = "over" => job'[c] = NoJob,
         job'[c].of = None => job'[c] = NoJob
  PROVE  Standing'
<1>1. ASSUME NEW d \in Connections, page'[d] # "none", NEW e \in 1..(d - 1)
      PROVE  page'[e] = "over"
  <2>1. e \in Connections
    BY <1>1, HostAssumption DEF Connections
  <2> QED
    BY <1>1, <2>1 DEF Standing
<1> QED
  BY <1>1 DEF Standing, Gone

LEMMA StandingPages ==
  ASSUME HostType, Standing, NEW c \in Connections, PageStep(c) \/ FailJob(c) \/ Die(c),
         Apart(job[c].of, commands[c])
  PROVE  Standing'
<1> USE DEF HostType, hostSide, hostVars, taskVars, PageThere
<1>1. CASE Ready(c)
  BY <1>1, StandingPage DEF Ready, Standing
<1>2. CASE AcceptJob(c)
  <2>1. Head(commands[c]) = commands[c][1] /\ 1 \in 1..Len(commands[c])
    BY <1>2, HeadTailProperties, EmptySeq, LenProperties DEF AcceptJob, Obey, Hears
  <2>2. Head(commands[c]).of # None
    BY <1>2, <2>1 DEF AcceptJob, Obey, Hears, Apart
  <2>3. job'[c] = [of |-> Head(commands[c]).of, at |-> "loading"] \/ job'[c] = job[c]
    BY <1>2 DEF AcceptJob
  <2>4. job'[c].of = None => job'[c] = NoJob
    BY <2>2, <2>3 DEF Standing
  <2>5. /\ UNCHANGED <<capable, task, page>> /\ page[c] \in {"up", "ready"}
        /\ \A d \in Connections : d # c => job'[d] = job[d] /\ commands'[d] = commands[d]
    BY <1>2 DEF AcceptJob, Obey, Hears
  <2> QED
    BY <2>4, <2>5, StandingPage
<1>3. CASE ServeUnits(c)
  <2>1. job'[c].of = None => job'[c] = NoJob
    BY <1>3 DEF ServeUnits, Standing, Jobs, NoJob
  <2> QED
    BY <1>3, <2>1, StandingPage DEF ServeUnits, Obey, Hears
<1>4. CASE ObeyClose(c)
  BY <1>4, StandingPage DEF ObeyClose, Hears, Unread, Standing
<1>5. CASE ObeyReload(c)
  BY <1>5, StandingPage DEF ObeyReload, Hears, Unread
<1>6. CASE SeeEnd(c)
  BY <1>6, StandingPage DEF SeeEnd, Unread, Standing
<1>7. CASE EndJob(c)
  BY <1>7, StandingPage DEF EndJob, Standing, Gone
<1>8. CASE Die(c)
  BY <1>8, StandingPage DEF Die, Unread
<1>9. CASE OpenUnits(c)
  <2>1. job'[c].of = None => job'[c] = NoJob
    BY <1>9 DEF OpenUnits, Standing, Jobs, NoJob
  <2> QED
    BY <1>9, <2>1, StandingPage DEF OpenUnits
<1>10. CASE FinishJob(c)
  BY <1>10, StandingPage DEF FinishJob
<1>11. CASE FailJob(c)
  BY <1>11, StandingPage DEF FailJob, Unread
<1> QED
  BY <1>1, <1>2, <1>3, <1>4, <1>5, <1>6, <1>7, <1>8, <1>9, <1>10, <1>11 DEF PageStep

LEMMA StandingRunner ==
  ASSUME HostType, Standing, runner # "idle" => current \in Sessions,
         RunnerStep \/ Stop \/ ReloadExecutor
  PROVE  Standing'
<1>1. UNCHANGED <<page, job, capable, task>>
  BY DEF RunnerStep, Stop, ReloadExecutor, Open, SeeLeader, Capture, InsertAnswer,
         SetActive, SendJob, SendUnits, SendText, Answered, DropSession, CloseSession,
         hostVars, taskVars, pageVars
<1>2. ASSUME NEW from, NEW to, NEW type \in {"job", "units"},
             SendText(from, to, Message(type, current)), from # "idle"
      PROVE  \A d \in Connections :
                task[d] = "away" \/ Gone(d) => commands'[d] = commands[d]
  <2>1. executor[current] \in 0..MaxConnections /\ current \in 0..MaxSessions
    BY <1>2, HostAssumption DEF SendText, HostType
  <2> QED
    BY <1>2, <2>1, QueuedServing DEF SendText
<1>3. \A d \in Connections : task[d] = "away" \/ Gone(d) => commands'[d] = commands[d]
  <2>1. CASE SendJob
    BY <1>2, <2>1 DEF SendJob
  <2>2. CASE SendUnits
    BY <1>2, <2>2 DEF SendUnits
  <2>3. CASE ReloadExecutor
    BY <2>3, QueuedServing, ConstantsType DEF ReloadExecutor, HostType
  <2>4. CASE ~(SendJob \/ SendUnits \/ ReloadExecutor)
    BY <2>4 DEF RunnerStep, Stop, Open, SeeLeader, Capture, InsertAnswer, SetActive, Answered,
                DropSession, CloseSession
  <2> QED
    BY <2>1, <2>2, <2>3, <2>4
<1> QED
  BY <1>1, <1>3, StandingKept

LEMMA StandingAbandon ==
  ASSUME HostType, Standing, NEW x \in Abandoners, Abandon(x),
         abandoning[x].at # "none" => abandoning[x].of \in Sessions
  PROVE  Standing'
<1>1. UNCHANGED <<page, job, capable, task>>
  BY DEF Abandon, DrainAnswers, TakeActive, ClearExecutor, hostVars, taskVars, pageVars
<1>2. \A d \in Connections : task[d] = "away" \/ Gone(d) => commands'[d] = commands[d]
  <2>1. CASE ClearExecutor(x)
    <3>1. executor[abandoning[x].of] \in 0..MaxConnections
      BY <2>1 DEF ClearExecutor, AbandonStep, HostType
    <3> QED
      BY <2>1, <3>1, QueuedServing, ConstantsType DEF ClearExecutor
  <2>2. CASE ~ClearExecutor(x)
    BY <2>2 DEF Abandon, DrainAnswers, TakeActive
  <2> QED
    BY <2>1, <2>2
<1> QED
  BY <1>1, <1>2, StandingKept

-----------------------------------------------------------------------------
(* Sessions that are left.                                                  *)

LEMMA LeavingTypes ==
  ASSUME HostType, Leaving
  PROVE  /\ runner # "idle" => current \in Sessions
         /\ \A x \in Abandoners : abandoning[x].at # "none" =>
              abandoning[x].of \in Sessions /\ Begun(abandoning[x].of)
         /\ \A s \in Sessions : executor[s] = Nobody \/ executor[s] \in Connections
         /\ MaxConnections \in Nat /\ Runner \notin Connections
         /\ Runner \in Abandoners /\ Abandoners = Connections \union {Runner}
<1>1. /\ MaxConnections \in Nat /\ Runner \notin Connections
      /\ Runner \in Abandoners /\ Abandoners = Connections \union {Runner}
  BY HostAssumption DEF Runner, Connections, Abandoners
<1>2. \A s \in Sessions : executor[s] = Nobody \/ executor[s] \in Connections
  BY <1>1 DEF HostType, Nobody, Connections
<1>3. ASSUME abandoning[Runner].at # "none"
      PROVE  abandoning[Runner].of \in Sessions /\ Begun(abandoning[Runner].of)
  <2>1. runner = "dropping" /\ abandoning[Runner].of = current
    BY <1>3 DEF Leaving, RunnerLeaves
  <2> QED
    BY <2>1 DEF Leaving, OpenSession, Begun
<1> QED
  BY <1>1, <1>2, <1>3 DEF Leaving, OpenSession, TasksLeave, TaskLeaves

\* Tasks that leave go on with what they leave, and one may begin.
LEMMA TasksLeaveKept ==
  ASSUME HostType, Leaving, NEW y \in Connections, abandoning'[y] = abandoning[y],
         \A s \in Sessions : Begun(s) => Begun(s)',
         \A s \in Sessions : executor'[s] \in {executor[s], Nobody} \/ ~Begun(s),
         task[y] = "gone" => task'[y] = "gone"
  PROVE  abandoning'[y].at # "none" => TaskLeaves(y, abandoning[y].of)'
BY DEF Leaving, TasksLeave, TaskLeaves

\* A step that leaves the sessions, and takes a job only when that is not the one
\* about to be sent.
LEMMA LeavingKept ==
  ASSUME HostType, Leaving, UNCHANGED <<session, current, runner, abandoning, executor>>,
         active' \subseteq active,
         runner = "armed" /\ current \in active => current \in active',
         \A x \in Connections : task[x] = "gone" => task'[x] = "gone"
  PROVE  Leaving'
<1>1. Armed'
  BY LeavingTypes DEF Leaving, Armed
<1>2. TasksLeave'
  BY TasksLeaveKept DEF TasksLeave, Begun
<1>3. OpenSession' /\ RunnerLeaves'
  BY DEF Leaving, OpenSession, RunnerLeaves
<1>4. LetGo'
  BY DEF Leaving, LetGo, Begun, Ended
<1> QED
  BY <1>1, <1>2, <1>3, <1>4 DEF Leaving

LEMMA LeavingTasks ==
  ASSUME HostType, Leaving, Delivered, NEW c \in Connections, TaskStep(c) \/ Silence(c)
  PROVE  Leaving'
<1> USE DEF HostType, hostVars, taskVars, sessionVars, runnerVars
<1>1. \A d \in Connections : d # c \/ task[d] = "gone" => task'[d] = task[d]
  BY DEF TaskStep, Silence, ReportReady, FindLeader, PublishLeader, ReloadNow, UnitOpened,
         Answer, Retire, LosePage, EndLoop, Detach, LeaveSession, Step
<1>2. CASE Retire(c)
  <2>1. PICK type \in {"result", "failed"} : Take(c, type)
    BY <1>2 DEF Retire
  <2>2. Head(messages[c]) = messages[c][1] /\ 1 \in 1..Len(messages[c])
    BY <2>1, HeardType DEF Take
  <2>3. Sent(Head(messages[c]).of)
    BY <2>1, <2>2 DEF Take, Delivered, Told, Over
  <2>4. runner = "armed" => Head(messages[c]).of # current
    BY <2>3 DEF Sent
  <2> QED
    BY <1>1, <1>2, <2>4, LeavingKept DEF Retire
<1>3. CASE LeaveSession(c)
  <2>1. /\ UNCHANGED <<session, current, runner, executor, active>>
        /\ task'[c] = "gone"
    BY <1>3 DEF LeaveSession, Step
  <2>2. CASE UNCHANGED abandoning
    BY <1>1, <2>1, <2>2, LeavingKept
  <2>3. CASE ~(UNCHANGED abandoning)
    <3>1. /\ session # None /\ executor[session] = c
          /\ abandoning' = [abandoning EXCEPT ![c] =
                              [at |-> "drain", of |-> session, running |-> FALSE]]
      BY <1>3, <2>3 DEF LeaveSession, StartAbandon
    <3>2. session = current /\ current \in Sessions
      BY <3>1 DEF Leaving, OpenSession
    <3>3. Begun(session)
      BY <3>1, <3>2, LeavingTypes DEF Leaving, LetGo, Nobody, Connections
    <3>4. \A s \in Sessions : (Begun(s)' <=> Begun(s)) /\ (Ended(s)' <=> Ended(s))
      BY <2>1, <3>1, LeavingTypes DEF Begun, Ended
    <3>5. TasksLeave'
      <4>1. ASSUME NEW x \in Connections, x # c
            PROVE  abandoning'[x].at # "none" => TaskLeaves(x, abandoning[x].of)'
        <5>1. abandoning'[x] = abandoning[x] /\ (task[x] = "gone" => task'[x] = "gone")
          BY <1>1, <3>1, <4>1
        <5>2. /\ \A s \in Sessions : Begun(s) => Begun(s)'
              /\ \A s \in Sessions : executor'[s] = executor[s]
          BY <2>1, <3>4
        <5> QED
          BY <5>1, <5>2, TasksLeaveKept
      <4>2. abandoning'[c].of = session
        BY <3>1, LeavingTypes
      <4>3. TaskLeaves(c, session)'
        BY <2>1, <3>1, <3>2, <3>3, <3>4 DEF TaskLeaves
      <4>4. TaskLeaves(c, abandoning[c].of)'
        BY <2>1, <3>1, <3>2, <3>3, <3>4, <4>2 DEF TaskLeaves
      <4> QED
        BY <4>1, <4>4 DEF TasksLeave
    <3>6. Armed'
      BY <1>1, <2>1, LeavingTypes DEF Leaving, Armed
    <3>7. abandoning'[Runner] = abandoning[Runner]
      BY <3>1, LeavingTypes
    <3>8. OpenSession' /\ RunnerLeaves'
      BY <2>1, <3>7 DEF Leaving, OpenSession, RunnerLeaves
    <3>9. LetGo'
      BY <2>1, <3>4 DEF Leaving, LetGo
    <3> QED
      BY <3>5, <3>6, <3>8, <3>9 DEF Leaving
  <2> QED
    BY <2>2, <2>3
<1>4. CASE ~Retire(c) /\ ~LeaveSession(c)
  <2>1. UNCHANGED <<session, current, runner, abandoning, executor, active>>
    BY <1>4 DEF TaskStep, Silence, ReportReady, FindLeader, PublishLeader, ReloadNow,
                UnitOpened, Answer, LosePage, EndLoop, Detach
  <2> QED
    BY <1>1, <2>1, LeavingKept
<1> QED
  BY <1>2, <1>3, <1>4

LEMMA LeavingPages ==
  ASSUME HostType, Leaving, NEW c \in Connections,
         PageStep(c) \/ FailJob(c) \/ Die(c) \/ (Connect(c) /\ Standing) \/ ReloadExecutor
  PROVE  Leaving'
<1> USE DEF hostVars, hostSide, taskVars, sessionVars, runnerVars
<1>1. UNCHANGED <<session, current, runner, abandoning, executor, active>>
  BY DEF PageStep, FailJob, Die, Connect, ReloadExecutor, Ready, AcceptJob, ServeUnits,
         ObeyClose, ObeyReload, OpenUnits, FinishJob, SeeEnd, EndJob
<1>2. \A d \in Connections : task[d] = "gone" => task'[d] = "gone"
  BY DEF PageStep, FailJob, Die, Connect, ReloadExecutor, Ready, AcceptJob, ServeUnits,
         ObeyClose, ObeyReload, OpenUnits, FinishJob, SeeEnd, EndJob, Step, HostType
<1> QED
  BY <1>1, <1>2, LeavingKept

LEMMA LeavingRunner ==
  ASSUME HostType, Leaving, RunnerStep \/ Stop
  PROVE  Leaving'
<1> USE DEF HostType, hostVars, taskVars, sessionVars, runnerVars, Goes
<1>0. /\ current \in Nat /\ UNCHANGED task
      /\ \A s \in Sessions : s \in Nat
      /\ current < MaxSessions => current + 1 \in Sessions
  <2>1. UNCHANGED task
    BY DEF RunnerStep, Stop, Open, SeeLeader, Capture, InsertAnswer, SetActive, SendJob,
           SendUnits, SendText, Answered, DropSession, CloseSession
  <2> QED
    BY <2>1, HostAssumption DEF Sessions
\* Steps that bind no executor.
<1>1. ASSUME UNCHANGED <<executor, active>>, runner' # "armed",
             \A s \in Sessions : (Begun(s) <=> Begun(s)') /\ (Ended(s)' => Ended(s)),
             \A x \in Connections : abandoning'[x] = abandoning[x]
      PROVE  TasksLeave' /\ LetGo' /\ Armed'
  <2>1. /\ \A s \in Sessions : Begun(s) => Begun(s)'
        /\ \A s \in Sessions : executor'[s] = executor[s]
    BY <1>1
  <2>2. ASSUME NEW y \in Connections
        PROVE  abandoning'[y].at # "none" => TaskLeaves(y, abandoning[y].of)'
    <3>1. abandoning'[y] = abandoning[y] /\ task'[y] = task[y]
      BY <1>0, <1>1, <2>2
    <3> QED
      BY <2>1, <3>1, TasksLeaveKept
  <2>3. TasksLeave'
    BY <2>2 DEF TasksLeave
  <2>4. ASSUME NEW s \in Sessions
        PROVE  /\ ~Begun(s)' => executor'[s] = Nobody
               /\ Ended(s)' => executor'[s] = Nobody /\ s \notin active'
    <3>1. /\ ~Begun(s)' => ~Begun(s)
          /\ Ended(s)' => Ended(s)
      BY <1>1
    <3> QED
      BY <1>1, <3>1 DEF Leaving, LetGo
  <2>5. LetGo'
    BY <2>4 DEF LetGo
  <2> QED
    BY <1>1, <2>3, <2>5 DEF Armed
<1>2. CASE Open
  <2>1. /\ session' = current + 1 /\ current' = current + 1 /\ runner' = "await"
        /\ current + 1 \in Sessions /\ runner = "idle"
        /\ UNCHANGED <<abandoning, executor, active>>
    BY <1>0, <1>2 DEF Open
  <2>2. \A s \in Sessions : (Begun(s) <=> Begun(s)') /\ (Ended(s)' => Ended(s))
    BY <1>0, <2>1 DEF Begun, Ended
  <2>3. OpenSession' /\ RunnerLeaves'
    BY <2>1 DEF Leaving, OpenSession, RunnerLeaves
  <2> QED
    BY <1>1, <2>1, <2>2, <2>3 DEF Leaving
<1>3. CASE Capture
  <2>1. /\ runner = "seen" /\ runner' \in {"bound", "drop"} /\ current \in Sessions
        /\ UNCHANGED <<session, current, abandoning, active>>
        /\ \A s \in Sessions : s # current => executor'[s] = executor[s]
    BY <1>3 DEF Capture, Leaving, OpenSession
  <2>2. /\ ~Begun(current) /\ ~Ended(current) /\ ~Ended(current)' /\ Begun(current)'
        /\ \A s \in Sessions :
             s # current => (Begun(s)' <=> Begun(s)) /\ (Ended(s)' <=> Ended(s))
    BY <1>0, <2>1 DEF Begun, Ended
  <2>3. OpenSession' /\ RunnerLeaves' /\ Armed'
    BY <2>1 DEF Leaving, OpenSession, RunnerLeaves, Armed
  <2>4. LetGo'
    <3>1. ASSUME NEW s \in Sessions
          PROVE  /\ ~Begun(s)' => executor'[s] = Nobody
                 /\ Ended(s)' => executor'[s] = Nobody /\ s \notin active'
      <4>1. CASE s = current
        BY <1>0, <2>1, <4>1 DEF Begun, Ended
      <4>2. CASE s # current
        <5>1. (Begun(s)' <=> Begun(s)) /\ (Ended(s)' <=> Ended(s))
          BY <2>2, <4>2
        <5> QED
          BY <2>1, <4>2, <5>1 DEF Leaving, LetGo
      <4> QED
        BY <4>1, <4>2
    <3> QED
      BY <3>1 DEF LetGo
  <2>5. TasksLeave'
    <3>1. ASSUME NEW s \in Sessions
          PROVE  executor'[s] \in {executor[s], Nobody} \/ ~Begun(s)
      <4>1. CASE s = current
        BY <1>0, <2>1, <4>1 DEF Begun
      <4>2. CASE s # current
        BY <2>1, <4>2
      <4> QED
        BY <4>1, <4>2
    <3>2. \A s \in Sessions : Begun(s) => Begun(s)'
      BY <1>0, <2>1 DEF Begun
    <3>3. ASSUME NEW y \in Connections
          PROVE  abandoning'[y].at # "none" => TaskLeaves(y, abandoning[y].of)'
      BY <1>0, <2>1, <3>1, <3>2, TasksLeaveKept
    <3> QED
      BY <3>3 DEF TasksLeave
  <2> QED
    BY <2>3, <2>4, <2>5 DEF Leaving
<1>4. CASE SetActive
  <2>1. /\ runner = "inserted" /\ runner' = "armed" /\ active' = active \union {current}
        /\ UNCHANGED <<session, current, abandoning, executor>>
    BY <1>4 DEF SetActive
  <2>2. \A s \in Sessions : (Begun(s)' <=> Begun(s)) /\ (Ended(s)' <=> Ended(s))
    BY <2>1 DEF Begun, Ended
  <2>3. ~Ended(current) /\ abandoning[Runner].at = "none"
    BY <1>0, <2>1 DEF Ended, Leaving, RunnerLeaves
  <2>4. OpenSession' /\ RunnerLeaves' /\ Armed'
    BY <2>1, <2>3 DEF Leaving, OpenSession, RunnerLeaves, Armed
  <2>5. LetGo'
    BY <2>1, <2>2, <2>3 DEF Leaving, LetGo
  <2>6. TasksLeave'
    BY <1>0, <2>1, <2>2, TasksLeaveKept DEF TasksLeave
  <2> QED
    BY <2>4, <2>5, <2>6 DEF Leaving
<1>5. CASE SeeLeader \/ InsertAnswer \/ SendJob \/ SendUnits \/ Answered \/ Stop
  <2>1. /\ UNCHANGED <<session, current, abandoning, executor, active>>
        /\ runner \in {"await", "bound", "inserted", "armed", "opening", "running"}
        /\ runner' \in {"seen", "inserted", "opening", "running", "drop"}
        /\ runner' = "seen" => runner = "await"
        /\ runner = "inserted" => runner' # "inserted"
    BY <1>5 DEF SeeLeader, InsertAnswer, SendJob, SendUnits, SendText, Answered, Stop, Waits
  <2>2. \A s \in Sessions : (Begun(s) => Begun(s)') /\ (Ended(s)' => Ended(s))
    BY <2>1 DEF Begun, Ended
  <2>3. OpenSession' /\ RunnerLeaves' /\ Armed'
    BY <2>1 DEF Leaving, OpenSession, RunnerLeaves, Armed
  <2>4. LetGo'
    BY <2>1, <2>2 DEF Leaving, LetGo
  <2>5. TasksLeave'
    BY <1>0, <2>1, <2>2, TasksLeaveKept DEF TasksLeave
  <2> QED
    BY <2>3, <2>4, <2>5 DEF Leaving
<1>6. CASE DropSession
  <2>1. /\ runner = "drop" /\ runner' = "dropping"
        /\ UNCHANGED <<session, current, executor, active>>
        /\ abandoning'[Runner] = [at |-> "drain", of |-> current, running |-> FALSE]
        /\ \A x \in Connections : abandoning'[x] = abandoning[x]
    BY <1>6, LeavingTypes DEF DropSession, StartAbandon
  <2>2. \A s \in Sessions : (Begun(s)' <=> Begun(s)) /\ (Ended(s)' => Ended(s))
    BY <2>1 DEF Begun, Ended
  <2>3. OpenSession' /\ RunnerLeaves'
    BY <2>1 DEF Leaving, OpenSession, RunnerLeaves
  <2> QED
    BY <1>1, <2>1, <2>2, <2>3 DEF Leaving
<1>7. CASE CloseSession
  <2>1. /\ runner = "dropping" /\ runner' = "idle" /\ abandoning[Runner].at = "none"
        /\ session' = IF session = current THEN None ELSE session
        /\ UNCHANGED <<current, abandoning, executor, active>>
    BY <1>7 DEF CloseSession, NotAbandoning
  <2>2. \A s \in Sessions : (Begun(s)' <=> Begun(s)) /\ (Ended(s)' <=> Ended(s))
    BY <2>1 DEF Begun, Ended
  <2>3. OpenSession' /\ RunnerLeaves'
    BY <2>1 DEF Leaving, OpenSession, RunnerLeaves
  <2> QED
    BY <1>1, <2>1, <2>2, <2>3 DEF Leaving
<1> QED
  BY <1>2, <1>3, <1>4, <1>5, <1>6, <1>7 DEF RunnerStep

\* What an abandoner has let go of is not there again.
LEMMA LeavingAbandon ==
  ASSUME HostType, Leaving, NEW x \in Abandoners, Abandon(x)
  PROVE  Leaving'
<1> USE DEF HostType, hostVars, taskVars, runnerVars
<1> DEFINE s == abandoning[x].of
<1>1. /\ abandoning[x].at # "none" /\ s \in Sessions
      /\ UNCHANGED <<session, current, runner, task>>
      /\ \A y \in Abandoners : y # x => abandoning'[y] = abandoning[y]
  BY LeavingTypes DEF Abandon, DrainAnswers, TakeActive, ClearExecutor, AbandonStep
<1>2. x = Runner => runner = "dropping" /\ s = current
  BY <1>1 DEF Leaving, RunnerLeaves
<1>3. x # Runner => x \in Connections /\ TaskLeaves(x, s)
  BY <1>1, LeavingTypes DEF Leaving, TasksLeave
<1>4. \A t \in Sessions : Begun(t)' <=> Begun(t)
  BY <1>1 DEF Begun
<1>5. OpenSession'
  BY <1>1 DEF Leaving, OpenSession
<1>6. CASE DrainAnswers(x) \/ TakeActive(x)
  <2>1. /\ UNCHANGED executor
        /\ active' = active \/ active' = active \ {s}
        /\ abandoning'[x].at \in {"take", "clear"} /\ abandoning'[x].of = s
        /\ abandoning'[x].at = "clear" => s \notin active'
    BY <1>6 DEF DrainAnswers, TakeActive, AbandonStep
  <2>2. LetGo'
    <3>1. \A t \in Sessions : Ended(t)' => Ended(t)
      BY <1>1, <1>2, <2>1, LeavingTypes DEF Ended
    <3> QED
      BY <1>4, <2>1, <3>1 DEF Leaving, LetGo
  <2>3. Armed'
    <3>1. CASE runner = "armed" /\ s = current
      BY <1>1, <1>2, <1>3, <2>1, <3>1 DEF Armed, TaskLeaves
    <3>2. CASE ~(runner = "armed" /\ s = current)
      BY <1>1, <2>1, <3>2 DEF Leaving, Armed
    <3> QED
      BY <3>1, <3>2
  <2>4. TasksLeave'
    <3>1. ASSUME NEW y \in Connections, y # x
          PROVE  abandoning'[y].at # "none" => TaskLeaves(y, abandoning[y].of)'
      BY <1>1, <1>4, <2>1, <3>1, LeavingTypes, TasksLeaveKept
    <3>2. ASSUME x \in Connections PROVE TaskLeaves(x, abandoning[x].of)'
      BY <1>1, <1>3, <1>4, <2>1, <3>2, LeavingTypes DEF TaskLeaves
    <3> QED
      BY <3>1, <3>2 DEF TasksLeave
  <2>5. RunnerLeaves'
    <3>1. CASE x = Runner
      BY <1>1, <1>2, <2>1, <3>1 DEF RunnerLeaves
    <3>2. CASE x # Runner
      BY <1>1, <2>1, <3>2, LeavingTypes DEF Leaving, RunnerLeaves
    <3> QED
      BY <3>1, <3>2
  <2> QED
    BY <1>5, <2>2, <2>3, <2>4, <2>5 DEF Leaving
<1>7. CASE ClearExecutor(x)
  <2>1. /\ executor' = [executor EXCEPT ![s] = Nobody] /\ UNCHANGED active
        /\ abandoning[x].at = "clear" /\ abandoning'[x].at = "none"
    BY <1>7 DEF ClearExecutor, AbandonStep, NotAbandoning
  <2>2. \A t \in Sessions : executor'[t] = IF t = s THEN Nobody ELSE executor[t]
    BY <2>1
  <2>3. LetGo'
    <3>1. ASSUME NEW t \in Sessions, Ended(t)' PROVE executor'[t] = Nobody /\ t \notin active'
      <4>1. CASE Ended(t)
        BY <2>1, <2>2, <4>1 DEF Leaving, LetGo
      <4>2. CASE ~Ended(t)
        <5>1. x = Runner /\ t = current /\ t = s
          BY <1>1, <1>2, <3>1, <4>2, LeavingTypes DEF Ended
        <5> QED
          BY <2>1, <2>2, <5>1 DEF Leaving, RunnerLeaves
      <4> QED
        BY <4>1, <4>2
    <3>2. \A t \in Sessions : ~Begun(t)' => executor'[t] = Nobody
      BY <1>4, <2>2 DEF Leaving, LetGo
    <3> QED
      BY <3>1, <3>2 DEF LetGo
  <2>4. Armed'
    BY <1>1, <2>1, <2>2, LeavingTypes DEF Leaving, Armed
  <2>5. TasksLeave'
    <3>1. ASSUME NEW y \in Connections, y # x
          PROVE  abandoning'[y].at # "none" => TaskLeaves(y, abandoning[y].of)'
      BY <1>1, <1>4, <2>2, <3>1, LeavingTypes, TasksLeaveKept
    <3> QED
      BY <2>1, <3>1 DEF TasksLeave
  <2>6. RunnerLeaves'
    <3>1. CASE x = Runner
      BY <1>1, <1>2, <2>1, <3>1 DEF RunnerLeaves
    <3>2. CASE x # Runner
      BY <1>1, <2>1, <3>2, LeavingTypes DEF Leaving, RunnerLeaves
    <3> QED
      BY <3>1, <3>2
  <2> QED
    BY <1>5, <2>3, <2>4, <2>5, <2>6 DEF Leaving
<1> QED
  BY <1>6, <1>7 DEF Abandon

-----------------------------------------------------------------------------
(* Jobs on their way, and what is said of them.                             *)

LEMMA LoadsOfType ==
  ASSUME HostType, NEW c \in Connections
  PROVE  /\ job[c].of \in 0..MaxSessions /\ commands[c] \in Seq(Messages)
         /\ LoadsOf(c) \subseteq Sessions
<1>1. job[c].of \in 0..MaxSessions /\ commands[c] \in Seq(Messages)
  BY DEF HostType, Jobs
<1> QED
  BY <1>1, LoadsType DEF LoadsOf

LEMMA LoadsSame ==
  ASSUME NEW c \in Connections, job'[c] = job[c], commands'[c] = commands[c]
  PROVE  /\ LoadsOf(c)' = LoadsOf(c)
         /\ Apart(job[c].of, commands[c]) => Apart(job[c].of, commands[c])'
         /\ Unstopped(commands[c])' <=> Unstopped(commands[c])
BY DEF LoadsOf

\* Jobs only leave, and what is said anew is of a job that has ended.
LEMMA DeliveredKept ==
  ASSUME HostType, Delivered, AllApart',
         \A c \in Connections : LoadsOf(c)' \subseteq LoadsOf(c),
         \A s \in Sessions : Sent(s) => Sent(s)',
         \A d \in Connections : \A i \in 1..Len(messages'[d]) :
            \/ \E j \in 1..Len(messages[d]) : messages[d][j] = messages'[d][i]
            \/ messages'[d][i].type \notin {"result", "failed"}
            \/ /\ messages'[d][i].of \in Sessions /\ Sent(messages'[d][i].of)
               /\ \A c \in Connections : messages'[d][i].of \notin LoadsOf(c)'
  PROVE  Delivered'
<1>1. OnePage'
  BY DEF Delivered, OnePage
<1>2. AllSent'
  <2>1. ASSUME NEW c \in Connections, NEW s \in LoadsOf(c)' PROVE Sent(s)'
    <3>1. s \in LoadsOf(c) /\ s \in Sessions
      BY <2>1, LoadsOfType
    <3>2. Sent(s)
      BY <3>1 DEF Delivered, AllSent
    <3> QED
      BY <3>1, <3>2
  <2> QED
    BY <2>1 DEF AllSent
<1>3. ASSUME NEW s \in Sessions, Sent(s), \A c \in Connections : s \notin LoadsOf(c)'
      PROVE  s \in Sessions /\ Sent(s)' /\ \A c \in Connections : s \notin LoadsOf(c)'
  BY <1>3
<1>4. Told'
  <2>1. ASSUME NEW d \in Connections, NEW i \in 1..Len(messages'[d]),
               messages'[d][i].type \in {"result", "failed"}
        PROVE  Over(messages[d][i].of)'
    <3>1. CASE \E j \in 1..Len(messages[d]) : messages[d][j] = messages'[d][i]
      <4>1. PICK j \in 1..Len(messages[d]) : messages[d][j] = messages'[d][i]
        BY <3>1
      <4>2. Over(messages[d][j].of)
        BY <2>1, <4>1 DEF Delivered, Told
      <4> QED
        BY <4>1, <4>2, <1>3 DEF Over
    <3>2. CASE /\ messages'[d][i].of \in Sessions /\ Sent(messages'[d][i].of)
               /\ \A c \in Connections : messages'[d][i].of \notin LoadsOf(c)'
      BY <1>3, <3>2 DEF Over
    <3> QED
      BY <2>1, <3>1, <3>2
  <2> QED
    BY <2>1 DEF Told
<1> QED
  BY <1>1, <1>2, <1>4 DEF Delivered

\* A command that is no job.
LEMMA QueuedLoads ==
  ASSUME HostType, AllApart, UNCHANGED job,
         NEW c \in 0..MaxConnections, c # Nobody, NEW s \in 0..MaxSessions,
         NEW type \in {"units", "close", "reload"}, commands' = Queued(c, Message(type, s))
  PROVE  /\ AllApart'
         /\ \A d \in Connections : LoadsOf(d)' = LoadsOf(d)
         /\ \A d \in Connections : Unstopped(commands[d])' => Unstopped(commands[d])
         /\ ~Gone(c) /\ type \in Stopping => ~Unstopped(commands[c])'
<1>1. /\ c \in Connections /\ Message(type, s) \in Messages
      /\ Message(type, s).type = type /\ type # "job"
  <2>1. c \in Connections
    BY HostAssumption DEF Connections, Nobody
  <2>2. Message(type, s) \in Messages
    BY MessageIsOne
  <2>3. Message(type, s).type = type /\ type # "job"
    BY DEF Message
  <2> QED
    BY <2>1, <2>2, <2>3
<1>2. /\ \A d \in Connections : Gone(d) \/ d # c => commands'[d] = commands[d]
      /\ ~Gone(c) => commands'[c] = Append(commands[c], Message(type, s))
  BY <1>1, QueuedType
<1>3. ASSUME NEW d \in Connections, Gone(d) \/ d # c
      PROVE  /\ Apart(job[d].of, commands[d])' /\ LoadsOf(d)' = LoadsOf(d)
             /\ Unstopped(commands[d])' => Unstopped(commands[d])
  BY <1>2, <1>3, LoadsSame DEF AllApart
<1>4. ASSUME ~Gone(c)
      PROVE  /\ Apart(job[c].of, commands[c])' /\ LoadsOf(c)' = LoadsOf(c)
             /\ Unstopped(commands[c])' <=> Unstopped(commands[c]) /\ type \notin Stopping
  <2>1. /\ job[c].of \in 0..MaxSessions /\ commands[c] \in Seq(Messages)
        /\ Apart(job[c].of, commands[c])
    BY <1>1, LoadsOfType DEF AllApart
  <2> DEFINE m == Message(type, s)
  <2> HIDE DEF m
  <2>2. m \in Messages /\ m.type = type /\ m.type # "job"
    BY <1>1 DEF m
  <2>3. LET r == Append(commands[c], m) IN
        /\ Apart(job[c].of, r)
        /\ Loads(job[c].of, r) = Loads(job[c].of, commands[c]) \union {}
        /\ Unstopped(r) <=> Unstopped(commands[c]) /\ m.type \notin Stopping
    BY <2>1, <2>2, LoadSent
  <2> QED
    BY <1>2, <1>4, <2>2, <2>3 DEF LoadsOf, m
<1> QED
  BY <1>1, <1>3, <1>4 DEF AllApart

LEMMA DeliveredTasks ==
  ASSUME HostType, Delivered, NEW c \in Connections, TaskStep(c) \/ Silence(c)
  PROVE  /\ Delivered'
         /\ \A d \in Connections : LoadsOf(d)' = LoadsOf(d)
         /\ \A d \in Connections : Unstopped(commands[d])' => Unstopped(commands[d])
<1> USE DEF hostVars, taskVars, sessionVars, runnerVars, pageVars
<1>1. UNCHANGED <<job, runner, current>>
  BY DEF TaskStep, Silence, ReportReady, FindLeader, PublishLeader, ReloadNow, UnitOpened,
         Answer, Retire, LosePage, EndLoop, Detach, LeaveSession
<1>2. \A s \in Sessions : Sent(s) => Sent(s)'
  BY <1>1 DEF Sent
<1>3. /\ AllApart'
      /\ \A d \in Connections : LoadsOf(d)' = LoadsOf(d)
      /\ \A d \in Connections : Unstopped(commands[d])' => Unstopped(commands[d])
  <2>1. CASE UNCHANGED commands
    BY <1>1, <2>1, LoadsSame DEF Delivered, AllApart
  <2>2. CASE ~(UNCHANGED commands)
    <3>1. ReloadNow(c)
      BY <2>2 DEF TaskStep, Silence, ReportReady, FindLeader, PublishLeader, UnitOpened,
                  Answer, Retire, LosePage, EndLoop, Detach, LeaveSession
    <3>2. /\ leader \in 0..MaxConnections /\ leader # Nobody
          /\ commands' = Queued(leader, Message("reload", None))
      BY <2>2, <3>1 DEF ReloadNow, HostType
    <3> QED
      BY <1>1, <3>2, ConstantsType, QueuedLoads DEF Delivered
  <2> QED
    BY <2>1, <2>2
<1>4. ASSUME NEW d \in Connections, NEW i \in 1..Len(messages'[d])
      PROVE  \E j \in 1..Len(messages[d]) : messages[d][j] = messages'[d][i]
  <2>1. CASE messages'[d] = messages[d]
    BY <1>4, <2>1
  <2>2. CASE messages'[d] = <<>>
    BY <1>4, <2>2
  <2>3. CASE messages[d] # <<>> /\ messages'[d] = Tail(messages[d])
    <3>1. /\ Len(messages'[d]) = Len(messages[d]) - 1 /\ Len(messages[d]) \in Nat
          /\ messages'[d][i] = messages[d][i + 1]
      BY <1>4, <2>3, HeardType
    <3>2. i + 1 \in 1..Len(messages[d])
      BY <1>4, <3>1
    <3> QED
      BY <3>1, <3>2
  <2>4. \/ messages'[d] = messages[d] \/ messages'[d] = <<>>
        \/ messages[d] # <<>> /\ messages'[d] = Tail(messages[d])
    BY DEF TaskStep, Silence, ReportReady, FindLeader, PublishLeader, ReloadNow, UnitOpened,
           Answer, Retire, LosePage, EndLoop, Detach, LeaveSession, Take, HostType
  <2> QED
    BY <2>1, <2>2, <2>3, <2>4
<1>5. Delivered'
  BY <1>2, <1>3, <1>4, DeliveredKept
<1> QED
  BY <1>3, <1>5

\* What a page does to its jobs.
PageLoads(c) ==
    /\ Apart(job[c].of, commands[c])' /\ LoadsOf(c)' \subseteq LoadsOf(c)
    /\ Unstopped(commands[c])' /\ PageThere(c)' => Unstopped(commands[c]) /\ PageThere(c)
    /\ busy' = busy

\* What a page says: of no job, or of the one it has just ended.
PageSays(c) ==
    \/ messages' = messages
    \/ \E s \in 0..MaxSessions, type \in {"ready", "opened", "result", "failed"} :
         /\ Say(c, type, s)
         /\ type \in {"result", "failed"} => s \in LoadsOf(c) /\ s \notin LoadsOf(c)'

PageOthers(c) ==
    /\ \A d \in Connections :
         d # c => page'[d] = page[d] /\ job'[d] = job[d] /\ commands'[d] = commands[d]
    /\ UNCHANGED <<task, runner, current, executor, active, abandoning>>

LEMMA PageStepLoads ==
  ASSUME HostType, Standing, Delivered, NEW c \in Connections,
         PageStep(c) \/ FailJob(c) \/ Die(c)
  PROVE  PageLoads(c) /\ PageSays(c) /\ PageOthers(c)
<1> DEFINE n == job[c].of
           q == commands[c]
<1>1. /\ n \in 0..MaxSessions /\ q \in Seq(Messages) /\ Apart(n, q)
      /\ c \in DOMAIN job /\ c \in DOMAIN commands /\ c \in DOMAIN page
      /\ n = None => job[c] = NoJob
  BY LoadsOfType DEF Delivered, AllApart, Standing, HostType
<1>2. PageOthers(c)
  BY DEF PageOthers, PageStep, FailJob, Die, Ready, AcceptJob, ServeUnits, Obey, ObeyClose,
         ObeyReload, OpenUnits, FinishJob, SeeEnd, EndJob, Unread, hostSide, hostVars,
         taskVars, sessionVars, runnerVars, HostType
<1> USE DEF hostSide, PageThere
<1>3. CASE Ready(c)
  <2>1. Say(c, "ready", None) /\ PageSays(c)
    BY <1>3, ConstantsType DEF Ready, PageSays
  <2> QED
    BY <1>1, <1>2, <1>3, <2>1, LoadsSame DEF Ready, PageLoads
<1>4. CASE AcceptJob(c)
  <2>1. /\ q # <<>> /\ Head(q).type = "job" /\ Head(q).type \notin Stopping
        /\ PageThere(c) /\ page' = page /\ commands'[c] = Tail(q)
    BY <1>1, <1>4 DEF AcceptJob, Obey, Hears, Stopping
  <2>2. n = None
    BY <1>1, <2>1, LoadForemost
  <2>3. /\ job'[c].of = Head(q).of /\ busy' = busy /\ messages' = messages
    BY <1>1, <1>4, <2>2 DEF AcceptJob
  <2>4. /\ Apart(Head(q).of, Tail(q)) /\ Loads(Head(q).of, Tail(q)) \subseteq Loads(n, q)
        /\ Unstopped(Tail(q)) => Unstopped(q)
    BY <1>1, <2>1, <2>2, LoadTaken
  <2> QED
    BY <1>2, <2>1, <2>3, <2>4 DEF PageLoads, PageSays, LoadsOf
<1>5. CASE ServeUnits(c)
  <2>1. /\ q # <<>> /\ Head(q).type = "units" /\ Head(q).type \notin Stopping
        /\ PageThere(c) /\ page' = page /\ commands'[c] = Tail(q)
        /\ busy' = busy /\ messages' = messages
    BY <1>1, <1>5 DEF ServeUnits, Obey, Hears, Stopping
  <2>2. job'[c].of = n
    BY <1>1, <1>5 DEF ServeUnits, HostType, Jobs
  <2>3. /\ Apart(n, Tail(q)) /\ Loads(n, Tail(q)) \subseteq Loads(n, q)
        /\ Unstopped(Tail(q)) => Unstopped(q)
    BY <1>1, <2>1, LoadTaken
  <2> QED
    BY <1>2, <2>1, <2>2, <2>3 DEF PageLoads, PageSays, LoadsOf
\* The page is closed or gone, and its channel with it.
<1>6. ASSUME commands'[c] = <<>>, job'[c].of = n \/ job'[c].of = None,
             ~PageThere(c)', busy' = busy
      PROVE  PageLoads(c)
  <2>1. /\ Apart(n, <<>>) /\ Loads(n, <<>>) \subseteq Loads(n, q)
        /\ Apart(None, <<>>) /\ Loads(None, <<>>) = {}
    BY <1>1, LoadUnread, ConstantsType
  <2> QED
    BY <1>6, <2>1 DEF PageLoads, LoadsOf
<1>7. CASE ObeyClose(c) \/ ObeyReload(c) \/ SeeEnd(c) \/ EndJob(c) \/ Die(c)
  <2>1. /\ commands'[c] = <<>> /\ busy' = busy /\ messages' = messages
        /\ page'[c] \in {"closed", "over"} /\ job'[c] \in {job[c], NoJob}
    BY <1>1, <1>7 DEF ObeyClose, ObeyReload, SeeEnd, EndJob, Die, Unread, Standing, Gone
  <2>2. PageLoads(c)
    BY <1>6, <2>1 DEF NoJob
  <2> QED
    BY <1>2, <2>1, <2>2 DEF PageSays
<1>8. CASE OpenUnits(c)
  <2>1. /\ job'[c].of = n /\ UNCHANGED <<page, commands, busy>> /\ Say(c, "opened", n)
    BY <1>1, <1>8 DEF OpenUnits, HostType, Jobs
  <2>2. PageSays(c)
    BY <1>1, <2>1 DEF PageSays
  <2> QED
    BY <1>1, <1>2, <2>1, <2>2 DEF PageLoads, LoadsOf
<1>9. CASE FinishJob(c)
  <2>1. /\ job'[c].of = None /\ UNCHANGED <<page, commands, busy>> /\ Say(c, "result", n)
        /\ n # None
    BY <1>1, <1>9 DEF FinishJob, HostType, NoJob
  <2>2. /\ Apart(None, q) /\ Loads(None, q) \subseteq Loads(n, q)
        /\ n \notin Loads(None, q) /\ n \in Loads(n, q)
    BY <1>1, <2>1, LoadEnded
  <2>3. n \in LoadsOf(c) /\ n \notin LoadsOf(c)'
    BY <2>1, <2>2 DEF LoadsOf
  <2>4. PageSays(c)
    BY <1>1, <2>1, <2>3 DEF PageSays
  <2> QED
    BY <1>2, <2>1, <2>2, <2>4 DEF PageLoads, LoadsOf
<1>10. CASE FailJob(c)
  <2>1. /\ job'[c] = NoJob /\ page'[c] = "over" /\ commands'[c] = <<>> /\ UNCHANGED busy
        /\ Say(c, "failed", n) /\ n # None
    BY <1>1, <1>10 DEF FailJob, Unread, NoJob
  <2>2. PageLoads(c)
    BY <1>6, <2>1 DEF NoJob
  <2>3. n \in LoadsOf(c) /\ LoadsOf(c)' = {}
    BY <1>1, <2>1, LoadEnded, LoadUnread, ConstantsType DEF LoadsOf, NoJob
  <2>4. PageSays(c)
    BY <1>1, <2>1, <2>3 DEF PageSays
  <2> QED
    BY <1>2, <2>2, <2>4
<1> QED
  BY <1>3, <1>4, <1>5, <1>7, <1>8, <1>9, <1>10 DEF PageStep

LEMMA DeliveredPages ==
  ASSUME HostType, Delivered, NEW c \in Connections,
         PageLoads(c), PageSays(c), PageOthers(c)
  PROVE  Delivered'
<1>1. \A d \in Connections : LoadsOf(d)' \subseteq LoadsOf(d)
  BY LoadsSame DEF PageLoads, PageOthers
<1>2. AllApart'
  BY LoadsSame DEF PageLoads, PageOthers, Delivered, AllApart
<1>3. \A s \in Sessions : Sent(s) => Sent(s)'
  BY DEF PageOthers, Sent
<1>4. ASSUME NEW d \in Connections, NEW i \in 1..Len(messages'[d])
      PROVE  \/ \E j \in 1..Len(messages[d]) : messages[d][j] = messages'[d][i]
             \/ messages'[d][i].type \notin {"result", "failed"}
             \/ /\ messages'[d][i].of \in Sessions /\ Sent(messages'[d][i].of)
                /\ \A e \in Connections : messages'[d][i].of \notin LoadsOf(e)'
  <2>1. CASE messages'[d] = messages[d]
    BY <1>4, <2>1
  <2>2. CASE messages'[d] # messages[d]
    <3>1. PICK s \in 0..MaxSessions, type \in {"ready", "opened", "result", "failed"} :
            /\ Say(c, type, s)
            /\ type \in {"result", "failed"} => s \in LoadsOf(c) /\ s \notin LoadsOf(c)'
      BY <2>2 DEF PageSays
    <3>2. d = c /\ messages'[c] = Append(messages[c], Message(type, s))
      BY <2>2, <3>1, SaidType
    <3>3. messages[c] \in Seq(Messages) /\ Message(type, s) \in Messages
      BY <3>1, MessageIsOne DEF HostType
    <3>4. /\ Len(messages[c]) \in Nat /\ Len(messages'[c]) = Len(messages[c]) + 1
          /\ \A j \in 1..Len(messages[c]) : messages'[c][j] = messages[c][j]
          /\ messages'[c][Len(messages[c]) + 1] = Message(type, s)
      BY <3>2, <3>3, AppendProperties, LenProperties
    <3>5. CASE i \in 1..Len(messages[c])
      BY <3>2, <3>4, <3>5
    <3>6. CASE i = Len(messages[c]) + 1
      <4>1. messages'[d][i].type = type /\ messages'[d][i].of = s
        BY <3>2, <3>4, <3>6 DEF Message
      <4>2. CASE type \in {"result", "failed"}
        <5>1. s \in Sessions /\ Sent(s)
          BY <3>1, <4>2, LoadsOfType DEF Delivered, AllSent
        <5>2. \A e \in Connections : s \notin LoadsOf(e)'
          BY <1>1, <3>1, <4>2 DEF Delivered, OnePage
        <5> QED
          BY <4>1, <5>1, <5>2
      <4> QED
        BY <4>1, <4>2
    <3> QED
      BY <1>4, <3>2, <3>4, <3>5, <3>6
  <2> QED
    BY <2>1, <2>2
<1> QED
  BY <1>1, <1>2, <1>3, <1>4, DeliveredKept

\* A session that is not at its end is let go of by nobody, and a job that is
\* there is that of one which is not.
LEMMA ServedEnds ==
  ASSUME HostType, Leaving, Delivered, Served, NEW c \in Connections,
         Serves(c), PageThere(c), Unstopped(commands[c]), NEW s \in LoadsOf(c)
  PROVE  /\ s \in Sessions /\ executor[s] = c /\ Sent(s) /\ ~Ended(s) /\ s = current
         /\ \A x \in Connections : abandoning[x].at # "none" => abandoning[x].of # s
<1>1. s \in Sessions /\ executor[s] = c /\ Sent(s)
  BY LoadsOfType DEF Served, Delivered, AllSent
<1>2. c # Nobody
  BY HostAssumption DEF Connections, Nobody
<1>3. ~Ended(s)
  BY <1>1, <1>2 DEF Leaving, LetGo
<1>4. s = current
  BY <1>1, <1>3 DEF Sent, Ended
<1>5. ASSUME NEW x \in Connections, abandoning[x].at # "none", abandoning[x].of = s
      PROVE  FALSE
  <2>1. x = c /\ task[x] = "gone"
    BY <1>1, <1>2, <1>5 DEF Leaving, TasksLeave, TaskLeaves
  <2> QED
    BY <2>1 DEF Serves, Serving
<1> QED
  BY <1>1, <1>3, <1>4, <1>5

\* Jobs only leave, and their sessions stay as they are.
LEMMA ServedKept ==
  ASSUME HostType, Served, UNCHANGED <<executor, active>>,
         abandoning'[Runner] = abandoning[Runner],
         \A c \in Connections :
            Serves(c)' /\ PageThere(c)' /\ Unstopped(commands[c])' /\ LoadsOf(c)' # {} =>
              /\ Serves(c) /\ PageThere(c) /\ Unstopped(commands[c])
              /\ LoadsOf(c)' \subseteq LoadsOf(c)
  PROVE  Served'
<1>1. ASSUME NEW c \in Connections, Serves(c)', PageThere(c)', Unstopped(commands[c])',
             NEW s \in LoadsOf(c)'
      PROVE  /\ executor'[s] = c
             /\ \/ s \in active'
                \/ /\ abandoning'[Runner].at = "clear" /\ abandoning'[Runner].running
                   /\ abandoning'[Runner].of = s
  <2>1. Serves(c) /\ PageThere(c) /\ Unstopped(commands[c]) /\ s \in LoadsOf(c)
    BY <1>1
  <2> QED
    BY <2>1 DEF Served
<1> QED
  BY <1>1 DEF Served

LEMMA ServedTasks ==
  ASSUME HostType, Leaving, Delivered, Served, NEW c \in Connections, TaskStep(c) \/ Silence(c)
  PROVE  Served'
<1> USE DEF hostVars, taskVars, sessionVars, runnerVars, pageVars
<1>1. /\ UNCHANGED <<page, executor>> /\ abandoning'[Runner] = abandoning[Runner]
      /\ \A d \in Connections : Serves(d)' => Serves(d)
  <2>1. UNCHANGED <<page, executor>>
    BY DEF TaskStep, Silence, ReportReady, FindLeader, PublishLeader, ReloadNow, UnitOpened,
           Answer, Retire, LosePage, EndLoop, Detach, LeaveSession
  <2>2. abandoning'[Runner] = abandoning[Runner]
    BY LeavingTypes
       DEF TaskStep, Silence, ReportReady, FindLeader, PublishLeader, ReloadNow, UnitOpened,
           Answer, Retire, LosePage, EndLoop, Detach, LeaveSession, StartAbandon, HostType
  <2>3. \A d \in Connections : Serves(d)' => Serves(d)
    BY DEF TaskStep, Silence, ReportReady, FindLeader, PublishLeader, ReloadNow, UnitOpened,
           Answer, Retire, LosePage, EndLoop, Detach, LeaveSession, Step, Serves, Serving,
           HostType
  <2> QED
    BY <2>1, <2>2, <2>3
<1>2. /\ \A d \in Connections : LoadsOf(d)' = LoadsOf(d)
      /\ \A d \in Connections : Unstopped(commands[d])' => Unstopped(commands[d])
  BY DeliveredTasks
<1>3. \A d \in Connections : PageThere(d)' <=> PageThere(d)
  BY <1>1 DEF PageThere
<1>4. CASE UNCHANGED active
  BY <1>1, <1>2, <1>3, <1>4, ServedKept
<1>5. CASE ~(UNCHANGED active)
  <2>1. Retire(c)
    BY <1>5 DEF TaskStep, Silence, ReportReady, FindLeader, PublishLeader, ReloadNow,
                UnitOpened, Answer, LosePage, EndLoop, Detach, LeaveSession
  <2>2. PICK type \in {"result", "failed"} : Take(c, type)
    BY <2>1 DEF Retire
  <2>3. Head(messages[c]) = messages[c][1] /\ 1 \in 1..Len(messages[c])
    BY <2>2, HeardType DEF Take
  <2>4. \A d \in Connections : Head(messages[c]).of \notin LoadsOf(d)
    BY <2>2, <2>3 DEF Take, Delivered, Told, Over
  <2>5. active' = active \ {Head(messages[c]).of}
    BY <2>1 DEF Retire
  <2>6. ASSUME NEW d \in Connections, Serves(d)', PageThere(d)', Unstopped(commands[d])',
               NEW s \in LoadsOf(d)'
        PROVE  /\ executor'[s] = d
               /\ \/ s \in active'
                  \/ /\ abandoning'[Runner].at = "clear" /\ abandoning'[Runner].running
                     /\ abandoning'[Runner].of = s
    <3>1. Serves(d) /\ PageThere(d) /\ Unstopped(commands[d]) /\ s \in LoadsOf(d)
      BY <1>1, <1>2, <1>3, <2>6
    <3> QED
      BY <1>1, <2>4, <2>5, <3>1 DEF Served
  <2> QED
    BY <2>6 DEF Served
<1> QED
  BY <1>4, <1>5

\* A page that comes has nothing to run.
LEMMA ConnectLoads ==
  ASSUME HostType, Standing, NEW c \in Connections, Connect(c)
  PROVE  /\ LoadsOf(c) = {} /\ UNCHANGED <<job, commands, executor, active, abandoning>>
         /\ UNCHANGED <<messages, runner, current, busy>>
         /\ \A d \in Connections : d # c => page'[d] = page[d] /\ task'[d] = task[d]
<1>1. page[c] = "none" /\ job[c] = NoJob /\ commands[c] = <<>>
  BY DEF Connect, Standing
<1>2. LoadsOf(c) = {}
  <2>1. Loads(None, <<>>) = {}
    BY LoadUnread, ConstantsType
  <2>2. job[c].of = None
    BY <1>1 DEF NoJob
  <2> QED
    BY <1>1, <2>1, <2>2 DEF LoadsOf
<1> QED
  BY <1>2 DEF Connect, Step, HostType, sessionVars, runnerVars

LEMMA ServedPages ==
  ASSUME HostType, Served, NEW c \in Connections, PageLoads(c), PageOthers(c)
  PROVE  Served'
<1>1. ASSUME NEW d \in Connections, d # c
      PROVE  /\ LoadsOf(d)' = LoadsOf(d) /\ (PageThere(d)' <=> PageThere(d))
             /\ Unstopped(commands[d])' <=> Unstopped(commands[d])
  BY <1>1, LoadsSame DEF PageOthers, PageThere
<1>2. \A d \in Connections : Serves(d)' <=> Serves(d)
  BY DEF PageOthers, Serves
<1>3. UNCHANGED <<executor, active, abandoning>>
  BY DEF PageOthers
<1>4. Unstopped(commands[c])' /\ PageThere(c)' =>
        Unstopped(commands[c]) /\ PageThere(c) /\ LoadsOf(c)' \subseteq LoadsOf(c)
  BY DEF PageLoads
<1> QED
  BY <1>1, <1>2, <1>3, <1>4, ServedKept

\* Steps that touch neither what the pages have nor what they say.
LEMMA DeliveredSame ==
  ASSUME HostType, Delivered, UNCHANGED <<job, commands, messages>>,
         \A s \in Sessions : Sent(s) => Sent(s)'
  PROVE  Delivered'
<1>1. AllApart'
  BY LoadsSame DEF Delivered, AllApart
<1>2. \A c \in Connections : LoadsOf(c)' \subseteq LoadsOf(c)
  BY LoadsSame
<1> QED
  BY <1>1, <1>2, DeliveredKept

LEMMA ConnectStep ==
  ASSUME HostType, Standing, Delivered, Served, NEW c \in Connections, Connect(c)
  PROVE  Delivered' /\ Served'
<1>1. Delivered'
  BY ConnectLoads, DeliveredSame DEF Sent
<1>2. ASSUME NEW d \in Connections, Serves(d)', PageThere(d)', LoadsOf(d)' # {}
      PROVE  Serves(d) /\ PageThere(d)
  <2>1. LoadsOf(d)' = LoadsOf(d)
    BY ConnectLoads, LoadsSame
  <2>2. d # c
    BY <1>2, <2>1, ConnectLoads
  <2> QED
    BY <1>2, <2>2, ConnectLoads DEF Serves, PageThere
<1>3. \A d \in Connections :
        LoadsOf(d)' = LoadsOf(d) /\ (Unstopped(commands[d])' <=> Unstopped(commands[d]))
  BY ConnectLoads, LoadsSame
<1>4. Served'
  BY <1>2, <1>3, ConnectLoads, ServedKept
<1> QED
  BY <1>1, <1>4

\* A command that is no job, sent with nothing else touched.
LEMMA CommandStep ==
  ASSUME HostType, Delivered, Served,
         UNCHANGED <<page, job, messages, task, executor, active, abandoning>>,
         \A s \in Sessions : Sent(s) => Sent(s)',
         \/ UNCHANGED commands
         \/ \E c \in (0..MaxConnections) \ {Nobody}, s \in 0..MaxSessions,
               type \in {"units", "close", "reload"} : commands' = Queued(c, Message(type, s))
  PROVE  Delivered' /\ Served'
<1>1. /\ AllApart'
      /\ \A d \in Connections : LoadsOf(d)' = LoadsOf(d)
      /\ \A d \in Connections : Unstopped(commands[d])' => Unstopped(commands[d])
  <2>1. CASE UNCHANGED commands
    BY <2>1, LoadsSame DEF Delivered, AllApart
  <2>2. CASE ~(UNCHANGED commands)
    BY <2>2, QueuedLoads DEF Delivered
  <2> QED
    BY <2>1, <2>2
<1>2. Delivered'
  BY <1>1, DeliveredKept
<1>3. \A d \in Connections : (Serves(d)' <=> Serves(d)) /\ (PageThere(d)' <=> PageThere(d))
  BY DEF Serves, PageThere
<1>4. Served'
  BY <1>1, <1>3, ServedKept
<1> QED
  BY <1>2, <1>4

\* The job is sent where no other is left to run, or behind a stop.
LEMMA SendJobStep ==
  ASSUME HostType, Standing, Leaving, Delivered, Served, SendJob
  PROVE  Delivered' /\ Served'
<1> DEFINE m == Message("job", current)
<1>1. /\ runner = "armed" /\ runner' \in {"opening", "drop"} /\ current \in Sessions
      /\ UNCHANGED <<page, job, messages, task, executor, active, abandoning, current>>
      /\ ~Sent(current)
  BY DEF SendJob, SendText, Goes, Leaving, OpenSession, Sent, Sessions, HostType,
         taskVars, sessionVars, pageVars
<1>2. \A s \in Sessions : Sent(s) => Sent(s)'
  BY <1>1 DEF Sent
<1>3. Sent(current)'
  BY <1>1 DEF Sent
<1>4. CASE UNCHANGED commands
  BY <1>1, <1>2, <1>4, CommandStep
<1>5. CASE ~(UNCHANGED commands)
  <2>0. PICK c \in 0..MaxConnections : c = executor[current]
    BY <1>1 DEF HostType
  <2>1. /\ c \in Connections /\ Serves(c) /\ c # Nobody /\ commands' = Queued(c, m)
        /\ m \in Messages /\ m.type = "job" /\ m.of = current /\ current # None
    <3>1. c # Nobody /\ Serves(c) /\ commands' = Queued(c, m)
      BY <1>5, <2>0 DEF SendJob, SendText
    <3>2. c \in Connections
      BY <1>1, <2>0, <3>1, LeavingTypes
    <3>3. m \in Messages /\ current # None
      BY <1>1, MessageIsOne, HostAssumption DEF Sessions, None
    <3> QED
      BY <3>1, <3>2, <3>3 DEF Message
  <2>2. ~Gone(c) /\ PageThere(c)
    <3>1. ~Gone(c)
      BY <1>5, <2>1 DEF Queued
    <3> QED
      BY <2>1, <3>1 DEF Standing, Serves, Serving, Gone, PageThere, HostType
  <2>3. /\ commands'[c] = Append(commands[c], m)
        /\ \A d \in Connections : d # c => commands'[d] = commands[d]
    BY <2>1, <2>2, QueuedType
  <2>4. \A d \in Connections : current \notin LoadsOf(d)
    BY <1>1 DEF Delivered, AllSent
  <2>5. Unstopped(commands[c]) => LoadsOf(c) = {}
    <3>1. ASSUME Unstopped(commands[c]), NEW s \in LoadsOf(c) PROVE FALSE
      <4>1. s = current
        BY <2>1, <2>2, <3>1, ServedEnds
      <4> QED
        BY <2>1, <2>4, <4>1
    <3> QED
      BY <3>1
  <2> HIDE DEF m
  <2>6. /\ Apart(job[c].of, commands[c])'
        /\ LoadsOf(c)' = LoadsOf(c) \union {current}
        /\ Unstopped(commands[c])' <=> Unstopped(commands[c])
    <3>1. /\ job[c].of \in 0..MaxSessions /\ commands[c] \in Seq(Messages)
          /\ Apart(job[c].of, commands[c]) /\ m.of \notin Loads(job[c].of, commands[c])
          /\ Unstopped(commands[c]) => Loads(job[c].of, commands[c]) = {}
      BY <2>1, <2>4, <2>5, LoadsOfType DEF Delivered, AllApart, LoadsOf
    <3>2. LET r == Append(commands[c], m) IN
          /\ Apart(job[c].of, r)
          /\ Loads(job[c].of, r) = Loads(job[c].of, commands[c]) \union {m.of}
          /\ Unstopped(r) <=> Unstopped(commands[c]) /\ m.type \notin Stopping
      BY <2>1, <3>1, LoadSent
    <3> QED
      BY <1>1, <2>1, <2>3, <3>2 DEF LoadsOf, Stopping
  <2>7. ASSUME NEW d \in Connections, d # c
        PROVE  /\ LoadsOf(d)' = LoadsOf(d) /\ Apart(job[d].of, commands[d])'
               /\ Unstopped(commands[d])' <=> Unstopped(commands[d])
    BY <1>1, <2>3, <2>7, LoadsSame DEF Delivered, AllApart
  <2>8. AllApart'
    BY <2>6, <2>7 DEF AllApart
  <2>9. OnePage'
    BY <2>4, <2>6, <2>7 DEF Delivered, OnePage
  <2>10. AllSent'
    <3>1. ASSUME NEW d \in Connections, NEW s \in LoadsOf(d)' PROVE Sent(s)'
      <4>1. CASE s \in LoadsOf(d)
        BY <1>2, <4>1, LoadsOfType DEF Delivered, AllSent
      <4>2. CASE s \notin LoadsOf(d)
        <5>1. s = current
          BY <2>6, <2>7, <3>1, <4>2
        <5> QED
          BY <1>1, <5>1 DEF Sent
      <4> QED
        BY <4>1, <4>2
    <3> QED
      BY <3>1 DEF AllSent
  <2>11. Told'
    <3>1. ASSUME NEW d \in Connections, NEW i \in 1..Len(messages[d]),
                 messages[d][i].type \in {"result", "failed"}
          PROVE  Over(messages[d][i].of)'
      <4>1. Over(messages[d][i].of)
        BY <3>1 DEF Delivered, Told
      <4>2. messages[d][i].of # current
        BY <1>1, <4>1 DEF Over
      <4>3. \A e \in Connections : messages[d][i].of \notin LoadsOf(e)'
        BY <2>6, <2>7, <4>1, <4>2 DEF Over
      <4> QED
        BY <1>1, <1>2, <4>1, <4>3 DEF Over
    <3> QED
      BY <1>1, <3>1 DEF Told
  <2>12. ASSUME NEW d \in Connections, Serves(d)', PageThere(d)', Unstopped(commands[d])',
                NEW s \in LoadsOf(d)'
         PROVE  /\ executor'[s] = d
                /\ \/ s \in active'
                   \/ /\ abandoning'[Runner].at = "clear" /\ abandoning'[Runner].running
                      /\ abandoning'[Runner].of = s
    <3>1. Serves(d) /\ PageThere(d) /\ Unstopped(commands[d])
      BY <1>1, <2>6, <2>7, <2>12 DEF Serves, PageThere
    <3>2. CASE s \in LoadsOf(d)
      BY <1>1, <3>1, <3>2 DEF Served
    <3>3. CASE s \notin LoadsOf(d)
      <4>1. s = current /\ d = c
        BY <2>6, <2>7, <2>12, <3>3
      <4>2. task[c] # "gone"
        BY <2>1 DEF Serves, Serving
      <4>3. current \in active
        BY <1>1, <2>0, <2>1, <4>2 DEF Leaving, Armed
      <4> QED
        BY <1>1, <2>0, <4>1, <4>3
    <3> QED
      BY <3>2, <3>3
  <2>13. Served'
    BY <2>12 DEF Served
  <2> QED
    BY <2>8, <2>9, <2>10, <2>11, <2>13 DEF Delivered
<1> QED
  BY <1>4, <1>5

\* The session that is bound to an executor, entered or abandoned is not one whose
\* job is somewhere unstopped.
LEMMA SessionStep ==
  ASSUME HostType, Leaving, Delivered, Served,
         UNCHANGED <<page, job, messages, task, commands>>,
         \A s \in Sessions : Sent(s) => Sent(s)',
         \A s \in Sessions : Sent(s) => executor'[s] = executor[s],
         active \subseteq active',
         abandoning[Runner].at # "none" => UNCHANGED abandoning
  PROVE  Delivered' /\ Served'
<1>1. Delivered'
  BY DeliveredSame
<1>2. ASSUME NEW d \in Connections, Serves(d)', PageThere(d)', Unstopped(commands[d])',
             NEW s \in LoadsOf(d)'
      PROVE  /\ executor'[s] = d
             /\ \/ s \in active'
                \/ /\ abandoning'[Runner].at = "clear" /\ abandoning'[Runner].running
                   /\ abandoning'[Runner].of = s
  <2>1. Serves(d) /\ PageThere(d) /\ Unstopped(commands[d]) /\ s \in LoadsOf(d)
    BY <1>2, LoadsSame DEF Serves, PageThere
  <2>2. s \in Sessions /\ Sent(s)
    BY <2>1, ServedEnds
  <2> QED
    BY <2>1, <2>2 DEF Served
<1> QED
  BY <1>1, <1>2 DEF Served

LEMMA RunnerSteps ==
  ASSUME HostType, Standing, Leaving, Delivered, Served, RunnerStep \/ Stop \/ ReloadExecutor
  PROVE  Delivered' /\ Served'
<1> USE DEF hostVars, taskVars, sessionVars, runnerVars, pageVars
<1>1. CASE SendJob
  BY <1>1, SendJobStep
<1>2. CASE SendUnits \/ ReloadExecutor
  <2>1. UNCHANGED <<page, job, messages, task, executor, active, abandoning>>
    BY <1>2 DEF SendUnits, ReloadExecutor, SendText
  <2>2. \A s \in Sessions : Sent(s) => Sent(s)'
    BY <1>2 DEF SendUnits, ReloadExecutor, SendText, Goes, Sent
  <2>3. \/ UNCHANGED commands
        \/ \E c \in (0..MaxConnections) \ {Nobody}, s \in 0..MaxSessions,
              type \in {"units", "close", "reload"} : commands' = Queued(c, Message(type, s))
    <3>1. CASE ReloadExecutor
      BY <3>1, ConstantsType DEF ReloadExecutor, HostType
    <3>2. CASE SendUnits
      <4>1. /\ current \in Sessions /\ executor[current] \in 0..MaxConnections
            /\ current \in 0..MaxSessions
        BY <3>2 DEF SendUnits, SendText, Goes, Leaving, OpenSession, HostType
      <4>2. CASE UNCHANGED commands
        BY <4>2
      <4>3. CASE ~(UNCHANGED commands)
        BY <3>2, <4>1, <4>3 DEF SendUnits, SendText
      <4> QED
        BY <4>2, <4>3
    <3> QED
      BY <1>2, <3>1, <3>2
  <2> QED
    BY <2>1, <2>2, <2>3, CommandStep
<1>3. CASE ~(SendJob \/ SendUnits \/ ReloadExecutor)
  <2>1. UNCHANGED <<page, job, messages, task, commands>>
    BY <1>3 DEF RunnerStep, Stop, Open, SeeLeader, Capture, InsertAnswer, SetActive, Answered,
                DropSession, CloseSession
  <2>2. \A s \in Sessions : Sent(s) => Sent(s)'
    <3>1. current \in Nat /\ \A s \in Sessions : s \in Nat
      BY HostAssumption DEF HostType, Sessions
    <3> QED
      BY <1>3, <3>1 DEF RunnerStep, Stop, Open, SeeLeader, Capture, InsertAnswer, SetActive,
                Answered, DropSession, CloseSession, Goes, Waits, Sent
  <2>3. \A s \in Sessions : Sent(s) => executor'[s] = executor[s]
    <3>1. CASE Capture
      <4>1. ASSUME NEW s \in Sessions, Sent(s) PROVE s # current
        <5>1. current \in Nat
          BY HostAssumption DEF HostType
        <5> QED
          BY <3>1, <4>1, <5>1 DEF Capture, Goes, Sent
      <4> QED
        BY <3>1, <4>1 DEF Capture, HostType
    <3>2. CASE ~Capture
      BY <1>3, <3>2 DEF RunnerStep, Stop, Open, SeeLeader, InsertAnswer, SetActive, Answered,
                DropSession, CloseSession
    <3> QED
      BY <3>1, <3>2
  <2>4. active \subseteq active'
    BY <1>3 DEF RunnerStep, Stop, Open, SeeLeader, Capture, InsertAnswer, SetActive, Answered,
                DropSession, CloseSession
  <2>5. abandoning[Runner].at # "none" => UNCHANGED abandoning
    <3>1. CASE DropSession
      BY <3>1 DEF DropSession, Goes, Leaving, RunnerLeaves
    <3>2. CASE ~DropSession
      BY <1>3, <3>2 DEF RunnerStep, Stop, Open, SeeLeader, Capture, InsertAnswer, SetActive,
                Answered, CloseSession
    <3> QED
      BY <3>1, <3>2
  <2> QED
    BY <2>1, <2>2, <2>3, <2>4, <2>5, SessionStep
<1> QED
  BY <1>1, <1>2, <1>3

\* The runner's drop stops what runs; a connection that is gone has nothing to stop.
LEMMA AbandonSteps ==
  ASSUME HostType, Leaving, Delivered, Served, NEW x \in Abandoners, Abandon(x)
  PROVE  Delivered' /\ Served'
<1> USE DEF hostVars, taskVars, runnerVars, pageVars
<1> DEFINE s == abandoning[x].of
<1>1. /\ abandoning[x].at # "none" /\ s \in Sessions
      /\ UNCHANGED <<page, job, messages, task, runner, current>>
      /\ \A y \in Abandoners : y # x => abandoning'[y] = abandoning[y]
  BY LeavingTypes DEF Abandon, DrainAnswers, TakeActive, ClearExecutor, AbandonStep, HostType
<1>2. \A t \in Sessions : Sent(t) => Sent(t)'
  BY <1>1 DEF Sent
<1>3. \A d \in Connections : (Serves(d)' <=> Serves(d)) /\ (PageThere(d)' <=> PageThere(d))
  BY <1>1 DEF Serves, PageThere
\* What an unstopped job still has, for a step that keeps the channels.
<1>4. CASE DrainAnswers(x) \/ TakeActive(x)
  <2>1. UNCHANGED <<executor, commands>>
    BY <1>4 DEF DrainAnswers, TakeActive
  <2>2. Delivered'
    BY <1>1, <1>2, <2>1, DeliveredSame
  <2>3. ASSUME NEW d \in Connections, Serves(d)', PageThere(d)', Unstopped(commands[d])',
               NEW t \in LoadsOf(d)'
        PROVE  /\ executor'[t] = d
               /\ \/ t \in active'
                  \/ /\ abandoning'[Runner].at = "clear" /\ abandoning'[Runner].running
                     /\ abandoning'[Runner].of = t
    <3>1. Serves(d) /\ PageThere(d) /\ Unstopped(commands[d]) /\ t \in LoadsOf(d)
      BY <1>1, <1>3, <2>1, <2>3, LoadsSame
    <3>2. /\ executor[t] = d /\ t = current
          /\ \/ t \in active
             \/ /\ abandoning[Runner].at = "clear" /\ abandoning[Runner].running
                /\ abandoning[Runner].of = t
      BY <3>1, ServedEnds DEF Served
    <3>3. CASE x # Runner
      <4>1. s # t
        BY <1>1, <3>1, <3>3, LeavingTypes, ServedEnds
      <4>2. t \in active => t \in active'
        BY <1>4, <4>1 DEF DrainAnswers, TakeActive
      <4> QED
        BY <1>1, <2>1, <3>2, <3>3, <4>2, LeavingTypes
    <3>4. CASE x = Runner
      <4>1. s = t /\ t \in active
        BY <1>1, <1>4, <3>2, <3>4
           DEF Leaving, RunnerLeaves, DrainAnswers, TakeActive, AbandonStep
      <4>2. CASE DrainAnswers(x)
        BY <2>1, <3>2, <4>1, <4>2 DEF DrainAnswers
      <4>3. CASE TakeActive(x)
        <5> DEFINE was == s \in active
        <5>1. was = TRUE
          BY <4>1
        <5>2. abandoning'[x] = [at |-> "clear", of |-> s, running |-> was]
          BY <1>1, <4>3 DEF TakeActive, AbandonStep, HostType
        <5> HIDE DEF was
        <5>3. /\ abandoning'[Runner].at = "clear" /\ abandoning'[Runner].running
              /\ abandoning'[Runner].of = t
          BY <3>4, <4>1, <5>1, <5>2
        <5> QED
          BY <2>1, <3>2, <5>3
      <4> QED
        BY <1>4, <4>2, <4>3
    <3> QED
      BY <3>3, <3>4
  <2> QED
    BY <2>2, <2>3 DEF Served
<1>5. CASE ClearExecutor(x)
  <2> DEFINE c == executor[s]
  <2>1. /\ abandoning[x].at = "clear" /\ UNCHANGED active
        /\ executor' = [executor EXCEPT ![s] = Nobody]
        /\ c \in 0..MaxConnections
        /\ \/ UNCHANGED commands
           \/ c # Nobody /\ commands' = Queued(c, Message("close", None))
    BY <1>1, <1>5 DEF ClearExecutor, AbandonStep, HostType
  <2>2. /\ AllApart'
        /\ \A d \in Connections : LoadsOf(d)' = LoadsOf(d)
        /\ \A d \in Connections : Unstopped(commands[d])' => Unstopped(commands[d])
    <3>1. CASE UNCHANGED commands
      BY <1>1, <3>1, LoadsSame DEF Delivered, AllApart
    <3>2. CASE ~(UNCHANGED commands)
      BY <1>1, <2>1, <3>2, ConstantsType, QueuedLoads DEF Delivered
    <3> QED
      BY <3>1, <3>2
  <2>3. Delivered'
    BY <1>1, <1>2, <2>2, DeliveredKept
  <2>4. ASSUME NEW d \in Connections, Serves(d)', PageThere(d)', Unstopped(commands[d])',
               NEW t \in LoadsOf(d)'
        PROVE  /\ executor'[t] = d
               /\ \/ t \in active'
                  \/ /\ abandoning'[Runner].at = "clear" /\ abandoning'[Runner].running
                     /\ abandoning'[Runner].of = t
    <3>1. Serves(d) /\ PageThere(d) /\ Unstopped(commands[d]) /\ t \in LoadsOf(d)
      BY <1>3, <2>2, <2>4
    <3>2. /\ executor[t] = d /\ t = current /\ t \in Sessions
          /\ \/ t \in active
             \/ /\ abandoning[Runner].at = "clear" /\ abandoning[Runner].running
                /\ abandoning[Runner].of = t
      BY <3>1, ServedEnds DEF Served
    <3>3. x # Runner
      <4>1. ASSUME x = Runner PROVE FALSE
        <5>1. s = t /\ t \notin active /\ abandoning[x].running
          BY <1>1, <2>1, <3>2, <4>1 DEF Leaving, RunnerLeaves
        <5>2. c = d /\ d # Nobody
          BY <3>2, <5>1, HostAssumption DEF Connections, Nobody
        <5>3. commands' = Queued(d, Message("close", None))
          BY <1>5, <3>1, <5>1, <5>2 DEF ClearExecutor
        <5>4. ~Gone(d) /\ "close" \in Stopping
          BY <3>1 DEF PageThere, Gone, Stopping
        <5>5. ~Unstopped(commands[d])'
          BY <1>1, <5>2, <5>3, <5>4, ConstantsType, QueuedLoads DEF Delivered
        <5> QED
          BY <2>4, <5>5
      <4> QED
        BY <4>1
    <3>4. s # t
      BY <1>1, <3>1, <3>3, LeavingTypes, ServedEnds
    <3>5. abandoning'[Runner] = abandoning[Runner]
      BY <1>1, <3>3, LeavingTypes
    <3> QED
      BY <2>1, <3>2, <3>4, <3>5
  <2> QED
    BY <2>3, <2>4 DEF Served
<1> QED
  BY <1>4, <1>5 DEF Abandon

-----------------------------------------------------------------------------
(* The theorems.                                                            *)

LEMMA HostInit ==
  ASSUME Init
  PROVE  HostInv /\ LeaderFirst
<1> USE ConstantsType DEF Init
<1>1. HostType
  BY DEF HostType, Tasks, RunnerPlaces, Nobody, None, Abandoners
<1>2. \A c \in Connections : LoadsOf(c) = {} /\ Apart(job[c].of, commands[c])
  <2>1. Loads(None, <<>>) = {} /\ Apart(None, <<>>)
    BY LoadUnread
  <2> QED
    BY <2>1 DEF LoadsOf, NoJob
<1>3. Standing
  BY DEF Standing, Gone, NoJob, None
<1>4. Leaving
  <2>1. Runner \notin Connections
    BY HostAssumption DEF Runner, Connections
  <2>2. \A x \in Abandoners : abandoning[x].at = "none"
    BY DEF Abandoners, NotAbandoning
  <2> QED
    BY <2>2 DEF Leaving, OpenSession, RunnerLeaves, TasksLeave, LetGo, Armed
<1>5. Delivered
  BY <1>2 DEF Delivered, AllApart, OnePage, AllSent, Told
<1>6. Served /\ ~busy
  BY <1>2 DEF Served
<1>7. LeaderFirst
  BY DEF LeaderFirst, FirstCapable
<1> QED
  BY <1>1, <1>3, <1>4, <1>5, <1>6, <1>7 DEF HostInv

LEMMA HostStep ==
  ASSUME HostInv, LeaderFirst, [Next]_vars
  PROVE  HostInv' /\ LeaderFirst'
<1> USE DEF HostInv
<1>0. /\ runner # "idle" => current \in Sessions
      /\ \A x \in Abandoners : abandoning[x].at # "none" => abandoning[x].of \in Sessions
  BY LeavingTypes
<1>1. ASSUME NEW c \in Connections, TaskStep(c) \/ Silence(c)
      PROVE  HostInv' /\ LeaderFirst'
  <2>1. busy' = busy
    BY <1>1 DEF TaskStep, Silence, ReportReady, FindLeader, PublishLeader, ReloadNow,
                UnitOpened, Answer, Retire, LosePage, EndLoop, Detach, LeaveSession, pageVars
  <2> QED
    BY <1>1, <2>1, TaskTypes, StandingTasks, LeavingTasks, DeliveredTasks, ServedTasks, LeadTasks
<1>2. ASSUME NEW c \in Connections, PageStep(c) \/ FailJob(c) \/ Die(c)
      PROVE  HostInv' /\ LeaderFirst'
  <2>1. PageLoads(c) /\ PageSays(c) /\ PageOthers(c)
    BY <1>2, PageStepLoads
  <2>2. Standing'
    BY <1>2, StandingPages DEF Delivered, AllApart
  <2>3. Delivered' /\ Served'
    BY <2>1, DeliveredPages, ServedPages
  <2>4. busy' = busy
    BY <2>1 DEF PageLoads
  <2> QED
    BY <1>2, <2>2, <2>3, <2>4, PageTypes, LeavingPages, LeadOthers
<1>3. ASSUME NEW c \in Connections, Connect(c) PROVE HostInv' /\ LeaderFirst'
  <2>1. busy' = busy
    BY <1>3, ConnectLoads
  <2> QED
    BY <1>3, <2>1, PageTypes, StandingConnect, LeavingPages, ConnectStep, LeadOthers
<1>4. ASSUME NEW x \in Abandoners, Abandon(x) PROVE HostInv' /\ LeaderFirst'
  <2>1. busy' = busy
    BY <1>4 DEF Abandon, DrainAnswers, TakeActive, ClearExecutor, pageVars
  <2> QED
    BY <1>0, <1>4, <2>1, AbandonTypes, StandingAbandon, LeavingAbandon, AbandonSteps, LeadOthers
<1>5. CASE RunnerStep \/ Stop \/ ReloadExecutor
  <2>1. busy' = busy
    BY <1>5 DEF RunnerStep, Stop, ReloadExecutor, Open, SeeLeader, Capture, InsertAnswer,
                SetActive, SendJob, SendUnits, SendText, Answered, DropSession, CloseSession,
                pageVars
  <2>2. Leaving'
    <3>1. CASE RunnerStep \/ Stop
      BY <3>1, LeavingRunner
    <3>2. CASE ReloadExecutor
      <4>1. /\ UNCHANGED <<session, current, runner, abandoning, executor, active, task>>
        BY <3>2 DEF ReloadExecutor, taskVars, sessionVars, runnerVars
      <4> QED
        BY <4>1, LeavingKept
    <3> QED
      BY <1>5, <3>1, <3>2
  <2> QED
    BY <1>0, <1>5, <2>1, <2>2, RunnerTypes, StandingRunner, RunnerSteps, LeadOthers
<1>6. CASE UNCHANGED vars
  <2>1. UNCHANGED <<hostVars, taskVars, sessionVars, runnerVars, pageVars, abandoning,
                    commands, messages>>
    BY <1>6 DEF vars, coreVars
  <2> USE DEF hostVars, taskVars, sessionVars, runnerVars, pageVars
  <2>2. HostType' /\ busy' = busy
    BY <2>1 DEF HostType
  <2>3. Standing' /\ Leaving'
    BY <2>1, StandingKept, LeavingKept
  <2>4. Delivered' /\ Served'
    BY <2>1, CommandStep DEF Sent
  <2>5. LeaderFirst'
    BY <2>1, LeadKept DEF Publishing
  <2> QED
    BY <2>2, <2>3, <2>4, <2>5
<1> QED
  BY <1>1, <1>2, <1>3, <1>4, <1>5, <1>6 DEF Next, Progress, Fault, Abandoners

LEMMA OneJobInvariant ==
  ASSUME HostInv
  PROVE  OneJobRuns
<1>1. ASSUME NEW c \in Connections, NEW d \in Connections, c < d,
             job[c] # NoJob, job[d] # NoJob
      PROVE  FALSE
  <2>1. page[d] # "none" /\ c \in 1..(d - 1)
    BY <1>1 DEF HostInv, Standing, Connections
  <2>2. page[c] = "over"
    BY <2>1 DEF HostInv, Standing
  <2> QED
    BY <1>1, <2>2 DEF HostInv, Standing
<1>2. \A c, d \in Connections : c < d \/ d < c \/ c = d
  BY HostAssumption DEF Connections
<1> QED
  BY <1>1, <1>2 DEF OneJobRuns, HostInv

LEMMA OrphanInvariant ==
  ASSUME HostInv
  PROVE  OrphanStopped
<1>1. ASSUME NEW c \in Connections, job[c] # NoJob, page[c] # "closed",
             ~InSession(job[c].of), Serves(c), Unstopped(commands[c]),
             \A x \in Abandoners : abandoning[x].of # job[c].of
      PROVE  FALSE
  <2>1. PageThere(c)
    BY <1>1 DEF HostInv, Standing, HostType, PageThere
  <2>2. job[c].of \in LoadsOf(c)
    <3>1. /\ job[c].of # None /\ job[c].of \in 0..MaxSessions
          /\ commands[c] \in Seq(Messages) /\ Apart(job[c].of, commands[c])
      BY <1>1, LoadsOfType DEF HostInv, Standing, Delivered, AllApart
    <3> QED
      BY <3>1, LoadEnded DEF LoadsOf
  <2>3. job[c].of = current /\ ~Ended(job[c].of)
    BY <1>1, <2>1, <2>2, ServedEnds DEF HostInv
  <2> QED
    BY <1>1, <2>3 DEF Ended, InSession
<1>2. ASSUME NEW c \in Connections, ~Unstopped(commands[c])
      PROVE  \E i \in DOMAIN commands[c] : commands[c][i].type \in {"close", "reload"}
  <2>1. DOMAIN commands[c] = 1..Len(commands[c])
    BY LenProperties DEF HostInv, HostType
  <2> QED
    BY <1>2, <2>1 DEF Unstopped, Stopping
<1> QED
  BY <1>1, <1>2 DEF OrphanStopped, Abandoners

\* At most one of the executor's pages has a job, and none is sent a job while
\* it has one, whatever connections come, go and fall silent and whatever
\* sessions are stopped.
THEOREM OneJobCorrect == Spec => []OneJobRuns
<1>1. Init => HostInv /\ LeaderFirst
  BY HostInit
<1>2. HostInv /\ LeaderFirst /\ [Next]_vars => (HostInv /\ LeaderFirst)'
  BY HostStep
<1>3. HostInv => OneJobRuns
  BY OneJobInvariant
<1> QED
  BY <1>1, <1>2, <1>3, PTL DEF Spec

\* A job whose session is gone is on its way to be stopped: nobody's late answer
\* and no second abandonment takes the stop away.
THEOREM OrphanCorrect == Spec => []OrphanStopped
<1>1. Init => HostInv /\ LeaderFirst
  BY HostInit
<1>2. HostInv /\ LeaderFirst /\ [Next]_vars => (HostInv /\ LeaderFirst)'
  BY HostStep
<1>3. HostInv => OrphanStopped
  BY OrphanInvariant
<1> QED
  BY <1>1, <1>2, <1>3, PTL DEF Spec

\* The lead is with the first capable connection whenever nobody is about to
\* publish, as long as no publication has overtaken another.
THEOREM LeaderCorrect == Spec => []LeaderFirst
<1>1. Init => HostInv /\ LeaderFirst
  BY HostInit
<1>2. HostInv /\ LeaderFirst /\ [Next]_vars => (HostInv /\ LeaderFirst)'
  BY HostStep
<1> QED
  BY <1>1, <1>2, PTL DEF Spec

=============================================================================
