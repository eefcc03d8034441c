-------------------------- MODULE MicrophoneProofs --------------------------
(***************************************************************************)
(* What holds of the microphone for any number of sessions, openings,      *)
(* inputs and faults: the session that is on has it, and those who share   *)
(* it hear it and leave nothing running.  And what holds of the player     *)
(* that a room shares, for any number of members and whatever of theirs    *)
(* crosses: one leads and the others follow.                               *)
(***************************************************************************)
EXTENDS TakeRecorder, MicrophoneShare, PlayRoom, SequenceTheorems, TLAPS

-----------------------------------------------------------------------------
(* The deck: what a session is at, and what it may still be at.            *)

Making == {"waking", "opening", "measuring", "starting", "playing"}

InitAt == Making \cup {"none", "ok", "failed"}
HaltAt == {"none", "init", "stopping", "stopped", "flush", "finish", "closed", "done"}
TakeStates ==
    [init : InitAt, halt : HaltAt, back : HaltAt, mic : BOOLEAN, play : BOOLEAN,
     keep : BOOLEAN, stopRequested : BOOLEAN, streamed : BOOLEAN,
     streamClosed : BOOLEAN, subscribed : BOOLEAN, waits : Nat]
Waiters == {Nobody} \cup ({"call"} \X Nat) \cup ({"init", "halt"} \X Sessions)
Flushers == {Nobody} \cup ({"halt", "back"} \X Sessions)

\* What the audio thread answers, what is posted to it and what a command keeps
\* of it is of any type.
Decks(playings, calls, outs) ==
    [playing : playings, recording : BOOLEAN, pending : BOOLEAN, slave : BOOLEAN,
     revision : Nat, current : {0} \cup Sessions,
     waiter : [revision : Nat, owner : Waiters], flusher : Flushers, promise : Nat,
     finishes : Nat, takes : [Sessions -> TakeStates], calls : calls,
     made : {0} \cup Sessions, asked : Nat, echoes : Nat, mishaps : Nat, out : outs]
IsDeck(d) == d \in Decks({d.playing}, {d.calls}, {d.out})

\* A session that is being prepared is the current one and is not being stopped
\* yet; what answers a stop comes after it.
Ordered(d) ==
    /\ \A s \in Sessions :
         /\ d.takes[s].init \in Making =>
              /\ d.current = s /\ d.takes[s].halt \in {"none", "init"}
              /\ d.waiter.owner # <<"halt", s>> /\ d.flusher # <<"halt", s>>
         /\ d.takes[s].mic => d.current = s
         /\ s > d.made =>
              /\ d.takes[s].halt = "none"
              /\ d.waiter.owner # <<"halt", s>> /\ d.flusher # <<"halt", s>>
    /\ d.recording => d.current # 0
    /\ d.current <= d.made

Good(d) == IsDeck(d) /\ Ordered(d)

\* What the invariant does not read makes no difference.
Alike(d, e) ==
    /\ e.recording => d.recording
    /\ e.current = d.current
    /\ e.waiter = d.waiter /\ e.flusher = d.flusher
    /\ e.takes = d.takes /\ e.made = d.made

LEMMA AlikeGood ==
  ASSUME NEW d, NEW e, Good(d), IsDeck(e), Alike(d, e)
  PROVE  Good(e)
BY DEF Good, Ordered, Alike

LEMMA PostedGood ==
  ASSUME NEW d, Good(d), NEW kind, NEW take
  PROVE  Good(Posted(d, kind, take)) /\ Alike(d, Posted(d, kind, take))
<1> DEFINE e == Posted(d, kind, take)
<1>1. IsDeck(e) /\ Alike(d, e)
  BY DEF Good, IsDeck, Decks, Posted, Alike
<1> HIDE DEF e
<1> QED
  BY <1>1, AlikeGood DEF e

\* The state of one session is replaced.
Changed(d, e, s, t) ==
    /\ e.takes = [d.takes EXCEPT ![s] = t]
    /\ e.current = d.current /\ e.made = d.made
    /\ e.recording => d.recording
    /\ \A r \in Sessions \ {s} :
         /\ e.waiter.owner = <<"halt", r>> => d.waiter.owner = <<"halt", r>>
         /\ e.flusher = <<"halt", r>> => d.flusher = <<"halt", r>>

OrderedAt(d, s) ==
    /\ d.takes[s].init \in Making =>
         /\ d.current = s /\ d.takes[s].halt \in {"none", "init"}
         /\ d.waiter.owner # <<"halt", s>> /\ d.flusher # <<"halt", s>>
    /\ d.takes[s].mic => d.current = s
    /\ s > d.made =>
         /\ d.takes[s].halt = "none"
         /\ d.waiter.owner # <<"halt", s>> /\ d.flusher # <<"halt", s>>

LEMMA ChangedGood ==
  ASSUME NEW d, NEW e, NEW s \in Sessions, NEW t \in TakeStates,
         Good(d), IsDeck(e), Changed(d, e, s, t), OrderedAt(e, s)
  PROVE  Good(e)
<1>1. ASSUME NEW r \in Sessions PROVE OrderedAt(e, r)
  <2>1. CASE r = s
    BY <2>1
  <2>2. CASE r # s
    <3>1. e.takes[r] = d.takes[r]
      BY <2>2 DEF Changed, Good, IsDeck, Decks
    <3>2. OrderedAt(d, r)
      BY DEF Good, Ordered, OrderedAt
    <3> QED
      BY <2>2, <3>1, <3>2 DEF OrderedAt, Changed
  <2> QED
    BY <2>1, <2>2
<1>2. /\ e.recording => e.current # 0
      /\ e.current <= e.made
  BY DEF Changed, Good, Ordered
<1> QED
  BY <1>1, <1>2 DEF Good, Ordered, OrderedAt

LEMMA RequestStopGood ==
  ASSUME NEW d, Good(d), d.current # 0, NEW keep \in BOOLEAN
  PROVE  LET e == RequestStop(d, d.current, keep)
         IN Good(e) /\ e.waiter = d.waiter /\ e.recording = d.recording
<1> DEFINE s == d.current
           t == [d.takes[s] EXCEPT !.halt = "init", !.keep = keep, !.stopRequested = TRUE]
           e == [d EXCEPT !.takes[s].halt = "init", !.takes[s].keep = keep,
                   !.takes[s].stopRequested = TRUE]
<1>1. s \in Sessions /\ d.takes[s] \in TakeStates
  BY DEF Good, IsDeck, Decks
<1>2. CASE d.takes[s].halt # "none"
  BY <1>2 DEF RequestStop
<1>3. CASE d.takes[s].halt = "none"
  <2>1. RequestStop(d, s, keep) = e
    BY <1>1, <1>3 DEF RequestStop
  <2>2. t \in TakeStates /\ t.init = d.takes[s].init /\ t.halt = "init" /\ t.mic = d.takes[s].mic
    BY <1>1 DEF TakeStates, HaltAt
  <2>3. /\ e.takes = [d.takes EXCEPT ![s] = t] /\ e.current = d.current /\ e.recording = d.recording
        /\ e.made = d.made /\ e.waiter = d.waiter /\ e.flusher = d.flusher
    BY <1>1 DEF IsDeck, Good, Decks, TakeStates
  <2> HIDE DEF t
  <2>4. e.takes \in [Sessions -> TakeStates] /\ e.takes[s] = t
    <3> HIDE DEF e
    <3> QED
      BY <1>1, <2>2, <2>3 DEF IsDeck, Good, Decks
  <2>5. IsDeck(e)
    BY <1>1, <2>4 DEF IsDeck, Good, Decks
  <2> HIDE DEF e
  <2>6. Changed(d, e, s, t)
    BY <2>3 DEF Changed
  <2>7. s <= d.made /\ s \in Nat /\ d.made \in Nat
    BY <1>1 DEF Good, IsDeck, Decks, Ordered, Sessions
  <2>8. OrderedAt(e, s)
    BY <1>1, <2>2, <2>3, <2>4, <2>7 DEF OrderedAt, Good, Ordered
  <2> QED
    BY <1>1, <2>1, <2>2, <2>3, <2>5, <2>6, <2>8, ChangedGood
<1> QED
  BY <1>2, <1>3

\* The player stops or plays; a session that watches it is asked to stop.
LEMMA SetPlayingGood ==
  ASSUME NEW d, Good(d), NEW playing
  PROVE  LET e == SetPlaying(d, playing)
         IN Good(e) /\ e.waiter = d.waiter /\ e.recording = d.recording
<1> DEFINE set == [d EXCEPT !.playing = playing]
<1>1. IsDeck(set) /\ Alike(d, set)
  BY DEF Good, IsDeck, Decks, Alike
<1>2. SetPlaying(d, playing) = IF d.playing /\ ~playing /\ set.current # 0 /\ d.takes[d.current].subscribed
                               THEN RequestStop(set, set.current, FALSE) ELSE set
  BY <1>1 DEF SetPlaying, Alike
<1> HIDE DEF set
<1>3. Good(set) /\ set.waiter = d.waiter /\ set.recording = d.recording
  BY <1>1, AlikeGood DEF Alike, set, Good, IsDeck, Decks
<1>4. ASSUME set.current # 0
      PROVE  LET e == RequestStop(set, set.current, FALSE)
             IN Good(e) /\ e.waiter = set.waiter /\ e.recording = set.recording
  BY <1>3, <1>4, RequestStopGood
<1> QED
  BY <1>2, <1>3, <1>4

\* What waits for an answer of the audio thread gives its place to owner.
LEMMA StopPlaybackGood ==
  ASSUME NEW d, Good(d), NEW owner \in Waiters,
         \A s \in Sessions : owner = <<"halt", s>> =>
             d.takes[s].init \notin Making /\ s <= d.made
  PROVE  Good(StopPlayback(d, owner))
<1> DEFINE e == [d EXCEPT !.waiter = [revision |-> d.revision, owner |-> owner]]
<1>1. /\ IsDeck(e) /\ e.waiter.owner = owner /\ e.flusher = d.flusher
      /\ e.takes = d.takes /\ e.current = d.current /\ e.recording = d.recording /\ e.made = d.made
  BY DEF Good, IsDeck, Decks
<1>2. StopPlayback(d, owner) = Posted(e, "stop", 0)
  BY DEF StopPlayback
<1> HIDE DEF e
<1>3. \A s \in Sessions : s \in Nat /\ d.made \in Nat
  BY DEF Good, IsDeck, Decks, Sessions
<1>4. Good(e)
  BY <1>1, <1>3 DEF Good, Ordered
<1> QED
  BY <1>2, <1>4, PostedGood

\* A stop of session s goes on after the session was prepared.
Stoppable(d, s) == d.takes[s].init \notin Making /\ s <= d.made

LEMMA SessionNumbers ==
  ASSUME NEW d, Good(d)
  PROVE  /\ d.made \in Nat /\ d.current \in Nat /\ \A s \in Sessions : s \in Nat /\ s # 0
         /\ d.takes \in [Sessions -> TakeStates]
BY DEF Good, IsDeck, Decks, Sessions

\* The stop of a session has come to its next wait.
LEMMA HaltMoves ==
  ASSUME NEW d, Good(d), NEW s \in Sessions, Stoppable(d, s),
         NEW e, IsDeck(e), NEW t \in TakeStates, Changed(d, e, s, t),
         t.init = d.takes[s].init, t.mic = d.takes[s].mic
  PROVE  Good(e)
<1>1. e.takes[s] = t
  BY SessionNumbers DEF Changed
<1>2. OrderedAt(e, s)
  BY <1>1, SessionNumbers DEF OrderedAt, Stoppable, Changed, Good, Ordered
<1> QED
  BY <1>2, ChangedGood

LEMMA CloseStreamGood ==
  ASSUME NEW d, Good(d), NEW s \in Sessions, NEW who \in {"halt", "back"},
         who = "halt" => Stoppable(d, s)
  PROVE  LET e == CloseStream(d, s, who)
         IN Good(e) /\ e.current = d.current
<1>0. d.takes[s] \in TakeStates /\ d.takes \in [Sessions -> TakeStates]
  BY SessionNumbers
<1>1. CASE ~d.takes[s].streamed \/ d.takes[s].streamClosed
  <2> DEFINE t == [d.takes[s] EXCEPT ![who] = "closed"]
             e == [d EXCEPT !.takes[s][who] = "closed"]
  <2>1. CloseStream(d, s, who) = e
    BY <1>1 DEF CloseStream
  <2>2. /\ t \in TakeStates /\ t.init = d.takes[s].init /\ t.mic = d.takes[s].mic
        /\ who = "back" => t.halt = d.takes[s].halt
    BY <1>0 DEF TakeStates, HaltAt
  <2>3. /\ e.takes = [d.takes EXCEPT ![s] = t] /\ e.current = d.current /\ e.recording = d.recording
        /\ e.made = d.made /\ e.waiter = d.waiter /\ e.flusher = d.flusher
    BY <1>0 DEF IsDeck, Good, Decks
  <2> HIDE DEF t
  <2>4. e.takes \in [Sessions -> TakeStates] /\ e.takes[s] = t
    <3> HIDE DEF e
    <3> QED
      BY <1>0, <2>2, <2>3
  <2>5. IsDeck(e)
    BY <2>4 DEF IsDeck, Good, Decks
  <2> HIDE DEF e
  <2>6. Changed(d, e, s, t)
    BY <2>3 DEF Changed
  <2>7. Good(e)
    <3>1. CASE who = "halt"
      BY <2>2, <2>5, <2>6, <3>1, HaltMoves
    <3>2. CASE who = "back"
      <4>1. OrderedAt(e, s)
        BY <2>2, <2>3, <2>4, <3>2 DEF OrderedAt, Good, Ordered
      <4> QED
        BY <2>2, <2>5, <2>6, <4>1, ChangedGood
    <3> QED
      BY <3>1, <3>2
  <2> QED
    BY <2>1, <2>3, <2>7
<1>2. CASE ~(~d.takes[s].streamed \/ d.takes[s].streamClosed)
  <2> DEFINE t == [d.takes[s] EXCEPT !.streamClosed = TRUE, ![who] = "flush"]
             e == [d EXCEPT !.takes[s].streamClosed = TRUE,
                            !.takes[s][who] = "flush", !.flusher = <<who, s>>]
  <2>1. CloseStream(d, s, who) = Posted(e, "flush", s)
    BY <1>2 DEF CloseStream
  <2>2. /\ t \in TakeStates /\ t.init = d.takes[s].init /\ t.mic = d.takes[s].mic
        /\ who = "back" => t.halt = d.takes[s].halt
    BY <1>0 DEF TakeStates, HaltAt
  <2>3. /\ e.takes = [d.takes EXCEPT ![s] = t] /\ e.current = d.current /\ e.recording = d.recording
        /\ e.made = d.made /\ e.waiter = d.waiter /\ e.flusher = <<who, s>>
    BY <1>0 DEF IsDeck, Good, Decks
  <2> HIDE DEF t
  <2>4. e.takes \in [Sessions -> TakeStates] /\ e.takes[s] = t
    <3> HIDE DEF e
    <3> QED
      BY <1>0, <2>2, <2>3
  <2>5. IsDeck(e)
    <3>1. <<who, s>> \in Flushers
      BY DEF Flushers
    <3> QED
      BY <2>4, <3>1 DEF IsDeck, Good, Decks
  <2> HIDE DEF e
  <2>6. Changed(d, e, s, t)
    BY <2>3 DEF Changed
  <2>7. Good(e)
    <3>1. CASE who = "halt"
      BY <2>2, <2>5, <2>6, <3>1, HaltMoves
    <3>2. CASE who = "back"
      <4>1. OrderedAt(e, s)
        BY <2>2, <2>3, <2>4, <3>2 DEF OrderedAt, Good, Ordered
      <4> QED
        BY <2>2, <2>5, <2>6, <4>1, ChangedGood
    <3> QED
      BY <3>1, <3>2
  <2>8. Good(Posted(e, "flush", s)) /\ Alike(e, Posted(e, "flush", s))
    BY <2>7, PostedGood
  <2> QED
    BY <2>1, <2>3, <2>8 DEF Alike
<1> QED
  BY <1>1, <1>2

\* The stop of session s is over: the microphone is given back.
LEMMA HaltSettledGood ==
  ASSUME NEW d, Good(d), NEW s \in Sessions, Stoppable(d, s)
  PROVE  Good(HaltSettled(d, s))
<1> DEFINE t == [d.takes[s] EXCEPT !.mic = FALSE, !.subscribed = FALSE, !.halt = "done"]
           current == IF d.current = s THEN 0 ELSE d.current
           e == [d EXCEPT !.takes[s].mic = FALSE, !.takes[s].subscribed = FALSE,
                          !.current = current, !.takes[s].halt = "done", !.recording = FALSE]
<1>0. d.takes[s] \in TakeStates /\ d.takes \in [Sessions -> TakeStates]
  BY SessionNumbers
<1>1. HaltSettled(d, s) = e
  BY DEF HaltSettled, CleanedUp, Good, IsDeck, Decks
<1>2. t \in TakeStates /\ t.init = d.takes[s].init /\ t.mic = FALSE
  BY <1>0 DEF TakeStates, HaltAt
<1> HIDE DEF current
<1>3. /\ e.takes = [d.takes EXCEPT ![s] = t] /\ e.current = current /\ e.recording = FALSE
      /\ e.made = d.made /\ e.waiter = d.waiter /\ e.flusher = d.flusher
  BY <1>0 DEF IsDeck, Good, Decks, TakeStates
<1> HIDE DEF t
<1>4. e.takes \in [Sessions -> TakeStates] /\ e.takes[s] = t
  <2> HIDE DEF e
  <2> QED
    BY <1>0, <1>2, <1>3
<1>5. current \in {0} \cup Sessions
  BY DEF current, Good, IsDeck, Decks
<1>6. IsDeck(e)
  BY <1>4, <1>5 DEF IsDeck, Good, Decks
<1> HIDE DEF e
<1>7. ASSUME NEW r \in Sessions PROVE OrderedAt(e, r)
  <2>1. CASE r = s
    BY <1>2, <1>3, <1>4, <2>1, SessionNumbers DEF OrderedAt, Stoppable
  <2>2. CASE r # s
    <3>1. e.takes[r] = d.takes[r] /\ (d.current = r => current = r)
      BY <1>0, <1>3, <2>2 DEF current
    <3>2. OrderedAt(d, r)
      BY DEF Good, Ordered, OrderedAt
    <3> QED
      BY <1>3, <3>1, <3>2 DEF OrderedAt
  <2> QED
    BY <2>1, <2>2
<1>8. current <= d.made
  BY SessionNumbers DEF current, Good, Ordered
<1> QED
  BY <1>1, <1>3, <1>6, <1>7, <1>8 DEF Good, Ordered, OrderedAt

\* A session that was being prepared has failed.
LEMMA FailSessionGood ==
  ASSUME NEW d, Good(d), NEW s \in Sessions, d.takes[s].init \in Making
  PROVE  Good(FailSession(d, s))
<1> DEFINE c == CloseStream(d, s, "back")
           t == [c.takes[s] EXCEPT !.mic = FALSE, !.subscribed = FALSE, !.init = "failed"]
           e == [c EXCEPT !.takes[s].mic = FALSE, !.takes[s].subscribed = FALSE,
                          !.current = 0, !.takes[s].init = "failed", !.recording = FALSE]
<1>0. d.current = s
  BY DEF Good, Ordered
<1>1. Good(c) /\ c.current = s
  BY <1>0, CloseStreamGood
<1> HIDE DEF c
<1>2. c.takes[s] \in TakeStates /\ c.takes \in [Sessions -> TakeStates]
  BY <1>1, SessionNumbers
<1>3. FailSession(d, s) = e
  BY <1>1 DEF FailSession, CleanedUp, c, Good, IsDeck, Decks
<1>4. t \in TakeStates /\ t.init = "failed" /\ t.mic = FALSE /\ t.halt = c.takes[s].halt
  BY <1>2 DEF TakeStates, InitAt
<1>5. /\ e.takes = [c.takes EXCEPT ![s] = t] /\ e.current = 0 /\ e.recording = FALSE
      /\ e.made = c.made /\ e.waiter = c.waiter /\ e.flusher = c.flusher
  BY <1>1, <1>2 DEF IsDeck, Good, Decks, TakeStates
<1> HIDE DEF t
<1>6. e.takes \in [Sessions -> TakeStates] /\ e.takes[s] = t
  <2> HIDE DEF e
  <2> QED
    BY <1>2, <1>4, <1>5
<1>7. IsDeck(e)
  BY <1>1, <1>6, ZenonT(60) DEF IsDeck, Good, Decks
<1> HIDE DEF e
<1>8. ASSUME NEW r \in Sessions PROVE OrderedAt(e, r)
  <2>0. OrderedAt(c, r) /\ r # 0
    BY <1>1, SessionNumbers DEF Good, Ordered, OrderedAt
  <2>1. CASE r = s
    BY <1>4, <1>5, <1>6, <2>0, <2>1 DEF OrderedAt, Making
  <2>2. CASE r # s
    <3>1. e.takes[r] = c.takes[r] /\ c.current # r
      BY <1>1, <1>2, <1>5, <2>2
    <3> QED
      BY <1>5, <2>0, <3>1 DEF OrderedAt
  <2> QED
    BY <2>1, <2>2
<1>9. 0 <= e.made
  BY <1>1, <1>5, SessionNumbers
<1> QED
  BY <1>3, <1>5, <1>7, <1>8, <1>9 DEF Good, Ordered, OrderedAt

LEMMA FinishStreamGood ==
  ASSUME NEW d, Good(d), NEW s \in Sessions, NEW who \in {"halt", "back"},
         who = "halt" => Stoppable(d, s)
  PROVE  Good(FinishStream(d, s, who))
<1>0. d.takes[s] \in TakeStates /\ d.takes \in [Sessions -> TakeStates]
  BY SessionNumbers
<1>1. \E e : /\ FinishStream(d, s, who) = e /\ IsDeck(e)
             /\ e.waiter = d.waiter /\ e.flusher = d.flusher
             /\ e.recording = d.recording
             /\ \E t \in TakeStates :
                  /\ t.init = d.takes[s].init /\ t.mic = d.takes[s].mic
                  /\ who = "back" => t.halt = d.takes[s].halt
                  /\ Changed(d, e, s, t)
  <2>1. CASE d.promise = 0
    <3> DEFINE t == [d.takes[s] EXCEPT ![who] = "closed"]
               e == [d EXCEPT !.takes[s][who] = "closed"]
    <3>1. FinishStream(d, s, who) = e
      BY <2>1 DEF FinishStream
    <3>2. /\ t \in TakeStates /\ t.init = d.takes[s].init /\ t.mic = d.takes[s].mic
          /\ who = "back" => t.halt = d.takes[s].halt
      BY <1>0 DEF TakeStates, HaltAt
    <3>3. /\ e.takes = [d.takes EXCEPT ![s] = t] /\ e.current = d.current /\ e.recording = d.recording
          /\ e.made = d.made /\ e.waiter = d.waiter /\ e.flusher = d.flusher
      BY <1>0 DEF IsDeck, Good, Decks
    <3> HIDE DEF t
    <3>4. e.takes \in [Sessions -> TakeStates]
      <4> HIDE DEF e
      <4> QED
        BY <1>0, <3>2, <3>3
    <3>5. IsDeck(e)
      BY <3>4 DEF IsDeck, Good, Decks
    <3> HIDE DEF e
    <3>6. Changed(d, e, s, t)
      BY <3>3 DEF Changed
    <3> QED
      BY <3>1, <3>2, <3>3, <3>5, <3>6
  <2>2. CASE d.promise # 0
    <3> DEFINE t == [d.takes[s] EXCEPT ![who] = "finish", !.waits = d.promise]
               e == [d EXCEPT !.takes[s][who] = "finish", !.takes[s].waits = d.promise,
                              !.finishes = @ + 1]
    <3>1. FinishStream(d, s, who) = e
      BY <2>2 DEF FinishStream
    <3>2. /\ t \in TakeStates /\ t.init = d.takes[s].init /\ t.mic = d.takes[s].mic
          /\ who = "back" => t.halt = d.takes[s].halt
      BY <1>0 DEF TakeStates, HaltAt, Good, IsDeck, Decks
    <3>3. /\ e.takes = [d.takes EXCEPT ![s] = t] /\ e.current = d.current /\ e.recording = d.recording
          /\ e.made = d.made /\ e.waiter = d.waiter /\ e.flusher = d.flusher
      BY <1>0 DEF IsDeck, Good, Decks
    <3> HIDE DEF t
    <3>4. e.takes \in [Sessions -> TakeStates]
      <4> HIDE DEF e
      <4> QED
        BY <1>0, <3>2, <3>3
    <3>5. IsDeck(e)
      <4>1. e = [d EXCEPT !.takes = e.takes, !.finishes = d.finishes + 1]
        BY DEF Good, IsDeck, Decks
      <4>2. d.finishes + 1 \in Nat
        BY DEF Good, IsDeck, Decks
      <4> HIDE DEF e
      <4> QED
        BY <3>4, <4>1, <4>2 DEF IsDeck, Good, Decks
    <3> HIDE DEF e
    <3>6. Changed(d, e, s, t)
      BY <3>3 DEF Changed
    <3> QED
      BY <3>1, <3>2, <3>3, <3>5, <3>6
  <2> QED
    BY <2>1, <2>2
<1>2. PICK e : /\ FinishStream(d, s, who) = e /\ IsDeck(e)
             /\ e.waiter = d.waiter /\ e.flusher = d.flusher
             /\ e.recording = d.recording
             /\ \E t \in TakeStates :
                  /\ t.init = d.takes[s].init /\ t.mic = d.takes[s].mic
                  /\ who = "back" => t.halt = d.takes[s].halt
                  /\ Changed(d, e, s, t)
  BY <1>1
<1>3. PICK t \in TakeStates :
                  /\ t.init = d.takes[s].init /\ t.mic = d.takes[s].mic
                  /\ who = "back" => t.halt = d.takes[s].halt
                  /\ Changed(d, e, s, t)
  BY <1>2
<1>4. CASE who = "halt"
  BY <1>2, <1>3, <1>4, HaltMoves
<1>5. CASE who = "back"
  <2>1. e.takes[s] = t /\ e.current = d.current /\ e.made = d.made
    BY <1>0, <1>3 DEF Changed
  <2>2. OrderedAt(e, s)
    BY <1>2, <1>3, <1>5, <2>1 DEF OrderedAt, Good, Ordered
  <2> QED
    BY <1>2, <1>3, <2>2, ChangedGood
<1> QED
  BY <1>4, <1>5

\* The audio thread answers who waits.
LEMMA AnsweredGood ==
  ASSUME NEW d, Good(d), NEW owner \in Waiters,
         \A s \in Sessions : owner = <<"halt", s>> => Stoppable(d, s)
  PROVE  Good(Answered(d, owner))
<1>0. d.takes \in [Sessions -> TakeStates]
  BY SessionNumbers
<1>1. CASE owner[1] = "call"
  <2> DEFINE e == [d EXCEPT !.calls[owner[2]].at = "answered"]
  <2>1. Answered(d, owner) = e
    BY <1>1 DEF Answered
  <2>2. IsDeck(e) /\ Alike(d, e)
    BY DEF Good, IsDeck, Decks, Alike
  <2> HIDE DEF e
  <2> QED
    BY <2>1, <2>2, AlikeGood
<1>2. CASE \E s \in Sessions : owner = <<"halt", s>>
  <2>1. PICK s \in Sessions : owner = <<"halt", s>>
    BY <1>2
  <2> DEFINE t == [d.takes[s] EXCEPT !.halt = "stopped"]
             e == [d EXCEPT !.takes[s].halt = "stopped"]
  <2>2. Answered(d, owner) = e
    BY <2>1 DEF Answered
  <2>3. t \in TakeStates /\ t.init = d.takes[s].init /\ t.mic = d.takes[s].mic
    BY <1>0 DEF TakeStates, HaltAt
  <2>4. /\ e.takes = [d.takes EXCEPT ![s] = t] /\ e.current = d.current /\ e.recording = d.recording
        /\ e.made = d.made /\ e.waiter = d.waiter /\ e.flusher = d.flusher
    BY <1>0 DEF IsDeck, Good, Decks
  <2> HIDE DEF t
  <2>5. e.takes \in [Sessions -> TakeStates]
    <3> HIDE DEF e
    <3> QED
      BY <1>0, <2>3, <2>4
  <2>6. IsDeck(e)
    BY <2>5 DEF IsDeck, Good, Decks
  <2> HIDE DEF e
  <2>7. Changed(d, e, s, t)
    BY <2>4 DEF Changed
  <2> QED
    BY <2>1, <2>2, <2>3, <2>6, <2>7, HaltMoves
<1>3. CASE \E s \in Sessions : owner = <<"init", s>>
  <2>1. PICK s \in Sessions : owner = <<"init", s>>
    BY <1>3
  <2> DEFINE t == [d.takes[s] EXCEPT !.init = "ok"]
             e == [d EXCEPT !.takes[s].init = "ok"]
  <2>2. Answered(d, owner) = e
    BY <2>1 DEF Answered
  <2>3. t \in TakeStates /\ t.init = "ok" /\ t.mic = d.takes[s].mic /\ t.halt = d.takes[s].halt
    BY <1>0 DEF TakeStates, InitAt
  <2>4. /\ e.takes = [d.takes EXCEPT ![s] = t] /\ e.current = d.current /\ e.recording = d.recording
        /\ e.made = d.made /\ e.waiter = d.waiter /\ e.flusher = d.flusher
    BY <1>0 DEF IsDeck, Good, Decks
  <2> HIDE DEF t
  <2>5. e.takes \in [Sessions -> TakeStates] /\ e.takes[s] = t
    <3> HIDE DEF e
    <3> QED
      BY <1>0, <2>3, <2>4
  <2>6. IsDeck(e)
    BY <2>5 DEF IsDeck, Good, Decks
  <2> HIDE DEF e
  <2>7. Changed(d, e, s, t)
    BY <2>4 DEF Changed
  <2>8. OrderedAt(e, s)
    BY <2>3, <2>4, <2>5 DEF OrderedAt, Good, Ordered, Making
  <2> QED
    BY <2>2, <2>3, <2>6, <2>7, <2>8, ChangedGood
<1>4. CASE owner = Nobody
  BY <1>4 DEF Answered, Nobody
<1> QED
  BY <1>1, <1>2, <1>3, <1>4 DEF Waiters

-----------------------------------------------------------------------------
(* The commands.                                                           *)

LEMMA RunGood ==
  ASSUME NEW d, Good(d), Run(d)
  PROVE  Good(deck')
<1> DEFINE e == [d EXCEPT !.out = <<>>]
<1>1. IsDeck(e) /\ Alike(d, e)
  BY DEF Good, IsDeck, Decks, Alike
<1>2. deck' = e
  BY DEF Run
<1> HIDE DEF e
<1>3. Good(e)
  BY <1>1, AlikeGood
<1> QED
  BY <1>2, <1>3

LEMMA AskGood ==
  ASSUME NEW d, Good(d), NEW kind, NEW at, NEW s
  PROVE  LET e == Ask(kind, at, s, d) IN Good(e) /\ Alike(d, e)
<1> DEFINE call == [kind |-> kind, at |-> at, session |-> s, was |-> deck.playing]
           calls == [d.calls EXCEPT ![d.asked + 1] = call]
           e == [d EXCEPT !.asked = d.asked + 1, !.calls = calls]
<1>1. Ask(kind, at, s, d) = e
  BY DEF Ask, Good, IsDeck, Decks
<1> HIDE DEF calls
<1>2. d.asked + 1 \in Nat
  BY DEF Good, IsDeck, Decks
<1>3. IsDeck(e) /\ Alike(d, e)
  BY <1>2 DEF Good, IsDeck, Decks, Alike
<1> HIDE DEF e
<1> QED
  BY <1>1, <1>3, AlikeGood

LEMMA DoneGood ==
  ASSUME NEW d, Good(d), NEW c
  PROVE  Good(Done(d, c))
<1> DEFINE e == Done(d, c)
<1>1. IsDeck(e) /\ Alike(d, e)
  BY DEF Good, IsDeck, Decks, Done, Alike
<1> HIDE DEF e
<1> QED
  BY <1>1, AlikeGood DEF e

LEMMA SendStopGood ==
  ASSUME NEW d, Good(d)
  PROVE  Good(SendStop(d)) /\ SendStop(d).waiter = d.waiter
<1> DEFINE e == SendStop(d)
<1>1. IsDeck(e) /\ Alike(d, e)
  BY DEF Good, IsDeck, Decks, SendStop, Alike
<1> HIDE DEF e
<1> QED
  BY <1>1, AlikeGood DEF e, Alike

LEMMA StopRecorderGood ==
  ASSUME NEW d, Good(d), NEW kind, NEW keep \in BOOLEAN
  PROVE  Good(StopRecorder(d, kind, keep))
<1>1. CASE d.current = 0
  <2> DEFINE e == [d EXCEPT !.recording = FALSE]
  <2>1. IsDeck(e) /\ Alike(d, e)
    BY DEF Good, IsDeck, Decks, Alike
  <2>2. StopRecorder(d, kind, keep) = Ask(kind, "halted", 0, e)
    BY <1>1 DEF StopRecorder
  <2> HIDE DEF e
  <2> QED
    BY <2>1, <2>2, AlikeGood, AskGood
<1>2. CASE d.current # 0
  <2> DEFINE e == Ask(kind, "halting", d.current, d)
  <2>1. Good(e) /\ e.current = d.current
    BY AskGood DEF Alike
  <2>2. StopRecorder(d, kind, keep) = RequestStop(e, e.current, keep)
    BY <1>2, <2>1 DEF StopRecorder
  <2> HIDE DEF e
  <2> QED
    BY <1>2, <2>1, <2>2, RequestStopGood
<1> QED
  BY <1>1, <1>2

\* A command of the user or of another asks the audio thread to stop.
LEMMA CallStops ==
  ASSUME NEW d, Good(d), NEW n \in Nat
  PROVE  Good(StopPlayback(d, <<"call", n>>)) /\ Good(StopPlayback(d, Nobody))
<1>1. <<"call", n>> \in Waiters /\ Nobody \in Waiters
  BY DEF Waiters
<1>2. \A s \in Sessions : <<"call", n>> # <<"halt", s>> /\ Nobody # <<"halt", s>>
  BY DEF Nobody
<1> QED
  BY <1>1, <1>2, StopPlaybackGood

LEMMA StopGood ==
  ASSUME NEW d, Good(d)
  PROVE  Good(Stop(d))
<1> DEFINE e == [d EXCEPT !.slave = FALSE, !.pending = TRUE]
           set == SetPlaying(e, FALSE)
           asked == Ask("stop", "stopping", 0, set)
<1>1. IsDeck(e) /\ Alike(d, e)
  BY DEF Good, IsDeck, Decks, Alike
<1>2. Stop(d) = IF d.recording THEN StopRecorder(set, "stop", FALSE)
                ELSE StopPlayback(asked, <<"call", d.asked + 1>>)
  BY DEF Stop
<1> HIDE DEF e
<1>3. Good(set)
  BY <1>1, AlikeGood, SetPlayingGood
<1> HIDE DEF set
<1>4. Good(asked) /\ d.asked + 1 \in Nat
  BY <1>3, AskGood DEF Good, IsDeck, Decks
<1> HIDE DEF asked
<1> QED
  BY <1>2, <1>3, <1>4, StopRecorderGood, CallStops

LEMMA PlayGood ==
  ASSUME Good(deck), Play
  PROVE  Good(deck')
<1> DEFINE e == [deck EXCEPT !.playing = TRUE, !.pending = TRUE]
<1>1. IsDeck(e) /\ Alike(deck, e)
  BY DEF Good, IsDeck, Decks, Alike
<1>2. Run(Ask("play", "waking", 0, e))
  BY DEF Play
<1> HIDE DEF e
<1>3. Good(Ask("play", "waking", 0, e))
  BY <1>1, AlikeGood, AskGood
<1> QED
  BY <1>2, <1>3, RunGood

\* A new session is the current one and nothing of it has been stopped.
LEMMA RecordGood ==
  ASSUME Good(deck), Record
  PROVE  Good(deck')
<1> DEFINE set == [deck EXCEPT !.recording = TRUE, !.playing = TRUE, !.pending = TRUE]
           s == deck.made + 1
<1>1. /\ IsDeck(set) /\ set.current = deck.current /\ set.takes = deck.takes
      /\ set.waiter = deck.waiter /\ set.flusher = deck.flusher /\ set.made = deck.made
  BY DEF Good, IsDeck, Decks
<1>2. CASE deck.current # 0
  <2>1. Run(Ask("record", "joining", deck.current, set))
    BY <1>2 DEF Record
  <2> HIDE DEF set
  <2>2. Good(set)
    BY <1>1, <1>2 DEF Good, Ordered
  <2>3. Good(Ask("record", "joining", deck.current, set))
    BY <2>2, AskGood
  <2> QED
    BY <2>1, <2>3, RunGood
<1>3. CASE deck.current = 0
  <2> DEFINE plays == ~deck.playing
             t == [deck.takes[s] EXCEPT !.init = "waking", !.play = plays]
             takes == [deck.takes EXCEPT ![s] = t]
             e == [set EXCEPT !.made = s, !.current = s, !.takes = takes]
  <2>1. /\ s \in Sessions
        /\ Run(Ask("record", "joining", s,
                   [set EXCEPT !.made = s, !.current = s, !.takes[s].init = "waking",
                               !.takes[s].play = plays]))
    BY <1>3 DEF Record
  <2>1a. plays \in BOOLEAN
    OBVIOUS
  <2> HIDE DEF plays, set
  <2>2. deck.takes[s] \in TakeStates /\ deck.takes \in [Sessions -> TakeStates]
    BY <2>1, SessionNumbers
  <2>3. t \in TakeStates /\ t.init = "waking" /\ t.halt = deck.takes[s].halt
    BY <2>1a, <2>2 DEF TakeStates, InitAt, Making
  <2>4. Run(Ask("record", "joining", s, e))
    <3>1. e = [set EXCEPT !.made = s, !.current = s, !.takes[s].init = "waking",
                          !.takes[s].play = plays]
      <4> DEFINE woken == [deck.takes EXCEPT ![s].init = "waking", ![s].play = plays]
      <4>1. woken = takes
        BY <2>1, <2>2 DEF TakeStates
      <4>2. [set EXCEPT !.made = s, !.current = s, !.takes[s].init = "waking",
                        !.takes[s].play = plays] =
            [set EXCEPT !.made = s, !.current = s, !.takes = woken]
        <5> DEFINE new == [set EXCEPT !.made = s, !.current = s]
                   half == [deck.takes EXCEPT ![s].init = "waking"]
        <5>1. new \in Decks({set.playing}, {set.calls}, {set.out}) /\ new.takes = deck.takes
          BY <1>1, <2>1 DEF IsDeck, Decks
        <5> HIDE DEF new
        <5>3. [new EXCEPT !.takes[s].init = "waking"] = [new EXCEPT !.takes = half]
          BY <5>1 DEF Decks
        <5> HIDE DEF half
        <5>4. [[new EXCEPT !.takes = half] EXCEPT !.takes[s].play = plays] =
              [new EXCEPT !.takes = [half EXCEPT ![s].play = plays]]
          BY <5>1 DEF Decks
        <5> QED
          BY <5>3, <5>4 DEF new, half
      <4> HIDE DEF woken, takes
      <4> QED
        BY <4>1, <4>2
    <3> HIDE DEF e
    <3> QED
      BY <2>1, <3>1
  <2> HIDE DEF t
  <2>5. takes \in [Sessions -> TakeStates] /\ takes[s] = t /\ \A r \in Sessions \ {s} : takes[r] = deck.takes[r]
    BY <2>1, <2>2, <2>3
  <2> HIDE DEF takes
  <2>6. /\ IsDeck(e) /\ e.takes = takes /\ e.current = s
        /\ e.made = s /\ e.waiter = deck.waiter /\ e.flusher = deck.flusher
    BY <1>1, <2>1, <2>5 DEF IsDeck, Decks
  <2> HIDE DEF e
  <2>7. ASSUME NEW r \in Sessions PROVE OrderedAt(e, r)
    <3>1. OrderedAt(deck, r) /\ r # 0 /\ r \in Nat /\ deck.made \in Nat
      BY SessionNumbers DEF Good, Ordered, OrderedAt
    <3>2. CASE r = s
      BY <2>3, <2>5, <2>6, <3>1, <3>2 DEF OrderedAt, Making
    <3>3. CASE r # s
      <4>1. e.takes[r] = deck.takes[r]
        BY <2>5, <2>6, <3>3
      <4> QED
        BY <1>3, <2>6, <3>1, <3>3, <4>1 DEF OrderedAt
    <3> QED
      BY <3>2, <3>3
  <2>8. s # 0 /\ s <= s
    BY <2>1, SessionNumbers
  <2>9. Good(e)
    BY <2>6, <2>7, <2>8 DEF Good, Ordered, OrderedAt
  <2>10. Good(Ask("record", "joining", s, e))
    BY <2>9, AskGood
  <2> QED
    BY <2>4, <2>10, RunGood
<1> QED
  BY <1>2, <1>3

LEMMA StopRecordingGood ==
  ASSUME Good(deck), StopRecording
  PROVE  Good(deck')
<1> DEFINE e == [deck EXCEPT !.pending = TRUE]
<1>1. IsDeck(e) /\ Alike(deck, e)
  BY DEF Good, IsDeck, Decks, Alike
<1>2. Run(StopRecorder(e, "finish", TRUE))
  BY DEF StopRecording
<1> HIDE DEF e
<1>3. Good(StopRecorder(e, "finish", TRUE))
  BY <1>1, AlikeGood, StopRecorderGood
<1> QED
  BY <1>2, <1>3, RunGood

LEMMA CallGoesOnGood ==
  ASSUME Good(deck), NEW c, CallGoesOn(c)
  PROVE  Good(deck')
<1>1. CASE Run(Done(deck, c))
  BY <1>1, DoneGood, RunGood
<1>2. CASE Run(Done(SendStop(deck), c))
  BY <1>2, DoneGood, SendStopGood, RunGood
<1>3. ASSUME NEW told \in {deck, SendStop(deck)}, NEW was,
             Run(Done(IF was THEN [told EXCEPT !.recording = FALSE]
                      ELSE SetPlaying([told EXCEPT !.recording = FALSE], FALSE), c))
      PROVE  Good(deck')
  <2> DEFINE reset == [told EXCEPT !.recording = FALSE]
  <2>0. Good(told)
    BY SendStopGood
  <2>1. IsDeck(reset) /\ Alike(told, reset)
    BY <2>0 DEF Good, IsDeck, Decks, Alike
  <2>2. Run(Done(IF was THEN reset ELSE SetPlaying(reset, FALSE), c))
    BY <1>3
  <2> HIDE DEF reset
  <2>3. Good(reset) /\ Good(SetPlaying(reset, FALSE))
    BY <2>0, <2>1, AlikeGood, SetPlayingGood
  <2> QED
    BY <2>2, <2>3, DoneGood, RunGood
<1>4. CASE Run([Done(SetPlaying(deck, TRUE), c) EXCEPT !.slave = TRUE, !.recording = FALSE])
  <2> DEFINE d == Done(SetPlaying(deck, TRUE), c)
             e == [d EXCEPT !.slave = TRUE, !.recording = FALSE]
  <2>1. Good(d)
    BY SetPlayingGood, DoneGood
  <2>2. Run(e)
    BY <1>4
  <2> HIDE DEF d
  <2>3. IsDeck(e) /\ Alike(d, e)
    BY <2>1 DEF Good, IsDeck, Decks, Alike
  <2> HIDE DEF e
  <2> QED
    BY <2>1, <2>2, <2>3, AlikeGood, RunGood
<1> QED
  BY <1>1, <1>2, <1>3, <1>4 DEF CallGoesOn

-----------------------------------------------------------------------------
(* The start of a session, and what arrives on the main thread.            *)

\* A session that is being prepared comes to its next wait, or is ready.
LEMMA InitMoves ==
  ASSUME NEW d, Good(d), NEW s \in Sessions, d.takes[s].init \in Making,
         NEW e, IsDeck(e), NEW t \in TakeStates, Changed(d, e, s, t),
         t.init \in Making \cup {"ok"}, t.halt = d.takes[s].halt,
         e.waiter.owner # <<"halt", s>>, e.flusher = d.flusher
  PROVE  Good(e)
<1>1. e.takes[s] = t
  BY SessionNumbers DEF Changed
<1>2. OrderedAt(e, s)
  BY <1>1, SessionNumbers DEF OrderedAt, Changed, Good, Ordered
<1> QED
  BY <1>2, ChangedGood

LEMMA InitAtGood ==
  ASSUME NEW d, Good(d), NEW s \in Sessions, d.takes[s].init \in Making,
         NEW at \in Making \cup {"ok"}
  PROVE  Good([d EXCEPT !.takes[s].init = at])
<1> DEFINE t == [d.takes[s] EXCEPT !.init = at]
           e == [d EXCEPT !.takes[s].init = at]
<1>1. d.takes[s] \in TakeStates /\ d.takes \in [Sessions -> TakeStates]
  BY SessionNumbers
<1>2. t \in TakeStates /\ t.init = at /\ t.halt = d.takes[s].halt
  BY <1>1 DEF TakeStates, InitAt
<1>3. /\ e.takes = [d.takes EXCEPT ![s] = t] /\ e.current = d.current /\ e.recording = d.recording
      /\ e.made = d.made /\ e.waiter = d.waiter /\ e.flusher = d.flusher
  BY <1>1 DEF IsDeck, Good, Decks
<1> HIDE DEF t
<1>4. e.takes \in [Sessions -> TakeStates]
  <2> HIDE DEF e
  <2> QED
    BY <1>1, <1>2, <1>3
<1>5. IsDeck(e)
  BY <1>4 DEF IsDeck, Good, Decks
<1> HIDE DEF e
<1>6. Changed(d, e, s, t) /\ e.waiter.owner # <<"halt", s>>
  BY <1>3 DEF Changed, Good, Ordered
<1>7. Good(e)
  BY <1>2, <1>3, <1>5, <1>6, InitMoves
<1> QED
  BY <1>7 DEF e

\* The microphone is opened for the session that is on.
LEMMA OpenedGood ==
  ASSUME NEW d, Good(d), NEW s \in Sessions, d.takes[s].init \in Making
  PROVE  LET e == [d EXCEPT !.takes[s].mic = TRUE]
         IN Good(e) /\ e.takes[s].init \in Making
<1> DEFINE t == [d.takes[s] EXCEPT !.mic = TRUE]
           e == [d EXCEPT !.takes[s].mic = TRUE]
<1>1. d.takes[s] \in TakeStates /\ d.takes \in [Sessions -> TakeStates]
  BY SessionNumbers
<1>2. t \in TakeStates /\ t.init = d.takes[s].init /\ t.halt = d.takes[s].halt
  BY <1>1 DEF TakeStates
<1>3. /\ e.takes = [d.takes EXCEPT ![s] = t] /\ e.current = d.current /\ e.recording = d.recording
      /\ e.made = d.made /\ e.waiter = d.waiter /\ e.flusher = d.flusher
  BY <1>1 DEF IsDeck, Good, Decks
<1> HIDE DEF t
<1>4. e.takes \in [Sessions -> TakeStates] /\ e.takes[s] = t
  <2> HIDE DEF e
  <2> QED
    BY <1>1, <1>2, <1>3
<1>5. IsDeck(e)
  BY <1>4 DEF IsDeck, Good, Decks
<1> HIDE DEF e
<1>6. Changed(d, e, s, t) /\ e.waiter.owner # <<"halt", s>>
  BY <1>3 DEF Changed, Good, Ordered
<1>7. Good(e)
  BY <1>2, <1>3, <1>5, <1>6, InitMoves
<1> QED
  BY <1>2, <1>4, <1>7 DEF e

LEMMA ContinuesGood ==
  ASSUME NEW d, Good(d), NEW s \in Sessions, d.takes[s].init \in Making,
         NEW at \in Making
  PROVE  Good(Continues(d, s, at)) /\ Good(Ends(d, s))
BY InitAtGood DEF Continues, Ends

LEMMA ConnectedGood ==
  ASSUME NEW d, Good(d), NEW s \in Sessions, d.takes[s].init \in Making
  PROVE  Good(Connected(d, s))
<1> DEFINE u == [d.takes[s] EXCEPT !.streamed = TRUE]
           c == [d EXCEPT !.takes[s].streamed = TRUE, !.promise = s]
           p == Posted(c, "record", s)
           at == IF d.takes[s].play THEN "starting" ELSE "ok"
           x == [p EXCEPT !.takes[s].subscribed = TRUE]
           v == [p.takes[s] EXCEPT !.subscribed = TRUE]
<1>0. s \in Nat /\ at \in Making \cup {"ok"}
  BY SessionNumbers DEF Making
<1>1. d.takes[s] \in TakeStates /\ d.takes \in [Sessions -> TakeStates]
  BY SessionNumbers
<1>2. Connected(d, s) = [x EXCEPT !.takes[s].init = at]
  BY DEF Connected
<1>3. u \in TakeStates /\ u.init = d.takes[s].init /\ u.halt = d.takes[s].halt
  BY <1>1 DEF TakeStates
<1>4. /\ c.takes = [d.takes EXCEPT ![s] = u] /\ c.current = d.current /\ c.recording = d.recording
      /\ c.made = d.made /\ c.waiter = d.waiter /\ c.flusher = d.flusher
  BY <1>1 DEF IsDeck, Good, Decks
<1> HIDE DEF u, at
<1>5. c.takes \in [Sessions -> TakeStates] /\ c.takes[s] = u
  <2> HIDE DEF c
  <2> QED
    BY <1>1, <1>3, <1>4
<1>6. IsDeck(c)
  BY <1>0, <1>5 DEF IsDeck, Good, Decks
<1> HIDE DEF c
<1>7. Changed(d, c, s, u) /\ c.waiter.owner # <<"halt", s>>
  BY <1>4 DEF Changed, Good, Ordered
<1>8. Good(c)
  BY <1>3, <1>4, <1>6, <1>7, InitMoves
<1>9. Good(p) /\ p.takes[s].init \in Making
  BY <1>3, <1>5, <1>8, PostedGood DEF Alike
<1> HIDE DEF p
<1>10. p.takes[s] \in TakeStates /\ p.takes \in [Sessions -> TakeStates]
  BY <1>9, SessionNumbers
<1>11. v \in TakeStates /\ v.init = p.takes[s].init /\ v.halt = p.takes[s].halt
  BY <1>10 DEF TakeStates
<1>12. /\ x.takes = [p.takes EXCEPT ![s] = v] /\ x.current = p.current /\ x.recording = p.recording
       /\ x.made = p.made /\ x.waiter = p.waiter /\ x.flusher = p.flusher
  BY <1>9, <1>10 DEF IsDeck, Good, Decks
<1> HIDE DEF v
<1>13. x.takes \in [Sessions -> TakeStates] /\ x.takes[s] = v
  <2> HIDE DEF x
  <2> QED
    BY <1>10, <1>11, <1>12
<1>14. IsDeck(x)
  BY <1>9, <1>13 DEF IsDeck, Good, Decks
<1> HIDE DEF x
<1>15. Changed(p, x, s, v) /\ x.waiter.owner # <<"halt", s>>
  BY <1>9, <1>12 DEF Changed, Good, Ordered
<1>16. Good(x) /\ x.takes[s].init \in Making
  BY <1>9, <1>11, <1>12, <1>13, <1>14, <1>15, InitMoves
<1> QED
  BY <1>0, <1>2, <1>16, InitAtGood

\* The playback of a session that is prepared is asked for.
LEMMA StartingGood ==
  ASSUME NEW d, Good(d), NEW s \in Sessions, d.takes[s].init \in Making
  PROVE  Good([d EXCEPT !.takes[s].init = "playing",
                        !.waiter = [revision |-> d.revision, owner |-> <<"init", s>>]])
<1> DEFINE waiter == [revision |-> d.revision, owner |-> <<"init", s>>]
           t == [d.takes[s] EXCEPT !.init = "playing"]
           e == [d EXCEPT !.takes[s].init = "playing", !.waiter = waiter]
<1>1. d.takes[s] \in TakeStates /\ d.takes \in [Sessions -> TakeStates]
  BY SessionNumbers
<1>2. t \in TakeStates /\ t.init \in Making /\ t.halt = d.takes[s].halt
  BY <1>1 DEF TakeStates, InitAt, Making
<1>3. /\ waiter \in [revision : Nat, owner : Waiters] /\ waiter.owner = <<"init", s>>
  BY DEF Waiters, Good, IsDeck, Decks
<1> HIDE DEF waiter
<1>4. /\ e.takes = [d.takes EXCEPT ![s] = t] /\ e.current = d.current /\ e.recording = d.recording
      /\ e.made = d.made /\ e.waiter = waiter /\ e.flusher = d.flusher
  BY <1>1 DEF IsDeck, Good, Decks
<1> HIDE DEF t
<1>5. e.takes \in [Sessions -> TakeStates]
  <2> HIDE DEF e
  <2> QED
    BY <1>1, <1>2, <1>4
<1>6. IsDeck(e)
  BY <1>3, <1>5 DEF IsDeck, Good, Decks
<1> HIDE DEF e
<1>7. Changed(d, e, s, t) /\ e.waiter.owner # <<"halt", s>>
  BY <1>3, <1>4 DEF Changed
<1>8. Good(e)
  BY <1>2, <1>4, <1>6, <1>7, InitMoves
<1> QED
  BY <1>8 DEF e, waiter

LEMMA InitGoesOnGood ==
  ASSUME Good(deck), NEW s \in Sessions, InitGoesOn(s)
  PROVE  Good(deck')
<1>0. {"waking", "opening", "measuring", "starting"} \subseteq Making
  BY DEF Making
<1>1. CASE deck.takes[s].init = "waking" /\ Run(Continues(deck, s, "opening"))
  BY <1>0, <1>1, ContinuesGood, RunGood
<1>2. CASE /\ deck.takes[s].init = "opening"
           /\ Run(Continues([deck EXCEPT !.takes[s].mic = TRUE], s, "measuring"))
  <2> DEFINE e == [deck EXCEPT !.takes[s].mic = TRUE]
  <2>1. Good(e) /\ e.takes[s].init \in Making
    BY <1>0, <1>2, OpenedGood
  <2>2. Run(Continues(e, s, "measuring"))
    BY <1>2
  <2> HIDE DEF e
  <2> QED
    BY <1>0, <2>1, <2>2, ContinuesGood, RunGood
<1>3. CASE /\ deck.takes[s].init = "measuring"
           /\ Run(IF deck.takes[s].stopRequested THEN Ends(deck, s) ELSE Connected(deck, s))
  BY <1>0, <1>3, ContinuesGood, ConnectedGood, RunGood
<1>4. CASE /\ deck.takes[s].init = "starting"
           /\ Run(Posted([deck EXCEPT !.takes[s].init = "playing",
                                  !.waiter = [revision |-> deck.revision,
                                              owner |-> <<"init", s>>]], "play", 0))
  BY <1>0, <1>4, StartingGood, PostedGood, RunGood
<1> QED
  BY <1>1, <1>2, <1>3, <1>4 DEF InitGoesOn

LEMMA InitFailsGood ==
  ASSUME Good(deck), NEW s \in Sessions, InitFails(s)
  PROVE  Good(deck')
<1> DEFINE e == [deck EXCEPT !.mishaps = @ + 1]
<1>1. IsDeck(e) /\ Alike(deck, e)
  BY DEF Good, IsDeck, Decks, Alike
<1>2. Run(FailSession(e, s)) /\ deck.takes[s].init \in Making
  BY DEF InitFails, Making
<1> HIDE DEF e
<1>3. Good(e) /\ e.takes[s].init \in Making
  BY <1>1, <1>2, AlikeGood DEF Alike
<1> QED
  BY <1>2, <1>3, FailSessionGood, RunGood

LEMMA WokenGood ==
  ASSUME Good(deck), NEW c \in Calls, Woken(c)
  PROVE  Good(deck')
<1> DEFINE waiter == [revision |-> deck.revision, owner |-> <<"call", c>>]
           calls == [deck.calls EXCEPT ![c].at = "waiting"]
           e == [deck EXCEPT !.calls = calls, !.waiter = waiter]
<1>1. waiter \in [revision : Nat, owner : Waiters] /\ waiter.owner = <<"call", c>>
  BY DEF Waiters, Good, IsDeck, Decks, Calls
<1>2. Run(Posted(e, "play", 0))
  BY DEF Woken, Good, IsDeck, Decks
<1> HIDE DEF waiter, calls
<1>3. /\ IsDeck(e) /\ e.waiter = waiter /\ e.flusher = deck.flusher /\ e.takes = deck.takes
      /\ e.current = deck.current /\ e.made = deck.made /\ e.recording = deck.recording
  BY <1>1 DEF Good, IsDeck, Decks
<1> HIDE DEF e
<1>4. Good(e)
  BY <1>1, <1>3 DEF Good, Ordered
<1> QED
  BY <1>2, <1>4, PostedGood, RunGood

LEMMA WakeFailsGood ==
  ASSUME Good(deck), NEW c \in Calls, WakeFails(c)
  PROVE  Good(deck')
<1> DEFINE e == [deck EXCEPT !.mishaps = @ + 1]
<1>1. IsDeck(e) /\ Alike(deck, e)
  BY DEF Good, IsDeck, Decks, Alike
<1>2. Run(Done(SetPlaying(SendStop(e), FALSE), c))
  BY DEF WakeFails
<1> HIDE DEF e
<1>3. Good(SendStop(e))
  BY <1>1, AlikeGood, SendStopGood
<1>4. Good(SetPlaying(SendStop(e), FALSE))
  BY <1>3, SetPlayingGood
<1> QED
  BY <1>2, <1>4, DoneGood, RunGood

LEMMA HaltGoesOnGood ==
  ASSUME Good(deck), NEW s \in Sessions, HaltGoesOn(s)
  PROVE  Good(deck')
<1> DEFINE take == deck.takes[s]
<1>0. /\ take \in TakeStates /\ deck.takes \in [Sessions -> TakeStates]
      /\ take.halt \notin {"none", "init"} => Stoppable(deck, s)
      /\ take.halt = "init" /\ take.init \in {"ok", "failed"} => Stoppable(deck, s)
  BY SessionNumbers DEF Stoppable, Good, Ordered, Making
<1>1. CASE /\ take.halt = "init" /\ take.init \in {"ok", "failed"}
           /\ Run(IF deck.current # s THEN HaltSettled(deck, s)
                  ELSE IF take.keep THEN CloseStream(deck, s, "halt")
                  ELSE StopPlayback([deck EXCEPT !.takes[s].halt = "stopping"], <<"halt", s>>))
  <2>1. CASE deck.current # s
    BY <1>0, <1>1, <2>1, HaltSettledGood, RunGood
  <2>2. CASE deck.current = s /\ take.keep
    BY <1>0, <1>1, <2>2, CloseStreamGood, RunGood
  <2>3. CASE deck.current = s /\ ~take.keep
    <3> DEFINE t == [deck.takes[s] EXCEPT !.halt = "stopping"]
               e == [deck EXCEPT !.takes[s].halt = "stopping"]
    <3>1. Run(StopPlayback(e, <<"halt", s>>))
      BY <1>1, <2>3
    <3>2. t \in TakeStates /\ t.init = take.init /\ t.mic = take.mic
      BY <1>0 DEF TakeStates, HaltAt
    <3>3. /\ e.takes = [deck.takes EXCEPT ![s] = t] /\ e.current = deck.current
          /\ e.recording = deck.recording
          /\ e.made = deck.made /\ e.waiter = deck.waiter /\ e.flusher = deck.flusher
      BY <1>0 DEF IsDeck, Good, Decks
    <3> HIDE DEF t
    <3>4. e.takes \in [Sessions -> TakeStates] /\ e.takes[s] = t
      <4> HIDE DEF e
      <4> QED
        BY <1>0, <3>2, <3>3
    <3>5. IsDeck(e)
      BY <3>4 DEF IsDeck, Good, Decks
    <3> HIDE DEF e
    <3>6. Changed(deck, e, s, t)
      BY <3>3 DEF Changed
    <3>7. Good(e)
      BY <1>0, <1>1, <3>2, <3>5, <3>6, HaltMoves
    <3>8. <<"halt", s>> \in Waiters
      BY DEF Waiters
    <3>9. \A r \in Sessions : <<"halt", s>> = <<"halt", r>> =>
              e.takes[r].init \notin Making /\ r <= e.made
      BY <1>0, <1>1, <3>2, <3>3, <3>4 DEF Stoppable
    <3> QED
      BY <3>1, <3>7, <3>8, <3>9, StopPlaybackGood, RunGood
  <2> QED
    BY <2>1, <2>2, <2>3
<1>2. CASE take.halt = "stopped" /\ Run(CloseStream(deck, s, "halt"))
  BY <1>0, <1>2, CloseStreamGood, RunGood
<1>3. CASE /\ take.halt = "closed"
           /\ Run(HaltSettled(IF take.streamed /\ ~take.keep
                              THEN Posted(deck, "seek", 0) ELSE deck, s))
  <2>1. Good(Posted(deck, "seek", 0)) /\ Stoppable(Posted(deck, "seek", 0), s)
    BY <1>0, <1>3, PostedGood DEF Alike, Stoppable
  <2> QED
    BY <1>0, <1>3, <2>1, HaltSettledGood, RunGood
<1> QED
  BY <1>1, <1>2, <1>3 DEF HaltGoesOn

\* The audio thread tells what it plays.
LEMMA HearPlayingGood ==
  ASSUME Good(deck), NEW answer
  PROVE  Good(HearPlaying(answer))
<1> DEFINE current == deck.revision = answer.revision
           set == IF current THEN SetPlaying(deck, answer.playing) ELSE deck
           jumped == [set EXCEPT !.revision = @ + 1]
           ended == IF ~current \/ ~answer.jump THEN set
                    ELSE IF answer.playing \/ set.slave THEN jumped ELSE SendStop(jumped)
           heard == [ended EXCEPT !.waiter.owner = Nobody]
<1>1. Good(set) /\ set.waiter = deck.waiter
  BY SetPlayingGood
<1>2. HearPlaying(answer) =
        IF deck.waiter.owner # Nobody /\ deck.waiter.revision = answer.revision
        THEN Answered(heard, deck.waiter.owner) ELSE ended
  BY DEF HearPlaying
<1>3. Good(jumped) /\ jumped.waiter = deck.waiter
  <2> HIDE DEF set
  <2>1. IsDeck(jumped) /\ Alike(set, jumped)
    BY <1>1 DEF Good, IsDeck, Decks, Alike
  <2> HIDE DEF jumped
  <2> QED
    BY <1>1, <2>1, AlikeGood DEF Alike
<1>4. Good(ended) /\ ended.waiter = deck.waiter
  <2> HIDE DEF set, jumped, current
  <2> QED
    BY <1>1, <1>3, SendStopGood
<1> HIDE DEF ended
<1>5. /\ IsDeck(heard) /\ heard.waiter.owner = Nobody /\ heard.flusher = ended.flusher
      /\ heard.takes = ended.takes /\ heard.current = ended.current
      /\ heard.recording = ended.recording /\ heard.made = ended.made
  <2>1. ended.waiter \in [revision : Nat, owner : Waiters] /\ Nobody \in Waiters
    BY <1>4 DEF Good, IsDeck, Decks, Waiters
  <2> QED
    BY <1>4, <2>1 DEF Good, IsDeck, Decks
<1> HIDE DEF heard
<1>6. Good(heard)
  <2>1. \A s \in Sessions : Nobody # <<"halt", s>>
    BY DEF Nobody
  <2> QED
    BY <1>4, <1>5, <2>1 DEF Good, Ordered
<1>7. /\ deck.waiter.owner \in Waiters
      /\ \A s \in Sessions : deck.waiter.owner = <<"halt", s>> => Stoppable(heard, s)
  BY <1>4, <1>5, SessionNumbers DEF Good, IsDeck, Decks, Ordered, Stoppable
<1> QED
  BY <1>2, <1>4, <1>6, <1>7, AnsweredGood

LEMMA HearFlushedGood ==
  ASSUME Good(deck)
  PROVE  Good(HearFlushed)
<1> DEFINE e == [deck EXCEPT !.flusher = Nobody]
<1>1. CASE deck.flusher = Nobody
  BY <1>1 DEF HearFlushed
<1>2. CASE deck.flusher # Nobody
  <2>1. PICK who \in {"halt", "back"}, s \in Sessions : deck.flusher = <<who, s>>
    BY <1>2 DEF Good, IsDeck, Decks, Flushers
  <2>2. HearFlushed = FinishStream(e, s, who)
    BY <1>2, <2>1 DEF HearFlushed
  <2>3. /\ IsDeck(e) /\ e.flusher = Nobody /\ e.waiter = deck.waiter
        /\ e.takes = deck.takes /\ e.current = deck.current
        /\ e.recording = deck.recording /\ e.made = deck.made
    BY DEF Good, IsDeck, Decks, Flushers
  <2> HIDE DEF e
  <2>4. Good(e)
    <3>1. \A r \in Sessions : Nobody # <<"halt", r>>
      BY DEF Nobody
    <3> QED
      BY <2>3, <3>1 DEF Good, Ordered
  <2>5. who = "halt" => Stoppable(e, s)
    BY <2>1, <2>3, SessionNumbers DEF Stoppable, Good, Ordered
  <2> QED
    BY <2>2, <2>4, <2>5, FinishStreamGood
<1> QED
  BY <1>1, <1>2

LEMMA HearBoxGood ==
  ASSUME Good(deck), HearBox
  PROVE  Good(deck')
<1>1. PICK heard : Good(heard) /\ deck' = [heard EXCEPT !.out = <<>>]
  BY HearFlushedGood, HearPlayingGood DEF HearBox
<1> DEFINE e == [heard EXCEPT !.out = <<>>]
<1>2. IsDeck(e) /\ Alike(heard, e)
  BY <1>1 DEF Good, IsDeck, Decks, Alike
<1> HIDE DEF e
<1>3. Good(e)
  BY <1>1, <1>2, AlikeGood
<1> QED
  BY <1>1, <1>3 DEF e

\* The decoder answers: who waits for it goes on.
LEMMA ResolvesGood ==
  ASSUME NEW d, Good(d)
  PROVE  Good(Resolves(d))
<1> DEFINE takes == [s \in Sessions |-> Resumed(d.takes[s], d.promise)]
           e == [d EXCEPT !.promise = 0, !.takes = takes]
<1>1. Resolves(d) = e
  BY DEF Resolves
<1>2. ASSUME NEW s \in Sessions
      PROVE  /\ takes[s] \in TakeStates /\ takes[s].init = d.takes[s].init
             /\ takes[s].mic = d.takes[s].mic
             /\ d.takes[s].halt \in {"none", "init"} => takes[s].halt = d.takes[s].halt
  <2> DEFINE t == d.takes[s]
             halt == IF t.halt = "finish" THEN "closed" ELSE t.halt
             back == IF t.back = "finish" THEN "closed" ELSE t.back
  <2>1. t \in TakeStates
    BY SessionNumbers
  <2>2. takes[s] = Resumed(t, d.promise)
    OBVIOUS
  <2> HIDE DEF t, takes
  <2>3. halt \in HaltAt /\ back \in HaltAt /\ (t.halt \in {"none", "init"} => halt = t.halt)
    BY <2>1 DEF TakeStates, HaltAt
  <2>4. takes[s] = t \/ takes[s] = [t EXCEPT !.halt = halt, !.back = back, !.waits = 0]
    BY <2>1, <2>2 DEF Resumed, TakeStates
  <2> HIDE DEF halt, back
  <2>5. /\ takes[s] \in TakeStates /\ takes[s].init = t.init /\ takes[s].mic = t.mic
        /\ t.halt \in {"none", "init"} => takes[s].halt = t.halt
    <3> DEFINE u == [t EXCEPT !.halt = halt, !.back = back, !.waits = 0]
    <3>1. /\ u \in TakeStates /\ u.init = t.init /\ u.mic = t.mic
          /\ u.halt = halt
      BY <2>1, <2>3 DEF TakeStates
    <3>2. takes[s] = t \/ takes[s] = u
      BY <2>4
    <3> HIDE DEF u
    <3> QED
      BY <2>1, <2>3, <3>1, <3>2
  <2> QED
    BY <2>5 DEF t
<1>3. takes = [s \in Sessions |-> takes[s]]
  OBVIOUS
<1> HIDE DEF takes
<1>4. takes \in [Sessions -> TakeStates]
  BY <1>2, <1>3
<1>5. /\ IsDeck(e) /\ e.takes = takes /\ e.flusher = d.flusher /\ e.waiter = d.waiter
      /\ e.current = d.current /\ e.recording = d.recording /\ e.made = d.made
  BY <1>4 DEF Good, IsDeck, Decks
<1> HIDE DEF e
<1>6. Good(e)
  BY <1>2, <1>5 DEF Good, Ordered
<1> QED
  BY <1>1, <1>6

LEMMA DecoderGood ==
  ASSUME Good(deck), DecoderAnswers \/ DecoderFails
  PROVE  Good(deck')
<1>1. CASE DecoderAnswers
  <2> DEFINE e == [deck EXCEPT !.finishes = @ - 1]
  <2>1. IsDeck(e) /\ Alike(deck, e)
    BY <1>1 DEF DecoderAnswers, Good, IsDeck, Decks, Alike
  <2>2. Run(Resolves(e))
    BY <1>1 DEF DecoderAnswers
  <2> HIDE DEF e
  <2> QED
    BY <2>1, <2>2, AlikeGood, ResolvesGood, RunGood
<1>2. CASE DecoderFails
  <2> DEFINE e == [deck EXCEPT !.mishaps = @ + 1]
             told == Resolves(e)
  <2>1. IsDeck(e) /\ Alike(deck, e)
    BY DEF Good, IsDeck, Decks, Alike
  <2>2. Run(IF told.pending THEN told ELSE Stop(told))
    BY <1>2 DEF DecoderFails
  <2> HIDE DEF e
  <2>3. Good(told)
    BY <2>1, AlikeGood, ResolvesGood
  <2> QED
    BY <2>2, <2>3, StopGood, RunGood
<1> QED
  BY <1>1, <1>2

LEMMA ApplyRemoteStopGood ==
  ASSUME NEW d, Good(d)
  PROVE  Good(ApplyRemoteStop(d))
<1> DEFINE e == [d EXCEPT !.slave = FALSE, !.recording = FALSE, !.pending = FALSE]
           set == SetPlaying(e, FALSE)
<1>1. IsDeck(e) /\ Alike(d, e)
  BY DEF Good, IsDeck, Decks, Alike
<1>2. ApplyRemoteStop(d) =
        IF ~d.recording THEN StopPlayback(set, Nobody)
        ELSE IF set.current = 0 THEN set ELSE RequestStop(set, set.current, FALSE)
  BY DEF ApplyRemoteStop
<1> HIDE DEF e
<1>3. Good(set)
  BY <1>1, AlikeGood, SetPlayingGood
<1> HIDE DEF set
<1>4. Good(StopPlayback(set, Nobody))
  BY <1>3, CallStops
<1>5. set.current # 0 => Good(RequestStop(set, set.current, FALSE))
  BY <1>3, RequestStopGood
<1> QED
  BY <1>2, <1>3, <1>4, <1>5

LEMMA OthersGood ==
  ASSUME Good(deck), EchoArrives \/ OtherPlays \/ OtherStops \/ Seek
  PROVE  Good(deck')
<1>1. CASE EchoArrives
  <2> DEFINE e == [deck EXCEPT !.echoes = @ - 1]
  <2>1. IsDeck(e) /\ Alike(deck, e)
    BY <1>1 DEF EchoArrives, Good, IsDeck, Decks, Alike
  <2>2. Run(ApplyRemoteStop(e))
    BY <1>1 DEF EchoArrives
  <2> HIDE DEF e
  <2> QED
    BY <2>1, <2>2, AlikeGood, ApplyRemoteStopGood, RunGood
<1> DEFINE d == [deck EXCEPT !.mishaps = @ + 1]
<1>2. Good(d) /\ d.asked + 1 \in Nat
  <2>1. IsDeck(d) /\ Alike(deck, d) /\ d.asked \in Nat
    BY DEF Good, IsDeck, Decks, Alike
  <2> HIDE DEF d
  <2> QED
    BY <2>1, AlikeGood
<1>3. CASE OtherPlays
  <2> DEFINE asked == Ask("remotePlay", "stopping", 0, d)
             set == SetPlaying(d, TRUE)
             e == [set EXCEPT !.slave = TRUE, !.pending = FALSE]
  <2>1. Run(IF d.recording THEN StopRecorder(d, "remotePlay", FALSE)
            ELSE IF d.playing THEN StopPlayback(asked, <<"call", d.asked + 1>>) ELSE e)
    BY <1>3 DEF OtherPlays
  <2> HIDE DEF d
  <2>2. Good(StopRecorder(d, "remotePlay", FALSE))
    BY <1>2, StopRecorderGood
  <2>3. Good(StopPlayback(asked, <<"call", d.asked + 1>>))
    BY <1>2, AskGood, CallStops
  <2>4. Good(set)
    BY <1>2, SetPlayingGood
  <2> HIDE DEF set, asked
  <2>5. IsDeck(e) /\ Alike(set, e)
    BY <2>4 DEF Good, IsDeck, Decks, Alike
  <2> HIDE DEF e
  <2>6. Good(e)
    BY <2>4, <2>5, AlikeGood
  <2> QED
    BY <2>1, <2>2, <2>3, <2>6, RunGood
<1>4. CASE OtherStops
  <2>1. Run(ApplyRemoteStop(d))
    BY <1>4 DEF OtherStops
  <2> HIDE DEF d
  <2> QED
    BY <1>2, <2>1, ApplyRemoteStopGood, RunGood
<1>5. CASE Seek
  <2> DEFINE e == [d EXCEPT !.revision = @ + 1]
  <2>1. Run(Posted(e, "seek", 0))
    BY <1>5 DEF Seek
  <2> HIDE DEF d
  <2>2. IsDeck(e) /\ Alike(d, e)
    BY <1>2 DEF Good, IsDeck, Decks, Alike
  <2> HIDE DEF e
  <2> QED
    BY <1>2, <2>1, <2>2, AlikeGood, PostedGood, RunGood
<1> QED
  BY <1>1, <1>3, <1>4, <1>5

LEMMA SongEndsGood ==
  ASSUME Good(deck), SongEnds \/ Drain
  PROVE  Good(deck')
<1>1. CASE SongEnds
  <2> DEFINE e == [deck EXCEPT !.mishaps = @ + 1]
  <2>1. IsDeck(e) /\ Alike(deck, e)
    BY DEF Good, IsDeck, Decks, Alike
  <2>2. deck' = e
    BY <1>1 DEF SongEnds
  <2> HIDE DEF e
  <2> QED
    BY <2>1, <2>2, AlikeGood
<1>2. CASE Drain
  BY <1>2 DEF Drain
<1> QED
  BY <1>1, <1>2

-----------------------------------------------------------------------------

LEMMA DeckStarts == DeckInit => Good(deck)
<1> SUFFICES ASSUME DeckInit PROVE Good(deck)
  OBVIOUS
<1>1. Unmade \in TakeStates
  BY DEF Unmade, TakeStates, InitAt, HaltAt
<1>2. Nobody \in Waiters /\ Nobody \in Flushers /\ \A s \in Sessions : Nobody # <<"halt", s>>
  BY DEF Waiters, Flushers, Nobody
<1>3. IsDeck(deck)
  BY <1>1, <1>2 DEF DeckInit, IsDeck, Decks
<1>4. Ordered(deck)
  BY <1>2 DEF DeckInit, Ordered, Unmade, Making
<1> QED
  BY <1>3, <1>4 DEF Good

LEMMA DeckKeeps == Good(deck) /\ [DeckNext]_deckVars => Good(deck')
<1> SUFFICES ASSUME Good(deck), [DeckNext]_deckVars PROVE Good(deck')
  OBVIOUS
<1>1. CASE GoesOn
  BY <1>1, HaltGoesOnGood, CallGoesOnGood DEF GoesOn
<1>2. CASE Command
  <2>1. CASE Run(Stop(deck))
    BY <2>1, StopGood, RunGood
  <2> QED
    BY <1>2, <2>1, PlayGood, RecordGood, StopRecordingGood DEF Command
<1>3. CASE Event
  BY <1>3, InitGoesOnGood, WokenGood, HearBoxGood, DecoderGood, OthersGood DEF Event
<1>4. CASE Mishap
  BY <1>4, InitFailsGood, WakeFailsGood, DecoderGood, OthersGood, SongEndsGood DEF Mishap
<1>5. CASE Drain
  BY <1>5, SongEndsGood
<1>6. CASE UNCHANGED deckVars
  BY <1>6 DEF deckVars
<1> QED
  BY <1>1, <1>2, <1>3, <1>4, <1>5, <1>6 DEF DeckNext

DeckInv == Good(deck)

\* However stops, failures, echoes and the commands of others meet, only the
\* session that is on has the microphone, and what is shown as recording has a
\* session behind it (recorder.ts cleanupSession and stopSession).
THEOREM MicrophoneCorrect == DeckSpec => []MicrophoneHeld
<1>1. DeckInv => MicrophoneHeld
  BY DEF DeckInv, Good, Ordered, MicrophoneHeld
<1>2. DeckInit => DeckInv
  BY DeckStarts DEF DeckInv
<1>3. DeckInv /\ [DeckNext]_deckVars => DeckInv'
  BY DeckKeeps DEF DeckInv
<1> QED
  BY <1>1, <1>2, <1>3, PTL DEF DeckSpec

-----------------------------------------------------------------------------
(* Those who share the microphone: the page and the native side.           *)

CallStages == {"none", "loading", "asked", "ready"}
InputStages == {"none", "wake", "list", "open", "relist", "reopen"}
Users == {"nobody", "preview", "take", "check"}
MikeCalls == [by : Users, input : Nat, stage : CallStages]
MikeInputs == [stage : InputStages, life : Nat, generation : Nat, mike : Nat]
Messages == [type : {"start", "stop"}, mike : Nat]
Pages ==
    [platform : Platforms, opening : SUBSET Nat, sources : SUBSET Nat,
     tracks : SUBSET Nat, session : Nat, graph : BOOLEAN, current : Nat,
     minimum : Nat, calls : Seq(MikeCalls), up : BOOLEAN, life : Nat,
     generation : Nat, active : Nat, denied : BOOLEAN, inputs : Seq(MikeInputs),
     takes : SUBSET Nat, checking : {"no", "open", "access"}, posted : Seq(Messages)]

Starts == [mike : Nat, generation : Nat]
StartAnswers == [mike : Nat, ok : BOOLEAN, denied : BOOLEAN, session : Nat]
Captures ==
    [running : BOOLEAN, session : Nat, generation : Nat, waiting : Seq(Starts),
     access : {"unasked", "granted", "denied"}, answers : Seq(StartAnswers),
     faults : Nat, halted : BOOLEAN]

Stopping(p) == \E i \in DOMAIN p.posted : p.posted[i].type = "stop"
IsReady(p) == \E m \in DOMAIN p.calls : p.calls[m].stage = "ready"
IsAsked(p, m) == m \in DOMAIN p.calls /\ p.calls[m].stage = "asked"

\* A microphone that was asked for is on its way to the native side, waits
\* there or is answered for, and is in one of these places once.
Underway(p, c) ==
    /\ \A i \in DOMAIN p.posted :
         p.posted[i].type = "start" => IsAsked(p, p.posted[i].mike)
    /\ \A i \in DOMAIN c.waiting : IsAsked(p, c.waiting[i].mike)
    /\ \A i \in DOMAIN c.answers : IsAsked(p, c.answers[i].mike)
    /\ \A i, j \in DOMAIN p.posted :
         /\ p.posted[i].type = "start" /\ p.posted[j].type = "start"
         /\ p.posted[i].mike = p.posted[j].mike
         => i = j
    /\ \A i, j \in DOMAIN c.waiting : c.waiting[i].mike = c.waiting[j].mike => i = j
    /\ \A i, j \in DOMAIN c.answers : c.answers[i].mike = c.answers[j].mike => i = j
    /\ \A i \in DOMAIN p.posted : p.posted[i].type = "start" =>
         /\ \A j \in DOMAIN c.waiting : p.posted[i].mike # c.waiting[j].mike
         /\ \A j \in DOMAIN c.answers : p.posted[i].mike # c.answers[j].mike
    /\ \A i \in DOMAIN c.waiting : \A j \in DOMAIN c.answers :
         c.waiting[i].mike # c.answers[j].mike

\* A microphone is being opened or is open.
Placed(p) ==
    /\ p.opening = {m \in DOMAIN p.calls : p.calls[m].stage # "none"}
    /\ p.sources \subseteq DOMAIN p.calls
    /\ p.sources \cap p.opening = {}

\* A stop is posted when nobody has a microphone or asks for one.
StopsFirst(p, c) ==
    /\ \A i, j \in DOMAIN p.posted :
         i < j /\ p.posted[i].type = "start" => p.posted[j].type = "start"
    /\ Stopping(p) =>
         p.sources = {} /\ c.waiting = <<>> /\ c.answers = <<>> /\ ~IsReady(p)

\* The capture that answers for a microphone runs and is the one the page
\* lets through.
AnswerHolds(p, c) ==
    p.platform # "web" /\ ~c.halted =>
      /\ \A i \in DOMAIN c.answers : c.answers[i].ok =>
           c.running /\ (p.platform = "android" => c.answers[i].session = c.session)
      /\ p.sources # {} \/ IsReady(p) =>
           /\ c.running
           /\ p.platform = "android" => p.session = c.session
           /\ p.platform = "ios" => p.graph

LetThrough(p, c) ==
    /\ p.current <= c.session /\ p.minimum <= c.session + 1
    /\ c.running /\ ~Stopping(p) => p.minimum <= c.session

\* In a browser a track is had from the answer until the microphone is closed.
TracksHeld(p, c) ==
    /\ c.running => p.platform # "web"
    /\ p.platform # "web" => p.tracks = {}
    /\ p.platform = "web" =>
         /\ p.tracks \subseteq p.sources \cup p.opening
         /\ p.sources \subseteq p.tracks
         /\ \A m \in DOMAIN p.calls : p.calls[m].stage = "ready" => m \in p.tracks

\* Everything but who the capture runs for.
Loose(p, c) ==
    /\ p \in Pages /\ c \in Captures
    /\ Placed(p) /\ Underway(p, c) /\ StopsFirst(p, c)
    /\ AnswerHolds(p, c) /\ LetThrough(p, c) /\ TracksHeld(p, c)

Shared(p, c) ==
    /\ Loose(p, c)
    /\ c.running => p.sources \cup p.opening # {} \/ Stopping(p)

\* The invariant reads this much of the page for its microphones.
AlikeShared(p, q) ==
    /\ q.platform = p.platform /\ q.opening = p.opening /\ q.sources = p.sources
    /\ q.tracks = p.tracks /\ q.session = p.session /\ q.graph = p.graph
    /\ q.current = p.current /\ q.minimum = p.minimum
    /\ q.calls = p.calls /\ q.posted = p.posted

LEMMA SharedAlike ==
  ASSUME NEW p, NEW q, NEW c, Shared(p, c), q \in Pages, AlikeShared(p, q)
  PROVE  Shared(q, c)
BY DEF Shared, Loose, AlikeShared, Placed, Underway, StopsFirst, AnswerHolds,
       LetThrough, TracksHeld, Stopping, IsReady, IsAsked

\* What the preview reads.
AlikePreview(p, q) ==
    /\ q.up = p.up /\ q.life = p.life /\ q.generation = p.generation
    /\ q.active = p.active /\ q.inputs = p.inputs /\ q.calls = p.calls
-----------------------------------------------------------------------------

LEMMA NoElement ==
  ASSUME NEW S, NEW s \in Seq(S), DOMAIN s = {}
  PROVE  s = <<>>
<1>1. Len(s) \in Nat /\ DOMAIN s = 1..Len(s) OBVIOUS
<1>2. Len(s) = 0 BY <1>1
<1> QED BY <1>2, EmptySeq

LEMMA TailFacts ==
  ASSUME NEW S, NEW s \in Seq(S), s # <<>>
  PROVE  /\ Tail(s) \in Seq(S) /\ Head(s) \in S /\ Head(s) = s[1] /\ 1 \in DOMAIN s
         /\ \A i \in DOMAIN Tail(s) :
              i \in Nat \ {0} /\ i + 1 \in DOMAIN s /\ Tail(s)[i] = s[i + 1]
BY EmptySeq

LEMMA AppendFacts ==
  ASSUME NEW S, NEW s \in Seq(S), NEW e \in S
  PROVE  /\ Append(s, e) \in Seq(S) /\ Len(s) \in Nat
         /\ DOMAIN s = 1..Len(s) /\ DOMAIN Append(s, e) = 1..(Len(s) + 1)
         /\ \A i \in DOMAIN s : Append(s, e)[i] = s[i]
         /\ Append(s, e)[Len(s) + 1] = e
OBVIOUS

LEMMA RemoveFacts ==
  ASSUME NEW S, NEW s \in Seq(S), NEW k \in DOMAIN s
  PROVE  /\ RemoveAt(s, k) \in Seq(S)
         /\ \A i \in DOMAIN RemoveAt(s, k) :
              LET j == IF i < k THEN i ELSE i + 1 IN
              i \in Nat /\ j \in DOMAIN s \ {k} /\ RemoveAt(s, k)[i] = s[j]
<1> DEFINE a == SubSeq(s, 1, k - 1)
           b == SubSeq(s, k + 1, Len(s))
<1>1. /\ Len(s) \in Nat /\ k \in 1..Len(s) /\ DOMAIN s = 1..Len(s)
      /\ k \in Int /\ k - 1 \in Int /\ k + 1 \in Int /\ Len(s) \in Int /\ 1 \in Int
  OBVIOUS
<1>2. /\ a \in Seq(S) /\ Len(a) = k - 1
      /\ \A i \in 1..(k - 1) : a[i] = s[i]
  BY <1>1
<1>3. /\ b \in Seq(S) /\ Len(b) = Len(s) - k
      /\ \A i \in 1..(Len(s) - k) : b[i] = s[k + i]
  BY <1>1
<1>4. RemoveAt(s, k) = a \o b BY DEF RemoveAt
<1> HIDE DEF a, b
<1> DEFINE r == RemoveAt(s, k)
<1>5. /\ r \in Seq(S) /\ Len(r) = (k - 1) + (Len(s) - k)
      /\ \A i \in 1..((k - 1) + (Len(s) - k)) :
           r[i] = IF i <= k - 1 THEN a[i] ELSE b[i - (k - 1)]
  BY <1>2, <1>3, <1>4, ConcatProperties
<1> HIDE DEF r
<1>6. DOMAIN r = 1..(Len(s) - 1) BY <1>1, <1>5
<1>7. ASSUME NEW i \in DOMAIN r
      PROVE  LET j == IF i < k THEN i ELSE i + 1 IN
             i \in Nat /\ j \in DOMAIN s \ {k} /\ r[i] = s[j]
  <2>1. i \in Nat /\ i \in 1..((k - 1) + (Len(s) - k)) BY <1>1, <1>6
  <2>2. CASE i < k
    <3>1. i <= k - 1 /\ i \in 1..(k - 1) BY <1>1, <2>1, <2>2
    <3> QED BY <1>1, <1>2, <1>5, <2>1, <2>2, <3>1
  <2>3. CASE ~(i < k)
    <3>1. ~(i <= k - 1) /\ i - (k - 1) \in 1..(Len(s) - k) BY <1>1, <2>1, <2>3
    <3>2. b[i - (k - 1)] = s[k + (i - (k - 1))] BY <1>3, <3>1
    <3>3. k + (i - (k - 1)) = i + 1 BY <1>1, <2>1
    <3>4. r[i] = b[i - (k - 1)] BY <1>5, <2>1, <3>1
    <3>5. i + 1 \in DOMAIN s \ {k} BY <1>1, <2>1, <2>3
    <3> QED BY <2>1, <2>3, <3>2, <3>3, <3>4, <3>5
  <2> QED BY <2>2, <2>3
<1> QED BY <1>5, <1>7 DEF r

LEMMA StopFields ==
  ASSUME NEW p \in Pages
  PROVE  LET q == StopCapture(p) IN
         /\ q \in Pages /\ AlikePreview(p, q)
         /\ q.platform = p.platform /\ q.opening = p.opening /\ q.sources = p.sources
         /\ q.tracks = p.tracks /\ q.current = p.current
         /\ q.takes = p.takes /\ q.denied = p.denied /\ q.checking = p.checking
         /\ IF p.sources # {} \/ p.opening # {} \/ p.platform = "web" THEN q = p
            ELSE /\ q.posted = Append(p.posted, StopCapturing)
                 /\ q.session = 0 /\ ~q.graph /\ q.minimum = p.current + 1
<1>1. StopCapturing \in Messages BY DEF StopCapturing, Messages, NoMike
<1>2. p.current + 1 \in Nat BY DEF Pages
<1>3. Append(p.posted, StopCapturing) \in Seq(Messages) BY <1>1 DEF Pages
<1> QED BY <1>1, <1>2, <1>3 DEF StopCapture, Pages, AlikePreview

LEMMA StopShared ==
  ASSUME NEW p, NEW c, Loose(p, c)
  PROVE  Shared(StopCapture(p), c)
<1> DEFINE q == StopCapture(p)
<1>1. p \in Pages /\ c \in Captures BY DEF Loose
<1>2. /\ q \in Pages /\ AlikePreview(p, q)
      /\ q.platform = p.platform /\ q.opening = p.opening /\ q.sources = p.sources
      /\ q.tracks = p.tracks /\ q.current = p.current
      /\ IF p.sources # {} \/ p.opening # {} \/ p.platform = "web" THEN q = p
         ELSE /\ q.posted = Append(p.posted, StopCapturing)
              /\ q.session = 0 /\ ~q.graph /\ q.minimum = p.current + 1
  BY <1>1, StopFields
<1> SUFFICES Shared(q, c) OBVIOUS
<1> HIDE DEF q
<1>3. CASE p.sources # {} \/ p.opening # {} \/ p.platform = "web"
  BY <1>2, <1>3 DEF Shared, Loose, TracksHeld
<1>4. CASE p.sources = {} /\ p.opening = {} /\ p.platform # "web"
  <2>1. \A m : ~IsAsked(p, m) BY <1>4 DEF Loose, Placed, IsAsked
  <2>2. ~IsReady(p) BY <1>4 DEF Loose, Placed, IsReady
  <2>3. c.waiting = <<>> /\ c.answers = <<>>
    <3>1. c.waiting \in Seq(Starts) /\ c.answers \in Seq(StartAnswers) BY <1>1 DEF Captures
    <3>2. DOMAIN c.waiting = {} /\ DOMAIN c.answers = {} BY <2>1 DEF Loose, Underway
    <3> QED BY <3>1, <3>2, NoElement
  <2>4. /\ p.posted \in Seq(Messages) /\ StopCapturing.type = "stop"
        /\ \A i \in DOMAIN p.posted : p.posted[i].type # "start"
    BY <1>1, <2>1 DEF Loose, Underway, Pages, StopCapturing
  <2>5. /\ DOMAIN q.posted = 1..(Len(p.posted) + 1)
        /\ \A i \in DOMAIN q.posted : q.posted[i].type # "start"
        /\ Len(p.posted) + 1 \in DOMAIN q.posted
        /\ q.posted[Len(p.posted) + 1].type = "stop"
    BY <1>2, <1>4, <2>4
  <2>6. Stopping(q) BY <2>5 DEF Stopping
  <2>7. q.calls = p.calls BY <1>2 DEF AlikePreview
  <2>8. ~IsReady(q) /\ \A m : ~IsAsked(q, m) BY <2>1, <2>2, <2>7 DEF IsReady, IsAsked
  <2>9. Placed(q) BY <1>2, <2>7 DEF Loose, Placed
  <2>10. Underway(q, c) /\ StopsFirst(q, c)
    BY <1>2, <1>4, <2>3, <2>5, <2>8 DEF Underway, StopsFirst
  <2>11. AnswerHolds(q, c) BY <2>3, <2>8, <1>2, <1>4 DEF AnswerHolds
  <2>12. LetThrough(q, c)
    <3>1. p.current \in Nat /\ c.session \in Nat BY <1>1 DEF Pages, Captures
    <3> QED BY <3>1, <2>6, <1>2, <1>4 DEF Loose, LetThrough
  <2>13. TracksHeld(q, c) BY <1>2, <1>4, <2>7 DEF Loose, TracksHeld
  <2> QED BY <1>1, <1>2, <2>6, <2>9, <2>10, <2>11, <2>12, <2>13 DEF Shared, Loose
<1> QED BY <1>3, <1>4

LEMMA CloseFields ==
  ASSUME NEW p \in Pages, NEW m
  PROVE  LET q == CloseMicrophone(p, m) IN
         /\ q \in Pages /\ AlikePreview(p, q)
         /\ q.platform = p.platform /\ q.opening = p.opening /\ q.sources = p.sources \ {m}
         /\ q.takes = p.takes /\ q.denied = p.denied /\ q.checking = p.checking
<1> DEFINE r == [p EXCEPT !.sources = @ \ {m}, !.tracks = @ \ {m}]
<1>1. r \in Pages /\ AlikePreview(p, r) /\ r.platform = p.platform /\ r.opening = p.opening
      /\ r.sources = p.sources \ {m}
      /\ r.takes = p.takes /\ r.denied = p.denied /\ r.checking = p.checking
  BY DEF Pages, AlikePreview
<1> HIDE DEF r
<1>2. CASE m \notin p.sources BY <1>2 DEF CloseMicrophone, AlikePreview
<1>3. CASE m \in p.sources
  <2>1. CloseMicrophone(p, m) = StopCapture(r) BY <1>3 DEF CloseMicrophone, r
  <2> DEFINE q == StopCapture(r)
  <2>2. /\ q \in Pages /\ AlikePreview(r, q)
        /\ q.platform = r.platform /\ q.opening = r.opening /\ q.sources = r.sources
        /\ q.takes = r.takes /\ q.denied = r.denied /\ q.checking = r.checking
    BY <1>1, StopFields
  <2> HIDE DEF q
  <2>3. AlikePreview(p, q) BY <1>1, <2>2 DEF AlikePreview
  <2> QED BY <1>1, <2>1, <2>2, <2>3 DEF q
<1> QED BY <1>2, <1>3

LEMMA CloseShared ==
  ASSUME NEW p, NEW c, Shared(p, c), NEW m
  PROVE  Shared(CloseMicrophone(p, m), c)
<1>1. CASE m \notin p.sources BY <1>1 DEF CloseMicrophone
<1>2. CASE m \in p.sources
  <2> DEFINE r == [p EXCEPT !.sources = @ \ {m}, !.tracks = @ \ {m}]
  <2>1. p \in Pages /\ c \in Captures BY DEF Shared, Loose
  <2>2. /\ r \in Pages /\ r.sources = p.sources \ {m} /\ r.tracks = p.tracks \ {m}
        /\ r.platform = p.platform /\ r.opening = p.opening /\ r.session = p.session
        /\ r.graph = p.graph /\ r.current = p.current /\ r.minimum = p.minimum
        /\ r.calls = p.calls /\ r.posted = p.posted
    BY <2>1 DEF Pages
  <2>3. CloseMicrophone(p, m) = StopCapture(r) BY <1>2 DEF CloseMicrophone
  <2> HIDE DEF r
  <2>4. Placed(r) /\ Underway(r, c) BY <2>2 DEF Shared, Loose, Placed, Underway, IsAsked
  <2>5. StopsFirst(r, c) BY <2>2 DEF Shared, Loose, StopsFirst, Stopping, IsReady
  <2>6. AnswerHolds(r, c) BY <2>2 DEF Shared, Loose, AnswerHolds, IsReady
  <2>7. LetThrough(r, c) BY <2>2 DEF Shared, Loose, LetThrough, Stopping
  <2>8. TracksHeld(r, c)
    BY <1>2, <2>2 DEF Shared, Loose, TracksHeld, Placed
  <2>9. Loose(r, c) BY <2>1, <2>2, <2>4, <2>5, <2>6, <2>7, <2>8 DEF Loose
  <2> QED BY <2>3, <2>9, StopShared
<1> QED BY <1>1, <1>2

\* The microphone m is not on its way to the native side or back.
Unasked(p, c, m) ==
    /\ \A i \in DOMAIN p.posted : p.posted[i].type = "start" => p.posted[i].mike # m
    /\ \A i \in DOMAIN c.waiting : c.waiting[i].mike # m
    /\ \A i \in DOMAIN c.answers : c.answers[i].mike # m

LEMMA AskFields ==
  ASSUME NEW p \in Pages, NEW by \in Users, NEW input \in Nat
  PROVE  LET q == OpenMicrophone(p, by, input)
             m == Len(p.calls) + 1
             stage == IF p.platform = "ios" THEN "loading" ELSE "asked"
         IN /\ q \in Pages /\ m \in Nat
            /\ q.opening = p.opening \cup {m}
            /\ q.calls = Append(p.calls, [by |-> by, input |-> input, stage |-> stage])
            /\ q.posted = IF p.platform = "ios" THEN p.posted
                          ELSE Append(p.posted, StartCapturing(m))
            /\ q.platform = p.platform /\ q.sources = p.sources /\ q.tracks = p.tracks
            /\ q.session = p.session /\ q.graph = p.graph /\ q.current = p.current
            /\ q.minimum = p.minimum /\ q.up = p.up /\ q.life = p.life
            /\ q.generation = p.generation /\ q.active = p.active
            /\ q.denied = p.denied /\ q.inputs = p.inputs /\ q.takes = p.takes
            /\ q.checking = p.checking
<1> DEFINE m == Len(p.calls) + 1
           stage == IF p.platform = "ios" THEN "loading" ELSE "asked"
           call == [by |-> by, input |-> input, stage |-> stage]
<1>1. p.calls \in Seq(MikeCalls) /\ m \in Nat BY DEF Pages
<1>2. call \in MikeCalls BY DEF MikeCalls, CallStages
<1>3. Append(p.calls, call) \in Seq(MikeCalls) BY <1>1, <1>2
<1>4. StartCapturing(m) \in Messages BY <1>1 DEF StartCapturing, Messages
<1>5. Append(p.posted, StartCapturing(m)) \in Seq(Messages) BY <1>4 DEF Pages
<1>6. p.opening \cup {m} \in SUBSET Nat BY <1>1 DEF Pages
<1>7. OpenMicrophone(p, by, input) =
        [p EXCEPT !.opening = p.opening \cup {m}, !.calls = Append(p.calls, call),
                  !.posted = IF p.platform = "ios" THEN p.posted
                             ELSE Append(p.posted, StartCapturing(m))]
  BY DEF OpenMicrophone, Pages
<1> HIDE DEF m, call
<1>8. (IF p.platform = "ios" THEN p.posted ELSE Append(p.posted, StartCapturing(m)))
        \in Seq(Messages)
  BY <1>5 DEF Pages
<1>9. LET q == OpenMicrophone(p, by, input) IN
            /\ q \in Pages
            /\ q.opening = p.opening \cup {m}
            /\ q.calls = Append(p.calls, call)
            /\ q.posted = IF p.platform = "ios" THEN p.posted
                          ELSE Append(p.posted, StartCapturing(m))
            /\ q.platform = p.platform /\ q.sources = p.sources /\ q.tracks = p.tracks
            /\ q.session = p.session /\ q.graph = p.graph /\ q.current = p.current
            /\ q.minimum = p.minimum /\ q.up = p.up /\ q.life = p.life
            /\ q.generation = p.generation /\ q.active = p.active
            /\ q.denied = p.denied /\ q.inputs = p.inputs /\ q.takes = p.takes
            /\ q.checking = p.checking
  <2> DEFINE posted == IF p.platform = "ios" THEN p.posted
                       ELSE Append(p.posted, StartCapturing(m))
             calls == Append(p.calls, call)
             opening == p.opening \cup {m}
  <2>1. posted \in Seq(Messages) /\ calls \in Seq(MikeCalls) /\ opening \in SUBSET Nat
    BY <1>3, <1>6, <1>8
  <2>2. OpenMicrophone(p, by, input) =
          [p EXCEPT !.opening = opening, !.calls = calls, !.posted = posted]
    BY <1>7
  <2> HIDE DEF posted, calls, opening
  <2>3. OpenMicrophone(p, by, input) \in Pages BY <2>1, <2>2 DEF Pages
  <2> QED BY <2>2, <2>3 DEF Pages, posted, calls, opening
<1> QED BY <1>1, <1>9 DEF m, call

LEMMA AskShared ==
  ASSUME NEW p, NEW c, Shared(p, c), NEW by \in Users, NEW input \in Nat
  PROVE  Shared(OpenMicrophone(p, by, input), c)
<1> DEFINE q == OpenMicrophone(p, by, input)
           m == Len(p.calls) + 1
           stage == IF p.platform = "ios" THEN "loading" ELSE "asked"
           call == [by |-> by, input |-> input, stage |-> stage]
<1>1. p \in Pages /\ c \in Captures BY DEF Shared, Loose
<1>2. /\ q \in Pages /\ m \in Nat
      /\ q.opening = p.opening \cup {m}
      /\ q.calls = Append(p.calls, call)
      /\ q.posted = IF p.platform = "ios" THEN p.posted
                    ELSE Append(p.posted, StartCapturing(m))
      /\ q.platform = p.platform /\ q.sources = p.sources /\ q.tracks = p.tracks
      /\ q.session = p.session /\ q.graph = p.graph /\ q.current = p.current
      /\ q.minimum = p.minimum
  BY <1>1, AskFields
<1>3. /\ call.stage = stage /\ stage \in {"loading", "asked"}
      /\ p.platform # "ios" => stage = "asked"
      /\ StartCapturing(m).type = "start" /\ StartCapturing(m).mike = m
  BY DEF StartCapturing
<1>4. p.calls \in Seq(MikeCalls) /\ p.posted \in Seq(Messages) BY <1>1 DEF Pages
<1> SUFFICES Shared(q, c) OBVIOUS
<1> HIDE DEF q, call, stage
<1>5. /\ m \notin DOMAIN p.calls /\ DOMAIN q.calls = DOMAIN p.calls \cup {m}
      /\ \A n \in DOMAIN p.calls : q.calls[n] = p.calls[n]
      /\ q.calls[m] = call
  BY <1>2, <1>4
<1> HIDE DEF m
<1>6. /\ \A n \in DOMAIN p.calls : IsAsked(q, n) <=> IsAsked(p, n)
      /\ ~IsAsked(p, m) /\ (stage = "asked" => IsAsked(q, m))
      /\ IsReady(q) <=> IsReady(p)
  BY <1>3, <1>5 DEF IsAsked, IsReady
<1>6a. \A n : IsAsked(p, n) => IsAsked(q, n) /\ n # m
  BY <1>6 DEF IsAsked
<1>7. Placed(q)
  BY <1>2, <1>3, <1>5 DEF Shared, Loose, Placed
<1>8. ASSUME p.platform = "ios"
      PROVE  Underway(q, c) /\ StopsFirst(q, c) /\ LetThrough(q, c)
  <2>1. q.posted = p.posted BY <1>2, <1>8
  <2>2. Underway(q, c)
    BY <2>1, <1>6a DEF Shared, Loose, Underway
  <2>3. StopsFirst(q, c)
    BY <2>1, <1>2, <1>6 DEF Shared, Loose, StopsFirst, Stopping
  <2>4. LetThrough(q, c)
    BY <2>1, <1>2 DEF Shared, Loose, LetThrough, Stopping
  <2> QED BY <2>2, <2>3, <2>4
<1>9. ASSUME p.platform # "ios"
      PROVE  Underway(q, c) /\ StopsFirst(q, c) /\ LetThrough(q, c)
  <2>1. /\ DOMAIN q.posted = 1..(Len(p.posted) + 1) /\ DOMAIN p.posted = 1..Len(p.posted)
        /\ Len(p.posted) \in Nat
        /\ \A i \in DOMAIN p.posted : q.posted[i] = p.posted[i]
        /\ q.posted[Len(p.posted) + 1].type = "start"
        /\ q.posted[Len(p.posted) + 1].mike = m
    BY <1>2, <1>3, <1>4, <1>9
  <2>2. Stopping(q) <=> Stopping(p) BY <2>1 DEF Stopping
  <2>3. Underway(q, c)
    <3>1. \A i \in DOMAIN q.posted : q.posted[i].type = "start" => IsAsked(q, q.posted[i].mike)
      BY <2>1, <1>3, <1>6, <1>6a, <1>9 DEF Shared, Loose, Underway
    <3>2. \A i \in DOMAIN p.posted : p.posted[i].type = "start" => p.posted[i].mike # m
      BY <1>6a DEF Shared, Loose, Underway
    <3>3. /\ \A i \in DOMAIN c.waiting : IsAsked(q, c.waiting[i].mike) /\ c.waiting[i].mike # m
          /\ \A i \in DOMAIN c.answers : IsAsked(q, c.answers[i].mike) /\ c.answers[i].mike # m
      BY <1>6a DEF Shared, Loose, Underway
    <3>4. \A i, j \in DOMAIN q.posted :
             /\ q.posted[i].type = "start" /\ q.posted[j].type = "start"
             /\ q.posted[i].mike = q.posted[j].mike
             => i = j
      BY <2>1, <3>2 DEF Shared, Loose, Underway
    <3>5. \A i \in DOMAIN q.posted : q.posted[i].type = "start" =>
             /\ \A j \in DOMAIN c.waiting : q.posted[i].mike # c.waiting[j].mike
             /\ \A j \in DOMAIN c.answers : q.posted[i].mike # c.answers[j].mike
      BY <2>1, <3>3 DEF Shared, Loose, Underway
    <3> QED BY <3>1, <3>3, <3>4, <3>5 DEF Shared, Loose, Underway
  <2>4. StopsFirst(q, c)
    BY <2>1, <2>2, <1>2, <1>6 DEF Shared, Loose, StopsFirst
  <2>5. LetThrough(q, c)
    BY <2>2, <1>2 DEF Shared, Loose, LetThrough
  <2> QED BY <2>3, <2>4, <2>5
<1>10. AnswerHolds(q, c)
  BY <1>2, <1>6 DEF Shared, Loose, AnswerHolds
<1>11. TracksHeld(q, c)
  BY <1>2, <1>3, <1>5 DEF Shared, Loose, TracksHeld
<1>12. q.opening # {} BY <1>2
<1> QED
  BY <1>1, <1>2, <1>7, <1>8, <1>9, <1>10, <1>11, <1>12 DEF Shared, Loose

\* An opening that has come to nothing.
Ceased(p, m) ==
    [p EXCEPT !.opening = @ \ {m}, !.tracks = @ \ {m}, !.calls[m] = NobodyAsks]

LEMMA CeasedFields ==
  ASSUME NEW p \in Pages, NEW m \in DOMAIN p.calls
  PROVE  LET q == Ceased(p, m) IN
         /\ q \in Pages /\ q.opening = p.opening \ {m} /\ q.tracks = p.tracks \ {m}
         /\ DOMAIN q.calls = DOMAIN p.calls /\ q.calls[m] = NobodyAsks
         /\ \A n \in DOMAIN p.calls : n # m => q.calls[n] = p.calls[n]
         /\ q.platform = p.platform /\ q.sources = p.sources
         /\ q.session = p.session /\ q.graph = p.graph /\ q.current = p.current
         /\ q.minimum = p.minimum /\ q.up = p.up /\ q.life = p.life
         /\ q.generation = p.generation /\ q.active = p.active
         /\ q.denied = p.denied /\ q.inputs = p.inputs /\ q.takes = p.takes
         /\ q.checking = p.checking /\ q.posted = p.posted
<1>1. p.calls \in Seq(MikeCalls) /\ NobodyAsks \in MikeCalls
  BY DEF Pages, MikeCalls, NobodyAsks, Users, CallStages
<1>2. [p.calls EXCEPT ![m] = NobodyAsks] \in Seq(MikeCalls) BY <1>1
<1>3. Ceased(p, m) = [p EXCEPT !.opening = p.opening \ {m}, !.tracks = p.tracks \ {m},
                               !.calls = [p.calls EXCEPT ![m] = NobodyAsks]]
  BY DEF Ceased, Pages
<1>4. /\ DOMAIN [p.calls EXCEPT ![m] = NobodyAsks] = DOMAIN p.calls
      /\ [p.calls EXCEPT ![m] = NobodyAsks][m] = NobodyAsks
      /\ \A n \in DOMAIN p.calls : n # m => [p.calls EXCEPT ![m] = NobodyAsks][n] = p.calls[n]
  BY <1>1
<1> DEFINE calls == [p.calls EXCEPT ![m] = NobodyAsks]
           q == Ceased(p, m)
<1>5. calls \in Seq(MikeCalls) /\ q = [p EXCEPT !.opening = p.opening \ {m}, !.tracks = p.tracks \ {m}, !.calls = calls]
  BY <1>2, <1>3
<1>6. p.opening \ {m} \in SUBSET Nat /\ p.tracks \ {m} \in SUBSET Nat BY <1>1 DEF Pages
<1>7. /\ q \in Pages /\ q.calls = calls
      /\ q.opening = p.opening \ {m} /\ q.tracks = p.tracks \ {m}
      /\ q.platform = p.platform /\ q.sources = p.sources
      /\ q.session = p.session /\ q.graph = p.graph /\ q.current = p.current
      /\ q.minimum = p.minimum /\ q.up = p.up /\ q.life = p.life
      /\ q.generation = p.generation /\ q.active = p.active
      /\ q.denied = p.denied /\ q.inputs = p.inputs /\ q.takes = p.takes
      /\ q.checking = p.checking /\ q.posted = p.posted
  <2> HIDE DEF calls, q
  <2>1. q \in Pages BY <1>5, <1>6 DEF Pages
  <2> QED BY <1>5, <2>1 DEF Pages
<1> QED BY <1>4, <1>7

LEMMA CeasedLoose ==
  ASSUME NEW p, NEW c, Loose(p, c), NEW m \in DOMAIN p.calls,
         p.calls[m].stage # "none", Unasked(p, c, m)
  PROVE  Loose(Ceased(p, m), c)
<1> DEFINE q == Ceased(p, m)
<1>1. p \in Pages /\ c \in Captures BY DEF Loose
<1>2. /\ q \in Pages /\ q.opening = p.opening \ {m} /\ q.tracks = p.tracks \ {m}
      /\ DOMAIN q.calls = DOMAIN p.calls /\ q.calls[m] = NobodyAsks
      /\ \A n \in DOMAIN p.calls : n # m => q.calls[n] = p.calls[n]
      /\ q.platform = p.platform /\ q.sources = p.sources
      /\ q.session = p.session /\ q.graph = p.graph /\ q.current = p.current
      /\ q.minimum = p.minimum /\ q.posted = p.posted
  BY <1>1, CeasedFields
<1> SUFFICES Loose(q, c) OBVIOUS
<1> HIDE DEF q
<1>3. NobodyAsks.stage = "none" BY DEF NobodyAsks
<1>4. Placed(q) BY <1>2, <1>3 DEF Loose, Placed
<1>5. /\ \A n : n # m => (IsAsked(q, n) <=> IsAsked(p, n))
      /\ IsReady(q) => IsReady(p)
  BY <1>2, <1>3 DEF IsAsked, IsReady
<1>6. Underway(q, c) BY <1>2, <1>5 DEF Loose, Underway, Unasked
<1>7. StopsFirst(q, c) BY <1>2, <1>5 DEF Loose, StopsFirst, Stopping
<1>8. AnswerHolds(q, c) BY <1>2, <1>5 DEF Loose, AnswerHolds
<1>9. LetThrough(q, c) BY <1>2 DEF Loose, LetThrough, Stopping
<1>10. m \notin p.sources BY DEF Loose, Placed
<1>11. TracksHeld(q, c) BY <1>2, <1>3, <1>10 DEF Loose, TracksHeld
<1> QED BY <1>1, <1>2, <1>4, <1>6, <1>7, <1>8, <1>9, <1>11 DEF Loose

\* A microphone that is ready is had by whoever asked for it.
Had(p, m) ==
    [p EXCEPT !.opening = @ \ {m}, !.sources = @ \cup {m}, !.calls[m] = NobodyAsks]

LEMMA HadFields ==
  ASSUME NEW p \in Pages, NEW m \in DOMAIN p.calls
  PROVE  LET q == Had(p, m) IN
         /\ q \in Pages /\ q.opening = p.opening \ {m} /\ q.sources = p.sources \cup {m}
         /\ DOMAIN q.calls = DOMAIN p.calls /\ q.calls[m] = NobodyAsks
         /\ \A n \in DOMAIN p.calls : n # m => q.calls[n] = p.calls[n]
         /\ q.platform = p.platform /\ q.tracks = p.tracks
         /\ q.session = p.session /\ q.graph = p.graph /\ q.current = p.current
         /\ q.minimum = p.minimum /\ q.up = p.up /\ q.life = p.life
         /\ q.generation = p.generation /\ q.active = p.active
         /\ q.denied = p.denied /\ q.inputs = p.inputs /\ q.takes = p.takes
         /\ q.checking = p.checking /\ q.posted = p.posted
<1>1. p.calls \in Seq(MikeCalls) /\ NobodyAsks \in MikeCalls /\ m \in Nat
  BY DEF Pages, MikeCalls, NobodyAsks, Users, CallStages
<1>2. [p.calls EXCEPT ![m] = NobodyAsks] \in Seq(MikeCalls) BY <1>1
<1>3. Had(p, m) = [p EXCEPT !.opening = p.opening \ {m}, !.sources = p.sources \cup {m},
                            !.calls = [p.calls EXCEPT ![m] = NobodyAsks]]
  BY DEF Had, Pages
<1>4. /\ DOMAIN [p.calls EXCEPT ![m] = NobodyAsks] = DOMAIN p.calls
      /\ [p.calls EXCEPT ![m] = NobodyAsks][m] = NobodyAsks
      /\ \A n \in DOMAIN p.calls : n # m => [p.calls EXCEPT ![m] = NobodyAsks][n] = p.calls[n]
  BY <1>1
<1> DEFINE calls == [p.calls EXCEPT ![m] = NobodyAsks]
           q == Had(p, m)
<1>5. calls \in Seq(MikeCalls) /\ q = [p EXCEPT !.opening = p.opening \ {m}, !.sources = p.sources \cup {m}, !.calls = calls]
  BY <1>2, <1>3
<1>6. p.opening \ {m} \in SUBSET Nat /\ (p.sources \cup {m}) \in SUBSET Nat BY <1>1 DEF Pages
<1>7. /\ q \in Pages /\ q.calls = calls
      /\ q.opening = p.opening \ {m} /\ q.sources = p.sources \cup {m}
      /\ q.platform = p.platform /\ q.tracks = p.tracks
      /\ q.session = p.session /\ q.graph = p.graph /\ q.current = p.current
      /\ q.minimum = p.minimum /\ q.up = p.up /\ q.life = p.life
      /\ q.generation = p.generation /\ q.active = p.active
      /\ q.denied = p.denied /\ q.inputs = p.inputs /\ q.takes = p.takes
      /\ q.checking = p.checking /\ q.posted = p.posted
  <2> HIDE DEF calls, q
  <2>1. q \in Pages BY <1>5, <1>6 DEF Pages
  <2> QED BY <1>5, <2>1 DEF Pages
<1> QED BY <1>4, <1>7

LEMMA HadShared ==
  ASSUME NEW p, NEW c, Shared(p, c), NEW m \in DOMAIN p.calls,
         p.calls[m].stage = "ready"
  PROVE  Shared(Had(p, m), c)
<1> DEFINE q == Had(p, m)
<1>1. p \in Pages /\ c \in Captures BY DEF Shared, Loose
<1>2. /\ q \in Pages /\ q.opening = p.opening \ {m} /\ q.sources = p.sources \cup {m}
      /\ DOMAIN q.calls = DOMAIN p.calls /\ q.calls[m] = NobodyAsks
      /\ \A n \in DOMAIN p.calls : n # m => q.calls[n] = p.calls[n]
      /\ q.platform = p.platform /\ q.tracks = p.tracks
      /\ q.session = p.session /\ q.graph = p.graph /\ q.current = p.current
      /\ q.minimum = p.minimum /\ q.posted = p.posted
  BY <1>1, HadFields
<1> SUFFICES Shared(q, c) OBVIOUS
<1> HIDE DEF q
<1>3. NobodyAsks.stage = "none" BY DEF NobodyAsks
<1>4. Placed(q) BY <1>2, <1>3 DEF Shared, Loose, Placed
<1>5. /\ \A n : IsAsked(q, n) <=> IsAsked(p, n)
      /\ IsReady(p)
  BY <1>2, <1>3 DEF IsAsked, IsReady
<1>6. Underway(q, c) BY <1>2, <1>5 DEF Shared, Loose, Underway
<1>7. ~Stopping(p) /\ ~Stopping(q) BY <1>2, <1>5 DEF Shared, Loose, StopsFirst, Stopping
<1>8. StopsFirst(q, c) BY <1>2, <1>7 DEF Shared, Loose, StopsFirst
<1>9. AnswerHolds(q, c) BY <1>2, <1>5 DEF Shared, Loose, AnswerHolds
<1>10. LetThrough(q, c) BY <1>2, <1>7 DEF Shared, Loose, LetThrough
<1>11. TracksHeld(q, c) BY <1>2, <1>3 DEF Shared, Loose, TracksHeld
<1>12. q.sources # {} BY <1>2
<1> QED
  BY <1>1, <1>2, <1>4, <1>6, <1>8, <1>9, <1>10, <1>11, <1>12 DEF Shared, Loose
-----------------------------------------------------------------------------

LEMMA WaitFields ==
  ASSUME NEW p \in Pages, NEW m \in DOMAIN p.calls
  PROVE  LET q == [p EXCEPT !.calls[m].stage = "asked",
                            !.posted = Append(@, StartCapturing(m))]
         IN /\ q \in Pages /\ q.posted = Append(p.posted, StartCapturing(m))
            /\ DOMAIN q.calls = DOMAIN p.calls /\ q.calls[m].stage = "asked"
            /\ q.calls[m].by = p.calls[m].by /\ q.calls[m].input = p.calls[m].input
            /\ \A n \in DOMAIN p.calls : n # m => q.calls[n] = p.calls[n]
            /\ q.opening = p.opening /\ q.tracks = p.tracks
            /\ q.platform = p.platform /\ q.sources = p.sources
            /\ q.session = p.session /\ q.graph = p.graph /\ q.current = p.current
            /\ q.minimum = p.minimum /\ q.up = p.up /\ q.life = p.life
            /\ q.generation = p.generation /\ q.active = p.active
            /\ q.denied = p.denied /\ q.inputs = p.inputs /\ q.takes = p.takes
            /\ q.checking = p.checking
<1> DEFINE call == [p.calls[m] EXCEPT !.stage = "asked"]
           calls == [p.calls EXCEPT ![m] = call]
           posted == Append(p.posted, StartCapturing(m))
           q == [p EXCEPT !.calls = calls, !.posted = posted]
<1>1. p.calls \in Seq(MikeCalls) /\ p.calls[m] \in MikeCalls /\ m \in Nat BY DEF Pages
<1>2. /\ call \in MikeCalls /\ call.stage = "asked"
      /\ call.by = p.calls[m].by /\ call.input = p.calls[m].input
  BY <1>1 DEF MikeCalls, CallStages
<1> HIDE DEF call
<1>3. /\ calls \in Seq(MikeCalls) /\ DOMAIN calls = DOMAIN p.calls /\ calls[m] = call
      /\ \A n \in DOMAIN p.calls : n # m => calls[n] = p.calls[n]
  BY <1>1, <1>2
<1>4. StartCapturing(m) \in Messages BY <1>1 DEF StartCapturing, Messages
<1>5. posted \in Seq(Messages) BY <1>4 DEF Pages
<1>6. [p EXCEPT !.calls[m].stage = "asked", !.posted = Append(@, StartCapturing(m))] = q
  BY DEF Pages, call
<1>7. /\ q \in Pages /\ q.posted = posted /\ q.calls = calls
      /\ q.opening = p.opening /\ q.tracks = p.tracks
      /\ q.platform = p.platform /\ q.sources = p.sources
      /\ q.session = p.session /\ q.graph = p.graph /\ q.current = p.current
      /\ q.minimum = p.minimum /\ q.up = p.up /\ q.life = p.life
      /\ q.generation = p.generation /\ q.active = p.active
      /\ q.denied = p.denied /\ q.inputs = p.inputs /\ q.takes = p.takes
      /\ q.checking = p.checking
  <2> HIDE DEF calls, posted
  <2> QED BY <1>3, <1>5 DEF Pages
<1> HIDE DEF q, calls
<1> QED BY <1>2, <1>3, <1>6, <1>7 DEF posted

LEMMA WaitShared ==
  ASSUME NEW p, NEW c, Shared(p, c), NEW m \in DOMAIN p.calls,
         p.calls[m].stage = "loading",
         NEW q, q = [p EXCEPT !.calls[m].stage = "asked",
                              !.posted = Append(@, StartCapturing(m))]
  PROVE  Shared(q, c)
<1>1. p \in Pages /\ c \in Captures BY DEF Shared, Loose
<1>2. /\ q \in Pages /\ q.posted = Append(p.posted, StartCapturing(m))
      /\ DOMAIN q.calls = DOMAIN p.calls /\ q.calls[m].stage = "asked"
      /\ \A n \in DOMAIN p.calls : n # m => q.calls[n] = p.calls[n]
      /\ q.opening = p.opening /\ q.tracks = p.tracks
      /\ q.platform = p.platform /\ q.sources = p.sources
      /\ q.session = p.session /\ q.graph = p.graph /\ q.current = p.current
      /\ q.minimum = p.minimum
  BY <1>1, WaitFields, ZenonT(60)
<1>3. /\ p.posted \in Seq(Messages) /\ StartCapturing(m) \in Messages
      /\ StartCapturing(m).type = "start" /\ StartCapturing(m).mike = m
  BY <1>1 DEF Pages, StartCapturing, Messages
<1>4. /\ Len(p.posted) \in Nat
      /\ DOMAIN p.posted = 1..Len(p.posted) /\ DOMAIN q.posted = 1..(Len(p.posted) + 1)
      /\ \A i \in DOMAIN p.posted : q.posted[i] = p.posted[i]
      /\ q.posted[Len(p.posted) + 1] = StartCapturing(m)
  BY <1>2, <1>3, AppendFacts
<1>5. Placed(q) BY <1>2 DEF Shared, Loose, Placed
<1>6. /\ \A n : IsAsked(p, n) => IsAsked(q, n) /\ n # m
      /\ IsAsked(q, m)
      /\ IsReady(q) <=> IsReady(p)
  BY <1>2 DEF IsAsked, IsReady
<1>7. Stopping(q) <=> Stopping(p) BY <1>3, <1>4 DEF Stopping
<1>8. Underway(q, c)
  <2>1. \A i \in DOMAIN q.posted : q.posted[i].type = "start" => IsAsked(q, q.posted[i].mike)
    BY <1>3, <1>4, <1>6 DEF Shared, Loose, Underway
  <2>2. /\ \A i \in DOMAIN p.posted : p.posted[i].type = "start" => p.posted[i].mike # m
        /\ \A i \in DOMAIN c.waiting : IsAsked(q, c.waiting[i].mike) /\ c.waiting[i].mike # m
        /\ \A i \in DOMAIN c.answers : IsAsked(q, c.answers[i].mike) /\ c.answers[i].mike # m
    BY <1>6 DEF Shared, Loose, Underway
  <2>3. \A i, j \in DOMAIN q.posted :
           /\ q.posted[i].type = "start" /\ q.posted[j].type = "start"
           /\ q.posted[i].mike = q.posted[j].mike
           => i = j
    BY <1>3, <1>4, <2>2 DEF Shared, Loose, Underway
  <2>4. \A i \in DOMAIN q.posted : q.posted[i].type = "start" =>
           /\ \A j \in DOMAIN c.waiting : q.posted[i].mike # c.waiting[j].mike
           /\ \A j \in DOMAIN c.answers : q.posted[i].mike # c.answers[j].mike
    BY <1>3, <1>4, <2>2 DEF Shared, Loose, Underway
  <2> QED BY <2>1, <2>2, <2>3, <2>4 DEF Shared, Loose, Underway
<1>9. StopsFirst(q, c)
  BY <1>2, <1>3, <1>4, <1>6, <1>7 DEF Shared, Loose, StopsFirst
<1>10. AnswerHolds(q, c) BY <1>2, <1>6 DEF Shared, Loose, AnswerHolds
<1>11. LetThrough(q, c) BY <1>2, <1>7 DEF Shared, Loose, LetThrough
<1>12. TracksHeld(q, c) BY <1>2 DEF Shared, Loose, TracksHeld
<1> QED
  BY <1>1, <1>2, <1>5, <1>7, <1>8, <1>9, <1>10, <1>11, <1>12 DEF Shared, Loose

\* An answer is heard.
LEMMA HearShared ==
  ASSUME NEW p, NEW c, Shared(p, c), c.answers # <<>>,
         NEW d, d = [c EXCEPT !.answers = Tail(@)]
  PROVE  /\ Shared(p, d)
         /\ Unasked(p, d, Head(c.answers).mike) /\ IsAsked(p, Head(c.answers).mike)
         /\ ~Stopping(p)
<1>1. p \in Pages /\ c \in Captures /\ c.answers \in Seq(StartAnswers)
  BY DEF Shared, Loose, Captures
<1>2. /\ Tail(c.answers) \in Seq(StartAnswers) /\ Head(c.answers) = c.answers[1]
      /\ 1 \in DOMAIN c.answers
      /\ \A i \in DOMAIN Tail(c.answers) :
           i \in Nat \ {0} /\ i + 1 \in DOMAIN c.answers /\ Tail(c.answers)[i] = c.answers[i + 1]
  BY <1>1, TailFacts
<1>3. /\ d \in Captures /\ d.answers = Tail(c.answers) /\ d.waiting = c.waiting
      /\ d.running = c.running /\ d.session = c.session /\ d.halted = c.halted
  BY <1>1, <1>2 DEF Captures
<1>4. ~Stopping(p) BY DEF Shared, Loose, StopsFirst
<1>5. Underway(p, d) /\ Unasked(p, d, Head(c.answers).mike) /\ IsAsked(p, Head(c.answers).mike)
  BY <1>2, <1>3 DEF Shared, Loose, Underway, Unasked
<1>6. StopsFirst(p, d) BY <1>4 DEF Shared, Loose, StopsFirst
<1>7. AnswerHolds(p, d) BY <1>2, <1>3 DEF Shared, Loose, AnswerHolds
<1>8. LetThrough(p, d) /\ TracksHeld(p, d)
  BY <1>3 DEF Shared, Loose, LetThrough, TracksHeld
<1> QED BY <1>1, <1>3, <1>4, <1>5, <1>6, <1>7, <1>8 DEF Shared, Loose

\* What a start that succeeded comes to.
Readied(p, m, session) ==
    [p EXCEPT !.calls[m].stage = "ready",
              !.session = IF p.platform = "android" THEN session ELSE @,
              !.graph = p.platform = "ios",
              !.tracks = IF p.platform = "web" THEN @ \union {m} ELSE @]

LEMMA ReadiedFields ==
  ASSUME NEW p \in Pages, NEW m \in DOMAIN p.calls, NEW session \in Nat
  PROVE  LET q == Readied(p, m, session) IN
         /\ q \in Pages
         /\ DOMAIN q.calls = DOMAIN p.calls /\ q.calls[m].stage = "ready"
         /\ q.calls[m].by = p.calls[m].by /\ q.calls[m].input = p.calls[m].input
         /\ \A n \in DOMAIN p.calls : n # m => q.calls[n] = p.calls[n]
         /\ q.session = IF p.platform = "android" THEN session ELSE p.session
         /\ q.graph = (p.platform = "ios")
         /\ q.tracks = IF p.platform = "web" THEN p.tracks \cup {m} ELSE p.tracks
         /\ q.opening = p.opening /\ q.posted = p.posted
         /\ q.platform = p.platform /\ q.sources = p.sources
         /\ q.current = p.current
         /\ q.minimum = p.minimum /\ q.up = p.up /\ q.life = p.life
         /\ q.generation = p.generation /\ q.active = p.active
         /\ q.denied = p.denied /\ q.inputs = p.inputs /\ q.takes = p.takes
         /\ q.checking = p.checking
<1> DEFINE call == [p.calls[m] EXCEPT !.stage = "ready"]
           calls == [p.calls EXCEPT ![m] = call]
           number == IF p.platform = "android" THEN session ELSE p.session
           graph == p.platform = "ios"
           tracks == IF p.platform = "web" THEN p.tracks \cup {m} ELSE p.tracks
           q == [p EXCEPT !.calls = calls, !.session = number, !.graph = graph,
                          !.tracks = tracks]
<1>1. p.calls \in Seq(MikeCalls) /\ p.calls[m] \in MikeCalls /\ m \in Nat BY DEF Pages
<1>2. /\ call \in MikeCalls /\ call.stage = "ready"
      /\ call.by = p.calls[m].by /\ call.input = p.calls[m].input
  BY <1>1 DEF MikeCalls, CallStages
<1> HIDE DEF call
<1>3. /\ calls \in Seq(MikeCalls) /\ DOMAIN calls = DOMAIN p.calls /\ calls[m] = call
      /\ \A n \in DOMAIN p.calls : n # m => calls[n] = p.calls[n]
  BY <1>1, <1>2
<1>4. number \in Nat /\ graph \in BOOLEAN /\ tracks \in SUBSET Nat BY <1>1 DEF Pages
<1>5. Readied(p, m, session) = q BY DEF Readied, Pages, call
<1>6. /\ q \in Pages /\ q.posted = p.posted /\ q.calls = calls /\ q.session = number
      /\ q.graph = graph /\ q.tracks = tracks
      /\ q.opening = p.opening
      /\ q.platform = p.platform /\ q.sources = p.sources
      /\ q.current = p.current
      /\ q.minimum = p.minimum /\ q.up = p.up /\ q.life = p.life
      /\ q.generation = p.generation /\ q.active = p.active
      /\ q.denied = p.denied /\ q.inputs = p.inputs /\ q.takes = p.takes
      /\ q.checking = p.checking
  <2> HIDE DEF calls, number, graph, tracks
  <2> QED BY <1>3, <1>4 DEF Pages
<1> HIDE DEF q, calls
<1> QED BY <1>2, <1>3, <1>5, <1>6

LEMMA ReadiedShared ==
  ASSUME NEW p, NEW c, Shared(p, c), c.answers # <<>>, Head(c.answers).ok,
         NEW d, d = [c EXCEPT !.answers = Tail(@)]
  PROVE  Shared(Readied(p, Head(c.answers).mike, Head(c.answers).session), d)
<1> DEFINE m == Head(c.answers).mike
           session == Head(c.answers).session
           q == Readied(p, m, session)
<1>1. /\ p \in Pages /\ c \in Captures /\ c.answers \in Seq(StartAnswers)
      /\ Head(c.answers) \in StartAnswers /\ Head(c.answers) = c.answers[1]
      /\ 1 \in DOMAIN c.answers
  BY TailFacts DEF Shared, Loose, Captures
<1>2. Shared(p, d) /\ Unasked(p, d, m) /\ IsAsked(p, m) /\ ~Stopping(p)
  BY HearShared
<1>3. session \in Nat /\ m \in DOMAIN p.calls /\ p.calls[m].stage = "asked"
  BY <1>1, <1>2 DEF StartAnswers, IsAsked
<1>5. d.halted = c.halted /\ d.running = c.running /\ d.session = c.session
  BY <1>1 DEF Captures
<1>6. p.platform # "web" /\ ~d.halted =>
        d.running /\ (p.platform = "android" => session = d.session)
  BY <1>1, <1>5 DEF Shared, Loose, AnswerHolds
<1> SUFFICES Shared(q, d) OBVIOUS
<1> HIDE DEF m, session
<1>4. /\ q \in Pages
      /\ DOMAIN q.calls = DOMAIN p.calls /\ q.calls[m].stage = "ready"
      /\ \A n \in DOMAIN p.calls : n # m => q.calls[n] = p.calls[n]
      /\ q.session = IF p.platform = "android" THEN session ELSE p.session
      /\ q.graph = (p.platform = "ios")
      /\ q.tracks = IF p.platform = "web" THEN p.tracks \cup {m} ELSE p.tracks
      /\ q.opening = p.opening /\ q.posted = p.posted
      /\ q.platform = p.platform /\ q.sources = p.sources
      /\ q.current = p.current /\ q.minimum = p.minimum
  <2>1. p \in Pages /\ m \in DOMAIN p.calls /\ session \in Nat BY <1>1, <1>3
  <2>2. q \in Pages BY <2>1, ReadiedFields, Zenon
  <2>3. /\ DOMAIN q.calls = DOMAIN p.calls /\ q.calls[m].stage = "ready"
        /\ \A n \in DOMAIN p.calls : n # m => q.calls[n] = p.calls[n]
     BY <2>1, ReadiedFields, ZenonT(60)
  <2>4. q.session = IF p.platform = "android" THEN session ELSE p.session
    BY <2>1, ReadiedFields, Zenon
  <2>5. q.graph = (p.platform = "ios") BY <2>1, ReadiedFields, Zenon
  <2>6. q.tracks = IF p.platform = "web" THEN p.tracks \cup {m} ELSE p.tracks
    BY <2>1, ReadiedFields, Zenon
  <2>7. /\ q.opening = p.opening /\ q.posted = p.posted
        /\ q.platform = p.platform /\ q.sources = p.sources
        /\ q.current = p.current /\ q.minimum = p.minimum
    <3>1. q.platform = p.platform /\ q.opening = p.opening BY <2>1, ReadiedFields, ZenonT(60)
    <3>2. q.posted = p.posted BY <2>1, ReadiedFields, Zenon
    <3>3. q.sources = p.sources BY <2>1, ReadiedFields, Zenon
    <3>4. q.current = p.current BY <2>1, ReadiedFields, Zenon
    <3>5. q.minimum = p.minimum BY <2>1, ReadiedFields, Zenon
    <3> QED BY <3>1, <3>2, <3>3, <3>4, <3>5
  <2> QED BY <2>2, <2>3, <2>4, <2>5, <2>6, <2>7
<1> HIDE DEF q
<1>7. Placed(q) BY <1>2, <1>3, <1>4 DEF Shared, Loose, Placed
<1>8. \A n : n # m /\ IsAsked(p, n) => IsAsked(q, n)
  BY <1>4 DEF IsAsked
<1>9. Underway(q, d) BY <1>2, <1>4, <1>8 DEF Shared, Loose, Underway, Unasked
<1>10. ~Stopping(q) BY <1>2, <1>4 DEF Stopping
<1>11. StopsFirst(q, d) BY <1>2, <1>4, <1>10 DEF Shared, Loose, StopsFirst
<1>12. AnswerHolds(q, d) BY <1>2, <1>4, <1>6 DEF Shared, Loose, AnswerHolds
<1>13. LetThrough(q, d) BY <1>2, <1>4, <1>10 DEF Shared, Loose, LetThrough
<1>14. TracksHeld(q, d)
  <2>1. m \in p.opening BY <1>2, <1>3 DEF Shared, Loose, Placed
  <2> QED BY <1>2, <1>3, <1>4, <2>1 DEF Shared, Loose, TracksHeld
<1> QED
  BY <1>2, <1>4, <1>7, <1>9, <1>10, <1>11, <1>12, <1>13, <1>14 DEF Shared, Loose

-----------------------------------------------------------------------------

\* A start is answered: only in a browser without a capture that runs.
LEMMA AnswerShared ==
  ASSUME NEW p, NEW c, Shared(p, c), NEW m, IsAsked(p, m), Unasked(p, c, m),
         ~Stopping(p), NEW ok \in BOOLEAN, NEW denied \in BOOLEAN,
         ok => p.platform = "web",
         NEW d, d = [c EXCEPT !.answers = Append(@, StartAnswer(m, ok, denied, 0))]
  PROVE  Shared(p, d)
<1> DEFINE answer == StartAnswer(m, ok, denied, 0)
<1>1. p \in Pages /\ c \in Captures /\ c.answers \in Seq(StartAnswers) /\ m \in Nat
  <2>1. p \in Pages /\ c \in Captures BY DEF Shared, Loose
  <2>2. c.answers \in Seq(StartAnswers) /\ p.calls \in Seq(MikeCalls)
    BY <2>1 DEF Captures, Pages
  <2> QED BY <2>1, <2>2 DEF IsAsked
<1>2. answer \in StartAnswers /\ answer.mike = m /\ answer.ok = ok
  BY <1>1 DEF StartAnswer, StartAnswers
<1> HIDE DEF answer
<1>3. /\ Append(c.answers, answer) \in Seq(StartAnswers) /\ Len(c.answers) \in Nat
      /\ DOMAIN c.answers = 1..Len(c.answers)
      /\ DOMAIN Append(c.answers, answer) = 1..(Len(c.answers) + 1)
      /\ \A i \in DOMAIN c.answers : Append(c.answers, answer)[i] = c.answers[i]
      /\ Append(c.answers, answer)[Len(c.answers) + 1] = answer
  BY <1>1, <1>2, AppendFacts
<1>4. /\ d \in Captures /\ d.answers = Append(c.answers, answer)
      /\ d.waiting = c.waiting /\ d.running = c.running
      /\ d.session = c.session /\ d.halted = c.halted
  BY <1>1, <1>3 DEF Captures, answer
<1>5. Underway(p, d) BY <1>2, <1>3, <1>4 DEF Shared, Loose, Underway, Unasked
<1>6. StopsFirst(p, d) BY DEF Shared, Loose, StopsFirst
<1>7. AnswerHolds(p, d) BY <1>2, <1>3, <1>4 DEF Shared, Loose, AnswerHolds
<1>8. LetThrough(p, d) /\ TracksHeld(p, d)
  BY <1>4 DEF Shared, Loose, LetThrough, TracksHeld
<1> QED BY <1>1, <1>4, <1>5, <1>6, <1>7, <1>8 DEF Shared, Loose

LEMMA RefuseShared ==
  ASSUME NEW p, NEW c, Shared(p, c), NEW m, IsAsked(p, m), Unasked(p, c, m),
         ~Stopping(p), NEW denied \in BOOLEAN
  PROVE  Shared(p, Refuse(c, m, denied))
BY AnswerShared DEF Refuse

\* A start runs the capture or shares the one that runs.
LEMMA BeginShared ==
  ASSUME NEW p, NEW c, Shared(p, c), NEW m, IsAsked(p, m), Unasked(p, c, m),
         ~Stopping(p), p.platform # "web"
  PROVE  Shared(p, BeginCapture(c, m))
<1> DEFINE d == BeginCapture(c, m)
           session == IF c.running THEN c.session ELSE c.session + 1
           answer == StartAnswer(m, TRUE, FALSE, session)
<1>1. /\ p \in Pages /\ c \in Captures /\ c.answers \in Seq(StartAnswers) /\ m \in Nat
      /\ c.session \in Nat /\ p.minimum \in Nat /\ p.current \in Nat
  <2>1. p \in Pages /\ c \in Captures BY DEF Shared, Loose
  <2>2. /\ c.answers \in Seq(StartAnswers) /\ p.calls \in Seq(MikeCalls)
        /\ c.session \in Nat /\ p.minimum \in Nat /\ p.current \in Nat
    BY <2>1 DEF Captures, Pages
  <2> QED BY <2>1, <2>2 DEF IsAsked
<1>2. /\ answer \in StartAnswers /\ answer.mike = m /\ answer.session = session
      /\ session \in Nat
  BY <1>1 DEF StartAnswer, StartAnswers
<1> HIDE DEF answer
<1>3. /\ Append(c.answers, answer) \in Seq(StartAnswers) /\ Len(c.answers) \in Nat
      /\ DOMAIN c.answers = 1..Len(c.answers)
      /\ DOMAIN Append(c.answers, answer) = 1..(Len(c.answers) + 1)
      /\ \A i \in DOMAIN c.answers : Append(c.answers, answer)[i] = c.answers[i]
      /\ Append(c.answers, answer)[Len(c.answers) + 1] = answer
  BY <1>1, <1>2, AppendFacts
<1>4. /\ d \in Captures /\ d.answers = Append(c.answers, answer)
      /\ d.waiting = c.waiting /\ d.running = TRUE
      /\ d.session = session /\ d.halted = c.halted
  BY <1>1, <1>2, <1>3 DEF Captures, BeginCapture, answer
<1> SUFFICES Shared(p, d) OBVIOUS
<1> HIDE DEF d
<1>5. Underway(p, d) BY <1>2, <1>3, <1>4 DEF Shared, Loose, Underway, Unasked
<1>6. StopsFirst(p, d) BY DEF Shared, Loose, StopsFirst
<1>7. AnswerHolds(p, d) BY <1>2, <1>3, <1>4 DEF Shared, Loose, AnswerHolds
<1>8. LetThrough(p, d) BY <1>1, <1>4 DEF Shared, Loose, LetThrough
<1>9. TracksHeld(p, d) BY DEF Shared, Loose, TracksHeld
<1>10. p.opening # {} BY DEF Shared, Loose, Placed, IsAsked
<1> QED BY <1>1, <1>4, <1>5, <1>6, <1>7, <1>8, <1>9, <1>10 DEF Shared, Loose

\* A start that fails leaves no capture.
LEMMA FailShared ==
  ASSUME NEW p, NEW c, Shared(p, c), NEW m, IsAsked(p, m), Unasked(p, c, m),
         ~Stopping(p)
  PROVE  Shared(p, BeginFails(c, m))
<1> DEFINE d == BeginFails(c, m)
           session == IF c.running THEN c.session ELSE c.session + 1
           halted == c.halted \/ c.running
           answer == StartAnswer(m, FALSE, FALSE, 0)
<1>1. /\ p \in Pages /\ c \in Captures /\ c.answers \in Seq(StartAnswers) /\ m \in Nat
      /\ c.session \in Nat /\ p.minimum \in Nat /\ p.current \in Nat
  <2>1. p \in Pages /\ c \in Captures BY DEF Shared, Loose
  <2>2. /\ c.answers \in Seq(StartAnswers) /\ p.calls \in Seq(MikeCalls)
        /\ c.session \in Nat /\ p.minimum \in Nat /\ p.current \in Nat
    BY <2>1 DEF Captures, Pages
  <2> QED BY <2>1, <2>2 DEF IsAsked
<1>2. answer \in StartAnswers /\ answer.mike = m /\ ~answer.ok /\ session \in Nat
  BY <1>1 DEF StartAnswer, StartAnswers
<1> HIDE DEF answer
<1>3. /\ Append(c.answers, answer) \in Seq(StartAnswers) /\ Len(c.answers) \in Nat
      /\ DOMAIN c.answers = 1..Len(c.answers)
      /\ DOMAIN Append(c.answers, answer) = 1..(Len(c.answers) + 1)
      /\ \A i \in DOMAIN c.answers : Append(c.answers, answer)[i] = c.answers[i]
      /\ Append(c.answers, answer)[Len(c.answers) + 1] = answer
  BY <1>1, <1>2, AppendFacts
<1>4. /\ d \in Captures /\ d.answers = Append(c.answers, answer)
      /\ d.waiting = c.waiting /\ ~d.running
      /\ d.session = session /\ d.halted = halted
  <2>1. halted \in BOOLEAN /\ c.faults + 1 \in Nat BY <1>1 DEF Captures
  <2>2. d = [c EXCEPT !.running = FALSE, !.session = session, !.faults = c.faults + 1,
                      !.halted = halted, !.answers = Append(c.answers, answer)]
    BY <1>1 DEF Captures, BeginFails, answer
  <2> HIDE DEF halted, d, session
  <2> QED BY <1>1, <1>2, <1>3, <2>1, <2>2 DEF Captures
<1>4a. ~d.halted => ~c.halted /\ ~c.running BY <1>4
<1> SUFFICES Shared(p, d) OBVIOUS
<1> HIDE DEF d, halted
<1>5. Underway(p, d) BY <1>2, <1>3, <1>4 DEF Shared, Loose, Underway, Unasked
<1>6. StopsFirst(p, d) BY DEF Shared, Loose, StopsFirst
<1>7. AnswerHolds(p, d) BY <1>2, <1>3, <1>4, <1>4a DEF Shared, Loose, AnswerHolds
<1>8. LetThrough(p, d) BY <1>1, <1>4 DEF Shared, Loose, LetThrough
<1>9. TracksHeld(p, d) BY <1>4 DEF Shared, Loose, TracksHeld
<1> QED BY <1>1, <1>4, <1>5, <1>6, <1>7, <1>8, <1>9 DEF Shared, Loose

LEMMA BeginsShared ==
  ASSUME NEW p, NEW c, Shared(p, c), NEW m, IsAsked(p, m), Unasked(p, c, m),
         ~Stopping(p), p.platform # "web", NEW d \in Begins(c, m)
  PROVE  Shared(p, d)
<1>1. d = BeginCapture(c, m) \/ d = BeginFails(c, m) BY DEF Begins
<1> QED BY <1>1, BeginShared, FailShared

\* A message is taken from the port; a start is then nowhere any more.
LEMMA TakenShared ==
  ASSUME NEW p, NEW c, Shared(p, c), p.posted # <<>>,
         Head(p.posted).type = "start",
         NEW q, q = [p EXCEPT !.posted = Tail(@)]
  PROVE  /\ Shared(q, c) /\ ~Stopping(q)
         /\ IsAsked(q, Head(p.posted).mike) /\ Unasked(q, c, Head(p.posted).mike)
<1>1. p \in Pages /\ c \in Captures /\ p.posted \in Seq(Messages)
  BY DEF Shared, Loose, Pages
<1>2. /\ Tail(p.posted) \in Seq(Messages) /\ Head(p.posted) = p.posted[1]
      /\ 1 \in DOMAIN p.posted
      /\ \A i \in DOMAIN Tail(p.posted) :
           i \in Nat \ {0} /\ i + 1 \in DOMAIN p.posted /\ Tail(p.posted)[i] = p.posted[i + 1]
  BY <1>1, TailFacts
<1>3. /\ q \in Pages /\ q.posted = Tail(p.posted) /\ q.calls = p.calls
      /\ q.opening = p.opening /\ q.tracks = p.tracks
      /\ q.platform = p.platform /\ q.sources = p.sources
      /\ q.session = p.session /\ q.graph = p.graph /\ q.current = p.current
      /\ q.minimum = p.minimum
  BY <1>1, <1>2 DEF Pages
<1>4. /\ \A n : IsAsked(q, n) <=> IsAsked(p, n)
      /\ IsReady(q) <=> IsReady(p)
  BY <1>3 DEF IsAsked, IsReady
<1>5. \A i \in DOMAIN p.posted : p.posted[i].type = "start"
  <2>1. \A i \in DOMAIN p.posted : i = 1 \/ 1 < i BY <1>1
  <2> QED BY <1>2, <2>1 DEF Shared, Loose, StopsFirst
<1>6. ~Stopping(q) /\ ~Stopping(p) BY <1>2, <1>3, <1>5 DEF Stopping
<1>7. Underway(q, c) /\ IsAsked(q, Head(p.posted).mike) /\ Unasked(q, c, Head(p.posted).mike)
  <2>1. \A i \in DOMAIN q.posted : i \in Nat \ {0} /\ i + 1 \in DOMAIN p.posted
                                     /\ q.posted[i] = p.posted[i + 1]
    BY <1>2, <1>3
  <2>2. \A i, j \in DOMAIN q.posted : q.posted[i].mike = q.posted[j].mike => i = j
    <3> SUFFICES ASSUME NEW i \in DOMAIN q.posted, NEW j \in DOMAIN q.posted,
                        q.posted[i].mike = q.posted[j].mike
                 PROVE  i = j
      OBVIOUS
    <3>1. i + 1 = j + 1 BY <1>5, <2>1 DEF Shared, Loose, Underway
    <3> QED BY <2>1, <3>1
  <2>3. \A i \in DOMAIN q.posted : q.posted[i].mike # p.posted[1].mike
    <3> SUFFICES ASSUME NEW i \in DOMAIN q.posted, q.posted[i].mike = p.posted[1].mike
                 PROVE  FALSE
      OBVIOUS
    <3>1. i + 1 = 1 BY <1>2, <1>5, <2>1 DEF Shared, Loose, Underway
    <3> QED BY <2>1, <3>1
  <2>4. \A i \in DOMAIN q.posted : \E j \in DOMAIN p.posted : q.posted[i] = p.posted[j]
    BY <2>1
  <2>5. Underway(p, c) BY DEF Shared, Loose
  <2>6. /\ \A i \in DOMAIN q.posted : IsAsked(q, q.posted[i].mike)
        /\ \A i \in DOMAIN c.waiting : IsAsked(q, c.waiting[i].mike)
        /\ \A i \in DOMAIN c.answers : IsAsked(q, c.answers[i].mike)
        /\ IsAsked(q, p.posted[1].mike)
    <3>1. \A i \in DOMAIN p.posted : IsAsked(q, p.posted[i].mike)
      BY <1>4, <1>5, <2>5 DEF Underway
    <3>2. \A i \in DOMAIN q.posted : IsAsked(q, q.posted[i].mike) BY <2>4, <3>1
    <3>3. /\ \A i \in DOMAIN c.waiting : IsAsked(q, c.waiting[i].mike)
          /\ \A i \in DOMAIN c.answers : IsAsked(q, c.answers[i].mike)
      BY <1>4, <2>5 DEF Underway
    <3> QED BY <1>2, <3>1, <3>2, <3>3
  <2>7. /\ \A i \in DOMAIN q.posted : \A j \in DOMAIN c.waiting : q.posted[i].mike # c.waiting[j].mike
        /\ \A i \in DOMAIN q.posted : \A j \in DOMAIN c.answers : q.posted[i].mike # c.answers[j].mike
    BY <1>5, <2>4, <2>5 DEF Underway
  <2>8. Underway(q, c) BY <2>2, <2>5, <2>6, <2>7 DEF Underway
  <2>9. Unasked(q, c, p.posted[1].mike) BY <1>2, <1>5, <2>3, <2>5 DEF Underway, Unasked
  <2> QED BY <1>2, <2>6, <2>8, <2>9
<1>8. Placed(q) BY <1>3 DEF Shared, Loose, Placed
<1>9. StopsFirst(q, c)
  BY <1>2, <1>3, <1>5, <1>6 DEF Shared, Loose, StopsFirst
<1>10. AnswerHolds(q, c) BY <1>3, <1>4 DEF Shared, Loose, AnswerHolds
<1>11. LetThrough(q, c) BY <1>3, <1>6 DEF Shared, Loose, LetThrough
<1>12. TracksHeld(q, c) BY <1>3 DEF Shared, Loose, TracksHeld
<1> QED
  BY <1>1, <1>3, <1>6, <1>7, <1>8, <1>9, <1>10, <1>11, <1>12 DEF Shared, Loose

LEMMA StoppedShared ==
  ASSUME NEW p, NEW c, Shared(p, c), p.posted # <<>>,
         Head(p.posted).type = "stop",
         NEW q, q = [p EXCEPT !.posted = Tail(@)],
         NEW d, d = [c EXCEPT !.running = FALSE, !.generation = @ + 1]
  PROVE  Shared(q, d)
<1>1. p \in Pages /\ c \in Captures /\ p.posted \in Seq(Messages)
  BY DEF Shared, Loose, Pages
<1>2. /\ Tail(p.posted) \in Seq(Messages) /\ Head(p.posted) = p.posted[1]
      /\ 1 \in DOMAIN p.posted
      /\ \A i \in DOMAIN Tail(p.posted) :
           i \in Nat \ {0} /\ i + 1 \in DOMAIN p.posted /\ Tail(p.posted)[i] = p.posted[i + 1]
  BY <1>1, TailFacts
<1>3. /\ q \in Pages /\ q.posted = Tail(p.posted) /\ q.calls = p.calls
      /\ q.opening = p.opening /\ q.tracks = p.tracks
      /\ q.platform = p.platform /\ q.sources = p.sources
      /\ q.session = p.session /\ q.graph = p.graph /\ q.current = p.current
      /\ q.minimum = p.minimum
  BY <1>1, <1>2 DEF Pages
<1>4. /\ d \in Captures /\ ~d.running /\ d.session = c.session /\ d.halted = c.halted
      /\ d.waiting = c.waiting /\ d.answers = c.answers
  <2>1. c.generation + 1 \in Nat BY <1>1 DEF Captures
  <2> QED BY <1>1, <2>1 DEF Captures
<1>5. /\ \A n : IsAsked(q, n) <=> IsAsked(p, n)
      /\ IsReady(q) <=> IsReady(p)
  BY <1>3 DEF IsAsked, IsReady
<1>6. Stopping(p) BY <1>2 DEF Stopping
<1>7. d.waiting = <<>> /\ d.answers = <<>> /\ q.sources = {} /\ ~IsReady(q)
  BY <1>3, <1>4, <1>5, <1>6 DEF Shared, Loose, StopsFirst
<1>8. Underway(q, d)
  <2>1. \A i \in DOMAIN q.posted : i \in Nat \ {0} /\ i + 1 \in DOMAIN p.posted
                                     /\ q.posted[i] = p.posted[i + 1]
    BY <1>2, <1>3
  <2>2. \A i, j \in DOMAIN q.posted :
           /\ q.posted[i].type = "start" /\ q.posted[j].type = "start"
           /\ q.posted[i].mike = q.posted[j].mike
           => i = j
    <3> SUFFICES ASSUME NEW i \in DOMAIN q.posted, NEW j \in DOMAIN q.posted,
                        q.posted[i].type = "start", q.posted[j].type = "start",
                        q.posted[i].mike = q.posted[j].mike
                 PROVE  i = j
      OBVIOUS
    <3>1. i + 1 = j + 1 BY <2>1 DEF Shared, Loose, Underway
    <3> QED BY <2>1, <3>1
  <2>3. \A i \in DOMAIN q.posted : q.posted[i].type = "start" => IsAsked(q, q.posted[i].mike)
    <3>1. \A i \in DOMAIN p.posted : p.posted[i].type = "start" => IsAsked(q, p.posted[i].mike)
      BY <1>5 DEF Shared, Loose, Underway
    <3> QED BY <2>1, <3>1
  <2>4. DOMAIN d.waiting = {} /\ DOMAIN d.answers = {} BY <1>7
  <2> QED BY <2>2, <2>3, <2>4 DEF Underway
<1>9. Placed(q) BY <1>3 DEF Shared, Loose, Placed
<1>10. StopsFirst(q, d)
  <2>1. \A i, j \in DOMAIN q.posted : i < j => i + 1 < j + 1 BY <1>2, <1>3
  <2> QED BY <1>2, <1>3, <1>7, <2>1 DEF Shared, Loose, StopsFirst
<1>11. AnswerHolds(q, d) BY <1>7 DEF AnswerHolds
<1>12. LetThrough(q, d) BY <1>3, <1>4 DEF Shared, Loose, LetThrough
<1>13. TracksHeld(q, d) BY <1>3, <1>4 DEF Shared, Loose, TracksHeld
<1> QED
  BY <1>3, <1>4, <1>8, <1>9, <1>10, <1>11, <1>12, <1>13 DEF Shared, Loose

\* A start waits for what the user decides.
LEMMA WaitingShared ==
  ASSUME NEW p, NEW c, Shared(p, c), NEW m, IsAsked(p, m), Unasked(p, c, m),
         ~Stopping(p),
         NEW d, d = [c EXCEPT !.waiting = Append(@, [mike |-> m, generation |-> c.generation])]
  PROVE  Shared(p, d)
<1> DEFINE start == [mike |-> m, generation |-> c.generation]
<1>1. p \in Pages /\ c \in Captures /\ c.waiting \in Seq(Starts) /\ m \in Nat
  <2>1. p \in Pages /\ c \in Captures BY DEF Shared, Loose
  <2>2. c.waiting \in Seq(Starts) /\ p.calls \in Seq(MikeCalls) BY <2>1 DEF Captures, Pages
  <2> QED BY <2>1, <2>2 DEF IsAsked
<1>2. start \in Starts /\ start.mike = m BY <1>1 DEF Starts, Captures
<1> HIDE DEF start
<1>3. /\ Append(c.waiting, start) \in Seq(Starts) /\ Len(c.waiting) \in Nat
      /\ DOMAIN c.waiting = 1..Len(c.waiting)
      /\ DOMAIN Append(c.waiting, start) = 1..(Len(c.waiting) + 1)
      /\ \A i \in DOMAIN c.waiting : Append(c.waiting, start)[i] = c.waiting[i]
      /\ Append(c.waiting, start)[Len(c.waiting) + 1] = start
  BY <1>1, <1>2, AppendFacts
<1>4. /\ d \in Captures /\ d.waiting = Append(c.waiting, start)
      /\ d.answers = c.answers /\ d.running = c.running
      /\ d.session = c.session /\ d.halted = c.halted
  BY <1>1, <1>3 DEF Captures, start
<1>5. Underway(p, d) BY <1>2, <1>3, <1>4 DEF Shared, Loose, Underway, Unasked
<1>6. StopsFirst(p, d) BY DEF Shared, Loose, StopsFirst
<1>7. AnswerHolds(p, d) BY <1>4 DEF Shared, Loose, AnswerHolds
<1>8. LetThrough(p, d) /\ TracksHeld(p, d)
  BY <1>4 DEF Shared, Loose, LetThrough, TracksHeld
<1> QED BY <1>1, <1>4, <1>5, <1>6, <1>7, <1>8 DEF Shared, Loose

\* A start that waited is taken out to be answered.
LEMMA RemovedShared ==
  ASSUME NEW p, NEW c, Shared(p, c), NEW k \in DOMAIN c.waiting,
         NEW access \in {"unasked", "granted", "denied"},
         NEW d, d = [c EXCEPT !.waiting = RemoveAt(@, k), !.access = access]
  PROVE  /\ Shared(p, d) /\ ~Stopping(p)
         /\ IsAsked(p, c.waiting[k].mike) /\ Unasked(p, d, c.waiting[k].mike)
<1>1. p \in Pages /\ c \in Captures /\ c.waiting \in Seq(Starts)
  BY DEF Shared, Loose, Captures
<1>2. /\ RemoveAt(c.waiting, k) \in Seq(Starts)
      /\ \A i \in DOMAIN RemoveAt(c.waiting, k) :
           LET j == IF i < k THEN i ELSE i + 1 IN
           i \in Nat /\ j \in DOMAIN c.waiting \ {k} /\ RemoveAt(c.waiting, k)[i] = c.waiting[j]
  BY <1>1, RemoveFacts
<1>3. /\ d \in Captures /\ d.waiting = RemoveAt(c.waiting, k)
      /\ d.answers = c.answers /\ d.running = c.running
      /\ d.session = c.session /\ d.halted = c.halted
  BY <1>1, <1>2 DEF Captures
<1>4. ~Stopping(p) BY DEF Shared, Loose, StopsFirst
<1>5. \A i, j \in DOMAIN d.waiting : d.waiting[i].mike = d.waiting[j].mike => i = j
  <2> SUFFICES ASSUME NEW i \in DOMAIN d.waiting, NEW j \in DOMAIN d.waiting,
                      d.waiting[i].mike = d.waiting[j].mike
               PROVE  i = j
    OBVIOUS
  <2> DEFINE a == IF i < k THEN i ELSE i + 1
             b == IF j < k THEN j ELSE j + 1
  <2>1. /\ i \in Nat /\ j \in Nat /\ a \in DOMAIN c.waiting /\ b \in DOMAIN c.waiting
        /\ d.waiting[i] = c.waiting[a] /\ d.waiting[j] = c.waiting[b]
    BY <1>2, <1>3
  <2>2. a = b BY <2>1 DEF Shared, Loose, Underway
  <2>3. k \in Nat BY <1>1
  <2> QED BY <2>1, <2>2, <2>3
<1>6. \A i \in DOMAIN d.waiting : \E j \in DOMAIN c.waiting \ {k} : d.waiting[i] = c.waiting[j]
  BY <1>2, <1>3
<1>7. Underway(p, d) /\ IsAsked(p, c.waiting[k].mike) /\ Unasked(p, d, c.waiting[k].mike)
  BY <1>3, <1>5, <1>6 DEF Shared, Loose, Underway, Unasked
<1>8. StopsFirst(p, d) BY <1>4 DEF Shared, Loose, StopsFirst
<1>9. AnswerHolds(p, d) BY <1>3 DEF Shared, Loose, AnswerHolds
<1>10. LetThrough(p, d) /\ TracksHeld(p, d)
  BY <1>3 DEF Shared, Loose, LetThrough, TracksHeld
<1> QED BY <1>1, <1>3, <1>4, <1>7, <1>8, <1>9, <1>10 DEF Shared, Loose

\* Those who wait are answered: what is known of the answers to them.
LEMMA AnswerAllShared ==
  ASSUME NEW p, NEW c, Shared(p, c), p.platform # "web", c.waiting # <<>>,
         NEW answers, DOMAIN answers = DOMAIN c.waiting, answers \in Seq(StartAnswers),
         \A i \in DOMAIN c.waiting : answers[i].mike = c.waiting[i].mike,
         NEW d \in Captures, d.waiting = <<>>, d.answers = c.answers \o answers,
         d.halted = c.halted,
         c.running => d.running /\ d.session = c.session,
         c.session <= d.session, d.running => d.session >= p.minimum,
         \A i \in DOMAIN answers :
           answers[i].ok => d.running /\ answers[i].session = d.session
  PROVE  Shared(p, d)
<1>1. /\ p \in Pages /\ c \in Captures
      /\ c.answers \in Seq(StartAnswers) /\ c.waiting \in Seq(Starts)
      /\ p.minimum \in Nat /\ p.current \in Nat /\ c.session \in Nat /\ d.session \in Nat
  BY DEF Shared, Loose, Captures, Pages
<1>2. /\ Len(c.answers) \in Nat /\ DOMAIN c.answers = 1..Len(c.answers)
      /\ Len(answers) \in Nat /\ DOMAIN answers = 1..Len(answers)
  BY <1>1
<1>3. /\ DOMAIN d.answers = 1..(Len(c.answers) + Len(answers))
      /\ \A i \in 1..(Len(c.answers) + Len(answers)) :
           d.answers[i] = IF i <= Len(c.answers) THEN c.answers[i]
                          ELSE answers[i - Len(c.answers)]
  BY <1>1, <1>2, ConcatProperties
<1>4. \A i \in DOMAIN d.answers :
        \/ i \in DOMAIN c.answers /\ d.answers[i] = c.answers[i]
        \/ /\ i \notin DOMAIN c.answers
           /\ i - Len(c.answers) \in DOMAIN c.waiting
           /\ d.answers[i] = answers[i - Len(c.answers)]
           /\ d.answers[i].mike = c.waiting[i - Len(c.answers)].mike
  BY <1>2, <1>3
<1>5. ~Stopping(p) BY DEF Shared, Loose, StopsFirst
<1>6. Underway(p, d)
  <2>0. Underway(p, c) BY DEF Shared, Loose
  <2>1. \A i \in DOMAIN d.answers : IsAsked(p, d.answers[i].mike)
    BY <1>4, <2>0 DEF Underway
  <2>2. \A i, j \in DOMAIN d.answers : d.answers[i].mike = d.answers[j].mike => i = j
    <3> SUFFICES ASSUME NEW i \in DOMAIN d.answers, NEW j \in DOMAIN d.answers,
                        d.answers[i].mike = d.answers[j].mike
                 PROVE  i = j
      OBVIOUS
    <3>1. CASE i \in DOMAIN c.answers /\ j \in DOMAIN c.answers
      BY <3>1, <1>4 DEF Shared, Loose, Underway
    <3>2. CASE i \notin DOMAIN c.answers /\ j \notin DOMAIN c.answers
      <4>1. i - Len(c.answers) = j - Len(c.answers)
        BY <3>2, <1>4 DEF Shared, Loose, Underway
      <4> QED BY <4>1, <1>2, <1>3
    <3>3. CASE i \in DOMAIN c.answers /\ j \notin DOMAIN c.answers
      <4>1. c.answers[i].mike = c.waiting[j - Len(c.answers)].mike BY <3>3, <1>4
      <4> QED BY <3>3, <1>4, <2>0, <4>1 DEF Underway
    <3>4. CASE i \notin DOMAIN c.answers /\ j \in DOMAIN c.answers
      <4>1. c.answers[j].mike = c.waiting[i - Len(c.answers)].mike BY <3>4, <1>4
      <4> QED BY <3>4, <1>4, <2>0, <4>1 DEF Underway
    <3> QED BY <3>1, <3>2, <3>3, <3>4
  <2>3. \A i \in DOMAIN p.posted : p.posted[i].type = "start" =>
          \A j \in DOMAIN d.answers : p.posted[i].mike # d.answers[j].mike
    <3>1. \A j \in DOMAIN d.answers :
            \/ \E k \in DOMAIN c.answers : d.answers[j].mike = c.answers[k].mike
            \/ \E k \in DOMAIN c.waiting : d.answers[j].mike = c.waiting[k].mike
      BY <1>4
    <3> QED BY <2>0, <3>1 DEF Underway
  <2> QED BY <2>1, <2>2, <2>3 DEF Shared, Loose, Underway
<1>7. StopsFirst(p, d) BY <1>5 DEF Shared, Loose, StopsFirst
<1>8. AnswerHolds(p, d)
  <2>1. ASSUME ~d.halted, NEW i \in DOMAIN d.answers, d.answers[i].ok
        PROVE  d.running /\ (p.platform = "android" => d.answers[i].session = d.session)
    <3>1. CASE i \in DOMAIN c.answers
      BY <3>1, <2>1, <1>4 DEF Shared, Loose, AnswerHolds
    <3>2. CASE i \notin DOMAIN c.answers
      BY <3>2, <2>1, <1>4
    <3> QED BY <3>1, <3>2
  <2> QED BY <2>1 DEF Shared, Loose, AnswerHolds
<1>9. LetThrough(p, d)
  BY <1>1, <1>5 DEF Shared, Loose, LetThrough
<1>10. TracksHeld(p, d) BY DEF Shared, Loose, TracksHeld
<1>11. p.opening # {}
  <2>1. DOMAIN c.waiting # {} BY <1>1, NoElement
  <2>2. PICK k \in DOMAIN c.waiting : TRUE BY <2>1
  <2>3. IsAsked(p, c.waiting[k].mike) BY <2>2 DEF Shared, Loose, Underway
  <2> QED BY <2>3 DEF Shared, Loose, Placed, IsAsked
<1> QED BY <1>1, <1>6, <1>7, <1>8, <1>9, <1>10, <1>11 DEF Shared, Loose

\* The native side takes in what the page posted.
LEMMA MessageShared ==
  ASSUME Shared(mikes, capture), MessageReceived
  PROVE  Shared(mikes', capture')
<1> DEFINE message == Head(mikes.posted)
           m == message.mike
<1>1. /\ mikes.posted # <<>> /\ capture' \in Received(capture, message)
      /\ mikes' = [mikes EXCEPT !.posted = Tail(@)]
  BY DEF MessageReceived
<1>2. message.type \in {"start", "stop"}
  <2>1. mikes.posted \in Seq(Messages) BY DEF Shared, Loose, Pages
  <2>2. message \in Messages BY <1>1, <2>1, TailFacts
  <2> QED BY <2>2 DEF Messages
<1>3. CASE message.type = "stop"
  <2>1. capture' = [capture EXCEPT !.running = FALSE, !.generation = @ + 1]
    BY <1>1, <1>3 DEF Received
  <2> QED BY <1>1, <1>3, <2>1, StoppedShared
<1>4. CASE message.type = "start"
  <2>1. /\ Shared(mikes', capture) /\ ~Stopping(mikes') /\ IsAsked(mikes', m)
        /\ Unasked(mikes', capture, m)
    BY <1>1, <1>4, TakenShared
  <2>2. mikes'.platform = mikes.platform BY <1>1 DEF Shared, Loose, Pages
  <2>3. CASE mikes.platform = "android" /\ capture.access = "granted"
    <3>1. capture' \in Begins(capture, m) BY <1>1, <1>4, <2>3 DEF Received
    <3> QED BY <2>1, <2>2, <2>3, <3>1, BeginsShared
  <2>4. CASE ~(mikes.platform = "android" /\ capture.access = "granted")
    <3>1. capture' = [capture EXCEPT
             !.waiting = Append(@, [mike |-> m, generation |-> capture.generation])]
      BY <1>1, <1>4, <2>4 DEF Received
    <3> QED BY <2>1, <3>1, WaitingShared
  <2> QED BY <2>3, <2>4
<1> QED BY <1>2, <1>3, <1>4

\* What the user decides is not part of what is shared.
LEMMA AccessShared ==
  ASSUME NEW p, NEW c, Shared(p, c), NEW access \in {"unasked", "granted", "denied"},
         NEW d, d = [c EXCEPT !.access = access]
  PROVE  Shared(p, d)
<1>1. c \in Captures BY DEF Shared, Loose
<1>2. /\ d \in Captures /\ d.waiting = c.waiting /\ d.answers = c.answers
      /\ d.running = c.running /\ d.session = c.session /\ d.halted = c.halted
  BY <1>1 DEF Captures
<1> QED
  BY <1>2 DEF Shared, Loose, Underway, StopsFirst, AnswerHolds, LetThrough, TracksHeld

LEMMA BeginAllShared ==
  ASSUME NEW p, NEW c, Shared(p, c), p.platform # "web", c.waiting # <<>>,
         NEW failing \in 0..Len(c.waiting), c.running => failing = 0
  PROVE  Shared(p, BeginAll(c, failing))
<1> DEFINE starts == failing < Len(c.waiting)
           session == IF c.running THEN c.session
                      ELSE c.session + failing + (IF starts THEN 1 ELSE 0)
           answer(k) == IF k <= failing THEN StartAnswer(c.waiting[k].mike, FALSE, FALSE, 0)
                        ELSE StartAnswer(c.waiting[k].mike, TRUE, FALSE, session)
           answers == [k \in DOMAIN c.waiting |-> answer(k)]
           running == c.running \/ starts
           d == BeginAll(c, failing)
<1>1. /\ p \in Pages /\ c \in Captures /\ c.waiting \in Seq(Starts)
      /\ c.answers \in Seq(StartAnswers) /\ c.session \in Nat /\ c.faults \in Nat
      /\ p.minimum \in Nat
  BY DEF Shared, Loose, Captures, Pages
<1>2. /\ Len(c.waiting) \in Nat /\ Len(c.waiting) # 0 /\ DOMAIN c.waiting = 1..Len(c.waiting)
      /\ failing \in Nat /\ failing <= Len(c.waiting)
  BY <1>1, EmptySeq
<1>3. session \in Nat /\ c.session <= session BY <1>1, <1>2
<1>4. ~Stopping(p) BY <1>2 DEF Shared, Loose, StopsFirst
<1>5. c.running => session = c.session /\ p.minimum <= c.session
  BY <1>4 DEF Shared, Loose, LetThrough
<1>6. ~c.running /\ starts => p.minimum <= session
  <2>1. p.minimum <= c.session + 1 BY DEF Shared, Loose, LetThrough
  <2> QED BY <1>1, <1>2, <2>1
<1>7. running \in BOOLEAN /\ (running => p.minimum <= session) /\ (c.running => running)
  BY <1>1, <1>5, <1>6 DEF Captures
<1>8. \A k \in DOMAIN c.waiting : answer(k) \in StartAnswers
  <2>1. \A k \in DOMAIN c.waiting : c.waiting[k].mike \in Nat
    <3>1. \A k \in DOMAIN c.waiting : c.waiting[k] \in Starts BY <1>1
    <3> QED BY <3>1 DEF Starts
  <2> HIDE DEF session
  <2> QED BY <1>3, <2>1 DEF StartAnswer, StartAnswers
<1>9. \A k \in DOMAIN c.waiting :
        /\ answer(k).mike = c.waiting[k].mike
        /\ answer(k).ok => running /\ answer(k).session = session
  <2>1. \A k \in DOMAIN c.waiting : ~(k <= failing) => starts BY <1>2
  <2> HIDE DEF session, starts
  <2> QED BY <2>1 DEF StartAnswer
<1> HIDE DEF answer
<1>10. /\ DOMAIN answers = DOMAIN c.waiting /\ answers \in Seq(StartAnswers)
       /\ \A k \in DOMAIN c.waiting : answers[k] = answer(k)
  <2>1. \A k \in 1..Len(c.waiting) : answer(k) \in StartAnswers BY <1>2, <1>8
  <2>2. [k \in 1..Len(c.waiting) |-> answer(k)] \in Seq(StartAnswers) BY <1>2, <2>1
  <2> QED BY <1>2, <2>2
<1>11. d = [c EXCEPT !.running = running, !.session = session,
                     !.faults = c.faults + failing,
                     !.answers = c.answers \o answers, !.waiting = <<>>]
  BY <1>1 DEF BeginAll, answer, Captures
<1> HIDE DEF answers, running, session, starts, d
<1>12. c.answers \o answers \in Seq(StartAnswers) /\ <<>> \in Seq(Starts)
       /\ c.faults + failing \in Nat
  BY <1>1, <1>2, <1>10, ConcatProperties
<1>13. /\ d \in Captures /\ d.waiting = <<>> /\ d.answers = c.answers \o answers
       /\ d.halted = c.halted /\ d.running = running /\ d.session = session
  BY <1>1, <1>3, <1>7, <1>11, <1>12 DEF Captures
<1>14. /\ c.running => d.running /\ d.session = c.session
       /\ c.session <= d.session /\ (d.running => d.session >= p.minimum)
  BY <1>1, <1>3, <1>5, <1>7, <1>13
<1>15. \A i \in DOMAIN answers :
         answers[i].ok => d.running /\ answers[i].session = d.session
  BY <1>9, <1>10, <1>13
<1>16. \A i \in DOMAIN c.waiting : answers[i].mike = c.waiting[i].mike
  BY <1>9, <1>10
<1>17. Shared(p, d) BY <1>10, <1>13, <1>14, <1>15, <1>16, AnswerAllShared, ZenonT(60)
<1> QED BY <1>17 DEF d

LEMMA RefuseAllShared ==
  ASSUME NEW p, NEW c, Shared(p, c), p.platform # "web", c.waiting # <<>>
  PROVE  Shared(p, RefuseAll(c))
<1> DEFINE answer(k) == StartAnswer(c.waiting[k].mike, FALSE, TRUE, 0)
           answers == [k \in DOMAIN c.waiting |-> answer(k)]
           d == RefuseAll(c)
<1>1. /\ p \in Pages /\ c \in Captures /\ c.waiting \in Seq(Starts)
      /\ c.answers \in Seq(StartAnswers) /\ c.session \in Nat
      /\ p.minimum \in Nat
  BY DEF Shared, Loose, Captures, Pages
<1>2. Len(c.waiting) \in Nat /\ Len(c.waiting) # 0 /\ DOMAIN c.waiting = 1..Len(c.waiting)
  BY <1>1, EmptySeq
<1>3. c.running => p.minimum <= c.session
  BY <1>2 DEF Shared, Loose, StopsFirst, LetThrough
<1>4. \A k \in DOMAIN c.waiting :
        answer(k) \in StartAnswers /\ ~answer(k).ok /\ answer(k).mike = c.waiting[k].mike
  <2>1. \A k \in DOMAIN c.waiting : c.waiting[k].mike \in Nat
    <3>1. \A k \in DOMAIN c.waiting : c.waiting[k] \in Starts BY <1>1
    <3> QED BY <3>1 DEF Starts
  <2> QED BY <2>1 DEF StartAnswer, StartAnswers
<1> HIDE DEF answer
<1>5. /\ DOMAIN answers = DOMAIN c.waiting /\ answers \in Seq(StartAnswers)
      /\ \A k \in DOMAIN c.waiting : answers[k] = answer(k)
  <2>1. \A k \in 1..Len(c.waiting) : answer(k) \in StartAnswers BY <1>2, <1>4
  <2>2. [k \in 1..Len(c.waiting) |-> answer(k)] \in Seq(StartAnswers) BY <1>2, <2>1
  <2> QED BY <1>2, <2>2
<1>6. d = [c EXCEPT !.answers = c.answers \o answers, !.waiting = <<>>]
  BY <1>1 DEF RefuseAll, answer, Captures
<1> HIDE DEF answers, d
<1>7. c.answers \o answers \in Seq(StartAnswers) /\ <<>> \in Seq(Starts)
  BY <1>1, <1>5, ConcatProperties
<1>8. /\ d \in Captures /\ d.waiting = <<>> /\ d.answers = c.answers \o answers
      /\ d.halted = c.halted /\ d.running = c.running /\ d.session = c.session
  BY <1>1, <1>6, <1>7 DEF Captures
<1>9. /\ c.session <= d.session /\ (d.running => d.session >= p.minimum)
      /\ (c.running => d.running /\ d.session = c.session)
  BY <1>1, <1>3, <1>8
<1>10. \A i \in DOMAIN answers :
         answers[i].ok => d.running /\ answers[i].session = d.session
  BY <1>4, <1>5
<1>11. \A i \in DOMAIN c.waiting : answers[i].mike = c.waiting[i].mike
  BY <1>4, <1>5
<1>12. Shared(p, d) BY <1>5, <1>8, <1>9, <1>10, <1>11, AnswerAllShared
<1> QED BY <1>12 DEF d

\* What the user decides is answered.
LEMMA AllowsShared ==
  ASSUME Shared(mikes, capture), NEW granted \in BOOLEAN,
         AndroidAllows(granted) \/ IosAllows(granted) \/ WebAllows(granted)
  PROVE  mikes' = mikes /\ Shared(mikes, capture')
<1>0. /\ Decided(granted) \in {"unasked", "granted", "denied"} /\ capture \in Captures
      /\ mikes.platform \in Platforms
  BY DEF Decided, Shared, Loose, Pages
<1>1. CASE AndroidAllows(granted)
  <2> DEFINE n == [capture EXCEPT !.access = Decided(granted)]
  <2>1. Shared(mikes, n) BY <1>0, AccessShared
  <2>2. n.waiting = capture.waiting /\ n.running = capture.running BY <1>0 DEF Captures
  <2>3. mikes' = mikes /\ mikes.platform = "android" /\ n.waiting # <<>>
    BY <1>1, <2>2 DEF AndroidAllows
  <2>4. \/ \E failing \in 0..Len(n.waiting) :
             (n.running => failing = 0) /\ capture' = BeginAll(n, failing)
        \/ capture' = RefuseAll(n)
    BY <1>1 DEF AndroidAllows
  <2> HIDE DEF n
  <2> QED BY <2>1, <2>3, <2>4, BeginAllShared, RefuseAllShared
<1>2. CASE IosAllows(granted)
  <2>1. PICK k \in DOMAIN capture.waiting :
          LET start == capture.waiting[k]
              n == [capture EXCEPT !.waiting = RemoveAt(@, k), !.access = Decided(granted)]
          IN capture' \in IF start.generation # n.generation
                            THEN {Refuse(n, start.mike, FALSE)}
                          ELSE IF granted THEN Begins(n, start.mike)
                          ELSE {Refuse(n, start.mike, TRUE)}
    BY <1>2, ZenonT(60) DEF IosAllows
  <2>2. mikes' = mikes /\ mikes.platform = "ios" BY <1>2, ZenonT(60) DEF IosAllows
  <2> DEFINE m == capture.waiting[k].mike
             n == [capture EXCEPT !.waiting = RemoveAt(@, k), !.access = Decided(granted)]
  <2>3. Shared(mikes, n) /\ ~Stopping(mikes) /\ IsAsked(mikes, m) /\ Unasked(mikes, n, m)
    BY <1>0, RemovedShared
  <2>4. \/ \E denied \in BOOLEAN : capture' = Refuse(n, m, denied)
        \/ capture' \in Begins(n, m)
    BY <2>1
  <2> HIDE DEF n, m
  <2> QED BY <2>2, <2>3, <2>4, RefuseShared, BeginsShared, SMTT(60)
<1>3. CASE WebAllows(granted)
  <2>1. PICK k \in DOMAIN capture.waiting :
          LET start == capture.waiting[k]
              n == [capture EXCEPT !.waiting = RemoveAt(@, k)]
          IN capture' = [n EXCEPT !.answers =
                           Append(@, StartAnswer(start.mike, granted, ~granted, 0))]
    BY <1>3 DEF WebAllows
  <2>2. mikes' = mikes /\ mikes.platform = "web" BY <1>3 DEF WebAllows
  <2> DEFINE m == capture.waiting[k].mike
             n == [capture EXCEPT !.waiting = RemoveAt(@, k)]
  <2>3. n = [capture EXCEPT !.waiting = RemoveAt(@, k), !.access = capture.access]
        /\ capture.access \in {"unasked", "granted", "denied"}
    BY <1>0 DEF Captures
  <2>4. Shared(mikes, n) /\ ~Stopping(mikes) /\ IsAsked(mikes, m) /\ Unasked(mikes, n, m)
    BY <2>3, RemovedShared
  <2>5. capture' = [n EXCEPT !.answers = Append(@, StartAnswer(m, granted, ~granted, 0))]
    BY <2>1
  <2>6. (~granted) \in BOOLEAN BY Zenon
  <2> HIDE DEF n, m
  <2> QED BY <2>2, <2>4, <2>5, <2>6, AnswerShared
<1> QED BY <1>1, <1>2, <1>3

LEMMA SettingsShared ==
  ASSUME Shared(mikes, capture), SettingsAllow
  PROVE  mikes' = mikes /\ Shared(mikes, capture')
BY AccessShared DEF SettingsAllow
-----------------------------------------------------------------------------
(* The preview: which of its inputs is the one that counts, and who asks    *)
(* for it.                                                                  *)

\* The microphone m is being opened for the preview.
Asking(p, m) ==
    /\ m \in DOMAIN p.calls
    /\ p.calls[m].stage # "none" /\ p.calls[m].by \notin {"take", "check"}

\* An input that is not stale is the last, and nothing is heard before it is
\* listed again; one call at most asks for an input.
Preview(p) ==
    /\ \A i \in DOMAIN p.inputs :
         /\ p.inputs[i].life <= p.life
         /\ p.inputs[i].life = p.life => p.inputs[i].generation <= p.generation
    /\ p.up => p.life > 0
    /\ \A i, j \in DOMAIN p.inputs : ~Stale(p, i) /\ ~Stale(p, j) => i = j
    /\ \A i \in DOMAIN p.inputs :
         ~Stale(p, i) /\ p.inputs[i].stage # "relist" => p.active = NoMike
    /\ \A m : Asking(p, m) =>
         /\ p.calls[m].input \in DOMAIN p.inputs
         /\ p.inputs[p.calls[m].input].stage \in {"open", "reopen"}
    /\ \A m, n : Asking(p, m) /\ Asking(p, n) /\ p.calls[m].input = p.calls[n].input => m = n

\* An open microphone has an owner, but for those of M.
Owned(p, M) == p.sources \ M \subseteq p.takes \cup {p.active}

MikeGood(p, c) == Shared(p, c) /\ Preview(p) /\ Owned(p, {})

LEMMA PreviewAlike ==
  ASSUME NEW p, Preview(p), NEW q,
         q.up = p.up, q.life = p.life, q.generation = p.generation,
         q.active = p.active, q.inputs = p.inputs,
         \A m : Asking(q, m) => Asking(p, m) /\ q.calls[m].input = p.calls[m].input
  PROVE  Preview(q)
<1>1. \A i : Stale(q, i) <=> Stale(p, i) BY DEF Stale, Cancelled
<1> QED BY <1>1 DEF Preview

LEMMA PreviewSame ==
  ASSUME NEW p, Preview(p), NEW q, AlikePreview(p, q)
  PROVE  Preview(q)
BY PreviewAlike DEF AlikePreview, Asking

LEMMA OwnedNobody ==
  ASSUME NEW p, Owned(p, {}) PROVE p.sources \subseteq p.takes \cup {p.active}
BY DEF Owned

\* One input is changed.
LEMMA InputFields ==
  ASSUME NEW p \in Pages, NEW i \in DOMAIN p.inputs, NEW e \in MikeInputs,
         NEW q, q = [p EXCEPT !.inputs = [p.inputs EXCEPT ![i] = e]]
  PROVE  /\ q \in Pages /\ AlikeShared(p, q)
         /\ DOMAIN q.inputs = DOMAIN p.inputs /\ q.inputs[i] = e
         /\ \A j \in DOMAIN p.inputs : j # i => q.inputs[j] = p.inputs[j]
         /\ q.up = p.up /\ q.life = p.life /\ q.generation = p.generation
         /\ q.active = p.active /\ q.denied = p.denied /\ q.takes = p.takes
         /\ q.checking = p.checking
<1> DEFINE inputs == [p.inputs EXCEPT ![i] = e]
<1>1. p.inputs \in Seq(MikeInputs) BY DEF Pages
<1>2. /\ inputs \in Seq(MikeInputs) /\ DOMAIN inputs = DOMAIN p.inputs /\ inputs[i] = e
      /\ \A j \in DOMAIN p.inputs : j # i => inputs[j] = p.inputs[j]
  BY <1>1
<1>3. q = [p EXCEPT !.inputs = inputs] OBVIOUS
<1> HIDE DEF inputs
<1>4. q \in Pages /\ q.inputs = inputs BY <1>2, <1>3 DEF Pages
<1>5. /\ AlikeShared(p, q)
      /\ q.up = p.up /\ q.life = p.life /\ q.generation = p.generation
      /\ q.active = p.active /\ q.denied = p.denied /\ q.takes = p.takes
      /\ q.checking = p.checking
  BY <1>3 DEF Pages, AlikeShared
<1> QED BY <1>2, <1>4, <1>5

\* An input nobody asks for ends.
LEMMA EndsPreview ==
  ASSUME NEW p \in Pages, Preview(p), NEW i \in DOMAIN p.inputs,
         \A m : Asking(p, m) => p.calls[m].input # i
  PROVE  LET q == InputEnds(p, i) IN
         /\ q \in Pages /\ AlikeShared(p, q) /\ Preview(q)
         /\ q.active = p.active /\ q.takes = p.takes
         /\ DOMAIN q.inputs = DOMAIN p.inputs /\ Stale(q, i)
         /\ \A j \in DOMAIN p.inputs : j # i => (Stale(q, j) <=> Stale(p, j))
<1> DEFINE q == InputEnds(p, i)
<1>1. /\ NoInput \in MikeInputs /\ NoInput.life = 0 /\ NoInput.generation = 0
      /\ p.life \in Nat /\ p.generation \in Nat
  BY DEF NoInput, MikeInputs, InputStages, NoMike, Pages
<1>2. q = [p EXCEPT !.inputs = [p.inputs EXCEPT ![i] = NoInput]]
  BY DEF InputEnds, Pages
<1>3. /\ q \in Pages /\ AlikeShared(p, q)
      /\ DOMAIN q.inputs = DOMAIN p.inputs /\ q.inputs[i] = NoInput
      /\ \A j \in DOMAIN p.inputs : j # i => q.inputs[j] = p.inputs[j]
      /\ q.up = p.up /\ q.life = p.life /\ q.generation = p.generation
      /\ q.active = p.active /\ q.denied = p.denied /\ q.takes = p.takes
  BY <1>1, <1>2, InputFields
<1> HIDE DEF q
<1>4. q.calls = p.calls BY <1>3 DEF AlikeShared
<1>5. \A m : Asking(q, m) <=> Asking(p, m) BY <1>4 DEF Asking
<1>6. Stale(q, i) BY <1>1, <1>3 DEF Stale, Cancelled, Preview
<1>7. \A j \in DOMAIN p.inputs : j # i => (Stale(q, j) <=> Stale(p, j))
  BY <1>3 DEF Stale, Cancelled
<1>8. Preview(q)
  <2>1. \A j \in DOMAIN q.inputs :
          /\ q.inputs[j].life <= q.life
          /\ q.inputs[j].life = q.life => q.inputs[j].generation <= q.generation
    BY <1>1, <1>3 DEF Preview
  <2>2. /\ q.up => q.life > 0
        /\ \A j, k \in DOMAIN q.inputs : ~Stale(q, j) /\ ~Stale(q, k) => j = k
        /\ \A j \in DOMAIN q.inputs :
             ~Stale(q, j) /\ q.inputs[j].stage # "relist" => q.active = NoMike
    BY <1>3, <1>6, <1>7 DEF Preview
  <2>3. \A m : Asking(q, m) =>
          /\ q.calls[m].input \in DOMAIN q.inputs
          /\ q.inputs[q.calls[m].input].stage \in {"open", "reopen"}
    BY <1>3, <1>4, <1>5 DEF Preview
  <2>4. \A m, n : Asking(q, m) /\ Asking(q, n) /\ q.calls[m].input = q.calls[n].input => m = n
    BY <1>4, <1>5 DEF Preview
  <2> QED BY <2>1, <2>2, <2>3, <2>4 DEF Preview
<1> QED BY <1>3, <1>6, <1>7, <1>8 DEF q

LEMMA EndsGood ==
  ASSUME NEW p, NEW c, MikeGood(p, c), NEW i \in DOMAIN p.inputs,
         \A m : Asking(p, m) => p.calls[m].input # i
  PROVE  MikeGood(InputEnds(p, i), c)
<1> DEFINE q == InputEnds(p, i)
<1>1. p \in Pages BY DEF MikeGood, Shared, Loose
<1>2. /\ q \in Pages /\ AlikeShared(p, q) /\ Preview(q)
      /\ q.active = p.active /\ q.takes = p.takes
  BY <1>1, EndsPreview DEF MikeGood
<1> HIDE DEF q
<1>3. Shared(q, c) BY <1>2, SharedAlike DEF MikeGood
<1>4. Owned(q, {}) BY <1>2 DEF MikeGood, Owned, AlikeShared
<1> QED BY <1>2, <1>3, <1>4 DEF MikeGood, q

\* An input nobody asks for changes, while nothing is heard.
LEMMA InputPreview ==
  ASSUME NEW p \in Pages, Preview(p), NEW i \in DOMAIN p.inputs,
         NEW e \in MikeInputs, e.life = p.inputs[i].life,
         e.generation = p.inputs[i].generation, p.active = NoMike,
         \A m : Asking(p, m) => p.calls[m].input # i,
         NEW q, q = [p EXCEPT !.inputs = [p.inputs EXCEPT ![i] = e]]
  PROVE  /\ q \in Pages /\ AlikeShared(p, q) /\ Preview(q)
         /\ q.active = p.active /\ q.takes = p.takes
         /\ DOMAIN q.inputs = DOMAIN p.inputs /\ q.inputs[i] = e
         /\ \A j \in DOMAIN p.inputs : Stale(q, j) <=> Stale(p, j)
<1>4. /\ q \in Pages /\ AlikeShared(p, q)
      /\ DOMAIN q.inputs = DOMAIN p.inputs /\ q.inputs[i] = e
      /\ \A j \in DOMAIN p.inputs : j # i => q.inputs[j] = p.inputs[j]
      /\ q.up = p.up /\ q.life = p.life /\ q.generation = p.generation
      /\ q.active = p.active /\ q.takes = p.takes
  BY InputFields
<1>5. q.calls = p.calls BY <1>4 DEF AlikeShared
<1>6. \A m : Asking(q, m) <=> Asking(p, m) BY <1>5 DEF Asking
<1>7. \A j \in DOMAIN p.inputs : /\ q.inputs[j].life = p.inputs[j].life
                                 /\ q.inputs[j].generation = p.inputs[j].generation
  BY <1>4
<1>8. \A j \in DOMAIN p.inputs : Stale(q, j) <=> Stale(p, j)
  BY <1>4, <1>7 DEF Stale, Cancelled
<1>9. Preview(q)
  <2>1. \A j \in DOMAIN q.inputs :
          /\ q.inputs[j].life <= q.life
          /\ q.inputs[j].life = q.life => q.inputs[j].generation <= q.generation
    BY <1>4, <1>7 DEF Preview
  <2>2. /\ q.up => q.life > 0
        /\ \A j, k \in DOMAIN q.inputs : ~Stale(q, j) /\ ~Stale(q, k) => j = k
        /\ q.active = NoMike
    BY <1>4, <1>8 DEF Preview
  <2>3. \A m : Asking(q, m) =>
          /\ q.calls[m].input \in DOMAIN q.inputs
          /\ q.inputs[q.calls[m].input].stage \in {"open", "reopen"}
    BY <1>4, <1>5, <1>6 DEF Preview
  <2>4. \A m, n : Asking(q, m) /\ Asking(q, n) /\ q.calls[m].input = q.calls[n].input => m = n
    BY <1>5, <1>6 DEF Preview
  <2> QED BY <2>1, <2>2, <2>3, <2>4 DEF Preview
<1> QED BY <1>4, <1>8, <1>9

LEMMA AtGood ==
  ASSUME NEW p, NEW c, MikeGood(p, c), NEW i \in DOMAIN p.inputs,
         NEW stage \in InputStages, p.active = NoMike,
         \A m : Asking(p, m) => p.calls[m].input # i
  PROVE  LET q == At(p, i, stage) IN
         /\ MikeGood(q, c)
         /\ i \in DOMAIN q.inputs /\ q.inputs[i].stage = stage
         /\ \A m : Asking(q, m) => q.calls[m].input # i
<1> DEFINE e == [p.inputs[i] EXCEPT !.stage = stage]
           q == [p EXCEPT !.inputs = [p.inputs EXCEPT ![i] = e]]
<1>1. p \in Pages /\ p.inputs[i] \in MikeInputs BY DEF MikeGood, Shared, Loose, Pages
<1>2. /\ e \in MikeInputs /\ e.life = p.inputs[i].life
      /\ e.generation = p.inputs[i].generation /\ e.stage = stage
  BY <1>1 DEF MikeInputs
<1>3. At(p, i, stage) = q BY <1>1 DEF At, Pages
<1> HIDE DEF e
<1>4. /\ q \in Pages /\ AlikeShared(p, q) /\ Preview(q)
      /\ q.active = p.active /\ q.takes = p.takes
      /\ DOMAIN q.inputs = DOMAIN p.inputs /\ q.inputs[i] = e
      /\ \A m : Asking(q, m) => q.calls[m].input # i
  <2>1. Preview(p) BY DEF MikeGood
  <2>2. p \in Pages /\ e \in MikeInputs /\ e.life = p.inputs[i].life
        /\ e.generation = p.inputs[i].generation
    BY <1>1, <1>2
  <2>3. /\ q \in Pages /\ AlikeShared(p, q) /\ Preview(q)
        /\ q.active = p.active /\ q.takes = p.takes
        /\ DOMAIN q.inputs = DOMAIN p.inputs /\ q.inputs[i] = e
    BY <2>1, <2>2, InputPreview
  <2>4. q.calls = p.calls BY <2>3 DEF AlikeShared
  <2> QED BY <2>3, <2>4 DEF Asking
<1> HIDE DEF q
<1>5. Shared(q, c) BY <1>4, SharedAlike DEF MikeGood
<1>6. Owned(q, {}) BY <1>4 DEF MikeGood, Owned, AlikeShared
<1> QED BY <1>2, <1>3, <1>4, <1>5, <1>6 DEF MikeGood

\* The preview gives up what it has.
LEMMA DropGood ==
  ASSUME NEW p, NEW c, MikeGood(p, c)
  PROVE  LET q == DropActive(p) IN
         /\ MikeGood(q, c) /\ q.active = NoMike
         /\ q.up = p.up /\ q.life = p.life /\ q.generation = p.generation
         /\ q.inputs = p.inputs /\ q.calls = p.calls /\ q.denied = p.denied
<1> DEFINE r == CloseMicrophone(p, p.active)
           q == [r EXCEPT !.active = NoMike]
<1>1. p \in Pages BY DEF MikeGood, Shared, Loose
<1>2. /\ r \in Pages /\ AlikePreview(p, r)
      /\ r.sources = p.sources \ {p.active} /\ r.takes = p.takes /\ r.denied = p.denied
  BY <1>1, CloseFields
<1>3. Shared(r, c) BY CloseShared DEF MikeGood
<1>4. DropActive(p) = q BY DEF DropActive
<1> HIDE DEF r
<1>5. /\ q \in Pages /\ AlikeShared(r, q) /\ q.active = NoMike /\ q.takes = r.takes
      /\ q.up = r.up /\ q.life = r.life /\ q.generation = r.generation
      /\ q.inputs = r.inputs /\ q.denied = r.denied
  BY <1>2 DEF Pages, NoMike, AlikeShared
<1> HIDE DEF q
<1>6. Shared(q, c) BY <1>3, <1>5, SharedAlike
<1>7. q.calls = p.calls /\ q.sources = p.sources \ {p.active}
  BY <1>2, <1>5 DEF AlikeShared, AlikePreview
<1>8. /\ q.up = p.up /\ q.life = p.life /\ q.generation = p.generation
      /\ q.inputs = p.inputs
  BY <1>2, <1>5 DEF AlikePreview
<1>9. Preview(q)
  <2>1. \A i : Stale(q, i) <=> Stale(p, i) BY <1>8 DEF Stale, Cancelled
  <2>2. \A m : Asking(q, m) <=> Asking(p, m) BY <1>7 DEF Asking
  <2> QED BY <1>5, <1>7, <1>8, <2>1, <2>2 DEF MikeGood, Preview
<1>10. Owned(q, {}) BY <1>2, <1>5, <1>7 DEF MikeGood, Owned
<1> QED BY <1>2, <1>4, <1>5, <1>6, <1>7, <1>8, <1>9, <1>10 DEF MikeGood

\* The preview opens another input: those before are stale.
LEMMA OpenInputGood ==
  ASSUME NEW p, NEW c, MikeGood(p, c)
  PROVE  MikeGood(OpenInput(p), c)
<1> DEFINE r == [p EXCEPT !.generation = p.generation + 1]
           q == DropActive(r)
           e == [stage |-> "wake", life |-> q.life, generation |-> q.generation,
                 mike |-> NoMike]
           o == [q EXCEPT !.inputs = Append(q.inputs, e)]
<1>1. p \in Pages /\ p.generation \in Nat /\ p.generation + 1 \in Nat
  BY DEF MikeGood, Shared, Loose, Pages
<1>2. /\ r \in Pages /\ AlikeShared(p, r) /\ r.generation = p.generation + 1
      /\ r.up = p.up /\ r.life = p.life /\ r.active = p.active
      /\ r.inputs = p.inputs /\ r.takes = p.takes
  BY <1>1 DEF Pages, AlikeShared
<1>3. OpenInput(p) = o
  <2>1. r = [p EXCEPT !.generation = @ + 1] BY <1>1 DEF Pages
  <2> HIDE DEF r
  <2> QED BY <2>1 DEF OpenInput
<1> HIDE DEF r
<1>4. r.calls = p.calls /\ r.sources = p.sources BY <1>2 DEF AlikeShared
<1>5. \A i \in DOMAIN r.inputs : Stale(r, i)
  <2> SUFFICES ASSUME NEW i \in DOMAIN r.inputs PROVE Stale(r, i) OBVIOUS
  <2>1. p.inputs[i].generation \in Nat
    <3>1. p.inputs \in Seq(MikeInputs) /\ i \in DOMAIN p.inputs BY <1>1, <1>2 DEF Pages
    <3>2. p.inputs[i] \in MikeInputs BY <3>1
    <3> QED BY <3>2 DEF MikeInputs
  <2>2. p.inputs[i].life = p.life => p.inputs[i].generation <= p.generation
    BY <1>2 DEF MikeGood, Preview
  <2> QED BY <1>1, <1>2, <2>1, <2>2 DEF Stale, Cancelled
<1>6. \A m : Asking(r, m) <=> Asking(p, m) BY <1>4 DEF Asking
<1>7. Preview(r)
  <2>1. \A i \in DOMAIN r.inputs :
          /\ r.inputs[i].life <= r.life
          /\ r.inputs[i].life = r.life => r.inputs[i].generation <= r.generation
    <3> SUFFICES ASSUME NEW i \in DOMAIN r.inputs
                 PROVE  /\ r.inputs[i].life <= r.life
                        /\ r.inputs[i].life = r.life => r.inputs[i].generation <= r.generation
      OBVIOUS
    <3>1. p.inputs \in Seq(MikeInputs) /\ i \in DOMAIN p.inputs BY <1>1, <1>2 DEF Pages
    <3>2. p.inputs[i] \in MikeInputs BY <3>1
    <3>3. p.inputs[i].generation \in Nat BY <3>2 DEF MikeInputs
    <3> QED BY <1>1, <1>2, <3>1, <3>3 DEF MikeGood, Preview
  <2> QED BY <1>2, <1>4, <1>5, <1>6, <2>1 DEF MikeGood, Preview
<1>8. MikeGood(r, c)
  <2>1. Shared(r, c) BY <1>2, SharedAlike DEF MikeGood
  <2>2. Owned(r, {}) BY <1>2, <1>4 DEF MikeGood, Owned
  <2> QED BY <1>7, <2>1, <2>2 DEF MikeGood
<1>9. /\ MikeGood(q, c) /\ q.active = NoMike
      /\ q.up = r.up /\ q.life = r.life /\ q.generation = r.generation
      /\ q.inputs = r.inputs
  BY <1>8, DropGood
<1> HIDE DEF q
<1>10. /\ q \in Pages /\ q.inputs \in Seq(MikeInputs) /\ e \in MikeInputs
       /\ q.life \in Nat /\ q.generation \in Nat
  BY <1>9 DEF MikeGood, Shared, Loose, Pages, MikeInputs, InputStages, NoMike
<1>11. /\ e.life = q.life /\ e.generation = q.generation /\ e.stage = "wake" OBVIOUS
<1> HIDE DEF e
<1>12. /\ Append(q.inputs, e) \in Seq(MikeInputs) /\ Len(q.inputs) \in Nat
       /\ DOMAIN q.inputs = 1..Len(q.inputs)
       /\ DOMAIN Append(q.inputs, e) = 1..(Len(q.inputs) + 1)
       /\ \A i \in DOMAIN q.inputs : Append(q.inputs, e)[i] = q.inputs[i]
       /\ Append(q.inputs, e)[Len(q.inputs) + 1] = e
  BY <1>10, AppendFacts
<1>13. /\ o \in Pages /\ AlikeShared(q, o) /\ o.inputs = Append(q.inputs, e)
       /\ o.up = q.up /\ o.life = q.life /\ o.generation = q.generation
       /\ o.active = q.active /\ o.takes = q.takes
  BY <1>10, <1>12 DEF Pages, AlikeShared
<1> HIDE DEF o
<1>14. o.calls = q.calls /\ o.sources = q.sources BY <1>13 DEF AlikeShared
<1>15. \A i \in DOMAIN q.inputs : Stale(o, i)
  <2>1. \A i \in DOMAIN q.inputs : Stale(o, i) <=> Stale(r, i)
    BY <1>9, <1>12, <1>13 DEF Stale, Cancelled
  <2> QED BY <1>5, <1>9, <2>1
<1>16. \A m : Asking(o, m) <=> Asking(q, m) BY <1>14 DEF Asking
<1>17. Preview(o)
  <2>1. \A i \in DOMAIN o.inputs :
          /\ o.inputs[i].life <= o.life
          /\ o.inputs[i].life = o.life => o.inputs[i].generation <= o.generation
    BY <1>9, <1>10, <1>11, <1>12, <1>13 DEF MikeGood, Preview
  <2>2. \A i, j \in DOMAIN o.inputs : ~Stale(o, i) /\ ~Stale(o, j) => i = j
    BY <1>12, <1>13, <1>15
  <2>3. \A m : Asking(o, m) =>
          /\ o.calls[m].input \in DOMAIN o.inputs
          /\ o.inputs[o.calls[m].input].stage \in {"open", "reopen"}
    BY <1>9, <1>12, <1>13, <1>14, <1>16 DEF MikeGood, Preview
  <2>4. \A m, n : Asking(o, m) /\ Asking(o, n) /\ o.calls[m].input = o.calls[n].input => m = n
    BY <1>9, <1>14, <1>16 DEF MikeGood, Preview
  <2>5. (o.up => o.life > 0) /\ o.active = NoMike BY <1>9, <1>13 DEF MikeGood, Preview
  <2> QED BY <2>1, <2>2, <2>3, <2>4, <2>5 DEF Preview
<1>18. Shared(o, c) BY <1>9, <1>13, SharedAlike DEF MikeGood
<1>19. Owned(o, {}) BY <1>9, <1>13, <1>14 DEF MikeGood, Owned
<1> QED BY <1>3, <1>17, <1>18, <1>19 DEF MikeGood

LEMMA ClearDenialGood ==
  ASSUME NEW p, NEW c, MikeGood(p, c)
  PROVE  MikeGood(ClearDenial(p), c)
<1> DEFINE q == [p EXCEPT !.denied = FALSE]
<1>1. p \in Pages BY DEF MikeGood, Shared, Loose
<1>2. /\ q \in Pages /\ AlikeShared(p, q) /\ AlikePreview(p, q)
      /\ q.takes = p.takes
  BY <1>1 DEF Pages, AlikeShared, AlikePreview
<1>3. ClearDenial(p) = q \/ ClearDenial(p) = OpenInput(q) BY DEF ClearDenial
<1> HIDE DEF q
<1>4. Shared(q, c) /\ Preview(q) BY <1>2, SharedAlike, PreviewSame DEF MikeGood
<1>5. Owned(q, {}) BY <1>2 DEF MikeGood, Owned, AlikeShared, AlikePreview
<1> QED BY <1>3, <1>4, <1>5, OpenInputGood DEF MikeGood

LEMMA ReportGood ==
  ASSUME NEW p, NEW c, MikeGood(p, c), NEW denied \in BOOLEAN
  PROVE  MikeGood(Report(p, denied), c)
<1> DEFINE q == Report(p, denied)
<1>1. p \in Pages BY DEF MikeGood, Shared, Loose
<1>2. (p.denied \/ denied) \in BOOLEAN BY <1>1 DEF Pages
<1>3. /\ q \in Pages /\ AlikeShared(p, q) /\ AlikePreview(p, q)
      /\ q.takes = p.takes
  BY <1>1, <1>2 DEF Report, Pages, AlikeShared, AlikePreview
<1> HIDE DEF q
<1>4. Shared(q, c) /\ Preview(q) BY <1>3, SharedAlike, PreviewSame DEF MikeGood
<1>5. Owned(q, {}) BY <1>3 DEF MikeGood, Owned, AlikeShared, AlikePreview
<1> QED BY <1>4, <1>5 DEF MikeGood, q

LEMMA CheckingGood ==
  ASSUME NEW p, NEW c, MikeGood(p, c), NEW checking \in {"no", "open", "access"},
         NEW q, q = [p EXCEPT !.checking = checking]
  PROVE  MikeGood(q, c)
<1>1. p \in Pages BY DEF MikeGood, Shared, Loose
<1>2. /\ q \in Pages /\ AlikeShared(p, q) /\ AlikePreview(p, q)
      /\ q.takes = p.takes
  BY <1>1 DEF Pages, AlikeShared, AlikePreview
<1>3. Shared(q, c) /\ Preview(q) BY <1>2, SharedAlike, PreviewSame DEF MikeGood
<1>4. Owned(q, {}) BY <1>2 DEF MikeGood, Owned, AlikeShared, AlikePreview
<1> QED BY <1>3, <1>4 DEF MikeGood

LEMMA AskMikeGood ==
  ASSUME NEW p, NEW c, MikeGood(p, c), NEW by \in {"preview", "take", "check"},
         NEW input \in Nat,
         by = "preview" =>
           /\ input \in DOMAIN p.inputs
           /\ p.inputs[input].stage \in {"open", "reopen"}
           /\ \A m : Asking(p, m) => p.calls[m].input # input
  PROVE  MikeGood(OpenMicrophone(p, by, input), c)
<1> DEFINE q == OpenMicrophone(p, by, input)
           m == Len(p.calls) + 1
           stage == IF p.platform = "ios" THEN "loading" ELSE "asked"
           call == [by |-> by, input |-> input, stage |-> stage]
<1>1. p \in Pages /\ by \in Users /\ p.calls \in Seq(MikeCalls)
  BY DEF MikeGood, Shared, Loose, Users, Pages
<1>2. /\ q.calls = Append(p.calls, call)
      /\ q.sources = p.sources /\ q.up = p.up /\ q.life = p.life
      /\ q.generation = p.generation /\ q.active = p.active
      /\ q.inputs = p.inputs /\ q.takes = p.takes
  BY <1>1, AskFields
<1>3. Shared(q, c) BY <1>1, AskShared DEF MikeGood
<1>4. call.by = by /\ call.input = input OBVIOUS
<1> SUFFICES MikeGood(q, c) OBVIOUS
<1> HIDE DEF q, call, stage
<1>5. /\ DOMAIN q.calls = DOMAIN p.calls \cup {m} /\ m \notin DOMAIN p.calls
      /\ \A n \in DOMAIN p.calls : q.calls[n] = p.calls[n]
      /\ q.calls[m] = call
  BY <1>1, <1>2
<1> HIDE DEF m
<1>6. \A n : Asking(q, n) =>
        \/ Asking(p, n) /\ q.calls[n].input = p.calls[n].input
        \/ n = m /\ by = "preview" /\ q.calls[n].input = input
  BY <1>4, <1>5 DEF Asking
<1>7. Preview(q)
  <2>1. \A i : Stale(q, i) <=> Stale(p, i) BY <1>2 DEF Stale, Cancelled
  <2>2. \A n : Asking(q, n) =>
          /\ q.calls[n].input \in DOMAIN q.inputs
          /\ q.inputs[q.calls[n].input].stage \in {"open", "reopen"}
    BY <1>2, <1>6 DEF MikeGood, Preview
  <2>3. \A n, o : Asking(q, n) /\ Asking(q, o) /\ q.calls[n].input = q.calls[o].input => n = o
    BY <1>6 DEF MikeGood, Preview
  <2> QED BY <1>2, <2>1, <2>2, <2>3 DEF MikeGood, Preview
<1>8. Owned(q, {}) BY <1>2 DEF MikeGood, Owned
<1> QED BY <1>3, <1>7, <1>8 DEF MikeGood

\* A microphone that is closed needs no owner.
LEMMA CloseGood ==
  ASSUME NEW p, NEW c, NEW m, Shared(p, c), Preview(p), Owned(p, {m})
  PROVE  LET q == CloseMicrophone(p, m) IN
         MikeGood(q, c) /\ AlikePreview(p, q)
<1> DEFINE q == CloseMicrophone(p, m)
<1>1. p \in Pages BY DEF Shared, Loose
<1>2. /\ AlikePreview(p, q) /\ q.sources = p.sources \ {m} /\ q.takes = p.takes
  BY <1>1, CloseFields
<1>3. Shared(q, c) BY CloseShared
<1> HIDE DEF q
<1>4. Preview(q) BY <1>2, PreviewSame
<1>5. Owned(q, {}) BY <1>2 DEF Owned, AlikePreview
<1> QED BY <1>2, <1>3, <1>4, <1>5 DEF MikeGood, q

\* What the preview has opened is the one it is heard with.
LEMMA ActiveGood ==
  ASSUME NEW p, NEW c, NEW m \in Nat, Shared(p, c), Preview(p), Owned(p, {m}),
         p.active = NoMike,
         \A i \in DOMAIN p.inputs : Stale(p, i) \/ p.inputs[i].stage = "relist",
         NEW q, q = [p EXCEPT !.active = m]
  PROVE  MikeGood(q, c)
<1>1. p \in Pages BY DEF Shared, Loose
<1>2. /\ q \in Pages /\ AlikeShared(p, q) /\ q.active = m /\ q.takes = p.takes
      /\ q.up = p.up /\ q.life = p.life /\ q.generation = p.generation
      /\ q.inputs = p.inputs
  BY <1>1 DEF Pages, AlikeShared
<1>3. q.calls = p.calls /\ q.sources = p.sources BY <1>2 DEF AlikeShared
<1>4. Shared(q, c) BY <1>2, SharedAlike
<1>5. Preview(q)
  <2>1. \A i : Stale(q, i) <=> Stale(p, i) BY <1>2 DEF Stale, Cancelled
  <2>2. \A n : Asking(q, n) <=> Asking(p, n) BY <1>3 DEF Asking
  <2> QED BY <1>2, <1>3, <2>1, <2>2 DEF Preview
<1>6. NoMike \notin p.sources
  <2>1. p.calls \in Seq(MikeCalls) /\ p.sources \subseteq DOMAIN p.calls
    BY <1>1 DEF Shared, Loose, Placed, Pages
  <2> QED BY <2>1 DEF NoMike
<1>7. Owned(q, {}) BY <1>2, <1>3, <1>6 DEF Owned
<1> QED BY <1>4, <1>5, <1>7 DEF MikeGood

LEMMA OpenedMikeGood ==
  ASSUME NEW p, NEW c, MikeGood(p, c), NEW m \in DOMAIN p.calls,
         p.calls[m].stage = "ready"
  PROVE  MikeGood(Opened(p, m), c)
<1> DEFINE q == Had(p, m)
           by == p.calls[m].by
           i == p.calls[m].input
<1>1. p \in Pages /\ m \in Nat BY DEF MikeGood, Shared, Loose, Pages
<1>2. /\ q \in Pages /\ q.sources = p.sources \cup {m}
      /\ DOMAIN q.calls = DOMAIN p.calls /\ q.calls[m] = NobodyAsks
      /\ \A n \in DOMAIN p.calls : n # m => q.calls[n] = p.calls[n]
      /\ q.up = p.up /\ q.life = p.life
      /\ q.generation = p.generation /\ q.active = p.active
      /\ q.inputs = p.inputs /\ q.takes = p.takes
  BY <1>1, HadFields
<1>3. Shared(q, c) BY HadShared DEF MikeGood
<1>4. Opened(p, m) =
        CASE by = "take" -> ClearDenial([q EXCEPT !.takes = @ \union {m}])
          [] by = "check" -> ClearDenial([CloseMicrophone(q, m) EXCEPT !.checking = "no"])
          [] OTHER -> InputOpened(q, i, m)
  BY DEF Opened, Had
<1> HIDE DEF q
<1>5. \A n : Asking(q, n) => n # m /\ Asking(p, n) /\ q.calls[n].input = p.calls[n].input
  BY <1>2 DEF Asking, NobodyAsks
<1>6. Preview(q) BY <1>2, <1>5, PreviewAlike DEF MikeGood
<1>7. Owned(q, {m}) BY <1>2 DEF MikeGood, Owned
<1>8. CASE by = "take"
  <2> DEFINE r == [q EXCEPT !.takes = q.takes \cup {m}]
  <2>1. /\ r \in Pages /\ AlikeShared(q, r) /\ AlikePreview(q, r)
        /\ r.takes = q.takes \cup {m}
    BY <1>1, <1>2 DEF Pages, AlikeShared, AlikePreview
  <2>2. Opened(p, m) = ClearDenial(r) BY <1>2, <1>4, <1>8 DEF Pages
  <2> HIDE DEF r
  <2>3. Shared(r, c) /\ Preview(r) BY <1>3, <1>6, <2>1, SharedAlike, PreviewSame
  <2>4. Owned(r, {}) BY <1>7, <2>1 DEF Owned, AlikeShared, AlikePreview
  <2> QED BY <2>2, <2>3, <2>4, ClearDenialGood DEF MikeGood
<1>9. CASE by = "check"
  <2> DEFINE r == CloseMicrophone(q, m)
             t == [r EXCEPT !.checking = "no"]
  <2>1. MikeGood(r, c) BY <1>3, <1>6, <1>7, CloseGood
  <2>2. Opened(p, m) = ClearDenial(t) BY <1>4, <1>9
  <2> HIDE DEF r
  <2>3. MikeGood(t, c) BY <2>1, CheckingGood
  <2> QED BY <2>2, <2>3, ClearDenialGood
<1>10. CASE by \notin {"take", "check"}
  <2>1. Opened(p, m) = InputOpened(q, i, m) BY <1>4, <1>10
  <2>2. Asking(p, m) BY <1>10 DEF Asking
  <2>3. i \in DOMAIN q.inputs BY <1>2, <2>2 DEF MikeGood, Preview
  <2>4. \A n : Asking(q, n) => q.calls[n].input # i
    BY <1>5, <2>2 DEF MikeGood, Preview
  <2>5. q.inputs[i].stage \in {"open", "reopen"} BY <1>2, <2>2 DEF MikeGood, Preview
  <2> HIDE DEF i, by
  <2>6. CASE Stale(q, i)
    <3> DEFINE r == CloseMicrophone(q, m)
    <3>1. MikeGood(r, c) /\ AlikePreview(q, r) BY <1>3, <1>6, <1>7, CloseGood
    <3>2. Opened(p, m) = InputEnds(r, i) BY <2>1, <2>6 DEF InputOpened
    <3> HIDE DEF r
    <3>3. i \in DOMAIN r.inputs /\ \A n : Asking(r, n) => r.calls[n].input # i
      BY <2>3, <2>4, <3>1 DEF AlikePreview, Asking
    <3> QED BY <3>1, <3>2, <3>3, EndsGood
  <2>7. CASE ~Stale(q, i)
    <3>1. q.active = NoMike BY <1>6, <2>3, <2>5, <2>7 DEF Preview
    <3>2. \A j \in DOMAIN q.inputs : j # i => Stale(q, j) BY <1>6, <2>3, <2>7 DEF Preview
    <3>3. CASE q.inputs[i].stage = "open"
      <4> DEFINE e == [[q.inputs[i] EXCEPT !.mike = m] EXCEPT !.stage = "relist"]
                 r == [q EXCEPT !.inputs = [q.inputs EXCEPT ![i] = e]]
                 t == [r EXCEPT !.active = m]
      <4>1. q.inputs[i] \in MikeInputs BY <1>2, <2>3 DEF Pages
      <4>2. /\ e \in MikeInputs /\ e.life = q.inputs[i].life
            /\ e.generation = q.inputs[i].generation /\ e.stage = "relist"
        BY <1>1, <4>1 DEF MikeInputs, InputStages
      <4>3. Opened(p, m) = ClearDenial(t)
        <5>1. [q EXCEPT !.active = m, !.inputs[i].mike = m, !.inputs[i].stage = "relist"] = t
          BY <1>2, <2>3, <4>1 DEF Pages, MikeInputs
        <5> HIDE DEF t
        <5> QED BY <2>1, <2>7, <3>3, <5>1 DEF InputOpened
      <4> HIDE DEF e
      <4>4. /\ r \in Pages /\ AlikeShared(q, r) /\ Preview(r)
            /\ r.active = q.active /\ r.takes = q.takes
            /\ DOMAIN r.inputs = DOMAIN q.inputs /\ r.inputs[i] = e
            /\ \A j \in DOMAIN q.inputs : Stale(r, j) <=> Stale(q, j)
        BY <1>2, <1>6, <2>3, <2>4, <3>1, <4>2, InputPreview
      <4> HIDE DEF r
      <4>5. Shared(r, c) BY <1>3, <4>4, SharedAlike
      <4>6. Owned(r, {m}) BY <1>7, <4>4 DEF Owned, AlikeShared
      <4>7. \A j \in DOMAIN r.inputs : Stale(r, j) \/ r.inputs[j].stage = "relist"
        BY <3>2, <4>2, <4>4
      <4>8. MikeGood(t, c) BY <1>1, <3>1, <4>4, <4>5, <4>6, <4>7, ActiveGood
      <4> QED BY <4>3, <4>8, ClearDenialGood
    <3>4. CASE q.inputs[i].stage # "open"
      <4> DEFINE r == InputEnds(q, i)
                 t == [r EXCEPT !.active = m]
      <4>1. Opened(p, m) = t
        <5>1. InputEnds([q EXCEPT !.active = m], i) = t BY <1>2 DEF InputEnds, Pages
        <5> HIDE DEF t
        <5> QED BY <2>1, <2>7, <3>4, <5>1 DEF InputOpened
      <4>2. /\ r \in Pages /\ AlikeShared(q, r) /\ Preview(r)
            /\ r.active = q.active /\ r.takes = q.takes
            /\ DOMAIN r.inputs = DOMAIN q.inputs
            /\ \A j \in DOMAIN r.inputs : Stale(r, j)
        BY <1>2, <1>6, <2>3, <2>4, <3>2, EndsPreview
      <4> HIDE DEF r
      <4>3. Shared(r, c) BY <1>3, <4>2, SharedAlike
      <4>4. Owned(r, {m}) BY <1>7, <4>2 DEF Owned, AlikeShared
      <4>5. MikeGood(t, c) BY <1>1, <3>1, <4>2, <4>3, <4>4, ActiveGood
      <4> QED BY <4>1, <4>5
    <3> QED BY <3>3, <3>4
  <2> QED BY <2>6, <2>7
<1> QED BY <1>8, <1>9, <1>10

LEMMA FailedGood ==
  ASSUME NEW p, NEW c, MikeGood(p, c), NEW m \in DOMAIN p.calls,
         p.calls[m].stage # "none", Unasked(p, c, m), NEW denied \in BOOLEAN
  PROVE  MikeGood(Failed(p, m, denied), c)
<1> DEFINE r == Ceased(p, m)
           q == StopCapture(r)
           by == p.calls[m].by
           i == p.calls[m].input
<1>1. p \in Pages BY DEF MikeGood, Shared, Loose
<1>2. /\ r \in Pages /\ r.sources = p.sources
      /\ DOMAIN r.calls = DOMAIN p.calls /\ r.calls[m] = NobodyAsks
      /\ \A n \in DOMAIN p.calls : n # m => r.calls[n] = p.calls[n]
      /\ r.up = p.up /\ r.life = p.life
      /\ r.generation = p.generation /\ r.active = p.active
      /\ r.inputs = p.inputs /\ r.takes = p.takes
  BY <1>1, CeasedFields
<1>3. Loose(r, c) BY CeasedLoose DEF MikeGood, Shared
<1>4. Failed(p, m, denied) =
        CASE by = "take" -> Report(q, denied)
          [] by = "check" -> Report([q EXCEPT !.checking = "no"], denied)
          [] OTHER -> InputEnds(IF Cancelled(q, i) THEN q ELSE Report(q, denied), i)
  BY DEF Failed, Ceased
<1> HIDE DEF r
<1>5. /\ AlikePreview(r, q) /\ q.sources = r.sources /\ q.takes = r.takes
      /\ Shared(q, c)
  BY <1>2, <1>3, StopFields, StopShared
<1> HIDE DEF q
<1>6. \A n : Asking(q, n) => n # m /\ Asking(p, n) /\ q.calls[n].input = p.calls[n].input
  BY <1>2, <1>5 DEF Asking, NobodyAsks, AlikePreview
<1>7. Preview(q) BY <1>2, <1>5, <1>6, PreviewAlike DEF MikeGood, AlikePreview
<1>8. Owned(q, {}) BY <1>2, <1>5 DEF MikeGood, Owned, AlikePreview
<1>9. MikeGood(q, c) BY <1>5, <1>7, <1>8 DEF MikeGood
<1>10. CASE by = "take" BY <1>4, <1>9, <1>10, ReportGood
<1>11. CASE by = "check"
  <2>1. MikeGood([q EXCEPT !.checking = "no"], c) BY <1>9, CheckingGood
  <2> QED BY <1>4, <1>11, <2>1, ReportGood
<1>12. CASE by \notin {"take", "check"}
  <2> DEFINE t == IF Cancelled(q, i) THEN q ELSE Report(q, denied)
  <2>1. Failed(p, m, denied) = InputEnds(t, i) BY <1>4, <1>12
  <2>2. Asking(p, m) BY <1>12 DEF Asking
  <2>3. i \in DOMAIN q.inputs BY <1>2, <1>5, <2>2 DEF MikeGood, Preview, AlikePreview
  <2>4. \A n : Asking(q, n) => q.calls[n].input # i
    BY <1>6, <2>2 DEF MikeGood, Preview
  <2>5. q \in Pages BY <1>9 DEF MikeGood, Shared, Loose
  <2>6. /\ MikeGood(t, c) /\ t.inputs = q.inputs /\ t.calls = q.calls
    BY <1>9, <2>5, ReportGood DEF Report, Pages
  <2> HIDE DEF t, i
  <2>7. i \in DOMAIN t.inputs /\ \A n : Asking(t, n) => t.calls[n].input # i
    BY <2>3, <2>4, <2>6 DEF Asking
  <2> QED BY <2>1, <2>6, <2>7, EndsGood
<1> QED BY <1>10, <1>11, <1>12
-----------------------------------------------------------------------------

\* The invariant holds at the start.
LEMMA MikeInitGood == MikeInit => MikeGood(mikes, capture)
<1> SUFFICES ASSUME MikeInit PROVE MikeGood(mikes, capture)
  OBVIOUS
<1>1. PICK platform \in Platforms :
        mikes = [platform |-> platform, opening |-> {}, sources |-> {}, tracks |-> {},
                 session |-> 0, graph |-> FALSE, current |-> 0, minimum |-> 0,
                 calls |-> <<>>,
                 up |-> FALSE, life |-> 0, generation |-> 0, active |-> NoMike,
                 denied |-> FALSE, inputs |-> <<>>,
                 takes |-> {}, checking |-> "no",
                 posted |-> IF platform = "android" THEN <<StopCapturing>> ELSE <<>>]
  BY DEF MikeInit
<1>2. capture = [running |-> FALSE, session |-> 0, generation |-> 0, waiting |-> <<>>,
                 access |-> "unasked", answers |-> <<>>, faults |-> 0, halted |-> FALSE]
  BY DEF MikeInit
<1>3. StopCapturing \in Messages /\ StopCapturing.type = "stop"
  BY DEF StopCapturing, Messages, NoMike
<1>4. mikes \in Pages
  <2>1. mikes.posted \in Seq(Messages) BY <1>1, <1>3
  <2> HIDE DEF StopCapturing
  <2> QED BY <1>1, <2>1 DEF Pages, NoMike
<1>5. capture \in Captures BY <1>2 DEF Captures
<1>6. /\ mikes.opening = {} /\ mikes.sources = {} /\ mikes.tracks = {}
      /\ DOMAIN mikes.calls = {} /\ DOMAIN mikes.inputs = {} /\ ~mikes.up
      /\ mikes.current = 0 /\ mikes.minimum = 0
  BY <1>1
<1>7. /\ ~capture.running /\ capture.session = 0
      /\ capture.waiting = <<>> /\ capture.answers = <<>>
      /\ DOMAIN capture.waiting = {} /\ DOMAIN capture.answers = {}
  BY <1>2
<1>8. \A i \in DOMAIN mikes.posted : mikes.posted[i].type = "stop"
  BY <1>1, <1>3
<1>9. ~IsReady(mikes) /\ \A m : ~Asking(mikes, m) BY <1>6 DEF IsReady, Asking
<1>10. Placed(mikes) /\ Underway(mikes, capture) BY <1>6, <1>7, <1>8 DEF Placed, Underway
<1>11. StopsFirst(mikes, capture) BY <1>6, <1>7, <1>8, <1>9 DEF StopsFirst
<1>12. AnswerHolds(mikes, capture) BY <1>6, <1>7, <1>9 DEF AnswerHolds
<1>13. LetThrough(mikes, capture) BY <1>6, <1>7 DEF LetThrough
<1>14. TracksHeld(mikes, capture) BY <1>6, <1>7 DEF TracksHeld
<1>15. Preview(mikes) BY <1>6, <1>9 DEF Preview
<1>16. Owned(mikes, {}) BY <1>6 DEF Owned
<1> QED
  BY <1>4, <1>5, <1>7, <1>10, <1>11, <1>12, <1>13, <1>14, <1>15, <1>16
     DEF MikeGood, Shared, Loose

\* What is neither heard of nor on its way is not asked for.
LEMMA NotAsked ==
  ASSUME NEW p, NEW c, Shared(p, c), NEW m, ~IsAsked(p, m)
  PROVE  Unasked(p, c, m)
BY DEF Shared, Loose, Underway, Unasked

\* Only the input a call opens is at open or reopen.
LEMMA NotOpening ==
  ASSUME NEW p, Preview(p), NEW i, p.inputs[i].stage \notin {"open", "reopen"}
  PROVE  \A m : Asking(p, m) => p.calls[m].input # i
BY DEF Preview

LEMMA PreviewOpensGood ==
  ASSUME MikeGood(mikes, capture), PreviewOpens
  PROVE  MikeGood(mikes', capture')
<1> DEFINE p == [mikes EXCEPT !.up = TRUE, !.life = mikes.life + 1, !.generation = 0]
<1>1. /\ mikes \in Pages /\ mikes.life \in Nat /\ mikes.life + 1 \in Nat
      /\ mikes.inputs \in Seq(MikeInputs)
  BY DEF MikeGood, Shared, Loose, Pages
<1>2. /\ p \in Pages /\ AlikeShared(mikes, p) /\ p.up /\ p.life = mikes.life + 1
      /\ p.generation = 0 /\ p.inputs = mikes.inputs /\ p.active = mikes.active
      /\ p.takes = mikes.takes
  BY <1>1 DEF Pages, AlikeShared
<1>3. mikes' = OpenInput(p) /\ capture' = capture
  <2>1. p = [mikes EXCEPT !.up = TRUE, !.life = @ + 1, !.generation = 0]
    BY <1>1 DEF Pages
  <2> HIDE DEF p
  <2> QED BY <2>1 DEF PreviewOpens, Mike
<1> HIDE DEF p
<1>4. p.calls = mikes.calls /\ p.sources = mikes.sources BY <1>2 DEF AlikeShared
<1>5. \A i \in DOMAIN p.inputs :
        /\ p.inputs[i].life <= p.life /\ p.inputs[i].life # p.life
        /\ Stale(p, i)
  <2> SUFFICES ASSUME NEW i \in DOMAIN mikes.inputs
               PROVE  /\ p.inputs[i].life <= p.life /\ p.inputs[i].life # p.life
                      /\ Stale(p, i)
    BY <1>2
  <2>1. mikes.inputs[i] \in MikeInputs BY <1>1
  <2>2. mikes.inputs[i].life \in Nat BY <2>1 DEF MikeInputs
  <2>3. mikes.inputs[i].life <= mikes.life BY DEF MikeGood, Preview
  <2>4. p.inputs[i].life <= p.life /\ p.inputs[i].life # p.life
    BY <1>1, <1>2, <2>2, <2>3
  <2> QED BY <2>4 DEF Stale, Cancelled
<1>6. \A m : Asking(p, m) <=> Asking(mikes, m) BY <1>4 DEF Asking
<1>7. p.life > 0 BY <1>1, <1>2
<1>8. Preview(p) BY <1>2, <1>4, <1>5, <1>6, <1>7 DEF MikeGood, Preview
<1>9. Shared(p, capture) BY <1>2, SharedAlike DEF MikeGood
<1>10. Owned(p, {}) BY <1>2, <1>4 DEF MikeGood, Owned
<1> QED BY <1>3, <1>8, <1>9, <1>10, OpenInputGood DEF MikeGood

LEMMA PreviewClosesGood ==
  ASSUME MikeGood(mikes, capture), PreviewCloses
  PROVE  MikeGood(mikes', capture')
<1> DEFINE p == [mikes EXCEPT !.up = FALSE]
<1>1. mikes \in Pages BY DEF MikeGood, Shared, Loose
<1>2. /\ p \in Pages /\ AlikeShared(mikes, p) /\ ~p.up /\ p.life = mikes.life
      /\ p.generation = mikes.generation /\ p.inputs = mikes.inputs
      /\ p.active = mikes.active /\ p.takes = mikes.takes
  BY <1>1 DEF Pages, AlikeShared
<1>3. mikes' = DropActive(p) /\ capture' = capture BY DEF PreviewCloses, Mike
<1> HIDE DEF p
<1>4. p.calls = mikes.calls /\ p.sources = mikes.sources BY <1>2 DEF AlikeShared
<1>5. \A i : Stale(p, i) BY <1>2 DEF Stale, Cancelled
<1>6. \A m : Asking(p, m) <=> Asking(mikes, m) BY <1>4 DEF Asking
<1>7. Preview(p) BY <1>2, <1>4, <1>5, <1>6 DEF MikeGood, Preview
<1>8. Shared(p, capture) BY <1>2, SharedAlike DEF MikeGood
<1>9. Owned(p, {}) BY <1>2, <1>4 DEF MikeGood, Owned
<1> QED BY <1>3, <1>7, <1>8, <1>9, DropGood DEF MikeGood

\* An input goes on unless the device or the preview has changed meanwhile.
LEMMA InputStepsGood ==
  ASSUME MikeGood(mikes, capture), NEW i \in DOMAIN mikes.inputs,
         ClockAwake(i) \/ DevicesListed(i) \/ DevicesListedAgain(i)
  PROVE  MikeGood(mikes', capture')
<1>0. capture' = capture BY DEF ClockAwake, DevicesListed, DevicesListedAgain, Mike
<1>1. mikes.inputs[i].stage \in {"wake", "list", "relist"}
  BY DEF ClockAwake, DevicesListed, DevicesListedAgain
<1>2. \A m : Asking(mikes, m) => mikes.calls[m].input # i
  BY <1>1, NotOpening DEF MikeGood
<1>3. CASE mikes' = InputEnds(mikes, i) BY <1>0, <1>2, <1>3, EndsGood
<1>4. CASE ClockAwake(i) /\ ~Stale(mikes, i) /\ mikes' = At(mikes, i, "list")
  <2>1. mikes.active = NoMike BY <1>4 DEF MikeGood, Preview, ClockAwake
  <2>2. "list" \in InputStages BY DEF InputStages
  <2> QED BY <1>0, <1>2, <1>4, <2>1, <2>2, AtGood
<1>5. CASE /\ DevicesListed(i) /\ ~Stale(mikes, i)
           /\ mikes' = OpenMicrophone(At(mikes, i, "open"), "preview", i)
  <2> DEFINE q == At(mikes, i, "open")
  <2>1. mikes.active = NoMike BY <1>5 DEF MikeGood, Preview, DevicesListed
  <2>2. "open" \in InputStages BY DEF InputStages
  <2>3. /\ MikeGood(q, capture)
        /\ i \in DOMAIN q.inputs /\ q.inputs[i].stage = "open"
        /\ \A m : Asking(q, m) => q.calls[m].input # i
    BY <1>2, <2>1, <2>2, AtGood
  <2>4. i \in Nat
    <3>1. mikes.inputs \in Seq(MikeInputs) BY DEF MikeGood, Shared, Loose, Pages
    <3> QED BY <3>1
  <2> HIDE DEF q
  <2>5. MikeGood(OpenMicrophone(q, "preview", i), capture) BY <2>3, <2>4, AskMikeGood
  <2> QED BY <1>0, <1>5, <2>5 DEF q
<1>6. CASE /\ DevicesListedAgain(i)
           /\ mikes' = OpenMicrophone(At(DropActive(mikes), i, "reopen"), "preview", i)
  <2> DEFINE r == DropActive(mikes)
             q == At(r, i, "reopen")
  <2>1. /\ MikeGood(r, capture) /\ r.active = NoMike
        /\ r.inputs = mikes.inputs /\ r.calls = mikes.calls
    BY DropGood
  <2> HIDE DEF r
  <2>2. "reopen" \in InputStages BY DEF InputStages
  <2>3. i \in DOMAIN r.inputs /\ \A m : Asking(r, m) => r.calls[m].input # i
    BY <1>2, <2>1 DEF Asking
  <2>4. /\ MikeGood(q, capture)
        /\ i \in DOMAIN q.inputs /\ q.inputs[i].stage = "reopen"
        /\ \A m : Asking(q, m) => q.calls[m].input # i
    BY <2>1, <2>2, <2>3, AtGood
  <2>5. i \in Nat
    <3>1. mikes.inputs \in Seq(MikeInputs) BY DEF MikeGood, Shared, Loose, Pages
    <3> QED BY <3>1
  <2> HIDE DEF q
  <2>6. MikeGood(OpenMicrophone(q, "preview", i), capture) BY <2>4, <2>5, AskMikeGood
  <2> QED BY <1>0, <1>6, <2>6 DEF q, r
<1> QED BY <1>3, <1>4, <1>5, <1>6 DEF ClockAwake, DevicesListed, DevicesListedAgain

\* The access is checked again, with a microphone or without.
LEMMA ChecksGood ==
  ASSUME MikeGood(mikes, capture), Recheck \/ AccessChecked
  PROVE  MikeGood(mikes', capture')
<1>1. capture' = capture BY DEF Recheck, AccessChecked, Mike
<1>2. CASE Recheck
  <2> DEFINE q == [mikes EXCEPT !.checking = "open"]
  <2>1. MikeGood(q, capture) BY CheckingGood
  <2>2. MikeGood([mikes EXCEPT !.checking = "access"], capture) BY CheckingGood
  <2>3. \/ mikes' = [mikes EXCEPT !.checking = "access"]
        \/ mikes' = OpenMicrophone(q, "check", 0)
    BY <1>2 DEF Recheck
  <2> HIDE DEF q
  <2>4. MikeGood(OpenMicrophone(q, "check", 0), capture) BY <2>1, AskMikeGood
  <2> QED BY <1>1, <2>2, <2>3, <2>4
<1>3. CASE AccessChecked
  <2> DEFINE q == [mikes EXCEPT !.checking = "no"]
  <2>1. MikeGood(q, capture) BY CheckingGood
  <2>2. mikes' = q \/ mikes' = ClearDenial(q) BY <1>3 DEF AccessChecked
  <2> HIDE DEF q
  <2> QED BY <1>1, <2>1, <2>2, ClearDenialGood
<1> QED BY <1>2, <1>3

LEMMA TakesGood ==
  ASSUME MikeGood(mikes, capture), TakeOpens \/ \E m \in DOMAIN mikes.calls : TakeCloses(m)
  PROVE  MikeGood(mikes', capture')
<1>1. CASE TakeOpens
  <2>1. MikeGood(OpenMicrophone(mikes, "take", 0), capture) BY AskMikeGood
  <2> QED BY <1>1, <2>1 DEF TakeOpens, Mike
<1>2. ASSUME NEW m \in DOMAIN mikes.calls, TakeCloses(m)
      PROVE  MikeGood(mikes', capture')
  <2> DEFINE q == [mikes EXCEPT !.takes = mikes.takes \ {m}]
  <2>1. mikes \in Pages BY DEF MikeGood, Shared, Loose
  <2>2. /\ q \in Pages /\ AlikeShared(mikes, q) /\ AlikePreview(mikes, q)
        /\ q.takes = mikes.takes \ {m}
    BY <2>1 DEF Pages, AlikeShared, AlikePreview
  <2>3. mikes' = CloseMicrophone(q, m) /\ capture' = capture
    BY <1>2, <2>1 DEF TakeCloses, Mike, Pages
  <2> HIDE DEF q
  <2>4. Shared(q, capture) /\ Preview(q) BY <2>2, SharedAlike, PreviewSame DEF MikeGood
  <2>5. Owned(q, {m}) BY <2>2 DEF MikeGood, Owned, AlikeShared, AlikePreview
  <2> QED BY <2>3, <2>4, <2>5, CloseGood
<1> QED BY <1>1, <1>2

\* An opening comes a step further.
LEMMA OpeningsGood ==
  ASSUME MikeGood(mikes, capture), NEW m \in DOMAIN mikes.calls,
         ModuleLoaded(m) \/ MikeReady(m)
  PROVE  MikeGood(mikes', capture')
<1>1. /\ capture' = capture /\ mikes \in Pages
      /\ mikes.calls[m].stage \in {"loading", "ready"}
  BY DEF ModuleLoaded, MikeReady, Mike, MikeGood, Shared, Loose
<1>2. Unasked(mikes, capture, m)
  <2>1. ~IsAsked(mikes, m) BY <1>1 DEF IsAsked
  <2> QED BY <2>1, NotAsked DEF MikeGood
<1>3. CASE mikes' = Failed(mikes, m, FALSE)
  <2>1. MikeGood(Failed(mikes, m, FALSE), capture) BY <1>1, <1>2, FailedGood
  <2> QED BY <1>1, <1>3, <2>1
<1>4. CASE MikeReady(m) /\ mikes' = Opened(mikes, m)
  BY <1>1, <1>4, OpenedMikeGood DEF MikeReady
<1>5. CASE /\ ModuleLoaded(m)
           /\ mikes' = [mikes EXCEPT !.calls[m].stage = "asked",
                                     !.posted = Append(@, StartCapturing(m))]
  <2>1. mikes.calls[m].stage = "loading" BY <1>5 DEF ModuleLoaded
  <2>2. Shared(mikes', capture) BY <1>5, <2>1, WaitShared DEF MikeGood
  <2> DEFINE q == [mikes EXCEPT !.calls[m].stage = "asked",
                                !.posted = Append(@, StartCapturing(m))]
  <2>3. /\ DOMAIN mikes'.calls = DOMAIN mikes.calls
        /\ mikes'.calls[m].by = mikes.calls[m].by
        /\ mikes'.calls[m].input = mikes.calls[m].input
        /\ \A n \in DOMAIN mikes.calls : n # m => mikes'.calls[n] = mikes.calls[n]
        /\ mikes'.sources = mikes.sources
        /\ mikes'.up = mikes.up /\ mikes'.life = mikes.life
        /\ mikes'.generation = mikes.generation /\ mikes'.active = mikes.active
        /\ mikes'.inputs = mikes.inputs /\ mikes'.takes = mikes.takes
    <3>1. mikes' = q BY <1>5, SMTT(60)
    <3>2. DOMAIN q.calls = DOMAIN mikes.calls BY <1>1, WaitFields
    <3>3. q.calls[m].by = mikes.calls[m].by BY <1>1, WaitFields
    <3>4. q.calls[m].input = mikes.calls[m].input BY <1>1, WaitFields
    <3>5. \A n \in DOMAIN mikes.calls : n # m => q.calls[n] = mikes.calls[n]
      BY <1>1, WaitFields
    <3>6. /\ q.sources = mikes.sources
          /\ q.up = mikes.up /\ q.life = mikes.life
          /\ q.generation = mikes.generation /\ q.active = mikes.active
          /\ q.inputs = mikes.inputs /\ q.takes = mikes.takes
      BY <1>1 DEF Pages
    <3> HIDE DEF q
    <3> QED BY <3>1, <3>2, <3>3, <3>4, <3>5, <3>6, SMTT(60)
  <2>4. \A n : Asking(mikes', n) =>
          Asking(mikes, n) /\ mikes'.calls[n].input = mikes.calls[n].input
    BY <2>1, <2>3 DEF Asking
  <2>5. Preview(mikes') BY <2>3, <2>4, PreviewAlike DEF MikeGood
  <2>6. Owned(mikes', {}) BY <2>3 DEF MikeGood, Owned
  <2> QED BY <1>1, <2>2, <2>5, <2>6 DEF MikeGood
<1> QED BY <1>3, <1>4, <1>5 DEF ModuleLoaded, MikeReady

LEMMA AnswerHeardGood ==
  ASSUME MikeGood(mikes, capture), AnswerHeard
  PROVE  MikeGood(mikes', capture')
<1> DEFINE answer == Head(capture.answers)
           m == answer.mike
           d == [capture EXCEPT !.answers = Tail(@)]
           q == Readied(mikes, m, answer.session)
<1>1. /\ capture.answers # <<>> /\ capture' = d
      /\ mikes' = IF answer.ok THEN q ELSE Failed(mikes, m, answer.denied)
  BY DEF AnswerHeard, Readied
<1>2. mikes \in Pages /\ capture.answers \in Seq(StartAnswers)
  BY DEF MikeGood, Shared, Loose, Captures
<1>3. answer \in StartAnswers BY <1>1, <1>2, TailFacts
<1>4. answer.denied \in BOOLEAN /\ answer.session \in Nat BY <1>3 DEF StartAnswers
<1>5. /\ Shared(mikes, d) /\ Unasked(mikes, d, m) /\ IsAsked(mikes, m)
  BY <1>1, HearShared DEF MikeGood
<1>6. MikeGood(mikes, d) BY <1>5 DEF MikeGood
<1>7. m \in DOMAIN mikes.calls /\ mikes.calls[m].stage = "asked" BY <1>5 DEF IsAsked
<1>8. CASE ~answer.ok
  <2> HIDE DEF d, answer
  <2>1. mikes.calls[m].stage # "none" BY <1>7
  <2>2. MikeGood(Failed(mikes, m, answer.denied), d)
    BY <1>4, <1>5, <1>6, <1>7, <2>1, FailedGood
  <2> QED BY <1>1, <1>8, <2>2
<1>9. CASE answer.ok
  <2>1. Shared(q, d) BY <1>1, <1>9, ReadiedShared DEF MikeGood
  <2> HIDE DEF d, answer
  <2>2. /\ DOMAIN q.calls = DOMAIN mikes.calls
        /\ q.calls[m].by = mikes.calls[m].by
        /\ q.calls[m].input = mikes.calls[m].input
        /\ \A n \in DOMAIN mikes.calls : n # m => q.calls[n] = mikes.calls[n]
    <3>1. DOMAIN q.calls = DOMAIN mikes.calls BY <1>2, <1>4, <1>7, ReadiedFields, Zenon
    <3>2. q.calls[m].by = mikes.calls[m].by BY <1>2, <1>4, <1>7, ReadiedFields, Zenon
    <3>3. q.calls[m].input = mikes.calls[m].input BY <1>2, <1>4, <1>7, ReadiedFields, Zenon
    <3>4. \A n \in DOMAIN mikes.calls : n # m => q.calls[n] = mikes.calls[n]
      BY <1>2, <1>4, <1>7, ReadiedFields, ZenonT(60)
    <3> QED BY <3>1, <3>2, <3>3, <3>4
  <2>3. /\ q.sources = mikes.sources
        /\ q.up = mikes.up /\ q.life = mikes.life
        /\ q.generation = mikes.generation /\ q.active = mikes.active
        /\ q.inputs = mikes.inputs /\ q.takes = mikes.takes
    BY <1>2, <1>4, <1>7, ReadiedFields, ZenonT(60)
  <2>4. mikes.calls[m].stage # "none" BY <1>7
  <2> HIDE DEF q
  <2>5. \A n : Asking(q, n) =>
          Asking(mikes, n) /\ q.calls[n].input = mikes.calls[n].input
    BY <2>2, <2>4 DEF Asking
  <2>6. Preview(q) BY <2>3, <2>5, PreviewAlike DEF MikeGood
  <2>7. Owned(q, {}) BY <2>3 DEF MikeGood, Owned
  <2>8. mikes' = q BY <1>1, <1>9
  <2> QED BY <1>1, <2>1, <2>6, <2>7, <2>8 DEF MikeGood
<1> QED BY <1>8, <1>9

LEMMA ChunkHeardGood ==
  ASSUME MikeGood(mikes, capture), ChunkHeard
  PROVE  MikeGood(mikes', capture')
<1>1. /\ mikes \in Pages /\ capture.session \in Nat /\ Shared(mikes, capture)
  BY DEF MikeGood, Shared, Loose, Captures
<1>2. mikes' = [mikes EXCEPT !.current = capture.session] /\ capture' = capture
  BY DEF ChunkHeard, Mike
<1>3. /\ mikes' \in Pages /\ AlikePreview(mikes, mikes') /\ mikes'.takes = mikes.takes
      /\ mikes'.platform = mikes.platform /\ mikes'.opening = mikes.opening
      /\ mikes'.sources = mikes.sources /\ mikes'.tracks = mikes.tracks
      /\ mikes'.session = mikes.session /\ mikes'.graph = mikes.graph
      /\ mikes'.current = capture.session /\ mikes'.minimum = mikes.minimum
      /\ mikes'.posted = mikes.posted
  BY <1>1, <1>2 DEF Pages, AlikePreview
<1>4. mikes'.calls = mikes.calls BY <1>3 DEF AlikePreview
<1>5. Placed(mikes') /\ Underway(mikes', capture)
  BY <1>1, <1>3, <1>4 DEF Shared, Loose, Placed, Underway, IsAsked
<1>6. StopsFirst(mikes', capture)
  BY <1>1, <1>3, <1>4 DEF Shared, Loose, StopsFirst, Stopping, IsReady
<1>7. AnswerHolds(mikes', capture)
  BY <1>1, <1>3, <1>4 DEF Shared, Loose, AnswerHolds, IsReady
<1>8. LetThrough(mikes', capture)
  BY <1>1, <1>3 DEF Shared, Loose, LetThrough, Stopping
<1>9. TracksHeld(mikes', capture)
  BY <1>1, <1>3, <1>4 DEF Shared, Loose, TracksHeld
<1>10. Shared(mikes', capture)
  BY <1>1, <1>3, <1>5, <1>6, <1>7, <1>8, <1>9 DEF Shared, Loose, Stopping
<1>11. Preview(mikes') BY <1>3, PreviewSame DEF MikeGood
<1>12. Owned(mikes', {}) BY <1>3 DEF MikeGood, Owned, AlikePreview
<1> QED BY <1>2, <1>10, <1>11, <1>12 DEF MikeGood

LEMMA NativeGood ==
  ASSUME MikeGood(mikes, capture),
         \/ MessageReceived \/ SettingsAllow
         \/ \E granted \in BOOLEAN :
              AndroidAllows(granted) \/ IosAllows(granted) \/ WebAllows(granted)
  PROVE  MikeGood(mikes', capture')
<1>1. CASE MessageReceived
  <2>1. Shared(mikes', capture') BY <1>1, MessageShared DEF MikeGood
  <2>2. mikes \in Pages /\ mikes' = [mikes EXCEPT !.posted = Tail(@)]
    BY <1>1 DEF MikeGood, Shared, Loose, MessageReceived
  <2>3. AlikePreview(mikes, mikes') /\ mikes'.takes = mikes.takes /\ mikes'.sources = mikes.sources
    BY <2>2 DEF Pages, AlikePreview
  <2>4. Preview(mikes') BY <2>3, PreviewSame DEF MikeGood
  <2>5. Owned(mikes', {}) BY <2>3 DEF MikeGood, Owned, AlikePreview
  <2> QED BY <2>1, <2>4, <2>5 DEF MikeGood
<1>2. CASE SettingsAllow
  BY <1>2, SettingsShared DEF MikeGood
<1>3. ASSUME NEW granted \in BOOLEAN,
             AndroidAllows(granted) \/ IosAllows(granted) \/ WebAllows(granted)
      PROVE  MikeGood(mikes', capture')
  BY <1>3, AllowsShared DEF MikeGood
<1> QED BY <1>1, <1>2, <1>3

\* What is known of the microphones is enough.
LEMMA GoodShares == MikeGood(mikes, capture) => MicrophonesShared
<1> SUFFICES ASSUME MikeGood(mikes, capture) PROVE MicrophonesShared
  OBVIOUS
<1>1. ASSUME NEW m \in mikes.sources
      PROVE  (m = mikes.active \/ m \in mikes.takes) /\ (Hears(m) \/ capture.halted)
  <2>1. m = mikes.active \/ m \in mikes.takes BY DEF MikeGood, Owned
  <2>2. ~Stopping(mikes) BY DEF MikeGood, Shared, Loose, StopsFirst
  <2>3. mikes.platform \in Platforms /\ capture.session \in Nat /\ mikes.minimum \in Nat
    BY DEF MikeGood, Shared, Loose, Pages, Captures
  <2>4. CASE mikes.platform = "web"
    BY <2>1, <2>4 DEF MikeGood, Shared, Loose, TracksHeld, Hears
  <2>5. CASE mikes.platform = "android"
    BY <2>1, <2>5 DEF MikeGood, Shared, Loose, AnswerHolds, Hears
  <2>6. CASE mikes.platform = "ios"
    BY <2>1, <2>2, <2>3, <2>6 DEF MikeGood, Shared, Loose, AnswerHolds, LetThrough, Hears
  <2> QED BY <2>1, <2>3, <2>4, <2>5, <2>6 DEF Platforms
<1>2. mikes.sources = {} /\ mikes.opening = {} /\ mikes.posted = <<>> => ~Capturing
  BY DEF MikeGood, Shared, Loose, TracksHeld, Stopping, Capturing
<1> QED BY <1>1, <1>2 DEF MicrophonesShared

\* Every step keeps the invariant.
LEMMA MikeStepGood ==
  MikeGood(mikes, capture) /\ [MikeNext]_mikeVars => MikeGood(mikes', capture')
<1> SUFFICES ASSUME MikeGood(mikes, capture), [MikeNext]_mikeVars
             PROVE  MikeGood(mikes', capture')
  OBVIOUS
<1>1. CASE UNCHANGED mikeVars BY <1>1 DEF mikeVars
<1>2. CASE PreviewOpens BY <1>2, PreviewOpensGood
<1>3. CASE PreviewCloses BY <1>3, PreviewClosesGood
<1>4. CASE DeviceChosen BY <1>4, OpenInputGood DEF DeviceChosen, Mike
<1>5. CASE \E i \in DOMAIN mikes.inputs : ClockAwake(i) \/ DevicesListed(i) \/ DevicesListedAgain(i)
  BY <1>5, InputStepsGood
<1>6. CASE TakeOpens \/ \E m \in DOMAIN mikes.calls : TakeCloses(m) BY <1>6, TakesGood
<1>7. CASE Recheck \/ AccessChecked BY <1>7, ChecksGood
<1>8. CASE \E m \in DOMAIN mikes.calls : ModuleLoaded(m) \/ MikeReady(m)
  BY <1>8, OpeningsGood
<1>9. CASE AnswerHeard BY <1>9, AnswerHeardGood
<1>10. CASE ChunkHeard BY <1>10, ChunkHeardGood
<1>11. CASE \/ MessageReceived \/ SettingsAllow
            \/ \E granted \in BOOLEAN :
                 AndroidAllows(granted) \/ IosAllows(granted) \/ WebAllows(granted)
  BY <1>11, NativeGood
<1> QED
  BY <1>1, <1>2, <1>3, <1>4, <1>5, <1>6, <1>7, <1>8, <1>9, <1>10, <1>11 DEF MikeNext, MikeStep

\* However the preview, the takes and the check of the access share the
\* microphone: who has one is heard and has an owner who closes it, and nothing
\* is captured for nobody (preview.ts openInput, native.ts and android.ts
\* openMicrophone and stopCapture, MicrophoneBridge.kt, MicrophoneCapture.swift).
THEOREM MikesCorrect == MikeSpec => []MicrophonesShared
<1>1. MikeInit => MikeGood(mikes, capture) BY MikeInitGood
<1>2. MikeGood(mikes, capture) /\ [MikeNext]_mikeVars => MikeGood(mikes, capture)'
  BY MikeStepGood
<1>3. MikeGood(mikes, capture) => MicrophonesShared BY GoodShares
<1> QED BY <1>1, <1>2, <1>3, PTL DEF MikeSpec

-----------------------------------------------------------------------------
(* The room that shares a player: what comes after what in a sequence.      *)

LEMMA Appended ==
  ASSUME NEW S, NEW q \in Seq(S), NEW e \in S, NEW r, r = Append(q, e)
  PROVE  /\ r \in Seq(S) /\ Len(q) \in Nat
         /\ DOMAIN q = 1..Len(q) /\ DOMAIN r = 1..(Len(q) + 1)
         /\ \A i \in DOMAIN q : i \in DOMAIN r /\ r[i] = q[i]
         /\ r[Len(q) + 1] = e /\ Len(q) + 1 \in DOMAIN r
         /\ \A i \in DOMAIN r : i \in DOMAIN q \/ i = Len(q) + 1
OBVIOUS

LEMMA Tailed ==
  ASSUME NEW S, NEW q \in Seq(S), q # <<>>, NEW r, r = Tail(q)
  PROVE  /\ r \in Seq(S) /\ Head(q) \in S /\ Len(q) \in Nat /\ Len(q) >= 1
         /\ DOMAIN q = 1..Len(q) /\ DOMAIN r = 1..(Len(q) - 1)
         /\ Head(q) = q[1] /\ 1 \in DOMAIN q
         /\ \A i \in DOMAIN r : i \in Nat /\ i >= 1 /\ i + 1 \in DOMAIN q /\ r[i] = q[i + 1]
         /\ \A i \in DOMAIN q : i = 1 \/ (i \in Nat /\ i > 1 /\ i - 1 \in DOMAIN r /\ q[i] = r[i - 1])
<1>1. Len(q) >= 1 /\ Len(q) \in Nat
  BY EmptySeq
<1>2. r \in Seq(S) /\ Len(r) = Len(q) - 1 /\ \A i \in 1..Len(r) : r[i] = q[i + 1]
  BY <1>1
<1> QED
  BY <1>1, <1>2

-----------------------------------------------------------------------------
(* The mail of the room, and what binds a page to it.                       *)

\* What the server tells a member, and what a member asks of it.
Says ==
    [kind : {"play", "stop"}]
        \cup [kind : {"sync"}, active : BOOLEAN, at : Nat, revision : Nat]
        \cup [kind : {"position"}, at : Nat, revision : Nat, user : BOOLEAN]
        \cup [kind : {"revision"}, revision : Nat]
Asks ==
    [kind : {"play", "stop", "sync"}] \cup [kind : {"move"}, at : Nat]
        \cup [kind : {"report"}, at : Nat, revision : Nat]
PlayPages ==
    [here : BOOLEAN, playing : BOOLEAN, slave : BOOLEAN, at : Nat, moved : BOOLEAN,
     revision : Nat, command : BOOLEAN, waking : BOOLEAN,
     awaits : {"nothing", "stop", "follow", "sync", "echo"}, sync : Seq(Says),
     known : Nat, reports : BOOLEAN, told : [at : Nat, revision : Nat]]
Boxes == [up : Seq(Asks), down : Seq(Says), page : Seq(Says)]
RoomType ==
    /\ member \in [Members -> PlayPages] /\ net \in [Members -> Boxes]
    /\ shared \in [exists : BOOLEAN, master : Nat, at : Nat, revision : Nat]
    /\ history \in [presses : Nat, comings : Nat, seeks : Nat,
                    late : BOOLEAN, overtaken : BOOLEAN]

\* What a page has still to hear, in order; what of it makes a follower, and what
\* of it says whether one is.
Way(mailbox) == mailbox.page \o mailbox.down
Bids(msg) == msg.kind = "play" \/ (msg.kind = "sync" /\ msg.active)
Rests(msg) == msg.kind = "sync" /\ ~msg.active
Turns(msg) == msg.kind \in {"play", "stop", "sync"}
Still(w) == \A i \in DOMAIN w : ~Turns(w[i])
LastBids(w) == \E i \in DOMAIN w : Bids(w[i]) /\ \A j \in DOMAIN w : j > i => ~Turns(w[j])
FirstRests(w) == \E i \in DOMAIN w : Rests(w[i]) /\ \A j \in DOMAIN w : j < i => ~Turns(w[j])
NoHalt(w) == \A i \in DOMAIN w : ~Halts(w[i])
Asked(q, k) == \E i \in DOMAIN q : q[i].kind = k
StopsLast(q) ==
    \E i \in DOMAIN q : q[i].kind = "stop" /\ \A j \in DOMAIN q : j > i => q[j].kind # "play"
SyncFirst(q) == \A i \in DOMAIN q : q[i].kind = "sync" => i = 1

\* A room at rest is told of behind a stop: who was made a follower has been
\* stopped before.
Stepwise(w) ==
    \A i, j \in DOMAIN w : j < i /\ Bids(w[j]) /\ Rests(w[i]) =>
      \E k \in DOMAIN w : j < k /\ k < i /\ Turns(w[k])

\* Once all is heard the page follows.
Minds(p, w) ==
    LastBids(w) \/ (Still(w) /\ (p.awaits \in {"follow", "sync"} \/ p.slave))
\* It does not follow yet: it has asked for the state, or it stops the room.
Excused(p, w, up) ==
    Still(w) /\ (p.awaits = "stop" \/ Asked(up, "stop") \/ Asked(up, "sync"))
Slaved(s, m) == s.master # NoMaster /\ s.master # m

\* A page minds, or is excused, exactly as long as somebody else is the master; and
\* who has claimed the room, or has it, plays unless it stops again.
Minding(p, mailbox, s, m) ==
    /\ Minds(p, Way(mailbox)) => Slaved(s, m)
    /\ Slaved(s, m) => Minds(p, Way(mailbox)) \/ Excused(p, Way(mailbox), mailbox.up)
Heeding(p, mailbox) ==
    /\ Stepwise(Way(mailbox))
    /\ FirstRests(Way(mailbox)) => p.awaits \notin {"follow", "sync"}
    /\ p.awaits = "sync" =>
         p.sync # <<>> /\ Head(p.sync).kind = "sync" /\ Head(p.sync).active
Joining(mailbox, s, m) == SyncFirst(mailbox.up) /\ (Asked(mailbox.up, "sync") => s.master # m)
Leading(p, mailbox, s, m) ==
    /\ Asked(mailbox.up, "play") \/ s.master = m =>
         p.playing \/ p.awaits = "stop" \/ StopsLast(mailbox.up)
    /\ s.master = m => NoHalt(Way(mailbox))
Fits(p, mailbox, s, m, late) ==
    /\ Minding(p, mailbox, s, m) /\ Heeding(p, mailbox) /\ Joining(mailbox, s, m)
    /\ ~late => Leading(p, mailbox, s, m)
Absent(p, mailbox) == mailbox = NoMail /\ p.awaits = "nothing" /\ ~p.waking

RoomInv ==
    /\ RoomType
    /\ shared.master # NoMaster =>
         shared.exists /\ shared.master \in Members /\ member[shared.master].here
    /\ \A m \in Members :
         IF member[m].here THEN Fits(member[m], net[m], shared, m, history.late)
                           ELSE Absent(member[m], net[m])

-----------------------------------------------------------------------------
(* What a page has to hear, and what it asks.                              *)

LEMMA SayFacts ==
  ASSUME NEW e \in Says
  PROVE  /\ Turns(e) <=> Bids(e) \/ Halts(e)
         /\ ~(Bids(e) /\ Halts(e))
         /\ Rests(e) => Halts(e) /\ Turns(e)
         /\ Bids(e) => Turns(e) /\ ~Rests(e)
BY DEF Says, Turns, Bids, Halts, Rests

LEMMA WaySent ==
  ASSUME NEW w \in Seq(Says), NEW e \in Says, NEW v, v = Append(w, e)
  PROVE  /\ v \in Seq(Says)
         /\ Turns(e) => ~Still(v) /\ (LastBids(v) <=> Bids(e))
         /\ ~Turns(e) => (Still(v) <=> Still(w)) /\ (LastBids(v) <=> LastBids(w))
         /\ FirstRests(v) => FirstRests(w) \/ (Rests(e) /\ Still(w))
         /\ Stepwise(w) /\ (Rests(e) => ~LastBids(w)) => Stepwise(v)
         /\ NoHalt(w) /\ ~Halts(e) => NoHalt(v)
<1> DEFINE n == Len(w) + 1
<1>1. /\ v \in Seq(Says) /\ n \in DOMAIN v /\ v[n] = e /\ n \in Nat
      /\ \A i \in DOMAIN w : i \in DOMAIN v /\ v[i] = w[i] /\ i \in Nat /\ i < n
      /\ \A i \in DOMAIN v : i \in DOMAIN w \/ i = n
  BY Appended
<1> HIDE DEF n
<1>2. /\ Rests(e) => Turns(e)
      /\ Bids(e) => Turns(e) /\ ~Rests(e)
      /\ \A i \in DOMAIN w : w[i] \in Says /\ (Bids(w[i]) => Turns(w[i])) /\ (Rests(w[i]) => Turns(w[i]))
  BY SayFacts
<1>3. Turns(e) => ~Still(v) /\ (LastBids(v) <=> Bids(e))
  BY <1>1 DEF Still, LastBids
<1>4. ~Turns(e) => (Still(v) <=> Still(w))
  BY <1>1 DEF Still
<1>5. ~Turns(e) => (LastBids(v) <=> LastBids(w))
  BY <1>1, <1>2 DEF LastBids
<1>6. FirstRests(v) => FirstRests(w) \/ (Rests(e) /\ Still(w))
  BY <1>1 DEF FirstRests, Still
<1>7. ASSUME Stepwise(w), Rests(e) => ~LastBids(w) PROVE Stepwise(v)
  <2> SUFFICES ASSUME NEW i \in DOMAIN v, NEW j \in DOMAIN v, j < i, Bids(v[j]), Rests(v[i])
               PROVE  \E k \in DOMAIN v : j < k /\ k < i /\ Turns(v[k])
    BY DEF Stepwise
  <2>1. j \in DOMAIN w
    BY <1>1
  <2>2. CASE i \in DOMAIN w
    BY <1>1, <1>7, <2>1, <2>2 DEF Stepwise
  <2>3. CASE i = n
    <3>1. ~LastBids(w)
      BY <1>1, <1>7, <2>3
    <3>2. \E k \in DOMAIN w : k > j /\ Turns(w[k])
      BY <1>1, <2>1, <3>1 DEF LastBids
    <3> QED
      BY <1>1, <2>1, <2>3, <3>2
  <2> QED
    BY <1>1, <2>2, <2>3
<1>8. NoHalt(w) /\ ~Halts(e) => NoHalt(v)
  BY <1>1 DEF NoHalt
<1> QED
  BY <1>1, <1>3, <1>4, <1>5, <1>6, <1>7, <1>8

LEMMA WayHeard ==
  ASSUME NEW w \in Seq(Says), w # <<>>, NEW v, v = Tail(w)
  PROVE  LET h == Head(w) IN
         /\ v \in Seq(Says) /\ h \in Says
         /\ ~Turns(h) => /\ (Still(w) <=> Still(v)) /\ (LastBids(w) <=> LastBids(v))
                         /\ FirstRests(v) => FirstRests(w)
         /\ Turns(h) => ~Still(w) /\ (LastBids(w) <=> LastBids(v) \/ (Still(v) /\ Bids(h)))
         /\ FirstRests(v) /\ Stepwise(w) => ~Bids(h)
         /\ Rests(h) => FirstRests(w)
         /\ Stepwise(w) => Stepwise(v)
         /\ NoHalt(w) => NoHalt(v) /\ ~Halts(h)
<1> DEFINE h == Head(w)
           low(i) == i - 1
           up(i) == i + 1
<1>1. /\ v \in Seq(Says) /\ h \in Says /\ h = w[1] /\ 1 \in DOMAIN w
      /\ \A i \in DOMAIN v : i \in Nat /\ i >= 1 /\ up(i) \in DOMAIN w /\ v[i] = w[up(i)]
      /\ \A i \in DOMAIN w : i = 1 \/ (i \in Nat /\ i > 1 /\ low(i) \in DOMAIN v /\ w[i] = v[low(i)])
  BY Tailed
<1>2. /\ \A i, j \in Nat : (i < j <=> up(i) < up(j)) /\ up(i) > 1 - 1 /\ up(i) \in Nat
      /\ \A i, j \in Nat : i > 1 /\ j > 1 => (i < j <=> low(i) < low(j)) /\ low(i) \in Nat
      /\ \A i \in Nat : i >= 1 => up(i) > 1
      /\ \A i \in Nat : low(up(i)) = i /\ up(low(i)) = i
  OBVIOUS
<1> HIDE DEF low, up, h
<1>3. /\ Rests(h) => Turns(h)
      /\ Bids(h) => Turns(h)
      /\ \A i \in DOMAIN v : v[i] \in Says /\ (Bids(v[i]) => Turns(v[i])) /\ (Rests(v[i]) => Turns(v[i]))
  BY <1>1, SayFacts
<1>4. Still(w) <=> Still(v) /\ ~Turns(h)
  BY <1>1 DEF Still
<1>5. LastBids(w) <=> LastBids(v) \/ (Still(v) /\ Bids(h))
  <2>1. ASSUME LastBids(w) PROVE LastBids(v) \/ (Still(v) /\ Bids(h))
    <3>1. PICK i \in DOMAIN w : Bids(w[i]) /\ \A j \in DOMAIN w : j > i => ~Turns(w[j])
      BY <2>1 DEF LastBids
    <3>2. CASE i = 1
      <4>1. \A k \in DOMAIN v : up(k) > 1 /\ ~Turns(v[k])
        BY <1>1, <1>2, <3>1, <3>2
      <4> QED
        BY <1>1, <3>1, <3>2, <4>1 DEF Still
    <3>3. CASE i # 1
      <4>1. low(i) \in DOMAIN v /\ Bids(v[low(i)]) /\ i \in Nat /\ i > 1
        BY <1>1, <3>1, <3>3
      <4>2. \A k \in DOMAIN v : k > low(i) => up(k) > i
        BY <1>1, <1>2, <4>1
      <4> QED
        BY <1>1, <3>1, <4>1, <4>2 DEF LastBids
    <3> QED
      BY <3>2, <3>3
  <2>2. ASSUME LastBids(v) PROVE LastBids(w)
    <3>1. PICK i \in DOMAIN v : Bids(v[i]) /\ \A j \in DOMAIN v : j > i => ~Turns(v[j])
      BY <2>2 DEF LastBids
    <3>2. \A k \in DOMAIN w : k > up(i) => k # 1 /\ low(k) > i
      BY <1>1, <1>2
    <3> QED
      BY <1>1, <3>1, <3>2 DEF LastBids
  <2>3. ASSUME Still(v), Bids(h) PROVE LastBids(w)
    <3>1. \A k \in DOMAIN w : k > 1 => ~Turns(w[k])
      BY <1>1, <2>3 DEF Still
    <3> QED
      BY <1>1, <2>3, <3>1 DEF LastBids
  <2> QED
    BY <2>1, <2>2, <2>3
<1>6. ASSUME FirstRests(v) PROVE (~Turns(h) => FirstRests(w)) /\ (Stepwise(w) => ~Bids(h))
  <2>1. PICK i \in DOMAIN v : Rests(v[i]) /\ \A j \in DOMAIN v : j < i => ~Turns(v[j])
    BY <1>6 DEF FirstRests
  <2>2. /\ up(i) \in DOMAIN w /\ Rests(w[up(i)]) /\ 1 < up(i)
        /\ \A k \in DOMAIN w : 1 < k /\ k < up(i) => ~Turns(w[k])
    <3>1. \A k \in DOMAIN w : 1 < k /\ k < up(i) => k # 1 /\ low(k) < i
      BY <1>1, <1>2
    <3> QED
      BY <1>1, <1>2, <2>1, <3>1
  <2>3. ~Turns(h) => FirstRests(w)
    <3>1. \A k \in DOMAIN w : k = 1 \/ 1 < k
      BY <1>1
    <3> QED
      BY <1>1, <2>2, <3>1 DEF FirstRests
  <2>4. Stepwise(w) => ~Bids(h)
    BY <1>1, <2>2 DEF Stepwise
  <2> QED
    BY <2>3, <2>4
<1>7. Rests(h) => FirstRests(w)
  BY <1>1 DEF FirstRests
<1>8. ASSUME Stepwise(w) PROVE Stepwise(v)
  <2> SUFFICES ASSUME NEW i \in DOMAIN v, NEW j \in DOMAIN v, j < i, Bids(v[j]), Rests(v[i])
               PROVE  \E k \in DOMAIN v : j < k /\ k < i /\ Turns(v[k])
    BY DEF Stepwise
  <2>1. PICK k \in DOMAIN w : up(j) < k /\ k < up(i) /\ Turns(w[k])
    BY <1>1, <1>2, <1>8 DEF Stepwise
  <2>2. up(j) > 1 /\ up(j) \in Nat /\ up(i) \in Nat /\ low(up(i)) = i /\ low(up(j)) = j /\ up(i) > 1
    BY <1>1, <1>2
  <2>3. k # 1 /\ k \in Nat /\ k > 1
    BY <1>1, <2>1, <2>2
  <2>4. j < low(k) /\ low(k) < i
    BY <1>2, <2>1, <2>2, <2>3
  <2> QED
    BY <1>1, <2>1, <2>3, <2>4
<1>9. NoHalt(w) => NoHalt(v) /\ ~Halts(h)
  BY <1>1 DEF NoHalt
<1> QED
  BY <1>1, <1>3, <1>4, <1>5, <1>6, <1>7, <1>8, <1>9 DEF h

LEMMA AskSent ==
  ASSUME NEW q \in Seq(Asks), NEW e \in Asks, NEW r, r = Append(q, e)
  PROVE  /\ r \in Seq(Asks)
         /\ \A k : Asked(r, k) <=> Asked(q, k) \/ e.kind = k
         /\ e.kind = "stop" \/ (StopsLast(q) /\ e.kind # "play") => StopsLast(r)
         /\ SyncFirst(q) /\ e.kind # "sync" => SyncFirst(r)
<1> DEFINE n == Len(q) + 1
<1>1. /\ r \in Seq(Asks) /\ n \in DOMAIN r /\ r[n] = e /\ n \in Nat
      /\ \A i \in DOMAIN q : i \in DOMAIN r /\ r[i] = q[i] /\ i \in Nat /\ i < n
      /\ \A i \in DOMAIN r : i \in DOMAIN q \/ i = n
  BY Appended
<1> HIDE DEF n
<1>2. \A k : Asked(r, k) <=> Asked(q, k) \/ e.kind = k
  BY <1>1 DEF Asked
<1>3. e.kind = "stop" \/ (StopsLast(q) /\ e.kind # "play") => StopsLast(r)
  BY <1>1 DEF StopsLast
<1>4. SyncFirst(q) /\ e.kind # "sync" => SyncFirst(r)
  BY <1>1 DEF SyncFirst
<1> QED
  BY <1>1, <1>2, <1>3, <1>4

LEMMA AskServed ==
  ASSUME NEW q \in Seq(Asks), q # <<>>, NEW r, r = Tail(q)
  PROVE  LET h == Head(q) IN
         /\ r \in Seq(Asks) /\ h \in Asks
         /\ \A k : Asked(q, k) <=> Asked(r, k) \/ h.kind = k
         /\ StopsLast(q) => StopsLast(r) \/ (h.kind = "stop" /\ ~Asked(r, "play"))
         /\ SyncFirst(q) => SyncFirst(r) /\ ~Asked(r, "sync")
<1> DEFINE h == Head(q)
           low(i) == i - 1
           up(i) == i + 1
<1>1. /\ r \in Seq(Asks) /\ h \in Asks /\ h = q[1] /\ 1 \in DOMAIN q
      /\ \A i \in DOMAIN r : i \in Nat /\ i >= 1 /\ up(i) \in DOMAIN q /\ r[i] = q[up(i)]
      /\ \A i \in DOMAIN q : i = 1 \/ (i \in Nat /\ i > 1 /\ low(i) \in DOMAIN r /\ q[i] = r[low(i)])
  BY Tailed
<1>2. /\ \A i, j \in Nat : i > 1 => (j > low(i) => up(j) > i)
      /\ \A i \in Nat : i >= 1 => up(i) > 1 /\ up(i) # 1
  OBVIOUS
<1> HIDE DEF low, up, h
<1>3. \A k : Asked(q, k) <=> Asked(r, k) \/ h.kind = k
  BY <1>1 DEF Asked
<1>4. ASSUME StopsLast(q) PROVE StopsLast(r) \/ (h.kind = "stop" /\ ~Asked(r, "play"))
  <2>1. PICK i \in DOMAIN q : q[i].kind = "stop" /\ \A j \in DOMAIN q : j > i => q[j].kind # "play"
    BY <1>4 DEF StopsLast
  <2>2. CASE i = 1
    BY <1>1, <1>2, <2>1, <2>2 DEF Asked
  <2>3. CASE i # 1
    <3>1. low(i) \in DOMAIN r /\ q[i] = r[low(i)] /\ i \in Nat /\ i > 1
      BY <1>1, <2>3
    <3>2. \A j \in DOMAIN r : j > low(i) => r[j].kind # "play"
      BY <1>1, <1>2, <2>1, <3>1
    <3> QED
      BY <2>1, <3>1, <3>2 DEF StopsLast
  <2> QED
    BY <2>2, <2>3
<1>5. SyncFirst(q) => SyncFirst(r) /\ ~Asked(r, "sync")
  BY <1>1, <1>2 DEF SyncFirst, Asked
<1> QED
  BY <1>1, <1>3, <1>4, <1>5 DEF h

\* The way of a mailbox: what is sent comes to its end, what is handed on stays on it,
\* what is heard leaves its front.
LEMMA WayFacts ==
  ASSUME NEW b \in Boxes
  PROVE  /\ Way(b) \in Seq(Says)
         /\ \A i \in DOMAIN Way(b) :
              \/ \E j \in DOMAIN b.page : Way(b)[i] = b.page[j]
              \/ \E j \in DOMAIN b.down : Way(b)[i] = b.down[j]
         /\ b.page = <<>> /\ b.down = <<>> => Way(b) = <<>>
         /\ \A c, e : e \in Says /\ c.page = b.page /\ c.down = Append(b.down, e) =>
              Way(c) = Append(Way(b), e)
         /\ \A c : b.down # <<>> /\ c.page = Append(b.page, Head(b.down))
                     /\ c.down = Tail(b.down) => Way(c) = Way(b)
         /\ \A c : b.page # <<>> /\ c.page = Tail(b.page) /\ c.down = b.down =>
              Way(b) # <<>> /\ Way(c) = Tail(Way(b)) /\ Head(Way(b)) = Head(b.page)
<1>1. b.page \in Seq(Says) /\ b.down \in Seq(Says)
  BY DEF Boxes
<1>2. \A p, d \in Seq(Says) :
        /\ p \o d \in Seq(Says) /\ Len(p \o d) = Len(p) + Len(d)
        /\ \A i \in 1..(Len(p) + Len(d)) :
             (p \o d)[i] = IF i <= Len(p) THEN p[i] ELSE d[i - Len(p)]
  OBVIOUS
<1>3. Way(b) \in Seq(Says)
  BY <1>1 DEF Way
<1>4. \A i \in DOMAIN Way(b) :
        \/ \E j \in DOMAIN b.page : Way(b)[i] = b.page[j]
        \/ \E j \in DOMAIN b.down : Way(b)[i] = b.down[j]
  <2> DEFINE p == b.page
             d == b.down
  <2>1. p \in Seq(Says) /\ d \in Seq(Says)
    BY <1>1
  <2> HIDE DEF p, d
  <2> SUFFICES ASSUME NEW i \in DOMAIN (p \o d)
               PROVE  (\E j \in DOMAIN p : (p \o d)[i] = p[j]) \/ (\E j \in DOMAIN d : (p \o d)[i] = d[j])
    BY DEF Way, p, d
  <2>2. i \in 1..(Len(p) + Len(d))
    BY <2>1
  <2>3. CASE i <= Len(p)
    BY <2>1, <2>2, <2>3
  <2>4. CASE i > Len(p)
    <3>1. i - Len(p) \in DOMAIN d /\ (p \o d)[i] = d[i - Len(p)]
      BY <2>1, <2>2, <2>4
    <3> QED
      BY <3>1
  <2> QED
    BY <2>1, <2>2, <2>3, <2>4
<1>5. b.page = <<>> /\ b.down = <<>> => Way(b) = <<>>
  BY DEF Way
<1>6. ASSUME NEW c, NEW e \in Says, c.page = b.page, c.down = Append(b.down, e)
      PROVE  Way(c) = Append(Way(b), e)
  <2> DEFINE p == b.page
             d == b.down
             l == p \o Append(d, e)
             r == Append(p \o d, e)
  <2>1. p \in Seq(Says) /\ d \in Seq(Says)
    BY <1>1
  <2> HIDE DEF p, d
  <2>2. Append(d, e) \in Seq(Says) /\ p \o d \in Seq(Says)
    BY <2>1
  <2>3. Len(l) = Len(r) /\ l \in Seq(Says) /\ r \in Seq(Says)
    BY <2>1, <2>2
  <2>4. \A i \in 1..Len(r) : l[i] = r[i]
    BY <2>1, <2>2
  <2>5. l = r
    BY <2>3, <2>4, SeqEqual
  <2> QED
    BY <1>6, <2>5 DEF Way, p, d
<1>7. ASSUME NEW c, b.down # <<>>, c.page = Append(b.page, Head(b.down)), c.down = Tail(b.down)
      PROVE  Way(c) = Way(b)
  <2> DEFINE p == b.page
             d == b.down
             l == Append(p, Head(d)) \o Tail(d)
             r == p \o d
  <2>1. p \in Seq(Says) /\ d \in Seq(Says) /\ d # <<>>
    BY <1>1, <1>7
  <2> HIDE DEF p, d
  <2>2. Len(d) >= 1 /\ Tail(d) \in Seq(Says) /\ Append(p, Head(d)) \in Seq(Says)
    BY <2>1, EmptySeq
  <2>3. Len(l) = Len(r) /\ l \in Seq(Says) /\ r \in Seq(Says)
    BY <2>1, <2>2
  <2>4. \A i \in 1..Len(r) : l[i] = r[i]
    BY <2>1, <2>2
  <2>5. l = r
    BY <2>3, <2>4, SeqEqual
  <2> QED
    BY <1>7, <2>5 DEF Way, p, d
<1>8. ASSUME NEW c, b.page # <<>>, c.page = Tail(b.page), c.down = b.down
      PROVE  Way(b) # <<>> /\ Way(c) = Tail(Way(b)) /\ Head(Way(b)) = Head(b.page)
  <2> DEFINE p == b.page
             d == b.down
             l == Tail(p) \o d
             r == Tail(p \o d)
  <2>1. p \in Seq(Says) /\ d \in Seq(Says) /\ p # <<>>
    BY <1>1, <1>8
  <2> HIDE DEF p, d
  <2>2. Len(p) >= 1 /\ Tail(p) \in Seq(Says) /\ p \o d \in Seq(Says) /\ Len(p \o d) >= 1
    BY <2>1, EmptySeq
  <2>3. Len(l) = Len(r) /\ l \in Seq(Says) /\ r \in Seq(Says)
    BY <2>1, <2>2
  <2>4. \A i \in 1..Len(r) : l[i] = r[i]
    BY <2>1, <2>2
  <2>5. l = r
    BY <2>3, <2>4, SeqEqual
  <2>6. p \o d # <<>> /\ Head(p \o d) = Head(p)
    BY <2>1, <2>2
  <2> QED
    BY <1>8, <2>5, <2>6 DEF Way, p, d
<1> QED
  BY <1>3, <1>4, <1>5, <1>6, <1>7, <1>8

-----------------------------------------------------------------------------
(* What a message of the server, or a message taken from a member, leaves of *)
(* the bond between a page and the room.                                     *)

\* What is asked still, once the server has taken a message or none.
Left(q, r) ==
    /\ \A k : Asked(r, k) => Asked(q, k)
    /\ SyncFirst(q) => SyncFirst(r)
    /\ StopsLast(q) /\ Asked(r, "play") => StopsLast(r)

LEMMA LeftFacts ==
  ASSUME NEW q \in Seq(Asks), NEW r, r = q \/ (q # <<>> /\ r = Tail(q))
  PROVE  Left(q, r)
<1>1. CASE r = q
  BY <1>1 DEF Left
<1>2. CASE q # <<>> /\ r = Tail(q)
  <2>1. /\ \A k : Asked(q, k) <=> Asked(r, k) \/ Head(q).kind = k
        /\ StopsLast(q) => StopsLast(r) \/ (Head(q).kind = "stop" /\ ~Asked(r, "play"))
        /\ SyncFirst(q) => SyncFirst(r) /\ ~Asked(r, "sync")
    BY <1>2, AskServed
  <2> QED
    BY <2>1 DEF Left
<1> QED
  BY <1>1, <1>2

\* Told of a master, a page will follow it.
LEMMA FitsBid ==
  ASSUME NEW p, NEW b \in Boxes, NEW c, NEW e \in Says, NEW s, NEW t, NEW m, NEW late,
         NEW soon, late => soon,
         Fits(p, b, s, m, late), Left(b.up, c.up),
         c.page = b.page, c.down = Append(b.down, e),
         Bids(e), t.master # NoMaster, t.master # m
  PROVE  Fits(p, c, t, m, soon)
<1> DEFINE w == Way(b)
           v == Way(c)
<1>1. w \in Seq(Says) /\ v = Append(w, e)
  BY WayFacts
<1> HIDE DEF w, v
<1>2. Turns(e) /\ ~Rests(e)
  BY SayFacts
<1>3. /\ LastBids(v) /\ (FirstRests(v) => FirstRests(w))
      /\ Stepwise(w) => Stepwise(v)
  BY <1>1, <1>2, WaySent
<1>4. Minding(p, c, t, m)
  BY <1>3 DEF Minding, Minds, Slaved, v
<1>5. Heeding(p, c)
  BY <1>3 DEF Fits, Heeding, v, w
<1>6. Joining(c, t, m)
  BY DEF Fits, Joining, Left
<1>7. ~soon => Leading(p, c, t, m)
  BY DEF Fits, Leading, Left
<1> QED
  BY <1>4, <1>5, <1>6, <1>7 DEF Fits

\* Told that the room rests, a page will not follow.
LEMMA FitsHalt ==
  ASSUME NEW p, NEW b \in Boxes, NEW c, NEW e \in Says, NEW s, NEW t, NEW m, NEW late,
         NEW soon, late => soon,
         Fits(p, b, s, m, late), Left(b.up, c.up),
         c.page = b.page, c.down = Append(b.down, e), m # NoMaster,
         Halts(e), Rests(e) => s.master = NoMaster, t.master = NoMaster
  PROVE  Fits(p, c, t, m, soon)
<1> DEFINE w == Way(b)
           v == Way(c)
<1>1. w \in Seq(Says) /\ v = Append(w, e)
  BY WayFacts
<1> HIDE DEF w, v
<1>2. Turns(e) /\ ~Bids(e)
  BY SayFacts
<1>3. Rests(e) => ~Minds(p, w)
  BY DEF Fits, Minding, Slaved, w
<1>4. /\ ~LastBids(v) /\ ~Still(v)
      /\ FirstRests(v) => FirstRests(w) \/ (Rests(e) /\ Still(w))
      /\ Stepwise(w) /\ (Rests(e) => ~LastBids(w)) => Stepwise(v)
  BY <1>1, <1>2, WaySent
<1>5. Minding(p, c, t, m)
  BY <1>4 DEF Minding, Minds, Slaved, v
<1>6. Heeding(p, c)
  BY <1>3, <1>4 DEF Fits, Heeding, Minds, v, w
<1>7. Joining(c, t, m)
  BY DEF Fits, Joining, Left
<1>8. ~soon => Leading(p, c, t, m)
  BY DEF Fits, Leading, Left
<1> QED
  BY <1>5, <1>6, <1>7, <1>8 DEF Fits

\* Told nothing, or nothing of who plays, a page stays with the master it has.
LEMMA FitsSame ==
  ASSUME NEW p, NEW b \in Boxes, NEW c, NEW s, NEW t, NEW m, NEW late,
         NEW soon, late => soon,
         Fits(p, b, s, m, late), Left(b.up, c.up), t.master = s.master,
         c.page = b.page,
         c.down = b.down \/ \E e \in Says : ~Turns(e) /\ c.down = Append(b.down, e),
         Slaved(s, m) => \A k \in {"stop", "sync"} : Asked(b.up, k) => Asked(c.up, k),
         StopsLast(b.up) => StopsLast(c.up) \/ s.master # m
  PROVE  Fits(p, c, t, m, soon)
<1> DEFINE w == Way(b)
           v == Way(c)
<1>1. w \in Seq(Says) /\ (v = w \/ \E e \in Says : ~Turns(e) /\ v = Append(w, e))
  BY WayFacts DEF Way
<1> HIDE DEF w, v
<1>2. CASE v = w
  <2>1. Minding(p, c, t, m)
    BY <1>2 DEF Fits, Minding, Excused, Slaved, v, w
  <2>2. Heeding(p, c) /\ Joining(c, t, m)
    BY <1>2 DEF Fits, Heeding, Joining, Left, v, w
  <2>3. ~soon => Leading(p, c, t, m)
    BY <1>2 DEF Fits, Leading, Left, v, w
  <2> QED
    BY <2>1, <2>2, <2>3 DEF Fits
<1>3. CASE \E e \in Says : ~Turns(e) /\ v = Append(w, e)
  <2>1. PICK e \in Says : ~Turns(e) /\ v = Append(w, e)
    BY <1>3
  <2>2. ~Rests(e) /\ ~Halts(e)
    BY <2>1, SayFacts
  <2>3. /\ (Still(v) <=> Still(w)) /\ (LastBids(v) <=> LastBids(w))
        /\ FirstRests(v) => FirstRests(w)
        /\ Stepwise(w) => Stepwise(v)
        /\ NoHalt(w) => NoHalt(v)
    BY <1>1, <2>1, <2>2, WaySent
  <2>4. Minding(p, c, t, m)
    BY <2>3 DEF Fits, Minding, Minds, Excused, Slaved, v, w
  <2>5. Heeding(p, c) /\ Joining(c, t, m)
    BY <2>3 DEF Fits, Heeding, Joining, Left, v, w
  <2>6. ~soon => Leading(p, c, t, m)
    BY <2>3 DEF Fits, Leading, Left, v, w
  <2> QED
    BY <2>4, <2>5, <2>6 DEF Fits
<1> QED
  BY <1>1, <1>2, <1>3

-----------------------------------------------------------------------------
(* A page and its mail.                                                    *)

HistoryType ==
    history \in [presses : Nat, comings : Nat, seeks : Nat,
                 late : BOOLEAN, overtaken : BOOLEAN]

\* What one member does on its own concerns nobody else.
LEMMA OneKeeps ==
  ASSUME RoomInv, NEW m \in Members, NEW p \in PlayPages, NEW b \in Boxes,
         member' = [member EXCEPT ![m] = p], net' = [net EXCEPT ![m] = b],
         shared' = shared, HistoryType', history.late => history'.late,
         member[m].here, p.here,
         \A late : late = history'.late => Fits(p, b, shared, m, late)
  PROVE  RoomInv'
<1>1. RoomType'
  BY DEF RoomInv, RoomType, HistoryType
<1>2. /\ \A x \in Members : x # m => member'[x] = member[x] /\ net'[x] = net[x]
      /\ member'[m] = p /\ net'[m] = b
  BY DEF RoomInv, RoomType
<1>3. shared'.master # NoMaster =>
        shared'.exists /\ shared'.master \in Members /\ member'[shared'.master].here
  BY <1>2 DEF RoomInv
<1>4. \A x \in Members : IF member'[x].here THEN Fits(member'[x], net'[x], shared', x, history'.late)
                                            ELSE Absent(member'[x], net'[x])
  <2> SUFFICES ASSUME NEW x \in Members
               PROVE  IF member'[x].here THEN Fits(member'[x], net'[x], shared', x, history'.late)
                                         ELSE Absent(member'[x], net'[x])
    OBVIOUS
  <2>1. CASE x = m
    BY <1>2, <2>1
  <2>2. CASE x # m
    <3>1. IF member[x].here THEN Fits(member[x], net[x], shared, x, history.late)
                            ELSE Absent(member[x], net[x])
      BY DEF RoomInv
    <3>2. \A q, c, s, late, soon : Fits(q, c, s, x, late) /\ (late => soon) => Fits(q, c, s, x, soon)
      BY DEF Fits
    <3> QED
      BY <1>2, <2>2, <3>1, <3>2
  <2> QED
    BY <2>1, <2>2
<1> QED
  BY <1>1, <1>3, <1>4 DEF RoomInv

LEMMA HereFits ==
  ASSUME RoomInv, NEW m \in Members
  PROVE  /\ member[m] \in PlayPages /\ net[m] \in Boxes /\ HistoryType
         /\ shared \in [exists : BOOLEAN, master : Nat, at : Nat, revision : Nat]
         /\ member \in [Members -> PlayPages] /\ net \in [Members -> Boxes]
         /\ shared.master # NoMaster =>
              shared.exists /\ shared.master \in Members /\ member[shared.master].here
         /\ member[m].here => Fits(member[m], net[m], shared, m, history.late)
         /\ ~member[m].here => Absent(member[m], net[m])
         /\ m # NoMaster /\ m \in Nat
BY PlayRoomAssumption DEF RoomInv, RoomType, HistoryType, Members, NoMaster

\* A member that asks something hears what it would have heard.
Mails(b, c, e) ==
    /\ c \in Boxes /\ Way(c) = Way(b)
    /\ \A k : Asked(c.up, k) <=> Asked(b.up, k) \/ e.kind = k
    /\ e.kind = "stop" \/ (StopsLast(b.up) /\ e.kind # "play") => StopsLast(c.up)
    /\ SyncFirst(b.up) /\ e.kind # "sync" => SyncFirst(c.up)

LEMMA SentFacts ==
  ASSUME NEW n \in [Members -> Boxes], NEW m \in Members, NEW e \in Asks,
         NEW k, k = Send(n, m, e)
  PROVE  Mails(n[m], k[m], e) /\ k = [n EXCEPT ![m] = k[m]] /\ k[m].up = Append(n[m].up, e)
<1> DEFINE q == n[m].up
           r == k[m].up
<1>1. n[m] \in Boxes /\ q \in Seq(Asks)
  BY DEF Boxes
<1>2. k = [n EXCEPT ![m].up = Append(@, e)]
  BY DEF Send
<1>3. r = Append(q, e) /\ k[m].down = n[m].down /\ k[m].page = n[m].page
  BY <1>1, <1>2 DEF Boxes
<1>4. Way(k[m]) = Way(n[m])
  BY <1>3 DEF Way
<1>5. k = [n EXCEPT ![m] = k[m]]
  BY <1>2
<1>6. k[m] = [n[m] EXCEPT !.up = r]
  BY <1>1, <1>2, <1>3
<1> HIDE DEF q, r
<1>7. /\ r \in Seq(Asks)
      /\ \A a : Asked(r, a) <=> Asked(q, a) \/ e.kind = a
      /\ e.kind = "stop" \/ (StopsLast(q) /\ e.kind # "play") => StopsLast(r)
      /\ SyncFirst(q) /\ e.kind # "sync" => SyncFirst(r)
  BY <1>1, <1>3, AskSent
<1>8. k[m] \in Boxes
  BY <1>1, <1>6, <1>7 DEF Boxes
<1> QED
  BY <1>3, <1>4, <1>5, <1>7, <1>8 DEF Mails, q, r

LEMMA MailSent ==
  ASSUME net \in [Members -> Boxes], NEW m \in Members, NEW e \in Asks,
         net' = Send(net, m, e)
  PROVE  Mails(net[m], net'[m], e) /\ net' = [net EXCEPT ![m] = net'[m]]
<1>1. \A k : k = Send(net, m, e) => Mails(net[m], k[m], e) /\ k = [net EXCEPT ![m] = k[m]]
  BY SentFacts
<1> QED
  BY <1>1

\* A page that goes on as it was, and at most asks something, stays as it was bound.
LEMMA FitsOwn ==
  ASSUME NEW q, NEW p, NEW b, NEW c, NEW s, NEW m, NEW late, Fits(q, b, s, m, late),
         p.slave = q.slave, p.awaits = q.awaits, p.sync = q.sync, q.playing => p.playing,
         Way(c) = Way(b),
         \/ c.up = b.up
         \/ \E e \in Asks : e.kind # "sync" /\ (e.kind = "play" => p.playing) /\ Mails(b, c, e)
  PROVE  Fits(p, c, s, m, late)
<1>1. CASE c.up = b.up
  BY <1>1 DEF Fits, Minding, Heeding, Joining, Leading, Minds, Excused
<1>2. CASE \E e \in Asks : e.kind # "sync" /\ (e.kind = "play" => p.playing) /\ Mails(b, c, e)
  <2>1. PICK e \in Asks : e.kind # "sync" /\ (e.kind = "play" => p.playing) /\ Mails(b, c, e)
    BY <1>2
  <2>2. Minding(p, c, s, m)
    BY <2>1 DEF Fits, Mails, Minding, Minds, Excused
  <2>3. Heeding(p, c) /\ Joining(c, s, m)
    BY <2>1 DEF Fits, Mails, Heeding, Joining
  <2>4. ~late => Leading(p, c, s, m)
    BY <2>1 DEF Fits, Mails, Leading
  <2> QED
    BY <2>2, <2>3, <2>4 DEF Fits
<1> QED
  BY <1>1, <1>2

LEMMA PressPlayKeeps ==
  ASSUME RoomInv, NEW m \in Members, PressPlay(m)
  PROVE  RoomInv'
<1> DEFINE q == member[m]
           b == net[m]
           p == member'[m]
           c == net'[m]
           e == [kind |-> "play"]
<1>1. /\ q \in PlayPages /\ b \in Boxes /\ q.here /\ HistoryType
      /\ Fits(q, b, shared, m, history.late)
      /\ member \in [Members -> PlayPages] /\ net \in [Members -> Boxes]
  BY HereFits DEF PressPlay, MayPress
<1>2. /\ member' = [member EXCEPT ![m].playing = TRUE, ![m].command = TRUE,
                                  ![m].waking = TRUE, ![m].reports = TRUE,
                                  ![m].told.at = Nowhere]
      /\ net' = Send(net, m, e) /\ shared' = shared
      /\ history' = [history EXCEPT !.presses = @ + 1]
  BY DEF PressPlay, Pressed
<1>3. e \in Asks /\ e.kind = "play"
  BY DEF Asks
<1>4. HistoryType' /\ history'.late = history.late
  BY <1>1, <1>2 DEF HistoryType
<1>5. member' = [member EXCEPT ![m] = p]
  <2>1. \A x \in Members : x # m => member'[x] = member[x]
    BY <1>1, <1>2
  <2>2. member' = [x \in Members |-> member'[x]]
    <3> DEFINE f == [member EXCEPT ![m].playing = TRUE, ![m].command = TRUE,
                                   ![m].waking = TRUE, ![m].reports = TRUE]
    <3>1. f = [x \in Members |-> f[x]]
      BY <1>1
    <3>2. member' = [f EXCEPT ![m] = [f[m] EXCEPT !.told = [f[m].told EXCEPT !.at = Nowhere]]]
      BY <1>2
    <3> HIDE DEF f
    <3> QED
      BY <3>1, <3>2
  <2> QED
    BY <1>1, <2>1, <2>2
<1>6. p = [q EXCEPT !.playing = TRUE, !.command = TRUE, !.waking = TRUE,
                       !.reports = TRUE, !.told = [q.told EXCEPT !.at = Nowhere]]
  BY <1>1, <1>2
<1>7. q.told \in [at : Nat, revision : Nat] /\ Nowhere \in Nat
  BY <1>1, PlayRoomAssumption DEF PlayPages, Nowhere
<1>8. [q.told EXCEPT !.at = Nowhere] \in [at : Nat, revision : Nat]
  BY <1>7
<1>9. /\ p \in PlayPages /\ p.here /\ p.playing /\ p.awaits = q.awaits /\ p.slave = q.slave
      /\ p.sync = q.sync
  <2> DEFINE last == [q.told EXCEPT !.at = Nowhere]
  <2>1. last \in [at : Nat, revision : Nat]
    BY <1>8
  <2>2. p = [q EXCEPT !.playing = TRUE, !.command = TRUE, !.waking = TRUE,
                      !.reports = TRUE, !.told = last]
    BY <1>6
  <2> HIDE DEF last, q, p
  <2> QED
    BY <1>1, <2>1, <2>2 DEF PlayPages
<1> HIDE DEF e
<1>10. Mails(b, c, e) /\ net' = [net EXCEPT ![m] = c]
  BY <1>1, <1>2, <1>3, MailSent
<1> HIDE DEF q, b, p, c
<1>11. \A late : late = history'.late => Fits(p, c, shared, m, late)
  BY <1>1, <1>3, <1>4, <1>9, <1>10, FitsOwn DEF Mails
<1>12. member[m].here /\ c \in Boxes /\ shared' = shared /\ history'.late = history.late
  BY <1>1, <1>2, <1>4, <1>10 DEF Mails, q
<1> QED
  BY <1>4, <1>5, <1>9, <1>10, <1>11, <1>12, OneKeeps

LEMMA WakesKeeps ==
  ASSUME RoomInv, NEW m \in Members, Wakes(m)
  PROVE  RoomInv'
<1> DEFINE q == member[m]
           b == net[m]
           p == member'[m]
<1>1. /\ q \in PlayPages /\ b \in Boxes /\ q.here /\ HistoryType
      /\ Fits(q, b, shared, m, history.late)
      /\ member \in [Members -> PlayPages] /\ net \in [Members -> Boxes]
  BY HereFits DEF Wakes, Absent
<1>2. /\ member' = [member EXCEPT ![m].waking = FALSE, ![m].playing = TRUE,
                                  ![m].command = FALSE]
      /\ net' = net /\ shared' = shared /\ history' = history
  BY DEF Wakes
<1>3. /\ member' = [member EXCEPT ![m] = p]
      /\ p = [q EXCEPT !.waking = FALSE, !.playing = TRUE, !.command = FALSE]
  BY <1>1, <1>2
<1> HIDE DEF q, p
<1>4. /\ p \in PlayPages /\ p.here /\ p.playing /\ p.awaits = q.awaits /\ p.slave = q.slave
      /\ p.sync = q.sync
  BY <1>1, <1>3 DEF PlayPages
<1>5. net' = [net EXCEPT ![m] = b] /\ HistoryType' /\ history'.late = history.late
  BY <1>1, <1>2 DEF HistoryType
<1> HIDE DEF b
<1>6. \A late : late = history'.late => Fits(p, b, shared, m, late)
  BY <1>1, <1>4, <1>5, FitsOwn
<1> QED
  BY <1>1, <1>2, <1>3, <1>4, <1>5, <1>6, OneKeeps DEF q

LEMMA PressStopKeeps ==
  ASSUME RoomInv, NEW m \in Members, PressStop(m)
  PROVE  RoomInv'
<1> DEFINE q == member[m]
           b == net[m]
           p == member'[m]
<1>1. /\ q \in PlayPages /\ b \in Boxes /\ q.here /\ HistoryType
      /\ Fits(q, b, shared, m, history.late)
      /\ member \in [Members -> PlayPages] /\ net \in [Members -> Boxes]
  BY HereFits DEF PressStop, MayPress
<1>2. /\ member' = [member EXCEPT ![m].playing = FALSE, ![m].slave = FALSE,
                                  ![m].command = TRUE, ![m].awaits = "stop"]
      /\ net' = net /\ shared' = shared
      /\ history' = [history EXCEPT !.presses = @ + 1]
  BY DEF PressStop, Pressed
<1>3. /\ member' = [member EXCEPT ![m] = p]
      /\ p = [q EXCEPT !.playing = FALSE, !.slave = FALSE, !.command = TRUE,
                       !.awaits = "stop"]
  BY <1>1, <1>2
<1> HIDE DEF q, p
<1>4. /\ p \in PlayPages /\ p.here /\ p.awaits = "stop" /\ p.slave = FALSE
  BY <1>1, <1>3 DEF PlayPages
<1>5. net' = [net EXCEPT ![m] = b] /\ HistoryType' /\ history'.late = history.late
  BY <1>1, <1>2 DEF HistoryType
<1> HIDE DEF b
<1>6. \A late : late = history'.late => Fits(p, b, shared, m, late)
  <2>1. Minding(p, b, shared, m)
    BY <1>1, <1>4 DEF Fits, Minding, Minds, Excused
  <2>2. Heeding(p, b) /\ Joining(b, shared, m)
    BY <1>1, <1>4 DEF Fits, Heeding, Joining
  <2>3. ~history.late => Leading(p, b, shared, m)
    BY <1>1, <1>4 DEF Fits, Leading
  <2> QED
    BY <1>5, <2>1, <2>2, <2>3 DEF Fits
<1> QED
  BY <1>1, <1>2, <1>3, <1>4, <1>5, <1>6, OneKeeps DEF q

LEMMA PressSeekKeeps ==
  ASSUME RoomInv, NEW m \in Members, NEW held \in BOOLEAN, PressSeek(m, held)
  PROVE  RoomInv'
<1> DEFINE q == member[m]
           b == net[m]
           p == member'[m]
           c == net'[m]
           to == IF held THEN member[m].at ELSE history.seeks + 1
           e == [kind |-> "move", at |-> to]
<1>1. /\ q \in PlayPages /\ b \in Boxes /\ q.here /\ HistoryType
      /\ Fits(q, b, shared, m, history.late)
      /\ member \in [Members -> PlayPages] /\ net \in [Members -> Boxes]
  BY HereFits DEF PressSeek, MayPress
<1>2. to \in Nat
  BY <1>1 DEF PlayPages, HistoryType
<1>3. /\ member' = [member EXCEPT ![m].at = to, ![m].moved = TRUE]
      /\ net' = Send(net, m, e) /\ shared' = shared
      /\ history' = [history EXCEPT !.presses = @ + 1, !.seeks = IF held THEN @ ELSE @ + 1]
  BY DEF PressSeek
<1> HIDE DEF to
<1>4. e \in Asks /\ e.kind = "move"
  BY <1>2 DEF Asks
<1>5. /\ member' = [member EXCEPT ![m] = p]
      /\ p = [q EXCEPT !.at = to, !.moved = TRUE]
  BY <1>1, <1>3
<1>6. HistoryType' /\ history'.late = history.late
  <2> DEFINE presses == history.presses + 1
             seeks == IF held THEN history.seeks ELSE history.seeks + 1
  <2>1. presses \in Nat /\ seeks \in Nat
    BY <1>1 DEF HistoryType
  <2>2. history' = [history EXCEPT !.presses = presses, !.seeks = seeks]
    BY <1>3
  <2> HIDE DEF presses, seeks
  <2> QED
    BY <1>1, <2>1, <2>2 DEF HistoryType
<1> HIDE DEF q, p
<1>7. /\ p \in PlayPages /\ p.here /\ p.awaits = q.awaits /\ p.slave = q.slave
      /\ p.sync = q.sync /\ p.playing = q.playing
  BY <1>1, <1>2, <1>5 DEF PlayPages
<1> HIDE DEF e
<1>8. Mails(b, c, e) /\ net' = [net EXCEPT ![m] = c]
  BY <1>1, <1>3, <1>4, MailSent
<1> HIDE DEF q, b, p, c
<1>9. \A late : late = history'.late => Fits(p, c, shared, m, late)
  BY <1>1, <1>4, <1>6, <1>7, <1>8, FitsOwn DEF Mails
<1>10. member[m].here /\ c \in Boxes /\ shared' = shared /\ history'.late = history.late
  BY <1>1, <1>3, <1>6, <1>8 DEF Mails, q
<1> QED
  BY <1>5, <1>6, <1>7, <1>8, <1>9, <1>10, OneKeeps

LEMMA ReportsKeeps ==
  ASSUME RoomInv, NEW m \in Members, Reports(m)
  PROVE  RoomInv'
<1> DEFINE q == member[m]
           b == net[m]
           p == member'[m]
           c == net'[m]
           e == [kind |-> "report", at |-> q.at, revision |-> q.known]
           told == [at |-> q.at, revision |-> q.known]
<1>1. /\ q \in PlayPages /\ b \in Boxes /\ q.here /\ HistoryType
      /\ Fits(q, b, shared, m, history.late)
      /\ member \in [Members -> PlayPages] /\ net \in [Members -> Boxes]
  BY HereFits DEF Reports
<1>2. /\ member' = [member EXCEPT ![m].told = told] /\ net' = Send(net, m, e)
      /\ shared' = shared /\ history' = history
  BY DEF Reports
<1>3. e \in Asks /\ e.kind = "report" /\ told \in [at : Nat, revision : Nat]
  BY <1>1 DEF Asks, PlayPages
<1> HIDE DEF told, e
<1>4. /\ member' = [member EXCEPT ![m] = p] /\ p = [q EXCEPT !.told = told]
  BY <1>1, <1>2
<1>5. /\ p \in PlayPages /\ p.here /\ p.awaits = q.awaits /\ p.slave = q.slave
      /\ p.sync = q.sync /\ p.playing = q.playing
  BY <1>1, <1>3, <1>4 DEF PlayPages
<1>6. HistoryType' /\ history'.late = history.late
  BY <1>1, <1>2 DEF HistoryType
<1>7. Mails(b, c, e) /\ net' = [net EXCEPT ![m] = c]
  BY <1>1, <1>2, <1>3, MailSent
<1> HIDE DEF q, b, p, c
<1>8. \A late : late = history'.late => Fits(p, c, shared, m, late)
  BY <1>1, <1>3, <1>5, <1>6, <1>7, FitsOwn DEF Mails
<1>9. member[m].here /\ c \in Boxes /\ shared' = shared /\ history'.late = history.late
  BY <1>1, <1>2, <1>6, <1>7 DEF Mails, q
<1> QED
  BY <1>4, <1>5, <1>6, <1>7, <1>8, <1>9, OneKeeps

LEMMA HearServerKeeps ==
  ASSUME RoomInv, NEW m \in Members, HearServer(m)
  PROVE  RoomInv'
<1> DEFINE q == member[m]
           b == net[m]
           p == member'[m]
           c == net'[m]
           h == Head(b.down)
<1>1. /\ q \in PlayPages /\ b \in Boxes /\ q.here /\ HistoryType
      /\ Fits(q, b, shared, m, history.late)
      /\ member \in [Members -> PlayPages] /\ net \in [Members -> Boxes]
  BY HereFits DEF HearServer, Absent, NoMail
<1>2. /\ b.down # <<>> /\ shared' = shared /\ history' = history
      /\ member' = IF h.kind \in {"sync", "position", "revision"}
                   THEN [member EXCEPT ![m].known = h.revision] ELSE member
      /\ net' = [net EXCEPT ![m].down = Tail(@), ![m].page = Append(@, h)]
  BY DEF HearServer
<1>3. h \in Says /\ Tail(b.down) \in Seq(Says) /\ Append(b.page, h) \in Seq(Says)
  <2>1. b.down \in Seq(Says) /\ b.page \in Seq(Says)
    BY <1>1 DEF Boxes
  <2>2. \A d \in Seq(Says) : d # <<>> => Head(d) \in Says /\ Tail(d) \in Seq(Says)
    BY Tailed
  <2>3. h \in Says /\ Tail(b.down) \in Seq(Says)
    BY <1>2, <2>1, <2>2
  <2> HIDE DEF h
  <2> QED
    BY <2>1, <2>3
<1>4. h.kind \in {"sync", "position", "revision"} => h.revision \in Nat
  BY <1>3 DEF Says
<1> HIDE DEF h
<1>5. /\ member' = [member EXCEPT ![m] = p]
      /\ p = q \/ (p = [q EXCEPT !.known = h.revision] /\ h.revision \in Nat)
  BY <1>1, <1>2, <1>4
<1>6. /\ p \in PlayPages /\ p.here /\ p.awaits = q.awaits /\ p.slave = q.slave
      /\ p.sync = q.sync /\ p.playing = q.playing
  BY <1>1, <1>5 DEF PlayPages
<1>7. HistoryType' /\ history'.late = history.late
  BY <1>1, <1>2 DEF HistoryType
<1>8. /\ net' = [net EXCEPT ![m] = c]
      /\ c = [b EXCEPT !.down = Tail(b.down), !.page = Append(b.page, h)]
  BY <1>1, <1>2
<1>9. c \in Boxes /\ c.up = b.up /\ c.page = Append(b.page, h) /\ c.down = Tail(b.down)
  BY <1>1, <1>3, <1>8 DEF Boxes
<1> HIDE DEF q, b, p, c
<1>10. Way(c) = Way(b)
  BY <1>1, <1>2, <1>9, WayFacts DEF h
<1>11. \A late : late = history'.late => Fits(p, c, shared, m, late)
  BY <1>1, <1>6, <1>7, <1>9, <1>10, FitsOwn
<1> QED
  BY <1>1, <1>2, <1>5, <1>6, <1>7, <1>8, <1>9, <1>11, OneKeeps DEF q

LEMMA StoppedKeeps ==
  ASSUME RoomInv, NEW m \in Members, Stopped(m)
  PROVE  RoomInv'
<1> DEFINE q == member[m]
           b == net[m]
           p == member'[m]
           c == net'[m]
           freed == [q EXCEPT !.awaits = "nothing", !.sync = <<>>]
           over == history.overtaken \/ \E i \in DOMAIN q.sync : q.sync[i].revision < q.revision
<1>1. /\ q \in PlayPages /\ b \in Boxes /\ q.here /\ HistoryType
      /\ Fits(q, b, shared, m, history.late)
      /\ member \in [Members -> PlayPages] /\ net \in [Members -> Boxes]
  BY HereFits DEF Stopped, Absent
<1>2. /\ shared' = shared /\ history' = [history EXCEPT !.overtaken = over]
      /\ q.awaits # "nothing"
  BY DEF Stopped
<1>3. HistoryType' /\ history'.late = history.late
  <2>1. over \in BOOLEAN
    BY <1>1 DEF HistoryType
  <2> HIDE DEF over
  <2> QED
    BY <1>1, <1>2, <2>1 DEF HistoryType
<1>4. /\ q.awaits = "stop" =>
           /\ member' = [member EXCEPT ![m] = [freed EXCEPT !.command = FALSE, !.reports = FALSE]]
           /\ net' = Send(net, m, [kind |-> "stop"])
      /\ q.awaits = "follow" => member' = [member EXCEPT ![m] = Follows(freed)] /\ net' = net
      /\ q.awaits = "sync" =>
           member' = [member EXCEPT ![m] = Synced(freed, Head(q.sync))] /\ net' = net
      /\ q.awaits = "echo" => member' = [member EXCEPT ![m] = freed] /\ net' = net
  BY DEF Stopped
<1> HIDE DEF over, freed
<1>5. member' = [member EXCEPT ![m] = p]
  BY <1>1, <1>2, <1>4 DEF PlayPages
<1>6. net' = [net EXCEPT ![m] = b] \/ q.awaits = "stop"
  BY <1>1, <1>2, <1>4 DEF PlayPages
<1> HIDE DEF q
<1>7. /\ freed \in PlayPages /\ freed.here /\ freed.awaits = "nothing"
      /\ freed.slave = q.slave /\ freed.playing = q.playing
  <2>1. <<>> \in Seq(Says)
    OBVIOUS
  <2> QED
    BY <1>1, <2>1 DEF freed, PlayPages
<1>8. Heeding(q, b) /\ Joining(b, shared, m) /\ Minding(q, b, shared, m)
  BY <1>1 DEF Fits
<1>9. CASE q.awaits = "stop"
  <2> DEFINE e == [kind |-> "stop"]
  <2>1. e \in Asks /\ e.kind = "stop"
    BY DEF Asks
  <2> HIDE DEF e
  <2>2. p = [freed EXCEPT !.command = FALSE, !.reports = FALSE] /\ net' = Send(net, m, e)
    BY <1>1, <1>4, <1>9 DEF e
  <2> HIDE DEF p
  <2>3. p \in PlayPages /\ p.here /\ p.awaits = "nothing" /\ p.slave = q.slave
    BY <1>7, <2>2 DEF PlayPages
  <2>4. Mails(b, c, e) /\ net' = [net EXCEPT ![m] = c]
    BY <1>1, <2>1, <2>2, MailSent
  <2> HIDE DEF b, c
  <2>5. Minding(p, c, shared, m)
    BY <1>8, <1>9, <2>1, <2>3, <2>4 DEF Mails, Minding, Minds, Excused
  <2>6. Heeding(p, c) /\ Joining(c, shared, m) /\ (~history.late => Leading(p, c, shared, m))
    <3>1. ~history.late => Leading(q, b, shared, m)
      BY <1>1 DEF Fits
    <3>2. Heeding(p, c)
      BY <1>8, <2>3, <2>4 DEF Heeding, Mails
    <3>3. Joining(c, shared, m)
      BY <1>8, <2>1, <2>4 DEF Joining, Mails
    <3>4. ~history.late => Leading(p, c, shared, m)
      BY <3>1, <2>1, <2>4 DEF Leading, Mails
    <3> QED
      BY <3>2, <3>3, <3>4
  <2>7. \A late : late = history'.late => Fits(p, c, shared, m, late)
    BY <1>3, <2>5, <2>6 DEF Fits
  <2> QED
    BY <1>1, <1>2, <1>3, <1>5, <2>3, <2>4, <2>7, OneKeeps DEF Mails, q
<1>10. CASE q.awaits = "follow"
  <2>1. p = Follows(freed)
    BY <1>1, <1>4, <1>10
  <2> HIDE DEF p, b
  <2>2. p \in PlayPages /\ p.here /\ p.awaits = "nothing" /\ p.slave = TRUE /\ p.playing
    BY <1>7, <2>1 DEF PlayPages, Follows
  <2>3. Minding(p, b, shared, m) /\ Heeding(p, b)
    BY <1>8, <1>10, <2>2 DEF Minding, Minds, Excused, Heeding
  <2>4. ~history.late => Leading(p, b, shared, m)
    BY <1>1, <2>2 DEF Fits, Leading
  <2>5. \A late : late = history'.late => Fits(p, b, shared, m, late)
    BY <1>3, <1>8, <2>3, <2>4 DEF Fits
  <2> QED
    BY <1>1, <1>2, <1>3, <1>5, <1>6, <1>10, <2>2, <2>5, OneKeeps DEF q
<1>11. CASE q.awaits = "sync"
  <2> DEFINE h == Head(q.sync)
  <2>1. p = Synced(freed, h)
    BY <1>1, <1>4, <1>11
  <2>2. h \in Says /\ h.kind = "sync" /\ h.active
    <3>1. q.sync \in Seq(Says) /\ q.sync # <<>>
      BY <1>1, <1>8, <1>11 DEF PlayPages, Heeding
    <3>2. \A d \in Seq(Says) : d # <<>> => Head(d) \in Says
      BY Tailed
    <3> QED
      BY <1>8, <1>11, <3>1, <3>2 DEF Heeding
  <2> HIDE DEF h, p, b
  <2>3. h.active = TRUE /\ h.at \in Nat /\ h.revision \in Nat
    BY <2>2 DEF Says
  <2>4. p \in PlayPages /\ p.here /\ p.awaits = "nothing" /\ p.slave = TRUE /\ p.playing
    BY <1>7, <2>1, <2>3 DEF PlayPages, Synced
  <2>5. Minding(p, b, shared, m) /\ Heeding(p, b)
    BY <1>8, <1>11, <2>4 DEF Minding, Minds, Excused, Heeding
  <2>6. ~history.late => Leading(p, b, shared, m)
    BY <1>1, <2>4 DEF Fits, Leading
  <2>7. \A late : late = history'.late => Fits(p, b, shared, m, late)
    BY <1>3, <1>8, <2>5, <2>6 DEF Fits
  <2> QED
    BY <1>1, <1>2, <1>3, <1>5, <1>6, <1>11, <2>4, <2>7, OneKeeps DEF q
<1>12. CASE q.awaits = "echo"
  <2>1. p = freed
    BY <1>1, <1>4, <1>12
  <2> HIDE DEF p, b
  <2>2. Minding(p, b, shared, m) /\ Heeding(p, b)
    BY <1>7, <1>8, <1>12, <2>1 DEF Minding, Minds, Excused, Heeding
  <2>3. ~history.late => Leading(p, b, shared, m)
    BY <1>1, <1>7, <1>12, <2>1 DEF Fits, Leading
  <2>4. \A late : late = history'.late => Fits(p, b, shared, m, late)
    BY <1>3, <1>8, <2>2, <2>3 DEF Fits
  <2> QED
    BY <1>1, <1>2, <1>3, <1>5, <1>6, <1>7, <1>12, <2>1, <2>4, OneKeeps DEF q
<1> QED
  BY <1>1, <1>2, <1>9, <1>10, <1>11, <1>12 DEF PlayPages

\* What the page makes of a message.
TakesIn(q, h, p) ==
    /\ p \in PlayPages /\ p.here = q.here
    /\ ~Turns(h) => /\ p.slave = q.slave /\ p.playing = q.playing
                    /\ p.awaits = q.awaits /\ p.sync = q.sync
    /\ Bids(h) => /\ p.playing
                  /\ p.slave \/ p.awaits \in {"follow", "sync"}
                  /\ p.awaits = q.awaits \/ p.awaits \in {"follow", "sync"}
                  /\ \/ p.awaits = "sync" /\ Head(p.sync) = h /\ p.sync # <<>> /\ h.kind = "sync"
                     \/ p.awaits = "follow"
                     \/ p.awaits = q.awaits /\ p.sync = q.sync
    /\ Halts(h) => /\ p.slave = FALSE /\ p.sync = q.sync
                   /\ h.kind = "stop" => p.awaits = "echo"
                   /\ Rests(h) => p.awaits = q.awaits

LEMMA HeardFacts ==
  ASSUME NEW q \in PlayPages, NEW h \in Says, NEW p, p = Heard(q, h)
  PROVE  TakesIn(q, h, p)
<1> DEFINE sync == <<h>>
<1>1. /\ h.kind \in {"play", "stop", "sync", "position", "revision"}
      /\ h.kind = "sync" => h.active \in BOOLEAN
      /\ h.kind \in {"sync", "position"} => h.at \in Nat
      /\ h.kind \in {"sync", "position", "revision"} => h.revision \in Nat
  BY DEF Says
<1>2. sync \in Seq(Says) /\ sync # <<>> /\ Head(sync) = h
  OBVIOUS
<1>3. CASE h.kind = "play"
  BY <1>3 DEF TakesIn, Heard, Follows, PlayPages, Turns, Bids, Halts, Rests
<1>4. CASE h.kind = "stop"
  BY <1>4 DEF TakesIn, Heard, PlayPages, Turns, Bids, Halts, Rests
<1>5. CASE h.kind = "sync"
  <2>1. CASE h.active /\ q.playing
    <3>1. p = [q EXCEPT !.awaits = "sync", !.sync = sync]
      BY <1>5, <2>1 DEF Heard
    <3> HIDE DEF sync
    <3> QED
      BY <1>2, <1>5, <2>1, <3>1 DEF TakesIn, PlayPages, Turns, Bids, Halts, Rests
  <2>2. CASE ~(h.active /\ q.playing)
    <3>1. p = Synced(q, h)
      BY <1>5, <2>2 DEF Heard
    <3> QED
      BY <1>1, <1>5, <2>2, <3>1 DEF TakesIn, Synced, PlayPages, Turns, Bids, Halts, Rests
  <2> QED
    BY <2>1, <2>2
<1>6. CASE h.kind = "revision"
  BY <1>1, <1>6 DEF TakesIn, Heard, PlayPages, Turns, Bids, Halts, Rests
<1>7. CASE h.kind = "position"
  <2>1. \/ p = q
        \/ p = [q EXCEPT !.revision = h.revision, !.moved = FALSE, !.at = h.at]
    BY <1>7 DEF Heard
  <2>2. p \in PlayPages /\ p.here = q.here /\ p.slave = q.slave /\ p.playing = q.playing
        /\ p.awaits = q.awaits /\ p.sync = q.sync
    BY <1>1, <1>7, <2>1 DEF PlayPages
  <2> QED
    BY <1>7, <2>2 DEF TakesIn, Turns, Bids, Halts, Rests
<1> QED
  BY <1>1, <1>3, <1>4, <1>5, <1>6, <1>7

LEMMA HearPageKeeps ==
  ASSUME RoomInv, NEW m \in Members, HearPage(m)
  PROVE  RoomInv'
<1> DEFINE q == member[m]
           b == net[m]
           p == member'[m]
           c == net'[m]
           h == Head(b.page)
           w == Way(b)
           v == Way(c)
<1>1. /\ q \in PlayPages /\ b \in Boxes /\ q.here /\ HistoryType
      /\ Fits(q, b, shared, m, history.late)
      /\ member \in [Members -> PlayPages] /\ net \in [Members -> Boxes]
  BY HereFits DEF HearPage, Absent, NoMail
<1>2. /\ b.page # <<>> /\ shared' = shared
      /\ member' = [member EXCEPT ![m] = Heard(q, h)]
      /\ net' = [net EXCEPT ![m].page = Tail(@)]
      /\ history' = [history EXCEPT !.late = history.late \/ (Halts(h) /\ Claims(m))]
  BY DEF HearPage
<1>3. /\ member' = [member EXCEPT ![m] = p] /\ p = Heard(q, h)
      /\ net' = [net EXCEPT ![m] = c] /\ c = [b EXCEPT !.page = Tail(b.page)]
  BY <1>1, <1>2
<1>4. /\ HistoryType'
      /\ history.late => history'.late
      /\ ~history'.late => ~history.late /\ ~(Halts(h) /\ Asked(b.up, "play"))
  <2> DEFINE late == history.late \/ (Halts(h) /\ Claims(m))
  <2>1. history.late \in BOOLEAN /\ late \in BOOLEAN
    BY <1>1 DEF HistoryType
  <2>2. history' = [history EXCEPT !.late = late]
    BY <1>2
  <2>3. Claims(m) <=> Asked(b.up, "play")
    BY DEF Claims, Asked
  <2>4. late <=> history.late \/ (Halts(h) /\ Asked(b.up, "play"))
    BY <2>3
  <2> HIDE DEF late, h, b
  <2>5. HistoryType' /\ history'.late = late
    BY <1>1, <2>1, <2>2 DEF HistoryType
  <2> QED
    BY <2>1, <2>4, <2>5
<1> HIDE DEF q, p, h
<1>5. h \in Says /\ Tail(b.page) \in Seq(Says)
  <2>1. b.page \in Seq(Says)
    BY <1>1 DEF Boxes
  <2>2. \A d \in Seq(Says) : d # <<>> => Head(d) \in Says /\ Tail(d) \in Seq(Says)
    BY Tailed
  <2> QED
    BY <1>2, <2>1, <2>2 DEF h
<1> HIDE DEF b, c
<1>6. c \in Boxes /\ c.up = b.up /\ c.page = Tail(b.page) /\ c.down = b.down
  BY <1>1, <1>3, <1>5 DEF Boxes
<1>7. w \in Seq(Says) /\ w # <<>> /\ v = Tail(w) /\ Head(w) = h
  BY <1>1, <1>2, <1>6, WayFacts DEF h
<1> HIDE DEF w, v
<1>8. /\ ~Turns(h) => /\ (Still(w) <=> Still(v)) /\ (LastBids(w) <=> LastBids(v))
                      /\ FirstRests(v) => FirstRests(w)
      /\ Turns(h) => ~Still(w) /\ (LastBids(w) <=> LastBids(v) \/ (Still(v) /\ Bids(h)))
      /\ FirstRests(v) /\ Stepwise(w) => ~Bids(h)
      /\ Rests(h) => FirstRests(w)
      /\ Stepwise(w) => Stepwise(v)
      /\ NoHalt(w) => NoHalt(v) /\ ~Halts(h)
  BY <1>7, WayHeard
<1>9. TakesIn(q, h, p)
  BY <1>1, <1>3, <1>5, HeardFacts
<1>10. /\ Turns(h) <=> Bids(h) \/ Halts(h)
       /\ ~(Bids(h) /\ Halts(h))
       /\ Halts(h) <=> h.kind = "stop" \/ Rests(h)
       /\ Bids(h) /\ h.kind = "sync" => h.active
  BY <1>5, SayFacts DEF Halts, Rests, Bids
<1>11. Minding(q, b, shared, m) /\ Heeding(q, b) /\ Joining(b, shared, m)
  BY <1>1 DEF Fits
<1>12. Minding(p, c, shared, m)
  <2>1. CASE ~Turns(h)
    BY <1>6, <1>8, <1>9, <1>11, <2>1 DEF TakesIn, Minding, Minds, Excused, w, v
  <2>2. CASE Bids(h)
    BY <1>8, <1>9, <1>10, <1>11, <2>2 DEF TakesIn, Minding, Minds, Excused, w, v
  <2>3. CASE Halts(h)
    <3>1. p.awaits \notin {"follow", "sync"} \/ Still(v) = FALSE \/ LastBids(v)
      BY <1>8, <1>9, <1>10, <1>11, <2>3 DEF TakesIn, Heeding, w
    <3> QED
      BY <1>8, <1>9, <1>10, <1>11, <2>3, <3>1 DEF TakesIn, Minding, Minds, Excused, w, v
  <2> QED
    BY <1>10, <2>1, <2>2, <2>3
<1>13. Heeding(p, c)
  <2>1. CASE ~Turns(h)
    BY <1>8, <1>9, <1>11, <2>1 DEF TakesIn, Heeding, w, v
  <2>2. CASE Bids(h)
    BY <1>8, <1>9, <1>10, <1>11, <2>2 DEF TakesIn, Heeding, w, v
  <2>3. CASE Halts(h)
    BY <1>8, <1>9, <1>10, <1>11, <2>3 DEF TakesIn, Heeding, w, v
  <2> QED
    BY <1>10, <2>1, <2>2, <2>3
<1>14. ~history'.late => Leading(p, c, shared, m)
  <2> SUFFICES ASSUME ~history'.late PROVE Leading(p, c, shared, m)
    OBVIOUS
  <2>1. Leading(q, b, shared, m) /\ ~(Halts(h) /\ Asked(b.up, "play"))
    BY <1>1, <1>4 DEF Fits
  <2>2. CASE ~Turns(h)
    BY <1>6, <1>8, <1>9, <2>1, <2>2 DEF TakesIn, Leading, w, v
  <2>3. CASE Bids(h)
    BY <1>6, <1>8, <1>9, <2>1, <2>3 DEF TakesIn, Leading, w, v
  <2>4. CASE Halts(h)
    BY <1>6, <1>8, <2>1, <2>4 DEF Leading, w, v
  <2> QED
    BY <1>10, <2>2, <2>3, <2>4
<1>15. \A late : late = history'.late => Fits(p, c, shared, m, late)
  <2>1. Joining(c, shared, m)
    BY <1>6, <1>11 DEF Joining
  <2> QED
    BY <1>12, <1>13, <1>14, <2>1 DEF Fits
<1>16. p \in PlayPages /\ p.here
  BY <1>1, <1>9 DEF TakesIn
<1> QED
  BY <1>1, <1>2, <1>3, <1>4, <1>6, <1>15, <1>16, OneKeeps DEF q

-----------------------------------------------------------------------------
(* The server.                                                             *)

LEMMA ServeKeeps ==
  ASSUME RoomInv, member' = member, net' \in [Members -> Boxes], HistoryType',
         shared' \in [exists : BOOLEAN, master : Nat, at : Nat, revision : Nat],
         shared'.master # NoMaster =>
           shared'.exists /\ shared'.master \in Members /\ member[shared'.master].here,
         \A x \in Members : ~member[x].here => net'[x] = net[x],
         \A x \in Members : member[x].here =>
           \A t, late : t = shared' /\ late = history'.late =>
             Fits(member[x], net'[x], t, x, late)
  PROVE  RoomInv'
<1>1. RoomType'
  BY DEF RoomInv, RoomType, HistoryType
<1>2. \A x \in Members : IF member'[x].here THEN Fits(member'[x], net'[x], shared', x, history'.late)
                                            ELSE Absent(member'[x], net'[x])
  BY DEF RoomInv
<1> QED
  BY <1>1, <1>2 DEF RoomInv

\* The message of m is taken, and of the members who those in who are told.
Serves(n, k, m, who, says) ==
    /\ k \in [Members -> Boxes] /\ k[m].up = Tail(n[m].up)
    /\ \A x \in Members :
         /\ k[x].page = n[x].page
         /\ x \in who => k[x].down = Append(n[x].down, says[x])
         /\ x \notin who => k[x].down = n[x].down
         /\ x # m => k[x].up = n[x].up
         /\ x # m /\ x \notin who => k[x] = n[x]

Tells(n, k, who, e) ==
    /\ k \in [Members -> Boxes]
    /\ \A x \in Members :
         /\ k[x].up = n[x].up /\ k[x].page = n[x].page
         /\ x \in who => k[x].down = Append(n[x].down, e)
         /\ x \notin who => k[x] = n[x]

LEMMA TellFacts ==
  ASSUME NEW n \in [Members -> Boxes], NEW who, NEW e \in Says, NEW k, k = Tell(n, who, e)
  PROVE  Tells(n, k, who, e)
<1>1. ASSUME NEW x \in Members
      PROVE  /\ k[x] \in Boxes /\ k[x].up = n[x].up /\ k[x].page = n[x].page
             /\ x \in who => k[x].down = Append(n[x].down, e)
             /\ x \notin who => k[x] = n[x]
  <2> DEFINE b == n[x]
             d == Append(b.down, e)
  <2>1. k[x] = IF x \in who THEN [b EXCEPT !.down = d] ELSE b
    BY <1>1 DEF Tell
  <2>2. b \in Boxes
    BY <1>1
  <2> HIDE DEF b
  <2>3. d \in Seq(Says)
    BY <2>2 DEF Boxes
  <2> HIDE DEF d
  <2>4. /\ k[x] \in Boxes /\ k[x].up = b.up /\ k[x].page = b.page
        /\ x \in who => k[x].down = d
        /\ x \notin who => k[x] = b
    BY <2>1, <2>2, <2>3 DEF Boxes
  <2> QED
    BY <2>4 DEF d, b
<1>2. k = [x \in Members |-> k[x]]
  BY DEF Tell
<1> QED
  BY <1>1, <1>2 DEF Tells

LEMMA TakenFacts ==
  ASSUME NEW n \in [Members -> Boxes], NEW m \in Members, n[m].up # <<>>,
         NEW k, k = [n EXCEPT ![m].up = Tail(@)]
  PROVE  /\ k \in [Members -> Boxes] /\ k[m].up = Tail(n[m].up)
         /\ k[m].page = n[m].page /\ k[m].down = n[m].down
         /\ \A x \in Members : x # m => k[x] = n[x]
<1> DEFINE b == n[m]
           u == Tail(b.up)
<1>1. b \in Boxes
  OBVIOUS
<1>2. k = [n EXCEPT ![m] = [b EXCEPT !.up = u]]
  OBVIOUS
<1>3. u \in Seq(Asks)
  <2>1. b.up \in Seq(Asks) /\ b.up # <<>>
    BY <1>1 DEF Boxes
  <2>2. \A q \in Seq(Asks) : q # <<>> => Tail(q) \in Seq(Asks)
    BY Tailed
  <2> QED
    BY <2>1, <2>2
<1> HIDE DEF u, b
<1>4. /\ [b EXCEPT !.up = u] \in Boxes /\ [b EXCEPT !.up = u].up = u
      /\ [b EXCEPT !.up = u].page = b.page /\ [b EXCEPT !.up = u].down = b.down
  BY <1>1, <1>3 DEF Boxes
<1>5. /\ k \in [Members -> Boxes] /\ k[m] = [b EXCEPT !.up = u]
      /\ \A x \in Members : x # m => k[x] = n[x]
  BY <1>2, <1>4
<1> QED
  BY <1>4, <1>5 DEF u, b

LEMMA ServesTaken ==
  ASSUME NEW n \in [Members -> Boxes], NEW m \in Members, n[m].up # <<>>,
         NEW says, NEW k, k = [n EXCEPT ![m].up = Tail(@)]
  PROVE  Serves(n, k, m, {}, says)
BY TakenFacts DEF Serves

LEMMA ServesThen ==
  ASSUME NEW n, NEW m \in Members, NEW t, NEW k, NEW who, NEW e, NEW says,
         Serves(n, t, m, {}, says), Tells(t, k, who, e), \A x \in Members : says[x] = e
  PROVE  Serves(n, k, m, who, says)
BY DEF Serves, Tells

LEMMA ServesTold ==
  ASSUME NEW n \in [Members -> Boxes], NEW m \in Members, n[m].up # <<>>,
         NEW who, NEW e \in Says, NEW t, t = [n EXCEPT ![m].up = Tail(@)],
         NEW k, k = Tell(t, who, e), NEW says, \A x \in Members : says[x] = e
  PROVE  Serves(n, k, m, who, says)
<1>1. Serves(n, t, m, {}, says)
  BY ServesTaken
<1>2. Tells(t, k, who, e)
  BY <1>1, TellFacts DEF Serves
<1> QED
  BY <1>1, <1>2, ServesThen

\* What is left of the questions, and who there is.
LEMMA ServedFacts ==
  ASSUME RoomInv, NEW m \in Members, net[m].up # <<>>, NEW who, who \subseteq Here, NEW says,
         Serves(net, net', m, who, says)
  PROVE  /\ member[m].here /\ net' \in [Members -> Boxes]
         /\ Head(net[m].up) \in Asks
         /\ \A k : Asked(net[m].up, k) <=> Asked(net'[m].up, k) \/ Head(net[m].up).kind = k
         /\ StopsLast(net[m].up) => StopsLast(net'[m].up) \/ Head(net[m].up).kind = "stop"
         /\ SyncFirst(net[m].up) => ~Asked(net'[m].up, "sync")
         /\ \A x \in Members : ~member[x].here => net'[x] = net[x]
         /\ \A x \in Members : Left(net[x].up, net'[x].up)
         /\ \A x \in Members : x # m => net'[x].up = net[x].up
<1> DEFINE q == net[m].up
           r == net'[m].up
<1>1. /\ q \in Seq(Asks) /\ q # <<>> /\ r = Tail(q)
      /\ net' \in [Members -> Boxes]
  BY HereFits DEF Serves, Boxes
<1>2. member[m].here
  BY HereFits DEF Absent, NoMail
<1>3. \A x \in Members : ~member[x].here => net'[x] = net[x]
  BY <1>2 DEF Serves, Here
<1>4. \A x \in Members : x # m => net'[x].up = net[x].up
  BY DEF Serves
<1>5. \A x \in Members : Left(net[x].up, net'[x].up)
  <2>1. \A a \in Seq(Asks) : Left(a, a)
    BY LeftFacts
  <2>2. \A a \in Seq(Asks) : a # <<>> => Left(a, Tail(a))
    BY LeftFacts
  <2>3. \A x \in Members : net[x].up \in Seq(Asks)
    BY HereFits DEF Boxes
  <2> QED
    BY <1>1, <1>4, <2>1, <2>2, <2>3
<1> HIDE DEF q, r
<1>6. /\ Head(q) \in Asks
      /\ \A k : Asked(q, k) <=> Asked(r, k) \/ Head(q).kind = k
      /\ StopsLast(q) => StopsLast(r) \/ (Head(q).kind = "stop" /\ ~Asked(r, "play"))
      /\ SyncFirst(q) => SyncFirst(r) /\ ~Asked(r, "sync")
  BY <1>1, AskServed
<1> QED
  BY <1>1, <1>2, <1>3, <1>4, <1>5, <1>6 DEF q, r

LEMMA MessageTypes ==
  ASSUME RoomInv
  PROVE  /\ [kind |-> "play"] \in Says /\ Bids([kind |-> "play"])
         /\ [kind |-> "stop"] \in Says /\ Halts([kind |-> "stop"]) /\ ~Rests([kind |-> "stop"])
         /\ SyncState \in Says
         /\ Active => Bids(SyncState)
         /\ ~Active => Halts(SyncState)
<1>1. shared.at \in Nat /\ shared.revision \in Nat /\ Active \in BOOLEAN
  BY DEF RoomInv, RoomType, Active
<1>2. SyncState \in Says
  BY <1>1 DEF SyncState, Says
<1>3. SyncState.kind = "sync" /\ SyncState.active = Active
  BY DEF SyncState
<1>4. /\ [kind |-> "play"] \in Says /\ Bids([kind |-> "play"])
      /\ [kind |-> "stop"] \in Says /\ Halts([kind |-> "stop"]) /\ ~Rests([kind |-> "stop"])
  BY DEF Says, Bids, Halts, Rests
<1> QED
  BY <1>2, <1>3, <1>4 DEF Bids, Halts

LEMMA MemberSame ==
  ASSUME RoomInv, NEW m \in Members, net[m].up # <<>>, NEW who, who \subseteq Here, NEW says,
         Serves(net, net', m, who, says), NEW x \in Members, member[x].here,
         NEW t, t.master = shared.master, NEW late, history.late => late,
         x \in who => says[x] \in Says /\ ~Turns(says[x]),
         x = m /\ Slaved(shared, m) => Head(net[m].up).kind \notin {"stop", "sync"},
         Head(net[m].up).kind = "stop" => shared.master # m
  PROVE  Fits(member[x], net'[x], t, x, late)
<1> DEFINE p == member[x]
           b == net[x]
           c == net'[x]
<1>1. b \in Boxes /\ Fits(p, b, shared, x, history.late)
  BY HereFits
<1>2. /\ Left(b.up, c.up)
      /\ x = m => \A k : Asked(b.up, k) <=> Asked(c.up, k) \/ Head(net[m].up).kind = k
      /\ x = m => (StopsLast(b.up) => StopsLast(c.up) \/ Head(net[m].up).kind = "stop")
      /\ x # m => c.up = b.up
  BY ServedFacts
<1>3. c.page = b.page /\ (c.down = b.down \/ \E e \in Says : ~Turns(e) /\ c.down = Append(b.down, e))
  BY DEF Serves
<1>4. Slaved(shared, x) => \A k \in {"stop", "sync"} : Asked(b.up, k) => Asked(c.up, k)
  BY <1>2
<1>5. StopsLast(b.up) => StopsLast(c.up) \/ shared.master # x
  BY <1>2
<1> HIDE DEF p, b, c
<1>6. Fits(p, c, t, x, late)
  BY <1>1, <1>2, <1>3, <1>4, <1>5, FitsSame
<1> QED
  BY <1>6 DEF p, c

LEMMA MemberBid ==
  ASSUME RoomInv, NEW m \in Members, net[m].up # <<>>, NEW who, who \subseteq Here, NEW says,
         Serves(net, net', m, who, says), NEW x \in who, x \in Members, member[x].here,
         NEW t, t.master # NoMaster, t.master # x, NEW late, history.late => late,
         says[x] \in Says, Bids(says[x])
  PROVE  Fits(member[x], net'[x], t, x, late)
<1> DEFINE p == member[x]
           b == net[x]
           c == net'[x]
<1>1. b \in Boxes /\ Fits(p, b, shared, x, history.late)
  BY HereFits
<1>2. Left(b.up, c.up)
  BY ServedFacts
<1>3. c.page = b.page /\ c.down = Append(b.down, says[x])
  BY DEF Serves
<1> HIDE DEF p, b, c
<1>4. Fits(p, c, t, x, late)
  BY <1>1, <1>2, <1>3, FitsBid
<1> QED
  BY <1>4 DEF p, c

LEMMA MemberHalt ==
  ASSUME RoomInv, NEW m \in Members, net[m].up # <<>>, NEW who, who \subseteq Here, NEW says,
         Serves(net, net', m, who, says), NEW x \in who, x \in Members, member[x].here,
         NEW t, t.master = NoMaster, NEW late, history.late => late,
         says[x] \in Says, Halts(says[x]), Rests(says[x]) => shared.master = NoMaster
  PROVE  Fits(member[x], net'[x], t, x, late)
<1> DEFINE p == member[x]
           b == net[x]
           c == net'[x]
<1>1. b \in Boxes /\ Fits(p, b, shared, x, history.late) /\ x # NoMaster
  BY HereFits
<1>2. Left(b.up, c.up)
  BY ServedFacts
<1>3. c.page = b.page /\ c.down = Append(b.down, says[x])
  BY DEF Serves
<1> HIDE DEF p, b, c
<1>4. Fits(p, c, t, x, late)
  BY <1>1, <1>2, <1>3, FitsHalt
<1> QED
  BY <1>4 DEF p, c

\* What the server did with the message of m, seen in the network.
LEMMA NetServed ==
  ASSUME RoomInv, NEW m \in Members, net[m].up # <<>>
  PROVE  /\ \A none, says : none = {} /\ net' = Taken(m) => Serves(net, net', m, none, says)
         /\ \A who, says : \A e \in Says :
              net' = Tell(Taken(m), who, e) /\ (\A x \in Members : says[x] = e) =>
                Serves(net, net', m, who, says)
<1>1. net \in [Members -> Boxes]
  BY HereFits
<1>2. \A says, k : k = Taken(m) => Serves(net, k, m, {}, says)
  BY <1>1, ServesTaken DEF Taken
<1>3. \A who, says, k, t : \A e \in Says :
        t = [net EXCEPT ![m].up = Tail(@)] /\ k = Tell(t, who, e)
            /\ (\A x \in Members : says[x] = e) =>
          Serves(net, k, m, who, says)
  BY <1>1, ServesTold
<1>4. Taken(m) = [net EXCEPT ![m].up = Tail(@)]
  BY DEF Taken
<1> QED
  BY <1>2, <1>3, <1>4

\* The server takes a message and says nothing.
LEMMA SparedKeeps ==
  ASSUME RoomInv, NEW m \in Members, net[m].up # <<>>, net' = Taken(m), member' = member,
         shared' = shared, HistoryType', history.late => history'.late,
         Slaved(shared, m) => Head(net[m].up).kind \notin {"stop", "sync"},
         Head(net[m].up).kind = "stop" => shared.master # m
  PROVE  RoomInv'
<1>1. PICK none, says : none = {} /\ says = none
  OBVIOUS
<1>2. none \subseteq Here /\ (\A x : x \notin none) /\ Serves(net, net', m, none, says)
  BY <1>1, NetServed
<1>3. ASSUME NEW x \in Members, member[x].here, NEW t, NEW late, t = shared', late = history'.late
      PROVE  Fits(member[x], net'[x], t, x, late)
  <2>1. member[x].here /\ t.master = shared.master /\ (history.late => late)
    BY <1>3
  <2> QED
    BY <1>2, <2>1, MemberSame
<1>4. net' \in [Members -> Boxes] /\ \A x \in Members : ~member[x].here => net'[x] = net[x]
  BY <1>2, ServedFacts
<1> QED
  BY <1>3, <1>4, ServeKeeps, HereFits

\* The server tells a member that is not the master the state of the room.
LEMMA SyncedKeeps ==
  ASSUME RoomInv, NEW m \in Members, net[m].up # <<>>, net' = Tell(Taken(m), {m}, SyncState),
         member' = member, shared' = shared, HistoryType', history.late => history'.late,
         shared.master # m, Head(net[m].up).kind # "stop"
  PROVE  RoomInv'
<1>1. PICK e, who, says : e = SyncState /\ who = {m} /\ says = [x \in Members |-> e]
  OBVIOUS
<1>2. /\ net' = Tell(Taken(m), who, e) /\ member[m].here /\ e \in Says
      /\ Active => Bids(e)
      /\ ~Active => Halts(e)
      /\ \A x \in Members : says[x] = e
  BY <1>1, MessageTypes, HereFits DEF Absent, NoMail
<1>3. who \subseteq Here /\ Serves(net, net', m, who, says)
  BY <1>1, <1>2, NetServed DEF Here
<1>4. ASSUME NEW x \in Members, member[x].here, NEW t, NEW late, t = shared', late = history'.late
      PROVE  Fits(member[x], net'[x], t, x, late)
  <2>1. member[x].here /\ t.master = shared.master /\ (history.late => late)
    BY <1>4
  <2>2. CASE x = m /\ Active
    <3>1. x \in who /\ t.master # NoMaster /\ t.master # x /\ says[x] \in Says /\ Bids(says[x])
      BY <1>1, <1>2, <2>1, <2>2 DEF Active
    <3> QED
      BY <1>3, <2>1, <3>1, MemberBid
  <2>3. CASE x = m /\ ~Active
    <3>1. /\ x \in who /\ t.master = NoMaster /\ shared.master = NoMaster
          /\ says[x] \in Says /\ Halts(says[x])
      BY <1>1, <1>2, <2>1, <2>3 DEF Active
    <3> QED
      BY <1>3, <2>1, <3>1, MemberHalt
  <2>4. CASE x # m
    <3>1. x \notin who
      BY <1>1, <2>4
    <3> QED
      BY <1>3, <2>1, <2>4, <3>1, MemberSame
  <2> QED
    BY <2>2, <2>3, <2>4
<1>5. net' \in [Members -> Boxes] /\ \A x \in Members : ~member[x].here => net'[x] = net[x]
  BY <1>3, ServedFacts
<1> QED
  BY <1>4, <1>5, ServeKeeps, HereFits

LEMMA ServePlayKeeps ==
  ASSUME RoomInv, NEW m \in Members, ServePlay(m)
  PROVE  RoomInv'
<1>1. /\ member' = member /\ net[m].up # <<>> /\ Head(net[m].up).kind = "play"
  BY DEF ServePlay
<1>2. /\ HistoryType'
      /\ history.late => history'.late
      /\ ~history'.late /\ ~Active => ~Halting(m)
  <2> DEFINE late == history.late \/ (~Active /\ Halting(m))
  <2>1. history.late \in BOOLEAN /\ late \in BOOLEAN /\ HistoryType
    BY HereFits DEF HistoryType
  <2>2. history' = [history EXCEPT !.late = late]
    BY DEF ServePlay
  <2>3. late <=> history.late \/ (~Active /\ Halting(m))
    OBVIOUS
  <2> HIDE DEF late
  <2>4. HistoryType' /\ history'.late = late
    BY <2>1, <2>2 DEF HistoryType
  <2> QED
    BY <2>1, <2>3, <2>4
<1>3. CASE Active /\ shared.master = m
  <2>1. shared' = shared /\ net' = Taken(m) /\ ~Slaved(shared, m)
    BY <1>3 DEF ServePlay, Slaved
  <2> QED
    BY <1>1, <1>2, <2>1, SparedKeeps
<1>4. CASE Active /\ shared.master # m
  <2>1. shared' = shared /\ net' = Tell(Taken(m), {m}, SyncState)
    BY <1>4 DEF ServePlay
  <2> QED
    BY <1>1, <1>2, <1>4, <2>1, SyncedKeeps
<1>5. CASE ~Active
  <2>1. PICK e, who, says : e = [kind |-> "play"] /\ who = Here \ {m} /\ says = [x \in Members |-> e]
    OBVIOUS
  <2>2. /\ shared' = [shared EXCEPT !.exists = TRUE, !.master = m]
        /\ net' = Tell(Taken(m), who, e)
        /\ e \in Says /\ Bids(e) /\ \A x \in Members : says[x] = e
    BY <1>5, <2>1, MessageTypes DEF ServePlay
  <2>3. who \subseteq Here /\ Serves(net, net', m, who, says)
    BY <1>1, <2>1, <2>2, NetServed
  <2>4. /\ shared' \in [exists : BOOLEAN, master : Nat, at : Nat, revision : Nat]
        /\ shared'.exists /\ shared'.master = m
    BY <2>2, HereFits
  <2>5. /\ member[m].here /\ net' \in [Members -> Boxes]
        /\ Head(net[m].up) \in Asks
        /\ Left(net[m].up, net'[m].up)
        /\ Asked(net[m].up, "play")
        /\ SyncFirst(net[m].up) => ~Asked(net'[m].up, "sync")
        /\ \A x \in Members : ~member[x].here => net'[x] = net[x]
    BY <1>1, <2>3, ServedFacts
  <2>6. ASSUME NEW t, NEW late, t = shared', late = history'.late
        PROVE  Fits(member[m], net'[m], t, m, late)
    <3> DEFINE p == member[m]
               b == net[m]
               c == net'[m]
               w == Way(b)
    <3>1. /\ b \in Boxes /\ Fits(p, b, shared, m, history.late)
          /\ ~Slaved(shared, m) /\ t.master = m
          /\ ~late => ~history.late
      BY <1>2, <1>5, <2>4, <2>5, <2>6, HereFits DEF Active, Slaved
    <3>2. Way(c) = w
      BY <2>1, <2>3 DEF Serves, Way
    <3>3. ~late => NoHalt(w)
      <4>1. ~late => ~Halting(m)
        BY <1>2, <1>5, <2>6
      <4>2. \A i \in DOMAIN w :
              \/ \E j \in DOMAIN b.page : w[i] = b.page[j]
              \/ \E j \in DOMAIN b.down : w[i] = b.down[j]
        BY <3>1, WayFacts
      <4> QED
        BY <4>1, <4>2 DEF NoHalt, Halting
    <3>4. StopsLast(b.up) => StopsLast(c.up)
      BY <1>1, <2>3, ServedFacts
    <3> HIDE DEF p, b, c, w
    <3>5. Minding(p, c, t, m)
      BY <3>1, <3>2 DEF Fits, Minding, Slaved, w
    <3>6. Heeding(p, c)
      BY <3>1, <3>2 DEF Fits, Heeding, w
    <3>7. Joining(c, t, m)
      BY <2>5, <3>1 DEF Fits, Joining, Left, b, c
    <3>8. ~late => Leading(p, c, t, m)
      BY <2>5, <3>1, <3>2, <3>3, <3>4 DEF Fits, Leading, w, b
    <3>9. Fits(p, c, t, m, late)
      BY <3>5, <3>6, <3>7, <3>8 DEF Fits
    <3> QED
      BY <3>9 DEF p, c
  <2>7. ASSUME NEW x \in Members, member[x].here, NEW t, NEW late, t = shared', late = history'.late
        PROVE  Fits(member[x], net'[x], t, x, late)
    <3>1. member[x].here /\ t.master = m /\ (history.late => late) /\ m # NoMaster
      BY <1>2, <2>4, <2>7, HereFits
    <3>2. CASE x = m
      BY <2>6, <2>7, <3>2
    <3>3. CASE x # m
      <4>1. x \in who /\ t.master # NoMaster /\ t.master # x /\ says[x] \in Says /\ Bids(says[x])
        BY <2>1, <2>2, <3>1, <3>3 DEF Here
      <4> QED
        BY <1>1, <2>3, <3>1, <4>1, MemberBid
    <3> QED
      BY <3>2, <3>3
  <2> QED
    BY <1>1, <1>2, <2>4, <2>5, <2>7, ServeKeeps, HereFits
<1> QED
  BY <1>3, <1>4, <1>5

LEMMA ServeStopKeeps ==
  ASSUME RoomInv, NEW m \in Members, ServeStop(m)
  PROVE  RoomInv'
<1>1. /\ member' = member /\ net[m].up # <<>> /\ shared' = [shared EXCEPT !.master = NoMaster]
      /\ HistoryType'
      /\ history'.late = history.late
  BY HereFits DEF ServeStop, Released, HistoryType
<1>2. PICK e, who, says : e = [kind |-> "stop"] /\ who = Here /\ says = [x \in Members |-> e]
  OBVIOUS
<1>3. /\ net' = Tell(Taken(m), who, e) /\ e \in Says /\ Halts(e) /\ ~Rests(e)
      /\ \A x \in Members : says[x] = e
  BY <1>2, MessageTypes DEF ServeStop
<1>4. who \subseteq Here /\ Serves(net, net', m, who, says)
  BY <1>1, <1>2, <1>3, NetServed
<1>5. /\ shared' \in [exists : BOOLEAN, master : Nat, at : Nat, revision : Nat]
      /\ shared'.master = NoMaster
  BY <1>1, HereFits DEF NoMaster
<1>6. ASSUME NEW x \in Members, member[x].here, NEW t, NEW late, t = shared', late = history'.late
      PROVE  Fits(member[x], net'[x], t, x, late)
  <2>1. /\ member[x].here /\ t.master = NoMaster /\ (history.late => late)
        /\ x \in who /\ says[x] \in Says /\ Halts(says[x]) /\ ~Rests(says[x])
    BY <1>1, <1>2, <1>3, <1>5, <1>6 DEF Here
  <2> QED
    BY <1>1, <1>4, <2>1, MemberHalt
<1>7. net' \in [Members -> Boxes] /\ \A x \in Members : ~member[x].here => net'[x] = net[x]
  BY <1>1, <1>4, ServedFacts
<1> QED
  BY <1>1, <1>5, <1>6, <1>7, ServeKeeps

LEMMA ServesBoth ==
  ASSUME NEW n, NEW m \in Members, NEW j, NEW k, NEW one, NEW rest, NEW who, NEW first, NEW e,
         NEW says, one = {m}, rest = who \ {m}, m \in who,
         Serves(n, j, m, one, first), Tells(j, k, rest, e),
         says[m] = first[m], \A x \in Members : x # m => says[x] = e
  PROVE  Serves(n, k, m, who, says)
<1>1. \A x \in Members : (x \in one <=> x = m) /\ (x \in rest <=> x \in who /\ x # m)
  OBVIOUS
<1>2. k \in [Members -> Boxes] /\ k[m].up = Tail(n[m].up)
  BY DEF Serves, Tells
<1>3. ASSUME NEW x \in Members
      PROVE  /\ k[x].page = n[x].page
             /\ x \in who => k[x].down = Append(n[x].down, says[x])
             /\ x \notin who => k[x].down = n[x].down
             /\ x # m => k[x].up = n[x].up
             /\ x # m /\ x \notin who => k[x] = n[x]
  <2>1. CASE x = m
    BY <1>1, <2>1 DEF Serves, Tells
  <2>2. CASE x # m
    BY <1>1, <2>2 DEF Serves, Tells
  <2> QED
    BY <2>1, <2>2
<1> QED
  BY <1>2, <1>3 DEF Serves

\* The members are told a position.
LEMMA MovedKeeps ==
  ASSUME RoomInv, NEW m \in Members, net[m].up # <<>>, member' = member, history' = history,
         NEW who, who \subseteq Here, NEW says, Serves(net, net', m, who, says),
         \A x \in who : says[x] \in Says /\ ~Turns(says[x]),
         shared' \in [exists : BOOLEAN, master : Nat, at : Nat, revision : Nat],
         shared'.exists = shared.exists, shared'.master = shared.master,
         Head(net[m].up).kind \notin {"stop", "sync"}
  PROVE  RoomInv'
<1>1. HistoryType' /\ history'.late = history.late
  BY HereFits DEF HistoryType
<1>2. ASSUME NEW x \in Members, member[x].here, NEW t, NEW late, t = shared', late = history'.late
      PROVE  Fits(member[x], net'[x], t, x, late)
  <2>1. /\ member[x].here /\ t.master = shared.master /\ (history.late => late)
        /\ x \in who => says[x] \in Says /\ ~Turns(says[x])
    BY <1>1, <1>2
  <2> QED
    BY <2>1, MemberSame
<1>3. net' \in [Members -> Boxes] /\ \A x \in Members : ~member[x].here => net'[x] = net[x]
  BY ServedFacts
<1> QED
  BY <1>1, <1>2, <1>3, ServeKeeps, HereFits

LEMMA ServeMoveKeeps ==
  ASSUME RoomInv, NEW m \in Members, ServeMove(m)
  PROVE  RoomInv'
<1>1. /\ member' = member /\ history' = history /\ net[m].up # <<>>
      /\ Head(net[m].up).kind = "move" /\ Head(net[m].up) \in Asks /\ member[m].here
      /\ net \in [Members -> Boxes]
  <2>1. net[m].up \in Seq(Asks) /\ net[m].up # <<>> /\ member[m].here
    BY HereFits DEF ServeMove, Boxes, Absent, NoMail
  <2>2. \A q \in Seq(Asks) : q # <<>> => Head(q) \in Asks
    BY Tailed
  <2> QED
    BY <2>1, <2>2, HereFits DEF ServeMove
<1>2. CASE ~shared.exists
  <2>1. shared' = shared /\ net' = Taken(m) /\ HistoryType' /\ history'.late = history.late
    BY <1>1, <1>2, HereFits DEF ServeMove, HistoryType
  <2> QED
    BY <1>1, <2>1, SparedKeeps
<1>3. CASE shared.exists
  <2> DEFINE moved == [shared EXCEPT !.revision = @ + 1, !.at = Head(net[m].up).at]
             rev == [kind |-> "revision", revision |-> moved.revision]
             pos == Position(moved, TRUE)
  <2>1. shared' = moved /\ net' = Tell(Tell(Taken(m), {m}, rev), Here \ {m}, pos)
    BY <1>3 DEF ServeMove
  <2>2. Head(net[m].up).at \in Nat
    BY <1>1 DEF Asks
  <2>3. /\ moved \in [exists : BOOLEAN, master : Nat, at : Nat, revision : Nat]
        /\ moved.exists = shared.exists /\ moved.master = shared.master
    <3> DEFINE at == Head(net[m].up).at
               next == shared.revision + 1
    <3>1. /\ shared \in [exists : BOOLEAN, master : Nat, at : Nat, revision : Nat]
          /\ at \in Nat /\ next \in Nat
      BY <2>2, HereFits
    <3>2. moved = [shared EXCEPT !.revision = next, !.at = at]
      OBVIOUS
    <3> HIDE DEF at, next, moved
    <3> QED
      BY <3>1, <3>2
  <2> HIDE DEF moved
  <2>4. /\ rev \in Says /\ ~Turns(rev) /\ pos \in Says /\ ~Turns(pos)
    BY <2>3 DEF Says, Turns, Position
  <2> HIDE DEF rev, pos
  <2>5. PICK one, rest, who, first, says, j, t :
          /\ one = {m} /\ rest = Here \ {m} /\ who = Here
          /\ first = [x \in Members |-> rev]
          /\ says = [x \in Members |-> IF x = m THEN rev ELSE pos]
          /\ t = [net EXCEPT ![m].up = Tail(@)] /\ j = Tell(t, one, rev)
    OBVIOUS
  <2>6. /\ \A x \in Members : first[x] = rev /\ (x # m => says[x] = pos)
        /\ says[m] = rev /\ m \in who /\ rest = who \ {m}
    BY <1>1, <2>5 DEF Here
  <2>7. Serves(net, j, m, one, first)
    BY <1>1, <2>4, <2>5, <2>6, ServesTold
  <2>8. Tells(j, net', rest, pos)
    <3>1. j \in [Members -> Boxes]
      BY <2>7 DEF Serves
    <3>2. net' = Tell(j, rest, pos)
      BY <2>1, <2>5 DEF Taken
    <3>3. \A k : k = Tell(j, rest, pos) => Tells(j, k, rest, pos)
      BY <2>4, <3>1, TellFacts
    <3> QED
      BY <3>2, <3>3
  <2>9. Serves(net, net', m, who, says)
    <3>1. one = {m} /\ says[m] = first[m]
      BY <2>5, <2>6
    <3>2. \A k : Tells(j, k, rest, pos) => Serves(net, k, m, who, says)
      BY <2>6, <2>7, <3>1, ServesBoth
    <3> QED
      BY <2>8, <3>2
  <2>10. /\ who \subseteq Here
         /\ \A x \in who : says[x] \in Says /\ ~Turns(says[x])
    BY <2>4, <2>5, <2>6 DEF Here
  <2> QED
    BY <1>1, <2>1, <2>3, <2>9, <2>10, MovedKeeps
<1> QED
  BY <1>2, <1>3

LEMMA ServeReportKeeps ==
  ASSUME RoomInv, NEW m \in Members, ServeReport(m)
  PROVE  RoomInv'
<1> DEFINE report == Head(net[m].up)
           moved == [shared EXCEPT !.at = report.at]
           pos == Position(moved, FALSE)
<1>1. /\ member' = member /\ history' = history /\ net[m].up # <<>>
      /\ report.kind = "report" /\ report \in Asks
  <2>1. net[m].up \in Seq(Asks) /\ net[m].up # <<>>
    BY HereFits DEF ServeReport, Boxes
  <2>2. \A q \in Seq(Asks) : q # <<>> => Head(q) \in Asks
    BY Tailed
  <2> QED
    BY <2>1, <2>2 DEF ServeReport
<1>2. HistoryType' /\ history'.late = history.late
  BY <1>1, HereFits DEF HistoryType
<1>3. \/ shared' = shared /\ net' = Taken(m)
      \/ shared.master # m /\ shared' = shared /\ net' = Tell(Taken(m), {m}, SyncState)
      \/ shared' = moved /\ net' = Tell(Taken(m), Here \ {m}, pos)
  BY DEF ServeReport
<1>4. CASE shared' = shared /\ net' = Taken(m)
  BY <1>1, <1>2, <1>4, SparedKeeps
<1>5. CASE shared.master # m /\ shared' = shared /\ net' = Tell(Taken(m), {m}, SyncState)
  BY <1>1, <1>2, <1>5, SyncedKeeps
<1>6. CASE shared' = moved /\ net' = Tell(Taken(m), Here \ {m}, pos)
  <2>1. report.at \in Nat
    BY <1>1 DEF Asks
  <2> HIDE DEF report
  <2>2. /\ moved \in [exists : BOOLEAN, master : Nat, at : Nat, revision : Nat]
        /\ moved.exists = shared.exists /\ moved.master = shared.master
    BY <2>1, HereFits
  <2> HIDE DEF moved
  <2>3. pos \in Says /\ ~Turns(pos)
    BY <2>2 DEF Says, Turns, Position
  <2> HIDE DEF pos
  <2>4. PICK who, says : who = Here \ {m} /\ says = [x \in Members |-> pos]
    OBVIOUS
  <2>5. (\A x \in Members : says[x] = pos) /\ net' = Tell(Taken(m), who, pos)
    BY <1>6, <2>4
  <2>6. Serves(net, net', m, who, says)
    BY <1>1, <2>3, <2>5, NetServed
  <2>7. who \subseteq Here /\ \A x \in who : says[x] \in Says /\ ~Turns(says[x])
    BY <2>3, <2>4, <2>5 DEF Here
  <2> QED
    BY <1>1, <1>6, <2>2, <2>6, <2>7, MovedKeeps DEF report
<1> QED
  BY <1>3, <1>4, <1>5, <1>6

LEMMA ServeSyncKeeps ==
  ASSUME RoomInv, NEW m \in Members, ServeSync(m)
  PROVE  RoomInv'
<1>1. /\ member' = member /\ shared' = shared /\ net[m].up # <<>>
      /\ Head(net[m].up).kind = "sync" /\ HistoryType' /\ history'.late = history.late
  BY HereFits DEF ServeSync, HistoryType
<1>2. shared.master # m
  <2>1. member[m].here /\ net[m].up \in Seq(Asks)
    BY <1>1, HereFits DEF Absent, NoMail, Boxes
  <2>2. \A q \in Seq(Asks) : q # <<>> => \A k : Asked(q, k) <=> Asked(Tail(q), k) \/ Head(q).kind = k
    BY AskServed
  <2>3. Asked(net[m].up, "sync")
    BY <1>1, <2>1, <2>2
  <2> QED
    BY <2>1, <2>3, HereFits DEF Fits, Joining
<1>3. CASE shared.exists
  <2>1. net' = Tell(Taken(m), {m}, SyncState)
    BY <1>3 DEF ServeSync
  <2> QED
    BY <1>1, <1>2, <2>1, SyncedKeeps
<1>4. CASE ~shared.exists
  <2>1. net' = Taken(m) /\ ~Slaved(shared, m)
    BY <1>4, HereFits DEF ServeSync, Slaved
  <2> QED
    BY <1>1, <2>1, SparedKeeps
<1> QED
  BY <1>3, <1>4

-----------------------------------------------------------------------------
(* Pages that come and go.                                                 *)

LEMMA PageTypes ==
  /\ Page \in PlayPages /\ Page.here /\ Page.awaits = "nothing" /\ Page.slave = FALSE
  /\ [Page EXCEPT !.here = FALSE] \in PlayPages
  /\ ~[Page EXCEPT !.here = FALSE].here
  /\ NoMail \in Boxes /\ Absent([Page EXCEPT !.here = FALSE], NoMail)
<1>1. <<>> \in Seq(Says) /\ <<>> \in Seq(Asks)
  OBVIOUS
<1>2. Page \in PlayPages /\ Page.here /\ Page.awaits = "nothing" /\ Page.slave = FALSE
  BY <1>1 DEF Page, PlayPages
<1>3. NoMail \in Boxes
  BY <1>1 DEF NoMail, Boxes
<1>4. /\ [Page EXCEPT !.here = FALSE] \in PlayPages
      /\ ~[Page EXCEPT !.here = FALSE].here
  BY <1>2 DEF PlayPages
<1>5. Absent([Page EXCEPT !.here = FALSE], NoMail)
  BY DEF Absent, Page
<1> QED
  BY <1>2, <1>3, <1>4, <1>5

LEMMA LeaveKeeps ==
  ASSUME RoomInv, NEW m \in Members, Leave(m)
  PROVE  RoomInv'
<1> DEFINE gone == [Page EXCEPT !.here = FALSE]
           left == [net EXCEPT ![m] = NoMail]
           rest == Here \ {m}
<1>1. /\ member' = [member EXCEPT ![m] = gone] /\ member[m].here
      /\ net \in [Members -> Boxes] /\ member \in [Members -> PlayPages]
  BY HereFits DEF Leave
<1>2. HistoryType' /\ history'.late = history.late
  BY HereFits DEF Leave, Coming, HistoryType
<1>3. /\ gone \in PlayPages /\ ~gone.here /\ NoMail \in Boxes /\ Absent(gone, NoMail)
  BY PageTypes
<1> HIDE DEF gone
<1>4. /\ member' \in [Members -> PlayPages] /\ member'[m] = gone
      /\ \A x \in Members : x # m => member'[x] = member[x]
      /\ left \in [Members -> Boxes] /\ left[m] = NoMail
      /\ \A x \in Members : x # m => left[x] = net[x]
  BY <1>1, <1>3
<1> HIDE DEF left
<1>5. /\ net' \in [Members -> Boxes] /\ net'[m] = NoMail
      /\ \A x \in Members : x # m /\ ~member[x].here => net'[x] = net[x]
      /\ shared' \in [exists : BOOLEAN, master : Nat, at : Nat, revision : Nat]
      /\ shared'.master # NoMaster =>
           shared'.exists /\ shared'.master \in Members /\ member'[shared'.master].here
      /\ \A x \in Members : x # m /\ member[x].here =>
           \A t, late : t = shared' /\ late = history'.late =>
             Fits(member[x], net'[x], t, x, late)
  <2>1. CASE rest = {}
    <3>1. /\ net' = left
          /\ shared' = [exists |-> FALSE, master |-> NoMaster, at |-> 0, revision |-> 0]
      BY <2>1 DEF Leave, left
    <3>2. \A x \in Members : x # m => ~member[x].here
      BY <2>1 DEF Here
    <3> QED
      BY <1>4, <3>1, <3>2 DEF NoMaster
  <2>2. CASE rest # {} /\ shared.master = m
    <3>1. PICK e, who : e = [kind |-> "stop"] /\ who = rest
      OBVIOUS
    <3>2. /\ net' = Tell(left, who, e) /\ shared' = [shared EXCEPT !.master = NoMaster]
          /\ e \in Says /\ Halts(e) /\ ~Rests(e)
      BY <2>2, <3>1, MessageTypes DEF Leave, Released, left
    <3>3. Tells(left, net', who, e)
      <4>1. \A k : k = Tell(left, who, e) => Tells(left, k, who, e)
        BY <1>4, <3>2, TellFacts
      <4> QED
        BY <3>2, <4>1
    <3>4. /\ shared' \in [exists : BOOLEAN, master : Nat, at : Nat, revision : Nat]
          /\ shared'.master = NoMaster
      BY <3>2, HereFits DEF NoMaster
    <3>5. ASSUME NEW x \in Members, x # m, member[x].here, NEW t, NEW late,
                 t = shared', late = history'.late
          PROVE  Fits(member[x], net'[x], t, x, late)
      <4> DEFINE p == member[x]
                 b == net[x]
                 c == net'[x]
      <4>1. /\ b \in Boxes /\ Fits(p, b, shared, x, history.late) /\ x # NoMaster
            /\ t.master = NoMaster
            /\ history.late => late
        BY <1>2, <3>4, <3>5, HereFits
      <4>2. /\ c.up = b.up /\ c.page = b.page /\ c.down = Append(b.down, e) /\ b.up \in Seq(Asks)
        BY <1>4, <3>1, <3>3, <3>5, <4>1 DEF Tells, Here, Boxes
      <4>3. Left(b.up, c.up)
        BY <4>2 DEF Left
      <4> HIDE DEF p, b, c
      <4>4. Fits(p, c, t, x, late)
        BY <3>2, <4>1, <4>2, <4>3, FitsHalt
      <4> QED
        BY <4>4 DEF p, c
    <3>6. m \notin who /\ \A x \in Members : ~member[x].here => x \notin who
      BY <3>1 DEF Here
    <3> QED
      BY <1>4, <3>3, <3>4, <3>5, <3>6 DEF Tells
  <2>3. CASE rest # {} /\ shared.master # m
    <3>1. net' = left /\ shared' = shared
      BY <2>3 DEF Leave, left
    <3> QED
      BY <1>2, <1>4, <2>3, <3>1, HereFits
  <2> QED
    BY <2>1, <2>2, <2>3
<1>6. RoomType'
  BY <1>2, <1>4, <1>5 DEF RoomType, HistoryType
<1>7. \A x \in Members : IF member'[x].here THEN Fits(member'[x], net'[x], shared', x, history'.late)
                                            ELSE Absent(member'[x], net'[x])
  <2> SUFFICES ASSUME NEW x \in Members
               PROVE  IF member'[x].here THEN Fits(member'[x], net'[x], shared', x, history'.late)
                                         ELSE Absent(member'[x], net'[x])
    OBVIOUS
  <2>1. CASE x = m
    BY <1>3, <1>4, <1>5, <2>1
  <2>2. CASE x # m
    BY <1>4, <1>5, <2>2, HereFits
  <2> QED
    BY <2>1, <2>2
<1> QED
  BY <1>5, <1>6, <1>7 DEF RoomInv

LEMMA JoinKeeps ==
  ASSUME RoomInv, NEW m \in Members, Join(m)
  PROVE  RoomInv'
<1> DEFINE b == net[m]
           c == net'[m]
           e == [kind |-> "sync"]
<1>1. /\ member' = [member EXCEPT ![m] = Page] /\ ~member[m].here
      /\ net \in [Members -> Boxes] /\ member \in [Members -> PlayPages]
      /\ net' = Send(net, m, e) /\ b = NoMail /\ b \in Boxes
      /\ shared' = shared /\ history' = history /\ shared.master # m
      /\ HistoryType
  BY HereFits DEF Join, Absent
<1>2. HistoryType' /\ history'.late = history.late
  BY <1>1 DEF HistoryType
<1>3. e \in Asks /\ e.kind = "sync"
  BY DEF Asks
<1> HIDE DEF e
<1>4. Mails(b, c, e) /\ net' = [net EXCEPT ![m] = c]
  BY <1>1, <1>3, MailSent
<1>5. c.up = Append(<<>>, e)
  <2>1. \A k : k = Send(net, m, e) => k[m].up = Append(net[m].up, e)
    BY <1>1, <1>3, SentFacts
  <2> QED
    BY <1>1, <2>1 DEF NoMail
<1>6. Way(b) = <<>>
  BY <1>1, WayFacts DEF NoMail
<1> HIDE DEF b, c
<1>7. SyncFirst(c.up) /\ (\A k : Asked(c.up, k) <=> k = "sync")
  <2>1. \A i \in DOMAIN c.up : i = 1
    BY <1>5
  <2>2. \A k : ~Asked(b.up, k)
    BY <1>1 DEF NoMail, Asked
  <2> QED
    BY <1>3, <1>4, <2>1, <2>2 DEF SyncFirst, Mails
<1>8. Still(Way(c)) /\ ~LastBids(Way(c)) /\ ~FirstRests(Way(c)) /\ Stepwise(Way(c))
  <2>1. Way(c) = <<>>
    BY <1>4, <1>6 DEF Mails
  <2> QED
    BY <2>1 DEF Still, LastBids, FirstRests, Stepwise
<1>9. \A late : Fits(Page, c, shared, m, late)
  <2>1. Minding(Page, c, shared, m)
    BY <1>7, <1>8, PageTypes DEF Minding, Minds, Excused
  <2>2. Heeding(Page, c) /\ Joining(c, shared, m)
    BY <1>1, <1>7, <1>8, PageTypes DEF Heeding, Joining
  <2>3. Leading(Page, c, shared, m)
    BY <1>1, <1>7 DEF Leading
  <2> QED
    BY <2>1, <2>2, <2>3 DEF Fits
<1>10. /\ member' \in [Members -> PlayPages] /\ member'[m] = Page
       /\ \A x \in Members : x # m => member'[x] = member[x] /\ net'[x] = net[x]
       /\ net' \in [Members -> Boxes] /\ net'[m] = c
  BY <1>1, <1>4, PageTypes DEF Mails
<1>11. RoomType'
  BY <1>1, <1>2, <1>10, HereFits DEF RoomType, HistoryType
<1>12. \A x \in Members : IF member'[x].here THEN Fits(member'[x], net'[x], shared', x, history'.late)
                                             ELSE Absent(member'[x], net'[x])
  <2> SUFFICES ASSUME NEW x \in Members
               PROVE  IF member'[x].here THEN Fits(member'[x], net'[x], shared', x, history'.late)
                                         ELSE Absent(member'[x], net'[x])
    OBVIOUS
  <2>1. CASE x = m
    BY <1>9, <1>10, <2>1, PageTypes, <1>1
  <2>2. CASE x # m
    BY <1>1, <1>2, <1>10, <2>2, HereFits
  <2> QED
    BY <2>1, <2>2
<1>13. shared'.master # NoMaster =>
         shared'.exists /\ shared'.master \in Members /\ member'[shared'.master].here
  BY <1>1, <1>10, HereFits
<1> QED
  BY <1>11, <1>12, <1>13 DEF RoomInv

-----------------------------------------------------------------------------
(* The theorem.                                                            *)

LEMMA RoomStarts ==
  RoomInit => RoomInv
<1> SUFFICES ASSUME RoomInit PROVE RoomInv
  OBVIOUS
<1>1. /\ member = [m \in Members |-> Page] /\ net = [m \in Members |-> NoMail]
      /\ shared = [exists |-> FALSE, master |-> NoMaster, at |-> 0, revision |-> 0]
      /\ history = [presses |-> 0, comings |-> 0, seeks |-> 0, late |-> FALSE,
                    overtaken |-> FALSE]
  BY DEF RoomInit
<1>2. RoomType
  <2>1. member \in [Members -> PlayPages] /\ net \in [Members -> Boxes]
    BY <1>1, PageTypes
  <2>2. shared \in [exists : BOOLEAN, master : Nat, at : Nat, revision : Nat]
    BY <1>1 DEF NoMaster
  <2>3. history \in [presses : Nat, comings : Nat, seeks : Nat,
                     late : BOOLEAN, overtaken : BOOLEAN]
    BY <1>1
  <2> QED
    BY <2>1, <2>2, <2>3 DEF RoomType
<1>3. NoMail.up = <<>> /\ Way(NoMail) = <<>> /\ shared.master = NoMaster
  BY PageTypes, WayFacts DEF RoomInit, NoMail
<1>4. \A late : \A m \in Members : m # NoMaster => Fits(Page, NoMail, shared, m, late)
  <2>1. \A k : ~Asked(NoMail.up, k)
    BY <1>3 DEF Asked
  <2>2. SyncFirst(NoMail.up)
    BY <1>3 DEF SyncFirst
  <2>3. /\ ~LastBids(Way(NoMail)) /\ ~FirstRests(Way(NoMail)) /\ Stepwise(Way(NoMail))
    BY <1>3 DEF LastBids, FirstRests, Stepwise
  <2> QED
    BY <1>3, <2>1, <2>2, <2>3, PageTypes
       DEF Fits, Minding, Minds, Excused, Heeding, Joining, Leading, Slaved
<1>5. \A m \in Members : m # NoMaster /\ member[m] = Page /\ net[m] = NoMail
  BY <1>1, PlayRoomAssumption DEF Members, NoMaster
<1>6. \A m \in Members : member[m].here /\ Fits(member[m], net[m], shared, m, history.late)
  BY <1>4, <1>5, PageTypes
<1> QED
  BY <1>2, <1>3, <1>6 DEF RoomInv

LEMMA RoomKeeps ==
  ASSUME RoomInv, [RoomNext]_roomVars
  PROVE  RoomInv'
<1>1. CASE UNCHANGED roomVars
  BY <1>1 DEF roomVars, RoomInv, RoomType, Fits, Absent
<1>2. ASSUME NEW m \in Members, NEW held \in BOOLEAN, PressSeek(m, held)
      PROVE  RoomInv'
  BY <1>2, PressSeekKeeps
<1>3. ASSUME NEW m \in Members,
             PressPlay(m) \/ PressStop(m) \/ Leave(m) \/ Join(m) \/ RoomSystem(m)
      PROVE  RoomInv'
  BY <1>3, PressPlayKeeps, PressStopKeeps, LeaveKeeps, JoinKeeps, WakesKeeps, StoppedKeeps,
     HearPageKeeps, HearServerKeeps, ReportsKeeps, ServePlayKeeps, ServeStopKeeps,
     ServeMoveKeeps, ServeReportKeeps, ServeSyncKeeps
  DEF RoomSystem
<1> QED
  BY <1>1, <1>2, <1>3 DEF RoomNext

LEMMA RoomHolds ==
  RoomInv => SlavesFollow
<1> SUFFICES ASSUME RoomInv, Calm PROVE
        /\ \A m \in Here : member[m].slave <=> Active /\ shared.master # m
        /\ Active /\ ~history.late => member[shared.master].playing
  BY DEF SlavesFollow
<1>1. ASSUME NEW m \in Here
      PROVE  /\ member[m].slave <=> Slaved(shared, m)
             /\ ~history.late /\ shared.master = m => member[m].playing
  <2>1. /\ m \in Members /\ member[m].here /\ net[m].up = <<>> /\ net[m].down = <<>>
        /\ net[m].page = <<>> /\ member[m].awaits = "nothing"
    BY DEF Here, Calm
  <2>2. /\ Minding(member[m], net[m], shared, m) /\ net[m] \in Boxes
        /\ ~history.late => Leading(member[m], net[m], shared, m)
    BY <2>1, HereFits DEF Fits
  <2>3. Way(net[m]) = <<>>
    BY <2>1, <2>2, WayFacts
  <2>4. /\ Still(Way(net[m])) /\ ~LastBids(Way(net[m]))
        /\ \A k : ~Asked(net[m].up, k)
        /\ ~StopsLast(net[m].up)
    BY <2>1, <2>3 DEF Still, LastBids, Asked, StopsLast
  <2> QED
    BY <2>1, <2>2, <2>4 DEF Minding, Minds, Excused, Leading
<1>2. Active => shared.master \in Here
  BY DEF RoomInv, Active, Here
<1> QED
  BY <1>1, <1>2 DEF Slaved, Active

\* When nothing is under way exactly those follow who are not the master of the
\* room, whatever plays, stops, seeks, reports and pages that come and go crossed
\* (rooms.rs claim_master and stop_player, player/index.ts applyRemoteStop and
\* applyRemotePlayState), and the master plays, but for a claim that crossed a stop
\* or the state of a room at rest.
THEOREM RoomCorrect == RoomSpec => []SlavesFollow
<1>1. RoomInit => RoomInv
  BY RoomStarts
<1>2. RoomInv /\ [RoomNext]_roomVars => RoomInv'
  BY RoomKeeps
<1>3. RoomInv => SlavesFollow
  BY RoomHolds
<1> QED
  BY <1>1, <1>2, <1>3, PTL DEF RoomSpec
=============================================================================
