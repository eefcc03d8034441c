----------------------------- MODULE ExecutorHost -----------------------------
(***************************************************************************)
(* The executor host (server/crates/gpu/src/host.rs) between the runner of *)
(* a step, which opens one session after another and sends a job in each,  *)
(* and the executor's pages (ai/src/service/browserExecutor.ts), which     *)
(* connect one after another and run the jobs.                             *)
(*                                                                         *)
(* The task of each connection and the runner run on several threads and   *)
(* take one lock at a time: an action is what happens under one of them.   *)
(* A session has one job, which has the session's number.                  *)
(***************************************************************************)
EXTENDS Integers, Sequences, FiniteSets

CONSTANTS MaxConnections,   \* bound: sockets, in the order they are opened
          MaxSessions,      \* bound: sessions
          MaxFaults         \* bound: stops, reloads, ends of pages, jobs and sockets

ASSUME HostAssumption == MaxConnections \in Nat /\ MaxSessions \in Nat /\ MaxFaults \in Nat

Connections == 1..MaxConnections
Sessions == 1..MaxSessions
None == 0      \* no session
Nobody == 0    \* no connection

\* Who abandons a session: a connection that has served it, or its runner.
Runner == 0

VARIABLES
    \* HostState
    connections,   \* attached connections; their numbers are their order
    capable,       \* connections that have reported their capabilities
    leader,        \* the watched leader
    session,       \* the open session
    reloadWanted,
    faults,        \* how many times something has gone another way
    \* the tasks of the connections
    task,          \* where the task of each stands
    found,         \* the leader that publish_leader has found
    \* SessionState
    answer,        \* the ticket's answer: "none", "waiting", or what it got
    active,        \* sessions whose job is active
    executor,      \* the connection each has captured
    opened,        \* sessions whose page has opened the units
    \* abandon
    abandoning,    \* who is where in abandoning which session
    \* the runner
    runner, current, seen,
    \* the pages and the wires
    page,          \* the page behind each connection
    job,           \* the job it runs, and how far that is
    commands,      \* sent to it: the channel and the wire
    messages,      \* sent by it
    \* history
    busy,          \* a page has refused a job since it was running one
    outdated       \* the leader published last was not the first at that moment

hostVars == <<connections, capable, leader, session, reloadWanted>>
taskVars == <<task, found, outdated>>
sessionVars == <<answer, active, executor, opened>>
runnerVars == <<runner, current, seen>>
pageVars == <<page, job, busy>>
coreVars == <<hostVars, taskVars, sessionVars, abandoning, runnerVars, pageVars,
          commands, messages>>
vars == <<coreVars, faults>>

NoJob == [of |-> None, at |-> "none"]
NotAbandoning == [at |-> "none", of |-> None, running |-> FALSE]

Init ==
    /\ connections = {}
    /\ capable = {}
    /\ leader = Nobody
    /\ session = None
    /\ reloadWanted = FALSE
    /\ faults = 0
    /\ task = [c \in Connections |-> "away"]
    /\ found = [c \in Connections |-> Nobody]
    /\ answer = [s \in Sessions |-> "none"]
    /\ active = {}
    /\ executor = [s \in Sessions |-> Nobody]
    /\ opened = {}
    /\ abandoning = [x \in Connections \union {Runner} |-> NotAbandoning]
    /\ runner = "idle"
    /\ current = None
    /\ seen = Nobody
    /\ page = [c \in Connections |-> "none"]
    /\ job = [c \in Connections |-> NoJob]
    /\ commands = [c \in Connections |-> <<>>]
    /\ messages = [c \in Connections |-> <<>>]
    /\ busy = FALSE
    /\ outdated = FALSE

Message(type, s) == [type |-> type, of |-> s]

\* The loop of read_socket runs, and its end of the channel is there.
Serving == {"open", "retire", "find", "publish", "reload"}
Serves(c) == task[c] \in Serving

\* A page that is closed or gone reads nothing of what is sent to it.
Gone(c) == page[c] \in {"closed", "over"}
Queued(c, m) == IF Gone(c) THEN commands ELSE [commands EXCEPT ![c] = Append(@, m)]
Unread(c) == [commands EXCEPT ![c] = <<>>]

-----------------------------------------------------------------------------
(* The task of a connection: ready, and publish_leader under two locks.     *)

\* Connections are in the order they came in; the leader is the first capable.
FirstCapable ==
    LET able == connections \intersect capable
    IN  IF able = {} THEN Nobody ELSE CHOOSE c \in able : \A d \in able : c <= d

Step(c, from, to) ==
    /\ task[c] = from
    /\ task' = [task EXCEPT ![c] = to]

Take(c, type) ==
    /\ messages[c] # <<>>
    /\ Head(messages[c]).type = type
    /\ messages' = [messages EXCEPT ![c] = Tail(@)]

ReportReady(c) ==
    /\ Step(c, "open", "find")
    /\ Take(c, "ready")
    /\ capable' = capable \union {c}
    /\ UNCHANGED <<connections, leader, session, reloadWanted, found,
                   outdated, sessionVars, abandoning, runnerVars, pageVars, commands>>

FindLeader(c) ==
    /\ \/ Step(c, "find", "publish")
       \/ Step(c, "leftFind", "leftPublish")
    /\ found' = [found EXCEPT ![c] = FirstCapable]
    /\ UNCHANGED <<hostVars, outdated, sessionVars, abandoning, runnerVars,
                   pageVars, commands, messages>>

\* send_replace, after the lock of the connections is released.
PublishLeader(c) ==
    /\ \/ Step(c, "publish", "reload")
       \/ Step(c, "leftPublish", "serves")
    /\ leader' = found[c]
    /\ found' = [found EXCEPT ![c] = Nobody]
    /\ outdated' = (found[c] # FirstCapable)
    /\ UNCHANGED <<connections, capable, session, reloadWanted, sessionVars,
                   abandoning, runnerVars, pageVars, commands, messages>>

\* reload_executor_now; a reload that cannot be sent stays wanted.
ReloadNow(c) ==
    /\ Step(c, "reload", "open")
    /\ IF reloadWanted /\ leader # Nobody /\ Serves(leader)
         THEN commands' = Queued(leader, Message("reload", None)) /\ reloadWanted' = FALSE
         ELSE UNCHANGED <<commands, reloadWanted>>
    /\ UNCHANGED <<connections, capable, leader, session, found, outdated,
                   sessionVars, abandoning, runnerVars, pageVars, messages>>

\* reload_executor: a wish, and the attempt to send it.
ReloadExecutor ==
    /\ IF leader # Nobody /\ Serves(leader)
         THEN commands' = Queued(leader, Message("reload", None)) /\ reloadWanted' = FALSE
         ELSE reloadWanted' = TRUE /\ UNCHANGED commands
    /\ UNCHANGED <<connections, capable, leader, session, taskVars, sessionVars,
                   abandoning, runnerVars, pageVars, messages>>

-----------------------------------------------------------------------------
(* The task of a connection: what the page says of its job.  It is heard by *)
(* the session that is open, whichever connection it comes from.            *)

\* unit_opened: heard if the session's active job is the one that is named.
UnitOpened(c) ==
    LET s == Head(messages[c]).of IN
    /\ task[c] = "open"
    /\ Take(c, "opened")
    /\ opened' = IF session = s /\ s \in active THEN opened \union {s} ELSE opened
    /\ UNCHANGED <<hostVars, taskVars, answer, active, executor, abandoning,
                   runnerVars, pageVars, commands>>

\* answer: the ticket first, if it is there; under the next lock the job, with
\* which the message is done.
Answer(c) ==
    LET m == Head(messages[c]) IN
    /\ task[c] = "open"
    /\ messages[c] # <<>>
    /\ m.type \in {"result", "failed"}
    /\ IF session = m.of
         THEN /\ Step(c, "open", "retire")
              /\ answer' = [answer EXCEPT ![m.of] = IF @ = "waiting" THEN m.type ELSE @]
              /\ UNCHANGED messages
         ELSE Take(c, m.type) /\ UNCHANGED <<task, answer>>
    /\ UNCHANGED <<hostVars, found, outdated, active, executor, opened, abandoning,
                   runnerVars, pageVars, commands>>

Retire(c) ==
    /\ Step(c, "retire", "open")
    /\ \E type \in {"result", "failed"} : Take(c, type)
    /\ active' = active \ {Head(messages[c]).of}
    /\ UNCHANGED <<hostVars, found, outdated, answer, executor, opened, abandoning,
                   runnerVars, pageVars, commands>>

-----------------------------------------------------------------------------
(* The end of a connection: read_socket returns, detach.                    *)

PageThere(c) == page[c] \in {"up", "ready"}

EndLoop(c) ==
    /\ Step(c, "open", "detach")
    /\ messages' = [messages EXCEPT ![c] = <<>>]
    /\ UNCHANGED <<hostVars, found, outdated, sessionVars, abandoning, runnerVars,
                   pageVars, commands>>

\* The page has closed the socket or is gone.
LosePage(c) == ~PageThere(c) /\ EndLoop(c)

\* The page has been silent for too long, as one that is frozen is, or the socket fails.
Silence(c) == PageThere(c) /\ EndLoop(c)

\* Mutant: the lead is not published anew.
DetachQuietly(c) ==
    /\ Step(c, "detach", "serves")
    /\ connections' = connections \ {c}
    /\ capable' = capable \ {c}
    /\ UNCHANGED <<leader, session, reloadWanted, found, outdated,
                   sessionVars, abandoning, runnerVars, pageVars, commands, messages>>

Detach(c) ==
    /\ Step(c, "detach", "leftFind")
    /\ connections' = connections \ {c}
    /\ capable' = capable \ {c}
    /\ UNCHANGED <<leader, session, reloadWanted, found, outdated,
                   sessionVars, abandoning, runnerVars, pageVars, commands, messages>>

StartAbandon(x, s) ==
    abandoning' = [abandoning EXCEPT ![x] = [at |-> "drain", of |-> s, running |-> FALSE]]

\* Mutant: the open session is not asked whether it is served by the connection.
LeaveSilently(c) ==
    /\ Step(c, "serves", "gone")
    /\ UNCHANGED <<hostVars, found, outdated, sessionVars, abandoning, runnerVars,
                   pageVars, commands, messages>>

\* A session that is served by the connection is abandoned.
LeaveSession(c) ==
    /\ Step(c, "serves", "gone")
    /\ IF session # None /\ executor[session] = c
         THEN StartAbandon(c, session)
         ELSE UNCHANGED abandoning
    /\ UNCHANGED <<hostVars, found, outdated, sessionVars, runnerVars, pageVars,
                   commands, messages>>

-----------------------------------------------------------------------------
(* SessionState::abandon, by a connection that is gone or by the drop of    *)
(* the session: three locks, one after another.                             *)

AbandonStep(x, from, to) ==
    /\ abandoning[x].at = from
    /\ abandoning' = [abandoning EXCEPT ![x] = to]

DrainAnswers(x) ==
    LET s == abandoning[x].of IN
    /\ AbandonStep(x, "drain", [at |-> "take", of |-> s, running |-> FALSE])
    /\ answer' = [answer EXCEPT ![s] = IF @ = "waiting" THEN "lost" ELSE @]
    /\ UNCHANGED <<hostVars, taskVars, active, executor, opened, runnerVars,
                   pageVars, commands, messages>>

TakeActive(x) ==
    LET s == abandoning[x].of IN
    /\ AbandonStep(x, "take", [at |-> "clear", of |-> s, running |-> s \in active])
    /\ active' = active \ {s}
    /\ UNCHANGED <<hostVars, taskVars, answer, executor, opened, runnerVars,
                   pageVars, commands, messages>>

\* Mutant: the connection is let go without a close.
ClearQuietly(x) ==
    /\ AbandonStep(x, "clear", NotAbandoning)
    /\ executor' = [executor EXCEPT ![abandoning[x].of] = Nobody]
    /\ UNCHANGED <<hostVars, taskVars, answer, active, opened, runnerVars, pageVars,
                   commands, messages>>

\* A job that was running is stopped by closing its connection.
ClearExecutor(x) ==
    LET s == abandoning[x].of
        c == executor[s]
    IN
    /\ AbandonStep(x, "clear", NotAbandoning)
    /\ executor' = [executor EXCEPT ![s] = Nobody]
    /\ IF abandoning[x].running /\ c # Nobody /\ Serves(c)
         THEN commands' = Queued(c, Message("close", None))
         ELSE UNCHANGED commands
    /\ UNCHANGED <<hostVars, taskVars, answer, active, opened, runnerVars, pageVars,
                   messages>>

Abandon(x) == DrainAnswers(x) \/ TakeActive(x) \/ ClearExecutor(x)

-----------------------------------------------------------------------------
(* The runner: open, wait_ready, send_job, the units, and the drop of the   *)
(* session, which also comes when the step is stopped at an await.          *)

Goes(from, to) == runner = from /\ runner' = to

Open ==
    /\ Goes("idle", "await")
    /\ current < MaxSessions
    /\ current' = current + 1
    /\ session' = current + 1
    /\ UNCHANGED <<connections, capable, leader, reloadWanted, taskVars,
                   sessionVars, abandoning, seen, pageVars, commands, messages>>

SeeLeader ==
    /\ Goes("await", "seen")
    /\ leader # Nobody
    /\ seen' = leader
    /\ UNCHANGED <<hostVars, taskVars, sessionVars, abandoning, current, pageVars,
                   commands, messages>>

\* The adapter may not do, which refuses the job.
Capture ==
    /\ \/ /\ Goes("seen", "bound")
          /\ executor' = [executor EXCEPT ![current] = seen]
       \/ /\ Goes("seen", "drop")
          /\ UNCHANGED executor
    /\ seen' = Nobody
    /\ UNCHANGED <<hostVars, taskVars, answer, active, opened, abandoning, current,
                   pageVars, commands, messages>>

InsertAnswer ==
    /\ Goes("bound", "inserted")
    /\ answer' = [answer EXCEPT ![current] = "waiting"]
    /\ UNCHANGED <<hostVars, taskVars, active, executor, opened, abandoning, current,
                   seen, pageVars, commands, messages>>

\* Mutant: the job is not entered as active before it is sent.
SkipActive ==
    /\ Goes("inserted", "armed")
    /\ UNCHANGED <<hostVars, taskVars, sessionVars, abandoning, current, seen,
                   pageVars, commands, messages>>

SetActive ==
    /\ Goes("inserted", "armed")
    /\ active' = active \union {current}
    /\ UNCHANGED <<hostVars, taskVars, answer, executor, opened, abandoning, current,
                   seen, pageVars, commands, messages>>

\* send_text: lost if the session holds no connection, or one that is closing.
SendText(from, to, m) ==
    LET c == executor[current] IN
    /\ runner = from
    /\ IF c # Nobody /\ Serves(c)
         THEN Goes(from, to) /\ commands' = Queued(c, m)
         ELSE Goes(from, "drop") /\ UNCHANGED commands
    /\ UNCHANGED <<hostVars, taskVars, sessionVars, abandoning, current, seen,
                   pageVars, messages>>

SendJob == SendText("armed", "opening", Message("job", current))

\* The unit commands and the close that follows them.
SendUnits ==
    /\ current \in opened
    /\ \/ /\ current \in active
          /\ SendText("opening", "running", Message("units", current))
       \/ /\ current \notin active
          /\ Goes("opening", "drop")
          /\ UNCHANGED <<hostVars, taskVars, sessionVars, abandoning, current, seen,
                         pageVars, commands, messages>>

Waits == {"opening", "running"}

Answered ==
    /\ \E from \in Waits : Goes(from, "drop")
    /\ answer[current] # "waiting"
    /\ UNCHANGED <<hostVars, taskVars, sessionVars, abandoning, current, seen,
                   pageVars, commands, messages>>

\* The step is stopped at an await, or no leader comes within READY_TIMEOUT.
Stop ==
    /\ \E from \in Waits \union {"await", "bound"} : Goes(from, "drop")
    /\ UNCHANGED <<hostVars, taskVars, sessionVars, abandoning, current, seen,
                   pageVars, commands, messages>>

DropSession ==
    /\ Goes("drop", "dropping")
    /\ StartAbandon(Runner, current)
    /\ UNCHANGED <<hostVars, taskVars, sessionVars, current, seen, pageVars,
                   commands, messages>>

\* No other session is opened meanwhile, so the host's is this one; its state goes.
CloseSession ==
    /\ Goes("dropping", "idle")
    /\ abandoning[Runner] = NotAbandoning
    /\ session' = IF session = current THEN None ELSE session
    /\ answer' = [answer EXCEPT ![current] = "none"]
    /\ opened' = opened \ {current}
    /\ UNCHANGED <<connections, capable, leader, reloadWanted, taskVars,
                   active, executor, abandoning, current, seen, pageVars, commands, messages>>

RunnerStep ==
    \/ Open \/ SeeLeader \/ Capture \/ InsertAnswer \/ SetActive \/ SendJob
    \/ SendUnits \/ Answered \/ DropSession \/ CloseSession

-----------------------------------------------------------------------------
(* The page (browserExecutor.ts).  The Web Lock lets one page serve at a    *)
(* time, and a page connects anew when its job has ended.                   *)

Say(c, type, s) == messages' = [messages EXCEPT ![c] = Append(@, Message(type, s))]

hostSide == <<connections, capable, leader, session, reloadWanted,
              taskVars, sessionVars, abandoning, runnerVars>>

Connect(c) ==
    /\ page[c] = "none"
    /\ \A d \in 1..(c - 1) : page[d] = "over"
    /\ page' = [page EXCEPT ![c] = "up"]
    /\ Step(c, "away", "open")
    /\ connections' = connections \union {c}
    /\ UNCHANGED <<capable, leader, session, reloadWanted, found, outdated,
                   sessionVars, abandoning, runnerVars, job, busy, commands, messages>>

Ready(c) ==
    /\ page[c] = "up"
    /\ page' = [page EXCEPT ![c] = "ready"]
    /\ Say(c, "ready", None)
    /\ UNCHANGED <<hostSide, job, busy, commands>>

Hears(c, type) ==
    /\ PageThere(c)
    /\ commands[c] # <<>>
    /\ Head(commands[c]).type = type

Obey(c, type) ==
    /\ Hears(c, type)
    /\ commands' = [commands EXCEPT ![c] = Tail(@)]

AcceptJob(c) ==
    LET s == Head(commands[c]).of IN
    /\ Obey(c, "job")
    /\ IF job[c] = NoJob
         THEN /\ job' = [job EXCEPT ![c] = [of |-> s, at |-> "loading"]]
              /\ UNCHANGED <<busy, messages>>
         ELSE /\ Say(c, "failed", s)
              /\ busy' = TRUE
              /\ UNCHANGED job
    /\ UNCHANGED <<hostSide, page>>

ServeUnits(c) ==
    /\ Obey(c, "units")
    /\ job' = [job EXCEPT ![c] = IF @.at = "serving" THEN [@ EXCEPT !.at = "served"] ELSE @]
    /\ UNCHANGED <<hostSide, page, busy, messages>>

\* A close in the channel is the last that the socket sends.
ObeyClose(c) ==
    /\ Hears(c, "close")
    /\ page' = [page EXCEPT ![c] = "closed"]
    /\ commands' = Unread(c)
    /\ UNCHANGED <<hostSide, job, busy, messages>>

\* The page is loaded anew: its job dies with it.
ObeyReload(c) ==
    /\ Hears(c, "reload")
    /\ page' = [page EXCEPT ![c] = "over"]
    /\ commands' = Unread(c)
    /\ job' = [job EXCEPT ![c] = NoJob]
    /\ UNCHANGED <<hostSide, busy, messages>>

OpenUnits(c) ==
    /\ PageThere(c)
    /\ job[c].at = "loading"
    /\ job' = [job EXCEPT ![c].at = "serving"]
    /\ Say(c, "opened", job[c].of)
    /\ UNCHANGED <<hostSide, page, busy, commands>>

FinishJob(c) ==
    /\ PageThere(c)
    /\ job[c].at = "served"
    /\ job' = [job EXCEPT ![c] = NoJob]
    /\ Say(c, "result", job[c].of)
    /\ UNCHANGED <<hostSide, page, busy, commands>>

\* A page whose job fails says so, closes and is loaded anew.
FailJob(c) ==
    /\ PageThere(c)
    /\ job[c] # NoJob
    /\ job' = [job EXCEPT ![c] = NoJob]
    /\ page' = [page EXCEPT ![c] = "over"]
    /\ Say(c, "failed", job[c].of)
    /\ commands' = Unread(c)
    /\ UNCHANGED <<hostSide, busy>>

\* The host has left the connection.
SeeEnd(c) ==
    /\ PageThere(c)
    /\ task[c] \notin Serving \union {"away"}
    /\ page' = [page EXCEPT ![c] = "closed"]
    /\ commands' = Unread(c)
    /\ UNCHANGED <<hostSide, job, busy, messages>>

\* Mutant: a page whose socket is closed connects anew while its job goes on.
LeaveJob(c) ==
    /\ page[c] = "closed"
    /\ page' = [page EXCEPT ![c] = "over"]
    /\ UNCHANGED <<hostSide, job, busy, commands, messages>>

\* abandon, and the await of the running job, before the page may connect anew.
EndJob(c) ==
    /\ page[c] = "closed"
    /\ page' = [page EXCEPT ![c] = "over"]
    /\ job' = [job EXCEPT ![c] = NoJob]
    /\ UNCHANGED <<hostSide, busy, commands, messages>>

\* The page is killed.
Die(c) ==
    /\ PageThere(c)
    /\ page' = [page EXCEPT ![c] = "over"]
    /\ job' = [job EXCEPT ![c] = NoJob]
    /\ commands' = Unread(c)
    /\ UNCHANGED <<hostSide, busy, messages>>

TaskStep(c) ==
    \/ ReportReady(c) \/ FindLeader(c) \/ PublishLeader(c) \/ ReloadNow(c)
    \/ UnitOpened(c) \/ Answer(c) \/ Retire(c)
    \/ LosePage(c) \/ Detach(c) \/ LeaveSession(c)

PageStep(c) ==
    \/ Ready(c) \/ AcceptJob(c) \/ ServeUnits(c) \/ ObeyClose(c) \/ ObeyReload(c)
    \/ OpenUnits(c) \/ FinishJob(c) \/ SeeEnd(c) \/ EndJob(c)

Progress ==
    \/ \E c \in Connections : TaskStep(c) \/ PageStep(c) \/ Connect(c)
    \/ \E x \in Connections \union {Runner} : Abandon(x)
    \/ RunnerStep

Fault ==
    \/ \E c \in Connections : FailJob(c) \/ Die(c) \/ Silence(c)
    \/ ReloadExecutor
    \/ Stop

Next ==
    \/ Progress /\ UNCHANGED faults
    \/ Fault /\ faults < MaxFaults /\ faults' = faults + 1

Spec == Init /\ [][Next]_vars

\* Every task of the host runs, and so does a page that is neither gone nor
\* frozen; of a page that answers pings and never ends its job nothing is said.
FairSpec ==
    /\ Spec
    /\ \A c \in Connections :
         /\ WF_vars(TaskStep(c) /\ UNCHANGED faults)
         /\ WF_vars(PageStep(c) /\ UNCHANGED faults)
    /\ \A x \in Connections \union {Runner} : WF_vars(Abandon(x) /\ UNCHANGED faults)
    /\ WF_vars(RunnerStep /\ UNCHANGED faults)

-----------------------------------------------------------------------------
(* Properties.                                                              *)

\* "keeps one network running at a time" (ai/readme.md): no two pages have a job,
\* and none is sent a job while it has one.
OneJobRuns ==
    /\ ~busy
    /\ \A c, d \in Connections : job[c] # NoJob /\ job[d] # NoJob => c = d

InSession(s) == current = s /\ runner # "idle"

\* A job whose session is gone is being stopped: a close is on its way to its
\* page, or the host has left the connection.
OrphanStopped ==
    \A c \in Connections :
        /\ job[c] # NoJob
        /\ page[c] # "closed"
        /\ ~InSession(job[c].of)
        /\ \A x \in Connections \union {Runner} : abandoning[x].of # job[c].of
        => \/ ~Serves(c)
           \/ \E i \in DOMAIN commands[c] : commands[c][i].type \in {"close", "reload"}

Publishing == \E c \in Connections :
    task[c] \in {"find", "publish", "leftFind", "leftPublish"}

\* Whenever nobody is about to publish, the leader is the first capable
\* connection, unless two publications have overtaken one another.
LeaderFirst == ~Publishing /\ ~outdated => leader = FirstCapable

\* "the standby should take the lease" (gpu/src/tests.rs): whenever nobody is
\* about to publish, the leader is the first capable connection.
LeaseHandedOn == ~Publishing => leader = FirstCapable

\* The answers of a session are never left waiting once its runner is gone, and
\* a job that was sent is answered, refused or lost.
JobSettles == runner \in Waits ~> runner \notin Waits
=============================================================================
