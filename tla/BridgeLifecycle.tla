-------------------------- MODULE BridgeLifecycle --------------------------
(***************************************************************************)
(* The life of the eslint-bridge: the plugin's EslintBridgeServerImpl, its *)
(* heartbeat thread and, at the other end, the Node.js server with its     *)
(* single event loop and its orphan timeout.  Time passes in ticks of one  *)
(* heartbeat interval (5 seconds); what takes no noticeable time happens   *)
(* before the next tick.                                                   *)
(***************************************************************************)
EXTENDS Naturals, TLAPS

CONSTANTS
    OrphanTicks,    \* SHUTDOWN_TIMEOUT, in heartbeat intervals
    WaitTicks,      \* the plugin's timeouts (5 minutes, 1 minute), in heartbeat intervals
    MaxBusy,        \* longest synchronous piece of work, in heartbeat intervals
    Hangs,          \* whether a synchronous piece of work may also never end
    Off             \* the orphan timeout is not running

ASSUME TicksAssumption ==
    /\ OrphanTicks \in Nat \ {0}
    /\ WaitTicks \in Nat \ {0}
    /\ MaxBusy \in Nat \ {0}
    /\ Hangs \in BOOLEAN
    /\ Off \notin Nat

VARIABLES
    java,       \* the process of the plugin: "up" or "crashed"
    jpc,        \* where the plugin's thread is
    status,     \* EslintBridgeServerImpl.status
    nodeCommand,\* whether EslintBridgeServerImpl.nodeCommand is set
    beating,    \* whether the heartbeat is scheduled
    beatDue,    \* whether the heartbeat thread is about to ping
    age,        \* how long the plugin's thread has waited, in ticks
    proc,       \* the Node.js process: "none", "booting", "up" or "exited"
    listening,  \* server.listening
    timer,      \* ticks until the orphan timeout fires, or Off
    busy,       \* how long the event loop has been in synchronous work; 0 when it is free
    req,        \* the requests
    cause       \* what made the server close: "none", "timer" or "close"

vars == <<java, jpc, status, nodeCommand, beating, beatDue, age,
          proc, listening, timer, busy, req, cause>>

javaVars == <<java, jpc, status, nodeCommand, beating, beatDue, age>>
nodeVars == <<proc, listening, timer, busy, cause>>

\* The request of the plugin's thread, the ping of the heartbeat thread, and the
\* last request that the plugin's thread gave up while the bridge had it.
Slots == {"main", "beat", "stale"}

\* A request: its kind, how far the bridge is with it, and its connection: open,
\* cut by the client, or known by the bridge to be gone.
Request == [kind: {"none", "status", "work", "close"},
            at: {"none", "queued", "async", "busy", "hung", "flushing"},
            conn: {"none", "open", "cut", "gone"}]

NoRequest == [kind |-> "none", at |-> "none", conn |-> "none"]
NewRequest(kind) == [kind |-> kind, at |-> "queued", conn |-> "open"]

Idle(s) == req[s].at = "none"

\* The client lets go of a connection; the bridge keeps the request.
Dropped(s) == IF req[s].conn = "open" THEN [req[s] EXCEPT !.conn = "cut"] ELSE req[s]

\* Every variable has its type: the waits of the plugin's thread stay within their
\* timeouts, the orphan timeout within its delay, and synchronous work within its
\* bound.
TypeOK ==
    /\ java \in {"up", "crashed"}
    /\ jpc \in {"idle", "checking", "booting", "session", "request",
                "cleaning", "closing", "reaping", "stopped"}
    /\ status \in {"NOT_STARTED", "FAILED", "STARTED"}
    /\ nodeCommand \in BOOLEAN
    /\ beating \in BOOLEAN
    /\ beatDue \in BOOLEAN
    /\ age \in 0..WaitTicks
    /\ proc \in {"none", "booting", "up", "exited"}
    /\ listening \in BOOLEAN
    /\ timer \in (0..OrphanTicks) \cup {Off}
    /\ busy \in 0..MaxBusy
    /\ req \in [Slots -> Request]
    /\ cause \in {"none", "timer", "close"}

Init ==
    /\ java = "up"
    /\ jpc = "idle"
    /\ status = "NOT_STARTED"
    /\ nodeCommand = FALSE
    /\ beating = FALSE
    /\ beatDue = FALSE
    /\ age = 0
    /\ proc = "none"
    /\ listening = FALSE
    /\ timer = Off
    /\ busy = 0
    /\ req = [s \in Slots |-> NoRequest]
    /\ cause = "none"

\* The event loop can take the next event.
Free == proc = "up" /\ busy = 0

\* The event loop is in synchronous work that never ends.
Hung == \E s \in Slots : req[s].at = "hung"

-----------------------------------------------------------------------------
(* The plugin's thread *)

\* The plugin's thread goes on at p.
Goto(p) == jpc' = p /\ age' = 0

\* A request goes out on a new connection, or on one kept alive by a server that
\* listens no more.
Send(kind, p) ==
    /\ proc = "up"
    /\ Idle("main")
    /\ req' = [req EXCEPT !["main"] = NewRequest(kind)]
    /\ Goto(p)

\* A connection can be refused.
Refused == ~listening

\* The connection of the request under way is broken.
Broken == req["main"].conn # "open"

\* The plugin's thread gives its request up, if it is still with the bridge, and
\* goes on at p.
GiveUp(p) ==
    /\ IF Idle("main")
       THEN UNCHANGED req
       ELSE req' = [req EXCEPT !["stale"] = Dropped("main"), !["main"] = NoRequest]
    /\ Goto(p)

\* startServerLazily, deploy and startServer up to waitServerToStart, when
\* isAlive is false: there is no process, or it does not listen (yet), and is
\* then forgotten.  An IOException leaves the status alone, a
\* NodeCommandException does not.
StartServer ==
    /\ java = "up" /\ jpc = "idle"
    /\ status = "NOT_STARTED"
    /\ ~nodeCommand \/ Refused
    /\ \/ /\ UNCHANGED <<jpc, age, status, nodeCommand, nodeVars, req>>
       \/ /\ status' = "FAILED"
          /\ nodeCommand' \in {nodeCommand, TRUE}
          /\ UNCHANGED <<jpc, age, nodeVars, req>>
       \/ /\ nodeCommand' = TRUE
          /\ proc' = "booting"
          /\ listening' = FALSE
          /\ timer' = Off
          /\ busy' = 0
          /\ req' = [s \in Slots |-> NoRequest]
          /\ cause' = "none"
          /\ Goto("booting")
          /\ UNCHANGED status
    /\ UNCHANGED <<java, beating, beatDue>>

\* startServerLazily: isAlive asks a known process for its status.
CheckAlive ==
    /\ java = "up" /\ jpc = "idle"
    /\ status # "FAILED"
    /\ nodeCommand
    /\ Send("status", "checking")
    /\ UNCHANGED <<java, status, nodeCommand, beating, beatDue, nodeVars>>

\* startServerLazily: a server that was started and is not alive is not started
\* again, nor is one that was cleaned away.
NotAlive ==
    /\ java = "up"
    /\ status = "STARTED"
    /\ \/ jpc = "idle" /\ (~nodeCommand \/ Refused)
       \/ jpc = "checking" /\ Broken
    /\ status' = "FAILED"
    /\ GiveUp("idle")
    /\ UNCHANGED <<java, nodeCommand, beating, beatDue, nodeVars>>

\* startServerLazily: the status request of a server that is not known to have
\* started breaks; what follows is StartServer.
NotAliveYet ==
    /\ java = "up" /\ jpc = "checking"
    /\ status = "NOT_STARTED"
    /\ Broken
    /\ GiveUp("idle")
    /\ UNCHANGED <<java, status, nodeCommand, beating, beatDue, nodeVars>>

\* waitServerToStart: the server answered, and the heartbeat is scheduled.
ServerStarted ==
    /\ java = "up" /\ jpc = "booting"
    /\ Free /\ listening
    /\ status' = "STARTED"
    /\ beating' = TRUE
    /\ timer' = OrphanTicks
    /\ Goto("session")
    /\ UNCHANGED <<java, nodeCommand, beatDue, proc, listening, busy, req, cause>>

\* waitServerToStart gave up; the process is left to itself.
ServerStartTimeout ==
    /\ java = "up" /\ jpc = "booting"
    /\ age = WaitTicks
    /\ status' = "FAILED"
    /\ Goto("idle")
    /\ UNCHANGED <<java, nodeCommand, beating, beatDue, nodeVars, req>>

\* waitServerToStart is interrupted.  In its sleep it returns true all the same,
\* and the interrupted thread fails with its next request; in isAlive it throws,
\* and the status stays NOT_STARTED.
ServerStartInterrupted ==
    /\ java = "up" /\ jpc = "booting"
    /\ \/ status' = "STARTED" /\ beating' = TRUE
       \/ UNCHANGED <<status, beating>>
    /\ Goto("idle")
    /\ UNCHANGED <<java, nodeCommand, beatDue, nodeVars, req>>

\* A sensor posts a request.  Bound: the bridge has at most one request that was
\* given up, so none is posted while it has one.
PostRequest ==
    /\ java = "up" /\ jpc = "session"
    /\ Idle("stale")
    /\ Send("work", "request")
    /\ UNCHANGED <<java, status, nodeCommand, beating, beatDue, nodeVars>>

\* Mutant: the request has no timeout.
RequestFailsOnlyIfBroken ==
    /\ java = "up"
    /\ \/ jpc = "session" /\ Refused
       \/ jpc = "request" /\ Broken
    /\ GiveUp("idle")
    /\ UNCHANGED <<java, status, nodeCommand, beating, beatDue, nodeVars>>

\* request throws: refused connection, broken connection or timeout.  The sensor
\* ends.
RequestFails ==
    /\ java = "up"
    /\ \/ jpc = "session" /\ Refused
       \/ jpc = "request" /\ (Broken \/ age = WaitTicks)
    /\ GiveUp("idle")
    /\ UNCHANGED <<java, status, nodeCommand, beating, beatDue, nodeVars>>

\* The sensor is done.
EndSensor ==
    /\ java = "up" /\ jpc = "session"
    /\ Goto("idle")
    /\ UNCHANGED <<java, status, nodeCommand, beating, beatDue, nodeVars, req>>

\* clean: the heartbeat is shut down, its ping cut off, and isAlive asked.
Clean ==
    /\ java = "up" /\ jpc = "idle"
    /\ beating' = FALSE
    /\ beatDue' = FALSE
    /\ \/ /\ nodeCommand /\ proc = "up" /\ Idle("main")
          /\ req' = [req EXCEPT !["main"] = NewRequest("status"), !["beat"] = Dropped("beat")]
          /\ Goto("cleaning")
       \/ /\ ~nodeCommand \/ Refused
          /\ req' = [req EXCEPT !["beat"] = Dropped("beat")]
          /\ Goto("stopped")
    /\ UNCHANGED <<java, status, nodeCommand, nodeVars>>

\* Mutant: only the timeout ends the close request.
CleanFailsOnlyByTimeout ==
    /\ java = "up"
    /\ jpc = "closing" /\ age = WaitTicks
    /\ req' = [req EXCEPT !["main"] = Dropped("main")]
    /\ Goto("stopped")
    /\ UNCHANGED <<java, status, nodeCommand, beating, beatDue, nodeVars>>

\* clean: the server is not alive after all, or the close request fails.  The
\* IllegalStateException of request leaves clean before nodeCommand.waitFor.
CleanFails ==
    /\ java = "up"
    /\ \/ jpc = "cleaning" /\ Broken
       \/ jpc = "closing" /\ (Broken \/ age = WaitTicks)
    /\ req' = [req EXCEPT !["main"] = Dropped("main")]
    /\ Goto("stopped")
    /\ UNCHANGED <<java, status, nodeCommand, beating, beatDue, nodeVars>>

\* nodeCommand.waitFor: the process exited.
Reap ==
    /\ java = "up" /\ jpc = "reaping"
    /\ proc = "exited"
    /\ nodeCommand' = FALSE
    /\ Goto("stopped")
    /\ UNCHANGED <<java, status, beating, beatDue, nodeVars, req>>

\* nodeCommand.waitFor is interrupted and returns.
ReapInterrupted ==
    /\ java = "up" /\ jpc = "reaping"
    /\ nodeCommand' = FALSE
    /\ Goto("stopped")
    /\ UNCHANGED <<java, status, beating, beatDue, nodeVars, req>>

\* nodeCommand.waitFor: the process did not exit in time and is destroyed.
Kill ==
    /\ java = "up" /\ jpc = "reaping"
    /\ age = WaitTicks
    /\ nodeCommand' = FALSE
    /\ proc' = "exited"
    /\ listening' = FALSE
    /\ timer' = Off
    /\ busy' = 0
    /\ req' = [s \in Slots |-> NoRequest]
    /\ Goto("stopped")
    /\ UNCHANGED <<java, status, beating, beatDue, cause>>

\* The plugin's process dies, and its connections with it.
JavaCrash ==
    /\ java = "up"
    /\ java' = "crashed"
    /\ beatDue' = FALSE
    /\ req' = [s \in Slots |-> Dropped(s)]
    /\ UNCHANGED <<jpc, status, nodeCommand, beating, age, nodeVars>>

-----------------------------------------------------------------------------
(* The heartbeat thread *)

\* A ping.  When the connection is refused isAlive returns false, which heartbeat
\* ignores.
Heartbeat ==
    /\ java = "up" /\ beatDue
    /\ beatDue' = FALSE
    /\ \/ /\ proc = "up"
          /\ req' = [req EXCEPT !["beat"] = NewRequest("status")]
       \/ /\ Refused
          /\ UNCHANGED req
    /\ UNCHANGED <<java, jpc, status, nodeCommand, beating, age, nodeVars>>

-----------------------------------------------------------------------------
(* The Node.js process *)

\* start: the orphan timeout runs from the moment the server is set up.
Boot ==
    /\ proc = "booting"
    /\ proc' = "up"
    /\ listening' = TRUE
    /\ timer' = OrphanTicks
    /\ UNCHANGED <<javaVars, busy, req, cause>>

\* The timeout middleware stops the timeout, then the handler runs.  Status and
\* close are answered at once; other requests first wait for input and output.
Handle(s) ==
    /\ Free /\ req[s].at = "queued"
    /\ timer' = Off
    /\ req' = [req EXCEPT ![s].at = IF req[s].kind = "work" THEN "async" ELSE "flushing"]
    /\ UNCHANGED <<javaVars, proc, listening, busy, cause>>

\* The analysis proper keeps the event loop to itself, once the requests that came
\* before it are handled; it may never end.
StartWork(s) ==
    /\ Free /\ req[s].at = "async"
    /\ \A t \in Slots : req[t].at # "queued"
    /\ \E at \in IF Hangs THEN {"busy", "hung"} ELSE {"busy"} : req' = [req EXCEPT ![s].at = at]
    /\ busy' = 1
    /\ UNCHANGED <<javaVars, proc, listening, timer, cause>>

\* The response is handed over; a large one is out only later.
EndWork(s) ==
    /\ req[s].at = "busy"
    /\ req' = [req EXCEPT ![s].at = "flushing"]
    /\ busy' = 0
    /\ UNCHANGED <<javaVars, proc, listening, timer, cause>>

\* The event loop learns that the client of an analysis is gone.  (Short answers
\* are out before it could.)
Notice(s) ==
    /\ Free /\ req[s].conn = "cut"
    /\ req[s].kind = "work" /\ req[s].at \in {"async", "flushing"}
    /\ req' = [req EXCEPT ![s].conn = "gone"]
    /\ UNCHANGED <<javaVars, nodeVars>>

\* Mutant: the timeout is longer than the configured delay.
TimerAfterLate(r) == IF r.conn = "gone" THEN timer ELSE OrphanTicks + 1

\* Mutant: the timeout leaves no margin over the heartbeat interval.
TimerAfterEarly(r) == IF r.conn = "gone" THEN timer ELSE OrphanTicks - 1

\* The "finish" of a response restarts the orphan timeout.  A response to a
\* connection that is gone is discarded and never finishes.
TimerAfter(r) == IF r.conn = "gone" THEN timer ELSE OrphanTicks

\* /close shuts the server in the callback of its response.
ClosesServer(r) == r.kind = "close" /\ listening

\* Where the plugin's thread goes with an answer.
Answered ==
    CASE jpc \in {"checking", "request"} -> "session"
      [] jpc = "cleaning" -> "closing"
      [] jpc = "closing" -> "reaping"

\* Mutant: a response without a client stays in the bridge.
FinishWithClient(s) ==
    /\ Free /\ req[s].at = "flushing"
    /\ req[s].conn # "gone"
    /\ timer' = TimerAfter(req[s])
    /\ IF s = "main" /\ req[s].conn = "open"
       THEN /\ req' = [req EXCEPT ![s] = IF jpc = "cleaning" THEN NewRequest("close")
                                                             ELSE NoRequest]
            /\ Goto(Answered)
       ELSE /\ req' = [req EXCEPT ![s] = NoRequest]
            /\ UNCHANGED <<jpc, age>>
    /\ IF ClosesServer(req[s]) THEN listening' = FALSE /\ cause' = "close"
                               ELSE UNCHANGED <<listening, cause>>
    /\ UNCHANGED <<java, status, nodeCommand, beating, beatDue, proc, busy>>

\* The response to a request is out.  In clean, the status is followed at once by
\* the close request.
Finish(s) ==
    /\ Free /\ req[s].at = "flushing"
    /\ timer' = TimerAfter(req[s])
    /\ IF s = "main" /\ req[s].conn = "open"
       THEN /\ req' = [req EXCEPT ![s] = IF jpc = "cleaning" THEN NewRequest("close")
                                                             ELSE NoRequest]
            /\ Goto(Answered)
       ELSE /\ req' = [req EXCEPT ![s] = NoRequest]
            /\ UNCHANGED <<jpc, age>>
    /\ IF ClosesServer(req[s]) THEN listening' = FALSE /\ cause' = "close"
                               ELSE UNCHANGED <<listening, cause>>
    /\ UNCHANGED <<java, status, nodeCommand, beating, beatDue, proc, busy>>

\* Mutant: the timeout closes only a server that is closed already.
OrphanTimeoutWithoutClose ==
    /\ Free /\ timer = 0
    /\ timer' = Off
    /\ UNCHANGED <<javaVars, proc, listening, busy, req, cause>>

\* The orphan timeout fires.
OrphanTimeout ==
    /\ Free /\ timer = 0
    /\ timer' = Off
    /\ IF listening THEN listening' = FALSE /\ cause' = "timer"
                    ELSE UNCHANGED <<listening, cause>>
    /\ UNCHANGED <<javaVars, proc, busy, req>>

\* The last connection of a closed server ends: its "close" event stops the
\* timeout, and nothing is left that keeps the process running.
ServerClosed ==
    /\ Free /\ ~listening
    /\ \A s \in Slots : Idle(s)
    /\ timer' = Off
    /\ proc' = "exited"
    /\ UNCHANGED <<javaVars, listening, busy, req, cause>>

\* The process dies, for lack of memory for one.
NodeCrash ==
    /\ proc \in {"booting", "up"}
    /\ proc' = "exited"
    /\ listening' = FALSE
    /\ timer' = Off
    /\ busy' = 0
    /\ req' = [s \in Slots |-> NoRequest]
    /\ UNCHANGED <<javaVars, cause>>

-----------------------------------------------------------------------------
(* Time *)

\* The plugin's thread is in a wait that has a timeout.  isAlive has none.
Waiting == java = "up" /\ jpc \in {"booting", "request", "closing", "reaping"}

\* A free event loop leaves no request, short answer or expired timeout behind, a
\* thread no expired wait, and the plugin sees a server that is up.
Settled ==
    /\ Free => /\ timer # 0
               /\ \A s \in Slots : /\ req[s].at # "queued"
                                   /\ req[s].at = "flushing" => req[s].kind = "work"
                                   /\ req[s].conn # "cut"
    /\ ~beatDue
    /\ Waiting => age < WaitTicks /\ ~(jpc = "booting" /\ Free /\ listening)
    /\ Hung \/ busy < MaxBusy

Tick ==
    /\ Settled
    /\ timer' = IF timer = Off \/ timer = 0 THEN timer ELSE timer - 1
    /\ busy' = IF busy \in {0, MaxBusy} THEN busy ELSE busy + 1
    /\ beatDue' = (java = "up" /\ beating /\ Idle("beat"))
    /\ age' = IF Waiting THEN age + 1 ELSE age
    /\ UNCHANGED <<java, jpc, status, nodeCommand, beating, proc, listening, req, cause>>

-----------------------------------------------------------------------------

JavaNext ==
    \/ StartServer \/ CheckAlive \/ NotAlive \/ NotAliveYet
    \/ ServerStarted \/ ServerStartTimeout \/ ServerStartInterrupted
    \/ PostRequest \/ RequestFails \/ EndSensor
    \/ Clean \/ CleanFails \/ Reap \/ ReapInterrupted \/ Kill

NodeNext ==
    \/ \E s \in Slots : Handle(s) \/ Notice(s) \/ StartWork(s) \/ EndWork(s) \/ Finish(s)
    \/ OrphanTimeout \/ ServerClosed

Next == JavaNext \/ Heartbeat \/ NodeNext \/ Boot \/ Tick \/ JavaCrash \/ NodeCrash

Spec == Init /\ [][Next]_vars

\* A wait of the plugin's thread ends for a reason other than the answer.
EndOfWait ==
    /\ jpc \notin {"idle", "session"}
    /\ \/ NotAlive \/ NotAliveYet \/ ServerStarted \/ ServerStartTimeout
       \/ RequestFails \/ CleanFails \/ Reap \/ Kill

\* Waits end, the heartbeat thread and the event loop go on, and so does time.
\* Nothing makes a sensor start, post or end, a scan end, a process boot or either
\* side crash; synchronous work that hangs does not end.
Fairness ==
    /\ WF_vars(Tick)
    /\ WF_vars(Heartbeat)
    /\ WF_vars(EndOfWait)
    /\ \A s \in Slots : /\ WF_vars(Handle(s))
                        /\ WF_vars(Notice(s))
                        /\ WF_vars(StartWork(s))
                        /\ WF_vars(EndWork(s))
                        /\ WF_vars(Finish(s))
    /\ WF_vars(OrphanTimeout)
    /\ WF_vars(ServerClosed)

FairSpec == Spec /\ Fairness

-----------------------------------------------------------------------------
(* Properties *)

\* The orphan timeout (server.ts, "to shut down the server in case the process
\* becomes orphan") closes no server whose plugin is alive and sends heartbeats:
\* the ping that ends during another request restarts the timeout that this
\* request had stopped, and the event loop may be kept busy from then on.
ShutdownOnlyWhenOrphan ==
    [][(cause' = "timer" /\ cause # "timer") => java = "crashed" \/ ~beating]_vars

\* A server whose plugin crashed exits (server.ts, "If the Java plugin crashes,
\* this timeout will run out"), provided the event loop does not hang, the timeout was running and no analysis
\* request was left to stop it.
OrphanExits ==
    (/\ java = "crashed"
     /\ proc = "up"
     /\ timer # Off
     /\ \A s \in Slots : req[s].at = "queued" => req[s].kind # "work") ~> (proc = "exited" \/ Hung)

\* The same without the proviso, as server.ts has it.
OrphanAlwaysExits == (java = "crashed" /\ proc = "up") ~> proc = "exited"

\* A closed server whose client is done with it exits: the requests it still has
\* come to an end, also those whose client is gone, unless one hangs.
ClosedServerExits ==
    (/\ proc = "up" /\ ~listening
     /\ java = "crashed" \/ jpc \in {"reaping", "stopped"}) ~> (proc = "exited" \/ Hung)

\* clean returns, whatever becomes of the close request and of the process, unless
\* the event loop hangs: isAlive has no timeout.
CleanReturns == (jpc \in {"cleaning", "closing", "reaping"}) ~> (jpc = "stopped" \/ java = "crashed" \/ Hung)

\* A request of a sensor returns or fails, even if the event loop hangs.
RequestReturns == (jpc = "request") ~> (jpc # "request" \/ java = "crashed")

-----------------------------------------------------------------------------
(* The inductive invariant *)

\* The request of the plugin's thread: while its connection is open the thread
\* waits for the answer, and only a sensor's request is an analysis.  One that
\* was given up makes room for no other.
MainInv ==
    /\ req["main"].conn = "open" =>
          java = "up" /\ jpc \in {"checking", "request", "cleaning", "closing"}
    /\ java = "up" /\ jpc # "stopped" /\ ~Idle("main") => req["main"].conn = "open"
    /\ java = "up" /\ jpc = "request" => Idle("stale")
    /\ java = "up" /\ req["main"].kind = "work" => jpc = "request"

\* A ping is answered at once when its turn comes, and the next one is due only
\* when it is answered.
BeatInv ==
    /\ req["beat"].kind # "work"
    /\ req["beat"].at \in {"none", "queued", "flushing"}
    /\ req["beat"].conn # "gone"
    /\ beatDue => Idle("beat") /\ beating /\ java = "up"

\* The bridge works on one analysis at a time: the event loop is busy with it, or
\* hangs in it.
WorkInv ==
    /\ \A s \in Slots : Idle(s) => req[s] = NoRequest
    /\ \A s \in Slots : req[s].at \in {"async", "busy", "hung"} => req[s].kind = "work"
    /\ \A s \in Slots : req[s].at \in {"busy", "hung"} => busy > 0
    /\ \A s, t \in Slots : req[s].kind = "work" /\ req[t].kind = "work" => s = t

\* Nothing is asked of a server before it has started, the heartbeat included.
BootInv ==
    /\ status = "NOT_STARTED" => ~beating
    /\ java = "up" /\ jpc = "booting" =>
          /\ status = "NOT_STARTED"
          /\ busy = 0
          /\ \A s \in Slots : Idle(s)
          /\ proc = "up" => listening /\ timer = OrphanTicks

\* How far the orphan timeout of a server that gets heartbeats can have run.  It is
\* fresh unless a ping is due or under way; from then on it loses a tick for each
\* tick of synchronous work that keeps the ping waiting.
AliveInv ==
    java = "up" /\ beating /\ proc = "up" /\ listening /\ timer # Off =>
        /\ Idle("beat") /\ ~beatDue => timer = OrphanTicks
        /\ beatDue => timer + 1 >= OrphanTicks
        /\ ~Idle("beat") => Hung \/ timer + (IF busy = 0 THEN MaxBusy ELSE busy) >= OrphanTicks
        /\ req["beat"].at = "flushing" /\ busy = 0 /\ (\E s \in Slots : req[s].at = "async") =>
              timer = OrphanTicks

LifecycleInvariant == TypeOK /\ MainInv /\ BeatInv /\ WorkInv /\ BootInv /\ AliveInv

-----------------------------------------------------------------------------
(* Types *)

LEMMA SlotsType == "main" \in Slots /\ "beat" \in Slots /\ "stale" \in Slots
  BY DEF Slots

\* Requests that are made, moved or taken away are requests.
LEMMA RequestTypes ==
    /\ NoRequest \in Request
    /\ \A kind \in {"status", "work", "close"} : NewRequest(kind) \in Request
    /\ [s \in Slots |-> NoRequest] \in [Slots -> Request]
  BY DEF NoRequest, NewRequest, Request

LEMMA DroppedType ==
    ASSUME req \in [Slots -> Request], NEW s \in Slots
    PROVE  Dropped(s) \in Request
  <1>1. req[s] \in Request
    OBVIOUS
  <1> QED
    BY <1>1 DEF Dropped, Request

LEMMA ChangedType ==
    ASSUME req \in [Slots -> Request], NEW s \in Slots
    PROVE  /\ \A a \in {"none", "queued", "async", "busy", "hung", "flushing"} :
                 [req EXCEPT ![s].at = a] \in [Slots -> Request]
           /\ [req EXCEPT ![s].conn = "gone"] \in [Slots -> Request]
  <1>1. req[s] \in Request
    OBVIOUS
  <1>2. [req[s] EXCEPT !.conn = "gone"] \in Request
    BY <1>1 DEF Request
  <1>3. \A a \in {"none", "queued", "async", "busy", "hung", "flushing"} : [req[s] EXCEPT !.at = a] \in Request
    BY <1>1 DEF Request
  <1> QED
    BY <1>2, <1>3

LEMMA GiveUpType ==
    ASSUME req \in [Slots -> Request], NEW p, GiveUp(p)
    PROVE  req' \in [Slots -> Request]
  BY DroppedType, RequestTypes, SlotsType DEF GiveUp

LEMMA Bounds ==
    /\ 0 \in 0..WaitTicks
    /\ OrphanTicks \in 0..OrphanTicks
    /\ 0 \in 0..MaxBusy /\ 1 \in 0..MaxBusy
  BY TicksAssumption

LEMMA InitLifecycle == Init => LifecycleInvariant
  <1> SUFFICES ASSUME Init PROVE LifecycleInvariant
    OBVIOUS
  <1>1. TypeOK
    BY Bounds, RequestTypes, Zenon DEF Init, TypeOK
  <1>2. \A s \in Slots : req[s] = NoRequest
    BY DEF Init
  <1>3. MainInv /\ BeatInv /\ WorkInv /\ BootInv /\ AliveInv
    BY <1>2, SlotsType DEF Init, MainInv, BeatInv, WorkInv, BootInv, AliveInv, NoRequest, Idle
  <1> QED
    BY <1>1, <1>3 DEF LifecycleInvariant

LEMMA StepType == TypeOK /\ MainInv /\ [Next]_vars => TypeOK'
  <1> SUFFICES ASSUME TypeOK, MainInv, [Next]_vars
               PROVE  TypeOK'
    OBVIOUS
  <1> USE TicksAssumption DEF javaVars, nodeVars, TypeOK
  <1>1. CASE StartServer
    <2>1. nodeCommand' \in BOOLEAN
      BY <1>1 DEF StartServer
    <2> QED
      BY <1>1, <2>1, Bounds, RequestTypes, Zenon DEF StartServer, Goto
  <1>2. CASE CheckAlive \/ PostRequest
    <2>1. req' \in [Slots -> Request]
      BY <1>2, RequestTypes, SlotsType DEF CheckAlive, PostRequest, Send
    <2> QED
      BY <1>2, <2>1 DEF CheckAlive, PostRequest, Send, Goto
  <1>3. CASE NotAlive \/ NotAliveYet \/ RequestFails
    <2>1. req' \in [Slots -> Request]
      BY <1>3, GiveUpType DEF NotAlive, NotAliveYet, RequestFails
    <2> QED
      BY <1>3, <2>1 DEF NotAlive, NotAliveYet, RequestFails, GiveUp, Goto
  <1>4. CASE ServerStarted \/ ServerStartTimeout \/ ServerStartInterrupted \/ EndSensor
    BY <1>4, Bounds, Zenon DEF ServerStarted, ServerStartTimeout, ServerStartInterrupted, EndSensor, Goto
  <1>5. CASE Clean
    <2>1. req' \in [Slots -> Request]
      BY <1>5, RequestTypes, DroppedType, SlotsType DEF Clean
    <2> QED
      BY <1>5, <2>1, Bounds, Zenon DEF Clean, Goto
  <1>6. CASE CleanFails
    <2>1. req' \in [Slots -> Request]
      BY <1>6, DroppedType, SlotsType DEF CleanFails
    <2> QED
      BY <1>6, <2>1 DEF CleanFails, Goto
  <1>7. CASE Reap \/ ReapInterrupted \/ Kill
    BY <1>7, Bounds, RequestTypes, Zenon DEF Reap, ReapInterrupted, Kill, Goto
  <1>8. CASE JavaCrash
    <2>1. req' \in [Slots -> Request]
      BY <1>8, DroppedType DEF JavaCrash
    <2> QED
      BY <1>8, <2>1, Zenon DEF JavaCrash
  <1>9. CASE Heartbeat
    <2>1. req' \in [Slots -> Request]
      BY <1>9, RequestTypes, SlotsType DEF Heartbeat
    <2> QED
      BY <1>9, <2>1, Zenon DEF Heartbeat
  <1>10. CASE Boot \/ OrphanTimeout \/ ServerClosed \/ NodeCrash
    <2>1. CASE Boot
      BY <2>1, Bounds, Zenon DEF Boot
    <2>2. CASE OrphanTimeout
      <3>1. timer' = Off /\ UNCHANGED <<javaVars, proc, busy, req>>
        BY <2>2, Zenon DEF OrphanTimeout
      <3>2. listening' \in BOOLEAN /\ cause' \in {"none", "timer", "close"}
        BY <2>2, Zenon DEF OrphanTimeout
      <3> QED
        BY <3>1, <3>2, Zenon
    <2>3. CASE ServerClosed
      BY <2>3, Zenon DEF ServerClosed
    <2>4. CASE NodeCrash
      BY <2>4, Bounds, RequestTypes, Zenon DEF NodeCrash
    <2> QED
      BY <1>10, <2>1, <2>2, <2>3, <2>4
  <1>11. ASSUME NEW s \in Slots, Handle(s)
         PROVE  TypeOK'
    <2>1. req' \in [Slots -> Request]
      BY <1>11, ChangedType DEF Handle
    <2> QED
      BY <1>11, <2>1 DEF Handle
  <1>12. ASSUME NEW s \in Slots, Notice(s)
         PROVE  TypeOK'
    <2>1. req' \in [Slots -> Request]
      BY <1>12, ChangedType DEF Notice
    <2> QED
      BY <1>12, <2>1 DEF Notice
  <1>13. ASSUME NEW s \in Slots, StartWork(s)
         PROVE  TypeOK'
    <2>1. PICK at \in {"busy", "hung"} : req' = [req EXCEPT ![s].at = at]
      BY <1>13 DEF StartWork
    <2>2. req' \in [Slots -> Request]
      BY <2>1, ChangedType
    <2> QED
      BY <1>13, <2>2 DEF StartWork
  <1>14. ASSUME NEW s \in Slots, EndWork(s)
         PROVE  TypeOK'
    <2>1. req' \in [Slots -> Request]
      BY <1>14, ChangedType DEF EndWork
    <2> QED
      BY <1>14, <2>1 DEF EndWork
  <1>15. ASSUME NEW s \in Slots, Finish(s)
         PROVE  TypeOK'
    <2>1. req' \in [Slots -> Request]
      BY <1>15, RequestTypes DEF Finish
    <2>2. timer' \in (0..OrphanTicks) \cup {Off}
      BY <1>15 DEF Finish, TimerAfter
    <2>3. s = "main" /\ req[s].conn = "open" => Answered \in {"session", "closing", "reaping"}
      BY DEF MainInv, Answered
    <2>4. \/ jpc' = jpc /\ age' = age
          \/ jpc' \in {"session", "closing", "reaping"} /\ age' = 0
      <3>1. CASE s = "main" /\ req[s].conn = "open"
        BY <1>15, <2>3, <3>1, Zenon DEF Finish, Goto
      <3>2. CASE ~(s = "main" /\ req[s].conn = "open")
        BY <1>15, <3>2, Zenon DEF Finish
      <3> QED
        BY <3>1, <3>2
    <2>5. /\ listening' \in BOOLEAN /\ cause' \in {"none", "timer", "close"}
          /\ UNCHANGED <<java, status, nodeCommand, beating, beatDue, proc, busy>>
      BY <1>15, Zenon DEF Finish
    <2>6. jpc' \in {"idle", "checking", "booting", "session", "request",
                    "cleaning", "closing", "reaping", "stopped"} /\ age' \in 0..WaitTicks
      BY <2>4, Bounds
    <2> QED
      BY <2>1, <2>2, <2>5, <2>6, Zenon
  <1>16. CASE Tick
    <2>1. timer' \in (0..OrphanTicks) \cup {Off} /\ busy' \in 0..MaxBusy
      BY <1>16 DEF Tick
    <2>2. age' \in 0..WaitTicks
      BY <1>16 DEF Tick, Settled
    <2>3. beatDue' \in BOOLEAN
      BY <1>16, Zenon DEF Tick
    <2> QED
      BY <1>16, <2>1, <2>2, <2>3, Zenon DEF Tick
  <1>17. CASE UNCHANGED vars
    BY <1>17 DEF vars
  <1> QED
    BY <1>1, <1>2, <1>3, <1>4, <1>5, <1>6, <1>7, <1>8, <1>9, <1>10, <1>11, <1>12, <1>13, <1>14, <1>15,
       <1>16, <1>17 DEF Next, JavaNext, NodeNext

-----------------------------------------------------------------------------
(* Requests *)

\* What a request is when it is made, dropped or taken away.
LEMMA RequestFields ==
    /\ NoRequest.kind = "none" /\ NoRequest.at = "none" /\ NoRequest.conn = "none"
    /\ \A kind : /\ NewRequest(kind).kind = kind
                 /\ NewRequest(kind).at = "queued"
                 /\ NewRequest(kind).conn = "open"
  BY DEF NoRequest, NewRequest

LEMMA DroppedFields ==
    ASSUME req \in [Slots -> Request], NEW s \in Slots
    PROVE  /\ Dropped(s).kind = req[s].kind
           /\ Dropped(s).at = req[s].at
           /\ Dropped(s).conn = IF req[s].conn = "open" THEN "cut" ELSE req[s].conn
           /\ req[s] = NoRequest => Dropped(s) = NoRequest
  <1>1. req[s] \in Request
    OBVIOUS
  <1> QED
    BY <1>1 DEF Dropped, Request, NoRequest

\* The request s goes on to a.
LEMMA ChangedFields ==
    ASSUME req \in [Slots -> Request], NEW s \in Slots, NEW a, NEW c
    PROVE  /\ [req EXCEPT ![s].at = a][s].at = a
           /\ [req EXCEPT ![s].at = a][s].kind = req[s].kind
           /\ [req EXCEPT ![s].at = a][s].conn = req[s].conn
           /\ [req EXCEPT ![s].conn = c][s].conn = c
           /\ [req EXCEPT ![s].conn = c][s].kind = req[s].kind
           /\ [req EXCEPT ![s].conn = c][s].at = req[s].at
           /\ \A t \in Slots \ {s} : /\ [req EXCEPT ![s].at = a][t] = req[t]
                                     /\ [req EXCEPT ![s].conn = c][t] = req[t]
  <1>1. req[s] \in Request
    OBVIOUS
  <1> QED
    BY <1>1 DEF Request

RequestsInv == MainInv /\ BeatInv /\ WorkInv

LEMMA StepRequests == TypeOK /\ TypeOK' /\ RequestsInv /\ [Next]_vars => RequestsInv'
  <1> SUFFICES ASSUME TypeOK, TypeOK', RequestsInv, [Next]_vars
               PROVE  RequestsInv'
    OBVIOUS
  <1> USE SlotsType, RequestFields, TicksAssumption
  <1>t. req \in [Slots -> Request] /\ busy \in Nat /\ busy' \in Nat
    BY DEF TypeOK
  \* No request is left.
  <1>n. ASSUME \A s \in Slots : req'[s] = NoRequest, beatDue' => beatDue, UNCHANGED <<java, beating>>
        PROVE  RequestsInv'
    BY <1>n DEF RequestsInv, MainInv, BeatInv, WorkInv, Idle
  \* The requests stay as they are, and the thread goes on.
  <1>f. ASSUME UNCHANGED <<req, java, busy>>, beatDue' => beatDue /\ beating',
               \/ jpc' = jpc
               \/ jpc' \in {"idle", "session", "stopped"} /\ jpc \notin {"checking", "request", "cleaning", "closing", "stopped"}
        PROVE  RequestsInv'
    BY <1>f DEF RequestsInv, MainInv, BeatInv, WorkInv, Idle
  \* The plugin's thread sends a request.
  <1>s. ASSUME NEW kind \in {"status", "work"}, NEW p \in {"checking", "request", "cleaning"}, Send(kind, p),
               kind = "work" <=> p = "request", p = "request" => Idle("stale"),
               java = "up", UNCHANGED <<java, beating, beatDue, busy>>
        PROVE  RequestsInv'
    <2>1. /\ req'["main"] = NewRequest(kind) /\ req'["beat"] = req["beat"] /\ req'["stale"] = req["stale"]
          /\ Idle("main") /\ jpc' = p
      BY <1>s, <1>t DEF Send, Goto
    <2>2. MainInv' /\ BeatInv'
      BY <1>s, <2>1 DEF RequestsInv, MainInv, BeatInv, Idle
    <2> QED
      BY <1>s, <2>1, <2>2 DEF RequestsInv, MainInv, BeatInv, WorkInv, Idle, Slots
  \* The plugin's thread gives its request up: an analysis, if the bridge has it.
  <1>g. ASSUME GiveUp("idle"), java = "up", jpc \in {"idle", "checking", "session", "request"},
               jpc = "checking" => Broken, UNCHANGED <<java, beating, beatDue, busy>>
        PROVE  RequestsInv'
    <2>1. CASE Idle("main")
      <3>1. req' = req /\ jpc' = "idle" /\ req["main"] = NoRequest
        BY <1>g, <2>1 DEF GiveUp, Goto, RequestsInv, WorkInv
      <3> QED
        BY <1>g, <3>1 DEF RequestsInv, MainInv, BeatInv, WorkInv, Idle
    <2>2. CASE ~Idle("main")
      <3>1. jpc = "request" /\ Idle("stale") /\ req["main"].conn = "open" /\ req["stale"] = NoRequest
        BY <1>g, <2>2 DEF RequestsInv, MainInv, WorkInv, Broken
      <3>2. /\ req'["stale"] = Dropped("main") /\ req'["main"] = NoRequest
            /\ req'["beat"] = req["beat"] /\ jpc' = "idle"
        BY <1>g, <1>t, <2>2 DEF GiveUp, Goto
      <3>3. /\ req'["stale"].kind = req["main"].kind /\ req'["stale"].at = req["main"].at
            /\ req'["stale"].conn = "cut"
        BY <3>1, <3>2, <1>t, DroppedFields
      <3>4. MainInv' /\ BeatInv'
        BY <1>g, <3>2 DEF RequestsInv, MainInv, BeatInv, Idle
      <3>5. WorkInv'
        BY <1>g, <2>2, <3>1, <3>2, <3>3 DEF RequestsInv, BeatInv, WorkInv, Idle, Slots
      <3> QED
        BY <3>4, <3>5 DEF RequestsInv
    <2> QED
      BY <2>1, <2>2
  \* A request s that goes on in the bridge to a, or is seen to have no client.
  <1>c. ASSUME NEW s \in Slots, UNCHANGED <<java, jpc, beating, beatDue>>,
               \A t \in Slots \ {s} : req'[t] = req[t],
               req'[s].kind = req[s].kind,
               ~Idle(s), req'[s].at # "none",
               req'[s].at \in {"async", "busy", "hung"} => req[s].kind = "work",
               s = "beat" => req'[s].at \in {"queued", "flushing"},
               \/ req'[s].conn = req[s].conn
               \/ req[s].conn = "cut" /\ req'[s].conn = "gone" /\ req[s].kind = "work",
               req'[s].at \in {"busy", "hung"} => busy' > 0,
               busy' = 0 => busy = 0 \/ req[s].kind = "work"
        PROVE  RequestsInv'
    <2>1. MainInv'
      BY <1>c DEF RequestsInv, MainInv, Idle
    <2>2. BeatInv'
      BY <1>c DEF RequestsInv, BeatInv, Idle
    <2>3. WorkInv'
      <3>1. \A t \in Slots : Idle(t)' => t # s /\ req'[t] = req[t]
        BY <1>c DEF Idle
      <3>2. \A t \in Slots : req'[t].at \in {"async", "busy", "hung"} => req'[t].kind = "work"
        BY <1>c DEF RequestsInv, WorkInv
      <3>3. \A t \in Slots : req'[t].kind = req[t].kind
        BY <1>c
      <3>4. ASSUME NEW t \in Slots, req'[t].at \in {"busy", "hung"}, t # s
            PROVE  busy' > 0
        BY <1>c, <3>4, <1>t DEF RequestsInv, WorkInv
      <3> QED
        BY <1>c, <3>1, <3>2, <3>3, <3>4 DEF RequestsInv, WorkInv, Idle
    <2> QED
      BY <2>1, <2>2, <2>3 DEF RequestsInv
  <1>1. CASE StartServer
    <2>1. CASE req' = [s \in Slots |-> NoRequest]
      BY <1>1, <1>n, <2>1 DEF StartServer
    <2>2. CASE UNCHANGED <<jpc, busy, req>>
      BY <1>1, <1>f, <2>2 DEF StartServer, RequestsInv, BeatInv
    <2> QED
      BY <1>1, <2>1, <2>2 DEF StartServer, nodeVars
  <1>2. CASE CheckAlive
    BY <1>2, <1>s DEF CheckAlive, nodeVars
  <1>3. CASE NotAlive \/ NotAliveYet \/ RequestFails
    BY <1>3, <1>g DEF NotAlive, NotAliveYet, RequestFails, nodeVars
  <1>4. CASE ServerStarted \/ ServerStartTimeout \/ ServerStartInterrupted
    BY <1>4, <1>f DEF ServerStarted, ServerStartTimeout, ServerStartInterrupted, nodeVars, Goto, RequestsInv, BeatInv
  <1>5. CASE PostRequest
    BY <1>5, <1>s DEF PostRequest, nodeVars
  <1>6. CASE EndSensor \/ Reap \/ ReapInterrupted
    BY <1>6, <1>f DEF EndSensor, Reap, ReapInterrupted, nodeVars, Goto, RequestsInv, BeatInv
  <1>7. CASE Clean
    <2>1. /\ java = "up" /\ jpc = "idle" /\ ~beatDue' /\ UNCHANGED <<java, busy>>
          /\ req'["beat"] = Dropped("beat") /\ req'["stale"] = req["stale"] /\ Idle("main")
          /\ \/ req'["main"] = NewRequest("status") /\ jpc' = "cleaning"
             \/ req'["main"] = req["main"] /\ jpc' = "stopped"
      BY <1>7, <1>t DEF Clean, Goto, nodeVars, RequestsInv, MainInv
    <2>2. /\ req'["beat"].kind = req["beat"].kind /\ req'["beat"].at = req["beat"].at
          /\ req'["beat"].conn # "gone"
          /\ req["beat"] = NoRequest => req'["beat"] = NoRequest
      BY <2>1, <1>t, DroppedFields DEF RequestsInv, BeatInv
    <2>3. MainInv' /\ BeatInv'
      BY <2>1, <2>2 DEF RequestsInv, MainInv, BeatInv, WorkInv, Idle
    <2>4. WorkInv'
      BY <2>1, <2>2 DEF RequestsInv, BeatInv, WorkInv, Idle, Slots
    <2> QED
      BY <2>3, <2>4 DEF RequestsInv
  <1>8. CASE CleanFails
    <2>1. /\ java = "up" /\ jpc' = "stopped" /\ UNCHANGED <<java, busy, beating, beatDue>>
          /\ req'["main"] = Dropped("main") /\ req'["stale"] = req["stale"] /\ req'["beat"] = req["beat"]
          /\ jpc # "request"
      BY <1>8, <1>t DEF CleanFails, Goto, nodeVars
    <2>2. /\ req'["main"].kind = req["main"].kind /\ req'["main"].at = req["main"].at
          /\ req'["main"].conn # "open"
          /\ req["main"] = NoRequest => req'["main"] = NoRequest
      BY <2>1, <1>t, DroppedFields
    <2>3. MainInv' /\ BeatInv'
      BY <2>1, <2>2 DEF RequestsInv, MainInv, BeatInv, Idle
    <2>4. WorkInv'
      BY <2>1, <2>2 DEF RequestsInv, WorkInv, Idle, Slots
    <2> QED
      BY <2>3, <2>4 DEF RequestsInv
  <1>9. CASE Kill \/ NodeCrash
    BY <1>9, <1>n DEF Kill, NodeCrash, javaVars
  <1>10. CASE JavaCrash
    <2>1. /\ java' = "crashed" /\ ~beatDue' /\ busy' = busy
          /\ \A s \in Slots : req'[s] = Dropped(s)
      BY <1>10 DEF JavaCrash, nodeVars
    <2>2. \A s \in Slots : /\ req'[s].kind = req[s].kind /\ req'[s].at = req[s].at
                           /\ req'[s].conn # "open"
                           /\ req'[s].conn = "gone" => req[s].conn = "gone"
                           /\ req[s] = NoRequest => req'[s] = NoRequest
      BY <2>1, <1>t, DroppedFields
    <2> QED
      BY <2>1, <2>2 DEF RequestsInv, MainInv, BeatInv, WorkInv, Idle
  <1>11. CASE Heartbeat
    <2>1. CASE req' = req
      BY <1>11, <2>1, <1>f DEF Heartbeat, nodeVars
    <2>2. CASE req' = [req EXCEPT !["beat"] = NewRequest("status")]
      <3>1. /\ req'["beat"] = NewRequest("status") /\ \A s \in Slots \ {"beat"} : req'[s] = req[s]
            /\ ~beatDue' /\ UNCHANGED <<java, jpc, busy>>
        BY <1>11, <2>2, <1>t DEF Heartbeat, nodeVars
      <3> QED
        BY <3>1 DEF RequestsInv, MainInv, BeatInv, WorkInv, Idle
    <2> QED
      BY <1>11, <2>1, <2>2 DEF Heartbeat
  <1>12. CASE Boot \/ OrphanTimeout \/ ServerClosed
    BY <1>12, <1>f DEF Boot, OrphanTimeout, ServerClosed, javaVars, RequestsInv, BeatInv
  <1>13. ASSUME NEW s \in Slots, Handle(s)
         PROVE  RequestsInv'
    <2>1. /\ req'[s].at = IF req[s].kind = "work" THEN "async" ELSE "flushing"
          /\ req'[s].kind = req[s].kind /\ req'[s].conn = req[s].conn
          /\ \A t \in Slots \ {s} : req'[t] = req[t]
      BY <1>13, <1>t, ChangedFields DEF Handle
    <2> QED
      BY <1>13, <2>1, <1>c DEF Handle, javaVars, Idle, Free, RequestsInv, BeatInv
  <1>14. ASSUME NEW s \in Slots, Notice(s)
         PROVE  RequestsInv'
    <2>1. /\ req'[s].conn = "gone"
          /\ req'[s].kind = req[s].kind /\ req'[s].at = req[s].at
          /\ \A t \in Slots \ {s} : req'[t] = req[t]
      BY <1>14, <1>t, ChangedFields DEF Notice
    <2> QED
      BY <1>14, <2>1, <1>c DEF Notice, javaVars, nodeVars, Idle, Free, RequestsInv, BeatInv
  <1>15. ASSUME NEW s \in Slots, StartWork(s)
         PROVE  RequestsInv'
    <2>1. PICK a \in {"busy", "hung"} : req' = [req EXCEPT ![s].at = a]
      BY <1>15 DEF StartWork
    <2>2. /\ req'[s].at = a
          /\ req'[s].kind = req[s].kind /\ req'[s].conn = req[s].conn
          /\ \A t \in Slots \ {s} : req'[t] = req[t]
      BY <2>1, <1>t, ChangedFields
    <2>3. req[s].kind = "work" /\ s # "beat" /\ ~Idle(s)
      BY <1>15 DEF StartWork, RequestsInv, WorkInv, BeatInv, Idle
    <2> QED
      BY <1>15, <2>2, <2>3, <1>c DEF StartWork, javaVars
  <1>16. ASSUME NEW s \in Slots, EndWork(s)
         PROVE  RequestsInv'
    <2>1. /\ req'[s].at = "flushing"
          /\ req'[s].kind = req[s].kind /\ req'[s].conn = req[s].conn
          /\ \A t \in Slots \ {s} : req'[t] = req[t]
      BY <1>16, <1>t, ChangedFields DEF EndWork
    <2>2. req[s].kind = "work" /\ s # "beat" /\ ~Idle(s)
      BY <1>16 DEF EndWork, RequestsInv, WorkInv, BeatInv, Idle
    <2> QED
      BY <1>16, <2>1, <2>2, <1>c DEF EndWork, javaVars
  <1>17. ASSUME NEW s \in Slots, Finish(s)
         PROVE  RequestsInv'
    <2>1. /\ \A t \in Slots \ {s} : req'[t] = req[t]
          /\ UNCHANGED <<java, beating, beatDue, busy>> /\ busy = 0 /\ ~Idle(s)
      BY <1>17, <1>t DEF Finish, Free, Idle
    <2>2. CASE s = "main" /\ req[s].conn = "open" /\ jpc = "cleaning"
      <3>1. req'[s] = NewRequest("close") /\ jpc' = "closing"
        BY <1>17, <2>2, <1>t DEF Finish, Goto, Answered
      <3> QED
        BY <2>1, <2>2, <3>1 DEF RequestsInv, MainInv, BeatInv, WorkInv, Idle
    <2>3. CASE s = "main" /\ req[s].conn = "open" /\ jpc # "cleaning"
      <3>1. req'[s] = NoRequest /\ jpc' \in {"session", "reaping"}
        BY <1>17, <2>3, <1>t DEF Finish, Goto, Answered, RequestsInv, MainInv
      <3> QED
        BY <2>1, <2>3, <3>1 DEF RequestsInv, MainInv, BeatInv, WorkInv, Idle
    <2>4. CASE ~(s = "main" /\ req[s].conn = "open")
      <3>1. req'[s] = NoRequest /\ jpc' = jpc
        BY <1>17, <2>4, <1>t DEF Finish
      <3> QED
        BY <2>1, <3>1 DEF RequestsInv, MainInv, BeatInv, WorkInv, Idle
    <2> QED
      BY <2>2, <2>3, <2>4
  <1>18. CASE Tick
    <2>1. UNCHANGED <<java, jpc, beating, req>> /\ (busy > 0 => busy' > 0)
      BY <1>18, <1>t DEF Tick
    <2>2. beatDue' => Idle("beat") /\ beating /\ java = "up"
      BY <1>18, Zenon DEF Tick
    <2> QED
      BY <2>1, <2>2 DEF RequestsInv, MainInv, BeatInv, WorkInv, Idle
  <1>19. CASE UNCHANGED vars
    BY <1>19, <1>f DEF vars, RequestsInv, BeatInv
  <1> QED
    BY <1>1, <1>2, <1>3, <1>4, <1>5, <1>6, <1>7, <1>8, <1>9, <1>10, <1>11, <1>12, <1>13, <1>14, <1>15,
       <1>16, <1>17, <1>18, <1>19 DEF Next, JavaNext, NodeNext

-----------------------------------------------------------------------------
(* The orphan timeout *)

LEMMA StepBoot == TypeOK /\ RequestsInv /\ BootInv /\ [Next]_vars => BootInv'
  <1> SUFFICES ASSUME TypeOK, RequestsInv, BootInv, [Next]_vars
               PROVE  BootInv'
    OBVIOUS
  <1> USE SlotsType, RequestFields, TicksAssumption DEF javaVars, nodeVars
  \* The thread does not wait for the server to start.
  <1>o. ASSUME jpc' # "booting", status' = "NOT_STARTED" => ~beating'
        PROVE  BootInv'
    BY <1>o DEF BootInv
  <1>1. CASE StartServer
    <2>1. status' = "NOT_STARTED" => ~beating'
      BY <1>1 DEF StartServer, BootInv
    <2>2. CASE jpc' = "booting"
      <3>1. status' = "NOT_STARTED" /\ busy' = 0 /\ proc' = "booting" /\ \A s \in Slots : req'[s] = NoRequest
        BY <1>1, <2>2 DEF StartServer
      <3> QED
        BY <2>1, <3>1 DEF BootInv, Idle
    <2> QED
      BY <2>1, <2>2, <1>o
  <1>2. CASE CheckAlive \/ PostRequest
    BY <1>2, <1>o DEF CheckAlive, PostRequest, Send, Goto, BootInv
  <1>3. CASE NotAlive \/ NotAliveYet \/ RequestFails
    BY <1>3, <1>o DEF NotAlive, NotAliveYet, RequestFails, GiveUp, Goto, BootInv
  <1>4. CASE ServerStarted \/ ServerStartTimeout \/ ServerStartInterrupted \/ EndSensor
    BY <1>4, <1>o DEF ServerStarted, ServerStartTimeout, ServerStartInterrupted, EndSensor, Goto, BootInv
  <1>5. CASE Clean \/ CleanFails \/ Reap \/ ReapInterrupted \/ Kill
    BY <1>5, <1>o DEF Clean, CleanFails, Reap, ReapInterrupted, Kill, Goto, BootInv
  <1>6. CASE JavaCrash
    BY <1>6 DEF JavaCrash, BootInv
  <1>7. CASE Heartbeat
    BY <1>7 DEF Heartbeat, BootInv, RequestsInv, BeatInv
  <1>8. CASE Boot
    BY <1>8 DEF Boot, BootInv, Idle
  <1>9. ASSUME NEW s \in Slots, Handle(s) \/ Notice(s) \/ StartWork(s) \/ EndWork(s)
        PROVE  BootInv'
    <2>1. ~Idle(s) /\ UNCHANGED <<java, jpc, status, beating>>
      BY <1>9 DEF Handle, Notice, StartWork, EndWork, Idle
    <2> QED
      BY <2>1 DEF BootInv
  <1>10. ASSUME NEW s \in Slots, Finish(s)
         PROVE  BootInv'
    <2>1. ~Idle(s) /\ UNCHANGED <<java, status, beating>>
      BY <1>10 DEF Finish, Idle
    <2>2. jpc' = jpc \/ jpc' # "booting"
      BY <1>10 DEF Finish, Goto, Answered, RequestsInv, MainInv
    <2> QED
      BY <2>1, <2>2 DEF BootInv
  <1>11. CASE OrphanTimeout
    BY <1>11 DEF OrphanTimeout, Free, BootInv
  <1>12. CASE ServerClosed
    BY <1>12 DEF ServerClosed, Free, BootInv
  <1>13. CASE NodeCrash
    BY <1>13 DEF NodeCrash, BootInv, Idle
  <1>14. CASE Tick
    BY <1>14 DEF Tick, Settled, Waiting, Free, BootInv, Idle
  <1>15. CASE UNCHANGED vars
    BY <1>15 DEF vars, BootInv, Idle
  <1> QED
    BY <1>1, <1>2, <1>3, <1>4, <1>5, <1>6, <1>7, <1>8, <1>9, <1>10, <1>11, <1>12, <1>13, <1>14, <1>15
       DEF Next, JavaNext, NodeNext

\* The server is up, gets heartbeats, and its orphan timeout runs.
Alive == java = "up" /\ beating /\ proc = "up" /\ listening /\ timer # Off

LEMMA StepAlive ==
    TypeOK /\ TypeOK' /\ RequestsInv /\ BootInv /\ AliveInv /\ [Next]_vars => AliveInv'
  <1> SUFFICES ASSUME TypeOK, TypeOK', RequestsInv, BootInv, AliveInv, [Next]_vars
               PROVE  AliveInv'
    OBVIOUS
  <1> USE SlotsType, RequestFields, TicksAssumption
  <1>t. /\ req \in [Slots -> Request] /\ busy \in 0..MaxBusy /\ busy' \in 0..MaxBusy
        /\ timer \in Nat \cup {Off} /\ timer' \in Nat \cup {Off}
    BY DEF TypeOK
  \* The timeout does not run, or nobody sends heartbeats.
  <1>d. ASSUME ~Alive'
        PROVE  AliveInv'
    BY <1>d DEF Alive, AliveInv
  \* The timeout starts anew.
  <1>r. ASSUME timer' = OrphanTicks
        PROVE  AliveInv'
    <2> DEFINE held == IF busy' = 0 THEN MaxBusy ELSE busy'
    <2>1. held \in Nat
      BY <1>t
    <2>2. OrphanTicks \in Nat
      OBVIOUS
    <2>3. timer' + 1 >= OrphanTicks /\ timer' + held >= OrphanTicks
      <3> HIDE DEF held
      <3> QED
        BY <1>r, <2>1, <2>2
    <2> QED
      BY <1>r, <2>3, Zenon DEF AliveInv
  \* The timeout, the ping and the work that may hold it up are as before.
  <1>f. ASSUME Alive' => Alive, UNCHANGED <<beatDue, timer, busy>>,
               req'["beat"].at = req["beat"].at, Hung => Hung',
               \A s \in Slots : req'[s].at = "async" => \E t \in Slots : req[t].at = "async"
        PROVE  AliveInv'
    BY <1>f DEF Alive, AliveInv, Idle
  <1>1. CASE StartServer
    <2>1. CASE proc' = "booting" /\ timer' = Off
      BY <2>1, <1>d DEF Alive
    <2>2. CASE UNCHANGED <<nodeVars, req>>
      BY <1>1, <2>2, <1>f DEF StartServer, nodeVars, Alive, Hung
    <2> QED
      BY <1>1, <2>1, <2>2 DEF StartServer
  <1>2. CASE CheckAlive \/ PostRequest
    <2>1. /\ Idle("main") /\ req'["main"].at = "queued" /\ \A t \in Slots \ {"main"} : req'[t] = req[t]
      BY <1>2, <1>t DEF CheckAlive, PostRequest, Send
    <2>2. UNCHANGED <<java, beating, beatDue, nodeVars>>
      BY <1>2 DEF CheckAlive, PostRequest
    <2> QED
      BY <2>1, <2>2, <1>f DEF nodeVars, Alive, Hung, Idle
  <1>3. CASE NotAlive \/ NotAliveYet \/ RequestFails
    <2>1. /\ GiveUp("idle") /\ java = "up" /\ jpc \in {"idle", "checking", "session", "request"}
          /\ jpc = "checking" => Broken
          /\ UNCHANGED <<java, beating, beatDue, nodeVars>>
      BY <1>3 DEF NotAlive, NotAliveYet, RequestFails
    <2>2. CASE Idle("main")
      <3>1. req' = req
        BY <2>1, <2>2 DEF GiveUp
      <3> QED
        BY <2>1, <3>1, <1>f DEF nodeVars, Alive, Hung
    <2>3. CASE ~Idle("main")
      <3>1. Idle("stale")
        BY <2>1, <2>3 DEF RequestsInv, MainInv, Broken
      <3>2. /\ req'["stale"] = Dropped("main") /\ req'["main"] = NoRequest /\ req'["beat"] = req["beat"]
        BY <2>1, <2>3, <1>t DEF GiveUp
      <3>3. req'["stale"].at = req["main"].at
        BY <3>2, <1>t, DroppedFields
      <3>4. Hung => Hung'
        BY <3>1, <3>2, <3>3 DEF Hung, Slots, Idle
      <3>5. \A s \in Slots : req'[s].at = "async" => \E t \in Slots : req[t].at = "async"
        BY <3>2, <3>3 DEF Slots
      <3> QED
        BY <2>1, <3>2, <3>4, <3>5, <1>f DEF nodeVars, Alive
    <2> QED
      BY <2>2, <2>3
  <1>4. CASE ServerStarted \/ Boot
    BY <1>4, <1>r DEF ServerStarted, Boot
  <1>5. CASE ServerStartTimeout \/ EndSensor \/ Reap \/ ReapInterrupted
    BY <1>5, <1>f DEF ServerStartTimeout, EndSensor, Reap, ReapInterrupted, nodeVars, Alive, Hung
  <1>6. CASE ServerStartInterrupted
    <2>1. /\ java = "up" /\ jpc = "booting" /\ UNCHANGED <<java, beatDue, nodeVars, req>>
      BY <1>6 DEF ServerStartInterrupted
    <2>2. CASE proc = "up"
      BY <2>1, <2>2, <1>r DEF BootInv, nodeVars
    <2>3. CASE proc # "up"
      BY <2>1, <2>3, <1>d DEF Alive, nodeVars
    <2> QED
      BY <2>2, <2>3
  <1>7. CASE Clean \/ Kill \/ JavaCrash \/ NodeCrash
    BY <1>7, <1>d DEF Clean, Kill, JavaCrash, NodeCrash, Alive
  <1>8. CASE CleanFails
    <2>1. /\ req'["main"] = Dropped("main") /\ \A t \in Slots \ {"main"} : req'[t] = req[t]
          /\ UNCHANGED <<java, beating, beatDue, nodeVars>>
      BY <1>8, <1>t DEF CleanFails
    <2>2. \A t \in Slots : req'[t].at = req[t].at
      BY <2>1, <1>t, DroppedFields
    <2> QED
      BY <2>1, <2>2, <1>f DEF nodeVars, Alive, Hung
  <1>9. CASE Heartbeat
    <2>1. CASE Refused
      BY <1>9, <2>1, <1>d DEF Heartbeat, Refused, Alive, nodeVars
    <2>2. CASE req' = [req EXCEPT !["beat"] = NewRequest("status")]
      <3>1. /\ req'["beat"].at = "queued" /\ beatDue /\ ~beatDue'
            /\ UNCHANGED <<java, beating, nodeVars>>
        BY <1>9, <2>2, <1>t DEF Heartbeat
      <3>2. Alive => timer + 1 >= OrphanTicks
        BY <3>1 DEF AliveInv, Alive
      <3> QED
        BY <3>1, <3>2, <1>t DEF AliveInv, Alive, nodeVars, Idle
    <2> QED
      BY <1>9, <2>1, <2>2 DEF Heartbeat
  <1>10. ASSUME NEW s \in Slots, Handle(s)
         PROVE  AliveInv'
    BY <1>10, <1>d DEF Handle, Alive
  <1>11. ASSUME NEW s \in Slots, Notice(s)
         PROVE  AliveInv'
    <2>1. \A t \in Slots : req'[t].at = req[t].at
      BY <1>11, <1>t, ChangedFields DEF Notice
    <2> QED
      BY <1>11, <2>1, <1>f DEF Notice, javaVars, nodeVars, Alive, Hung
  \* Work starts when no ping waits for its turn; the answer to one may still be out.
  <1>12. ASSUME NEW s \in Slots, StartWork(s)
         PROVE  AliveInv'
    <2>1. PICK a \in {"busy", "hung"} : req' = [req EXCEPT ![s].at = a]
      BY <1>12 DEF StartWork
    <2>2. /\ UNCHANGED <<java, beating, beatDue, proc, listening, timer>>
          /\ busy = 0 /\ busy' = 1 /\ req[s].at = "async" /\ req["beat"].at # "queued"
      BY <1>12 DEF StartWork, Free, javaVars
    <2>3. s # "beat" /\ req'["beat"] = req["beat"]
      BY <2>1, <2>2, <1>t DEF RequestsInv, BeatInv
    <2>4. ~Idle("beat") => req["beat"].at = "flushing"
      BY <2>2 DEF Idle, RequestsInv, BeatInv
    <2>5. Alive /\ ~Idle("beat") => timer = OrphanTicks
      BY <2>2, <2>4 DEF AliveInv, Alive
    <2> QED
      BY <2>2, <2>3, <2>5, <1>t DEF AliveInv, Alive, Idle
  \* Work ends: it was the only one, and it has held up the ping for MaxBusy at most.
  <1>13. ASSUME NEW s \in Slots, EndWork(s)
         PROVE  AliveInv'
    <2>1. /\ req'[s].at = "flushing" /\ \A t \in Slots \ {s} : req'[t] = req[t]
      BY <1>13, <1>t, ChangedFields DEF EndWork
    <2>2. /\ UNCHANGED <<java, beating, beatDue, proc, listening, timer>>
          /\ busy' = 0 /\ req[s].at = "busy"
      BY <1>13 DEF EndWork, javaVars
    <2>3. s # "beat" /\ req'["beat"] = req["beat"]
      BY <2>1, <2>2 DEF RequestsInv, BeatInv
    <2>4. busy > 0 /\ ~Hung /\ \A t \in Slots : req[t].at # "async"
      BY <2>2 DEF RequestsInv, WorkInv, Hung
    <2>5. \A t \in Slots : req'[t].at # "async"
      BY <2>1, <2>4
    <2>6. Alive /\ ~Idle("beat") => timer + MaxBusy >= OrphanTicks
      BY <2>4, <1>t DEF AliveInv, Alive
    <2> QED
      BY <2>2, <2>3, <2>5, <2>6, <1>t DEF AliveInv, Alive, Idle
  <1>14. ASSUME NEW s \in Slots, Finish(s)
         PROVE  AliveInv'
    <2>1. CASE req[s].conn # "gone"
      BY <1>14, <2>1, <1>r DEF Finish, TimerAfter
    <2>2. CASE req[s].conn = "gone"
      <3>1. /\ req[s].at = "flushing" /\ req'[s] = NoRequest /\ \A t \in Slots \ {s} : req'[t] = req[t]
            /\ s # "beat"
        BY <1>14, <2>2, <1>t DEF Finish, RequestsInv, BeatInv
      <3>2. UNCHANGED <<java, beating, beatDue, proc, busy, timer>> /\ (listening' => listening)
        BY <1>14, <2>2 DEF Finish, TimerAfter
      <3> QED
        BY <3>1, <3>2, <1>f DEF Alive, Hung
    <2> QED
      BY <2>1, <2>2
  <1>15. CASE OrphanTimeout \/ ServerClosed
    BY <1>15, <1>d DEF OrphanTimeout, ServerClosed, Alive
  \* A tick makes a ping due, or passes while the event loop is busy.
  <1>16. CASE Tick
    <2>1. /\ UNCHANGED <<java, beating, proc, listening, req>> /\ Settled
          /\ timer' = IF timer = Off \/ timer = 0 THEN timer ELSE timer - 1
          /\ busy' = IF busy \in {0, MaxBusy} THEN busy ELSE busy + 1
      BY <1>16 DEF Tick
    <2>2. ~beatDue
      BY <2>1 DEF Settled
    <2>3. Alive' => Alive
      BY <2>1 DEF Alive
    <2>4. CASE Idle("beat")
      <3>1. Alive => beatDue'
        BY <1>16, <2>4, Zenon DEF Tick, Alive
      <3>2. Alive => timer = OrphanTicks
        BY <2>2, <2>4 DEF AliveInv, Alive
      <3> QED
        BY <2>1, <2>3, <2>4, <3>1, <3>2 DEF AliveInv, Alive, Idle
    <2>5. CASE ~Idle("beat")
      <3>1. ~beatDue'
        BY <1>16, <2>5, Zenon DEF Tick
      <3>2. ~Free
        BY <2>1, <2>5 DEF Settled, RequestsInv, BeatInv, Idle
      <3>3. Alive => busy > 0
        BY <3>2, <1>t DEF Free, Alive
      <3>4. Hung \/ busy < MaxBusy
        BY <2>1 DEF Settled
      <3>5. Hung' <=> Hung
        BY <2>1 DEF Hung
      <3>6. Alive => Hung \/ timer + busy >= OrphanTicks
        BY <2>5, <3>3 DEF AliveInv, Alive
      <3>7. Alive' => Hung' \/ timer' + busy' >= OrphanTicks
        BY <2>1, <2>3, <3>3, <3>4, <3>5, <3>6, <1>t DEF Alive
      <3>8. Alive' => busy' > 0
        BY <2>1, <2>3, <3>3, <1>t
      <3> QED
        BY <2>1, <2>5, <3>1, <3>7, <3>8 DEF AliveInv, Alive, Idle
    <2> QED
      BY <2>4, <2>5
  <1>17. CASE UNCHANGED vars
    BY <1>17, <1>f DEF vars, Alive, Hung
  <1> QED
    BY <1>1, <1>2, <1>3, <1>4, <1>5, <1>6, <1>7, <1>8, <1>9, <1>10, <1>11, <1>12, <1>13, <1>14, <1>15,
       <1>16, <1>17 DEF Next, JavaNext, NodeNext

-----------------------------------------------------------------------------
(* Theorems *)

LEMMA LifecycleCorrect == Spec => []LifecycleInvariant
  <1>1. LifecycleInvariant /\ [Next]_vars => LifecycleInvariant'
    BY StepType, StepRequests, StepBoot, StepAlive DEF LifecycleInvariant, RequestsInv
  <1> QED
    BY InitLifecycle, <1>1, PTL DEF Spec

\* Every variable keeps its type, whatever the timeouts are.
THEOREM LifecycleTypeCorrect == Spec => []TypeOK
  <1>1. LifecycleInvariant => TypeOK
    BY DEF LifecycleInvariant
  <1> QED
    BY LifecycleCorrect, <1>1, PTL

\* The step that ShutdownOnlyWhenOrphan allows.
OrphanStep == cause' = "timer" /\ cause # "timer" => java = "crashed" \/ ~beating

\* A server whose plugin is alive and sends heartbeats is never closed by its orphan
\* timeout, as long as no synchronous work takes as long as the timeout: whatever the
\* timeouts are, whether or not work may hang, and however pings, requests, failures
\* and answers interleave.  (With longer work the run bridge_busy shows it closed.)
THEOREM ShutdownOnlyWhenOrphanHolds ==
    ASSUME MaxBusy < OrphanTicks
    PROVE  Spec => ShutdownOnlyWhenOrphan
  <1>1. LifecycleInvariant /\ [Next]_vars => [OrphanStep]_vars
    <2> SUFFICES ASSUME LifecycleInvariant, Next,
                        cause' = "timer", cause # "timer", java # "crashed", beating
                 PROVE  FALSE
      BY DEF OrphanStep
    <2>1. OrphanTimeout
      BY DEF Next, JavaNext, NodeNext, StartServer, CheckAlive, NotAlive, NotAliveYet, ServerStarted,
             ServerStartTimeout, ServerStartInterrupted, PostRequest, RequestFails, EndSensor, Clean,
             CleanFails, Reap, ReapInterrupted, Kill, JavaCrash, Heartbeat, Boot, Handle, Notice,
             StartWork, EndWork, Finish, ServerClosed, NodeCrash, Tick, javaVars, nodeVars
    <2>2. Free /\ timer = 0 /\ listening
      BY <2>1 DEF OrphanTimeout
    <2>3. TypeOK /\ WorkInv /\ AliveInv /\ java = "up"
      BY DEF LifecycleInvariant, TypeOK
    <2>4. proc = "up" /\ busy = 0 /\ timer # Off
      BY <2>2, TicksAssumption DEF Free
    <2>5. ~Hung
      BY <2>3, <2>4 DEF WorkInv, Hung
    <2> QED
      BY <2>2, <2>3, <2>4, <2>5, TicksAssumption DEF AliveInv
  <1>2. ShutdownOnlyWhenOrphan <=> [][OrphanStep]_vars
    BY DEF ShutdownOnlyWhenOrphan, OrphanStep
  <1> QED
    BY LifecycleCorrect, <1>1, <1>2, PTL DEF Spec

=============================================================================
