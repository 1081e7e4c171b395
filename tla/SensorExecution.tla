---------------------------- MODULE SensorExecution ----------------------------
(***************************************************************************)
(* The executions of sensors, one after the other, against the linters that  *)
(* one bridge keeps for all of them.  A sensor initializes the default       *)
(* linter, perhaps a second one for unchanged files, and names one of the    *)
(* two in the request for a file.  The plugin may give up a request that the *)
(* bridge still handles later, between the requests of the next sensor.      *)
(***************************************************************************)
EXTENDS Integers, Sequences, FiniteSets, TLAPS

CONSTANTS
  Files,          \* the files of a sensor
  MaxExecutions   \* bound on the executions of sensors

MaxExecutionsAssumption == MaxExecutions \in Nat

VARIABLES
  pc,         \* where the sensor is: "idle", "default", "unchanged" or "files"
  execution,  \* the number of the execution
  mode,       \* its analysis mode
  same,       \* the files that did not change since the previous analysis
  todo,       \* the files still to be analyzed
  waiting,    \* whether the sensor waits for an answer
  alive,      \* whether the bridge is alive
  queue,      \* the requests that reached the bridge, in order
  reading,    \* requests given up whose file is still being read
  linters,    \* the linters of the bridge
  responses   \* the responses the sensor processed

vars == <<pc, execution, mode, same, todo, waiting, alive, queue, reading, linters, responses>>

Modes == {"DEFAULT", "SKIP_UNCHANGED"}

LinterIds == {"default", "unchanged"}

NoLinter == [execution |-> 0, rules |-> "none"]

\* Mutant: the mode is not looked at.
linterOfStatus(file) == IF file \in same THEN "unchanged" ELSE "default"

getLinterIdFor(file) == IF mode = "SKIP_UNCHANGED" /\ file \in same THEN "unchanged" ELSE "default"

Init ==
  /\ pc = "idle" /\ execution = 0 /\ mode = "DEFAULT" /\ same = {} /\ todo = {} /\ waiting = FALSE
  /\ alive = TRUE /\ queue = <<>> /\ reading = {} /\ linters = [id \in LinterIds |-> NoLinter] /\ responses = {}

(***************************************************************************)
(* The sensor.                                                             *)
(***************************************************************************)
\* execute, up to the first request; startServerLazily finds the bridge alive.
Execute(m, unchanged) ==
  /\ pc = "idle" /\ execution < MaxExecutions /\ alive
  /\ pc' = "default" /\ execution' = execution + 1 /\ mode' = m /\ same' = unchanged /\ todo' = Files
  /\ UNCHANGED <<waiting, alive, queue, reading, linters, responses>>

Post(request) ==
  /\ ~waiting /\ alive
  /\ queue' = Append(queue, request)
  /\ waiting' = TRUE

RulesFor(id) == IF id = "unchanged" THEN "ucfg" ELSE "all"

initLinter ==
  /\ pc \in LinterIds
  /\ Post([type |-> "init", id |-> pc, linter |-> [execution |-> execution, rules |-> RulesFor(pc)]])
  /\ UNCHANGED <<pc, execution, mode, same, todo, alive, reading, linters, responses>>

Analyze(file) ==
  /\ pc = "files" /\ file \in todo
  /\ Post([type |-> "analyze", id |-> getLinterIdFor(file), file |-> file])
  /\ UNCHANGED <<pc, execution, mode, same, todo, alive, reading, linters, responses>>

Success ==
  /\ pc = "files" /\ todo = {}
  /\ pc' = "idle"
  /\ UNCHANGED <<execution, mode, same, todo, waiting, alive, queue, reading, linters, responses>>

\* A CancellationException, or any other that execute catches, between two requests.
Interrupt ==
  /\ pc # "idle" /\ ~waiting
  /\ pc' = "idle"
  /\ UNCHANGED <<execution, mode, same, todo, waiting, alive, queue, reading, linters, responses>>

\* The timeout of a request: the bridge does not learn of it.
GiveUp ==
  /\ waiting
  /\ waiting' = FALSE /\ pc' = "idle"
  /\ queue' = [i \in DOMAIN queue |-> [queue[i] EXCEPT !.type = IF queue[i].type = "analyze" THEN "late" ELSE @]]
  /\ UNCHANGED <<execution, mode, same, todo, alive, reading, linters, responses>>

(***************************************************************************)
(* The bridge.                                                             *)
(***************************************************************************)
\* The last request of the queue is the one the sensor waits for.
Awaited == waiting /\ Len(queue) = 1

AfterInit == IF pc = "default" /\ mode = "SKIP_UNCHANGED" THEN "unchanged" ELSE "files"

initializeLinter(request) == [linters EXCEPT ![request.id] = request.linter]

HandleInit ==
  /\ alive /\ queue # <<>> /\ Head(queue).type = "init"
  /\ linters' = initializeLinter(Head(queue))
  /\ queue' = Tail(queue)
  /\ pc' = IF Awaited THEN AfterInit ELSE pc
  /\ waiting' = (waiting /\ ~Awaited)
  /\ UNCHANGED <<execution, mode, same, todo, alive, reading, responses>>

\* getLinter, right before the file is parsed; a linter that is missing is an error the sensor gets.
HandleAnalysis ==
  /\ alive /\ queue # <<>> /\ Head(queue).type = "analyze"
  /\ responses' = responses \cup {[execution |-> execution, mode |-> mode, same |-> Head(queue).file \in same, linter |-> linters[Head(queue).id]]}
  /\ todo' = todo \ {Head(queue).file}
  /\ queue' = Tail(queue)
  /\ waiting' = FALSE
  /\ UNCHANGED <<pc, execution, mode, same, alive, reading, linters>>

\* A request that was given up waits for its file, and other requests come first.
ReadLate ==
  /\ alive /\ queue # <<>> /\ Head(queue).type = "late"
  /\ reading' = reading \cup {Head(queue).id}
  /\ queue' = Tail(queue)
  /\ UNCHANGED <<pc, execution, mode, same, todo, waiting, alive, linters, responses>>

\* It is analyzed with the linter of that time, and no one hears of it.
FinishLate(id) ==
  /\ alive /\ id \in reading
  /\ reading' = reading \ {id}
  /\ UNCHANGED <<pc, execution, mode, same, todo, waiting, alive, queue, linters, responses>>

\* The process ends; isAlive is false and execute ends with an exception.
Crash ==
  /\ alive
  /\ alive' = FALSE /\ queue' = <<>> /\ reading' = {} /\ waiting' = FALSE /\ pc' = "idle"
  /\ linters' = [id \in LinterIds |-> NoLinter]
  /\ UNCHANGED <<execution, mode, same, todo, responses>>

Done == pc = "idle" /\ (execution = MaxExecutions \/ ~alive) /\ UNCHANGED vars

Next ==
  \/ \E m \in Modes, unchanged \in SUBSET Files : Execute(m, unchanged)
  \/ initLinter \/ \E file \in Files : Analyze(file)
  \/ Success \/ Interrupt \/ GiveUp
  \/ HandleInit \/ HandleAnalysis \/ ReadLate \/ \E id \in LinterIds : FinishLate(id)
  \/ Crash \/ Done

Spec == Init /\ [][Next]_vars

---------------------------------------------------------------------------
(***************************************************************************)
(* Types of the variables, with a response for every kind of file.          *)
(***************************************************************************)
TypeOK ==
  /\ pc \in {"idle", "files"} \cup LinterIds /\ execution \in 0..MaxExecutions /\ mode \in Modes
  /\ same \subseteq Files /\ todo \subseteq Files /\ waiting \in BOOLEAN /\ alive \in BOOLEAN
  /\ reading \subseteq LinterIds
  /\ linters \in [LinterIds -> [execution : 0..MaxExecutions, rules : {"none", "ucfg", "all"}]]

(***************************************************************************)
(* Every response a sensor processes was made by a linter that this very     *)
(* execution initialized, whatever earlier ones left in the bridge: half of   *)
(* their linters after a failure between the two requests of initLinter, or   *)
(* a request that was given up and is handled late.                         *)
(***************************************************************************)
AnsweredByOwnLinter == \A r \in responses : r.linter.execution = r.execution

(***************************************************************************)
(* A file is analyzed with nothing but the UCFG rule only if it is unchanged *)
(* and the mode of the execution allows that, and with all rules only if     *)
(* not, although the linter of unchanged files outlives its execution.       *)
(***************************************************************************)
FullRulesUnlessUnchanged ==
  \A r \in responses : (r.linter.rules = "ucfg") = (r.mode = "SKIP_UNCHANGED" /\ r.same)

\* What one execution of a sensor leaves behind, linters and requests that are
\* still under way, never shows in another one.
ExecutionsKeepApart == AnsweredByOwnLinter /\ FullRulesUnlessUnchanged

---------------------------------------------------------------------------
(* The inductive invariant *)

Linter == [execution : 0..MaxExecutions, rules : {"none", "ucfg", "all"}]

InitRequest == [type : {"init"}, id : LinterIds, linter : Linter]

FileRequest == [type : {"analyze", "late"}, id : LinterIds, file : Files]

QueueType == queue \in Seq(InitRequest \cup FileRequest)

\* The request the sensor waits for is the last one in the queue.  All others were
\* given up, and none of them is still an analysis that somebody waits for.
AwaitedInv ==
  /\ pc = "idle" => ~waiting
  /\ waiting =>
       /\ queue # <<>>
       /\ IF pc \in LinterIds
          THEN queue[Len(queue)] = [type |-> "init", id |-> pc,
                                    linter |-> [execution |-> execution, rules |-> RulesFor(pc)]]
          ELSE /\ queue[Len(queue)].type = "analyze" /\ queue[Len(queue)].file \in todo
               /\ queue[Len(queue)].id = getLinterIdFor(queue[Len(queue)].file)
  /\ \A i \in DOMAIN queue : queue[i].type = "analyze" => waiting /\ pc = "files" /\ i = Len(queue)

\* Once the default linter is there nothing of earlier executions is left in the
\* queue, and the linters that the mode calls for are this execution's.
OwnLintersInv ==
  /\ pc \in {"unchanged", "files"} =>
       /\ linters["default"] = [execution |-> execution, rules |-> "all"]
       /\ Len(queue) = IF waiting THEN 1 ELSE 0
  /\ pc = "files" /\ mode = "SKIP_UNCHANGED" =>
       linters["unchanged"] = [execution |-> execution, rules |-> "ucfg"]

ExecutionInvariant ==
  TypeOK /\ QueueType /\ AwaitedInv /\ OwnLintersInv /\ AnsweredByOwnLinter /\ FullRulesUnlessUnchanged

---------------------------------------------------------------------------
(* What the proof needs to know of sequences and requests *)

\* What is left of a queue when its first request is handled.
LEMMA TailFacts ==
  ASSUME NEW S, NEW q \in Seq(S), q # <<>>
  PROVE  /\ Len(q) \in Nat \ {0} /\ DOMAIN q = 1..Len(q)
         /\ Head(q) = q[1] /\ q[1] \in S
         /\ Tail(q) \in Seq(S) /\ Len(Tail(q)) = Len(q) - 1 /\ DOMAIN Tail(q) = 1..(Len(q) - 1)
         /\ \A i \in 1..(Len(q) - 1) : Tail(q)[i] = q[i + 1]
  OBVIOUS

\* A queue with one more request.
LEMMA AppendFacts ==
  ASSUME NEW S, NEW q \in Seq(S), NEW e \in S
  PROVE  /\ Len(q) \in Nat /\ DOMAIN q = 1..Len(q)
         /\ Append(q, e) \in Seq(S) /\ Append(q, e) # <<>>
         /\ Len(Append(q, e)) = Len(q) + 1 /\ DOMAIN Append(q, e) = 1..(Len(q) + 1)
         /\ Append(q, e)[Len(q) + 1] = e
         /\ \A i \in 1..Len(q) : Append(q, e)[i] = q[i]
  OBVIOUS

\* What giving up does to a request of the queue.
LEMMA GivenUpRequest ==
  ASSUME NEW r \in InitRequest \cup FileRequest
  PROVE  LET late == [r EXCEPT !.type = IF r.type = "analyze" THEN "late" ELSE @]
         IN  late \in InitRequest \cup FileRequest /\ late.type # "analyze"
<1>1. CASE r \in InitRequest
  BY <1>1 DEF InitRequest
<1>2. CASE r \in FileRequest
  BY <1>2 DEF FileRequest
<1> QED
  BY <1>1, <1>2

\* The kinds of requests, by their type.
LEMMA RequestKinds ==
  ASSUME NEW r \in InitRequest \cup FileRequest
  PROVE  /\ r.id \in LinterIds
         /\ r.type = "init" => r.linter \in Linter
         /\ r.type \in {"analyze", "late"} => r.file \in Files
         /\ r.type \in {"init", "analyze", "late"}
  BY DEF InitRequest, FileRequest

LEMMA NoLinterIsALinter == ASSUME MaxExecutionsAssumption PROVE NoLinter \in Linter
<1>1. 0 \in 0..MaxExecutions
  BY DEF MaxExecutionsAssumption
<1> QED
  BY <1>1 DEF NoLinter, Linter

LEMMA InitExecution == ASSUME MaxExecutionsAssumption, Init PROVE ExecutionInvariant
<1>1. TypeOK
  <2>1. linters \in [LinterIds -> Linter]
    BY NoLinterIsALinter DEF Init
  <2>2. execution \in 0..MaxExecutions
    BY DEF MaxExecutionsAssumption, Init
  <2>3. waiting \in BOOLEAN /\ alive \in BOOLEAN
    BY DEF Init
  <2>4. /\ pc \in {"idle", "files"} \cup LinterIds /\ mode \in Modes
        /\ same \subseteq Files /\ todo \subseteq Files /\ reading \subseteq LinterIds
    BY DEF Init, Modes
  <2> QED
    BY <2>1, <2>2, <2>3, <2>4 DEF TypeOK, Linter
<1>2. QueueType
  BY DEF Init, QueueType
<1>3. AwaitedInv /\ OwnLintersInv
  BY DEF Init, AwaitedInv, OwnLintersInv
<1>4. AnsweredByOwnLinter /\ FullRulesUnlessUnchanged
  BY DEF Init, AnsweredByOwnLinter, FullRulesUnlessUnchanged
<1> QED
  BY <1>1, <1>2, <1>3, <1>4 DEF ExecutionInvariant

\* The linter that a file is analyzed with while files are analyzed.
LEMMA LinterOfFile ==
  ASSUME ExecutionInvariant, pc = "files", NEW file
  PROVE  /\ linters[getLinterIdFor(file)].execution = execution
         /\ (linters[getLinterIdFor(file)].rules = "ucfg") = (mode = "SKIP_UNCHANGED" /\ file \in same)
  BY DEF ExecutionInvariant, OwnLintersInv, getLinterIdFor

---------------------------------------------------------------------------
(* Types *)

LEMMA TypeNext ==
  ASSUME MaxExecutionsAssumption, ExecutionInvariant, [Next]_vars
  PROVE  TypeOK' /\ QueueType'
<1> DEFINE Request == InitRequest \cup FileRequest
<1>t. TypeOK /\ queue \in Seq(Request)
  BY DEF ExecutionInvariant, QueueType
<1>n. execution \in Nat /\ MaxExecutions \in Nat
  BY <1>t DEF TypeOK, MaxExecutionsAssumption
<1>q. ASSUME queue # <<>>
      PROVE  Head(queue) \in Request /\ Tail(queue) \in Seq(Request)
  BY <1>t, <1>q, TailFacts
<1>h. ASSUME queue # <<>>
      PROVE  /\ Head(queue).id \in LinterIds
             /\ Head(queue).type = "init" => Head(queue).linter \in Linter
  BY <1>q, <1>h, RequestKinds
<1>1. CASE \E m \in Modes, unchanged \in SUBSET Files : Execute(m, unchanged)
  BY <1>1, <1>t, <1>n DEF Execute, TypeOK, QueueType, LinterIds
<1>2. CASE initLinter
  <2>1. [type |-> "init", id |-> pc, linter |-> [execution |-> execution, rules |-> RulesFor(pc)]] \in Request
    BY <1>2, <1>t DEF initLinter, InitRequest, Linter, RulesFor, TypeOK
  <2>2. queue' \in Seq(Request)
    BY <1>2, <2>1, <1>t, AppendFacts DEF initLinter, Post
  <2> QED
    BY <1>2, <2>2, <1>t DEF initLinter, Post, TypeOK, QueueType
<1>3. ASSUME NEW file \in Files, Analyze(file) PROVE TypeOK' /\ QueueType'
  <2>1. [type |-> "analyze", id |-> getLinterIdFor(file), file |-> file] \in Request
    BY <1>3 DEF FileRequest, getLinterIdFor, LinterIds
  <2>2. queue' \in Seq(Request)
    BY <1>3, <2>1, <1>t, AppendFacts DEF Analyze, Post
  <2> QED
    BY <1>3, <2>2, <1>t DEF Analyze, Post, TypeOK, QueueType
<1>4. CASE Success \/ Interrupt
  BY <1>4, <1>t DEF Success, Interrupt, TypeOK, QueueType
<1>5. CASE GiveUp
  <2>1. Len(queue) \in Nat /\ DOMAIN queue = 1..Len(queue) /\ \A i \in DOMAIN queue : queue[i] \in Request
    BY <1>t
  <2>2. \A i \in DOMAIN queue :
          [queue[i] EXCEPT !.type = IF queue[i].type = "analyze" THEN "late" ELSE @] \in Request
    BY <2>1, GivenUpRequest
  <2>3. queue' \in [1..Len(queue) -> Request]
    BY <1>5, <2>1, <2>2 DEF GiveUp
  <2>4. queue' \in Seq(Request)
    BY <2>1, <2>3
  <2> QED
    BY <1>5, <2>4, <1>t DEF GiveUp, TypeOK, QueueType
<1>6. CASE HandleInit
  <2>1. linters' \in [LinterIds -> Linter]
    BY <1>6, <1>h, <1>t DEF HandleInit, initializeLinter, TypeOK, Linter
  <2>2. pc' \in {"idle", "files"} \cup LinterIds
    BY <1>6, <1>t DEF HandleInit, AfterInit, TypeOK, LinterIds
  <2> QED
    BY <1>6, <1>t, <1>q, <2>1, <2>2 DEF HandleInit, TypeOK, QueueType, Linter
<1>7. CASE HandleAnalysis
  BY <1>7, <1>t, <1>q DEF HandleAnalysis, TypeOK, QueueType
<1>8. CASE ReadLate
  BY <1>8, <1>t, <1>q, <1>h DEF ReadLate, TypeOK, QueueType
<1>9. CASE \E id \in LinterIds : FinishLate(id)
  BY <1>9, <1>t DEF FinishLate, TypeOK, QueueType
<1>10. CASE Crash
  <2>1. linters' \in [LinterIds -> Linter]
    BY <1>10, NoLinterIsALinter DEF Crash
  <2>2. waiting' \in BOOLEAN /\ alive' \in BOOLEAN
    BY <1>10 DEF Crash
  <2>3. /\ pc' \in {"idle", "files"} \cup LinterIds /\ reading' \subseteq LinterIds
        /\ queue' \in Seq(Request)
    BY <1>10 DEF Crash
  <2> QED
    BY <1>10, <2>1, <2>2, <2>3, <1>t DEF Crash, TypeOK, QueueType, Linter
<1>11. CASE UNCHANGED vars
  BY <1>11, <1>t DEF vars, TypeOK, QueueType
<1> QED
  BY <1>1, <1>2, <1>3, <1>4, <1>5, <1>6, <1>7, <1>8, <1>9, <1>10, <1>11 DEF Next, Done

---------------------------------------------------------------------------
(* The request the sensor waits for *)

\* While linters are there that belong to this execution the queue holds no
\* request of another one, so a request that is handled is the awaited one.
LEMMA HandledIsAwaited ==
  ASSUME ExecutionInvariant, queue # <<>>, pc \in {"unchanged", "files"}
  PROVE  waiting /\ Len(queue) = 1 /\ Awaited
<1>1. Len(queue) # 0
  BY DEF ExecutionInvariant, QueueType
<1> QED
  BY <1>1 DEF ExecutionInvariant, OwnLintersInv, Awaited

LEMMA AwaitedNext == ASSUME ExecutionInvariant, [Next]_vars PROVE AwaitedInv'
<1> DEFINE Request == InitRequest \cup FileRequest
<1>t. TypeOK /\ queue \in Seq(Request) /\ AwaitedInv
  BY DEF ExecutionInvariant, QueueType
<1>d. Len(queue) \in Nat /\ DOMAIN queue = 1..Len(queue)
  BY <1>t
<1>q. ASSUME queue # <<>>
      PROVE  /\ Len(queue) \in Nat \ {0} /\ Head(queue) = queue[1] /\ 1 \in DOMAIN queue
             /\ Len(Tail(queue)) = Len(queue) - 1 /\ DOMAIN Tail(queue) = 1..(Len(queue) - 1)
             /\ \A i \in 1..(Len(queue) - 1) : Tail(queue)[i] = queue[i + 1] /\ i + 1 \in DOMAIN queue
  BY <1>t, <1>q, TailFacts
<1>a. ~waiting => \A i \in DOMAIN queue : queue[i].type # "analyze"
  BY <1>t DEF AwaitedInv
<1>1. CASE \E m \in Modes, unchanged \in SUBSET Files : Execute(m, unchanged)
  BY <1>1, <1>t, <1>a DEF Execute, AwaitedInv
<1>2. CASE initLinter
  <2> DEFINE r == [type |-> "init", id |-> pc, linter |-> [execution |-> execution, rules |-> RulesFor(pc)]]
  <2>1. r \in Request
    BY <1>2, <1>t DEF initLinter, InitRequest, Linter, RulesFor, TypeOK
  <2>2. /\ queue' # <<>> /\ Len(queue') = Len(queue) + 1 /\ DOMAIN queue' = 1..(Len(queue) + 1)
        /\ queue'[Len(queue')] = r
        /\ \A i \in 1..Len(queue) : queue'[i] = queue[i]
    BY <1>2, <2>1, <1>t, AppendFacts DEF initLinter, Post
  <2>3. r.type = "init"
    OBVIOUS
  <2>4. \A i \in DOMAIN queue' : queue'[i].type # "analyze"
    <3> SUFFICES ASSUME NEW i \in DOMAIN queue' PROVE queue'[i].type # "analyze"
      OBVIOUS
    <3>1. CASE i = Len(queue')
      BY <3>1, <2>2, <2>3
    <3>2. CASE i # Len(queue')
      <4>1. i \in DOMAIN queue /\ queue'[i] = queue[i]
        BY <3>2, <2>2, <1>d
      <4> QED
        BY <4>1, <1>2, <1>a DEF initLinter, Post
    <3> QED
      BY <3>1, <3>2
  <2>5. waiting' /\ pc' = pc /\ pc \in LinterIds /\ execution' = execution
    BY <1>2 DEF initLinter, Post
  <2>6. pc # "idle" /\ RulesFor(pc)' = RulesFor(pc)
    BY <2>5 DEF LinterIds, RulesFor
  <2>7. queue'[Len(queue')] = [type |-> "init", id |-> pc', linter |-> [execution |-> execution', rules |-> RulesFor(pc)']]
    BY <2>2, <2>5, <2>6
  <2> HIDE DEF r
  <2> QED
    BY <2>2, <2>4, <2>5, <2>6, <2>7 DEF AwaitedInv
<1>3. ASSUME NEW file \in Files, Analyze(file) PROVE AwaitedInv'
  <2> DEFINE r == [type |-> "analyze", id |-> getLinterIdFor(file), file |-> file]
  <2>1. r \in Request
    BY <1>3 DEF FileRequest, getLinterIdFor, LinterIds
  <2>2. /\ queue' # <<>> /\ Len(queue') = Len(queue) + 1 /\ DOMAIN queue' = 1..(Len(queue) + 1)
        /\ queue'[Len(queue')] = r
        /\ \A i \in 1..Len(queue) : queue'[i] = queue[i]
    BY <1>3, <2>1, <1>t, AppendFacts DEF Analyze, Post
  <2>3. r.type = "analyze" /\ r.id = getLinterIdFor(file) /\ r.file = file
    OBVIOUS
  <2>4. \A i \in DOMAIN queue' : queue'[i].type = "analyze" => i = Len(queue')
    <3> SUFFICES ASSUME NEW i \in DOMAIN queue', i # Len(queue') PROVE queue'[i].type # "analyze"
      OBVIOUS
    <3>1. i \in DOMAIN queue /\ queue'[i] = queue[i]
      BY <2>2, <1>d
    <3> QED
      BY <3>1, <1>3, <1>a DEF Analyze, Post
  <2>5. waiting' /\ pc' = "files" /\ pc' \notin LinterIds /\ mode' = mode /\ same' = same
    BY <1>3 DEF Analyze, Post, LinterIds
  <2>6. queue'[Len(queue')].id = getLinterIdFor(queue[Len(queue)].file)'
    BY <2>2, <2>3, <2>5 DEF getLinterIdFor
  <2> HIDE DEF r
  <2>7. queue'[Len(queue')].type = "analyze" /\ queue'[Len(queue')].file \in todo'
    BY <1>3, <2>2, <2>3 DEF Analyze
  <2> QED
    BY <2>2, <2>4, <2>5, <2>6, <2>7 DEF AwaitedInv
<1>4. CASE Success \/ Interrupt
  <2>1. ~waiting
    <3>1. CASE Success
      <4>1. SUFFICES ASSUME waiting PROVE FALSE
        OBVIOUS
      <4>2. pc = "files" /\ todo = {} /\ pc \notin LinterIds
        BY <3>1 DEF Success, LinterIds
      <4> QED
        BY <4>1, <4>2, <1>t DEF AwaitedInv
    <3> QED
      BY <1>4, <3>1 DEF Interrupt
  <2> QED
    BY <1>4, <2>1, <1>a DEF Success, Interrupt, AwaitedInv
<1>5. CASE GiveUp
  <2>1. \A i \in DOMAIN queue : queue[i] \in Request
    BY <1>t
  <2>2. \A i \in DOMAIN queue :
          [queue[i] EXCEPT !.type = IF queue[i].type = "analyze" THEN "late" ELSE @].type # "analyze"
    BY <2>1, GivenUpRequest
  <2>3. \A i \in DOMAIN queue' : queue'[i].type # "analyze"
    BY <1>5, <2>2 DEF GiveUp
  <2> QED
    BY <1>5, <2>3 DEF GiveUp, AwaitedInv
<1>6. CASE HandleInit \/ ReadLate
  <2>1. queue # <<>> /\ queue' = Tail(queue) /\ Head(queue).type # "analyze"
    BY <1>6 DEF HandleInit, ReadLate
  <2>2. UNCHANGED <<execution, mode, same>>
    BY <1>6 DEF HandleInit, ReadLate
  <2>3. CASE ~waiting
    <3>0. ~Awaited
      BY <2>3 DEF Awaited
    <3>1. ~waiting' /\ pc' = pc
      <4>1. CASE HandleInit
        BY <4>1, <2>3, <3>0 DEF HandleInit
      <4>2. CASE ReadLate
        BY <4>2, <2>3 DEF ReadLate
      <4> QED
        BY <1>6, <4>1, <4>2
    <3>2. \A i \in DOMAIN queue' : queue'[i].type # "analyze"
      BY <1>a, <1>q, <2>1, <2>3
    <3> QED
      BY <3>1, <3>2 DEF AwaitedInv
  <2>4. CASE waiting /\ Len(queue) = 1
    <3>1. CASE HandleInit
      <4>1. Awaited
        BY <2>4 DEF Awaited
      <4>2. ~waiting'
        BY <3>1, <4>1 DEF HandleInit
      <4>3. DOMAIN queue' = {}
        BY <2>1, <2>4, <1>q
      <4> QED
        BY <4>2, <4>3 DEF AwaitedInv
    <3>2. CASE ReadLate
      <4>1. Head(queue) = queue[Len(queue)]
        BY <2>1, <2>4, <1>q
      <4>2. Head(queue).type \in {"init", "analyze"}
        BY <4>1, <2>4, <1>t DEF AwaitedInv
      <4> QED
        BY <4>2, <3>2 DEF ReadLate
    <3> QED
      BY <1>6, <3>1, <3>2
  <2>5. CASE waiting /\ Len(queue) # 1
    <3>0. ~Awaited
      BY <2>5 DEF Awaited
    <3>1. waiting' /\ pc' = pc /\ todo' = todo
      BY <1>6, <2>5, <3>0 DEF HandleInit, ReadLate
    <3>2. /\ Len(queue') = Len(queue) - 1 /\ Len(queue') \in Nat \ {0} /\ queue' # <<>>
          /\ queue'[Len(queue')] = queue[Len(queue)]
      <4>1. Len(queue) \in Nat /\ Len(queue) > 1 /\ Len(queue') = Len(queue) - 1
        BY <2>1, <2>5, <1>q
      <4>2. Len(queue') \in 1..(Len(queue) - 1) /\ Len(queue') + 1 = Len(queue)
        BY <4>1
      <4>3. queue'[Len(queue')] = queue[Len(queue') + 1]
        BY <2>1, <4>2, <1>q
      <4>4. queue' # <<>>
        BY <4>1
      <4> QED
        BY <4>1, <4>2, <4>3, <4>4
    <3>3. \A i \in DOMAIN queue' : i + 1 \in DOMAIN queue /\ queue'[i] = queue[i + 1] /\ i \in Nat
      BY <2>1, <1>q
    <3>4. \A i \in DOMAIN queue' : queue'[i].type = "analyze" => pc = "files" /\ i = Len(queue')
      <4> SUFFICES ASSUME NEW i \in DOMAIN queue', queue'[i].type = "analyze"
                   PROVE  pc = "files" /\ i = Len(queue')
        OBVIOUS
      <4>1. pc = "files" /\ i + 1 = Len(queue)
        BY <3>3, <1>t DEF AwaitedInv
      <4> QED
        BY <4>1, <3>2, <3>3
    <3>5. /\ RulesFor(pc)' = RulesFor(pc)
          /\ getLinterIdFor(queue[Len(queue)].file)' = getLinterIdFor(queue'[Len(queue')].file)
      BY <2>2, <3>1 DEF RulesFor, getLinterIdFor
    <3>6. pc # "idle"
      BY <2>5, <1>t DEF AwaitedInv
    <3>7. IF pc \in LinterIds
          THEN queue'[Len(queue')] = [type |-> "init", id |-> pc,
                                      linter |-> [execution |-> execution, rules |-> RulesFor(pc)]]
          ELSE /\ queue'[Len(queue')].type = "analyze" /\ queue'[Len(queue')].file \in todo
               /\ queue'[Len(queue')].id = getLinterIdFor(queue'[Len(queue')].file)
      BY <3>2, <2>5, <1>t DEF AwaitedInv
    <3>8. IF pc' \in LinterIds
          THEN queue'[Len(queue')] = [type |-> "init", id |-> pc',
                                      linter |-> [execution |-> execution', rules |-> RulesFor(pc)']]
          ELSE /\ queue'[Len(queue')].type = "analyze" /\ queue'[Len(queue')].file \in todo'
               /\ queue'[Len(queue')].id = getLinterIdFor(queue[Len(queue)].file)'
      BY <3>7, <3>5, <3>1, <2>2
    <3> QED
      BY <3>1, <3>2, <3>4, <3>6, <3>8 DEF AwaitedInv
  <2> QED
    BY <2>3, <2>4, <2>5
<1>7. CASE HandleAnalysis
  <2>1. queue # <<>> /\ queue' = Tail(queue) /\ queue[1].type = "analyze"
    BY <1>7, <1>q DEF HandleAnalysis
  <2>2. 1 = Len(queue)
    BY <2>1, <1>q, <1>t DEF AwaitedInv
  <2>3. DOMAIN queue' = {}
    BY <2>1, <2>2, <1>q
  <2> QED
    BY <2>3, <1>7 DEF HandleAnalysis, AwaitedInv
<1>8. CASE \/ \E id \in LinterIds : FinishLate(id)
           \/ UNCHANGED vars
  <2>1. UNCHANGED <<pc, execution, mode, same, todo, waiting, queue>>
    BY <1>8 DEF FinishLate, vars
  <2>2. /\ RulesFor(pc)' = RulesFor(pc)
        /\ getLinterIdFor(queue[Len(queue)].file)' = getLinterIdFor(queue[Len(queue)].file)
    BY <2>1 DEF RulesFor, getLinterIdFor
  <2> QED
    BY <2>1, <2>2, <1>t DEF AwaitedInv
<1>9. CASE Crash
  BY <1>9 DEF Crash, AwaitedInv
<1> QED
  BY <1>1, <1>2, <1>3, <1>4, <1>5, <1>6, <1>7, <1>8, <1>9 DEF Next, Done

---------------------------------------------------------------------------
(* The linters of an execution, and what they answer *)

LEMMA OwnLintersNext == ASSUME ExecutionInvariant, [Next]_vars PROVE OwnLintersInv'
<1> DEFINE Request == InitRequest \cup FileRequest
<1>t. TypeOK /\ queue \in Seq(Request) /\ AwaitedInv /\ OwnLintersInv
  BY DEF ExecutionInvariant, QueueType
<1>d. Len(queue) \in Nat
  BY <1>t
<1>1. CASE \E m \in Modes, unchanged \in SUBSET Files : Execute(m, unchanged)
  BY <1>1 DEF Execute, OwnLintersInv
<1>2. CASE initLinter \/ \E file \in Files : Analyze(file)
  <2>1. /\ ~waiting /\ waiting' /\ \E e : queue' = Append(queue, e)
        /\ UNCHANGED <<pc, execution, mode, linters>>
    BY <1>2 DEF initLinter, Analyze, Post
  <2>2. PICK e : queue' = Append(queue, e)
    BY <2>1
  <2>3. Len(queue') = Len(queue) + 1
    BY <2>2, <1>t
  <2>4. pc \in {"unchanged", "files"} => Len(queue') = 1
    BY <2>1, <2>3, <1>t DEF OwnLintersInv
  <2> QED
    BY <2>1, <2>4, <1>t DEF OwnLintersInv
<1>3. CASE Success \/ Interrupt \/ GiveUp \/ Crash
  BY <1>3 DEF Success, Interrupt, GiveUp, Crash, OwnLintersInv
<1>4. CASE HandleInit
  <2>1. queue # <<>> /\ queue' = Tail(queue) /\ Head(queue).type = "init"
    BY <1>4 DEF HandleInit
  <2>2. /\ Len(queue') = Len(queue) - 1 /\ Head(queue) = queue[1]
        /\ Head(queue) \in Request /\ UNCHANGED <<execution, mode>>
    BY <1>4, <1>t, <2>1, TailFacts DEF HandleInit
  <2>3. CASE ~Awaited
    <3>1. pc' = pc
      BY <1>4, <2>3 DEF HandleInit
    <3>2. pc \notin {"unchanged", "files"}
      BY <2>1, <2>3, HandledIsAwaited
    <3> QED
      BY <3>1, <3>2 DEF OwnLintersInv
  <2>4. CASE Awaited
    <3>1. waiting /\ Len(queue) = 1 /\ Len(queue') = 0 /\ pc' = AfterInit
      BY <1>4, <2>2, <2>4 DEF Awaited, HandleInit
    <3>2. ~waiting'
      BY <1>4, <2>4 DEF HandleInit
    <3>3. pc \in LinterIds
      <4>1. SUFFICES ASSUME pc \notin LinterIds PROVE FALSE
        OBVIOUS
      <4>2. queue[1].type = "analyze"
        BY <4>1, <3>1, <1>t DEF AwaitedInv
      <4> QED
        BY <4>2, <2>1, <2>2
    <3>4. Head(queue) = [type |-> "init", id |-> pc, linter |-> [execution |-> execution, rules |-> RulesFor(pc)]]
      BY <3>1, <3>3, <2>2, <1>t DEF AwaitedInv
    <3>5. Head(queue).id = pc /\ Head(queue).linter = [execution |-> execution, rules |-> RulesFor(pc)]
      BY <3>4
    <3>6. linters' = [linters EXCEPT ![pc] = [execution |-> execution, rules |-> RulesFor(pc)]]
      BY <1>4, <3>5 DEF HandleInit, initializeLinter
    <3>7. linters \in [LinterIds -> Linter]
      BY <1>t DEF TypeOK, Linter
    <3>8. CASE pc = "default"
      <4>1. linters'["default"] = [execution |-> execution, rules |-> "all"]
        BY <3>6, <3>7, <3>8 DEF RulesFor, LinterIds
      <4>2. ~(pc' = "files" /\ mode = "SKIP_UNCHANGED")
        BY <3>1, <3>8 DEF AfterInit
      <4> QED
        BY <4>1, <4>2, <3>1, <3>2, <2>2 DEF OwnLintersInv
    <3>9. CASE pc = "unchanged"
      <4>1. linters'["unchanged"] = [execution |-> execution, rules |-> "ucfg"]
        BY <3>6, <3>7, <3>9 DEF RulesFor, LinterIds
      <4>2. linters'["default"] = [execution |-> execution, rules |-> "all"]
        BY <3>6, <3>7, <3>9, <1>t DEF OwnLintersInv, LinterIds
      <4> QED
        BY <4>1, <4>2, <3>1, <3>2, <2>2 DEF OwnLintersInv
    <3> QED
      BY <3>3, <3>8, <3>9 DEF LinterIds
  <2> QED
    BY <2>3, <2>4
<1>5. CASE HandleAnalysis
  <2>1. queue # <<>> /\ queue' = Tail(queue) /\ queue[1].type = "analyze" /\ 1 \in DOMAIN queue
    BY <1>5, <1>t, TailFacts DEF HandleAnalysis
  <2>2. Len(queue) = 1
    BY <2>1, <1>t DEF AwaitedInv
  <2>3. Len(queue') = 0
    BY <2>1, <2>2, <1>t, TailFacts
  <2> QED
    BY <1>5, <2>3, <1>t DEF HandleAnalysis, OwnLintersInv
<1>6. CASE ReadLate
  <2>1. queue # <<>> /\ Head(queue) = queue[1] /\ Head(queue).type = "late" /\ UNCHANGED pc
    BY <1>6, <1>t, TailFacts DEF ReadLate
  <2>2. pc \notin {"unchanged", "files"}
    <3>1. SUFFICES ASSUME pc \in {"unchanged", "files"} PROVE FALSE
      OBVIOUS
    <3>2. waiting /\ Len(queue) = 1
      BY <2>1, <3>1, HandledIsAwaited
    <3>3. queue[1].type \in {"init", "analyze"}
      BY <3>2, <1>t DEF AwaitedInv
    <3> QED
      BY <3>3, <2>1
  <2> QED
    BY <2>1, <2>2 DEF OwnLintersInv
<1>7. CASE \/ \E id \in LinterIds : FinishLate(id)
           \/ UNCHANGED vars
  BY <1>7, <1>t DEF FinishLate, vars, OwnLintersInv
<1> QED
  BY <1>1, <1>2, <1>3, <1>4, <1>5, <1>6, <1>7 DEF Next, Done

\* The one response that is added is made by the linter of its file.
LEMMA ResponsesNext ==
  ASSUME ExecutionInvariant, [Next]_vars
  PROVE  AnsweredByOwnLinter' /\ FullRulesUnlessUnchanged'
<1>t. AwaitedInv /\ AnsweredByOwnLinter /\ FullRulesUnlessUnchanged /\ queue \in Seq(InitRequest \cup FileRequest)
  BY DEF ExecutionInvariant, QueueType
<1>1. CASE HandleAnalysis
  <2> DEFINE file == Head(queue).file
             r == [execution |-> execution, mode |-> mode, same |-> file \in same, linter |-> linters[Head(queue).id]]
  <2>1. queue # <<>> /\ Head(queue) = queue[1] /\ queue[1].type = "analyze" /\ 1 \in DOMAIN queue
    BY <1>1, <1>t, TailFacts DEF HandleAnalysis
  <2>2. waiting /\ pc = "files" /\ Len(queue) = 1
    BY <2>1, <1>t DEF AwaitedInv
  <2>3. Head(queue).id = getLinterIdFor(file)
    BY <2>1, <2>2, <1>t DEF AwaitedInv, LinterIds
  <2>4. r.linter = linters[getLinterIdFor(file)] /\ r.execution = execution /\ r.mode = mode /\ r.same = (file \in same)
    BY <2>3
  <2>5. /\ linters[getLinterIdFor(file)].execution = execution
        /\ (linters[getLinterIdFor(file)].rules = "ucfg") = (mode = "SKIP_UNCHANGED" /\ file \in same)
    BY <2>2, LinterOfFile
  <2>6. r.linter.execution = r.execution
    BY <2>4, <2>5
  <2>7. (r.linter.rules = "ucfg") = (r.mode = "SKIP_UNCHANGED" /\ r.same)
    BY <2>4, <2>5
  <2>8. responses' = responses \cup {r}
    BY <1>1 DEF HandleAnalysis
  <2> HIDE DEF r
  <2> QED
    BY <2>6, <2>7, <2>8, <1>t DEF AnsweredByOwnLinter, FullRulesUnlessUnchanged
<1>2. CASE UNCHANGED responses
  BY <1>2, <1>t DEF AnsweredByOwnLinter, FullRulesUnlessUnchanged
<1> QED
  BY <1>1, <1>2 DEF Next, vars, Done, Execute, initLinter, Analyze, Post, Success, Interrupt, GiveUp,
                    HandleInit, ReadLate, FinishLate, Crash

---------------------------------------------------------------------------
(***************************************************************************)
(* The inductive invariant holds: what the queue of the bridge still holds  *)
(* of earlier executions is used up before the first linter of an execution *)
(* is in place, since the bridge handles requests in order and a sensor     *)
(* sends no request before the answer to the one before.                    *)
(***************************************************************************)
THEOREM ExecutionInvariantHolds == ASSUME MaxExecutionsAssumption PROVE Spec => []ExecutionInvariant
<1>1. Init => ExecutionInvariant
  BY InitExecution
<1>2. ASSUME ExecutionInvariant, [Next]_vars PROVE ExecutionInvariant'
  <2>1. TypeOK' /\ QueueType'
    BY <1>2, TypeNext
  <2>2. AwaitedInv' /\ OwnLintersInv'
    BY <1>2, AwaitedNext, OwnLintersNext
  <2>3. AnsweredByOwnLinter' /\ FullRulesUnlessUnchanged'
    BY <1>2, ResponsesNext
  <2> QED
    BY <2>1, <2>2, <2>3 DEF ExecutionInvariant
<1> QED
  BY <1>1, <1>2, PTL DEF Spec

(***************************************************************************)
(* For any number of files and executions: a response that a sensor          *)
(* processes was made by a linter of its own execution (AbstractAnalyzer and *)
(* initLinter of the sensors, initializeLinter of the bridge).              *)
(***************************************************************************)
THEOREM AnsweredByOwnLinterHolds == ASSUME MaxExecutionsAssumption PROVE Spec => []AnsweredByOwnLinter
<1>1. ExecutionInvariant => AnsweredByOwnLinter
  BY DEF ExecutionInvariant
<1> QED
  BY <1>1, ExecutionInvariantHolds, PTL

(***************************************************************************)
(* For any number of files and executions: only the UCFG rule is run on a    *)
(* file exactly if the mode of the execution is SKIP_UNCHANGED and the file  *)
(* is unchanged (AnalysisMode.getLinterIdFor).                              *)
(***************************************************************************)
THEOREM FullRulesUnlessUnchangedHolds == ASSUME MaxExecutionsAssumption PROVE Spec => []FullRulesUnlessUnchanged
<1>1. ExecutionInvariant => FullRulesUnlessUnchanged
  BY DEF ExecutionInvariant
<1> QED
  BY <1>1, ExecutionInvariantHolds, PTL

(***************************************************************************)
(* For any number of files and executions, however many requests are given   *)
(* up, no execution is answered with what another one left in the bridge    *)
(* (initLinter of AbstractAnalysis, the linters of the bridge).             *)
(***************************************************************************)
THEOREM ExecutionsKeepApartHolds == ASSUME MaxExecutionsAssumption PROVE Spec => []ExecutionsKeepApart
<1>1. AnsweredByOwnLinter /\ FullRulesUnlessUnchanged => ExecutionsKeepApart
  BY DEF ExecutionsKeepApart
<1> QED
  BY <1>1, AnsweredByOwnLinterHolds, FullRulesUnlessUnchangedHolds, PTL

=============================================================================
