--------------------------- MODULE ProgressReport ---------------------------
(***************************************************************************)
(* The progress report of a sensor: the sensor's thread, which counts the  *)
(* files and stops or cancels the report, and the report's own thread,     *)
(* which logs a line every period.  The monitor of start, nextFile, stop   *)
(* and cancel is only ever taken by the sensor's thread: the report's      *)
(* thread reads the fields without it.                                     *)
(***************************************************************************)
EXTENDS Naturals, TLAPS

CONSTANT Count      \* the number of files

ASSUME CountAssumption == Count \in Nat

VARIABLES
    cpc,                \* the sensor's thread
    rpc,                \* the report's thread
    outcome,            \* how the sensor ended: "none", "stop" or "cancel"
    currentFileNumber,
    success,            \* AtomicBoolean
    interrupted,        \* AtomicBoolean
    status,             \* interrupt status of the report's thread
    line,               \* the last line logged
    shown,              \* the file number it shows
    finals              \* how often the final line was logged

vars == <<cpc, rpc, outcome, currentFileNumber, success, interrupted, status, line, shown, finals>>
reporterVars == <<line, shown, finals>>

\* Every variable has its type: the report never counts, or shows, more files than
\* start announced.
TypeOK ==
    /\ cpc \in {"new", "working", "success", "interrupt", "join", "returned", "given up"}
    /\ rpc \in {"new", "starting", "first", "test", "sleep", "log", "check", "end"}
    /\ outcome \in {"none", "stop", "cancel"}
    /\ currentFileNumber \in 0..Count
    /\ success \in BOOLEAN
    /\ interrupted \in BOOLEAN
    /\ status \in BOOLEAN
    /\ line \in {"none", "first", "progress", "final"}
    /\ shown \in 0..Count
    /\ finals \in Nat

Init ==
    /\ cpc = "new"
    /\ rpc = "new"
    /\ outcome = "none"
    /\ currentFileNumber = 0
    /\ success = FALSE
    /\ interrupted = FALSE
    /\ status = FALSE
    /\ line = "none"
    /\ shown = 0
    /\ finals = 0

-----------------------------------------------------------------------------
(* The sensor's thread *)

\* start: the first file is announced, then the thread is started.
Start ==
    /\ cpc = "new"
    /\ cpc' = "working"
    /\ rpc' = "starting"
    /\ UNCHANGED <<outcome, currentFileNumber, success, interrupted, status, reporterVars>>

\* Mutant: one file more than announced.
NextFileOnceMore ==
    /\ cpc = "working"
    /\ currentFileNumber <= Count
    /\ currentFileNumber' = currentFileNumber + 1
    /\ UNCHANGED <<cpc, rpc, outcome, success, interrupted, status, reporterVars>>

\* nextFile, at most once for each file.
NextFile ==
    /\ cpc = "working"
    /\ currentFileNumber < Count
    /\ currentFileNumber' = currentFileNumber + 1
    /\ UNCHANGED <<cpc, rpc, outcome, success, interrupted, status, reporterVars>>

\* Mutant: stop raises the flag before it records the success.
StopFlagFirst ==
    /\ \/ cpc = "working" /\ cpc' = "success" /\ outcome' = "stop"
          /\ interrupted' = TRUE /\ UNCHANGED success
       \/ cpc = "success" /\ cpc' = "interrupt" /\ outcome = "stop"
          /\ success' = TRUE /\ UNCHANGED <<outcome, interrupted>>
    /\ UNCHANGED <<rpc, currentFileNumber, status, reporterVars>>

\* stop and cancel: only stop records the success, and does so first.
Stop ==
    /\ \/ cpc = "working" /\ cpc' = "success" /\ outcome' = "stop"
          /\ success' = TRUE /\ UNCHANGED interrupted
       \/ cpc = "success" /\ cpc' = "interrupt" /\ outcome = "stop"
          /\ interrupted' = TRUE /\ UNCHANGED <<outcome, success>>
    /\ UNCHANGED <<rpc, currentFileNumber, status, reporterVars>>

Cancel ==
    /\ cpc = "working"
    /\ outcome' = "cancel"
    /\ interrupted' = TRUE
    /\ cpc' = "interrupt"
    /\ UNCHANGED <<rpc, currentFileNumber, success, status, reporterVars>>

\* thread.interrupt, which is lost on a thread that is not alive: one that has not
\* begun to run may not be, one that ended is not.
Interrupt ==
    /\ cpc = "interrupt"
    /\ cpc' = "join"
    /\ \/ rpc # "end" /\ status' = TRUE
       \/ rpc \in {"starting", "end"} /\ UNCHANGED status
    /\ UNCHANGED <<rpc, outcome, currentFileNumber, success, interrupted, reporterVars>>

\* join: the thread ended.
Join ==
    /\ cpc = "join"
    /\ rpc = "end"
    /\ cpc' = "returned"
    /\ UNCHANGED <<rpc, outcome, currentFileNumber, success, interrupted, status, reporterVars>>

\* join is interrupted: the sensor's thread goes on.
JoinInterrupted ==
    /\ cpc = "join"
    /\ cpc' = "given up"
    /\ UNCHANGED <<rpc, outcome, currentFileNumber, success, interrupted, status, reporterVars>>

-----------------------------------------------------------------------------
(* The report's thread *)

BeginRun ==
    /\ rpc = "starting"
    /\ rpc' = "first"
    /\ UNCHANGED <<cpc, outcome, currentFileNumber, success, interrupted, status, reporterVars>>

LogFirst ==
    /\ rpc = "first"
    /\ rpc' = "test"
    /\ line' = "first"
    /\ UNCHANGED <<cpc, outcome, currentFileNumber, success, interrupted, status, shown, finals>>

\* Mutant: the loop relies on the interrupt status alone.
LoopTestWithoutFlag ==
    /\ rpc = "test"
    /\ rpc' = IF status THEN "check" ELSE "sleep"
    /\ UNCHANGED <<cpc, outcome, currentFileNumber, success, interrupted, status, reporterVars>>

LoopTest ==
    /\ rpc = "test"
    /\ rpc' = IF interrupted \/ status THEN "check" ELSE "sleep"
    /\ UNCHANGED <<cpc, outcome, currentFileNumber, success, interrupted, status, reporterVars>>

\* sleep ends, or it is interrupted: the thread sets flag and status itself.
Sleep ==
    /\ rpc = "sleep"
    /\ \/ rpc' = "log" /\ ~status /\ UNCHANGED <<interrupted, status>>
       \/ rpc' = "check" /\ status /\ interrupted' = TRUE /\ status' = TRUE
    /\ UNCHANGED <<cpc, outcome, currentFileNumber, success, reporterVars>>

\* A line of progress.  The number is read without the monitor, so that an earlier
\* value may be seen.
LogProgress ==
    /\ rpc = "log"
    /\ rpc' = "test"
    /\ line' = "progress"
    /\ shown' \in 0..currentFileNumber
    /\ UNCHANGED <<cpc, outcome, currentFileNumber, success, interrupted, status, finals>>

LogFinal ==
    /\ rpc = "check"
    /\ rpc' = "end"
    /\ IF success THEN line' = "final" /\ shown' = Count /\ finals' = finals + 1
                  ELSE UNCHANGED reporterVars
    /\ UNCHANGED <<cpc, outcome, currentFileNumber, success, interrupted, status>>

-----------------------------------------------------------------------------

Sensor == Start \/ NextFile \/ Stop \/ Cancel \/ Interrupt \/ Join \/ JoinInterrupted

Reporter == BeginRun \/ LogFirst \/ LoopTest \/ Sleep \/ LogProgress \/ LogFinal

Next == Sensor \/ Reporter

Spec == Init /\ [][Next]_vars

\* The report's thread runs, and a sensor that ends its report goes through with it.
FairSpec == Spec /\ WF_vars(Reporter)
                 /\ WF_vars((Stop /\ cpc = "success") \/ Interrupt \/ Join)

-----------------------------------------------------------------------------
(* Properties *)

\* stop and cancel return, also when the interrupt is lost ("this boolean flag
\* ensures that ProgressReport never enter an infinite loop").
StopReturns == (cpc \in {"success", "interrupt", "join"}) ~> (cpc \in {"returned", "given up"})

\* When stop has returned, the log ends with the final line, once; after cancel
\* there is none, and it never comes.
OutcomeIsLogged ==
    /\ cpc = "returned" => (outcome = "stop" <=> line = "final")
    /\ finals <= (IF outcome = "stop" THEN 1 ELSE 0)

\* Why: the flag and the interrupt status are raised by the sensor only, after it
\* recorded the outcome, and the report's thread leaves its loop only for them.
ReportInvariant ==
    /\ outcome = "none" <=> cpc \in {"new", "working"}
    /\ success <=> outcome = "stop"
    /\ interrupted <=> cpc \in {"interrupt", "join", "returned", "given up"}
    /\ status => interrupted
    /\ rpc \in {"check", "end"} => interrupted
    /\ rpc = "end" => line = "final" <=> success
    /\ rpc # "end" => line # "final"
    /\ finals = IF rpc = "end" /\ success THEN 1 ELSE 0
    /\ cpc = "returned" => rpc = "end"

-----------------------------------------------------------------------------
(***************************************************************************)
(* For every number of files: the types, and that the log tells how the    *)
(* analysis ended.                                                         *)
(***************************************************************************)

\* Numbers the report deals with: files counted and lines logged.
LEMMA Numbers ==
    /\ Count \in 0..Count
    /\ \A n \in 0..Count : \A m \in 0..n : m \in 0..Count
    /\ \A n \in Nat : n + 1 \in Nat
    /\ 0 + 1 = 1
  BY CountAssumption DEF CountAssumption

\* The fields of the report keep their types; the number of the current file never
\* exceeds the number of files announced.
THEOREM ReportTypeCorrect == Spec => []TypeOK
<1>1. Init => TypeOK
  <2> SUFFICES ASSUME Init PROVE TypeOK
    OBVIOUS
  <2>1. success \in BOOLEAN /\ interrupted \in BOOLEAN /\ status \in BOOLEAN
    BY Zenon DEF Init
  <2>2. 0 \in 0..Count /\ 0 \in Nat
    BY CountAssumption DEF CountAssumption
  <2> QED
    BY <2>1, <2>2, Zenon DEF Init, TypeOK
<1>2. TypeOK /\ [Next]_vars => TypeOK'
  <2> SUFFICES ASSUME TypeOK, [Next]_vars PROVE TypeOK'
    OBVIOUS
  <2> USE CountAssumption DEF CountAssumption, TypeOK, reporterVars
  <2>1. CASE Start BY <2>1 DEF Start
  <2>2. CASE NextFile BY <2>2 DEF NextFile
  <2>3. CASE Stop BY <2>3 DEF Stop
  <2>4. CASE Cancel BY <2>4 DEF Cancel
  <2>5. CASE Interrupt BY <2>5 DEF Interrupt
  <2>6. CASE Join BY <2>6 DEF Join
  <2>7. CASE JoinInterrupted BY <2>7 DEF JoinInterrupted
  <2>8. CASE BeginRun BY <2>8 DEF BeginRun
  <2>9. CASE LogFirst BY <2>9 DEF LogFirst
  <2>10. CASE LoopTest BY <2>10 DEF LoopTest
  <2>11. CASE Sleep BY <2>11 DEF Sleep
  <2>12. CASE LogProgress
    <3>1. shown' \in 0..Count
      BY <2>12, Numbers, Zenon DEF LogProgress
    <3> QED BY <2>12, <3>1, Zenon DEF LogProgress
  <2>13. CASE LogFinal
    <3>1. finals + 1 \in Nat /\ Count \in 0..Count
      BY Numbers, Zenon
    <3>2. shown' \in 0..Count /\ finals' \in Nat
      BY <2>13, <3>1, Zenon DEF LogFinal
    <3>3. line' \in {"none", "first", "progress", "final"} /\ rpc' = "end"
      BY <2>13, Zenon DEF LogFinal
    <3> QED BY <2>13, <3>2, <3>3, Zenon DEF LogFinal
  <2>14. CASE UNCHANGED vars BY <2>14 DEF vars
  <2> QED
    BY <2>1, <2>2, <2>3, <2>4, <2>5, <2>6, <2>7, <2>8, <2>9, <2>10, <2>11, <2>12, <2>13, <2>14
    DEF Next, Sensor, Reporter
<1> QED
  BY <1>1, <1>2, PTL DEF Spec

\* The order in which the sensor raises success, flag and interrupt status, and the
\* tests of the report's thread, keep the outcome and the log together.
THEOREM ReportInvariantHolds == Spec => []ReportInvariant
<1>1. Init => ReportInvariant
  BY DEF Init, ReportInvariant
<1>2. TypeOK /\ ReportInvariant /\ [Next]_vars => ReportInvariant'
  <2> SUFFICES ASSUME TypeOK, ReportInvariant, [Next]_vars PROVE ReportInvariant'
    OBVIOUS
  <2> USE DEF TypeOK, ReportInvariant, reporterVars
  <2>1. CASE Start BY <2>1 DEF Start
  <2>2. CASE NextFile BY <2>2 DEF NextFile
  <2>3. CASE Stop
    <3>1. CASE cpc = "working" BY <2>3, <3>1 DEF Stop
    <3>2. CASE cpc = "success" BY <2>3, <3>2, Zenon DEF Stop
    <3> QED BY <2>3, <3>1, <3>2, Zenon DEF Stop
  <2>4. CASE Cancel BY <2>4 DEF Cancel
  <2>5. CASE Interrupt BY <2>5 DEF Interrupt
  <2>6. CASE Join BY <2>6 DEF Join
  <2>7. CASE JoinInterrupted BY <2>7 DEF JoinInterrupted
  <2>8. CASE BeginRun BY <2>8 DEF BeginRun
  <2>9. CASE LogFirst BY <2>9 DEF LogFirst
  <2>10. CASE LoopTest BY <2>10 DEF LoopTest
  <2>11. CASE Sleep
    <3>1. CASE status BY <2>11, <3>1, Zenon DEF Sleep
    <3>2. CASE ~status
      <4>1. rpc = "sleep" /\ rpc' = "log"
        BY <2>11, <3>2, Zenon DEF Sleep
      <4>2. UNCHANGED <<cpc, outcome, success, interrupted, status, line, finals>>
        BY <2>11, <3>2, Zenon DEF Sleep
      <4> QED BY <4>1, <4>2
    <3> QED BY <3>1, <3>2
  <2>12. CASE LogProgress BY <2>12 DEF LogProgress
  <2>13. CASE LogFinal
    <3>1. finals = 0
      BY <2>13, Zenon DEF LogFinal
    <3>2. finals + 1 = 1
      BY <3>1, Numbers, Zenon
    <3>3. CASE success BY <2>13, <3>1, <3>2, <3>3, Zenon DEF LogFinal
    <3>4. CASE ~success BY <2>13, <3>1, <3>4, Zenon DEF LogFinal
    <3> QED BY <3>3, <3>4
  <2>14. CASE UNCHANGED vars BY <2>14 DEF vars
  <2> QED
    BY <2>1, <2>2, <2>3, <2>4, <2>5, <2>6, <2>7, <2>8, <2>9, <2>10, <2>11, <2>12, <2>13, <2>14
    DEF Next, Sensor, Reporter
<1> QED
  BY <1>1, <1>2, ReportTypeCorrect, PTL DEF Spec

\* After stop the log ends with the one final line, after cancel it has none.
THEOREM OutcomeLogged == Spec => []OutcomeIsLogged
<1>1. TypeOK /\ ReportInvariant => OutcomeIsLogged
  <2> SUFFICES ASSUME TypeOK, ReportInvariant PROVE OutcomeIsLogged
    OBVIOUS
  <2>1. cpc = "returned" => (outcome = "stop" <=> line = "final")
    BY Zenon DEF ReportInvariant
  <2>2. finals = 0 \/ (finals = 1 /\ outcome = "stop")
    BY Zenon DEF ReportInvariant
  <2>3. finals <= (IF outcome = "stop" THEN 1 ELSE 0)
    BY <2>2
  <2> QED
    BY <2>1, <2>3 DEF OutcomeIsLogged
<1> QED
  BY <1>1, ReportTypeCorrect, ReportInvariantHolds, PTL

=============================================================================
