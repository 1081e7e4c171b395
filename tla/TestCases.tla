------------------------------ MODULE TestCases ------------------------------
(***************************************************************************)
(* Rules on test cases: no-code-after-done, the catch clauses of            *)
(* test-check-exception, and assertions-in-tests.  The visitor goes through *)
(* functions, branches and catch clauses in the order of the text; ESLint   *)
(* tells the rules where a segment of the code path starts and where a code *)
(* path ends.                                                               *)
(***************************************************************************)
EXTENDS Integers, Sequences, FiniteSets, SequencesExt

CONSTANTS
  MaxSegments,    \* bound on the segments at which functions and blocks start
  MaxStatements,  \* bound on the expression statements of a file
  Helpers,        \* whether functions stand outside of tests too
  Nested,         \* whether functions stand inside functions
  Programs        \* bodies of functions, for assertions-in-tests

VARIABLES
  functions,   \* the functions the visitor is in
  edges,       \* the edges between segments
  segments, statements, tests,                         \* counters
  calls,       \* calls of done: the statement and the segment
  located,     \* the segment each statement really stands in
  currentCase, currentDoneVariable, currentSegment,    \* no-code-after-done
  doneCall, doneSegment, segmentFirstStatement,
  catchWithDone,                                       \* test-check-exception
  reports, verdict

code == <<functions, edges, segments, statements, tests, calls, located>>
rule == <<currentCase, currentDoneVariable, currentSegment, doneCall, doneSegment, segmentFirstStatement>>
vars == <<code, rule, catchWithDone, reports, verdict>>

Undefined == 0

(***************************************************************************)
(* The code.  A function has the test it is the callback of (0 for none),   *)
(* its segment (0 behind a return) and the blocks that are open in it.      *)
(***************************************************************************)
Function == Last(functions)

WithFunction(f) == [functions EXCEPT ![Len(functions)] = f]

isInsideTest == \E k \in DOMAIN functions : functions[k].test # Undefined

NewSegment(from) ==
  /\ segments' = segments + 1
  /\ edges' = edges \cup {<<s, segments'>> : s \in from \ {Undefined}}
  /\ currentSegment' = segments'

StartFunction(test) ==
  /\ segments < MaxSegments
  /\ NewSegment({})
  /\ functions' = Append(functions, [test |-> test, segment |-> segments', blocks |-> <<>>])

checkForTestCase(test, hasDone) ==
  /\ currentCase' = test
  /\ currentDoneVariable' = IF hasDone THEN test ELSE Undefined

StartTest(hasDone) ==
  /\ functions = <<>>
  /\ tests' = tests + 1
  /\ StartFunction(tests')
  /\ checkForTestCase(tests', hasDone)
  /\ UNCHANGED <<statements, calls, located, doneCall, doneSegment, segmentFirstStatement, catchWithDone, reports, verdict>>

StartHelper ==
  /\ IF functions = <<>> THEN Helpers ELSE Nested /\ Len(functions) < 2 /\ Function.segment # Undefined
  /\ StartFunction(Undefined)
  /\ UNCHANGED <<statements, tests, calls, located, currentCase, currentDoneVariable, doneCall, doneSegment, segmentFirstStatement, catchWithDone, reports, verdict>>

AfterDone(statement, call) == [rule |-> "done", statement |-> statement, call |-> call]

\* What report does besides reporting: the test is not looked at any more.
Forget == doneSegment' = Undefined /\ doneCall' = Undefined /\ currentDoneVariable' = Undefined

\* An expression statement, then the call of done in it if it is one.
ExpressionStatement(done) ==
  LET s == statements + 1
      after == currentSegment # Undefined /\ currentSegment = doneSegment
      calling == done /\ (IF after THEN FALSE ELSE currentDoneVariable # Undefined)
  IN /\ functions # <<>> /\ Function.segment # Undefined /\ statements < MaxStatements
     /\ statements' = s
     /\ located' = Append(located, Function.segment)
     /\ reports' = IF after THEN reports \cup {AfterDone(s, doneCall)} ELSE reports
     /\ segmentFirstStatement' =
          IF currentSegment # Undefined /\ currentSegment \notin DOMAIN segmentFirstStatement
          THEN [q \in DOMAIN segmentFirstStatement \cup {currentSegment} |-> IF q = currentSegment THEN s ELSE segmentFirstStatement[q]]
          ELSE segmentFirstStatement
     /\ IF calling THEN doneCall' = s /\ doneSegment' = currentSegment /\ UNCHANGED currentDoneVariable
        ELSE IF after THEN Forget
        ELSE UNCHANGED <<doneCall, doneSegment, currentDoneVariable>>
     /\ calls' = IF done THEN calls \cup {s} ELSE calls
     /\ catchWithDone' = (catchWithDone \/ (done /\ \E k \in DOMAIN functions : \E l \in DOMAIN functions[k].blocks : functions[k].blocks[l].catch))
     /\ UNCHANGED <<functions, edges, segments, tests, currentCase, currentSegment, verdict>>

\* An if statement or a catch clause; used: whether the exception is used in the clause.
StartBlock(catch, used) ==
  /\ functions # <<>> /\ Function.segment # Undefined /\ Function.blocks = <<>> /\ segments < MaxSegments
  /\ NewSegment({Function.segment})
  /\ functions' = WithFunction([Function EXCEPT !.segment = segments',
       !.blocks = Append(@, [catch |-> catch, used |-> used, before |-> Function.segment, from |-> statements + 1])])
  /\ UNCHANGED <<statements, tests, calls, located, currentCase, currentDoneVariable, doneCall, doneSegment, segmentFirstStatement, catchWithDone, reports, verdict>>

Return ==
  /\ functions # <<>> /\ Function.segment # Undefined /\ Function.blocks # <<>>
  /\ functions' = WithFunction([Function EXCEPT !.segment = Undefined])
  /\ UNCHANGED <<edges, segments, statements, tests, calls, located, rule, catchWithDone, reports, verdict>>

\* The flag is put back inside tests only.
exitCatch(block) ==
  IF catchWithDone /\ isInsideTest
  THEN /\ catchWithDone' = FALSE
       /\ reports' = IF ~block.used THEN reports \cup {[rule |-> "catch", from |-> block.from, to |-> statements]} ELSE reports
  ELSE UNCHANGED <<catchWithDone, reports>>

EndBlock ==
  /\ functions # <<>> /\ Function.blocks # <<>>
  /\ LET block == Last(Function.blocks) IN
     /\ NewSegment({Function.segment, block.before})
     /\ functions' = WithFunction([Function EXCEPT !.segment = segments', !.blocks = Front(@)])
     /\ IF block.catch THEN exitCatch(block) ELSE UNCHANGED <<catchWithDone, reports>>
  /\ UNCHANGED <<statements, tests, calls, located, currentCase, currentDoneVariable, doneCall, doneSegment, segmentFirstStatement, verdict>>

onCodePathEnd(f) ==
  LET next == {s \in DOMAIN segmentFirstStatement : <<doneSegment, s>> \in edges} IN
  /\ currentSegment' = Undefined
  /\ IF f.test # Undefined /\ f.test = currentCase /\ doneSegment # Undefined /\ next # {}
     THEN \E s \in next : reports' = reports \cup {AfterDone(segmentFirstStatement[s], doneCall)} /\ Forget
     ELSE UNCHANGED <<reports, doneSegment, doneCall, currentDoneVariable>>

EndFunction ==
  /\ functions # <<>> /\ Function.blocks = <<>>
  /\ functions' = Front(functions)
  /\ onCodePathEnd(Function)
  /\ UNCHANGED <<edges, segments, statements, tests, calls, located, currentCase, segmentFirstStatement, catchWithDone, verdict>>

(***************************************************************************)
(* assertions-in-tests.  A body is a sequence of assertions, calls of       *)
(* functions of the file and other nodes; "test" is the callback.           *)
(***************************************************************************)
isAssertion(node) == node \in {"assert()", "chai.assert()", "assert.f()", "chai.assert.f()", "expect()", "chai.expect()", "x.should"}

RECURSIVE visit(_, _, _)

\* The verdict on a body from its k-th node on.  Functions that call each other are followed
\* until the stack overflows: depth counts the bodies that are open.
visit(program, path, k) ==
  LET body == program[Last(path)] IN
  IF Len(path) > Cardinality(DOMAIN program) THEN "overflow"
  ELSE IF k > Len(body) THEN "missing"
  ELSE IF isAssertion(body[k]) THEN "found"
  ELSE LET inner == IF body[k] \in DOMAIN program THEN visit(program, Append(path, body[k]), 1) ELSE "missing"
       IN IF inner = "missing" THEN visit(program, path, k + 1) ELSE inner

checkAssertions(program) == visit(program, <<"test">>, 1)

ProgramExit ==
  /\ functions = <<>> /\ segments = 0 /\ verdict.result = "none"
  /\ \E program \in Programs : verdict' = [program |-> program, result |-> checkAssertions(program)]
  /\ UNCHANGED <<code, rule, catchWithDone, reports>>

Done == segments > 0 \/ verdict.result # "none"

End == Done /\ functions = <<>> /\ UNCHANGED vars

Init ==
  /\ functions = <<>> /\ edges = {} /\ segments = 0 /\ statements = 0 /\ tests = 0 /\ calls = {} /\ located = <<>>
  /\ currentCase = Undefined /\ currentDoneVariable = Undefined /\ currentSegment = Undefined
  /\ doneCall = Undefined /\ doneSegment = Undefined /\ segmentFirstStatement = [s \in {} |-> 0]
  /\ catchWithDone = FALSE /\ reports = {} /\ verdict = [program |-> <<>>, result |-> "none"]

Next ==
  \/ verdict.result = "none" /\ ((\E hasDone \in BOOLEAN : StartTest(hasDone)) \/ StartHelper)
  \/ \E done \in BOOLEAN : ExpressionStatement(done)
  \/ \E catch, used \in BOOLEAN : (used => catch) /\ StartBlock(catch, used)
  \/ Return \/ EndBlock \/ EndFunction \/ ProgramExit \/ End

Spec == Init /\ [][Next]_vars

(***************************************************************************)
(* Properties.                                                              *)
(***************************************************************************)
RECURSIVE ReachableFrom(_, _)

ReachableFrom(S, es) ==
  LET T == S \cup {e[2] : e \in {d \in es : d[1] \in S}} IN IF T = S THEN S ELSE ReachableFrom(T, es)

RunsAfter(s, call) ==
  \/ located[s] = located[call] /\ s > call
  \/ located[s] \in ReachableFrom({e[2] : e \in {d \in edges : d[1] = located[call]}}, edges)

\* A statement is reported only if it runs after the call of done it is reported with: the
\* segment in which done was called is remembered across functions and tests.
ReportedCodeRunsAfterDone ==
  \A r \in reports : r.rule = "done" => r.call \in calls /\ RunsAfter(r.statement, r.call)

\* Code that follows done in the same segment is reported before the test ends.
CodeAfterDoneIsReported ==
  (functions = <<>> /\ doneCall # Undefined) => \A s \in 1..statements : located[s] = located[doneCall] => s <= doneCall

\* A catch clause is reported only if it calls done.
ReportedCatchCallsDone ==
  \A r \in reports : r.rule = "catch" => \E s \in calls : r.from <= s /\ s <= r.to

RECURSIVE CalledFrom(_, _)

CalledFrom(S, program) ==
  LET T == S \cup (UNION {ToSet(program[f]) : f \in S} \cap DOMAIN program) IN IF T = S THEN S ELSE CalledFrom(T, program)

\* A test case misses an assertion exactly when none can be reached through the functions it
\* calls.
MissingAssertionsAreReported ==
  verdict.result # "none" =>
    (verdict.result = "missing" <=>
       \A f \in CalledFrom({"test"}, verdict.program) : \A k \in DOMAIN verdict.program[f] : ~isAssertion(verdict.program[f][k]))

-----------------------------------------------------------------------------
\* Bodies of functions for the runs of TestCases.

Bodies(nodes) == UNION {[1..n -> nodes] : n \in 0..2}

\* f calls g, g calls none: no function calls itself.
LayeredPrograms ==
  {[test |-> t, f |-> f, g |-> g] : t \in Bodies({"other", "f", "g", "expect()"}),
     f \in Bodies({"other", "g", "x.should"}), g \in Bodies({"other", "unknown", "assert.f()"})}

RecursivePrograms == {[test |-> t, f |-> f] : t \in Bodies({"f", "expect()"}), f \in Bodies({"f", "other"})}

NoPrograms == {}

=============================================================================
