--------------------------- MODULE TestAssertions ---------------------------
(***************************************************************************)
(* Rules on assertions in tests: chai-determinate-assertion,                *)
(* inverted-assertion-arguments, no-same-argument-assert,                   *)
(* no-incomplete-assertions, test-check-exception (on throw) and            *)
(* no-exclusive-tests.  A statement is a chain such as                      *)
(* expect(a).not.to.throw(b): a sequence of names, each called or not.      *)
(* Statements stand inside the calls of the test framework.                 *)
(***************************************************************************)
EXTENDS Integers, Sequences, FiniteSets, SequencesExt

CONSTANTS
  Chains,        \* statements of this instance
  Constructs,    \* calls of the test framework that may be around them
  MaxConstructs  \* bound on the nested calls

VARIABLES
  around,     \* the calls the visitor is in
  testCases,  \* the stack of inverted-assertion-arguments
  statement,  \* the last statement
  reports     \* the issues of the last node

vars == <<around, testCases, statement, reports>>

Element(name, called, args) == [name |-> name, called |-> called, args |-> args]

Name(name) == Element(name, FALSE, <<>>)

Call(name, args) == Element(name, TRUE, args)

Literals == {"1", "'s'"}

Argument(e, k) == IF k <= Len(e.args) THEN e.args[k] ELSE "undefined"

(***************************************************************************)
(* chai-determinate-assertion.                                              *)
(***************************************************************************)
Pair(first, second, least, object) == [first |-> first, second |-> second, least |-> least, object |-> object]

UncertainPairs ==
  {Pair("not", "throw", 1, FALSE), Pair("not", "include", 1, TRUE), Pair("not", "property", 2, FALSE),
   Pair("not", "ownPropertyDescriptor", 2, FALSE), Pair("not", "members", 0, FALSE), Pair("change", "by", 0, FALSE),
   Pair("not", "increase", 0, FALSE), Pair("not", "decrease", 0, FALSE), Pair("not", "by", 0, FALSE), Pair("not", "finite", 0, FALSE)}

\* The first element of a name, 0 without one.
getElementIndex(chain, name) ==
  LET found == {k \in DOMAIN chain : chain[k].name = name}
  IN IF found = {} THEN 0 ELSE CHOOSE k \in found : \A l \in found : k <= l

neighborIndexes(chain, i, j) == IF i = j - 2 THEN ~chain[i + 1].called ELSE i = j - 1

Condition(e, pair) == Len(e.args) >= pair.least /\ (pair.object => e.args[1] = "{}")

checkWithCondition(chain, pair) ==
  LET i == getElementIndex(chain, pair.first)
      j == getElementIndex(chain, pair.second)
  IN {[rule |-> "uncertain", from |-> i, to |-> j] : x \in {y \in {1} :
        i > 0 /\ j > 0 /\ neighborIndexes(chain, i, j) /\ Condition(chain[j], pair)}}

checkUncertain(chain) ==
  IF Len(chain) > 1 /\ (chain[1].name = "expect" \/ getElementIndex(chain, "should") > 0)
  THEN UNION {checkWithCondition(chain, pair) : pair \in UncertainPairs} ELSE {}

(***************************************************************************)
(* inverted-assertion-arguments: the actual and the expected argument.      *)
(***************************************************************************)
ASSERT_FUNCTIONS == {"equal", "notEqual", "strictEqual", "notStrictEqual", "deepEqual", "notDeepEqual", "closeTo", "approximately"}

NoArguments == <<>>

extractAssertArguments(chain) ==
  IF /\ Len(chain) = 2 /\ chain[2].called /\ Len(chain[2].args) > 1 /\ ~chain[1].called
     /\ chain[1].name = "assert" /\ chain[2].name \in ASSERT_FUNCTIONS
  THEN SubSeq(chain[2].args, 1, 2) ELSE NoArguments

extractExpectArguments(chain) ==
  LET last == Last(chain) IN
  IF /\ Len(chain) > 1 /\ last.called /\ last.name \in {"equal", "eql", "closeTo"}
     /\ chain[1].name = "expect" /\ chain[1].called
     /\ \A k \in 2..(Len(chain) - 1) : ~chain[k].called
  THEN <<Argument(chain[1], 1), Argument(last, 1)>> ELSE NoArguments

extractFailArguments(chain) ==
  IF /\ Len(chain) = 2 /\ chain[2].called /\ Len(chain[2].args) > 1 /\ ~chain[1].called
     /\ chain[1].name \in {"assert", "expect", "should"} /\ chain[2].name = "fail"
  THEN SubSeq(chain[2].args, 1, 2) ELSE NoArguments

extractAssertionsArguments(chain) ==
  LET asserted == extractAssertArguments(chain)
      expected == extractExpectArguments(chain)
  IN IF asserted # NoArguments THEN asserted ELSE IF expected # NoArguments THEN expected ELSE extractFailArguments(chain)

checkInvertedArguments(chain) ==
  LET args == extractAssertionsArguments(chain)
  IN {[rule |-> "inverted", args |-> args] : x \in {y \in {1} : args # NoArguments /\ args[1] \in Literals /\ args[2] \notin Literals}}

(***************************************************************************)
(* no-same-argument-assert.  The innermost expression of the chain is taken *)
(* for the target of should.                                                *)
(***************************************************************************)
ArgumentsOf(chain) == FlattenSeq([k \in DOMAIN chain |-> chain[k].args])

findDuplicates(args) ==
  {[rule |-> "same", arg |-> args[i]] :
     i \in {k \in DOMAIN args : args[k] \notin Literals /\ \E j \in (k + 1)..Len(args) : args[j] = args[k]}}

checkAssert(chain) ==
  IF Len(chain) = 2 /\ chain[2].called /\ ~chain[1].called /\ chain[1].name = "assert" THEN findDuplicates(chain[2].args) ELSE {}

checkExpect(chain) == IF chain[1].name = "expect" THEN findDuplicates(ArgumentsOf(chain)) ELSE {}

checkShould(chain) ==
  IF chain[1].name = "should" THEN findDuplicates(ArgumentsOf(chain))
  ELSE IF \E k \in 2..Len(chain) : chain[k].name = "should" THEN findDuplicates(<<chain[1].name>> \o ArgumentsOf(chain))
  ELSE {}

checkSame(chain) == checkAssert(chain) \cup checkExpect(chain) \cup checkShould(chain)

(***************************************************************************)
(* no-incomplete-assertions.  Of the two lists of names those stand here    *)
(* that the instances use.                                                  *)
(***************************************************************************)
assertionFunctions == {"include", "equal", "throw", "property", "members", "change", "increase", "decrease", "by", "fail"}

gettersOrModifiers == {"to", "be", "not", "deep", "should"}

IsExpectCall(e) == e.name = "expect" /\ e.called /\ Argument(e, 1) # "1"

\* The objects of the chain are followed down to its first two names.
isTestAssertion(chain) ==
  \/ ~chain[1].called /\ chain[2].name = "should"
  \/ IsExpectCall(chain[1])
  \/ ~chain[1].called /\ chain[1].name \in {"assert", "expect", "should"}

checkIncomplete(chain) ==
  LET last == Last(chain) IN
  IF \/ Len(chain) > 1 /\ ~last.called /\ isTestAssertion(chain) /\ last.name \in assertionFunctions \cup gettersOrModifiers
     \/ Len(chain) = 1 /\ IsExpectCall(last)
  THEN {[rule |-> "incomplete", name |-> last.name]} ELSE {}

(***************************************************************************)
(* test-check-exception, on assertions of throw.                            *)
(***************************************************************************)
RECURSIVE Unnegated(_, _)

\* The objects from k down: should before not, or a call of expect at the end.
Unnegated(chain, k) ==
  IF k = 1 \/ chain[k].called THEN k = 1 /\ chain[1].called /\ chain[1].name = "expect"
  ELSE IF chain[k].name = "not" THEN FALSE
  ELSE IF chain[k].name = "should" THEN TRUE
  ELSE Unnegated(chain, k - 1)

isThrowAssertWithoutNot(chain) ==
  Len(chain) > 1 /\ Last(chain).called /\ Last(chain).name = "throw" /\ Unnegated(chain, Len(chain) - 1)

checkThrow(chain) ==
  {[rule |-> "throw"] : x \in {y \in {1} : isThrowAssertWithoutNot(chain) /\ Last(chain).args \in {<<>>, <<"Error">>}}}

(***************************************************************************)
(* Calls of the test framework: [name, modifier].                           *)
(***************************************************************************)
TEST_CONSTRUCTS == {"describe", "context", "it", "specify", "before", "after", "beforeEach", "afterEach"}

isTestConstruct(c, names) == c.name \in names /\ c.modifier \in {"", "only", "skip"}

isTestCase(c) == isTestConstruct(c, {"it", "specify"})

checkOnly(c) ==
  IF c.modifier = "only" /\ c.name \in {"describe", "it", "test"} THEN {[rule |-> "exclusive"]} ELSE {}

Enter ==
  /\ Len(around) < MaxConstructs
  /\ \E c \in Constructs :
       /\ around' = Append(around, c)
       /\ testCases' = IF isTestCase(c) THEN Append(testCases, c) ELSE testCases
       /\ reports' = checkOnly(c)
  /\ statement' = <<>>

onExit(c, stack) == IF isTestCase(c) /\ stack # <<>> THEN Front(stack) ELSE stack

Leave ==
  /\ around # <<>>
  /\ around' = Front(around)
  /\ testCases' = onExit(Last(around), testCases)
  /\ statement' = <<>> /\ reports' = {}

isInsideTest == \E k \in DOMAIN around : isTestConstruct(around[k], TEST_CONSTRUCTS)

\* Chai is imported by the file.
Statement ==
  \E chain \in Chains :
    /\ statement = <<>>
    /\ statement' = chain
    /\ reports' = checkUncertain(chain) \cup checkSame(chain) \cup checkIncomplete(chain)
                  \cup (IF testCases # <<>> THEN checkInvertedArguments(chain) ELSE {})
                  \cup (IF isInsideTest THEN checkThrow(chain) ELSE {})
    /\ UNCHANGED <<around, testCases>>

Init == around = <<>> /\ testCases = <<>> /\ statement = <<>> /\ reports = {}

Next == Enter \/ Leave \/ Statement

Spec == Init /\ [][Next]_vars

(***************************************************************************)
(* Properties.                                                              *)
(***************************************************************************)
Reported(rule) == \E r \in reports : r.rule = rule

\* The comment of neighborIndexes: the first element applies to the second if no call is
\* between them.
Applies(chain, i, j) == i < j /\ \A k \in (i + 1)..(j - 1) : ~chain[k].called

\* The two elements reported as uncertain belong to one assertion.
UncertainElementsApply ==
  \A r \in reports : r.rule = "uncertain" => Applies(statement, r.from, r.to)

UsedTogether(chain) ==
  \E pair \in UncertainPairs : \E i, j \in DOMAIN chain :
    chain[i].name = pair.first /\ chain[j].name = pair.second /\ Applies(chain, i, j) /\ Condition(chain[j], pair)

\* Elements described as uncertain "when used together" are reported, however many words
\* such as to and deep are between them.
UncertainAssertionsAreReported ==
  (statement # <<>> /\ statement[1].name = "expect" /\ UsedTogether(statement)) => Reported("uncertain")

\* Arguments are reported as inverted in a test case only, where a literal stands for the
\* actual value and none for the expected one, and both are there.
InvertedArgumentsAreInverted ==
  \A r \in reports : r.rule = "inverted" =>
    /\ \E k \in DOMAIN around : around[k].name \in {"it", "specify"}
    /\ r.args[1] \in Literals /\ r.args[2] \notin Literals

\* The test cases around a statement are exactly the ones of the stack.
TestCasesAreAround ==
  testCases = SelectSeq(around, LAMBDA c : c.name \in {"it", "specify"})

\* The report is on the expected argument: there must be one.
InvertedArgumentsExist ==
  \A r \in reports : r.rule = "inverted" => "undefined" \notin {r.args[k] : k \in 1..2}

\* "... when the expected argument of an assertion function is a hard-coded value and the
\* actual argument is not."
InvertedAsDescribed ==
  \A r \in reports : r.rule = "inverted" => r.args[2] \in Literals /\ r.args[1] \notin Literals

\* The target of a chain with should: everything before it.
TargetLength(chain) == LET k == getElementIndex(chain, "should") IN IF k = 0 THEN 1 ELSE k - 1

Compared(chain) ==
  LET n == TargetLength(chain)
  IN (IF getElementIndex(chain, "should") > 1 THEN <<IF n = 1 THEN chain[1].name ELSE "member">> ELSE <<>>) \o ArgumentsOf(chain)

\* An assertion is reported for the same argument twice exactly when its target and
\* arguments hold the same expression twice.
SameArgumentsAreReported ==
  (statement # <<>> /\ (statement[1].name \in {"expect", "should"} \/ getElementIndex(statement, "should") > 1)) =>
    (Reported("same") <=> (\E i, j \in DOMAIN Compared(statement) :
        i < j /\ Compared(statement)[i] = Compared(statement)[j] /\ Compared(statement)[i] \notin Literals))

\* What Chai checks when the statement runs: a function that is called, or "ok".
AssertsSomething(chain) ==
  \E k \in 2..Len(chain) : (chain[k].called /\ chain[k].name \in assertionFunctions) \/ chain[k].name = "ok"

IsChaiStatement(chain) == IsExpectCall(chain[1]) \/ getElementIndex(chain, "should") > 1

\* A statement of expect, or of should on a variable, that checks nothing is reported.
IdleAssertionsAreReported ==
  (statement # <<>> /\ IsChaiStatement(statement) /\ ~AssertsSomething(statement)) => Reported("incomplete")

\* An assertion of throw is reported in tests only, and never when it is negated.
ThrowReportsAreNotNegated ==
  Reported("throw") =>
    LET n == Len(statement)
        first == getElementIndex(statement, "should")
    IN /\ isInsideTest
       /\ \A k \in (IF first = 0 THEN 1 ELSE first)..n : statement[k].name # "not"

-----------------------------------------------------------------------------
\* Chains and calls for the runs of TestAssertions.

Chain(heads, words, n) == {<<h>> \o w : h \in heads, w \in UNION {[1..m -> words] : m \in 0..n}}

Expect == {Call("expect", <<"a">>)}
Plain == {Name("x"), Name("a"), Name("should")}

Uncertain == {Name("not"), Name("to"), Name("deep"), Call("throw", <<>>), Call("throw", <<"Error">>), Call("include", <<"{}">>), Call("include", <<"a">>),
              Call("change", <<"a">>), Call("by", <<"1">>)}

CertainChains == Chain(Expect, Uncertain, 3) \cup Chain({Name("x")}, {Name("should")} \cup Uncertain, 3)

DeepChains == Chain(Expect, {Name("not"), Name("to"), Name("deep"), Call("include", <<"{}">>)}, 4)

Compare == {Name("to"), Name("be"), Name("ok"), Name("equal"), Call("equal", <<"a">>), Call("equal", <<"b">>), Call("equal", <<"1">>), Call("include", <<"a", "'s'">>)}

CompareChains ==
  Chain({Call("expect", <<"a">>), Call("expect", <<"'s'">>)}, Compare, 2)
  \cup {<<Name(h), Name("should")>> \o w : h \in {"a", "b"}, w \in UNION {[1..m -> Compare] : m \in 0..2}}
  \cup {<<Name(h), Call(f, <<p, q>>)>> : h \in {"assert", "expect"}, f \in {"equal", "fail", "ok"}, p \in {"a", "1", "'s'"}, q \in {"a", "1", "b"}}

\* The target of should is a property or the result of a call; arguments are missing.
MemberChains == Chain({Name("a")}, {Name("p"), Name("should"), Call("equal", <<"a">>)}, 3)

CalledChains == Chain({Call("f", <<>>), Name("a")}, {Name("p"), Name("should"), Name("be"), Call("equal", <<"b">>)}, 3)

EmptyChains == Chain({Call("expect", <<"1">>)}, {Name("to"), Call("equal", <<>>)}, 2)

Construct(name, modifier) == [name |-> name, modifier |-> modifier]

MCConstructs == {Construct("describe", ""), Construct("it", ""), Construct("it", "only"), Construct("specify", "skip"), Construct("f", "")}

TestOnly == {Construct("it", "")}

=============================================================================
